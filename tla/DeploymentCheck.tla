--------------------------- MODULE DeploymentCheck ---------------------------
(***************************************************************************)
(* The deployment self-check: what run_deployment_check of lib.rs gathers, *)
(* the fourteen items of deployment_check.rs, the record that is exported  *)
(* and what ssdev-cutover-evidence asks of such a record.                  *)
(*                                                                         *)
(* A site is a desktop as the check finds it: [windows, architecture,      *)
(* version, policy, config, identity, store, hosts, readable, directories, *)
(* active, startable, after, ledger, pages, start, preflights,             *)
(* diagnostics]. store is None in unsigned mode; directories are those on  *)
(* disk, active the plugins that are served, after those on disk when the  *)
(* hosts were tried; pages counts business windows by state; start is what *)
(* the managed processes were launched from: [policy, selected, files,     *)
(* running].                                                               *)
(***************************************************************************)
EXTENDS AccessPolicy, PluginSupply

Pass == "pass"
Warning == "warning"
Fail == "fail"
Info == "info"

Services(plugins) == UNION {DOMAIN plugin.services : plugin \in plugins}
Plugins(site) == {directory.plugin : directory \in Manifests(site.directories)}
Inspected(site) == IF site.readable THEN Plugins(site) ELSE {}

\* What is tried when the check is deep: each host, and whether the plugins
\* are what they were.
PreflightFails(site) == ~site.readable \/ ~site.startable \/ site.after # Plugins(site)

-----------------------------------------------------------------------------
(* The items.                                                              *)

BusinessFrontend(site, deep) ==
    CASE site.pages.timedOut > 0 -> Fail
      [] site.pages.timedOut = 0 /\ site.pages.ready > 0 -> Pass
      [] site.pages.timedOut = 0 /\ site.pages.ready = 0 ->
           IF deep THEN Fail
           ELSE IF site.pages.loading + site.pages.navigating > 0 THEN Warning ELSE Info

ProjectConfig(site) ==
    IF ValidConfig(site.config) /\ BusinessOrigins(site.config) # {} THEN Pass ELSE Fail

PluginTrust(site) ==
    IF site.store = None THEN Warning
    ELSE IF \E key \in DOMAIN site.store : site.store[key].status = "active" THEN Pass ELSE Fail

PluginHosts(site) ==
    IF ~site.windows THEN Info ELSE IF site.hosts = {"x86", "x64"} THEN Pass ELSE Fail

PluginInventory(site) ==
    IF \/ ~site.readable \/ LoadFailures(site.directories) # {}
       \/ Services(Plugins(site)) # Services(site.active) \/ Plugins(site) # site.active
    THEN Fail ELSE IF Services(Plugins(site)) = {} THEN Warning ELSE Pass

\* Mutant: a route is only missed when a page is missed, too.
RoutePolicyEither(site) ==
    LET routes == PolicyRoutes(Inspected(site)) origins == BusinessOrigins(site.config) IN
    CASE ~Authorize(site.policy, site.config) -> Fail
      [] Authorize(site.policy, site.config) /\ routes = {} -> Info
      [] Authorize(site.policy, site.config) /\ routes # {} ->
           IF /\ UncoveredOrigins(site.policy, origins, routes) # {}
              /\ UncoveredRoutes(site.policy, origins, routes) # {}
           THEN Fail ELSE Pass

RoutePolicy(site) ==
    LET routes == PolicyRoutes(Inspected(site)) origins == BusinessOrigins(site.config) IN
    CASE ~Authorize(site.policy, site.config) -> Fail
      [] Authorize(site.policy, site.config) /\ routes = {} -> Info
      [] Authorize(site.policy, site.config) /\ routes # {} ->
           IF \/ UncoveredOrigins(site.policy, origins, routes) # {}
              \/ UncoveredRoutes(site.policy, origins, routes) # {}
           THEN Fail ELSE Pass

TrackedInvocations(site) ==
    IF site.ledger = None THEN Fail
    ELSE IF ~site.ledger.accepting \/ site.ledger.failures > 0 THEN Warning ELSE Pass

PluginPreflight(site, deep) ==
    CASE deep -> IF PreflightFails(site) THEN Fail ELSE Pass
      [] ~deep -> IF site.preflights > 0 THEN Warning ELSE Info

ManagedProcesses(site) ==
    IF ToSet(site.config.processes) # ToSet(site.start.selected) \/ LaunchFailures(site.start) > 0
    THEN Fail ELSE Pass

Items(site, deep) ==
    [webviewRuntime |-> Pass,
     businessFrontend |-> BusinessFrontend(site, deep),
     projectIdentity |-> IF site.identity THEN Pass ELSE Fail,
     projectConfig |-> ProjectConfig(site),
     originPolicy |-> IF Authorize(site.policy, site.config) THEN Pass ELSE Fail,
     pluginTrust |-> PluginTrust(site),
     pluginHosts |-> PluginHosts(site),
     pluginInventory |-> PluginInventory(site),
     pluginRoutePolicy |-> RoutePolicy(site),
     trackedInvocations |-> TrackedInvocations(site),
     pluginPreflight |-> PluginPreflight(site, deep),
     managedProcesses |-> ManagedProcesses(site),
     diagnostics |-> IF site.diagnostics THEN Pass ELSE Warning,
     appUpdate |-> Info]

-----------------------------------------------------------------------------
(* The report and the record.                                              *)

Counted(items, status) == Cardinality({id \in DOMAIN items : items[id] = status})

\* evaluate, for a check that was asked to be deep or not.
Evaluate(site, asked) ==
    LET deep == asked /\ site.windows
        items == Items(site, deep)
        ready == Counted(items, Fail) = 0
    IN  [deep |-> deep, deepAvailable |-> site.windows, ready |-> ready,
         deliveryReady |-> site.windows /\ deep /\ ready,
         passed |-> Counted(items, Pass), warnings |-> Counted(items, Warning),
         failures |-> Counted(items, Fail), items |-> items]

\* export_deployment_check: always deep.
Export(site) ==
    [version |-> site.version, os |-> IF site.windows THEN "windows" ELSE "other",
     architecture |-> site.architecture, report |-> Evaluate(site, TRUE)]

\* validate_for_delivery
ValidForDelivery(record, version) ==
    LET report == record.report IN
    /\ record.os = "windows" /\ record.architecture \in {"x86", "x86_64"}
    /\ record.version = version
    /\ report.deep /\ report.deepAvailable /\ report.ready /\ report.deliveryReady
    /\ report.failures = 0
    /\ report.passed = Counted(report.items, Pass)
    /\ report.warnings = Counted(report.items, Warning)
    /\ report.failures = Counted(report.items, Fail)
    /\ DOMAIN report.items =
         {"webviewRuntime", "businessFrontend", "projectIdentity", "projectConfig", "originPolicy",
          "pluginTrust", "pluginHosts", "pluginInventory", "pluginRoutePolicy",
          "trackedInvocations", "pluginPreflight", "diagnostics", "managedProcesses", "appUpdate"}
    /\ report.items.projectIdentity = Pass /\ report.items.businessFrontend = Pass
=============================================================================
