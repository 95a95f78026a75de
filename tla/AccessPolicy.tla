---------------------------- MODULE AccessPolicy ----------------------------
(***************************************************************************)
(* What a project is allowed: the signed origin policy                     *)
(* (ssdev-origin-policy) says which pages may call which routes, the       *)
(* configuration (ssdev-config) which pages there are, and the commands    *)
(* that change the configuration or the plugins compare the two            *)
(* (desktop.rs, lib.rs).  The signed process policy                        *)
(* (ssdev-process-policy) says which processes a start may launch.         *)
(*                                                                         *)
(* An address is [scheme, host, path]; its origin is the first two.        *)
(* A policy document is [grants, configured, navigation, external, http],  *)
(* grants being a sequence of [origin, services], services one of          *)
(* [service, methods], and configured allow_configured_business_origins.   *)
(* A configuration is [website, environments, trusted, external,           *)
(* bindings, processes, catalog, catalogSignature]; an environment is      *)
(* [name, url], a binding [shortcut, enabled], and an address or a         *)
(* catalog that is not set is None.  Plugins are [local, services].        *)
(* Sizes, counts and the spelling of names are left out.                   *)
(***************************************************************************)
EXTENDS PluginContract, FiniteSets

Origin(url) == [scheme |-> url.scheme, host |-> url.host]
OriginOf(urls) == {Origin(urls[i]) : i \in DOMAIN urls}

-----------------------------------------------------------------------------
(* The configuration.                                                      *)

\* Environment URLs are compared without their trailing slash.
Trimmed(url) == IF url.path = "/" THEN [url EXCEPT !.path = ""] ELSE url

ValidConfig(config) ==
    /\ IsInjective([i \in DOMAIN config.environments |-> config.environments[i].name])
    /\ IsInjective([i \in DOMAIN config.environments |-> Trimmed(config.environments[i].url)])
    /\ (config.catalog = None) = (config.catalogSignature = None)
    /\ IsInjective([i \in DOMAIN SelectSeq(config.bindings, LAMBDA b : b.enabled) |->
                      SelectSeq(config.bindings, LAMBDA b : b.enabled)[i].shortcut])
    /\ IsInjective(config.processes)

BusinessOrigins(config) ==
    (IF config.website = None THEN {} ELSE {Origin(config.website)})
    \cup {Origin(config.environments[i].url) : i \in DOMAIN config.environments}

-----------------------------------------------------------------------------
(* The origin policy.                                                      *)

SchemeAllowed(policy, origin) == origin.scheme = "https" \/ policy.http

\* from_document: every part of it is named once, and no origin is beyond
\* the schemes the document allows.
ValidPolicy(policy) ==
    /\ policy.grants # <<>>
    /\ IsInjective([i \in DOMAIN policy.grants |-> policy.grants[i].origin])
    /\ \A grant \in ToSet(policy.grants) :
         /\ SchemeAllowed(policy, grant.origin)
         /\ grant.services # <<>>
         /\ IsInjective([i \in DOMAIN grant.services |-> grant.services[i].service])
         /\ \A service \in ToSet(grant.services) :
              service.methods # <<>> /\ IsInjective(service.methods)
    /\ \A origins \in {policy.navigation, policy.external} :
         IsInjective(origins) /\ \A i \in DOMAIN origins : SchemeAllowed(policy, origins[i])

Granted(policy) == {policy.grants[i].origin : i \in DOMAIN policy.grants}

\* authorize: the pages of a configuration are ones the policy knows.
Authorize(policy, config) ==
    /\ ValidConfig(config)
    /\ \A origin \in BusinessOrigins(config) :
         /\ policy.configured \/ origin \in Granted(policy)
         /\ SchemeAllowed(policy, origin)
    /\ OriginOf(config.trusted) \subseteq Granted(policy) \cup ToSet(policy.navigation)
    /\ OriginOf(config.external) \subseteq Granted(policy) \cup ToSet(policy.external)

\* authorize_plugin_invocation
AuthorizeInvocation(policy, origin, service, method) ==
    IF policy.configured THEN SchemeAllowed(policy, origin)
    ELSE \E grant \in ToSet(policy.grants) :
           /\ grant.origin = origin
           /\ \E allowed \in ToSet(grant.services) :
                allowed.service = service /\ method \in ToSet(allowed.methods)

\* The routes of plugins, as <<service, method>>.
\* Mutant: what a method is also called is not counted.
NamedRoutes(plugins) ==
    UNION {UNION {{service} \X {method.name : method \in ToSet(plugin.services[service].methods)}
                  : service \in DOMAIN plugin.services} : plugin \in plugins}

PolicyRoutes(plugins) ==
    UNION {UNION {{service} \X Routes(plugin.services[service])
                  : service \in DOMAIN plugin.services} : plugin \in plugins}

\* invocation_coverage
UncoveredRoutes(policy, origins, routes) ==
    {route \in routes :
       ~\E origin \in origins : AuthorizeInvocation(policy, origin, route[1], route[2])}

UncoveredOrigins(policy, origins, routes) ==
    {origin \in origins :
       ~\E route \in routes : AuthorizeInvocation(policy, origin, route[1], route[2])}

-----------------------------------------------------------------------------
(* The commands.                                                           *)

Signed(plugins) == {plugin \in plugins : ~plugin.local}

\* signed_plugin_route_policy_coverage
SignedCovered(policy, config, plugins) ==
    /\ Authorize(policy, config)
    /\ UncoveredRoutes(policy, BusinessOrigins(config), PolicyRoutes(Signed(plugins))) = {}

\* validate_config_signed_plugin_route_change, and what replaces it then:
\* the routes are only looked at when the pages change.
ReplaceConfig(policy, current, candidate, plugins) ==
    /\ Authorize(policy, candidate)
    /\ \/ BusinessOrigins(current) = BusinessOrigins(candidate)
       \/ SignedCovered(policy, candidate, plugins)

\* validate_signed_plugin_activation_routes
ActivatePlugins(policy, config, plugins) == SignedCovered(policy, config, plugins)

\* require_business and require_plugin_invocation: what a page may call.
MayInvoke(policy, config, origin, route) ==
    /\ Authorize(policy, config)
    /\ origin \in BusinessOrigins(config)
    /\ AuthorizeInvocation(policy, origin, route[1], route[2])

-----------------------------------------------------------------------------
(* Managed processes. A policy is a sequence of [id, path, content,        *)
(* singleton]; files maps paths to contents, and running is the set of     *)
(* paths of the processes there are, as the system names them.             *)

ValidProcesses(policy) == IsInjective([i \in DOMAIN policy |-> policy[i].id])

\* canonicalize gives a path of another form than the system's names have.
Canonical(path) == [form |-> "verbatim", path |-> path]
ImageName(path) == [form |-> "plain", path |-> path]

Occupied(process, running) ==
    process.singleton /\ Canonical(process.path) \in {ImageName(path) : path \in running}

\* launch: the content is checked, then whether it runs, then it is started.
Launch(process, files, running) ==
    CASE process.path \notin DOMAIN files -> "failed"
      [] files[process.path] # process.content -> "failed"
      [] Occupied(process, running) -> "running"
      [] OTHER -> "started"

\* launch_selected: each id once, in the order they are selected in.
LaunchSelected(policy, selected, files, running) ==
    LET Chosen(id) == {process \in ToSet(policy) : process.id = id}
        Step(report, id) ==
          IF id \in DOMAIN report.outcome THEN report
          ELSE LET outcome == IF Chosen(id) = {} THEN "failed"
                              ELSE Launch(CHOOSE p \in Chosen(id) : TRUE, files, report.running)
               IN  [outcome |-> [known \in DOMAIN report.outcome \cup {id} |->
                                   IF known = id THEN outcome ELSE report.outcome[known]],
                    running |-> report.running
                                \cup (IF outcome = "started"
                                      THEN {p.path : p \in Chosen(id)} ELSE {})]
    IN  FoldLeft(Step, [outcome |-> <<>>, running |-> running], selected)

\* launch_managed_processes: how many of a start's processes failed. Without
\* a policy all of them do, and with a bad one it is at least one.
LaunchFailures(start) ==
    CASE start.policy = None -> Len(start.selected)
      [] start.policy # None /\ ~ValidProcesses(start.policy) ->
           IF start.selected = <<>> THEN 1 ELSE Len(start.selected)
      [] OTHER ->
           LET outcome == LaunchSelected(start.policy, start.selected, start.files, start.running).outcome
           IN  Cardinality({id \in DOMAIN outcome : outcome[id] = "failed"})
=============================================================================
