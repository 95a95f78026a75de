------------------------------ MODULE Deliveries ------------------------------
(***************************************************************************)
(* Decisions about what is delivered to a desktop and what it may use: a   *)
(* publisher makes packages and a catalog, a desktop installs from them, a *)
(* project's configuration and plugins are held against its policy.  As in *)
(* Contracts a question is chosen at first and answered then.  What may    *)
(* change between two reads of the program is part of the question: the    *)
(* desktop as it is seen, as it is when the command starts, and as it is   *)
(* when the command activates.                                             *)
(***************************************************************************)
EXTENDS Contracts, PluginSupply, AccessPolicy, ProjectDelivery

CONSTANTS
    Stagings,     \* [store, later, requested, staged, key, genuine]
    Publications, \* [store, files, withdrawals, issued, expires, now]
    Offers,       \* [seen, now, later, offered, catalog, signature, time, id, served]
    Refusals,     \* as Offers, mostly of what is refused: signatures, times, versions
    Handovers,    \* [seen, now, later, package, served]
    Projects,     \* [policy, config, candidate, plugins, added]
    Exports,      \* [source, staged, drifted]
    Imports       \* [seen, now, later, file, again, signature]

AskDelivery ==
    \/ question \in [kind : {"finalize"}, of : Stagings]
    \/ question \in [kind : {"publish"}, of : Publications]
    \/ question \in [kind : {"acquire"}, of : Offers]
    \/ question \in [kind : {"acquire"}, of : Refusals]
    \/ question \in [kind : {"handover"}, of : Handovers]
    \/ question \in [kind : {"authorize"}, of : Projects]
    \/ question \in [kind : {"export"}, of : Exports]
    \/ question \in [kind : {"import"}, of : Imports]

\* A signing request is made of a staging directory and finalized later.
Finalize ==
    /\ Decide("finalize")
    /\ LET q == question.of IN
       decision' = FinalizePackage(q.later, q.staged,
                                   SigningRequest(q.store, q.requested, q.key), q.genuine)

Publish ==
    /\ Decide("publish")
    /\ LET q == question.of IN
       decision' = CreateCatalog(q.store, q.files, q.withdrawals, q.issued, q.expires, q.now)

\* What was offered is confirmed, and installed from the catalog there is then.
Confirmable(q) ==
    LET found == CollectUpdates(q.seen, q.offered, q.signature.key, q.id, TRUE)
    IN  found.updates \cup found.rollbacks

Acquire ==
    /\ Decide("acquire")
    /\ LET q == question.of IN
       decision' = {<<plan, InstallFromCatalog(q.now, q.later, q.signature, q.catalog, q.time,
                                               q.id, plan.entry.version, plan, q.served)>> :
                     plan \in Confirmable(q)}

Handover ==
    /\ Decide("handover")
    /\ LET q == question.of plan == LocalPlan(q.seen, q.package) IN
       decision' = IF plan = None THEN Refused
                   ELSE <<plan, InstallPackage(q.now, q.later, q.served, plan)>>

\* Each of the two is decided from the project as it is.
AuthorizeProject ==
    /\ Decide("authorize")
    /\ LET q == question.of IN
       decision' = [config |-> ReplaceConfig(q.policy, q.config, q.candidate, q.plugins),
                    plugins |-> ActivatePlugins(q.policy, q.config, q.plugins \cup q.added)]

\* The desktop was started, and exports; the disk may be changed meanwhile.
Started(desktop) == [desktop EXCEPT !.disk = MigrateLegacyIntegrity(desktop.disk)]

ExportProject ==
    /\ Decide("export")
    /\ LET q == question.of IN
       decision' = ExportBundle(Started(q.source), q.staged, q.drifted)

\* A preview is confirmed, and the file and the desktop are read again.
ImportProject ==
    /\ Decide("import")
    /\ LET q == question.of preview == PrepareProject(q.seen, q.file, q.signature) IN
       decision' = IF preview = None THEN Refused
                   ELSE <<preview, ImportBundle(q.now, q.later, q.again, q.signature, preview.plan)>>

DecideDelivery ==
    \/ Finalize \/ Publish \/ Acquire \/ Handover
    \/ AuthorizeProject \/ ExportProject \/ ImportProject

-----------------------------------------------------------------------------
(***************************************************************************)
(* What a publisher makes a desktop takes.  A finalized package for its    *)
(* version can be installed by hand, and a published catalog can be        *)
(* followed: any of its versions on an empty desktop, and from any of its  *)
(* versions any later one, whether or not there are others in between.     *)
(* An exported project arrives on an empty desktop like the exporting one, *)
(* whole; and when nothing was changed meanwhile it is what was served     *)
(* there, and can be imported there, too.                                  *)
(***************************************************************************)
Fresh(store) == [store |-> store, version |-> 1, mappings |-> {}, directory |-> None]
With(store, package) == [Fresh(store) EXCEPT !.directory = package]

Takes(desktop, catalog, key, now, entry) ==
    LET state == InstalledState(desktop, entry.id)
        plan == UpdatePlan(entry, key, state, desktop)
        signature == [key |-> key, catalog |-> catalog, genuine |-> TRUE]
    IN  InstallFromCatalog(desktop, desktop, signature, catalog, now,
                           entry.id, entry.version, plan, entry.package) # None

ForDesktop(catalog) == {e \in ToSet(catalog.entries) : Matches(e.requirement, 1)}

\* A desktop as the exporting one, without components or with its own.
Empty(desktop) == [desktop EXCEPT !.disk = {}, !.active = {}]

Arrives(desktop, bundle) ==
    LET signature == [key |-> "b1", bundle |-> bundle, genuine |-> TRUE]
        preview == PrepareProject(desktop, <<bundle, bundle>>, signature)
    IN  IF preview = None THEN None
        ELSE ImportBundle(desktop, desktop, <<bundle, bundle>>, signature, preview.plan)

ExportedArrives(q, bundle) ==
    LET source == Started(q.source) arrived == Arrives(Empty(source), bundle) IN
    /\ arrived # None
    /\ arrived.project = source.project
    /\ {[m EXCEPT !.integrity = None] : m \in {ManifestOf(f) : f \in arrived.disk}}
         = {[id |-> c.id, version |-> c.version, local |-> c.local, integrity |-> None,
             services |-> IF c.local THEN c.of.api ELSE c.of.content.services] : c \in bundle.components}
    /\ q.staged = source.disk =>
         /\ arrived.disk = source.disk
         /\ {ManifestOf(folder) : folder \in arrived.disk} = source.active
         /\ Arrives(source, bundle) = arrived

PublishedIsInstallable ==
    /\ Decided("export") /\ decision # None => ExportedArrives(question.of, decision)
    /\ Decided("finalize") /\ decision # None /\ Matches(decision.content.requirement, 1) =>
         LocalPlan(Fresh(question.of.later), decision) # None
    /\ Decided("publish") /\ decision # None =>
         LET q == question.of IN
         \A key \in DOMAIN q.store :
           KeyFor(q.store, key, "plugin-catalog", "issue") =>
             \A new \in ForDesktop(decision) :
               /\ Takes(Fresh(q.store), decision, key, q.now, new)
               /\ \A old \in ForDesktop(decision) :
                    old.id = new.id /\ old.version <= new.version =>
                      Takes(With(q.store, old.package), decision, key, q.now, new)

(***************************************************************************)
(* What is installed is what was confirmed: the content that the plan      *)
(* named, signed for the plugin by a key that is not revoked, in place of  *)
(* what the plan said was there, and whatever was changed in between.      *)
(***************************************************************************)
AsConfirmed(q, content, state, installed) ==
    /\ installed = content
    /\ state = InstalledState(q.later, installed.content.id)
    /\ installed.signature.genuine /\ installed.signature.files = installed.content
    /\ q.now.store[installed.signature.key].status # "revoked"
    /\ "plugin" \in q.now.store[installed.signature.key].purposes
    /\ installed.content.meta = installed.content.id
    /\ Matches(installed.content.requirement, q.later.version)
    /\ ~MappingConflict(q.later, installed.content.id)

ConfirmedIsInstalled ==
    LET q == question.of IN
    /\ Decided("acquire") =>
         \A answer \in {a \in decision : a[2] # None} :
           /\ AsConfirmed(q, answer[1].entry.package, answer[1].state, answer[2])
           /\ ~Withdrawn(q.catalog, answer[2].content.id, answer[2].content.version)
    /\ Decided("handover") /\ decision[2] # None =>
         AsConfirmed(q, decision[1][1], decision[1][2], decision[2])

(***************************************************************************)
(* What is imported is the bundle that was previewed, on the desktop that  *)
(* was previewed: with a signature for it when one is asked for, nothing   *)
(* that was there lost or made older, and every page and route of use.     *)
(***************************************************************************)
ConfirmedIsImported ==
    Decided("import") /\ decision # Refused /\ decision[2] # None =>
      LET q == question.of bundle == q.file[1] result == decision[2]
          manifests == {ManifestOf(folder) : folder \in result.disk}
      IN  /\ result.project = bundle.project /\ result.disk = decision[1].components
          /\ {m.id : m \in manifests} = {component.id : component \in bundle.components}
          /\ \A component \in bundle.components : \E folder \in result.disk :
               /\ folder.local = component.local
               /\ IF component.local THEN folder.of.native = component.of.native
                                          /\ folder.of.api = component.of.api
                  ELSE folder.of = component.of
          /\ \A folder \in result.disk :
               Usable(q.now, folder) /\ (folder.local => folder.of.integrity = IntegrityOf(folder.of))
          /\ q.now.strict => q.signature.bundle = bundle
          /\ q.later.disk = q.seen.disk /\ q.later.project = q.seen.project
          /\ \A folder \in q.later.disk : \E new \in result.disk :
               /\ new.local = folder.local /\ FolderId(new) = FolderId(folder)
               /\ ~new.local => /\ folder.of.content.version <= new.of.content.version
                               /\ Compatible(folder.of.content.services, new.of.content.services)
          /\ \A origin \in BusinessOrigins(result.project.config) :
               \E route \in PolicyRoutes(manifests) :
                 MayInvoke(q.now.policy, result.project.config, origin, route)

(***************************************************************************)
(* A signed route that some page of the project may call stays callable:   *)
(* no accepted change of the pages and no accepted set of plugins leaves a *)
(* route, by whichever name, that the policy gives to no configured page.  *)
(***************************************************************************)
Callable(policy, config, plugins) ==
    \A plugin \in Signed(plugins) : \A service \in DOMAIN plugin.services :
      \A route \in Routes(plugin.services[service]) :
        \E origin \in BusinessOrigins(config) : MayInvoke(policy, config, origin, <<service, route>>)

SignedRoutesKeepAnOrigin ==
    LET q == question.of IN
    Decided("authorize") =>
      /\ decision.plugins => Callable(q.policy, q.config, q.plugins \cup q.added)
      /\ decision.config /\ Callable(q.policy, q.config, q.plugins) =>
           Callable(q.policy, q.candidate, q.plugins)
=============================================================================
