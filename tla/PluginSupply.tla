---------------------------- MODULE PluginSupply ----------------------------
(***************************************************************************)
(* How a signed plugin reaches a desktop: the keys that are trusted        *)
(* (webplus-plugin-trust), the packages and the catalog a publisher makes  *)
(* (ssdev-plugin-tool, webplus-plugin-package), the catalog a desktop      *)
(* accepts (webplus-plugin-repository) and what its commands offer and     *)
(* install (lib.rs).                                                       *)
(*                                                                         *)
(* An id is [key, spelling]: two ids with a key differ in case only.  The  *)
(* content of a plugin is [id, meta, version, requirement, services]: id   *)
(* is the directory's, meta the id in plugin.json (None without one), and  *)
(* requirement the desktop versions it is for (None when not declared).    *)
(* Its signature is [id, key, files, genuine], files being the content it  *)
(* was made for.  A package is [content, signature], and so is a directory *)
(* of the plugin root.  A digest is the thing it is taken of; sizes, URLs, *)
(* paths within an archive and limits of bytes and counts are left out.    *)
(***************************************************************************)
EXTENDS PluginContract, FiniteSetsExt

CONSTANTS
    MaxLifetime,    \* MAX_CATALOG_LIFETIME
    Skew,           \* how early a catalog may be used
    MaxRollbacks    \* MAX_PLUGIN_ROLLBACK_OPTIONS

ASSUME SupplyAssumption == {MaxLifetime, Skew, MaxRollbacks} \subseteq Nat

-----------------------------------------------------------------------------
(* The trust store: a function from key ids to [purposes, status].         *)

KeyFor(store, key, purpose, use) ==
    /\ key \in DOMAIN store /\ purpose \in store[key].purposes
    /\ store[key].status # "revoked"
    /\ use = "issue" => store[key].status = "active"

VerifyPlugin(store, directory, use) ==
    LET signature == directory.signature IN
    /\ signature # None
    /\ signature.id = directory.content.id
    /\ KeyFor(store, signature.key, "plugin", use)
    /\ signature.files = directory.content
    /\ signature.genuine

-----------------------------------------------------------------------------
(* Packages. None is a step that failed.                                   *)

\* PreparedPlugin::prepare
PreparePackage(store, package) ==
    IF /\ package.signature # None /\ package.content.meta # None
       /\ package.content.meta = package.signature.id
       /\ VerifyPlugin(store, package, "runtime")
    THEN package ELSE None

\* The signing request made of a staging directory by prepare.
SigningRequest(store, staging, key) ==
    IF KeyFor(store, key, "plugin", "issue")
    THEN [id |-> staging.id, key |-> key, files |-> staging] ELSE None

\* What finalize packs: the staging as it is then, signed as it was requested.
FinalizePackage(store, staging, request, genuine) ==
    LET package == [content |-> staging,
                    signature |-> [id |-> request.id, key |-> request.key,
                                   files |-> request.files, genuine |-> genuine]]
    IN  IF /\ request # None /\ staging.meta # None
           /\ request.files = staging
           /\ VerifyPlugin(store, package, "issue")
        THEN PreparePackage(store, package) ELSE None

-----------------------------------------------------------------------------
(* The catalog: [issued, expires, entries, withdrawals].  An entry is      *)
(* [id, version, requirement, package]; a withdrawal is [id, version].     *)

Identity(item) == <<item.id.key, item.version>>
Identities(items) == {Identity(items[i]) : i \in DOMAIN items}
OneSpelling(items) == \A a, b \in ToSet(items) : a.id.key = b.id.key => a.id = b.id

\* from_unsigned_bytes
ValidCatalog(catalog, now) ==
    /\ catalog.issued < catalog.expires /\ catalog.expires - catalog.issued <= MaxLifetime
    /\ catalog.issued <= now + Skew /\ now <= catalog.expires
    /\ OneSpelling(catalog.entries \o catalog.withdrawals)
    /\ IsInjective([i \in DOMAIN catalog.entries |-> Identity(catalog.entries[i])])
    /\ IsInjective([i \in DOMAIN catalog.withdrawals |-> Identity(catalog.withdrawals[i])])
    /\ Identities(catalog.entries) \cap Identities(catalog.withdrawals) = {}

\* from_signed_bytes: a signature of a catalog is [key, catalog, genuine].
RuntimeCatalog(store, signature, catalog, now) ==
    /\ KeyFor(store, signature.key, "plugin-catalog", "runtime")
    /\ signature.genuine /\ signature.catalog = catalog
    /\ ValidCatalog(catalog, now)

Highest(entries) == {e \in entries : \A other \in entries : other.version <= e.version}
Of(catalog, id) == {e \in ToSet(catalog.entries) : e.id.key = id.key}
Matches(requirement, desktop) == requirement # None /\ desktop \in requirement

Select(catalog, id) == Highest(Of(catalog, id))
SelectVersion(catalog, id, version) == {e \in Of(catalog, id) : e.version = version}
SelectCompatible(catalog, id, desktop) ==
    Highest({e \in Of(catalog, id) : Matches(e.requirement, desktop)})
Withdrawn(catalog, id, version) == <<id.key, version>> \in Identities(catalog.withdrawals)

-----------------------------------------------------------------------------
(* create_catalog: from [package, after] files, after being what is read   *)
(* when the package is looked at again.                                    *)

EntryOf(package) ==
    [id |-> package.content.id, version |-> package.content.version,
     requirement |-> package.content.requirement, package |-> package]

Older(a, b) ==
    IF a.id.key = b.id.key THEN a.version < b.version ELSE a.id.key < b.id.key

\* Mutant: the packages are compared in the order they are listed in.
ListedCompatible(entries) ==
    \A i \in 1..(Len(entries) - 1) :
       entries[i].id.key = entries[i + 1].id.key =>
         Compatible(entries[i].package.content.services, entries[i + 1].package.content.services)

\* verify_catalog_api_compatibility: each version with the next of its plugin.
CatalogCompatible(entries) ==
    LET sorted == SetToSortSeq(ToSet(entries), Older) IN
    \A i \in 1..(Len(sorted) - 1) :
       sorted[i].id.key = sorted[i + 1].id.key =>
         Compatible(sorted[i].package.content.services, sorted[i + 1].package.content.services)

Listable(store, file) ==
    /\ PreparePackage(store, file.package) # None
    /\ file.package.content.requirement # None
    /\ file.after = file.package

CreateCatalog(store, files, withdrawals, issued, expires, now) ==
    LET entries == [i \in DOMAIN files |-> EntryOf(files[i].package)]
        catalog == [issued |-> issued, expires |-> expires,
                    entries |-> entries, withdrawals |-> withdrawals]
    IN  IF /\ \A i \in DOMAIN files : Listable(store, files[i])
           /\ OneSpelling(entries)
           /\ IsInjective([i \in DOMAIN entries |-> Identity(entries[i])])
           /\ CatalogCompatible(entries)
           /\ ValidCatalog(catalog, now)
        THEN catalog ELSE None

-----------------------------------------------------------------------------
(* A desktop: [store, version, mappings, directory], where mappings are    *)
(* the ids of local mappings and directory is the target's, None if there  *)
(* is none.                                                                *)

\* The manifest of the target, when its directory can be used.
Installed(desktop) ==
    IF /\ desktop.directory # None
       /\ VerifyPlugin(desktop.store, desktop.directory, "runtime")
       /\ Matches(desktop.directory.content.requirement, desktop.version)
    THEN desktop.directory.content ELSE None

\* plugin_update_installed_state_digest: a directory that cannot be used is
\* an error and not a target.
InstalledState(desktop, id) ==
    IF desktop.directory = None THEN <<id, None>>
    ELSE IF Installed(desktop) # None /\ Installed(desktop).id = id
    THEN <<id, desktop.directory>> ELSE None

UpdatePlan(entry, key, state, desktop) ==
    [entry |-> entry, key |-> key, state |-> state, desktop |-> desktop.version]

MappingConflict(desktop, id) == \E other \in desktop.mappings : other.key = id.key

UpdateAvailable(desktop, entries) ==
    {e \in entries : Installed(desktop) = None \/ Installed(desktop).version < e.version}

\* The latest of the older versions, when one plugin is asked about.
Rollbacks(desktop, catalog, id, asked) ==
    IF ~asked \/ Installed(desktop) = None THEN {}
    ELSE LET older == {e \in Of(catalog, id) : e.version < Installed(desktop).version
                                                /\ Matches(e.requirement, desktop.version)}
         IN  {e \in older : Cardinality({o \in older : o.version > e.version}) < MaxRollbacks}

\* collect_plugin_updates for one id: what may be confirmed, or why nothing.
CollectUpdates(desktop, catalog, key, id, asked) ==
    LET installed == Installed(desktop)
        target == IF installed # None THEN installed.id ELSE id
        updates == UpdateAvailable(desktop, SelectCompatible(catalog, id, desktop.version))
        rollbacks == Rollbacks(desktop, catalog, id, asked)
        state == InstalledState(desktop, target)
        blocker ==
          CASE updates \cup rollbacks = {} -> None
            [] MappingConflict(desktop, id) -> "local-mapping-conflict"
            [] installed # None /\ \E e \in Select(catalog, id) : e.id # installed.id
                 -> "identity-casing-conflict"
            [] state = None -> "invalid-target-state"
            [] OTHER -> None
        Plans(entries) == {UpdatePlan(e, key, state, desktop) : e \in entries}
    IN  [withdrawn |-> installed # None /\ Withdrawn(catalog, id, installed.version),
         blocker |-> blocker,
         updates |-> IF blocker = None THEN Plans(updates) ELSE {},
         rollbacks |-> IF blocker = None THEN Plans(rollbacks) ELSE {}]

\* Mutant: what was downloaded is only known by its name.
SameName(entry, package) ==
    entry.id = package.content.id /\ entry.version = package.content.version

\* download_package: the bytes are the signed ones.
SameBytes(entry, package) == entry.package = package

VerifyIdentity(entry, content) ==
    /\ entry.id = content.id /\ entry.version = content.version
    /\ entry.requirement = content.requirement

\* activate_prepared_plugin, up to the point where directories change.  The
\* API that was accepted last is the installed one (CapabilityBaseline).
Activatable(desktop, package, state, source) ==
    LET installed == Installed(desktop) content == package.content IN
    /\ Matches(content.requirement, desktop.version)
    /\ state = InstalledState(desktop, content.id)
    /\ ~MappingConflict(desktop, content.id)
    /\ installed # None =>
         /\ Compatible(installed.services, content.services)
         /\ source = "local" => installed.version <= content.version

\* install_plugin_from_catalog: asked for a version under a confirmed plan;
\* now is the desktop when the command reads it, later when it activates.
InstallFromCatalog(now, later, signature, catalog, time, id, version, plan, served) ==
    LET entries == SelectVersion(catalog, id, version) installed == Installed(now) IN
    IF /\ RuntimeCatalog(now.store, signature, catalog, time)
       /\ \E entry \in entries :
            /\ Matches(entry.requirement, now.version)
            /\ ~MappingConflict(now, id)
            /\ installed # None => installed.id = entry.id
            /\ InstalledState(now, entry.id) # None
            /\ plan = UpdatePlan(entry, signature.key, InstalledState(now, entry.id), now)
            /\ SameBytes(entry, served)
            /\ PreparePackage(now.store, served) # None
            /\ VerifyIdentity(entry, served.content)
            /\ Activatable(later, served, InstalledState(now, entry.id), "catalog")
    THEN served ELSE None

\* install_plugin_package: the plan names the payload of the package and the
\* state it was inspected in.
LocalPlan(desktop, package) ==
    IF /\ PreparePackage(desktop.store, package) # None
       /\ InstalledState(desktop, package.content.id) # None
       /\ Activatable(desktop, package, InstalledState(desktop, package.content.id), "local")
    THEN <<package, InstalledState(desktop, package.content.id), desktop.version>> ELSE None

InstallPackage(now, later, package, plan) ==
    IF /\ LocalPlan(now, package) # None /\ plan = LocalPlan(now, package)
       /\ Activatable(later, package, plan[2], "local")
    THEN package ELSE None
=============================================================================
