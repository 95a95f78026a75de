--------------------------- MODULE ProjectDelivery ---------------------------
(***************************************************************************)
(* How a project travels: a desktop exports its configuration and all its  *)
(* components as one bundle, the bundle is signed, and another desktop     *)
(* previews and imports it (ssdev-project-bundle, the project commands of  *)
(* lib.rs, the bundles of local_mappings.rs and the packages of            *)
(* webplus-plugin-package).  The transaction that puts it in place is      *)
(* ProjectActivation's.                                                    *)
(*                                                                         *)
(* A folder of a component is [local, of]: of is a package of PluginSupply *)
(* or a mapping [id, named, schema, services, api, native, integrity],     *)
(* where id is its directory's, named and services are those of its        *)
(* definition, native is what it calls (Link when that is no regular       *)
(* file), and integrity what its integrity document was made for.          *)
(* A project is [config, identity]; a desktop is [store, version, strict,  *)
(* policy, project, disk, active, startable], disk being its folders and   *)
(* active the manifests that are served.  A bundle is [project, digest,    *)
(* components], a component [id, version, local, of, digest].  Digests are *)
(* the things they are taken of. Archives, sizes and counts are left out.  *)
(***************************************************************************)
EXTENDS PluginSupply, AccessPolicy

-----------------------------------------------------------------------------
(* Mappings.                                                               *)

IntegrityOf(mapping) == [api |-> mapping.api, native |-> mapping.native]

\* PluginManifest::load with validate_stored_manifest
StoredValid(mapping) ==
    /\ mapping.integrity # None => mapping.integrity = IntegrityOf(mapping)
    /\ mapping.schema = 2 => mapping.integrity # None
    /\ mapping.named = mapping.id /\ mapping.services = mapping.api
    /\ mapping.native # Link

InstalledValid(mapping) == mapping.schema = 2 /\ mapping.integrity # None /\ StoredValid(mapping)

Pinned(mapping) == [mapping EXCEPT !.schema = 2, !.integrity = IntegrityOf(mapping)]

\* migrate_legacy_integrity: at a start; what is not valid stays as it is.
MigrateLegacyIntegrity(disk) ==
    {IF folder.local /\ folder.of.schema = 1 /\ StoredValid(folder.of)
     THEN [folder EXCEPT !.of = Pinned(folder.of)] ELSE folder : folder \in disk}

\* export_bundle: the regular files of the directory, as they are.
ExportMapping(mapping) == IF mapping.native = Link THEN None ELSE mapping

\* extract_bundle: an archive has no directory name, and no links.
ExtractMapping(archive) ==
    IF archive.native = Link THEN None ELSE [archive EXCEPT !.id = archive.named]

\* prepare_import: a mapping that is not pinned yet becomes so.
PrepareImport(archive) ==
    LET mapping == ExtractMapping(archive) IN
    IF mapping = None THEN None
    ELSE CASE ~StoredValid(mapping) -> None
           [] StoredValid(mapping) /\ mapping.schema = 1 -> Pinned(mapping)
           [] StoredValid(mapping) /\ mapping.schema = 2 -> mapping

-----------------------------------------------------------------------------
(* What a desktop has.                                                     *)

FolderId(folder) == IF folder.local THEN folder.of.id ELSE folder.of.content.id

ManifestOf(folder) ==
    [local |-> folder.local, id |-> FolderId(folder),
     services |-> IF folder.local THEN folder.of.api ELSE folder.of.content.services,
     version |-> IF folder.local THEN None ELSE folder.of.content.version,
     integrity |-> IF folder.local THEN folder.of.integrity ELSE None]

Usable(desktop, folder) ==
    IF folder.local THEN InstalledValid(folder.of)
    ELSE /\ VerifyPlugin(desktop.store, folder.of, "runtime")
         /\ folder.of.content.meta = folder.of.content.id
         /\ Matches(folder.of.content.requirement, desktop.version)

\* inspect_all_plugins, for commands that accept no failure at all.
Inspect(desktop) ==
    IF /\ \A folder \in desktop.disk : Usable(desktop, folder)
       /\ \A a, b \in desktop.disk : FolderId(a).key = FolderId(b).key => a = b
    THEN {ManifestOf(folder) : folder \in desktop.disk} ELSE None

ServiceCount(manifests) ==
    FoldSet(LAMBDA manifest, sum : sum + Cardinality(DOMAIN manifest.services), 0, manifests)

\* routes_from_manifests: one plugin of an id, one provider of a service.
Routable(manifests) ==
    \A a, b \in manifests :
      a # b => a.id.key # b.id.key /\ DOMAIN a.services \cap DOMAIN b.services = {}

\* validate_project_delivery_routes
DeliveryRoutes(desktop, project, manifests) ==
    LET origins == BusinessOrigins(project.config) routes == PolicyRoutes(manifests) IN
    /\ Routable(manifests) /\ Authorize(desktop.policy, project.config)
    /\ UncoveredOrigins(desktop.policy, origins, routes) = {}
    /\ UncoveredRoutes(desktop.policy, origins, routes) = {}

-----------------------------------------------------------------------------
(* Export.                                                                 *)

\* create_deterministic_package
PackDirectory(store, package) ==
    IF package.content.meta # None /\ package.content.meta = package.content.id
       /\ VerifyPlugin(store, package, "issue")
    THEN package ELSE None

\* stage_project_export_components: from the disk as it is then, by the
\* manifests that were inspected. None is a component that cannot be packed.
StageComponent(desktop, disk, manifest) ==
    LET found == {folder \in disk : folder.local = manifest.local /\ FolderId(folder) = manifest.id}
        folder == CHOOSE f \in found : TRUE
        packed == IF manifest.local
                  THEN ExportMapping(folder.of)
                  ELSE PackDirectory(desktop.store, folder.of)
    IN  IF found = {} \/ packed = None THEN None
        ELSE [id |-> manifest.id, version |-> manifest.version, local |-> manifest.local,
              of |-> packed]

\* What a component holds, when it is what it says.
CandidateOf(desktop, component) ==
    IF component.local
    THEN LET mapping == PrepareImport(component.of) IN
         IF mapping = None \/ mapping.named # component.id THEN None
         ELSE [local |-> TRUE, of |-> mapping]
    ELSE IF /\ PreparePackage(desktop.store, component.of) # None
            /\ Matches(component.of.content.requirement, desktop.version)
            /\ component.of.content.id = component.id
            /\ component.of.content.version = component.version
         THEN [local |-> FALSE, of |-> component.of] ELSE None

\* validate_component_declaration
DeclarationValid(component) == component.local = (component.version = None)

\* validate_manifest, and the same for what a bundle is made of.
ComponentsValid(components) ==
    /\ \A component \in components : DeclarationValid(component)
    /\ \A a, b \in components : a.id.key = b.id.key => a = b

\* prepare_inputs: the archives are hashed.
PrepareInputs(components) ==
    IF None \notin components /\ ComponentsValid(components)
    THEN {component @@ [digest |-> component.of] : component \in components} ELSE None

\* copy_component_checked; drifted are the archives that changed since.
CopiesChecked(inputs, drifted) == \A input \in inputs : input.id \notin drifted

\* create_from_prepared
CreateBundle(project, inputs, drifted) ==
    IF ValidConfig(project.config) /\ ComponentsValid(inputs) /\ CopiesChecked(inputs, drifted)
    THEN [project |-> project, digest |-> project, components |-> inputs] ELSE None

\* export_project_bundle: the disk is read again when components are staged.
ExportBundle(desktop, disk, drifted) ==
    LET manifests == Inspect(desktop)
        inputs == PrepareInputs({StageComponent(desktop, disk, m) : m \in manifests})
        candidates == {CandidateOf(desktop, input) : input \in inputs}
        exported == {ManifestOf(candidate) : candidate \in candidates}
        count == ServiceCount(desktop.active)
    IN  IF /\ Authorize(desktop.policy, desktop.project.config) /\ desktop.project.identity
           /\ manifests # None
           /\ DeliveryRoutes(desktop, desktop.project, manifests)
           /\ ServiceCount(manifests) = count /\ manifests = desktop.active
           /\ inputs # None /\ None \notin candidates
           /\ DeliveryRoutes(desktop, desktop.project, exported)
           /\ ServiceCount(exported) = count
           /\ desktop.startable
        THEN CreateBundle(desktop.project, inputs, drifted) ELSE None

-----------------------------------------------------------------------------
(* Preview and import.  A file is a sequence of two bundles: what is there *)
(* when it is hashed, and what is there when it is read after that. Its    *)
(* signature is [key, bundle, genuine].                                    *)

\* open
BundleValid(bundle) ==
    /\ ComponentsValid(bundle.components)
    /\ bundle.digest = bundle.project /\ ValidConfig(bundle.project.config)
    /\ \A component \in bundle.components : component.digest = component.of

\* open_with_signing_material
OpenStable(file) ==
    IF BundleValid(file[2]) /\ file[1] = file[2] THEN file[2] ELSE None

\* open_verified
SignatureHolds(store, signature, bundle) ==
    /\ signature # None /\ KeyFor(store, signature.key, "project-bundle", "runtime")
    /\ signature.genuine /\ signature.bundle = bundle

\* open_project_bundle_for_mode
OpenBundle(desktop, file, signature) ==
    IF desktop.strict => SignatureHolds(desktop.store, signature, file[2])
    THEN OpenStable(file) ELSE None

SamePlugin(folder, component) == FolderId(folder).key = component.id.key

\* A component of another kind or another spelling of the id is in the way.
InTheWay(desktop, component) ==
    \E folder \in desktop.disk :
      SamePlugin(folder, component)
      /\ (folder.local # component.local \/ FolderId(folder) # component.id)

\* ensure_upgrade_allowed and signed_plugin_api_change_summary
Upgrades(desktop, component) ==
    component.local \/ \A folder \in desktop.disk :
      SamePlugin(folder, component) =>
        /\ folder.of.content.version <= component.version
        /\ Compatible(folder.of.content.services, component.of.content.services)

PrepareComponent(desktop, component) ==
    LET candidate == CandidateOf(desktop, component) IN
    IF candidate = None \/ InTheWay(desktop, component) \/ ~Upgrades(desktop, component)
    THEN None ELSE candidate

\* calculate_project_import_state_digest
StateDigest(desktop) == <<desktop.project, desktop.disk>>

Retained(desktop, components) ==
    {folder \in desktop.disk : ~\E component \in components : SamePlugin(folder, component)}

\* project_import_plan_id
Plan(bundle, desktop) == <<bundle, StateDigest(desktop), desktop.version>>

\* prepare_project_bundle
PrepareProject(desktop, file, signature) ==
    LET bundle == OpenBundle(desktop, file, signature)
        prepared == {PrepareComponent(desktop, component) : component \in bundle.components}
    IN  IF bundle = None THEN None
        ELSE IF /\ Authorize(desktop.policy, bundle.project.config) /\ bundle.project.identity
                /\ Inspect(desktop) # None /\ None \notin prepared
                /\ DeliveryRoutes(desktop, bundle.project, {ManifestOf(folder) : folder \in prepared})
                /\ desktop.startable
             THEN [plan |-> Plan(bundle, desktop),
                   project |-> bundle.project, components |-> prepared,
                   retained |-> Retained(desktop, bundle.components)]
             ELSE None

\* import_project_bundle up to its transaction, and what this puts in place;
\* later is the desktop when it is read for the last time before.
ImportBundle(now, later, file, signature, plan) ==
    LET prepared == PrepareProject(now, file, signature) IN
    IF prepared = None \/ Inspect(later) = None THEN None
    ELSE IF /\ prepared.plan = plan /\ prepared.retained = {}
            /\ StateDigest(later) = StateDigest(now) /\ later.active = Inspect(later)
         THEN [project |-> prepared.project, disk |-> prepared.components] ELSE None
=============================================================================
