---------------------------- MODULE ReleaseEvidence ----------------------------
(***************************************************************************)
(* What a production cutover is decided from: the bundle of a release      *)
(* (ssdev-release-manifest), the evidence of its tests, and the blockers   *)
(* that ssdev-cutover-evidence finds in the two.                           *)
(*                                                                         *)
(* A workspace is [revision, dirty, environment]: what git says, and the   *)
(* lock files and build tools there are.  A bundle is [metadata, payload,  *)
(* installers, manifest]: manifest is the inventory it was given.          *)
(***************************************************************************)
EXTENDS ReleaseSigning

-----------------------------------------------------------------------------
(* Bundles.                                                                *)

ValidMetadata(metadata) == metadata.authenticode => ~metadata.dirty /\ ~metadata.synthetic

\* create_release_metadata; None is a refusal.
CreateMetadata(workspace, version, authenticode, synthetic, allowDirty) ==
    LET metadata == [version |-> version, authenticode |-> authenticode, synthetic |-> synthetic,
                     revision |-> workspace.revision, dirty |-> workspace.dirty,
                     environment |-> workspace.environment]
    IN  IF ValidMetadata(metadata) /\ (metadata.dirty => allowDirty) THEN metadata ELSE None

\* verify_release_metadata, against a workspace or (None) on its own.
VerifyMetadata(metadata, workspace) ==
    /\ ValidMetadata(metadata)
    /\ workspace # None =>
         /\ metadata.revision = workspace.revision /\ metadata.dirty = workspace.dirty
         /\ metadata.environment = workspace.environment

\* collect_inventory: all there is but the manifest and its signature.
Inventory(bundle) == [metadata |-> bundle.metadata, payload |-> bundle.payload,
                      installers |-> bundle.installers]
CreateManifest(bundle) == [bundle EXCEPT !.manifest = Inventory(bundle)]
VerifyManifest(bundle) == bundle.manifest = Inventory(bundle)

\* capture_bundle_policy_identity; None is a refusal.
BundleIdentity(bundle, workspace) ==
    IF /\ VerifyManifest(bundle) /\ Cardinality(bundle.installers) = 1
       /\ VerifyMetadata(bundle.metadata, workspace)
    THEN [metadata |-> bundle.metadata, manifest |-> bundle.manifest] ELSE None

-----------------------------------------------------------------------------
(* The evaluation: the codes of what stands in the way of a cutover.       *)

Failing(checks) == {code \in DOMAIN checks : ~checks[code]}

\* What is asked of each evidence, and of the stores.
\* Mutant: the clocks of the runners are taken to agree.
OriginBlockersExact(policy, evidence, now) ==
    Failing([source |-> evidence.revision = policy.candidate.metadata.revision,
             clean |-> ~evidence.dirty,
             present |-> evidence.at <= now,
             fresh |-> Ahead(evidence.at, now) \/ Age(evidence.at, now) <= policy.evidenceAge])

OriginBlockers(policy, evidence, now) ==
    Failing([source |-> evidence.revision = policy.candidate.metadata.revision,
             clean |-> ~evidence.dirty,
             present |-> ~Ahead(evidence.at, now),
             fresh |-> Ahead(evidence.at, now) \/ Age(evidence.at, now) <= policy.evidenceAge])

PluginBlockers(policy, plugin) ==
    Failing([packages |-> plugin.packages = policy.packages,
             trust |-> plugin.trust = policy.approval,
             matrix |-> plugin.matrix = policy.matrix])

MigrationBlockers(policy, migration) ==
    LET found == migration.findings IN
    Failing([origin |-> migration.origin = policy.origin,
             materials |-> migration.materials = policy.materials,
             http |-> found.authorized = found.insecure,
             coverage |-> found.coverage >= policy.minimum /\ found.coverage > 0,
             notObserved |-> ~found.http,
             critical |-> found.critical = 0,
             warnings |-> found.warnings = 0])

WindowsBlockers(policy, windows, plugin) ==
    Failing([origin |-> windows.origin = policy.origin,
             version |-> windows.bundle.metadata.version = policy.candidate.metadata.version,
             manifest |-> windows.bundle.manifest = policy.candidate.manifest,
             previous |-> windows.previous = policy.previous,
             trust |-> windows.trust = plugin.trust,
             hosts |-> windows.hosts = plugin.hosts,
             authenticode |-> windows.bundle.metadata.authenticode /\ windows.authenticode,
             launch |-> windows.launch,
             frontend |-> windows.check # None,
             upgrade |-> windows.upgrade,
             rollback |-> windows.rollback,
             state |-> windows.state])

Blockers(archive, now) ==
    LET policy == archive.policy IN
    Failing([evidenceStore |-> archive.evidence = policy.evidence,
             approvalStore |-> archive.approval = policy.approval])
    \cup UNION {OriginBlockers(policy, archive[kind], now) :
                  kind \in {"plugin", "migration", "windows"}}
    \cup PluginBlockers(policy, archive.plugin)
    \cup MigrationBlockers(policy, archive.migration)
    \cup WindowsBlockers(policy, archive.windows, archive.plugin)

\* evaluate_production_cutover of an archive of documents that are valid; the
\* digests of the archive are the archive.
EvaluateCutover(archive, digests, now) ==
    LET blockers == Blockers(archive, now) IN
    [kind |-> "cutoverDecision", of |-> digests, at |-> now, blockers |-> blockers,
     eligible |-> blockers = {}, signer |-> archive.policy.signers["decision"],
     revision |-> archive.policy.candidate.metadata.revision,
     version |-> archive.policy.candidate.metadata.version,
     approval |-> archive.approval]

\* reproduce_production_cutover_decision
Reproduces(archive, digests, decision) == EvaluateCutover(archive, digests, decision.at) = decision

\* current_cutover_authorization_blocker
Authorized(policy, decision, now) ==
    /\ decision.eligible /\ decision.signer = policy.signers["decision"]
    /\ decision.revision = policy.candidate.metadata.revision
    /\ decision.version = policy.candidate.metadata.version
    /\ ~Ahead(decision.at, now) /\ Age(decision.at, now) <= policy.decisionAge

\* candidate_bundle_matches_verified_go
CandidateMatches(identity, archive) ==
    /\ identity # None
    /\ identity = archive.windows.bundle /\ identity.manifest = archive.policy.candidate.manifest
    /\ identity.metadata.version = archive.decision.version
    /\ identity.metadata.revision = archive.decision.revision
=============================================================================
