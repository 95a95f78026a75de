------------------------------- MODULE Cutover -------------------------------
(***************************************************************************)
(* A release on its way to the rollout.  The tools are run one after the   *)
(* other on the files of world; each reads its files, works, and reads     *)
(* them again, and in between any of the files may be changed, and changed *)
(* back.  A document is None until it is written.  The matrix runner, the  *)
(* audit and the smoke tests report what they find in the world they run   *)
(* in.  Evidence of the trust of the policy and of the evidence is read    *)
(* from the stores "approval" and "evidence", which are in the archive of  *)
(* the release; currentApproval and currentEvidence are those there are    *)
(* when it is rolled out.                                                  *)
(***************************************************************************)
EXTENDS ReleaseEvidence, DeploymentCheck

CONSTANTS
    Worlds,        \* worlds to begin with
    Others,        \* by field, the other values that a file may get
    MaxChanges     \* bound: how many fields are changed

VARIABLES
    world,     \* the files, what the runners report, and their clock
    step,      \* which of Steps is next
    failed,    \* a tool refused or reported a blocker
    kept,      \* what the running tool has read so far
    changed,   \* what the fields that were changed held before
    harmless,  \* ghost: no change so far should stop the release
    truth      \* ghost: what was approved and what was tested

cutoverVars == <<world, step, failed, kept, changed, harmless, truth>>

Steps == <<"build", "inventory", "materialize", "prepareBegin", "prepareCheck", "prepareEnd",
           "requestPolicy", "finalizePolicy", "matrixBegin", "matrixRun", "matrixEnd",
           "migrationBegin", "migrationRun", "migrationEnd", "windowsBegin", "windowsEnd",
           "precheckBegin", "precheckLoad", "precheckEnd", "requestEvidence", "finalizeEvidence",
           "decideBegin", "decideLoad", "decideEnd", "requestDecision", "finalizeDecision",
           "verifyBegin", "verifyLoad", "verifyEnd", "currentBegin", "currentTrust", "currentEnd">>
Place(name) == CHOOSE i \in DOMAIN Steps : Steps[i] = name
Running == ~failed /\ step \in DOMAIN Steps
Finished == step > Len(Steps)

Evidences == {"plugin", "migration", "windows"}
Envelope(kind) == kind \o "Envelope"
Unsigned == {"policy", Envelope("policy"), "approval", "evidence"} \cup Evidences
Attested == Unsigned \cup {Envelope(kind) : kind \in Evidences}
Archive == Attested \cup {"decision", Envelope("decision")}
Documents == Archive \ {"approval", "evidence"}

Snapshot(fields) == [field \in fields |-> world[field]]
Unchanged(before) == \A field \in DOMAIN before : world[field] = before[field]

-----------------------------------------------------------------------------
(* One step of a tool: it refuses, or it keeps what it read or writes.     *)

Step(name, ok) ==
    /\ Running /\ Steps[step] = name
    /\ failed' = ~ok /\ step' = IF ok THEN step + 1 ELSE step
    /\ UNCHANGED <<changed, harmless>>

Keep(name, ok, what) ==
    /\ Step(name, ok) /\ kept' = IF ok THEN what ELSE None
    /\ UNCHANGED world
Write(name, ok, files) ==
    /\ Step(name, ok) /\ kept' = None
    /\ world' = IF ok THEN files @@ world ELSE world
Learn(what) == truth' = IF failed' THEN truth ELSE what @@ truth

-----------------------------------------------------------------------------
(* The bundle and the plugin root.                                         *)

Build ==
    LET built == world.build
        metadata == CreateMetadata(world.source, built.version, built.authenticode,
                                   built.synthetic, built.allowDirty)
    IN  /\ Write("build", metadata # None,
                 [candidate |-> [metadata |-> metadata, payload |-> built.payload,
                                 installers |-> built.installers, manifest |-> None]])
        /\ UNCHANGED truth

WriteInventory ==
    /\ Write("inventory", VerifyManifest(CreateManifest(world.candidate)),
             [candidate |-> CreateManifest(world.candidate)])
    /\ UNCHANGED truth

MaterializeRoot ==
    LET root == Materialize(world.approval, world.matrix, world.set) IN
    Write("materialize", root # None, [root |-> root]) /\ UNCHANGED truth

-----------------------------------------------------------------------------
(* run_prepare_policy. The materials of the pilot are those of its report. *)

MaterialFields == {"configs", "origin", "set", "matrix", "previous", "approval", "evidence"}
Intake(report) == report.materials = Snapshot(MaterialFields) /\ report.complete

\* verify_origin_policy_for_issuance
OriginIssued ==
    /\ Verified(world.origin.document, world.origin.envelope, world.approval, "issue")
    /\ ValidPolicy(world.origin.document.policy)

\* validate_cutover_signing_keys
SigningKeysReady ==
    /\ \A kind \in Evidences :
         KeyFor(world.evidence, world.approvals.signers[kind], "cutover-evidence", "issue")
    /\ KeyFor(world.approval, world.approvals.signers["decision"], "cutover-decision", "issue")

Bundles == [candidate |-> BundleIdentity(world.candidate, world.source),
            previous |-> BundleIdentity(world.previous, None)]
Newer(bundles) ==
    /\ bundles.candidate # None /\ bundles.previous # None
    /\ bundles.previous.metadata.version < bundles.candidate.metadata.version

PreparedFrom == {"source", "report", "approvals", "evidence"}

PrepareBegin ==
    /\ Keep("prepareBegin",
            /\ ~world.source.dirty /\ Intake(world.report)
            /\ SigningKeysReady /\ Newer(Bundles),
            [before |-> Snapshot(PreparedFrom), bundles |-> Bundles])
    /\ UNCHANGED truth

PrepareCheck ==
    /\ Keep("prepareCheck",
            OriginIssued /\ ReleaseChecked(world.approval, world.matrix, world.set),
            kept @@ [origin |-> world.origin.document, packages |-> world.set,
                     matrix |-> world.matrix, approval |-> world.approval])
    /\ UNCHANGED truth

PreparedPolicy ==
    [kind |-> "cutoverPolicy", candidate |-> Bundles.candidate, previous |-> Bundles.previous,
     evidenceAge |-> world.approvals.evidenceAge, decisionAge |-> world.approvals.decisionAge,
     minimum |-> world.approvals.minimum, signers |-> world.approvals.signers,
     evidence |-> world.evidence, materials |-> world.report.materials,
     origin |-> kept.origin, packages |-> kept.packages, matrix |-> kept.matrix,
     approval |-> kept.approval]

PrepareEnd ==
    /\ Write("prepareEnd",
             /\ Unchanged(kept.before) /\ Bundles = kept.bundles /\ Intake(world.report)
             /\ ValidCutoverPolicy(PreparedPolicy),
             [policy |-> PreparedPolicy])
    /\ UNCHANGED truth

-----------------------------------------------------------------------------
(* Signing: the document that is signed is the one a request was made of,  *)
(* and its key is the one that is asked for.                               *)

SignerOf(kind) ==
    world.policy.signers[IF kind = "policy" THEN "decision" ELSE kind]
StoreOf(kind) == IF kind \in Evidences THEN world.evidence ELSE world.approval

Request(kinds) ==
    [kind \in kinds |-> PrepareSigning(world[kind], SignerOf(kind), StoreOf(kind), world.clock)]
Envelopes(kinds) ==
    [kind \in kinds |-> FinalizeSigning(kept[kind], world[kind], StoreOf(kind), TRUE, world.clock)]

\* What is approved is the policy as its signature is asked for.
RequestSignatures(name, kinds) ==
    /\ Keep(name, None \notin Range(Request(kinds)), Request(kinds))
    /\ IF "policy" \in kinds THEN Learn([approved |-> world.policy]) ELSE UNCHANGED truth
FinalizeSignatures(name, kinds) ==
    LET envelopes == Envelopes(kinds) IN
    /\ Write(name, None \notin Range(envelopes),
             [field \in {Envelope(kind) : kind \in kinds} |->
                envelopes[CHOOSE kind \in kinds : Envelope(kind) = field]])
    /\ UNCHANGED truth

SignPolicy == RequestSignatures("requestPolicy", {"policy"})
              \/ FinalizeSignatures("finalizePolicy", {"policy"})
SignEvidence == RequestSignatures("requestEvidence", Evidences)
                \/ FinalizeSignatures("finalizeEvidence", Evidences)
SignDecision == RequestSignatures("requestDecision", {"decision"})
                \/ FinalizeSignatures("finalizeDecision", {"decision"})

-----------------------------------------------------------------------------
(* The evidence: the matrix runner, the audit, the smoke tests.            *)

\* capture_evidence_inputs
TestedFrom == {"source", "set", "root", "approval", "matrix", "hosts"}
RootReleased == RootChecked(world.approval, world.matrix, world.set, world.root)

MatrixBegin ==
    /\ Keep("matrixBegin",
            /\ \A plugin \in world.root : VerifyPlugin(world.approval, plugin, "runtime")
            /\ Executable(Contents(world.root), world.matrix) /\ RootReleased,
            [before |-> Snapshot(TestedFrom)])
    /\ UNCHANGED truth

\* The cases run on the plugins of the root, in hosts that look at the trust
\* store and at the signatures themselves.
MatrixRun ==
    /\ Keep("matrixRun",
            /\ world.approval = kept.before.approval
            /\ \A plugin \in world.root : VerifyPlugin(world.approval, plugin, "runtime")
            /\ world.answers,
            kept)
    /\ Learn([matrix |-> [root |-> world.root, hosts |-> world.hosts]])

MatrixEnd ==
    /\ Write("matrixEnd", RootReleased /\ Unchanged(kept.before),
             [plugin |-> [kind |-> "pluginMatrix", revision |-> world.source.revision,
                          dirty |-> world.source.dirty, at |-> world.clock,
                          packages |-> world.set, trust |-> world.approval,
                          matrix |-> world.matrix, hosts |-> world.hosts]])
    /\ UNCHANGED truth

\* load_verified_pilot_inputs, load_verified_origin_policy, run_formal
AuditedFrom == {"source", "report", "origin", "approval"}

MigrationBegin ==
    /\ Keep("migrationBegin",
            /\ Intake(world.report) /\ OriginIssued
            /\ VerifySigned(world.origin.document, world.origin.envelope, world.approval, world.clock),
            [before |-> Snapshot(AuditedFrom)])
    /\ UNCHANGED truth

MigrationRun ==
    /\ Keep("migrationRun", TRUE, kept @@ [findings |-> world.configs])
    /\ Learn([migration |-> [findings |-> world.configs]])

\* The evidence is written even of an audit that found something: whoever runs
\* the tools may go on with it.
MigrationEnd ==
    /\ Write("migrationEnd", Unchanged(kept.before) /\ Intake(world.report),
             [migration |-> [kind |-> "migrationAudit", revision |-> world.source.revision,
                             dirty |-> world.source.dirty, at |-> world.clock,
                             origin |-> kept.before.origin.document,
                             materials |-> kept.before.report.materials,
                             findings |-> kept.findings]])
    /\ UNCHANGED truth

\* run_windows_package: what the smoke tests say is an argument of the tool.
PackagedFrom == {"source", "candidate", "previous", "check"}

WindowsBegin ==
    /\ Keep("windowsBegin",
            /\ VerifyManifest(world.candidate) /\ VerifyMetadata(world.candidate.metadata, world.source)
            /\ world.check # None =>
                 ValidForDelivery(world.check.record, world.candidate.metadata.version)
            /\ world.smoke.previousGiven =>
                 /\ VerifyManifest(world.previous) /\ VerifyMetadata(world.previous.metadata, None)
                 /\ world.previous.metadata.version < world.candidate.metadata.version,
            [before |-> Snapshot(PackagedFrom), smoke |-> world.smoke])
    /\ Learn([windows |-> [bundle |-> world.candidate, smoke |-> world.smoke]])

WindowsEvidence ==
    LET smoke == kept.smoke
        Known(bundle) == [metadata |-> bundle.metadata, manifest |-> bundle.manifest]
    IN  [kind |-> "windowsPackage", revision |-> world.source.revision,
         dirty |-> world.source.dirty, at |-> world.clock, bundle |-> Known(world.candidate),
         previous |-> IF smoke.previousGiven THEN Known(world.previous) ELSE None,
         check |-> world.check, trust |-> smoke.trust, origin |-> smoke.origin,
         hosts |-> smoke.hosts, authenticode |-> smoke.authenticode, launch |-> smoke.launch,
         upgrade |-> smoke.previousGiven, rollback |-> smoke.previousGiven /\ smoke.launch,
         state |-> smoke.state]

WindowsEnd ==
    /\ Write("windowsEnd",
             /\ VerifyManifest(world.candidate)
             /\ kept.smoke.previousGiven => VerifyManifest(world.previous)
             /\ Unchanged(kept.before) /\ ValidWindowsEvidence(WindowsEvidence),
             [windows |-> WindowsEvidence])
    /\ UNCHANGED truth

-----------------------------------------------------------------------------
(* ssdev-cutover-evidence: precheck, decide, verify-go, check-current-go.  *)
(* Each takes the hashes of its files, loads the files, and takes the      *)
(* hashes again.                                                           *)

Hash(name, fields) ==
    Keep(name, TRUE, [before |-> Snapshot(fields)]) /\ UNCHANGED truth
Load(name, fields, ok) ==
    Keep(name, ok, kept @@ [loaded |-> Snapshot(fields), at |-> world.clock]) /\ UNCHANGED truth

EvidenceValid == \A kind \in Evidences : Signable(world[kind], 0)
AllAttested ==
    /\ PolicyAttested(world.policy, world.policyEnvelope, world.approval, "issue")
    /\ \A kind \in Evidences :
         EvidenceAttested(world[kind], world[Envelope(kind)], world.evidence,
                          world.policy.signers[kind], "issue")

PrecheckBegin == Hash("precheckBegin", Unsigned)
PrecheckLoad ==
    Load("precheckLoad", Unsigned,
         /\ PolicyAttested(world.policy, world.policyEnvelope, world.approval, "issue")
         /\ \A kind \in Evidences :
              KeyFor(world.evidence, world.policy.signers[kind], "cutover-evidence", "issue")
         /\ EvidenceValid)
PrecheckEnd ==
    /\ Keep("precheckEnd", /\ Unchanged(kept.before)
                           /\ Blockers(kept.loaded, kept.at) = {}, None)
    /\ UNCHANGED truth

DecideBegin == Hash("decideBegin", Attested)
DecideLoad == Load("decideLoad", Attested, AllAttested)
DecideEnd ==
    LET archive == [kept.loaded EXCEPT !.approval = world.approval, !.evidence = world.evidence]
        decision == EvaluateCutover(archive, Snapshot(Attested), kept.at)
    IN  /\ Write("decideEnd", Unchanged(kept.before), [decision |-> decision])
        /\ UNCHANGED truth

VerifyBegin == Hash("verifyBegin", Archive)
VerifyLoad ==
    Load("verifyLoad", Archive,
         /\ DecisionAttested(world.decision, world.decisionEnvelope, world.approval, "issue")
         /\ AllAttested)
\* Mutant: the archive is only checked to be eligible.
VerifyEndEligible ==
    /\ Keep("verifyEnd", Unchanged(kept.before) /\ kept.loaded.decision.eligible,
            [archive |-> kept.loaded, hashes |-> kept.before])
    /\ UNCHANGED truth

VerifyEnd ==
    LET archive == [kept.loaded EXCEPT !.approval = world.approval, !.evidence = world.evidence]
    IN  /\ Keep("verifyEnd",
                /\ Unchanged(kept.before)
                /\ Reproduces(archive, Snapshot(Attested), kept.loaded.decision),
                [archive |-> kept.loaded, hashes |-> kept.before])
        /\ UNCHANGED truth

RolledOutFrom == {"currentApproval", "currentEvidence", "candidate"}

CurrentBegin ==
    /\ Keep("currentBegin",
            /\ Unchanged(kept.hashes)
            /\ CandidateMatches(BundleIdentity(world.candidate, None), kept.archive),
            [archive |-> kept.archive, before |-> Snapshot(RolledOutFrom \cup Archive)])
    /\ UNCHANGED truth

\* Retired keys are accepted here, revoked ones are not.
CurrentTrust ==
    /\ Keep("currentTrust",
            /\ DecisionAttested(world.decision, world.decisionEnvelope, world.currentApproval, "runtime")
            /\ PolicyAttested(world.policy, world.policyEnvelope, world.currentApproval, "runtime")
            /\ \A kind \in Evidences :
                 EvidenceAttested(world[kind], world[Envelope(kind)], world.currentEvidence,
                                  kept.archive.policy.signers[kind], "runtime"),
            kept)
    /\ UNCHANGED truth

CurrentEnd ==
    /\ Keep("currentEnd",
            /\ Unchanged(kept.before) /\ BundleIdentity(world.candidate, None) # None
            /\ Authorized(kept.archive.policy, kept.archive.decision, world.clock),
            None)
    /\ UNCHANGED truth

-----------------------------------------------------------------------------
(* The files change in between: an input gets another value, a document    *)
(* that was written becomes another one, and may become itself again.      *)

Altered(field) ==
    LET value == world[field] IN
    CASE field = "candidate" ->
           {[value EXCEPT !.payload = None],
            CreateManifest([value EXCEPT !.payload = None])}
      [] field \in {Envelope(kind) : kind \in Evidences \cup {"policy", "decision"}} ->
           {[value EXCEPT !.genuine = FALSE], [value EXCEPT !.key = None]}
      [] field = "policy" -> {[value EXCEPT !.minimum = 0, !.evidenceAge = @ + 1]}
      [] field = "plugin" -> {[value EXCEPT !.revision = None]}
      [] field = "migration" -> {[value EXCEPT !.findings.critical = 1 - @]}
      [] field = "windows" -> {[value EXCEPT !.launch = ~@, !.rollback = FALSE]}
      [] field = "decision" -> {[value EXCEPT !.at = @ + 1], [value EXCEPT !.revision = None]}
      [] OTHER -> Others[field]

\* The last step that reads a field.
LastUse(field) ==
    CASE field = "build" -> "build"
      [] field = "approvals" -> "prepareEnd"
      [] field = "answers" -> "matrixRun"
      [] field \in {"root", "hosts"} -> "matrixEnd"
      [] field \in {"configs", "origin", "set", "matrix", "report"} -> "migrationEnd"
      [] field = "smoke" -> "windowsBegin"
      [] field \in {"source", "previous", "check"} -> "windowsEnd"
      [] OTHER -> "currentEnd"

\* Changes that the release should survive: of what is not read any more, of
\* a clock within the tolerance, of keys that are retired by those there are.
Harmless(field, value) ==
    \/ step > Place(LastUse(field))
    \/ field = "source" /\ step = 1 /\ ~value.dirty
    \/ field = "clock" /\ value - world.clock \in -Tolerance..Tolerance
    \/ /\ field \in {"currentApproval", "currentEvidence"} /\ step <= Place("currentBegin")
       /\ DOMAIN value = DOMAIN world[field]
       /\ \A key \in DOMAIN value : value[key].status # "revoked"

Change ==
    /\ Running /\ Cardinality(DOMAIN changed) < MaxChanges
    /\ \E field \in DOMAIN world \ DOMAIN changed :
         /\ world[field] # None
         /\ \E value \in Altered(field) \ {world[field]} :
              /\ world' = [world EXCEPT ![field] = value]
              /\ changed' = (field :> world[field]) @@ changed
              /\ harmless' = (harmless /\ Harmless(field, value))
    /\ UNCHANGED <<step, failed, kept, truth>>

Restore ==
    /\ Running
    /\ \E field \in DOMAIN changed \cap Documents :
         /\ world[field] # changed[field]
         /\ world' = [world EXCEPT ![field] = changed[field]]
    /\ UNCHANGED <<step, failed, kept, changed, harmless, truth>>

-----------------------------------------------------------------------------
CutoverInit ==
    /\ world \in Worlds
    /\ step = 1 /\ failed = FALSE /\ kept = None
    /\ changed = <<>> /\ harmless = TRUE /\ truth = <<>>

CutoverNext ==
    \/ Build \/ WriteInventory \/ MaterializeRoot
    \/ PrepareBegin \/ PrepareCheck \/ PrepareEnd \/ SignPolicy
    \/ MatrixBegin \/ MatrixRun \/ MatrixEnd
    \/ MigrationBegin \/ MigrationRun \/ MigrationEnd
    \/ WindowsBegin \/ WindowsEnd
    \/ PrecheckBegin \/ PrecheckLoad \/ PrecheckEnd \/ SignEvidence
    \/ DecideBegin \/ DecideLoad \/ DecideEnd \/ SignDecision
    \/ VerifyBegin \/ VerifyLoad \/ VerifyEnd
    \/ CurrentBegin \/ CurrentTrust \/ CurrentEnd
    \/ Change \/ Restore

-----------------------------------------------------------------------------
(***************************************************************************)
(* No tool refuses a release of which nothing changed that it still needs: *)
(* the checks of the tools agree with each other from the build to the     *)
(* rollout, also for clocks that differ a little and keys retired since.   *)
(***************************************************************************)
HonestRunsAreGo == failed => ~harmless

(***************************************************************************)
(* What check-current-go lets through is what was approved and tested: the *)
(* bundle there is the one approved and smoke tested, the golden cases ran *)
(* on its packages and hosts, the audit of its materials found nothing, no *)
(* evidence and no decision was too old, and no signer is revoked - with   *)
(* files changing between any two steps of the tools.                      *)
(***************************************************************************)
OnlyTheApprovedReleaseGoes ==
    Finished =>
      LET approved == truth.approved
          found == truth.migration.findings
          smoke == truth.windows.smoke
          Current(duty) == IF duty = "decision" THEN world.currentApproval ELSE world.currentEvidence
      IN  /\ BundleIdentity(world.candidate, None) = approved.candidate
          /\ truth.windows.bundle = world.candidate
          /\ truth.matrix.root = approved.packages /\ truth.matrix.hosts = smoke.hosts
          /\ found = approved.materials.configs /\ found.coverage >= approved.minimum
          /\ found.critical = 0 /\ found.warnings = 0 /\ ~found.http
          /\ smoke.launch /\ smoke.authenticode /\ smoke.state /\ smoke.previousGiven
          /\ \A kind \in Evidences :
               Age(world[kind].at, world.decision.at) <= approved.evidenceAge
          /\ Age(world.decision.at, world.clock) <= approved.decisionAge
          /\ \A duty \in Duties : Current(duty)[approved.signers[duty]].status # "revoked"
=============================================================================
