---------------------------- MODULE ReleaseSigning ----------------------------
(***************************************************************************)
(* The documents that are signed outside the program                       *)
(* (ssdev-release-signing): a request is prepared for a document, an       *)
(* external signer signs it, and the signature is finalized into an        *)
(* envelope that later tools verify. Also what makes the documents of a    *)
(* production cutover valid (ssdev-cutover-evidence).                      *)
(*                                                                         *)
(* A document is [kind, ...], a digest of it the document. An envelope is  *)
(* [key, document, genuine]: the key it names, the document that was       *)
(* signed, and whether that key's owner signed it. A trust store is as in  *)
(* PluginSupply.                                                           *)
(***************************************************************************)
EXTENDS GoldenMatrix, AccessPolicy

CONSTANTS
    Tolerance,    \* CUTOVER_CLOCK_SKEW_SECONDS: how far a clock may be ahead
    MaxCheckAge,  \* MAX_DEPLOYMENT_CHECK_AGE_SECONDS
    MaxDecisionAge \* MAX_CUTOVER_DECISION_AGE_SECONDS

ASSUME SigningAssumption == {Tolerance, MaxCheckAge, MaxDecisionAge} \subseteq Nat

Purpose(kind) ==
    CASE kind \in {"cutoverPolicy", "cutoverDecision"} -> "cutover-decision"
      [] kind \in {"pluginMatrix", "migrationAudit", "windowsPackage"} -> "cutover-evidence"
      [] kind = "originPolicy" -> "origin-policy"
      [] kind = "processPolicy" -> "process-policy"
      [] kind = "pluginCatalog" -> "plugin-catalog"

\* How long before now a time was: times in the future count as now.
Age(time, now) == IF time > now THEN 0 ELSE now - time
Ahead(time, now) == time > now + Tolerance

-----------------------------------------------------------------------------
(* The documents.                                                          *)

Duties == {"plugin", "migration", "windows", "decision"}

ValidCutoverPolicy(policy) ==
    /\ policy.previous.metadata.version < policy.candidate.metadata.version
    /\ policy.evidenceAge > 0 /\ policy.decisionAge \in 1..MaxDecisionAge
    /\ \A a, b \in Duties : a # b => policy.signers[a] # policy.signers[b]

\* Counts of a matrix that was checked: each plugin, service and method.
ValidMatrixEvidence(evidence) ==
    evidence.packages # {} /\ Methods(Contents(evidence.packages)) # {}

\* The check of a deployment is of the time of the evidence; what follows a
\* step that was not verified is not verified.
ValidWindowsEvidence(evidence) ==
    /\ evidence.check # None =>
         ~Ahead(evidence.check.at, evidence.at) /\ Age(evidence.check.at, evidence.at) <= MaxCheckAge
    /\ evidence.rollback => evidence.previous # None /\ evidence.launch
    /\ evidence.state => evidence.previous # None
    /\ evidence.authenticode => evidence.bundle.metadata.authenticode
    /\ evidence.previous # None =>
         evidence.previous.metadata.version < evidence.bundle.metadata.version

ValidDecision(decision) == decision.eligible = (decision.blockers = {})

\* What can be signed: prepare_material.
Signable(document, now) ==
    CASE document.kind = "cutoverDecision" -> ValidDecision(document) /\ document.eligible
      [] document.kind = "cutoverPolicy" -> ValidCutoverPolicy(document)
      [] document.kind = "pluginMatrix" -> ValidMatrixEvidence(document)
      [] document.kind = "windowsPackage" -> ValidWindowsEvidence(document)
      [] document.kind = "originPolicy" -> ValidPolicy(document.policy)
      [] document.kind = "processPolicy" -> ValidProcesses(document.processes)
      [] document.kind = "pluginCatalog" ->
           /\ ValidCatalog(document.catalog, now)
           /\ \A entry \in ToSet(document.catalog.entries) : entry.requirement # None
      [] document.kind = "migrationAudit" -> TRUE

\* ensure_expected_signer and ensure_expected_trust_store
SignerExpected(document, key) ==
    /\ document.kind = "cutoverPolicy" => key = document.signers["decision"]
    /\ document.kind = "cutoverDecision" => key = document.signer
StoreExpected(document, store) ==
    document.kind \in {"cutoverPolicy", "cutoverDecision"} => store = document.approval

-----------------------------------------------------------------------------
(* Signing: a request, then an envelope. None is a step that failed.       *)

PrepareSigning(document, key, store, now) ==
    IF /\ document # None /\ Signable(document, now)
       /\ SignerExpected(document, key) /\ StoreExpected(document, store)
       /\ KeyFor(store, key, Purpose(document.kind), "issue")
    THEN [document |-> document, key |-> key] ELSE None

\* An envelope is genuine for the document that the request was made of.
Verified(document, envelope, store, use) ==
    /\ KeyFor(store, envelope.key, Purpose(document.kind), use)
    /\ envelope.genuine /\ envelope.document = document

VerifySigned(document, envelope, store, now) ==
    /\ Signable(document, now)
    /\ SignerExpected(document, envelope.key) /\ StoreExpected(document, store)
    /\ Verified(document, envelope, store, "issue")

FinalizeSigning(request, document, store, genuine, now) ==
    LET envelope == [key |-> request.key, document |-> request.document, genuine |-> genuine]
    IN  IF /\ request # None /\ document # None
           /\ Signable(document, now) /\ SignerExpected(document, request.key)
           /\ request.document = document
           /\ StoreExpected(document, store)
           /\ Verified(document, envelope, store, "issue")
           /\ VerifySigned(document, envelope, store, now)
        THEN envelope ELSE None

-----------------------------------------------------------------------------
(* What the tools of a cutover ask of an envelope, when it is issued and   *)
(* ("runtime") against the trust there is later.                           *)

EvidenceAttested(evidence, envelope, store, expected, use) ==
    /\ evidence # None /\ envelope # None
    /\ Signable(evidence, 0)
    /\ envelope.key = expected /\ Verified(evidence, envelope, store, use)

PolicyAttested(policy, envelope, store, use) ==
    /\ policy # None /\ envelope # None
    /\ ValidCutoverPolicy(policy)
    /\ envelope.key = policy.signers["decision"]
    /\ use = "issue" => store = policy.approval
    /\ Verified(policy, envelope, store, use)

DecisionAttested(decision, envelope, store, use) ==
    /\ decision # None /\ envelope # None
    /\ Signable(decision, 0)
    /\ envelope.key = decision.signer
    /\ use = "issue" => store = decision.approval
    /\ Verified(decision, envelope, store, use)
=============================================================================
