------------------------------ MODULE Promotions ------------------------------
(***************************************************************************)
(* The way of a local mapping from the desktop where it is tried out to a  *)
(* signed plugin and the pages that use it: it is prepared, its cases are  *)
(* edited and run, its source and a seed of golden cases are exported,     *)
(* staged, reviewed, signed, compared with what was released before, and   *)
(* given to those who write the pages.  Questions as in Deliveries.        *)
(***************************************************************************)
EXTENDS Deliveries, ReleaseSource

CONSTANTS
    Edits,       \* [definition, disk, same, case, outcomes]
    Promoted     \* [definition, disk, added, store, key, identity, baseline,
                 \*  answer, from, api]

AskPromotion ==
    \/ question \in [kind : {"debug"}, of : Edits]
    \/ question \in [kind : {"promote"}, of : Promoted]

\* The mapping as it was stored, and approved unless it was changed since.
Stored(q) == PrepareMapping(q.definition, q.disk)
Approved(q) == IF q.same THEN Stored(q) ELSE [Stored(q) EXCEPT !.cases = <<>>]

DebugMapping ==
    /\ Decide("debug")
    /\ LET q == question.of IN
       decision' = IF Stored(q) = None THEN Refused
                   ELSE [stored |-> Stored(q),
                         saved |-> UpsertCase(Stored(q), Approved(q), q.case),
                         deleted |-> DeleteCase(Stored(q), Approved(q), q.case.name),
                         ran |-> RunCases(Stored(q), Approved(q), q.outcomes)]

\* What a reviewer makes of a seed: what was drafted is given a value.
Completed(matrix, answer) ==
    LET Given(data) == IF data = Draft THEN answer ELSE data
        Complete(case) ==
          [case EXCEPT !.values = [input \in DOMAIN case.values |-> Given(case.values[input])],
                       !.response.data = Given(case.response.data)]
        reviewed == Reviewed(matrix)
    IN  [reviewed EXCEPT !.cases = [i \in DOMAIN reviewed.cases |-> Complete(reviewed.cases[i])]]

\* Files may be added to the exported source, and the staged API may change
\* from one of the steps in which the kit is made.
Promote ==
    /\ Decide("promote")
    /\ LET q == question.of
           exported == ExportSource(Stored(q))
           source == [exported EXCEPT !.files = q.added @@ exported.files]
           seed == MatrixSeed(Stored(q))
           staged == StageRelease(q.store, q.key, source, q.identity, seed)
           matrix == Completed(staged.matrix, q.answer)
           kept == [content |-> staged.content, display |-> q.identity.display, matrix |-> matrix]
           other == [kept EXCEPT !.content.services = q.api]
       IN  decision' =
             IF Stored(q) = None THEN Refused
             ELSE IF seed = None THEN [seed |-> None, staged |-> None]
             ELSE IF staged = None THEN [seed |-> seed, staged |-> None]
             ELSE [seed |-> seed, staged |-> staged, matrix |-> matrix,
                   api |-> CheckApi(q.store, q.baseline, q.identity.id, source),
                   package |-> FinalizePackage(q.store, staged.content, staged.request, TRUE),
                   kit |-> GenerateKit([i \in 1..4 |-> IF i < q.from THEN kept ELSE other])]

DecidePromotion == DebugMapping \/ Promote

-----------------------------------------------------------------------------
(***************************************************************************)
(* What is run against a device is what was approved, and no further than  *)
(* the first case whose device is in doubt or whose answer is not the      *)
(* expected one; and a mapping is left as one that can be used, with its   *)
(* other cases as they were.                                               *)
(***************************************************************************)
Without(cases, name) == SelectSeq(cases, LAMBDA case : case.name # name)

OnlyApprovedCasesRun ==
    Decided("debug") /\ decision # Refused =>
      LET q == question.of stored == decision.stored ran == decision.ran IN
      /\ StoredDefinition(stored)
      /\ \A edited \in {decision.saved, decision.deleted} \ {None} :
           /\ Approved(q) = stored /\ StoredDefinition(edited)
           /\ edited.services = stored.services /\ edited.files = stored.files
           /\ Without(edited.cases, q.case.name) = Without(stored.cases, q.case.name)
      /\ decision.saved # None => q.case \in ToSet(decision.saved.cases)
      /\ decision.deleted # None => Without(decision.deleted.cases, q.case.name) = decision.deleted.cases
      /\ ran # None =>
           /\ Approved(q) = stored
           /\ ran.cases \o SubSeq(stored.cases, Len(ran.cases) + 1, Len(stored.cases)) = stored.cases
           /\ ran.skipped = Len(stored.cases) - Len(ran.cases)
           /\ \A i \in DOMAIN ran.cases :
                /\ i < Len(ran.cases) \/ ~ran.stopped => ran.passed[i]
                /\ ran.passed[i] => /\ q.outcomes[i].state = "completed"
                                    /\ q.outcomes[i].code = stored.cases[i].code
                                    /\ stored.cases[i].asserts =>
                                         Conforms(stored.cases[i].expected, q.outcomes[i].data)

\* What runs is what was accepted: a plugin the one that was confirmed, a
\* mapping the one its integrity document was made for, a case of a mapping
\* one that was approved with it.
AcceptedIsWhatRuns ==
    ConfirmedIsInstalled /\ ConfirmedIsImported /\ VerifiedMappingsAreUnchanged /\ OnlyApprovedCasesRun

(***************************************************************************)
(* A mapping that fits its native files is taken by the release tool with  *)
(* its cases: all of them are golden cases, next to one for each method    *)
(* without, nothing that they leave open is made up, and what is signed    *)
(* after their review are the files of the mapping, can be released and    *)
(* installed, in place of the version before when the tool has called the  *)
(* two compatible.  The kit for the pages is of one state of the plugin:   *)
(* its client and its fixtures agree with the API that it names.           *)
(*                                                                         *)
(* The tool takes less than the desktop saves: a case whose name is not    *)
(* safe (case.name.safe: blanks at its ends, control characters) stops the *)
(* handover, and so does a display name for the kit.  The formula has both *)
(* as conditions; docs/local-mapping-studio.md:16 speaks of none.          *)
(***************************************************************************)
Fitting(mapping) ==
    \A id \in DOMAIN mapping.services :
      LET service == mapping.services[id] IN
      /\ ~service.installRun /\ service.methods # <<>>
      /\ service.main \in {"dll", "exe"} => mapping.files[service.entry].arch = service.arch
      /\ service.main = "dll" => \A method \in ToSet(service.methods) :
                                  method.name \in mapping.files[service.entry].exports

Mergeable(mapping, added) ==
    /\ Link \notin Range(added)
    /\ \A path \in DOMAIN added : \A other \in DOMAIN added \cup DOMAIN mapping.files :
         path.key = other.key => path = other

KitHolds(kit) ==
    /\ kit.client.calls = ClientCalls(kit.manifest.api)
    /\ {fixture.called : fixture \in ToSet(kit.fixtures.fixtures)} = kit.client.calls
    /\ \A a, b \in ToSet(kit.fixtures.fixtures) :
         a.called = b.called /\ a.values = b.values => a.response = b.response
    /\ KitChecked(kit) <=> kit.manifest.display.safe

MappingsCanBeReleased ==
    Decided("promote") /\ decision # Refused =>
      LET q == question.of mapping == Stored(q)
          key == KeyFor(q.store, q.key, "plugin", "issue")
      IN  /\ decision.staged # None <=>
               /\ key /\ Fitting(mapping) /\ Mergeable(mapping, q.added)
               /\ \A case \in ToSet(mapping.cases) : case.name.safe
          /\ decision.staged # None =>
               LET package == decision.package desktop == With(q.store, q.baseline) IN
               /\ package # None /\ package.content.services = mapping.services
               /\ package.content.files = Restrict(mapping.files, AllComponents(mapping.services))
                                         @@ Restrict(q.added, {p \in DOMAIN q.added : p.key \notin Excluded})
               /\ \A case \in ToSet(mapping.cases) : \E golden \in ToSet(decision.staged.matrix.cases) :
                    /\ golden.name = case.name /\ golden.service = case.service
                    /\ Restrict(golden.values, DOMAIN case.given) = case.given
                    /\ case.asserts => golden.response = [code |-> case.code, data |-> case.expected]
                    /\ ~case.asserts \/ golden.inputs # DOMAIN case.given => golden.placeholder
               /\ ReleaseChecked(q.store, decision.matrix, {package})
               /\ Matches(q.identity.requirement, 1) =>
                    /\ LocalPlan(Fresh(q.store), package) # None
                    /\ decision.api # None /\ q.baseline.content.version <= q.identity.version =>
                         decision.api.compatible = (LocalPlan(desktop, package) # None)
               /\ decision.kit # None => KitHolds(decision.kit)
=============================================================================
