---------------------------- MODULE Coordinator ----------------------------
(***************************************************************************)
(* The coordinator of tracked invocations                                  *)
(* (apps/desktop/src-tauri/src/invocations.rs).  Callers ask it to run an  *)
(* operation or for its status; the first caller of an operation registers *)
(* it and spawns a workflow, later callers wait for the same workflow.     *)
(* The workflow records the operation in the ledger, calls the controller, *)
(* records the completion and publishes the outcome; a supervisor observes *)
(* it and reconciles it from the ledger when it panics.                    *)
(*                                                                         *)
(* Ledger.tla checks the ledger itself.  Here it is the evidence it keeps: *)
(* an operation may fail with or without a trace that shows after restart. *)
(***************************************************************************)
EXTENDS Integers, FiniteSets, SequencesExt

CONSTANTS
  Caller,      \* concurrent calls of invoke and status
  Key,         \* operation keys (runtime_key: scope and operation id)
  Request,     \* request hashes; all on one route
  Slot,        \* RuntimeOperation objects with their workflow
  None,
  MaxRuntime,  \* MAX_RUNTIME_OPERATIONS
  MaxPanics,   \* bound: workflow tasks that panic
  MaxErrors,   \* bound: ledger operations that fail
  MaxCrashes   \* bound: process crashes

ASSUME CoordinatorAssumption ==
  /\ MaxRuntime \in Nat \ {0}
  /\ {MaxPanics, MaxErrors, MaxCrashes} \subseteq Nat
  /\ IsFiniteSet(Slot)
  /\ None \notin Caller \cup Slot \cup Key \cup Request
  /\ None \notin [request : Request, state : {"accepted", "completed"}]

VARIABLES
  accepting,  \* the admission flag
  gate,       \* begin_gate: the caller that holds it
  exit,       \* progress of an orderly exit
  runtime,    \* [Key -> Slot]: the runtime map
  op,         \* [Slot -> operation]: request, RuntimeState and waiters
  finished,   \* slots in the runtime map that are not pending, oldest first
  work,       \* [Slot -> program counter of the workflow and its supervisor]
  active,     \* active_workflows
  caller,     \* [Caller -> program counter, question and answer]
  evidence,   \* what the running ledger knows of each key
  latent,     \* records of failed operations that a restart may find
  ledger,     \* "open" or "unavailable"
  faults,     \* panics, errors and crashes so far
  executed    \* history: controller executions per key in its retention

runtimeVars == <<runtime, op, finished>>
ledgerVars  == <<evidence, latent, ledger>>
vars == <<accepting, gate, exit, runtimeVars, work, active, caller,
          ledgerVars, faults, executed>>

OpStates == {"free", "pending", "completed", "withoutResult",
             "indeterminate", "completedWithoutResult", "failed"}
Evidence == [request : Request, state : {"accepted", "completed"}]
NoOperation == [key |-> None, request |-> None, state |-> "free",
                durable |-> FALSE, waiters |-> {}]
Idle == [pc |-> "idle", key |-> None, request |-> None,
         answer |-> "none", of |-> None]

Entries == {k \in Key : runtime[k] # None}

\* An operation is freed with its last reference: out of the runtime map, its
\* workflow and supervisor ended.
Referenced(i, map, tasks) == tasks[i] # "none" \/ \E k \in Key : map[k] = i
Collected(ops, map, tasks) ==
  [i \in Slot |-> IF Referenced(i, map, tasks) THEN ops[i] ELSE NoOperation]

-----------------------------------------------------------------------------
\* Answers.

Reply(answer) == [Idle EXCEPT !.pc = "answered", !.answer = answer]

\* What a caller reads from an operation that is no longer pending.
Published(i) ==
  IF op[i].state = "completed" /\ ~op[i].durable THEN "notDurable"
  ELSE IF op[i].state = "withoutResult" THEN "completedWithoutResult"
  ELSE op[i].state

\* Mutant: a recorded completion is taken for a retained result.
RecordedAsCompleted(k) ==
  IF evidence[k] = None THEN "unknown"
  ELSE IF evidence[k].state = "accepted" THEN "indeterminate" ELSE "completed"

\* What the ledger answers for a key it is asked about.
Recorded(k) ==
  IF evidence[k] = None THEN "unknown"
  ELSE IF evidence[k].state = "accepted" THEN "indeterminate"
  ELSE "completedWithoutResult"

-----------------------------------------------------------------------------
\* invoke, up to the registration of the operation.

Invoke(c, k, r) ==
  /\ caller[c].pc \in {"idle", "answered"}
  /\ ledger = "open"
  /\ caller' = [caller EXCEPT ![c] =
                  IF accepting
                  THEN [Idle EXCEPT !.pc = "attach", !.key = k, !.request = r]
                  ELSE Reply("stopping")]
  /\ UNCHANGED <<accepting, gate, exit, runtimeVars, work, active, ledgerVars,
                 faults, executed>>

\* attach_runtime for an operation that is in the runtime map: a conflict, a
\* place among its waiters, or its outcome.
AttachTo(c, i) ==
  IF op[i].request # caller[c].request
  THEN caller' = [caller EXCEPT ![c] = Reply("conflict")] /\ UNCHANGED op
  ELSE IF op[i].state = "pending"
  THEN /\ caller' = [caller EXCEPT ![c].pc = "waiting", ![c].of = i]
       /\ op' = [op EXCEPT ![i].waiters = @ \cup {c}]
  ELSE caller' = [caller EXCEPT ![c] = Reply(Published(i))] /\ UNCHANGED op

\* The first attach_runtime, before the gate.
Attach(c) ==
  /\ caller[c].pc = "attach"
  /\ IF runtime[caller[c].key] = None
     THEN caller' = [caller EXCEPT ![c].pc = "gate"] /\ UNCHANGED op
     ELSE AttachTo(c, runtime[caller[c].key])
  /\ UNCHANGED <<accepting, gate, exit, runtime, finished, work, active,
                 ledgerVars, faults, executed>>

\* Takes the begin gate and checks admission again.
EnterGate(c) ==
  /\ caller[c].pc = "gate"
  /\ gate = None
  /\ IF accepting
     THEN gate' = c /\ caller' = [caller EXCEPT ![c].pc = "gated"]
     ELSE caller' = [caller EXCEPT ![c] = Reply("stopping")] /\ UNCHANGED gate
  /\ UNCHANGED <<accepting, exit, runtimeVars, work, active, ledgerVars,
                 faults, executed>>

\* The entries that stay when the n oldest finished ones are dropped.
WithoutOldest(n) ==
  LET gone == {finished[j] : j \in 1..n}
  IN [k \in Key |-> IF runtime[k] \in gone THEN None ELSE runtime[k]]

\* Room for one more entry: results past their retention are dropped first,
\* then the oldest finished ones; a pending operation never is.
Dropped(n) ==
  LET left == Cardinality(Entries) - n
  IN n = Len(finished) \/ left < MaxRuntime

FreeSlots == {i \in Slot : ~Referenced(i, runtime, work)}

\* Under the gate: attach again, or make room, register and spawn.
Register(c) ==
  LET k == caller[c].key IN
  /\ caller[c].pc = "gated"
  /\ gate' = None
  /\ IF runtime[k] # None
     THEN /\ AttachTo(c, runtime[k])
          /\ UNCHANGED <<runtime, finished, work, active>>
     ELSE \E n \in 0..Len(finished) :
            /\ Dropped(n)
            /\ finished' = SubSeq(finished, n + 1, Len(finished))
            /\ IF Cardinality(Entries) - n >= MaxRuntime
               THEN /\ caller' = [caller EXCEPT ![c] = Reply("capacity")]
                    /\ runtime' = WithoutOldest(n)
                    /\ op' = Collected(op, WithoutOldest(n), work)
                    /\ UNCHANGED <<work, active>>
               ELSE \E i \in FreeSlots :
                      /\ op' = [Collected(op, WithoutOldest(n), work) EXCEPT ![i] =
                                  [key |-> k, request |-> caller[c].request,
                                   state |-> "pending", durable |-> FALSE,
                                   waiters |-> {c}]]
                      /\ runtime' = [WithoutOldest(n) EXCEPT ![k] = i]
                      /\ work' = [work EXCEPT ![i] = "begin"]
                      /\ active' = active + 1
                      /\ caller' = [caller EXCEPT ![c].pc = "waiting", ![c].of = i]
  /\ UNCHANGED <<accepting, exit, ledgerVars, faults, executed>>

\* The page navigates away: the call is dropped at any await; its gate is
\* released and its answer goes nowhere.  Its workflow is not touched.
Abandon(c) ==
  /\ caller[c].pc \in {"attach", "gate", "gated", "waiting", "lookup"}
  /\ caller' = [caller EXCEPT ![c] = Idle]
  /\ gate' = IF gate = c THEN None ELSE gate
  /\ op' = [i \in Slot |-> [op[i] EXCEPT !.waiters = @ \ {c}]]
  /\ UNCHANGED <<accepting, exit, runtime, finished, work, active, ledgerVars,
                 faults, executed>>

\* status: from the runtime map, else (a later step) from the ledger.
Status(c, k) ==
  /\ caller[c].pc \in {"idle", "answered"}
  /\ ledger = "open"
  /\ caller' = [caller EXCEPT ![c] =
                  IF runtime[k] = None
                  THEN [Idle EXCEPT !.pc = "lookup", !.key = k]
                  ELSE Reply(Published(runtime[k]))]
  /\ UNCHANGED <<accepting, gate, exit, runtimeVars, work, active, ledgerVars,
                 faults, executed>>

StatusFromLedger(c) ==
  /\ caller[c].pc = "lookup"
  /\ caller' = [caller EXCEPT ![c] = Reply(Recorded(caller[c].key))]
  /\ UNCHANGED <<accepting, gate, exit, runtimeVars, work, active, ledgerVars,
                 faults, executed>>

-----------------------------------------------------------------------------
\* The workflow of a slot.

Fails == faults.errors < MaxErrors

\* Mutant: the state is stored and the waiters are forgotten.
PublishSilently(k, state, durable, answer) ==
  LET i == runtime[k] IN
  /\ op' = IF i = None THEN op ELSE [op EXCEPT ![i].state = state, ![i].waiters = {}]
  /\ UNCHANGED <<finished, caller>>

\* Publishing looks the key up again and does nothing unless the operation
\* it finds is pending; waiters are answered after the state is stored.
Publish(k, state, durable, answer) ==
  LET i == runtime[k] IN
  IF i = None \/ (i # None /\ op[i].state # "pending")
  THEN UNCHANGED <<op, finished, caller>>
  ELSE /\ op' = [op EXCEPT ![i].state = state, ![i].durable = durable,
                           ![i].waiters = {}]
       /\ finished' = Append(finished, i)
       /\ caller' = [c \in Caller |-> IF c \in op[i].waiters
                                      THEN Reply(answer) ELSE caller[c]]

\* Mutant: the call is made before anything is recorded.
BeginUnrecorded(i) ==
  /\ work[i] = "begin"
  /\ work' = [work EXCEPT ![i] = "execute"]
  /\ UNCHANGED <<accepting, gate, exit, runtimeVars, active, caller, ledgerVars,
                 faults, executed>>

\* begin_durable succeeded: Started, or the answer of a known operation.
BeginDurable(i) ==
  LET k == op[i].key
      known == [request |-> op[i].request, state |-> "accepted"]
  IN /\ work[i] = "begin"
     /\ IF evidence[k] = None
        THEN /\ evidence' = [evidence EXCEPT ![k] = known]
             /\ work' = [work EXCEPT ![i] = "execute"]
             /\ UNCHANGED <<op, finished, caller>>
        ELSE /\ Publish(k, IF evidence[k].request = op[i].request
                           THEN Recorded(k) ELSE "failed", FALSE,
                        IF evidence[k].request = op[i].request
                           THEN Recorded(k) ELSE "failed")
             /\ work' = [work EXCEPT ![i] = "returned"]
             /\ UNCHANGED evidence
     /\ UNCHANGED <<accepting, gate, exit, runtime, active, latent, ledger,
                    faults, executed>>

\* begin_durable failed: nothing is on disk, or a record the running ledger
\* does not know, or one it does know (the compaction after it failed).
BeginFails(i) ==
  LET k == op[i].key
      known == [request |-> op[i].request, state |-> "accepted"]
  IN /\ work[i] = "begin"
     /\ Fails
     /\ \/ UNCHANGED <<evidence, latent>>
        \/ /\ evidence[k] = None
           /\ latent' = [latent EXCEPT ![k] = @ \cup {known}]
           /\ UNCHANGED evidence
        \/ /\ evidence[k] = None
           /\ evidence' = [evidence EXCEPT ![k] = known]
           /\ UNCHANGED latent
     /\ Publish(k, "failed", FALSE, "failed")
     /\ work' = [work EXCEPT ![i] = "returned"]
     /\ faults' = [faults EXCEPT !.errors = @ + 1]
     /\ UNCHANGED <<accepting, gate, exit, runtime, active, ledger, executed>>

\* The controller runs the native call, or refuses it before any host.
Execute(i) ==
  /\ work[i] = "execute"
  /\ \/ executed' = [executed EXCEPT ![op[i].key] = @ + 1]
     \/ UNCHANGED executed
  /\ work' = [work EXCEPT ![i] = "finish"]
  /\ UNCHANGED <<accepting, gate, exit, runtimeVars, active, caller, ledgerVars,
                 faults>>

\* finish: complete_durable, which fails without a trace, or with a record on
\* disk, or with one the running ledger knows.
CompleteDurable(i) ==
  LET k == op[i].key
      done == [request |-> op[i].request, state |-> "completed"]
      mine == evidence[k] # None /\ evidence[k].request = op[i].request
  IN /\ work[i] = "finish"
     /\ \/ /\ mine
           /\ evidence' = [evidence EXCEPT ![k] = done]
           /\ work' = [work EXCEPT ![i] = "publishDurable"]
           /\ UNCHANGED <<latent, faults>>
        \/ /\ Fails
           /\ \/ UNCHANGED <<evidence, latent>>
              \/ /\ mine
                 /\ latent' = [latent EXCEPT ![k] = @ \cup {done}]
                 /\ UNCHANGED evidence
              \/ /\ mine
                 /\ evidence' = [evidence EXCEPT ![k] = done]
                 /\ UNCHANGED latent
           /\ work' = [work EXCEPT ![i] = "publishNotDurable"]
           /\ faults' = [faults EXCEPT !.errors = @ + 1]
     /\ UNCHANGED <<accepting, gate, exit, runtimeVars, active, caller, ledger,
                    executed>>

\* Mutant: every completion is published as durable.
PublishAlwaysDurable(i) ==
  /\ work[i] \in {"publishDurable", "publishNotDurable"}
  /\ Publish(op[i].key, "completed", TRUE, "completed")
  /\ work' = [work EXCEPT ![i] = "returned"]
  /\ UNCHANGED <<accepting, gate, exit, runtime, active, ledgerVars, faults,
                 executed>>

\* finish, after the ledger: keep the response if it is small enough to be
\* retained and answer every waiter with it.
PublishCompleted(i) ==
  LET durable == work[i] = "publishDurable" IN
  /\ work[i] \in {"publishDurable", "publishNotDurable"}
  /\ \E state \in {"completed", "withoutResult"} :
       Publish(op[i].key, state, durable, IF durable THEN "completed" ELSE "notDurable")
  /\ work' = [work EXCEPT ![i] = "returned"]
  /\ UNCHANGED <<accepting, gate, exit, runtime, active, ledgerVars, faults,
                 executed>>

\* The workflow task panics at any await.
Panic(i) ==
  /\ work[i] \in {"begin", "execute", "finish", "publishDurable", "publishNotDurable"}
  /\ faults.panics < MaxPanics
  /\ faults' = [faults EXCEPT !.panics = @ + 1]
  /\ work' = [work EXCEPT ![i] = "panicked"]
  /\ UNCHANGED <<accepting, gate, exit, runtimeVars, active, caller, ledgerVars,
                 executed>>

\* reconcile_terminated_workflow asks the ledger what it knows; an error is
\* conservatively indeterminate.
Reconcile(i) ==
  /\ work[i] = "panicked"
  /\ \/ /\ work' = [work EXCEPT ![i] = Recorded(op[i].key)]
        /\ UNCHANGED faults
     \/ /\ Fails
        /\ faults' = [faults EXCEPT !.errors = @ + 1]
        /\ work' = [work EXCEPT ![i] = "indeterminate"]
  /\ UNCHANGED <<accepting, gate, exit, runtimeVars, active, caller, ledgerVars,
                 executed>>

\* publish_terminal of what the ledger knew.
PublishReconciled(i) ==
  /\ work[i] \in {"indeterminate", "completedWithoutResult"}
  /\ Publish(op[i].key, work[i], FALSE, work[i])
  /\ work' = [work EXCEPT ![i] = "returned"]
  /\ UNCHANGED <<accepting, gate, exit, runtime, active, ledgerVars, faults,
                 executed>>

\* publish_retryable_failure: nothing was recorded, so the entry goes away
\* and the same operation id may be submitted again.
PublishRetryable(i) ==
  LET k == op[i].key
      j == runtime[k]
  IN /\ work[i] = "unknown"
     /\ IF j = None \/ (j # None /\ op[j].state # "pending")
        THEN UNCHANGED <<op, runtime, caller>>
        ELSE /\ op' = [op EXCEPT ![j].state = "failed", ![j].waiters = {}]
             /\ runtime' = [runtime EXCEPT ![k] = None]
             /\ caller' = [c \in Caller |-> IF c \in op[j].waiters
                                            THEN Reply("taskFailed")
                                            ELSE caller[c]]
     /\ work' = [work EXCEPT ![i] = "returned"]
     /\ UNCHANGED <<accepting, gate, exit, finished, active, ledgerVars, faults,
                    executed>>

\* The supervisor ends: its guard lowers the counter and wakes a drain.
EndSupervisor(i) ==
  /\ work[i] = "returned"
  /\ work' = [work EXCEPT ![i] = "none"]
  /\ active' = active - 1
  /\ op' = Collected(op, runtime, [work EXCEPT ![i] = "none"])
  /\ UNCHANGED <<accepting, gate, exit, runtime, finished, caller, ledgerVars,
                 faults, executed>>

-----------------------------------------------------------------------------
\* Housekeeping, orderly exit, retention and crashes.

\* stats drops the results whose retention is over, the oldest ones.
CleanupRuntime ==
  /\ \E n \in 1..Len(finished) :
       /\ runtime' = WithoutOldest(n)
       /\ finished' = SubSeq(finished, n + 1, Len(finished))
       /\ op' = Collected(op, WithoutOldest(n), work)
  /\ UNCHANGED <<accepting, gate, exit, work, active, caller, ledgerVars,
                 faults, executed>>

ExitVars == <<runtimeVars, work, active, caller, ledgerVars, faults, executed, gate>>

\* stop_accepting, first half: the flag.
StopAccepting ==
  /\ exit = "running"
  /\ exit' = "stopping"
  /\ accepting' = FALSE
  /\ UNCHANGED ExitVars

\* Mutant: stop_accepting does not wait for the gate.
PassOccupiedGate ==
  /\ exit = "stopping"
  /\ exit' = "draining"
  /\ UNCHANGED <<accepting, ExitVars>>

\* stop_accepting, second half: wait for whoever is inside the gate.
PassGate ==
  /\ exit = "stopping"
  /\ gate = None
  /\ exit' = "draining"
  /\ UNCHANGED <<accepting, ExitVars>>

\* drain: returns when no workflow is active.
Drain ==
  /\ exit = "draining"
  /\ active = 0
  /\ exit' = "drained"
  /\ UNCHANGED <<accepting, ExitVars>>

\* resume_after_shutdown, when the update that caused the exit failed.
ResumeAfterShutdown ==
  /\ exit = "drained"
  /\ exit' = "running"
  /\ accepting' = TRUE
  /\ UNCHANGED ExitVars

\* The retention of a key's evidence passes; its workflow ended long before.
ExpireEvidence(k) ==
  /\ evidence[k] # None
  /\ \A i \in Slot : work[i] # "none" => op[i].key # k
  /\ evidence' = [evidence EXCEPT ![k] = None]
  /\ executed' = [executed EXCEPT ![k] = 0]
  /\ latent' = [latent EXCEPT ![k] = {}]
  /\ UNCHANGED <<accepting, gate, exit, runtimeVars, work, active, caller,
                 ledger, faults>>

\* What a restart may read for a key: its evidence, or a record a failed
\* operation left that supersedes it.
Surfaced(k) ==
  {evidence[k]} \cup {e \in latent[k] :
     \/ evidence[k] = None
     \/ e = [evidence[k] EXCEPT !.state = "completed"]}

\* The process dies and is started again.  After an error the ledger may
\* refuse to open.
Crash ==
  /\ faults.crashes < MaxCrashes
  /\ faults' = [faults EXCEPT !.crashes = @ + 1]
  /\ accepting' = TRUE /\ gate' = None /\ exit' = "running"
  /\ runtime' = [k \in Key |-> None]
  /\ op' = [i \in Slot |-> NoOperation]
  /\ finished' = <<>>
  /\ work' = [i \in Slot |-> "none"]
  /\ active' = 0
  /\ caller' = [c \in Caller |-> Idle]
  /\ evidence' \in {e \in [Key -> Evidence \cup {None}] :
                      \A k \in Key : e[k] \in Surfaced(k)}
  /\ latent' = [k \in Key |-> {}]
  /\ ledger' \in IF faults.errors = 0 THEN {"open"} ELSE {"open", "unavailable"}
  /\ UNCHANGED executed

-----------------------------------------------------------------------------
Init ==
  /\ accepting = TRUE /\ gate = None /\ exit = "running"
  /\ runtime = [k \in Key |-> None]
  /\ op = [i \in Slot |-> NoOperation]
  /\ finished = <<>>
  /\ work = [i \in Slot |-> "none"]
  /\ active = 0
  /\ caller = [c \in Caller |-> Idle]
  /\ evidence = [k \in Key |-> None]
  /\ latent = [k \in Key |-> {}]
  /\ ledger = "open"
  /\ faults = [panics |-> 0, errors |-> 0, crashes |-> 0]
  /\ executed = [k \in Key |-> 0]

CallerStep(c) == Attach(c) \/ Register(c) \/ StatusFromLedger(c)

WorkflowStep(i) ==
  \/ BeginDurable(i) \/ BeginFails(i) \/ Execute(i) \/ CompleteDurable(i)
  \/ PublishCompleted(i) \/ Reconcile(i) \/ PublishReconciled(i)
  \/ PublishRetryable(i) \/ EndSupervisor(i)

Next ==
  \/ \E c \in Caller :
       \/ \E k \in Key : Status(c, k) \/ \E r \in Request : Invoke(c, k, r)
       \/ EnterGate(c) \/ CallerStep(c) \/ Abandon(c)
  \/ \E i \in Slot : WorkflowStep(i) \/ Panic(i)
  \/ CleanupRuntime
  \/ StopAccepting \/ PassGate \/ Drain \/ ResumeAfterShutdown
  \/ \E k \in Key : ExpireEvidence(k)
  \/ Crash

Spec == Init /\ [][Next]_vars

\* Tasks are scheduled; the controller bounds every call, the ledger every
\* file operation; tokio's mutex is FIFO, so the gate is reached.
Fairness ==
  /\ \A c \in Caller : WF_vars(CallerStep(c)) /\ SF_vars(EnterGate(c))
  /\ \A i \in Slot : WF_vars(WorkflowStep(i))
  /\ SF_vars(PassGate) /\ WF_vars(Drain)

FairSpec == Spec /\ Fairness

-----------------------------------------------------------------------------
Operations == [key : Key \cup {None}, request : Request \cup {None},
               state : OpStates, durable : BOOLEAN, waiters : SUBSET Caller]

Answers == OpStates \cup {"none", "stopping", "conflict", "capacity", "notDurable",
                          "unknown", "taskFailed"}

Callers == [pc : {"idle", "attach", "gate", "gated", "waiting", "lookup", "answered"},
            key : Key \cup {None}, request : Request \cup {None},
            answer : Answers, of : Slot \cup {None}]

Program == {"none", "begin", "execute", "finish", "publishDurable",
            "publishNotDurable", "panicked", "indeterminate",
            "completedWithoutResult", "unknown", "returned"}

\* Type correctness.
TypeOK ==
  /\ accepting \in BOOLEAN
  /\ gate \in Caller \cup {None}
  /\ exit \in {"running", "stopping", "draining", "drained"}
  /\ runtime \in [Key -> Slot \cup {None}]
  /\ op \in [Slot -> Operations]
  /\ finished \in Seq(Slot)
  /\ work \in [Slot -> Program]
  /\ active \in Int
  /\ caller \in [Caller -> Callers]
  /\ evidence \in [Key -> Evidence \cup {None}]
  /\ latent \in [Key -> SUBSET Evidence]
  /\ ledger \in {"open", "unavailable"}
  /\ faults \in [panics : 0..MaxPanics, errors : 0..MaxErrors, crashes : 0..MaxCrashes]
  /\ executed \in [Key -> Nat]

\* An operation is executed at most once while its evidence is retained,
\* whatever callers repeat, race, abandon or resubmit after a crash, a panic
\* or a ledger error; and what was executed has evidence.
ExecutedAtMostOnce ==
  \A k \in Key : executed[k] <= 1 /\ (executed[k] = 1 => evidence[k] # None)

\* The controller is called only for an operation the ledger accepted with
\* this very request, and at most one workflow is past that point per key.
EvidencePrecedesExecution ==
  \A i \in Slot : work[i] \in {"execute", "finish"} =>
    /\ evidence[op[i].key] # None
    /\ evidence[op[i].key].request = op[i].request
    /\ \A j \in Slot \ {i} : work[j] \in {"execute", "finish"}
                             => op[j].key # op[i].key

\* What the two properties above rest on: a workflow keeps the key and the
\* request it was spawned with, and calls the controller for a key nothing
\* was executed for.
WorkIsBound ==
  \A i \in Slot :
    /\ work[i] # "none" => op[i].key \in Key /\ op[i].request \in Request
    /\ work[i] = "execute" => executed[op[i].key] = 0

CallsAreBound ==
  \A c \in Caller :
    /\ caller[c].pc \in {"attach", "gate", "gated", "lookup"} => caller[c].key \in Key
    /\ caller[c].pc \in {"attach", "gate", "gated"} => caller[c].request \in Request

IInv == TypeOK /\ CallsAreBound /\ WorkIsBound /\ ExecutedAtMostOnce /\ EvidencePrecedesExecution

\* A drained coordinator is quiet: no workflow or supervisor is left that
\* could touch the ledger or a native component, and none can appear before
\* the coordinator is resumed.
DrainIsQuiet ==
  exit = "drained" =>
    /\ \A i \in Slot : work[i] = "none" /\ op[i].state # "pending"
    /\ \A c \in Caller : caller[c].pc \notin {"gated", "waiting"}

\* A pending operation is in the runtime map and somebody works on it; a
\* caller waits exactly for such an operation, for its own request.
WaitersAreServed ==
  /\ \A i \in Slot : op[i].state = "pending" =>
       /\ runtime[op[i].key] = i
       /\ work[i] \notin {"none", "returned"}
  /\ \A c \in Caller : caller[c].pc = "waiting" =>
       LET i == caller[c].of
       IN /\ op[i].state = "pending" /\ c \in op[i].waiters
          /\ op[i].key = caller[c].key /\ op[i].request = caller[c].request

\* What these two rest on.  The registry: an entry is filed under its own key,
\* and the results that may be dropped are distinct entries, none pending.
RegistryIsConsistent ==
  /\ \A k \in Key : runtime[k] # None => op[runtime[k]].key = k
  /\ \A a \in 1..Len(finished) :
       /\ op[finished[a]].state # "pending"
       /\ \E k \in Key : runtime[k] = finished[a]
       /\ \A b \in 1..Len(finished) : finished[a] = finished[b] => a = b

\* The work: an operation is pending exactly while its workflow or supervisor
\* has not published, so two of one key never are.
WorkIsRegistered ==
  \A i \in Slot :
    /\ op[i].state = "pending" => op[i].key \in Key /\ runtime[op[i].key] = i
    /\ op[i].state = "pending" <=> work[i] \notin {"none", "returned"}

\* The callers: whoever waits is among the waiters of a pending operation with
\* its key and request, and nobody else is among them.
WaitersAreRegistered ==
  /\ \A c \in Caller : caller[c].pc = "waiting" =>
       /\ caller[c].of \in Slot
       /\ op[caller[c].of].state = "pending"
       /\ c \in op[caller[c].of].waiters
       /\ op[caller[c].of].key = caller[c].key
       /\ op[caller[c].of].request = caller[c].request
  /\ \A i \in Slot : \A c \in op[i].waiters :
       caller[c].pc = "waiting" /\ caller[c].of = i

\* The counter the drain waits for is the number of live supervisors.
CounterIsExact == active = Cardinality({i \in Slot : work[i] # "none"})

\* Admission: the gate is held by the one caller inside it, nobody is inside
\* once an exit is past it, and a drain that returned left nothing active.
AdmissionIsClosed ==
  /\ exit # "running" => ~accepting
  /\ \A c \in Caller : caller[c].pc = "gated" <=> gate = c
  /\ exit \in {"draining", "drained"} => gate = None
  /\ exit = "drained" => active = 0

\* What an answer from the ledger says of an operation: a completion is
\* recorded, an execution that is not recorded as complete has evidence that
\* keeps it from being repeated, and what may be submitted again was never
\* executed.  Only when the ledger could not be read is "indeterminate" a guess.
IsCompleted(k) == evidence[k] # None /\ evidence[k].state = "completed"

IsTrue(answer, k) ==
  /\ answer \in {"completed", "completedWithoutResult"} => IsCompleted(k)
  /\ answer = "notDurable" => evidence[k] # None
  /\ answer = "indeterminate" => evidence[k] # None \/ faults.errors > 0
  /\ answer \in {"unknown", "taskFailed"} => evidence[k] = None /\ executed[k] = 0

\* What an answer from the runtime map says of it.  A result that is kept may
\* outlive its evidence.
IsCurrent(answer, k) ==
  /\ answer = "completed" => evidence[k] = None \/ IsCompleted(k)
  /\ answer = "pending" => \E i \in Slot : op[i].key = k /\ work[i] \notin {"none", "returned"}

\* What a supervisor is about to report is still what the ledger knows.
VerdictsAreCurrent ==
  \A i \in Slot :
    LET k == op[i].key
    IN /\ work[i] \in {"publishDurable", "completedWithoutResult"} => IsCompleted(k)
       /\ work[i] = "publishNotDurable" => evidence[k] # None
       /\ work[i] = "indeterminate" => evidence[k] # None \/ faults.errors > 0
       /\ work[i] = "unknown" => evidence[k] = None

\* A result in the runtime map that counts as durable is one.
ResultsAreCurrent ==
  \A k \in Key : runtime[k] # None /\ Published(runtime[k]) = "completed" =>
    evidence[k] = None \/ IsCompleted(k)

ServiceInv ==
  /\ IInv
  /\ RegistryIsConsistent /\ WorkIsRegistered /\ WaitersAreRegistered
  /\ CounterIsExact /\ AdmissionIsClosed /\ VerdictsAreCurrent /\ ResultsAreCurrent

\* Every answer is true when it is given, whichever workflow, supervisor or
\* status query gives it and whatever failed before: see IsTrue and IsCurrent
\* (finish, reconcile_terminated_workflow, status, attach_runtime).  Nothing is
\* said of "conflict" and "failed", which do not speak of an execution.
AnswersAreTrue ==
  [][\A c \in Caller : caller'[c].pc = "answered" =>
       LET answer == caller'[c].answer
       IN /\ caller[c].pc \in {"waiting", "lookup"} => IsTrue(answer, caller[c].key)
          /\ caller[c].pc \in {"attach", "gated"} => IsCurrent(answer, caller[c].key)
          /\ \A k \in Key : Status(c, k) => IsCurrent(answer, k)]_vars

\* Every caller that waits for an operation gets its answer, although the
\* workflow may panic at any await and other callers may give up.
EveryWaiterIsAnswered ==
  \A c \in Caller : caller[c].pc = "waiting" ~> caller[c].pc # "waiting"

\* A registered operation does not stay pending for ever: its supervisor
\* publishes an outcome from the ledger when the workflow did not.
PendingIsResolved ==
  \A k \in Key : (runtime[k] # None /\ op[runtime[k]].state = "pending")
                   ~> (runtime[k] = None \/ op[runtime[k]].state # "pending")

\* An orderly exit gets past its drain.
DrainTerminates ==
  exit \in {"stopping", "draining"} ~> exit \in {"drained", "running"}

\* Nobody waits for ever: neither a caller, nor the entry of an operation,
\* nor the drain of an exit.
WaitsEnd == EveryWaiterIsAnswered /\ PendingIsResolved /\ DrainTerminates

=============================================================================
