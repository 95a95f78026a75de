------------------------- MODULE Coordinator_proofs -------------------------
(***************************************************************************)
(* Proofs about the coordinator, for any number of callers, keys, requests *)
(* and slots and any number of panics, ledger errors and crashes: the      *)
(* types, at most one execution per retained operation, the evidence that  *)
(* precedes it, and that the coordinator implements AtMostOnce; then, from *)
(* the books it keeps (the runtime map, the queue of results it may drop,  *)
(* the waiters of an operation and the counter), that whoever waits is     *)
(* served, that an answer says what the ledger holds, and that a drained   *)
(* coordinator is quiet.                                                   *)
(***************************************************************************)
EXTENDS Coordinator, SequenceTheorems, FiniteSetTheorems, TLAPS

-----------------------------------------------------------------------------
\* Answers are strings, and a reply is a well-typed caller.

\* What a caller is told is a well-typed caller state.
LEMMA ReplyType == \A a \in Answers : Reply(a) \in Callers
  BY DEF Reply, Idle, Callers

\* An operation's published outcome is an answer.
LEMMA PublishedType ==
  ASSUME TypeOK, NEW i \in Slot
  PROVE  Published(i) \in Answers
<1>1. op[i].state \in OpStates
  BY DEF TypeOK, Operations
<1> QED
  BY <1>1 DEF Published, Answers, OpStates

\* The ledger's answer is one of three.
LEMMA RecordedType ==
  ASSUME NEW k \in Key
  PROVE  /\ Recorded(k) \in {"unknown", "indeterminate", "completedWithoutResult"}
         /\ Recorded(k) \in Answers
         /\ evidence[k] # None => Recorded(k) \in OpStates
  BY DEF Recorded, Answers, OpStates

\* Freeing unreferenced operations keeps the operations well-typed.
LEMMA CollectedType ==
  ASSUME NEW ops \in [Slot -> Operations], NEW map, NEW tasks
  PROVE  Collected(ops, map, tasks) \in [Slot -> Operations]
<1>1. NoOperation \in Operations
  BY DEF NoOperation, Operations, OpStates
<1> QED
  BY <1>1 DEF Collected

\* An operation with a workflow or supervisor is not freed.
LEMMA CollectedKeeps ==
  ASSUME NEW ops, NEW map, NEW tasks, NEW i \in Slot, tasks[i] # "none"
  PROVE  Collected(ops, map, tasks)[i] = ops[i]
  BY DEF Collected, Referenced

\* Publishing touches no key or request, and leaves everything well-typed.
LEMMA PublishType ==
  ASSUME TypeOK, NEW k \in Key, NEW state \in OpStates, NEW durable \in BOOLEAN,
         NEW answer \in Answers, Publish(k, state, durable, answer)
  PROVE  /\ op' \in [Slot -> Operations]
         /\ finished' \in Seq(Slot)
         /\ caller' \in [Caller -> Callers]
         /\ \A i \in Slot : op'[i].key = op[i].key /\ op'[i].request = op[i].request
<1> USE DEF Operations, Callers
<1>1. CASE runtime[k] = None \/ (runtime[k] # None /\ op[runtime[k]].state # "pending")
  BY <1>1 DEF Publish, TypeOK
<1>2. CASE ~(runtime[k] = None \/ (runtime[k] # None /\ op[runtime[k]].state # "pending"))
  <2> DEFINE i == runtime[k]
  <2>1. i \in Slot
    BY <1>2 DEF TypeOK
  <2>2. /\ op' = [op EXCEPT ![i].state = state, ![i].durable = durable, ![i].waiters = {}]
        /\ finished' = Append(finished, i)
        /\ caller' = [c \in Caller |-> IF c \in op[i].waiters
                                       THEN Reply(answer) ELSE caller[c]]
    BY <1>2 DEF Publish
  <2>3. op' \in [Slot -> Operations]
    <3>1. op[i] \in Operations
      BY <2>1 DEF TypeOK
    <3>2. op' = [op EXCEPT ![i] = [op[i] EXCEPT !.state = state, !.durable = durable,
                                                !.waiters = {}]]
      BY <2>1, <2>2 DEF TypeOK
    <3> QED
      BY <3>1, <3>2 DEF TypeOK
  <2>4. finished' \in Seq(Slot)
    BY <2>1, <2>2 DEF TypeOK
  <2>5. caller' \in [Caller -> Callers]
    BY <2>2, ReplyType DEF Answers, OpStates, TypeOK
  <2>6. \A j \in Slot : op'[j].key = op[j].key /\ op'[j].request = op[j].request
    BY <2>1, <2>2 DEF TypeOK
  <2> QED
    BY <2>3, <2>4, <2>5, <2>6
<1> QED
  BY <1>1, <1>2

-----------------------------------------------------------------------------
\* Type correctness, one lemma per group of actions.

\* A call that has just entered is well-typed.
LEMMA EnteredType ==
  ASSUME NEW k \in Key
  PROVE  /\ Idle \in Callers
         /\ [Idle EXCEPT !.pc = "lookup", !.key = k] \in Callers
         /\ \A r \in Request :
              [Idle EXCEPT !.pc = "attach", !.key = k, !.request = r] \in Callers
  BY DEF Idle, Callers, Answers

\* So is one that goes on to the gate or waits for an operation.
LEMMA GoesOnType ==
  ASSUME NEW e \in Callers
  PROVE  /\ [e EXCEPT !.pc = "gate"] \in Callers
         /\ [e EXCEPT !.pc = "gated"] \in Callers
         /\ \A i \in Slot : [e EXCEPT !.pc = "waiting", !.of = i] \in Callers
  BY DEF Callers

\* Attaching to an operation of the runtime map is well-typed.
LEMMA AttachToType ==
  ASSUME TypeOK, NEW c \in Caller, NEW i \in Slot, AttachTo(c, i)
  PROVE  /\ op' \in [Slot -> Operations]
         /\ caller' \in [Caller -> Callers]
         /\ \A j \in Slot : op'[j].key = op[j].key /\ op'[j].request = op[j].request
<1> USE DEF TypeOK
<1>1. CASE op[i].request # caller[c].request
  <2>1. Reply("conflict") \in Callers
    BY ReplyType DEF Answers
  <2> QED
    BY <1>1, <2>1 DEF AttachTo
<1>2. CASE op[i].request = caller[c].request /\ op[i].state = "pending"
  <2>1. /\ caller' = [caller EXCEPT ![c] = [caller[c] EXCEPT !.pc = "waiting", !.of = i]]
        /\ op' = [op EXCEPT ![i] = [op[i] EXCEPT !.waiters = @ \cup {c}]]
    BY <1>2 DEF AttachTo
  <2>2. [op[i] EXCEPT !.waiters = @ \cup {c}] \in Operations
    <3>1. op[i] \in Operations
      OBVIOUS
    <3> QED
      BY <3>1 DEF Operations
  <2>3. [caller[c] EXCEPT !.pc = "waiting", !.of = i] \in Callers
    <3>1. caller[c] \in Callers
      OBVIOUS
    <3> QED
      BY <3>1, GoesOnType
  <2>4. op' \in [Slot -> Operations] /\ caller' \in [Caller -> Callers]
    BY <2>1, <2>2, <2>3
  <2>5. \A j \in Slot : op'[j].key = op[j].key /\ op'[j].request = op[j].request
    BY <2>1 DEF Operations
  <2> QED
    BY <2>4, <2>5
<1>3. CASE op[i].request = caller[c].request /\ op[i].state # "pending"
  <2>1. Reply(Published(i)) \in Callers
    BY PublishedType, ReplyType
  <2> QED
    BY <1>3, <2>1 DEF AttachTo
<1> QED
  BY <1>1, <1>2, <1>3

\* The steps of a caller, but for the registration, keep the types.
LEMMA CallerType ==
  ASSUME TypeOK, CallsAreBound, NEW c \in Caller,
         \/ \E k \in Key : Status(c, k) \/ \E r \in Request : Invoke(c, k, r)
         \/ EnterGate(c) \/ Attach(c) \/ StatusFromLedger(c) \/ Abandon(c)
  PROVE  TypeOK'
<1> USE DEF runtimeVars, ledgerVars
<1>1. CASE \E k \in Key : Status(c, k)
  <2>1. PICK k \in Key : Status(c, k)
    BY <1>1
  <2>2. [Idle EXCEPT !.pc = "lookup", !.key = k] \in Callers
    BY EnteredType
  <2>3. runtime[k] # None => Reply(Published(runtime[k])) \in Callers
    <3>1. runtime[k] # None => runtime[k] \in Slot
      BY DEF TypeOK
    <3> QED
      BY <3>1, PublishedType, ReplyType
  <2> QED
    BY <2>1, <2>2, <2>3 DEF Status, TypeOK
<1>2. CASE \E k \in Key, r \in Request : Invoke(c, k, r)
  <2>1. PICK k \in Key, r \in Request : Invoke(c, k, r)
    BY <1>2
  <2>2. /\ [Idle EXCEPT !.pc = "attach", !.key = k, !.request = r] \in Callers
        /\ Reply("stopping") \in Callers
    BY EnteredType, ReplyType DEF Answers
  <2> QED
    BY <2>1, <2>2 DEF Invoke, TypeOK
<1>3. CASE EnterGate(c)
  <2>1. /\ [caller[c] EXCEPT !.pc = "gated"] \in Callers
        /\ Reply("stopping") \in Callers
    <3>1. caller[c] \in Callers /\ "stopping" \in Answers
      BY DEF TypeOK, Answers
    <3> QED
      BY <3>1, GoesOnType, ReplyType
  <2>2. caller' = [caller EXCEPT ![c] = IF accepting THEN [caller[c] EXCEPT !.pc = "gated"]
                                        ELSE Reply("stopping")]
    BY <1>3 DEF EnterGate, TypeOK
  <2> QED
    BY <1>3, <2>1, <2>2 DEF EnterGate, TypeOK
<1>4. CASE Attach(c)
  <2>1. /\ op' \in [Slot -> Operations]
        /\ caller' \in [Caller -> Callers]
    <3>1. CASE runtime[caller[c].key] = None
      <4>1. caller' = [caller EXCEPT ![c] = [caller[c] EXCEPT !.pc = "gate"]]
        BY <1>4, <3>1 DEF Attach, TypeOK
      <4>2. [caller[c] EXCEPT !.pc = "gate"] \in Callers
        <5>1. caller[c] \in Callers
          BY DEF TypeOK
        <5> QED
          BY <5>1, GoesOnType
      <4> QED
        BY <1>4, <3>1, <4>1, <4>2 DEF Attach, TypeOK
    <3>2. CASE runtime[caller[c].key] # None
      <4>1. runtime[caller[c].key] \in Slot
        BY <1>4, <3>2 DEF Attach, TypeOK, CallsAreBound
      <4> QED
        BY <1>4, <3>2, <4>1, AttachToType DEF Attach
    <3> QED
      BY <3>1, <3>2
  <2> QED
    BY <1>4, <2>1 DEF Attach, TypeOK
<1>5. CASE StatusFromLedger(c)
  <2>1. Reply(Recorded(caller[c].key)) \in Callers
    BY <1>5, RecordedType, ReplyType DEF StatusFromLedger, CallsAreBound
  <2> QED
    BY <1>5, <2>1 DEF StatusFromLedger, TypeOK
<1>6. CASE Abandon(c)
  <2>1. op' \in [Slot -> Operations]
    <3>1. \A i \in Slot : [op[i] EXCEPT !.waiters = @ \ {c}] \in Operations
      <4>1. \A e \in Operations : [e EXCEPT !.waiters = @ \ {c}] \in Operations
        BY DEF Operations
      <4> QED
        BY <4>1 DEF TypeOK
    <3> QED
      BY <1>6, <3>1 DEF Abandon
  <2>2. caller' \in [Caller -> Callers]
    BY <1>6 DEF Abandon, TypeOK, Idle, Callers, Answers
  <2> QED
    BY <1>6, <2>1, <2>2 DEF Abandon, TypeOK
<1> QED
  BY <1>1, <1>2, <1>3, <1>4, <1>5, <1>6

\* Dropping the oldest results leaves a well-typed runtime map and queue.
LEMMA DroppedType ==
  ASSUME TypeOK, NEW n \in 0..Len(finished)
  PROVE  /\ WithoutOldest(n) \in [Key -> Slot \cup {None}]
         /\ SubSeq(finished, n + 1, Len(finished)) \in Seq(Slot)
<1>1. WithoutOldest(n) \in [Key -> Slot \cup {None}]
  BY DEF WithoutOldest, TypeOK
<1>2. finished \in Seq(Slot) /\ Len(finished) \in Nat
  BY LenProperties DEF TypeOK
<1>3. SubSeq(finished, n + 1, Len(finished)) \in Seq(Slot)
  BY <1>2, SubSeqProperties
<1> QED
  BY <1>1, <1>3

\* A registration keeps the types, and what every workflow works on.
LEMMA RegisterType ==
  ASSUME TypeOK, CallsAreBound, NEW c \in Caller, Register(c)
  PROVE  /\ TypeOK'
         /\ \A j \in Slot : work[j] # "none" =>
              /\ work'[j] = work[j]
              /\ op'[j].key = op[j].key /\ op'[j].request = op[j].request
         /\ \A j \in Slot : work[j] = "none" /\ work'[j] # "none" =>
              /\ work'[j] = "begin"
              /\ op'[j].key \in Key /\ op'[j].request \in Request
<1> DEFINE k == caller[c].key
<1>1. k \in Key /\ caller[c].request \in Request /\ caller[c] \in Callers
  BY DEF Register, CallsAreBound, TypeOK
<1>2. /\ op \in [Slot -> Operations]
      /\ caller \in [Caller -> Callers]
      /\ work \in [Slot -> Program]
      /\ runtime \in [Key -> Slot \cup {None}]
  BY DEF TypeOK
<1>5. gate' = None /\ UNCHANGED <<accepting, exit, ledgerVars, faults, executed>>
  BY DEF Register
<1>3. CASE runtime[k] # None
  <2>1. /\ AttachTo(c, runtime[k])
        /\ UNCHANGED <<runtime, finished, work, active>>
    BY <1>3 DEF Register
  <2>2. runtime[k] \in Slot
    BY <1>1, <1>2, <1>3
  <2>3. /\ op' \in [Slot -> Operations]
        /\ caller' \in [Caller -> Callers]
        /\ \A j \in Slot : op'[j].key = op[j].key /\ op'[j].request = op[j].request
    BY <2>1, <2>2, AttachToType
  <2>4. TypeOK'
    BY <2>1, <2>3 DEF Register, TypeOK, ledgerVars
  <2> QED
    BY <2>1, <2>3, <2>4
<1>4. CASE runtime[k] = None
  <2>1. PICK n \in 0..Len(finished) :
          /\ finished' = SubSeq(finished, n + 1, Len(finished))
          /\ \/ /\ caller' = [caller EXCEPT ![c] = Reply("capacity")]
                /\ runtime' = WithoutOldest(n)
                /\ op' = Collected(op, WithoutOldest(n), work)
                /\ UNCHANGED <<work, active>>
             \/ \E i \in FreeSlots :
                  /\ op' = [Collected(op, WithoutOldest(n), work) EXCEPT ![i] =
                              [key |-> k, request |-> caller[c].request,
                               state |-> "pending", durable |-> FALSE,
                               waiters |-> {c}]]
                  /\ runtime' = [WithoutOldest(n) EXCEPT ![k] = i]
                  /\ work' = [work EXCEPT ![i] = "begin"]
                  /\ active' = active + 1
                  /\ caller' = [caller EXCEPT ![c].pc = "waiting", ![c].of = i]
    BY <1>4 DEF Register
  <2> DEFINE kept == Collected(op, WithoutOldest(n), work)
  <2>2. /\ WithoutOldest(n) \in [Key -> Slot \cup {None}]
        /\ finished' \in Seq(Slot)
    BY <2>1, DroppedType
  <2>3. kept \in [Slot -> Operations]
    BY <1>2, CollectedType
  <2>4. \A j \in Slot : work[j] # "none" => kept[j] = op[j]
    BY <1>2, CollectedKeeps
  <2> HIDE DEF kept
  <2>5. CASE /\ caller' = [caller EXCEPT ![c] = Reply("capacity")]
             /\ runtime' = WithoutOldest(n)
             /\ op' = kept
             /\ UNCHANGED <<work, active>>
    <3>1. Reply("capacity") \in Callers
      BY ReplyType DEF Answers
    <3>2. TypeOK'
      BY <2>2, <2>3, <2>5, <3>1 DEF Register, TypeOK, ledgerVars
    <3> QED
      BY <2>4, <2>5, <3>2
  <2>6. ASSUME NEW i \in FreeSlots,
               op' = [kept EXCEPT ![i] =
                        [key |-> k, request |-> caller[c].request, state |-> "pending",
                         durable |-> FALSE, waiters |-> {c}]],
               runtime' = [WithoutOldest(n) EXCEPT ![k] = i],
               work' = [work EXCEPT ![i] = "begin"],
               active' = active + 1,
               caller' = [caller EXCEPT ![c].pc = "waiting", ![c].of = i]
        PROVE  /\ TypeOK'
               /\ \A j \in Slot : work[j] # "none" =>
                    /\ work'[j] = work[j]
                    /\ op'[j].key = op[j].key /\ op'[j].request = op[j].request
               /\ \A j \in Slot : work[j] = "none" /\ work'[j] # "none" =>
                    /\ work'[j] = "begin"
                    /\ op'[j].key \in Key /\ op'[j].request \in Request
    <3> DEFINE new == [key |-> k, request |-> caller[c].request, state |-> "pending",
                       durable |-> FALSE, waiters |-> {c}]
    <3>1. i \in Slot /\ work[i] = "none"
      BY DEF FreeSlots, Referenced
    <3>2. new \in Operations
      BY <1>1 DEF Operations, OpStates
    <3>3. op' \in [Slot -> Operations]
      BY <2>3, <2>6, <3>2
    <3>4. caller' = [caller EXCEPT ![c] = [caller[c] EXCEPT !.pc = "waiting", !.of = i]]
      BY <1>2, <2>6
    <3>5. caller' \in [Caller -> Callers]
      BY <1>1, <1>2, <3>1, <3>4, GoesOnType
    <3>6. runtime' \in [Key -> Slot \cup {None}] /\ work' \in [Slot -> Program]
      BY <1>1, <1>2, <2>2, <2>6, <3>1 DEF Program
    <3>7. TypeOK'
      BY <1>5, <2>2, <2>6, <3>3, <3>5, <3>6 DEF TypeOK, ledgerVars
    <3>8. \A j \in Slot : work[j] # "none" =>
            /\ work'[j] = work[j]
            /\ op'[j].key = op[j].key /\ op'[j].request = op[j].request
      BY <1>2, <2>3, <2>4, <2>6, <3>1
    <3>9. \A j \in Slot : work[j] = "none" /\ work'[j] # "none" =>
            /\ work'[j] = "begin"
            /\ op'[j].key \in Key /\ op'[j].request \in Request
      BY <1>1, <1>2, <2>3, <2>6, <3>1
    <3> QED
      BY <3>7, <3>8, <3>9
  <2> QED
    BY <2>1, <2>5, <2>6 DEF kept
<1> QED
  BY <1>3, <1>4

\* A workflow's steps keep the types and what every workflow works on.
LEMMA WorkflowType ==
  ASSUME TypeOK, WorkIsBound, NEW i \in Slot, WorkflowStep(i) \/ Panic(i)
  PROVE  /\ TypeOK'
         /\ \A j \in Slot \ {i} : work'[j] = work[j]
         /\ work[i] # "none"
         /\ \A j \in Slot : work'[j] # "none" =>
              op'[j].key = op[j].key /\ op'[j].request = op[j].request
<1> DEFINE k == op[i].key
<1> USE DEF runtimeVars, ledgerVars
<1>1. /\ op \in [Slot -> Operations]
      /\ work \in [Slot -> Program]
      /\ evidence \in [Key -> Evidence \cup {None}]
      /\ latent \in [Key -> SUBSET Evidence]
      /\ faults \in [panics : 0..MaxPanics, errors : 0..MaxErrors, crashes : 0..MaxCrashes]
  BY DEF TypeOK
<1>2. work[i] # "none" => k \in Key /\ op[i].request \in Request
  BY DEF WorkIsBound
<1>3. Fails => [faults EXCEPT !.errors = @ + 1] \in
                 [panics : 0..MaxPanics, errors : 0..MaxErrors, crashes : 0..MaxCrashes]
  BY <1>1, CoordinatorAssumption DEF Fails
<1>4. CASE BeginDurable(i)
  <2>1. k \in Key /\ op[i].request \in Request /\ work[i] = "begin"
    BY <1>2, <1>4 DEF BeginDurable
  <2>2. CASE evidence[k] = None
    <3>1. [request |-> op[i].request, state |-> "accepted"] \in Evidence
      BY <2>1 DEF Evidence
    <3>2. evidence' \in [Key -> Evidence \cup {None}] /\ work' \in [Slot -> Program]
      BY <1>1, <1>4, <2>1, <2>2, <3>1 DEF BeginDurable, Program
    <3> QED
      BY <1>1, <1>4, <2>1, <2>2, <3>2 DEF BeginDurable, TypeOK
  <2>3. CASE evidence[k] # None
    <3> DEFINE a == IF evidence[k].request = op[i].request THEN Recorded(k) ELSE "failed"
    <3>1. a \in OpStates /\ a \in Answers
      BY <2>1, <2>3, RecordedType DEF OpStates, Answers
    <3>2. Publish(k, a, FALSE, a)
      BY <1>4, <2>3 DEF BeginDurable
    <3>3. /\ op' \in [Slot -> Operations]
          /\ finished' \in Seq(Slot)
          /\ caller' \in [Caller -> Callers]
          /\ \A j \in Slot : op'[j].key = op[j].key /\ op'[j].request = op[j].request
      <4> HIDE DEF a
      <4> QED
        BY <2>1, <3>1, <3>2, PublishType
    <3>4. work' \in [Slot -> Program]
      BY <1>1, <1>4, <2>3 DEF BeginDurable, Program
    <3> QED
      BY <1>1, <1>4, <2>1, <2>3, <3>3, <3>4 DEF BeginDurable, TypeOK
  <2> QED
    BY <2>2, <2>3
<1>5. CASE BeginFails(i)
  <2>1. k \in Key /\ op[i].request \in Request /\ work[i] = "begin" /\ Fails
    BY <1>2, <1>5 DEF BeginFails
  <2>2. Publish(k, "failed", FALSE, "failed")
    BY <1>5 DEF BeginFails
  <2>3. /\ op' \in [Slot -> Operations]
        /\ finished' \in Seq(Slot)
        /\ caller' \in [Caller -> Callers]
        /\ \A j \in Slot : op'[j].key = op[j].key /\ op'[j].request = op[j].request
    <3>1. "failed" \in OpStates /\ "failed" \in Answers
      BY DEF OpStates, Answers
    <3> QED
      BY <2>1, <2>2, <3>1, PublishType
  <2>4. [request |-> op[i].request, state |-> "accepted"] \in Evidence
    BY <2>1 DEF Evidence
  <2>5. /\ evidence' \in [Key -> Evidence \cup {None}]
        /\ latent' \in [Key -> SUBSET Evidence]
    BY <1>1, <1>5, <2>1, <2>4 DEF BeginFails
  <2>6. work' = [work EXCEPT ![i] = "returned"] /\ work' \in [Slot -> Program]
    BY <1>1, <1>5 DEF BeginFails, Program
  <2>7. faults' \in [panics : 0..MaxPanics, errors : 0..MaxErrors, crashes : 0..MaxCrashes]
    BY <1>3, <1>5, <2>1 DEF BeginFails
  <2>8. TypeOK'
    BY <1>5, <2>3, <2>5, <2>6, <2>7 DEF BeginFails, TypeOK
  <2> QED
    BY <1>1, <2>1, <2>3, <2>6, <2>8
<1>6. CASE Execute(i)
  <2>1. k \in Key
    BY <1>2, <1>6 DEF Execute
  <2>2. executed' \in [Key -> Nat]
    <3>1. executed \in [Key -> Nat]
      BY DEF TypeOK
    <3>2. executed' = [executed EXCEPT ![k] = executed[k] + 1] \/ executed' = executed
      BY <1>6 DEF Execute
    <3> HIDE DEF k
    <3> QED
      BY <2>1, <3>1, <3>2
  <2>3. work' = [work EXCEPT ![i] = "finish"] /\ work' \in [Slot -> Program]
    BY <1>1, <1>6 DEF Execute, Program
  <2> QED
    BY <1>1, <1>6, <2>2, <2>3 DEF Execute, TypeOK
<1>7. CASE CompleteDurable(i)
  <2>1. k \in Key /\ op[i].request \in Request /\ work[i] = "finish"
    BY <1>2, <1>7 DEF CompleteDurable
  <2>2. [request |-> op[i].request, state |-> "completed"] \in Evidence
    BY <2>1 DEF Evidence
  <2>3. /\ evidence' \in [Key -> Evidence \cup {None}]
        /\ latent' \in [Key -> SUBSET Evidence]
    BY <1>1, <1>7, <2>1, <2>2 DEF CompleteDurable
  <2>4. work' \in [Slot -> Program] /\ \A j \in Slot \ {i} : work'[j] = work[j]
    BY <1>1, <1>7 DEF CompleteDurable, Program
  <2>5. faults' \in [panics : 0..MaxPanics, errors : 0..MaxErrors, crashes : 0..MaxCrashes]
    BY <1>1, <1>3, <1>7 DEF CompleteDurable
  <2>6. TypeOK'
    BY <1>7, <2>3, <2>4, <2>5 DEF CompleteDurable, TypeOK
  <2> QED
    BY <1>7, <2>1, <2>4, <2>6 DEF CompleteDurable
<1>8. CASE PublishCompleted(i)
  <2>1. k \in Key /\ work[i] # "none"
    BY <1>2, <1>8 DEF PublishCompleted
  <2>2. PICK state \in {"completed", "withoutResult"} :
          Publish(k, state, work[i] = "publishDurable",
                  IF work[i] = "publishDurable" THEN "completed" ELSE "notDurable")
    BY <1>8 DEF PublishCompleted
  <2>3. /\ op' \in [Slot -> Operations]
        /\ finished' \in Seq(Slot)
        /\ caller' \in [Caller -> Callers]
        /\ \A j \in Slot : op'[j].key = op[j].key /\ op'[j].request = op[j].request
    <3>1. /\ state \in OpStates
          /\ (work[i] = "publishDurable") \in BOOLEAN
          /\ (IF work[i] = "publishDurable" THEN "completed" ELSE "notDurable") \in Answers
      BY DEF OpStates, Answers
    <3> QED
      BY <2>1, <2>2, <3>1, PublishType
  <2>4. work' = [work EXCEPT ![i] = "returned"] /\ work' \in [Slot -> Program]
    BY <1>1, <1>8 DEF PublishCompleted, Program
  <2> QED
    BY <1>1, <1>8, <2>1, <2>3, <2>4 DEF PublishCompleted, TypeOK
<1>9. CASE Reconcile(i)
  <2>1. k \in Key /\ work[i] # "none" /\ Recorded(k) \in Program
    BY <1>2, <1>9, RecordedType DEF Reconcile, Program
  <2>2. work' \in [Slot -> Program] /\ \A j \in Slot \ {i} : work'[j] = work[j]
    BY <1>1, <1>9, <2>1 DEF Reconcile, Program
  <2>3. faults' \in [panics : 0..MaxPanics, errors : 0..MaxErrors, crashes : 0..MaxCrashes]
    BY <1>1, <1>3, <1>9 DEF Reconcile
  <2> QED
    BY <1>9, <2>1, <2>2, <2>3 DEF Reconcile, TypeOK
<1>10. CASE PublishReconciled(i)
  <2>1. k \in Key /\ work[i] # "none" /\ work[i] \in OpStates /\ work[i] \in Answers
    BY <1>2, <1>10 DEF PublishReconciled, OpStates, Answers
  <2>2. Publish(k, work[i], FALSE, work[i])
    BY <1>10 DEF PublishReconciled
  <2>3. /\ op' \in [Slot -> Operations]
        /\ finished' \in Seq(Slot)
        /\ caller' \in [Caller -> Callers]
        /\ \A j \in Slot : op'[j].key = op[j].key /\ op'[j].request = op[j].request
    BY <2>1, <2>2, PublishType
  <2>4. work' = [work EXCEPT ![i] = "returned"] /\ work' \in [Slot -> Program]
    BY <1>1, <1>10 DEF PublishReconciled, Program
  <2> QED
    BY <1>1, <1>10, <2>1, <2>3, <2>4 DEF PublishReconciled, TypeOK
<1>11. CASE PublishRetryable(i)
  <2> DEFINE j == runtime[k]
  <2>1. k \in Key /\ work[i] # "none"
    BY <1>2, <1>11 DEF PublishRetryable
  <2>2. work' = [work EXCEPT ![i] = "returned"] /\ work' \in [Slot -> Program]
    BY <1>1, <1>11 DEF PublishRetryable, Program
  <2>3. CASE j = None \/ (j # None /\ op[j].state # "pending")
    BY <1>1, <1>11, <2>1, <2>2, <2>3 DEF PublishRetryable, TypeOK
  <2>4. CASE ~(j = None \/ (j # None /\ op[j].state # "pending"))
    <3>1. j \in Slot /\ op[j] \in Operations
      BY <1>1, <2>1, <2>4 DEF TypeOK
    <3>2. /\ op' = [op EXCEPT ![j] = [op[j] EXCEPT !.state = "failed", !.waiters = {}]]
          /\ runtime' = [runtime EXCEPT ![k] = None]
          /\ caller' = [c \in Caller |-> IF c \in op[j].waiters
                                         THEN Reply("taskFailed") ELSE caller[c]]
      BY <1>1, <1>11, <2>4, <3>1 DEF PublishRetryable
    <3>3. [op[j] EXCEPT !.state = "failed", !.waiters = {}] \in Operations
      BY <3>1 DEF Operations, OpStates
    <3>4. /\ op' \in [Slot -> Operations]
          /\ \A s \in Slot : op'[s].key = op[s].key /\ op'[s].request = op[s].request
      BY <1>1, <3>1, <3>2, <3>3 DEF Operations
    <3>5. Reply("taskFailed") \in Callers
      BY ReplyType DEF Answers
    <3>6. TypeOK'
      BY <1>11, <2>2, <3>2, <3>4, <3>5 DEF PublishRetryable, TypeOK
    <3> QED
      BY <1>1, <2>1, <2>2, <3>4, <3>6
  <2> QED
    BY <2>3, <2>4
<1>12. CASE EndSupervisor(i)
  <2>1. work' \in [Slot -> Program] /\ work[i] # "none" /\ work' = [work EXCEPT ![i] = "none"]
    BY <1>1, <1>12 DEF EndSupervisor, Program
  <2>2. op' \in [Slot -> Operations]
    BY <1>1, <1>12, CollectedType DEF EndSupervisor
  <2>3. \A j \in Slot : work'[j] # "none" => op'[j] = op[j]
    <3>1. op' = Collected(op, runtime, work')
      BY <1>12, <2>1 DEF EndSupervisor
    <3> QED
      BY <3>1, CollectedKeeps
  <2>4. active' \in Int /\ UNCHANGED <<accepting, gate, exit, runtime, finished, caller,
                                       ledgerVars, faults, executed>>
    BY <1>12 DEF EndSupervisor, TypeOK
  <2>5. TypeOK'
    BY <2>1, <2>2, <2>4 DEF TypeOK
  <2> QED
    BY <1>1, <2>1, <2>3, <2>5
<1>13. CASE Panic(i)
  <2>1. [faults EXCEPT !.panics = @ + 1] \in
          [panics : 0..MaxPanics, errors : 0..MaxErrors, crashes : 0..MaxCrashes]
    BY <1>1, <1>13, CoordinatorAssumption DEF Panic
  <2> QED
    BY <1>1, <1>13, <2>1 DEF Panic, TypeOK, Program
<1> QED
  BY <1>4, <1>5, <1>6, <1>7, <1>8, <1>9, <1>10, <1>11, <1>12, <1>13 DEF WorkflowStep

\* Retention and crashes keep the types; a crash leaves no workflow.
LEMMA ExpireType ==
  ASSUME TypeOK, NEW k \in Key, ExpireEvidence(k)
  PROVE  TypeOK'
<1>1. evidence' \in [Key -> Evidence \cup {None}]
  BY DEF ExpireEvidence, TypeOK
<1>2. latent' \in [Key -> SUBSET Evidence]
  BY DEF ExpireEvidence, TypeOK
<1>3. executed' \in [Key -> Nat]
  BY DEF ExpireEvidence, TypeOK
<1> QED
  BY <1>1, <1>2, <1>3 DEF ExpireEvidence, TypeOK, runtimeVars

\* A crash forgets the memory; what a restart finds has the types of evidence.
LEMMA CrashType ==
  ASSUME TypeOK, Crash
  PROVE  TypeOK'
<1>1. NoOperation \in Operations
  BY DEF NoOperation, Operations, OpStates
<1>2. Idle \in Callers
  BY DEF Idle, Callers, Answers
<1>3. op' \in [Slot -> Operations] /\ caller' \in [Caller -> Callers]
  BY <1>1, <1>2 DEF Crash
<1>4. [faults EXCEPT !.crashes = @ + 1] \in
        [panics : 0..MaxPanics, errors : 0..MaxErrors, crashes : 0..MaxCrashes]
  <2>1. faults \in [panics : 0..MaxPanics, errors : 0..MaxErrors, crashes : 0..MaxCrashes]
    BY DEF TypeOK
  <2> QED
    BY <2>1, CoordinatorAssumption DEF Crash
<1>5. /\ runtime' \in [Key -> Slot \cup {None}]
      /\ finished' \in Seq(Slot)
      /\ work' \in [Slot -> Program]
      /\ latent' \in [Key -> SUBSET Evidence]
      /\ ledger' \in {"open", "unavailable"}
      /\ evidence' \in [Key -> Evidence \cup {None}]
  BY DEF Crash, Program
<1> QED
  BY <1>3, <1>4, <1>5 DEF Crash, TypeOK

\* The housekeeping and the orderly exit keep the types and every workflow.
LEMMA ExitType ==
  ASSUME TypeOK,
         CleanupRuntime \/ StopAccepting \/ PassGate \/ Drain \/ ResumeAfterShutdown
  PROVE  /\ TypeOK'
         /\ UNCHANGED <<work, evidence, executed>>
         /\ \A j \in Slot : work[j] # "none" => op'[j] = op[j]
<1>1. CASE CleanupRuntime
  <2>1. PICK n \in 1..Len(finished) :
          /\ runtime' = WithoutOldest(n)
          /\ finished' = SubSeq(finished, n + 1, Len(finished))
          /\ op' = Collected(op, WithoutOldest(n), work)
    BY <1>1 DEF CleanupRuntime
  <2>2. n \in 0..Len(finished)
    OBVIOUS
  <2>3. runtime' \in [Key -> Slot \cup {None}] /\ finished' \in Seq(Slot)
    BY <2>1, <2>2, DroppedType
  <2>4. op' \in [Slot -> Operations]
    BY <2>1, CollectedType DEF TypeOK
  <2>5. UNCHANGED <<accepting, gate, exit, work, active, caller, ledgerVars, faults, executed>>
    BY <1>1 DEF CleanupRuntime
  <2>6. TypeOK'
    BY <2>3, <2>4, <2>5 DEF TypeOK, ledgerVars
  <2> QED
    BY <2>1, <2>5, <2>6, CollectedKeeps DEF ledgerVars
<1>2. CASE StopAccepting \/ PassGate \/ Drain \/ ResumeAfterShutdown
  <2> USE DEF ExitVars, runtimeVars, ledgerVars
  <2>1. /\ accepting' \in BOOLEAN
        /\ exit' \in {"running", "stopping", "draining", "drained"}
        /\ UNCHANGED ExitVars
    BY <1>2 DEF StopAccepting, PassGate, Drain, ResumeAfterShutdown, TypeOK
  <2>2. TypeOK'
    BY <2>1 DEF TypeOK
  <2> QED
    BY <2>1, <2>2
<1> QED
  BY <1>1, <1>2

-----------------------------------------------------------------------------
\* Calls carry the key and request their next step uses.

\* Answered and waiting calls need neither.
LEMMA CallsFrame ==
  ASSUME CallsAreBound,
         \A c \in Caller : \/ caller'[c] = caller[c]
                           \/ caller'[c].pc \in {"idle", "waiting", "answered"}
  PROVE  CallsAreBound'
  BY DEF CallsAreBound

\* A reply is an answered call.
LEMMA ReplyIsAnswered == \A a : Reply(a).pc = "answered"
  BY DEF Reply, Idle

\* Publishing answers some calls and leaves the others alone.
LEMMA PublishAnswers ==
  ASSUME NEW k, NEW state, NEW durable, NEW answer, Publish(k, state, durable, answer)
  PROVE  \A c \in Caller : caller'[c] = caller[c] \/ caller'[c].pc = "answered"
  BY ReplyIsAnswered DEF Publish

\* Attaching to an operation answers a call or makes it wait.
LEMMA AttachToAnswers ==
  ASSUME TypeOK, NEW c \in Caller, NEW i, AttachTo(c, i)
  PROVE  \A d \in Caller : \/ caller'[d] = caller[d]
                           \/ caller'[d].pc \in {"waiting", "answered"}
<1>1. caller \in [Caller -> Callers] /\ caller[c] \in Callers
  BY DEF TypeOK
<1>2. [caller[c] EXCEPT !.pc = "waiting", !.of = i].pc = "waiting"
  BY <1>1 DEF Callers
<1>3. \/ caller' = [caller EXCEPT ![c] = [caller[c] EXCEPT !.pc = "waiting", !.of = i]]
      \/ \E a : caller' = [caller EXCEPT ![c] = Reply(a)]
  BY <1>1 DEF AttachTo
<1> QED
  BY <1>1, <1>2, <1>3, ReplyIsAnswered

\* The calls stay bound, whatever step is taken.
LEMMA CallsStep ==
  ASSUME TypeOK, CallsAreBound, Next
  PROVE  CallsAreBound'
<1>1. caller \in [Caller -> Callers]
  BY DEF TypeOK
<1>2. ASSUME NEW c \in Caller, NEW k \in Key, Status(c, k)
      PROVE  CallsAreBound'
  <2>1. \/ caller' = [caller EXCEPT ![c] = [Idle EXCEPT !.pc = "lookup", !.key = k]]
        \/ \E a : caller' = [caller EXCEPT ![c] = Reply(a)]
    BY <1>2 DEF Status
  <2> QED
    BY <1>1, <2>1, ReplyIsAnswered DEF CallsAreBound, Idle
<1>3. ASSUME NEW c \in Caller, NEW k \in Key, NEW r \in Request, Invoke(c, k, r)
      PROVE  CallsAreBound'
  <2>1. \/ caller' = [caller EXCEPT ![c] =
                        [Idle EXCEPT !.pc = "attach", !.key = k, !.request = r]]
        \/ caller' = [caller EXCEPT ![c] = Reply("stopping")]
    BY <1>3 DEF Invoke
  <2> QED
    BY <1>1, <2>1, ReplyIsAnswered DEF CallsAreBound, Idle
<1>4. ASSUME NEW c \in Caller, EnterGate(c)
      PROVE  CallsAreBound'
  <2>1. caller[c].pc = "gate" /\ caller[c] \in Callers
    BY <1>1, <1>4 DEF EnterGate
  <2>2. \/ caller' = [caller EXCEPT ![c] = [caller[c] EXCEPT !.pc = "gated"]]
        \/ caller' = [caller EXCEPT ![c] = Reply("stopping")]
    BY <1>1, <1>4 DEF EnterGate
  <2> QED
    BY <1>1, <2>1, <2>2, ReplyIsAnswered DEF CallsAreBound, Callers
<1>5. ASSUME NEW c \in Caller, Attach(c)
      PROVE  CallsAreBound'
  <2>1. caller[c].pc = "attach" /\ caller[c] \in Callers
    BY <1>1, <1>5 DEF Attach
  <2>2. CASE runtime[caller[c].key] = None
    <3>1. caller' = [caller EXCEPT ![c] = [caller[c] EXCEPT !.pc = "gate"]]
      BY <1>1, <1>5, <2>2 DEF Attach
    <3> QED
      BY <1>1, <2>1, <3>1 DEF CallsAreBound, Callers
  <2>3. CASE runtime[caller[c].key] # None
    BY <1>5, <2>3, AttachToAnswers, CallsFrame DEF Attach
  <2> QED
    BY <2>2, <2>3
<1>6. ASSUME NEW c \in Caller, Register(c)
      PROVE  CallsAreBound'
  <2>1. \/ AttachTo(c, runtime[caller[c].key])
        \/ caller' = [caller EXCEPT ![c] = Reply("capacity")]
        \/ \E i \in Slot :
             caller' = [caller EXCEPT ![c].pc = "waiting", ![c].of = i]
    BY <1>6 DEF Register, FreeSlots
  <2>2. CASE \E i \in Slot : caller' = [caller EXCEPT ![c].pc = "waiting", ![c].of = i]
    <3>1. \A d \in Caller : caller'[d] = caller[d] \/ caller'[d].pc = "waiting"
      BY <1>1, <2>2 DEF Callers
    <3> QED
      BY <3>1, CallsFrame
  <2>3. CASE caller' = [caller EXCEPT ![c] = Reply("capacity")]
    BY <1>1, <2>3, ReplyIsAnswered, CallsFrame
  <2> QED
    BY <2>1, <2>2, <2>3, AttachToAnswers, CallsFrame
<1>7. ASSUME NEW c \in Caller, StatusFromLedger(c)
      PROVE  CallsAreBound'
  BY <1>1, <1>7, ReplyIsAnswered, CallsFrame DEF StatusFromLedger
<1>8. ASSUME NEW c \in Caller, Abandon(c)
      PROVE  CallsAreBound'
  BY <1>1, <1>8, CallsFrame DEF Abandon, Idle
<1>9. ASSUME NEW i \in Slot, WorkflowStep(i) \/ Panic(i)
      PROVE  CallsAreBound'
  <2>1. CASE \E k, state, durable, answer : Publish(k, state, durable, answer)
    <3>1. \A c \in Caller : caller'[c] = caller[c] \/ caller'[c].pc = "answered"
      BY <2>1, PublishAnswers
    <3> QED
      BY <3>1, CallsFrame
  <2>2. CASE BeginDurable(i)
    BY <2>1, <2>2, CallsFrame DEF BeginDurable
  <2>3. CASE PublishRetryable(i)
    <3>1. \A c \in Caller : caller'[c] = caller[c] \/ caller'[c].pc = "answered"
      BY <2>3, ReplyIsAnswered DEF PublishRetryable
    <3> QED
      BY <3>1, CallsFrame
  <2>4. CASE BeginFails(i) \/ PublishCompleted(i) \/ PublishReconciled(i)
    BY <2>1, <2>4 DEF BeginFails, PublishCompleted, PublishReconciled
  <2>5. CASE Execute(i) \/ CompleteDurable(i) \/ Reconcile(i) \/ EndSupervisor(i) \/ Panic(i)
    <3>1. UNCHANGED caller
      BY <2>5 DEF Execute, CompleteDurable, Reconcile, EndSupervisor, Panic
    <3> QED
      BY <3>1, CallsFrame
  <2> QED
    BY <1>9, <2>2, <2>3, <2>4, <2>5 DEF WorkflowStep
<1>10. CASE CleanupRuntime \/ StopAccepting \/ PassGate \/ Drain \/ ResumeAfterShutdown
  <2>1. UNCHANGED caller
    BY <1>10 DEF CleanupRuntime, StopAccepting, PassGate, Drain, ResumeAfterShutdown, ExitVars
  <2> QED
    BY <2>1, CallsFrame
<1>11. ASSUME NEW k \in Key, ExpireEvidence(k)
       PROVE  CallsAreBound'
  BY <1>11, CallsFrame DEF ExpireEvidence
<1>12. CASE Crash
  BY <1>12, CallsFrame DEF Crash, Idle
<1> QED
  BY <1>2, <1>3, <1>4, <1>5, <1>6, <1>7, <1>8, <1>9, <1>10, <1>11, <1>12
     DEF Next, CallerStep

-----------------------------------------------------------------------------
\* At most one execution.

Safe == WorkIsBound /\ ExecutedAtMostOnce /\ EvidencePrecedesExecution

Past == {"execute", "finish"}

\* A step that starts no execution, and leaves the evidence alone, is safe.
LEMMA SafeFrame ==
  ASSUME TypeOK, Safe, UNCHANGED <<evidence, executed>>,
         \A j \in Slot : work'[j] # "none" =>
           op'[j].key \in Key /\ op'[j].request \in Request,
         \A j \in Slot : work'[j] \in Past =>
           /\ work[j] \in Past /\ (work'[j] = "execute" => work[j] = "execute")
           /\ op'[j].key = op[j].key /\ op'[j].request = op[j].request
  PROVE  Safe'
<1>1. WorkIsBound'
  BY DEF Safe, WorkIsBound, Past
<1>2. ExecutedAtMostOnce'
  BY DEF Safe, ExecutedAtMostOnce
<1>3. EvidencePrecedesExecution'
  BY DEF Safe, EvidencePrecedesExecution, Past
<1> QED
  BY <1>1, <1>2, <1>3 DEF Safe

\* The workflow's steps are safe.
LEMMA SafeWorkflow ==
  ASSUME TypeOK, Safe, NEW i \in Slot, WorkflowStep(i) \/ Panic(i)
  PROVE  Safe'
<1> DEFINE k == op[i].key
<1>1. /\ op \in [Slot -> Operations]
      /\ work \in [Slot -> Program]
      /\ evidence \in [Key -> Evidence \cup {None}]
      /\ executed \in [Key -> Nat]
  BY DEF TypeOK
<1>2. /\ \A j \in Slot \ {i} : work'[j] = work[j]
      /\ k \in Key /\ op[i].request \in Request
      /\ \A j \in Slot : work'[j] # "none" =>
           op'[j].key = op[j].key /\ op'[j].request = op[j].request
      /\ work' \in [Slot -> Program]
  BY WorkflowType DEF Safe, WorkIsBound, TypeOK
<1>3. \A j \in Slot : work'[j] # "none" =>
        op'[j].key \in Key /\ op'[j].request \in Request
  BY <1>2 DEF Safe, WorkIsBound
<1>4. ASSUME UNCHANGED <<evidence, executed>>, work'[i] \notin Past
      PROVE  Safe'
  BY <1>2, <1>3, <1>4, SafeFrame DEF Past
<1>5. CASE BeginDurable(i)
  <2>1. CASE evidence[k] = None
    <3> DEFINE known == [request |-> op[i].request, state |-> "accepted"]
    <3>1. /\ evidence' = [evidence EXCEPT ![k] = known]
          /\ work' = [work EXCEPT ![i] = "execute"]
          /\ UNCHANGED <<op, executed>>
      BY <1>5, <2>1 DEF BeginDurable
    <3>2. known # None /\ known.request = op[i].request
      BY <1>2, CoordinatorAssumption
    <3>3. executed[k] = 0
      BY <1>1, <1>2, <2>1 DEF Safe, ExecutedAtMostOnce
    <3>4. \A j \in Slot : work[j] \in Past => op[j].key # k
      BY <2>1 DEF Safe, EvidencePrecedesExecution, Past
    <3> HIDE DEF known
    <3>5. WorkIsBound'
      BY <1>1, <1>2, <3>1, <3>3 DEF Safe, WorkIsBound
    <3>6. ExecutedAtMostOnce'
      BY <1>1, <1>2, <3>1, <3>2 DEF Safe, ExecutedAtMostOnce
    <3>7. EvidencePrecedesExecution'
      BY <1>1, <1>2, <3>1, <3>2, <3>4 DEF Safe, EvidencePrecedesExecution, Past
    <3> QED
      BY <3>5, <3>6, <3>7 DEF Safe
  <2>2. CASE evidence[k] # None
    <3>1. UNCHANGED <<evidence, executed>> /\ work'[i] = "returned"
      BY <1>1, <1>5, <2>2 DEF BeginDurable
    <3> QED
      BY <1>4, <3>1 DEF Past
  <2> QED
    BY <2>1, <2>2
<1>6. CASE BeginFails(i)
  <2>1. /\ UNCHANGED executed
        /\ work' = [work EXCEPT ![i] = "returned"]
        /\ \/ UNCHANGED evidence
           \/ /\ evidence[k] = None
              /\ evidence' = [evidence EXCEPT ![k] =
                                [request |-> op[i].request, state |-> "accepted"]]
    BY <1>6 DEF BeginFails
  <2>2. work'[i] = "returned"
    BY <1>1, <2>1
  <2>3. CASE UNCHANGED evidence
    BY <1>4, <2>1, <2>2, <2>3 DEF Past
  <2>4. CASE /\ evidence[k] = None
             /\ evidence' = [evidence EXCEPT ![k] =
                               [request |-> op[i].request, state |-> "accepted"]]
    <3>1. \A j \in Slot : work[j] \in Past => op[j].key # k
      BY <2>4 DEF Safe, EvidencePrecedesExecution, Past
    <3>2. [request |-> op[i].request, state |-> "accepted"] # None
      BY <1>2, CoordinatorAssumption
    <3>3. WorkIsBound'
      BY <1>1, <1>2, <1>3, <2>1 DEF Safe, WorkIsBound
    <3>4. ExecutedAtMostOnce'
      BY <1>1, <1>2, <2>1, <2>4, <3>2 DEF Safe, ExecutedAtMostOnce
    <3>5. EvidencePrecedesExecution'
      BY <1>1, <1>2, <2>1, <2>4, <3>1 DEF Safe, EvidencePrecedesExecution, Past
    <3> QED
      BY <3>3, <3>4, <3>5 DEF Safe
  <2> QED
    BY <2>1, <2>3, <2>4
<1>7. CASE Execute(i)
  <2>1. /\ work[i] = "execute" /\ work' = [work EXCEPT ![i] = "finish"]
        /\ UNCHANGED <<evidence, op>>
        /\ executed' = [executed EXCEPT ![k] = executed[k] + 1] \/ executed' = executed
    BY <1>7 DEF Execute, ledgerVars, runtimeVars
  <2>2. executed[k] = 0 /\ evidence[k] # None
    BY <2>1 DEF Safe, WorkIsBound, EvidencePrecedesExecution
  <2>3. \A j \in Slot \ {i} : work[j] \in Past => op[j].key # k
    BY <2>1 DEF Safe, EvidencePrecedesExecution, Past
  <2> HIDE DEF k
  <2>4. WorkIsBound'
    BY <1>1, <1>2, <2>1, <2>3 DEF Safe, WorkIsBound, Past
  <2>5. ExecutedAtMostOnce'
    BY <1>1, <1>2, <2>1, <2>2 DEF Safe, ExecutedAtMostOnce
  <2>6. EvidencePrecedesExecution'
    BY <1>1, <1>2, <2>1 DEF Safe, EvidencePrecedesExecution
  <2> QED
    BY <2>4, <2>5, <2>6 DEF Safe
<1>8. CASE CompleteDurable(i)
  <2> DEFINE done == [request |-> op[i].request, state |-> "completed"]
  <2>1. /\ work[i] = "finish" /\ UNCHANGED <<op, executed>>
        /\ work'[i] \notin Past
        /\ evidence' = evidence \/ evidence' = [evidence EXCEPT ![k] = done]
    BY <1>1, <1>8 DEF CompleteDurable, runtimeVars, Past
  <2>2. \A j \in Slot \ {i} : work[j] \in Past => op[j].key # k
    BY <2>1 DEF Safe, EvidencePrecedesExecution, Past
  <2>3. done # None
    BY <1>2, CoordinatorAssumption
  <2> HIDE DEF done
  <2>4. WorkIsBound'
    BY <1>2, <1>3, <2>1 DEF Safe, WorkIsBound, Past
  <2>5. ExecutedAtMostOnce'
    BY <1>1, <1>2, <2>1, <2>3 DEF Safe, ExecutedAtMostOnce
  <2>6. EvidencePrecedesExecution'
    <3>1. \A j \in Slot : work'[j] \in Past =>
            j # i /\ work[j] \in Past /\ evidence'[op[j].key] = evidence[op[j].key]
      BY <1>1, <1>2, <2>1, <2>2 DEF Safe, WorkIsBound, Past
    <3> QED
      BY <2>1, <3>1 DEF Safe, EvidencePrecedesExecution, Past
  <2> QED
    BY <2>4, <2>5, <2>6 DEF Safe
<1>9. CASE \/ PublishCompleted(i) \/ PublishReconciled(i) \/ PublishRetryable(i)
           \/ EndSupervisor(i) \/ Panic(i) \/ Reconcile(i)
  <2>1. UNCHANGED <<evidence, executed>>
    BY <1>9 DEF PublishCompleted, PublishReconciled, PublishRetryable,
                EndSupervisor, Panic, Reconcile, ledgerVars
  <2>2. work'[i] \notin Past
    BY <1>1, <1>2, <1>9, RecordedType
       DEF PublishCompleted, PublishReconciled, PublishRetryable,
           EndSupervisor, Panic, Reconcile, Past
  <2> QED
    BY <1>4, <2>1, <2>2
<1> QED
  BY <1>5, <1>6, <1>7, <1>8, <1>9 DEF WorkflowStep

\* Every other step is safe as well.
LEMMA SafeStep ==
  ASSUME TypeOK, CallsAreBound, Safe, Next
  PROVE  Safe'
<1>1. /\ evidence \in [Key -> Evidence \cup {None}]
      /\ executed \in [Key -> Nat]
      /\ op \in [Slot -> Operations]
  BY DEF TypeOK
<1>2. ASSUME NEW c \in Caller,
             \/ \E k \in Key : Status(c, k) \/ \E r \in Request : Invoke(c, k, r)
             \/ EnterGate(c) \/ Attach(c) \/ StatusFromLedger(c) \/ Abandon(c)
      PROVE  Safe'
  <2>1. UNCHANGED <<work, evidence, executed>>
    BY <1>2 DEF Status, Invoke, EnterGate, Attach, StatusFromLedger, Abandon, ledgerVars
  <2>2. \A j \in Slot : op'[j].key = op[j].key /\ op'[j].request = op[j].request
    <3>1. CASE UNCHANGED op
      BY <3>1
    <3>2. CASE Attach(c) /\ runtime[caller[c].key] # None
      <4>1. runtime[caller[c].key] \in Slot /\ AttachTo(c, runtime[caller[c].key])
        BY <3>2 DEF Attach, TypeOK, CallsAreBound
      <4> QED
        BY <4>1, AttachToType
    <3>3. CASE Abandon(c)
      BY <1>1, <3>3 DEF Abandon, Operations
    <3> QED
      BY <1>2, <3>1, <3>2, <3>3
         DEF Status, Invoke, EnterGate, Attach, StatusFromLedger, runtimeVars
  <2> QED
    BY <2>1, <2>2, SafeFrame DEF Safe, WorkIsBound
<1>3. ASSUME NEW c \in Caller, Register(c)
      PROVE  Safe'
  <2>1. UNCHANGED <<evidence, executed>>
    BY <1>3 DEF Register, ledgerVars
  <2>2. /\ \A j \in Slot : work[j] # "none" =>
             /\ work'[j] = work[j]
             /\ op'[j].key = op[j].key /\ op'[j].request = op[j].request
        /\ \A j \in Slot : work[j] = "none" /\ work'[j] # "none" =>
             /\ work'[j] = "begin"
             /\ op'[j].key \in Key /\ op'[j].request \in Request
    BY <1>3, RegisterType
  <2> QED
    BY <2>1, <2>2, SafeFrame DEF Safe, WorkIsBound, Past
<1>4. ASSUME NEW i \in Slot, WorkflowStep(i) \/ Panic(i)
      PROVE  Safe'
  BY <1>4, SafeWorkflow
<1>5. CASE CleanupRuntime \/ StopAccepting \/ PassGate \/ Drain \/ ResumeAfterShutdown
  <2>1. /\ UNCHANGED <<work, evidence, executed>>
        /\ \A j \in Slot : work[j] # "none" => op'[j] = op[j]
    BY <1>5, ExitType
  <2> QED
    BY <2>1, SafeFrame DEF Safe, WorkIsBound, Past
<1>6. ASSUME NEW k \in Key, ExpireEvidence(k)
      PROVE  Safe'
  <2>1. /\ evidence' = [evidence EXCEPT ![k] = None]
        /\ executed' = [executed EXCEPT ![k] = 0]
        /\ UNCHANGED <<op, work>>
        /\ \A j \in Slot : work[j] # "none" => op[j].key # k
    BY <1>6 DEF ExpireEvidence, runtimeVars
  <2>2. WorkIsBound'
    BY <1>1, <2>1 DEF Safe, WorkIsBound
  <2>3. ExecutedAtMostOnce'
    BY <1>1, <2>1 DEF Safe, ExecutedAtMostOnce
  <2>4. EvidencePrecedesExecution'
    BY <1>1, <2>1 DEF Safe, WorkIsBound, EvidencePrecedesExecution
  <2> QED
    BY <2>2, <2>3, <2>4 DEF Safe
<1>7. CASE Crash
  <2>1. /\ work' = [i \in Slot |-> "none"]
        /\ executed' = executed
        /\ \A k \in Key : evidence'[k] \in Surfaced(k)
    BY <1>7 DEF Crash
  <2>2. \A k \in Key : evidence[k] # None => evidence'[k] # None
    <3>1. ASSUME NEW k \in Key, evidence[k] # None
          PROVE  evidence'[k] # None
      <4>1. evidence[k] \in Evidence
        BY <1>1, <3>1
      <4>2. [evidence[k] EXCEPT !.state = "completed"] \in Evidence
        BY <4>1 DEF Evidence
      <4>3. None \notin Evidence
        BY CoordinatorAssumption DEF Evidence
      <4>4. \/ evidence'[k] = evidence[k]
            \/ evidence'[k] = [evidence[k] EXCEPT !.state = "completed"]
        BY <2>1, <3>1 DEF Surfaced
      <4> QED
        BY <4>1, <4>2, <4>3, <4>4
    <3> QED
      BY <3>1
  <2>3. ExecutedAtMostOnce'
    BY <2>1, <2>2 DEF Safe, ExecutedAtMostOnce
  <2> QED
    BY <2>1, <2>3 DEF Safe, WorkIsBound, EvidencePrecedesExecution
<1> QED
  BY <1>2, <1>3, <1>4, <1>5, <1>6, <1>7 DEF Next, CallerStep

-----------------------------------------------------------------------------
\* The theorems.

\* The inductive invariant holds when the process is first started ...
LEMMA InitInv == Init => IInv
<1> SUFFICES ASSUME Init PROVE IInv
  OBVIOUS
<1>1. NoOperation \in Operations /\ Idle \in Callers
  BY DEF NoOperation, Operations, OpStates, Idle, Callers, Answers
<1>2. TypeOK
  BY <1>1, CoordinatorAssumption DEF Init, TypeOK, Program
<1>3. CallsAreBound /\ WorkIsBound /\ ExecutedAtMostOnce /\ EvidencePrecedesExecution
  BY DEF Init, CallsAreBound, WorkIsBound, ExecutedAtMostOnce,
         EvidencePrecedesExecution, Idle
<1> QED
  BY <1>2, <1>3 DEF IInv

\* ... and every step of a caller, workflow, exit or crash keeps it.
LEMMA NextInv == IInv /\ [Next]_vars => IInv'
<1> SUFFICES ASSUME IInv, [Next]_vars PROVE IInv'
  OBVIOUS
<1>1. TypeOK /\ CallsAreBound /\ Safe
  BY DEF IInv, Safe
<1>2. CASE Next
  <2>1. TypeOK'
    <3>1. CASE \E c \in Caller : Register(c)
      BY <1>1, <3>1, RegisterType
    <3>2. CASE \E i \in Slot : WorkflowStep(i) \/ Panic(i)
      BY <1>1, <3>2, WorkflowType DEF Safe
    <3>3. CASE \E c \in Caller :
                 \/ \E k \in Key : Status(c, k) \/ \E r \in Request : Invoke(c, k, r)
                 \/ EnterGate(c) \/ Attach(c) \/ StatusFromLedger(c) \/ Abandon(c)
      BY <1>1, <3>3, CallerType
    <3>4. CASE CleanupRuntime \/ StopAccepting \/ PassGate \/ Drain \/ ResumeAfterShutdown
      BY <1>1, <3>4, ExitType
    <3>5. CASE \E k \in Key : ExpireEvidence(k)
      BY <1>1, <3>5, ExpireType
    <3>6. CASE Crash
      BY <1>1, <3>6, CrashType
    <3> QED
      BY <1>2, <3>1, <3>2, <3>3, <3>4, <3>5, <3>6 DEF Next, CallerStep
  <2> QED
    BY <1>1, <1>2, <2>1, CallsStep, SafeStep DEF IInv, Safe
<1>3. CASE UNCHANGED vars
  BY <1>3 DEF vars, runtimeVars, ledgerVars, IInv, TypeOK, CallsAreBound,
              WorkIsBound, ExecutedAtMostOnce, EvidencePrecedesExecution
<1> QED
  BY <1>2, <1>3

\* The inductive invariant holds in every reachable state.
LEMMA Invariance == Spec => []IInv
<1> QED
  BY InitInv, NextInv, PTL DEF Spec

\* Every variable of the coordinator has its type in every reachable state.
THEOREM TypeCorrect == Spec => []TypeOK
<1>1. IInv => TypeOK
  BY DEF IInv
<1> QED
  BY Invariance, <1>1, PTL

\* No operation is executed twice while its evidence is retained, whatever is
\* repeated, abandoned, lost or restarted.
THEOREM AtMostOnceExecution == Spec => []ExecutedAtMostOnce
<1>1. IInv => ExecutedAtMostOnce
  BY DEF IInv
<1> QED
  BY Invariance, <1>1, PTL

\* A workflow past the ledger is the only one of its key, and the ledger
\* holds the request it runs.
THEOREM EvidenceFirst == Spec => []EvidencePrecedesExecution
<1>1. IInv => EvidencePrecedesExecution
  BY DEF IInv
<1> QED
  BY Invariance, <1>1, PTL

-----------------------------------------------------------------------------
(* The books of the coordinator, and the answers that rest on them.       *)

Books == RegistryIsConsistent /\ WorkIsRegistered /\ WaitersAreRegistered

Over == {"none", "returned"}

-----------------------------------------------------------------------------
\* The books, step by step.

\* What the books name are slots and callers.
LEMMA RegisteredTypes ==
  ASSUME TypeOK
  PROVE  /\ \A k \in Key : runtime[k] # None => runtime[k] \in Slot
         /\ \A a \in 1..Len(finished) : finished[a] \in Slot
         /\ \A i \in Slot : op[i].waiters \subseteq Caller
  BY ElementOfSeq DEF TypeOK, Operations

\* A step that sets one call leaves the others alone.
LEMMA OneCall ==
  ASSUME TypeOK, NEW c \in Caller, NEW e, caller' = [caller EXCEPT ![c] = e]
  PROVE  caller'[c] = e /\ \A d \in Caller \ {c} : caller'[d] = caller[d]
  BY DEF TypeOK

\* A reply carries its answer.
LEMMA ReplyAnswers == \A a : Reply(a).answer = a
  BY DEF Reply, Idle

\* A step that answers a call leaves the others alone, too.
LEMMA OneAnswer ==
  ASSUME TypeOK, NEW c \in Caller, NEW a, caller' = [caller EXCEPT ![c] = Reply(a)]
  PROVE  caller'[c].pc = "answered" /\ \A d \in Caller \ {c} : caller'[d] = caller[d]
<1> DEFINE e == Reply(a)
<1>1. e.pc = "answered"
  BY ReplyIsAnswered
<1> HIDE DEF e
<1>2. caller' = [caller EXCEPT ![c] = e]
  BY DEF e
<1> QED
  BY <1>1, <1>2, OneCall

\* A step that lets nobody wait or stop waiting leaves the books alone.
LEMMA BooksFrame ==
  ASSUME TypeOK, Books, UNCHANGED <<runtime, op, finished>>,
         \A i \in Slot : work'[i] = work[i] \/ (work[i] \notin Over /\ work'[i] \notin Over),
         \A c \in Caller : \/ caller'[c] = caller[c]
                           \/ caller[c].pc # "waiting" /\ caller'[c].pc # "waiting"
  PROVE  Books'
<1>1. RegistryIsConsistent'
  BY DEF Books, RegistryIsConsistent
<1>2. WorkIsRegistered'
  BY DEF Books, WorkIsRegistered, Over
<1>3. WaitersAreRegistered'
  BY RegisteredTypes DEF Books, WaitersAreRegistered
<1> QED
  BY <1>1, <1>2, <1>3 DEF Books

\* Whoever attaches to a registered operation waits for it or is answered.
LEMMA AttachBooks ==
  ASSUME TypeOK, Books, NEW c \in Caller, caller[c].pc # "waiting",
         caller[c].key \in Key, runtime[caller[c].key] # None,
         AttachTo(c, runtime[caller[c].key]), UNCHANGED <<runtime, finished, work>>
  PROVE  Books'
<1> DEFINE i == runtime[caller[c].key]
<1>1. i \in Slot /\ op[i].key = caller[c].key
  BY DEF TypeOK, Books, RegistryIsConsistent
<1>2. /\ op \in [Slot -> Operations] /\ op[i] \in Operations
      /\ caller \in [Caller -> Callers] /\ caller[c] \in Callers
  BY <1>1 DEF TypeOK
<1>3. CASE op[i].request = caller[c].request /\ op[i].state = "pending"
  <2>1. /\ caller' = [caller EXCEPT ![c] = [caller[c] EXCEPT !.pc = "waiting", !.of = i]]
        /\ op' = [op EXCEPT ![i] = [op[i] EXCEPT !.waiters = op[i].waiters \cup {c}]]
    BY <1>2, <1>3 DEF AttachTo
  <2> HIDE DEF i
  <2>2. /\ caller'[c].pc = "waiting" /\ caller'[c].of = i
        /\ caller'[c].key = caller[c].key /\ caller'[c].request = caller[c].request
        /\ \A d \in Caller \ {c} : caller'[d] = caller[d]
    BY <1>2, <2>1 DEF Callers
  <2>3. /\ \A j \in Slot : /\ op'[j].key = op[j].key /\ op'[j].request = op[j].request
                           /\ op'[j].state = op[j].state
                           /\ op'[j].waiters = IF j = i THEN op[i].waiters \cup {c}
                                               ELSE op[j].waiters
    BY <1>1, <1>2, <2>1 DEF Operations
  <2>4. RegistryIsConsistent'
    BY <2>3, RegisteredTypes DEF Books, RegistryIsConsistent
  <2>5. WorkIsRegistered'
    BY <2>3 DEF Books, WorkIsRegistered
  <2>6. \A d \in Caller : caller'[d].pc = "waiting" =>
          /\ caller'[d].of \in Slot
          /\ op'[caller'[d].of].state = "pending"
          /\ d \in op'[caller'[d].of].waiters
          /\ op'[caller'[d].of].key = caller'[d].key
          /\ op'[caller'[d].of].request = caller'[d].request
    BY <1>1, <1>3, <2>2, <2>3 DEF Books, WaitersAreRegistered
  <2>7. ASSUME NEW j \in Slot, NEW d \in op'[j].waiters
        PROVE  caller'[d].pc = "waiting" /\ caller'[d].of = j
    BY <2>2, <2>3, <2>7, RegisteredTypes DEF Books, WaitersAreRegistered
  <2>8. WaitersAreRegistered'
    BY <2>6, <2>7 DEF WaitersAreRegistered
  <2> QED
    BY <2>4, <2>5, <2>8 DEF Books
<1>4. CASE ~(op[i].request = caller[c].request /\ op[i].state = "pending")
  <2>1. UNCHANGED op /\ \E a : caller' = [caller EXCEPT ![c] = Reply(a)]
    BY <1>4 DEF AttachTo
  <2> QED
    BY <1>2, <2>1, ReplyIsAnswered, BooksFrame
<1> QED
  BY <1>3, <1>4

\* A workflow that has not published finds its own operation under its key.
LEMMA OwnEntry ==
  ASSUME TypeOK, Books, NEW i \in Slot, work[i] \notin Over
  PROVE  /\ op[i].key \in Key /\ runtime[op[i].key] = i
         /\ op[i].state = "pending" /\ i # None
         /\ \A j \in Slot : work[j] \notin Over /\ op[j].key = op[i].key => j = i
  BY CoordinatorAssumption DEF Books, WorkIsRegistered, Over

\* The callers that wait for an operation get one answer.
Answered(i, answer) ==
  \A c \in Caller :
    \/ caller'[c] = caller[c]
    \/ /\ caller[c].pc = "waiting" /\ caller[c].key = op[i].key
       /\ caller'[c] = Reply(answer)

\* Publishing: the operation has its outcome, it may be dropped from now on,
\* and its waiters, who all waited for this operation, have their answer.
LEMMA PublishBooks ==
  ASSUME TypeOK, Books, NEW i \in Slot, work[i] \notin Over,
         NEW state \in OpStates \ {"pending"}, NEW durable \in BOOLEAN, NEW answer,
         Publish(op[i].key, state, durable, answer),
         runtime' = runtime, work' = [work EXCEPT ![i] = "returned"]
  PROVE  Books' /\ Answered(i, answer)
<1>1. /\ op[i].key \in Key /\ runtime[op[i].key] = i /\ op[i].state = "pending"
      /\ i # None
  BY OwnEntry
<1>2. /\ op \in [Slot -> Operations] /\ op[i] \in Operations
      /\ work \in [Slot -> Program] /\ caller \in [Caller -> Callers]
      /\ finished \in Seq(Slot) /\ Len(finished) \in Nat
  BY LenProperties DEF TypeOK
<1>3. /\ op' = [op EXCEPT ![i] = [op[i] EXCEPT !.state = state, !.durable = durable,
                                               !.waiters = {}]]
      /\ finished' = Append(finished, i)
      /\ caller' = [c \in Caller |-> IF c \in op[i].waiters
                                     THEN Reply(answer) ELSE caller[c]]
  BY <1>1, <1>2 DEF Publish
<1>4. \A j \in Slot : /\ op'[j].key = op[j].key /\ op'[j].request = op[j].request
                      /\ op'[j].state = IF j = i THEN state ELSE op[j].state
                      /\ op'[j].waiters = IF j = i THEN {} ELSE op[j].waiters
  BY <1>2, <1>3 DEF Operations
<1>5. /\ Len(finished') = Len(finished) + 1
      /\ finished'[Len(finished) + 1] = i
      /\ \A a \in 1..Len(finished) : finished'[a] = finished[a] /\ finished[a] \in Slot
  BY <1>2, <1>3, AppendProperties, ElementOfSeq
<1>6. RegistryIsConsistent'
  <2>1. \A a \in 1..Len(finished) : finished[a] # i
    BY <1>1 DEF Books, RegistryIsConsistent
  <2>2. \A a \in 1..Len(finished') : a \in 1..Len(finished) \/ a = Len(finished) + 1
    BY <1>2, <1>5
  <2>3. \A k \in Key : runtime'[k] # None => op'[runtime'[k]].key = k
    BY <1>4 DEF Books, RegistryIsConsistent, TypeOK
  <2>4. \A a \in 1..Len(finished') :
          /\ op'[finished'[a]].state # "pending"
          /\ \E k \in Key : runtime'[k] = finished'[a]
    BY <1>1, <1>4, <1>5, <2>2 DEF Books, RegistryIsConsistent
  <2>5. \A a, b \in 1..Len(finished') : finished'[a] = finished'[b] => a = b
    BY <1>2, <1>5, <2>1, <2>2 DEF Books, RegistryIsConsistent
  <2> QED
    BY <2>3, <2>4, <2>5 DEF RegistryIsConsistent
<1>7. WorkIsRegistered'
  BY <1>1, <1>2, <1>4 DEF Books, WorkIsRegistered
<1>8. \A c \in Caller :
        \/ c \notin op[i].waiters /\ caller'[c] = caller[c]
        \/ /\ c \in op[i].waiters /\ caller'[c] = Reply(answer)
           /\ caller[c].pc = "waiting" /\ caller[c].of = i /\ caller[c].key = op[i].key
  BY <1>1, <1>3 DEF Books, WaitersAreRegistered
<1>9. WaitersAreRegistered'
  <2>1. \A c \in Caller : caller'[c].pc = "waiting" =>
          caller'[c] = caller[c] /\ caller[c].of # i
    BY <1>8, ReplyIsAnswered DEF Books, WaitersAreRegistered
  <2>2. ASSUME NEW j \in Slot, NEW c \in op'[j].waiters
        PROVE  caller'[c].pc = "waiting" /\ caller'[c].of = j
    <3>1. j # i /\ c \in op[j].waiters /\ c \in Caller
      BY <1>2, <1>4, <2>2 DEF Operations
    <3>2. caller[c].pc = "waiting" /\ caller[c].of = j
      BY <3>1 DEF Books, WaitersAreRegistered
    <3> QED
      BY <1>8, <3>1, <3>2
  <2> QED
    BY <1>4, <2>1, <2>2 DEF Books, WaitersAreRegistered
<1> QED
  BY <1>6, <1>7, <1>8, <1>9 DEF Books, Answered

\* A failure that may be retried takes the entry out of the runtime map, where
\* it was not among the results that may be dropped.
LEMMA RetryableBooks ==
  ASSUME TypeOK, Books, NEW i \in Slot, PublishRetryable(i)
  PROVE  Books' /\ Answered(i, "taskFailed")
<1> DEFINE k == op[i].key
<1>1. work[i] = "unknown"
  BY DEF PublishRetryable
<1>2. k \in Key /\ runtime[k] = i /\ op[i].state = "pending" /\ i # None
  BY <1>1, OwnEntry DEF Over
<1>3. /\ op \in [Slot -> Operations] /\ op[i] \in Operations
      /\ runtime \in [Key -> Slot \cup {None}]
      /\ work \in [Slot -> Program] /\ caller \in [Caller -> Callers]
  BY DEF TypeOK
<1>4. /\ op' = [op EXCEPT ![i] = [op[i] EXCEPT !.state = "failed", !.waiters = {}]]
      /\ runtime' = [runtime EXCEPT ![k] = None]
      /\ caller' = [c \in Caller |-> IF c \in op[i].waiters
                                     THEN Reply("taskFailed") ELSE caller[c]]
      /\ work' = [work EXCEPT ![i] = "returned"] /\ UNCHANGED finished
  BY <1>2, <1>3 DEF PublishRetryable
<1>5. \A j \in Slot : /\ op'[j].key = op[j].key /\ op'[j].request = op[j].request
                      /\ op'[j].state = IF j = i THEN "failed" ELSE op[j].state
                      /\ op'[j].waiters = IF j = i THEN {} ELSE op[j].waiters
  BY <1>3, <1>4 DEF Operations
<1>6. \A x \in Key : runtime'[x] = IF x = k THEN None ELSE runtime[x]
  BY <1>2, <1>3, <1>4
<1> HIDE DEF k
<1>7. RegistryIsConsistent'
  <2>1. \A a \in 1..Len(finished) : finished[a] # i /\ finished[a] \in Slot
    BY <1>2, RegisteredTypes DEF Books, RegistryIsConsistent
  <2>2. \A x \in Key : runtime'[x] # None => op'[runtime'[x]].key = x
    BY <1>3, <1>5, <1>6 DEF Books, RegistryIsConsistent
  <2>3. \A a \in 1..Len(finished) :
          /\ op'[finished[a]].state # "pending"
          /\ \E x \in Key : runtime'[x] = finished[a]
    <3>1. ASSUME NEW a \in 1..Len(finished)
          PROVE  \E x \in Key : runtime'[x] = finished[a]
      <4>1. PICK x \in Key : runtime[x] = finished[a]
        BY DEF Books, RegistryIsConsistent
      <4>2. x # k
        BY <1>2, <2>1, <4>1
      <4> QED
        BY <1>6, <4>1, <4>2
    <3> QED
      BY <1>5, <2>1, <3>1 DEF Books, RegistryIsConsistent
  <2> QED
    BY <1>4, <2>2, <2>3 DEF Books, RegistryIsConsistent
<1>8. WorkIsRegistered'
  <2>1. \A j \in Slot \ {i} : op[j].state = "pending" => op[j].key # k
    BY <1>2 DEF Books, WorkIsRegistered
  <2> QED
    BY <1>2, <1>3, <1>4, <1>5, <1>6, <2>1 DEF Books, WorkIsRegistered
<1>9. \A c \in Caller :
        \/ c \notin op[i].waiters /\ caller'[c] = caller[c]
        \/ /\ c \in op[i].waiters /\ caller'[c] = Reply("taskFailed")
           /\ caller[c].pc = "waiting" /\ caller[c].of = i /\ caller[c].key = k
  BY <1>4 DEF Books, WaitersAreRegistered, k
<1>10. WaitersAreRegistered'
  <2>1. \A c \in Caller : caller'[c].pc = "waiting" =>
          caller'[c] = caller[c] /\ caller[c].of # i
    BY <1>9, ReplyIsAnswered DEF Books, WaitersAreRegistered
  <2>2. ASSUME NEW j \in Slot, NEW c \in op'[j].waiters
        PROVE  caller'[c].pc = "waiting" /\ caller'[c].of = j
    <3>1. j # i /\ c \in op[j].waiters /\ c \in Caller
      BY <1>5, <2>2, RegisteredTypes
    <3>2. caller[c].pc = "waiting" /\ caller[c].of = j
      BY <3>1 DEF Books, WaitersAreRegistered
    <3> QED
      BY <1>9, <3>1, <3>2
  <2> QED
    BY <1>5, <2>1, <2>2 DEF Books, WaitersAreRegistered
<1> QED
  BY <1>7, <1>8, <1>9, <1>10 DEF Books, Answered, k

\* What is left of the runtime map, the operations and the results when the
\* oldest results are dropped: no pending operation leaves the runtime map, and
\* none is freed that is still in it or still worked on.
Left(map, kept, rest) ==
  /\ \A k \in Key : map[k] = None \/ map[k] = runtime[k]
  /\ \A i \in Slot : \/ kept[i] = op[i]
                     \/ /\ kept[i] = NoOperation /\ op[i].state # "pending"
                        /\ work[i] = "none"
  /\ \A k \in Key : map[k] # None => kept[map[k]] = op[map[k]]
  /\ \A i \in Slot : op[i].state = "pending" => map[op[i].key] = i
  /\ \A a \in 1..Len(rest) :
       /\ rest[a] \in Slot /\ kept[rest[a]].state # "pending"
       /\ \E k \in Key : map[k] = rest[a]
       /\ \A b \in 1..Len(rest) : rest[a] = rest[b] => a = b

\* Dropping the oldest results leaves just that.
LEMMA DroppedBooks ==
  ASSUME TypeOK, Books, NEW n \in 0..Len(finished), NEW map, NEW kept, NEW rest,
         map = WithoutOldest(n), kept = Collected(op, map, work),
         rest = SubSeq(finished, n + 1, Len(finished))
  PROVE  Left(map, kept, rest)
<1> DEFINE gone == {finished[j] : j \in 1..n}
<1>1. \A k \in Key : map[k] = IF runtime[k] \in gone THEN None ELSE runtime[k]
  BY DEF WithoutOldest
<1>2. finished \in Seq(Slot) /\ Len(finished) \in Nat
  BY LenProperties DEF TypeOK
<1>3. \A i \in gone : i \in Slot /\ op[i].state # "pending"
  BY <1>2, RegisteredTypes DEF Books, RegistryIsConsistent
<1>4. \A a \in 1..Len(rest) : /\ rest[a] = finished[a + n]
                              /\ a + n \in 1..Len(finished) /\ a + n \notin 1..n
  <2>1. Len(rest) = Len(finished) - n
        /\ \A a \in 1..Len(finished) - n : rest[a] = finished[a + n]
    BY <1>2
  <2> QED
    BY <1>2, <2>1
<1> HIDE DEF gone
<1>5. \A i \in Slot : /\ op[i].state = "pending" =>
                           i \notin gone /\ op[i].key \in Key /\ runtime[op[i].key] = i
  BY <1>3 DEF Books, WorkIsRegistered
<1>6. \A i \in Slot : op[i].state = "pending" => map[op[i].key] = i
  BY <1>1, <1>5
<1>7. \A i \in Slot : (\E k \in Key : map[k] = i) \/ work[i] # "none" => kept[i] = op[i]
  BY DEF Collected, Referenced
<1>8. \A i \in Slot : kept[i] = op[i] \/ kept[i] = NoOperation
  BY DEF Collected
<1>9. \A i \in Slot : op[i].state = "pending" => kept[i] = op[i]
  BY <1>5, <1>6, <1>7
<1>10. \A a \in 1..Len(rest) : rest[a] \in Slot /\ rest[a] \notin gone
  <2>1. \A j \in 1..n : j \in 1..Len(finished)
    BY <1>2
  <2>2. \A a \in 1..Len(rest) : \A j \in 1..n : finished[a + n] # finished[j]
    BY <1>4, <2>1 DEF Books, RegistryIsConsistent
  <2> QED
    BY <1>4, <2>2, RegisteredTypes DEF gone
<1>11. \A a \in 1..Len(rest) : \E k \in Key : map[k] = rest[a]
  <2>1. \A a \in 1..Len(rest) : \E k \in Key : runtime[k] = rest[a]
    BY <1>4 DEF Books, RegistryIsConsistent
  <2> QED
    BY <1>1, <1>10, <2>1
<1>12. \A a, b \in 1..Len(rest) : rest[a] = rest[b] => a = b
  <2>1. ASSUME NEW a \in 1..Len(rest), NEW b \in 1..Len(rest), rest[a] = rest[b]
        PROVE  a = b
    <3>1. a + n = b + n
      BY <1>4, <2>1 DEF Books, RegistryIsConsistent
    <3>2. a \in Int /\ b \in Int /\ n \in Int
      BY <1>2
    <3> QED
      BY <3>1, <3>2
  <2> QED
    BY <2>1
<1>13. \A k \in Key : map[k] # None => map[k] \in Slot
  BY <1>1, RegisteredTypes
<1>14. \A a \in 1..Len(rest) : op[rest[a]].state # "pending"
  BY <1>4 DEF Books, RegistryIsConsistent
<1> QED
  BY <1>1, <1>6, <1>7, <1>8, <1>9, <1>10, <1>11, <1>12, <1>13, <1>14 DEF Left

\* Dropping results leaves the books consistent, with nothing added ...
LEMMA DropBooks ==
  ASSUME TypeOK, Books, NEW n \in 0..Len(finished),
         runtime' = WithoutOldest(n), op' = Collected(op, WithoutOldest(n), work),
         finished' = SubSeq(finished, n + 1, Len(finished)), UNCHANGED work,
         \A c \in Caller : \/ caller'[c] = caller[c]
                           \/ caller[c].pc # "waiting" /\ caller'[c].pc # "waiting"
  PROVE  Books'
<1>1. Left(runtime', op', finished')
  <2>1. op' = Collected(op, runtime', work)
    OBVIOUS
  <2> QED
    BY <2>1, DroppedBooks
<1>2. NoOperation.state = "free" /\ NoOperation.waiters = {}
  BY DEF NoOperation
<1>3. RegistryIsConsistent'
  <2>1. \A k \in Key : runtime'[k] # None => op'[runtime'[k]].key = k
    BY <1>1 DEF Books, RegistryIsConsistent, Left
  <2>2. \A a \in 1..Len(finished') :
          /\ op'[finished'[a]].state # "pending"
          /\ \E x \in Key : runtime'[x] = finished'[a]
          /\ \A b \in 1..Len(finished') : finished'[a] = finished'[b] => a = b
    BY <1>1, Zenon DEF Left
  <2> QED
    BY <2>1, <2>2, Zenon DEF RegistryIsConsistent
<1>4. WorkIsRegistered'
  BY <1>1, <1>2 DEF Books, WorkIsRegistered, Left
<1>5. WaitersAreRegistered'
  BY <1>1, <1>2, RegisteredTypes DEF Books, WaitersAreRegistered, Left
<1> QED
  BY <1>3, <1>4, <1>5 DEF Books

\* ... or with a new operation in a free slot, for the caller inside the gate.
LEMMA NewBooks ==
  ASSUME TypeOK, Books, NEW n \in 0..Len(finished), NEW c \in Caller, NEW i \in FreeSlots,
         caller[c].pc # "waiting", caller[c].key \in Key, runtime[caller[c].key] = None,
         runtime' = [WithoutOldest(n) EXCEPT ![caller[c].key] = i],
         finished' = SubSeq(finished, n + 1, Len(finished)),
         op' = [Collected(op, WithoutOldest(n), work) EXCEPT ![i] =
                  [key |-> caller[c].key, request |-> caller[c].request,
                   state |-> "pending", durable |-> FALSE, waiters |-> {c}]],
         work' = [work EXCEPT ![i] = "begin"],
         caller' = [caller EXCEPT ![c].pc = "waiting", ![c].of = i]
  PROVE  Books'
<1> DEFINE k == caller[c].key
           map == WithoutOldest(n)
           kept == Collected(op, map, work)
           rest == SubSeq(finished, n + 1, Len(finished))
<1>1. Left(map, kept, rest)
  BY DroppedBooks
<1>2. /\ i \in Slot /\ i # None /\ work[i] = "none" /\ \A x \in Key : runtime[x] # i
      /\ op[i].state # "pending"
  BY CoordinatorAssumption DEF FreeSlots, Referenced, Books, WorkIsRegistered
<1>3. /\ map \in [Key -> Slot \cup {None}] /\ kept \in [Slot -> Operations]
      /\ work \in [Slot -> Program] /\ caller \in [Caller -> Callers] /\ caller[c] \in Callers
  BY DroppedType, CollectedType DEF TypeOK
<1>4. \A x \in Key : runtime'[x] = IF x = k THEN i ELSE map[x]
  BY <1>3
<1>5. /\ op'[i].key = k /\ op'[i].request = caller[c].request
      /\ op'[i].state = "pending" /\ op'[i].waiters = {c}
      /\ \A j \in Slot \ {i} : op'[j] = kept[j]
  BY <1>2, <1>3
<1>6. /\ caller'[c].pc = "waiting" /\ caller'[c].of = i
      /\ caller'[c].key = k /\ caller'[c].request = caller[c].request
      /\ \A d \in Caller \ {c} : caller'[d] = caller[d]
  <2>1. caller' = [caller EXCEPT ![c] = [caller[c] EXCEPT !.pc = "waiting", !.of = i]]
    BY <1>3
  <2> QED
    BY <1>3, <2>1 DEF Callers
<1>7. work'[i] = "begin" /\ \A j \in Slot \ {i} : work'[j] = work[j]
  BY <1>2, <1>3
<1>8. finished' = rest /\ k \in Key
  OBVIOUS
<1>9. map[k] = None /\ \A x \in Key : map[x] # i
  BY <1>1, <1>2 DEF Left
<1>10. NoOperation.state = "free" /\ NoOperation.waiters = {}
  BY DEF NoOperation
<1>11. \A x \in Key : runtime[x] # None => op[runtime[x]].key = x /\ runtime[x] \in Slot
  BY RegisteredTypes DEF Books, RegistryIsConsistent
<1>12. \A j \in Slot : /\ op[j].state = "pending" =>
                            op[j].key \in Key /\ runtime[op[j].key] = j
                       /\ op[j].state = "pending" <=> work[j] \notin {"none", "returned"}
  BY DEF Books, WorkIsRegistered
<1>13. /\ \A d \in Caller : caller[d].pc = "waiting" =>
            /\ caller[d].of \in Slot /\ op[caller[d].of].state = "pending"
            /\ d \in op[caller[d].of].waiters /\ op[caller[d].of].key = caller[d].key
            /\ op[caller[d].of].request = caller[d].request
       /\ \A j \in Slot : \A d \in op[j].waiters :
            d \in Caller /\ caller[d].pc = "waiting" /\ caller[d].of = j
  BY RegisteredTypes DEF Books, WaitersAreRegistered
<1> HIDE DEF k, map, kept, rest
<1> USE DEF Left
<1>14. RegistryIsConsistent'
  <2>1. \A x \in Key : runtime'[x] # None => op'[runtime'[x]].key = x
    <3>1. ASSUME NEW x \in Key, x # k, runtime'[x] # None
          PROVE  op'[runtime'[x]].key = x
      <4>1. runtime'[x] = map[x] /\ map[x] = runtime[x] /\ kept[map[x]] = op[map[x]]
        BY <1>1, <1>4, <3>1
      <4>2. op'[map[x]] = kept[map[x]]
        BY <1>5, <1>9, <1>11, <3>1, <4>1
      <4> QED
        BY <1>11, <3>1, <4>1, <4>2
    <3> QED
      BY <1>4, <1>5, <3>1
  <2>2. \A a \in 1..Len(rest) : rest[a] # i
    BY <1>1, <1>9
  <2>3. \A a \in 1..Len(rest) :
          /\ op'[rest[a]].state # "pending"
          /\ \E x \in Key : runtime'[x] = rest[a]
    <3>1. ASSUME NEW a \in 1..Len(rest)
          PROVE  \E x \in Key : runtime'[x] = rest[a]
      <4>1. PICK x \in Key : map[x] = rest[a]
        BY <1>1
      <4>2. x # k
        BY <1>1, <1>9, <4>1, CoordinatorAssumption
      <4> QED
        BY <1>4, <4>1, <4>2
    <3> QED
      BY <1>1, <1>5, <2>2, <3>1
  <2>4. \A a, b \in 1..Len(rest) : rest[a] = rest[b] => a = b
    BY <1>1
  <2>5. \A a \in 1..Len(finished') :
          /\ op'[finished'[a]].state # "pending"
          /\ \E x \in Key : runtime'[x] = finished'[a]
          /\ \A b \in 1..Len(finished') : finished'[a] = finished'[b] => a = b
    BY <1>8, <2>3, <2>4, Zenon
  <2> QED
    BY <2>1, <2>5 DEF RegistryIsConsistent
<1>15. WorkIsRegistered'
  <2>1. ASSUME NEW j \in Slot
        PROVE  /\ op'[j].state = "pending" => op'[j].key \in Key /\ runtime'[op'[j].key] = j
               /\ op'[j].state = "pending" <=> work'[j] \notin {"none", "returned"}
    <3>1. CASE j = i
      BY <1>4, <1>5, <1>7, <1>8, <3>1
    <3>2. CASE j # i /\ kept[j] = op[j]
      <4>1. op[j].state = "pending" => op[j].key # k
        BY <1>1, <1>2, <1>9, <1>12, CoordinatorAssumption
      <4> QED
        BY <1>1, <1>4, <1>5, <1>7, <1>12, <3>2, <4>1
    <3>3. CASE j # i /\ kept[j] # op[j]
      BY <1>1, <1>5, <1>7, <1>10, <1>12, <3>3
    <3> QED
      BY <3>1, <3>2, <3>3
  <2> QED
    BY <2>1 DEF WorkIsRegistered
<1>16. WaitersAreRegistered'
  <2>1. \A d \in Caller \ {c} : caller[d].pc = "waiting" =>
          /\ caller[d].of # i /\ kept[caller[d].of] = op[caller[d].of]
    BY <1>1, <1>2, <1>13
  <2>2. \A d \in Caller : caller'[d].pc = "waiting" =>
          /\ caller'[d].of \in Slot
          /\ op'[caller'[d].of].state = "pending"
          /\ d \in op'[caller'[d].of].waiters
          /\ op'[caller'[d].of].key = caller'[d].key
          /\ op'[caller'[d].of].request = caller'[d].request
    <3>1. ASSUME NEW d \in Caller, d # c, caller'[d].pc = "waiting"
          PROVE  /\ caller'[d].of \in Slot
                 /\ op'[caller'[d].of].state = "pending"
                 /\ d \in op'[caller'[d].of].waiters
                 /\ op'[caller'[d].of].key = caller'[d].key
                 /\ op'[caller'[d].of].request = caller'[d].request
      <4> DEFINE j == caller[d].of
      <4>1. caller'[d] = caller[d] /\ caller[d].pc = "waiting"
        BY <1>6, <3>1
      <4>2. /\ j \in Slot /\ op[j].state = "pending" /\ d \in op[j].waiters
            /\ op[j].key = caller[d].key /\ op[j].request = caller[d].request
        BY <1>13, <4>1
      <4>3. op'[j] = op[j]
        BY <1>5, <2>1, <3>1, <4>1, <4>2
      <4> HIDE DEF j
      <4>4. caller'[d].of = j
        BY <4>1 DEF j
      <4> QED
        BY <4>1, <4>2, <4>3, <4>4
    <3>2. /\ i \in Slot /\ op'[i].state = "pending" /\ c \in op'[i].waiters
          /\ op'[i].key = caller'[c].key /\ op'[i].request = caller'[c].request
      BY <1>2, <1>5, <1>6
    <3> QED
      BY <1>6, <3>1, <3>2
  <2>3. ASSUME NEW j \in Slot, NEW d \in op'[j].waiters
        PROVE  caller'[d].pc = "waiting" /\ caller'[d].of = j
    <3>1. CASE j = i
      BY <1>5, <1>6, <2>3, <3>1
    <3>2. CASE j # i
      <4>1. d \in op[j].waiters
        BY <1>1, <1>5, <1>10, <2>3, <3>2
      <4>2. d \in Caller /\ caller[d].pc = "waiting" /\ caller[d].of = j
        BY <1>13, <4>1
      <4>3. d # c
        BY <4>2
      <4> QED
        BY <1>6, <4>2, <4>3
    <3> QED
      BY <3>1, <3>2
  <2> QED
    BY <2>2, <2>3 DEF WaitersAreRegistered
<1> QED
  BY <1>14, <1>15, <1>16 DEF Books

\* A supervisor that ends leaves nothing pending behind; its operation is freed
\* if the runtime map does not hold it.
LEMMA EndBooks ==
  ASSUME TypeOK, Books, NEW i \in Slot, EndSupervisor(i)
  PROVE  Books'
<1>1. /\ work[i] = "returned" /\ work' = [work EXCEPT ![i] = "none"]
      /\ UNCHANGED <<runtime, finished, caller>>
      /\ work \in [Slot -> Program]
  BY DEF EndSupervisor, TypeOK
<1>2. op' = Collected(op, runtime, work')
  BY <1>1 DEF EndSupervisor
<1>3. \A j \in Slot : op'[j] = op[j] \/ op'[j] = NoOperation
  BY <1>2 DEF Collected
<1>4. \A k \in Key : runtime[k] # None => op'[runtime[k]] = op[runtime[k]]
  BY <1>2, RegisteredTypes DEF Collected, Referenced
<1>5. \A j \in Slot : op[j].state = "pending" => op'[j] = op[j]
  <2>1. \A j \in Slot : op[j].state = "pending" => work'[j] # "none"
    BY <1>1 DEF Books, WorkIsRegistered
  <2> QED
    BY <1>2, <2>1 DEF Collected, Referenced
<1>6. NoOperation.state = "free" /\ NoOperation.waiters = {}
  BY DEF NoOperation
<1>7. RegistryIsConsistent'
  <2>1. \A a \in 1..Len(finished) : op'[finished[a]] = op[finished[a]]
    <3>1. ASSUME NEW a \in 1..Len(finished)
          PROVE  op'[finished[a]] = op[finished[a]]
      <4>1. PICK k \in Key : runtime[k] = finished[a]
        BY DEF Books, RegistryIsConsistent
      <4>2. runtime[k] # None
        BY <4>1, RegisteredTypes, CoordinatorAssumption
      <4> QED
        BY <1>4, <4>1, <4>2
    <3> QED
      BY <3>1
  <2> QED
    BY <1>1, <1>4, <2>1 DEF Books, RegistryIsConsistent
<1>8. WorkIsRegistered'
  BY <1>1, <1>3, <1>5, <1>6 DEF Books, WorkIsRegistered
<1>9. WaitersAreRegistered'
  BY <1>1, <1>3, <1>5, <1>6 DEF Books, WaitersAreRegistered
<1> QED
  BY <1>7, <1>8, <1>9 DEF Books

\* A call that is given up is taken from the waiters of every operation.
LEMMA AbandonBooks ==
  ASSUME TypeOK, Books, NEW c \in Caller, Abandon(c)
  PROVE  Books'
<1>1. /\ caller' = [caller EXCEPT ![c] = Idle]
      /\ op' = [i \in Slot |-> [op[i] EXCEPT !.waiters = op[i].waiters \ {c}]]
      /\ UNCHANGED <<runtime, finished, work>>
      /\ caller \in [Caller -> Callers] /\ op \in [Slot -> Operations]
  BY DEF Abandon, TypeOK
<1>2. \A i \in Slot : /\ op'[i].key = op[i].key /\ op'[i].request = op[i].request
                      /\ op'[i].state = op[i].state
                      /\ op'[i].waiters = op[i].waiters \ {c}
  BY <1>1 DEF Operations
<1>3. caller'[c].pc = "idle" /\ \A d \in Caller \ {c} : caller'[d] = caller[d]
  BY <1>1 DEF Idle
<1>4. RegistryIsConsistent'
  BY <1>1, <1>2, RegisteredTypes DEF Books, RegistryIsConsistent
<1>5. WorkIsRegistered'
  BY <1>1, <1>2 DEF Books, WorkIsRegistered
<1>6. WaitersAreRegistered'
  BY <1>2, <1>3, RegisteredTypes DEF Books, WaitersAreRegistered
<1> QED
  BY <1>4, <1>5, <1>6 DEF Books

\* A registration attaches, drops results, or drops results and adds one.
LEMMA RegisterBooks ==
  ASSUME TypeOK, CallsAreBound, Books, NEW c \in Caller, Register(c)
  PROVE  Books'
<1> DEFINE k == caller[c].key
<1>1. k \in Key /\ caller[c].pc = "gated" /\ caller \in [Caller -> Callers]
  BY DEF Register, CallsAreBound, TypeOK
<1>2. CASE runtime[k] # None
  BY <1>1, <1>2, AttachBooks DEF Register
<1>3. CASE runtime[k] = None
  <2>1. PICK n \in 0..Len(finished) :
          /\ finished' = SubSeq(finished, n + 1, Len(finished))
          /\ \/ /\ caller' = [caller EXCEPT ![c] = Reply("capacity")]
                /\ runtime' = WithoutOldest(n)
                /\ op' = Collected(op, WithoutOldest(n), work)
                /\ UNCHANGED <<work, active>>
             \/ \E i \in FreeSlots :
                  /\ op' = [Collected(op, WithoutOldest(n), work) EXCEPT ![i] =
                              [key |-> k, request |-> caller[c].request,
                               state |-> "pending", durable |-> FALSE,
                               waiters |-> {c}]]
                  /\ runtime' = [WithoutOldest(n) EXCEPT ![k] = i]
                  /\ work' = [work EXCEPT ![i] = "begin"]
                  /\ active' = active + 1
                  /\ caller' = [caller EXCEPT ![c].pc = "waiting", ![c].of = i]
    BY <1>3 DEF Register
  <2>2. CASE /\ caller' = [caller EXCEPT ![c] = Reply("capacity")]
             /\ runtime' = WithoutOldest(n)
             /\ op' = Collected(op, WithoutOldest(n), work)
             /\ UNCHANGED <<work, active>>
    <3>1. \A d \in Caller : \/ caller'[d] = caller[d]
                            \/ caller[d].pc # "waiting" /\ caller'[d].pc # "waiting"
      <4>1. caller' = [caller EXCEPT ![c] = Reply("capacity")]
        BY <2>2
      <4>2. caller'[c].pc = "answered" /\ \A d \in Caller \ {c} : caller'[d] = caller[d]
        BY <4>1, OneAnswer
      <4> QED
        BY <1>1, <4>2
    <3> QED
      BY <2>1, <2>2, <3>1, DropBooks
  <2>3. ASSUME NEW i \in FreeSlots,
               op' = [Collected(op, WithoutOldest(n), work) EXCEPT ![i] =
                        [key |-> k, request |-> caller[c].request, state |-> "pending",
                         durable |-> FALSE, waiters |-> {c}]],
               runtime' = [WithoutOldest(n) EXCEPT ![k] = i],
               work' = [work EXCEPT ![i] = "begin"],
               caller' = [caller EXCEPT ![c].pc = "waiting", ![c].of = i]
        PROVE  Books'
    BY <1>1, <1>3, <2>1, <2>3, NewBooks
  <2> QED
    BY <2>1, <2>2, <2>3
<1> QED
  BY <1>2, <1>3

\* What a workflow must be about to do when it gives an answer.
Grounded(i, a) ==
  /\ a = "completed" => work[i] = "publishDurable"
  /\ a = "notDurable" => work[i] = "publishNotDurable"
  /\ a = "taskFailed" => work[i] = "unknown"
  /\ a \in {"indeterminate", "completedWithoutResult"} =>
       work[i] = a \/ a = Recorded(op[i].key)
  /\ a # "unknown"

\* What a workflow may tell the callers that wait for its operation.
Tells(i) ==
  \A c \in Caller :
    \/ caller'[c] = caller[c]
    \/ /\ caller[c].pc = "waiting" /\ caller[c].key = op[i].key
       /\ \E a \in Answers : caller'[c] = Reply(a) /\ Grounded(i, a)

\* A workflow and its supervisor keep the books, and tell a completion only
\* when it is durable and a failure to be retried only when nothing is known.
LEMMA WorkflowBooks ==
  ASSUME TypeOK, WorkIsBound, Books, NEW i \in Slot, WorkflowStep(i) \/ Panic(i)
  PROVE  Books' /\ Tells(i)
<1> DEFINE k == op[i].key
<1>1. work \in [Slot -> Program] /\ caller \in [Caller -> Callers]
  BY DEF TypeOK
<1>2. ASSUME NEW state \in OpStates \ {"pending"}, NEW durable \in BOOLEAN,
             NEW answer \in Answers, Publish(op[i].key, state, durable, answer),
             work[i] \notin Over, runtime' = runtime,
             work' = [work EXCEPT ![i] = "returned"],
             Grounded(i, answer)
      PROVE  Books' /\ Tells(i)
  <2>1. Books' /\ Answered(i, answer)
    BY <1>2, PublishBooks
  <2> QED
    BY <1>2, <2>1 DEF Tells, Answered
<1>3. ASSUME UNCHANGED <<runtime, op, finished, caller>>, work[i] \notin Over,
             work'[i] \notin Over, \A j \in Slot \ {i} : work'[j] = work[j]
      PROVE  Books' /\ Tells(i)
  BY <1>3, BooksFrame DEF Tells
<1>4. CASE BeginDurable(i)
  <2>1. work[i] = "begin" /\ k \in Key /\ runtime' = runtime
    BY <1>4 DEF BeginDurable, WorkIsBound
  <2>2. CASE evidence[k] = None
    <3>1. work' = [work EXCEPT ![i] = "execute"] /\ UNCHANGED <<runtime, op, finished, caller>>
      BY <1>4, <2>2 DEF BeginDurable
    <3> QED
      BY <1>1, <1>3, <2>1, <3>1 DEF Over
  <2>3. CASE evidence[k] # None
    <3> DEFINE a == IF evidence[k].request = op[i].request THEN Recorded(k) ELSE "failed"
    <3>1. Publish(op[i].key, a, FALSE, a) /\ work' = [work EXCEPT ![i] = "returned"]
      BY <1>4, <2>3 DEF BeginDurable
    <3>2. a \in OpStates \ {"pending"} /\ a \in Answers /\ Grounded(i, a)
      BY <2>1, <2>3 DEF Recorded, OpStates, Answers, Grounded
    <3> HIDE DEF a, k
    <3> QED
      BY <1>2, <2>1, <3>1, <3>2 DEF Over
  <2> QED
    BY <2>2, <2>3
<1>5. CASE BeginFails(i)
  <2>1. /\ work[i] = "begin" /\ runtime' = runtime
        /\ work' = [work EXCEPT ![i] = "returned"]
        /\ Publish(k, "failed", FALSE, "failed")
    BY <1>5 DEF BeginFails
  <2>2. "failed" \in OpStates \ {"pending"} /\ "failed" \in Answers
        /\ Grounded(i, "failed")
    BY DEF OpStates, Answers, Grounded
  <2> QED
    BY <1>2, <2>1, <2>2 DEF Over
<1>6. CASE Execute(i) \/ CompleteDurable(i) \/ Panic(i)
  BY <1>1, <1>3, <1>6 DEF Execute, CompleteDurable, Panic, runtimeVars, Over
<1>7. CASE PublishCompleted(i)
  <2>1. PICK state \in {"completed", "withoutResult"} :
          Publish(k, state, work[i] = "publishDurable",
                  IF work[i] = "publishDurable" THEN "completed" ELSE "notDurable")
    BY <1>7 DEF PublishCompleted
  <2>2. /\ work[i] \in {"publishDurable", "publishNotDurable"} /\ runtime' = runtime
        /\ work' = [work EXCEPT ![i] = "returned"]
    BY <1>7 DEF PublishCompleted
  <2> DEFINE a == IF work[i] = "publishDurable" THEN "completed" ELSE "notDurable"
             d == work[i] = "publishDurable"
  <2>3. /\ state \in OpStates \ {"pending"} /\ d \in BOOLEAN /\ a \in Answers
        /\ Grounded(i, a) /\ Publish(op[i].key, state, d, a)
    BY <2>1, <2>2 DEF OpStates, Answers, Grounded
  <2> HIDE DEF a, d, k
  <2> QED
    BY <1>2, <2>2, <2>3 DEF Over
<1>8. CASE Reconcile(i)
  <2>1. /\ work[i] = "panicked" /\ UNCHANGED <<runtime, op, finished, caller>>
        /\ \/ work' = [work EXCEPT ![i] = Recorded(k)]
           \/ work' = [work EXCEPT ![i] = "indeterminate"]
    BY <1>8 DEF Reconcile, runtimeVars
  <2>2. Recorded(k) \notin Over
    BY DEF Recorded, Over
  <2> QED
    BY <1>1, <1>3, <2>1, <2>2 DEF Over
<1>9. CASE PublishReconciled(i)
  <2>1. /\ work[i] \in {"indeterminate", "completedWithoutResult"} /\ runtime' = runtime
        /\ work' = [work EXCEPT ![i] = "returned"]
        /\ Publish(k, work[i], FALSE, work[i])
    BY <1>9 DEF PublishReconciled
  <2>2. work[i] \in OpStates \ {"pending"} /\ work[i] \in Answers /\ Grounded(i, work[i])
    BY <2>1 DEF OpStates, Answers, Grounded
  <2> QED
    BY <1>2, <2>1, <2>2 DEF Over
<1>10. CASE PublishRetryable(i)
  <2>1. Books' /\ Answered(i, "taskFailed") /\ work[i] = "unknown"
    BY <1>10, RetryableBooks DEF PublishRetryable
  <2>2. "taskFailed" \in Answers /\ Grounded(i, "taskFailed")
    BY <2>1 DEF Answers, Grounded
  <2> QED
    BY <2>1, <2>2 DEF Tells, Answered
<1>11. CASE EndSupervisor(i)
  BY <1>11, EndBooks DEF EndSupervisor, Tells
<1> QED
  BY <1>4, <1>5, <1>6, <1>7, <1>8, <1>9, <1>10, <1>11 DEF WorkflowStep

\* No other step answers a caller that waits.
LEMMA OtherBooks ==
  ASSUME TypeOK, CallsAreBound, Books, Next,
         ~ \E i \in Slot : WorkflowStep(i) \/ Panic(i)
  PROVE  /\ Books'
         /\ \A c \in Caller : caller[c].pc = "waiting" => caller'[c].pc # "answered"
<1>1. caller \in [Caller -> Callers] /\ op \in [Slot -> Operations]
  BY DEF TypeOK
<1>2. ASSUME NEW c \in Caller,
             \/ \E k \in Key : Status(c, k) \/ \E r \in Request : Invoke(c, k, r)
             \/ EnterGate(c) \/ StatusFromLedger(c)
      PROVE  /\ UNCHANGED <<runtime, op, finished, work>>
             /\ caller[c].pc # "waiting" /\ caller'[c].pc # "waiting"
             /\ \A d \in Caller \ {c} : caller'[d] = caller[d]
  <2>1. /\ UNCHANGED <<runtime, op, finished, work>> /\ caller[c].pc # "waiting"
        /\ \E e : caller' = [caller EXCEPT ![c] = e] /\ e.pc # "waiting"
    <3>1. CASE EnterGate(c)
      <4>1. [caller[c] EXCEPT !.pc = "gated"].pc = "gated"
        BY <1>1 DEF Callers
      <4> QED
        BY <1>1, <3>1, <4>1, ReplyIsAnswered DEF EnterGate, runtimeVars
    <3>2. CASE StatusFromLedger(c)
      BY <3>2, ReplyIsAnswered DEF StatusFromLedger, runtimeVars
    <3>3. CASE \E k \in Key : Status(c, k)
      <4>1. PICK k \in Key : Status(c, k)
        BY <3>3
      <4> DEFINE e == IF runtime[k] = None THEN [Idle EXCEPT !.pc = "lookup", !.key = k]
                      ELSE Reply(Published(runtime[k]))
      <4>2. caller' = [caller EXCEPT ![c] = e] /\ UNCHANGED <<runtime, op, finished, work>>
            /\ caller[c].pc # "waiting"
        BY <4>1 DEF Status, runtimeVars
      <4>3. e.pc # "waiting"
        BY ReplyIsAnswered DEF Idle
      <4> QED
        BY <4>2, <4>3
    <3>4. CASE \E k \in Key, r \in Request : Invoke(c, k, r)
      <4>1. PICK k \in Key, r \in Request : Invoke(c, k, r)
        BY <3>4
      <4> DEFINE e == IF accepting
                      THEN [Idle EXCEPT !.pc = "attach", !.key = k, !.request = r]
                      ELSE Reply("stopping")
      <4>2. caller' = [caller EXCEPT ![c] = e] /\ UNCHANGED <<runtime, op, finished, work>>
            /\ caller[c].pc # "waiting"
        BY <4>1 DEF Invoke, runtimeVars
      <4>3. e.pc # "waiting"
        BY ReplyIsAnswered DEF Idle
      <4> QED
        BY <4>2, <4>3
    <3> QED
      BY <1>2, <3>1, <3>2, <3>3, <3>4
  <2> QED
    BY <1>1, <2>1
<1>3. ASSUME NEW c \in Caller,
             \/ \E k \in Key : Status(c, k) \/ \E r \in Request : Invoke(c, k, r)
             \/ EnterGate(c) \/ StatusFromLedger(c)
      PROVE  /\ Books'
             /\ \A d \in Caller : caller[d].pc = "waiting" => caller'[d].pc # "answered"
  BY <1>2, <1>3, BooksFrame
<1>4. ASSUME NEW c \in Caller, NEW i, caller[c].pc # "waiting", AttachTo(c, i)
      PROVE  \A d \in Caller : caller[d].pc = "waiting" => caller'[d].pc # "answered"
  <2>1. \E e : caller' = [caller EXCEPT ![c] = e]
    BY <1>1, <1>4 DEF AttachTo
  <2> QED
    BY <1>1, <1>4, <2>1
<1>5. ASSUME NEW c \in Caller, Attach(c)
      PROVE  /\ Books'
             /\ \A d \in Caller : caller[d].pc = "waiting" => caller'[d].pc # "answered"
  <2>1. caller[c].pc = "attach" /\ UNCHANGED <<runtime, finished, work>>
        /\ caller[c].key \in Key
    BY <1>5 DEF Attach, CallsAreBound
  <2>2. CASE runtime[caller[c].key] = None
    <3>1. UNCHANGED op /\ caller' = [caller EXCEPT ![c] = [caller[c] EXCEPT !.pc = "gate"]]
      BY <1>1, <1>5, <2>2 DEF Attach
    <3>2. [caller[c] EXCEPT !.pc = "gate"].pc = "gate"
      BY <1>1 DEF Callers
    <3>3. \A d \in Caller : \/ caller'[d] = caller[d]
                            \/ caller[d].pc # "waiting" /\ caller'[d].pc # "waiting"
      <4> DEFINE e == [caller[c] EXCEPT !.pc = "gate"]
      <4>1. caller' = [caller EXCEPT ![c] = e] /\ e.pc = "gate"
        BY <3>1, <3>2
      <4> HIDE DEF e
      <4>2. caller'[c].pc = "gate" /\ \A d \in Caller \ {c} : caller'[d] = caller[d]
        BY <4>1, OneCall
      <4>3. caller[c].pc = "attach"
        BY <2>1
      <4> QED
        BY <4>2, <4>3
    <3>4. \A d \in Caller : caller[d].pc = "waiting" => caller'[d].pc # "answered"
      BY <1>1, <3>1, <3>2
    <3> QED
      BY <2>1, <3>1, <3>3, <3>4, BooksFrame
  <2>3. CASE runtime[caller[c].key] # None
    <3>1. AttachTo(c, runtime[caller[c].key])
      BY <1>5, <2>3 DEF Attach
    <3> QED
      BY <1>4, <2>1, <2>3, <3>1, AttachBooks
  <2> QED
    BY <2>2, <2>3
<1>6. ASSUME NEW c \in Caller, Register(c)
      PROVE  /\ Books'
             /\ \A d \in Caller : caller[d].pc = "waiting" => caller'[d].pc # "answered"
  <2>1. caller[c].pc = "gated"
    BY <1>6 DEF Register
  <2>2. AttachTo(c, runtime[caller[c].key]) \/ \E e : caller' = [caller EXCEPT ![c] = e]
    BY <1>1, <1>6 DEF Register
  <2> QED
    BY <1>1, <1>4, <1>6, <2>1, <2>2, RegisterBooks
<1>7. ASSUME NEW c \in Caller, Abandon(c)
      PROVE  /\ Books'
             /\ \A d \in Caller : caller[d].pc = "waiting" => caller'[d].pc # "answered"
  <2>1. caller' = [caller EXCEPT ![c] = Idle]
    BY <1>7 DEF Abandon
  <2> QED
    BY <1>1, <1>7, <2>1, AbandonBooks DEF Idle
<1>8. CASE CleanupRuntime
  <2>1. PICK n \in 1..Len(finished) :
          /\ runtime' = WithoutOldest(n)
          /\ finished' = SubSeq(finished, n + 1, Len(finished))
          /\ op' = Collected(op, WithoutOldest(n), work)
    BY <1>8 DEF CleanupRuntime
  <2>2. n \in 0..Len(finished) /\ UNCHANGED <<work, caller>>
    BY <1>8 DEF CleanupRuntime
  <2>3. Books'
    BY <2>1, <2>2, DropBooks
  <2> QED
    BY <2>2, <2>3
<1>9. CASE \/ StopAccepting \/ PassGate \/ Drain \/ ResumeAfterShutdown
           \/ \E k \in Key : ExpireEvidence(k)
  <2>1. UNCHANGED <<runtime, op, finished, work, caller>>
    BY <1>9 DEF StopAccepting, PassGate, Drain, ResumeAfterShutdown, ExitVars,
                ExpireEvidence, runtimeVars
  <2> QED
    BY <2>1, BooksFrame
<1>10. CASE Crash
  <2>1. /\ runtime' = [k \in Key |-> None] /\ op' = [i \in Slot |-> NoOperation]
        /\ finished' = <<>> /\ work' = [i \in Slot |-> "none"]
        /\ caller' = [c \in Caller |-> Idle]
    BY <1>10 DEF Crash
  <2>2. Books'
    BY <2>1 DEF Books, RegistryIsConsistent, WorkIsRegistered, WaitersAreRegistered,
                NoOperation, Idle
  <2> QED
    BY <2>1, <2>2 DEF Idle
<1> QED
  BY <1>3, <1>5, <1>6, <1>7, <1>8, <1>9, <1>10 DEF Next, CallerStep

-----------------------------------------------------------------------------
\* The counter, the gate and the verdicts.

\* The counter follows the supervisors: one more, one less, or none.
LEMMA CounterStep ==
  ASSUME TypeOK, CallsAreBound, CounterIsExact, Next
  PROVE  CounterIsExact'
<1> DEFINE Live == {i \in Slot : work[i] # "none"}
<1>1. IsFiniteSet(Live) /\ active = Cardinality(Live) /\ work \in [Slot -> Program]
  <2>1. IsFiniteSet(Slot) /\ Live \subseteq Slot
    BY CoordinatorAssumption
  <2> QED
    BY <2>1, FS_Subset DEF CounterIsExact, TypeOK
<1>2. CASE UNCHANGED <<work, active>>
  BY <1>2 DEF CounterIsExact
<1>3. ASSUME NEW i \in Slot, work[i] = "none", work' = [work EXCEPT ![i] = "begin"],
             active' = active + 1
      PROVE  CounterIsExact'
  <2>1. Live' = Live \cup {i} /\ i \notin Live
    BY <1>1, <1>3
  <2> QED
    BY <1>1, <1>3, <2>1, FS_AddElement DEF CounterIsExact
<1>4. ASSUME NEW i \in Slot, EndSupervisor(i)
      PROVE  CounterIsExact'
  <2>1. Live' = Live \ {i} /\ i \in Live /\ active' = active - 1
    BY <1>1, <1>4 DEF EndSupervisor
  <2>2. Cardinality(Live \ {i}) = Cardinality(Live) - 1
    BY <1>1, <2>1, FS_RemoveElement
  <2> QED
    BY <1>1, <2>1, <2>2 DEF CounterIsExact
<1>5. ASSUME NEW i \in Slot, work[i] # "none", work'[i] # "none",
             \A j \in Slot \ {i} : work'[j] = work[j], UNCHANGED active
      PROVE  CounterIsExact'
  <2>1. Live' = Live
    BY <1>5
  <2> QED
    BY <1>1, <1>5, <2>1 DEF CounterIsExact
<1>6. ASSUME NEW c \in Caller, Register(c)
      PROVE  CounterIsExact'
  <2>1. \/ UNCHANGED <<work, active>>
        \/ \E i \in FreeSlots : work' = [work EXCEPT ![i] = "begin"] /\ active' = active + 1
    BY <1>6 DEF Register
  <2> QED
    BY <1>2, <1>3, <2>1 DEF FreeSlots, Referenced
<1>7. ASSUME NEW i \in Slot, WorkflowStep(i) \/ Panic(i), ~EndSupervisor(i)
      PROVE  CounterIsExact'
  <2>1. work[i] # "none" /\ UNCHANGED active
    BY <1>7 DEF WorkflowStep, BeginDurable, BeginFails, Execute, CompleteDurable,
                PublishCompleted, Reconcile, PublishReconciled, PublishRetryable, Panic
  <2>2. /\ \E s \in Program \ {"none"} : work' = [work EXCEPT ![i] = s]
    BY <1>7 DEF WorkflowStep, BeginDurable, BeginFails, Execute, CompleteDurable,
                PublishCompleted, Reconcile, PublishReconciled, PublishRetryable, Panic,
                Recorded, Program
  <2> QED
    BY <1>1, <1>5, <2>1, <2>2
<1>8. CASE Crash
  <2>1. Live' = {} /\ active' = 0
    BY <1>8 DEF Crash
  <2> QED
    BY <2>1, FS_EmptySet DEF CounterIsExact
<1>9. CASE ~(\E c \in Caller : Register(c)) /\ ~(\E i \in Slot : WorkflowStep(i) \/ Panic(i))
           /\ ~Crash
  <2>1. UNCHANGED <<work, active>>
    BY <1>9 DEF Next, CallerStep, Status, Invoke, EnterGate, Attach, StatusFromLedger,
                Abandon, CleanupRuntime, StopAccepting, PassGate, Drain,
                ResumeAfterShutdown, ExitVars, ExpireEvidence
  <2> QED
    BY <1>2, <2>1
<1> QED
  BY <1>4, <1>6, <1>7, <1>8, <1>9

\* A counter at zero means that no supervisor is left.
LEMMA NothingIsActive ==
  ASSUME CounterIsExact, active = 0
  PROVE  \A i \in Slot : work[i] = "none"
<1> DEFINE Live == {i \in Slot : work[i] # "none"}
<1>1. IsFiniteSet(Live)
  <2>1. IsFiniteSet(Slot) /\ Live \subseteq Slot
    BY CoordinatorAssumption
  <2> QED
    BY <2>1, FS_Subset
<1>2. Live = {}
  BY <1>1, FS_EmptySet DEF CounterIsExact
<1> QED
  BY <1>2

\* The gate is held by whoever is inside it, an exit that is past it has let
\* everyone out, and after a drain nothing becomes active.
LEMMA AdmissionStep ==
  ASSUME TypeOK, CallsAreBound, WorkIsBound, AdmissionIsClosed, Books, CounterIsExact, Next
  PROVE  AdmissionIsClosed'
<1>1. /\ caller \in [Caller -> Callers] /\ gate \in Caller \cup {None}
      /\ None \notin Caller
  BY CoordinatorAssumption DEF TypeOK
<1>2. ASSUME UNCHANGED <<accepting, exit, gate>>, exit = "drained" => active' = active,
             \A c \in Caller : caller'[c].pc = "gated" <=> caller[c].pc = "gated"
      PROVE  AdmissionIsClosed'
  BY <1>2 DEF AdmissionIsClosed
<1>3. ASSUME NEW c \in Caller, \E k \in Key : Status(c, k) \/ \E r \in Request : Invoke(c, k, r)
      PROVE  AdmissionIsClosed'
  <2>1. /\ UNCHANGED <<accepting, exit, gate, active>> /\ caller[c].pc # "gated"
        /\ \E e : caller' = [caller EXCEPT ![c] = e] /\ e.pc # "gated"
    <3>1. CASE \E k \in Key : Status(c, k)
      <4>1. PICK k \in Key : Status(c, k)
        BY <3>1
      <4> DEFINE e == IF runtime[k] = None THEN [Idle EXCEPT !.pc = "lookup", !.key = k]
                      ELSE Reply(Published(runtime[k]))
      <4>2. caller' = [caller EXCEPT ![c] = e] /\ UNCHANGED <<accepting, exit, gate, active>>
            /\ caller[c].pc # "gated"
        BY <4>1 DEF Status
      <4>3. e.pc # "gated"
        BY ReplyIsAnswered DEF Idle
      <4> QED
        BY <4>2, <4>3
    <3>2. CASE \E k \in Key, r \in Request : Invoke(c, k, r)
      <4>1. PICK k \in Key, r \in Request : Invoke(c, k, r)
        BY <3>2
      <4> DEFINE e == IF accepting
                      THEN [Idle EXCEPT !.pc = "attach", !.key = k, !.request = r]
                      ELSE Reply("stopping")
      <4>2. caller' = [caller EXCEPT ![c] = e] /\ UNCHANGED <<accepting, exit, gate, active>>
            /\ caller[c].pc # "gated"
        BY <4>1 DEF Invoke
      <4>3. e.pc # "gated"
        BY ReplyIsAnswered DEF Idle
      <4> QED
        BY <4>2, <4>3
    <3> QED
      BY <1>3, <3>1, <3>2
  <2>2. caller'[c].pc # "gated" /\ \A d \in Caller \ {c} : caller'[d] = caller[d]
    BY <2>1, OneCall
  <2> QED
    BY <1>2, <2>1, <2>2
<1>4. ASSUME NEW c \in Caller, EnterGate(c)
      PROVE  AdmissionIsClosed'
  <2>1. caller[c].pc = "gate" /\ gate = None /\ UNCHANGED <<accepting, exit, active>>
    BY <1>4 DEF EnterGate
  <2>2. CASE accepting
    <3>1. gate' = c /\ caller' = [caller EXCEPT ![c] = [caller[c] EXCEPT !.pc = "gated"]]
      BY <1>1, <1>4, <2>2 DEF EnterGate
    <3>2. caller'[c].pc = "gated" /\ \A d \in Caller \ {c} : caller'[d] = caller[d]
      BY <1>1, <3>1 DEF Callers
    <3> QED
      BY <1>1, <2>1, <2>2, <3>1, <3>2 DEF AdmissionIsClosed
  <2>3. CASE ~accepting
    <3>1. gate' = gate /\ caller' = [caller EXCEPT ![c] = Reply("stopping")]
      BY <1>4, <2>3 DEF EnterGate
    <3>2. caller'[c].pc # "gated" /\ \A d \in Caller \ {c} : caller'[d] = caller[d]
      BY <3>1, ReplyIsAnswered, OneCall
    <3> QED
      BY <1>2, <2>1, <3>1, <3>2
  <2> QED
    BY <2>2, <2>3
<1>5. ASSUME NEW c \in Caller, NEW i, AttachTo(c, i)
      PROVE  /\ caller'[c].pc # "gated" /\ \A d \in Caller \ {c} : caller'[d] = caller[d]
  <2>1. \/ caller' = [caller EXCEPT ![c] = [caller[c] EXCEPT !.pc = "waiting", !.of = i]]
        \/ \E a : caller' = [caller EXCEPT ![c] = Reply(a)]
    BY <1>1, <1>5 DEF AttachTo
  <2>2. [caller[c] EXCEPT !.pc = "waiting", !.of = i].pc # "gated"
    BY <1>1 DEF Callers
  <2> QED
    BY <2>1, <2>2, ReplyIsAnswered, OneCall
<1>6. ASSUME NEW c \in Caller, Attach(c)
      PROVE  AdmissionIsClosed'
  <2>1. caller[c].pc = "attach" /\ UNCHANGED <<accepting, exit, gate, active>>
    BY <1>6 DEF Attach
  <2>2. caller'[c].pc # "gated" /\ \A d \in Caller \ {c} : caller'[d] = caller[d]
    <3>1. CASE runtime[caller[c].key] = None
      <4>1. caller' = [caller EXCEPT ![c] = [caller[c] EXCEPT !.pc = "gate"]]
        BY <1>1, <1>6, <3>1 DEF Attach
      <4> QED
        BY <1>1, <4>1 DEF Callers
    <3> QED
      BY <1>5, <1>6, <3>1 DEF Attach
  <2> QED
    BY <1>2, <2>1, <2>2
<1>7. ASSUME NEW c \in Caller, Register(c)
      PROVE  AdmissionIsClosed'
  <2>1. caller[c].pc = "gated" /\ gate' = None /\ UNCHANGED <<accepting, exit>>
    BY <1>7 DEF Register
  <2>2. gate = c /\ exit \notin {"draining", "drained"}
    BY <1>1, <2>1 DEF AdmissionIsClosed
  <2>3. caller'[c].pc # "gated" /\ \A d \in Caller \ {c} : caller'[d] = caller[d]
    <3>1. \/ AttachTo(c, runtime[caller[c].key])
          \/ caller' = [caller EXCEPT ![c] = Reply("capacity")]
          \/ \E i \in Slot : caller' = [caller EXCEPT ![c].pc = "waiting", ![c].of = i]
      BY <1>7 DEF Register, FreeSlots
    <3>2. CASE \E i \in Slot : caller' = [caller EXCEPT ![c].pc = "waiting", ![c].of = i]
      <4>1. PICK i \in Slot :
              caller' = [caller EXCEPT ![c] = [caller[c] EXCEPT !.pc = "waiting", !.of = i]]
        BY <1>1, <3>2
      <4> QED
        BY <1>1, <4>1 DEF Callers
    <3> QED
      BY <1>5, <3>1, <3>2, ReplyIsAnswered, OneCall
  <2> QED
    BY <1>1, <2>1, <2>2, <2>3 DEF AdmissionIsClosed
<1>8. ASSUME NEW c \in Caller, StatusFromLedger(c)
      PROVE  AdmissionIsClosed'
  <2>1. /\ caller[c].pc = "lookup" /\ UNCHANGED <<accepting, exit, gate, active>>
        /\ \E a : caller' = [caller EXCEPT ![c] = Reply(a)]
    BY <1>8 DEF StatusFromLedger
  <2>2. caller'[c].pc # "gated" /\ \A d \in Caller \ {c} : caller'[d] = caller[d]
    BY <2>1, ReplyIsAnswered, OneCall
  <2> QED
    BY <1>2, <2>1, <2>2
<1>9. ASSUME NEW c \in Caller, Abandon(c)
      PROVE  AdmissionIsClosed'
  <2>1. /\ caller' = [caller EXCEPT ![c] = Idle] /\ gate' = IF gate = c THEN None ELSE gate
        /\ UNCHANGED <<accepting, exit, active>>
    BY <1>9 DEF Abandon
  <2>2. caller'[c] = Idle /\ \A d \in Caller \ {c} : caller'[d] = caller[d]
    BY <1>1, <2>1
  <2> QED
    BY <1>1, <2>1, <2>2 DEF AdmissionIsClosed, Idle
<1>10. ASSUME NEW i \in Slot, WorkflowStep(i) \/ Panic(i)
       PROVE  AdmissionIsClosed'
  <2>1. UNCHANGED <<accepting, exit, gate>>
    BY <1>10 DEF WorkflowStep, BeginDurable, BeginFails, Execute, CompleteDurable,
                 PublishCompleted, Reconcile, PublishReconciled, PublishRetryable,
                 EndSupervisor, Panic
  <2>2. \A c \in Caller : caller'[c].pc = "gated" <=> caller[c].pc = "gated"
    <3>1. Tells(i)
      BY <1>10, WorkflowBooks
    <3>2. \A c \in Caller : \/ caller'[c] = caller[c]
                            \/ caller[c].pc = "waiting" /\ caller'[c].pc = "answered"
      <4>1. ASSUME NEW c \in Caller, caller'[c] # caller[c]
            PROVE  caller[c].pc = "waiting" /\ caller'[c].pc = "answered"
        <5>1. PICK a \in Answers : caller'[c] = Reply(a)
          BY <3>1, <4>1 DEF Tells
        <5> QED
          BY <3>1, <4>1, <5>1, ReplyIsAnswered DEF Tells
      <4> QED
        BY <4>1
    <3> QED
      BY <3>2
  <2>3. work[i] # "none"
    BY <1>10 DEF WorkflowStep, BeginDurable, BeginFails, Execute, CompleteDurable,
                 PublishCompleted, Reconcile, PublishReconciled, PublishRetryable,
                 EndSupervisor, Panic
  <2>4. exit # "drained"
    BY <2>3, NothingIsActive DEF AdmissionIsClosed
  <2> QED
    BY <1>2, <2>1, <2>2, <2>4
<1>11. CASE CleanupRuntime \/ \E k \in Key : ExpireEvidence(k)
  <2>1. UNCHANGED <<accepting, exit, gate, active, caller>>
    BY <1>11 DEF CleanupRuntime, ExpireEvidence
  <2> QED
    BY <1>2, <2>1
<1>12. CASE StopAccepting \/ PassGate \/ Drain \/ ResumeAfterShutdown
  BY <1>1, <1>12 DEF StopAccepting, PassGate, Drain, ResumeAfterShutdown, ExitVars,
                     AdmissionIsClosed
<1>13. CASE Crash
  BY <1>1, <1>13 DEF Crash, Idle, AdmissionIsClosed
<1> QED
  BY <1>3, <1>4, <1>6, <1>7, <1>8, <1>9, <1>10, <1>11, <1>12, <1>13 DEF Next, CallerStep

\* Errors are only counted up.
Errs == faults'.errors \in Nat /\ faults'.errors >= faults.errors

\* What a supervisor reports stays true until it reports it: the evidence of
\* its key is written by its own workflow only.
LEMMA VerdictsStep ==
  ASSUME TypeOK, CallsAreBound, WorkIsBound, EvidencePrecedesExecution, Books,
         VerdictsAreCurrent, Next
  PROVE  VerdictsAreCurrent'
<1>1. /\ op \in [Slot -> Operations] /\ work \in [Slot -> Program]
      /\ evidence \in [Key -> Evidence \cup {None}] /\ faults.errors \in Nat
  BY DEF TypeOK
<1> DEFINE Verdict == {"publishDurable", "publishNotDurable", "completedWithoutResult",
                       "indeterminate", "unknown"}
<1>2. ASSUME UNCHANGED evidence, Errs,
             \A j \in Slot : work'[j] \in Verdict =>
               work'[j] = work[j] /\ op'[j].key = op[j].key
      PROVE  VerdictsAreCurrent'
  BY <1>1, <1>2 DEF VerdictsAreCurrent, IsCompleted, Errs
<1>3. ASSUME NEW i \in Slot, WorkflowStep(i) \/ Panic(i)
      PROVE  VerdictsAreCurrent'
  <2> DEFINE k == op[i].key
  <2>1. /\ \A j \in Slot \ {i} : work'[j] = work[j]
        /\ \A j \in Slot : work'[j] # "none" => op'[j].key = op[j].key
        /\ k \in Key /\ op[i].request \in Request
    BY <1>3, WorkflowType DEF WorkIsBound
  <2>2. \A j \in Slot \ {i} : work[i] \notin Over /\ work[j] \in Verdict => op[j].key # k
    BY OwnEntry DEF Over
  <2> Errs
    <3>1. \/ UNCHANGED faults \/ faults' = [faults EXCEPT !.errors = @ + 1]
          \/ faults' = [faults EXCEPT !.panics = @ + 1]
      BY <1>3 DEF WorkflowStep, BeginDurable, BeginFails, Execute, CompleteDurable,
         PublishCompleted, Reconcile, PublishReconciled, PublishRetryable, EndSupervisor, Panic
    <3>2. /\ faults \in [panics : 0..MaxPanics, errors : 0..MaxErrors, crashes : 0..MaxCrashes]
          /\ MaxErrors \in Nat
      BY CoordinatorAssumption DEF TypeOK
    <3> QED
      BY <3>1, <3>2 DEF Errs
  <2>3. ASSUME UNCHANGED evidence,
               work'[i] \notin Verdict \/ (work'[i] = "publishNotDurable" /\ evidence[k] # None)
        PROVE  VerdictsAreCurrent'
    BY <1>1, <1>2, <2>1, <2>3 DEF VerdictsAreCurrent, IsCompleted, Errs
  <2>4. ASSUME work[i] \notin Over, NEW e, evidence' = [evidence EXCEPT ![k] = e],
               \/ work'[i] \notin Verdict
               \/ /\ work'[i] \in {"publishDurable", "publishNotDurable"}
                  /\ e # None /\ e.state = "completed"
        PROVE  VerdictsAreCurrent'
    <3>1. ASSUME NEW j \in Slot, work'[j] \in Verdict
          PROVE  LET x == op'[j].key
                 IN /\ work'[j] \in {"publishDurable", "completedWithoutResult"} =>
                         evidence'[x] # None /\ evidence'[x].state = "completed"
                    /\ work'[j] = "publishNotDurable" => evidence'[x] # None
                    /\ work'[j] = "indeterminate" => evidence'[x] # None \/ faults'.errors > 0
                    /\ work'[j] = "unknown" => evidence'[x] = None
      <4>1. CASE j = i
        BY <1>1, <2>1, <2>4, <3>1, <4>1
      <4>2. CASE j # i
        <5>1. work'[j] = work[j] /\ op'[j].key = op[j].key /\ op[j].key # k
          BY <2>1, <2>2, <2>4, <3>1, <4>2
        <5>2. evidence'[op[j].key] = evidence[op[j].key]
          BY <1>1, <2>1, <2>4, <3>1, <5>1 DEF WorkIsBound
        <5> QED
          BY <1>1, <3>1, <5>1, <5>2 DEF VerdictsAreCurrent, IsCompleted, Errs
      <4> QED
        BY <4>1, <4>2
    <3> QED
      BY <3>1 DEF VerdictsAreCurrent, IsCompleted
  <2>5. CASE BeginDurable(i) \/ BeginFails(i)
    <3>1. work[i] = "begin"
      BY <2>5 DEF BeginDurable, BeginFails
    <3>2. /\ \/ UNCHANGED evidence
             \/ \E e : evidence' = [evidence EXCEPT ![k] = e]
          /\ work'[i] \in {"execute", "returned"}
      BY <1>1, <2>5 DEF BeginDurable, BeginFails
    <3> QED
      BY <2>3, <2>4, <3>1, <3>2 DEF Over
  <2>6. CASE CompleteDurable(i)
    <3> DEFINE done == [request |-> op[i].request, state |-> "completed"]
    <3>1. done # None /\ done.state = "completed"
      BY <2>1, CoordinatorAssumption
    <3>2. work[i] = "finish"
      BY <2>6 DEF CompleteDurable
    <3>3. \/ evidence' = [evidence EXCEPT ![k] = done] /\ work'[i] = "publishDurable"
          \/ /\ work'[i] = "publishNotDurable"
             /\ UNCHANGED evidence \/ evidence' = [evidence EXCEPT ![k] = done]
      BY <1>1, <2>6 DEF CompleteDurable
    <3>4. evidence[k] # None
      BY <3>2 DEF EvidencePrecedesExecution
    <3> HIDE DEF done
    <3> QED
      BY <2>3, <2>4, <3>1, <3>2, <3>3, <3>4 DEF Over
  <2>7. CASE Reconcile(i)
    <3>1. /\ UNCHANGED evidence
          /\ \/ work'[i] = Recorded(k)
             \/ work'[i] = "indeterminate" /\ faults'.errors > 0
      BY <1>1, <2>7 DEF Reconcile, ledgerVars, TypeOK
    <3>2. /\ Recorded(k) \notin {"publishDurable", "publishNotDurable"}
          /\ Recorded(k) = "unknown" => evidence[k] = None
          /\ Recorded(k) = "indeterminate" => evidence[k] # None
          /\ Recorded(k) = "completedWithoutResult" => IsCompleted(k)
      BY <1>1, <2>1 DEF Recorded, Evidence, IsCompleted
    <3>3. work'[i] \in Verdict => op'[i].key = k
      BY <2>1
    <3> QED
      BY <1>1, <2>1, <3>1, <3>2, <3>3 DEF VerdictsAreCurrent, IsCompleted, Errs
  <2>8. CASE \/ Execute(i) \/ Panic(i) \/ PublishCompleted(i) \/ PublishReconciled(i)
             \/ PublishRetryable(i) \/ EndSupervisor(i)
    <3>1. UNCHANGED evidence /\ work'[i] \notin Verdict
      BY <1>1, <2>8 DEF Execute, Panic, PublishCompleted, PublishReconciled,
                       PublishRetryable, EndSupervisor, ledgerVars
    <3> QED
      BY <2>3, <3>1
  <2> QED
    BY <1>3, <2>5, <2>6, <2>7, <2>8 DEF WorkflowStep
<1>4. ASSUME NEW c \in Caller, Register(c)
      PROVE  VerdictsAreCurrent'
  <2>1. UNCHANGED evidence /\ Errs
    BY <1>1, <1>4 DEF Register, ledgerVars, Errs
  <2>2. \A j \in Slot : work'[j] \in Verdict => work'[j] = work[j] /\ op'[j].key = op[j].key
    BY <1>4, RegisterType
  <2> QED
    BY <1>2, <2>1, <2>2
<1>5. ASSUME NEW c \in Caller,
             \/ \E k \in Key : Status(c, k) \/ \E r \in Request : Invoke(c, k, r)
             \/ EnterGate(c) \/ Attach(c) \/ StatusFromLedger(c) \/ Abandon(c)
      PROVE  VerdictsAreCurrent'
  <2>1. UNCHANGED <<evidence, work, faults>>
    BY <1>5 DEF Status, Invoke, EnterGate, Attach, StatusFromLedger, Abandon, ledgerVars
  <2>2. \A j \in Slot : op'[j].key = op[j].key
    <3>1. CASE Attach(c) /\ runtime[caller[c].key] # None
      BY <3>1, RegisteredTypes, AttachToType DEF Attach, CallsAreBound
    <3>2. CASE Abandon(c)
      BY <1>1, <3>2 DEF Abandon, Operations
    <3> QED
      BY <1>5, <3>1, <3>2 DEF Status, Invoke, EnterGate, Attach, StatusFromLedger, runtimeVars
  <2> QED
    BY <1>1, <1>2, <2>1, <2>2 DEF Errs
<1>6. CASE CleanupRuntime \/ StopAccepting \/ PassGate \/ Drain \/ ResumeAfterShutdown
  <2>1. Errs
    BY <1>1, <1>6 DEF CleanupRuntime, StopAccepting, PassGate, Drain, ResumeAfterShutdown,
                      ExitVars, Errs
  <2> QED
    BY <1>2, <1>6, <2>1, ExitType
<1>7. ASSUME NEW k \in Key, ExpireEvidence(k)
      PROVE  VerdictsAreCurrent'
  <2>1. /\ evidence' = [evidence EXCEPT ![k] = None] /\ UNCHANGED <<op, work, faults>>
        /\ \A i \in Slot : work[i] # "none" => op[i].key # k
    BY <1>7 DEF ExpireEvidence, runtimeVars
  <2> QED
    BY <1>1, <2>1 DEF VerdictsAreCurrent, IsCompleted, WorkIsBound
<1>8. CASE Crash
  BY <1>8 DEF Crash, VerdictsAreCurrent
<1> QED
  BY <1>3, <1>4, <1>5, <1>6, <1>7, <1>8 DEF Next, CallerStep

\* What must hold of the evidence when the runtime map has a durable result.
Stands(k) == evidence[k] = None \/ IsCompleted(k)

IsDurable(i) == op[i].state = "completed" /\ op[i].durable

\* A durable result stays one: its evidence ends with its retention only, for
\* nobody else writes evidence of a key that is in the runtime map.
LEMMA ResultsStep ==
  ASSUME TypeOK, CallsAreBound, WorkIsBound, Books, VerdictsAreCurrent, ResultsAreCurrent,
         Next
  PROVE  ResultsAreCurrent'
<1>1. /\ op \in [Slot -> Operations] /\ work \in [Slot -> Program]
      /\ runtime \in [Key -> Slot \cup {None}]
      /\ evidence \in [Key -> Evidence \cup {None}]
  BY DEF TypeOK
<1>2. \A k \in Key : runtime[k] # None /\ IsDurable(runtime[k]) => Stands(k)
  BY DEF ResultsAreCurrent, Published, IsDurable, Stands
<1>3. ASSUME \A k \in Key : runtime'[k] # None /\ IsDurable(runtime[k])' => Stands(k)'
      PROVE  ResultsAreCurrent'
  BY <1>3 DEF ResultsAreCurrent, Published, IsDurable, Stands
<1> DEFINE Same(k) == /\ runtime'[k] = runtime[k]
                      /\ op'[runtime[k]].state = op[runtime[k]].state
                      /\ op'[runtime[k]].durable = op[runtime[k]].durable
<1>4. ASSUME NEW k \in Key, runtime'[k] = None \/ Same(k),
             evidence'[k] = evidence[k] \/ evidence'[k] = None
      PROVE  runtime'[k] # None /\ IsDurable(runtime[k])' => Stands(k)'
  BY <1>2, <1>4 DEF IsDurable, Stands, IsCompleted
<1>5. ASSUME NEW i \in Slot, WorkflowStep(i) \/ Panic(i)
      PROVE  ResultsAreCurrent'
  <2>1. PICK k \in Key : /\ k = op[i].key
                         /\ \A x \in Key : runtime[x] # None => runtime[x] \in Slot /\ op[runtime[x]].key = x
    BY <1>1, <1>5, WorkflowType DEF WorkIsBound, Books, RegistryIsConsistent
  <2>2. ASSUME work[i] \notin Over, NEW e, evidence' = [evidence EXCEPT ![k] = e],
               runtime' = runtime,
               \/ op' = op
               \/ \E state : \E durable \in BOOLEAN :
                    /\ op' = [op EXCEPT ![i] = [op[i] EXCEPT !.state = state, !.durable = durable,
                                                              !.waiters = {}]]
                    /\ state = "completed" /\ durable => IsCompleted(k) /\ e = evidence[k]
        PROVE  ResultsAreCurrent'
    <3>1. runtime[k] = i /\ op[i].state = "pending" /\ i # None
      BY <2>1, <2>2, OwnEntry
    <3>2. ASSUME NEW x \in Key \ {k}
          PROVE  runtime'[x] # None /\ IsDurable(runtime[x])' => Stands(x)'
      <4>1. evidence'[x] = evidence[x] /\ runtime'[x] = runtime[x]
        BY <1>1, <2>2
      <4>2. runtime[x] = None \/ op'[runtime[x]] = op[runtime[x]]
        BY <1>1, <2>1, <2>2
      <4> QED
        BY <1>4, <4>1, <4>2
    <3>3. IsDurable(runtime[k])' => Stands(k)'
      <4>1. CASE op' = op
        BY <2>2, <3>1, <4>1 DEF IsDurable
      <4>2. CASE op' # op
        <5>4. PICK state : \E durable \in BOOLEAN :
                /\ op' = [op EXCEPT ![i] = [op[i] EXCEPT !.state = state, !.durable = durable,
                                                          !.waiters = {}]]
                /\ state = "completed" /\ durable => IsCompleted(k) /\ e = evidence[k]
          BY <2>2, <4>2
        <5>1. PICK durable \in BOOLEAN :
                /\ op' = [op EXCEPT ![i] = [op[i] EXCEPT !.state = state, !.durable = durable,
                                                          !.waiters = {}]]
                /\ state = "completed" /\ durable => IsCompleted(k) /\ e = evidence[k]
          BY <5>4
        <5>2. op'[i].state = state /\ op'[i].durable = durable
          BY <1>1, <5>1 DEF Operations
        <5>3. evidence'[k] = e
          BY <1>1, <2>1, <2>2
        <5> QED
          BY <2>2, <3>1, <5>1, <5>2, <5>3 DEF IsDurable, Stands, IsCompleted
      <4> QED
        BY <4>1, <4>2
    <3> QED
      BY <1>3, <3>2, <3>3
  <2>3. evidence = [evidence EXCEPT ![k] = evidence[k]]
    BY <1>1, <2>1
  <2>4. ASSUME work[i] \notin Over, NEW state, NEW durable \in BOOLEAN, NEW answer,
               Publish(k, state, durable, answer), UNCHANGED runtime,
               state = "completed" /\ durable => IsCompleted(k) /\ UNCHANGED evidence,
               UNCHANGED evidence \/ \E e : evidence' = [evidence EXCEPT ![k] = e]
        PROVE  ResultsAreCurrent'
    <3>1. runtime[k] = i /\ op[i].state = "pending" /\ i # None
      BY <2>1, <2>4, OwnEntry
    <3>2. op' = [op EXCEPT ![i] = [op[i] EXCEPT !.state = state, !.durable = durable,
                                                !.waiters = {}]]
      BY <1>1, <2>4, <3>1 DEF Publish, Operations
    <3>3. PICK e : evidence' = [evidence EXCEPT ![k] = e] /\ (UNCHANGED evidence => e = evidence[k])
      <4>1. CASE UNCHANGED evidence
        BY <2>3, <4>1
      <4>2. CASE ~UNCHANGED evidence
        BY <2>4, <4>2
      <4> QED
        BY <4>1, <4>2
    <3>4. \E st : \E du \in BOOLEAN :
            /\ op' = [op EXCEPT ![i] = [op[i] EXCEPT !.state = st, !.durable = du,
                                                     !.waiters = {}]]
            /\ st = "completed" /\ du => IsCompleted(k) /\ e = evidence[k]
      BY <2>4, <3>2, <3>3
    <3> QED
      BY <2>2, <2>4, <3>3, <3>4
  <2>5. CASE BeginDurable(i)
    <3>1. CASE evidence[k] = None
      <4>1. PICK e : evidence' = [evidence EXCEPT ![k] = e]
        BY <2>1, <2>5, <3>1 DEF BeginDurable
      <4> QED
        BY <2>1, <2>2, <2>5, <3>1, <4>1 DEF BeginDurable, Over
    <3>2. CASE evidence[k] # None
      <4> DEFINE a == IF evidence[k].request = op[i].request THEN Recorded(k) ELSE "failed"
      <4>1. Publish(k, a, FALSE, a) /\ UNCHANGED <<evidence, runtime>> /\ work[i] \notin Over
        BY <2>1, <2>5, <3>2 DEF BeginDurable, Over
      <4> HIDE DEF a
      <4> QED
        BY <2>4, <4>1
    <3> QED
      BY <3>1, <3>2
  <2>6. CASE BeginFails(i)
    <3>1. /\ Publish(k, "failed", FALSE, "failed") /\ UNCHANGED runtime
          /\ work[i] \notin Over
          /\ UNCHANGED evidence \/ \E e : evidence' = [evidence EXCEPT ![k] = e]
      BY <2>1, <2>6 DEF BeginFails, Over
    <3> QED
      BY <2>4, <3>1
  <2>7. CASE CompleteDurable(i)
    <3>1. /\ UNCHANGED <<runtime, op>> /\ work[i] \notin Over
          /\ UNCHANGED evidence \/ \E e : evidence' = [evidence EXCEPT ![k] = e]
      BY <2>1, <2>7 DEF CompleteDurable, Over, runtimeVars
    <3> QED
      BY <2>2, <2>3, <3>1
  <2>8. CASE PublishCompleted(i)
    <3>1. PICK state \in {"completed", "withoutResult"} :
            Publish(k, state, work[i] = "publishDurable",
                    IF work[i] = "publishDurable" THEN "completed" ELSE "notDurable")
      BY <2>1, <2>8 DEF PublishCompleted
    <3> DEFINE a == IF work[i] = "publishDurable" THEN "completed" ELSE "notDurable"
               d == work[i] = "publishDurable"
    <3>2. /\ work[i] \notin Over /\ UNCHANGED <<runtime, evidence>>
          /\ d => IsCompleted(k)
          /\ d \in BOOLEAN
      BY <2>1, <2>8 DEF PublishCompleted, Over, ledgerVars, VerdictsAreCurrent
    <3>3. Publish(k, state, d, a)
      BY <3>1
    <3> HIDE DEF a, d
    <3> QED
      BY <2>4, <3>2, <3>3
  <2>9. CASE PublishReconciled(i)
    <3>1. /\ Publish(k, work[i], FALSE, work[i]) /\ UNCHANGED <<runtime, evidence>>
          /\ work[i] \notin Over
      BY <2>1, <2>9 DEF PublishReconciled, ledgerVars, Over
    <3> QED
      BY <2>4, <3>1
  <2>10. CASE Execute(i) \/ Panic(i) \/ Reconcile(i)
    <3>1. UNCHANGED <<runtime, op, evidence>> /\ work[i] \notin Over
      BY <2>10 DEF Execute, Panic, Reconcile, runtimeVars, ledgerVars, Over
    <3> QED
      BY <2>2, <2>3, <3>1
  <2>11. CASE PublishRetryable(i)
    <3>1. runtime[k] = i /\ op[i].state = "pending" /\ i # None
      BY <2>1, <2>11, OwnEntry DEF PublishRetryable, Over
    <3>2. /\ op' = [op EXCEPT ![i] = [op[i] EXCEPT !.state = "failed", !.waiters = {}]]
          /\ runtime' = [runtime EXCEPT ![k] = None] /\ UNCHANGED evidence
      <4>1. runtime[op[i].key] = i /\ op[i].state = "pending" /\ i # None
        BY <2>1, <3>1
      <4>2. /\ op' = [op EXCEPT ![i] = [op[i] EXCEPT !.state = "failed", !.waiters = {}]]
            /\ runtime' = [runtime EXCEPT ![op[i].key] = None] /\ UNCHANGED evidence
        BY <1>1, <2>11, <4>1 DEF PublishRetryable, ledgerVars
      <4> QED
        BY <2>1, <4>2
    <3>3. ASSUME NEW x \in Key
          PROVE  runtime'[x] # None /\ IsDurable(runtime[x])' => Stands(x)'
      <4>1. CASE x = k
        BY <1>1, <3>2, <4>1
      <4>2. CASE x # k
        <5>1. runtime'[x] = runtime[x] /\ evidence'[x] = evidence[x]
          BY <1>1, <3>2, <4>2
        <5>2. runtime[x] = None \/ op'[runtime[x]] = op[runtime[x]]
          BY <1>1, <2>1, <3>2, <4>2
        <5> QED
          BY <1>4, <5>1, <5>2
      <4> QED
        BY <4>1, <4>2
    <3> QED
      BY <1>3, <3>3
  <2>12. CASE EndSupervisor(i)
    <3>1. op' = Collected(op, runtime, [work EXCEPT ![i] = "none"])
          /\ UNCHANGED <<runtime, evidence>>
      BY <2>12 DEF EndSupervisor, ledgerVars
    <3>2. \A x \in Key : runtime[x] # None => op'[runtime[x]] = op[runtime[x]]
      BY <2>1, <3>1 DEF Collected, Referenced
    <3> QED
      BY <1>3, <1>4, <3>1, <3>2
  <2> QED
    BY <1>5, <2>5, <2>6, <2>7, <2>8, <2>9, <2>10, <2>11, <2>12 DEF WorkflowStep
<1>6. ASSUME NEW c \in Caller, NEW i \in Slot, AttachTo(c, i)
      PROVE  \A j \in Slot : op'[j].state = op[j].state /\ op'[j].durable = op[j].durable
  BY <1>1, <1>6 DEF AttachTo, Operations
<1>7. \A k \in Key : runtime[k] # None => runtime[k] \in Slot
  BY RegisteredTypes
<1>8. ASSUME NEW n \in 0..Len(finished), NEW map, NEW kept,
             map = WithoutOldest(n), kept = Collected(op, map, work)
      PROVE  \A k \in Key : map[k] # None => map[k] = runtime[k] /\ kept[map[k]] = op[map[k]]
  <2>1. Left(map, kept, SubSeq(finished, n + 1, Len(finished)))
    BY <1>8, DroppedBooks
  <2> QED
    BY <2>1 DEF Left
<1>9. ASSUME NEW c \in Caller, Register(c)
      PROVE  ResultsAreCurrent'
  <2>1. PICK k \in Key : k = caller[c].key /\ UNCHANGED evidence
    BY <1>9 DEF Register, CallsAreBound, ledgerVars
  <2>2. CASE runtime[k] # None
    <3>1. AttachTo(c, runtime[k]) /\ UNCHANGED runtime
      BY <2>1, <1>9, <2>2 DEF Register
    <3> QED
      BY <1>3, <1>4, <1>6, <1>7, <2>1, <2>2, <3>1
  <2>3. CASE runtime[k] = None
    <3>1. PICK n \in 0..Len(finished) :
            \/ /\ runtime' = WithoutOldest(n)
               /\ op' = Collected(op, WithoutOldest(n), work)
            \/ \E i \in FreeSlots :
                 /\ op' = [Collected(op, WithoutOldest(n), work) EXCEPT ![i] =
                             [key |-> k, request |-> caller[c].request,
                              state |-> "pending", durable |-> FALSE,
                              waiters |-> {c}]]
                 /\ runtime' = [WithoutOldest(n) EXCEPT ![k] = i]
      BY <2>1, <1>9, <2>3 DEF Register
    <3> DEFINE map == WithoutOldest(n)
               kept == Collected(op, map, work)
    <3>2. /\ map \in [Key -> Slot \cup {None}] /\ kept \in [Slot -> Operations]
          /\ \A x \in Key : map[x] # None => map[x] = runtime[x] /\ kept[map[x]] = op[map[x]]
      BY <1>1, <1>8, DroppedType, CollectedType
    <3>3. CASE runtime' = map /\ op' = kept
      <4> HIDE DEF map, kept
      <4>1. ASSUME NEW x \in Key
            PROVE  runtime'[x] = None \/ Same(x)
        BY <3>2, <3>3
      <4> QED
        BY <1>3, <1>4, <2>1, <4>1
    <3>4. ASSUME NEW i \in FreeSlots, NEW new, new.state = "pending",
                 op' = [kept EXCEPT ![i] = new], runtime' = [map EXCEPT ![k] = i]
          PROVE  ResultsAreCurrent'
      <4>1. i \in Slot /\ \A x \in Key : runtime[x] # i
        BY DEF FreeSlots, Referenced
      <4> HIDE DEF map, kept
      <4>2. /\ op'[i].state = "pending" /\ runtime'[k] = i
            /\ \A j \in Slot \ {i} : op'[j] = kept[j]
            /\ \A x \in Key \ {k} : runtime'[x] = map[x]
        BY <2>1, <3>2, <3>4, <4>1
      <4>3. ASSUME NEW x \in Key \ {k}
            PROVE  runtime'[x] = None \/ Same(x)
        BY <1>7, <3>2, <4>1, <4>2
      <4>4. ~IsDurable(runtime[k])'
        BY <4>2 DEF IsDurable
      <4> QED
        BY <1>3, <1>4, <2>1, <4>3, <4>4
    <3>5. [key |-> k, request |-> caller[c].request, state |-> "pending", durable |-> FALSE,
           waiters |-> {c}].state = "pending"
      OBVIOUS
    <3> QED
      BY <3>1, <3>3, <3>4, <3>5
  <2> QED
    BY <2>2, <2>3
<1>10. ASSUME NEW c \in Caller,
             \/ \E k \in Key : Status(c, k) \/ \E r \in Request : Invoke(c, k, r)
             \/ EnterGate(c) \/ Attach(c) \/ StatusFromLedger(c) \/ Abandon(c)
      PROVE  ResultsAreCurrent'
  <2>1. UNCHANGED <<evidence, runtime>>
    BY <1>10 DEF Status, Invoke, EnterGate, Attach, StatusFromLedger, Abandon, ledgerVars,
                 runtimeVars
  <2>2. \A j \in Slot : op'[j].state = op[j].state /\ op'[j].durable = op[j].durable
    <3>1. CASE Attach(c) /\ runtime[caller[c].key] # None
      BY <1>6, <1>7, <3>1 DEF Attach, CallsAreBound
    <3>2. CASE Abandon(c)
      BY <1>1, <3>2 DEF Abandon, Operations
    <3> QED
      BY <1>10, <3>1, <3>2 DEF Status, Invoke, EnterGate, Attach, StatusFromLedger, runtimeVars
  <2> QED
    BY <1>3, <1>4, <1>7, <2>1, <2>2
<1>11. CASE CleanupRuntime
  <2>1. PICK n \in 0..Len(finished) :
          runtime' = WithoutOldest(n) /\ op' = Collected(op, runtime', work)
    BY <1>11 DEF CleanupRuntime
  <2>2. \A k \in Key : runtime'[k] # None => runtime'[k] = runtime[k] /\ op'[runtime'[k]] = op[runtime'[k]]
    BY <1>8, <2>1
  <2>3. UNCHANGED evidence
    BY <1>11 DEF CleanupRuntime, ledgerVars
  <2> QED
    BY <1>3, <1>4, <2>2, <2>3
<1>12. CASE StopAccepting \/ PassGate \/ Drain \/ ResumeAfterShutdown
  <2>1. UNCHANGED <<runtime, op, evidence>>
    BY <1>12 DEF StopAccepting, PassGate, Drain, ResumeAfterShutdown, ExitVars, runtimeVars,
                 ledgerVars
  <2> QED
    BY <1>3, <1>4, <2>1
<1>13. ASSUME NEW k \in Key, ExpireEvidence(k)
      PROVE  ResultsAreCurrent'
  <2>1. /\ UNCHANGED <<runtime, op>>
        /\ \A x \in Key : evidence'[x] = evidence[x] \/ evidence'[x] = None
    BY <1>1, <1>13 DEF ExpireEvidence, runtimeVars
  <2> QED
    BY <1>3, <1>4, <2>1
<1>14. CASE Crash
  BY <1>14 DEF Crash, ResultsAreCurrent
<1> QED
  BY <1>5, <1>9, <1>10, <1>11, <1>12, <1>13, <1>14 DEF Next, CallerStep

-----------------------------------------------------------------------------
\* The theorems.

\* The books are consistent when the process starts ...
LEMMA InitService == Init => ServiceInv
<1> SUFFICES ASSUME Init PROVE ServiceInv
  OBVIOUS
<1>1. IInv
  BY InitInv
<1>2. RegistryIsConsistent /\ WorkIsRegistered /\ WaitersAreRegistered
  BY DEF Init, RegistryIsConsistent, WorkIsRegistered, WaitersAreRegistered,
         NoOperation, Idle
<1>3. CounterIsExact
  <2>1. {i \in Slot : work[i] # "none"} = {}
    BY DEF Init
  <2> QED
    BY <2>1, FS_EmptySet DEF Init, CounterIsExact
<1>4. AdmissionIsClosed /\ VerdictsAreCurrent /\ ResultsAreCurrent
  BY CoordinatorAssumption DEF Init, AdmissionIsClosed, VerdictsAreCurrent, ResultsAreCurrent,
                               Idle
<1> QED
  BY <1>1, <1>2, <1>3, <1>4 DEF ServiceInv

\* ... and after every step.
LEMMA NextService == ServiceInv /\ [Next]_vars => ServiceInv'
<1> SUFFICES ASSUME ServiceInv, [Next]_vars PROVE ServiceInv'
  OBVIOUS
<1>1. /\ IInv /\ TypeOK /\ CallsAreBound /\ WorkIsBound /\ EvidencePrecedesExecution
      /\ Books /\ CounterIsExact /\ AdmissionIsClosed /\ VerdictsAreCurrent
      /\ ResultsAreCurrent
  BY DEF ServiceInv, IInv, Books
<1>2. CASE Next
  <2>1. Books'
    BY <1>1, <1>2, WorkflowBooks, OtherBooks
  <2>2. /\ IInv' /\ CounterIsExact' /\ AdmissionIsClosed' /\ VerdictsAreCurrent'
        /\ ResultsAreCurrent'
    BY <1>1, <1>2, NextInv, CounterStep, AdmissionStep, VerdictsStep, ResultsStep
  <2> QED
    BY <2>1, <2>2 DEF ServiceInv, Books
<1>3. CASE UNCHANGED vars
  <2>1. IInv'
    BY <1>1, <1>3, NextInv
  <2> QED
    BY <1>3, <2>1 DEF vars, runtimeVars, ledgerVars, ServiceInv, RegistryIsConsistent,
       WorkIsRegistered, WaitersAreRegistered, CounterIsExact, AdmissionIsClosed,
       VerdictsAreCurrent, ResultsAreCurrent, IsCompleted, Published
<1> QED
  BY <1>2, <1>3

\* The books are consistent in every reachable state.
LEMMA ServiceInvariance == Spec => []ServiceInv
  BY InitService, NextService, PTL DEF Spec

\* Whoever waits, waits for a pending operation with the key and request it
\* asked for, and every pending operation is registered and worked on.
THEOREM WaitersServed == Spec => []WaitersAreServed
<1>1. ServiceInv => WaitersAreServed
  BY DEF ServiceInv, WorkIsRegistered, WaitersAreRegistered, WaitersAreServed
<1> QED
  BY ServiceInvariance, <1>1, PTL

\* When the drain of an orderly exit has returned, nothing touches the ledger
\* or a native component until the coordinator is resumed.
THEOREM QuietDrain == Spec => []DrainIsQuiet
<1>1. ASSUME ServiceInv, exit = "drained"
      PROVE  /\ \A i \in Slot : work[i] = "none" /\ op[i].state # "pending"
             /\ \A c \in Caller : caller[c].pc \notin {"gated", "waiting"}
  <2>1. active = 0 /\ \A c \in Caller : caller[c].pc # "gated"
    BY <1>1, CoordinatorAssumption DEF ServiceInv, AdmissionIsClosed
  <2>2. \A i \in Slot : work[i] = "none"
    BY <1>1, <2>1, NothingIsActive DEF ServiceInv
  <2>3. \A i \in Slot : op[i].state # "pending"
    BY <1>1, <2>2 DEF ServiceInv, WorkIsRegistered
  <2> QED
    BY <1>1, <2>1, <2>2, <2>3 DEF ServiceInv, WaitersAreRegistered
<1>2. ServiceInv => DrainIsQuiet
  BY <1>1 DEF DrainIsQuiet
<1> QED
  BY ServiceInvariance, <1>2, PTL

\* A step answers a caller in one of four ways: a workflow tells those that
\* wait, a status query reads the ledger or the runtime map, or an attachment
\* finds an operation in the runtime map.
LEMMA AnsweredBy ==
  ASSUME ServiceInv, Next, NEW c \in Caller, caller'[c].pc = "answered"
  PROVE  LET a == caller'[c].answer
             k == caller[c].key
         IN /\ caller[c].pc = "waiting" =>
                 \E i \in Slot : work[i] # "none" /\ k = op[i].key /\ Grounded(i, a)
            /\ caller[c].pc = "lookup" => a = Recorded(k) /\ k \in Key
            /\ caller[c].pc \in {"attach", "gated"} =>
                 \/ a \in {"conflict", "capacity"}
                 \/ /\ k \in Key /\ runtime[k] # None
                    /\ a = Published(runtime[k]) /\ a # "pending"
<1>1. /\ TypeOK /\ CallsAreBound /\ WorkIsBound /\ Books
      /\ caller \in [Caller -> Callers]
  BY DEF ServiceInv, IInv, Books, TypeOK
<1>2. CASE caller[c].pc = "waiting"
  <2>1. PICK i \in Slot : WorkflowStep(i) \/ Panic(i)
    BY <1>1, <1>2, OtherBooks
  <2>2. Tells(i) /\ work[i] # "none"
    BY <1>1, <2>1, WorkflowBooks, WorkflowType
  <2>3. PICK a \in Answers : caller'[c] = Reply(a) /\ Grounded(i, a) /\ caller[c].key = op[i].key
    BY <1>2, <2>2 DEF Tells
  <2> QED
    BY <1>2, <2>2, <2>3, ReplyAnswers
<1>3. ASSUME caller[c].pc # "waiting"
      PROVE  \/ StatusFromLedger(c) \/ Attach(c) \/ Register(c)
             \/ caller[c].pc \notin {"attach", "gated", "lookup"}
  <2>1. ASSUME NEW i \in Slot, WorkflowStep(i) \/ Panic(i)
        PROVE  caller'[c] = caller[c]
    BY <1>1, <1>3, <2>1, WorkflowBooks DEF Tells
  <2>2. ASSUME NEW d \in Caller, d # c,
               \/ \E k \in Key : Status(d, k) \/ \E r \in Request : Invoke(d, k, r)
               \/ EnterGate(d) \/ CallerStep(d) \/ Abandon(d)
        PROVE  caller'[c] = caller[c]
    <3>1. \E e : caller' = [caller EXCEPT ![d] = e]
      BY <1>1, <2>2 DEF Status, Invoke, EnterGate, CallerStep, Attach, Register, AttachTo,
                        StatusFromLedger, Abandon
    <3> QED
      BY <1>1, <2>2, <3>1
  <2>3. CASE \/ CleanupRuntime \/ StopAccepting \/ PassGate \/ Drain \/ ResumeAfterShutdown
             \/ \E k \in Key : ExpireEvidence(k)
    BY <2>3 DEF CleanupRuntime, StopAccepting, PassGate, Drain, ResumeAfterShutdown, ExitVars,
                ExpireEvidence
  <2>4. ~Crash
    BY DEF Crash, Idle
  <2>5. caller[c].pc = "answered" => caller[c].pc \notin {"attach", "gated", "lookup"}
    OBVIOUS
  <2>6. ~Abandon(c)
    BY <1>1 DEF Abandon, Idle
  <2>7. (\E k \in Key : Status(c, k) \/ \E r \in Request : Invoke(c, k, r)) \/ EnterGate(c)
          => caller[c].pc \notin {"attach", "gated", "lookup"}
    BY DEF Status, Invoke, EnterGate
  <2> QED
    BY <2>1, <2>2, <2>3, <2>4, <2>5, <2>6, <2>7 DEF Next, CallerStep
<1>4. CASE StatusFromLedger(c)
  <2>1. /\ caller[c].pc = "lookup" /\ caller[c].key \in Key
        /\ caller'[c] = Reply(Recorded(caller[c].key))
    BY <1>1, <1>4 DEF StatusFromLedger, CallsAreBound
  <2> QED
    BY <2>1, ReplyAnswers
<1>5. ASSUME NEW i \in Slot, AttachTo(c, i), caller'[c].pc = "answered",
             caller[c].pc # "waiting"
      PROVE  \/ caller'[c].answer = "conflict"
             \/ caller'[c].answer = Published(i) /\ Published(i) # "pending"
  <2>1. CASE op[i].request # caller[c].request
    BY <1>1, <1>5, <2>1, ReplyAnswers DEF AttachTo
  <2>2. CASE op[i].request = caller[c].request /\ op[i].state = "pending"
    <3>1. caller'[c].pc = "waiting"
      BY <1>1, <1>5, <2>2 DEF AttachTo, Callers
    <3> QED
      BY <1>5, <3>1
  <2>3. CASE op[i].request = caller[c].request /\ op[i].state # "pending"
    <3>1. Published(i) # "pending"
      BY <2>3 DEF Published
    <3> QED
      BY <1>1, <1>5, <2>3, <3>1, ReplyAnswers DEF AttachTo
  <2> QED
    BY <2>1, <2>2, <2>3
<1>6. CASE Attach(c)
  <2>1. caller[c].pc = "attach" /\ caller[c].key \in Key
    BY <1>1, <1>6 DEF Attach, CallsAreBound
  <2>2. runtime[caller[c].key] # None
    <3>1. CASE runtime[caller[c].key] = None
      <4>1. caller'[c].pc = "gate"
        BY <1>1, <1>6, <3>1 DEF Attach, Callers
      <4> QED
        BY <4>1
    <3> QED
      BY <3>1
  <2>3. AttachTo(c, runtime[caller[c].key]) /\ runtime[caller[c].key] \in Slot
    BY <1>1, <1>6, <2>1, <2>2, RegisteredTypes DEF Attach
  <2> QED
    BY <1>5, <2>1, <2>2, <2>3
<1>7. CASE Register(c)
  <2> DEFINE k == caller[c].key
  <2>1. caller[c].pc = "gated" /\ k \in Key
    BY <1>1, <1>7 DEF Register, CallsAreBound
  <2>2. CASE runtime[k] # None
    <3>1. AttachTo(c, runtime[k]) /\ runtime[k] \in Slot
      BY <1>1, <1>7, <2>1, <2>2, RegisteredTypes DEF Register
    <3> QED
      BY <1>5, <2>1, <2>2, <3>1
  <2>3. CASE runtime[k] = None
    <3>1. \/ caller' = [caller EXCEPT ![c] = Reply("capacity")]
          \/ \E i : caller' = [caller EXCEPT ![c].pc = "waiting", ![c].of = i]
      BY <1>7, <2>3 DEF Register
    <3>2. CASE caller' = [caller EXCEPT ![c] = Reply("capacity")]
      BY <1>1, <2>1, <3>2, ReplyAnswers
    <3>3. ASSUME NEW i, caller' = [caller EXCEPT ![c].pc = "waiting", ![c].of = i]
          PROVE  FALSE
      <4>1. caller' = [caller EXCEPT ![c] = [caller[c] EXCEPT !.pc = "waiting", !.of = i]]
        BY <1>1, <3>3
      <4>2. caller'[c].pc = "waiting"
        BY <1>1, <4>1 DEF Callers
      <4> QED
        BY <4>2
    <3> QED
      BY <3>1, <3>2, <3>3
  <2> QED
    BY <2>2, <2>3
<1> QED
  BY <1>2, <1>3, <1>4, <1>6, <1>7

\* What a workflow has reason to answer is true.
LEMMA GroundedIsTrue ==
  ASSUME ServiceInv, NEW i \in Slot, work[i] # "none", NEW a, Grounded(i, a)
  PROVE  IsTrue(a, op[i].key)
<1> DEFINE k == op[i].key
<1>1. /\ k \in Key /\ VerdictsAreCurrent /\ ExecutedAtMostOnce
      /\ evidence \in [Key -> Evidence \cup {None}] /\ executed \in [Key -> Nat]
  BY DEF ServiceInv, IInv, WorkIsBound, TypeOK
<1>2. evidence[k] = None => executed[k] = 0
  BY <1>1 DEF ExecutedAtMostOnce
<1>3. /\ Recorded(k) = "indeterminate" => evidence[k] # None
      /\ Recorded(k) = "completedWithoutResult" => IsCompleted(k)
  BY <1>1 DEF Recorded, Evidence, IsCompleted
<1>4. /\ work[i] \in {"publishDurable", "completedWithoutResult"} => IsCompleted(k)
      /\ work[i] = "publishNotDurable" => evidence[k] # None
      /\ work[i] = "indeterminate" => evidence[k] # None \/ faults.errors > 0
      /\ work[i] = "unknown" => evidence[k] = None
  BY <1>1 DEF VerdictsAreCurrent
<1> QED
  BY <1>2, <1>3, <1>4 DEF Grounded, IsTrue

\* A completion that is reported is recorded, an execution that is not has its
\* evidence, what may be submitted again was never executed, an operation in
\* progress is worked on and a kept result agrees with the ledger.
THEOREM TrueAnswers == Spec => AnswersAreTrue
<1> DEFINE True(c) ==
      LET answer == caller'[c].answer
      IN /\ caller[c].pc \in {"waiting", "lookup"} => IsTrue(answer, caller[c].key)
         /\ caller[c].pc \in {"attach", "gated"} => IsCurrent(answer, caller[c].key)
         /\ \A k \in Key : Status(c, k) => IsCurrent(answer, k)
<1>1. ASSUME ServiceInv, NEW k \in Key, runtime[k] # None
      PROVE  IsCurrent(Published(runtime[k]), k)
  <2>1. runtime[k] \in Slot /\ op[runtime[k]].key = k
    BY <1>1, RegisteredTypes DEF ServiceInv, IInv, RegistryIsConsistent
  <2>2. Published(runtime[k]) = "completed" => evidence[k] = None \/ IsCompleted(k)
    BY <1>1 DEF ServiceInv, ResultsAreCurrent
  <2>3. Published(runtime[k]) = "pending" => work[runtime[k]] \notin {"none", "returned"}
    <3>1. Published(runtime[k]) = "pending" => op[runtime[k]].state = "pending"
      BY DEF Published
    <3> QED
      BY <1>1, <2>1, <3>1 DEF ServiceInv, WorkIsRegistered
  <2> QED
    BY <2>1, <2>2, <2>3 DEF IsCurrent
<1>3. ASSUME ServiceInv, Next, NEW c \in Caller, caller'[c].pc = "answered"
      PROVE  True(c)
  <2> DEFINE answer == caller'[c].answer
  <2>1. /\ TypeOK /\ CallsAreBound /\ ExecutedAtMostOnce
        /\ evidence \in [Key -> Evidence \cup {None}] /\ executed \in [Key -> Nat]
    BY <1>3 DEF ServiceInv, IInv, TypeOK
  <2>2. CASE caller[c].pc = "waiting"
    <3>1. PICK i \in Slot : work[i] # "none" /\ caller[c].key = op[i].key /\ Grounded(i, answer)
      BY <1>3, <2>2, AnsweredBy
    <3>2. IsTrue(answer, caller[c].key)
      BY <1>3, <3>1, GroundedIsTrue
    <3> QED
      BY <2>2, <3>2 DEF Status
  <2>3. CASE caller[c].pc = "lookup"
    <3> DEFINE k == caller[c].key
    <3>1. answer = Recorded(k) /\ k \in Key
      BY <1>3, <2>3, AnsweredBy
    <3>2. /\ Recorded(k) \in {"unknown", "indeterminate", "completedWithoutResult"}
          /\ Recorded(k) = "unknown" => evidence[k] = None /\ executed[k] = 0
          /\ Recorded(k) = "indeterminate" => evidence[k] # None
          /\ Recorded(k) = "completedWithoutResult" => IsCompleted(k)
      BY <2>1, <3>1 DEF Recorded, Evidence, IsCompleted, ExecutedAtMostOnce
    <3>3. IsTrue(answer, k)
      BY <3>1, <3>2 DEF IsTrue
    <3> QED
      BY <2>3, <3>3 DEF Status
  <2>4. CASE caller[c].pc \in {"attach", "gated"}
    <3> DEFINE k == caller[c].key
    <3>1. \/ answer \in {"conflict", "capacity"}
          \/ k \in Key /\ runtime[k] # None /\ answer = Published(runtime[k])
      BY <1>3, <2>4, AnsweredBy
    <3>2. IsCurrent(answer, k)
      BY <1>1, <1>3, <3>1 DEF IsCurrent
    <3> QED
      BY <2>4, <3>2 DEF Status
  <2>5. ASSUME NEW k \in Key, Status(c, k)
        PROVE  IsCurrent(answer, k)
    <3>1. CASE runtime[k] = None
      <4>1. caller'[c].pc = "lookup"
        BY <2>1, <2>5, <3>1 DEF Status, Idle, TypeOK
      <4> QED
        BY <1>3, <4>1
    <3>2. CASE runtime[k] # None
      <4>1. caller'[c] = Reply(Published(runtime[k]))
        BY <2>1, <2>5, <3>2 DEF Status, TypeOK
      <4> QED
        BY <1>1, <1>3, <3>2, <4>1, ReplyAnswers
    <3> QED
      BY <3>1, <3>2
  <2>6. CASE caller[c].pc \notin {"waiting", "lookup", "attach", "gated"}
    BY <2>5, <2>6
  <2> QED
    BY <2>2, <2>3, <2>4, <2>6
<1>4. ServiceInv /\ [Next]_vars =>
        [\A c \in Caller : caller'[c].pc = "answered" => True(c)]_vars
  BY <1>3
<1> QED
  BY ServiceInvariance, <1>4, PTL DEF Spec, AnswersAreTrue
=============================================================================
