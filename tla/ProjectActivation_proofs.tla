----------------------- MODULE ProjectActivation_proofs -----------------------
(***************************************************************************)
(* Proofs about the activation of projects and components, for any number  *)
(* of components, commands, failed file operations and crashes: what a     *)
(* restart finds switches in one step, and what commands answer and the    *)
(* controller serves is what a restart finds.                              *)
(***************************************************************************)
EXTENDS ProjectActivation, SequenceTheorems, TLAPS

Pcs == {"down", "recover", "scan", "settle", "clear", "idle", "begin", "prepare",
        "activate", "config", "mark", "commit", "undo", "finish", "abort"}

-----------------------------------------------------------------------------
\* The data: sequences of members, tasks and transactions.

LEMMA MembersOfSequences ==
  ASSUME NEW S, NEW s \in Seq(S), s # <<>>
  PROVE  /\ Head(s) \in ToSet(s) /\ Tail(s) \in Seq(S)
         /\ ToSet(s) \subseteq ToSet(Tail(s)) \cup {Head(s)} /\ ToSet(Tail(s)) \subseteq ToSet(s)
         /\ Last(s) \in ToSet(s) /\ Front(s) \in Seq(S) /\ ToSet(Front(s)) \subseteq ToSet(s)
<1>1. Len(s) \in Nat \ {0} /\ s = [i \in 1..Len(s) |-> s[i]]
      BY EmptySeq
<1>2. /\ Tail(s) \in Seq(S) /\ Len(Tail(s)) = Len(s) - 1
      /\ \A i \in 1..Len(Tail(s)) : Tail(s)[i] = s[i + 1]
      OBVIOUS
<1>3. Head(s) = s[1] /\ DOMAIN s = 1..Len(s) /\ DOMAIN Tail(s) = 1..Len(Tail(s))
      BY <1>2
<1>4. Front(s) \in Seq(S) /\ Len(Front(s)) = Len(s) - 1
      /\ \A i \in 1..Len(Front(s)) : Front(s)[i] = s[i]
      BY <1>1 DEF Front
<1>5. DOMAIN Front(s) = 1..Len(Front(s))
      BY <1>4
<1>6. ToSet(s) \subseteq ToSet(Tail(s)) \cup {Head(s)}
  <2>1. SUFFICES ASSUME NEW x \in ToSet(s)
                   PROVE  x \in ToSet(Tail(s)) \cup {Head(s)}
        OBVIOUS
  <2>2. PICK i \in 1..Len(s) : x = s[i]
        BY <1>3 DEF ToSet
  <2>3. CASE i = 1
        BY <1>3, <2>2, <2>3
  <2>4. CASE i # 1
    <3>1. i - 1 \in 1..Len(Tail(s)) /\ Tail(s)[i - 1] = s[i]
          BY <1>1, <1>2, <2>4
    <3> QED
        BY <1>3, <2>2, <3>1 DEF ToSet
  <2> QED
      BY <2>3, <2>4
<1>7. ToSet(Tail(s)) \subseteq ToSet(s)
  <2>1. SUFFICES ASSUME NEW x \in ToSet(Tail(s))
                   PROVE  x \in ToSet(s)
        OBVIOUS
  <2>2. PICK i \in 1..Len(Tail(s)) : x = Tail(s)[i]
        BY <1>3 DEF ToSet
  <2>3. i + 1 \in 1..Len(s) /\ x = s[i + 1]
        BY <1>1, <1>2, <2>2
  <2> QED
      BY <1>3, <2>3 DEF ToSet
<1>8. ToSet(Front(s)) \subseteq ToSet(s)
  <2>1. SUFFICES ASSUME NEW x \in ToSet(Front(s))
                   PROVE  x \in ToSet(s)
        OBVIOUS
  <2>2. PICK i \in 1..Len(Front(s)) : x = Front(s)[i]
        BY <1>5 DEF ToSet
  <2>3. i \in 1..Len(s) /\ x = s[i]
        BY <1>1, <1>4, <2>2
  <2> QED
      BY <1>3, <2>3 DEF ToSet
<1>9. Head(s) \in ToSet(s) /\ Last(s) \in ToSet(s)
      BY <1>1, <1>3 DEF ToSet, Last
<1> QED
    BY <1>2, <1>4, <1>6, <1>7, <1>8, <1>9

LEMMA NoMembers == ToSet(<<>>) = {}
BY DEF ToSet

LEMMA MemberAdded ==
  ASSUME NEW S, NEW s \in Seq(S), NEW x \in S
  PROVE  Append(s, x) \in Seq(S) /\ ToSet(Append(s, x)) = ToSet(s) \cup {x}
<1>1. /\ Append(s, x) \in Seq(S) /\ Len(Append(s, x)) = Len(s) + 1 /\ Len(s) \in Nat
      /\ \A i \in 1..Len(s) : Append(s, x)[i] = s[i]
      /\ Append(s, x)[Len(s) + 1] = x
      OBVIOUS
<1>2. DOMAIN Append(s, x) = 1..(Len(s) + 1) /\ DOMAIN s = 1..Len(s)
      BY <1>1
<1>3. ToSet(s) \cup {x} \subseteq ToSet(Append(s, x))
  <2>1. x \in ToSet(Append(s, x))
        BY <1>1, <1>2 DEF ToSet
  <2>2. \A y \in ToSet(s) : y \in ToSet(Append(s, x))
    <3>1. TAKE y \in ToSet(s)
    <3>2. PICK i \in 1..Len(s) : y = s[i]
          BY <1>2 DEF ToSet
    <3>3. i \in 1..(Len(s) + 1) /\ Append(s, x)[i] = y
          BY <1>1, <3>2
    <3> QED
        BY <1>2, <3>3 DEF ToSet
  <2> QED
      BY <2>1, <2>2
<1>4. ToSet(Append(s, x)) \subseteq ToSet(s) \cup {x}
  <2>1. SUFFICES ASSUME NEW y \in ToSet(Append(s, x))
                   PROVE  y \in ToSet(s) \cup {x}
        OBVIOUS
  <2>2. PICK i \in 1..(Len(s) + 1) : y = Append(s, x)[i]
        BY <1>2 DEF ToSet
  <2>3. CASE i = Len(s) + 1
        BY <1>1, <2>2, <2>3
  <2>4. CASE i \in 1..Len(s)
        BY <1>1, <1>2, <2>2, <2>4 DEF ToSet
  <2> QED
      BY <1>1, <2>3, <2>4
<1> QED
    BY <1>1, <1>3, <1>4

\* No step touches what a command is to do, only how far it is.
LEMMA PlanIs ==
  ASSUME NEW g \in Plans
  PROVE  DOMAIN g \in SUBSET Component /\ g \in [DOMAIN g -> Version \cup {None}]
<1>1. CASE g = <<>>
  <2>1. DOMAIN g = {} /\ g = [i \in {} |-> None]
        BY <1>1
  <2> QED
      BY <2>1
<1>2. CASE g # <<>>
  <2>1. PICK S \in SUBSET Component : g \in [S -> Version \cup {None}]
        BY <1>2 DEF Plans
  <2> QED
      BY <2>1
<1> QED
    BY <1>1, <1>2

-----------------------------------------------------------------------------
\* What a restart makes of one component, and the transactions it can read.

ValueOf(t, x, committed) ==
  IF x.state # "activation" \/ committed THEN t
  ELSE IF ~x.hadPrevious THEN None
  ELSE IF x.previous = None THEN t ELSE x.previous

Fit(t, x, committed) ==
  /\ x.state = "activation" /\ ~x.hadPrevious => x.previous = None
  /\ t = Torn => /\ x.state = "activation" /\ ~committed
                 /\ x.hadPrevious => x.previous # None

ConfigOf(p, c) ==
  IF p.state = "committed" THEN p.target ELSE IF p.state = "prepared" THEN p.previous ELSE c

LEMMA OutcomeIs ==
  /\ Outcome = [components |-> [c \in Component |-> ValueOf(target[c], txn[c], Committed(c))],
                config |-> ConfigOf(project, config)]
  /\ Outcome.config = ConfigOf(project, config)
  /\ \A c \in Component : Outcome.components[c] = ValueOf(target[c], txn[c], Committed(c))
BY DEF Outcome, ValueOf, ConfigOf

LEMMA OutcomeIsAfter ==
  /\ Outcome' = [components |-> [c \in Component |-> ValueOf(target'[c], txn'[c], Committed(c)')],
                 config |-> ConfigOf(project', config')]
  /\ Outcome'.config = ConfigOf(project', config')
  /\ \A c \in Component : Outcome'.components[c] = ValueOf(target'[c], txn'[c], Committed(c)')
BY DEF Outcome, ValueOf, ConfigOf

DiskTypes ==
  target \in [Component -> Content] /\ txn \in [Component -> Transaction]
  /\ project \in Project /\ config \in Config

LEMMA TypesOfDisk == TypeOK => DiskTypes
BY DEF TypeOK, DiskTypes

\* The directories of one component change, not what a restart makes of them.
Changes(c) ==
  \E t \in Content, x \in Transaction :
    /\ target' = [target EXCEPT ![c] = t] /\ txn' = [txn EXCEPT ![c] = x]
    /\ Fit(t, x, Committed(c))
    /\ ValueOf(t, x, Committed(c)) = ValueOf(target[c], txn[c], Committed(c))

LEMMA FitIs ==
  TransactionsFit <=> /\ \A c \in Component : Fit(target[c], txn[c], Committed(c))
                      /\ project.state \in {"prepared", "committed"} =>
                           {project.previous, project.target} \subseteq Config
BY DEF TransactionsFit, Fit

LEMMA FitIsAfter ==
  TransactionsFit' <=> /\ \A c \in Component : Fit(target'[c], txn'[c], Committed(c)')
                       /\ project'.state \in {"prepared", "committed"} =>
                            {project'.previous, project'.target} \subseteq Config
BY DEF TransactionsFit, Fit

LEMMA ChangeKeeps ==
  ASSUME DiskTypes, TransactionsFit, NEW c \in Component, Changes(c),
         UNCHANGED <<project, config>>
  PROVE  /\ Outcome' = Outcome /\ TransactionsFit' /\ DiskTypes'
         /\ \A d \in Component \ {c} : target'[d] = target[d] /\ txn'[d] = txn[d]
<1>1. PICK t \in Content, x \in Transaction :
        /\ target' = [target EXCEPT ![c] = t] /\ txn' = [txn EXCEPT ![c] = x]
        /\ Fit(t, x, Committed(c))
        /\ ValueOf(t, x, Committed(c)) = ValueOf(target[c], txn[c], Committed(c))
      BY DEF Changes
<1>2. DiskTypes'
      BY <1>1 DEF DiskTypes
<1>3. target'[c] = t /\ txn'[c] = x
      BY <1>1 DEF DiskTypes
<1>4. \A d \in Component \ {c} : target'[d] = target[d] /\ txn'[d] = txn[d]
      BY <1>1 DEF DiskTypes
<1>5. \A d \in Component : Committed(d)' = Committed(d)
      BY DEF Committed
<1>6. \A d \in Component :
        ValueOf(target'[d], txn'[d], Committed(d)') = ValueOf(target[d], txn[d], Committed(d))
  <2>1. TAKE d \in Component
  <2>2. CASE d = c
        BY <1>1, <1>3, <1>5, <2>2
  <2>3. CASE d # c
        BY <1>4, <1>5, <2>3
  <2> QED
      BY <2>2, <2>3
<1>7. Outcome' = Outcome
      BY <1>6, OutcomeIs, OutcomeIsAfter
<1>8. TransactionsFit'
  <2>1. \A d \in Component : Fit(target'[d], txn'[d], Committed(d)')
    <3>1. TAKE d \in Component
    <3>2. CASE d = c
          BY <1>1, <1>3, <1>5, <3>2
    <3>3. CASE d # c
          BY <1>4, <1>5, <3>3, FitIs
    <3> QED
        BY <3>2, <3>3
  <2> QED
      BY <2>1, FitIs, FitIsAfter
<1> QED
    BY <1>2, <1>4, <1>7, <1>8

LEMMA ChangeIs ==
  ASSUME NEW c \in Component, NEW t \in Content, NEW x \in Transaction,
         target' = [target EXCEPT ![c] = t], txn' = [txn EXCEPT ![c] = x],
         Fit(t, x, Committed(c)),
         ValueOf(t, x, Committed(c)) = ValueOf(target[c], txn[c], Committed(c))
  PROVE  Changes(c)
BY DEF Changes

\* The fields of a transaction, and those that the code writes.
LEMMA TransactionIs ==
  ASSUME NEW x \in Transaction
  PROVE  /\ x.state \in {"none", "partial", "activation", "committed"}
         /\ x.hadPrevious \in BOOLEAN /\ x.previous \in Version \cup {None}
         /\ \A v \in Version \cup {None} :
              LET y == [x EXCEPT !.previous = v]
              IN  y \in Transaction /\ y.state = x.state /\ y.hadPrevious = x.hadPrevious /\ y.previous = v
         /\ LET y == [x EXCEPT !.state = "committed"]
            IN  y \in Transaction /\ y.state = "committed"
BY DEF Transaction

LEMMA NewTransactions ==
  /\ NoTransaction \in Transaction /\ NoTransaction.state = "none"
  /\ Partial \in Transaction /\ Partial.state = "partial"
  /\ \A c \in Component : target[c] # Torn =>
       /\ Journal(c) \in Transaction /\ Journal(c).state = "activation" /\ Journal(c).previous = None
       /\ Journal(c).hadPrevious = (target[c] # None)
BY DEF NoTransaction, Partial, Journal, Transaction

\* Rolling back, marking and removing a transaction.
LEMMA RollbackChanges ==
  ASSUME DiskTypes, TransactionsFit, NEW c \in Component, ~Committed(c), RollbackStep(c)
  PROVE  /\ Changes(c)
         /\ txn'[c].state # "none" => txn'[c].state \in {"activation", "partial"}
<1>1. /\ target[c] \in Content /\ txn[c] \in Transaction /\ txn[c].hadPrevious \in BOOLEAN
      /\ txn[c].previous \in Version \cup {None}
      BY TransactionIs DEF DiskTypes
<1>2. Fit(target[c], txn[c], FALSE)
  <2>1. Fit(target[c], txn[c], Committed(c))
        BY FitIs
  <2> QED
      BY <2>1 DEF Fit
<1>7. \A t, x : Fit(t, x, FALSE) => Fit(t, x, Committed(c))
      BY DEF Fit
<1>8. \A t, x : ValueOf(t, x, Committed(c)) = ValueOf(t, x, FALSE)
      BY DEF ValueOf
<1>3. None # Torn /\ None \notin Version /\ Torn \notin Version
      BY ProjectAssumption DEF Torn
<1>4. CASE RemoveTarget(c)
  <2>1. PICK t \in {None, Torn} : target' = [target EXCEPT ![c] = t]
        BY <1>1, <1>4 DEF RemoveTarget, DiskTypes
  <2>2. txn' = [txn EXCEPT ![c] = txn[c]] /\ txn' = txn /\ t \in Content
        BY <1>4, <2>1 DEF RemoveTarget, DiskTypes, Content
  <2>3. Fit(t, txn[c], FALSE) /\ ValueOf(t, txn[c], FALSE) = ValueOf(target[c], txn[c], FALSE)
        BY <1>1, <1>2, <1>3, <1>4, <2>1 DEF RemoveTarget, Unwanted, Fit, ValueOf
  <2>4. Fit(t, txn[c], Committed(c))
        /\ ValueOf(t, txn[c], Committed(c)) = ValueOf(target[c], txn[c], Committed(c))
        BY <1>7, <1>8, <2>3
  <2>5. Changes(c)
        BY <1>1, <2>1, <2>2, <2>4 DEF Changes
  <2>6. txn'[c].state = "activation"
        BY <1>4 DEF RemoveTarget
  <2> QED
      BY <2>5, <2>6
<1>5. CASE RestorePrevious(c)
  <2> DEFINE x == [txn[c] EXCEPT !.previous = None]
  <2>1. /\ target' = [target EXCEPT ![c] = txn[c].previous] /\ txn' = [txn EXCEPT ![c] = x]
        /\ txn[c].state = "activation" /\ txn[c].previous # None /\ target[c] = None
        BY <1>5 DEF RestorePrevious
  <2>2. /\ x \in Transaction /\ x.state = txn[c].state /\ x.hadPrevious = txn[c].hadPrevious
        /\ x.previous = None /\ txn[c].previous \in Content
        BY <1>1, TransactionIs DEF Content
  <2>3. /\ Fit(txn[c].previous, x, FALSE)
        /\ ValueOf(txn[c].previous, x, FALSE) = ValueOf(target[c], txn[c], FALSE)
        BY <1>1, <1>2, <1>3, <2>1, <2>2 DEF Fit, ValueOf
  <2>4. txn'[c].state = "activation"
        BY <2>1, <2>2 DEF DiskTypes
  <2> QED
      BY <1>7, <1>8, <2>1, <2>2, <2>3, <2>4, ChangeIs
<1>6. CASE RemoveTransaction(c)
  <2>1. PICK x \in {NoTransaction, Partial} : txn' = [txn EXCEPT ![c] = x]
        BY <1>6 DEF RemoveTransaction
  <2>2. /\ x \in Transaction /\ x.state \in {"none", "partial"}
        /\ target' = [target EXCEPT ![c] = target[c]]
        BY <1>6, <2>1, NewTransactions DEF RemoveTransaction, DiskTypes
  <2>3. /\ Fit(target[c], x, FALSE)
        /\ ValueOf(target[c], x, FALSE) = ValueOf(target[c], txn[c], FALSE)
        BY <1>1, <1>2, <1>3, <1>6, <2>2 DEF RemoveTransaction, Fit, ValueOf
  <2>4. txn'[c] = x
        BY <2>1, <2>2 DEF DiskTypes
  <2> QED
      BY <1>1, <1>7, <1>8, <2>1, <2>2, <2>3, <2>4, ChangeIs
<1> QED
    BY <1>4, <1>5, <1>6 DEF RollbackStep

LEMMA RemoveCommittedChanges ==
  ASSUME DiskTypes, TransactionsFit, NEW c \in Component, RemoveCommitted(c)
  PROVE  Changes(c) /\ txn'[c].state = "none" /\ target' = target
<1>1. /\ target[c] \in Content /\ target' = [target EXCEPT ![c] = target[c]] /\ target' = target
      /\ txn' = [txn EXCEPT ![c] = NoTransaction] /\ txn[c].state = "committed"
      BY DEF RemoveCommitted, DiskTypes
<1>2. Fit(target[c], NoTransaction, Committed(c))
      BY <1>1, FitIs, NewTransactions DEF Fit
<1>3. ValueOf(target[c], NoTransaction, Committed(c)) = ValueOf(target[c], txn[c], Committed(c))
      BY <1>1, NewTransactions DEF ValueOf
<1>4. txn'[c].state = "none"
      BY <1>1, NewTransactions DEF DiskTypes
<1> QED
    BY <1>1, <1>2, <1>3, <1>4, NewTransactions, ChangeIs

\* Of a committed project, marking a transaction changes nothing.
LEMMA MarkChanges ==
  ASSUME DiskTypes, TransactionsFit, NEW c \in Component, MarkTransaction(c)
  PROVE  /\ txn'[c].state = "committed" /\ target' = target
         /\ txn' \in [Component -> Transaction]
         /\ \A d \in Component \ {c} : txn'[d] = txn[d]
         /\ Committed(c) => Changes(c)
<1> DEFINE x == [txn[c] EXCEPT !.state = "committed"]
<1>1. /\ target[c] \in Content /\ target' = [target EXCEPT ![c] = target[c]] /\ target' = target
      /\ txn' = [txn EXCEPT ![c] = x] /\ txn[c].state = "activation"
      BY DEF MarkTransaction, DiskTypes
<1>2. x \in Transaction /\ x.state = "committed"
      BY TransactionIs DEF DiskTypes
<1>3. /\ txn' \in [Component -> Transaction] /\ txn'[c] = x
      /\ \A d \in Component \ {c} : txn'[d] = txn[d]
      BY <1>1, <1>2 DEF DiskTypes
<1>4. ASSUME Committed(c)
      PROVE  Changes(c)
  <2>1. Fit(target[c], x, Committed(c))
        BY <1>2, <1>4, FitIs DEF Fit
  <2>2. ValueOf(target[c], x, Committed(c)) = ValueOf(target[c], txn[c], Committed(c))
        BY <1>4 DEF ValueOf
  <2> QED
      BY <1>1, <1>2, <2>1, <2>2, ChangeIs
<1> QED
    BY <1>1, <1>2, <1>3, <1>4

-----------------------------------------------------------------------------
\* Steps that stay where they are: one component of a command changes.

SameCommand ==
  /\ task'.goal = task.goal /\ task'.config = task.config /\ task'.routes = task.routes
  /\ task'.settings = task.settings /\ task'.view = task.view /\ task'.kept = task.kept

SameTask ==
  /\ Members' = Members /\ IsImport' = IsImport
  /\ Remaining' = Remaining /\ Showing' = Showing

LEMMA SameTaskIs ==
  ASSUME SameCommand
  PROVE  SameTask
BY DEF SameCommand, SameTask, Members, IsImport, Remaining, Showing

\* Only an import that is taken back keeps the configuration it brought.
LEMMA NothingKept ==
  ASSUME IInv, pc \notin {"undo", "abort", "idle"}
  PROVE  ~task.kept /\ Showing = task.settings /\ Remaining = {task.view.config, task.settings}
BY DEF IInv, ConfigFits, Showing, Remaining

Bounded ==
  /\ faults' \in 0..MaxFaults /\ crashes' \in 0..MaxCrashes /\ tasks' \in 0..MaxTasks
  /\ broken' \in BOOLEAN

LEMMA Bounds ==
  ASSUME TypeOK, Fault \/ UNCHANGED bounds
  PROVE  Bounded /\ saved' = saved
<1>1. CASE Fault
  <2>1. faults' \in 0..MaxFaults
        BY <1>1, ProjectAssumption DEF Fault, TypeOK
  <2> QED
      BY <1>1, <2>1 DEF Fault, TypeOK, Bounded
<1>2. CASE UNCHANGED bounds
      BY <1>2 DEF TypeOK, Bounded, bounds
<1> QED
    BY <1>1, <1>2

\* What IInv says of the task: its members and what it remembers.
LEMMA TaskIs ==
  ASSUME TypeOK
  PROVE  /\ task \in Task /\ task.goal \in Plans /\ task.config \in Config \cup {None}
         /\ task.root \in {"signed", "local"} /\ task.at \in Component \cup {None}
         /\ task.done \in Seq(Component) /\ task.retried \in BOOLEAN /\ task.failed \in BOOLEAN
         /\ Members \in SUBSET Component /\ task.goal \in [Members -> Version \cup {None}]
BY PlanIs DEF TypeOK, Task, Members

LEMMA Steady ==
  ASSUME IInv, SameCommand, pc' = pc, pc # "idle", Outcome' = Outcome, TransactionsFit', DiskTypes',
         UNCHANGED <<project, config, memory, saved>>, Bounded, task' \in Task,
         ToSet(task'.done) \subseteq ToSet(task.done) \cup Members,
         RecoveriesSettle', MembersInPlace'
  PROVE  IInv'
<1>1. SameTask
      BY SameTaskIs
<1>2. TypeOK'
      BY DEF IInv, TypeOK, DiskTypes, Bounded, memory
<1>3. CommandsRemember'
      BY <1>1 DEF IInv, CommandsRemember, SameCommand, SameTask, Recovering
<1>4. NothingShowsBefore'
      BY <1>1 DEF IInv, NothingShowsBefore, SameCommand, SameTask, memory
<1>5. ProjectFits'
      BY <1>1 DEF IInv, ProjectFits, SameCommand, SameTask
<1>6. ConfigFits'
      BY <1>1 DEF IInv, ConfigFits, SameCommand, SameTask, memory
<1>7. ReportsAreTrue' /\ RoutesMatchDisk'
      BY DEF ReportsAreTrue, RoutesMatchDisk
<1> QED
    BY <1>2, <1>3, <1>4, <1>5, <1>6, <1>7 DEF IInv

\* The recovery of one component.
LEMMA ScanKeeps ==
  ASSUME IInv, NEW c \in Component, Scan(c)
  PROVE  IInv' /\ Outcome' = Outcome
<1>1. /\ pc = "scan" /\ pc' = pc /\ task' = task /\ UNCHANGED <<project, config, memory>>
      /\ UNCHANGED bounds
      BY DEF Scan
<1>2. DiskTypes /\ TransactionsFit /\ TypeOK
      BY TypesOfDisk DEF IInv
<1>3. Changes(c) /\ txn'[c].state = "none"
      BY <1>2, RemoveCommittedChanges DEF Scan
<1>4. /\ Outcome' = Outcome /\ TransactionsFit' /\ DiskTypes'
      /\ \A d \in Component \ {c} : txn'[d] = txn[d]
      BY <1>1, <1>2, <1>3, ChangeKeeps
<1>5. RecoveriesSettle'
      BY <1>1, <1>3, <1>4 DEF IInv, RecoveriesSettle, Settled, Component, Recovering
<1>6. MembersInPlace'
      BY <1>1 DEF MembersInPlace, Switched
<1>7. Bounded /\ saved' = saved
      BY <1>1, <1>2, Bounds
<1> QED
    BY <1>1, <1>2, <1>4, <1>5, <1>6, <1>7, Steady, TaskIs DEF SameCommand

LEMMA SettleKeeps ==
  ASSUME IInv, NEW c \in Component, Settle(c)
  PROVE  IInv' /\ Outcome' = Outcome
<1>1. /\ pc = "settle" /\ pc' = pc /\ UNCHANGED <<project, config, memory>> /\ UNCHANGED bounds
      /\ c \in Root /\ task' = [task EXCEPT !.at = IF txn'[c].state = "none" THEN None ELSE c]
      BY DEF Settle
<1>2. DiskTypes /\ TransactionsFit /\ TypeOK
      BY TypesOfDisk DEF IInv
<1>3. Changes(c)
  <2>1. CASE Committed(c)
        BY <1>2, <2>1, MarkChanges, RemoveCommittedChanges DEF Settle
  <2>2. CASE ~Committed(c)
        BY <1>2, <2>2, RollbackChanges DEF Settle
  <2> QED
      BY <2>1, <2>2
<1>4. /\ Outcome' = Outcome /\ TransactionsFit' /\ DiskTypes'
      /\ \A d \in Component \ {c} : txn'[d] = txn[d]
      BY <1>1, <1>2, <1>3, ChangeKeeps
<1>5. /\ SameCommand /\ task' \in Task /\ task'.done = task.done /\ task'.root = task.root
      BY <1>1, <1>2 DEF SameCommand, TypeOK, Task
<1>6. RecoveriesSettle'
      BY <1>1, <1>4, <1>5, ProjectAssumption
         DEF IInv, RecoveriesSettle, Component, Root, Recovering
<1>7. MembersInPlace'
      BY <1>1 DEF MembersInPlace, Switched
<1>8. Bounded /\ saved' = saved
      BY <1>1, <1>2, Bounds
<1> QED
    BY <1>1, <1>4, <1>5, <1>6, <1>7, <1>8, Steady

LEMMA SettleLaterKeeps ==
  ASSUME IInv, SettleLater
  PROVE  IInv' /\ Outcome' = Outcome
<1>1. /\ pc = "settle" /\ pc' = pc /\ UNCHANGED <<disk, memory>>
      /\ task' = [task EXCEPT !.at = None] /\ Fault
      BY DEF SettleLater
<1>2. DiskTypes /\ TransactionsFit /\ TypeOK
      BY TypesOfDisk DEF IInv
<1>3. UNCHANGED <<target, txn, project, config>>
      BY <1>1 DEF disk
<1>4. Outcome' = Outcome /\ TransactionsFit' /\ DiskTypes'
      BY <1>2, <1>3 DEF Outcome, TransactionsFit, DiskTypes, Committed
<1>5. /\ SameCommand /\ task' \in Task /\ task'.done = task.done /\ task'.root = task.root
      BY <1>1, <1>2 DEF SameCommand, TypeOK, Task
<1>6. RecoveriesSettle' /\ MembersInPlace'
      BY <1>1, <1>3, <1>4, <1>5 DEF IInv, RecoveriesSettle, Recovering, MembersInPlace, Switched
<1>7. Bounded /\ saved' = saved
      BY <1>1, <1>2, Bounds
<1> QED
    BY <1>1, <1>3, <1>4, <1>5, <1>6, <1>7, Steady

LEMMA DiskKept ==
  ASSUME DiskTypes, TransactionsFit, UNCHANGED disk
  PROVE  /\ Outcome' = Outcome /\ TransactionsFit' /\ DiskTypes'
         /\ UNCHANGED <<target, txn, project, config>>
BY DEF Outcome, TransactionsFit, DiskTypes, Committed, disk

\* While members are put in place or taken back, no project is committed.
LEMMA NotCommitted ==
  ASSUME IInv, pc \in {"activate", "undo"}, NEW c \in Component
  PROVE  ~Committed(c)
BY DEF IInv, ProjectFits, Committed

\* The activation of one member.
LEMMA ActivatingMember ==
  ASSUME IInv, pc = "activate", task.at # None
  PROVE  task.at \in Members /\ task.at \in Component /\ task.at \notin ToSet(task.done)
BY TaskIs DEF IInv, MembersInPlace

LEMMA MakeTransactionKeeps ==
  ASSUME IInv, NEW c \in Component, MakeTransaction(c)
  PROVE  IInv' /\ Outcome' = Outcome
<1>1. /\ pc = "activate" /\ pc' = pc /\ task.at = None /\ c \in Members \ ToSet(task.done)
      /\ UNCHANGED <<target, project, config, memory>> /\ UNCHANGED bounds
      /\ txn' = [txn EXCEPT ![c] = Partial] /\ task' = [task EXCEPT !.at = c]
      BY DEF MakeTransaction
<1>2. DiskTypes /\ TransactionsFit /\ TypeOK
      BY TypesOfDisk DEF IInv
<1>3. txn[c].state \in Settled
  <2>1. c # None
        BY ProjectAssumption
  <2> QED
      BY <1>1, <2>1 DEF IInv, MembersInPlace
<1>4. Changes(c)
  <2>1. Fit(target[c], Partial, Committed(c))
        BY <1>3, FitIs, <1>2, NewTransactions DEF Fit, Settled
  <2>2. ValueOf(target[c], Partial, Committed(c)) = ValueOf(target[c], txn[c], Committed(c))
        BY <1>3, NewTransactions DEF ValueOf, Settled
  <2>3. target' = [target EXCEPT ![c] = target[c]] /\ target[c] \in Content
        BY <1>1, <1>2 DEF DiskTypes
  <2> QED
      BY <1>1, <2>1, <2>2, <2>3, NewTransactions, ChangeIs
<1>5. /\ Outcome' = Outcome /\ TransactionsFit' /\ DiskTypes'
      /\ \A d \in Component \ {c} : txn'[d] = txn[d]
      BY <1>1, <1>2, <1>4, ChangeKeeps
<1>6. /\ SameCommand /\ task' \in Task /\ task'.done = task.done /\ task'.at = c
      BY <1>1, <1>2 DEF SameCommand, TypeOK, Task
<1>7. RecoveriesSettle'
      BY <1>1 DEF RecoveriesSettle, Recovering
<1>8. MembersInPlace'
  <2>1. Members' = Members
        BY <1>6 DEF SameCommand, Members
  <2>2. task'.at \in (Members' \cup {None}) \ ToSet(task'.done)
        BY <1>1, <1>6, <2>1
  <2>3. \A d \in ToSet(task'.done) : target'[d] = task'.goal[d]
        BY <1>1, <1>6 DEF IInv, MembersInPlace, SameCommand
  <2>4. \A d \in Component \ (ToSet(task'.done) \cup {task'.at}) : txn'[d].state \in Settled
        BY <1>1, <1>5, <1>6, ProjectAssumption DEF IInv, MembersInPlace
  <2> QED
      BY <1>1, <2>2, <2>3, <2>4 DEF MembersInPlace, Switched
<1>9. Bounded /\ saved' = saved
      BY <1>1, <1>2, Bounds
<1> QED
    BY <1>1, <1>5, <1>6, <1>7, <1>8, <1>9, Steady

\* A step of the member that is under way, which stays under way.
LEMMA MemberStep ==
  ASSUME IInv, NEW c \in Component, pc = "activate", pc' = pc, task.at = c, task' = task, Changes(c),
         UNCHANGED <<project, config, memory>>, UNCHANGED bounds
  PROVE  IInv' /\ Outcome' = Outcome
<1>1. DiskTypes /\ TransactionsFit /\ TypeOK
      BY TypesOfDisk DEF IInv
<1>2. /\ Outcome' = Outcome /\ TransactionsFit' /\ DiskTypes'
      /\ \A d \in Component \ {c} : target'[d] = target[d] /\ txn'[d] = txn[d]
      BY <1>1, ChangeKeeps
<1>3. SameCommand /\ task' \in Task /\ Members' = Members
      BY <1>1 DEF SameCommand, TypeOK, Members
<1>4. RecoveriesSettle'
      BY DEF RecoveriesSettle, Recovering
<1>5. MembersInPlace'
  <2>1. ToSet(task.done) \subseteq Component \ {c}
    <3>1. c # None
          BY ProjectAssumption
    <3>2. c \notin ToSet(task.done) /\ ToSet(task.done) \subseteq Members
          BY <3>1, ActivatingMember DEF IInv, CommandsRemember, Recovering
    <3> QED
        BY <1>1, <3>2, TaskIs
  <2> QED
      BY <1>2, <1>3, <2>1 DEF IInv, MembersInPlace, Switched
<1>6. Bounded /\ saved' = saved
      BY <1>1, Bounds
<1> QED
    BY <1>2, <1>3, <1>4, <1>5, <1>6, Steady

LEMMA WriteJournalKeeps ==
  ASSUME IInv, NEW c \in Component, WriteJournal(c)
  PROVE  IInv' /\ Outcome' = Outcome
<1>1. /\ pc = "activate" /\ pc' = pc /\ task.at = c /\ txn[c].state = "partial" /\ task' = task
      /\ UNCHANGED <<target, project, config, memory>> /\ UNCHANGED bounds
      /\ txn' = [txn EXCEPT ![c] = Journal(c)]
      BY DEF WriteJournal
<1>2. DiskTypes /\ TransactionsFit
      BY TypesOfDisk DEF IInv
<1>3. target[c] # Torn /\ target[c] \in Content /\ target' = [target EXCEPT ![c] = target[c]]
      BY <1>1, <1>2, FitIs DEF Fit, DiskTypes
<1>4. /\ Journal(c) \in Transaction /\ Journal(c).state = "activation" /\ Journal(c).previous = None
      /\ Journal(c).hadPrevious = (target[c] # None)
      BY <1>3, NewTransactions
<1>5. /\ Fit(target[c], Journal(c), Committed(c))
      /\ ValueOf(target[c], Journal(c), Committed(c)) = ValueOf(target[c], txn[c], Committed(c))
      BY <1>1, <1>3, <1>4 DEF Fit, ValueOf
<1>6. Changes(c)
      BY <1>1, <1>3, <1>4, <1>5, ChangeIs
<1> QED
    BY <1>1, <1>6, MemberStep

LEMMA SetAsideKeeps ==
  ASSUME IInv, NEW c \in Component, SetAside(c)
  PROVE  IInv' /\ Outcome' = Outcome
<1> DEFINE x == [txn[c] EXCEPT !.previous = target[c]]
<1>1. /\ pc = "activate" /\ pc' = pc /\ task.at = c /\ txn[c].state = "activation" /\ HasToMove(c)
      /\ task' = task /\ UNCHANGED <<project, config, memory>> /\ UNCHANGED bounds
      /\ target' = [target EXCEPT ![c] = None]
      BY DEF SetAside
<1>2. DiskTypes /\ TransactionsFit
      BY TypesOfDisk DEF IInv
<1>3. txn' = [txn EXCEPT ![c] = x]
      BY <1>2 DEF SetAside, DiskTypes
<1>4. txn[c] \in Transaction /\ target[c] \in Content /\ Fit(target[c], txn[c], Committed(c))
      /\ ~Committed(c)
      BY <1>1, <1>2, FitIs, NotCommitted DEF DiskTypes
<1>5. target[c] \in Version \cup {None}
      BY <1>1, <1>4 DEF Fit, HasToMove, Content
<1>6. /\ x \in Transaction /\ x.state = "activation" /\ x.hadPrevious = txn[c].hadPrevious
      /\ x.previous = target[c]
      BY <1>1, <1>4, <1>5, TransactionIs
<1>7. Fit(None, x, Committed(c)) /\ None \in Content
      BY <1>1, <1>6, ProjectAssumption DEF Fit, HasToMove, Torn, Content
<1>8. ValueOf(None, x, Committed(c)) = ValueOf(target[c], txn[c], Committed(c))
      BY <1>1, <1>4, <1>6 DEF ValueOf, HasToMove
<1>9. Changes(c)
      BY <1>1, <1>3, <1>6, <1>7, <1>8 DEF Changes
<1> QED
    BY <1>1, <1>9, MemberStep

LEMMA PutInPlaceKeeps ==
  ASSUME IInv, NEW c \in Component, PutInPlace(c)
  PROVE  IInv' /\ Outcome' = Outcome
<1>1. /\ pc = "activate" /\ pc' = pc /\ task.at = c /\ txn[c].state = "activation" /\ ~HasToMove(c)
      /\ UNCHANGED <<txn, project, config, memory>> /\ UNCHANGED bounds
      /\ target' = [target EXCEPT ![c] = task.goal[c]]
      /\ task' = [task EXCEPT !.at = None, !.done = Append(@, c)]
      BY DEF PutInPlace
<1>2. DiskTypes /\ TransactionsFit /\ TypeOK
      BY TypesOfDisk DEF IInv
<1>3. c \in Members /\ c # None /\ c \notin ToSet(task.done)
      BY <1>1, ActivatingMember, ProjectAssumption
<1>4. task.goal[c] \in Version \cup {None} /\ task.goal[c] \in Content /\ task.goal[c] # Torn
      BY <1>2, <1>3, TaskIs, ProjectAssumption DEF Content, Torn
<1>5. Changes(c)
  <2>1. ~Committed(c) /\ Fit(target[c], txn[c], Committed(c)) /\ txn[c] \in Transaction
        BY <1>1, <1>2, NotCommitted, FitIs DEF DiskTypes
  <2>2. Fit(task.goal[c], txn[c], Committed(c))
        BY <1>4, <2>1 DEF Fit
  <2>3. ValueOf(task.goal[c], txn[c], Committed(c)) = ValueOf(target[c], txn[c], Committed(c))
        BY <1>1, <2>1, TransactionIs DEF ValueOf, HasToMove
  <2>4. txn' = [txn EXCEPT ![c] = txn[c]]
        BY <1>1, <1>2 DEF DiskTypes
  <2> QED
      BY <1>1, <1>4, <2>1, <2>2, <2>3, <2>4 DEF Changes
<1>6. /\ Outcome' = Outcome /\ TransactionsFit' /\ DiskTypes'
      /\ \A d \in Component \ {c} : target'[d] = target[d] /\ txn'[d] = txn[d]
      BY <1>1, <1>2, <1>5, ChangeKeeps
<1>7. target'[c] = task.goal[c] /\ txn' = txn
      BY <1>1, <1>2 DEF DiskTypes
<1>8. Append(task.done, c) \in Seq(Component) /\ ToSet(Append(task.done, c)) = ToSet(task.done) \cup {c}
      BY <1>2, TaskIs, MemberAdded
<1>9. /\ SameCommand /\ task' \in Task /\ task'.done = Append(task.done, c) /\ task'.at = None
      BY <1>1, <1>2, <1>8 DEF SameCommand, TypeOK, Task
<1>10. RecoveriesSettle'
      BY <1>1 DEF RecoveriesSettle, Recovering
<1>11. MembersInPlace'
  <2>1. Members' = Members /\ None \notin ToSet(task'.done)
    <3>1. ToSet(task'.done) \subseteq Component
          BY <1>2, <1>3, <1>8, <1>9, TaskIs DEF IInv, CommandsRemember
    <3> QED
        BY <1>9, <3>1, ProjectAssumption DEF SameCommand, Members
  <2>2. \A d \in ToSet(task'.done) : target'[d] = task'.goal[d]
        BY <1>2, <1>1, <1>6, <1>7, <1>8, <1>9, TaskIs
           DEF IInv, MembersInPlace, CommandsRemember, SameCommand
  <2>3. \A d \in Component \ (ToSet(task'.done) \cup {task'.at}) : txn'[d].state \in Settled
        BY <1>1, <1>7, <1>8, <1>9 DEF IInv, MembersInPlace
  <2> QED
      BY <1>1, <1>9, <2>1, <2>2, <2>3 DEF MembersInPlace, Switched
<1>12. Bounded /\ saved' = saved
      BY <1>1, <1>2, Bounds
<1> QED
    BY <1>1, <1>3, <1>6, <1>8, <1>9, <1>10, <1>11, <1>12, Steady

-----------------------------------------------------------------------------
\* Failures: a command that has shown nothing answers, or takes back what it did.

\* What a command that has shown nothing leaves to a restart.
LEMMA BeforeIs ==
  ASSUME IInv, Members # {}, pc \in Before \ {"config", "mark"}
  PROVE  /\ Outcome.components = task.view.components
         /\ Outcome.config \in Remaining
         /\ Remaining \subseteq saved
         /\ settings = Showing /\ routes = task.routes
<1>1. /\ Outcome.components = task.view.components
      /\ Remaining \subseteq saved
      /\ settings = Showing /\ routes = task.routes
      BY DEF IInv, NothingShowsBefore, Switched, Before, Recovering
<1>2. Outcome.config \in Remaining
  <2>1. CASE pc \in Recovering \cup {"begin"}
        BY <2>1 DEF IInv, NothingShowsBefore, Before, Remaining
  <2>2. CASE pc \in {"prepare", "activate", "undo", "abort"} /\ IsImport
        BY <2>2, OutcomeIs DEF IInv, ProjectFits, ConfigFits, ConfigOf, Remaining
  <2>3. CASE pc \in {"activate", "undo"} /\ ~IsImport
        BY <2>3, OutcomeIs DEF IInv, ProjectFits, ConfigFits, ConfigOf, Remaining
  <2>4. pc \in {"prepare", "abort"} => IsImport
        BY DEF IInv, ProjectFits
  <2> QED
      BY <2>1, <2>2, <2>3, <2>4 DEF Before, Recovering
<1> QED
    BY <1>1, <1>2

\* The command answers that it failed.
LEMMA FailureKeeps ==
  ASSUME IInv, Members # {}, pc' = "idle", SameCommand, task' \in Task, task'.answer = "failed",
         ToSet(task'.done) \subseteq Members, TransactionsFit', DiskTypes', Bounded, saved' = saved,
         Outcome'.components = task.view.components,
         Outcome'.config \in Remaining,
         Remaining \subseteq saved,
         settings' = Showing, routes' = task.routes
  PROVE  IInv'
<1>1. SameTask
      BY SameTaskIs
<1>2. /\ task.view \in View /\ task.settings \in Config /\ task.routes = task.view.components
      /\ task.view.components \in Installed
      BY DEF IInv, CommandsRemember, View
<1>8. settings' \in saved
      BY DEF Showing, Remaining
<1>3. TypeOK'
      BY <1>2, <1>8 DEF IInv, TypeOK, DiskTypes, Bounded
<1>4. CommandsRemember'
  <2>1. IsImport \/ \E c \in Component : Members = {c}
        BY DEF IInv, CommandsRemember
  <2> QED
      BY <1>1, <1>2, <2>1 DEF CommandsRemember, SameCommand, SameTask
<1>5. RecoveriesSettle' /\ MembersInPlace' /\ NothingShowsBefore' /\ ProjectFits'
      BY DEF RecoveriesSettle, MembersInPlace, NothingShowsBefore, ProjectFits, Recovering, Switched, Before
<1>6. ConfigFits'
      BY <1>1, <1>8 DEF IInv, ConfigFits, SameCommand, SameTask
<1>7. ReportsAreTrue' /\ RoutesMatchDisk'
      BY <1>1, <1>2 DEF ReportsAreTrue, RoutesMatchDisk, SameCommand, SameTask
<1> QED
    BY <1>3, <1>4, <1>5, <1>6, <1>7 DEF IInv

\* The command begins to take back what it did, or all of it but the configuration.
LEMMA TakesBack ==
  ASSUME IInv, Members # {}, pc' = "undo", task' \in Task,
         task'.goal = task.goal, task'.config = task.config, task'.routes = task.routes,
         task'.settings = task.settings, task'.view = task.view,
         task'.kept => IsImport,
         ToSet(task'.done) \subseteq Members, TransactionsFit', DiskTypes', Bounded,
         Outcome'.components = task.view.components,
         Remaining' \subseteq saved', saved' \subseteq Config,
         settings' = Showing', routes' = task.routes,
         IsImport =>
           /\ project' = [state |-> "prepared", previous |-> task.settings,
                          target |-> task.config, members |-> Members]
           /\ config' \in Remaining',
         ~IsImport => project'.state = "none" /\ config' = task.view.config
  PROVE  IInv'
<1>1. Members' = Members /\ IsImport' = IsImport
      BY DEF Members, IsImport
<1>2. /\ task.view \in View /\ task.settings \in Config /\ task.routes = task.view.components
      /\ task.view.components \in Installed
      BY DEF IInv, CommandsRemember, View
<1>9. /\ settings' \in Remaining' /\ {task.view.config, task.settings} \subseteq Remaining'
      /\ ~task'.kept => settings' = task.settings
      BY DEF Showing, Remaining
<1>3. TypeOK'
      BY <1>2, <1>9 DEF TypeOK, DiskTypes, Bounded
<1>4. CommandsRemember'
  <2>1. IsImport \/ \E c \in Component : Members = {c}
        BY DEF IInv, CommandsRemember
  <2> QED
      BY <1>1, <1>2, <2>1 DEF CommandsRemember
<1>5. RecoveriesSettle' /\ MembersInPlace' /\ ReportsAreTrue' /\ RoutesMatchDisk'
      BY DEF RecoveriesSettle, MembersInPlace, ReportsAreTrue, RoutesMatchDisk, Recovering, Switched
<1>6. NothingShowsBefore'
      BY <1>1 DEF NothingShowsBefore, Recovering, Switched
<1>7. ProjectFits'
      BY <1>1 DEF ProjectFits
<1>8. ConfigFits'
  <2>1. Outcome'.config \in saved'
        BY <1>9, OutcomeIsAfter DEF ConfigOf
  <2> QED
      BY <1>1, <1>9, <2>1 DEF ConfigFits
<1> QED
    BY <1>3, <1>4, <1>5, <1>6, <1>7, <1>8 DEF IInv

LEMMA TakingBackKeeps ==
  ASSUME IInv, Members # {}, pc \notin {"undo", "abort", "idle"}, pc' = "undo", SameCommand, task' \in Task,
         ToSet(task'.done) \subseteq Members, TransactionsFit', DiskTypes', Bounded, saved' = saved,
         Outcome'.components = task.view.components,
         Remaining \subseteq saved,
         settings' = Showing, routes' = task.routes,
         IsImport =>
           /\ project' = [state |-> "prepared", previous |-> task.settings,
                          target |-> task.config, members |-> Members]
           /\ config' \in Remaining,
         ~IsImport => project'.state = "none" /\ config' = task.view.config
  PROVE  IInv'
<1>1. Remaining' = Remaining /\ Showing' = Showing /\ saved' \subseteq Config
      BY SameTaskIs DEF SameTask, IInv, TypeOK
<1>2. ~task'.kept
      BY NothingKept DEF SameCommand
<1> QED
    BY <1>1, <1>2, TakesBack DEF SameCommand

LEMMA ActivationFailedKeeps ==
  ASSUME IInv, pc = "activate", ActivationFailed, Outcome' = Outcome, TransactionsFit', DiskTypes',
         UNCHANGED <<project, config, memory>>, Bounded, saved' = saved
  PROVE  IInv'
<1>1. Members # {} /\ ToSet(task.done) \subseteq Members /\ TypeOK
      BY DEF IInv, CommandsRemember, Recovering
<1>2. /\ Outcome.components = task.view.components
      /\ Outcome.config \in Remaining
      /\ Remaining \subseteq saved
      /\ settings' = Showing /\ routes' = task.routes
      BY <1>1, BeforeIs DEF Before, memory
<1>3. CASE IsImport
  <2>1. pc' = "undo" /\ SameCommand /\ task' \in Task /\ task'.done = task.done
        BY <1>1, <1>3 DEF ActivationFailed, SameCommand, TypeOK, Task
  <2>2. /\ project' = [state |-> "prepared", previous |-> task.settings,
                       target |-> task.config, members |-> Members]
        /\ config' \in Remaining
        BY <1>3 DEF IInv, ProjectFits, ConfigFits
  <2> QED
      BY <1>1, <1>2, <1>3, <2>1, <2>2, TakingBackKeeps
<1>4. CASE ~IsImport
  <2>1. /\ pc' = "idle" /\ SameCommand /\ task' \in Task /\ task'.done = task.done
        /\ task'.answer = "failed"
        BY <1>1, <1>4 DEF ActivationFailed, Answer, SameCommand, TypeOK, Task
  <2> QED
      BY <1>1, <1>2, <2>1, FailureKeeps
<1> QED
    BY <1>3, <1>4

\* What a dropped error leaves of a transaction whose previous directory is in
\* its place.
LEMMA LeavingsFit ==
  ASSUME DiskTypes, NEW c \in Component, NEW v \in Version \cup {None}, NEW x \in Transaction,
         x.previous = None, x.state \in {"partial", "activation"},
         x.state = "activation" /\ ~x.hadPrevious => v = None,
         NEW y \in Leavings(x), NEW m \in BOOLEAN
  PROVE  y \in Transaction /\ Fit(v, y, m) /\ ValueOf(v, y, m) = v
<1>1. v # Torn
      BY ProjectAssumption DEF Torn
<1>2. y \in {NoTransaction, Partial} \/ y = x
      BY DEF Leavings
<1>3. CASE y \in {NoTransaction, Partial}
      BY <1>1, <1>3, NewTransactions DEF Fit, ValueOf
<1>4. CASE y = x
      BY <1>1, <1>4 DEF Fit, ValueOf
<1> QED
    BY <1>2, <1>3, <1>4

LEMMA ActivationFailsEarlyKeeps ==
  ASSUME IInv, ActivationFailsEarly
  PROVE  IInv' /\ Outcome' = Outcome
<1> DEFINE c == task.at
<1>1. /\ pc = "activate" /\ Fault /\ ActivationFailed /\ UNCHANGED <<target, project, config, memory>>
      BY DEF ActivationFailsEarly
<1>2. DiskTypes /\ TransactionsFit /\ TypeOK
      BY TypesOfDisk DEF IInv
<1>3. Bounded /\ saved' = saved
      BY <1>1, <1>2, Bounds
<1>4. Outcome' = Outcome /\ TransactionsFit' /\ DiskTypes'
  <2>1. CASE c = None
    <3>1. UNCHANGED disk
          BY <1>1, <2>1 DEF ActivationFailsEarly, disk
    <3> QED
        BY <1>2, <3>1, DiskKept
  <2>2. CASE c # None
    <3>1. c \in Component /\ txn[c] \in Transaction /\ target[c] \in Content /\ ~Committed(c)
          BY <1>1, <1>2, <2>2, ActivatingMember, NotCommitted DEF DiskTypes
    <3>2. PICK y \in Leavings(txn[c]) : txn' = [txn EXCEPT ![c] = y]
          BY <2>2 DEF ActivationFailsEarly
    <3>3. txn[c].state = "partial" \/ HasToMove(c)
          BY <2>2 DEF ActivationFailsEarly
    <3>4. Fit(target[c], txn[c], Committed(c))
          BY <1>2, <3>1, FitIs
    <3>5. CASE y \in {NoTransaction, Partial}
      <4>1. target[c] # Torn
            BY <3>3, <3>4 DEF Fit, HasToMove
      <4>2. /\ Fit(target[c], y, Committed(c))
            /\ ValueOf(target[c], y, Committed(c)) = ValueOf(target[c], txn[c], Committed(c))
            /\ y \in Transaction
            BY <3>3, <3>5, <4>1, NewTransactions DEF Fit, ValueOf, HasToMove
      <4>3. target' = [target EXCEPT ![c] = target[c]]
            BY <1>1, <1>2 DEF DiskTypes
      <4>4. Changes(c)
            BY <3>1, <3>2, <4>2, <4>3 DEF Changes
      <4> QED
          BY <1>1, <1>2, <3>1, <4>4, ChangeKeeps
    <3>6. CASE y = txn[c]
      <4>1. UNCHANGED disk
            BY <1>1, <1>2, <3>2, <3>6 DEF DiskTypes, disk
      <4> QED
          BY <1>2, <4>1, DiskKept
    <3> QED
        BY <3>2, <3>5, <3>6 DEF Leavings
  <2> QED
      BY <2>1, <2>2
<1> QED
    BY <1>1, <1>3, <1>4, ActivationFailedKeeps

LEMMA PutInPlaceFailsKeeps ==
  ASSUME IInv, NEW c \in Component, PutInPlaceFails(c), ~broken'
  PROVE  IInv' /\ Outcome' = Outcome
<1> DEFINE x == [txn[c] EXCEPT !.previous = None]
<1>1. /\ pc = "activate" /\ Fault /\ ActivationFailed /\ UNCHANGED <<project, config, memory>>
      /\ txn[c].state = "activation" /\ ~HasToMove(c)
      BY DEF PutInPlaceFails, BreakingFault
<1>2. DiskTypes /\ TransactionsFit /\ TypeOK
      BY TypesOfDisk DEF IInv
<1>3. Bounded /\ saved' = saved
      BY <1>1, <1>2, Bounds
<1>4. txn[c] \in Transaction /\ ~Committed(c) /\ Fit(target[c], txn[c], Committed(c))
      BY <1>1, <1>2, NotCommitted, FitIs DEF DiskTypes
<1>5. /\ txn[c].hadPrevious \in BOOLEAN /\ txn[c].previous \in Version \cup {None}
      /\ txn[c].previous \in Content /\ Committed(c) \in BOOLEAN
      BY <1>4, TransactionIs DEF Content, Committed
<1>6. Outcome' = Outcome /\ TransactionsFit' /\ DiskTypes'
  <2>1. CASE \E y \in Leavings(x) :
               target' = [target EXCEPT ![c] = txn[c].previous] /\ txn' = [txn EXCEPT ![c] = y]
    <3>1. PICK y \in Leavings(x) :
            target' = [target EXCEPT ![c] = txn[c].previous] /\ txn' = [txn EXCEPT ![c] = y]
          BY <2>1
    <3>2. /\ x \in Transaction /\ x.previous = None /\ x.state = "activation"
          /\ x.hadPrevious = txn[c].hadPrevious
          BY <1>1, <1>4, TransactionIs
    <3>3. ~x.hadPrevious => txn[c].previous = None
          BY <1>1, <1>4, <3>2 DEF Fit
    <3>4. y \in Transaction /\ Fit(txn[c].previous, y, Committed(c))
          /\ ValueOf(txn[c].previous, y, Committed(c)) = txn[c].previous
          BY <1>2, <1>5, <3>2, <3>3, LeavingsFit
    <3>5. ValueOf(target[c], txn[c], Committed(c)) = txn[c].previous
          BY <1>1, <1>4, <1>5, <3>2, <3>3 DEF ValueOf, HasToMove
    <3>6. Changes(c)
          BY <1>5, <3>1, <3>4, <3>5 DEF Changes
    <3> QED
        BY <1>1, <1>2, <3>6, ChangeKeeps
  <2>2. CASE UNCHANGED <<target, txn>>
    <3>1. UNCHANGED disk
          BY <1>1, <2>2 DEF disk
    <3> QED
        BY <1>2, <3>1, DiskKept
  <2> QED
      BY <2>1, <2>2 DEF PutInPlaceFails, BreakingFault
<1> QED
    BY <1>1, <1>3, <1>6, ActivationFailedKeeps

LEMMA MappingDoesNotLoadKeeps ==
  ASSUME IInv, NEW c \in Component, MappingDoesNotLoad(c), ~broken'
  PROVE  IInv' /\ Outcome' = Outcome
<1> DEFINE x == [txn[c] EXCEPT !.previous = None]
<1>1. /\ pc = "activate" /\ (Fault \/ UNCHANGED bounds)
      /\ ActivationFailed /\ UNCHANGED <<project, config, memory>>
      /\ txn[c].state = "activation" /\ ~HasToMove(c) /\ task.at = c
      BY DEF MappingDoesNotLoad, BreakingFault
<1>2. DiskTypes /\ TransactionsFit /\ TypeOK
      BY TypesOfDisk DEF IInv
<1>3. Bounded /\ saved' = saved
      BY <1>1, <1>2, Bounds
<1>4. txn[c] \in Transaction /\ ~Committed(c) /\ Fit(target[c], txn[c], Committed(c))
      BY <1>1, <1>2, NotCommitted, FitIs DEF DiskTypes
<1>5. /\ txn[c].hadPrevious \in BOOLEAN /\ txn[c].previous \in Version \cup {None}
      /\ txn[c].previous \in Content /\ txn[c].previous # Torn /\ Committed(c) \in BOOLEAN
      BY <1>4, TransactionIs, ProjectAssumption DEF Content, Torn, Committed
<1>6. /\ x \in Transaction /\ x.previous = None /\ x.state = "activation"
      /\ x.hadPrevious = txn[c].hadPrevious
      BY <1>1, <1>4, TransactionIs
<1>7. ~txn[c].hadPrevious => txn[c].previous = None
      BY <1>1, <1>4 DEF Fit
<1>8. ValueOf(target[c], txn[c], Committed(c)) = txn[c].previous
      BY <1>1, <1>4, <1>5, <1>7 DEF ValueOf, HasToMove
<1>9. Outcome' = Outcome /\ TransactionsFit' /\ DiskTypes'
  <2>1. ASSUME NEW y \in Leavings(x),
               target' = [target EXCEPT ![c] = txn[c].previous], txn' = [txn EXCEPT ![c] = y]
        PROVE  Outcome' = Outcome /\ TransactionsFit' /\ DiskTypes'
    <3>1. /\ y \in Transaction /\ Fit(txn[c].previous, y, Committed(c))
          /\ ValueOf(txn[c].previous, y, Committed(c)) = txn[c].previous
          BY <1>2, <1>5, <1>6, <1>7, <2>1, LeavingsFit
    <3>2. Changes(c)
          BY <1>5, <1>8, <2>1, <3>1 DEF Changes
    <3> QED
        BY <1>1, <1>2, <3>2, ChangeKeeps
  <2>2. CASE target' \in {target, [target EXCEPT ![c] = task.goal[c]]} /\ UNCHANGED txn
    <3>1. c \in Members
          BY <1>1, ActivatingMember, ProjectAssumption
    <3>2. task.goal[c] \in Content /\ task.goal[c] # Torn
          BY <1>2, <3>1, TaskIs, ProjectAssumption DEF Content, Torn
    <3>3. PICK t \in {target[c], task.goal[c]} : target' = [target EXCEPT ![c] = t]
          BY <1>2, <2>2 DEF DiskTypes
    <3>4. t \in Content /\ txn' = [txn EXCEPT ![c] = txn[c]]
          BY <1>2, <2>2, <3>2 DEF DiskTypes
    <3>5. Fit(t, txn[c], Committed(c))
          BY <1>4, <3>2, <3>3 DEF Fit
    <3>6. ValueOf(t, txn[c], Committed(c)) = ValueOf(target[c], txn[c], Committed(c))
          BY <1>1, <1>4, <1>5, <1>7, <1>8 DEF ValueOf, HasToMove
    <3>7. Changes(c)
          BY <1>4, <3>3, <3>4, <3>5, <3>6 DEF Changes
    <3> QED
        BY <1>1, <1>2, <3>7, ChangeKeeps
  <2>3. NoTransaction \in Leavings(x)
        BY DEF Leavings
  <2> QED
      BY <2>1, <2>2, <2>3 DEF MappingDoesNotLoad, BreakingFault
<1> QED
    BY <1>1, <1>3, <1>9, ActivationFailedKeeps

LEMMA RejectKeeps ==
  ASSUME IInv, Reject
  PROVE  IInv' /\ Outcome' = Outcome
<1>1. /\ pc = "activate" /\ pc' = "undo" /\ task' = task /\ UNCHANGED <<disk, memory>>
      /\ UNCHANGED bounds
      BY DEF Reject, Activated
<1>2. DiskTypes /\ TransactionsFit /\ TypeOK
      BY TypesOfDisk DEF IInv
<1>3. /\ Outcome' = Outcome /\ TransactionsFit' /\ DiskTypes' /\ Bounded /\ saved' = saved
      /\ UNCHANGED <<project, config>> /\ UNCHANGED memory
      BY <1>1, <1>2, DiskKept, Bounds
<1>4. /\ Members # {} /\ ToSet(task.done) \subseteq Members /\ SameCommand /\ task' \in Task
      BY <1>1, <1>2 DEF IInv, CommandsRemember, Recovering, SameCommand, TypeOK
<1>5. /\ Outcome'.components = task.view.components
      /\ Remaining \subseteq saved
      /\ settings' = Showing /\ routes' = task.routes
      BY <1>1, <1>3, <1>4, BeforeIs DEF Before, memory
<1>6. /\ IsImport =>
           /\ project' = [state |-> "prepared", previous |-> task.settings,
                          target |-> task.config, members |-> Members]
           /\ config' \in Remaining
      /\ ~IsImport => project'.state = "none" /\ config' = task.view.config
      BY <1>1, <1>3 DEF IInv, ProjectFits, ConfigFits
<1> QED
    BY <1>1, <1>3, <1>4, <1>5, <1>6, TakingBackKeeps

-----------------------------------------------------------------------------
\* Switching the memory, and the commit point.

Requested == IF Members = {} \/ pc = "idle" THEN {} ELSE {[goal |-> task.goal, config |-> task.config]}

LEMMA Remembering ==
  ASSUME IInv, Members # {}, SameCommand, task' \in Task, pc' \in Pcs \ {"down"},
         ToSet(task'.done) \subseteq Members, DiskTypes', Bounded, saved' \subseteq Config,
         routes' \in Installed, settings' \in Config
  PROVE  /\ TypeOK' /\ CommandsRemember' /\ Members' = Members /\ IsImport' = IsImport
         /\ Remaining' = Remaining /\ Showing' = Showing
<1>1. SameTask
      BY SameTaskIs
<1>2. TypeOK'
      BY DEF TypeOK, DiskTypes, Bounded, Pcs
<1>3. /\ task.view \in View /\ task.settings \in Config /\ task.routes = task.view.components
      /\ IsImport \/ \E c \in Component : Members = {c}
      BY DEF IInv, CommandsRemember
<1> QED
    BY <1>1, <1>2, <1>3 DEF CommandsRemember, SameCommand, SameTask

\* A command that is under way: its members and its memory.
LEMMA UnderWay ==
  ASSUME IInv, pc \notin Recovering \cup {"down", "idle"}
  PROVE  /\ Members # {} /\ ToSet(task.done) \subseteq Members /\ TypeOK
         /\ DiskTypes /\ TransactionsFit
         /\ task.view \in View /\ task.settings \in Config /\ task.routes = task.view.components
         /\ task.routes \in Installed
         /\ task.goal \in [Members -> Version \cup {None}] /\ Members \subseteq Component
<1>1. /\ Members # {} /\ ToSet(task.done) \subseteq Members /\ TypeOK
      /\ task.view \in View /\ task.settings \in Config /\ task.routes = task.view.components
      BY DEF IInv, CommandsRemember
<1>2. DiskTypes /\ TransactionsFit
      BY TypesOfDisk DEF IInv
<1>3. task.routes \in Installed
      BY <1>1 DEF View
<1> QED
    BY <1>1, <1>2, <1>3, TaskIs

LEMMA SwitchRoutesKeeps ==
  ASSUME IInv, SwitchRoutes
  PROVE  IInv' /\ Outcome' = Outcome
<1>1. /\ pc = "activate" /\ ToSet(task.done) = Members /\ task' = task /\ UNCHANGED <<disk, settings>>
      /\ UNCHANGED bounds /\ pc' = IF IsImport THEN "config" ELSE "commit"
      /\ routes' = [c \in Component |-> IF c \in Members THEN task.goal[c] ELSE routes[c]]
      BY DEF SwitchRoutes, Activated
<1>2. /\ Members # {} /\ TypeOK /\ DiskTypes /\ TransactionsFit /\ task.routes \in Installed
      /\ task.goal \in [Members -> Version \cup {None}] /\ Members \subseteq Component
      BY <1>1, UnderWay DEF Recovering
<1>3. /\ Outcome' = Outcome /\ TransactionsFit' /\ DiskTypes' /\ UNCHANGED <<target, txn, project, config>>
      BY <1>1, <1>2, DiskKept
<1>4. /\ Outcome.components = task.view.components /\ Remaining \subseteq saved
      /\ settings = Showing /\ settings = task.settings /\ routes = task.routes
      BY <1>1, <1>2, BeforeIs, NothingKept DEF Before
<1>5. Bounded /\ saved' = saved
      BY <1>1, <1>2, Bounds
<1>6. /\ TypeOK' /\ CommandsRemember' /\ Members' = Members /\ IsImport' = IsImport
      /\ Remaining' = Remaining /\ Showing' = Showing
  <2>1. routes' \in Installed
        BY <1>1, <1>2, <1>4 DEF Installed
  <2>2. SameCommand /\ task' \in Task /\ ToSet(task'.done) \subseteq Members /\ saved' \subseteq Config
        /\ settings' \in Config /\ pc' \in Pcs \ {"down"}
        BY <1>1, <1>2, <1>5 DEF TypeOK, SameCommand, Pcs
  <2> QED
      BY <1>2, <1>3, <1>5, <2>1, <2>2, Remembering
<1>7. RecoveriesSettle' /\ ReportsAreTrue' /\ RoutesMatchDisk'
      BY <1>1 DEF RecoveriesSettle, ReportsAreTrue, RoutesMatchDisk, Recovering
<1>8. NothingShowsBefore'
      BY <1>1, <1>3, <1>4, <1>5, <1>6 DEF NothingShowsBefore, Recovering, Switched, Before
<1>9. ProjectFits'
      BY <1>1, <1>3, <1>6 DEF IInv, ProjectFits
<1>10. ConfigFits'
      BY <1>1, <1>3, <1>4, <1>5, <1>6 DEF IInv, ConfigFits, Remaining
<1>11. MembersInPlace'
  <2>1. \A c \in Members : target[c] = task.goal[c]
        BY <1>1 DEF IInv, MembersInPlace
  <2>2. routes' = [c \in Component |-> IF c \in Members THEN task.goal[c] ELSE task.routes[c]]
        BY <1>1, <1>4
  <2>3. ToSet(task'.done) = Members'
        BY <1>1, <1>6
  <2> QED
      BY <1>1, <1>3, <1>4, <1>6, <2>1, <2>2, <2>3 DEF MembersInPlace
<1> QED
    BY <1>3, <1>6, <1>7, <1>8, <1>9, <1>10, <1>11 DEF IInv

LEMMA SwitchConfigKeeps ==
  ASSUME IInv, SwitchConfig
  PROVE  IInv' /\ Outcome' = Outcome
<1>1. /\ pc = "config" /\ pc' = "mark" /\ task' = task /\ UNCHANGED <<target, txn, project, routes>>
      /\ UNCHANGED bounds /\ config' = task.config /\ settings' = task.config
      BY DEF SwitchConfig
<1>2. /\ Members # {} /\ ToSet(task.done) \subseteq Members /\ TypeOK /\ DiskTypes /\ TransactionsFit
      BY <1>1, UnderWay DEF Recovering
<1>3. IsImport /\ task.config \in Config
      BY <1>1, <1>2, TaskIs DEF IInv, ProjectFits, IsImport
<1>4. project.state = "prepared"
      BY <1>1, <1>3 DEF IInv, ProjectFits
<1>5. /\ Outcome' = Outcome /\ TransactionsFit' /\ DiskTypes'
  <2>1. \A c \in Component : Committed(c)' = Committed(c)
        BY <1>1 DEF Committed
  <2>2. Outcome' = Outcome
        BY <1>1, <1>4, <2>1, OutcomeIs, OutcomeIsAfter DEF ConfigOf
  <2> QED
      BY <1>1, <1>2, <1>3, <2>2 DEF TransactionsFit, Committed, DiskTypes
<1>6. Bounded /\ saved' = saved
      BY <1>1, <1>2, Bounds
<1>7. /\ TypeOK' /\ CommandsRemember' /\ Members' = Members /\ IsImport' = IsImport
      /\ Remaining' = Remaining /\ Showing' = Showing
  <2>1. SameCommand /\ task' \in Task /\ ToSet(task'.done) \subseteq Members /\ saved' \subseteq Config
        /\ settings' \in Config /\ routes' \in Installed /\ pc' \in Pcs \ {"down"}
        BY <1>1, <1>2, <1>3, <1>6 DEF TypeOK, SameCommand, Pcs
  <2> QED
      BY <1>2, <1>5, <1>6, <2>1, Remembering
<1>8. RecoveriesSettle' /\ ReportsAreTrue' /\ RoutesMatchDisk'
      BY <1>1 DEF RecoveriesSettle, ReportsAreTrue, RoutesMatchDisk, Recovering
<1>9. NothingShowsBefore'
      BY <1>1, <1>5, <1>6, <1>7 DEF IInv, NothingShowsBefore, Recovering, Switched, Before
<1>10. ProjectFits'
      BY <1>1, <1>7 DEF IInv, ProjectFits
<1>11. ConfigFits'
      BY <1>1, <1>5, <1>6, <1>7 DEF IInv, ConfigFits
<1>12. MembersInPlace'
      BY <1>1, <1>5, <1>7 DEF IInv, MembersInPlace, Switched
<1> QED
    BY <1>5, <1>7, <1>8, <1>9, <1>10, <1>11, <1>12 DEF IInv

LEMMA SwitchConfigFailsKeeps ==
  ASSUME IInv, SwitchConfigFails
  PROVE  IInv' /\ Outcome' = Outcome
<1>1. /\ pc = "config" /\ pc' = "undo" /\ task' = task /\ UNCHANGED <<disk, settings>>
      /\ UNCHANGED bounds /\ routes' = task.routes
      BY DEF SwitchConfigFails
<1>2. /\ Members # {} /\ ToSet(task.done) \subseteq Members /\ TypeOK /\ DiskTypes /\ TransactionsFit
      BY <1>1, UnderWay DEF Recovering
<1>3. /\ Outcome' = Outcome /\ TransactionsFit' /\ DiskTypes' /\ Bounded /\ saved' = saved
      /\ UNCHANGED <<project, config>>
      BY <1>1, <1>2, DiskKept, Bounds
<1>4. /\ Outcome.components = task.view.components /\ Remaining \subseteq saved
      /\ settings = Showing
      BY <1>1, <1>2 DEF IInv, NothingShowsBefore, Before, Switched
<1>5. /\ IsImport
      /\ project' = [state |-> "prepared", previous |-> task.settings,
                     target |-> task.config, members |-> Members]
      /\ config' \in Remaining
      BY <1>1, <1>3 DEF IInv, ProjectFits, ConfigFits
<1>6. SameCommand /\ task' \in Task
      BY <1>1, <1>2 DEF SameCommand, TypeOK
<1> QED
    BY <1>1, <1>2, <1>3, <1>4, <1>5, <1>6, TakingBackKeeps

\* RejectAtLast and MarkFails.
LEMMA RevertKeeps ==
  ASSUME IInv, pc = "mark", Revert, UNCHANGED <<target, txn, project>>, Bounded
  PROVE  /\ IInv' /\ Outcome' = Outcome /\ pc' = "undo" /\ Requested' = Requested
         /\ saved' = saved \/ saved' = saved \cup {task.config}
<1>1. /\ Members # {} /\ ToSet(task.done) \subseteq Members /\ TypeOK /\ DiskTypes /\ TransactionsFit
      /\ task.settings \in Config
      BY UnderWay DEF Recovering
<1>2. /\ IsImport
      /\ project = [state |-> "prepared", previous |-> task.settings,
                    target |-> task.config, members |-> Members]
      /\ config = task.config /\ settings = task.config /\ task.config \in Config
      BY <1>1, TaskIs DEF IInv, ProjectFits, ConfigFits, IsImport
<1>3. ~task.kept /\ Showing = task.settings /\ Remaining = {task.view.config, task.settings}
      BY NothingKept
<1>4. Outcome.components = task.view.components /\ Remaining \subseteq saved
      BY <1>1 DEF IInv, NothingShowsBefore, Before
<1>5. pc' = "undo" /\ routes' = task.routes /\ config' \in Config
      BY <1>1, <1>2 DEF Revert
<1>6. /\ Outcome' = Outcome /\ TransactionsFit' /\ DiskTypes'
  <2>1. \A c \in Component : Committed(c)' = Committed(c)
        BY DEF Committed
  <2>2. Outcome' = Outcome
        BY <1>2, <2>1, OutcomeIs, OutcomeIsAfter DEF ConfigOf
  <2> QED
      BY <1>1, <1>5, <2>2 DEF TransactionsFit, Committed, DiskTypes
<1>7. CASE config' = task.settings /\ settings' = task.settings /\ UNCHANGED <<task, saved>>
  <2>1. SameCommand /\ task' \in Task
        BY <1>1, <1>7 DEF SameCommand, TypeOK
  <2>2. config' \in Remaining
        BY <1>3, <1>7
  <2>3. IInv'
        BY <1>1, <1>2, <1>3, <1>4, <1>5, <1>6, <1>7, <2>1, <2>2, TakingBackKeeps
  <2>4. Requested' = Requested
        BY <1>5, <1>7 DEF Requested, Members
  <2> QED
      BY <1>5, <1>6, <1>7, <2>3, <2>4
<1>8. CASE /\ UNCHANGED <<config, settings>> /\ task' = [task EXCEPT !.kept = TRUE]
           /\ saved' = saved \cup {task.config}
  <2>1. /\ task' \in Task /\ task'.goal = task.goal /\ task'.config = task.config
        /\ task'.routes = task.routes /\ task'.settings = task.settings /\ task'.view = task.view
        /\ task'.done = task.done /\ task'.kept = TRUE
        BY <1>1, <1>8 DEF TypeOK, Task
  <2>2. Remaining' = Remaining \cup {task.config} /\ Showing' = task.config
        BY <1>3, <2>1 DEF Remaining, Showing
  <2>3. /\ Remaining' \subseteq saved' /\ saved' \subseteq Config
        /\ settings' = Showing' /\ config' \in Remaining'
        BY <1>1, <1>2, <1>4, <1>8, <2>2 DEF TypeOK
  <2>4. IInv'
        BY <1>1, <1>2, <1>4, <1>5, <1>6, <2>1, <2>3, TakesBack
  <2>5. Requested' = Requested
        BY <1>5, <2>1 DEF Requested, Members
  <2> QED
      BY <1>5, <1>6, <1>8, <2>4, <2>5
<1> QED
    BY <1>7, <1>8 DEF Revert

LEMMA MarkCommittedKeeps ==
  ASSUME IInv, MarkCommitted
  PROVE  /\ IInv' /\ Outcome'.config = task.config
         /\ Outcome'.components = [c \in Component |-> IF c \in Members THEN task.goal[c]
                                                       ELSE Outcome.components[c]]
<1>1. /\ pc = "mark" /\ pc' = "commit" /\ task' = task /\ project' = Marked /\ saved' = {task.config}
      /\ UNCHANGED <<target, txn, config, memory, faults, crashes, tasks, broken>>
      BY DEF MarkCommitted
<1>2. /\ Members # {} /\ ToSet(task.done) \subseteq Members /\ TypeOK /\ DiskTypes /\ TransactionsFit
      /\ Members \subseteq Component /\ task.goal \in [Members -> Version \cup {None}]
      BY <1>1, UnderWay DEF Recovering
<1>3. /\ IsImport /\ task.config \in Config
      /\ project = [state |-> "prepared", previous |-> task.settings,
                    target |-> task.config, members |-> Members]
      BY <1>1, <1>2, TaskIs DEF IInv, ProjectFits, IsImport
<1>4. /\ project'.state = "committed" /\ project'.target = task.config /\ project'.members = Members
      /\ project'.previous = project.previous /\ project' \in Project
      BY <1>1, <1>2, <1>3 DEF Marked, DiskTypes, Project
<1>5. \A c \in Component : Committed(c)' = (c \in Members) /\ ~Committed(c)
      BY <1>3, <1>4 DEF Committed
<1>6. \A c \in Members : target[c] = task.goal[c] /\ task.goal[c] # Torn
      BY <1>1, <1>2, ProjectAssumption DEF IInv, MembersInPlace, Switched, Torn
<1>7. /\ Outcome'.config = task.config
      /\ Outcome'.components = [c \in Component |-> IF c \in Members THEN task.goal[c]
                                                    ELSE Outcome.components[c]]
  <2>1. \A c \in Component : ValueOf(target'[c], txn'[c], Committed(c)') =
                               IF c \in Members THEN task.goal[c] ELSE Outcome.components[c]
        BY <1>1, <1>5, <1>6, OutcomeIs DEF ValueOf
  <2> QED
      BY <1>4, <2>1, OutcomeIsAfter DEF ConfigOf
<1>8. TransactionsFit' /\ DiskTypes'
  <2>1. \A c \in Component : Fit(target'[c], txn'[c], Committed(c)')
        BY <1>1, <1>2, <1>5, <1>6, FitIs DEF Fit
  <2>2. {project'.previous, project'.target} \subseteq Config
        BY <1>2, <1>3, <1>4 DEF TransactionsFit
  <2> QED
      BY <1>1, <1>2, <1>4, <2>1, <2>2, FitIsAfter DEF DiskTypes
<1>9. /\ TypeOK' /\ CommandsRemember' /\ Members' = Members /\ IsImport' = IsImport
      /\ Remaining' = Remaining /\ Showing' = Showing
  <2>1. /\ SameCommand /\ task' \in Task /\ ToSet(task'.done) \subseteq Members /\ saved' \subseteq Config
        /\ settings' \in Config /\ routes' \in Installed /\ pc' \in Pcs \ {"down"} /\ Bounded
        BY <1>1, <1>2, <1>3 DEF TypeOK, SameCommand, Pcs, memory, Bounded
  <2> QED
      BY <1>2, <1>8, <2>1, Remembering
<1>10. RecoveriesSettle' /\ ReportsAreTrue' /\ RoutesMatchDisk' /\ NothingShowsBefore'
      BY <1>1 DEF RecoveriesSettle, ReportsAreTrue, RoutesMatchDisk, NothingShowsBefore, Recovering, Before
<1>11. ProjectFits'
      BY <1>1, <1>3, <1>4, <1>9 DEF ProjectFits
<1>12. ConfigFits'
      BY <1>1, <1>3, <1>7, <1>9 DEF IInv, ConfigFits, memory
<1>13. MembersInPlace'
  <2>1. \A c \in Component \ Members : Outcome'.components[c] = task.view.components[c]
        BY <1>1, <1>2, <1>7 DEF IInv, NothingShowsBefore, Before
  <2>2. Members \ ToSet(task.done) = {}
        BY <1>1 DEF IInv, MembersInPlace
  <2> QED
      BY <1>1, <1>3, <1>9, <2>1, <2>2 DEF IInv, MembersInPlace, Switched, memory
<1> QED
    BY <1>7, <1>8, <1>9, <1>10, <1>11, <1>12, <1>13 DEF IInv

\* A step of the commit: one transaction changes, or none; what a restart
\* makes of the members of an import does not.
LEMMA CommitStep ==
  ASSUME IInv, pc = "commit", pc' = pc, task.done # <<>>, SameCommand, task' \in Task,
         Outcome' = Outcome, TransactionsFit', DiskTypes', target' = target,
         UNCHANGED <<project, config, memory>>, Bounded, saved' = saved,
         task'.done \in {task.done, Tail(task.done)},
         \A d \in Component \ {Head(task.done)} : txn'[d] = txn[d],
         \/ task'.done = task.done /\ task'.failed = task.failed
         \/ task'.failed = task.failed /\ txn'[Head(task.done)].state \in Settled
         \/ task'.failed /\ IsImport,
         txn'[Head(task.done)].state \in Settled \/ txn' = txn
  PROVE  IInv'
<1>1. /\ Members # {} /\ ToSet(task.done) \subseteq Members /\ TypeOK /\ Members \subseteq Component
      BY UnderWay DEF Recovering
<1>2. /\ Head(task.done) \in ToSet(task.done) /\ ToSet(Tail(task.done)) \subseteq ToSet(task.done)
      /\ ToSet(task.done) \subseteq ToSet(Tail(task.done)) \cup {Head(task.done)}
      BY <1>1, TaskIs, MembersOfSequences
<1>3. Members' = Members /\ IsImport' = IsImport
      BY DEF SameCommand, Members, IsImport
<1>4. RecoveriesSettle'
      BY DEF RecoveriesSettle, Recovering
<1>5. MembersInPlace'
  <2>1. \A c \in Members \ ToSet(task'.done) : txn'[c].state \in Settled \/ (IsImport /\ task'.failed)
    <3>1. TAKE c \in Members \ ToSet(task'.done)
    <3>2. CASE c # Head(task.done)
      <4>1. c \notin ToSet(task.done) /\ txn'[c] = txn[c]
            BY <1>1, <1>2, <3>2
      <4>2. txn[c].state \in Settled \/ (IsImport /\ task.failed)
            BY <4>1 DEF IInv, MembersInPlace
      <4> QED
          BY <4>1, <4>2
    <3>3. CASE c = Head(task.done)
          BY <1>2, <3>3
    <3> QED
        BY <3>2, <3>3
  <2>2. ~IsImport => \A c \in Members :
          txn'[c].state = "activation" => Outcome'.components[c] = task.view.components[c]
    <3>1. SUFFICES ASSUME ~IsImport, NEW c \in Members, txn'[c].state = "activation"
                   PROVE  Outcome.components[c] = task.view.components[c]
          OBVIOUS
    <3>2. txn[c].state = "activation"
          BY <1>1, <3>1 DEF Settled
    <3> QED
        BY <3>1, <3>2 DEF IInv, MembersInPlace
  <2> QED
      BY <1>3, <2>1, <2>2 DEF IInv, MembersInPlace, Switched, SameCommand, memory
<1> QED
    BY <1>1, <1>2, <1>4, <1>5, Steady

LEMMA CommitMemberKeeps ==
  ASSUME IInv, CommitMember
  PROVE  /\ IInv' /\ task' = task /\ pc' = "commit" /\ saved' = saved
         /\ IsImport => Outcome' = Outcome
         /\ ~IsImport => Outcome'.config = Outcome.config
         /\ ~IsImport => Outcome'.components = [c \in Component |-> IF c \in Members THEN task.goal[c]
                                                                    ELSE Outcome.components[c]]
<1> DEFINE h == Head(task.done)
<1>1. /\ pc = "commit" /\ pc' = pc /\ task.done # <<>> /\ MarkTransaction(h) /\ task' = task
      /\ UNCHANGED <<project, config, memory>> /\ UNCHANGED bounds
      BY DEF CommitMember
<1>2. /\ Members # {} /\ ToSet(task.done) \subseteq Members /\ TypeOK /\ DiskTypes /\ TransactionsFit
      /\ Members \subseteq Component /\ task.goal \in [Members -> Version \cup {None}]
      BY <1>1, UnderWay DEF Recovering
<1>3. h \in ToSet(task.done) /\ h \in Members /\ h \in Component
      BY <1>1, <1>2, TaskIs, MembersOfSequences
<1>4. /\ txn'[h].state = "committed" /\ target' = target /\ txn' \in [Component -> Transaction]
      /\ \A d \in Component \ {h} : txn'[d] = txn[d]
      /\ Committed(h) => Changes(h)
      BY <1>1, <1>2, <1>3, MarkChanges
<1>5. Bounded /\ saved' = saved /\ SameCommand /\ task' \in Task
      BY <1>1, <1>2, Bounds DEF SameCommand, TypeOK
<1>6. CASE IsImport
  <2>1. Committed(h)
        BY <1>1, <1>3, <1>6 DEF IInv, ProjectFits, Committed
  <2>2. Outcome' = Outcome /\ TransactionsFit' /\ DiskTypes'
        BY <1>1, <1>2, <1>3, <1>4, <2>1, ChangeKeeps
  <2>3. IInv'
        BY <1>1, <1>3, <1>4, <1>5, <2>2, CommitStep DEF Settled
  <2> QED
      BY <1>1, <1>5, <1>6, <2>2, <2>3
<1>7. CASE ~IsImport
  <2>1. project.state = "none" /\ project' = project /\ \A d \in Component : ~Committed(d) /\ ~Committed(d)'
        BY <1>1, <1>7 DEF IInv, ProjectFits, Committed
  <2>2. PICK m \in Component : Members = {m}
        BY <1>2, <1>7 DEF IInv, CommandsRemember
  <2>3. h = m /\ Members = {h}
        BY <1>3, <2>2
  <2>4. target[h] = task.goal[h] /\ task.goal[h] # Torn
        BY <1>1, <1>2, <1>3, ProjectAssumption DEF IInv, MembersInPlace, Switched, Torn
  <2>5. \A d \in Component : ValueOf(target'[d], txn'[d], Committed(d)') =
                               IF d \in Members THEN task.goal[d] ELSE Outcome.components[d]
    <3>1. TAKE d \in Component
    <3>2. CASE d = h
          BY <1>4, <2>3, <2>4, <3>2 DEF ValueOf
    <3>3. CASE d # h
          BY <1>4, <2>1, <2>3, <3>3, OutcomeIs DEF ValueOf
    <3> QED
        BY <3>2, <3>3
  <2>6. /\ Outcome'.config = Outcome.config
        /\ Outcome'.components = [c \in Component |-> IF c \in Members THEN task.goal[c]
                                                      ELSE Outcome.components[c]]
        BY <1>1, <2>5, OutcomeIs, OutcomeIsAfter
  <2>7. TransactionsFit' /\ DiskTypes'
    <3>1. \A d \in Component : Fit(target'[d], txn'[d], Committed(d)')
      <4>1. TAKE d \in Component
      <4>2. CASE d = h
            BY <1>4, <2>4, <4>2 DEF Fit
      <4>3. CASE d # h
        <5>1. Fit(target[d], txn[d], Committed(d))
              BY <1>2, FitIs
        <5> QED
            BY <1>4, <2>1, <4>3, <5>1 DEF Fit
      <4> QED
          BY <4>2, <4>3
    <3> QED
        BY <1>1, <1>2, <1>4, <3>1, FitIs, FitIsAfter DEF DiskTypes
  <2>8. /\ TypeOK' /\ CommandsRemember' /\ Members' = Members /\ IsImport' = IsImport
        /\ Remaining' = Remaining /\ Showing' = Showing
    <3>1. /\ ToSet(task'.done) \subseteq Members /\ saved' \subseteq Config
          /\ settings' \in Config /\ routes' \in Installed /\ pc' \in Pcs \ {"down"}
          BY <1>1, <1>2, <1>5 DEF TypeOK, Pcs, memory
    <3> QED
        BY <1>2, <1>5, <2>7, <3>1, Remembering
  <2>9. RecoveriesSettle' /\ ReportsAreTrue' /\ RoutesMatchDisk' /\ NothingShowsBefore'
        BY <1>1 DEF RecoveriesSettle, ReportsAreTrue, RoutesMatchDisk, NothingShowsBefore, Recovering, Before
  <2>10. ProjectFits' /\ ConfigFits'
        BY <1>1, <1>5, <1>7, <2>6, <2>8 DEF IInv, ProjectFits, ConfigFits, memory
  <2>11. MembersInPlace'
    <3>1. \A c \in Component \ Members : Outcome'.components[c] = task.view.components[c]
          BY <1>1, <2>6 DEF IInv, MembersInPlace
    <3>2. \A c \in Members : txn'[c].state \in Settled /\ txn'[c].state # "activation"
          BY <1>4, <2>3 DEF Settled
    <3> QED
        BY <1>1, <1>4, <2>8, <3>1, <3>2 DEF IInv, MembersInPlace, Switched, memory
  <2> QED
      BY <1>1, <1>5, <1>7, <2>6, <2>7, <2>8, <2>9, <2>10, <2>11 DEF IInv
<1> QED
    BY <1>6, <1>7

LEMMA CleanMemberKeeps ==
  ASSUME IInv, CleanMember
  PROVE  IInv' /\ Outcome' = Outcome
<1> DEFINE h == Head(task.done)
<1>1. /\ pc = "commit" /\ pc' = pc /\ task.done # <<>> /\ RemoveCommitted(h)
      /\ task' = [task EXCEPT !.done = Tail(@)]
      /\ UNCHANGED <<project, config, memory>> /\ UNCHANGED bounds
      BY DEF CleanMember
<1>2. /\ ToSet(task.done) \subseteq Members /\ TypeOK /\ DiskTypes /\ TransactionsFit /\ Members \subseteq Component
      BY <1>1, UnderWay DEF Recovering
<1>3. h \in Component /\ Tail(task.done) \in Seq(Component)
      BY <1>1, <1>2, TaskIs, MembersOfSequences
<1>4. Changes(h) /\ txn'[h].state = "none" /\ target' = target
      BY <1>1, <1>2, <1>3, RemoveCommittedChanges
<1>5. /\ Outcome' = Outcome /\ TransactionsFit' /\ DiskTypes'
      /\ \A d \in Component \ {h} : txn'[d] = txn[d]
      BY <1>1, <1>2, <1>3, <1>4, ChangeKeeps
<1>6. /\ SameCommand /\ task' \in Task /\ task'.done = Tail(task.done) /\ task'.failed = task.failed
      BY <1>1, <1>2, <1>3 DEF SameCommand, TypeOK, Task
<1>7. Bounded /\ saved' = saved
      BY <1>1, <1>2, Bounds
<1> QED
    BY <1>1, <1>4, <1>5, <1>6, <1>7, CommitStep DEF Settled

LEMMA CleanMemberLaterKeeps ==
  ASSUME IInv, CleanMemberLater
  PROVE  IInv' /\ Outcome' = Outcome
<1> DEFINE h == Head(task.done)
<1>1. /\ pc = "commit" /\ pc' = pc /\ task.done # <<>> /\ txn[h].state = "committed"
      /\ task' = [task EXCEPT !.done = Tail(@)] /\ UNCHANGED <<disk, memory>> /\ Fault
      BY DEF CleanMemberLater
<1>2. /\ TypeOK /\ DiskTypes /\ TransactionsFit
      BY <1>1, UnderWay DEF Recovering
<1>3. Tail(task.done) \in Seq(Component)
      BY <1>1, <1>2, TaskIs, MembersOfSequences
<1>4. /\ Outcome' = Outcome /\ TransactionsFit' /\ DiskTypes' /\ UNCHANGED <<target, txn, project, config>>
      BY <1>1, <1>2, DiskKept
<1>5. /\ SameCommand /\ task' \in Task /\ task'.done = Tail(task.done) /\ task'.failed = task.failed
      BY <1>1, <1>2, <1>3 DEF SameCommand, TypeOK, Task
<1>6. Bounded /\ saved' = saved
      BY <1>1, <1>2, Bounds
<1> QED
    BY <1>1, <1>4, <1>5, <1>6, CommitStep DEF Settled

LEMMA CommitFailsKeeps ==
  ASSUME IInv, CommitFails
  PROVE  IInv' /\ Outcome' = Outcome
<1> DEFINE h == Head(task.done)
<1>1. /\ pc = "commit" /\ task.done # <<>> /\ txn[h].state = "activation" /\ UNCHANGED <<disk, settings>>
      /\ Fault
      BY DEF CommitFails
<1>2. /\ Members # {} /\ ToSet(task.done) \subseteq Members /\ TypeOK /\ DiskTypes /\ TransactionsFit
      /\ Members \subseteq Component
      BY <1>1, UnderWay DEF Recovering
<1>3. h \in ToSet(task.done) /\ Tail(task.done) \in Seq(Component)
      BY <1>1, <1>2, TaskIs, MembersOfSequences
<1>4. /\ Outcome' = Outcome /\ TransactionsFit' /\ DiskTypes' /\ UNCHANGED <<target, txn, project, config>>
      BY <1>1, <1>2, DiskKept
<1>5. Bounded /\ saved' = saved
      BY <1>1, <1>2, Bounds
<1>6. CASE IsImport
  <2>1. /\ task' = [task EXCEPT !.done = Tail(@), !.failed = TRUE] /\ UNCHANGED <<pc, routes>>
        BY <1>6 DEF CommitFails
  <2>2. /\ SameCommand /\ task' \in Task /\ task'.done = Tail(task.done) /\ task'.failed
        BY <1>2, <1>3, <2>1 DEF SameCommand, TypeOK, Task
  <2> QED
      BY <1>1, <1>4, <1>5, <1>6, <2>1, <2>2, CommitStep DEF memory
<1>7. CASE ~IsImport
  <2>1. /\ pc' = "undo" /\ task' = [task EXCEPT !.retried = TRUE] /\ routes' = task.routes
        BY <1>7 DEF CommitFails
  <2>2. /\ SameCommand /\ task' \in Task /\ task'.done = task.done
        BY <1>2, <2>1 DEF SameCommand, TypeOK, Task
  <2>3. Outcome.components = task.view.components
    <3>1. PICK m \in Component : Members = {m}
          BY <1>2, <1>7 DEF IInv, CommandsRemember
    <3>2. \A c \in Component : Outcome.components[c] = task.view.components[c]
          BY <1>1, <1>2, <1>3, <1>7, <3>1 DEF IInv, MembersInPlace
    <3>3. /\ Outcome.components = [c \in Component |-> Outcome.components[c]]
          BY OutcomeIs
    <3>4. task.view.components = [c \in Component |-> task.view.components[c]]
          BY <1>2 DEF IInv, CommandsRemember, View, Installed
    <3> QED
        BY <3>2, <3>3, <3>4
  <2>4. /\ config' = task.view.config /\ settings' = Showing
        /\ Remaining \subseteq saved /\ project'.state = "none"
        BY <1>1, <1>4, <1>7, NothingKept DEF IInv, ConfigFits, ProjectFits
  <2> QED
      BY <1>1, <1>2, <1>4, <1>5, <1>7, <2>1, <2>2, <2>3, <2>4, TakingBackKeeps
<1> QED
    BY <1>6, <1>7

-----------------------------------------------------------------------------
\* The end of a command.

\* What a command that has committed leaves to a restart.
AllSwitched(view) ==
  /\ view.components = [c \in Component |-> IF c \in Members THEN task.goal[c] ELSE task.view.components[c]]
  /\ IsImport => view.config = task.config

LEMMA CommittedIs ==
  ASSUME IInv, pc \in {"commit", "finish"}, \/ pc = "commit" /\ task.done = <<>>
                                            \/ pc = "finish"
  PROVE  AllSwitched(Outcome) /\ Outcome.config \in saved
<1>1. Members \subseteq Component
      BY UnderWay DEF Recovering
<1>2. \A c \in Members : txn[c].state \in Settled \/ Committed(c)
  <2>1. CASE pc = "commit"
    <3>1. ToSet(task.done) = {}
          BY <2>1, NoMembers
    <3> QED
        BY <2>1, <3>1 DEF IInv, MembersInPlace, ProjectFits, Committed
  <2>2. CASE pc = "finish"
        BY <2>2 DEF IInv, MembersInPlace
  <2> QED
      BY <2>1, <2>2
<1>3. \A c \in Component : Outcome.components[c] =
        IF c \in Members THEN task.goal[c] ELSE task.view.components[c]
  <2>1. \A c \in Members : Outcome.components[c] = task.goal[c]
        BY <1>1, <1>2, OutcomeIs DEF IInv, MembersInPlace, Switched, ValueOf, Settled
  <2> QED
      BY <2>1 DEF IInv, MembersInPlace
<1>4. Outcome.components = [c \in Component |-> Outcome.components[c]]
      BY OutcomeIs
<1>5. IsImport => Outcome.config = task.config
      BY OutcomeIs DEF IInv, ProjectFits, ConfigFits, ConfigOf
<1> QED
    BY <1>3, <1>4, <1>5 DEF AllSwitched, IInv, ConfigFits

LEMMA SuccessKeeps ==
  ASSUME IInv, pc \in {"commit", "finish"}, pc' = "idle", UNCHANGED memory,
         SameCommand, task' \in Task, task'.answer = "ok", task'.done = task.done,
         TransactionsFit', DiskTypes', Bounded, saved' = saved,
         AllSwitched(Outcome'), Outcome'.config \in saved
  PROVE  IInv'
<1>1. /\ Members # {} /\ ToSet(task.done) \subseteq Members /\ TypeOK /\ Members \subseteq Component
      /\ task.routes = task.view.components
      BY UnderWay DEF Recovering
<1>2. /\ TypeOK' /\ CommandsRemember' /\ Members' = Members /\ IsImport' = IsImport
      /\ Remaining' = Remaining /\ Showing' = Showing
  <2>1. /\ saved' \subseteq Config /\ settings' \in Config /\ routes' \in Installed /\ pc' \in Pcs \ {"down"}
        BY <1>1 DEF TypeOK, Pcs, memory
  <2> QED
      BY <1>1, <2>1, Remembering
<1>3. RecoveriesSettle' /\ MembersInPlace' /\ NothingShowsBefore' /\ ProjectFits'
      BY DEF RecoveriesSettle, MembersInPlace, NothingShowsBefore, ProjectFits, Recovering, Switched, Before
<1>4. ConfigFits'
      BY DEF IInv, ConfigFits, SameCommand, memory
<1>5. routes' = Outcome'.components
      BY <1>1 DEF IInv, MembersInPlace, Switched, AllSwitched, memory
<1>6. ReportsAreTrue'
  <2>1. \A c \in Members : Outcome'.components[c] = task.goal[c]
        BY <1>1 DEF AllSwitched
  <2> QED
      BY <1>2, <2>1 DEF ReportsAreTrue, SameCommand, AllSwitched
<1> QED
    BY <1>2, <1>3, <1>4, <1>5, <1>6 DEF IInv, RoutesMatchDisk

LEMMA CommitEndsKeeps ==
  ASSUME IInv, CommitEnds
  PROVE  IInv' /\ Outcome' = Outcome
<1>1. /\ pc = "commit" /\ task.done = <<>> /\ UNCHANGED <<disk, memory>> /\ UNCHANGED bounds
      BY DEF CommitEnds
<1>2. /\ Members # {} /\ ToSet(task.done) \subseteq Members /\ TypeOK /\ DiskTypes /\ TransactionsFit
      BY <1>1, UnderWay DEF Recovering
<1>3. /\ Outcome' = Outcome /\ TransactionsFit' /\ DiskTypes' /\ UNCHANGED <<target, txn, project, config>>
      BY <1>1, <1>2, DiskKept
<1>4. Bounded /\ saved' = saved
      BY <1>1, <1>2, Bounds
<1>5. AllSwitched(Outcome) /\ Outcome.config \in saved
      BY <1>1, CommittedIs
<1>6. CASE IsImport /\ ~task.failed
  <2>1. pc' = "finish" /\ task' = task /\ SameCommand /\ task' \in Task
        BY <1>2, <1>6 DEF CommitEnds, SameCommand, TypeOK
  <2>2. /\ TypeOK' /\ CommandsRemember' /\ Members' = Members /\ IsImport' = IsImport
        /\ Remaining' = Remaining /\ Showing' = Showing
    <3>1. /\ saved' \subseteq Config /\ settings' \in Config /\ routes' \in Installed /\ pc' \in Pcs \ {"down"}
          BY <1>1, <1>2, <1>4, <2>1 DEF TypeOK, Pcs, memory
    <3> QED
        BY <1>2, <1>3, <1>4, <2>1, <3>1, Remembering
  <2>3. RecoveriesSettle' /\ NothingShowsBefore' /\ ReportsAreTrue' /\ RoutesMatchDisk'
        BY <2>1 DEF RecoveriesSettle, NothingShowsBefore, ReportsAreTrue, RoutesMatchDisk, Recovering, Before
  <2>4. ProjectFits' /\ ConfigFits'
        BY <1>1, <1>3, <1>4, <1>6, <2>1, <2>2 DEF IInv, ProjectFits, ConfigFits, memory
  <2>5. MembersInPlace'
    <3>1. \A c \in Members : txn[c].state \in Settled
          BY <1>1, <1>6, NoMembers DEF IInv, MembersInPlace
    <3> QED
        BY <1>1, <1>3, <2>1, <2>2, <3>1 DEF IInv, MembersInPlace, Switched, memory
  <2> QED
      BY <1>3, <2>2, <2>3, <2>4, <2>5 DEF IInv
<1>7. CASE ~(IsImport /\ ~task.failed)
  <2>1. /\ pc' = "idle" /\ SameCommand /\ task' \in Task /\ task'.answer = "ok" /\ task'.done = task.done
        BY <1>2, <1>7 DEF CommitEnds, Answer, SameCommand, TypeOK, Task
  <2>2. AllSwitched(Outcome') /\ Outcome'.config \in saved /\ UNCHANGED memory
        BY <1>1, <1>3, <1>5
  <2> QED
      BY <1>1, <1>3, <1>4, <2>1, <2>2, SuccessKeeps
<1> QED
    BY <1>6, <1>7

LEMMA UndoKeeps ==
  ASSUME IInv, Undo
  PROVE  IInv' /\ Outcome' = Outcome
<1> DEFINE c == Last(task.done)
<1>1. /\ pc = "undo" /\ pc' = pc /\ task.done # <<>> /\ RollbackStep(c)
      /\ task' = IF txn'[c].state # "none" THEN task
                 ELSE [task EXCEPT !.done = Front(@), !.retried = FALSE]
      /\ UNCHANGED <<project, config, memory>> /\ UNCHANGED bounds
      BY DEF Undo
<1>2. /\ ToSet(task.done) \subseteq Members /\ TypeOK /\ DiskTypes /\ TransactionsFit /\ Members \subseteq Component
      BY <1>1, UnderWay DEF Recovering
<1>3. c \in Component /\ Front(task.done) \in Seq(Component) /\ ToSet(Front(task.done)) \subseteq ToSet(task.done)
      BY <1>1, <1>2, TaskIs, MembersOfSequences
<1>4. Changes(c)
      BY <1>1, <1>2, <1>3, NotCommitted, RollbackChanges
<1>5. Outcome' = Outcome /\ TransactionsFit' /\ DiskTypes'
      BY <1>1, <1>2, <1>3, <1>4, ChangeKeeps
<1>6. SameCommand /\ task' \in Task /\ ToSet(task'.done) \subseteq ToSet(task.done)
  <2>1. CASE task' = task
        BY <1>2, <2>1 DEF SameCommand, TypeOK
  <2>2. CASE task' = [task EXCEPT !.done = Front(@), !.retried = FALSE]
    <3>1. task'.done = Front(task.done) /\ SameCommand /\ task' \in Task
          BY <1>2, <1>3, <2>2 DEF SameCommand, TypeOK, Task
    <3> QED
        BY <1>3, <3>1
  <2> QED
      BY <1>1, <2>1, <2>2
<1>7. RecoveriesSettle' /\ MembersInPlace'
      BY <1>1 DEF RecoveriesSettle, MembersInPlace, Recovering, Switched
<1>8. Bounded /\ saved' = saved
      BY <1>1, <1>2, Bounds
<1> QED
    BY <1>1, <1>5, <1>6, <1>7, <1>8, Steady

LEMMA UndoFailsOnceKeeps ==
  ASSUME IInv, UndoFailsOnce
  PROVE  IInv' /\ Outcome' = Outcome
<1>1. /\ pc = "undo" /\ pc' = pc /\ task.done # <<>> /\ UNCHANGED <<disk, memory>> /\ Fault
      /\ task' = [task EXCEPT !.failed = TRUE, !.retried = ~@,
                              !.done = IF task.retried THEN Front(@) ELSE @]
      BY DEF UndoFailsOnce
<1>2. /\ TypeOK /\ DiskTypes /\ TransactionsFit
      BY <1>1, UnderWay DEF Recovering
<1>3. Front(task.done) \in Seq(Component) /\ ToSet(Front(task.done)) \subseteq ToSet(task.done)
      /\ task.done \in Seq(Component)
      BY <1>1, <1>2, TaskIs, MembersOfSequences
<1>4. /\ Outcome' = Outcome /\ TransactionsFit' /\ DiskTypes' /\ UNCHANGED <<project, config>>
      /\ Bounded /\ saved' = saved
      BY <1>1, <1>2, DiskKept, Bounds
<1>5. SameCommand /\ task' \in Task /\ task'.done \in {task.done, Front(task.done)}
      BY <1>1, <1>2, <1>3 DEF SameCommand, TypeOK, Task
<1>6. ToSet(task'.done) \subseteq ToSet(task.done)
      BY <1>3, <1>5
<1>7. RecoveriesSettle' /\ MembersInPlace'
      BY <1>1 DEF RecoveriesSettle, MembersInPlace, Recovering, Switched
<1> QED
    BY <1>1, <1>4, <1>5, <1>6, <1>7, Steady

LEMMA UndoEndsKeeps ==
  ASSUME IInv, UndoEnds
  PROVE  IInv' /\ Outcome' = Outcome
<1>1. /\ pc = "undo" /\ task.done = <<>> /\ UNCHANGED <<disk, memory>> /\ UNCHANGED bounds
      BY DEF UndoEnds
<1>2. /\ Members # {} /\ ToSet(task.done) \subseteq Members /\ TypeOK /\ DiskTypes /\ TransactionsFit
      BY <1>1, UnderWay DEF Recovering
<1>3. /\ Outcome' = Outcome /\ TransactionsFit' /\ DiskTypes' /\ UNCHANGED <<target, txn, project, config>>
      /\ Bounded /\ saved' = saved
      BY <1>1, <1>2, DiskKept, Bounds
<1>4. /\ Outcome.components = task.view.components
      /\ Outcome.config \in Remaining
      /\ Remaining \subseteq saved
      /\ settings' = Showing /\ routes' = task.routes
      BY <1>1, <1>2, BeforeIs DEF Before, memory
<1>5. CASE MayAbort
  <2>1. pc' = "abort" /\ task' = task /\ SameCommand /\ task' \in Task /\ IsImport
        BY <1>2, <1>5 DEF UndoEnds, MayAbort, SameCommand, TypeOK
  <2>2. /\ TypeOK' /\ CommandsRemember' /\ Members' = Members /\ IsImport' = IsImport
        /\ Remaining' = Remaining /\ Showing' = Showing
    <3>1. /\ saved' \subseteq Config /\ settings' \in Config /\ routes' \in Installed /\ pc' \in Pcs \ {"down"}
          BY <1>1, <1>2, <1>3, <2>1 DEF TypeOK, Pcs, memory
    <3> QED
        BY <1>2, <1>3, <2>1, <3>1, Remembering
  <2>3. RecoveriesSettle' /\ MembersInPlace' /\ ReportsAreTrue' /\ RoutesMatchDisk'
        BY <2>1 DEF RecoveriesSettle, MembersInPlace, ReportsAreTrue, RoutesMatchDisk, Recovering, Switched
  <2>4. NothingShowsBefore'
        BY <1>3, <1>4, <2>1, <2>2 DEF NothingShowsBefore, Recovering, Switched
  <2>5. ProjectFits' /\ ConfigFits'
        BY <1>1, <1>3, <2>1, <2>2 DEF IInv, ProjectFits, ConfigFits
  <2> QED
      BY <1>3, <2>2, <2>3, <2>4, <2>5 DEF IInv
<1>6. CASE ~MayAbort
  <2>1. /\ pc' = "idle" /\ SameCommand /\ task' \in Task /\ task'.answer = "failed" /\ task'.done = task.done
        BY <1>2, <1>6 DEF UndoEnds, Answer, SameCommand, TypeOK, Task
  <2> QED
      BY <1>2, <1>3, <1>4, <2>1, FailureKeeps
<1> QED
    BY <1>5, <1>6

\* Removing a project leaves the components to their transactions.
LEMMA RemoveProjectIs ==
  ASSUME DiskTypes, TransactionsFit, project' \in {NoProject, PartialProject},
         UNCHANGED <<target, txn, config>>,
         \A c \in Component : ~Committed(c) \/ txn[c].state \in Settled
  PROVE  /\ Outcome'.components = Outcome.components /\ Outcome'.config = config
         /\ TransactionsFit' /\ DiskTypes'
         /\ project'.state \in {"none", "partial"}
<1>1. /\ project'.state \in {"none", "partial"} /\ project' \in Project
      BY DEF NoProject, PartialProject, Project
<1>2. \A c \in Component : ~Committed(c)'
      BY <1>1 DEF Committed
<1>3. \A c \in Component : ValueOf(target'[c], txn'[c], Committed(c)') = ValueOf(target[c], txn[c], Committed(c))
      BY <1>2 DEF ValueOf, Settled
<1>4. Outcome'.components = Outcome.components /\ Outcome'.config = config
      BY <1>1, <1>3, OutcomeIs, OutcomeIsAfter DEF ConfigOf
<1>5. \A c \in Component : Fit(target'[c], txn'[c], Committed(c)')
      BY <1>2, FitIs DEF Fit
<1> QED
    BY <1>1, <1>4, <1>5, FitIsAfter DEF DiskTypes

LEMMA FinishKeeps ==
  ASSUME IInv, Finish
  PROVE  /\ IInv' /\ Outcome'.components = Outcome.components
         /\ Outcome'.config \in saved /\ saved' = saved
<1>1. /\ pc \in {"finish", "abort"} /\ RemoveProject /\ UNCHANGED memory /\ UNCHANGED bounds
      /\ IF project'.state = "none"
         THEN pc' = "idle" /\ task' = [task EXCEPT !.answer = IF pc = "finish" THEN "ok" ELSE "failed"]
         ELSE pc' = pc /\ task' = task
      BY DEF Finish, Answer
<1>2. /\ Members # {} /\ ToSet(task.done) \subseteq Members /\ TypeOK /\ DiskTypes /\ TransactionsFit
      /\ IsImport
      BY <1>1, UnderWay DEF Recovering, IInv, ProjectFits
<1>3. /\ project' \in {NoProject, PartialProject} /\ UNCHANGED <<target, txn, config>>
      BY <1>1 DEF RemoveProject
<1>4. \A c \in Component : ~Committed(c) \/ txn[c].state \in Settled
      BY <1>1, <1>2 DEF IInv, ProjectFits, MembersInPlace, Committed
<1>5. /\ Outcome'.components = Outcome.components /\ Outcome'.config = config
      /\ TransactionsFit' /\ DiskTypes' /\ project'.state \in {"none", "partial"}
      BY <1>2, <1>3, <1>4, RemoveProjectIs
<1>6. Bounded /\ saved' = saved
      BY <1>1, <1>2, Bounds
<1>7. SameCommand /\ task' \in Task /\ task'.done = task.done
  <2>1. CASE task' = task
        BY <1>2, <2>1 DEF SameCommand, TypeOK
  <2>2. CASE task' = [task EXCEPT !.answer = IF pc = "finish" THEN "ok" ELSE "failed"]
        BY <1>2, <2>2 DEF SameCommand, TypeOK, Task
  <2> QED
      BY <1>1, <2>1, <2>2
<1>8. /\ TypeOK' /\ CommandsRemember' /\ Members' = Members /\ IsImport' = IsImport
      /\ Remaining' = Remaining /\ Showing' = Showing
  <2>1. /\ saved' \subseteq Config /\ settings' \in Config /\ routes' \in Installed /\ pc' \in Pcs \ {"down"}
        BY <1>1, <1>2, <1>6 DEF TypeOK, Pcs, memory
  <2> QED
      BY <1>2, <1>5, <1>6, <1>7, <2>1, Remembering
<1>9. CASE pc = "finish"
  <2>1. /\ config = task.config /\ settings = task.config /\ settings \in saved
        BY <1>2, <1>9 DEF IInv, ConfigFits
  <2>2. AllSwitched(Outcome)
        BY <1>9, CommittedIs
  <2>3. AllSwitched(Outcome') /\ Outcome'.config \in saved
        BY <1>5, <2>1, <2>2 DEF AllSwitched
  <2>4. CASE project'.state = "none"
    <3>1. task'.answer = "ok" /\ pc' = "idle"
          BY <1>1, <1>2, <1>9, <2>4 DEF TypeOK, Task
    <3> QED
        BY <1>1, <1>5, <1>6, <1>7, <1>9, <2>3, <3>1, SuccessKeeps
  <2>5. CASE project'.state # "none"
    <3>1. pc' = "finish" /\ task' = task
          BY <1>1, <1>9, <2>5
    <3>2. RecoveriesSettle' /\ NothingShowsBefore' /\ ReportsAreTrue' /\ RoutesMatchDisk'
          BY <3>1 DEF RecoveriesSettle, NothingShowsBefore, ReportsAreTrue, RoutesMatchDisk, Recovering, Before
    <3>3. ProjectFits'
          BY <1>2, <1>5, <1>8, <2>5, <3>1 DEF ProjectFits
    <3>4. ConfigFits'
          BY <1>1, <1>3, <1>6, <1>8, <1>9, <2>1, <2>3, <3>1 DEF IInv, ConfigFits, memory
    <3>5. MembersInPlace'
          BY <1>1, <1>3, <1>5, <1>8, <1>9, <3>1 DEF IInv, MembersInPlace, Switched, memory
    <3> QED
        BY <1>5, <1>6, <1>8, <2>3, <3>2, <3>3, <3>4, <3>5 DEF IInv
  <2> QED
      BY <1>5, <1>6, <2>3, <2>4, <2>5
<1>10. CASE pc = "abort"
  <2>1. /\ Outcome.components = task.view.components
        /\ Remaining \subseteq saved
        /\ settings' = Showing /\ routes' = task.routes
        BY <1>1, <1>2, <1>10, BeforeIs DEF Before, memory
  <2>2. config \in Remaining
        BY <1>2, <1>10 DEF IInv, ConfigFits
  <2>3. CASE project'.state = "none"
    <3>1. task'.answer = "failed" /\ pc' = "idle"
          BY <1>1, <1>2, <1>10, <2>3 DEF TypeOK, Task
    <3> QED
        BY <1>2, <1>5, <1>6, <1>7, <2>1, <2>2, <3>1, FailureKeeps
  <2>4. CASE project'.state # "none"
    <3>1. pc' = "abort" /\ task' = task
          BY <1>1, <1>10, <2>4
    <3>2. RecoveriesSettle' /\ ReportsAreTrue' /\ RoutesMatchDisk' /\ MembersInPlace'
          BY <3>1 DEF RecoveriesSettle, ReportsAreTrue, RoutesMatchDisk, MembersInPlace, Recovering, Switched
    <3>3. NothingShowsBefore'
          BY <1>5, <1>6, <1>8, <2>1, <3>1 DEF NothingShowsBefore, Recovering, Switched
    <3>4. ProjectFits'
          BY <1>2, <1>5, <1>8, <2>4, <3>1 DEF ProjectFits
    <3>5. ConfigFits'
          BY <1>2, <1>3, <1>5, <1>6, <1>8, <2>1, <2>2, <3>1 DEF ConfigFits
    <3> QED
        BY <1>5, <1>6, <1>8, <2>1, <2>2, <3>2, <3>3, <3>4, <3>5 DEF IInv
  <2> QED
      BY <1>5, <1>6, <2>1, <2>2, <2>3, <2>4
<1> QED
    BY <1>1, <1>9, <1>10

LEMMA FinishFailsKeeps ==
  ASSUME IInv, FinishFails
  PROVE  IInv' /\ Outcome' = Outcome
<1>1. /\ pc \in {"finish", "abort"} /\ UNCHANGED <<disk, memory>> /\ Fault /\ pc' = "idle"
      /\ task' = [task EXCEPT !.answer = IF pc = "finish" THEN "ok" ELSE "failed"]
      BY DEF FinishFails, Answer
<1>2. /\ Members # {} /\ ToSet(task.done) \subseteq Members /\ TypeOK /\ DiskTypes /\ TransactionsFit
      BY <1>1, UnderWay DEF Recovering
<1>3. /\ Outcome' = Outcome /\ TransactionsFit' /\ DiskTypes' /\ Bounded /\ saved' = saved
      BY <1>1, <1>2, DiskKept, Bounds
<1>4. /\ SameCommand /\ task' \in Task /\ task'.done = task.done
      /\ task'.answer = IF pc = "finish" THEN "ok" ELSE "failed"
      BY <1>1, <1>2 DEF SameCommand, TypeOK, Task
<1>5. CASE pc = "finish"
  <2>1. AllSwitched(Outcome') /\ Outcome'.config \in saved
        BY <1>3, <1>5, CommittedIs
  <2> QED
      BY <1>1, <1>3, <1>4, <1>5, <2>1, SuccessKeeps
<1>6. CASE pc = "abort"
  <2>1. /\ Outcome.components = task.view.components
        /\ Outcome.config \in Remaining
        /\ Remaining \subseteq saved
        /\ settings' = Showing /\ routes' = task.routes
        BY <1>1, <1>2, <1>6, BeforeIs DEF Before, memory
  <2> QED
      BY <1>1, <1>2, <1>3, <1>4, <1>6, <2>1, FailureKeeps
<1> QED
    BY <1>1, <1>5, <1>6

-----------------------------------------------------------------------------
\* The beginning of a command.

LEMMA OutcomeIsWhole ==
  ASSUME DiskTypes, TransactionsFit
  PROVE  Outcome \in View
<1>1. \A c \in Component : ValueOf(target[c], txn[c], Committed(c)) \in Version \cup {None}
  <2>1. TAKE c \in Component
  <2>2. /\ target[c] \in Content /\ txn[c] \in Transaction
        /\ Fit(target[c], txn[c], Committed(c))
        BY FitIs DEF DiskTypes
  <2>3. txn[c].previous \in Version \cup {None}
        BY <2>2, TransactionIs
  <2>4. target[c] # Torn => target[c] \in Version \cup {None}
        BY <2>2 DEF Content
  <2> QED
      BY <2>2, <2>3, <2>4 DEF Fit, ValueOf
<1>2. ConfigOf(project, config) \in Config
      BY DEF ConfigOf, TransactionsFit, DiskTypes
<1> QED
    BY <1>1, <1>2, OutcomeIs DEF View, Installed

\* No command, and a new one.
LEMMA NoTaskIs ==
  /\ NoTask \in Task /\ NoTask.goal = <<>> /\ DOMAIN NoTask.goal = {} /\ NoTask.config = None
  /\ NoTask.done = <<>> /\ NoTask.answer = "none" /\ NoTask.root = "signed" /\ NoTask.at = None
  /\ NoTask.kept = FALSE
<1>1. <<>> \in Plans /\ <<>> \in Seq(Component) /\ DOMAIN <<>> = {}
      BY DEF Plans
<1> QED
    BY <1>1 DEF NoTask, Task

LEMMA TaskRecord ==
  ASSUME NEW goal \in Plans, NEW new \in Config \cup {None}, NEW r \in Installed,
         NEW s \in Config, NEW v \in View, NEW d \in Seq(Component), NEW t,
         t = [goal |-> goal, config |-> new, root |-> "signed", at |-> None, done |-> d,
              retried |-> FALSE, failed |-> FALSE, kept |-> FALSE, answer |-> "none",
              routes |-> r, settings |-> s, view |-> v]
  PROVE  /\ t \in Task /\ t.goal = goal /\ t.config = new /\ t.routes = r
         /\ t.settings = s /\ t.view = v /\ t.done = d /\ ~t.kept
<1>1. /\ t.goal = goal /\ t.config = new /\ t.routes = r
      /\ t.settings = s /\ t.view = v /\ t.done = d /\ ~t.kept
      OBVIOUS
<1>2. t \in Task
      BY DEF Task
<1> QED
    BY <1>1, <1>2

LEMMA CommandKeeps ==
  ASSUME IInv, NEW goal \in Plans, NEW new \in Config \cup {None}, Command(goal, new),
         DOMAIN goal # {}, new # None \/ \E c \in Component : DOMAIN goal = {c}
  PROVE  /\ IInv' /\ Outcome' = Outcome /\ saved' = saved /\ pc' = "recover"
         /\ task'.goal = goal /\ task'.config = new
<1>1. /\ pc = "idle" /\ pc' = "recover" /\ tasks < MaxTasks /\ tasks' = tasks + 1
      /\ UNCHANGED <<disk, memory, faults, crashes, saved, broken>>
      /\ task' = [NoTask EXCEPT !.goal = goal, !.config = new, !.routes = routes,
                                !.settings = settings, !.view = Outcome]
      BY DEF Command
<1>2. TypeOK /\ DiskTypes /\ TransactionsFit
      BY TypesOfDisk DEF IInv
<1>3. Outcome' = Outcome /\ TransactionsFit' /\ DiskTypes' /\ UNCHANGED <<target, txn, project, config>>
      BY <1>1, <1>2, DiskKept
<1>4. Outcome \in View /\ routes = Outcome.components /\ routes \in Installed
      BY <1>1, <1>2, OutcomeIsWhole DEF IInv, RoutesMatchDisk, TypeOK
<1>5. /\ task' \in Task /\ task'.goal = goal /\ task'.config = new /\ task'.routes = routes
      /\ task'.settings = settings /\ task'.view = Outcome /\ task'.done = <<>>
      /\ ~task'.kept
  <2>1. settings \in Config
        BY <1>2 DEF TypeOK
  <2>2. PICK d : d = <<>>
        OBVIOUS
  <2>3. d \in Seq(Component)
        BY <2>2
  <2>4. task' = [goal |-> goal, config |-> new, root |-> "signed", at |-> None, done |-> d,
                 retried |-> FALSE, failed |-> FALSE, kept |-> FALSE, answer |-> "none",
                 routes |-> routes, settings |-> settings, view |-> Outcome]
    <3>1. NoTask = [goal |-> d, config |-> None, root |-> "signed", at |-> None, done |-> d,
                    retried |-> FALSE, failed |-> FALSE, kept |-> FALSE, answer |-> "none",
                    routes |-> None, settings |-> None, view |-> None]
          BY <2>2 DEF NoTask
    <3> QED
        BY <1>1, <3>1
  <2>5. /\ task' \in Task /\ task'.goal = goal /\ task'.config = new /\ task'.routes = routes
        /\ task'.settings = settings /\ task'.view = Outcome /\ task'.done = d
        /\ ~task'.kept
        BY <1>4, <2>1, <2>3, <2>4, TaskRecord
  <2> QED
      BY <2>2, <2>5
<1>6. /\ Members' = DOMAIN goal /\ IsImport' = (new # None)
      /\ Remaining' = {Outcome.config, settings} /\ Showing' = settings
      BY <1>5 DEF Members, IsImport, Remaining, Showing
<1>7. TypeOK'
      BY <1>1, <1>2, <1>3, <1>5, ProjectAssumption DEF TypeOK, DiskTypes, memory
<1>8. CommandsRemember'
  <2>1. task'.view \in View /\ task'.settings \in Config /\ task'.routes = task'.view.components
        BY <1>2, <1>4, <1>5 DEF TypeOK
  <2>2. ToSet(task'.done) \subseteq Members'
        BY <1>5, NoMembers
  <2> QED
      BY <1>1, <1>6, <2>1, <2>2 DEF CommandsRemember, Recovering
<1>9. RecoveriesSettle'
      BY <1>1, <1>5 DEF RecoveriesSettle
<1>10. NothingShowsBefore'
      BY <1>1, <1>3, <1>4, <1>5, <1>6 DEF IInv, ConfigFits, NothingShowsBefore, Switched, memory
<1>11. ProjectFits' /\ MembersInPlace' /\ ReportsAreTrue' /\ RoutesMatchDisk'
      BY <1>1 DEF ProjectFits, MembersInPlace, ReportsAreTrue, RoutesMatchDisk, Switched
<1>12. ConfigFits'
      BY <1>1, <1>3, <1>5 DEF IInv, ConfigFits
<1> QED
    BY <1>1, <1>3, <1>5, <1>7, <1>8, <1>9, <1>10, <1>11, <1>12 DEF IInv

LEMMA RefuseKeeps ==
  ASSUME IInv, Refuse
  PROVE  IInv' /\ Outcome' = Outcome
<1>1. /\ pc = "begin" /\ pc' = "idle" /\ task' = [task EXCEPT !.answer = "failed"]
      /\ UNCHANGED <<disk, memory>> /\ UNCHANGED bounds
      BY DEF Refuse, Answer
<1>2. /\ Members # {} /\ ToSet(task.done) \subseteq Members /\ TypeOK /\ DiskTypes /\ TransactionsFit
      BY <1>1, UnderWay DEF Recovering
<1>3. /\ Outcome' = Outcome /\ TransactionsFit' /\ DiskTypes' /\ Bounded /\ saved' = saved
      BY <1>1, <1>2, DiskKept, Bounds
<1>4. /\ SameCommand /\ task' \in Task /\ task'.done = task.done /\ task'.answer = "failed"
      BY <1>1, <1>2 DEF SameCommand, TypeOK, Task
<1>5. /\ Outcome.components = task.view.components
      /\ Outcome.config \in Remaining
      /\ Remaining \subseteq saved
      /\ settings' = Showing /\ routes' = task.routes
      BY <1>1, <1>2, BeforeIs DEF Before, memory
<1> QED
    BY <1>1, <1>2, <1>3, <1>4, <1>5, FailureKeeps

\* What holds when a command begins to change the files.
LEMMA BeginsWhole ==
  ASSUME IInv, pc \in {"begin", "prepare"}
  PROVE  /\ task.at = None /\ task.done = <<>> /\ ToSet(task.done) = {}
         /\ \A c \in Component : txn[c].state \in Settled
         /\ Outcome.components = task.view.components
         /\ Remaining \subseteq saved
         /\ settings = Showing /\ settings = task.settings /\ routes = task.routes
<1>1. Members # {} /\ Showing = task.settings
      BY UnderWay, NothingKept DEF Recovering
<1>2. task.done = <<>> /\ task.at = None /\ \A c \in Component : txn[c].state \in Settled
      BY DEF IInv, RecoveriesSettle
<1> QED
    BY <1>1, <1>2, NoMembers, BeforeIs DEF Before

LEMMA BeginSingleKeeps ==
  ASSUME IInv, BeginSingle
  PROVE  IInv' /\ Outcome' = Outcome
<1>1. /\ pc = "begin" /\ pc' = "activate" /\ task' = task /\ ~IsImport
      /\ UNCHANGED <<disk, memory>> /\ UNCHANGED bounds
      BY DEF BeginSingle
<1>2. /\ Members # {} /\ ToSet(task.done) \subseteq Members /\ TypeOK /\ DiskTypes /\ TransactionsFit
      BY <1>1, UnderWay DEF Recovering
<1>3. /\ Outcome' = Outcome /\ TransactionsFit' /\ DiskTypes' /\ Bounded /\ saved' = saved
      /\ UNCHANGED <<target, txn, project, config>>
      BY <1>1, <1>2, DiskKept, Bounds
<1>4. /\ task.at = None /\ ToSet(task.done) = {} /\ \A c \in Component : txn[c].state \in Settled
      /\ Outcome.components = task.view.components /\ Remaining \subseteq saved
      /\ settings = Showing /\ settings = task.settings /\ routes = task.routes
      BY <1>1, BeginsWhole
<1>5. config = task.view.config /\ project.state = "none"
      BY <1>1, <1>2 DEF IInv, RecoveriesSettle, NothingShowsBefore, ProjectFits, Before
<1>6. /\ TypeOK' /\ CommandsRemember' /\ Members' = Members /\ IsImport' = IsImport
      /\ Remaining' = Remaining /\ Showing' = Showing
  <2>1. /\ SameCommand /\ task' \in Task /\ ToSet(task'.done) \subseteq Members /\ saved' \subseteq Config
        /\ settings' \in Config /\ routes' \in Installed /\ pc' \in Pcs \ {"down"}
        BY <1>1, <1>2, <1>3 DEF TypeOK, SameCommand, Pcs, memory
  <2> QED
      BY <1>2, <1>3, <2>1, Remembering
<1>7. RecoveriesSettle' /\ ReportsAreTrue' /\ RoutesMatchDisk'
      BY <1>1 DEF RecoveriesSettle, ReportsAreTrue, RoutesMatchDisk, Recovering
<1>8. NothingShowsBefore'
      BY <1>1, <1>3, <1>4, <1>6 DEF NothingShowsBefore, Recovering, memory
<1>9. ProjectFits' /\ ConfigFits'
      BY <1>1, <1>3, <1>4, <1>5, <1>6 DEF IInv, ProjectFits, ConfigFits, Remaining, memory
<1>10. MembersInPlace'
      BY <1>1, <1>3, <1>4, <1>6 DEF MembersInPlace, Switched
<1> QED
    BY <1>3, <1>6, <1>7, <1>8, <1>9, <1>10 DEF IInv

LEMMA MakeProjectKeeps ==
  ASSUME IInv, MakeProject
  PROVE  IInv' /\ Outcome' = Outcome
<1>1. /\ pc = "begin" /\ pc' = "prepare" /\ task' = task /\ IsImport /\ project' = PartialProject
      /\ UNCHANGED <<target, txn, config, memory>> /\ UNCHANGED bounds
      BY DEF MakeProject
<1>2. /\ Members # {} /\ ToSet(task.done) \subseteq Members /\ TypeOK /\ DiskTypes /\ TransactionsFit
      BY <1>1, UnderWay DEF Recovering
<1>3. /\ task.at = None /\ task.done = <<>> /\ \A c \in Component : txn[c].state \in Settled
      /\ Outcome.components = task.view.components /\ Remaining \subseteq saved
      /\ settings = Showing /\ settings = task.settings /\ routes = task.routes
      BY <1>1, BeginsWhole
<1>4. config = task.view.config /\ config = Outcome.config /\ project.state = "none"
      BY <1>1, <1>2 DEF IInv, RecoveriesSettle, NothingShowsBefore, ProjectFits, Before
<1>5. /\ Outcome'.components = Outcome.components /\ Outcome'.config = config
      /\ TransactionsFit' /\ DiskTypes'
      BY <1>1, <1>2, <1>3, RemoveProjectIs
<1>6. Outcome' = Outcome
      BY <1>4, <1>5, OutcomeIs, OutcomeIsAfter
<1>7. Bounded /\ saved' = saved
      BY <1>1, <1>2, Bounds
<1>8. /\ TypeOK' /\ CommandsRemember' /\ Members' = Members /\ IsImport' = IsImport
      /\ Remaining' = Remaining /\ Showing' = Showing
  <2>1. /\ SameCommand /\ task' \in Task /\ ToSet(task'.done) \subseteq Members /\ saved' \subseteq Config
        /\ settings' \in Config /\ routes' \in Installed /\ pc' \in Pcs \ {"down"}
        BY <1>1, <1>2, <1>7 DEF TypeOK, SameCommand, Pcs, memory
  <2> QED
      BY <1>2, <1>5, <1>7, <2>1, Remembering
<1>9. RecoveriesSettle' /\ ReportsAreTrue' /\ RoutesMatchDisk' /\ MembersInPlace'
      BY <1>1, <1>3 DEF RecoveriesSettle, ReportsAreTrue, RoutesMatchDisk, MembersInPlace, Recovering, Switched
<1>10. NothingShowsBefore'
      BY <1>1, <1>3, <1>6, <1>7, <1>8 DEF NothingShowsBefore, Recovering, memory
<1>11. ProjectFits' /\ ConfigFits'
  <2>1. project'.state = "partial"
        BY <1>1 DEF PartialProject, NoProject
  <2> QED
      BY <1>1, <1>3, <1>4, <1>6, <1>7, <1>8, <2>1 DEF IInv, ProjectFits, ConfigFits, Remaining
<1> QED
    BY <1>5, <1>6, <1>8, <1>9, <1>10, <1>11 DEF IInv

\* What a project that is prepared leaves to a restart.
LEMMA PreparedIs ==
  ASSUME IInv, pc = "prepare", project' = Prepared, UNCHANGED <<target, txn, config>>
  PROVE  /\ Outcome'.components = Outcome.components /\ Outcome'.config = settings
         /\ TransactionsFit' /\ DiskTypes'
<1>1. /\ TypeOK /\ DiskTypes /\ TransactionsFit /\ Members \subseteq Component
      BY UnderWay DEF Recovering
<1>2. /\ task.config \in Config /\ settings \in Config /\ project.state = "partial"
      BY <1>1, TaskIs DEF IInv, ProjectFits, IsImport, TypeOK
<1>3. /\ project'.state = "prepared" /\ project'.previous = settings /\ project'.target = task.config
      /\ project' \in Project
      BY <1>1, <1>2 DEF Prepared, Project
<1>4. \A c \in Component : ~Committed(c) /\ ~Committed(c)'
      BY <1>2, <1>3 DEF Committed
<1>5. Outcome'.components = Outcome.components /\ Outcome'.config = settings
  <2>1. \A c \in Component : ValueOf(target'[c], txn'[c], Committed(c)') = ValueOf(target[c], txn[c], Committed(c))
        BY <1>4 DEF ValueOf
  <2> QED
      BY <1>3, <2>1, OutcomeIs, OutcomeIsAfter DEF ConfigOf
<1>6. \A c \in Component : Fit(target'[c], txn'[c], Committed(c)')
      BY <1>1, <1>4, FitIs DEF Fit
<1> QED
    BY <1>1, <1>2, <1>3, <1>5, <1>6, FitIsAfter DEF DiskTypes

LEMMA PrepareKeeps ==
  ASSUME IInv, Prepare
  PROVE  /\ IInv' /\ Outcome'.components = Outcome.components
         /\ Outcome'.config \in saved /\ saved' = saved
<1>1. /\ pc = "prepare" /\ pc' = "activate" /\ task' = task
      /\ project' = Prepared
      /\ UNCHANGED <<target, txn, config, memory>> /\ UNCHANGED bounds
      BY DEF Prepare
<1>2. /\ Members # {} /\ ToSet(task.done) \subseteq Members /\ TypeOK /\ DiskTypes /\ TransactionsFit
      /\ Members \subseteq Component
      BY <1>1, UnderWay DEF Recovering
<1>3. /\ task.at = None /\ ToSet(task.done) = {} /\ \A c \in Component : txn[c].state \in Settled
      /\ Outcome.components = task.view.components /\ Remaining \subseteq saved
      /\ settings = Showing /\ settings = task.settings /\ routes = task.routes
      BY <1>1, BeginsWhole
<1>4. IsImport /\ project.state = "partial" /\ config \in Remaining
      BY <1>1, <1>2 DEF IInv, ProjectFits, ConfigFits
<1>6. /\ Outcome'.components = Outcome.components /\ Outcome'.config = settings
      /\ TransactionsFit' /\ DiskTypes'
      BY <1>1, PreparedIs
<1>8. Bounded /\ saved' = saved
      BY <1>1, <1>2, Bounds
<1>9. /\ TypeOK' /\ CommandsRemember' /\ Members' = Members /\ IsImport' = IsImport
      /\ Remaining' = Remaining /\ Showing' = Showing
  <2>1. /\ SameCommand /\ task' \in Task /\ ToSet(task'.done) \subseteq Members /\ saved' \subseteq Config
        /\ settings' \in Config /\ routes' \in Installed /\ pc' \in Pcs \ {"down"}
        BY <1>1, <1>2, <1>8 DEF TypeOK, SameCommand, Pcs, memory
  <2> QED
      BY <1>2, <1>6, <1>8, <2>1, Remembering
<1>10. RecoveriesSettle' /\ ReportsAreTrue' /\ RoutesMatchDisk'
      BY <1>1 DEF RecoveriesSettle, ReportsAreTrue, RoutesMatchDisk, Recovering
<1>11. NothingShowsBefore'
      BY <1>1, <1>3, <1>6, <1>8, <1>9 DEF NothingShowsBefore, Recovering, memory
<1>12. ProjectFits'
      BY <1>1, <1>3, <1>4, <1>9 DEF ProjectFits, Prepared
<1>13. ConfigFits'
      BY <1>1, <1>3, <1>4, <1>6, <1>8, <1>9, NothingKept DEF ConfigFits, SameCommand, Remaining
<1>14. MembersInPlace'
      BY <1>1, <1>3, <1>9 DEF MembersInPlace, Switched
<1> QED
    BY <1>3, <1>6, <1>8, <1>9, <1>10, <1>11, <1>12, <1>13, <1>14 DEF IInv, Remaining

LEMMA PrepareFailsKeeps ==
  ASSUME IInv, PrepareFails
  PROVE  /\ IInv' /\ pc' = "idle" /\ saved' = saved
         /\ Outcome'.components = Outcome.components
         /\ Outcome'.config \in {Outcome.config} \cup saved
<1>1. /\ pc = "prepare" /\ pc' = "idle" /\ task' = [task EXCEPT !.answer = "failed"] /\ Fault
      /\ project' \in {NoProject, PartialProject, Prepared} /\ UNCHANGED <<target, txn, config, memory>>
      BY DEF PrepareFails, Answer
<1>2. /\ Members # {} /\ ToSet(task.done) \subseteq Members /\ TypeOK /\ DiskTypes /\ TransactionsFit
      BY <1>1, UnderWay DEF Recovering
<1>3. /\ \A c \in Component : txn[c].state \in Settled
      BY <1>1, BeginsWhole
<1>4. Outcome.config = config
      BY <1>1, OutcomeIs DEF IInv, ProjectFits, ConfigOf
<1>5. /\ Outcome'.components = Outcome.components /\ Outcome'.config \in {config, settings}
      /\ TransactionsFit' /\ DiskTypes'
  <2>1. CASE project' \in {NoProject, PartialProject}
        BY <1>1, <1>2, <1>3, <2>1, RemoveProjectIs
  <2>2. CASE project' = Prepared
        BY <1>1, <2>2, PreparedIs
  <2> QED
      BY <1>1, <2>1, <2>2
<1>6. /\ Outcome.components = task.view.components
      /\ Outcome.config \in Remaining
      /\ Remaining \subseteq saved
      /\ settings = Showing /\ settings' = Showing /\ routes' = task.routes
      BY <1>1, <1>2, BeforeIs DEF Before, memory
<1>7. settings \in Remaining
      BY <1>6 DEF Remaining, Showing
<1>8. /\ SameCommand /\ task' \in Task /\ task'.done = task.done /\ task'.answer = "failed"
      /\ Bounded /\ saved' = saved
      BY <1>1, <1>2, Bounds DEF SameCommand, TypeOK, Task
<1>9. IInv'
      BY <1>1, <1>2, <1>4, <1>5, <1>6, <1>7, <1>8, FailureKeeps
<1> QED
    BY <1>1, <1>4, <1>5, <1>6, <1>7, <1>8, <1>9

-----------------------------------------------------------------------------
\* The process is down, recovers, and waits for commands.

LEMMA DownKeeps ==
  ASSUME IInv, pc' = "down", task' = NoTask, routes' \in Installed, UNCHANGED <<disk, settings, saved>>, Bounded
  PROVE  IInv' /\ Outcome' = Outcome
<1>1. TypeOK /\ DiskTypes /\ TransactionsFit
      BY TypesOfDisk DEF IInv
<1>2. Outcome' = Outcome /\ TransactionsFit' /\ DiskTypes' /\ UNCHANGED <<target, txn, project, config>>
      BY <1>1, DiskKept
<1>3. TypeOK'
      BY <1>1, <1>2, NoTaskIs DEF TypeOK, DiskTypes, Bounded
<1>4. RecoveriesSettle' /\ CommandsRemember'
      BY NoTaskIs DEF RecoveriesSettle, CommandsRemember, Members, Recovering
<1>5. NothingShowsBefore' /\ ProjectFits' /\ MembersInPlace' /\ ReportsAreTrue' /\ RoutesMatchDisk'
      BY DEF NothingShowsBefore, ProjectFits, MembersInPlace, ReportsAreTrue, RoutesMatchDisk,
             Before, Recovering, Switched
<1>6. ConfigFits'
      BY <1>2, NoTaskIs DEF IInv, ConfigFits
<1> QED
    BY <1>2, <1>3, <1>4, <1>5, <1>6 DEF IInv

LEMMA IdleKeeps ==
  ASSUME IInv, pc' = "idle", task' = NoTask, TransactionsFit', DiskTypes', Bounded,
         routes' \in Installed, routes' = Outcome'.components,
         saved' \subseteq Config, settings' \in saved', Outcome'.config \in saved'
  PROVE  IInv'
<1>1. TypeOK'
      BY NoTaskIs DEF IInv, TypeOK, DiskTypes, Bounded
<1>2. RecoveriesSettle' /\ CommandsRemember'
      BY NoTaskIs DEF RecoveriesSettle, CommandsRemember, Members, Recovering
<1>3. NothingShowsBefore' /\ ProjectFits' /\ MembersInPlace' /\ ConfigFits'
      BY NoTaskIs DEF NothingShowsBefore, ProjectFits, MembersInPlace, ConfigFits, Before, Recovering, Switched
<1>4. ReportsAreTrue' /\ RoutesMatchDisk'
      BY NoTaskIs DEF ReportsAreTrue, RoutesMatchDisk
<1> QED
    BY <1>1, <1>2, <1>3, <1>4 DEF IInv

LEMMA RecoveryStep ==
  ASSUME IInv, pc \in Recovering \cup {"down"}, pc' \in Recovering \cup {"begin"},
         pc' = "begin" => project'.state = "none" /\ Members # {},
         SameCommand, task' \in Task, task'.done = task.done,
         Outcome' = Outcome, TransactionsFit', DiskTypes', UNCHANGED <<memory, saved>>, Bounded,
         RecoveriesSettle'
  PROVE  IInv'
<1>1. SameTask
      BY SameTaskIs
<1>2. TypeOK'
      BY DEF IInv, TypeOK, DiskTypes, Bounded, Recovering, memory
<1>3. CommandsRemember'
      BY <1>1 DEF IInv, CommandsRemember, SameCommand, SameTask, Recovering
<1>4. NothingShowsBefore'
      BY <1>1 DEF IInv, CommandsRemember, NothingShowsBefore, SameCommand, SameTask, Recovering, Before, Switched, memory
<1>5. ProjectFits' /\ MembersInPlace' /\ ReportsAreTrue' /\ RoutesMatchDisk'
      BY DEF ProjectFits, MembersInPlace, ReportsAreTrue, RoutesMatchDisk, Recovering, Switched
<1>6. ConfigFits'
      BY <1>1 DEF IInv, ConfigFits, SameCommand, SameTask, Recovering
<1> QED
    BY <1>2, <1>3, <1>4, <1>5, <1>6 DEF IInv

LEMMA StartupKeeps ==
  ASSUME IInv, Startup
  PROVE  IInv' /\ Outcome' = Outcome
<1>1. /\ pc = "down" /\ pc' = "recover" /\ task' = task /\ UNCHANGED <<disk, memory>> /\ UNCHANGED bounds
      BY DEF Startup
<1>2. TypeOK /\ DiskTypes /\ TransactionsFit
      BY TypesOfDisk DEF IInv
<1>3. Outcome' = Outcome /\ TransactionsFit' /\ DiskTypes' /\ Bounded /\ saved' = saved
      BY <1>1, <1>2, DiskKept, Bounds
<1>4. RecoveriesSettle'
      BY <1>1 DEF IInv, RecoveriesSettle
<1>5. SameCommand /\ task' \in Task /\ task'.done = task.done
      BY <1>1, <1>2 DEF SameCommand, TypeOK
<1> QED
    BY <1>1, <1>3, <1>4, <1>5, RecoveryStep DEF Recovering

LEMMA RecoverProjectKeeps ==
  ASSUME IInv, RecoverProject
  PROVE  IInv' /\ Outcome' = Outcome
<1>1. /\ pc = "recover" /\ pc' = "scan" /\ task' = [task EXCEPT !.root = "signed"]
      /\ UNCHANGED <<target, txn, project, memory>> /\ UNCHANGED bounds
      BY DEF RecoverProject
<1>2. TypeOK /\ DiskTypes /\ TransactionsFit
      BY TypesOfDisk DEF IInv
<1>3. config' = ConfigOf(project, config)
      BY DEF RecoverProject, RestoredConfig, ConfigOf
<1>4. config' \in Config
      BY <1>2, <1>3 DEF ConfigOf, TransactionsFit, DiskTypes
<1>5. \A c \in Component : Committed(c)' = Committed(c)
      BY <1>1 DEF Committed
<1>6. Outcome' = Outcome /\ config' = Outcome'.config
  <2>1. ConfigOf(project', config') = ConfigOf(project, config) /\ ConfigOf(project', config') = config'
        BY <1>1, <1>3 DEF ConfigOf
  <2>2. \A c \in Component : ValueOf(target'[c], txn'[c], Committed(c)') = ValueOf(target[c], txn[c], Committed(c))
        BY <1>1, <1>5
  <2> QED
      BY <2>1, <2>2, OutcomeIs, OutcomeIsAfter
<1>7. TransactionsFit' /\ DiskTypes'
      BY <1>1, <1>2, <1>4 DEF TransactionsFit, DiskTypes, Committed
<1>8. /\ SameCommand /\ task' \in Task /\ task'.done = task.done /\ task'.root = "signed"
      /\ Bounded /\ saved' = saved
      BY <1>1, <1>2, Bounds DEF SameCommand, TypeOK, Task
<1>9. RecoveriesSettle'
      BY <1>1, <1>6, <1>8 DEF IInv, RecoveriesSettle, Recovering
<1> QED
    BY <1>1, <1>6, <1>7, <1>8, <1>9, RecoveryStep DEF Recovering

LEMMA ScanEndsKeeps ==
  ASSUME IInv, ScanEnds
  PROVE  IInv' /\ Outcome' = Outcome
<1>1. /\ pc = "scan" /\ pc' = "settle" /\ task' = task /\ UNCHANGED <<disk, memory>> /\ UNCHANGED bounds
      BY DEF ScanEnds
<1>2. TypeOK /\ DiskTypes /\ TransactionsFit
      BY TypesOfDisk DEF IInv
<1>3. /\ Outcome' = Outcome /\ TransactionsFit' /\ DiskTypes' /\ Bounded /\ saved' = saved
      /\ UNCHANGED <<target, txn, project, config>>
      BY <1>1, <1>2, DiskKept, Bounds
<1>4. RecoveriesSettle'
      BY <1>1, <1>3 DEF IInv, RecoveriesSettle, Recovering
<1>5. SameCommand /\ task' \in Task /\ task'.done = task.done
      BY <1>1, <1>2 DEF SameCommand, TypeOK
<1> QED
    BY <1>1, <1>3, <1>4, <1>5, RecoveryStep DEF Recovering

LEMMA SettleEndsKeeps ==
  ASSUME IInv, SettleEnds
  PROVE  IInv' /\ Outcome' = Outcome
<1>1. /\ pc = "settle" /\ task.at = None /\ \A c \in Root : txn[c].state \in Settled
      /\ UNCHANGED <<disk, memory>> /\ UNCHANGED bounds
      BY DEF SettleEnds, Settled
<1>2. TypeOK /\ DiskTypes /\ TransactionsFit
      BY TypesOfDisk DEF IInv
<1>3. /\ Outcome' = Outcome /\ TransactionsFit' /\ DiskTypes' /\ Bounded /\ saved' = saved
      /\ UNCHANGED <<target, txn, project, config>>
      BY <1>1, <1>2, DiskKept, Bounds
<1>4. CASE task.root = "signed"
  <2>1. pc' = "scan" /\ task' = [task EXCEPT !.root = "local"]
        BY <1>4 DEF SettleEnds
  <2>2. SameCommand /\ task' \in Task /\ task'.done = task.done
        BY <1>2, <2>1 DEF SameCommand, TypeOK, Task
  <2>3. RecoveriesSettle'
        BY <1>1, <1>3, <1>4, <2>1, <2>2 DEF IInv, RecoveriesSettle, Root, Recovering
  <2> QED
      BY <1>1, <1>3, <2>1, <2>2, <2>3, RecoveryStep DEF Recovering
<1>5. CASE task.root # "signed"
  <2>1. pc' = "clear" /\ task' = task
        BY <1>5 DEF SettleEnds
  <2>2. SameCommand /\ task' \in Task /\ task'.done = task.done
        BY <1>2, <2>1 DEF SameCommand, TypeOK
  <2>3. \A c \in Component : txn[c].state \in Settled
        BY <1>1, <1>2, <1>5, TaskIs DEF IInv, RecoveriesSettle, Root, Component
  <2>4. RecoveriesSettle'
        BY <1>1, <1>3, <2>1, <2>3 DEF IInv, RecoveriesSettle, Recovering
  <2> QED
      BY <1>1, <1>3, <2>1, <2>2, <2>4, RecoveryStep DEF Recovering
<1> QED
    BY <1>4, <1>5

LEMMA ClearKeeps ==
  ASSUME IInv, Clear
  PROVE  IInv' /\ Outcome' = Outcome
<1>1. /\ pc = "clear" /\ pc' = pc /\ task' = task /\ RemoveProject /\ UNCHANGED memory /\ UNCHANGED bounds
      BY DEF Clear
<1>2. TypeOK /\ DiskTypes /\ TransactionsFit
      BY TypesOfDisk DEF IInv
<1>3. /\ project' \in {NoProject, PartialProject} /\ UNCHANGED <<target, txn, config>>
      BY <1>1 DEF RemoveProject
<1>4. config = Outcome.config /\ \A c \in Component : txn[c].state \in Settled
      BY <1>1 DEF IInv, RecoveriesSettle
<1>5. /\ Outcome'.components = Outcome.components /\ Outcome'.config = config
      /\ TransactionsFit' /\ DiskTypes'
      BY <1>2, <1>3, <1>4, RemoveProjectIs
<1>6. Outcome' = Outcome
      BY <1>4, <1>5, OutcomeIs, OutcomeIsAfter
<1>7. SameCommand /\ task' \in Task /\ task'.done = task.done /\ Bounded /\ saved' = saved
      BY <1>1, <1>2, Bounds DEF SameCommand, TypeOK
<1>8. RecoveriesSettle'
      BY <1>1, <1>3, <1>4, <1>6 DEF IInv, RecoveriesSettle, Recovering
<1> QED
    BY <1>1, <1>5, <1>6, <1>7, <1>8, RecoveryStep DEF Recovering

LEMMA RecoveryEndsKeeps ==
  ASSUME IInv, RecoveryEnds
  PROVE  IInv' /\ Outcome' = Outcome
<1>1. /\ pc = "clear" /\ project.state = "none" /\ UNCHANGED disk /\ UNCHANGED bounds
      BY DEF RecoveryEnds
<1>2. TypeOK /\ DiskTypes /\ TransactionsFit
      BY TypesOfDisk DEF IInv
<1>3. /\ Outcome' = Outcome /\ TransactionsFit' /\ DiskTypes' /\ Bounded /\ saved' = saved
      /\ UNCHANGED <<target, txn, project, config>>
      BY <1>1, <1>2, DiskKept, Bounds
<1>4. config = Outcome.config /\ \A c \in Component : txn[c].state \in Settled
      BY <1>1 DEF IInv, RecoveriesSettle
<1>5. CASE Starting
  <2>1. routes' = target /\ settings' = config /\ pc' = "idle" /\ task' = NoTask
        BY <1>5 DEF RecoveryEnds
  <2>2. Outcome.components = target /\ Outcome \in View
    <3>1. \A c \in Component : ValueOf(target[c], txn[c], Committed(c)) = target[c]
          BY <1>4 DEF ValueOf, Settled
    <3>2. target = [c \in Component |-> target[c]]
          BY <1>2 DEF DiskTypes
    <3> QED
        BY <1>2, <3>1, <3>2, OutcomeIs, OutcomeIsWhole
  <2>3. target \in Installed /\ Outcome.config \in saved
        BY <2>2 DEF View, IInv, ConfigFits
  <2> QED
      BY <1>2, <1>3, <1>4, <2>1, <2>2, <2>3, IdleKeeps DEF TypeOK
<1>6. CASE ~Starting
  <2>1. pc' = "begin" /\ UNCHANGED memory /\ task' = task /\ Members # {}
        BY <1>6 DEF RecoveryEnds, Starting
  <2>2. SameCommand /\ task' \in Task /\ task'.done = task.done
        BY <1>2, <2>1 DEF SameCommand, TypeOK
  <2>3. RecoveriesSettle'
        BY <1>1, <1>3, <1>4, <2>1 DEF IInv, RecoveriesSettle, Recovering
  <2> QED
      BY <1>1, <1>3, <2>1, <2>2, <2>3, RecoveryStep DEF Recovering
<1> QED
    BY <1>5, <1>6

LEMMA RecoveryFailsKeeps ==
  ASSUME IInv, pc \in Recovering, RecoveryFails, UNCHANGED <<disk, memory>>, Fault \/ UNCHANGED bounds
  PROVE  IInv' /\ Outcome' = Outcome
<1>1. TypeOK /\ DiskTypes /\ TransactionsFit
      BY TypesOfDisk DEF IInv
<1>2. /\ Outcome' = Outcome /\ TransactionsFit' /\ DiskTypes' /\ Bounded /\ saved' = saved
      BY <1>1, DiskKept, Bounds
<1>3. CASE Starting
      BY <1>1, <1>2, <1>3, DownKeeps DEF RecoveryFails, TypeOK, memory
<1>4. CASE ~Starting
  <2>1. /\ Members # {} /\ pc' = "idle" /\ task' = [task EXCEPT !.answer = "failed"]
        BY <1>4 DEF RecoveryFails, Answer, Starting
  <2>2. /\ SameCommand /\ task' \in Task /\ task'.done = task.done /\ task'.answer = "failed"
        BY <1>1, <2>1 DEF SameCommand, TypeOK, Task
  <2>3. ToSet(task.done) \subseteq Members
        BY <2>1 DEF IInv, CommandsRemember
  <2>4. /\ Outcome.components = task.view.components
        /\ Outcome.config \in Remaining
        /\ Remaining \subseteq saved
        /\ settings' = Showing /\ routes' = task.routes
        BY <2>1, BeforeIs DEF Before, Recovering, memory
  <2> QED
      BY <1>2, <2>1, <2>2, <2>3, <2>4, FailureKeeps
<1> QED
    BY <1>3, <1>4

LEMMA SaveConfigKeeps ==
  ASSUME IInv, NEW new \in Config, SaveConfig(new)
  PROVE  /\ IInv' /\ Outcome'.components = Outcome.components
         /\ Outcome'.config \in {Outcome.config, new} /\ saved' = {new, Outcome'.config}
<1>1. /\ pc = "idle" /\ pc' = pc /\ tasks < MaxTasks /\ tasks' = tasks + 1 /\ task' = NoTask
      /\ config' = new /\ settings' = new /\ saved' = {new, Outcome'.config}
      /\ UNCHANGED <<target, txn, project, routes, faults, crashes, broken>>
      BY DEF SaveConfig
<1>2. TypeOK /\ DiskTypes /\ TransactionsFit
      BY TypesOfDisk DEF IInv
<1>3. \A c \in Component : Committed(c)' = Committed(c)
      BY <1>1 DEF Committed
<1>4. /\ Outcome'.components = Outcome.components /\ Outcome'.config = ConfigOf(project, new)
      /\ Outcome.config = ConfigOf(project, config)
  <2>1. \A c \in Component : ValueOf(target'[c], txn'[c], Committed(c)') = ValueOf(target[c], txn[c], Committed(c))
        BY <1>1, <1>3
  <2> QED
      BY <1>1, <2>1, OutcomeIs, OutcomeIsAfter
<1>5. /\ Outcome'.config \in Config /\ Outcome'.config \in {Outcome.config, new}
      BY <1>2, <1>4 DEF ConfigOf, TransactionsFit
<1>6. TransactionsFit' /\ DiskTypes'
      BY <1>1, <1>2 DEF TransactionsFit, DiskTypes, Committed
<1>7. Bounded
      BY <1>1, <1>2, ProjectAssumption DEF TypeOK, Bounded
<1>8. routes' = Outcome'.components /\ routes' \in Installed
      BY <1>1, <1>2, <1>4 DEF IInv, RoutesMatchDisk, TypeOK
<1> QED
    BY <1>1, <1>4, <1>5, <1>6, <1>7, <1>8, IdleKeeps

LEMMA CrashKeeps ==
  ASSUME IInv, Crash
  PROVE  IInv' /\ Outcome' = Outcome
<1>1. /\ crashes < MaxCrashes /\ crashes' = crashes + 1 /\ pc' = "down" /\ task' = NoTask
      /\ routes' = [c \in Component |-> None] /\ UNCHANGED <<disk, settings, saved, faults, tasks, broken>>
      BY DEF Crash
<1>2. Bounded
      BY <1>1, ProjectAssumption DEF IInv, TypeOK, Bounded
<1>3. routes' \in Installed
      BY <1>1 DEF Installed
<1> QED
    BY <1>1, <1>2, <1>3, DownKeeps

-----------------------------------------------------------------------------
\* The invariant, and the abstract switch.

\* Neither what a restart finds nor what was asked for changes; the command
\* that is under way stays, or ends.
Quiet ==
  /\ Outcome' = Outcome /\ saved' = saved
  /\ pc' = "idle" \/ task' = NoTask \/ (pc # "idle" /\ SameCommand)

Moves == Atomic!Change \/ UNCHANGED <<Outcome, saved, Requested>>

LEMMA QuietMoves ==
  ASSUME Quiet
  PROVE  Moves
<1>1. CASE pc' = "idle" \/ task' = NoTask
  <2>1. Requested' = {}
        BY <1>1, NoTaskIs DEF Requested, Members
  <2> QED
      BY <2>1 DEF Quiet, Moves, Requested, Atomic!Change, Atomic!End
<1>2. CASE pc # "idle" /\ pc' # "idle" /\ SameCommand
  <2>1. Requested' = Requested
        BY <1>2 DEF Requested, Members, SameCommand
  <2> QED
      BY <2>1 DEF Quiet, Moves
<1> QED
    BY <1>1, <1>2 DEF Quiet

\* What happens without changing what a restart finds.
RecoverySteps == Recovery

ActivationSteps == Refuse \/ BeginSingle \/ MakeProject \/ Activation

SwitchSteps == Reject \/ SwitchRoutes \/ SwitchConfig \/ SwitchConfigFails

CommitSteps ==
  \/ CleanMember \/ CleanMemberLater \/ CommitFails \/ CommitEnds
  \/ Undo \/ UndoFailsOnce \/ UndoEnds \/ FinishFails

LEMMA RecoveryKeeps ==
  ASSUME IInv, Recovery
  PROVE  IInv' /\ Quiet
<1>1. TypeOK
      BY DEF IInv
<1>2. /\ pc # "idle" /\ saved' = saved
      /\ pc' = "idle" \/ task' = NoTask \/ SameCommand
  <2>1. CASE Startup \/ ScanEnds \/ Clear \/ \E c \in Component : Scan(c)
        BY <2>1 DEF Startup, ScanEnds, Clear, Scan, SameCommand, bounds
  <2>2. CASE RecoverProject
        BY <1>1, <2>2 DEF RecoverProject, SameCommand, bounds, TypeOK, Task
  <2>3. CASE RecoveryRefused \/ RecoveryFaults
        BY <2>3 DEF RecoveryRefused, RecoveryFaults, RecoveryFails, Answer, Fault, bounds
  <2>4. CASE \E c \in Component : Settle(c)
        BY <1>1, <2>4 DEF Settle, SameCommand, bounds, TypeOK, Task
  <2>5. CASE SettleLater
        BY <1>1, <2>5 DEF SettleLater, SameCommand, Fault, TypeOK, Task
  <2>6. CASE SettleEnds
        BY <1>1, <2>6 DEF SettleEnds, SameCommand, bounds, TypeOK, Task
  <2>7. CASE RecoveryEnds
        BY <2>7 DEF RecoveryEnds, SameCommand, bounds
  <2> QED
      BY <2>1, <2>2, <2>3, <2>4, <2>5, <2>6, <2>7 DEF Recovery
<1>3. IInv' /\ Outcome' = Outcome
  <2>1. CASE RecoveryRefused
        BY <2>1, RecoveryFailsKeeps DEF RecoveryRefused, Recovering
  <2>2. CASE RecoveryFaults
        BY <2>2, RecoveryFailsKeeps DEF RecoveryFaults, Recovering
  <2> QED
      BY <2>1, <2>2, StartupKeeps, RecoverProjectKeeps, ScanKeeps, SettleKeeps, ScanEndsKeeps,
         SettleLaterKeeps, SettleEndsKeeps, ClearKeeps, RecoveryEndsKeeps DEF Recovery
<1> QED
    BY <1>2, <1>3 DEF Quiet

LEMMA ActivationKeeps ==
  ASSUME IInv, ActivationSteps, ~broken'
  PROVE  IInv' /\ Quiet
<1>1. TypeOK
      BY DEF IInv
<1>2. /\ pc # "idle" /\ saved' = saved
      /\ pc' = "idle" \/ SameCommand
  <2>1. CASE Refuse
        BY <2>1 DEF Refuse, Answer, bounds
  <2>2. CASE BeginSingle \/ MakeProject
        BY <2>2 DEF BeginSingle, MakeProject, SameCommand, bounds
  <2>3. ASSUME NEW c \in Component, MakeTransaction(c) \/ WriteJournal(c) \/ SetAside(c) \/ PutInPlace(c)
        PROVE  pc # "idle" /\ saved' = saved /\ SameCommand
        BY <1>1, <2>3 DEF MakeTransaction, WriteJournal, SetAside, PutInPlace, SameCommand, bounds, TypeOK, Task
  <2>4. ActivationFailed => pc' = "idle" \/ SameCommand
        BY <1>1 DEF ActivationFailed, Answer, SameCommand, TypeOK, Task
  <2>5. CASE ActivationFailsEarly \/ \E c \in Component : PutInPlaceFails(c) \/ MappingDoesNotLoad(c)
        BY <2>4, <2>5 DEF ActivationFailsEarly, PutInPlaceFails, MappingDoesNotLoad, Fault, BreakingFault, bounds
  <2> QED
      BY <2>1, <2>2, <2>3, <2>5 DEF ActivationSteps, Activation
<1>3. IInv' /\ Outcome' = Outcome
      BY RefuseKeeps, BeginSingleKeeps, MakeProjectKeeps, MakeTransactionKeeps,
         WriteJournalKeeps, SetAsideKeeps, PutInPlaceKeeps, PutInPlaceFailsKeeps,
         MappingDoesNotLoadKeeps, ActivationFailsEarlyKeeps DEF ActivationSteps, Activation
<1> QED
    BY <1>2, <1>3 DEF Quiet

LEMMA SwitchKeeps ==
  ASSUME IInv, SwitchSteps
  PROVE  IInv' /\ Quiet
<1>1. /\ pc # "idle" /\ saved' = saved /\ SameCommand
      BY DEF SwitchSteps, Reject, SwitchRoutes, SwitchConfig, SwitchConfigFails, Activated, SameCommand, bounds
<1>2. IInv' /\ Outcome' = Outcome
      BY RejectKeeps, SwitchRoutesKeeps, SwitchConfigKeeps, SwitchConfigFailsKeeps DEF SwitchSteps
<1> QED
    BY <1>1, <1>2 DEF Quiet

LEMMA CommitKeeps ==
  ASSUME IInv, CommitSteps
  PROVE  IInv' /\ Quiet
<1>1. TypeOK
      BY DEF IInv
<1>2. /\ pc # "idle" /\ saved' = saved
      /\ pc' = "idle" \/ SameCommand
  <2>1. CASE CleanMember \/ CleanMemberLater
        BY <1>1, <2>1 DEF CleanMember, CleanMemberLater, SameCommand, Fault, bounds, TypeOK, Task
  <2>2. CASE CommitFails
        BY <1>1, <2>2 DEF CommitFails, SameCommand, Fault, TypeOK, Task
  <2>3. CASE CommitEnds \/ UndoEnds \/ FinishFails
        BY <2>3 DEF CommitEnds, UndoEnds, FinishFails, Answer, SameCommand, Fault, bounds
  <2>4. CASE Undo
        BY <1>1, <2>4 DEF Undo, SameCommand, bounds, TypeOK, Task
  <2>5. CASE UndoFailsOnce
        BY <1>1, <2>5 DEF UndoFailsOnce, SameCommand, Fault, TypeOK, Task
  <2> QED
      BY <2>1, <2>2, <2>3, <2>4, <2>5 DEF CommitSteps
<1>3. IInv' /\ Outcome' = Outcome
      BY CleanMemberKeeps, CleanMemberLaterKeeps, CommitFailsKeeps, CommitEndsKeeps, UndoKeeps,
         UndoFailsOnceKeeps, UndoEndsKeeps, FinishFailsKeeps DEF CommitSteps
<1> QED
    BY <1>2, <1>3 DEF Quiet

\* What a restart finds moves on: to everything that a command asked for.
LEMMA Switches ==
  ASSUME pc # "idle", Members # {}, SameCommand, pc' # "idle",
         Outcome'.components = [c \in Component |-> IF c \in Members THEN task.goal[c]
                                                   ELSE Outcome.components[c]],
         Outcome'.config = IF IsImport THEN task.config ELSE Outcome.config,
         saved' = IF IsImport THEN {task.config} ELSE saved
  PROVE  Moves
<1> DEFINE r == [goal |-> task.goal, config |-> task.config]
<1>1. Requested = {r} /\ Requested' = Requested
      BY DEF Requested, Members, SameCommand
<1>2. Outcome' = [components |-> Outcome'.components, config |-> Outcome'.config]
      BY OutcomeIsAfter
<1>3. r.goal = task.goal /\ r.config = task.config
      OBVIOUS
<1> HIDE DEF r
<1>4. Outcome' = [components |-> [c \in Component |-> IF c \in DOMAIN r.goal THEN r.goal[c]
                                                     ELSE Outcome.components[c]],
                  config |-> IF r.config = None THEN Outcome.config ELSE r.config]
      BY <1>2, <1>3 DEF Members, IsImport
<1>5. saved' = IF r.config = None THEN saved ELSE {r.config}
      BY <1>3 DEF IsImport
<1> QED
    BY <1>1, <1>4, <1>5 DEF Moves, Requested, Atomic!Change, Atomic!Switch

\* It moves to the configuration that was asked for last, or back.
LEMMA Shows ==
  ASSUME Outcome'.components = Outcome.components, Outcome'.config \in saved, saved' = saved,
         Requested' = Requested
  PROVE  Moves
<1>1. Outcome' = [Outcome EXCEPT !.config = Outcome'.config]
      BY OutcomeIs, OutcomeIsAfter
<1> QED
    BY <1>1 DEF Moves, Requested, Atomic!Change, Atomic!Show, Atomic!Shows

LEMMA CommandMoves ==
  ASSUME IInv, NEW goal \in Plans, NEW new \in Config \cup {None}, Command(goal, new),
         DOMAIN goal # {}, new # None \/ \E c \in Component : DOMAIN goal = {c}
  PROVE  IInv' /\ Moves
<1>1. /\ IInv' /\ Outcome' = Outcome /\ saved' = saved /\ pc' = "recover"
      /\ task'.goal = goal /\ task'.config = new
      BY CommandKeeps
<1>2. Requested = {} /\ Requested' = {[goal |-> goal, config |-> new]}
      BY <1>1 DEF Requested, Command, Members
<1>3. \E S \in SUBSET Component : goal \in [S -> Version \cup {None}]
      BY PlanIs
<1> QED
    BY <1>1, <1>2, <1>3 DEF Moves, Requested, Atomic!Change, Atomic!Ask

LEMMA FinishMoves ==
  ASSUME IInv, Finish
  PROVE  IInv' /\ Moves
<1>1. IInv' /\ Outcome'.components = Outcome.components /\ Outcome'.config \in saved /\ saved' = saved
      BY FinishKeeps
<1>2. CASE project'.state = "none"
  <2>1. /\ pc' = "idle" /\ project.state = "partial" /\ config' = config
        BY <1>2 DEF Finish, RemoveProject, Answer, PartialProject, NoProject
  <2>2. Outcome'.config = Outcome.config
        BY <1>2, <2>1, OutcomeIs, OutcomeIsAfter DEF ConfigOf
  <2>3. Outcome' = Outcome
        BY <1>1, <2>2, OutcomeIs, OutcomeIsAfter
  <2> QED
      BY <1>1, <2>1, <2>3, QuietMoves DEF Quiet
<1>3. CASE project'.state # "none"
  <2>1. Requested' = Requested
        BY <1>3 DEF Finish, Requested, Members
  <2> QED
      BY <1>1, <2>1, Shows
<1> QED
    BY <1>2, <1>3

\* A command that goes back may leave the configuration that it brought.
LEMMA RevertMoves ==
  ASSUME IInv, RejectAtLast \/ MarkFails, ~broken'
  PROVE  IInv' /\ Moves
<1>1. /\ pc = "mark" /\ Revert /\ UNCHANGED <<target, txn, project>> /\ Bounded
  <2>1. CASE RejectAtLast
        BY <2>1 DEF RejectAtLast, IInv, TypeOK, Bounded
  <2>2. CASE MarkFails
    <3>1. /\ pc = "mark" /\ Revert /\ UNCHANGED <<target, txn, project, broken, crashes, tasks>>
          /\ faults < MaxFaults /\ faults' = faults + 1
          BY <2>2 DEF MarkFails
    <3>2. faults' \in 0..MaxFaults
          BY <3>1, ProjectAssumption DEF IInv, TypeOK
    <3> QED
        BY <3>1, <3>2 DEF IInv, TypeOK, Bounded
  <2> QED
      BY <2>1, <2>2
<1>2. /\ IInv' /\ Outcome' = Outcome /\ Requested' = Requested
      /\ saved' = saved \/ saved' = saved \cup {task.config}
      BY <1>1, RevertKeeps
<1>3. CASE saved' = saved
      BY <1>2, <1>3 DEF Moves
<1>4. CASE saved' = saved \cup {task.config}
  <2>1. PICK r : r = [goal |-> task.goal, config |-> task.config]
        OBVIOUS
  <2>2. Requested = {r} /\ r.config = task.config
        BY <1>1, <2>1, UnderWay DEF Requested, Recovering
  <2>3. Atomic!Keep
        BY <1>2, <1>4, <2>2 DEF Atomic!Keep, Requested
  <2> QED
      BY <1>2, <2>3 DEF Moves, Atomic!Change
<1> QED
    BY <1>2, <1>3, <1>4

\* A project that could not be prepared may yet have been, and hide what was saved.
LEMMA PrepareFailsMoves ==
  ASSUME IInv, PrepareFails
  PROVE  IInv' /\ Moves
<1>1. /\ IInv' /\ pc' = "idle" /\ saved' = saved
      /\ Outcome'.components = Outcome.components
      /\ Outcome'.config \in {Outcome.config} \cup saved
      BY PrepareFailsKeeps
<1>2. Requested' = {}
      BY <1>1 DEF Requested
<1>3. /\ Outcome' = [Outcome EXCEPT !.config = Outcome'.config]
      /\ Outcome = [Outcome EXCEPT !.config = Outcome.config]
      BY <1>1, OutcomeIs, OutcomeIsAfter
<1>4. Outcome' = Outcome \/ Atomic!Shows
      BY <1>1, <1>3 DEF Atomic!Shows
<1> QED
    BY <1>1, <1>2, <1>4 DEF Moves, Requested, Atomic!Change, Atomic!End

LEMMA NextKeeps ==
  ASSUME IInv, Next, ~broken'
  PROVE  IInv' /\ Moves
<1>1. CASE RecoverySteps \/ ActivationSteps \/ SwitchSteps \/ CommitSteps
      BY <1>1, RecoveryKeeps, ActivationKeeps, SwitchKeeps, CommitKeeps, QuietMoves DEF RecoverySteps
<1>2. ASSUME NEW S \in (SUBSET Component) \ {{}}, NEW new \in Config, NEW goal \in [S -> Version],
             Command(goal, new)
      PROVE  IInv' /\ Moves
  <2>1. goal \in [S -> Version \cup {None}] /\ DOMAIN goal = S /\ S # {}
        BY <1>2
  <2>2. goal \in Plans /\ new # None
        BY <2>1, ProjectAssumption DEF Plans
  <2> QED
      BY <1>2, <2>1, <2>2, CommandMoves
<1>3. ASSUME NEW c \in Component, NEW v \in Version \cup {None}, Command([m \in {c} |-> v], None)
      PROVE  IInv' /\ Moves
  <2> DEFINE goal == [m \in {c} |-> v]
  <2>1. goal \in [{c} -> Version \cup {None}] /\ DOMAIN goal = {c}
        OBVIOUS
  <2>2. goal \in Plans
        BY <2>1 DEF Plans
  <2>3. Command(goal, None)
        BY <1>3
  <2> HIDE DEF goal
  <2> QED
      BY <2>1, <2>2, <2>3, CommandMoves
<1>4. CASE Prepare
  <2>1. IInv' /\ Outcome'.components = Outcome.components /\ Outcome'.config \in saved /\ saved' = saved
        BY <1>4, PrepareKeeps
  <2>2. Requested' = Requested
        BY <1>4 DEF Prepare, Requested, Members
  <2> QED
      BY <2>1, <2>2, Shows
<1>5. CASE MarkCommitted
  <2>1. /\ IInv' /\ Outcome'.config = task.config
        /\ Outcome'.components = [c \in Component |-> IF c \in Members THEN task.goal[c]
                                                      ELSE Outcome.components[c]]
        BY <1>5, MarkCommittedKeeps
  <2>2. /\ pc = "mark" /\ pc' = "commit" /\ SameCommand /\ saved' = {task.config}
        BY <1>5 DEF MarkCommitted, SameCommand
  <2>3. Members # {} /\ IsImport
        BY <2>2, UnderWay DEF IInv, ProjectFits, Recovering
  <2> QED
      BY <2>1, <2>2, <2>3, Switches
<1>6. CASE CommitMember
  <2>1. /\ IInv' /\ task' = task /\ pc' = "commit" /\ saved' = saved
        /\ IsImport => Outcome' = Outcome
        /\ ~IsImport => Outcome'.config = Outcome.config
        /\ ~IsImport => Outcome'.components = [c \in Component |-> IF c \in Members THEN task.goal[c]
                                                                   ELSE Outcome.components[c]]
        BY <1>6, CommitMemberKeeps
  <2>2. pc = "commit" /\ SameCommand /\ Members # {}
        BY <1>6, <2>1, UnderWay DEF CommitMember, SameCommand, Recovering
  <2>3. CASE IsImport
        BY <2>1, <2>2, <2>3, QuietMoves DEF Quiet
  <2>4. CASE ~IsImport
        BY <2>1, <2>2, <2>4, Switches
  <2> QED
      BY <2>1, <2>3, <2>4
<1>7. ASSUME NEW new \in Config, SaveConfig(new)
      PROVE  IInv' /\ Moves
  <2>1. /\ IInv' /\ Outcome'.components = Outcome.components
        /\ Outcome'.config \in {Outcome.config, new} /\ saved' = {new, Outcome'.config}
        BY <1>7, SaveConfigKeeps
  <2>2. Outcome' \in {Outcome, [Outcome EXCEPT !.config = new]}
        BY <2>1, OutcomeIs, OutcomeIsAfter
  <2>3. Requested = {} /\ Requested' = {}
        BY <1>7 DEF SaveConfig, Requested
  <2> QED
      BY <2>1, <2>2, <2>3 DEF Moves, Requested, Atomic!Change, Atomic!Save
<1>8. CASE Crash
      BY <1>8, CrashKeeps, QuietMoves DEF Crash, Quiet
<1>9. CASE Finish
      BY <1>9, FinishMoves
<1>10. CASE PrepareFails
      BY <1>10, PrepareFailsMoves
<1>11. CASE RejectAtLast \/ MarkFails
      BY <1>11, RevertMoves
<1> QED
    BY <1>1, <1>2, <1>3, <1>4, <1>5, <1>6, <1>7, <1>8, <1>9, <1>10, <1>11
       DEF Next, Commit, RecoverySteps, ActivationSteps, SwitchSteps, CommitSteps

\* What is broken stays broken.
LEMMA BreaksOnce ==
  ASSUME [Next]_vars
  PROVE  broken' = broken \/ broken' = TRUE
<1>1. CASE UNCHANGED vars
      BY <1>1 DEF vars, bounds
<1>2. Fault \/ UNCHANGED bounds => broken' = broken
      BY DEF Fault, bounds
<1>3. CASE Recovery
      BY <1>2, <1>3 DEF Recovery, Startup, RecoverProject, RecoveryRefused, RecoveryFaults, Scan,
         Settle, ScanEnds, SettleLater, SettleEnds, Clear, RecoveryEnds
<1>4. CASE \E goal, new : Command(goal, new)
      BY <1>4 DEF Command
<1>5. CASE Refuse \/ BeginSingle \/ MakeProject \/ Prepare \/ PrepareFails
      BY <1>2, <1>5 DEF Refuse, BeginSingle, MakeProject, Prepare, PrepareFails
<1>6. CASE Activation
      BY <1>2, <1>6 DEF Activation, MakeTransaction, WriteJournal, SetAside, PutInPlace,
         PutInPlaceFails, MappingDoesNotLoad, ActivationFailsEarly, BreakingFault
<1>7. CASE Commit
      BY <1>2, <1>7 DEF Commit, Reject, SwitchRoutes, SwitchConfig, SwitchConfigFails, RejectAtLast,
         MarkCommitted, MarkFails, CommitMember, CleanMember, CleanMemberLater, CommitFails, CommitEnds
<1>8. CASE Undo \/ UndoFailsOnce \/ UndoEnds \/ Finish \/ FinishFails
      BY <1>2, <1>8 DEF Undo, UndoFailsOnce, UndoEnds, Finish, FinishFails
<1>9. CASE Crash \/ \E new \in Config : SaveConfig(new)
      BY <1>9 DEF Crash, SaveConfig
<1> QED
    BY <1>1, <1>3, <1>4, <1>5, <1>6, <1>7, <1>8, <1>9 DEF Next

LEMMA StepKeeps ==
  ASSUME UntilBroken, [Next]_vars
  PROVE  UntilBroken' /\ [Atomic!Next]_(Atomic!vars)
<1>1. broken \in BOOLEAN /\ broken' \in BOOLEAN /\ (broken => broken')
      BY BreaksOnce DEF UntilBroken
<1>2. CASE broken'
      BY <1>1, <1>2 DEF UntilBroken, Atomic!Next, Atomic!Break
<1>3. CASE ~broken' /\ Next
  <2>1. IInv /\ broken' = broken
        BY <1>1, <1>3 DEF UntilBroken
  <2>2. IInv' /\ Moves
        BY <1>3, <2>1, NextKeeps
  <2> QED
      BY <1>1, <2>1, <2>2 DEF UntilBroken, Moves, Requested, Atomic!Next, Atomic!vars
<1>4. CASE ~broken' /\ UNCHANGED vars
  <2>1. /\ UNCHANGED <<target, txn, project, config, routes, settings, pc, task>>
        /\ UNCHANGED <<faults, crashes, tasks, saved, broken>>
        BY <1>4 DEF vars, disk, memory, bounds
  <2>2. IInv
        BY <1>4, <2>1 DEF UntilBroken
  <2>3. /\ Outcome' = Outcome /\ Requested' = Requested /\ Members' = Members /\ IsImport' = IsImport
        /\ Remaining' = Remaining /\ Showing' = Showing
        BY <2>1 DEF Outcome, Committed, Requested, Members, IsImport, Remaining, Showing
  <2>4. TypeOK' /\ TransactionsFit' /\ RecoveriesSettle' /\ CommandsRemember'
        BY <2>1, <2>2, <2>3 DEF IInv, TypeOK, TransactionsFit, RecoveriesSettle, CommandsRemember, Committed
  <2>5. NothingShowsBefore' /\ ProjectFits' /\ ConfigFits' /\ MembersInPlace'
        BY <2>1, <2>2, <2>3 DEF IInv, NothingShowsBefore, ProjectFits, ConfigFits, MembersInPlace
  <2>6. ReportsAreTrue' /\ RoutesMatchDisk'
        BY <2>1, <2>2, <2>3 DEF IInv, ReportsAreTrue, RoutesMatchDisk
  <2> QED
      BY <1>1, <2>1, <2>3, <2>4, <2>5, <2>6 DEF IInv, UntilBroken, Requested, Atomic!vars
<1> QED
    BY <1>2, <1>3, <1>4

LEMMA Initially ==
  ASSUME Init
  PROVE  UntilBroken /\ Atomic!Init
<1>1. /\ target \in Installed /\ txn = [c \in Component |-> NoTransaction] /\ project = NoProject
      /\ config \in Config /\ routes = [c \in Component |-> None] /\ settings = config
      /\ pc = "down" /\ task = NoTask /\ faults = 0 /\ crashes = 0 /\ tasks = 0 /\ saved = {config}
      /\ broken = FALSE
      BY DEF Init
<1>2. /\ \A c \in Component : txn[c].state = "none" /\ txn[c] \in Transaction
      /\ project.state = "none" /\ project \in Project /\ Members = {} /\ ~IsImport
      BY <1>1, NewTransactions, NoTaskIs DEF NoProject, Project, Members, IsImport
<1>3. \A c \in Component : target[c] \in Version \cup {None} /\ target[c] # Torn
      BY <1>1, ProjectAssumption DEF Installed, Torn
<1>4. /\ Outcome.components = target /\ Outcome.config = config
      /\ Outcome = [components |-> target, config |-> config]
  <2>1. \A c \in Component : ValueOf(target[c], txn[c], Committed(c)) = target[c]
        BY <1>2 DEF ValueOf
  <2>2. ConfigOf(project, config) = config
        BY <1>2 DEF ConfigOf
  <2>3. target = [c \in Component |-> target[c]]
        BY <1>1 DEF Installed
  <2> QED
      BY <2>1, <2>2, <2>3, OutcomeIs
<1>5. TypeOK
  <2>1. target \in [Component -> Content] /\ txn \in [Component -> Transaction] /\ routes \in Installed
        BY <1>1, <1>2, <1>3 DEF Installed, Content
  <2>2. faults \in 0..MaxFaults /\ crashes \in 0..MaxCrashes /\ tasks \in 0..MaxTasks
        BY <1>1, ProjectAssumption
  <2> QED
      BY <1>1, <1>2, <2>1, <2>2, NoTaskIs DEF TypeOK
<1>6. TransactionsFit
      BY <1>2, <1>3 DEF TransactionsFit
<1>7. RecoveriesSettle /\ CommandsRemember
      BY <1>1, <1>2, NoTaskIs DEF RecoveriesSettle, CommandsRemember, Recovering
<1>8. NothingShowsBefore /\ ProjectFits /\ MembersInPlace /\ ReportsAreTrue /\ RoutesMatchDisk
      BY <1>1 DEF NothingShowsBefore, ProjectFits, MembersInPlace, ReportsAreTrue, RoutesMatchDisk,
                  Before, Recovering, Switched
<1>9. ConfigFits
      BY <1>1, <1>4, NoTaskIs DEF ConfigFits
<1>10. Atomic!Init
      BY <1>1, <1>2, <1>4 DEF Atomic!Init, Installed
<1> QED
    BY <1>1, <1>5, <1>6, <1>7, <1>8, <1>9, <1>10 DEF IInv, UntilBroken

\* Up to a failure that the code does not answer for (broken), a transaction
\* that a step works on and what a restart would make of it agree at every file
\* operation.
THEOREM Invariance == Spec => []UntilBroken
<1>1. Init => UntilBroken
      BY Initially
<1>2. UntilBroken /\ [Next]_vars => UntilBroken'
      BY StepKeeps
<1> QED
    BY <1>1, <1>2, PTL DEF Spec

\* What commands answer and the controller serves is what a restart finds,
\* whatever else failed, crashed or was put off, as long as no undo whose error
\* is dropped lost a mapping and no command went back after its commit.
THEOREM AnswersMatch == Spec => []AnswersMatchDisk
<1>1. UntilBroken => AnswersMatchDisk
      BY DEF UntilBroken, IInv, AnswersMatchDisk
<1> QED
    BY <1>1, Invariance, PTL

\* Up to the same two failures, what a restart finds moves in one step from
\* everything before to everything that was asked for: the transactions
\* implement AtomicSwitch.
THEOREM ImplementsAtomicSwitch == Spec => SwitchesAtomically
<1>1. Init => Atomic!Init
      BY Initially
<1>2. ASSUME UntilBroken, [Next]_vars
      PROVE  [Atomic!Next]_(Atomic!vars)
      BY <1>2, StepKeeps
<1> QED
    BY <1>1, <1>2, Invariance, PTL DEF Spec, SwitchesAtomically, Atomic!Spec

=============================================================================
