------------------------- MODULE Controller_proofs -------------------------
(***************************************************************************)
(* What the controller's locks, flags and epochs guarantee for any number  *)
(* of calls, maintenances, plugins and versions, proved from the inductive *)
(* invariant IInv of Controller.tla.                                       *)
(***************************************************************************)
EXTENDS Controller, FiniteSetTheorems, TLAPS

(***************************************************************************)
(* The lock: what a request and a leave do to those that stay.             *)
(***************************************************************************)

\* From L to K only task t has moved: the others keep what they have.
OnlyMoves(L, K, t) ==
  /\ K \in Lock /\ Orderly(K)
  /\ \A u \in Task : u # t => K.mode[u] = L.mode[u] /\ (Holds(L, u) => Holds(K, u))

\* The code's lock when nobody uses it is an orderly lock.
LEMMA FreeIsOrderly == Free \in Lock /\ Orderly(Free)
BY DEF Free, Lock, Orderly, Queued

\* A request that queues in a lock.
LEMMA RequestMoves ==
  ASSUME NEW L \in Lock, Orderly(L), NEW t \in Task, NEW mode \in {"read", "write"},
         L.mode[t] = "none"
  PROVE  OnlyMoves(L, Request(L, t, mode), t) /\ Request(L, t, mode).mode[t] = mode
<1> DEFINE K == Request(L, t, mode)
<1>1. K \in Lock
      BY DEF Request, Lock, Queued
<1>2. \A u \in Task : K.mode[u] = IF u = t THEN mode ELSE L.mode[u]
      BY DEF Request, Lock
<1>3. \A u \in Task : K.ahead[u] = IF u = t THEN Queued(L) ELSE L.ahead[u]
      BY DEF Request, Lock
<1>4. Queued(K) = Queued(L) \cup {t} /\ t \notin Queued(L)
      BY <1>2 DEF Queued
<1> HIDE DEF K
<1>5. Orderly(K)
  <2>1. \A u \in Task : L.ahead[u] \subseteq Queued(L) \ {u}
        BY DEF Orderly
  <2>2. \A u \in Task : K.ahead[u] \subseteq Queued(K) \ {u}
        BY <1>3, <1>4, <2>1
  <2>3. \A u \in Task : K.mode[u] = "none" => K.ahead[u] = {}
        BY <1>2, <1>3 DEF Orderly
  <2>4. ASSUME NEW u \in Queued(K), NEW v \in Queued(K), u # v
        PROVE  u \in K.ahead[v] \/ v \in K.ahead[u]
        <3>1. u \in Task /\ v \in Task
              BY DEF Queued
        <3> QED
            BY <1>3, <1>4, <2>4, <3>1 DEF Orderly
  <2> QED
      BY <2>2, <2>3, <2>4 DEF Orderly
<1>6. ASSUME NEW u \in Task, u # t, Holds(L, u)
      PROVE  Holds(K, u)
  <2>1. L.ahead[u] \subseteq Queued(L) /\ Queued(L) \subseteq Task
        BY DEF Orderly, Queued
  <2>2. \A v \in L.ahead[u] : v # t /\ v \in Task
        BY <1>4, <2>1
  <2> QED
      BY <1>2, <1>3, <1>6, <2>2 DEF Holds
<1> QED
    BY <1>1, <1>2, <1>5, <1>6 DEF OnlyMoves, K

\* A task that leaves a lock, or was not in it.
LEMMA LeaveMoves ==
  ASSUME NEW L \in Lock, Orderly(L), NEW t \in Task
  PROVE  OnlyMoves(L, Leave(L, t), t) /\ Leave(L, t).mode[t] = "none"
<1> DEFINE K == Leave(L, t)
<1>1. K \in Lock
      BY DEF Leave, Lock
<1>2. \A u \in Task : K.mode[u] = IF u = t THEN "none" ELSE L.mode[u]
      BY DEF Leave, Lock
<1>3. \A u \in Task : K.ahead[u] = IF u = t THEN {} ELSE L.ahead[u] \ {t}
      BY DEF Leave, Lock
<1>4. Queued(K) = Queued(L) \ {t}
      BY <1>2 DEF Queued
<1> HIDE DEF K
<1>5. Orderly(K)
  <2>1. \A u \in Task : L.ahead[u] \subseteq Queued(L) \ {u}
        BY DEF Orderly
  <2>2. \A u \in Task : K.ahead[u] \subseteq Queued(K) \ {u}
        BY <1>3, <1>4, <2>1
  <2>3. \A u \in Task : K.mode[u] = "none" => K.ahead[u] = {}
        BY <1>2, <1>3 DEF Orderly
  <2>4. ASSUME NEW u \in Queued(K), NEW v \in Queued(K), u # v
        PROVE  u \in K.ahead[v] \/ v \in K.ahead[u]
        <3>1. u \in Task /\ v \in Task /\ u # t /\ v # t
              BY <1>4 DEF Queued
        <3> QED
            BY <1>3, <1>4, <2>4, <3>1 DEF Orderly
  <2> QED
      BY <2>2, <2>3, <2>4 DEF Orderly
<1>6. \A u \in Task : u # t /\ Holds(L, u) => Holds(K, u)
      <2> SUFFICES ASSUME NEW u \in Task, u # t, Holds(L, u) PROVE Holds(K, u)
          OBVIOUS
      <2>1. L.ahead[u] \subseteq Task
            BY DEF Lock
      <2> QED
          BY <1>2, <1>3, <2>1 DEF Holds
<1> QED
    BY <1>1, <1>2, <1>5, <1>6 DEF OnlyMoves, K

\* A lock that is left alone.
LEMMA NobodyMoves ==
  ASSUME NEW L \in Lock, Orderly(L), NEW t PROVE OnlyMoves(L, L, t)
BY DEF OnlyMoves

\* One task queues in one lock of a family, or leaves it.
LEMMA Requested ==
  ASSUME NEW L \in [Scope -> Lock], \A s \in Scope : Orderly(L[s]),
         NEW s \in Scope, NEW t \in Task, NEW mode \in {"read", "write"},
         L[s].mode[t] = "none", NEW K, K = [x \in Scope |-> K[x]],
         K[s] = Request(L[s], t, mode), \A x \in Scope : x # s => K[x] = L[x]
  PROVE  /\ K \in [Scope -> Lock] /\ \A x \in Scope : OnlyMoves(L[x], K[x], t)
         /\ K[s].mode[t] = mode /\ \A x \in Scope : x # s => K[x] = L[x]
<1>1. OnlyMoves(L[s], K[s], t) /\ K[s].mode[t] = mode
      BY RequestMoves
<1>2. \A x \in Scope : OnlyMoves(L[x], K[x], t)
      BY <1>1, NobodyMoves
<1> QED
    BY <1>1, <1>2 DEF OnlyMoves

LEMMA Left ==
  ASSUME NEW L \in [Scope -> Lock], \A s \in Scope : Orderly(L[s]),
         NEW s \in Scope, NEW t \in Task, NEW K, K = [x \in Scope |-> K[x]],
         K[s] = Leave(L[s], t), \A x \in Scope : x # s => K[x] = L[x]
  PROVE  /\ K \in [Scope -> Lock] /\ \A x \in Scope : OnlyMoves(L[x], K[x], t)
         /\ K[s].mode[t] = "none" /\ \A x \in Scope : x # s => K[x] = L[x]
<1>1. OnlyMoves(L[s], K[s], t) /\ K[s].mode[t] = "none"
      BY LeaveMoves
<1>2. \A x \in Scope : OnlyMoves(L[x], K[x], t)
      BY <1>1, NobodyMoves
<1> QED
    BY <1>1, <1>2 DEF OnlyMoves

\* Two tasks hold a lock together only to read.
LEMMA HoldersRead ==
  ASSUME NEW L \in Lock, Orderly(L), NEW t \in Task, NEW u \in Task, t # u,
         Holds(L, t), Holds(L, u)
  PROVE  L.mode[t] = "read" /\ L.mode[u] = "read"
BY DEF Holds, Orderly, Queued

(***************************************************************************)
(* What the tasks that do not move keep.                                   *)
(***************************************************************************)

\* Only task t moves in the locks, and the others do not change their state.
TaskMoves(t) ==
  /\ \A s \in Scope : OnlyMoves(life[s], life'[s], t) /\ OnlyMoves(gate[s], gate'[s], t)
  /\ \A c \in Call : c # t => call'[c].pc = call[c].pc /\ call'[c].plugin = call[c].plugin
  /\ \A m \in Maintainer : m # t => maint'[m] = maint[m]
  /\ "exit" # t => exit' = exit /\ accepting' = accepting

LEMMA OthersStayLocked ==
  ASSUME TypeOK, LocksAreOrderly, TasksAreLocked, NEW t \in Task, TaskMoves(t)
  PROVE  /\ LocksAreOrderly'
         /\ \A c \in Call : c # t => CallIsLocked(c)'
         /\ \A m \in Maintainer : m # t => MaintenanceIsLocked(m)'
         /\ "exit" # t => ExitIsLocked'
         /\ \A s \in Scope : \A u \in Task \ Maintainer :
              u # t => gate'[s].mode[u] = "none"
<1> USE DEF TaskMoves
<1>1. LocksAreOrderly'
      BY DEF LocksAreOrderly, OnlyMoves
<1>2. \A s \in Scope : \A u \in Task : u # t =>
        /\ life'[s].mode[u] = life[s].mode[u] /\ gate'[s].mode[u] = gate[s].mode[u]
        /\ Holds(life[s], u) => Holds(life'[s], u)
        /\ Holds(gate[s], u) => Holds(gate'[s], u)
      BY DEF OnlyMoves
<1>3. Global \in Scope /\ Plugin \subseteq Scope /\ Call \subseteq Task
      /\ Maintainer \subseteq Task /\ "exit" \in Task
      BY DEF Scope, Task
<1>4. ASSUME NEW c \in Call, c # t PROVE CallIsLocked(c)'
  <2>1. CallIsLocked(c) /\ c \in Task
        BY <1>3 DEF TasksAreLocked
  <2>2. call'[c].pc = call[c].pc /\ call'[c].plugin = call[c].plugin
        BY <1>4
  <2> QED
      BY <1>2, <1>3, <1>4, <2>1, <2>2 DEF CallIsLocked, Reads
<1>5. ASSUME NEW m \in Maintainer, m # t PROVE MaintenanceIsLocked(m)'
  <2>1. MaintenanceIsLocked(m) /\ m \in Task /\ maint[m].scope \in Scope
        BY <1>3 DEF TasksAreLocked, TypeOK, MaintState
  <2>2. maint'[m] = maint[m]
        BY <1>5
  <2> QED
      BY <1>2, <1>3, <1>5, <2>1, <2>2 DEF MaintenanceIsLocked, LifeOf, GateOf
<1>6. "exit" # t => ExitIsLocked'
      BY <1>2, <1>3 DEF ExitIsLocked, TasksAreLocked
<1>7. \A s \in Scope : \A u \in Task \ Maintainer : u # t => gate'[s].mode[u] = "none"
      BY <1>2 DEF TasksAreLocked
<1> QED
    BY <1>1, <1>4, <1>5, <1>6, <1>7

\* Who holds the lock of a maintained scope is its maintenance, and nobody else.
LEMMA HolderBars ==
  ASSUME TypeOK, LocksAreOrderly, TasksAreLocked, NEW m \in Maintainer,
         maint[m].pc = "held", NEW t \in Task, t # m
  PROVE  ~Holds(life[maint[m].scope], t)
<1> DEFINE s == maint[m].scope
<1>1. s \in Scope /\ m \in Task
      BY DEF TypeOK, MaintState, Task
<1>2. life[s] \in Lock /\ Orderly(life[s])
      BY <1>1 DEF TypeOK, LocksAreOrderly
<1>3. Holds(life[s], m) /\ life[s].mode[m] = "write"
      BY <1>1 DEF TasksAreLocked, MaintenanceIsLocked, LifeOf
<1> QED
    BY <1>1, <1>2, <1>3, HoldersRead

\* So no call uses a host that is maintained, and no two maintenances overlap.
LEMMA HostUse ==
  ASSUME TypeOK, LocksAreOrderly, TasksAreLocked
  PROVE  HostUseExcludesMaintenance /\ MaintenancesAreSerial
<1>1. HostUseExcludesMaintenance
  <2> SUFFICES ASSUME NEW c \in Call, NEW m \in Maintainer, call[c].pc = "executing",
                      maint[m].pc = "held", maint[m].scope \in {Global, call[c].plugin}
               PROVE  FALSE
      BY DEF HostUseExcludesMaintenance
  <2>1. c \in Task /\ c # m
        BY ControllerAssumption DEF Task
  <2>2. Holds(life[maint[m].scope], c)
        BY DEF TasksAreLocked, CallIsLocked
  <2> QED
      BY <2>1, <2>2, HolderBars
<1>2. MaintenancesAreSerial
  <2> SUFFICES ASSUME NEW m \in Maintainer, NEW n \in Maintainer, m # n,
                      maint[m].pc = "held", maint[n].pc = "held",
                      maint[m].scope = maint[n].scope \/ maint[m].scope = Global
               PROVE  FALSE
      BY DEF MaintenancesAreSerial
  <2>1. n \in Task
        BY DEF Task
  <2>2. Holds(life[maint[m].scope], n)
        BY DEF TasksAreLocked, MaintenanceIsLocked
  <2> QED
      BY <2>1, <2>2, HolderBars
<1> QED
    BY <1>1, <1>2

\* A lock nobody is in is free.
LEMMA EmptyIsFree ==
  ASSUME NEW L \in Lock, Orderly(L), \A t \in Task : L.mode[t] = "none"
  PROVE  L = Free
<1>1. \A t \in Task : L.ahead[t] = {}
      BY DEF Orderly
<1>2. L.mode = Free.mode
      BY DEF Lock, Free
<1>3. L.ahead = Free.ahead
      BY <1>1 DEF Lock, Free
<1> QED
    BY <1>2, <1>3, FreeIsOrderly DEF Lock

LEMMA Released ==
  ASSUME TypeOK, LocksAreOrderly, TasksAreLocked, FlagsAreOwned
  PROVE  GuardsAreReleased
<1> SUFFICES ASSUME NEW s \in Scope,
                    \A m \in Maintainer : maint[m].pc # "idle" => maint[m].scope # s
             PROVE  /\ ~active[s] /\ gate[s] = Free
                    /\ \A m \in Maintainer : life[s].mode[m] # "write"
    BY DEF GuardsAreReleased
<1>1. ~active[s]
      BY DEF FlagsAreOwned, Raised
<1>2. \A m \in Maintainer : gate[s].mode[m] = "none" /\ life[s].mode[m] # "write"
      BY DEF TasksAreLocked, MaintenanceIsLocked, GateOf, LifeOf
<1>3. \A t \in Task : gate[s].mode[t] = "none"
      BY <1>2 DEF TasksAreLocked
<1>4. gate[s] = Free
      BY <1>3, EmptyIsFree DEF TypeOK, LocksAreOrderly
<1> QED
    BY <1>1, <1>2, <1>4

(***************************************************************************)
(* The steps of a call.                                                    *)
(***************************************************************************)

LEMMA States ==
  /\ Idle \in CallState /\ NoMaintenance \in MaintState
  /\ Idle.pc = "idle" /\ Idle.kind = "invoke" /\ Idle.route = None
  /\ NoMaintenance.pc = "idle" /\ NoMaintenance.scope = Global /\ NoMaintenance.seen = 0
  /\ Global \in Scope /\ Plugin \subseteq Scope
  /\ Call \subseteq Task /\ Maintainer \subseteq Task /\ "exit" \in Task
  /\ "exit" \notin Call \cup Maintainer /\ Call \cap Maintainer = {}
BY ControllerAssumption DEF Idle, NoMaintenance, CallState, MaintState, Scope, Task

\* Only call c moves, in its own state and in the lifecycle locks.
CallMoves(c) ==
  /\ call' \in [Call -> CallState] /\ \A d \in Call : d # c => call'[d] = call[d]
  /\ life' \in [Scope -> Lock] /\ \A s \in Scope : OnlyMoves(life[s], life'[s], c)
  /\ hosts' \subseteq Plugin /\ routes' = routes
  /\ CallStep

LEMMA CallStepKeeps ==
  ASSUME IInv, NEW c \in Call, CallMoves(c), CallIsLocked(c)', HostsStayDown',
         EpochsTell(c)', CloneIsCurrent(c)', DisturbanceShows(c)',
         call'[c].pc = "executing" /\ ~call'[c].raced
           => call'[c].route = routes[call'[c].plugin]
  PROVE  IInv'
<1> USE DEF CallMoves
<1>1. TypeOK /\ LocksAreOrderly /\ TasksAreLocked
      BY DEF IInv
<1>2. UNCHANGED <<accepting, epoch, active, scoped, gate, maint, exit, rounds, exits,
                  routes>>
      BY DEF CallStep, flags
<1>3. TypeOK'
      BY <1>1, <1>2 DEF TypeOK
<1>4. c \in Task /\ c # "exit" /\ c \notin Maintainer
      BY States
<1>5. TaskMoves(c)
  <2>1. \A s \in Scope : OnlyMoves(gate[s], gate'[s], c)
        BY <1>1, <1>2, NobodyMoves DEF TypeOK, LocksAreOrderly
  <2> QED
      BY <1>2, <1>4, <2>1 DEF TaskMoves
<1>6. LocksAreOrderly' /\ TasksAreLocked'
  <2>1. \A s \in Scope : gate'[s].mode[c] = "none"
        BY <1>1, <1>2, <1>4 DEF TasksAreLocked
  <2> QED
      BY <1>1, <1>4, <1>5, <2>1, OthersStayLocked DEF TasksAreLocked
<1>7. FlagsAreOwned' /\ CounterIsExact'
      BY <1>2 DEF IInv, FlagsAreOwned, CounterIsExact, Raised
<1>8. CallsKnow'
  <2> SUFFICES ASSUME NEW d \in Call, d # c
               PROVE  EpochsTell(d)' /\ CloneIsCurrent(d)' /\ DisturbanceShows(d)'
      BY DEF CallsKnow
  <2>1. EpochsTell(d) /\ CloneIsCurrent(d) /\ DisturbanceShows(d)
        BY DEF IInv, CallsKnow
  <2>2. call'[d] = call[d]
        OBVIOUS
  <2> QED
      BY <1>2, <2>1, <2>2
         DEF EpochsTell, CloneIsCurrent, DisturbanceShows, Loaded, SeenOf, Maintained
<1>9. SettledCallsStayInTheirVersion'
      BY <1>2 DEF IInv, SettledCallsStayInTheirVersion
<1> QED
    BY <1>3, <1>6, <1>7, <1>8, <1>9 DEF IInv

\* As long as no call comes to use a host, the hosts that are down stay down.
LEMMA DownStaysDown ==
  ASSUME IInv, NEW c \in Call, CallMoves(c), hosts' \subseteq hosts,
         call'[c].pc # "executing"
  PROVE  HostsStayDown'
BY DEF IInv, CallMoves, CallStep, HostsStayDown

\* The call ends.
LEMMA CallEnds ==
  ASSUME IInv, NEW c \in Call, NEW refused \in BOOLEAN, EndAs(c, refused),
         hosts' \subseteq hosts, routes' = routes, CallStep
  PROVE  IInv' /\ call'[c].pc = "idle" /\ call'[c].refused = refused
<1>1. TypeOK /\ LocksAreOrderly
      BY DEF IInv
<1>2. PICK q : q = [Idle EXCEPT !.refused = refused]
      OBVIOUS
<1>3. q \in CallState /\ q.pc = "idle" /\ q.refused = refused
      BY <1>2, States DEF CallState
<1>4. /\ call' \in [Call -> CallState] /\ call'[c] = q
      /\ \A d \in Call : d # c => call'[d] = call[d]
      BY <1>1, <1>2, <1>3 DEF EndAs, TypeOK
<1>5. \A s \in Scope : OnlyMoves(life[s], life'[s], c) /\ life'[s].mode[c] = "none"
      BY <1>1, States, LeaveMoves DEF EndAs, TypeOK, LocksAreOrderly
<1>6. life' \in [Scope -> Lock]
      BY <1>5 DEF EndAs, OnlyMoves
<1>7. CallMoves(c)
      BY <1>1, <1>4, <1>5, <1>6 DEF CallMoves, TypeOK
<1>8. CallIsLocked(c)'
      BY <1>3, <1>4, <1>5 DEF CallIsLocked, Reads
<1>9. EpochsTell(c)' /\ CloneIsCurrent(c)' /\ DisturbanceShows(c)'
      BY <1>3, <1>4 DEF EpochsTell, CloneIsCurrent, DisturbanceShows, Loaded
<1>10. HostsStayDown'
      BY <1>3, <1>4, <1>7, DownStaysDown
<1> QED
    BY <1>3, <1>4, <1>7, <1>8, <1>9, <1>10, CallStepKeeps

\* A call begins: it has what it reads of the epochs.
LEMMA CallBegins ==
  ASSUME IInv, NEW c \in Call, NEW p \in Plugin,
         BeginInvoke(c, p) \/ BeginOperator(c, p)
  PROVE  IInv'
<1>1. TypeOK /\ LocksAreOrderly /\ TasksAreLocked
      BY DEF IInv
<1>2. UNCHANGED <<accepting, epoch, active, scoped, gate, maint, exit, rounds, exits,
                  life, routes, hosts>> /\ CallStep
      BY DEF BeginInvoke, BeginOperator, CallStep, flags
<1>3. PICK q \in CallState :
        /\ call' = [call EXCEPT ![c] = q]
        /\ q.pc = "flags" /\ q.plugin = p /\ q.seen = epoch[Global] /\ q.route = None
        /\ q.kind # "invoke" => q.seenPlugin = epoch[p]
        /\ ~q.raced => ~Maintained(Global) /\ (q.kind # "invoke" => ~Maintained(p))
        /\ ~q.disturbed => ~Maintained(Global) /\ ~Maintained(p)
  <2>1. Maintained(Global) \in BOOLEAN /\ Maintained(p) \in BOOLEAN
        BY DEF Maintained
  <2>2. epoch[Global] \in Nat /\ epoch[p] \in Nat
        BY <1>1 DEF TypeOK, Scope
  <2>3. CASE BeginInvoke(c, p)
    <3>1. PICK q : q = [Idle EXCEPT !.pc = "flags", !.plugin = p, !.seen = epoch[Global],
                          !.raced = Maintained(Global),
                          !.disturbed = Maintained(Global) \/ Maintained(p)]
          OBVIOUS
    <3>2. q \in CallState
          BY <3>1, <2>1, <2>2, States DEF CallState
    <3>3. /\ q.pc = "flags" /\ q.plugin = p /\ q.seen = epoch[Global] /\ q.route = None
          /\ q.kind = "invoke"
          BY <3>1, States DEF CallState
    <3>4. q.raced <=> Maintained(Global)
          BY <3>1, <2>1, States DEF CallState
    <3>5. q.disturbed <=> Maintained(Global) \/ Maintained(p)
          BY <3>1, <2>1, States DEF CallState
    <3>6. call' = [call EXCEPT ![c] = q]
          BY <2>3, <3>1 DEF BeginInvoke
    <3> QED
        BY <3>2, <3>3, <3>4, <3>5, <3>6
  <2>4. CASE BeginOperator(c, p)
    <3>1. PICK q : q = [Idle EXCEPT !.pc = "flags", !.kind = "operator", !.plugin = p,
                    !.seen = epoch[Global], !.seenPlugin = epoch[p],
                    !.raced = Maintained(Global) \/ Maintained(p),
                    !.disturbed = Maintained(Global) \/ Maintained(p)]
          OBVIOUS
    <3>2. q \in CallState
          BY <3>1, <2>1, <2>2, States DEF CallState
    <3>3. /\ q.pc = "flags" /\ q.plugin = p /\ q.seen = epoch[Global] /\ q.route = None
          /\ q.kind = "operator" /\ q.seenPlugin = epoch[p]
          BY <3>1, States DEF CallState
    <3>4. q.raced <=> Maintained(Global) \/ Maintained(p)
          BY <3>1, <2>1, States DEF CallState
    <3>5. q.disturbed <=> Maintained(Global) \/ Maintained(p)
          BY <3>1, <2>1, States DEF CallState
    <3>6. call' = [call EXCEPT ![c] = q]
          BY <2>4, <3>1 DEF BeginOperator
    <3> QED
        BY <3>2, <3>3, <3>4, <3>5, <3>6
  <2> QED
      BY <2>3, <2>4
<1>4. /\ call' \in [Call -> CallState] /\ call'[c] = q
      /\ \A d \in Call : d # c => call'[d] = call[d]
      BY <1>1, <1>3 DEF TypeOK
<1>5. CallMoves(c)
      BY <1>1, <1>2, <1>4, NobodyMoves DEF CallMoves, TypeOK, LocksAreOrderly
<1>6. CallIsLocked(c)'
      BY <1>1, <1>2, <1>3, <1>4
         DEF BeginInvoke, BeginOperator, TasksAreLocked, CallIsLocked, Reads
<1>7. \A s \in Scope : Maintained(s)' <=> Maintained(s)
      BY <1>2 DEF Maintained
<1>8. /\ \A s \in Scope : Loaded(c, s)' => s = Global \/ (s = p /\ q.kind # "invoke")
      /\ SeenOf(c, Global)' = q.seen
      /\ SeenOf(c, p)' = q.seenPlugin
      /\ p # Global /\ p \in Scope /\ Global \in Scope
  <2>1. p # Global /\ p \in Scope /\ Global \in Scope
        BY ControllerAssumption DEF Scope
  <2>2. SeenOf(c, Global)' = q.seen /\ SeenOf(c, p)' = q.seenPlugin
        BY <1>4, <2>1 DEF SeenOf
  <2>3. q.kind = "operator" => q.kind # "invoke"
        OBVIOUS
  <2>4. \A s \in Scope : Loaded(c, s)' => s = Global \/ (s = p /\ q.kind # "invoke")
        BY <1>3, <1>4, <2>3 DEF Loaded
  <2> QED
      BY <2>1, <2>2, <2>4
<1>9. EpochsTell(c)'
      BY <1>1, <1>2, <1>3, <1>4, <1>7, <1>8 DEF EpochsTell, TypeOK
<1>10. CloneIsCurrent(c)'
      BY <1>3, <1>4, <1>8 DEF CloneIsCurrent
<1>11. DisturbanceShows(c)'
      BY <1>2, <1>3, <1>4, <1>7, <1>8 DEF DisturbanceShows
<1>12. HostsStayDown'
      BY <1>2, <1>3, <1>4, <1>5, DownStaysDown
<1> QED
    BY <1>3, <1>4, <1>5, <1>6, <1>9, <1>10, <1>11, <1>12, CallStepKeeps

\* A call goes on with what it knows.
LEMMA CallGoes ==
  ASSUME IInv, NEW c \in Call, NEW pc \in {"route", "waitGlobal", "waitPlugin"},
         Goto(c, pc), call[c].pc \notin {"idle", "executing"},
         pc # "route" /\ call[c].pc = "flags" => call[c].kind = "operator",
         call[c].pc \in {"route", "lookup"} => pc = "route",
         life' \in [Scope -> Lock], \A s \in Scope : OnlyMoves(life[s], life'[s], c),
         CallIsLocked(c)', UNCHANGED <<routes, hosts>>, CallStep
  PROVE  IInv' /\ call'[c].pc = pc
<1>1. TypeOK
      BY DEF IInv
<1>2. PICK q : q = [call[c] EXCEPT !.pc = pc]
      OBVIOUS
<1>3. call[c] \in CallState
      BY <1>1 DEF TypeOK
<1>4. /\ q \in CallState /\ q.pc = pc /\ q.kind = call[c].kind
      /\ q.plugin = call[c].plugin /\ q.seen = call[c].seen
      /\ q.seenPlugin = call[c].seenPlugin /\ q.route = call[c].route
      BY <1>2, <1>3 DEF CallState
<1>5. q.raced = call[c].raced /\ q.disturbed = call[c].disturbed
      BY <1>2, <1>3 DEF CallState
<1>6. call' = [call EXCEPT ![c] = q]
      BY <1>2 DEF Goto
<1>7. /\ call' \in [Call -> CallState] /\ call'[c] = q
      /\ \A d \in Call : d # c => call'[d] = call[d]
      BY <1>1, <1>4, <1>6 DEF TypeOK
<1>8. CallMoves(c)
      BY <1>1, <1>7 DEF CallMoves, TypeOK
<1>9. UNCHANGED <<epoch, maint, routes>>
      BY DEF CallStep, flags
<1>10. EpochsTell(c) /\ CloneIsCurrent(c) /\ DisturbanceShows(c)
       BY DEF IInv, CallsKnow
<1>11. ASSUME NEW s \in Scope \cup {call[c].plugin}
       PROVE  /\ Loaded(c, s)' => Loaded(c, s)
              /\ SeenOf(c, s)' = SeenOf(c, s)
              /\ Maintained(s)' <=> Maintained(s)
       BY <1>4, <1>7, <1>9 DEF Loaded, SeenOf, Maintained
<1>12. EpochsTell(c)'
       BY <1>5, <1>7, <1>9, <1>10, <1>11 DEF EpochsTell
<1>13. CloneIsCurrent(c)'
       BY <1>4, <1>5, <1>7, <1>9, <1>10, <1>11 DEF CloneIsCurrent
<1>14. DisturbanceShows(c)'
       BY <1>4, <1>5, <1>7, <1>9, <1>10, <1>11, States DEF DisturbanceShows
<1>15. HostsStayDown'
       BY <1>4, <1>7, <1>8, DownStaysDown
<1> QED
    BY <1>4, <1>7, <1>8, <1>12, <1>13, <1>14, <1>15, CallStepKeeps

\* What UnrelatedPluginsAreServed says of one call.
ServedUnlessDisturbed(c) ==
  call[c].pc # "idle" /\ call'[c].pc = "idle" /\ call'[c].refused => call[c].disturbed

\* What turns a call away disturbs it.
LEMMA ActiveDisturbs ==
  ASSUME IInv, NEW c \in Call, call[c].pc # "idle", NEW s \in Scope,
         s \in {Global, call[c].plugin}, active[s]
  PROVE  call[c].disturbed
<1>1. Maintained(s)
      BY DEF IInv, FlagsAreOwned, Raised, Maintained
<1> QED
    BY <1>1 DEF IInv, CallsKnow, DisturbanceShows

LEMMA StaleDisturbs ==
  ASSUME IInv, NEW c \in Call, call[c].pc \in {"waitGlobal", "waitPlugin"}, Stale(c)
  PROVE  call[c].disturbed
<1>1. Global \in Scope /\ call[c].plugin \in Plugin /\ call[c].plugin \in Scope
      BY States DEF IInv, TasksAreLocked, CallIsLocked
<1>2. call[c].plugin # Global
      BY <1>1, ControllerAssumption
<1>3. CASE active[Global] \/ (NeedsPlugin(c) /\ active[call[c].plugin])
      BY <1>1, <1>3, ActiveDisturbs
<1>4. CASE epoch[Global] # call[c].seen
  <2>1. Loaded(c, Global) /\ SeenOf(c, Global) # epoch[Global]
        BY <1>4 DEF Loaded, SeenOf
  <2> QED
      BY <2>1 DEF IInv, CallsKnow, DisturbanceShows
<1>5. CASE NeedsPlugin(c) /\ epoch[call[c].plugin] # call[c].seenPlugin
  <2>1. call[c].kind \in {"invoke", "operator"}
        BY DEF IInv, TypeOK, CallState
  <2>2. Loaded(c, call[c].plugin) /\ SeenOf(c, call[c].plugin) # epoch[call[c].plugin]
        BY <1>2, <1>5, <2>1 DEF Loaded, SeenOf, NeedsPlugin
  <2> QED
      BY <2>2 DEF IInv, CallsKnow, DisturbanceShows
<1> QED
    BY <1>3, <1>4, <1>5 DEF Stale

\* A call asks for the lock of a scope and waits.
LEMMA CallRequests ==
  ASSUME IInv, NEW c \in Call, NEW s \in Scope, NEW pc \in {"waitGlobal", "waitPlugin"},
         Goto(c, pc), life' = [life EXCEPT ![s] = Request(@, c, "read")],
         \/ pc = "waitGlobal" /\ s = Global /\ call[c].pc \in {"flags", "admit"}
         \/ /\ pc = "waitPlugin" /\ s = call[c].plugin /\ call[c].pc = "waitGlobal"
            /\ Holds(life[Global], c),
         call[c].pc = "flags" => call[c].kind = "operator",
         UNCHANGED <<routes, hosts>>, CallStep
  PROVE  IInv' /\ call'[c].pc = pc
<1>1. TypeOK /\ LocksAreOrderly /\ CallIsLocked(c)
      BY DEF IInv, TasksAreLocked
<1>2. c \in Task /\ Global \in Scope
      BY States
<1>3. call[c].plugin \in Plugin /\ call[c].plugin # Global
      BY <1>1, ControllerAssumption DEF CallIsLocked
<1>4. life[s].mode[c] = "none"
      BY <1>1, <1>3 DEF CallIsLocked, Reads
<1>5. /\ life' \in [Scope -> Lock] /\ \A x \in Scope : OnlyMoves(life[x], life'[x], c)
      /\ life'[s].mode[c] = "read" /\ \A x \in Scope : x # s => life'[x] = life[x]
  <2>1. life \in [Scope -> Lock] /\ \A x \in Scope : Orderly(life[x])
        BY <1>1 DEF TypeOK, LocksAreOrderly
  <2>2. "read" \in {"read", "write"}
        OBVIOUS
  <2>3. /\ life' = [x \in Scope |-> life'[x]]
        /\ life'[s] = Request(life[s], c, "read")
        /\ \A x \in Scope : x # s => life'[x] = life[x]
        BY <2>1
  <2> QED
      BY <1>2, <1>4, <2>1, <2>2, <2>3, Requested
<1>6. call'[c].pc = pc /\ call'[c].plugin = call[c].plugin
      BY <1>1 DEF Goto, TypeOK, CallState
<1>7. CallIsLocked(c)'
      BY <1>1, <1>2, <1>3, <1>5, <1>6 DEF CallIsLocked, Reads
<1> QED
    BY <1>5, <1>7, CallGoes

LEMMA CheckFlagsKeeps ==
  ASSUME IInv, NEW c \in Call, CheckFlags(c)
  PROVE  IInv' /\ ServedUnlessDisturbed(c)
<1>1. TypeOK /\ LocksAreOrderly /\ CallIsLocked(c) /\ call[c].pc = "flags"
      BY DEF IInv, TasksAreLocked, CheckFlags
<1>2. UNCHANGED <<routes, hosts>> /\ CallStep
      BY DEF CheckFlags
<1>3. Global \in Scope /\ call[c].plugin \in Scope
      BY <1>1, States DEF CallIsLocked
<1>4. CASE End(c)
      BY <1>2, <1>4, CallEnds DEF End, ServedUnlessDisturbed
<1>5. CASE Refuse(c) /\ (active[Global] \/ active[call[c].plugin])
      BY <1>1, <1>2, <1>3, <1>5, CallEnds, ActiveDisturbs DEF Refuse, ServedUnlessDisturbed
<1>6. CASE Goto(c, "route") /\ UNCHANGED life
  <2>1. \A s \in Scope : OnlyMoves(life[s], life'[s], c)
        BY <1>1, <1>6, NobodyMoves DEF TypeOK, LocksAreOrderly
  <2>2. call'[c].pc = "route" /\ call'[c].plugin = call[c].plugin
        BY <1>1, <1>6 DEF Goto, TypeOK, CallState
  <2>3. CallIsLocked(c)'
        BY <1>1, <1>6, <2>2 DEF CallIsLocked, Reads
  <2> QED
      BY <1>1, <1>2, <1>6, <2>1, <2>2, <2>3, CallGoes DEF TypeOK, ServedUnlessDisturbed
<1>7. CASE /\ Goto(c, "waitGlobal") /\ call[c].kind # "invoke"
           /\ life' = [life EXCEPT ![Global] = Request(@, c, "read")]
  <2>1. call[c].kind = "operator"
        BY <1>1, <1>7 DEF TypeOK, CallState
  <2> QED
      BY <1>1, <1>2, <1>3, <1>7, <2>1, CallRequests DEF ServedUnlessDisturbed
<1> QED
    BY <1>4, <1>5, <1>6, <1>7 DEF CheckFlags

LEMMA AdmitKeeps ==
  ASSUME IInv, NEW c \in Call, Admit(c)
  PROVE  IInv' /\ ServedUnlessDisturbed(c)
<1>1. CallIsLocked(c) /\ call[c].pc = "admit"
      BY DEF IInv, TasksAreLocked, Admit
<1>2. UNCHANGED <<routes, hosts>> /\ CallStep
      BY DEF Admit
<1>3. Global \in Scope /\ call[c].plugin \in Scope
      BY <1>1, States DEF CallIsLocked
<1>4. CASE End(c)
      BY <1>2, <1>4, CallEnds DEF End, ServedUnlessDisturbed
<1>5. CASE Refuse(c) /\ active[call[c].plugin]
      BY <1>1, <1>2, <1>3, <1>5, CallEnds, ActiveDisturbs DEF Refuse, ServedUnlessDisturbed
<1>6. CASE /\ Goto(c, "waitGlobal")
           /\ life' = [life EXCEPT ![Global] = Request(@, c, "read")]
      BY <1>1, <1>2, <1>3, <1>6, CallRequests DEF ServedUnlessDisturbed
<1> QED
    BY <1>4, <1>5, <1>6 DEF Admit

LEMMA TakePluginLockKeeps ==
  ASSUME IInv, NEW c \in Call, TakePluginLock(c)
  PROVE  IInv' /\ ServedUnlessDisturbed(c)
<1>1. CallIsLocked(c) /\ call[c].pc = "waitGlobal" /\ call[c].plugin \in Scope
      BY States DEF IInv, TasksAreLocked, CallIsLocked, TakePluginLock
<1> QED
    BY <1>1, CallRequests DEF TakePluginLock, ServedUnlessDisturbed

LEMMA FinishKeeps ==
  ASSUME IInv, NEW c \in Call, Finish(c)
  PROVE  IInv' /\ ServedUnlessDisturbed(c)
<1>1. hosts' \subseteq hosts /\ EndAs(c, FALSE) /\ routes' = routes /\ CallStep
      BY DEF Finish, End
<1> QED
    BY <1>1, CallEnds DEF ServedUnlessDisturbed

\* A step that touches no lock and does not come to use a host.
LEMMA CallThinks ==
  ASSUME IInv, NEW c \in Call, NEW q \in CallState, call' = [call EXCEPT ![c] = q],
         q.plugin = call[c].plugin,
         call[c].pc \in {"route", "lookup"}, q.pc \in {"lookup", "admit"},
         UNCHANGED <<life, routes, hosts>>, CallStep,
         EpochsTell(c)', CloneIsCurrent(c)', DisturbanceShows(c)'
  PROVE  IInv' /\ call'[c] = q
<1>1. TypeOK /\ LocksAreOrderly /\ CallIsLocked(c)
      BY DEF IInv, TasksAreLocked
<1>2. /\ call' \in [Call -> CallState] /\ call'[c] = q
      /\ \A d \in Call : d # c => call'[d] = call[d]
      BY <1>1 DEF TypeOK
<1>3. CallMoves(c)
      BY <1>1, <1>2, NobodyMoves DEF CallMoves, TypeOK, LocksAreOrderly
<1>4. CallIsLocked(c)'
      BY <1>1, <1>2 DEF CallIsLocked, Reads
<1>5. HostsStayDown'
      BY <1>2, <1>3, DownStaysDown
<1> QED
    BY <1>2, <1>3, <1>4, <1>5, CallStepKeeps

LEMMA CloneRouteKeeps ==
  ASSUME IInv, NEW c \in Call, CloneRoute(c)
  PROVE  IInv' /\ ServedUnlessDisturbed(c)
<1>1. TypeOK /\ CallIsLocked(c) /\ call[c] \in CallState /\ call[c].pc = "route"
      BY DEF IInv, TypeOK, TasksAreLocked, CloneRoute
<1>2. UNCHANGED <<routes, hosts>> /\ CallStep /\ UNCHANGED <<epoch, maint>>
      BY DEF CloneRoute, CallStep, flags
<1>3. CASE End(c)
      BY <1>2, <1>3, CallEnds DEF End, ServedUnlessDisturbed
<1>4. CASE /\ call' = [call EXCEPT ![c].pc = IF routes[call[c].plugin] = None
                                             THEN "admit" ELSE "lookup",
                                   ![c].route = routes[call[c].plugin]]
           /\ UNCHANGED life
  <2> DEFINE p == call[c].plugin
  <2>1. p \in Plugin /\ p \in Scope /\ p # Global /\ routes[p] \in Version \cup {None}
        BY <1>1, States, ControllerAssumption DEF CallIsLocked, TypeOK
  <2>2. PICK q : q = [call[c] EXCEPT !.pc = IF routes[p] = None THEN "admit" ELSE "lookup",
                                     !.route = routes[p]]
        OBVIOUS
  <2>3. /\ q \in CallState /\ q.pc = (IF routes[p] = None THEN "admit" ELSE "lookup")
        /\ q.route = routes[p] /\ q.kind = call[c].kind /\ q.plugin = p
        /\ q.seen = call[c].seen /\ q.seenPlugin = call[c].seenPlugin
        BY <1>1, <2>1, <2>2 DEF CallState
  <2>4. q.raced = call[c].raced /\ q.disturbed = call[c].disturbed
        BY <1>1, <2>2 DEF CallState
  <2>5. call' = [call EXCEPT ![c] = q]
        BY <1>4, <2>2
  <2>6. call'[c] = q
        BY <1>1, <2>5 DEF TypeOK
  <2>7. EpochsTell(c) /\ CloneIsCurrent(c) /\ DisturbanceShows(c)
        BY DEF IInv, CallsKnow
  <2>8. ASSUME NEW s \in Scope \cup {p}
        PROVE  /\ Loaded(c, s)' => Loaded(c, s)
               /\ SeenOf(c, s)' = SeenOf(c, s)
               /\ Maintained(s)' <=> Maintained(s)
    <3>1. Loaded(c, s)' => Loaded(c, s)
          BY <1>1, <2>3, <2>6 DEF Loaded
    <3> QED
        BY <1>2, <2>3, <2>6, <3>1 DEF SeenOf, Maintained
  <2>9. EpochsTell(c)'
        BY <1>2, <2>4, <2>6, <2>7, <2>8 DEF EpochsTell
  <2>10. CloneIsCurrent(c)'
         BY <1>2, <2>3, <2>6 DEF CloneIsCurrent
  <2>11. DisturbanceShows(c)'
         BY <1>1, <1>2, <2>1, <2>3, <2>4, <2>6, <2>7, <2>8, States DEF DisturbanceShows
  <2> QED
      BY <1>1, <1>2, <1>4, <2>3, <2>5, <2>9, <2>10, <2>11, CallThinks
         DEF ServedUnlessDisturbed
<1> QED
    BY <1>3, <1>4 DEF CloneRoute

LEMMA LoadPluginEpochKeeps ==
  ASSUME IInv, NEW c \in Call, LoadPluginEpoch(c)
  PROVE  IInv' /\ ServedUnlessDisturbed(c)
<1> DEFINE p == call[c].plugin
<1>1. TypeOK /\ CallIsLocked(c) /\ call[c] \in CallState /\ call[c].pc = "lookup"
      BY DEF IInv, TypeOK, TasksAreLocked, LoadPluginEpoch
<1>2. UNCHANGED <<life, routes, hosts>> /\ CallStep /\ UNCHANGED <<epoch, maint>>
      BY DEF LoadPluginEpoch, CallStep, flags
<1>3. p \in Plugin /\ p \in Scope /\ p # Global
      BY <1>1, States, ControllerAssumption DEF CallIsLocked
<1>4. epoch[p] \in Nat
      BY <1>1, <1>3 DEF TypeOK
<1>5. PICK q : q = [call[c] EXCEPT !.pc = "admit", !.seenPlugin = epoch[p],
                      !.raced = \/ @ \/ Maintained(p) \/ call[c].route # routes[p]]
      OBVIOUS
<1>6. (call[c].raced \/ Maintained(p) \/ call[c].route # routes[p]) \in BOOLEAN
      BY <1>1 DEF Maintained, CallState
<1>7. /\ q \in CallState /\ q.pc = "admit" /\ q.kind = call[c].kind /\ q.plugin = p
      /\ q.route = call[c].route /\ q.seen = call[c].seen /\ q.seenPlugin = epoch[p]
      BY <1>1, <1>4, <1>5, <1>6 DEF CallState
<1>8. q.raced <=> call[c].raced \/ Maintained(p) \/ call[c].route # routes[p]
      BY <1>1, <1>5, <1>6 DEF CallState
<1>9. q.disturbed <=> call[c].disturbed
      BY <1>1, <1>5 DEF CallState
<1>10. call' = [call EXCEPT ![c] = q]
       BY <1>5 DEF LoadPluginEpoch
<1>11. call'[c] = q
       BY <1>1, <1>10 DEF TypeOK
<1>12. EpochsTell(c) /\ CloneIsCurrent(c) /\ DisturbanceShows(c)
       BY DEF IInv, CallsKnow
<1>13. /\ \A s \in Scope : Maintained(s)' <=> Maintained(s)
       /\ SeenOf(c, p)' = epoch[p] /\ SeenOf(c, Global)' = SeenOf(c, Global)
       /\ \A s \in Scope : Loaded(c, s)' => s \in {Global, p}
       /\ Loaded(c, Global)
       BY <1>1, <1>2, <1>3, <1>7, <1>11 DEF SeenOf, Maintained, Loaded
<1>14. EpochsTell(c)'
  <2>1. SeenOf(c, Global)' <= epoch'[Global]
        /\ (SeenOf(c, Global)' = epoch'[Global] /\ ~q.raced => ~Maintained(Global)')
        BY <1>2, <1>8, <1>12, <1>13, States DEF EpochsTell
  <2>2. SeenOf(c, p)' <= epoch'[p] /\ (~q.raced => ~Maintained(p)')
        BY <1>2, <1>3, <1>4, <1>7, <1>8, <1>11, <1>13
  <2> QED
      BY <1>7, <1>11, <1>13, <2>1, <2>2 DEF EpochsTell
<1>15. CloneIsCurrent(c)'
       BY <1>2, <1>7, <1>8, <1>11 DEF CloneIsCurrent
<1>16. DisturbanceShows(c)'
       BY <1>1, <1>2, <1>3, <1>7, <1>9, <1>11, <1>12, <1>13, States DEF DisturbanceShows
<1> QED
    BY <1>1, <1>2, <1>7, <1>10, <1>14, <1>15, <1>16, CallThinks DEF ServedUnlessDisturbed

\* What a call finds under its locks is what it saw before.
LEMMA SeesTheInstalled ==
  ASSUME IInv, NEW c \in Call, call[c].pc \in {"waitGlobal", "waitPlugin"},
         ~Stale(c), NeedsPlugin(c), call[c].kind = "invoke", ~call[c].raced
  PROVE  call[c].route = routes[call[c].plugin]
<1>1. Loaded(c, call[c].plugin)
      BY DEF Loaded, NeedsPlugin
<1> QED
    BY <1>1 DEF Stale, IInv, CallsKnow, CloneIsCurrent

LEMMA RecheckKeeps ==
  ASSUME IInv, NEW c \in Call, Recheck(c)
  PROVE  IInv' /\ ServedUnlessDisturbed(c)
<1> DEFINE p == call[c].plugin
<1>1. /\ TypeOK /\ LocksAreOrderly /\ TasksAreLocked /\ CallIsLocked(c) /\ HostsStayDown
      /\ call[c] \in CallState /\ call[c].pc \in {"waitGlobal", "waitPlugin"}
      BY DEF IInv, TypeOK, TasksAreLocked, Recheck
<1>2. routes' = routes /\ CallStep /\ UNCHANGED <<epoch, maint, accepting, exit>>
      BY DEF Recheck, CallStep, flags
<1>3. p \in Plugin /\ p \in Scope /\ p # Global /\ Global \in Scope
      BY <1>1, States, ControllerAssumption DEF CallIsLocked
<1>4. CASE End(c) /\ UNCHANGED hosts
      BY <1>2, <1>4, CallEnds DEF End, ServedUnlessDisturbed
<1>5. CASE Refuse(c) /\ UNCHANGED hosts /\ Stale(c)
      BY <1>1, <1>2, <1>5, CallEnds, StaleDisturbs DEF Refuse, ServedUnlessDisturbed
<1>6. CASE /\ accepting /\ ~Stale(c) /\ NeedsPlugin(c)
           /\ call[c].pc = "waitPlugin" /\ Holds(life[p], c)
           /\ call' = [call EXCEPT ![c].pc = "executing",
                         ![c].route = IF call[c].kind = "invoke" THEN @ ELSE routes[p]]
           /\ hosts' = hosts \cup {p}
           /\ UNCHANGED life
  <2>1. routes[p] \in Version \cup {None}
        BY <1>1, <1>3 DEF TypeOK
  <2>2. PICK q : q = [call[c] EXCEPT !.pc = "executing",
                        !.route = IF call[c].kind = "invoke" THEN call[c].route
                                  ELSE routes[p]]
        OBVIOUS
  <2>3. /\ q \in CallState /\ q.pc = "executing" /\ q.plugin = p
        /\ q.route = IF call[c].kind = "invoke" THEN call[c].route ELSE routes[p]
        BY <1>1, <2>1, <2>2 DEF CallState
  <2>4. q.raced <=> call[c].raced
        BY <1>1, <2>2 DEF CallState
  <2>5. call' = [call EXCEPT ![c] = q]
        BY <1>1, <1>6, <2>2 DEF CallState
  <2>6. /\ call' \in [Call -> CallState] /\ call'[c] = q
        /\ \A d \in Call : d # c => call'[d] = call[d]
        BY <1>1, <2>3, <2>5 DEF TypeOK
  <2>7. CallMoves(c)
        BY <1>1, <1>2, <1>3, <1>6, <2>6, NobodyMoves DEF CallMoves, TypeOK, LocksAreOrderly
  <2>8. CallIsLocked(c)'
        BY <1>1, <1>3, <1>6, <2>3, <2>6 DEF CallIsLocked, Reads
  <2>9. EpochsTell(c)' /\ CloneIsCurrent(c)'
        BY <2>3, <2>6 DEF EpochsTell, CloneIsCurrent, Loaded
  <2>10. DisturbanceShows(c)'
    <3>1. q.disturbed <=> call[c].disturbed
          BY <1>1, <2>2 DEF CallState
    <3>2. \A s \in Scope : (Maintained(s)' <=> Maintained(s)) /\ ~Loaded(c, s)'
          BY <1>2, <2>3, <2>6 DEF Maintained, Loaded
    <3>3. DisturbanceShows(c)
          BY DEF IInv, CallsKnow
    <3> QED
        BY <1>1, <1>3, <2>3, <2>6, <3>1, <3>2, <3>3 DEF DisturbanceShows
  <2>11. HostsStayDown'
    <3>1. exit \notin {"down", "waitResume"}
          BY <1>1, <1>6 DEF TasksAreLocked, ExitIsLocked
    <3>2. ASSUME NEW m \in Maintainer, maint[m].pc = "held"
          PROVE  maint[m].scope \notin {Global, p}
      <4>1. c \in Task /\ c # m
            BY States
      <4>2. ~Holds(life[maint[m].scope], c)
            BY <1>1, <3>2, <4>1, HolderBars
      <4> QED
          BY <1>1, <1>6, <4>2 DEF CallIsLocked
    <3> QED
        BY <1>1, <1>2, <1>3, <1>6, <3>1, <3>2 DEF HostsStayDown
  <2>12. ~q.raced => q.route = routes[p]
         BY <1>1, <1>6, <2>3, <2>4, SeesTheInstalled
  <2> QED
      BY <1>2, <2>3, <2>6, <2>7, <2>8, <2>9, <2>10, <2>11, <2>12, CallStepKeeps
         DEF ServedUnlessDisturbed
<1>7. CASE call[c].pc = "waitGlobal" /\ ~NeedsPlugin(c)
      BY <1>4, <1>5, <1>7 DEF Recheck
<1>8. CASE call[c].pc = "waitPlugin" /\ Holds(life[p], c)
  <2>1. ~accepting => End(c) /\ UNCHANGED hosts
        BY <1>8 DEF Recheck
  <2>2. accepting /\ Stale(c) => Refuse(c) /\ UNCHANGED hosts
        BY <1>8 DEF Recheck
  <2>3. accepting /\ ~Stale(c) /\ ~NeedsPlugin(c) => End(c) /\ UNCHANGED hosts
        BY <1>8 DEF Recheck
  <2> QED
      BY <1>4, <1>5, <1>6, <1>8, <2>1, <2>2, <2>3 DEF Recheck
<1> QED
    BY <1>7, <1>8 DEF Recheck

(***************************************************************************)
(* The steps of a maintenance.                                             *)
(***************************************************************************)

\* Only maintainer m moves, in its own state, in the gates and in the locks.
MaintMoves(m) ==
  /\ maint' \in [Maintainer -> MaintState]
  /\ \A n \in Maintainer : n # m => maint'[n] = maint[n]
  /\ life' \in [Scope -> Lock] /\ \A s \in Scope : OnlyMoves(life[s], life'[s], m)
  /\ gate' \in [Scope -> Lock] /\ \A s \in Scope : OnlyMoves(gate[s], gate'[s], m)
  /\ UNCHANGED <<accepting, exit, exits>>

LEMMA MaintLocks ==
  ASSUME IInv, NEW m \in Maintainer, MaintMoves(m), MaintenanceIsLocked(m)',
         \A c \in Call : call'[c].pc = call[c].pc /\ call'[c].plugin = call[c].plugin
  PROVE  LocksAreOrderly' /\ TasksAreLocked'
<1>1. m \in Task /\ m # "exit" /\ m \notin Call
      BY States
<1>2. TaskMoves(m)
      BY <1>1 DEF MaintMoves, TaskMoves
<1>3. TypeOK /\ LocksAreOrderly /\ TasksAreLocked
      BY DEF IInv
<1> QED
    BY <1>1, <1>2, <1>3, OthersStayLocked DEF TasksAreLocked

\* As long as no maintenance begins, the calls know what they knew.
LEMMA KnowledgeStays ==
  ASSUME IInv, UNCHANGED <<epoch, routes, call>>,
         \A s \in Scope : Maintained(s)' => Maintained(s)
  PROVE  CallsKnow' /\ SettledCallsStayInTheirVersion'
<1>1. ASSUME NEW c \in Call
      PROVE  EpochsTell(c)' /\ CloneIsCurrent(c)' /\ DisturbanceShows(c)'
  <2>1. EpochsTell(c) /\ CloneIsCurrent(c) /\ DisturbanceShows(c)
        BY DEF IInv, CallsKnow
  <2>2. \A s : (Loaded(c, s)' <=> Loaded(c, s)) /\ SeenOf(c, s)' = SeenOf(c, s)
        BY DEF Loaded, SeenOf
  <2>3. EpochsTell(c)'
        BY <2>1, <2>2 DEF EpochsTell
  <2>4. CloneIsCurrent(c)'
        BY <2>1, <2>2 DEF CloneIsCurrent
  <2>5. DisturbanceShows(c)'
    <3>1. call[c].pc # "idle" => {Global, call[c].plugin} \subseteq Scope
          BY States DEF IInv, TasksAreLocked, CallIsLocked
    <3> QED
        BY <2>1, <2>2, <3>1 DEF DisturbanceShows
  <2> QED
      BY <2>3, <2>4, <2>5
<1>2. SettledCallsStayInTheirVersion'
      BY DEF IInv, SettledCallsStayInTheirVersion
<1> QED
    BY <1>1, <1>2 DEF CallsKnow

Before == {"idle", "gate", "waitGlobal", "bump", "leave"}

\* A step that switches nothing and begins nothing.
LEMMA MaintStepKeeps ==
  ASSUME IInv, NEW m \in Maintainer, MaintMoves(m), MaintenanceIsLocked(m)',
         UNCHANGED <<epoch, routes, call>>,
         active' \in [Scope -> BOOLEAN], scoped' \in Nat, rounds' \in 0..MaxRounds,
         FlagsAreOwned', CounterIsExact', hosts' \subseteq hosts,
         \/ maint'[m].pc \in Before
         \/ maint[m].pc \notin Before /\ maint'[m].scope = maint[m].scope,
         maint'[m].pc = "held" /\ maint[m].pc # "held" =>
           IF maint'[m].scope = Global THEN hosts' = {} ELSE maint'[m].scope \notin hosts'
  PROVE  IInv'
<1>1. LocksAreOrderly' /\ TasksAreLocked'
      BY MaintLocks
<1>2. TypeOK'
      BY DEF IInv, TypeOK, MaintMoves
<1>3. \A s \in Scope : Maintained(s)' => Maintained(s)
      BY DEF Maintained, MaintMoves, Before
<1>4. CallsKnow' /\ SettledCallsStayInTheirVersion'
      BY <1>3, KnowledgeStays
<1>5. HostsStayDown'
  <2>1. HostsStayDown /\ UNCHANGED <<exit, call>>
        BY DEF IInv, MaintMoves
  <2>2. ASSUME NEW n \in Maintainer, maint'[n].pc = "held"
        PROVE  IF maint'[n].scope = Global THEN hosts' = {} ELSE maint'[n].scope \notin hosts'
    <3>1. CASE n # m
          BY <2>1, <2>2, <3>1 DEF HostsStayDown, MaintMoves
    <3>2. CASE n = m /\ maint[m].pc = "held" /\ maint'[m].scope = maint[m].scope
          BY <2>1, <2>2, <3>2 DEF HostsStayDown
    <3>3. CASE n = m /\ maint[m].pc # "held"
          BY <2>2, <3>3
    <3> QED
        BY <2>2, <3>1, <3>2, <3>3 DEF Before
  <2> QED
      BY <2>1, <2>2 DEF HostsStayDown
<1> QED
    BY <1>1, <1>2, <1>4, <1>5 DEF IInv

\* No flag is touched, and no owner of one comes or goes.
LEMMA FlagsStay ==
  ASSUME IInv, NEW m \in Maintainer, UNCHANGED <<active, scoped>>,
         \A n \in Maintainer : n # m => maint'[n] = maint[n],
         Raised(m)' <=> Raised(m), Raised(m) => maint'[m].scope = maint[m].scope
  PROVE  /\ FlagsAreOwned' /\ CounterIsExact'
         /\ active' \in [Scope -> BOOLEAN] /\ scoped' \in Nat
<1>1. \A n \in Maintainer :
        (Raised(n)' <=> Raised(n)) /\ (Raised(n) => maint'[n].scope = maint[n].scope)
      BY DEF Raised
<1>2. FlagsAreOwned'
      BY <1>1 DEF IInv, FlagsAreOwned
<1>3. {n \in Maintainer : maint'[n].scope # Global /\ Raised(n)'}
        = {n \in Maintainer : maint[n].scope # Global /\ Raised(n)}
      BY <1>1
<1>4. CounterIsExact'
      BY <1>3 DEF IInv, CounterIsExact
<1> QED
    BY <1>2, <1>4 DEF IInv, TypeOK

LEMMA MGotoFacts ==
  ASSUME TypeOK, NEW m \in Maintainer,
         NEW pc \in {"bump", "raise", "waitWrite", "held", "ungate", "lower", "leave"},
         MGoto(m, pc)
  PROVE  /\ maint' \in [Maintainer -> MaintState]
         /\ \A n \in Maintainer : n # m => maint'[n] = maint[n]
         /\ maint'[m].pc = pc /\ maint'[m].scope = maint[m].scope
<1>1. PICK q : q = [maint[m] EXCEPT !.pc = pc, !.seen = 0]
      OBVIOUS
<1>2. q \in MaintState /\ q.pc = pc /\ q.scope = maint[m].scope
      BY <1>1 DEF TypeOK, MaintState
<1>3. maint' = [maint EXCEPT ![m] = q]
      BY <1>1 DEF MGoto
<1> QED
    BY <1>2, <1>3 DEF TypeOK

\* A maintenance whose guards are dropped before its flag was raised, or after
\* it was lowered.
LEMMA GivesUp ==
  ASSUME IInv, NEW m \in Maintainer, maint[m].pc \in {"gate", "waitGlobal", "leave"},
         GiveUp(m), UNCHANGED <<epoch, active, scoped, routes, hosts, call>>, MaintStep
  PROVE  IInv'
<1> DEFINE s == maint[m].scope
<1>1. TypeOK /\ LocksAreOrderly /\ MaintenanceIsLocked(m) /\ s \in Scope
      BY DEF IInv, TasksAreLocked, TypeOK, MaintState
<1>2. m \in Task /\ Global \in Scope
      BY States
<1>3. /\ maint' \in [Maintainer -> MaintState] /\ maint'[m] = NoMaintenance
      /\ \A n \in Maintainer : n # m => maint'[n] = maint[n]
      BY <1>1, States DEF GiveUp, TypeOK
<1>4. /\ gate' \in [Scope -> Lock] /\ \A x \in Scope : OnlyMoves(gate[x], gate'[x], m)
      /\ gate'[s].mode[m] = "none" /\ \A x \in Scope : x # s => gate'[x] = gate[x]
  <2>1. /\ gate' = [x \in Scope |-> gate'[x]] /\ gate'[s] = Leave(gate[s], m)
        /\ \A x \in Scope : x # s => gate'[x] = gate[x]
        /\ gate \in [Scope -> Lock] /\ \A x \in Scope : Orderly(gate[x])
        BY <1>1 DEF GiveUp, TypeOK, LocksAreOrderly
  <2> QED
      BY <1>1, <1>2, <2>1, Left
<1>5. /\ life' \in [Scope -> Lock] /\ \A x \in Scope : OnlyMoves(life[x], life'[x], m)
      /\ life'[Global].mode[m] = "none" /\ \A x \in Scope : x # Global => life'[x] = life[x]
  <2>1. /\ life' = [x \in Scope |-> life'[x]] /\ life'[Global] = Leave(life[Global], m)
        /\ \A x \in Scope : x # Global => life'[x] = life[x]
        /\ life \in [Scope -> Lock] /\ \A x \in Scope : Orderly(life[x])
        BY <1>1, <1>2 DEF GiveUp, TypeOK, LocksAreOrderly
  <2> QED
      BY <1>2, <2>1, Left
<1>6. MaintMoves(m) /\ rounds' = rounds
      BY <1>3, <1>4, <1>5 DEF MaintMoves, MaintStep
<1>7. MaintenanceIsLocked(m)'
  <2>1. \A x \in Scope : life'[x].mode[m] = "none" /\ gate'[x].mode[m] = "none"
        BY <1>1, <1>4, <1>5 DEF MaintenanceIsLocked, LifeOf, GateOf
  <2> QED
      BY <1>3, <2>1, States DEF MaintenanceIsLocked, LifeOf, GateOf
<1>8. /\ FlagsAreOwned' /\ CounterIsExact'
      /\ active' \in [Scope -> BOOLEAN] /\ scoped' \in Nat
  <2>1. ~Raised(m) /\ ~Raised(m)'
        BY <1>3, States DEF Raised
  <2> QED
      BY <1>3, <2>1, FlagsStay
<1>9. maint'[m].pc \in Before /\ maint'[m].pc # "held"
      BY <1>3, States DEF Before
<1>10. rounds' \in 0..MaxRounds
       BY <1>1, <1>6 DEF TypeOK
<1> QED
    BY <1>6, <1>7, <1>8, <1>9, <1>10, MaintStepKeeps

\* A maintenance goes on and leaves the flags alone.
LEMMA MaintGoes ==
  ASSUME IInv, NEW m \in Maintainer,
         NEW pc \in {"bump", "held", "ungate", "lower"}, MGoto(m, pc),
         \/ pc = "bump" /\ maint[m].pc \in {"gate", "waitGlobal"}
         \/ pc = "held" /\ maint[m].pc = "waitWrite"
         \/ pc = "ungate" /\ maint[m].pc \in {"held", "waitWrite"}
         \/ pc = "lower" /\ maint[m].pc = "ungate",
         MaintenanceIsLocked(m)',
         life' \in [Scope -> Lock], \A s \in Scope : OnlyMoves(life[s], life'[s], m),
         gate' \in [Scope -> Lock], \A s \in Scope : OnlyMoves(gate[s], gate'[s], m),
         UNCHANGED <<epoch, active, scoped, routes, call>>, MaintStep, hosts' \subseteq hosts,
         pc = "held" => IF maint[m].scope = Global THEN hosts' = {}
                        ELSE maint[m].scope \notin hosts'
  PROVE  IInv'
<1>1. TypeOK
      BY DEF IInv
<1>2. /\ maint' \in [Maintainer -> MaintState]
      /\ \A n \in Maintainer : n # m => maint'[n] = maint[n]
      /\ maint'[m].pc = pc /\ maint'[m].scope = maint[m].scope
      BY <1>1, MGotoFacts
<1>3. MaintMoves(m) /\ rounds' = rounds
      BY <1>2 DEF MaintMoves, MaintStep
<1>4. /\ FlagsAreOwned' /\ CounterIsExact'
      /\ active' \in [Scope -> BOOLEAN] /\ scoped' \in Nat
  <2>1. Raised(m)' <=> Raised(m)
        BY <1>2 DEF Raised
  <2> QED
      BY <1>2, <2>1, FlagsStay
<1>5. \/ maint'[m].pc \in Before
      \/ maint[m].pc \notin Before /\ maint'[m].scope = maint[m].scope
      BY <1>2 DEF Before
<1>6. rounds' \in 0..MaxRounds
      BY <1>1, <1>3 DEF TypeOK
<1> QED
    BY <1>2, <1>3, <1>4, <1>5, <1>6, MaintStepKeeps

LEMMA NoLockMoves ==
  ASSUME IInv, NEW t
  PROVE  \A s \in Scope : OnlyMoves(life[s], life[s], t) /\ OnlyMoves(gate[s], gate[s], t)
BY NobodyMoves DEF IInv, TypeOK, LocksAreOrderly

LEMMA RequestGateKeeps ==
  ASSUME IInv, NEW m \in Maintainer, NEW s \in Scopes, RequestGate(m, s)
  PROVE  IInv'
<1>1. TypeOK /\ LocksAreOrderly /\ MaintenanceIsLocked(m) /\ s \in Scope
      BY ControllerAssumption DEF IInv, TasksAreLocked, Scope
<1>2. m \in Task
      BY States
<1>3. PICK q : q = [pc |-> "gate", scope |-> s, seen |-> 0]
      OBVIOUS
<1>4. q \in MaintState /\ q.pc = "gate" /\ q.scope = s
      BY <1>1, <1>3 DEF MaintState
<1>5. /\ maint' \in [Maintainer -> MaintState] /\ maint'[m] = q
      /\ \A n \in Maintainer : n # m => maint'[n] = maint[n]
      BY <1>1, <1>3, <1>4 DEF RequestGate, TypeOK
<1>6. maint[m].pc = "idle" /\ gate[s].mode[m] = "none"
      BY <1>1 DEF RequestGate, MaintenanceIsLocked, GateOf
<1>7. /\ gate' \in [Scope -> Lock] /\ \A x \in Scope : OnlyMoves(gate[x], gate'[x], m)
      /\ gate'[s].mode[m] = "write" /\ \A x \in Scope : x # s => gate'[x] = gate[x]
  <2>1. /\ gate' = [x \in Scope |-> gate'[x]] /\ gate'[s] = Request(gate[s], m, "write")
        /\ \A x \in Scope : x # s => gate'[x] = gate[x]
        /\ gate \in [Scope -> Lock] /\ \A x \in Scope : Orderly(gate[x])
        /\ "write" \in {"read", "write"}
        BY <1>1 DEF RequestGate, TypeOK, LocksAreOrderly
  <2> QED
      BY <1>1, <1>2, <1>6, <2>1, Requested
<1>8. UNCHANGED <<accepting, epoch, active, scoped, life, routes, hosts, call, exit, exits>>
      BY DEF RequestGate, flags
<1>9. MaintMoves(m)
      BY <1>1, <1>5, <1>7, <1>8, NoLockMoves DEF MaintMoves, TypeOK
<1>10. MaintenanceIsLocked(m)'
       BY <1>1, <1>4, <1>5, <1>6, <1>7, <1>8 DEF MaintenanceIsLocked, LifeOf, GateOf
<1>11. /\ FlagsAreOwned' /\ CounterIsExact'
       /\ active' \in [Scope -> BOOLEAN] /\ scoped' \in Nat
  <2>1. ~Raised(m) /\ ~Raised(m)'
        BY <1>4, <1>5, <1>6 DEF Raised
  <2> QED
      BY <1>5, <1>8, <2>1, FlagsStay
<1>12. rounds' \in 0..MaxRounds
       BY <1>1, ControllerAssumption DEF RequestGate, TypeOK
<1>13. maint'[m].pc \in Before /\ maint'[m].pc # "held"
       BY <1>4, <1>5 DEF Before
<1> QED
    BY <1>8, <1>9, <1>10, <1>11, <1>12, <1>13, MaintStepKeeps

LEMMA PassGateKeeps ==
  ASSUME IInv, NEW m \in Maintainer, PassGate(m)
  PROVE  IInv'
<1> DEFINE s == maint[m].scope
<1>1. /\ TypeOK /\ LocksAreOrderly /\ MaintenanceIsLocked(m) /\ s \in Scope
      /\ maint[m].pc = "gate" /\ maint[m] \in MaintState
      BY DEF IInv, TasksAreLocked, TypeOK, MaintState, PassGate
<1>2. m \in Task /\ Global \in Scope
      BY States
<1>3. Holds(gate[s], m)
      BY DEF PassGate, Writes
<1>4. UNCHANGED <<epoch, active, scoped, routes, hosts, call>> /\ MaintStep
      BY DEF PassGate
<1>5. CASE s = Global /\ MGoto(m, "bump") /\ UNCHANGED <<gate, life>>
  <2>1. maint'[m].pc = "bump" /\ maint'[m].scope = s
        BY <1>1, <1>5, MGotoFacts
  <2>2. MaintenanceIsLocked(m)'
        BY <1>1, <1>3, <1>5, <2>1 DEF MaintenanceIsLocked, LifeOf, GateOf
  <2> QED
      BY <1>1, <1>4, <1>5, <2>2, NoLockMoves, MaintGoes DEF TypeOK
<1>6. CASE GiveUp(m)
      BY <1>1, <1>4, <1>6, GivesUp
<1>7. CASE /\ s # Global
           /\ maint' = [maint EXCEPT ![m].pc = "waitGlobal", ![m].seen = epoch[Global]]
           /\ life' = [life EXCEPT ![Global] = Request(@, m, "read")]
           /\ UNCHANGED gate
  <2>1. PICK q : q = [maint[m] EXCEPT !.pc = "waitGlobal", !.seen = epoch[Global]]
        OBVIOUS
  <2>2. q \in MaintState /\ q.pc = "waitGlobal" /\ q.scope = s
        BY <1>1, <1>2, <2>1 DEF MaintState, TypeOK
  <2>3. /\ maint' \in [Maintainer -> MaintState] /\ maint'[m] = q
        /\ \A n \in Maintainer : n # m => maint'[n] = maint[n]
        BY <1>1, <1>7, <2>1, <2>2 DEF TypeOK
  <2>4. life[Global].mode[m] = "none"
        BY <1>1, <1>2 DEF MaintenanceIsLocked, LifeOf
  <2>5. /\ life' \in [Scope -> Lock] /\ \A x \in Scope : OnlyMoves(life[x], life'[x], m)
        /\ life'[Global].mode[m] = "read"
        /\ \A x \in Scope : x # Global => life'[x] = life[x]
    <3>1. /\ life' = [x \in Scope |-> life'[x]]
          /\ life'[Global] = Request(life[Global], m, "read")
          /\ \A x \in Scope : x # Global => life'[x] = life[x]
          /\ life \in [Scope -> Lock] /\ \A x \in Scope : Orderly(life[x])
          /\ "read" \in {"read", "write"}
          BY <1>1, <1>2, <1>7 DEF TypeOK, LocksAreOrderly
    <3> QED
        BY <1>2, <2>4, <3>1, Requested
  <2>6. MaintMoves(m) /\ rounds' = rounds
        BY <1>1, <1>4, <1>7, <2>3, <2>5, NoLockMoves DEF MaintMoves, MaintStep, TypeOK
  <2>7. MaintenanceIsLocked(m)'
        BY <1>1, <1>3, <1>7, <2>2, <2>3, <2>5 DEF MaintenanceIsLocked, LifeOf, GateOf
  <2>8. /\ FlagsAreOwned' /\ CounterIsExact'
        /\ active' \in [Scope -> BOOLEAN] /\ scoped' \in Nat
    <3>1. ~Raised(m) /\ ~Raised(m)'
          BY <1>1, <2>2, <2>3 DEF Raised
    <3> QED
        BY <1>4, <2>3, <3>1, FlagsStay
  <2>9. maint'[m].pc \in Before /\ maint'[m].pc # "held" /\ rounds' \in 0..MaxRounds
        BY <1>1, <2>2, <2>3, <2>6 DEF Before, TypeOK
  <2> QED
      BY <1>4, <2>6, <2>7, <2>8, <2>9, MaintStepKeeps
<1> QED
    BY <1>5, <1>6, <1>7 DEF PassGate

LEMMA RecheckMaintenanceKeeps ==
  ASSUME IInv, NEW m \in Maintainer, RecheckMaintenance(m)
  PROVE  IInv'
<1>1. /\ TypeOK /\ MaintenanceIsLocked(m) /\ maint[m].pc = "waitGlobal"
      /\ Holds(life[Global], m)
      BY DEF IInv, TasksAreLocked, RecheckMaintenance
<1>2. UNCHANGED <<epoch, active, scoped, routes, hosts, call>> /\ MaintStep
      BY DEF RecheckMaintenance
<1>3. CASE GiveUp(m)
      BY <1>1, <1>2, <1>3, GivesUp
<1>4. CASE MGoto(m, "bump") /\ UNCHANGED <<gate, life>>
  <2>1. maint'[m].pc = "bump" /\ maint'[m].scope = maint[m].scope
        BY <1>1, <1>4, MGotoFacts
  <2>2. MaintenanceIsLocked(m)'
        BY <1>1, <1>4, <2>1 DEF MaintenanceIsLocked, LifeOf, GateOf
  <2> QED
      BY <1>1, <1>2, <1>4, <2>2, NoLockMoves, MaintGoes DEF TypeOK
<1> QED
    BY <1>3, <1>4 DEF RecheckMaintenance

LEMMA StopHostsKeeps ==
  ASSUME IInv, NEW m \in Maintainer, StopHosts(m)
  PROVE  IInv'
<1> DEFINE s == maint[m].scope
<1>1. /\ TypeOK /\ MaintenanceIsLocked(m) /\ maint[m].pc = "waitWrite"
      /\ Holds(life[s], m)
      BY DEF IInv, TasksAreLocked, StopHosts, Writes
<1>2. /\ UNCHANGED <<epoch, active, scoped, gate, life, routes, call>> /\ MaintStep
      /\ MGoto(m, "held") /\ hosts' = IF s = Global THEN {} ELSE hosts \ {s}
      BY DEF StopHosts
<1>3. maint'[m].pc = "held" /\ maint'[m].scope = s
      BY <1>1, <1>2, MGotoFacts
<1>4. MaintenanceIsLocked(m)'
      BY <1>1, <1>2, <1>3 DEF MaintenanceIsLocked, LifeOf, GateOf
<1>5. /\ hosts' \subseteq hosts
      /\ IF s = Global THEN hosts' = {} ELSE s \notin hosts'
      BY <1>2
<1> QED
    BY <1>1, <1>2, <1>4, <1>5, NoLockMoves, MaintGoes DEF TypeOK

LEMMA ReleaseKeeps ==
  ASSUME IInv, NEW m \in Maintainer, Release(m)
  PROVE  IInv'
<1>1. /\ TypeOK /\ LocksAreOrderly /\ MaintenanceIsLocked(m) /\ maint[m].pc = "held"
      BY DEF IInv, TasksAreLocked, Release
<1>2. /\ UNCHANGED <<epoch, active, scoped, gate, routes, hosts, call>> /\ MaintStep
      /\ MGoto(m, "ungate") /\ life' = [x \in Scope |-> Leave(life[x], m)]
      BY DEF Release
<1>3. maint'[m].pc = "ungate" /\ maint'[m].scope = maint[m].scope
      BY <1>1, <1>2, MGotoFacts
<1>4. \A x \in Scope : OnlyMoves(life[x], life'[x], m) /\ life'[x].mode[m] = "none"
      BY <1>1, <1>2, States, LeaveMoves DEF TypeOK, LocksAreOrderly
<1>5. life' \in [Scope -> Lock]
      BY <1>2, <1>4 DEF OnlyMoves
<1>6. MaintenanceIsLocked(m)'
      BY <1>1, <1>2, <1>3, <1>4 DEF MaintenanceIsLocked, LifeOf, GateOf
<1> QED
    BY <1>1, <1>2, <1>4, <1>5, <1>6, NoLockMoves, MaintGoes DEF TypeOK

LEMMA UngateKeeps ==
  ASSUME IInv, NEW m \in Maintainer, Ungate(m)
  PROVE  IInv'
<1> DEFINE s == maint[m].scope
<1>1. /\ TypeOK /\ LocksAreOrderly /\ MaintenanceIsLocked(m) /\ maint[m].pc = "ungate"
      /\ s \in Scope /\ m \in Task
      BY States DEF IInv, TasksAreLocked, TypeOK, MaintState, Ungate
<1>2. /\ UNCHANGED <<epoch, active, scoped, life, routes, hosts, call>> /\ MaintStep
      /\ MGoto(m, "lower") /\ gate' = [gate EXCEPT ![s] = Leave(@, m)]
      BY DEF Ungate
<1>3. maint'[m].pc = "lower" /\ maint'[m].scope = s
      BY <1>1, <1>2, MGotoFacts
<1>4. /\ gate' \in [Scope -> Lock] /\ \A x \in Scope : OnlyMoves(gate[x], gate'[x], m)
      /\ gate'[s].mode[m] = "none" /\ \A x \in Scope : x # s => gate'[x] = gate[x]
  <2>1. /\ gate' = [x \in Scope |-> gate'[x]] /\ gate'[s] = Leave(gate[s], m)
        /\ \A x \in Scope : x # s => gate'[x] = gate[x]
        /\ gate \in [Scope -> Lock] /\ \A x \in Scope : Orderly(gate[x])
        BY <1>1, <1>2 DEF TypeOK, LocksAreOrderly
  <2> QED
      BY <1>1, <2>1, Left
<1>5. MaintenanceIsLocked(m)'
      BY <1>1, <1>2, <1>3, <1>4 DEF MaintenanceIsLocked, LifeOf, GateOf
<1> QED
    BY <1>1, <1>2, <1>4, <1>5, NoLockMoves, MaintGoes DEF TypeOK

\* The plugin maintenances whose flags are raised, which the code counts.
Counted == {n \in Maintainer : maint[n].scope # Global /\ Raised(n)}

LEMMA FlagIsRaised ==
  ASSUME IInv, NEW m \in Maintainer, ~Raised(m), Raised(m)',
         \A n \in Maintainer : n # m => maint'[n] = maint[n],
         maint'[m].scope = maint[m].scope,
         active' = [active EXCEPT ![maint[m].scope] = TRUE],
         scoped' = IF maint[m].scope = Global THEN scoped ELSE scoped + 1
  PROVE  /\ FlagsAreOwned' /\ CounterIsExact'
         /\ active' \in [Scope -> BOOLEAN] /\ scoped' \in Nat
<1> DEFINE s == maint[m].scope
<1>1. s \in Scope /\ active \in [Scope -> BOOLEAN] /\ scoped \in Nat
      BY DEF IInv, TypeOK, MaintState
<1>2. \A n \in Maintainer : n # m =>
        (Raised(n)' <=> Raised(n)) /\ maint'[n].scope = maint[n].scope
      BY DEF Raised
<1>3. FlagsAreOwned'
      BY <1>1, <1>2 DEF IInv, FlagsAreOwned
<1>4. IsFiniteSet(Counted) /\ scoped = Cardinality(Counted)
      BY ControllerAssumption, FS_Subset DEF IInv, CounterIsExact, Counted
<1>5. CounterIsExact'
  <2>1. CASE s = Global
    <3>1. Counted' = Counted
          BY <1>2, <2>1 DEF Counted
    <3> QED
        BY <1>4, <2>1, <3>1 DEF CounterIsExact, Counted
  <2>2. CASE s # Global
    <3>1. Counted' = Counted \cup {m} /\ m \notin Counted
          BY <1>2, <2>2 DEF Counted
    <3>2. Cardinality(Counted') = Cardinality(Counted) + 1
          BY <1>4, <3>1, FS_AddElement
    <3> QED
        BY <1>4, <2>2, <3>2 DEF CounterIsExact, Counted
  <2> QED
      BY <2>1, <2>2
<1> QED
    BY <1>1, <1>3, <1>5

LEMMA FlagIsLowered ==
  ASSUME IInv, NEW m \in Maintainer, Raised(m), ~Raised(m)', Lowered(m),
         \A n \in Maintainer : n # m => maint'[n] = maint[n]
  PROVE  /\ FlagsAreOwned' /\ CounterIsExact'
         /\ active' \in [Scope -> BOOLEAN] /\ scoped' \in Nat
<1> DEFINE s == maint[m].scope
<1>1. s \in Scope /\ active \in [Scope -> BOOLEAN] /\ scoped \in Nat
      BY DEF IInv, TypeOK, MaintState
<1>2. \A n \in Maintainer : n # m =>
        (Raised(n)' <=> Raised(n)) /\ maint'[n].scope = maint[n].scope
      BY DEF Raised
<1>3. FlagsAreOwned' /\ active' \in [Scope -> BOOLEAN]
      BY <1>1, <1>2 DEF IInv, FlagsAreOwned, Lowered
<1>4. IsFiniteSet(Counted) /\ scoped = Cardinality(Counted)
      BY ControllerAssumption, FS_Subset DEF IInv, CounterIsExact, Counted
<1>5. CounterIsExact' /\ scoped' \in Nat
  <2>1. CASE s = Global
    <3>1. Counted' = Counted
          BY <1>2, <2>1 DEF Counted
    <3> QED
        BY <1>1, <1>4, <2>1, <3>1 DEF CounterIsExact, Counted, Lowered
  <2>2. CASE s # Global
    <3>1. Counted' = Counted \ {m} /\ m \in Counted
          BY <1>2, <2>2 DEF Counted
    <3>2. IsFiniteSet(Counted') /\ Cardinality(Counted') = Cardinality(Counted) - 1
          BY <1>4, <3>1, FS_RemoveElement
    <3>3. Cardinality(Counted') \in Nat
          BY <3>2, FS_CardinalityType
    <3> QED
        BY <1>4, <2>2, <3>2, <3>3 DEF CounterIsExact, Counted, Lowered
  <2> QED
      BY <2>1, <2>2
<1> QED
    BY <1>3, <1>5

LEMMA RaiseFlagKeeps ==
  ASSUME IInv, NEW m \in Maintainer, RaiseFlag(m)
  PROVE  IInv'
<1> DEFINE s == maint[m].scope
<1>1. /\ TypeOK /\ LocksAreOrderly /\ MaintenanceIsLocked(m) /\ maint[m].pc = "raise"
      /\ s \in Scope /\ m \in Task /\ Global \in Scope
      BY States DEF IInv, TasksAreLocked, TypeOK, MaintState, RaiseFlag
<1>2. /\ UNCHANGED <<epoch, gate, routes, hosts, call>> /\ MaintStep
      /\ MGoto(m, "waitWrite") /\ life' = [life EXCEPT ![s] = Request(@, m, "write")]
      /\ active' = [active EXCEPT ![s] = TRUE]
      /\ scoped' = IF s = Global THEN scoped ELSE scoped + 1
      BY DEF RaiseFlag
<1>3. /\ maint' \in [Maintainer -> MaintState]
      /\ \A n \in Maintainer : n # m => maint'[n] = maint[n]
      /\ maint'[m].pc = "waitWrite" /\ maint'[m].scope = s
      BY <1>1, <1>2, MGotoFacts
<1>4. life[s].mode[m] = "none"
      BY <1>1 DEF MaintenanceIsLocked, LifeOf
<1>5. /\ life' \in [Scope -> Lock] /\ \A x \in Scope : OnlyMoves(life[x], life'[x], m)
      /\ life'[s].mode[m] = "write" /\ \A x \in Scope : x # s => life'[x] = life[x]
  <2>1. /\ life' = [x \in Scope |-> life'[x]]
        /\ life'[s] = Request(life[s], m, "write")
        /\ \A x \in Scope : x # s => life'[x] = life[x]
        /\ life \in [Scope -> Lock] /\ \A x \in Scope : Orderly(life[x])
        /\ "write" \in {"read", "write"}
        BY <1>1, <1>2 DEF TypeOK, LocksAreOrderly
  <2> QED
      BY <1>1, <1>4, <2>1, Requested
<1>6. MaintMoves(m) /\ rounds' = rounds
      BY <1>1, <1>2, <1>3, <1>5, NoLockMoves DEF MaintMoves, MaintStep, TypeOK
<1>7. MaintenanceIsLocked(m)'
      BY <1>1, <1>2, <1>3, <1>5 DEF MaintenanceIsLocked, LifeOf, GateOf
<1>8. /\ FlagsAreOwned' /\ CounterIsExact'
      /\ active' \in [Scope -> BOOLEAN] /\ scoped' \in Nat
  <2>1. ~Raised(m) /\ Raised(m)'
        BY <1>1, <1>3 DEF Raised
  <2> QED
      BY <1>2, <1>3, <2>1, FlagIsRaised
<1>9. maint[m].pc \notin Before /\ maint'[m].pc # "held" /\ rounds' \in 0..MaxRounds
      BY <1>1, <1>3, <1>6 DEF Before, TypeOK
<1> QED
    BY <1>2, <1>3, <1>6, <1>7, <1>8, <1>9, MaintStepKeeps

LEMMA LowerFlagKeeps ==
  ASSUME IInv, NEW m \in Maintainer, LowerFlag(m)
  PROVE  IInv'
<1>1. TypeOK /\ MaintenanceIsLocked(m) /\ maint[m].pc = "lower"
      BY DEF IInv, TasksAreLocked, LowerFlag
<1>2. /\ UNCHANGED <<epoch, gate, life, routes, hosts, call>> /\ MaintStep
      /\ maint' = [maint EXCEPT ![m] = NoMaintenance] /\ Lowered(m)
      BY DEF LowerFlag
<1>3. /\ maint' \in [Maintainer -> MaintState] /\ maint'[m] = NoMaintenance
      /\ \A n \in Maintainer : n # m => maint'[n] = maint[n]
      BY <1>1, <1>2, States DEF TypeOK
<1>4. MaintMoves(m) /\ rounds' = rounds
      BY <1>1, <1>2, <1>3, NoLockMoves DEF MaintMoves, MaintStep, TypeOK
<1>5. MaintenanceIsLocked(m)'
      BY <1>1, <1>2, <1>3, States DEF MaintenanceIsLocked, LifeOf, GateOf
<1>6. /\ FlagsAreOwned' /\ CounterIsExact'
      /\ active' \in [Scope -> BOOLEAN] /\ scoped' \in Nat
  <2>1. Raised(m) /\ ~Raised(m)'
        BY <1>1, <1>3, States DEF Raised
  <2> QED
      BY <1>2, <1>3, <2>1, FlagIsLowered
<1>7. maint'[m].pc \in Before /\ maint'[m].pc # "held" /\ rounds' \in 0..MaxRounds
      BY <1>1, <1>3, <1>4, States DEF Before, TypeOK
<1> QED
    BY <1>2, <1>4, <1>5, <1>6, <1>7, MaintStepKeeps

LEMMA CancelKeeps ==
  ASSUME IInv, NEW m \in Maintainer, Cancel(m)
  PROVE  IInv'
<1> DEFINE s == maint[m].scope
<1>1. /\ TypeOK /\ LocksAreOrderly /\ MaintenanceIsLocked(m)
      /\ s \in Scope /\ m \in Task /\ Global \in Scope
      BY States DEF IInv, TasksAreLocked, TypeOK, MaintState
<1>2. UNCHANGED <<epoch, routes, hosts, call>> /\ MaintStep
      BY DEF Cancel
<1>3. CASE /\ maint[m].pc \in {"gate", "waitGlobal"} /\ GiveUp(m)
           /\ UNCHANGED <<active, scoped>>
      BY <1>2, <1>3, GivesUp
<1>4. CASE /\ maint[m].pc = "waitWrite" /\ life' = [life EXCEPT ![s] = Leave(@, m)]
           /\ UNCHANGED gate
           /\ \/ s = Global /\ MGoto(m, "ungate") /\ UNCHANGED <<active, scoped>>
              \/ MGoto(m, "leave") /\ Lowered(m)
  <2>1. /\ life' \in [Scope -> Lock] /\ \A x \in Scope : OnlyMoves(life[x], life'[x], m)
        /\ life'[s].mode[m] = "none" /\ \A x \in Scope : x # s => life'[x] = life[x]
    <3>1. /\ life' = [x \in Scope |-> life'[x]] /\ life'[s] = Leave(life[s], m)
          /\ \A x \in Scope : x # s => life'[x] = life[x]
          /\ life \in [Scope -> Lock] /\ \A x \in Scope : Orderly(life[x])
          BY <1>1, <1>4 DEF TypeOK, LocksAreOrderly
    <3> QED
        BY <1>1, <3>1, Left
  <2>2. CASE s = Global /\ MGoto(m, "ungate") /\ UNCHANGED <<active, scoped>>
    <3>1. maint'[m].pc = "ungate" /\ maint'[m].scope = s
          BY <1>1, <2>2, MGotoFacts
    <3>2. MaintenanceIsLocked(m)'
          BY <1>1, <1>4, <2>1, <2>2, <3>1 DEF MaintenanceIsLocked, LifeOf, GateOf
    <3> QED
        BY <1>1, <1>2, <1>4, <2>1, <2>2, <3>2, NoLockMoves, MaintGoes DEF TypeOK
  <2>3. CASE MGoto(m, "leave") /\ Lowered(m)
    <3>1. /\ maint' \in [Maintainer -> MaintState]
          /\ \A n \in Maintainer : n # m => maint'[n] = maint[n]
          /\ maint'[m].pc = "leave" /\ maint'[m].scope = s
          BY <1>1, <2>3, MGotoFacts
    <3>2. MaintenanceIsLocked(m)'
          BY <1>1, <1>4, <2>1, <3>1 DEF MaintenanceIsLocked, LifeOf, GateOf
    <3>3. MaintMoves(m) /\ rounds' = rounds
          BY <1>1, <1>2, <1>4, <2>1, <3>1, NoLockMoves DEF MaintMoves, MaintStep, TypeOK
    <3>4. /\ FlagsAreOwned' /\ CounterIsExact'
          /\ active' \in [Scope -> BOOLEAN] /\ scoped' \in Nat
      <4>1. Raised(m) /\ ~Raised(m)'
            BY <1>4, <3>1 DEF Raised
      <4> QED
          BY <2>3, <3>1, <4>1, FlagIsLowered
    <3>5. maint'[m].pc \in Before /\ maint'[m].pc # "held" /\ rounds' \in 0..MaxRounds
          BY <1>1, <3>1, <3>3 DEF Before, TypeOK
    <3> QED
        BY <1>2, <3>2, <3>3, <3>4, <3>5, MaintStepKeeps
  <2> QED
      BY <1>4, <2>2, <2>3
<1> QED
    BY <1>3, <1>4 DEF Cancel

LEMMA AdvanceEpochKeeps ==
  ASSUME IInv, NEW m \in Maintainer, AdvanceEpoch(m)
  PROVE  IInv'
<1> DEFINE s == maint[m].scope
<1>1. /\ TypeOK /\ LocksAreOrderly /\ MaintenanceIsLocked(m) /\ maint[m].pc = "bump"
      /\ s \in Scope /\ m \in Task /\ Global \in Scope
      BY States DEF IInv, TasksAreLocked, TypeOK, MaintState, AdvanceEpoch
<1>2. /\ UNCHANGED <<active, scoped, gate, life, routes, hosts>> /\ MaintStep
      /\ MGoto(m, "raise") /\ epoch' = [epoch EXCEPT ![s] = @ + 1]
      BY DEF AdvanceEpoch
<1>3. /\ maint' \in [Maintainer -> MaintState]
      /\ \A n \in Maintainer : n # m => maint'[n] = maint[n]
      /\ maint'[m].pc = "raise" /\ maint'[m].scope = s
      BY <1>1, <1>2, MGotoFacts
<1>4. ASSUME NEW c \in Call
      PROVE  /\ call'[c] \in CallState /\ call'[c].pc = call[c].pc
             /\ call'[c].kind = call[c].kind /\ call'[c].plugin = call[c].plugin
             /\ call'[c].seen = call[c].seen /\ call'[c].seenPlugin = call[c].seenPlugin
             /\ call'[c].route = call[c].route /\ (call'[c].raced <=> call[c].raced)
             /\ call'[c].disturbed <=> \/ call[c].disturbed
                                       \/ call[c].pc # "idle" /\ s \in {Global, call[c].plugin}
  <2> DEFINE d == call[c].disturbed \/ (call[c].pc # "idle" /\ s \in {Global, call[c].plugin})
  <2>1. call[c] \in CallState /\ d \in BOOLEAN
        BY <1>1 DEF TypeOK, CallState
  <2>2. call'[c] = [call[c] EXCEPT !.disturbed = d]
        BY DEF AdvanceEpoch
  <2> HIDE DEF d
  <2>3. /\ call'[c] \in CallState /\ call'[c].pc = call[c].pc
        /\ call'[c].kind = call[c].kind /\ call'[c].plugin = call[c].plugin
        /\ call'[c].seen = call[c].seen /\ call'[c].seenPlugin = call[c].seenPlugin
        /\ call'[c].route = call[c].route /\ call'[c].raced = call[c].raced
        BY <2>1, <2>2 DEF CallState
  <2>4. call'[c].disturbed <=> d
        BY <2>1, <2>2 DEF CallState
  <2> QED
      BY <2>3, <2>4 DEF d
<1>5. call' \in [Call -> CallState]
      BY <1>4 DEF AdvanceEpoch
<1>6. MaintMoves(m) /\ rounds' = rounds
      BY <1>1, <1>2, <1>3, NoLockMoves DEF MaintMoves, MaintStep, TypeOK
<1>7. LocksAreOrderly' /\ TasksAreLocked'
  <2>1. MaintenanceIsLocked(m)'
        BY <1>1, <1>2, <1>3 DEF MaintenanceIsLocked, LifeOf, GateOf
  <2> QED
      BY <1>4, <1>6, <2>1, MaintLocks
<1>8. /\ FlagsAreOwned' /\ CounterIsExact'
      /\ active' \in [Scope -> BOOLEAN] /\ scoped' \in Nat
  <2>1. ~Raised(m) /\ ~Raised(m)'
        BY <1>1, <1>3 DEF Raised
  <2> QED
      BY <1>2, <1>3, <2>1, FlagsStay
<1>9. epoch \in [Scope -> Nat] /\ epoch' \in [Scope -> Nat] /\ epoch'[s] = epoch[s] + 1
      /\ \A x \in Scope : x # s => epoch'[x] = epoch[x]
      BY <1>1, <1>2 DEF TypeOK
<1>10. TypeOK'
       BY <1>1, <1>2, <1>5, <1>6, <1>8, <1>9 DEF TypeOK, MaintMoves
<1>11. HostsStayDown'
  <2>1. HostsStayDown /\ hosts' = hosts /\ exit' = exit
        BY <1>2, <1>6 DEF IInv, MaintMoves
  <2>2. \A n \in Maintainer : maint'[n].pc = "held" => n # m /\ maint'[n] = maint[n]
        BY <1>3
  <2> QED
      BY <1>4, <2>1, <2>2 DEF HostsStayDown
<1>12. \A x \in Scope : x # s => (Maintained(x)' => Maintained(x))
       BY <1>3 DEF Maintained
<1>13. ASSUME NEW c \in Call
       PROVE  EpochsTell(c)' /\ CloneIsCurrent(c)' /\ DisturbanceShows(c)'
  <2>1. EpochsTell(c) /\ CloneIsCurrent(c) /\ DisturbanceShows(c)
        BY DEF IInv, CallsKnow
  <2>2. \A x : (Loaded(c, x)' <=> Loaded(c, x)) /\ SeenOf(c, x)' = SeenOf(c, x)
        BY <1>4 DEF Loaded, SeenOf
  <2>3. call[c].pc # "idle" => call[c].plugin \in Scope /\ call[c].plugin # Global
        BY States, ControllerAssumption DEF IInv, TasksAreLocked, CallIsLocked
  <2>4. \A x \in Scope : SeenOf(c, x) \in Nat
        BY <1>1 DEF TypeOK, CallState, SeenOf
  <2>5. Loaded(c, s) => SeenOf(c, s) # epoch'[s] /\ SeenOf(c, s) <= epoch'[s]
        BY <1>1, <1>9, <2>1, <2>4 DEF EpochsTell
  <2>6. EpochsTell(c)'
    <3> SUFFICES ASSUME NEW x \in Scope, Loaded(c, x)
                 PROVE  /\ SeenOf(c, x) <= epoch'[x]
                        /\ SeenOf(c, x) = epoch'[x] /\ ~call[c].raced => ~Maintained(x)'
        BY <1>4, <2>2 DEF EpochsTell
    <3>1. CASE x = s
          BY <2>5, <3>1
    <3>2. CASE x # s
          BY <1>9, <1>12, <2>1, <3>2 DEF EpochsTell
    <3> QED
        BY <3>1, <3>2
  <2>7. CloneIsCurrent(c)'
    <3> SUFFICES ASSUME call[c].kind = "invoke", Loaded(c, call[c].plugin), ~call[c].raced,
                        call[c].seen = epoch'[Global],
                        call[c].seenPlugin = epoch'[call[c].plugin]
                 PROVE  call[c].route = routes[call[c].plugin]
        BY <1>2, <1>4, <2>2 DEF CloneIsCurrent
    <3>1. Loaded(c, Global) /\ call[c].pc # "idle"
          BY DEF Loaded
    <3>2. s \notin {Global, call[c].plugin}
          BY <2>3, <2>5, <3>1 DEF SeenOf
    <3> QED
        BY <1>1, <1>9, <2>1, <2>3, <3>1, <3>2 DEF CloneIsCurrent
  <2>8. DisturbanceShows(c)'
    <3> SUFFICES ASSUME call[c].pc # "idle", ~call'[c].disturbed,
                        NEW x \in {Global, call[c].plugin}
                 PROVE  ~Maintained(x)' /\ (Loaded(c, x) => SeenOf(c, x) = epoch'[x])
        BY <1>4, <2>2 DEF DisturbanceShows
    <3>1. ~call[c].disturbed /\ x # s /\ x \in Scope
          BY <1>1, <1>4, <2>3
    <3> QED
        BY <1>9, <1>12, <2>1, <3>1 DEF DisturbanceShows
  <2> QED
      BY <2>6, <2>7, <2>8
<1>14. SettledCallsStayInTheirVersion'
       BY <1>2, <1>4 DEF IInv, SettledCallsStayInTheirVersion
<1> QED
    BY <1>7, <1>8, <1>10, <1>11, <1>13, <1>14 DEF IInv, CallsKnow

LEMMA ReplaceKeeps ==
  ASSUME IInv, NEW m \in Maintainer, Replace(m)
  PROVE  IInv'
<1> DEFINE s == maint[m].scope
<1>1. /\ TypeOK /\ LocksAreOrderly /\ TasksAreLocked /\ maint[m].pc = "held"
      /\ s \in Scope /\ Global \in Scope
      BY States DEF IInv, TypeOK, MaintState, Replace
<1>2. UNCHANGED <<accepting, epoch, active, scoped, gate, life, hosts, call, maint, exit,
                  rounds, exits>>
      BY DEF Replace, MaintStep
<1>3. /\ routes' \in [Plugin -> Version \cup {None}]
      /\ s # Global => \A p \in Plugin : p # s => routes'[p] = routes[p]
      BY <1>1 DEF Replace, TypeOK
<1>4. TypeOK'
      BY <1>1, <1>2, <1>3 DEF TypeOK
<1>5. LocksAreOrderly' /\ TasksAreLocked'
      BY <1>1, <1>2 DEF LocksAreOrderly, TasksAreLocked, CallIsLocked, Reads,
                        MaintenanceIsLocked, LifeOf, GateOf, ExitIsLocked
<1>6. FlagsAreOwned' /\ CounterIsExact' /\ HostsStayDown'
      BY <1>2 DEF IInv, FlagsAreOwned, CounterIsExact, HostsStayDown, Raised
<1>7. Maintained(s)
      BY <1>1 DEF Maintained
<1>8. ASSUME NEW c \in Call
      PROVE  EpochsTell(c)' /\ CloneIsCurrent(c)' /\ DisturbanceShows(c)'
  <2>1. EpochsTell(c) /\ CloneIsCurrent(c) /\ DisturbanceShows(c)
        BY DEF IInv, CallsKnow
  <2>2. EpochsTell(c)' /\ DisturbanceShows(c)'
        BY <1>2, <2>1 DEF EpochsTell, DisturbanceShows, Loaded, SeenOf, Maintained
  <2>3. CloneIsCurrent(c)'
    <3> SUFFICES ASSUME call[c].kind = "invoke", Loaded(c, call[c].plugin), ~call[c].raced,
                        call[c].seen = epoch[Global],
                        call[c].seenPlugin = epoch[call[c].plugin]
                 PROVE  call[c].route = routes'[call[c].plugin]
        BY <1>2 DEF CloneIsCurrent, Loaded
    <3>1. Loaded(c, Global) /\ call[c].pc # "idle"
          BY DEF Loaded
    <3>2. call[c].plugin \in Plugin /\ call[c].plugin \in Scope /\ call[c].plugin # Global
          BY <1>1, <3>1, States, ControllerAssumption DEF TasksAreLocked, CallIsLocked
    <3>3. ~Maintained(Global) /\ ~Maintained(call[c].plugin)
          BY <1>1, <2>1, <3>1, <3>2 DEF EpochsTell, SeenOf
    <3>4. s # Global /\ s # call[c].plugin
          BY <1>7, <3>3
    <3> QED
        BY <1>3, <2>1, <3>2, <3>4 DEF CloneIsCurrent
  <2> QED
      BY <2>2, <2>3
<1>9. SettledCallsStayInTheirVersion'
  <2> SUFFICES ASSUME NEW c \in Call, call[c].pc = "executing", ~call[c].raced
               PROVE  call[c].route = routes'[call[c].plugin]
      BY <1>2 DEF SettledCallsStayInTheirVersion
  <2>1. s \notin {Global, call[c].plugin}
        BY <1>1, HostUse DEF HostUseExcludesMaintenance
  <2>2. call[c].plugin \in Plugin
        BY <1>1 DEF TasksAreLocked, CallIsLocked
  <2>3. routes'[call[c].plugin] = routes[call[c].plugin]
        BY <1>3, <2>1, <2>2
  <2> QED
      BY <2>3 DEF IInv, SettledCallsStayInTheirVersion
<1> QED
    BY <1>4, <1>5, <1>6, <1>8, <1>9 DEF IInv, CallsKnow

(***************************************************************************)
(* Shutdown and resume.                                                    *)
(***************************************************************************)

LEMMA ExitStepKeeps ==
  ASSUME IInv, ExitStep, life' \in [Scope -> Lock],
         \A s \in Scope : OnlyMoves(life[s], life'[s], "exit"),
         accepting' \in BOOLEAN, exit' \in {"running", "waitStop", "down", "waitResume"},
         exits' \in 0..MaxExits, ExitIsLocked', hosts' \subseteq hosts,
         exit' \in {"down", "waitResume"} =>
           hosts' = {} /\ \A c \in Call : call[c].pc # "executing"
  PROVE  IInv'
<1>1. TypeOK /\ LocksAreOrderly /\ TasksAreLocked
      BY DEF IInv
<1>2. UNCHANGED <<epoch, active, scoped, gate, routes, call, maint, rounds>>
      BY DEF ExitStep
<1>3. TypeOK'
      BY <1>1, <1>2 DEF TypeOK
<1>4. TaskMoves("exit")
      BY <1>2, NoLockMoves DEF TaskMoves
<1>5. LocksAreOrderly' /\ TasksAreLocked'
  <2>1. \A s \in Scope : gate'[s].mode["exit"] = "none"
        BY <1>1, <1>2, States DEF TasksAreLocked
  <2> QED
      BY <1>1, <1>4, <2>1, States, OthersStayLocked DEF TasksAreLocked
<1>6. FlagsAreOwned' /\ CounterIsExact'
      BY <1>2 DEF IInv, FlagsAreOwned, CounterIsExact, Raised
<1>7. HostsStayDown'
      BY <1>2 DEF IInv, HostsStayDown
<1>8. CallsKnow' /\ SettledCallsStayInTheirVersion'
  <2>1. \A s \in Scope : Maintained(s)' => Maintained(s)
        BY <1>2 DEF Maintained
  <2> QED
      BY <1>2, <2>1, KnowledgeStays
<1> QED
    BY <1>3, <1>5, <1>6, <1>7, <1>8 DEF IInv

\* Who is granted the global lock to write finds no call that uses a host.
LEMMA ExitFindsNoCall ==
  ASSUME IInv, Writes(life[Global], "exit")
  PROVE  \A c \in Call : call[c].pc # "executing"
<1> SUFFICES ASSUME NEW c \in Call, call[c].pc = "executing" PROVE FALSE
    OBVIOUS
<1>1. Holds(life[Global], c) /\ life[Global] \in Lock /\ Orderly(life[Global])
      BY States DEF IInv, TypeOK, LocksAreOrderly, TasksAreLocked, CallIsLocked
<1>2. Holds(life[Global], "exit") /\ life[Global].mode["exit"] = "write"
      BY DEF Writes
<1> QED
    BY <1>1, <1>2, States, HoldersRead

LEMMA ExitKeeps ==
  ASSUME IInv, Shutdown \/ StopAllHosts \/ Resume \/ Reopen
  PROVE  IInv'
<1>1. /\ TypeOK /\ LocksAreOrderly /\ ExitIsLocked /\ HostsStayDown
      /\ Global \in Scope /\ "exit" \in Task
      BY States DEF IInv, TasksAreLocked
<1>2. CASE Shutdown \/ Resume
  <2>1. life[Global].mode["exit"] = "none"
        BY <1>1, <1>2 DEF Shutdown, Resume, ExitIsLocked
  <2>2. /\ life' \in [Scope -> Lock]
        /\ \A x \in Scope : OnlyMoves(life[x], life'[x], "exit")
        /\ life'[Global].mode["exit"] = "write"
        /\ \A x \in Scope : x # Global => life'[x] = life[x]
    <3>1. /\ life' = [x \in Scope |-> life'[x]]
          /\ life'[Global] = Request(life[Global], "exit", "write")
          /\ \A x \in Scope : x # Global => life'[x] = life[x]
          /\ life \in [Scope -> Lock] /\ \A x \in Scope : Orderly(life[x])
          /\ "write" \in {"read", "write"}
          BY <1>1, <1>2 DEF TypeOK, LocksAreOrderly, Shutdown, Resume
    <3> QED
        BY <1>1, <2>1, <3>1, Requested
  <2>3. /\ ExitStep /\ hosts' = hosts
        /\ accepting' \in BOOLEAN /\ (accepting' => exit' = "running")
        /\ exit' = "waitStop" \/ (exit = "down" /\ exit' = "waitResume")
    <3>1. CASE Shutdown
          BY <1>1, <3>1 DEF Shutdown, ExitIsLocked, TypeOK
    <3>2. CASE Resume
          BY <1>1, <3>2 DEF Resume, ExitIsLocked, TypeOK
    <3> QED
        BY <1>2, <3>1, <3>2
  <2>4. exits' \in 0..MaxExits
        BY <1>1, <1>2, ControllerAssumption DEF Shutdown, Resume, TypeOK
  <2>5. ExitIsLocked'
        BY <1>1, <2>2, <2>3 DEF ExitIsLocked
  <2>6. exit' \in {"down", "waitResume"} =>
          hosts' = {} /\ \A c \in Call : call[c].pc # "executing"
        BY <1>1, <2>3 DEF HostsStayDown
  <2> QED
      BY <2>2, <2>3, <2>4, <2>5, <2>6, ExitStepKeeps
<1>3. CASE StopAllHosts \/ Reopen
  <2>1. /\ life' \in [Scope -> Lock]
        /\ \A x \in Scope : OnlyMoves(life[x], life'[x], "exit")
        /\ life'[Global].mode["exit"] = "none"
        /\ \A x \in Scope : x # Global => life'[x] = life[x]
    <3>1. /\ life' = [x \in Scope |-> life'[x]]
          /\ life'[Global] = Leave(life[Global], "exit")
          /\ \A x \in Scope : x # Global => life'[x] = life[x]
          /\ life \in [Scope -> Lock] /\ \A x \in Scope : Orderly(life[x])
          BY <1>1, <1>3 DEF TypeOK, LocksAreOrderly, StopAllHosts, Reopen
    <3> QED
        BY <1>1, <3>1, Left
  <2>2. /\ ExitStep /\ hosts' \subseteq hosts /\ exits' = exits
        /\ accepting' \in BOOLEAN /\ (accepting' => exit' = "running")
        /\ (exit' = "down" /\ hosts' = {}) \/ exit' = "running"
    <3>1. CASE StopAllHosts
          BY <1>1, <3>1 DEF StopAllHosts, ExitIsLocked, TypeOK
    <3>2. CASE Reopen
          BY <1>1, <3>2 DEF Reopen, ExitIsLocked, TypeOK
    <3> QED
        BY <1>3, <3>1, <3>2
  <2>3. ExitIsLocked'
        BY <1>1, <2>1, <2>2 DEF ExitIsLocked
  <2>4. Writes(life[Global], "exit") /\ exits' \in 0..MaxExits
        BY <1>1, <1>3, <2>2 DEF StopAllHosts, Reopen, TypeOK
  <2> QED
      BY <2>1, <2>2, <2>3, <2>4, ExitFindsNoCall, ExitStepKeeps
<1> QED
    BY <1>2, <1>3

(***************************************************************************)
(* The specification.                                                      *)
(***************************************************************************)

LEMMA InitIInv == Init => IInv
<1> SUFFICES ASSUME Init PROVE IInv
    OBVIOUS
<1> USE DEF Init
<1>1. TypeOK
      BY States, FreeIsOrderly, ControllerAssumption DEF TypeOK
<1>2. LocksAreOrderly
      BY FreeIsOrderly DEF LocksAreOrderly
<1>3. TasksAreLocked
  <2>1. \A s \in Scope, t \in Task :
          life[s].mode[t] = "none" /\ gate[s].mode[t] = "none"
        BY DEF Free
  <2>2. \A c \in Call : CallIsLocked(c)
        BY <2>1, States DEF CallIsLocked, Reads
  <2>3. \A m \in Maintainer : MaintenanceIsLocked(m)
        BY <2>1, States DEF MaintenanceIsLocked, LifeOf, GateOf
  <2>4. ExitIsLocked
        BY <2>1, States DEF ExitIsLocked
  <2> QED
      BY <2>1, <2>2, <2>3, <2>4 DEF TasksAreLocked
<1>4. FlagsAreOwned
      BY DEF FlagsAreOwned
<1>5. CounterIsExact
  <2>1. {m \in Maintainer : maint[m].scope # Global /\ Raised(m)} = {}
        BY States DEF Raised
  <2> QED
      BY <2>1, FS_EmptySet DEF CounterIsExact
<1>6. HostsStayDown
      BY States DEF HostsStayDown
<1>7. \A c \in Call : call[c].pc = "idle"
      BY States
<1>8. CallsKnow /\ SettledCallsStayInTheirVersion
      BY <1>7 DEF CallsKnow, EpochsTell, CloneIsCurrent, DisturbanceShows, Loaded,
                  SettledCallsStayInTheirVersion
<1> QED
    BY <1>1, <1>2, <1>3, <1>4, <1>5, <1>6, <1>8 DEF IInv

LEMMA StutterKeeps == IInv /\ UNCHANGED vars => IInv'
<1> SUFFICES ASSUME IInv, UNCHANGED vars PROVE IInv'
    OBVIOUS
<1> USE DEF IInv, vars, flags
<1>1. TypeOK' /\ LocksAreOrderly' /\ FlagsAreOwned' /\ CounterIsExact' /\ HostsStayDown'
      BY DEF TypeOK, LocksAreOrderly, FlagsAreOwned, CounterIsExact, HostsStayDown, Raised
<1>2. TasksAreLocked'
      BY DEF TasksAreLocked, CallIsLocked, Reads, MaintenanceIsLocked, LifeOf, GateOf,
             ExitIsLocked
<1>3. CallsKnow' /\ SettledCallsStayInTheirVersion'
      BY KnowledgeStays DEF Maintained
<1> QED
    BY <1>1, <1>2, <1>3

LEMMA CallProgressKeeps ==
  ASSUME IInv, NEW c \in Call, CallProgress(c)
  PROVE  IInv' /\ ServedUnlessDisturbed(c)
BY CheckFlagsKeeps, CloneRouteKeeps, LoadPluginEpochKeeps, AdmitKeeps, TakePluginLockKeeps,
   RecheckKeeps, FinishKeeps DEF CallProgress

LEMMA NextIInv == IInv /\ [Next]_vars => IInv'
<1> SUFFICES ASSUME IInv, [Next]_vars PROVE IInv'
    OBVIOUS
<1>1. ASSUME NEW c \in Call,
             (\E p \in Plugin : BeginInvoke(c, p) \/ BeginOperator(c, p)) \/ CallProgress(c)
      PROVE  IInv'
      BY <1>1, CallBegins, CallProgressKeeps
<1>2. ASSUME NEW m \in Maintainer, MaintProgress(m)
      PROVE  IInv'
  <2>1. CASE LeaveGuards(m)
        BY <2>1, GivesUp DEF LeaveGuards
  <2> QED
      BY <1>2, <2>1, PassGateKeeps, RecheckMaintenanceKeeps, AdvanceEpochKeeps,
         RaiseFlagKeeps, StopHostsKeeps, ReleaseKeeps, UngateKeeps, LowerFlagKeeps
         DEF MaintProgress
<1>3. ASSUME NEW m \in Maintainer,
             (\E s \in Scopes : RequestGate(m, s)) \/ Replace(m) \/ Cancel(m)
      PROVE  IInv'
      BY <1>3, RequestGateKeeps, ReplaceKeeps, CancelKeeps
<1>4. CASE Shutdown \/ StopAllHosts \/ Resume \/ Reopen
      BY <1>4, ExitKeeps
<1>5. CASE UNCHANGED vars
      BY <1>5, StutterKeeps
<1> QED
    BY <1>1, <1>2, <1>3, <1>4, <1>5 DEF Next

\* The invariant of every reachable state.
THEOREM Invariance == Spec => []IInv
BY InitIInv, NextIInv, PTL DEF Spec

\* Of any number of maintenances, the ones that exclude each other never hold
\* the write locks together, and whichever way one ends (finished, refused or
\* cancelled at an await) no flag, gate, lock or count stays behind.
THEOREM MaintenancesExclude == Spec => []MaintenanceIsExclusive
<1>1. IInv => MaintenanceIsExclusive
      BY HostUse, Released DEF IInv, MaintenanceIsExclusive
<1> QED
    BY <1>1, Invariance, PTL

\* What a maintenance or a shutdown has brought to rest no call uses or starts,
\* not even one that had passed its first checks before.
THEOREM QuietHosts == Spec => []HostsAreQuiet
<1>1. IInv => HostsAreQuiet
      BY HostUse DEF IInv, HostsAreQuiet
<1> QED
    BY <1>1, Invariance, PTL

\* The epochs a call loaded outside the locks are enough: unless it loaded one
\* in the middle of a maintenance of that scope, it runs on the installed route.
THEOREM SettledVersions == Spec => []SettledCallsStayInTheirVersion
<1>1. IInv => SettledCallsStayInTheirVersion
      BY DEF IInv
<1> QED
    BY <1>1, Invariance, PTL

LEMMA OnlyOneCallMoves ==
  ASSUME NEW c \in Call, NEW d \in Call, d # c,
         (\E p \in Plugin : BeginInvoke(c, p) \/ BeginOperator(c, p)) \/ CallProgress(c),
         TypeOK
  PROVE  call'[d] = call[d]
BY DEF BeginInvoke, BeginOperator, CallProgress, CheckFlags, CloneRoute, LoadPluginEpoch,
       Admit, TakePluginLock, Recheck, Finish, End, Refuse, EndAs, Goto, TypeOK

\* A call is refused for maintenance only by one of everything or of its own
\* plugin that overlaps it: the maintenance of another plugin turns nobody away.
THEOREM OthersAreServed == Spec => UnrelatedPluginsAreServed
<1> DEFINE Served == \A c \in Call :
             call[c].pc # "idle" /\ call'[c].pc = "idle" /\ call'[c].refused
               => call[c].disturbed
<1>1. ASSUME IInv, [Next]_vars PROVE Served
  <2> SUFFICES ASSUME NEW d \in Call, call[d].pc # "idle", call'[d].pc = "idle",
                      call'[d].refused
               PROVE  call[d].disturbed
      OBVIOUS
  <2>0. TypeOK
        BY <1>1 DEF IInv
  <2>1. ASSUME NEW c \in Call,
               (\E p \in Plugin : BeginInvoke(c, p) \/ BeginOperator(c, p))
                 \/ CallProgress(c)
        PROVE  call[d].disturbed
    <3>1. CASE d # c
          BY <2>0, <2>1, <3>1, OnlyOneCallMoves
    <3>2. CASE d = c /\ CallProgress(c)
          BY <1>1, <3>2, CallProgressKeeps DEF ServedUnlessDisturbed
    <3>3. CASE d = c /\ \E p \in Plugin : BeginInvoke(c, p) \/ BeginOperator(c, p)
          BY <3>3 DEF BeginInvoke, BeginOperator
    <3> QED
        BY <2>1, <3>1, <3>2, <3>3
  <2>2. ASSUME NEW m \in Maintainer,
               \/ \E s \in Scopes : RequestGate(m, s)
               \/ MaintProgress(m) \/ Replace(m) \/ Cancel(m)
        PROVE  call'[d].pc = call[d].pc
    <3>1. CASE AdvanceEpoch(m)
          BY <2>0, <3>1 DEF AdvanceEpoch, TypeOK, CallState
    <3>2. CASE ~AdvanceEpoch(m)
          BY <2>2, <3>2
             DEF RequestGate, MaintProgress, PassGate, RecheckMaintenance, RaiseFlag,
                 StopHosts, Replace, Release, Ungate, LowerFlag, Cancel, LeaveGuards
    <3> QED
        BY <3>1, <3>2
  <2>3. CASE Shutdown \/ StopAllHosts \/ Resume \/ Reopen
        BY <2>3 DEF Shutdown, StopAllHosts, Resume, Reopen, ExitStep
  <2>4. CASE UNCHANGED vars
        BY <2>4 DEF vars
  <2> QED
      BY <1>1, <2>1, <2>2, <2>3, <2>4 DEF Next
<1> QED
    BY <1>1, Invariance, PTL DEF Spec, UnrelatedPluginsAreServed

=============================================================================
