----------------------------- MODULE Supervisor -----------------------------
(***************************************************************************)
(* The supervisor of native plugin hosts (crates/webplus-controller,       *)
(* PluginSupervisor and PluginWorker).  A host is a child process that     *)
(* serves one plugin directory and architecture.  Calls share it: the      *)
(* first starts it under the lock of its slot, every call uses it under    *)
(* the lock of its lane until its deadline, and a call that fails evicts   *)
(* it.  Request and response frames travel through a pipe and carry ids.   *)
(*                                                                         *)
(* Controller.tla shows that the hosts of a plugin are stopped only while  *)
(* no call of that plugin is inside (calls of others go on), and all hosts *)
(* only while no call is; that is assumed here.  The host process          *)
(* (crates/webplus-plugin-host) serves its requests one after another.     *)
(***************************************************************************)
EXTENDS Integers, FiniteSets, Sequences

CONSTANTS
  Key,         \* worker keys: plugin, directory and architecture
  Call,        \* concurrent calls of invoke and retry
  Host,        \* child processes
  None,
  IdSpace,     \* request ids wrap here (2^64 in the code) and skip 0
  MaxFaults    \* bound: hosts that crash, fail to start or break the pipe

ASSUME SupervisorAssumption ==
  /\ None \notin Key \cup Call \cup Host \cup [id : 1..(IdSpace - 1), of : Call]
  /\ IdSpace \in Nat \ {0, 1, 2} /\ MaxFaults \in Nat
  /\ IsFiniteSet(Key)

\* There are more ids than frames a host may leave unanswered (2^64 of them).
ASSUME IdsOutnumberFaults == MaxFaults < IdSpace - 1

VARIABLES
  slot,         \* [Key -> WorkerSlot]: state, host, backoff and lock
  host,         \* [Host -> PluginWorker and its process]
  call,         \* [Call -> state of the call]
  activeHosts,  \* active_hosts
  faults        \* faults so far

vars == <<slot, host, call, activeHosts, faults>>

Vacant == [state |-> "vacant", host |-> None, cooling |-> FALSE, lock |-> None]
Cooling == [Vacant EXCEPT !.state = "failed", !.cooling = TRUE]

\* A process that is not running.
Dead == [key |-> None, alive |-> FALSE, lane |-> None, nextId |-> 1,
         inbox |-> <<>>, running |-> None, outbox |-> <<>>, faulty |-> FALSE]

Resting == [pc |-> "idle", key |-> None, force |-> FALSE, host |-> None, id |-> 0,
            entered |-> FALSE, answer |-> "none"]

\* The last reference to a worker kills its process (kill_on_drop).
Kept(hosts, slots, calls) ==
  [h \in Host |->
     IF \/ \E k \in Key : slots[k].host = h
        \/ \E c \in Call : calls[c].host = h
     THEN hosts[h] ELSE Dead]

End(c, answer) ==
  call' = [call EXCEPT ![c] = [Resting EXCEPT !.answer = answer,
                                              !.entered = call[c].entered]]

Fault == faults < MaxFaults /\ faults' = faults + 1

-----------------------------------------------------------------------------
\* worker_for_mode.

\* force: retry by an operator, which only wants the host to be ready.
Begin(c, k, force) ==
  /\ call[c].pc = "idle"
  /\ call' = [call EXCEPT ![c] = [Resting EXCEPT !.pc = "slot", !.key = k,
                                                 !.force = force]]
  /\ UNCHANGED <<slot, host, activeHosts, faults>>

\* A host is ready: a retry is content, an invocation goes for its lane.
UseHost(c, h) ==
  IF call[c].force THEN End(c, "ready")
  ELSE call' = [call EXCEPT ![c] = [@ EXCEPT !.pc = "lane", !.host = h]]

\* Mutant: the slot is not locked during a start.
StartingUnlocked(c) == Vacant

\* The slot while c starts a host.
Starting(c) == [Vacant EXCEPT !.lock = c]

\* The slot's lock: the host, a backoff that is not over, or a start.
AcquireSlot(c) ==
  LET s == slot[call[c].key] IN
  /\ call[c].pc = "slot"
  /\ s.lock = None
  /\ IF s.state = "ready" THEN UseHost(c, s.host) /\ UNCHANGED slot
     ELSE IF s.state = "failed" /\ s.cooling /\ ~call[c].force
     THEN End(c, "notExecuted") /\ UNCHANGED slot
     ELSE /\ slot' = [slot EXCEPT ![call[c].key] = Starting(c)]
          /\ call' = [call EXCEPT ![c].pc = "spawning"]
  /\ UNCHANGED <<host, activeHosts, faults>>

\* spawn: the process is started and answers Health with its id 1.
SpawnSucceeds(c) ==
  /\ call[c].pc = "spawning"
  /\ \E h \in Host :
       /\ host[h] = Dead
       /\ host' = [host EXCEPT ![h] = [Dead EXCEPT !.key = call[c].key,
                                                   !.alive = TRUE, !.nextId = 2]]
       /\ slot' = [slot EXCEPT ![call[c].key] =
                     [Vacant EXCEPT !.state = "ready", !.host = h]]
       /\ UseHost(c, h)
  /\ activeHosts' = activeHosts + 1
  /\ UNCHANGED faults

\* Mutant: a failed start keeps the lock.
SpawnFailsLocked(c) ==
  /\ call[c].pc = "spawning"
  /\ Fault
  /\ slot' = [slot EXCEPT ![call[c].key] = [Cooling EXCEPT !.lock = c]]
  /\ End(c, "notExecuted")
  /\ UNCHANGED <<host, activeHosts>>

SpawnFails(c) ==
  /\ call[c].pc = "spawning"
  /\ Fault
  /\ slot' = [slot EXCEPT ![call[c].key] = Cooling]
  /\ End(c, "notExecuted")
  /\ UNCHANGED <<host, activeHosts>>

-----------------------------------------------------------------------------
\* invoke.

AcquireLane(c) ==
  LET h == call[c].host IN
  /\ call[c].pc = "lane"
  /\ host[h].lane = None
  /\ host' = [host EXCEPT ![h].lane = c]
  /\ call' = [call EXCEPT ![c].pc = "send"]
  /\ UNCHANGED <<slot, activeHosts, faults>>

\* The deadline passes in the queue of the lane; the host is not evicted.
LaneTimeout(c) ==
  /\ call[c].pc = "lane"
  /\ End(c, "notExecuted")
  /\ host' = Kept(host, slot, call')
  /\ UNCHANGED <<slot, activeHosts, faults>>

\* Mutant: ids are used again.
NextIdSame(id) == id

\* take_request_id: wraps and skips 0.
NextId(id) == IF id = IdSpace - 1 THEN 1 ELSE id + 1

Send(c) ==
  LET h == call[c].host
      p == host[h]
      frame == [id |-> p.nextId, of |-> c]
  IN /\ call[c].pc = "send"
     /\ p.alive
     /\ host' = [host EXCEPT ![h] = [p EXCEPT !.inbox = Append(p.inbox, frame),
                                              !.nextId = NextId(p.nextId)]]
     /\ call' = [call EXCEPT ![c] = [@ EXCEPT !.pc = "receive", !.id = p.nextId]]
     /\ UNCHANGED <<slot, activeHosts, faults>>

\* The response with the call's own id; the call ends and its guard goes.
Receive(c) ==
  LET h == call[c].host
      p == host[h]
      left == [p EXCEPT !.outbox = Tail(p.outbox), !.lane = None]
  IN /\ call[c].pc = "receive"
     /\ p.outbox # <<>>
     /\ Head(p.outbox).id = call[c].id
     /\ End(c, "completed")
     /\ host' = Kept([host EXCEPT ![h] = left], slot, call')
     /\ UNCHANGED <<slot, activeHosts, faults>>

\* An error leaves the lane; the host lives on unless it is already dead.
Broken(c, changed) ==
  LET h == call[c].host IN
  /\ host' = [changed EXCEPT ![h] = [@ EXCEPT !.lane = None, !.faulty = TRUE]]
  /\ call' = [call EXCEPT ![c].pc = "evict"]
  /\ UNCHANGED <<slot, activeHosts>>

\* A frame that is not the answer: another id (a late response), a host error
\* or a frame that does not decode and leaves the answer behind; a write
\* that fails; the end of a dead host's pipe.
ReceiveWrongId(c) ==
  LET h == call[c].host IN
  /\ call[c].pc = "receive"
  /\ host[h].outbox # <<>>
  /\ Head(host[h].outbox).id # call[c].id
  /\ Broken(c, [host EXCEPT ![h].outbox = Tail(@)])
  /\ UNCHANGED faults

PipeBreaks(c) ==
  /\ call[c].pc \in {"send", "receive"}
  /\ IF host[call[c].host].alive THEN Fault ELSE UNCHANGED faults
  /\ Broken(c, host)

\* The deadline: the host is killed under the lane.
Timeout(c) ==
  LET h == call[c].host IN
  /\ call[c].pc \in {"send", "receive"}
  /\ Broken(c, [host EXCEPT ![h] = [@ EXCEPT !.alive = FALSE, !.inbox = <<>>,
                                             !.running = None]])
  /\ UNCHANGED faults

\* Arc::ptr_eq: the slot still holds the worker c failed on.
Owns(c) ==
  LET s == slot[call[c].key] IN s.state = "ready" /\ s.host = call[c].host

\* decrement_saturating: never below zero.
RemainingHosts == IF activeHosts > 0 THEN activeHosts - 1 ELSE activeHosts

\* evict: only the worker that failed is taken out of the slot.
Evict(c) ==
  LET k == call[c].key IN
  /\ call[c].pc = "evict"
  /\ slot[k].lock = None
  /\ IF Owns(c) THEN slot' = [slot EXCEPT ![k] = Cooling] /\ activeHosts' = RemainingHosts
     ELSE UNCHANGED <<slot, activeHosts>>
  /\ End(c, "indeterminate")
  /\ host' = Kept(host, slot', call')
  /\ UNCHANGED faults

-----------------------------------------------------------------------------
\* The backoff, shutdown and the host processes.

BackoffEnds(k) ==
  /\ slot[k].state = "failed" /\ slot[k].cooling
  /\ slot' = [slot EXCEPT ![k].cooling = FALSE]
  /\ UNCHANGED <<host, call, activeHosts, faults>>

\* shutdown of every host, or shutdown_plugin, which decrements the counter it
\* shares with the calls of other plugins; no call of the keys is inside.
Stop(keys) ==
  LET ready == {k \in keys : slot[k].state = "ready"} IN
  /\ \A c \in Call : call[c].key \notin keys
  /\ ready # {}
  /\ slot' = [k \in Key |-> IF k \in keys THEN Vacant ELSE slot[k]]
  /\ host' = Kept(host, slot', call)
  /\ activeHosts' = IF keys = Key THEN 0 ELSE activeHosts - Cardinality(ready)
  /\ UNCHANGED <<call, faults>>

\* The host process takes a request into the native component ...
HostTakes(h) ==
  LET p == host[h]
      r == Head(p.inbox)
  IN /\ p.alive /\ p.running = None /\ p.inbox # <<>>
     /\ host' = [host EXCEPT ![h] = [p EXCEPT !.running = r, !.inbox = Tail(p.inbox)]]
     /\ call' = IF call[r.of].host = h /\ call[r.of].id = r.id
                THEN [call EXCEPT ![r.of].entered = TRUE] ELSE call
     /\ UNCHANGED <<slot, activeHosts, faults>>

\* ... and answers it.
HostReplies(h) ==
  LET p == host[h] IN
  /\ p.alive /\ p.running # None
  /\ host' = [host EXCEPT ![h] = [p EXCEPT !.outbox = Append(p.outbox, p.running),
                                           !.running = None]]
  /\ UNCHANGED <<slot, call, activeHosts, faults>>

HostDies(h) ==
  /\ host[h].alive
  /\ Fault
  /\ host' = [host EXCEPT ![h] = [@ EXCEPT !.alive = FALSE, !.inbox = <<>>,
                                           !.running = None]]
  /\ UNCHANGED <<slot, call, activeHosts>>

-----------------------------------------------------------------------------
Init ==
  /\ slot = [k \in Key |-> Vacant]
  /\ host = [h \in Host |-> Dead]
  /\ call = [c \in Call |-> Resting]
  /\ activeHosts = 0
  /\ faults = 0

CallProgress(c) ==
  \/ AcquireSlot(c) \/ SpawnSucceeds(c) \/ SpawnFails(c)
  \/ AcquireLane(c) \/ LaneTimeout(c) \/ Send(c) \/ Receive(c)
  \/ ReceiveWrongId(c) \/ PipeBreaks(c) \/ Timeout(c) \/ Evict(c)

Next ==
  \/ \E c \in Call :
       \/ \E k \in Key, force \in BOOLEAN : Begin(c, k, force)
       \/ CallProgress(c)
  \/ \E k \in Key : BackoffEnds(k) \/ Stop({k})
  \/ Stop(Key)
  \/ \E h \in Host : HostTakes(h) \/ HostReplies(h) \/ HostDies(h)

Spec == Init /\ [][Next]_vars

\* Every step of a call is bounded by its deadline or by the 120 seconds of a
\* start; a slot's lock is granted in order.
Fairness ==
  \A c \in Call : WF_vars(CallProgress(c)) /\ SF_vars(AcquireSlot(c)) /\ SF_vars(Evict(c))

FairSpec == Spec /\ Fairness

-----------------------------------------------------------------------------
Frame == [id : 1..(IdSpace - 1), of : Call]

\* Type correctness.
TypeOK ==
  /\ slot \in [Key -> [state : {"vacant", "ready", "failed"}, host : Host \cup {None},
                       cooling : BOOLEAN, lock : Call \cup {None}]]
  /\ host \in [Host -> [key : Key \cup {None}, alive : BOOLEAN,
                        lane : Call \cup {None}, nextId : 1..(IdSpace - 1),
                        inbox : Seq(Frame), running : Frame \cup {None},
                        outbox : Seq(Frame), faulty : BOOLEAN]]
  /\ call \in [Call -> [pc : {"idle", "slot", "spawning", "lane", "send",
                              "receive", "evict"},
                        key : Key \cup {None}, force : BOOLEAN,
                        host : Host \cup {None}, id : 0..(IdSpace - 1),
                        entered : BOOLEAN,
                        answer : {"none", "ready", "notExecuted", "completed",
                                  "indeterminate"}]]
  /\ activeHosts \in Int /\ faults \in 0..MaxFaults

\* active_hosts counts the ready slots exactly, whatever order starts,
\* evictions by several failing calls and shutdowns come in.
CounterIsExact == activeHosts = Cardinality({k \in Key : slot[k].state = "ready"})

\* Starts are single-flight: while a call starts a host, no other host of the
\* key is ready or being started.
StartIsSingleFlight ==
  \A c \in Call : call[c].pc = "spawning" =>
    /\ slot[call[c].key].lock = c
    /\ \A d \in Call \ {c} : call[d].pc = "spawning" => call[d].key # call[c].key
    /\ slot[call[c].key].state # "ready"

\* A call that is told it was not executed never entered the native
\* component, and one that completed did.
AnswersAreTrue ==
  \A c \in Call :
    /\ call[c].answer = "notExecuted" => ~call[c].entered
    /\ call[c].answer = "completed" => call[c].entered

\* A call takes only the response of its own request, although a late
\* response of an earlier one may still come through the same pipe.
ResponseIsOwn ==
  [][\A c \in Call :
       call[c].pc = "receive" /\ call'[c].answer = "completed"
         => Head(host[call[c].host].outbox).of = c]_vars

\* Only a host some call failed on is evicted: a failure that is reported
\* late does not take down the host that was started in between.
HealthyHostsStay ==
  [][\A k \in Key :
       slot[k].state = "ready" /\ slot'[k].state = "failed"
         => host[slot[k].host].faulty]_vars

\* docs/web-bridge-migration.md: one plugin and architecture has one serial
\* lane, so that a component or device is never called twice at a time.  It does
\* not hold (README): a host that was evicted for an answer still serves its lane.
ComponentIsUsedSerially ==
  \A g, h \in Host :
    g # h /\ host[g].running # None /\ host[h].running # None
      => host[g].key # host[h].key

\* Every call ends.
CallsEnd == \A c \in Call : []<>(call[c].pc = "idle")

\* A key has one host at a time in its slot, which is counted while it is
\* ready, and what a call is told of its execution is what happened in a host.
HostsAreAccountedFor == TypeOK /\ CounterIsExact /\ StartIsSingleFlight /\ AnswersAreTrue

\* Neither a response nor a failure is attributed to another call or host than
\* the one it came from.
OutcomesAreOwn == ResponseIsOwn /\ HealthyHostsStay

-----------------------------------------------------------------------------
\* What these rest on.  A call that starts a host has its slot for itself.
SlotIsMine == \A c \in Call : call[c].pc = "spawning" => slot[call[c].key] = Starting(c)

\* A slot is ready with a host of its key, and every call that uses a host uses
\* one of its key; no other slot or call holds a host.
SlotsHoldTheirs ==
  \A k \in Key :
    IF slot[k].state = "ready"
    THEN slot[k].host \in Host /\ host[slot[k].host].key = k
    ELSE slot[k].host = None

CallsUseTheirs ==
  \A c \in Call :
    /\ call[c].pc # "idle" => call[c].key \in Key
    /\ IF call[c].pc \in {"lane", "send", "receive", "evict"}
       THEN call[c].host \in Host /\ host[call[c].host].key = call[c].key
       ELSE call[c].host = None

HostsAreTheirs == SlotsHoldTheirs /\ CallsUseTheirs

\* The lane of a host belongs to the call that uses its pipe.
LaneIsHeld ==
  \A c \in Call, h \in Host :
    host[h].lane = c <=> call[c].pc \in {"send", "receive"} /\ call[c].host = h

\* A call has an id from its request on, nothing of it is in a host before, and
\* it has an answer when it is over; what it failed on is marked.
CallsAreConsistent ==
  \A c \in Call :
    /\ call[c].pc \notin {"receive", "evict"} => call[c].id = 0
    /\ call[c].pc \in {"slot", "spawning", "lane", "send"} => ~call[c].entered
    /\ call[c].pc # "idle" => call[c].answer = "none"
    /\ call[c].pc = "evict" => host[call[c].host].faulty

\* The id that was given out n requests before the next one.
Before(id, n) == IF n < id THEN id - n ELSE id - n + (IdSpace - 1)

Unread(p) == Len(p.inbox) + Len(p.outbox) + (IF p.running = None THEN 0 ELSE 1)

\* Its pipe holds the latest requests of a host in order: answers that were not
\* read, the request it serves and those it has not taken.
InOrder(p) ==
  /\ \A j \in 1..Len(p.inbox) :
       p.inbox[j].id = Before(p.nextId, Len(p.inbox) + 1 - j)
  /\ p.running # None => p.running.id = Before(p.nextId, Len(p.inbox) + 1)
  /\ \A j \in 1..Len(p.outbox) :
       p.outbox[j].id = Before(p.nextId, Unread(p) + 1 - j)

\* Every live host's pipe is in order and holds, besides the request a call
\* waits for, at most one for each fault so far.
PipeIsOrdered ==
  \A h \in Host : host[h].alive =>
    /\ InOrder(host[h])
    /\ \/ Unread(host[h]) <= faults
       \/ /\ Unread(host[h]) <= faults + 1
          /\ \E c \in Call : host[h].lane = c /\ call[c].pc = "receive"

\* Every frame in p with the id c waits for is of c, which entered the host when
\* the host took it; r is c's state.
OwnFrames(c, r, p) ==
  /\ \A j \in 1..Len(p.inbox) : p.inbox[j].id = r.id => p.inbox[j].of = c
  /\ p.running # None /\ p.running.id = r.id => p.running.of = c /\ r.entered
  /\ \A j \in 1..Len(p.outbox) :
       p.outbox[j].id = r.id => p.outbox[j].of = c /\ r.entered

FramesAreOwn ==
  \A c \in Call :
    call[c].pc = "receive" => OwnFrames(c, call[c], host[call[c].host])

IInv ==
  /\ TypeOK /\ SlotIsMine /\ HostsAreTheirs /\ LaneIsHeld /\ CallsAreConsistent
  /\ CounterIsExact /\ AnswersAreTrue /\ PipeIsOrdered /\ FramesAreOwn

=============================================================================
