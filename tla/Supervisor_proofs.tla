--------------------------- MODULE Supervisor_proofs ---------------------------
(***************************************************************************)
(* Proofs about the supervisor of native plugin hosts, for any number of   *)
(* plugins, calls and hosts: starts are single-flight, the host counter is *)
(* exact, a call is told what happened to it, and neither a response nor a *)
(* failure is attributed to another call or host.  The ids of requests may *)
(* wrap; it is enough that they outnumber the faults (IdsOutnumberFaults). *)
(***************************************************************************)
EXTENDS Supervisor, FiniteSetTheorems, SequenceTheorems, TLAPS

Slots == [state : {"vacant", "ready", "failed"}, host : Host \cup {None},
          cooling : BOOLEAN, lock : Call \cup {None}]

Hosts == [key : Key \cup {None}, alive : BOOLEAN, lane : Call \cup {None},
          nextId : 1..(IdSpace - 1), inbox : Seq(Frame), running : Frame \cup {None},
          outbox : Seq(Frame), faulty : BOOLEAN]

Pcs == {"idle", "slot", "spawning", "lane", "send", "receive", "evict"}

CallAnswers == {"none", "ready", "notExecuted", "completed", "indeterminate"}

Calls == [pc : Pcs, key : Key \cup {None}, force : BOOLEAN, host : Host \cup {None},
          id : 0..(IdSpace - 1), entered : BOOLEAN, answer : CallAnswers]

-----------------------------------------------------------------------------
\* The data: slots, hosts and calls that steps write are well-typed.

\* The type invariant, variable by variable.
LEMMA Types ==
  TypeOK <=> /\ slot \in [Key -> Slots] /\ host \in [Host -> Hosts]
             /\ call \in [Call -> Calls] /\ activeHosts \in Int /\ faults \in 0..MaxFaults
  BY DEF TypeOK, Slots, Hosts, Calls, Pcs, CallAnswers

LEMMA TypesAfter ==
  ASSUME slot' \in [Key -> Slots], host' \in [Host -> Hosts], call' \in [Call -> Calls],
         activeHosts' \in Int, faults' \in 0..MaxFaults
  PROVE  TypeOK'
  BY DEF TypeOK, Slots, Hosts, Calls, Pcs, CallAnswers

\* There are ids for the health request and another, and never as many faults as ids.
LEMMA Constants ==
  /\ IdSpace \in Nat /\ IdSpace > 2 /\ MaxFaults \in Nat /\ MaxFaults < IdSpace - 1
  /\ None \notin Key /\ None \notin Call /\ None \notin Host /\ None \notin Frame
  /\ IsFiniteSet(Key)
  BY SupervisorAssumption, IdsOutnumberFaults DEF Frame

\* The records a step starts from.
LEMMA Records ==
  /\ Vacant \in Slots /\ Cooling \in Slots /\ \A c \in Call : Starting(c) \in Slots
  /\ Dead \in Hosts
  /\ \A a \in CallAnswers, e \in BOOLEAN :
       [Resting EXCEPT !.answer = a, !.entered = e] \in Calls
<1>1. Vacant \in Slots /\ Cooling \in Slots /\ \A c \in Call : Starting(c) \in Slots
  BY DEF Vacant, Cooling, Starting, Slots
<1>2. Dead \in Hosts
  BY Constants, EmptySeq DEF Dead, Hosts
<1>3. ASSUME NEW a \in CallAnswers, NEW e \in BOOLEAN
      PROVE  [Resting EXCEPT !.answer = a, !.entered = e] \in Calls
  <2>1. 0 \in 0..(IdSpace - 1)
    BY Constants
  <2>2. Resting \in Calls
    BY <2>1 DEF Resting, Calls, Pcs, CallAnswers
  <2> QED
    BY <2>2 DEF Calls
<1> QED
  BY <1>1, <1>2, <1>3

\* A process is kept while a slot or a call refers to it.
LEMMA KeptHosts ==
  ASSUME NEW hosts, NEW slots, NEW calls
  PROVE  LET kept == Kept(hosts, slots, calls) IN
         /\ \A h \in Host : kept[h] = hosts[h] \/ kept[h] = Dead
         /\ \A h \in Host : (\E k \in Key : slots[k].host = h) => kept[h] = hosts[h]
         /\ \A h \in Host : (\E c \in Call : calls[c].host = h) => kept[h] = hosts[h]
         /\ hosts \in [Host -> Hosts] => kept \in [Host -> Hosts]
  BY Records DEF Kept

\* A frame carries an id that is not 0 and the call it is of.
LEMMA Frames ==
  \A f \in Frame : f.id \in 1..(IdSpace - 1) /\ f.of \in Call
  BY DEF Frame

-----------------------------------------------------------------------------
\* The pipe of a host.

\* The frames a pipe holds.
LEMMA Counted ==
  ASSUME NEW p, NEW a \in Nat, NEW b \in Nat, Len(p.inbox) = a, Len(p.outbox) = b
  PROVE  /\ Unread(p) \in Nat /\ a + b <= Unread(p)
         /\ p.running = None => Unread(p) = a + b
         /\ p.running # None => Unread(p) = a + b + 1
<1>1. CASE p.running = None
  BY <1>1 DEF Unread
<1>2. CASE p.running # None
  BY <1>2 DEF Unread
<1> QED
  BY <1>1, <1>2

\* The order of its frames, of which it has not taken a and has answered b.
InOrderOf(p, a, b) ==
  /\ \A j \in 1..a : p.inbox[j].id = Before(p.nextId, a + 1 - j)
  /\ p.running # None => p.running.id = Before(p.nextId, a + 1)
  /\ \A j \in 1..b : p.outbox[j].id = Before(p.nextId, Unread(p) + 1 - j)

LEMMA Ordered ==
  ASSUME NEW p, NEW a \in Nat, NEW b \in Nat, Len(p.inbox) = a, Len(p.outbox) = b
  PROVE  InOrder(p) <=> InOrderOf(p, a, b)
  BY DEF InOrder, InOrderOf

\* A host's queues.
LEMMA Queues ==
  ASSUME NEW p \in Hosts
  PROVE  /\ p.inbox \in Seq(Frame) /\ Len(p.inbox) \in Nat
         /\ p.outbox \in Seq(Frame) /\ Len(p.outbox) \in Nat
         /\ p.running # None => p.running \in Frame
         /\ p.nextId \in 1..(IdSpace - 1)
  BY LenProperties DEF Hosts

\* What Head, Tail and Append do to one.
LEMMA Queue ==
  ASSUME NEW s \in Seq(Frame), NEW f \in Frame
  PROVE  /\ s # <<>> => /\ Len(s) > 0 /\ Head(s) = s[1] /\ s[1] \in Frame
                        /\ Tail(s) \in Seq(Frame) /\ Len(Tail(s)) = Len(s) - 1
                        /\ \A j \in 1..Len(s) - 1 : Tail(s)[j] = s[j + 1]
         /\ Append(s, f) \in Seq(Frame) /\ Len(Append(s, f)) = Len(s) + 1
         /\ \A j \in 1..Len(s) : Append(s, f)[j] = s[j]
         /\ Append(s, f)[Len(s) + 1] = f
<1>1. Len(s) \in Nat /\ (s # <<>> => Len(s) > 0)
  BY LenProperties, EmptySeq
<1>2. s # <<>> => /\ Head(s) = s[1] /\ s[1] \in Frame
                  /\ Tail(s) \in Seq(Frame) /\ Len(Tail(s)) = Len(s) - 1
                  /\ \A j \in 1..Len(s) - 1 : Tail(s)[j] = s[j + 1]
  BY <1>1, HeadTailProperties, ElementOfSeq
<1>3. /\ Append(s, f) \in Seq(Frame) /\ Len(Append(s, f)) = Len(s) + 1
      /\ \A j \in 1..Len(s) : Append(s, f)[j] = s[j]
      /\ Append(s, f)[Len(s) + 1] = f
  BY AppendProperties
<1> QED
  BY <1>1, <1>2, <1>3

\* The next id moves every earlier one a step away.
LEMMA BeforeNext ==
  ASSUME NEW id \in 1..(IdSpace - 1), NEW n \in 1..(IdSpace - 2)
  PROVE  /\ NextId(id) \in 1..(IdSpace - 1)
         /\ Before(NextId(id), n + 1) = Before(id, n)
         /\ Before(NextId(id), 1) = id
         /\ Before(id, n) # id
  BY Constants DEF NextId, Before

\* The host takes the oldest request ...
LEMMA PipeTakes ==
  ASSUME NEW p \in Hosts, InOrder(p), p.running = None, p.inbox # <<>>, NEW q,
         q.running = Head(p.inbox), q.inbox = Tail(p.inbox), q.outbox = p.outbox,
         q.nextId = p.nextId
  PROVE  /\ InOrder(q) /\ Unread(q) = Unread(p)
         /\ \A j \in 1..Len(q.inbox) : j + 1 \in 1..Len(p.inbox) /\ q.inbox[j] = p.inbox[j + 1]
         /\ 1 \in 1..Len(p.inbox) /\ q.running = p.inbox[1]
         /\ q.running # None /\ q.running \in Frame
<1> DEFINE a == Len(p.inbox)
           b == Len(p.outbox)
<1>1. /\ p.inbox # <<>> /\ p.inbox \in Seq(Frame) /\ a \in Nat /\ b \in Nat
      /\ Len(p.inbox) = a /\ Len(p.outbox) = b
  BY Queues
<1> HIDE DEF a, b
<1>2. /\ Len(p.inbox) > 0 /\ Head(p.inbox) = p.inbox[1] /\ p.inbox[1] \in Frame
      /\ Tail(p.inbox) \in Seq(Frame) /\ Len(Tail(p.inbox)) = a - 1
      /\ \A j \in 1..a - 1 : Tail(p.inbox)[j] = p.inbox[j + 1]
  <2>1. \E f : f \in Frame
    BY <1>1, Queues, EmptySeq, ElementOfSeq
  <2> QED
    BY <1>1, <2>1, Queue
<1>3. a > 0 /\ a - 1 \in Nat
  BY <1>1, <1>2
<1>4. /\ q.running = p.inbox[1] /\ q.inbox = Tail(p.inbox)
      /\ q.outbox = p.outbox /\ q.nextId = p.nextId
  BY <1>2
<1>6. q.running # None
  BY <1>2, <1>4, Constants
<1>7. Len(q.inbox) = a - 1 /\ Len(q.outbox) = b
  BY <1>1, <1>2, <1>4
<1>8. Unread(q) = Unread(p) /\ Unread(p) = a + b
  <2>1. Unread(p) = a + b
    BY <1>1, Counted
  <2>2. Unread(q) = (a - 1) + b + 1
    BY <1>1, <1>3, <1>6, <1>7, Counted
  <2> QED
    BY <1>1, <2>1, <2>2
<1>9. /\ \A j \in 1..a : p.inbox[j].id = Before(p.nextId, a + 1 - j)
      /\ \A j \in 1..b : p.outbox[j].id = Before(p.nextId, Unread(p) + 1 - j)
  BY <1>1, Ordered DEF InOrderOf
<1>10. \A j \in 1..(a - 1) : j + 1 \in 1..a /\ q.inbox[j] = p.inbox[j + 1]
  BY <1>1, <1>2, <1>4
<1>11. \A j \in 1..(a - 1) : q.inbox[j].id = Before(q.nextId, (a - 1) + 1 - j)
  <2>1. ASSUME NEW j \in 1..(a - 1)
        PROVE  q.inbox[j].id = Before(q.nextId, (a - 1) + 1 - j)
    <3>1. q.inbox[j].id = Before(p.nextId, a + 1 - (j + 1))
      BY <1>9, <1>10
    <3>2. a + 1 - (j + 1) = (a - 1) + 1 - j
      BY <1>1
    <3> QED
      BY <1>4, <3>1, <3>2
  <2> QED
    BY <2>1
<1>12. q.running.id = Before(q.nextId, (a - 1) + 1)
  <2>1. 1 \in 1..a /\ a + 1 - 1 = (a - 1) + 1
    BY <1>1, <1>3
  <2>2. p.inbox[1].id = Before(p.nextId, a + 1 - 1)
    BY <1>9, <2>1
  <2> QED
    BY <1>4, <2>1, <2>2
<1>13. InOrder(q)
  <2>1. \A j \in 1..b : q.outbox[j].id = Before(q.nextId, Unread(q) + 1 - j)
    BY <1>4, <1>8, <1>9
  <2> QED
    <3>1. InOrderOf(q, a - 1, b)
      BY <1>11, <1>12, <2>1 DEF InOrderOf
    <3> QED
      BY <1>1, <1>3, <1>7, <3>1, Ordered
<1>14. \A j \in 1..Len(q.inbox) : j + 1 \in 1..Len(p.inbox) /\ q.inbox[j] = p.inbox[j + 1]
  BY <1>1, <1>7, <1>10
<1>15. 1 \in 1..Len(p.inbox)
  BY <1>1, <1>3
<1> QED
  BY <1>2, <1>4, <1>6, <1>8, <1>13, <1>14, <1>15

\* ... and answers it ...
LEMMA PipeReplies ==
  ASSUME NEW p \in Hosts, InOrder(p), p.running # None, NEW q,
         q.outbox = Append(p.outbox, p.running), q.running = None, q.inbox = p.inbox,
         q.nextId = p.nextId
  PROVE  /\ InOrder(q) /\ Unread(q) = Unread(p)
         /\ \A j \in 1..Len(q.outbox) :
              \/ j \in 1..Len(p.outbox) /\ q.outbox[j] = p.outbox[j]
              \/ q.outbox[j] = p.running
<1> DEFINE a == Len(p.inbox)
           b == Len(p.outbox)
<1>1. /\ p.outbox \in Seq(Frame) /\ a \in Nat /\ b \in Nat /\ p.running \in Frame
      /\ Len(p.inbox) = a /\ Len(p.outbox) = b
  BY Queues
<1> HIDE DEF a, b
<1>2. /\ Append(p.outbox, p.running) \in Seq(Frame)
      /\ Len(Append(p.outbox, p.running)) = b + 1
      /\ \A j \in 1..b : Append(p.outbox, p.running)[j] = p.outbox[j]
      /\ Append(p.outbox, p.running)[b + 1] = p.running
  BY <1>1, Queue
<1>3. /\ q.running = None /\ q.inbox = p.inbox /\ q.nextId = p.nextId
      /\ q.outbox = Append(p.outbox, p.running)
  OBVIOUS
<1>5. Len(q.inbox) = a /\ Len(q.outbox) = b + 1 /\ b + 1 \in Nat
  BY <1>1, <1>2, <1>3
<1>6. Unread(p) = a + b + 1 /\ Unread(q) = a + b + 1
  <2>1. Unread(p) = a + b + 1
    BY <1>1, Counted
  <2>2. Unread(q) = a + (b + 1)
    BY <1>1, <1>3, <1>5, Counted
  <2> QED
    BY <1>1, <2>1, <2>2
<1>7. /\ \A j \in 1..a : p.inbox[j].id = Before(p.nextId, a + 1 - j)
      /\ p.running.id = Before(p.nextId, a + 1)
      /\ \A j \in 1..b : p.outbox[j].id = Before(p.nextId, Unread(p) + 1 - j)
  BY <1>1, Ordered DEF InOrderOf
<1>8. \A j \in 1..(b + 1) : \/ j \in 1..b /\ q.outbox[j] = p.outbox[j]
                            \/ j = b + 1 /\ q.outbox[j] = p.running
  BY <1>1, <1>2, <1>3
<1>9. \A j \in 1..(b + 1) : q.outbox[j].id = Before(q.nextId, Unread(q) + 1 - j)
  <2>1. ASSUME NEW j \in 1..b, q.outbox[j] = p.outbox[j]
        PROVE  q.outbox[j].id = Before(q.nextId, Unread(q) + 1 - j)
    BY <2>1, <1>3, <1>6, <1>7
  <2>2. ASSUME NEW j, j = b + 1, q.outbox[j] = p.running
        PROVE  q.outbox[j].id = Before(q.nextId, Unread(q) + 1 - j)
    <3>1. Unread(q) + 1 - j = a + 1
      BY <2>2, <1>1, <1>6
    <3> QED
      BY <2>2, <3>1, <1>3, <1>7
  <2> QED
    BY <2>1, <2>2, <1>8
<1>10. InOrder(q)
  <2>1. \A j \in 1..a : q.inbox[j].id = Before(q.nextId, a + 1 - j)
    BY <1>3, <1>7
  <2> QED
    <3>1. InOrderOf(q, a, b + 1)
      BY <1>3, <1>9, <2>1 DEF InOrderOf
    <3> QED
      BY <1>1, <1>5, <3>1, Ordered
<1>11. \A j \in 1..Len(q.outbox) :
         \/ j \in 1..Len(p.outbox) /\ q.outbox[j] = p.outbox[j]
         \/ q.outbox[j] = p.running
  BY <1>1, <1>5, <1>8
<1> QED
  BY <1>3, <1>6, <1>10, <1>11

\* ... and the call that holds the lane reads the oldest answer.
LEMMA PipeReads ==
  ASSUME NEW p \in Hosts, InOrder(p), p.outbox # <<>>, NEW q, q.nextId = p.nextId,
         q.inbox = p.inbox, q.running = p.running, q.outbox = Tail(p.outbox)
  PROVE  /\ InOrder(q) /\ Unread(q) = Unread(p) - 1 /\ q.outbox \in Seq(Frame)
         /\ Head(p.outbox) = p.outbox[1] /\ 1 \in 1..Len(p.outbox)
<1> DEFINE a == Len(p.inbox)
           b == Len(p.outbox)
<1>1. /\ p.outbox # <<>> /\ p.outbox \in Seq(Frame) /\ a \in Nat /\ b \in Nat
      /\ Len(p.inbox) = a /\ Len(p.outbox) = b
  BY Queues
<1> HIDE DEF a, b
<1>2. /\ Len(p.outbox) > 0 /\ Head(p.outbox) = p.outbox[1]
      /\ Tail(p.outbox) \in Seq(Frame) /\ Len(Tail(p.outbox)) = b - 1
      /\ \A j \in 1..b - 1 : Tail(p.outbox)[j] = p.outbox[j + 1]
  <2>1. \E f : f \in Frame
    BY <1>1, Queues, EmptySeq, ElementOfSeq
  <2> QED
    BY <1>1, <2>1, Queue
<1>3. b > 0 /\ b - 1 \in Nat
  BY <1>1, <1>2
<1>4. Len(q.inbox) = a /\ Len(q.outbox) = b - 1
  BY <1>1, <1>2
<1>5. Unread(q) = Unread(p) - 1 /\ Unread(p) \in Nat
  <2>1. CASE p.running = None
    <3>1. Unread(p) = a + b /\ Unread(p) \in Nat
      BY <2>1, <1>1, Counted
    <3>2. Unread(q) = a + (b - 1)
      BY <2>1, <1>1, <1>3, <1>4, Counted
    <3> QED
      BY <3>1, <3>2, <1>1
  <2>2. CASE p.running # None
    <3>1. Unread(p) = a + b + 1 /\ Unread(p) \in Nat
      BY <2>2, <1>1, Counted
    <3>2. Unread(q) = a + (b - 1) + 1
      BY <2>2, <1>1, <1>3, <1>4, Counted
    <3> QED
      BY <3>1, <3>2, <1>1
  <2> QED
    BY <2>1, <2>2
<1>6. /\ \A j \in 1..a : p.inbox[j].id = Before(p.nextId, a + 1 - j)
      /\ p.running # None => p.running.id = Before(p.nextId, a + 1)
      /\ \A j \in 1..b : p.outbox[j].id = Before(p.nextId, Unread(p) + 1 - j)
  BY <1>1, Ordered DEF InOrderOf
<1>7. \A j \in 1..(b - 1) : q.outbox[j].id = Before(q.nextId, Unread(q) + 1 - j)
  <2>1. ASSUME NEW j \in 1..(b - 1)
        PROVE  q.outbox[j].id = Before(q.nextId, Unread(q) + 1 - j)
    <3>1. j + 1 \in 1..b /\ q.outbox[j] = p.outbox[j + 1]
      BY <1>1, <1>2
    <3>2. p.outbox[j + 1].id = Before(p.nextId, Unread(p) + 1 - (j + 1))
      BY <3>1, <1>6
    <3>3. Unread(p) + 1 - (j + 1) = Unread(q) + 1 - j
      BY <1>5, <1>1
    <3> QED
      BY <3>1, <3>2, <3>3
  <2> QED
    BY <2>1
<1>8. InOrder(q)
  <2>1. InOrderOf(q, a, b - 1)
    BY <1>6, <1>7 DEF InOrderOf
  <2> QED
    BY <1>1, <1>3, <1>4, <2>1, Ordered
<1>9. 1 \in 1..Len(p.outbox)
  BY <1>1, <1>3
<1> QED
  BY <1>2, <1>5, <1>8, <1>9

\* No frame of p has the id.
Unused(p, id) ==
  /\ \A j \in 1..Len(p.inbox) : p.inbox[j].id # id
  /\ p.running # None => p.running.id # id
  /\ \A j \in 1..Len(p.outbox) : p.outbox[j].id # id

\* A frame q has to take is f or one p has to take.
TakesToo(q, p, f) ==
  \A j \in 1..Len(q.inbox) :
    \/ j \in 1..Len(p.inbox) /\ q.inbox[j] = p.inbox[j]
    \/ q.inbox[j] = f

\* A request goes in behind the others, whose ids are not its own.
LEMMA PipeSends ==
  ASSUME NEW p \in Hosts, InOrder(p), Unread(p) <= IdSpace - 2,
         NEW f \in Frame, f.id = p.nextId, NEW q,
         q.inbox = Append(p.inbox, f), q.nextId = NextId(p.nextId),
         q.running = p.running, q.outbox = p.outbox
  PROVE  /\ InOrder(q) /\ Unread(q) = Unread(p) + 1
         /\ TakesToo(q, p, f) /\ Unused(p, p.nextId)
<1> DEFINE a == Len(p.inbox)
           b == Len(p.outbox)
           u == Unread(p)
<1>1. /\ p.inbox \in Seq(Frame) /\ a \in Nat /\ b \in Nat
      /\ p.nextId \in 1..(IdSpace - 1)
      /\ Len(p.inbox) = a /\ Len(p.outbox) = b /\ Unread(p) = u /\ u <= IdSpace - 2
  BY Queues
<1> HIDE DEF a, b, u
<1>2. /\ Append(p.inbox, f) \in Seq(Frame) /\ Len(Append(p.inbox, f)) = a + 1
      /\ \A j \in 1..a : Append(p.inbox, f)[j] = p.inbox[j]
      /\ Append(p.inbox, f)[a + 1] = f
  BY <1>1, Queue
<1>3. /\ q.running = p.running /\ q.outbox = p.outbox /\ q.nextId = NextId(p.nextId)
      /\ q.inbox = Append(p.inbox, f)
  OBVIOUS
<1>6. /\ u \in Nat /\ a + b <= u /\ (p.running # None => u = a + b + 1)
      /\ (p.running = None => u = a + b)
  BY <1>1, Counted
<1>7. Len(q.inbox) = a + 1 /\ Len(q.outbox) = b /\ a + 1 \in Nat
  BY <1>1, <1>2, <1>3
<1>8. Unread(q) = u + 1
  <2>1. CASE p.running = None
    <3>1. Unread(q) = (a + 1) + b
      BY <2>1, <1>1, <1>3, <1>7, Counted
    <3> QED
      BY <3>1, <2>1, <1>1, <1>6
  <2>2. CASE p.running # None
    <3>1. Unread(q) = (a + 1) + b + 1
      BY <2>2, <1>1, <1>3, <1>7, Counted
    <3> QED
      BY <3>1, <2>2, <1>1, <1>6
  <2> QED
    BY <2>1, <2>2
<1>9. \A n \in 1..u : /\ Before(q.nextId, n + 1) = Before(p.nextId, n)
                      /\ Before(p.nextId, n) # p.nextId
  <2>1. \A n \in 1..u : n \in 1..(IdSpace - 2)
    BY <1>1, <1>6, Constants
  <2>2. ASSUME NEW n \in 1..u
        PROVE  /\ Before(NextId(p.nextId), n + 1) = Before(p.nextId, n)
               /\ Before(p.nextId, n) # p.nextId
    BY <2>1, <1>1, BeforeNext
  <2> QED
    BY <2>2, <1>3
<1>10. /\ \A j \in 1..a : p.inbox[j].id = Before(p.nextId, a + 1 - j)
       /\ p.running # None => p.running.id = Before(p.nextId, a + 1)
       /\ \A j \in 1..b : p.outbox[j].id = Before(p.nextId, u + 1 - j)
  BY <1>1, Ordered DEF InOrderOf
<1>11. /\ \A j \in 1..a : a + 1 - j \in 1..u /\ (a + 1) + 1 - j = (a + 1 - j) + 1
       /\ p.running # None => a + 1 \in 1..u
       /\ \A j \in 1..b : u + 1 - j \in 1..u /\ (u + 1) + 1 - j = (u + 1 - j) + 1
  <2>1. \A j \in 1..a : a + 1 - j \in 1..u /\ (a + 1) + 1 - j = (a + 1 - j) + 1
    BY <1>1, <1>6
  <2>2. p.running # None => a + 1 \in 1..u
    BY <1>1, <1>6
  <2>3. \A j \in 1..b : u + 1 - j \in 1..u /\ (u + 1) + 1 - j = (u + 1 - j) + 1
    BY <1>1, <1>6
  <2> QED
    BY <2>1, <2>2, <2>3
<1>12. \A j \in 1..(a + 1) : \/ j \in 1..a /\ q.inbox[j] = p.inbox[j]
                             \/ j = a + 1 /\ q.inbox[j] = f
  BY <1>1, <1>2, <1>3
<1>13. \A j \in 1..(a + 1) : q.inbox[j].id = Before(q.nextId, (a + 1) + 1 - j)
  <2>1. ASSUME NEW j \in 1..a, q.inbox[j] = p.inbox[j]
        PROVE  q.inbox[j].id = Before(q.nextId, (a + 1) + 1 - j)
    BY <2>1, <1>9, <1>10, <1>11
  <2>2. ASSUME NEW j, j = a + 1, q.inbox[j] = f
        PROVE  q.inbox[j].id = Before(q.nextId, (a + 1) + 1 - j)
    <3>1. (a + 1) + 1 - j = 1
      BY <2>2, <1>1
    <3>2. Before(q.nextId, 1) = p.nextId
      BY <1>1, <1>3, Constants DEF Before, NextId
    <3> QED
      BY <2>2, <3>1, <3>2
  <2> QED
    BY <2>1, <2>2, <1>12
<1>14. q.running # None => q.running.id = Before(q.nextId, (a + 1) + 1)
  BY <1>3, <1>9, <1>10, <1>11
<1>15. \A j \in 1..b : q.outbox[j].id = Before(q.nextId, Unread(q) + 1 - j)
  BY <1>3, <1>8, <1>9, <1>10, <1>11
<1>16. InOrder(q)
  <2>1. InOrderOf(q, a + 1, b)
    BY <1>13, <1>14, <1>15 DEF InOrderOf
  <2> QED
    BY <1>1, <1>7, <2>1, Ordered
<1>17. /\ \A j \in 1..a : p.inbox[j].id # p.nextId
       /\ p.running # None => p.running.id # p.nextId
       /\ \A j \in 1..b : p.outbox[j].id # p.nextId
  BY <1>9, <1>10, <1>11
<1>18. /\ \A j \in 1..Len(p.inbox) : p.inbox[j].id # p.nextId
       /\ \A j \in 1..Len(p.outbox) : p.outbox[j].id # p.nextId
       /\ \A j \in 1..Len(q.inbox) :
              \/ j \in 1..Len(p.inbox) /\ q.inbox[j] = p.inbox[j]
              \/ q.inbox[j] = f
  BY <1>1, <1>7, <1>12, <1>17
<1> QED
  BY <1>1, <1>3, <1>8, <1>16, <1>17, <1>18 DEF TakesToo, Unused

-----------------------------------------------------------------------------
\* The inductive invariant holds initially.

\* A host that was asked nothing.
LEMMA EmptyPipe ==
  ASSUME NEW p, p.inbox = <<>>, p.running = None, p.outbox = <<>>
  PROVE  InOrder(p) /\ Unread(p) = 0
<1>1. Len(p.inbox) = 0 /\ Len(p.outbox) = 0
  BY EmptySeq
<1>2. InOrderOf(p, 0, 0)
  BY DEF InOrderOf
<1> QED
  BY <1>1, <1>2, Ordered, Counted

LEMMA InitInv == Init => IInv
<1> SUFFICES ASSUME Init PROVE IInv
  OBVIOUS
<1>1. /\ \A k \in Key : slot[k].state = "vacant" /\ slot[k].host = None
      /\ \A c \in Call : /\ call[c].pc = "idle" /\ call[c].host = None /\ call[c].id = 0
                         /\ call[c].answer = "none"
      /\ \A h \in Host : host[h].lane = None /\ ~host[h].alive
  BY DEF Init, Vacant, Resting, Dead
<1>2. TypeOK
  <2>1. Resting \in Calls
    BY Constants DEF Resting, Calls, Pcs, CallAnswers
  <2>2. slot \in [Key -> Slots] /\ host \in [Host -> Hosts] /\ call \in [Call -> Calls]
    BY <2>1, Records DEF Init
  <2>3. activeHosts \in Int /\ faults \in 0..MaxFaults
    BY Constants DEF Init
  <2> QED
    BY <2>2, <2>3, Types
<1>3. CounterIsExact
  <2>1. {k \in Key : slot[k].state = "ready"} = {}
    BY <1>1
  <2> QED
    BY <2>1, FS_EmptySet DEF CounterIsExact, Init
<1>4. SlotIsMine /\ HostsAreTheirs /\ CallsAreConsistent /\ AnswersAreTrue
  BY <1>1 DEF SlotIsMine, HostsAreTheirs, SlotsHoldTheirs, CallsUseTheirs,
                   CallsAreConsistent, AnswersAreTrue
<1>5. LaneIsHeld /\ PipeIsOrdered /\ FramesAreOwn
  BY <1>1, Constants DEF LaneIsHeld, PipeIsOrdered, FramesAreOwn
<1> QED
  BY <1>2, <1>3, <1>4, <1>5 DEF IInv

-----------------------------------------------------------------------------
\* What whole groups of steps leave as it is.

Using == {"send", "receive"}

\* Whoever does not use a pipe neither takes a lane nor moves a frame; a host
\* may start or go as long as nobody uses it.
LEMMA PipesStay ==
  ASSUME IInv, faults \in Int, faults' \in Int, faults <= faults',
         \A d \in Call : \/ call'[d] = call[d]
                         \/ call[d].pc \notin Using /\ call'[d].pc \notin Using,
         \A h \in Host :
           \/ host'[h] = host[h]
           \/ /\ host'[h].lane = None /\ host'[h].inbox = <<>>
              /\ host'[h].running = None /\ host'[h].outbox = <<>>
              /\ \A d \in Call : call[d].pc \in Using => call[d].host # h
  PROVE  LaneIsHeld' /\ PipeIsOrdered' /\ FramesAreOwn'
<1>1. ASSUME NEW d \in Call, NEW h \in Host
      PROVE  (host[h].lane = d <=> call[d].pc \in Using /\ call[d].host = h)'
  <2>1. host[h].lane = d <=> call[d].pc \in Using /\ call[d].host = h
    BY DEF IInv, LaneIsHeld, Using
  <2>2. (call[d].pc \in Using /\ call[d].host = h)' <=> call[d].pc \in Using /\ call[d].host = h
    OBVIOUS
  <2> QED
    BY <2>1, <2>2, Constants
<1>2. LaneIsHeld'
  BY <1>1 DEF LaneIsHeld, Using
<1>3. ASSUME NEW h \in Host, host'[h].alive
      PROVE  /\ InOrder(host'[h])
             /\ \/ Unread(host'[h]) <= faults'
                \/ /\ Unread(host'[h]) <= faults' + 1
                   /\ \E c \in Call : host'[h].lane = c /\ call'[c].pc = "receive"
  <2>1. CASE host'[h] = host[h]
    <3>1. /\ InOrder(host[h])
          /\ \/ Unread(host[h]) <= faults
             \/ /\ Unread(host[h]) <= faults + 1
                /\ \E c \in Call : host[h].lane = c /\ call[c].pc = "receive"
      BY <1>3, <2>1 DEF IInv, PipeIsOrdered
    <3>2. \A c \in Call : call[c].pc = "receive" => call'[c].pc = "receive"
      BY DEF Using
    <3>3. Unread(host[h]) \in Int
      BY Queues, Counted, Types DEF IInv
    <3> QED
      BY <2>1, <3>1, <3>2, <3>3
  <2>2. CASE host'[h] # host[h]
    <3>1. InOrder(host'[h]) /\ Unread(host'[h]) = 0
      BY <2>2, EmptyPipe
    <3>2. faults \in Nat
      BY Types, Constants DEF IInv
    <3>3. Unread(host'[h]) <= faults'
      BY <3>1, <3>2
    <3> QED
      BY <3>1, <3>3
  <2> QED
    BY <2>1, <2>2
<1>4. PipeIsOrdered'
  BY <1>3 DEF PipeIsOrdered
<1>5. ASSUME NEW d \in Call, call'[d].pc = "receive"
      PROVE  OwnFrames(d, call'[d], host'[call'[d].host])
  <2>1. call'[d] = call[d] /\ call[d].pc = "receive"
    BY <1>5 DEF Using
  <2>2. call[d].host \in Host /\ OwnFrames(d, call[d], host[call[d].host])
    BY <2>1 DEF IInv, HostsAreTheirs, CallsUseTheirs, FramesAreOwn
  <2>3. host'[call[d].host] = host[call[d].host]
    BY <2>1, <2>2 DEF Using
  <2> QED
    BY <2>1, <2>2, <2>3
<1>6. FramesAreOwn'
  BY <1>5 DEF FramesAreOwn
<1> QED
  BY <1>2, <1>4, <1>6

\* The call that uses the pipe of a host leaves its lane, and with it what is
\* unread is there for a fault.
LEMMA LaneIsLeft ==
  ASSUME IInv, faults \in Int, faults' \in Int, faults <= faults',
         NEW c \in Call, call[c].pc \in Using, call'[c].pc \notin Using,
         \A d \in Call \ {c} : call'[d] = call[d],
         \A h \in Host \ {call[c].host} :
           \/ host'[h] = host[h]
           \/ host'[h] = Dead /\ \A d \in Call \ {c} : call[d].host # h,
         host'[call[c].host].lane = None,
         host'[call[c].host].alive => /\ InOrder(host'[call[c].host])
                                      /\ Unread(host'[call[c].host]) <= faults'
  PROVE  LaneIsHeld' /\ PipeIsOrdered' /\ FramesAreOwn'
<1> DEFINE g == call[c].host
<1>1. g \in Host /\ \A d \in Call : call[d].pc \in Using /\ call[d].host = g <=> d = c
  BY DEF IInv, HostsAreTheirs, CallsUseTheirs, LaneIsHeld, Using
<1>2. host'[g].lane = None /\ (host'[g].alive => InOrder(host'[g]) /\ Unread(host'[g]) <= faults')
  OBVIOUS
<1>3. \A h \in Host \ {g} :
        \/ host'[h] = host[h]
        \/ host'[h] = Dead /\ \A d \in Call \ {c} : call[d].host # h
  OBVIOUS
<1>4. Dead.lane = None /\ ~Dead.alive
  BY DEF Dead
<1> HIDE DEF g
<1>5. ASSUME NEW d \in Call, NEW h \in Host
      PROVE  (host[h].lane = d <=> call[d].pc \in Using /\ call[d].host = h)'
  <2>1. host[h].lane = d <=> call[d].pc \in Using /\ call[d].host = h
    BY DEF IInv, LaneIsHeld, Using
  <2>2. CASE h = g
    BY <2>2, <1>1, <1>2, Constants
  <2>3. CASE h # g /\ d = c
    BY <2>1, <2>3, <1>1, <1>3, <1>4, Constants
  <2>4. CASE h # g /\ d # c
    BY <2>1, <2>4, <1>3, <1>4, Constants
  <2> QED
    BY <2>2, <2>3, <2>4
<1>6. LaneIsHeld'
  BY <1>5 DEF LaneIsHeld, Using
<1>7. ASSUME NEW h \in Host, host'[h].alive
      PROVE  /\ InOrder(host'[h])
             /\ \/ Unread(host'[h]) <= faults'
                \/ /\ Unread(host'[h]) <= faults' + 1
                   /\ \E d \in Call : host'[h].lane = d /\ call'[d].pc = "receive"
  <2>1. CASE h = g
    BY <1>2, <1>7, <2>1
  <2>2. CASE h # g
    <3>1. host'[h] = host[h]
      BY <2>2, <1>3, <1>4, <1>7
    <3>2. /\ InOrder(host[h])
          /\ \/ Unread(host[h]) <= faults
             \/ /\ Unread(host[h]) <= faults + 1
                /\ \E d \in Call : host[h].lane = d /\ call[d].pc = "receive"
      BY <1>7, <3>1 DEF IInv, PipeIsOrdered
    <3>3. \A d \in Call : host[h].lane = d => d # c
      BY <2>2, <1>1 DEF IInv, LaneIsHeld, g
    <3>4. Unread(host[h]) \in Int
      BY Queues, Counted, Types DEF IInv
    <3> QED
      BY <3>1, <3>2, <3>3, <3>4
  <2> QED
    BY <2>1, <2>2
<1>8. PipeIsOrdered'
  BY <1>7 DEF PipeIsOrdered
<1>9. ASSUME NEW d \in Call, call'[d].pc = "receive"
      PROVE  OwnFrames(d, call'[d], host'[call'[d].host])
  <2>1. d # c /\ call'[d] = call[d] /\ call[d].pc = "receive"
    BY <1>9 DEF Using
  <2>2. /\ call[d].host \in Host /\ call[d].host # g
        /\ OwnFrames(d, call[d], host[call[d].host])
    BY <2>1, <1>1 DEF IInv, HostsAreTheirs, CallsUseTheirs, FramesAreOwn, Using
  <2>3. host'[call[d].host] = host[call[d].host]
    BY <2>1, <2>2, <1>3
  <2> QED
    BY <2>1, <2>2, <2>3
<1>10. FramesAreOwn'
  BY <1>9 DEF FramesAreOwn
<1> QED
  BY <1>6, <1>8, <1>10

\* The slots stay while nobody begins to start a host.
LEMMA SlotsStay ==
  ASSUME IInv, UNCHANGED <<slot, activeHosts>>,
         \A d \in Call : call'[d].pc = "spawning" => call'[d] = call[d]
  PROVE  SlotIsMine' /\ CounterIsExact'
<1>1. CounterIsExact'
  BY DEF IInv, CounterIsExact
<1>2. SlotIsMine'
  BY DEF IInv, SlotIsMine, Starting
<1> QED
  BY <1>1, <1>2

-----------------------------------------------------------------------------
\* The steps, one by one.

\* What a call is left with when it is over.
LEMMA Ends ==
  ASSUME call \in [Call -> Calls], NEW c \in Call, NEW a \in CallAnswers, End(c, a)
  PROVE  /\ call' \in [Call -> Calls] /\ \A d \in Call \ {c} : call'[d] = call[d]
         /\ call'[c].pc = "idle" /\ call'[c].host = None /\ call'[c].id = 0
         /\ call'[c].answer = a /\ (call'[c].entered <=> call[c].entered)
<1>1. PICK e : e = call[c].entered
  OBVIOUS
<1>2. e \in BOOLEAN
  BY <1>1 DEF Calls
<1>3. PICK r : r = [Resting EXCEPT !.answer = a, !.entered = e]
  OBVIOUS
<1>4. r.pc = "idle" /\ r.host = None /\ r.id = 0 /\ r.answer = a
  BY <1>3 DEF Resting
<1>5. r.entered = e
  BY <1>2, <1>3 DEF Resting
<1>6. r \in Calls
  BY <1>2, <1>3, Records
<1>7. call' = [call EXCEPT ![c] = r]
  BY <1>1, <1>3 DEF End
<1> QED
  BY <1>1, <1>2, <1>4, <1>5, <1>6, <1>7

\* What a step of a call that goes on leaves of it.
LEMMA Moved ==
  ASSUME NEW r \in Calls, NEW at \in Pcs, NEW q, q = [r EXCEPT !.pc = at]
  PROVE  /\ q \in Calls /\ q.pc = at /\ q.key = r.key /\ q.host = r.host /\ q.id = r.id
         /\ q.entered = r.entered /\ q.answer = r.answer
  BY DEF Calls

\* The slot of a call that starts a host is not ready.
LEMMA StartsAreMine ==
  ASSUME IInv, NEW c \in Call, call[c].pc = "spawning"
  PROVE  /\ call[c].key \in Key /\ slot[call[c].key].state # "ready"
         /\ \A d \in Call \ {c} : call[d].pc = "spawning" => call[d].key # call[c].key
<1>1. /\ slot[call[c].key] = Starting(c) /\ call[c].key \in Key
      /\ \A d \in Call : call[d].pc = "spawning" => slot[call[d].key] = Starting(d)
  BY DEF IInv, SlotIsMine, HostsAreTheirs, CallsUseTheirs
<1>2. \A d \in Call : Starting(d).lock = d /\ Starting(d).state = "vacant"
  BY DEF Starting, Vacant
<1> QED
  BY <1>1, <1>2

\* The hosts that are referred to have a key.
LEMMA Referred ==
  ASSUME IInv
  PROVE  /\ \A k \in Key : slot[k].state = "ready" => /\ slot[k].host \in Host
                                                      /\ host[slot[k].host] # Dead
         /\ \A c \in Call : call[c].host # None => /\ call[c].host \in Host
                                                   /\ host[call[c].host] # Dead
<1>1. Dead.key \notin Key
  BY Constants DEF Dead
<1> QED
  BY <1>1 DEF IInv, HostsAreTheirs, SlotsHoldTheirs, CallsUseTheirs

\* A call that ends leaves the others as they are.
LEMMA CallIsOver ==
  ASSUME IInv, NEW c \in Call, NEW a \in CallAnswers, End(c, a),
         a = "notExecuted" => ~call[c].entered,
         a = "completed" => call[c].entered,
         \A d \in Call \ {c} : call[d].host \in Host =>
           /\ host'[call[d].host].key = host[call[d].host].key
           /\ host[call[d].host].faulty => host'[call[d].host].faulty
  PROVE  CallsUseTheirs' /\ CallsAreConsistent' /\ AnswersAreTrue'
<1>1. /\ \A d \in Call \ {c} : call'[d] = call[d]
      /\ call'[c].pc = "idle" /\ call'[c].host = None /\ call'[c].id = 0
      /\ call'[c].answer = a /\ (call'[c].entered <=> call[c].entered)
  BY Types, Ends DEF IInv
<1>2. CallsUseTheirs'
  BY <1>1 DEF IInv, HostsAreTheirs, CallsUseTheirs
<1>3. CallsAreConsistent'
  BY <1>1 DEF IInv, HostsAreTheirs, CallsUseTheirs, CallsAreConsistent
<1>4. AnswersAreTrue'
  <2>1. ASSUME NEW d \in Call
        PROVE  /\ call'[d].answer = "notExecuted" => ~call'[d].entered
               /\ call'[d].answer = "completed" => call'[d].entered
    <3>1. CASE d = c
      BY <3>1, <1>1
    <3>2. CASE d # c
      BY <3>2, <1>1 DEF IInv, AnswersAreTrue
    <3> QED
      BY <3>1, <3>2
  <2> QED
    BY <2>1 DEF AnswersAreTrue
<1> QED
  BY <1>2, <1>3, <1>4

Ready == {k \in Key : slot[k].state = "ready"}

\* A slot becomes ready, or is no longer.
LEMMA ReadyCount ==
  ASSUME IInv
  PROVE  /\ IsFiniteSet(Ready) /\ Cardinality(Ready) \in Nat
         /\ activeHosts = Cardinality(Ready)
         /\ \A k \in Ready : Cardinality(Ready) > 0
<1>1. IsFiniteSet(Ready)
  BY Constants, FS_Subset DEF Ready
<1>2. Cardinality(Ready) \in Nat
  BY <1>1, FS_CardinalityType
<1>3. \A k \in Ready : Cardinality(Ready) > 0
  BY <1>1, <1>2, FS_EmptySet
<1> QED
  BY <1>1, <1>2, <1>3 DEF IInv, CounterIsExact, Ready

LEMMA OneMoreReady ==
  ASSUME IInv, NEW k \in Key, slot[k].state # "ready", slot'[k].state = "ready",
         \A j \in Key \ {k} : slot'[j] = slot[j], activeHosts' = activeHosts + 1
  PROVE  CounterIsExact'
<1>1. Ready' = Ready \cup {k} /\ k \notin Ready
  BY DEF Ready
<1>2. Cardinality(Ready') = Cardinality(Ready) + 1
  BY <1>1, ReadyCount, FS_AddElement
<1> QED
  BY <1>2, ReadyCount DEF CounterIsExact, Ready

LEMMA OneLessReady ==
  ASSUME IInv, NEW k \in Key, slot[k].state = "ready", slot'[k].state # "ready",
         \A j \in Key \ {k} : slot'[j] = slot[j]
  PROVE  Cardinality(Ready') = Cardinality(Ready) - 1
<1>1. Ready' = Ready \ {k} /\ k \in Ready
  BY DEF Ready
<1> QED
  BY <1>1, ReadyCount, FS_RemoveElement

LEMMA SameReady ==
  ASSUME IInv, \A j \in Key : slot'[j].state = "ready" <=> slot[j].state = "ready",
         activeHosts' = activeHosts
  PROVE  CounterIsExact'
<1>1. Ready' = Ready
  BY DEF Ready
<1> QED
  BY <1>1 DEF IInv, CounterIsExact, Ready

LEMMA BeginStep ==
  ASSUME IInv, NEW c \in Call, NEW k \in Key, NEW force \in BOOLEAN, Begin(c, k, force)
  PROVE  IInv'
<1> DEFINE r == [Resting EXCEPT !.pc = "slot", !.key = k, !.force = force]
<1>1. /\ call[c].pc = "idle" /\ call' = [call EXCEPT ![c] = r]
      /\ UNCHANGED <<slot, host, activeHosts, faults>>
  BY DEF Begin
<1>2. /\ slot \in [Key -> Slots] /\ host \in [Host -> Hosts] /\ call \in [Call -> Calls]
      /\ activeHosts \in Int /\ faults \in 0..MaxFaults
  BY Types DEF IInv
<1>3. /\ r.pc = "slot" /\ r.key = k /\ r.host = None /\ r.id = 0 /\ r.entered = FALSE
      /\ r.answer = "none" /\ r \in Calls
  <2>1. 0 \in 0..(IdSpace - 1)
    BY Constants
  <2>2. Resting \in Calls
    BY <2>1 DEF Resting, Calls, Pcs, CallAnswers
  <2>3. r \in Calls
    BY <2>2 DEF Calls, Pcs
  <2> QED
    BY <2>3 DEF Resting
<1>4. call'[c] = r /\ \A d \in Call \ {c} : call'[d] = call[d]
  BY <1>1, <1>2
<1> HIDE DEF r
<1>5. TypeOK'
  <2>1. call' \in [Call -> Calls]
    BY <1>1, <1>2, <1>3
  <2> QED
    BY <1>1, <1>2, <2>1, TypesAfter
<1>6. SlotIsMine' /\ CounterIsExact'
  BY <1>1, <1>3, <1>4, SlotsStay
<1>7. HostsAreTheirs'
  BY <1>1, <1>3, <1>4 DEF IInv, HostsAreTheirs, SlotsHoldTheirs, CallsUseTheirs
<1>8. CallsAreConsistent' /\ AnswersAreTrue'
  BY <1>1, <1>3, <1>4 DEF IInv, CallsAreConsistent, AnswersAreTrue
<1>9. LaneIsHeld' /\ PipeIsOrdered' /\ FramesAreOwn'
  <2>1. \A d \in Call : \/ call'[d] = call[d]
                        \/ call[d].pc \notin Using /\ call'[d].pc \notin Using
    BY <1>1, <1>3, <1>4 DEF Using
  <2> QED
    BY <1>1, <1>2, <2>1, PipesStay
<1> QED
  BY <1>5, <1>6, <1>7, <1>8, <1>9 DEF IInv

LEMMA AcquireSlotStep ==
  ASSUME IInv, NEW c \in Call, AcquireSlot(c)
  PROVE  IInv'
<1> DEFINE k == call[c].key
           s == slot[call[c].key]
<1>1. /\ call[c].pc = "slot" /\ slot[k].lock = None /\ k \in Key /\ s = slot[k]
      /\ UNCHANGED <<host, activeHosts, faults>>
  BY DEF AcquireSlot, IInv, HostsAreTheirs, CallsUseTheirs
<1>2. /\ slot \in [Key -> Slots] /\ host \in [Host -> Hosts] /\ call \in [Call -> Calls]
      /\ activeHosts \in Int /\ faults \in 0..MaxFaults
  BY Types DEF IInv
<1>3. \/ UNCHANGED slot /\ \E a \in CallAnswers : a # "completed" /\ End(c, a)
      \/ /\ UNCHANGED slot /\ s.state = "ready"
         /\ call' = [call EXCEPT ![c] = [call[c] EXCEPT !.pc = "lane", !.host = s.host]]
      \/ /\ s.state # "ready" /\ slot' = [slot EXCEPT ![k] = Starting(c)]
         /\ call' = [call EXCEPT ![c].pc = "spawning"]
  BY DEF AcquireSlot, UseHost, CallAnswers
<1>4. /\ call[c].id = 0 /\ ~call[c].entered /\ call[c].answer = "none"
      /\ call[c].host = None /\ call[c].entered \in BOOLEAN /\ call[c] \in Calls
  BY <1>1, <1>2 DEF IInv, CallsAreConsistent, HostsAreTheirs, CallsUseTheirs, Calls
<1>5. /\ \A d \in Call \ {c} : call'[d] = call[d]
      /\ call' \in [Call -> Calls] /\ slot' \in [Key -> Slots]
      /\ \A j \in Key \ {k} : slot'[j] = slot[j]
      /\ call'[c].id = 0 /\ ~call'[c].entered
      /\ \/ /\ slot' = slot /\ call'[c].pc = "idle" /\ call'[c].host = None
            /\ call'[c].answer # "completed"
         \/ /\ slot' = slot /\ call'[c].pc = "lane" /\ s.state = "ready"
            /\ call'[c].host = s.host /\ call'[c].key = k /\ call'[c].answer = "none"
         \/ /\ s.state # "ready" /\ slot'[k] = Starting(c) /\ call'[c].pc = "spawning"
            /\ call'[c].host = None /\ call'[c].key = k /\ call'[c].answer = "none"
  <2>1. ASSUME NEW a \in CallAnswers, a # "completed", End(c, a)
        PROVE  /\ \A d \in Call \ {c} : call'[d] = call[d]
               /\ call' \in [Call -> Calls]
               /\ call'[c].id = 0 /\ ~call'[c].entered
               /\ call'[c].pc = "idle" /\ call'[c].host = None
               /\ call'[c].answer # "completed"
    BY <2>1, <1>2, <1>4, Ends
  <2>2. ASSUME s.state = "ready",
               call' = [call EXCEPT ![c] = [call[c] EXCEPT !.pc = "lane", !.host = s.host]]
        PROVE  /\ \A d \in Call \ {c} : call'[d] = call[d]
               /\ call' \in [Call -> Calls]
               /\ call'[c].id = 0 /\ ~call'[c].entered
               /\ call'[c].pc = "lane" /\ call'[c].host = s.host
               /\ call'[c].key = k /\ call'[c].answer = "none"
    <3>1. PICK r : r = [call[c] EXCEPT !.pc = "lane", !.host = s.host]
      OBVIOUS
    <3>2. s.host \in Host \cup {None}
      BY <1>1, <1>2 DEF Slots
    <3>3. /\ r \in Calls /\ r.pc = "lane" /\ r.key = k /\ r.host = s.host /\ r.id = 0
          /\ r.entered = call[c].entered /\ r.answer = "none"
      BY <1>4, <3>1, <3>2 DEF Calls, Pcs
    <3> QED
      BY <2>2, <3>1, <3>3, <1>2, <1>4
  <2>3. ASSUME slot' = [slot EXCEPT ![k] = Starting(c)],
               call' = [call EXCEPT ![c].pc = "spawning"]
        PROVE  /\ \A d \in Call \ {c} : call'[d] = call[d]
               /\ call' \in [Call -> Calls] /\ slot' \in [Key -> Slots]
               /\ \A j \in Key \ {k} : slot'[j] = slot[j]
               /\ call'[c].id = 0 /\ ~call'[c].entered
               /\ slot'[k] = Starting(c) /\ call'[c].pc = "spawning"
               /\ call'[c].host = None /\ call'[c].key = k /\ call'[c].answer = "none"
    <3>1. /\ slot' \in [Key -> Slots] /\ slot'[k] = Starting(c)
          /\ \A j \in Key \ {k} : slot'[j] = slot[j]
      BY <2>3, <1>1, <1>2, Records
    <3>2. PICK r : r = [call[c] EXCEPT !.pc = "spawning"]
      OBVIOUS
    <3>3. /\ r \in Calls /\ r.pc = "spawning" /\ r.key = k /\ r.host = None /\ r.id = 0
          /\ r.entered = call[c].entered /\ r.answer = "none"
      BY <1>4, <3>2, Moved DEF Pcs
    <3> QED
      BY <3>1, <3>2, <3>3, <2>3, <1>2, <1>4
  <2> QED
    BY <1>2, <1>3, <2>1, <2>2, <2>3
<1> HIDE DEF k, s
<1>6. TypeOK'
  BY <1>1, <1>2, <1>5, TypesAfter
<1>7. Starting(c).state = "vacant" /\ Starting(c).host = None /\ Starting(c).lock = c
  BY DEF Starting, Vacant
<1>8. SlotIsMine'
  <2>1. ASSUME NEW d \in Call, call'[d].pc = "spawning"
        PROVE  slot'[call'[d].key] = Starting(d)
    <3>1. CASE d = c
      BY <2>1, <3>1, <1>5
    <3>2. CASE d # c
      <4>1. /\ call'[d] = call[d] /\ slot[call[d].key] = Starting(d)
            /\ call[d].key \in Key
        BY <2>1, <3>2, <1>5 DEF IInv, SlotIsMine, HostsAreTheirs, CallsUseTheirs
      <4>2. Starting(d).lock = d
        BY DEF Starting, Vacant
      <4>3. call[d].key # k
        BY <4>1, <4>2, <1>1, Constants
      <4> QED
        BY <4>1, <4>3, <1>5
    <3> QED
      BY <3>1, <3>2
  <2> QED
    BY <2>1 DEF SlotIsMine, Starting
<1>9. CounterIsExact'
  <2>1. \A j \in Key : slot'[j].state = "ready" <=> slot[j].state = "ready"
    BY <1>1, <1>5, <1>7
  <2>2. {j \in Key : slot'[j].state = "ready"} = {j \in Key : slot[j].state = "ready"}
    BY <2>1
  <2> QED
    BY <2>2, <1>1 DEF IInv, CounterIsExact
<1>10. HostsAreTheirs'
  <2>1. ASSUME NEW j \in Key
        PROVE  IF slot'[j].state = "ready"
               THEN slot'[j].host \in Host /\ host'[slot'[j].host].key = j
               ELSE slot'[j].host = None
    BY <1>1, <1>5, <1>7 DEF IInv, HostsAreTheirs, SlotsHoldTheirs, CallsUseTheirs
  <2>2. ASSUME NEW d \in Call
        PROVE  /\ call'[d].pc # "idle" => call'[d].key \in Key
               /\ IF call'[d].pc \in {"lane", "send", "receive", "evict"}
                  THEN call'[d].host \in Host /\ host'[call'[d].host].key = call'[d].key
                  ELSE call'[d].host = None
    BY <1>1, <1>5 DEF IInv, HostsAreTheirs, SlotsHoldTheirs, CallsUseTheirs
  <2> QED
    BY <2>1, <2>2 DEF HostsAreTheirs, SlotsHoldTheirs, CallsUseTheirs
<1>11. CallsAreConsistent' /\ AnswersAreTrue'
  <2>1. CallsAreConsistent'
    BY <1>1, <1>5 DEF IInv, CallsAreConsistent
  <2>2. call'[c].answer # "completed"
    BY <1>5
  <2> QED
    BY <2>1, <1>1, <1>5 DEF IInv, AnswersAreTrue
<1>12. LaneIsHeld' /\ PipeIsOrdered' /\ FramesAreOwn'
  <2>1. \A d \in Call : \/ call'[d] = call[d]
                        \/ call[d].pc \notin Using /\ call'[d].pc \notin Using
    BY <1>1, <1>5 DEF Using
  <2> QED
    BY <1>1, <1>2, <2>1, PipesStay
<1> QED
  BY <1>6, <1>8, <1>9, <1>10, <1>11, <1>12 DEF IInv

\* The start of a host ends: its slot is open again.
LEMMA SpawnFailsStep ==
  ASSUME IInv, NEW c \in Call, SpawnFails(c)
  PROVE  IInv'
<1> DEFINE k == call[c].key
<1>1. /\ call[c].pc = "spawning" /\ slot' = [slot EXCEPT ![k] = Cooling]
      /\ End(c, "notExecuted") /\ UNCHANGED <<host, activeHosts>>
      /\ faults < MaxFaults /\ faults' = faults + 1
  BY DEF SpawnFails, Fault
<1>2. /\ slot \in [Key -> Slots] /\ host \in [Host -> Hosts] /\ call \in [Call -> Calls]
      /\ activeHosts \in Int /\ faults \in 0..MaxFaults
  BY Types DEF IInv
<1>3. /\ k \in Key /\ slot[k].state # "ready"
      /\ \A d \in Call \ {c} : call[d].pc = "spawning" => call[d].key # k
  BY <1>1, StartsAreMine
<1>4. /\ call' \in [Call -> Calls] /\ \A d \in Call \ {c} : call'[d] = call[d]
      /\ call'[c].pc = "idle"
  BY <1>1, <1>2, Ends DEF CallAnswers
<1>5. Cooling.state = "failed" /\ Cooling.host = None
  BY DEF Cooling, Vacant
<1>6. /\ slot' \in [Key -> Slots] /\ slot'[k] = Cooling
      /\ \A j \in Key \ {k} : slot'[j] = slot[j]
  BY <1>1, <1>2, <1>3, Records
<1> HIDE DEF k
<1>7. TypeOK'
  BY <1>1, <1>2, <1>4, <1>6, Constants, TypesAfter
<1>8. SlotIsMine'
  <2>1. \A d \in Call : call'[d].pc = "spawning" =>
          call'[d] = call[d] /\ call[d].key \in Key \ {k}
    BY <1>3, <1>4 DEF IInv, HostsAreTheirs, CallsUseTheirs
  <2> QED
    BY <2>1, <1>6 DEF IInv, SlotIsMine, Starting
<1>9. CounterIsExact'
  BY <1>1, <1>3, <1>5, <1>6, SameReady
<1>10. SlotsHoldTheirs'
  BY <1>1, <1>5, <1>6 DEF IInv, HostsAreTheirs, SlotsHoldTheirs
<1>11. CallsUseTheirs' /\ CallsAreConsistent' /\ AnswersAreTrue'
  BY <1>1, CallIsOver DEF IInv, CallsAreConsistent, CallAnswers
<1>12. LaneIsHeld' /\ PipeIsOrdered' /\ FramesAreOwn'
  <2>1. \A d \in Call : \/ call'[d] = call[d]
                        \/ call[d].pc \notin Using /\ call'[d].pc \notin Using
    BY <1>1, <1>4 DEF Using
  <2> QED
    BY <1>1, <1>2, <2>1, PipesStay
<1> QED
  BY <1>7, <1>8, <1>9, <1>10, <1>11, <1>12 DEF IInv, HostsAreTheirs

\* The process that was just started.
Fresh(k) == [Dead EXCEPT !.key = k, !.alive = TRUE, !.nextId = 2]

LEMMA SpawnSucceedsStep ==
  ASSUME IInv, NEW c \in Call, SpawnSucceeds(c)
  PROVE  IInv'
<1> DEFINE k == call[c].key
<1>1. PICK h \in Host :
        /\ call[c].pc = "spawning" /\ host[h] = Dead
        /\ host' = [host EXCEPT ![h] = Fresh(k)]
        /\ slot' = [slot EXCEPT ![k] = [Vacant EXCEPT !.state = "ready", !.host = h]]
        /\ UseHost(c, h) /\ activeHosts' = activeHosts + 1 /\ faults' = faults
  BY DEF SpawnSucceeds, Fresh
<1>2. /\ slot \in [Key -> Slots] /\ host \in [Host -> Hosts] /\ call \in [Call -> Calls]
      /\ activeHosts \in Int /\ faults \in 0..MaxFaults
  BY Types DEF IInv
<1>3. /\ k \in Key /\ slot[k].state # "ready"
      /\ \A d \in Call \ {c} : call[d].pc = "spawning" => call[d].key # k
  BY <1>1, StartsAreMine
<1>4. /\ call[c].id = 0 /\ ~call[c].entered /\ call[c].answer = "none"
      /\ call[c].host = None /\ call[c] \in Calls
  BY <1>1, <1>2 DEF IInv, CallsAreConsistent, HostsAreTheirs, CallsUseTheirs
<1>5. /\ \A d \in Call \ {c} : call'[d] = call[d]
      /\ call' \in [Call -> Calls] /\ call'[c].id = 0 /\ ~call'[c].entered
      /\ \/ call'[c].pc = "idle" /\ call'[c].host = None /\ call'[c].answer = "ready"
         \/ /\ call'[c].pc = "lane" /\ call'[c].host = h /\ call'[c].key = k
            /\ call'[c].answer = "none"
  <2>1. CASE call[c].force
    BY <1>1, <1>2, <1>4, <2>1, Ends DEF UseHost, CallAnswers
  <2>2. CASE ~call[c].force
    <3>1. PICK r : r = [call[c] EXCEPT !.pc = "lane", !.host = h]
      OBVIOUS
    <3>2. /\ r \in Calls /\ r.pc = "lane" /\ r.key = k /\ r.host = h /\ r.id = 0
          /\ r.entered = call[c].entered /\ r.answer = "none"
      BY <1>4, <3>1 DEF Calls, Pcs
    <3>3. call' = [call EXCEPT ![c] = r]
      BY <1>1, <2>2, <3>1 DEF UseHost
    <3> QED
      BY <3>2, <3>3, <1>2, <1>4
  <2> QED
    BY <2>1, <2>2
<1>6. PICK s : s = [Vacant EXCEPT !.state = "ready", !.host = h]
  OBVIOUS
<1>7. s \in Slots /\ s.state = "ready" /\ s.host = h
  BY <1>6, Records DEF Slots
<1>8. /\ slot' \in [Key -> Slots] /\ slot'[k] = s
      /\ \A j \in Key \ {k} : slot'[j] = slot[j]
  BY <1>1, <1>2, <1>3, <1>6, <1>7
<1>9. /\ Fresh(k) \in Hosts /\ Fresh(k).key = k /\ Fresh(k).lane = None
      /\ Fresh(k).inbox = <<>> /\ Fresh(k).running = None /\ Fresh(k).outbox = <<>>
  <2>1. 2 \in 1..(IdSpace - 1)
    BY Constants
  <2> QED
    BY <1>3, <2>1, Records DEF Fresh, Dead, Hosts
<1>10. /\ host' \in [Host -> Hosts] /\ host'[h] = Fresh(k)
       /\ \A g \in Host \ {h} : host'[g] = host[g]
  BY <1>1, <1>2, <1>9
<1>11. /\ \A j \in Key : slot[j].state = "ready" => slot[j].host \in Host \ {h}
       /\ \A d \in Call : call[d].host # h
  BY <1>1, Referred, Constants
<1> HIDE DEF k
<1>12. TypeOK'
  BY <1>1, <1>2, <1>5, <1>8, <1>10, TypesAfter
<1>13. SlotIsMine'
  <2>1. \A d \in Call : call'[d].pc = "spawning" =>
          call'[d] = call[d] /\ call[d].key \in Key \ {k}
    BY <1>3, <1>5 DEF IInv, HostsAreTheirs, CallsUseTheirs
  <2> QED
    BY <2>1, <1>8 DEF IInv, SlotIsMine, Starting
<1>14. CounterIsExact'
  BY <1>1, <1>3, <1>7, <1>8, OneMoreReady
<1>15. SlotsHoldTheirs'
  BY <1>7, <1>8, <1>9, <1>10, <1>11 DEF IInv, HostsAreTheirs, SlotsHoldTheirs
<1>16. CallsUseTheirs'
  <2>1. ASSUME NEW d \in Call
        PROVE  /\ call'[d].pc # "idle" => call'[d].key \in Key
               /\ IF call'[d].pc \in {"lane", "send", "receive", "evict"}
                  THEN call'[d].host \in Host /\ host'[call'[d].host].key = call'[d].key
                  ELSE call'[d].host = None
    <3>1. CASE d = c
      BY <3>1, <1>3, <1>5, <1>9, <1>10
    <3>2. CASE d # c
      BY <3>2, <1>5, <1>10, <1>11 DEF IInv, HostsAreTheirs, CallsUseTheirs
    <3> QED
      BY <3>1, <3>2
  <2> QED
    BY <2>1 DEF CallsUseTheirs
<1>17. CallsAreConsistent' /\ AnswersAreTrue'
  <2>1. ASSUME NEW d \in Call
        PROVE  /\ call'[d].pc \notin {"receive", "evict"} => call'[d].id = 0
               /\ call'[d].pc \in {"slot", "spawning", "lane", "send"} => ~call'[d].entered
               /\ call'[d].pc # "idle" => call'[d].answer = "none"
               /\ call'[d].pc = "evict" => host'[call'[d].host].faulty
               /\ call'[d].answer = "notExecuted" => ~call'[d].entered
               /\ call'[d].answer = "completed" => call'[d].entered
    <3>1. CASE d = c
      BY <3>1, <1>5
    <3>2. CASE d # c
      BY <3>2, <1>5, <1>10, <1>11
      DEF IInv, CallsAreConsistent, AnswersAreTrue, HostsAreTheirs, CallsUseTheirs
    <3> QED
      BY <3>1, <3>2
  <2> QED
    BY <2>1 DEF CallsAreConsistent, AnswersAreTrue
<1>18. LaneIsHeld' /\ PipeIsOrdered' /\ FramesAreOwn'
  <2>1. \A d \in Call : \/ call'[d] = call[d]
                        \/ call[d].pc \notin Using /\ call'[d].pc \notin Using
    BY <1>1, <1>5 DEF Using
  <2>2. \A g \in Host :
          \/ host'[g] = host[g]
          \/ /\ host'[g].lane = None /\ host'[g].inbox = <<>>
             /\ host'[g].running = None /\ host'[g].outbox = <<>>
             /\ \A d \in Call : call[d].pc \in Using => call[d].host # g
    BY <1>9, <1>10, <1>11
  <2> QED
    BY <1>1, <1>2, <2>1, <2>2, PipesStay
<1> QED
  BY <1>12, <1>13, <1>14, <1>15, <1>16, <1>17, <1>18 DEF IInv, HostsAreTheirs

\* A backoff is over.
LEMMA BackoffEndsStep ==
  ASSUME IInv, NEW k \in Key, BackoffEnds(k)
  PROVE  IInv'
<1>1. /\ slot[k].state = "failed" /\ slot' = [slot EXCEPT ![k].cooling = FALSE]
      /\ UNCHANGED <<host, call, activeHosts, faults>>
  BY DEF BackoffEnds
<1>2. /\ slot \in [Key -> Slots] /\ host \in [Host -> Hosts] /\ call \in [Call -> Calls]
      /\ activeHosts \in Int /\ faults \in 0..MaxFaults
  BY Types DEF IInv
<1>3. PICK s : s = [slot[k] EXCEPT !.cooling = FALSE]
  OBVIOUS
<1>4. s \in Slots /\ s.state = "failed" /\ s.host = slot[k].host
  BY <1>1, <1>2, <1>3 DEF Slots
<1>5. /\ slot' \in [Key -> Slots] /\ slot'[k] = s
      /\ \A j \in Key \ {k} : slot'[j] = slot[j]
  BY <1>1, <1>2, <1>3, <1>4
<1>6. TypeOK'
  BY <1>1, <1>2, <1>5, TypesAfter
<1>7. SlotIsMine'
  <2>1. \A d \in Call : Starting(d).state = "vacant"
    BY DEF Starting, Vacant
  <2>2. \A d \in Call : call[d].pc = "spawning" => call[d].key \in Key \ {k}
    BY <1>1, <2>1 DEF IInv, SlotIsMine, HostsAreTheirs, CallsUseTheirs
  <2> QED
    BY <1>1, <1>5, <2>2 DEF IInv, SlotIsMine, Starting
<1>8. CounterIsExact'
  BY <1>1, <1>4, <1>5, SameReady
<1>9. HostsAreTheirs'
  BY <1>1, <1>4, <1>5 DEF IInv, HostsAreTheirs, SlotsHoldTheirs, CallsUseTheirs
<1>10. CallsAreConsistent' /\ AnswersAreTrue'
  BY <1>1 DEF IInv, CallsAreConsistent, AnswersAreTrue
<1>11. LaneIsHeld' /\ PipeIsOrdered' /\ FramesAreOwn'
  BY <1>1, <1>2, PipesStay
<1> QED
  BY <1>6, <1>7, <1>8, <1>9, <1>10, <1>11 DEF IInv

\* The hosts of one key or of all are stopped while no call of them is inside;
\* the calls of other keys, their slots and their hosts stay as they are.
LEMMA StopStep ==
  ASSUME IInv, NEW keys \in SUBSET Key, keys = Key \/ (\E k \in Key : keys = {k}), Stop(keys)
  PROVE  IInv'
<1>1. /\ \A c \in Call : call[c].key \notin keys
      /\ {k \in keys : slot[k].state = "ready"} # {}
      /\ slot' = [k \in Key |-> IF k \in keys THEN Vacant ELSE slot[k]]
      /\ host' = Kept(host, slot', call)
      /\ activeHosts' = IF keys = Key THEN 0
                        ELSE activeHosts - Cardinality({k \in keys : slot[k].state = "ready"})
      /\ UNCHANGED <<call, faults>>
  BY DEF Stop
<1>2. /\ slot \in [Key -> Slots] /\ host \in [Host -> Hosts] /\ call \in [Call -> Calls]
      /\ activeHosts \in Int /\ faults \in 0..MaxFaults
  BY Types DEF IInv
<1>3. Vacant.state = "vacant" /\ Vacant.host = None
  BY DEF Vacant
<1>4. /\ slot' \in [Key -> Slots] /\ \A k \in keys : slot'[k] = Vacant
      /\ \A k \in Key \ keys : slot'[k] = slot[k]
  BY <1>1, <1>2, Records
<1>5. /\ \A h \in Host : host'[h] = host[h] \/ host'[h] = Dead
      /\ \A h \in Host : (\E k \in Key : slot'[k].host = h) => host'[h] = host[h]
      /\ \A h \in Host : (\E c \in Call : call[c].host = h) => host'[h] = host[h]
      /\ host' \in [Host -> Hosts]
  BY <1>1, <1>2, KeptHosts
<1>6. CounterIsExact' /\ activeHosts' \in Int
  <2>1. CASE keys = Key
    <3>1. {k \in Key : slot'[k].state = "ready"} = {}
      BY <1>3, <1>4, <2>1
    <3>2. activeHosts' = 0
      BY <1>1, <2>1
    <3> QED
      BY <3>1, <3>2, FS_EmptySet DEF CounterIsExact
  <2>2. CASE keys # Key
    <3>1. PICK k \in Key : keys = {k}
      BY <2>2
    <3>2. slot[k].state = "ready" /\ {j \in keys : slot[j].state = "ready"} = {k}
      BY <1>1, <3>1
    <3>3. activeHosts' = activeHosts - 1
      BY <1>1, <2>2, <3>2, FS_Singleton
    <3>4. Cardinality(Ready') = Cardinality(Ready) - 1
      BY <1>3, <1>4, <3>1, <3>2, OneLessReady
    <3> QED
      BY <1>2, <3>3, <3>4, ReadyCount DEF CounterIsExact, Ready
  <2> QED
    BY <2>1, <2>2
<1>7. TypeOK'
  BY <1>1, <1>2, <1>4, <1>5, <1>6, TypesAfter
<1>8. SlotIsMine' /\ CallsUseTheirs' /\ CallsAreConsistent' /\ AnswersAreTrue'
  <2>1. call' = call
    BY <1>1
  <2>2. ASSUME NEW c \in Call, call[c].pc = "spawning"
        PROVE  slot'[call[c].key] = Starting(c)
    <3>1. call[c].key \in Key \ keys
      BY <1>1, <2>2, StartsAreMine
    <3> QED
      BY <1>4, <2>2, <3>1 DEF IInv, SlotIsMine
  <2>3. \A c \in Call : call[c].host \in Host => host'[call[c].host] = host[call[c].host]
    BY <1>5
  <2>4. \A c \in Call : call[c].pc = "evict" => call[c].host \in Host
    BY DEF IInv, HostsAreTheirs, CallsUseTheirs
  <2>5. SlotIsMine'
    BY <2>1, <2>2 DEF SlotIsMine, Starting
  <2>6. CallsUseTheirs'
    BY <2>1, <2>3 DEF IInv, HostsAreTheirs, CallsUseTheirs
  <2>7. CallsAreConsistent' /\ AnswersAreTrue'
    BY <2>1, <2>3, <2>4 DEF IInv, CallsAreConsistent, AnswersAreTrue
  <2> QED
    BY <2>5, <2>6, <2>7
<1>9. SlotsHoldTheirs'
  <2>1. ASSUME NEW k \in Key
        PROVE  IF slot'[k].state = "ready"
               THEN slot'[k].host \in Host /\ host'[slot'[k].host].key = k
               ELSE slot'[k].host = None
    <3>1. CASE k \in keys
      BY <3>1, <1>3, <1>4
    <3>2. CASE k \notin keys
      BY <3>2, <1>4, <1>5 DEF IInv, HostsAreTheirs, SlotsHoldTheirs
    <3> QED
      BY <3>1, <3>2
  <2> QED
    BY <2>1 DEF SlotsHoldTheirs
<1>10. LaneIsHeld' /\ PipeIsOrdered' /\ FramesAreOwn'
  <2>1. /\ Dead.lane = None /\ Dead.inbox = <<>> /\ Dead.running = None
        /\ Dead.outbox = <<>>
    BY DEF Dead
  <2>2. ASSUME NEW g \in Host
        PROVE  \/ host'[g] = host[g]
               \/ /\ host'[g].lane = None /\ host'[g].inbox = <<>>
                  /\ host'[g].running = None /\ host'[g].outbox = <<>>
                  /\ \A d \in Call : call[d].pc \in Using => call[d].host # g
    <3>1. CASE \E d \in Call : call[d].host = g
      BY <1>5, <3>1
    <3>2. CASE ~\E d \in Call : call[d].host = g
      BY <1>5, <2>1, <3>2
    <3> QED
      BY <3>1, <3>2
  <2> QED
    BY <1>1, <1>2, <2>2, PipesStay
<1> QED
  BY <1>6, <1>7, <1>8, <1>9, <1>10 DEF IInv, HostsAreTheirs

\* A call leaves the queue of a lane at its deadline, or a host it failed on: no
\* frame moves.
LEMMA LaneTimeoutStep ==
  ASSUME IInv, NEW c \in Call, LaneTimeout(c)
  PROVE  IInv'
<1>1. /\ call[c].pc = "lane" /\ End(c, "notExecuted")
      /\ host' = Kept(host, slot, call')
      /\ UNCHANGED <<slot, activeHosts, faults>>
  BY DEF LaneTimeout
<1>2. /\ slot \in [Key -> Slots] /\ host \in [Host -> Hosts] /\ call \in [Call -> Calls]
      /\ activeHosts \in Int /\ faults \in 0..MaxFaults
  BY Types DEF IInv
<1>3. /\ call' \in [Call -> Calls] /\ \A d \in Call \ {c} : call'[d] = call[d]
      /\ call'[c].pc = "idle" /\ call'[c].host = None
  BY <1>1, <1>2, Ends DEF CallAnswers
<1>4. /\ \A h \in Host : host'[h] = host[h] \/ host'[h] = Dead
      /\ \A h \in Host : (\E k \in Key : slot[k].host = h) => host'[h] = host[h]
      /\ \A h \in Host : (\E d \in Call : call'[d].host = h) => host'[h] = host[h]
      /\ host' \in [Host -> Hosts]
  BY <1>1, <1>2, KeptHosts
<1>5. TypeOK'
  BY <1>1, <1>2, <1>3, <1>4, TypesAfter
<1>6. SlotIsMine' /\ CounterIsExact'
  <2>1. \A d \in Call : call'[d].pc = "spawning" => call'[d] = call[d]
    BY <1>3
  <2> QED
    BY <1>1, <2>1, SlotsStay
<1>7. SlotsHoldTheirs'
  BY <1>1, <1>4 DEF IInv, HostsAreTheirs, SlotsHoldTheirs
<1>8. CallsUseTheirs' /\ CallsAreConsistent' /\ AnswersAreTrue'
  <2>1. ~call[c].entered
    BY <1>1 DEF IInv, CallsAreConsistent
  <2>2. \A d \in Call \ {c} : call[d].host \in Host => host'[call[d].host] = host[call[d].host]
    BY <1>3, <1>4
  <2> QED
    BY <1>1, <2>1, <2>2, CallIsOver DEF CallAnswers
<1>9. LaneIsHeld' /\ PipeIsOrdered' /\ FramesAreOwn'
  <2>1. /\ Dead.lane = None /\ Dead.inbox = <<>> /\ Dead.running = None
        /\ Dead.outbox = <<>>
    BY DEF Dead
  <2>2. \A d \in Call : \/ call'[d] = call[d]
                        \/ call[d].pc \notin Using /\ call'[d].pc \notin Using
    BY <1>1, <1>3 DEF Using
  <2>3. \A d \in Call : call[d].pc \in Using => call'[d].host = call[d].host
    BY <1>1, <1>3 DEF Using
  <2>4. \A g \in Host :
          \/ host'[g] = host[g]
          \/ /\ host'[g].lane = None /\ host'[g].inbox = <<>>
             /\ host'[g].running = None /\ host'[g].outbox = <<>>
             /\ \A d \in Call : call[d].pc \in Using => call[d].host # g
    BY <1>4, <2>1, <2>3
  <2> QED
    BY <1>1, <1>2, <2>2, <2>4, PipesStay
<1> QED
  BY <1>5, <1>6, <1>7, <1>8, <1>9 DEF IInv, HostsAreTheirs

LEMMA EvictStep ==
  ASSUME IInv, NEW c \in Call, Evict(c)
  PROVE  IInv'
<1> DEFINE k == call[c].key
<1>1. /\ call[c].pc = "evict" /\ slot[k].lock = None /\ End(c, "indeterminate")
      /\ host' = Kept(host, slot', call') /\ UNCHANGED faults
      /\ \/ /\ slot[k].state = "ready" /\ slot' = [slot EXCEPT ![k] = Cooling]
            /\ activeHosts' = RemainingHosts
         \/ UNCHANGED <<slot, activeHosts>>
  BY DEF Evict, Owns
<1>2. /\ slot \in [Key -> Slots] /\ host \in [Host -> Hosts] /\ call \in [Call -> Calls]
      /\ activeHosts \in Int /\ faults \in 0..MaxFaults
  BY Types DEF IInv
<1>3. /\ call' \in [Call -> Calls] /\ \A d \in Call \ {c} : call'[d] = call[d]
      /\ call'[c].pc = "idle" /\ call'[c].host = None
  BY <1>1, <1>2, Ends DEF CallAnswers
<1>4. /\ \A h \in Host : host'[h] = host[h] \/ host'[h] = Dead
      /\ \A h \in Host : (\E j \in Key : slot'[j].host = h) => host'[h] = host[h]
      /\ \A h \in Host : (\E d \in Call : call'[d].host = h) => host'[h] = host[h]
      /\ host' \in [Host -> Hosts]
  BY <1>1, <1>2, KeptHosts
<1>5. k \in Key
  BY <1>1 DEF IInv, HostsAreTheirs, CallsUseTheirs
<1>6. Cooling.state = "failed" /\ Cooling.host = None
  BY DEF Cooling, Vacant
<1>7. /\ slot' \in [Key -> Slots] /\ \A j \in Key \ {k} : slot'[j] = slot[j]
      /\ \/ slot'[k] = slot[k] /\ activeHosts' = activeHosts
         \/ slot[k].state = "ready" /\ slot'[k] = Cooling /\ activeHosts' = RemainingHosts
  BY <1>1, <1>2, <1>5, Records
<1> HIDE DEF k
<1>8. CounterIsExact' /\ activeHosts' \in Int
  <2>1. CASE slot'[k] = slot[k] /\ activeHosts' = activeHosts
    BY <2>1, <1>2, <1>7, SameReady
  <2>2. CASE slot[k].state = "ready" /\ slot'[k] = Cooling /\ activeHosts' = RemainingHosts
    <3>1. activeHosts = Cardinality(Ready) /\ Cardinality(Ready) > 0
      BY <1>5, <2>2, ReadyCount DEF Ready
    <3>2. Cardinality(Ready') = Cardinality(Ready) - 1
      BY <1>5, <1>6, <1>7, <2>2, OneLessReady
    <3>3. activeHosts' = activeHosts - 1
      BY <2>2, <3>1 DEF RemainingHosts
    <3> QED
      BY <1>2, <3>1, <3>2, <3>3 DEF CounterIsExact, Ready
  <2> QED
    BY <1>7, <2>1, <2>2
<1>9. TypeOK'
  BY <1>1, <1>2, <1>3, <1>4, <1>7, <1>8, TypesAfter
<1>10. SlotIsMine'
  <2>1. \A d \in Call : Starting(d).lock = d
    BY DEF Starting, Vacant
  <2>2. \A d \in Call : call'[d].pc = "spawning" =>
          call'[d] = call[d] /\ call[d].key \in Key \ {k} /\ slot[call[d].key] = Starting(d)
    BY <1>1, <1>3, <2>1, Constants DEF IInv, SlotIsMine, HostsAreTheirs, CallsUseTheirs, k
  <2> QED
    BY <1>7, <2>2 DEF SlotIsMine, Starting
<1>11. SlotsHoldTheirs'
  <2>1. ASSUME NEW j \in Key
        PROVE  IF slot'[j].state = "ready"
               THEN slot'[j].host \in Host /\ host'[slot'[j].host].key = j
               ELSE slot'[j].host = None
    <3>1. CASE slot'[j] = slot[j]
      BY <3>1, <1>4 DEF IInv, HostsAreTheirs, SlotsHoldTheirs
    <3>2. CASE slot'[j] = Cooling
      BY <3>2, <1>6
    <3> QED
      BY <3>1, <3>2, <1>7
  <2> QED
    BY <2>1 DEF SlotsHoldTheirs
<1>12. CallsUseTheirs' /\ CallsAreConsistent' /\ AnswersAreTrue'
  <2>1. \A d \in Call \ {c} : call[d].host \in Host => host'[call[d].host] = host[call[d].host]
    BY <1>3, <1>4
  <2> QED
    BY <1>1, <2>1, CallIsOver DEF CallAnswers
<1>13. LaneIsHeld' /\ PipeIsOrdered' /\ FramesAreOwn'
  <2>1. /\ Dead.lane = None /\ Dead.inbox = <<>> /\ Dead.running = None
        /\ Dead.outbox = <<>>
    BY DEF Dead
  <2>2. \A d \in Call : \/ call'[d] = call[d]
                        \/ call[d].pc \notin Using /\ call'[d].pc \notin Using
    BY <1>1, <1>3 DEF Using
  <2>3. \A d \in Call : call[d].pc \in Using => call'[d].host = call[d].host
    BY <1>1, <1>3 DEF Using
  <2>4. \A g \in Host :
          \/ host'[g] = host[g]
          \/ /\ host'[g].lane = None /\ host'[g].inbox = <<>>
             /\ host'[g].running = None /\ host'[g].outbox = <<>>
             /\ \A d \in Call : call[d].pc \in Using => call[d].host # g
    BY <1>4, <2>1, <2>3
  <2> QED
    BY <1>1, <1>2, <2>2, <2>4, PipesStay
<1> QED
  BY <1>8, <1>9, <1>10, <1>11, <1>12, <1>13 DEF IInv, HostsAreTheirs

-----------------------------------------------------------------------------
\* The steps that use a pipe.

\* What is said of a pipe does not depend on its lane or its marks.
LEMMA SamePipe ==
  ASSUME NEW p, NEW q, q.nextId = p.nextId, q.inbox = p.inbox, q.running = p.running,
         q.outbox = p.outbox
  PROVE  /\ InOrder(q) <=> InOrder(p)
         /\ Unread(q) = Unread(p)
         /\ \A c, r : OwnFrames(c, r, q) <=> OwnFrames(c, r, p)
<1>1. Unread(q) = Unread(p)
  BY DEF Unread
<1> QED
  BY <1>1 DEF InOrder, OwnFrames

\* The oldest answer.
LEMMA Answers ==
  ASSUME NEW p \in Hosts, p.outbox # <<>>
  PROVE  /\ Head(p.outbox) = p.outbox[1] /\ 1 \in 1..Len(p.outbox)
         /\ Tail(p.outbox) \in Seq(Frame)
<1>1. /\ p.outbox \in Seq(Frame) /\ Len(p.outbox) \in Nat /\ Len(p.outbox) > 0
  BY Queues, EmptySeq
<1>2. \E f : f \in Frame
  BY <1>1, ElementOfSeq
<1> QED
  BY <1>1, <1>2, Queue

\* Whoever has the lane and waits for nothing finds at most a frame for each
\* fault, as does everyone in the host of another.
LEMMA Leftovers ==
  ASSUME IInv, NEW h \in Host, host[h].alive
  PROVE  /\ InOrder(host[h]) /\ Unread(host[h]) \in Nat
         /\ Unread(host[h]) <= faults + 1
         /\ (\A c \in Call : host[h].lane = c => call[c].pc # "receive")
              => Unread(host[h]) <= faults
<1>1. Unread(host[h]) \in Nat /\ faults \in Nat
  <2>1. host[h] \in Hosts /\ faults \in Nat
    BY Types, Constants DEF IInv
  <2> QED
    BY <2>1, Queues, Counted
<1>2. /\ InOrder(host[h])
      /\ \/ Unread(host[h]) <= faults
         \/ /\ Unread(host[h]) <= faults + 1
            /\ \E c \in Call : host[h].lane = c /\ call[c].pc = "receive"
  BY DEF IInv, PipeIsOrdered
<1> QED
  BY <1>1, <1>2

LEMMA AcquireLaneStep ==
  ASSUME IInv, NEW c \in Call, AcquireLane(c)
  PROVE  IInv'
<1> DEFINE h == call[c].host
<1>1. /\ call[c].pc = "lane" /\ host[h].lane = None
      /\ host' = [host EXCEPT ![h].lane = c] /\ call' = [call EXCEPT ![c].pc = "send"]
      /\ UNCHANGED <<slot, activeHosts, faults>>
  BY DEF AcquireLane
<1>2. /\ slot \in [Key -> Slots] /\ host \in [Host -> Hosts] /\ call \in [Call -> Calls]
      /\ activeHosts \in Int /\ faults \in 0..MaxFaults
  BY Types DEF IInv
<1>3. h \in Host /\ \A d \in Call : call[d].pc \in Using => call[d].host # h
  <2>1. h \in Host
    BY <1>1 DEF IInv, HostsAreTheirs, CallsUseTheirs
  <2>2. \A d \in Call : call[d].pc \in Using => call[d].host # h
    BY <1>1, <2>1, Constants DEF IInv, LaneIsHeld, Using
  <2> QED
    BY <2>1, <2>2
<1>4. PICK r : r = [call[c] EXCEPT !.pc = "send"]
  OBVIOUS
<1>5. /\ r \in Calls /\ r.pc = "send" /\ r.key = call[c].key /\ r.host = h
      /\ r.id = call[c].id /\ r.entered = call[c].entered /\ r.answer = call[c].answer
  BY <1>2, <1>4, Moved DEF Pcs
<1>6. PICK q : q = [host[h] EXCEPT !.lane = c]
  OBVIOUS
<1>7. /\ q \in Hosts /\ q.lane = c /\ q.key = host[h].key /\ q.alive = host[h].alive
      /\ q.faulty = host[h].faulty /\ q.nextId = host[h].nextId
      /\ q.inbox = host[h].inbox /\ q.running = host[h].running
      /\ q.outbox = host[h].outbox
  BY <1>2, <1>3, <1>6 DEF Hosts
<1>8. /\ call' \in [Call -> Calls] /\ call'[c] = r
      /\ \A d \in Call \ {c} : call'[d] = call[d]
  BY <1>1, <1>2, <1>4, <1>5
<1>9. /\ host' \in [Host -> Hosts] /\ host'[h] = q
      /\ \A g \in Host \ {h} : host'[g] = host[g]
  BY <1>1, <1>2, <1>3, <1>6, <1>7
<1> HIDE DEF h
<1>10. TypeOK'
  BY <1>1, <1>2, <1>8, <1>9, TypesAfter
<1>11. SlotIsMine' /\ CounterIsExact'
  <2>1. \A d \in Call : call'[d].pc = "spawning" => call'[d] = call[d]
    BY <1>5, <1>8
  <2> QED
    BY <1>1, <2>1, SlotsStay
<1>12. \A g \in Host : /\ host'[g].key = host[g].key
                       /\ host'[g].faulty = host[g].faulty
  BY <1>7, <1>9
<1>13. HostsAreTheirs'
  BY <1>1, <1>3, <1>5, <1>8, <1>12 DEF IInv, HostsAreTheirs, SlotsHoldTheirs, CallsUseTheirs, h
<1>14. CallsAreConsistent' /\ AnswersAreTrue'
  BY <1>1, <1>5, <1>8, <1>12
  DEF IInv, CallsAreConsistent, AnswersAreTrue, HostsAreTheirs, CallsUseTheirs
<1>15. LaneIsHeld'
  <2>1. ASSUME NEW d \in Call, NEW g \in Host
        PROVE  host'[g].lane = d <=> call'[d].pc \in Using /\ call'[d].host = g
    <3>1. host[g].lane = d <=> call[d].pc \in Using /\ call[d].host = g
      BY DEF IInv, LaneIsHeld, Using
    <3>2. CASE g = h /\ d = c
      BY <3>2, <1>5, <1>7, <1>8, <1>9 DEF Using
    <3>3. CASE g = h /\ d # c
      BY <3>3, <1>3, <1>7, <1>8, <1>9
    <3>4. CASE g # h /\ d = c
      BY <3>4, <3>1, <1>1, <1>5, <1>8, <1>9 DEF Using
    <3>5. CASE g # h /\ d # c
      BY <3>5, <3>1, <1>8, <1>9
    <3> QED
      BY <3>2, <3>3, <3>4, <3>5
  <2> QED
    BY <2>1 DEF LaneIsHeld, Using
<1>16. PipeIsOrdered'
  <2>1. ASSUME NEW g \in Host, host'[g].alive
        PROVE  /\ InOrder(host'[g])
               /\ \/ Unread(host'[g]) <= faults'
                  \/ /\ Unread(host'[g]) <= faults' + 1
                     /\ \E d \in Call : host'[g].lane = d /\ call'[d].pc = "receive"
    <3>1. CASE g = h
      <4>1. host[h].alive
        BY <2>1, <3>1, <1>7, <1>9
      <4>2. InOrder(host[h]) /\ Unread(host[h]) <= faults
        BY <4>1, <1>1, <1>3, Leftovers, Constants
      <4>3. InOrder(q) /\ Unread(q) <= faults
        BY <4>2, <1>7, SamePipe
      <4> QED
        BY <3>1, <4>3, <1>1, <1>9
    <3>2. CASE g # h
      <4>1. host'[g] = host[g]
        BY <3>2, <1>9
      <4>2. \A d \in Call : call[d].pc = "receive" => call'[d].pc = "receive"
        BY <1>1, <1>8
      <4> QED
        BY <2>1, <4>1, <4>2, <1>1 DEF IInv, PipeIsOrdered
    <3> QED
      BY <3>1, <3>2
  <2> QED
    BY <2>1 DEF PipeIsOrdered
<1>17. FramesAreOwn'
  <2>1. ASSUME NEW d \in Call, call'[d].pc = "receive"
        PROVE  OwnFrames(d, call'[d], host'[call'[d].host])
    <3>1. d # c /\ call'[d] = call[d] /\ call[d].pc = "receive"
      BY <2>1, <1>5, <1>8
    <3>2. /\ call[d].host \in Host \ {h}
          /\ OwnFrames(d, call[d], host[call[d].host])
      BY <3>1, <1>3 DEF IInv, HostsAreTheirs, CallsUseTheirs, FramesAreOwn, Using
    <3> QED
      BY <3>1, <3>2, <1>9
  <2> QED
    BY <2>1 DEF FramesAreOwn
<1> QED
  BY <1>10, <1>11, <1>13, <1>14, <1>15, <1>16, <1>17 DEF IInv

\* A call that fails on a host leaves its lane and what p is left of the host.
LEMMA BrokenStep ==
  ASSUME IInv, NEW c \in Call, call[c].pc \in Using, NEW changed \in [Host -> Hosts],
         NEW p \in Hosts, changed[call[c].host] = p, p.key = host[call[c].host].key,
         \A g \in Host \ {call[c].host} : changed[g] = host[g], Broken(c, changed),
         faults' \in 0..MaxFaults, faults <= faults',
         p.alive => InOrder(p) /\ Unread(p) <= faults'
  PROVE  IInv'
<1> DEFINE h == call[c].host
<1>1. /\ host' = [changed EXCEPT ![h] = [changed[h] EXCEPT !.lane = None, !.faulty = TRUE]]
      /\ call' = [call EXCEPT ![c].pc = "evict"]
      /\ UNCHANGED <<slot, activeHosts>>
  BY DEF Broken
<1>2. /\ slot \in [Key -> Slots] /\ host \in [Host -> Hosts] /\ call \in [Call -> Calls]
      /\ activeHosts \in Int /\ faults \in Int
  BY Types DEF IInv
<1>3. h \in Host /\ changed[h] = p /\ p.key = host[h].key
      /\ \A g \in Host \ {h} : changed[g] = host[g]
  BY DEF IInv, HostsAreTheirs, CallsUseTheirs, Using
<1>4. PICK r : r = [call[c] EXCEPT !.pc = "evict"]
  OBVIOUS
<1>5. /\ r \in Calls /\ r.pc = "evict" /\ r.key = call[c].key /\ r.host = h
      /\ r.answer = call[c].answer
  BY <1>2, <1>4, Moved DEF Pcs
<1>6. PICK q : q = [p EXCEPT !.lane = None, !.faulty = TRUE]
  OBVIOUS
<1>7. /\ q \in Hosts /\ q.lane = None /\ q.key = host[h].key /\ q.faulty
      /\ q.alive = p.alive /\ q.nextId = p.nextId /\ q.inbox = p.inbox
      /\ q.running = p.running /\ q.outbox = p.outbox
  BY <1>3, <1>6 DEF Hosts
<1>8. /\ call' \in [Call -> Calls] /\ call'[c] = r
      /\ \A d \in Call \ {c} : call'[d] = call[d]
  BY <1>1, <1>2, <1>4, <1>5
<1>9. /\ host' \in [Host -> Hosts] /\ host'[h] = q
      /\ \A g \in Host \ {h} : host'[g] = host[g]
  BY <1>1, <1>3, <1>6, <1>7
<1> HIDE DEF h
<1>10. TypeOK'
  BY <1>1, <1>2, <1>8, <1>9, TypesAfter
<1>11. SlotIsMine' /\ CounterIsExact'
  <2>1. \A d \in Call : call'[d].pc = "spawning" => call'[d] = call[d]
    BY <1>5, <1>8
  <2> QED
    BY <1>1, <2>1, SlotsStay
<1>12. \A g \in Host : /\ host'[g].key = host[g].key
                       /\ host[g].faulty => host'[g].faulty
  BY <1>7, <1>9
<1>13. SlotsHoldTheirs'
  BY <1>1, <1>12 DEF IInv, HostsAreTheirs, SlotsHoldTheirs
<1>14. CallsUseTheirs'
  BY <1>3, <1>5, <1>8, <1>12 DEF IInv, HostsAreTheirs, CallsUseTheirs, Using
<1>15. CallsAreConsistent' /\ AnswersAreTrue'
  <2>1. call[c].answer = "none"
    BY DEF IInv, CallsAreConsistent, Using
  <2>2. ASSUME NEW d \in Call
        PROVE  /\ call'[d].pc \notin {"receive", "evict"} => call'[d].id = 0
               /\ call'[d].pc \in {"slot", "spawning", "lane", "send"} => ~call'[d].entered
               /\ call'[d].pc # "idle" => call'[d].answer = "none"
               /\ call'[d].pc = "evict" => host'[call'[d].host].faulty
               /\ call'[d].answer = "notExecuted" => ~call'[d].entered
               /\ call'[d].answer = "completed" => call'[d].entered
    <3>1. CASE d = c
      BY <3>1, <2>1, <1>5, <1>7, <1>8, <1>9
    <3>2. CASE d # c
      BY <3>2, <1>8, <1>12
      DEF IInv, CallsAreConsistent, AnswersAreTrue, HostsAreTheirs, CallsUseTheirs
    <3> QED
      BY <3>1, <3>2
  <2> QED
    BY <2>2 DEF CallsAreConsistent, AnswersAreTrue
<1>16. LaneIsHeld' /\ PipeIsOrdered' /\ FramesAreOwn'
  <2>1. call'[c].pc \notin Using
    BY <1>5, <1>8 DEF Using
  <2>2. q.alive => InOrder(q) /\ Unread(q) <= faults'
    BY <1>7, SamePipe
  <2>3. faults' \in Int
    BY Constants
  <2> QED
    BY <1>2, <1>7, <1>8, <1>9, <2>1, <2>2, <2>3, LaneIsLeft DEF h
<1> QED
  BY <1>10, <1>11, <1>13, <1>14, <1>15, <1>16 DEF IInv, HostsAreTheirs

LEMMA PipeBreaksStep ==
  ASSUME IInv, NEW c \in Call, PipeBreaks(c)
  PROVE  IInv'
<1> DEFINE h == call[c].host
<1>1. /\ call[c].pc \in Using /\ Broken(c, host)
      /\ IF host[h].alive THEN faults < MaxFaults /\ faults' = faults + 1
         ELSE faults' = faults
  BY DEF PipeBreaks, Fault, Using
<1>2. host \in [Host -> Hosts] /\ faults \in 0..MaxFaults /\ h \in Host
  BY <1>1, Types DEF IInv, HostsAreTheirs, CallsUseTheirs, Using
<1>3. faults' \in 0..MaxFaults /\ faults <= faults'
  BY <1>1, <1>2, Constants
<1>4. host[h].alive => InOrder(host[h]) /\ Unread(host[h]) <= faults'
  BY <1>1, <1>2, Leftovers
<1> QED
  BY <1>1, <1>2, <1>3, <1>4, BrokenStep

LEMMA TimeoutStep ==
  ASSUME IInv, NEW c \in Call, Timeout(c)
  PROVE  IInv'
<1> DEFINE h == call[c].host
<1>1. PICK p : p = [host[h] EXCEPT !.alive = FALSE, !.inbox = <<>>, !.running = None]
  OBVIOUS
<1>2. /\ call[c].pc \in Using /\ Broken(c, [host EXCEPT ![h] = p]) /\ faults' = faults
  BY <1>1 DEF Timeout, Using
<1>3. host \in [Host -> Hosts] /\ faults \in 0..MaxFaults /\ h \in Host
  BY <1>2, Types DEF IInv, HostsAreTheirs, CallsUseTheirs, Using
<1>4. p \in Hosts /\ p.key = host[h].key /\ ~p.alive
  <2>1. host[h] \in Hosts /\ <<>> \in Seq(Frame)
    BY <1>3, EmptySeq
  <2>2. p.key = host[h].key /\ ~p.alive
    BY <2>1, <1>1 DEF Hosts
  <2>3. p \in Hosts
    BY <2>1, <1>1 DEF Hosts
  <2> QED
    BY <2>2, <2>3
<1>5. PICK changed : changed = [host EXCEPT ![h] = p]
  OBVIOUS
<1>6. /\ changed \in [Host -> Hosts] /\ changed[h] = p
      /\ \A g \in Host \ {h} : changed[g] = host[g]
  BY <1>3, <1>4, <1>5
<1>7. faults' \in 0..MaxFaults /\ faults <= faults'
  BY <1>2, <1>3, Constants
<1>8. Broken(c, changed)
  BY <1>2, <1>5
<1> QED
  BY <1>2, <1>4, <1>6, <1>7, <1>8, BrokenStep

LEMMA ReceiveWrongIdStep ==
  ASSUME IInv, NEW c \in Call, ReceiveWrongId(c)
  PROVE  IInv'
<1> DEFINE h == call[c].host
<1>1. /\ call[c].pc = "receive" /\ host[h].outbox # <<>> /\ faults' = faults
      /\ Broken(c, [host EXCEPT ![h].outbox = Tail(host[h].outbox)])
  BY DEF ReceiveWrongId
<1>2. host \in [Host -> Hosts] /\ faults \in 0..MaxFaults /\ h \in Host
  BY <1>1, Types DEF IInv, HostsAreTheirs, CallsUseTheirs
<1>3. PICK p : p = [host[h] EXCEPT !.outbox = Tail(host[h].outbox)]
  OBVIOUS
<1>4. Tail(host[h].outbox) \in Seq(Frame)
  BY <1>1, <1>2, Answers
<1>5. /\ p \in Hosts /\ p.key = host[h].key /\ p.alive = host[h].alive
      /\ p.nextId = host[h].nextId /\ p.inbox = host[h].inbox
      /\ p.running = host[h].running /\ p.outbox = Tail(host[h].outbox)
  BY <1>2, <1>3, <1>4 DEF Hosts
<1>6. PICK changed : changed = [host EXCEPT ![h].outbox = Tail(host[h].outbox)]
  OBVIOUS
<1>7. /\ changed \in [Host -> Hosts] /\ changed[h] = p
      /\ \A g \in Host \ {h} : changed[g] = host[g]
  BY <1>2, <1>3, <1>5, <1>6
<1>8. p.alive => InOrder(p) /\ Unread(p) <= faults'
  <2>1. ASSUME p.alive
        PROVE  InOrder(p) /\ Unread(p) <= faults'
    <3>1. /\ InOrder(host[h]) /\ Unread(host[h]) \in Nat
          /\ Unread(host[h]) <= faults + 1
      BY <2>1, <1>2, <1>5, Leftovers
    <3>2. InOrder(p) /\ Unread(p) = Unread(host[h]) - 1
      BY <3>1, <1>1, <1>2, <1>5, PipeReads
    <3>3. Unread(p) <= faults'
      BY <3>1, <3>2, <1>1, <1>2, Constants
    <3> QED
      BY <3>2, <3>3
  <2> QED
    BY <2>1
<1>9. faults' \in 0..MaxFaults /\ faults <= faults'
  BY <1>1, <1>2, Constants
<1>10. Broken(c, changed) /\ call[c].pc \in Using
  BY <1>1, <1>6 DEF Using
<1> QED
  BY <1>5, <1>7, <1>8, <1>9, <1>10, BrokenStep

\* A call sends its request: nothing in the pipe has its id.
LEMMA SendStep ==
  ASSUME IInv, NEW c \in Call, Send(c)
  PROVE  IInv'
<1> DEFINE h == call[c].host
           p == host[call[c].host]
           f == [id |-> host[call[c].host].nextId, of |-> c]
<1>1. /\ call[c].pc = "send" /\ p.alive
      /\ host' = [host EXCEPT ![h] =
                    [p EXCEPT !.inbox = Append(p.inbox, f), !.nextId = NextId(p.nextId)]]
      /\ call' = [call EXCEPT ![c] = [call[c] EXCEPT !.pc = "receive", !.id = p.nextId]]
      /\ UNCHANGED <<slot, activeHosts, faults>>
  BY DEF Send
<1>2. /\ slot \in [Key -> Slots] /\ host \in [Host -> Hosts] /\ call \in [Call -> Calls]
      /\ activeHosts \in Int /\ faults \in 0..MaxFaults
  BY Types DEF IInv
<1>3. /\ h \in Host /\ p = host[h] /\ p \in Hosts /\ p.lane = c
      /\ \A d \in Call : call[d].pc \in Using /\ call[d].host = h => d = c
  <2>1. h \in Host
    BY <1>1 DEF IInv, HostsAreTheirs, CallsUseTheirs
  <2>2. \A d \in Call : host[h].lane = d <=> call[d].pc \in Using /\ call[d].host = h
    BY <2>1 DEF IInv, LaneIsHeld, Using
  <2>3. host[h].lane = c
    BY <1>1, <2>2 DEF Using
  <2> QED
    BY <1>2, <2>1, <2>2, <2>3
<1>4. p.nextId \in 1..(IdSpace - 1) /\ f \in Frame /\ f.id = p.nextId /\ f.of = c
  BY <1>3, Queues DEF Frame
<1>5. InOrder(p) /\ Unread(p) \in Nat /\ Unread(p) <= faults /\ Unread(p) <= IdSpace - 2
  <2>1. InOrder(p) /\ Unread(p) \in Nat /\ Unread(p) <= faults
    <3>1. \A d \in Call : host[h].lane = d => call[d].pc # "receive"
      BY <1>1, <1>3
    <3> QED
      BY <1>1, <1>3, <3>1, Leftovers
  <2> QED
    BY <2>1, <1>2, Constants
<1>6. PICK q : q = [p EXCEPT !.inbox = Append(p.inbox, f), !.nextId = NextId(p.nextId)]
  OBVIOUS
<1>7. PICK r : r = [call[c] EXCEPT !.pc = "receive", !.id = p.nextId]
  OBVIOUS
<1>8. /\ host' = [host EXCEPT ![h] = q] /\ call' = [call EXCEPT ![c] = r]
  BY <1>1, <1>6, <1>7
<1>9. p.nextId \in 0..(IdSpace - 1)
  BY <1>4
<1>10. /\ r \in Calls /\ r.pc = "receive" /\ r.key = call[c].key /\ r.host = h
       /\ r.id = p.nextId /\ r.entered = call[c].entered /\ r.answer = call[c].answer
  BY <1>2, <1>7, <1>9 DEF Calls, Pcs
<1>11. /\ q \in Hosts /\ q.lane = p.lane /\ q.key = p.key /\ q.faulty = p.faulty
       /\ q.inbox = Append(p.inbox, f) /\ q.nextId = NextId(p.nextId)
       /\ q.running = p.running /\ q.outbox = p.outbox
  <2> HIDE DEF f, p
  <2>1. Append(p.inbox, f) \in Seq(Frame)
    BY <1>3, <1>4, Queues, Queue
  <2>2. NextId(p.nextId) \in 1..(IdSpace - 1)
    BY <1>4, Constants DEF NextId
  <2> QED
    BY <1>3, <1>6, <2>1, <2>2 DEF Hosts
<1> HIDE DEF f
<1>12. /\ InOrder(q) /\ Unread(q) = Unread(p) + 1
       /\ OwnFrames(c, r, q)
  <2> HIDE DEF h, p
  <2>1. /\ InOrder(q) /\ Unread(q) = Unread(p) + 1
        /\ TakesToo(q, p, f) /\ Unused(p, p.nextId)
    BY <1>3, <1>4, <1>5, <1>11, PipeSends
  <2>2. OwnFrames(c, r, q)
    BY <2>1, <1>4, <1>10, <1>11 DEF OwnFrames, TakesToo, Unused
  <2> QED
    BY <2>1, <2>2, <1>11
<1>13. /\ call' \in [Call -> Calls] /\ call'[c] = r
       /\ \A d \in Call \ {c} : call'[d] = call[d]
  BY <1>2, <1>8, <1>10
<1>14. /\ host' \in [Host -> Hosts] /\ host'[h] = q
       /\ \A g \in Host \ {h} : host'[g] = host[g]
  BY <1>2, <1>3, <1>8, <1>11
<1>15. \A g \in Host : /\ host'[g].key = host[g].key /\ host'[g].lane = host[g].lane
                       /\ host'[g].faulty = host[g].faulty
  BY <1>3, <1>11, <1>14
<1> HIDE DEF h, p
<1>16. TypeOK'
  BY <1>1, <1>2, <1>13, <1>14, TypesAfter
<1>17. SlotIsMine' /\ CounterIsExact'
  <2>1. \A d \in Call : call'[d].pc = "spawning" => call'[d] = call[d]
    BY <1>10, <1>13
  <2> QED
    BY <1>1, <2>1, SlotsStay
<1>18. SlotsHoldTheirs'
  BY <1>1, <1>15 DEF IInv, HostsAreTheirs, SlotsHoldTheirs
<1>19. CallsUseTheirs'
  BY <1>1, <1>3, <1>10, <1>13, <1>15 DEF IInv, HostsAreTheirs, CallsUseTheirs, h
<1>20. CallsAreConsistent' /\ AnswersAreTrue'
  BY <1>1, <1>10, <1>13, <1>15
  DEF IInv, CallsAreConsistent, AnswersAreTrue, HostsAreTheirs, CallsUseTheirs
<1>21. LaneIsHeld'
  <2>1. ASSUME NEW d \in Call, NEW g \in Host
        PROVE  host'[g].lane = d <=> call'[d].pc \in Using /\ call'[d].host = g
    <3>1. host[g].lane = d <=> call[d].pc \in Using /\ call[d].host = g
      BY DEF IInv, LaneIsHeld, Using
    <3>2. call'[d].pc \in Using <=> call[d].pc \in Using
      BY <1>1, <1>10, <1>13 DEF Using
    <3>3. call'[d].host = call[d].host
      BY <1>10, <1>13 DEF h
    <3> QED
      BY <3>1, <3>2, <3>3, <1>15
  <2> QED
    BY <2>1 DEF LaneIsHeld, Using
<1>22. PipeIsOrdered'
  <2>1. ASSUME NEW g \in Host, host'[g].alive
        PROVE  /\ InOrder(host'[g])
               /\ \/ Unread(host'[g]) <= faults'
                  \/ /\ Unread(host'[g]) <= faults' + 1
                     /\ \E d \in Call : host'[g].lane = d /\ call'[d].pc = "receive"
    <3>1. CASE g = h
      <4>1. InOrder(host'[g]) /\ host'[g].lane = c /\ call'[c].pc = "receive"
        BY <3>1, <1>3, <1>10, <1>11, <1>12, <1>13, <1>14
      <4>2. Unread(host'[g]) <= faults' + 1
        BY <3>1, <1>1, <1>2, <1>5, <1>12, <1>14, Constants
      <4> QED
        BY <4>1, <4>2
    <3>2. CASE g # h
      <4>1. host'[g] = host[g]
        BY <3>2, <1>14
      <4>2. \A d \in Call : call[d].pc = "receive" => call'[d].pc = "receive"
        BY <1>1, <1>13
      <4> QED
        BY <2>1, <4>1, <4>2, <1>1 DEF IInv, PipeIsOrdered
    <3> QED
      BY <3>1, <3>2
  <2> QED
    BY <2>1 DEF PipeIsOrdered
<1>23. FramesAreOwn'
  <2>1. ASSUME NEW d \in Call, call'[d].pc = "receive"
        PROVE  OwnFrames(d, call'[d], host'[call'[d].host])
    <3>1. CASE d = c
      BY <3>1, <1>10, <1>12, <1>13, <1>14
    <3>2. CASE d # c
      <4>1. call'[d] = call[d] /\ call[d].pc = "receive"
        BY <2>1, <3>2, <1>13
      <4>2. /\ call[d].host \in Host \ {h}
            /\ OwnFrames(d, call[d], host[call[d].host])
        BY <3>2, <4>1, <1>3 DEF IInv, HostsAreTheirs, CallsUseTheirs, FramesAreOwn, Using
      <4> QED
        BY <4>1, <4>2, <1>14
    <3> QED
      BY <3>1, <3>2
  <2> QED
    BY <2>1 DEF FramesAreOwn
<1> QED
  BY <1>16, <1>17, <1>18, <1>19, <1>20, <1>21, <1>22, <1>23 DEF IInv, HostsAreTheirs

\* The answer a call receives is of its own request, which entered the host.
LEMMA ReceiveIsOwn ==
  ASSUME IInv, NEW c \in Call, Receive(c)
  PROVE  Head(host[call[c].host].outbox).of = c /\ call[c].entered
<1> DEFINE p == host[call[c].host]
<1>1. call[c].pc = "receive" /\ p.outbox # <<>> /\ Head(p.outbox).id = call[c].id
  BY DEF Receive
<1>2. p \in Hosts
  BY <1>1, Types DEF IInv, HostsAreTheirs, CallsUseTheirs
<1>3. OwnFrames(c, call[c], p)
  BY <1>1 DEF IInv, FramesAreOwn
<1> HIDE DEF p
<1>4. Head(p.outbox) = p.outbox[1] /\ 1 \in 1..Len(p.outbox)
  BY <1>1, <1>2, Answers
<1>5. Head(p.outbox).of = c /\ call[c].entered
  BY <1>1, <1>3, <1>4 DEF OwnFrames
<1> QED
  BY <1>5 DEF p

LEMMA ReceiveStep ==
  ASSUME IInv, NEW c \in Call, Receive(c)
  PROVE  IInv'
<1> DEFINE h == call[c].host
           p == host[call[c].host]
<1>1. PICK q : q = [p EXCEPT !.outbox = Tail(p.outbox), !.lane = None]
  OBVIOUS
<1>2. PICK hosts : hosts = [host EXCEPT ![h] = q]
  OBVIOUS
<1>3. /\ call[c].pc = "receive" /\ p.outbox # <<>> /\ End(c, "completed")
      /\ host' = Kept(hosts, slot, call') /\ UNCHANGED <<slot, activeHosts, faults>>
  BY <1>1, <1>2 DEF Receive
<1>4. /\ slot \in [Key -> Slots] /\ host \in [Host -> Hosts] /\ call \in [Call -> Calls]
      /\ activeHosts \in Int /\ faults \in 0..MaxFaults
  BY Types DEF IInv
<1>5. h \in Host /\ p = host[h] /\ p \in Hosts
  BY <1>3, <1>4 DEF IInv, HostsAreTheirs, CallsUseTheirs
<1>6. Tail(p.outbox) \in Seq(Frame)
  BY <1>3, <1>5, Answers
<1>7. /\ q \in Hosts /\ q.lane = None /\ q.key = p.key /\ q.faulty = p.faulty
      /\ q.alive = p.alive /\ q.nextId = p.nextId /\ q.inbox = p.inbox
      /\ q.running = p.running /\ q.outbox = Tail(p.outbox)
  BY <1>1, <1>5, <1>6 DEF Hosts
<1>8. /\ hosts \in [Host -> Hosts] /\ hosts[h] = q
      /\ \A g \in Host \ {h} : hosts[g] = host[g]
  BY <1>2, <1>4, <1>5, <1>7
<1> HIDE DEF h, p
<1>9. /\ call' \in [Call -> Calls] /\ \A d \in Call \ {c} : call'[d] = call[d]
      /\ call'[c].pc = "idle" /\ call'[c].host = None
  BY <1>3, <1>4, Ends DEF CallAnswers
<1>10. /\ \A g \in Host : host'[g] = hosts[g] \/ host'[g] = Dead
       /\ \A g \in Host : (\E k \in Key : slot[k].host = g) => host'[g] = hosts[g]
       /\ \A g \in Host : (\E d \in Call : call'[d].host = g) => host'[g] = hosts[g]
       /\ host' \in [Host -> Hosts]
  BY <1>3, <1>8, KeptHosts
<1>11. TypeOK'
  BY <1>3, <1>4, <1>9, <1>10, TypesAfter
<1>12. SlotIsMine' /\ CounterIsExact'
  <2>1. \A d \in Call : call'[d].pc = "spawning" => call'[d] = call[d]
    BY <1>9
  <2> QED
    BY <1>3, <2>1, SlotsStay
<1>13. \A g \in Host : hosts[g].key = host[g].key /\ hosts[g].faulty = host[g].faulty
  BY <1>5, <1>7, <1>8
<1>14. SlotsHoldTheirs'
  BY <1>3, <1>10, <1>13 DEF IInv, HostsAreTheirs, SlotsHoldTheirs
<1>15. CallsUseTheirs' /\ CallsAreConsistent' /\ AnswersAreTrue'
  <2>1. call[c].entered
    BY ReceiveIsOwn
  <2>2. \A d \in Call \ {c} : call[d].host \in Host => host'[call[d].host] = hosts[call[d].host]
    BY <1>9, <1>10
  <2>3. \A d \in Call \ {c} : call[d].host \in Host =>
          /\ host'[call[d].host].key = host[call[d].host].key
          /\ host[call[d].host].faulty => host'[call[d].host].faulty
    BY <2>2, <1>13
  <2> QED
    BY <1>3, <2>1, <2>3, CallIsOver DEF CallAnswers
<1>16. LaneIsHeld' /\ PipeIsOrdered' /\ FramesAreOwn'
  <2>1. call[c].pc \in Using /\ call'[c].pc \notin Using
    BY <1>3, <1>9 DEF Using
  <2>2. \A g \in Host \ {h} :
          \/ host'[g] = host[g]
          \/ host'[g] = Dead /\ \A d \in Call \ {c} : call[d].host # g
    BY <1>8, <1>9, <1>10
  <2>3. Dead.lane = None /\ ~Dead.alive
    BY DEF Dead
  <2>4. host'[h].lane = None
    BY <1>5, <1>7, <1>8, <1>10, <2>3
  <2>5. host'[h].alive => InOrder(host'[h]) /\ Unread(host'[h]) <= faults'
    <3>1. ASSUME host'[h].alive
          PROVE  InOrder(host'[h]) /\ Unread(host'[h]) <= faults'
      <4>1. host'[h] = q /\ p.alive
        BY <3>1, <1>5, <1>7, <1>8, <1>10, <2>3
      <4>2. InOrder(p) /\ Unread(p) \in Nat /\ Unread(p) <= faults + 1
        BY <4>1, <1>5, Leftovers
      <4>3. InOrder(q) /\ Unread(q) = Unread(p) - 1
        BY <4>2, <1>3, <1>5, <1>7, PipeReads
      <4>4. Unread(q) <= faults'
        BY <4>2, <4>3, <1>3, <1>4, Constants
      <4> QED
        BY <4>1, <4>3, <4>4
    <3> QED
      BY <3>1
  <2>6. faults \in Int /\ faults' \in Int /\ faults <= faults'
    BY <1>3, <1>4, Constants
  <2> QED
    BY <2>1, <2>2, <2>4, <2>5, <2>6, <1>9, LaneIsLeft DEF h
<1> QED
  BY <1>11, <1>12, <1>14, <1>15, <1>16 DEF IInv, HostsAreTheirs

-----------------------------------------------------------------------------
\* The steps of the host processes.

\* A host p goes on as q: its lane, key and marks stay, its frames are the same.
LEMMA HostStays ==
  ASSUME IInv, NEW h \in Host, NEW q \in Hosts, faults' \in 0..MaxFaults, faults <= faults',
         q.key = host[h].key, q.lane = host[h].lane, q.faulty = host[h].faulty,
         q.alive => host[h].alive /\ InOrder(q) /\ Unread(q) = Unread(host[h]),
         host' = [host EXCEPT ![h] = q], UNCHANGED <<slot, activeHosts>>,
         call' \in [Call -> Calls],
         \A d \in Call : /\ call'[d].pc = call[d].pc /\ call'[d].host = call[d].host
                         /\ call'[d].key = call[d].key
  PROVE  /\ TypeOK' /\ HostsAreTheirs' /\ LaneIsHeld' /\ PipeIsOrdered'
         /\ SlotIsMine' /\ CounterIsExact'
<1>1. /\ slot \in [Key -> Slots] /\ host \in [Host -> Hosts] /\ call \in [Call -> Calls]
      /\ activeHosts \in Int /\ faults \in 0..MaxFaults
  BY Types DEF IInv
<1>2. /\ host' \in [Host -> Hosts] /\ host'[h] = q
      /\ \A g \in Host \ {h} : host'[g] = host[g]
  BY <1>1
<1>3. \A g \in Host : host'[g].key = host[g].key /\ host'[g].lane = host[g].lane
  BY <1>2
<1>4. TypeOK'
  BY <1>1, <1>2, TypesAfter
<1>5. HostsAreTheirs'
  BY <1>3 DEF IInv, HostsAreTheirs, SlotsHoldTheirs, CallsUseTheirs
<1>6. LaneIsHeld'
  BY <1>3 DEF IInv, LaneIsHeld
<1>7. PipeIsOrdered'
  <2>1. ASSUME NEW g \in Host, host'[g].alive
        PROVE  /\ InOrder(host'[g])
               /\ \/ Unread(host'[g]) <= faults'
                  \/ /\ Unread(host'[g]) <= faults' + 1
                     /\ \E d \in Call : host'[g].lane = d /\ call'[d].pc = "receive"
    <3>1. host[g].alive /\ InOrder(host'[g]) /\ Unread(host'[g]) = Unread(host[g])
      <4>1. CASE g = h
        BY <2>1, <4>1, <1>2
      <4>2. CASE g # h
        BY <2>1, <4>2, <1>2, Leftovers
      <4> QED
        BY <4>1, <4>2
    <3>2. \/ Unread(host[g]) <= faults
          \/ /\ Unread(host[g]) <= faults + 1
             /\ \E d \in Call : host[g].lane = d /\ call[d].pc = "receive"
      BY <3>1 DEF IInv, PipeIsOrdered
    <3>3. Unread(host[g]) \in Nat /\ faults \in Nat /\ faults' \in Nat
      BY <3>1, <1>1, Leftovers, Constants
    <3>4. CASE Unread(host[g]) <= faults
      BY <3>1, <3>3, <3>4
    <3>5. CASE /\ Unread(host[g]) <= faults + 1
               /\ \E d \in Call : host[g].lane = d /\ call[d].pc = "receive"
      <4>1. Unread(host'[g]) <= faults' + 1
        BY <3>1, <3>3, <3>5
      <4> QED
        BY <4>1, <3>1, <3>5, <1>3
    <3> QED
      BY <3>2, <3>4, <3>5
  <2> QED
    BY <2>1 DEF PipeIsOrdered
<1>8. SlotIsMine' /\ CounterIsExact'
  BY DEF IInv, SlotIsMine, CounterIsExact, Starting
<1> QED
  BY <1>4, <1>5, <1>6, <1>7, <1>8

LEMMA HostDiesStep ==
  ASSUME IInv, NEW h \in Host, HostDies(h)
  PROVE  IInv'
<1>1. PICK q : q = [host[h] EXCEPT !.alive = FALSE, !.inbox = <<>>, !.running = None]
  OBVIOUS
<1>2. /\ host' = [host EXCEPT ![h] = q] /\ UNCHANGED <<slot, call, activeHosts>>
      /\ faults < MaxFaults /\ faults' = faults + 1
  BY <1>1 DEF HostDies, Fault
<1>3. /\ host \in [Host -> Hosts] /\ call \in [Call -> Calls] /\ faults \in 0..MaxFaults
      /\ host[h] \in Hosts /\ <<>> \in Seq(Frame)
  BY Types, EmptySeq DEF IInv
<1>4. /\ q.key = host[h].key /\ q.lane = host[h].lane /\ q.faulty = host[h].faulty
      /\ q.inbox = <<>> /\ q.running = None /\ q.outbox = host[h].outbox
  BY <1>1, <1>3 DEF Hosts
<1>5. q \in Hosts
  BY <1>1, <1>3 DEF Hosts
<1>6. ~q.alive
  BY <1>1, <1>3 DEF Hosts
<1>7. faults' \in 0..MaxFaults /\ faults <= faults'
  BY <1>2, <1>3, Constants
<1>8. /\ TypeOK' /\ HostsAreTheirs' /\ LaneIsHeld' /\ PipeIsOrdered'
      /\ SlotIsMine' /\ CounterIsExact'
  BY <1>2, <1>3, <1>4, <1>5, <1>6, <1>7, HostStays
<1>9. /\ host'[h] = q /\ \A g \in Host \ {h} : host'[g] = host[g]
  BY <1>2, <1>3
<1>10. CallsAreConsistent' /\ AnswersAreTrue'
  <2>1. \A g \in Host : host'[g].faulty = host[g].faulty
    BY <1>4, <1>9
  <2> QED
    BY <2>1, <1>2
    DEF IInv, CallsAreConsistent, AnswersAreTrue, HostsAreTheirs, CallsUseTheirs
<1>11. FramesAreOwn'
  <2>1. ASSUME NEW d \in Call, call[d].pc = "receive"
        PROVE  OwnFrames(d, call[d], host'[call[d].host])
    <3>1. call[d].host \in Host /\ OwnFrames(d, call[d], host[call[d].host])
      BY <2>1 DEF IInv, HostsAreTheirs, CallsUseTheirs, FramesAreOwn
    <3>2. CASE call[d].host = h
      <4>1. Len(q.inbox) = 0
        BY <1>4, EmptySeq
      <4>2. \A j \in 1..Len(q.outbox) :
              q.outbox[j].id = call[d].id => q.outbox[j].of = d /\ call[d].entered
        BY <1>4, <3>1, <3>2 DEF OwnFrames
      <4>3. OwnFrames(d, call[d], q)
        BY <1>4, <4>1, <4>2 DEF OwnFrames
      <4> QED
        BY <3>2, <4>3, <1>9
    <3>3. CASE call[d].host # h
      BY <3>1, <3>3, <1>9
    <3> QED
      BY <3>2, <3>3
  <2> QED
    BY <2>1, <1>2 DEF FramesAreOwn
<1> QED
  BY <1>8, <1>10, <1>11 DEF IInv

LEMMA HostRepliesStep ==
  ASSUME IInv, NEW h \in Host, HostReplies(h)
  PROVE  IInv'
<1> DEFINE p == host[h]
<1>1. PICK q : q = [p EXCEPT !.outbox = Append(p.outbox, p.running), !.running = None]
  OBVIOUS
<1>2. /\ p.alive /\ p.running # None /\ host' = [host EXCEPT ![h] = q]
      /\ UNCHANGED <<slot, call, activeHosts, faults>>
  BY <1>1 DEF HostReplies
<1>3. /\ host \in [Host -> Hosts] /\ call \in [Call -> Calls] /\ faults \in 0..MaxFaults
      /\ p \in Hosts /\ InOrder(p) /\ p = host[h]
  BY <1>2, Types, Leftovers DEF IInv
<1> HIDE DEF p
<1>4. Append(p.outbox, p.running) \in Seq(Frame)
  BY <1>2, <1>3, Queues, Queue
<1>5. /\ q \in Hosts /\ q.key = p.key /\ q.lane = p.lane /\ q.faulty = p.faulty
      /\ q.alive = p.alive /\ q.nextId = p.nextId /\ q.inbox = p.inbox
      /\ q.running = None /\ q.outbox = Append(p.outbox, p.running)
  BY <1>1, <1>3, <1>4 DEF Hosts
<1>6. /\ InOrder(q) /\ Unread(q) = Unread(p)
      /\ \A j \in 1..Len(q.outbox) :
           \/ j \in 1..Len(p.outbox) /\ q.outbox[j] = p.outbox[j]
           \/ q.outbox[j] = p.running
  BY <1>2, <1>3, <1>5, PipeReplies
<1>7. /\ TypeOK' /\ HostsAreTheirs' /\ LaneIsHeld' /\ PipeIsOrdered'
      /\ SlotIsMine' /\ CounterIsExact'
  <2>1. faults' \in 0..MaxFaults /\ faults <= faults'
    BY <1>2, <1>3, Constants
  <2> QED
    BY <2>1, <1>2, <1>3, <1>5, <1>6, HostStays
<1>8. /\ host'[h] = q /\ \A g \in Host \ {h} : host'[g] = host[g]
  BY <1>2, <1>3
<1>9. CallsAreConsistent' /\ AnswersAreTrue'
  <2>1. \A g \in Host : host'[g].faulty = host[g].faulty
    BY <1>3, <1>5, <1>8
  <2> QED
    BY <2>1, <1>2
    DEF IInv, CallsAreConsistent, AnswersAreTrue, HostsAreTheirs, CallsUseTheirs
<1>10. FramesAreOwn'
  <2>1. ASSUME NEW d \in Call, call[d].pc = "receive"
        PROVE  OwnFrames(d, call[d], host'[call[d].host])
    <3>1. call[d].host \in Host /\ OwnFrames(d, call[d], host[call[d].host])
      BY <2>1 DEF IInv, HostsAreTheirs, CallsUseTheirs, FramesAreOwn
    <3>2. CASE call[d].host = h
      <4>1. OwnFrames(d, call[d], p)
        BY <3>1, <3>2, <1>3
      <4>2. OwnFrames(d, call[d], q)
        BY <4>1, <1>2, <1>5, <1>6 DEF OwnFrames
      <4> QED
        BY <3>2, <4>2, <1>8
    <3>3. CASE call[d].host # h
      BY <3>1, <3>3, <1>8
    <3> QED
      BY <3>2, <3>3
  <2> QED
    BY <2>1, <1>2 DEF FramesAreOwn
<1> QED
  BY <1>7, <1>9, <1>10 DEF IInv

\* The call whose request a host takes, if it still waits for it, has entered.
LEMMA HostTakesStep ==
  ASSUME IInv, NEW h \in Host, HostTakes(h)
  PROVE  IInv'
<1> DEFINE p == host[h]
           f == Head(p.inbox)
           c == f.of
<1>1. PICK q : q = [p EXCEPT !.running = f, !.inbox = Tail(p.inbox)]
  OBVIOUS
<1>2. /\ p.alive /\ p.running = None /\ p.inbox # <<>>
      /\ host' = [host EXCEPT ![h] = q]
      /\ call' = IF call[c].host = h /\ call[c].id = f.id
                 THEN [call EXCEPT ![c].entered = TRUE] ELSE call
      /\ UNCHANGED <<slot, activeHosts, faults>>
  BY <1>1 DEF HostTakes
<1>3. /\ host \in [Host -> Hosts] /\ call \in [Call -> Calls] /\ faults \in 0..MaxFaults
      /\ p \in Hosts /\ InOrder(p) /\ p = host[h]
  BY <1>2, Types, Leftovers DEF IInv
<1>4. /\ p.inbox \in Seq(Frame) /\ Tail(p.inbox) \in Seq(Frame) /\ f = p.inbox[1]
      /\ f \in Frame
  <2> HIDE DEF p
  <2>1. p.inbox \in Seq(Frame) /\ Len(p.inbox) \in Nat /\ Len(p.inbox) > 0
    BY <1>2, <1>3, Queues, EmptySeq
  <2>2. \E g : g \in Frame
    BY <2>1, ElementOfSeq
  <2> QED
    BY <1>2, <2>1, <2>2, Queue
<1>5. c \in Call /\ f.id \in 1..(IdSpace - 1) /\ f.of = c
  BY <1>4, Frames
<1> HIDE DEF p, f, c
<1>6. /\ q \in Hosts /\ q.key = p.key /\ q.lane = p.lane /\ q.faulty = p.faulty
      /\ q.alive = p.alive /\ q.nextId = p.nextId /\ q.inbox = Tail(p.inbox)
      /\ q.running = f /\ q.outbox = p.outbox
  BY <1>1, <1>3, <1>4 DEF Hosts
<1>7. /\ InOrder(q) /\ Unread(q) = Unread(p)
      /\ \A j \in 1..Len(q.inbox) : j + 1 \in 1..Len(p.inbox) /\ q.inbox[j] = p.inbox[j + 1]
      /\ 1 \in 1..Len(p.inbox) /\ q.running = p.inbox[1]
  BY <1>2, <1>3, <1>6, PipeTakes DEF f
<1>8. /\ call' \in [Call -> Calls]
      /\ \A d \in Call :
           /\ call'[d].pc = call[d].pc /\ call'[d].host = call[d].host
           /\ call'[d].key = call[d].key /\ call'[d].id = call[d].id
           /\ call'[d].answer = call[d].answer /\ (call[d].entered => call'[d].entered)
           /\ ~(d = c /\ call[d].host = h /\ call[d].id = f.id) => call'[d] = call[d]
      /\ call[c].host = h /\ call[c].id = f.id => call'[c].entered
  <2>1. CASE call[c].host = h /\ call[c].id = f.id
    <3>1. PICK r : r = [call[c] EXCEPT !.entered = TRUE]
      OBVIOUS
    <3>2. /\ r.pc = call[c].pc /\ r.host = call[c].host /\ r.key = call[c].key
          /\ r.id = call[c].id /\ r.answer = call[c].answer
      BY <1>3, <1>5, <3>1 DEF Calls
    <3>3. r \in Calls
      BY <1>3, <1>5, <3>1 DEF Calls
    <3>4. r.entered
      BY <1>3, <1>5, <3>1 DEF Calls
    <3>5. call' = [call EXCEPT ![c] = r]
      BY <1>2, <2>1, <3>1
    <3>6. /\ call' \in [Call -> Calls] /\ call'[c] = r
          /\ \A d \in Call \ {c} : call'[d] = call[d]
      BY <1>3, <1>5, <3>3, <3>5
    <3> QED
      BY <2>1, <3>2, <3>4, <3>6
  <2>2. CASE ~(call[c].host = h /\ call[c].id = f.id)
    <3>1. call' = call
      BY <1>2, <2>2
    <3> QED
      BY <2>2, <3>1, <1>3
  <2> QED
    BY <2>1, <2>2
<1>9. /\ TypeOK' /\ HostsAreTheirs' /\ LaneIsHeld' /\ PipeIsOrdered'
      /\ SlotIsMine' /\ CounterIsExact'
  <2>1. faults' \in 0..MaxFaults /\ faults <= faults'
    BY <1>2, <1>3, Constants
  <2> QED
    BY <2>1, <1>2, <1>3, <1>6, <1>7, <1>8, HostStays
<1>10. /\ host'[h] = q /\ \A g \in Host \ {h} : host'[g] = host[g]
  BY <1>2, <1>3, <1>6
<1>11. \A g \in Host : host'[g].faulty = host[g].faulty
  BY <1>3, <1>6, <1>10
<1>12. CallsAreConsistent' /\ AnswersAreTrue'
  <2>1. call[c].host = h /\ call[c].id = f.id => call[c].pc \in {"receive", "evict"}
    BY <1>5, Constants DEF IInv, CallsAreConsistent
  <2>2. ASSUME NEW d \in Call
        PROVE  /\ call'[d].pc \notin {"receive", "evict"} => call'[d].id = 0
               /\ call'[d].pc \in {"slot", "spawning", "lane", "send"} => ~call'[d].entered
               /\ call'[d].pc # "idle" => call'[d].answer = "none"
               /\ call'[d].pc = "evict" => host'[call'[d].host].faulty
               /\ call'[d].answer = "notExecuted" => ~call'[d].entered
               /\ call'[d].answer = "completed" => call'[d].entered
    <3>1. CASE call'[d] = call[d]
      BY <3>1, <1>11
      DEF IInv, CallsAreConsistent, AnswersAreTrue, HostsAreTheirs, CallsUseTheirs
    <3>2. CASE call'[d] # call[d]
      <4>1. call'[d].pc \in {"receive", "evict"} /\ call'[d].answer = "none"
        BY <3>2, <2>1, <1>8 DEF IInv, CallsAreConsistent
      <4>2. call'[d].pc = "evict" => host'[call'[d].host].faulty
        BY <1>8, <1>11 DEF IInv, CallsAreConsistent, HostsAreTheirs, CallsUseTheirs
      <4> QED
        BY <4>1, <4>2
    <3> QED
      BY <3>1, <3>2
  <2> QED
    BY <2>2 DEF CallsAreConsistent, AnswersAreTrue
<1>13. FramesAreOwn'
  <2>1. ASSUME NEW d \in Call, call'[d].pc = "receive"
        PROVE  OwnFrames(d, call'[d], host'[call'[d].host])
    <3>1. /\ call[d].host \in Host /\ OwnFrames(d, call[d], host[call[d].host])
          /\ call'[d].host = call[d].host /\ call'[d].id = call[d].id
      BY <2>1, <1>8 DEF IInv, HostsAreTheirs, CallsUseTheirs, FramesAreOwn
    <3>2. CASE call[d].host = h
      <4>1. OwnFrames(d, call[d], p)
        BY <3>1, <3>2, <1>3
      <4>2. \A j \in 1..Len(q.inbox) : q.inbox[j].id = call[d].id => q.inbox[j].of = d
        BY <4>1, <1>7 DEF OwnFrames
      <4>3. q.running.id = call[d].id => q.running.of = d /\ call'[d].entered
        <5>1. q.running.id = call[d].id => q.running.of = d
          BY <4>1, <1>7 DEF OwnFrames
        <5> QED
          BY <5>1, <3>2, <1>5, <1>6, <1>8
      <4>4. \A j \in 1..Len(q.outbox) :
              q.outbox[j].id = call[d].id => q.outbox[j].of = d /\ call'[d].entered
        BY <4>1, <1>6, <1>8 DEF OwnFrames
      <4>5. OwnFrames(d, call'[d], q)
        BY <3>1, <4>2, <4>3, <4>4 DEF OwnFrames
      <4> QED
        BY <3>1, <3>2, <4>5, <1>10
    <3>3. CASE call[d].host # h
      BY <3>1, <3>3, <1>8, <1>10
    <3> QED
      BY <3>2, <3>3
  <2> QED
    BY <2>1 DEF FramesAreOwn
<1> QED
  BY <1>9, <1>12, <1>13 DEF IInv

-----------------------------------------------------------------------------
\* The invariant and the theorems.

LEMMA NextInv == IInv /\ [Next]_vars => IInv'
<1> SUFFICES ASSUME IInv, [Next]_vars PROVE IInv'
  OBVIOUS
<1>1. ASSUME NEW c \in Call, NEW k \in Key, NEW force \in BOOLEAN, Begin(c, k, force)
      PROVE  IInv'
  BY <1>1, BeginStep
<1>2. ASSUME NEW c \in Call, CallProgress(c)
      PROVE  IInv'
  BY <1>2, AcquireSlotStep, SpawnSucceedsStep, SpawnFailsStep, AcquireLaneStep,
     LaneTimeoutStep, SendStep, ReceiveStep, ReceiveWrongIdStep, PipeBreaksStep,
     TimeoutStep, EvictStep
  DEF CallProgress
<1>3. ASSUME NEW k \in Key, BackoffEnds(k) \/ Stop({k})
      PROVE  IInv'
  BY <1>3, BackoffEndsStep, StopStep
<1>4. CASE Stop(Key)
  BY <1>4, StopStep
<1>5. ASSUME NEW h \in Host, HostTakes(h) \/ HostReplies(h) \/ HostDies(h)
      PROVE  IInv'
  BY <1>5, HostTakesStep, HostRepliesStep, HostDiesStep
<1>6. CASE UNCHANGED vars
  BY <1>6
  DEF vars, IInv, TypeOK, SlotIsMine, HostsAreTheirs, SlotsHoldTheirs, CallsUseTheirs,
      LaneIsHeld, CallsAreConsistent, CounterIsExact, AnswersAreTrue, PipeIsOrdered,
      FramesAreOwn, Starting
<1> QED
  BY <1>1, <1>2, <1>3, <1>4, <1>5, <1>6 DEF Next

LEMMA Invariance == Spec => []IInv
  BY InitInv, NextInv, PTL DEF Spec

\* A key has one host at a time in its slot, which is counted while it is
\* ready, and what a call is told of its execution is what happened in a host.
THEOREM HostsAccountedFor == Spec => []HostsAreAccountedFor
<1>1. IInv => HostsAreAccountedFor
  <2>1. IInv => StartIsSingleFlight
    <3> SUFFICES ASSUME IInv PROVE StartIsSingleFlight
      OBVIOUS
    <3>1. \A c \in Call : Starting(c).lock = c
      BY DEF Starting, Vacant
    <3> QED
      BY <3>1, StartsAreMine DEF IInv, SlotIsMine, StartIsSingleFlight
  <2> QED
    BY <2>1 DEF IInv, HostsAreAccountedFor
<1> QED
  BY <1>1, Invariance, PTL

\* A call takes only the response of its own request.
LEMMA OwnResponse ==
  ASSUME IInv, [Next]_vars, NEW c \in Call, call[c].pc = "receive",
         call'[c].answer = "completed"
  PROVE  Head(host[call[c].host].outbox).of = c
<1>1. call[c].answer = "none" /\ call \in [Call -> Calls]
  BY Types DEF IInv, CallsAreConsistent
<1>2. CASE Receive(c)
  BY <1>2, ReceiveIsOwn
<1>3. CASE ReceiveWrongId(c) \/ PipeBreaks(c) \/ Timeout(c)
  <2>1. call' = [call EXCEPT ![c].pc = "evict"]
    BY <1>3 DEF ReceiveWrongId, PipeBreaks, Timeout, Broken
  <2>2. call'[c].answer = "none"
    BY <2>1, <1>1 DEF Calls
  <2> QED
    BY <2>2
<1>4. ASSUME CallProgress(c)
      PROVE  Receive(c) \/ ReceiveWrongId(c) \/ PipeBreaks(c) \/ Timeout(c)
  BY <1>4
  DEF CallProgress, AcquireSlot, SpawnSucceeds, SpawnFails, AcquireLane, LaneTimeout, Send,
      Evict
<1>5. ASSUME NEW d \in Call, d # c, CallProgress(d)
      PROVE  call'[c] = call[c]
  BY <1>1, <1>5
  DEF CallProgress, AcquireSlot, UseHost, SpawnSucceeds, SpawnFails, AcquireLane,
      LaneTimeout, Send, Receive, ReceiveWrongId, PipeBreaks, Timeout, Broken, Evict, End
<1>6. ASSUME NEW d \in Call, NEW k \in Key, NEW force \in BOOLEAN, Begin(d, k, force)
      PROVE  call'[c] = call[c]
  BY <1>1, <1>6 DEF Begin
<1>7. ASSUME NEW h \in Host, HostTakes(h) \/ HostReplies(h) \/ HostDies(h)
      PROVE  call'[c].answer = call[c].answer
  <2>1. CASE HostTakes(h)
    <3>1. PICK d : \/ call' = [call EXCEPT ![d].entered = TRUE]
                   \/ call' = call
      BY <2>1 DEF HostTakes
    <3> QED
      BY <3>1, <1>1 DEF Calls
  <2>2. CASE HostReplies(h) \/ HostDies(h)
    BY <2>2 DEF HostReplies, HostDies
  <2> QED
    BY <1>7, <2>1, <2>2
<1>8. ASSUME UNCHANGED vars \/ (\E k \in Key : BackoffEnds(k) \/ Stop({k})) \/ Stop(Key)
      PROVE  call' = call
  BY <1>8 DEF vars, BackoffEnds, Stop
<1>9. \/ \E d \in Call : CallProgress(d)
      \/ \E d \in Call, k \in Key, force \in BOOLEAN : Begin(d, k, force)
      \/ \E h \in Host : HostTakes(h) \/ HostReplies(h) \/ HostDies(h)
      \/ UNCHANGED vars \/ (\E k \in Key : BackoffEnds(k) \/ Stop({k})) \/ Stop(Key)
  BY DEF Next
<1>10. CASE \E d \in Call : CallProgress(d)
  BY <1>1, <1>2, <1>3, <1>4, <1>5, <1>10
<1>11. CASE \/ \E d \in Call, k \in Key, force \in BOOLEAN : Begin(d, k, force)
            \/ \E h \in Host : HostTakes(h) \/ HostReplies(h) \/ HostDies(h)
            \/ UNCHANGED vars \/ (\E k \in Key : BackoffEnds(k) \/ Stop({k})) \/ Stop(Key)
  <2>1. call'[c].answer = call[c].answer
    BY <1>6, <1>7, <1>8, <1>11
  <2> QED
    BY <2>1, <1>1
<1> QED
  BY <1>9, <1>10, <1>11

\* Only a host some call failed on is evicted.
LEMMA FaultyHostGoes ==
  ASSUME IInv, [Next]_vars, NEW k \in Key, slot[k].state = "ready", slot'[k].state = "failed"
  PROVE  host[slot[k].host].faulty
<1>1. slot \in [Key -> Slots]
  BY Types DEF IInv
<1>2. Vacant.state = "vacant" /\ \A c \in Call : Starting(c).state = "vacant"
  BY DEF Vacant, Starting
<1>3. ASSUME NEW c \in Call, Evict(c)
      PROVE  host[slot[k].host].faulty
  <2>1. call[c].pc = "evict" /\ Owns(c) /\ slot' = [slot EXCEPT ![call[c].key] = Cooling]
    BY <1>3 DEF Evict
  <2>2. call[c].key = k
    BY <2>1, <1>1
  <2> QED
    BY <2>1, <2>2 DEF IInv, CallsAreConsistent, Owns
<1>4. ASSUME NEW c \in Call, AcquireSlot(c)
      PROVE  slot'[k] = slot[k] \/ slot'[k].state = "vacant"
  BY <1>1, <1>2, <1>4 DEF AcquireSlot
<1>5. ASSUME NEW c \in Call, SpawnSucceeds(c)
      PROVE  slot'[k] = slot[k]
  <2>1. call[c].pc = "spawning" /\ call[c].key # k
    BY <1>5, StartsAreMine DEF SpawnSucceeds
  <2> QED
    BY <1>1, <1>5, <2>1 DEF SpawnSucceeds
<1>6. ASSUME NEW c \in Call, SpawnFails(c)
      PROVE  slot'[k] = slot[k]
  <2>1. call[c].pc = "spawning" /\ call[c].key # k
    BY <1>6, StartsAreMine DEF SpawnFails
  <2> QED
    BY <1>1, <1>6, <2>1 DEF SpawnFails
<1>7. ASSUME NEW c \in Call, CallProgress(c), ~AcquireSlot(c), ~SpawnSucceeds(c),
             ~SpawnFails(c), ~Evict(c)
      PROVE  slot' = slot
  BY <1>7
  DEF CallProgress, AcquireLane, LaneTimeout, Send, Receive, ReceiveWrongId, PipeBreaks,
      Timeout, Broken
<1>8. ASSUME NEW j \in Key, BackoffEnds(j)
      PROVE  slot'[k] = slot[k]
  BY <1>1, <1>8 DEF BackoffEnds
<1>9. ASSUME NEW keys \in SUBSET Key, Stop(keys)
      PROVE  slot'[k] = slot[k] \/ slot'[k].state = "vacant"
  BY <1>2, <1>9 DEF Stop
<1>10. ASSUME NEW h \in Host, HostTakes(h) \/ HostReplies(h) \/ HostDies(h)
       PROVE  slot' = slot
  BY <1>10 DEF HostTakes, HostReplies, HostDies
<1>11. ASSUME NEW c \in Call, NEW j \in Key, NEW force \in BOOLEAN, Begin(c, j, force)
       PROVE  slot' = slot
  BY <1>11 DEF Begin
<1>12. CASE \E c \in Call : CallProgress(c)
  BY <1>3, <1>4, <1>5, <1>6, <1>7, <1>12
<1>13. CASE ~\E c \in Call : CallProgress(c)
  <2>1. slot'[k] = slot[k] \/ slot'[k].state = "vacant"
    BY <1>8, <1>9, <1>10, <1>11, <1>13 DEF Next, vars
  <2> QED
    BY <2>1
<1> QED
  BY <1>12, <1>13

\* Neither a response nor a failure is attributed to another call or host than
\* the one it came from.
THEOREM OwnOutcomes == Spec => OutcomesAreOwn
<1>1. IInv /\ [Next]_vars =>
        [\A c \in Call : call[c].pc = "receive" /\ call'[c].answer = "completed"
           => Head(host[call[c].host].outbox).of = c]_vars
  BY OwnResponse
<1>2. IInv /\ [Next]_vars =>
        [\A k \in Key : slot[k].state = "ready" /\ slot'[k].state = "failed"
           => host[slot[k].host].faulty]_vars
  BY FaultyHostGoes
<1> QED
  BY <1>1, <1>2, Invariance, PTL DEF Spec, OutcomesAreOwn, ResponseIsOwn, HealthyHostsStay

=============================================================================
