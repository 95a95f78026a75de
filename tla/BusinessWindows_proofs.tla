---------------------- MODULE BusinessWindows_proofs ----------------------
(***************************************************************************)
(* Proofs about the desktop shell, for any number of configurations,       *)
(* origins, windows, events and failures: the records of the desktop are   *)
(* those of the windows there are, the system agrees with the              *)
(* configuration, and no page of a configuration that was replaced stays.  *)
(***************************************************************************)
EXTENDS BusinessWindows, FiniteSetTheorems, TLAPS

-----------------------------------------------------------------------------
(* The replacement of the configuration.                                   *)

\* What a replacement may leave: all of the new configuration, or with one
\* failure all of the old one.
LEMMA ReplacementsFit ==
  ASSUME NEW old, NEW new, NEW r \in Replacements(old, new)
  PROVE  /\ r.failed \in Nat
         /\ r.ok => r.keys = new.keys /\ r.autostart = new.autoStart /\ r.failed = 0
         /\ ~r.ok => r.failed > 0
         /\ ~r.ok /\ r.failed = 1 /\ keys = old.keys /\ autostart = old.autoStart =>
              r.keys = old.keys /\ r.autostart = old.autoStart
<1>1. ASSUME NEW a, NEW b, NEW s \in Register(a, b)
      PROVE  /\ s.failed \in Nat /\ (s.ok => s.keys = a /\ s.failed = 0) /\ (~s.ok => s.failed > 0)
             /\ s.failed = 0 => s.ok
             /\ ~s.ok /\ s.failed = 1 => s.keys = b
      BY DEF Register
<1>2. ASSUME NEW a, NEW b, NEW s \in Autostarts(a, b)
      PROVE  /\ s.failed \in Nat /\ (s.ok => s.autostart = b /\ s.failed = 0) /\ (~s.ok => s.failed > 0)
             /\ s.failed = 0 => s.ok
      BY DEF Autostarts
<1>3. ASSUME NEW k, NEW a, NEW oldKeys, NEW oldAuto, NEW s \in Restored(k, a, oldKeys, oldAuto, 1)
      PROVE  /\ ~s.ok /\ s.failed \in Nat /\ s.failed > 0
             /\ s.failed = 1 => s.keys = oldKeys /\ s.autostart = oldAuto
  <2>1. PICK x \in Register(oldKeys, {}), y \in Autostarts(a, oldAuto) :
          s = [keys |-> x.keys, autostart |-> y.autostart, ok |-> FALSE, failed |-> 1 + x.failed + y.failed]
        BY <1>3 DEF Restored
  <2>2. x.failed \in Nat /\ (x.failed = 0 => x.keys = oldKeys)
        BY <1>1
  <2>3. y.failed \in Nat /\ (y.failed = 0 => y.autostart = oldAuto)
        BY <1>2
  <2>4. s.keys = x.keys /\ s.autostart = y.autostart /\ s.ok = FALSE /\ s.failed = 1 + x.failed + y.failed
        BY <2>1
  <2> QED
      BY <2>2, <2>3, <2>4
<1>4. PICK x \in Register(new.keys, old.keys) :
        \/ ~x.ok /\ r = [keys |-> x.keys, autostart |-> autostart, ok |-> FALSE, failed |-> x.failed]
        \/ x.ok /\ \E s \in Register(old.keys, {}) :
             r = [keys |-> s.keys, autostart |-> autostart, ok |-> FALSE, failed |-> 1 + s.failed]
        \/ x.ok /\ \E s \in Autostarts(autostart, new.autoStart) :
             \/ r \in Restored(new.keys, s.autostart, old.keys, autostart, 1)
             \/ s.ok /\ r = [keys |-> new.keys, autostart |-> s.autostart, ok |-> TRUE, failed |-> 0]
      BY DEF Replacements
<1>5. CASE ~x.ok /\ r = [keys |-> x.keys, autostart |-> autostart, ok |-> FALSE, failed |-> x.failed]
      BY <1>1, <1>5
<1>6. CASE \E s \in Register(old.keys, {}) :
             r = [keys |-> s.keys, autostart |-> autostart, ok |-> FALSE, failed |-> 1 + s.failed]
  <2>1. PICK s \in Register(old.keys, {}) :
             r = [keys |-> s.keys, autostart |-> autostart, ok |-> FALSE, failed |-> 1 + s.failed]
        BY <1>6
  <2>2. s.failed \in Nat /\ (s.failed = 0 => s.keys = old.keys)
        BY <1>1
  <2>3. r.keys = s.keys /\ r.autostart = autostart /\ r.ok = FALSE /\ r.failed = 1 + s.failed
        BY <2>1
  <2> QED
      BY <2>2, <2>3
<1>7. CASE \E s : r \in Restored(new.keys, s.autostart, old.keys, autostart, 1)
      BY <1>3, <1>7
<1>8. CASE \E s \in Autostarts(autostart, new.autoStart) :
             s.ok /\ r = [keys |-> new.keys, autostart |-> s.autostart, ok |-> TRUE, failed |-> 0]
      BY <1>2, <1>8
<1> QED
    BY <1>4, <1>5, <1>6, <1>7, <1>8

-----------------------------------------------------------------------------
(* Threads and their jobs.                                                 *)

LEMMA ThreadsAre == "main" \in Thread /\ "config" \in Thread /\ "sso" \in Thread
BY DEF Thread

LEMMA StepsAre ==
  /\ StepsOf("config") = {"idle", "replace", "list", "destroy"}
  /\ StepsOf("sso") = {"idle", "request", "response", "check processes", "snapshot", "build", "install"}
  /\ StepsOf("main") = {"idle", "check processes", "snapshot", "build", "install", "list", "destroy",
                        "retry"} \cup FloatingSteps
BY DEF StepsOf

LEMMA NoJobIs == NoJob \in JobType /\ NoJob.todo = {} /\ NoJob.raced = FALSE
BY DEF NoJob, JobType

Moves(t, step, j) == at' = [at EXCEPT ![t] = step] /\ job' = [job EXCEPT ![t] = j]

\* A thread goes on, and the others stay where they are.
LEMMA MovedIs ==
  ASSUME JobsFit, NEW t \in Thread, NEW step, NEW j, Moves(t, step, j)
  PROVE  /\ at'[t] = step /\ job'[t] = j
         /\ \A u \in Thread \ {t} : at'[u] = at[u] /\ job'[u] = job[u]
BY DEF JobsFit, Moves

LEMMA JobsMove ==
  ASSUME JobsFit, NEW t \in Thread, NEW step, step \in StepsOf(t), NEW j \in JobType, Moves(t, step, j),
         nextId \in Nat, nextId' \in Nat, nextId <= nextId', JobFits(step, j)'
  PROVE  JobsFit'
<1>1. StepsOf(t) \subseteq UNION {StepsOf(u) : u \in Thread}
      OBVIOUS
<1>2. at' \in [Thread -> UNION {StepsOf(u) : u \in Thread}] /\ job' \in [Thread -> JobType]
      BY <1>1 DEF JobsFit, Moves
<1>3. ASSUME NEW u \in Thread
      PROVE  at'[u] \in StepsOf(u) /\ JobFits(at[u], job[u])'
  <2>1. CASE u = t
        BY <2>1, MovedIs
  <2>2. CASE u # t
    <3>1. at'[u] = at[u] /\ job'[u] = job[u]
          BY <2>2, MovedIs
    <3>2. at[u] \in StepsOf(u) /\ JobFits(at[u], job[u])
          BY DEF JobsFit
    <3> QED
        BY <3>1, <3>2 DEF JobFits
  <2> QED
      BY <2>1, <2>2
<1> QED
    BY <1>2, <1>3 DEF JobsFit

\* The jobs stay as they are.
LEMMA JobsStay ==
  ASSUME JobsFit, UNCHANGED threads, nextId \in Nat, nextId' \in Nat, nextId <= nextId'
  PROVE  JobsFit'
<1>1. at' = at /\ job' = job
      BY DEF threads
<1>2. \A u \in Thread : JobFits(at[u], job[u]) => JobFits(at[u], job[u])'
      BY <1>1 DEF JobFits
<1> QED
    BY <1>1, <1>2 DEF JobsFit

LEMMA EndIs ==
  ASSUME NEW t, End(t)
  PROVE  Moves(t, "idle", NoJob)
BY DEF End, Moves

LEMMA GoIs ==
  ASSUME JobsFit, NEW t \in Thread, NEW step, Go(t, step)
  PROVE  Moves(t, step, job[t])
BY DEF Go, Moves, JobsFit

LEMMA IdleFits == JobFits("idle", NoJob)' /\ \A t \in Thread : "idle" \in StepsOf(t)
BY NoJobIs, StepsAre DEF JobFits, AskingSteps, LabelledSteps, FloatingSteps, Thread

\* Labels and events.
LEMMA LabelsMove ==
  ASSUME LabelsSuffice, JobsFit, NEW t \in Thread, NEW step, NEW j, Moves(t, step, j),
         NEW d \in {0, 1}, nextId' = nextId + d,
         NEW e \in {0, 1}, events' = events + e, events' <= MaxEvents, faults' \in Nat,
         d + Asked(step) <= Asked(at[t]) + e,
         t = "config" => d = 0
  PROVE  LabelsSuffice'
<1>1. /\ events \in 0..MaxEvents /\ nextId \in Nat \ {0}
      /\ nextId + Asked(at["main"]) + Asked(at["sso"]) <= events + 1
      BY DEF LabelsSuffice
<1>2. \A s : Asked(s) \in {0, 1}
      BY DEF Asked
<1>3. events' \in 0..MaxEvents /\ nextId' \in Nat \ {0}
      BY <1>1, WindowsAssumption
<1>4. nextId' + Asked(at'["main"]) + Asked(at'["sso"]) <= events' + 1
  <2>1. CASE t = "main"
    <3>1. at'["main"] = step /\ at'["sso"] = at["sso"]
          BY <2>1, MovedIs, ThreadsAre
    <3> QED
        BY <1>1, <1>2, <2>1, <3>1
  <2>2. CASE t = "sso"
    <3>1. at'["sso"] = step /\ at'["main"] = at["main"]
          BY <2>2, MovedIs, ThreadsAre
    <3> QED
        BY <1>1, <1>2, <2>2, <3>1
  <2>3. CASE t = "config"
    <3>1. at'["sso"] = at["sso"] /\ at'["main"] = at["main"]
          BY <2>3, MovedIs, ThreadsAre
    <3> QED
        BY <1>1, <1>2, <2>3, <3>1
  <2> QED
      BY <2>1, <2>2, <2>3 DEF Thread
<1> QED
    BY <1>3, <1>4 DEF LabelsSuffice

LEMMA LabelsStay ==
  ASSUME LabelsSuffice, at' = at, nextId' = nextId, NEW e \in {0, 1}, events' = events + e,
         events' <= MaxEvents, faults' \in Nat
  PROVE  LabelsSuffice'
<1>1. \A s : Asked(s) \in {0, 1}
      BY DEF Asked
<1>2. MaxEvents \in Nat
      BY WindowsAssumption
<1> QED
    BY <1>1, <1>2 DEF LabelsSuffice

LEMMA SpendIs ==
  ASSUME LabelsSuffice, Spend
  PROVE  events' = events + 1 /\ events' <= MaxEvents /\ faults' \in Nat /\ faults' = faults
BY WindowsAssumption DEF Spend, LabelsSuffice

LEMMA FaultIs ==
  ASSUME LabelsSuffice, Fault
  PROVE  events' = events + 0 /\ events' <= MaxEvents /\ faults' \in Nat /\ faults' = faults + 1
BY WindowsAssumption DEF Fault, LabelsSuffice

LEMMA NoneIs ==
  ASSUME LabelsSuffice, UNCHANGED bounds
  PROVE  events' = events + 0 /\ events' <= MaxEvents /\ faults' \in Nat /\ faults' = faults
BY WindowsAssumption DEF bounds, LabelsSuffice

ThreadsInv == LabelsSuffice /\ JobsFit

\* A thread takes a step: d labels are taken for e events.
LEMMA ThreadsMove ==
  ASSUME ThreadsInv, NEW t \in Thread, NEW step, step \in StepsOf(t), NEW j \in JobType,
         Moves(t, step, j), NEW d \in {0, 1}, nextId' = nextId + d, NEW e \in {0, 1},
         events' = events + e, events' <= MaxEvents, faults' \in Nat,
         d + Asked(step) <= Asked(at[t]) + e, t = "config" => d = 0, JobFits(step, j)'
  PROVE  ThreadsInv'
<1>1. nextId \in Nat /\ nextId' \in Nat /\ nextId <= nextId'
      BY DEF ThreadsInv, LabelsSuffice
<1>2. JobsFit'
      BY <1>1, JobsMove DEF ThreadsInv
<1>3. LabelsSuffice'
      BY LabelsMove DEF ThreadsInv
<1> QED
    BY <1>2, <1>3 DEF ThreadsInv

LEMMA AskedIs == \A step : Asked(step) \in {0, 1} /\ (step \in AskingSteps <=> Asked(step) = 1)
BY DEF Asked

LEMMA AskedLess ==
  ASSUME NEW s, NEW r, s \in AskingSteps => r \in AskingSteps
  PROVE  Asked(s) <= Asked(r)
BY DEF Asked

\* A thread ends its work.
LEMMA ThreadsEnd ==
  ASSUME ThreadsInv, NEW t \in Thread, End(t), nextId' = nextId, NEW e \in {0, 1},
         events' = events + e, events' <= MaxEvents, faults' \in Nat
  PROVE  ThreadsInv'
<1>1. Moves(t, "idle", NoJob) /\ JobFits("idle", NoJob)' /\ "idle" \in StepsOf(t)
      BY EndIs, IdleFits
<1>2. NoJob \in JobType /\ nextId' = nextId + 0
      BY NoJobIs DEF ThreadsInv, LabelsSuffice
<1>3. 0 + Asked("idle") <= Asked(at[t]) + e
  <2>1. "idle" \notin AskingSteps
        BY DEF AskingSteps
  <2> QED
      BY <2>1, AskedIs
<1> QED
    BY <1>1, <1>2, <1>3, ThreadsMove

LEMMA ThreadsStay ==
  ASSUME ThreadsInv, UNCHANGED threads, nextId' = nextId, NEW e \in {0, 1}, events' = events + e,
         events' <= MaxEvents, faults' \in Nat
  PROVE  ThreadsInv'
<1>1. nextId \in Nat /\ at' = at
      BY DEF ThreadsInv, LabelsSuffice, threads
<1>2. JobsFit' /\ LabelsSuffice'
      BY <1>1, JobsStay, LabelsStay DEF ThreadsInv
<1> QED
    BY <1>2 DEF ThreadsInv

\* A window is asked for.
LEMMA AskThreads ==
  ASSUME ThreadsInv, NEW t \in Thread, NEW step, step \in StepsOf(t) \cap AskingSteps,
         NEW j \in JobType, GoWith(t, step, j), j.url \in Origin, j.todo = {}, Spend,
         step \in FloatingSteps => j.id \in FloatingId, UNCHANGED nextId
  PROVE  ThreadsInv'
<1>1. Moves(t, step, j) /\ nextId' = nextId + 0
      BY DEF GoWith, Moves, ThreadsInv, LabelsSuffice
<1>2. events' = events + 1 /\ events' <= MaxEvents /\ faults' \in Nat
      BY SpendIs DEF ThreadsInv
<1>3. JobFits(step, j)'
      BY DEF JobFits, AskingSteps, LabelledSteps
<1>4. 0 + Asked(step) <= Asked(at[t]) + 1
      BY AskedIs
<1> QED
    BY <1>1, <1>2, <1>3, <1>4, ThreadsMove

LEMMA OpenConfiguredThreads ==
  ASSUME ThreadsInv, NEW url \in Origin, OpenConfigured(url)
  PROVE  ThreadsInv'
<1>1. PICK j : j = [NoJob EXCEPT !.url = url]
      OBVIOUS
<1>2. j \in JobType /\ j.todo = {} /\ j.url \in Origin
      BY <1>1 DEF JobType, NoJob
<1>3. "check processes" \in StepsOf("main") \cap AskingSteps /\ "check processes" \notin FloatingSteps
      BY StepsAre DEF AskingSteps, FloatingSteps
<1>4. GoWith("main", "check processes", j) /\ Spend /\ UNCHANGED nextId
      BY <1>1 DEF OpenConfigured, shell
<1> QED
    BY <1>2, <1>3, <1>4, AskThreads, ThreadsAre

LEMMA OpenSecondaryThreads ==
  ASSUME ThreadsInv, WindowsFit, NEW url \in Origin, NEW l \in Labels,
         OpenSecondary(l, url) \/ \E id \in FloatingId : ShowFloating(l, id, url)
  PROVE  ThreadsInv'
<1>1. l \in Nat
      BY DEF WindowsFit, ThreadsInv, LabelsSuffice
<1>2. OfBefore(l) \in BOOLEAN
      BY DEF OfBefore, WindowsFit, WindowType, ResetRequired
<1>3. CASE OpenSecondary(l, url)
  <2>1. PICK j : j = [NoJob EXCEPT !.url = url, !.parent = l, !.raced = OfBefore(l)]
        OBVIOUS
  <2>2. j \in JobType /\ j.todo = {} /\ j.url \in Origin
        BY <1>1, <1>2, <2>1 DEF JobType, NoJob
  <2>3. "snapshot" \in StepsOf("main") \cap AskingSteps /\ "snapshot" \notin FloatingSteps
        BY StepsAre DEF AskingSteps, FloatingSteps
  <2>4. GoWith("main", "snapshot", j) /\ Spend /\ UNCHANGED nextId
        BY <1>3, <2>1 DEF OpenSecondary, shell
  <2> QED
      BY <2>2, <2>3, <2>4, AskThreads, ThreadsAre
<1>4. CASE \E id \in FloatingId : ShowFloating(l, id, url)
  <2>1. PICK id \in FloatingId : ShowFloating(l, id, url)
        BY <1>4
  <2>2. PICK j : j = [NoJob EXCEPT !.url = url, !.parent = l, !.id = id, !.raced = OfBefore(l)]
        OBVIOUS
  <2>3. j \in JobType /\ j.todo = {} /\ j.url \in Origin /\ j.id \in FloatingId
        BY <1>1, <1>2, <2>2 DEF JobType, NoJob
  <2>4. "snapshot floating" \in StepsOf("main") \cap AskingSteps
        BY StepsAre DEF AskingSteps, FloatingSteps
  <2>5. GoWith("main", "snapshot floating", j) /\ Spend /\ UNCHANGED nextId
        BY <2>1, <2>2 DEF ShowFloating, shell
  <2> QED
      BY <2>3, <2>4, <2>5, AskThreads, ThreadsAre
<1> QED
    BY <1>3, <1>4

LEMMA NextLabel ==
  ASSUME NEW n \in Nat \ {0}, NEW m, m = n + 1
  PROVE  1..(n - 1) \subseteq 1..(m - 1) /\ n \in 1..(m - 1)
OBVIOUS

LEMMA TakingIs ==
  ASSUME NEW s, NEW r, s \notin AskingSteps, r \in AskingSteps
  PROVE  1 + Asked(s) <= Asked(r) + 0
BY DEF Asked

\* The label of a window is taken.
LEMMA TakeThreads ==
  ASSUME ThreadsInv, NEW t \in Thread, t # "config", NEW step, step \in {"build", "build floating"},
         at[t] = IF step = "build" THEN "snapshot" ELSE "snapshot floating",
         config \in Config, job[t].url \in BusinessOrigins(config),
         NEW j, j = [job[t] EXCEPT !.seen = config, !.label = nextId],
         GoWith(t, step, j), nextId' = nextId + 1, UNCHANGED bounds
  PROVE  ThreadsInv'
<1>1. nextId \in Nat \ {0} /\ job[t] \in JobType /\ JobFits(at[t], job[t]) /\ at[t] \in StepsOf(t)
      BY DEF ThreadsInv, LabelsSuffice, JobsFit
<1>2. /\ j \in JobType /\ j.seen = config /\ j.label = nextId /\ j.url = job[t].url
      /\ j.todo = job[t].todo /\ j.id = job[t].id
      BY <1>1 DEF JobType
<1>3. step \in StepsOf(t)
      BY <1>1, StepsAre DEF FloatingSteps, Thread
<1>4. Moves(t, step, j)
      BY DEF GoWith, Moves
<1>5. job[t].todo \subseteq 1..(nextId - 1)
      BY <1>1 DEF JobFits
<1>6. j.todo \subseteq 1..(nextId' - 1) /\ nextId \in 1..(nextId' - 1)
      BY <1>1, <1>2, <1>5, NextLabel
<1>7. step \in FloatingSteps => j.id \in FloatingId
      BY <1>1, <1>2 DEF JobFits, FloatingSteps
<1>8. step # "replace" /\ step \notin AskingSteps /\ at[t] \in AskingSteps
      BY DEF AskingSteps
<1>9. JobFits(step, j)'
      BY <1>2, <1>6, <1>7, <1>8 DEF JobFits
<1>10. events' = events + 0 /\ events' <= MaxEvents /\ faults' \in Nat
      BY NoneIs DEF ThreadsInv
<1>11. 1 + Asked(step) <= Asked(at[t]) + 0
      BY <1>8, TakingIs
<1> QED
    BY <1>2, <1>3, <1>4, <1>9, <1>10, <1>11, ThreadsMove

\* A step that needs nothing new.
LEMMA GoThreads ==
  ASSUME ThreadsInv, NEW t \in Thread, NEW step, step \in StepsOf(t), Go(t, step), nextId' = nextId,
         UNCHANGED bounds, Asked(step) <= Asked(at[t]),
         step # "replace",
         step \in AskingSteps \ {"request"} => at[t] \in AskingSteps \ {"request"},
         step \in LabelledSteps => at[t] \in LabelledSteps,
         step \in FloatingSteps => at[t] \in FloatingSteps
  PROVE  ThreadsInv'
<1>1. Moves(t, step, job[t])
      BY GoIs DEF ThreadsInv
<1>2. job[t] \in JobType /\ JobFits(at[t], job[t])
      BY DEF ThreadsInv, JobsFit
<1>3. JobFits(step, job[t])
      BY <1>2 DEF JobFits
<1>4. \A j : JobFits(step, j) => JobFits(step, j)'
      BY DEF JobFits
<1>5. events' = events + 0 /\ events' <= MaxEvents /\ faults' \in Nat
      BY NoneIs DEF ThreadsInv
<1>6. nextId' = nextId + 0
      BY DEF ThreadsInv, LabelsSuffice
<1>7. 0 + Asked(step) <= Asked(at[t]) + 0
      BY AskedIs
<1> QED
    BY <1>1, <1>2, <1>3, <1>4, <1>5, <1>6, <1>7, ThreadsMove

LEMMA SnapshotThreads ==
  ASSUME ThreadsInv, config \in Config,
         (\E t \in Thread : Snapshot(t)) \/ SnapshotFloating
  PROVE  ThreadsInv'
<1>1. ASSUME NEW t \in Thread, Snapshot(t)
      PROVE  ThreadsInv'
  <2>1. at[t] = "snapshot" /\ UNCHANGED bounds
        BY <1>1 DEF Snapshot
  <2>2. t # "config"
        BY <2>1, StepsAre DEF ThreadsInv, JobsFit
  <2>3. CASE job[t].url \in BusinessOrigins(config) /\ HasRoom
    <3>1. PICK j : j = [job[t] EXCEPT !.seen = config, !.label = nextId]
          OBVIOUS
    <3>2. GoWith(t, "build", j) /\ nextId' = nextId + 1
          BY <1>1, <2>3, <3>1 DEF Snapshot, Reserve
    <3> QED
        BY <2>1, <2>2, <2>3, <3>1, <3>2, TakeThreads
  <2>4. CASE ~(job[t].url \in BusinessOrigins(config) /\ HasRoom)
    <3>1. End(t) /\ nextId' = nextId
          BY <1>1, <2>4 DEF Snapshot
    <3> QED
        BY <2>1, <3>1, NoneIs, ThreadsEnd DEF ThreadsInv
  <2> QED
      BY <2>3, <2>4
<1>2. ASSUME SnapshotFloating
      PROVE  ThreadsInv'
  <2>1. at["main"] = "snapshot floating" /\ UNCHANGED bounds
        BY <1>2 DEF SnapshotFloating
  <2>2. CASE job["main"].url \in BusinessOrigins(config)
    <3>1. PICK j : j = [job["main"] EXCEPT !.seen = config, !.label = nextId]
          OBVIOUS
    <3>2. GoWith("main", "build floating", j) /\ nextId' = nextId + 1
          BY <1>2, <2>2, <3>1 DEF SnapshotFloating
    <3> QED
        BY <2>1, <2>2, <3>1, <3>2, TakeThreads, ThreadsAre
  <2>3. CASE job["main"].url \notin BusinessOrigins(config)
    <3>1. End("main") /\ nextId' = nextId
          BY <1>2, <2>3 DEF SnapshotFloating
    <3> QED
        BY <2>1, <3>1, NoneIs, ThreadsEnd, ThreadsAre DEF ThreadsInv
  <2> QED
      BY <2>2, <2>3
<1> QED
    BY <1>1, <1>2

\* One window of the list is dealt with.
LEMMA DoneThreads ==
  ASSUME ThreadsInv, NEW t \in Thread, NEW l, Done(t, l), nextId' = nextId, NEW e \in {0, 1},
         events' = events + e, events' <= MaxEvents, faults' \in Nat
  PROVE  ThreadsInv'
<1>1. PICK j : j = [job[t] EXCEPT !.todo = job[t].todo \ {l}]
      OBVIOUS
<1>2. /\ nextId \in Nat /\ job[t] \in JobType /\ JobFits(at[t], job[t]) /\ at[t] \in StepsOf(t)
      BY DEF ThreadsInv, LabelsSuffice, JobsFit
<1>3. /\ j \in JobType /\ j.seen = job[t].seen /\ j.label = job[t].label /\ j.url = job[t].url
      /\ j.todo = job[t].todo \ {l} /\ j.id = job[t].id
      BY <1>1, <1>2 DEF JobType
<1>4. PICK s : s = at[t]
      OBVIOUS
<1>5. Moves(t, s, j)
      BY <1>1, <1>4 DEF Done, Moves, ThreadsInv, JobsFit
<1>6. JobFits(s, j)'
  <2>1. JobFits(s, job[t]) => JobFits(s, j)'
        BY <1>3 DEF JobFits
  <2> QED
      BY <1>2, <1>4, <2>1
<1>7. nextId' = nextId + 0 /\ 0 + Asked(s) <= Asked(at[t]) + e
      BY <1>2, <1>4, AskedIs
<1> QED
    BY <1>2, <1>3, <1>4, <1>5, <1>6, <1>7, ThreadsMove

LEMMA ListThreads ==
  ASSUME ThreadsInv, WindowsFit, NEW t \in Thread, List(t)
  PROVE  ThreadsInv'
<1>1. PICK j : j = [job[t] EXCEPT !.todo = Labels]
      OBVIOUS
<1>2. at[t] = "list" /\ GoWith(t, "destroy", j) /\ nextId' = nextId /\ UNCHANGED bounds
      BY <1>1 DEF List, shell
<1>3. /\ nextId \in Nat /\ job[t] \in JobType /\ at[t] \in StepsOf(t)
      /\ Labels \subseteq 1..(nextId - 1) /\ Labels \subseteq Nat
      BY DEF ThreadsInv, LabelsSuffice, JobsFit, WindowsFit
<1>4. /\ j \in JobType /\ j.todo = Labels
      BY <1>1, <1>3 DEF JobType
<1>5. "destroy" \in StepsOf(t)
      BY <1>2, <1>3, StepsAre DEF Thread
<1>6. "destroy" \notin AskingSteps \cup LabelledSteps \cup FloatingSteps /\ "destroy" # "replace"
      BY DEF AskingSteps, LabelledSteps, FloatingSteps
<1>7. JobFits("destroy", j)'
      BY <1>2, <1>3, <1>4, <1>6 DEF JobFits
<1>8. Moves(t, "destroy", j) /\ nextId' = nextId + 0
      BY <1>2, <1>3 DEF GoWith, Moves
<1>9. 0 + Asked("destroy") <= Asked(at[t]) + 0
      BY <1>6, AskedIs
<1>10. events' = events + 0 /\ events' <= MaxEvents /\ faults' \in Nat
      BY <1>2, NoneIs DEF ThreadsInv
<1> QED
    BY <1>4, <1>5, <1>7, <1>8, <1>9, <1>10, ThreadsMove

\* Work is given to a thread that has none.
LEMMA BeginThreads ==
  ASSUME ThreadsInv, WindowsFit,
         (\E new \in Config : SaveConfig(new)) \/ Retry \/ StartSso
  PROVE  ThreadsInv'
<1>1. nextId \in Nat
      BY DEF ThreadsInv, LabelsSuffice
<1>2. Spend => events' = events + 1 /\ events' <= MaxEvents /\ faults' \in Nat
      BY SpendIs DEF ThreadsInv
<1>3. ASSUME NEW new \in Config, SaveConfig(new)
      PROVE  ThreadsInv'
  <2>1. PICK j : j = [NoJob EXCEPT !.seen = new]
        OBVIOUS
  <2>2. j \in JobType /\ j.seen \in Config /\ j.todo = {}
        BY <2>1 DEF NoJob, JobType
  <2>3. Moves("config", "replace", j) /\ Spend /\ nextId' = nextId + 0
        BY <1>1, <1>3, <2>1 DEF SaveConfig, GoWith, Moves, shell
  <2>4. "replace" \notin AskingSteps \cup LabelledSteps \cup FloatingSteps /\ "replace" \in StepsOf("config")
        BY StepsAre DEF AskingSteps, LabelledSteps, FloatingSteps
  <2>5. JobFits("replace", j)'
        BY <2>2, <2>4 DEF JobFits
  <2>6. 0 + Asked("replace") <= Asked(at["config"]) + 1
        BY <2>4, AskedIs
  <2> QED
      BY <1>2, <2>2, <2>3, <2>4, <2>5, <2>6, ThreadsMove, ThreadsAre
<1>4. ASSUME Retry
      PROVE  ThreadsInv'
  <2>1. PICK j : j = [NoJob EXCEPT !.todo = Claimable]
        OBVIOUS
  <2>2. Claimable \subseteq 1..(nextId - 1) /\ Claimable \subseteq Nat
        BY <1>1 DEF Claimable, WindowsFit
  <2>3. j \in JobType /\ j.todo = Claimable
        BY <2>1, <2>2 DEF NoJob, JobType
  <2>4. Moves("main", "retry", j) /\ Spend /\ nextId' = nextId /\ nextId' = nextId + 0
        BY <1>1, <1>4, <2>1 DEF Retry, GoWith, Moves
  <2>5. "retry" \notin AskingSteps \cup LabelledSteps \cup FloatingSteps /\ "retry" \in StepsOf("main")
        BY StepsAre DEF AskingSteps, LabelledSteps, FloatingSteps
  <2>6. JobFits("retry", j)'
        BY <2>2, <2>3, <2>4, <2>5 DEF JobFits
  <2>7. 0 + Asked("retry") <= Asked(at["main"]) + 1
        BY <2>5, AskedIs
  <2> QED
      BY <1>2, <2>3, <2>4, <2>5, <2>6, <2>7, ThreadsMove, ThreadsAre
<1>5. ASSUME StartSso
      PROVE  ThreadsInv'
  <2>1. Go("sso", "request") /\ Spend /\ nextId' = nextId /\ nextId' = nextId + 0
        BY <1>1, <1>5 DEF StartSso, shell
  <2>2. Moves("sso", "request", job["sso"])
        BY <2>1, GoIs, ThreadsAre DEF ThreadsInv
  <2>3. job["sso"] \in JobType /\ JobFits(at["sso"], job["sso"])
        BY ThreadsAre DEF ThreadsInv, JobsFit
  <2>4. "request" \notin LabelledSteps \cup FloatingSteps /\ "request" \in StepsOf("sso")
        BY StepsAre DEF LabelledSteps, FloatingSteps
  <2>5. \A j : JobFits(at["sso"], j) => JobFits("request", j)'
        BY <2>1, <2>4 DEF JobFits
  <2>6. 0 + Asked("request") <= Asked(at["sso"]) + 1
        BY AskedIs
  <2> QED
      BY <1>2, <2>1, <2>2, <2>3, <2>4, <2>5, <2>6, ThreadsMove, ThreadsAre
<1> QED
    BY <1>3, <1>4, <1>5

\* A replacement ends or goes on with the windows; who was opening one is told.
Raced(j, r) ==
  [label |-> j.label, url |-> j.url, seen |-> j.seen, parent |-> j.parent, id |-> j.id,
   todo |-> j.todo, raced |-> r]

LEMMA RacedIs ==
  ASSUME NEW j \in JobType, NEW r \in BOOLEAN
  PROVE  Raced(j, r) \in JobType /\ [j EXCEPT !.raced = r] = Raced(j, r)
BY DEF Raced, JobType

LEMMA ReplacedJobs ==
  ASSUME JobsFit, ReplaceConfig
  PROVE  /\ at["config"] = "replace" /\ at'["config"] \in {"idle", "list"} /\ job'["config"] = NoJob
         /\ \A t \in Thread \ {"config"} :
              at'[t] = at[t] /\ \E r \in BOOLEAN : job'[t] = Raced(job[t], r)
         /\ at' \in [Thread -> UNION {StepsOf(t) : t \in Thread}] /\ DOMAIN job' = Thread
<1>1. PICK r \in Replacements(config, job["config"].seen) :
        /\ at' = [at EXCEPT !["config"] =
                    IF r.ok /\ ResetRequired(config, job["config"].seen) THEN "list" ELSE "idle"]
        /\ job' = [t \in Thread |->
             IF t = "config" THEN NoJob
             ELSE [job[t] EXCEPT !.raced = @ \/ (r.ok /\ ResetRequired(config, job["config"].seen)
                                                 /\ at[t] # "idle")]]
      BY DEF ReplaceConfig
<1>2. ASSUME NEW t \in Thread \ {"config"}
      PROVE  at'[t] = at[t] /\ \E b \in BOOLEAN : job'[t] = Raced(job[t], b)
  <2>1. PICK b : b = (job[t].raced \/ (r.ok /\ ResetRequired(config, job["config"].seen) /\ at[t] # "idle"))
        OBVIOUS
  <2>2. b \in BOOLEAN
        BY <2>1
  <2>3. job'[t] = [job[t] EXCEPT !.raced = b]
        BY <1>1, <2>1
  <2>4. job[t] \in JobType
        BY DEF JobsFit
  <2>5. job'[t] = Raced(job[t], b)
        BY <2>2, <2>3, <2>4, RacedIs
  <2>6. at'[t] = at[t]
        BY <1>1 DEF JobsFit
  <2> QED
      BY <2>2, <2>5, <2>6
<1>3. at'["config"] \in {"idle", "list"} /\ job'["config"] = NoJob
      BY <1>1, ThreadsAre DEF JobsFit
<1>4. "idle" \in StepsOf("config") /\ "list" \in StepsOf("config")
      BY StepsAre
<1>5. {"idle", "list"} \subseteq UNION {StepsOf(t) : t \in Thread}
      BY <1>4, ThreadsAre
<1>6. at' \in [Thread -> UNION {StepsOf(t) : t \in Thread}]
      BY <1>1, <1>5 DEF JobsFit
<1>7. at["config"] = "replace" /\ DOMAIN job' = Thread
      BY <1>1 DEF ReplaceConfig
<1> QED
    BY <1>2, <1>3, <1>6, <1>7

LEMMA ReplaceThreads ==
  ASSUME ThreadsInv, ReplaceConfig, faults' \in Nat
  PROVE  ThreadsInv'
<1>1. JobsFit /\ LabelsSuffice
      BY DEF ThreadsInv
<1>2. nextId' = nextId /\ nextId \in Nat /\ events' = events
      BY <1>1 DEF ReplaceConfig, shell, LabelsSuffice
<1>3. ASSUME NEW t \in Thread
      PROVE  at'[t] \in StepsOf(t) /\ JobFits(at[t], job[t])' /\ job'[t] \in JobType
  <2>1. CASE t = "config"
    <3>1. at'[t] \in {"idle", "list"} /\ job'[t] = NoJob
          BY <1>1, <2>1, ReplacedJobs
    <3>2. at'[t] \notin AskingSteps \cup LabelledSteps \cup FloatingSteps /\ at'[t] # "replace"
          BY <3>1 DEF AskingSteps, LabelledSteps, FloatingSteps
    <3> QED
        BY <2>1, <3>1, <3>2, NoJobIs, StepsAre DEF JobFits
  <2>2. CASE t # "config"
    <3>1. PICK b \in BOOLEAN : at'[t] = at[t] /\ job'[t] = Raced(job[t], b)
          BY <1>1, <2>2, ReplacedJobs
    <3>2. at[t] \in StepsOf(t) /\ JobFits(at[t], job[t]) /\ job[t] \in JobType
          BY <1>1 DEF JobsFit
    <3>3. JobFits(at[t], job[t])'
          BY <1>2, <3>1, <3>2 DEF JobFits, Raced
    <3> QED
        BY <3>1, <3>2, <3>3, RacedIs
  <2> QED
      BY <2>1, <2>2
<1>4. job' = [t \in Thread |-> job'[t]]
      BY DEF ReplaceConfig
<1>5. job' \in [Thread -> JobType]
      BY <1>3, <1>4
<1>6. JobsFit'
      BY <1>1, <1>3, <1>5, ReplacedJobs DEF JobsFit
<1>7. at'["main"] = at["main"] /\ at'["sso"] = at["sso"]
      BY <1>1, ReplacedJobs, ThreadsAre
<1>8. LabelsSuffice'
      BY <1>1, <1>2, <1>7 DEF LabelsSuffice
<1> QED
    BY <1>6, <1>8 DEF ThreadsInv

LEMMA SsoThreads ==
  ASSUME ThreadsInv, config \in Config, RequestSso \/ AnswerSso \/ SsoFails
  PROVE  ThreadsInv'
<1>1. nextId \in Nat
      BY DEF ThreadsInv, LabelsSuffice
<1>2. CASE RequestSso
  <2>1. /\ at["sso"] = "request" /\ nextId' = nextId /\ UNCHANGED bounds
        BY <1>2 DEF RequestSso, shell
  <2>2. CASE config.website = None
    <3>1. End("sso")
          BY <1>2, <2>2 DEF RequestSso
    <3> QED
        BY <2>1, <3>1, NoneIs, ThreadsEnd, ThreadsAre DEF ThreadsInv
  <2>3. CASE config.website # None
    <3>1. PICK j : j = [NoJob EXCEPT !.url = config.website]
          OBVIOUS
    <3>2. config.website \in Origin
          BY <2>3, WindowsAssumption DEF ConfigType
    <3>3. j \in JobType /\ j.url \in Origin /\ j.todo = {}
          BY <3>1, <3>2 DEF NoJob, JobType
    <3>4. Moves("sso", "response", j)
          BY <1>2, <2>3, <3>1 DEF RequestSso, GoWith, Moves
    <3>5. /\ "response" \in StepsOf("sso") /\ "response" \in AskingSteps /\ "request" \in AskingSteps
          /\ "response" \notin LabelledSteps \cup FloatingSteps
          BY StepsAre DEF AskingSteps, LabelledSteps, FloatingSteps
    <3>6. JobFits("response", j)'
          BY <3>3, <3>5 DEF JobFits
    <3>7. nextId' = nextId + 0 /\ 0 + Asked("response") <= Asked(at["sso"]) + 0
          BY <1>1, <2>1, <3>5, AskedIs
    <3>8. events' = events + 0 /\ events' <= MaxEvents /\ faults' \in Nat
          BY <2>1, NoneIs DEF ThreadsInv
    <3> QED
        BY <3>3, <3>4, <3>5, <3>6, <3>7, <3>8, ThreadsMove, ThreadsAre
  <2> QED
      BY <2>2, <2>3
<1>3. CASE AnswerSso
  <2>1. /\ at["sso"] = "response" /\ Go("sso", "check processes") /\ nextId' = nextId
        /\ UNCHANGED bounds
        BY <1>3 DEF AnswerSso, shell
  <2>2. /\ {"response", "check processes"} \subseteq AskingSteps \ {"request"}
        /\ "check processes" \in StepsOf("sso")
        /\ "check processes" \notin LabelledSteps \cup FloatingSteps
        BY StepsAre DEF AskingSteps, LabelledSteps, FloatingSteps
  <2>3. Asked("check processes") <= Asked(at["sso"])
        BY <2>1, <2>2, AskedLess
  <2> QED
      BY <2>1, <2>2, <2>3, GoThreads, ThreadsAre
<1>4. CASE SsoFails
  <2>1. End("sso") /\ Fault /\ nextId' = nextId
        BY <1>4 DEF SsoFails, shell
  <2> QED
      BY <2>1, FaultIs, ThreadsEnd, ThreadsAre DEF ThreadsInv
<1> QED
    BY <1>2, <1>3, <1>4

\* From one step to the next.
LEMMA StepThreads ==
  ASSUME ThreadsInv, NEW t \in Thread, CheckProcesses(t) \/ Build(t) \/ Install(t) \/ AllDestroyed(t)
  PROVE  ThreadsInv'
<1>1. nextId' = nextId /\ UNCHANGED bounds
      BY DEF CheckProcesses, Build, Install, AllDestroyed, shell
<1>2. at[t] \in StepsOf(t)
      BY DEF ThreadsInv, JobsFit
<1>3. CASE End(t)
      BY <1>1, <1>3, NoneIs, ThreadsEnd DEF ThreadsInv
<1>4. CASE at[t] = "check processes" /\ Go(t, "snapshot")
  <2>1. /\ {"check processes", "snapshot"} \subseteq AskingSteps \ {"request"}
        /\ "snapshot" \notin LabelledSteps \cup FloatingSteps
        BY DEF AskingSteps, LabelledSteps, FloatingSteps
  <2>2. "snapshot" \in StepsOf(t)
        BY <1>2, <1>4, StepsAre DEF Thread
  <2>3. Asked("snapshot") <= Asked(at[t])
        BY <1>4, <2>1, AskedLess
  <2> QED
      BY <1>1, <1>4, <2>1, <2>2, <2>3, GoThreads
<1>5. CASE at[t] = "build" /\ Go(t, "install")
  <2>1. /\ "install" \notin AskingSteps \cup FloatingSteps /\ "build" \in LabelledSteps
        BY DEF AskingSteps, LabelledSteps, FloatingSteps
  <2>2. "install" \in StepsOf(t)
        BY <1>2, <1>5, StepsAre DEF Thread, FloatingSteps
  <2>3. Asked("install") <= Asked(at[t])
        BY <2>1, AskedIs
  <2> QED
      BY <1>1, <1>5, <2>1, <2>2, <2>3, GoThreads
<1> QED
    BY <1>3, <1>4, <1>5 DEF CheckProcesses, Build, Install, AllDestroyed

LEMMA FloatingThreads ==
  ASSUME ThreadsInv, BuildFloating \/ InsertFloating
  PROVE  ThreadsInv'
<1>1. /\ nextId' = nextId /\ UNCHANGED bounds
      /\ \/ at["main"] = "build floating" /\ Go("main", "insert floating")
         \/ at["main"] = "insert floating" /\ Go("main", "show floating")
      BY DEF BuildFloating, InsertFloating, shell
<1>2. PICK step \in {"insert floating", "show floating"} : Go("main", step) /\ at["main"] \in LabelledSteps \cap FloatingSteps
      BY <1>1 DEF LabelledSteps, FloatingSteps
<1>3. step \notin AskingSteps /\ step \in StepsOf("main")
      BY StepsAre DEF AskingSteps, FloatingSteps
<1>4. Asked(step) <= Asked(at["main"])
      BY <1>3, AskedLess
<1> QED
    BY <1>1, <1>2, <1>3, <1>4, GoThreads, ThreadsAre

LEMMA ClearThreads ==
  ASSUME ThreadsInv, ClearConfirmed
  PROVE  ThreadsInv'
<1>1. nextId' = nextId
      BY DEF ClearConfirmed, shell
<1>2. CASE Go("main", "list") /\ UNCHANGED bounds
  <2>1. "list" \notin AskingSteps \cup LabelledSteps \cup FloatingSteps /\ "list" \in StepsOf("main")
        BY StepsAre DEF AskingSteps, LabelledSteps, FloatingSteps
  <2>2. Asked("list") <= Asked(at["main"])
        BY <2>1, AskedIs
  <2> QED
      BY <1>1, <1>2, <2>1, <2>2, GoThreads, ThreadsAre
<1>3. CASE UNCHANGED threads /\ Fault
      BY <1>1, <1>3, FaultIs, ThreadsStay DEF ThreadsInv
<1>4. CASE UNCHANGED threads /\ UNCHANGED bounds
      BY <1>1, <1>4, NoneIs, ThreadsStay DEF ThreadsInv
<1> QED
    BY <1>2, <1>3, <1>4 DEF ClearConfirmed, bounds

\* Whatever happens, the threads are where they may be.
LEMMA NextThreads ==
  ASSUME ThreadsInv, WindowsFit, config \in Config, [Next]_vars
  PROVE  ThreadsInv'
<1> DEFINE Ended(e) == nextId' = nextId /\ events' = events + e /\ events' <= MaxEvents /\ faults' \in Nat
<1>1. ASSUME Spend, nextId' = nextId PROVE Ended(1)
      BY <1>1, SpendIs DEF ThreadsInv
<1>2. ASSUME Fault, nextId' = nextId PROVE Ended(0)
      BY <1>2, FaultIs DEF ThreadsInv
<1>3. ASSUME UNCHANGED bounds, nextId' = nextId PROVE Ended(0)
      BY <1>3, NoneIs DEF ThreadsInv
<1>4. ASSUME Requests
      PROVE  ThreadsInv'
  <2>1. ASSUME NEW url \in Origin, OpenConfigured(url)
        PROVE  ThreadsInv'
        BY <2>1, OpenConfiguredThreads
  <2>2. ASSUME NEW l \in Labels, NEW url \in Origin, OpenSecondary(l, url)
        PROVE  ThreadsInv'
        BY <2>2, OpenSecondaryThreads
  <2>3. ASSUME NEW l \in Labels, NEW id \in FloatingId, NEW url \in Origin, ShowFloating(l, id, url)
        PROVE  ThreadsInv'
        BY <2>3, OpenSecondaryThreads
  <2>4. ASSUME UNCHANGED threads, nextId' = nextId, Spend \/ UNCHANGED bounds
        PROVE  ThreadsInv'
        BY <1>1, <1>3, <2>4, ThreadsStay
  <2>5. ASSUME NEW l \in Labels, NEW id, CloseOwnFloating(l, id)
        PROVE  ThreadsInv'
        BY <2>4, <2>5 DEF CloseOwnFloating
  <2>6. ASSUME NEW l \in Labels, CloseRequested(l)
        PROVE  ThreadsInv'
        BY <2>4, <2>6 DEF CloseRequested
  <2>7. ASSUME NEW l \in Labels, Signal(l)
        PROVE  ThreadsInv'
        BY <2>4, <2>7 DEF Signal, shell
  <2>8. ASSUME NEW l \in Labels, NEW answer, AnswerPrompt(l, answer)
        PROVE  ThreadsInv'
        BY <2>4, <2>8 DEF AnswerPrompt, shell
  <2>9. ASSUME NEW l \in Labels, NEW o, Load(l, o)
        PROVE  ThreadsInv'
        BY <2>4, <2>9 DEF Load
  <2>10. ASSUME InspectClear
         PROVE  ThreadsInv'
         BY <2>4, <2>10 DEF InspectClear, shell
  <2> QED
      BY <1>4, <2>1, <2>2, <2>3, <2>5, <2>6, <2>7, <2>8, <2>9, <2>10, BeginThreads, ClearThreads
         DEF Requests
<1>5. ASSUME Timers
      PROVE  ThreadsInv'
  <2>1. UNCHANGED threads /\ nextId' = nextId /\ UNCHANGED bounds
        BY <1>5 DEF Timers, Watchdog, FloatingExpires
  <2> QED
      BY <1>3, <2>1, ThreadsStay
<1>6. ASSUME MainSteps
      PROVE  ThreadsInv'
  <2>1. ASSUME FloatingShown \/ RetryEnds
        PROVE  ThreadsInv'
    <3>1. End("main") /\ nextId' = nextId /\ UNCHANGED bounds
          BY <2>1 DEF FloatingShown, RetryEnds, shell
    <3> QED
        BY <1>3, <3>1, ThreadsEnd, ThreadsAre
  <2>2. ASSUME NEW l, RetryOne(l)
        PROVE  ThreadsInv'
    <3>1. Done("main", l) /\ nextId' = nextId /\ UNCHANGED bounds
          BY <2>2 DEF RetryOne
    <3> QED
        BY <1>3, <3>1, DoneThreads, ThreadsAre
  <2> QED
      BY <1>6, <2>1, <2>2, SnapshotThreads, FloatingThreads DEF MainSteps
<1>7. ASSUME Failures
      PROVE  ThreadsInv'
  <2>1. ASSUME NEW t \in Thread, BuildFails(t)
        PROVE  ThreadsInv'
    <3>1. End(t) /\ nextId' = nextId /\ Fault
          BY <2>1 DEF BuildFails
    <3> QED
        BY <1>2, <3>1, ThreadsEnd
  <2>2. ASSUME NEW t \in Thread, NEW l, DestroyFails(t, l)
        PROVE  ThreadsInv'
    <3>1. Done(t, l) /\ nextId' = nextId /\ Fault
          BY <2>2 DEF DestroyFails, shell
    <3> QED
        BY <1>2, <3>1, DoneThreads
  <2>3. ASSUME BuildFloatingFails \/ FloatingNotShown
        PROVE  ThreadsInv'
    <3>1. End("main") /\ nextId' = nextId /\ Fault
          BY <2>3 DEF BuildFloatingFails, FloatingNotShown, shell
    <3> QED
        BY <1>2, <3>1, ThreadsEnd, ThreadsAre
  <2>4. ASSUME NEW l, RetryFails(l)
        PROVE  ThreadsInv'
    <3>1. Done("main", l) /\ nextId' = nextId /\ Fault
          BY <2>4 DEF RetryFails
    <3> QED
        BY <1>2, <3>1, DoneThreads, ThreadsAre
  <2> QED
      BY <1>7, <2>1, <2>2, <2>3, <2>4, SsoThreads DEF Failures
<1>8. ASSUME NEW t \in Thread, Steps(t)
      PROVE  ThreadsInv'
  <2>1. ASSUME NEW l, DestroyOne(t, l)
        PROVE  ThreadsInv'
    <3>1. Done(t, l) /\ nextId' = nextId /\ UNCHANGED bounds
          BY <2>1 DEF DestroyOne
    <3> QED
        BY <1>3, <3>1, DoneThreads
  <2> QED
      BY <1>8, <2>1, StepThreads, SnapshotThreads, ListThreads DEF Steps
<1>9. ASSUME ReplaceConfig
      PROVE  ThreadsInv'
  <2>1. faults \in Nat
        BY DEF ThreadsInv, LabelsSuffice
  <2>2. PICK r \in Replacements(config, job["config"].seen) : faults' = faults + r.failed
        BY <1>9 DEF ReplaceConfig
  <2>3. r.failed \in Nat
        BY ReplacementsFit
  <2> QED
      BY <1>9, <2>1, <2>2, <2>3, ReplaceThreads
<1>10. ASSUME NEW l \in signals, FrontendReady(l)
       PROVE  ThreadsInv'
  <2>1. UNCHANGED threads /\ nextId' = nextId /\ UNCHANGED bounds
        BY <1>10 DEF FrontendReady
  <2> QED
      BY <1>3, <2>1, ThreadsStay
<1>11. ASSUME UNCHANGED vars
       PROVE  ThreadsInv'
  <2>1. UNCHANGED threads /\ nextId' = nextId /\ UNCHANGED bounds
        BY <1>11 DEF vars, shell
  <2> QED
      BY <1>3, <2>1, ThreadsStay
<1> QED
    BY <1>4, <1>5, <1>6, <1>7, <1>8, <1>9, <1>10, <1>11, SsoThreads DEF Next

-----------------------------------------------------------------------------
(* The windows there are.                                                  *)

\* What no step changes of a window.
Edited(m) ==
  /\ windows'[m] \in WindowType
  /\ windows'[m].kind = windows[m].kind /\ windows'[m].seen = windows[m].seen
  /\ windows[m].stale => windows'[m].stale
  /\ windows'[m].page \in {windows[m].page} \cup AllowedOrigins(windows[m].seen)
  /\ windows'[m].shown = windows[m].shown \/ FloatingShown

WindowsKept == DOMAIN windows' \subseteq Labels /\ \A m \in DOMAIN windows' : Edited(m)

LEMMA WindowsStay ==
  ASSUME WindowsFit, UNCHANGED windows
  PROVE  WindowsKept
BY DEF WindowsFit, Labels, WindowsKept, Edited

LEMMA EditIs ==
  ASSUME WindowsFit, NEW l \in Labels, NEW w \in WindowType, windows' = [windows EXCEPT ![l] = w],
         w.kind = windows[l].kind, w.seen = windows[l].seen, windows[l].stale => w.stale,
         w.page \in {windows[l].page} \cup AllowedOrigins(windows[l].seen),
         w.shown = windows[l].shown \/ FloatingShown
  PROVE  WindowsKept /\ DOMAIN windows' = Labels
<1>1. DOMAIN windows' = Labels
      BY DEF Labels
<1>2. ASSUME NEW m \in Labels
      PROVE  Edited(m)
  <2>1. CASE m = l
    <3>1. windows'[m] = w
          BY <2>1 DEF Labels
    <3> QED
        BY <2>1, <3>1 DEF Edited
  <2>2. CASE m # l
    <3>1. windows'[m] = windows[m] /\ windows[m] \in WindowType
          BY <2>2 DEF Labels, WindowsFit
    <3> QED
        BY <3>1 DEF Edited
  <2> QED
      BY <2>1, <2>2
<1> QED
    BY <1>1, <1>2 DEF WindowsKept

\* The ways in which a window is edited.
LEMMA EditsAre ==
  ASSUME WindowsFit, NEW l \in Labels,
         \/ \E p \in {"idle", "prompting", "allow"} : windows' = [windows EXCEPT ![l].prompt = p]
         \/ windows' = [windows EXCEPT ![l].sent = TRUE]
         \/ windows' = [windows EXCEPT ![l].cleanup = TRUE]
         \/ windows' = [windows EXCEPT ![l].shown = TRUE] /\ FloatingShown
         \/ windows' = [windows EXCEPT ![l].stale = TRUE]
         \/ windows' = [windows EXCEPT ![l].loading = TRUE]
  PROVE  WindowsKept /\ DOMAIN windows' = Labels
<1>1. windows[l] \in WindowType
      BY DEF WindowsFit
<1>2. ASSUME NEW w, windows' = [windows EXCEPT ![l] = w], w \in WindowType, w.kind = windows[l].kind,
             w.seen = windows[l].seen, windows[l].stale => w.stale, w.page = windows[l].page,
             w.shown = windows[l].shown \/ FloatingShown
      PROVE  WindowsKept /\ DOMAIN windows' = Labels
      BY <1>2, EditIs
<1>3. ASSUME NEW p \in {"idle", "prompting", "allow"}, windows' = [windows EXCEPT ![l].prompt = p]
      PROVE  WindowsKept /\ DOMAIN windows' = Labels
  <2>1. windows' = [windows EXCEPT ![l] = [windows[l] EXCEPT !.prompt = p]]
        BY <1>3
  <2> QED
      BY <1>1, <1>2, <2>1 DEF WindowType
<1>4. CASE windows' = [windows EXCEPT ![l].sent = TRUE]
  <2>1. windows' = [windows EXCEPT ![l] = [windows[l] EXCEPT !.sent = TRUE]]
        BY <1>4
  <2> QED
      BY <1>1, <1>2, <1>4, <2>1 DEF WindowType
<1>5. CASE windows' = [windows EXCEPT ![l].cleanup = TRUE]
  <2>1. windows' = [windows EXCEPT ![l] = [windows[l] EXCEPT !.cleanup = TRUE]]
        BY <1>5
  <2> QED
      BY <1>1, <1>2, <1>5, <2>1 DEF WindowType
<1>6. CASE windows' = [windows EXCEPT ![l].shown = TRUE] /\ FloatingShown
  <2>1. windows' = [windows EXCEPT ![l] = [windows[l] EXCEPT !.shown = TRUE]]
        BY <1>6
  <2> QED
      BY <1>1, <1>2, <1>6, <2>1 DEF WindowType
<1>7. CASE windows' = [windows EXCEPT ![l].stale = TRUE]
  <2>1. windows' = [windows EXCEPT ![l] = [windows[l] EXCEPT !.stale = TRUE]]
        BY <1>7
  <2> QED
      BY <1>1, <1>2, <1>7, <2>1 DEF WindowType
<1>8. CASE windows' = [windows EXCEPT ![l].loading = TRUE]
  <2>1. windows' = [windows EXCEPT ![l] = [windows[l] EXCEPT !.loading = TRUE]]
        BY <1>8
  <2> QED
      BY <1>1, <1>2, <1>8, <2>1 DEF WindowType
<1> QED
    BY <1>3, <1>4, <1>5, <1>6, <1>7, <1>8

\* A page loads that its window may show.
LEMMA LoadEdits ==
  ASSUME WindowsFit, NEW l \in Labels, NEW origin \in Origin, Load(l, origin)
  PROVE  WindowsKept /\ DOMAIN windows' = Labels
<1>1. windows[l] \in WindowType
      BY DEF WindowsFit
<1>2. PICK w : w = [windows[l] EXCEPT !.page = origin, !.loading = FALSE, !.sent = FALSE]
      OBVIOUS
<1>3. windows' = [windows EXCEPT ![l] = w]
      BY <1>2 DEF Load
<1>4. origin \in {windows[l].page} \cup AllowedOrigins(windows[l].seen)
      BY DEF Load, AllowedOrigins
<1>5. /\ w \in WindowType /\ w.kind = windows[l].kind /\ w.seen = windows[l].seen
      /\ w.stale = windows[l].stale /\ w.page = origin /\ w.shown = windows[l].shown
      BY <1>1, <1>2 DEF WindowType
<1> QED
    BY <1>3, <1>4, <1>5, EditIs

\* A window goes.
LEMMA GoneIs ==
  ASSUME WindowsFit, NEW l, windows' = Without(windows, {l})
  PROVE  /\ WindowsKept /\ DOMAIN windows' = Labels \ {l}
         /\ \A m \in DOMAIN windows' : windows'[m] = windows[m]
<1>1. DOMAIN windows' = Labels \ {l} /\ \A m \in DOMAIN windows' : windows'[m] = windows[m]
      BY DEF Without, Labels
<1> QED
    BY <1>1 DEF WindowsKept, Edited, WindowsFit

\* A window is built for a job.
Builds(t) == Build(t) \/ (t = "main" /\ BuildFloating)

LEMMA BuildsIs ==
  ASSUME ThreadsInv, WindowsFit, NEW t \in Thread, Builds(t)
  PROVE  /\ DOMAIN windows' = Labels \cup {job[t].label}
         /\ windows'[job[t].label] =
              Window(t, IF at[t] = "build" THEN "business" ELSE "floating")
         /\ \A m \in Labels \ {job[t].label} : windows'[m] = windows[m]
         /\ Unbuilt(t) /\ (at[t] = "build floating" => t = "main")
         /\ windows'[job[t].label] \in WindowType
         /\ windows'[job[t].label].page \in AllowedOrigins(windows'[job[t].label].seen)
<1>1. windows' = Set(windows, job[t].label, Window(t, IF at[t] = "build" THEN "business" ELSE "floating"))
      BY DEF Builds, Build, BuildFloating
<1>2. Unbuilt(t) /\ (at[t] = "build floating" => t = "main")
      BY DEF Builds, Build, BuildFloating, Unbuilt
<1>3. /\ DOMAIN windows' = Labels \cup {job[t].label}
      /\ windows'[job[t].label] = Window(t, IF at[t] = "build" THEN "business" ELSE "floating")
      /\ \A m \in Labels \ {job[t].label} : windows'[m] = windows[m]
      BY <1>1 DEF Set, Labels
<1>4. job[t] \in JobType /\ JobFits(at[t], job[t]) /\ at[t] \in LabelledSteps
      BY <1>2 DEF ThreadsInv, JobsFit, Unbuilt, LabelledSteps
<1>5. /\ job[t].seen \in Config /\ job[t].url \in BusinessOrigins(job[t].seen)
      /\ job[t].raced \in BOOLEAN
      BY <1>4 DEF JobFits, JobType
<1>6. job[t].url \in Origin
      BY <1>5, WindowsAssumption DEF BusinessOrigins, ConfigType
<1>7. /\ windows'[job[t].label] \in WindowType
      /\ windows'[job[t].label].page \in AllowedOrigins(windows'[job[t].label].seen)
      BY <1>3, <1>5, <1>6 DEF Window, WindowType, AllowedOrigins
<1> QED
    BY <1>2, <1>3, <1>7

LEMMA BuildsOthers ==
  ASSUME ThreadsInv, WindowsFit, NEW t \in Thread, Builds(t),
         NEW x, x \in DOMAIN windows', x # job[t].label
  PROVE  x \in Labels /\ windows'[x] = windows[x]
BY BuildsIs

\* Every step keeps the windows, or builds one.
LEMMA NextWindows ==
  ASSUME ThreadsInv, WindowsFit, [Next]_vars
  PROVE  WindowsKept \/ \E t \in Thread : Builds(t)
<1>1. ASSUME Requests
      PROVE  WindowsKept
  <2>1. ASSUME NEW l \in Labels, CloseRequested(l)
        PROVE  WindowsKept
    <3>1. CASE windows' = [windows EXCEPT ![l].prompt = "prompting"]
          BY <3>1, EditsAre
    <3>2. CASE Destroyed(l)
          BY <3>2, GoneIs DEF Destroyed
    <3> QED
        BY <2>1, <3>1, <3>2 DEF CloseRequested
  <2>2. ASSUME NEW l \in Labels, NEW answer \in BOOLEAN, AnswerPrompt(l, answer)
        PROVE  WindowsKept
    <3>1. \E p \in {"idle", "prompting", "allow"} : windows' = [windows EXCEPT ![l].prompt = p]
          BY <2>2 DEF AnswerPrompt
    <3> QED
        BY <3>1, EditsAre
  <2>3. ASSUME NEW l \in Labels, Signal(l)
        PROVE  WindowsKept
        BY <2>3, EditsAre DEF Signal
  <2>4. ASSUME UNCHANGED windows
        PROVE  WindowsKept
        BY <2>4, WindowsStay
  <2> QED
      BY <1>1, <2>1, <2>2, <2>3, <2>4, LoadEdits
         DEF Requests, OpenConfigured, OpenSecondary, ShowFloating, CloseOwnFloating, SaveConfig,
             InspectClear, ClearConfirmed, Retry, StartSso, world
<1>2. ASSUME MainSteps
      PROVE  WindowsKept \/ Builds("main")
  <2>1. ASSUME UNCHANGED windows
        PROVE  WindowsKept
        BY <2>1, WindowsStay
  <2>2. ASSUME InsertFloating
        PROVE  WindowsKept
    <3>1. \/ job["main"].label \in Labels /\ windows' = [windows EXCEPT ![job["main"].label].cleanup = TRUE]
          \/ UNCHANGED windows
          BY <2>2 DEF InsertFloating
    <3> QED
        BY <2>1, <3>1, EditsAre
  <2>3. ASSUME FloatingShown
        PROVE  WindowsKept
    <3>1. \/ job["main"].label \in Labels /\ windows' = [windows EXCEPT ![job["main"].label].shown = TRUE]
          \/ UNCHANGED windows
          BY <2>3 DEF FloatingShown
    <3> QED
        BY <2>1, <2>3, <3>1, EditsAre
  <2>4. ASSUME NEW l, RetryOne(l)
        PROVE  WindowsKept
    <3>1. \/ l \in Labels /\ windows' = [windows EXCEPT ![l].loading = TRUE]
          \/ UNCHANGED windows
          BY <2>4 DEF RetryOne
    <3> QED
        BY <2>1, <3>1, EditsAre
  <2>5. ASSUME SnapshotFloating \/ RetryEnds
        PROVE  WindowsKept
        BY <2>1, <2>5 DEF SnapshotFloating, RetryEnds, world
  <2> QED
      BY <1>2, <2>2, <2>3, <2>4, <2>5 DEF MainSteps, Builds
<1>3. ASSUME Failures
      PROVE  WindowsKept
  <2>1. ASSUME UNCHANGED windows
        PROVE  WindowsKept
        BY <2>1, WindowsStay
  <2>2. ASSUME NEW t, NEW l, DestroyFails(t, l)
        PROVE  WindowsKept
    <3>1. \/ l \in Labels /\ windows' = [windows EXCEPT ![l].stale = TRUE]
          \/ UNCHANGED windows
          BY <2>2 DEF DestroyFails
    <3> QED
        BY <2>1, <3>1, EditsAre
  <2> QED
      BY <1>3, <2>1, <2>2
         DEF Failures, BuildFails, BuildFloatingFails, FloatingNotShown, SsoFails, RetryFails, world
<1>4. ASSUME NEW t \in Thread, Steps(t)
      PROVE  WindowsKept \/ Builds(t)
  <2>1. ASSUME UNCHANGED windows
        PROVE  WindowsKept
        BY <2>1, WindowsStay
  <2>2. ASSUME Install(t)
        PROVE  WindowsKept
    <3>1. \/ job[t].label \in Labels /\ windows' = [windows EXCEPT ![job[t].label].cleanup = TRUE]
          \/ UNCHANGED windows
          BY <2>2 DEF Install
    <3> QED
        BY <2>1, <3>1, EditsAre
  <2>3. ASSUME NEW l, DestroyOne(t, l)
        PROVE  WindowsKept
        BY <2>3, GoneIs DEF DestroyOne
  <2> QED
      BY <1>4, <2>1, <2>2, <2>3
         DEF Steps, Builds, CheckProcesses, Snapshot, List, AllDestroyed, world
<1>5. ASSUME Timers \/ ReplaceConfig \/ RequestSso \/ AnswerSso \/ (\E l \in signals : FrontendReady(l))
             \/ UNCHANGED vars
      PROVE  WindowsKept
  <2>1. UNCHANGED windows
        BY <1>5 DEF Timers, Watchdog, FloatingExpires, ReplaceConfig, RequestSso, AnswerSso,
                    FrontendReady, vars, world
  <2> QED
      BY <2>1, WindowsStay
<1> QED
    BY <1>1, <1>2, <1>3, <1>4, <1>5, ThreadsAre DEF Next

-----------------------------------------------------------------------------
(* The map of business windows.                                            *)

EntryType == [state : {"Loading", "Navigating", "Ready", "TimedOut"}, generation : Nat, recovering : BOOLEAN]
EntriesFit == \A l \in DOMAIN runtime : runtime[l] \in EntryType

\* Nobody builds a window for the label.
Unclaimed(l) == \A t \in Thread : Unbuilt(t) => job[t].label # l

\* An entry is dropped whose window is gone or could not be built.
Drops(l) ==
  /\ runtime' = Without(runtime, {l}) /\ UNCHANGED counters
  /\ l \notin DOMAIN windows' /\ Unclaimed(l)'

\* An entry changes: recoveries follow upon timeouts.
Puts(l, e) ==
  /\ l \in DOMAIN runtime /\ e \in EntryType /\ runtime' = [runtime EXCEPT ![l] = e]
  /\ Unclaimed(l) /\ UNCHANGED threads
  /\ at["main"] = "retry" => Recovers(e)
  /\ \/ /\ recoveries' = recoveries + (IF Recovers(runtime[l]) THEN 1 ELSE 0) /\ timeouts' = timeouts
        /\ ~Recovers(e)
     \/ recoveries' = recoveries /\ timeouts' = timeouts + 1
     \/ recoveries' = recoveries /\ timeouts' = timeouts /\ (Recovers(e) => Recovers(runtime[l]))

\* A retry that could not load the page puts the entry back.
PutsBack(l) ==
  /\ at["main"] = "retry" /\ l \in job["main"].todo \cap DOMAIN runtime
  /\ runtime' = [runtime EXCEPT ![l] = TimedOut(runtime[l])]
  /\ Done("main", l) /\ UNCHANGED counters

Adds(t) ==
  /\ at[t] = "snapshot" /\ HasRoom /\ Reserve(t) /\ UNCHANGED counters

MapInv == EntriesFit /\ WindowsFit /\ LabelsAreFresh /\ closing \subseteq Labels /\ signals \subseteq Labels

LEMMA EntriesAre ==
  ASSUME NEW r \in EntryType, NEW business \in BOOLEAN
  PROVE  /\ {Navigated(r, business), MadeReady(r), TimedOut(r), Claimed(r), Reserved} \subseteq EntryType
         /\ ~Recovers(MadeReady(r)) /\ Recovers(TimedOut(r)) /\ Recovers(Claimed(r)) /\ ~Recovers(Reserved)
         /\ Recovers(Navigated(r, business)) => Recovers(r)
<1>1. Navigated(r, business) \in EntryType /\ (Recovers(Navigated(r, business)) => Recovers(r))
      BY DEF EntryType, Navigated, Recovers
<1>2. MadeReady(r) \in EntryType /\ ~Recovers(MadeReady(r))
      BY DEF EntryType, MadeReady, Recovers
<1>3. TimedOut(r) \in EntryType /\ Recovers(TimedOut(r))
      BY DEF EntryType, TimedOut, Recovers
<1>4. Claimed(r) \in EntryType /\ Recovers(Claimed(r))
      BY DEF EntryType, Claimed, Recovers
<1>5. Reserved \in EntryType /\ ~Recovers(Reserved)
      BY DEF EntryType, Reserved, Recovers
<1> QED
    BY <1>1, <1>2, <1>3, <1>4, <1>5

\* Windows that are there, and those that are worked on, have been built.
LEMMA BuiltIsUnclaimed ==
  ASSUME LabelsAreFresh, NEW l,
         l \in Labels \/ (\E t \in Thread : l \in job[t].todo) \/ (\E g : <<l, g>> \in watchdogs)
  PROVE  Unclaimed(l)
<1>1. CASE \E g : <<l, g>> \in watchdogs
  <2>1. PICK g : <<l, g>> \in watchdogs
        BY <1>1
  <2>2. <<l, g>>[1] = l
        OBVIOUS
  <2> QED
      BY <2>1, <2>2 DEF LabelsAreFresh, Unclaimed
<1>2. CASE l \in Labels \/ (\E t \in Thread : l \in job[t].todo)
      BY <1>2 DEF LabelsAreFresh, Unclaimed
<1> QED
    BY <1>1, <1>2

LEMMA UnclaimedStays ==
  ASSUME NEW l, Unclaimed(l),
         \A t \in Thread : Unbuilt(t)' => Unbuilt(t) /\ job'[t].label = job[t].label
  PROVE  Unclaimed(l)'
BY DEF Unclaimed

LEMMA UnclaimedByAll ==
  ASSUME JobsFit, LabelsAreFresh, NEW t \in Thread, Unbuilt(t), End(t), NEW l, l = job[t].label
  PROVE  Unclaimed(l)'
<1>1. Moves(t, "idle", NoJob)
      BY EndIs
<1>2. at'[t] = "idle" /\ \A u \in Thread \ {t} : at'[u] = at[u] /\ job'[u] = job[u]
      BY <1>1, MovedIs
<1>3. ASSUME NEW u \in Thread, Unbuilt(u)'
      PROVE  job'[u].label # l
  <2>1. u # t
        BY <1>2, <1>3 DEF Unbuilt
  <2>2. Unbuilt(u) /\ job'[u] = job[u]
        BY <1>2, <1>3, <2>1 DEF Unbuilt
  <2> QED
      BY <2>1, <2>2 DEF LabelsAreFresh
<1> QED
    BY <1>3 DEF Unclaimed

\* Taking a window off a list takes no label.
LEMMA DoneBuilds ==
  ASSUME JobsFit, NEW t \in Thread, NEW l, Done(t, l)
  PROVE  /\ \A u \in Thread : at'[u] = at[u] /\ job'[u].label = job[u].label /\ job'[u].id = job[u].id
         /\ \A u \in Thread : job'[u].seen = job[u].seen /\ job'[u].raced = job[u].raced
         /\ \A u \in Thread : job'[u].todo = IF u = t THEN job[u].todo \ {l} ELSE job[u].todo
         /\ \A u \in Thread : Unbuilt(u)' => Unbuilt(u) /\ job'[u].label = job[u].label
<1>1. PICK j : j = [job[t] EXCEPT !.todo = job[t].todo \ {l}]
      OBVIOUS
<1>2. at' = at /\ job' = [job EXCEPT ![t] = j]
      BY <1>1 DEF Done
<1>3. /\ j.label = job[t].label /\ j.todo = job[t].todo \ {l} /\ j.seen = job[t].seen
      /\ j.raced = job[t].raced /\ j.id = job[t].id
      BY <1>1 DEF JobsFit, JobType
<1>4. ASSUME NEW u \in Thread
      PROVE  job'[u] = IF u = t THEN j ELSE job[u]
      BY <1>2 DEF JobsFit
<1>5. \A u \in Thread : /\ job'[u].label = job[u].label /\ job'[u].id = job[u].id
                        /\ job'[u].seen = job[u].seen /\ job'[u].raced = job[u].raced
                        /\ job'[u].todo = IF u = t THEN job[u].todo \ {l} ELSE job[u].todo
      BY <1>3, <1>4
<1> QED
    BY <1>2, <1>5 DEF Unbuilt

LEMMA Put ==
  ASSUME MapInv, NEW l \in DOMAIN runtime, NEW e, runtime' = [runtime EXCEPT ![l] = e], e \in EntryType,
         l \in Labels \/ (\E g : <<l, g>> \in watchdogs), UNCHANGED threads,
         at["main"] = "retry" => Recovers(e),
         \/ /\ recoveries' = recoveries + (IF Recovers(runtime[l]) THEN 1 ELSE 0) /\ timeouts' = timeouts
            /\ ~Recovers(e)
         \/ recoveries' = recoveries /\ timeouts' = timeouts + 1
         \/ recoveries' = recoveries /\ timeouts' = timeouts /\ (Recovers(e) => Recovers(runtime[l]))
  PROVE  Puts(l, e)
BY BuiltIsUnclaimed DEF MapInv, Puts

\* What a step makes of the map.
MapStep ==
  \/ UNCHANGED <<runtime, counters>>
  \/ \E l : Drops(l)
  \/ \E l, e : Puts(l, e)
  \/ \E l : PutsBack(l)
  \/ \E t \in Thread : Adds(t) /\ Snapshot(t)
  \/ Retry

LEMMA RequestsMap ==
  ASSUME ThreadsInv, MapInv, Requests
  PROVE  MapStep
<1>1. ASSUME UNCHANGED <<runtime, counters>>
      PROVE  MapStep
      BY <1>1 DEF MapStep
<1>2. ASSUME NEW l \in Labels, CloseRequested(l)
      PROVE  MapStep
  <2>1. UNCHANGED counters /\ UNCHANGED threads
        BY <1>2 DEF CloseRequested
  <2>2. CASE Destroyed(l)
    <3>1. Unclaimed(l)'
          BY <2>1, BuiltIsUnclaimed DEF MapInv, Unclaimed, Unbuilt, threads
    <3>2. l \notin DOMAIN windows'
          BY <2>2 DEF Destroyed, Without
    <3>3. runtime' = Without(runtime, {l}) \/ UNCHANGED runtime
          BY <2>2 DEF Destroyed
    <3> QED
        BY <2>1, <3>1, <3>2, <3>3 DEF MapStep, Drops
  <2>3. CASE UNCHANGED runtime
        BY <2>1, <2>3 DEF MapStep
  <2> QED
      BY <1>2, <2>2, <2>3 DEF CloseRequested
<1>3. ASSUME NEW l \in Labels, NEW origin, Load(l, origin)
      PROVE  MapStep
  <2>1. UNCHANGED counters /\ UNCHANGED threads /\ MainIsFree
        BY <1>3 DEF Load
  <2>2. CASE l \in DOMAIN runtime
    <3>1. PICK b \in BOOLEAN : b <=> origin \in BusinessOrigins(windows[l].seen)
          OBVIOUS
    <3>2. PICK e : e = Navigated(runtime[l], b)
          OBVIOUS
    <3>3. runtime' = [runtime EXCEPT ![l] = e]
          BY <1>3, <2>2, <3>1, <3>2 DEF Load, Navigated
    <3>4. e \in EntryType /\ (Recovers(e) => Recovers(runtime[l]))
          BY <2>2, <3>2, EntriesAre DEF MapInv, EntriesFit
    <3>5. at["main"] # "retry" /\ recoveries' = recoveries /\ timeouts' = timeouts
          BY <2>1 DEF MainIsFree, counters
    <3> QED
        BY <2>1, <2>2, <3>3, <3>4, <3>5, Put DEF MapStep
  <2>3. CASE l \notin DOMAIN runtime
        BY <1>3, <2>1, <2>3 DEF Load, MapStep
  <2> QED
      BY <2>2, <2>3
<1>4. ASSUME Retry
      PROVE  MapStep
      BY <1>4 DEF MapStep
<1> QED
    BY <1>1, <1>2, <1>3, <1>4
       DEF Requests, OpenConfigured, OpenSecondary, ShowFloating, CloseOwnFloating, Signal, AnswerPrompt,
           SaveConfig, InspectClear, ClearConfirmed, StartSso, shell

LEMMA PagesMap ==
  ASSUME ThreadsInv, MapInv, Timers \/ \E l \in signals : FrontendReady(l)
  PROVE  MapStep
<1>1. ASSUME NEW l \in signals, FrontendReady(l)
      PROVE  MapStep
  <2>1. UNCHANGED threads /\ MainIsFree /\ timeouts' = timeouts /\ l \in Labels
        BY <1>1 DEF FrontendReady, MapInv
  <2>2. CASE MayCall(l) /\ l \in DOMAIN runtime
    <3>1. PICK e : e = MadeReady(runtime[l])
          OBVIOUS
    <3>2. runtime' = [runtime EXCEPT ![l] = e]
          BY <1>1, <2>2, <3>1 DEF FrontendReady
    <3>3. e \in EntryType /\ ~Recovers(e)
          BY <2>2, <3>1, EntriesAre DEF MapInv, EntriesFit
    <3>4. at["main"] # "retry" /\ recoveries' = recoveries + (IF Recovers(runtime[l]) THEN 1 ELSE 0)
          BY <1>1, <2>1, <2>2 DEF MainIsFree, FrontendReady
    <3> QED
        BY <2>1, <2>2, <3>2, <3>3, <3>4, Put DEF MapStep
  <2>3. CASE ~(MayCall(l) /\ l \in DOMAIN runtime)
        BY <1>1, <2>3 DEF FrontendReady, MapStep, counters
  <2> QED
      BY <2>2, <2>3
<1>2. ASSUME NEW l, NEW g, Watchdog(l, g)
      PROVE  MapStep
  <2>1. UNCHANGED threads /\ recoveries' = recoveries /\ <<l, g>> \in watchdogs
        BY <1>2 DEF Watchdog
  <2>2. CASE MayTimeOut(l, g)
    <3>1. PICK e : e = TimedOut(runtime[l])
          OBVIOUS
    <3>2. l \in DOMAIN runtime /\ runtime' = [runtime EXCEPT ![l] = e] /\ timeouts' = timeouts + 1
          BY <1>2, <2>2, <3>1 DEF Watchdog, MayTimeOut
    <3>3. e \in EntryType /\ Recovers(e)
          BY <3>1, <3>2, EntriesAre DEF MapInv, EntriesFit
    <3> QED
        BY <2>1, <3>2, <3>3, Put DEF MapStep
  <2>3. CASE ~MayTimeOut(l, g)
        BY <1>2, <2>3 DEF Watchdog, MapStep, counters
  <2> QED
      BY <2>2, <2>3
<1> QED
    BY <1>1, <1>2 DEF Timers, FloatingExpires, MapStep, counters

LEMMA WorkMap ==
  ASSUME ThreadsInv, MapInv, MainSteps \/ (\E t \in Thread : Steps(t))
  PROVE  MapStep
<1>1. JobsFit /\ LabelsAreFresh
      BY DEF ThreadsInv, MapInv
<1>2. ASSUME NEW l, RetryOne(l)
      PROVE  MapStep
  <2>1. UNCHANGED counters /\ Done("main", l) /\ l \in job["main"].todo
        BY <1>2 DEF RetryOne
  <2>2. CASE l \in Labels
        BY <1>2, <2>1, <2>2 DEF RetryOne, MapStep
  <2>3. CASE l \notin Labels
    <3>1. runtime' = Without(runtime, {l}) /\ UNCHANGED windows
          BY <1>2, <2>3 DEF RetryOne
    <3>2. Unclaimed(l)
          BY <1>1, <2>1, BuiltIsUnclaimed, ThreadsAre
    <3>3. Unclaimed(l)'
          BY <1>1, <2>1, <3>2, DoneBuilds, UnclaimedStays, ThreadsAre
    <3> QED
        BY <2>1, <2>3, <3>1, <3>3 DEF MapStep, Drops, Labels
  <2> QED
      BY <2>2, <2>3
<1>3. ASSUME NEW t \in Thread, NEW l, DestroyOne(t, l)
      PROVE  MapStep
  <2>1. UNCHANGED counters /\ Done(t, l) /\ l \in job[t].todo
        BY <1>3 DEF DestroyOne
  <2>2. runtime' = Without(runtime, {l}) /\ l \notin DOMAIN windows'
        BY <1>3 DEF DestroyOne, Without
  <2>3. Unclaimed(l)
        BY <1>1, <2>1, BuiltIsUnclaimed
  <2>4. Unclaimed(l)'
        BY <1>1, <2>1, <2>3, DoneBuilds, UnclaimedStays
  <2> QED
      BY <2>1, <2>2, <2>4 DEF MapStep, Drops
<1>4. ASSUME NEW t \in Thread, Snapshot(t)
      PROVE  MapStep
  <2>1. UNCHANGED counters /\ at[t] = "snapshot" /\ (UNCHANGED runtime \/ (HasRoom /\ Reserve(t)))
        BY <1>4 DEF Snapshot
  <2> QED
      BY <1>4, <2>1 DEF MapStep, Adds
<1>5. ASSUME UNCHANGED <<runtime, counters>>
      PROVE  MapStep
      BY <1>5 DEF MapStep
<1> QED
    BY <1>2, <1>3, <1>4, <1>5
       DEF MainSteps, SnapshotFloating, BuildFloating, InsertFloating, FloatingShown, RetryEnds,
           Steps, CheckProcesses, Build, Install, List, AllDestroyed, shell

LEMMA FailuresMap ==
  ASSUME ThreadsInv, MapInv, Failures
  PROVE  MapStep
<1>1. JobsFit /\ LabelsAreFresh
      BY DEF ThreadsInv, MapInv
<1>2. ASSUME NEW t \in Thread, BuildFails(t)
      PROVE  MapStep
  <2>1. PICK l : l = job[t].label
        OBVIOUS
  <2>2. Unbuilt(t) /\ End(t) /\ runtime' = Without(runtime, {l}) /\ UNCHANGED counters /\ UNCHANGED windows
        BY <1>2, <2>1 DEF BuildFails, Unbuilt, world
  <2>3. Unclaimed(l)'
        BY <1>1, <2>1, <2>2, UnclaimedByAll
  <2>4. l \notin DOMAIN windows'
        BY <1>1, <2>1, <2>2 DEF LabelsAreFresh, Labels
  <2> QED
      BY <2>2, <2>3, <2>4 DEF MapStep, Drops
<1>3. ASSUME NEW l, RetryFails(l)
      PROVE  MapStep
  <2>1. UNCHANGED counters /\ Done("main", l) /\ at["main"] = "retry" /\ l \in job["main"].todo
        BY <1>3 DEF RetryFails
  <2>2. \/ l \in DOMAIN runtime /\ runtime' = [runtime EXCEPT ![l] = TimedOut(runtime[l])]
        \/ UNCHANGED runtime
        BY <1>3 DEF RetryFails
  <2> QED
      BY <2>1, <2>2 DEF MapStep, PutsBack
<1>4. ASSUME UNCHANGED <<runtime, counters>>
      PROVE  MapStep
      BY <1>4 DEF MapStep
<1> QED
    BY <1>2, <1>3, <1>4
       DEF Failures, DestroyFails, BuildFloatingFails, FloatingNotShown, SsoFails, shell

LEMMA NextMap ==
  ASSUME ThreadsInv, MapInv, [Next]_vars
  PROVE  MapStep
<1>1. ASSUME ReplaceConfig \/ RequestSso \/ AnswerSso \/ UNCHANGED vars
      PROVE  MapStep
      BY <1>1 DEF ReplaceConfig, RequestSso, AnswerSso, vars, shell, MapStep
<1> QED
    BY <1>1, RequestsMap, PagesMap, WorkMap, FailuresMap DEF Next

-----------------------------------------------------------------------------
(* How threads go on.                                                      *)

\* A label is taken from the counter.
Takes(t) ==
  \E step \in {"build", "build floating"} : \E j :
    /\ Moves(t, step, j) /\ j.label = nextId /\ nextId' = nextId + 1
    /\ j.todo = job[t].todo /\ j.seen = config /\ j.url \in BusinessOrigins(config)
    /\ j.id = job[t].id /\ j.raced = job[t].raced
    /\ step = "build" => Snapshot(t) /\ Adds(t)
    /\ step = "build floating" => t = "main" /\ SnapshotFloating
    /\ UNCHANGED <<system, counters, windows, signals, watchdogs, timers, plan, bounds>>

\* A thread ends, or goes on with what it has.
GoesOn(t) ==
  \E step, j :
    /\ Moves(t, step, j) /\ step \notin {"build", "build floating", "retry", "destroy"}
    /\ j.todo \subseteq job[t].todo
    /\ step = "insert floating" => BuildFloating
    /\ step = "show floating" => InsertFloating
    /\ at[t] = "insert floating" => InsertFloating

ThreadStep(t) ==
  \/ GoesOn(t) \/ Takes(t) \/ List(t) \/ (t = "main" /\ Retry)
  \/ \E l : Done(t, l) /\ l \in job[t].todo

LEMMA EndGoesOn ==
  ASSUME NEW t \in Thread, End(t), at[t] # "insert floating"
  PROVE  GoesOn(t)
<1>1. Moves(t, "idle", NoJob) /\ NoJob.todo = {}
      BY EndIs, NoJobIs
<1>2. NoJob.todo \subseteq job[t].todo
      BY <1>1
<1>3. PICK step, j : step = "idle" /\ j = NoJob
      OBVIOUS
<1>4. /\ Moves(t, step, j) /\ step \notin {"build", "build floating", "retry", "destroy"}
      /\ j.todo \subseteq job[t].todo
      /\ step = "insert floating" => BuildFloating
      /\ step = "show floating" => InsertFloating
      /\ at[t] = "insert floating" => InsertFloating
      BY <1>1, <1>2, <1>3
<1> QED
    BY <1>4 DEF GoesOn

LEMMA GoGoesOn ==
  ASSUME JobsFit, NEW t \in Thread, NEW step, Go(t, step),
         step \notin {"build", "build floating", "retry", "destroy"},
         step = "insert floating" => BuildFloating, step = "show floating" => InsertFloating,
         at[t] = "insert floating" => InsertFloating
  PROVE  GoesOn(t)
BY GoIs DEF GoesOn

LEMMA NewGoesOn ==
  ASSUME NEW t \in Thread, NEW step, NEW j, GoWith(t, step, j), j.todo = {},
         step \notin {"build", "build floating", "retry", "destroy", "insert floating", "show floating"},
         at[t] # "insert floating"
  PROVE  GoesOn(t)
<1>1. Moves(t, step, j) /\ j.todo \subseteq job[t].todo
      BY DEF GoWith, Moves
<1> QED
    BY <1>1 DEF GoesOn

LEMMA SnapshotMoves ==
  ASSUME ThreadsInv, NEW t \in Thread, Snapshot(t)
  PROVE  End(t) \/ Takes(t)
<1>1. CASE job[t].url \in BusinessOrigins(config) /\ HasRoom
  <2>1. PICK j : j = [job[t] EXCEPT !.seen = config, !.label = nextId]
        OBVIOUS
  <2>2. /\ GoWith(t, "build", j) /\ Reserve(t) /\ at[t] = "snapshot"
        /\ UNCHANGED <<system, counters, world, plan, bounds>>
        BY <1>1, <2>1 DEF Snapshot
  <2>3. job[t] \in JobType
        BY DEF ThreadsInv, JobsFit
  <2>4. /\ j.label = nextId /\ j.todo = job[t].todo /\ j.seen = config /\ j.url = job[t].url
        /\ j.id = job[t].id /\ j.raced = job[t].raced
        BY <2>1, <2>3 DEF JobType
  <2>5. Moves(t, "build", j) /\ Adds(t) /\ nextId' = nextId + 1
        BY <1>1, <2>2 DEF GoWith, Moves, Adds, Reserve
  <2>6. UNCHANGED <<system, counters, windows, signals, watchdogs, timers, plan, bounds>>
        BY <2>2 DEF world
  <2> QED
      BY <1>1, <2>4, <2>5, <2>6 DEF Takes
<1>2. CASE ~(job[t].url \in BusinessOrigins(config) /\ HasRoom)
      BY <1>2 DEF Snapshot
<1> QED
    BY <1>1, <1>2

LEMMA SnapshotFloatingMoves ==
  ASSUME ThreadsInv, SnapshotFloating
  PROVE  End("main") \/ Takes("main")
<1>1. CASE job["main"].url \in BusinessOrigins(config)
  <2>1. PICK j : j = [job["main"] EXCEPT !.seen = config, !.label = nextId]
        OBVIOUS
  <2>2. /\ GoWith("main", "build floating", j) /\ nextId' = nextId + 1
        /\ UNCHANGED <<system, counters, windows, signals, watchdogs, timers, plan, bounds>>
        BY <1>1, <2>1 DEF SnapshotFloating
  <2>3. job["main"] \in JobType
        BY ThreadsAre DEF ThreadsInv, JobsFit
  <2>4. /\ j.label = nextId /\ j.todo = job["main"].todo /\ j.seen = config /\ j.url = job["main"].url
        /\ j.id = job["main"].id /\ j.raced = job["main"].raced
        BY <2>1, <2>3 DEF JobType
  <2>5. Moves("main", "build floating", j)
        BY <2>2 DEF GoWith, Moves
  <2> QED
      BY <1>1, <2>2, <2>4, <2>5 DEF Takes
<1>2. CASE job["main"].url \notin BusinessOrigins(config)
      BY <1>2 DEF SnapshotFloating
<1> QED
    BY <1>1, <1>2

\* Every step is one of a thread, or leaves the threads, or replaces the
\* configuration.
LEMMA NextMoves ==
  ASSUME ThreadsInv, [Next]_vars
  PROVE  UNCHANGED threads \/ ReplaceConfig \/ \E t \in Thread : ThreadStep(t)
<1> JobsFit
    BY DEF ThreadsInv
<1>1. ASSUME Requests
      PROVE  UNCHANGED threads \/ ThreadStep("main") \/ ThreadStep("config") \/ ThreadStep("sso")
  <2>1. ASSUME NEW url, OpenConfigured(url)
        PROVE  GoesOn("main")
    <3>1. PICK j : j = [NoJob EXCEPT !.url = url]
          OBVIOUS
    <3>2. at["main"] # "insert floating" /\ j.todo = {} /\ GoWith("main", "check processes", j)
          BY <2>1, <3>1 DEF OpenConfigured, NoJob, MainIsFree
    <3> QED
        BY <3>2, NewGoesOn, ThreadsAre
  <2>2. ASSUME NEW l, NEW url, OpenSecondary(l, url)
        PROVE  GoesOn("main")
    <3>1. PICK j : j = [NoJob EXCEPT !.url = url, !.parent = l, !.raced = OfBefore(l)]
          OBVIOUS
    <3>2. at["main"] # "insert floating" /\ j.todo = {} /\ GoWith("main", "snapshot", j)
          BY <2>2, <3>1 DEF OpenSecondary, NoJob, MainIsFree
    <3> QED
        BY <3>2, NewGoesOn, ThreadsAre
  <2>3. ASSUME NEW l, NEW id, NEW url, ShowFloating(l, id, url)
        PROVE  GoesOn("main")
    <3>1. PICK j : j = [NoJob EXCEPT !.url = url, !.parent = l, !.id = id, !.raced = OfBefore(l)]
          OBVIOUS
    <3>2. at["main"] # "insert floating" /\ j.todo = {} /\ GoWith("main", "snapshot floating", j)
          BY <2>3, <3>1 DEF ShowFloating, NoJob, MainIsFree
    <3> QED
        BY <3>2, NewGoesOn, ThreadsAre
  <2>4. ASSUME NEW new, SaveConfig(new)
        PROVE  GoesOn("config")
    <3>1. PICK j : j = [NoJob EXCEPT !.seen = new]
          OBVIOUS
    <3>2. at["config"] # "insert floating" /\ j.todo = {} /\ GoWith("config", "replace", j)
          BY <2>4, <3>1 DEF SaveConfig, NoJob
    <3> QED
        BY <3>2, NewGoesOn, ThreadsAre
  <2>5. ASSUME StartSso
        PROVE  GoesOn("sso")
        BY <2>5, GoGoesOn, ThreadsAre DEF StartSso
  <2>6. ASSUME ClearConfirmed
        PROVE  GoesOn("main") \/ UNCHANGED threads
        BY <2>6, GoGoesOn, ThreadsAre DEF ClearConfirmed, MainIsFree
  <2> QED
      BY <1>1, <2>1, <2>2, <2>3, <2>4, <2>5, <2>6
         DEF Requests, ThreadStep, CloseOwnFloating, CloseRequested, Signal, AnswerPrompt, Load,
             InspectClear
<1>2. ASSUME MainSteps
      PROVE  ThreadStep("main")
  <2>1. ASSUME BuildFloating \/ InsertFloating
        PROVE  GoesOn("main")
        BY <2>1, GoGoesOn, ThreadsAre DEF BuildFloating, InsertFloating
  <2>2. ASSUME FloatingShown \/ RetryEnds
        PROVE  GoesOn("main")
        BY <2>2, EndGoesOn, ThreadsAre DEF FloatingShown, RetryEnds
  <2> QED
      BY <1>2, <2>1, <2>2, SnapshotFloatingMoves, EndGoesOn, ThreadsAre DEF MainSteps, ThreadStep, RetryOne, SnapshotFloating
<1>3. ASSUME Failures
      PROVE  \E t \in Thread : ThreadStep(t)
  <2>1. ASSUME NEW t \in Thread, BuildFails(t)
        PROVE  GoesOn(t)
        BY <2>1, EndGoesOn DEF BuildFails
  <2>2. ASSUME BuildFloatingFails \/ FloatingNotShown
        PROVE  GoesOn("main")
        BY <2>2, EndGoesOn, ThreadsAre DEF BuildFloatingFails, FloatingNotShown
  <2>3. ASSUME SsoFails
        PROVE  GoesOn("sso")
        BY <2>3, EndGoesOn, ThreadsAre DEF SsoFails
  <2>4. ASSUME NEW t \in Thread, NEW l \in job[t].todo, DestroyFails(t, l)
        PROVE  ThreadStep(t)
        BY <2>4 DEF DestroyFails, ThreadStep
  <2>5. ASSUME NEW l \in job["main"].todo, RetryFails(l)
        PROVE  ThreadStep("main")
        BY <2>5 DEF RetryFails, ThreadStep
  <2> QED
      BY <1>3, <2>1, <2>2, <2>3, <2>4, <2>5, ThreadsAre DEF Failures, ThreadStep
<1>4. ASSUME NEW t \in Thread, Steps(t)
      PROVE  ThreadStep(t)
  <2>1. ASSUME CheckProcesses(t) \/ Build(t)
        PROVE  GoesOn(t)
        BY <2>1, EndGoesOn, GoGoesOn DEF CheckProcesses, Build
  <2>2. ASSUME Install(t) \/ AllDestroyed(t)
        PROVE  GoesOn(t)
        BY <2>2, EndGoesOn DEF Install, AllDestroyed
  <2>3. ASSUME NEW l \in job[t].todo, DestroyOne(t, l)
        PROVE  ThreadStep(t)
        BY <2>3 DEF DestroyOne, ThreadStep
  <2> QED
      BY <1>4, <2>1, <2>2, <2>3, SnapshotMoves, EndGoesOn DEF Steps, ThreadStep, Snapshot
<1>5. ASSUME RequestSso \/ AnswerSso
      PROVE  ThreadStep("sso")
  <2>1. ASSUME RequestSso, config.website # None
        PROVE  GoesOn("sso")
    <3>1. PICK j : j = [NoJob EXCEPT !.url = config.website]
          OBVIOUS
    <3>2. at["sso"] # "insert floating" /\ j.todo = {} /\ GoWith("sso", "response", j)
          BY <2>1, <3>1 DEF RequestSso, NoJob
    <3> QED
        BY <3>2, NewGoesOn, ThreadsAre
  <2>2. ASSUME RequestSso, config.website = None
        PROVE  GoesOn("sso")
        BY <2>2, EndGoesOn, ThreadsAre DEF RequestSso
  <2>3. ASSUME AnswerSso
        PROVE  GoesOn("sso")
        BY <2>3, GoGoesOn, ThreadsAre DEF AnswerSso
  <2> QED
      BY <1>5, <2>1, <2>2, <2>3 DEF ThreadStep
<1>6. ASSUME Timers \/ (\E l \in signals : FrontendReady(l)) \/ UNCHANGED vars
      PROVE  UNCHANGED threads
      BY <1>6 DEF Timers, Watchdog, FloatingExpires, FrontendReady, vars
<1> QED
    BY <1>1, <1>2, <1>3, <1>4, <1>5, <1>6, ThreadsAre DEF Next

LEMMA CounterGrows ==
  ASSUME ThreadsInv, [Next]_vars
  PROVE  nextId' \in {nextId, nextId + 1} /\ nextId \in Nat \ {0} /\ nextId' \in Nat \ {0}
<1>1. nextId \in Nat \ {0}
      BY DEF ThreadsInv, LabelsSuffice
<1>2. ASSUME Requests
      PROVE  nextId' = nextId
      BY <1>2 DEF Requests, OpenConfigured, OpenSecondary, ShowFloating, CloseOwnFloating, CloseRequested,
                  Signal, AnswerPrompt, Load, SaveConfig, InspectClear, ClearConfirmed, Retry, StartSso, shell
<1>3. ASSUME MainSteps
      PROVE  nextId' \in {nextId, nextId + 1}
      BY <1>3 DEF MainSteps, SnapshotFloating, BuildFloating, InsertFloating, FloatingShown, RetryEnds,
                  RetryOne, shell
<1>4. ASSUME Failures
      PROVE  nextId' = nextId
      BY <1>4 DEF Failures, BuildFails, DestroyFails, BuildFloatingFails, FloatingNotShown, SsoFails,
                  RetryFails, shell
<1>5. ASSUME NEW t \in Thread, Steps(t)
      PROVE  nextId' \in {nextId, nextId + 1}
      BY <1>5 DEF Steps, CheckProcesses, Snapshot, Reserve, Build, Install, List, AllDestroyed, DestroyOne,
                  shell
<1>6. ASSUME Timers \/ ReplaceConfig \/ RequestSso \/ AnswerSso \/ (\E l \in signals : FrontendReady(l))
             \/ UNCHANGED vars
      PROVE  nextId' = nextId
      BY <1>6 DEF Timers, Watchdog, FloatingExpires, ReplaceConfig, RequestSso, AnswerSso, FrontendReady,
                  vars, shell
<1> QED
    BY <1>1, <1>2, <1>3, <1>4, <1>5, <1>6 DEF Next

\* Watchdogs watch windows that are there.
LEMMA NextWatchdogs ==
  ASSUME [Next]_vars
  PROVE  \A w \in watchdogs' : w \in watchdogs \/ w[1] \in Labels
<1>1. ASSUME Requests
      PROVE  \A w \in watchdogs' : w \in watchdogs \/ w[1] \in Labels
  <2>1. ASSUME NEW l \in Labels, NEW o, Load(l, o)
        PROVE  \A w \in watchdogs' : w \in watchdogs \/ w[1] \in Labels
        BY <2>1 DEF Load
  <2> QED
      BY <1>1, <2>1
         DEF Requests, OpenConfigured, OpenSecondary, ShowFloating, CloseOwnFloating, CloseRequested,
             Signal, AnswerPrompt, SaveConfig, InspectClear, ClearConfirmed, Retry, StartSso, world
<1>2. ASSUME MainSteps
      PROVE  \A w \in watchdogs' : w \in watchdogs \/ w[1] \in Labels
  <2>1. ASSUME NEW l, RetryOne(l)
        PROVE  \A w \in watchdogs' : w \in watchdogs \/ w[1] \in Labels
        BY <2>1 DEF RetryOne
  <2> QED
      BY <1>2, <2>1
         DEF MainSteps, SnapshotFloating, BuildFloating, InsertFloating, FloatingShown, RetryEnds, world
<1>3. ASSUME Failures \/ (\E t \in Thread : Steps(t)) \/ Timers \/ ReplaceConfig \/ RequestSso \/ AnswerSso
             \/ (\E l \in signals : FrontendReady(l)) \/ UNCHANGED vars
      PROVE  watchdogs' \subseteq watchdogs
      BY <1>3 DEF Failures, BuildFails, DestroyFails, BuildFloatingFails, FloatingNotShown, SsoFails,
                  RetryFails, Steps, CheckProcesses, Snapshot, Build, Install, List, AllDestroyed, DestroyOne,
                  Timers, Watchdog, FloatingExpires, ReplaceConfig, RequestSso, AnswerSso, FrontendReady,
                  vars, world
<1> QED
    BY <1>1, <1>2, <1>3 DEF Next

\* A thread that has a label and no window had it before, or takes it now.
StillUnbuilt(t) == Unbuilt(t) /\ at'[t] = at[t] /\ job'[t].label = job[t].label

LEMMA UnbuiltNext ==
  ASSUME ThreadsInv, [Next]_vars, NEW t \in Thread, Unbuilt(t)'
  PROVE  StillUnbuilt(t) \/ Takes(t)
<1> JobsFit
    BY DEF ThreadsInv
<1>1. CASE UNCHANGED threads
      BY <1>1 DEF threads, StillUnbuilt, Unbuilt
<1>2. CASE ReplaceConfig
  <2>1. t # "config"
        BY <1>2, ReplacedJobs DEF Unbuilt
  <2>2. PICK r \in BOOLEAN : job'[t] = Raced(job[t], r) /\ at'[t] = at[t]
        BY <1>2, <2>1, ReplacedJobs
  <2>3. PICK j : j = job[t] /\ j \in JobType
        BY DEF JobsFit
  <2>4. Raced(j, r).label = j.label
        BY <2>3 DEF Raced, JobType
  <2> QED
      BY <2>2, <2>3, <2>4 DEF StillUnbuilt, Unbuilt
<1>3. ASSUME NEW u \in Thread, GoesOn(u)
      PROVE  StillUnbuilt(t)
      BY <1>3, MovedIs DEF GoesOn, StillUnbuilt, Unbuilt
<1>4. ASSUME NEW u \in Thread, Takes(u), u # t
      PROVE  StillUnbuilt(t)
      BY <1>4, MovedIs DEF Takes, StillUnbuilt, Unbuilt
<1>5. ASSUME NEW u \in Thread, List(u) \/ (u = "main" /\ Retry)
      PROVE  StillUnbuilt(t)
  <2>1. CASE \E j : Moves(u, "destroy", j)
    <3>1. at'[u] = "destroy" /\ \A v \in Thread \ {u} : at'[v] = at[v] /\ job'[v] = job[v]
          BY <2>1, MovedIs
    <3> QED
        BY <3>1 DEF StillUnbuilt, Unbuilt
  <2>2. CASE \E j : Moves(u, "retry", j)
    <3>1. at'[u] = "retry" /\ \A v \in Thread \ {u} : at'[v] = at[v] /\ job'[v] = job[v]
          BY <2>2, MovedIs
    <3> QED
        BY <3>1 DEF StillUnbuilt, Unbuilt
  <2> QED
      BY <1>5, <2>1, <2>2 DEF List, Retry, GoWith, Moves
<1>6. ASSUME NEW u \in Thread, NEW l, Done(u, l)
      PROVE  StillUnbuilt(t)
      BY <1>6, DoneBuilds DEF StillUnbuilt, Unbuilt
<1> QED
    BY <1>1, <1>2, <1>3, <1>4, <1>5, <1>6, NextMoves DEF ThreadStep

LEMMA TodoNext ==
  ASSUME ThreadsInv, [Next]_vars, NEW u \in Thread, NEW l \in job'[u].todo
  PROVE  l \in job[u].todo \/ l \in Labels \/ (Retry /\ l \in Claimable)
<1> JobsFit
    BY DEF ThreadsInv
<1>1. CASE UNCHANGED threads
      BY <1>1 DEF threads
<1>2. CASE ReplaceConfig
  <2>1. u = "config" \/ \E r \in BOOLEAN : job'[u] = Raced(job[u], r)
        BY <1>2, ReplacedJobs
  <2>2. u = "config" => job'[u].todo = {}
        BY <1>2, ReplacedJobs, NoJobIs
  <2>3. PICK j : j = job[u] /\ j \in JobType
        BY DEF JobsFit
  <2>4. \A r \in BOOLEAN : Raced(j, r).todo = j.todo
        BY <2>3 DEF Raced, JobType
  <2> QED
      BY <2>1, <2>2, <2>3, <2>4
<1>3. ASSUME NEW t \in Thread, GoesOn(t) \/ Takes(t)
      PROVE  l \in job[u].todo
  <2>1. PICK step, j : Moves(t, step, j) /\ j.todo \subseteq job[t].todo
        BY <1>3 DEF GoesOn, Takes
  <2> QED
      BY <2>1, MovedIs
<1>4. ASSUME NEW t \in Thread, List(t)
      PROVE  l \in job[u].todo \/ l \in Labels
  <2>1. PICK j : j = [job[t] EXCEPT !.todo = Labels]
        OBVIOUS
  <2>2. Moves(t, "destroy", j)
        BY <1>4, <2>1 DEF List, GoWith, Moves
  <2>3. j.todo = Labels
        BY <2>1 DEF JobsFit, JobType
  <2> QED
      BY <2>2, <2>3, MovedIs
<1>5. ASSUME Retry
      PROVE  l \in job[u].todo \/ l \in Claimable
  <2>1. PICK j : j = [NoJob EXCEPT !.todo = Claimable]
        OBVIOUS
  <2>2. Moves("main", "retry", j) /\ j.todo = Claimable
        BY <1>5, <2>1 DEF Retry, GoWith, Moves, NoJob
  <2> QED
      BY <2>2, MovedIs, ThreadsAre
<1>6. ASSUME NEW t \in Thread, NEW k, Done(t, k)
      PROVE  l \in job[u].todo
      BY <1>6, DoneBuilds
<1> QED
    BY <1>1, <1>2, <1>3, <1>4, <1>5, <1>6, NextMoves DEF ThreadStep

LEMMA BuildsEnd ==
  ASSUME ThreadsInv, NEW t \in Thread, Builds(t)
  PROVE  /\ Unbuilt(t) /\ ~Unbuilt(t)'
         /\ UNCHANGED <<runtime, floating, nextId, counters, closing, signals, watchdogs, timers, config, started>>
         /\ \A u \in Thread : job'[u] = job[u] /\ (u # t => at'[u] = at[u])
         /\ at'[t] = IF at[t] = "build" THEN "install" ELSE "insert floating"
<1>1. /\ Unbuilt(t) /\ Go(t, IF at[t] = "build" THEN "install" ELSE "insert floating")
      /\ UNCHANGED <<runtime, floating, nextId, counters, closing, signals, watchdogs, timers, config, started>>
      BY DEF Builds, Build, BuildFloating, Unbuilt, shell, system
<1>2. at'[t] = (IF at[t] = "build" THEN "install" ELSE "insert floating") /\ job' = job
      /\ \A u \in Thread : u # t => at'[u] = at[u]
      BY <1>1 DEF Go, ThreadsInv, JobsFit
<1> QED
    BY <1>1, <1>2 DEF Unbuilt

LEMMA NextIsNew ==
  ASSUME NEW n \in Nat
  PROVE  n \notin 1..(n - 1) /\ \A x \in 1..(n - 1) : x < n
OBVIOUS

LEMMA LabelOfUnbuilt ==
  ASSUME ThreadsInv, NEW t \in Thread, Unbuilt(t)
  PROVE  job[t].label \in 1..(nextId - 1) /\ job[t].label < nextId /\ (at[t] = "build floating" => t = "main")
<1>1. at[t] \in LabelledSteps /\ JobFits(at[t], job[t]) /\ at[t] \in StepsOf(t)
      BY DEF ThreadsInv, JobsFit, Unbuilt, LabelledSteps
<1>2. job[t].label \in 1..(nextId - 1)
      BY <1>1 DEF JobFits
<1>3. nextId \in Nat
      BY DEF ThreadsInv, LabelsSuffice
<1>4. at[t] = "build floating" => t = "main"
      BY <1>1, StepsAre DEF Thread
<1>5. job[t].label < nextId
      BY <1>2, <1>3, NextIsNew
<1> QED
    BY <1>2, <1>4, <1>5

\* The entry of a label that waits for its window stays as it is.
LEMMA EntryStays ==
  ASSUME ThreadsInv, MapInv, [Next]_vars, NEW t \in Thread, StillUnbuilt(t), at[t] = "build"
  PROVE  job[t].label \in DOMAIN runtime' /\ runtime'[job[t].label] = Reserved
<1> DEFINE x == job[t].label
<1>1. /\ x \in DOMAIN runtime /\ runtime[x] = Reserved /\ x < nextId
      /\ \A u \in Thread : x \notin job[u].todo
      BY LabelOfUnbuilt DEF MapInv, LabelsAreFresh, StillUnbuilt
<1>2. Unbuilt(t) /\ Unbuilt(t)' /\ job'[t].label = x
      BY DEF StillUnbuilt, Unbuilt
<1> HIDE DEF x
<1>3. ASSUME NEW l, Drops(l)
      PROVE  x \in DOMAIN runtime' /\ runtime'[x] = Reserved
  <2>1. l # x
        BY <1>2, <1>3 DEF Drops, Unclaimed
  <2> QED
      BY <1>1, <1>3, <2>1 DEF Drops, Without
<1>4. ASSUME NEW l, NEW e, Puts(l, e)
      PROVE  x \in DOMAIN runtime' /\ runtime'[x] = Reserved
  <2>1. l # x
        BY <1>2, <1>4 DEF Puts, Unclaimed, x
  <2> QED
      BY <1>1, <1>4, <2>1 DEF Puts
<1>5. ASSUME NEW l, PutsBack(l)
      PROVE  x \in DOMAIN runtime' /\ runtime'[x] = Reserved
  <2>1. l # x
        BY <1>1, <1>5, ThreadsAre DEF PutsBack
  <2> QED
      BY <1>1, <1>5, <2>1 DEF PutsBack
<1>6. ASSUME NEW u \in Thread, Adds(u)
      PROVE  x \in DOMAIN runtime' /\ runtime'[x] = Reserved
  <2>1. x # nextId
        BY <1>1 DEF ThreadsInv, LabelsSuffice
  <2> QED
      BY <1>1, <1>6, <2>1 DEF Adds, Reserve, Set
<1>7. ASSUME Retry
      PROVE  x \in DOMAIN runtime' /\ runtime'[x] = Reserved
  <2>1. x \notin Claimable
        BY <1>1 DEF Claimable, Reserved
  <2> QED
      BY <1>1, <1>7, <2>1 DEF Retry
<1>8. ASSUME UNCHANGED runtime
      PROVE  x \in DOMAIN runtime' /\ runtime'[x] = Reserved
      BY <1>1, <1>8
<1>9. x \in DOMAIN runtime' /\ runtime'[x] = Reserved
      BY <1>3, <1>4, <1>5, <1>6, <1>7, <1>8, NextMap DEF MapStep
<1> QED
    BY <1>9 DEF x

LEMMA NextFresh ==
  ASSUME ThreadsInv, MapInv, [Next]_vars
  PROVE  LabelsAreFresh'
<1>1. /\ LabelsAreFresh /\ WindowsFit /\ nextId \in Nat \ {0} /\ nextId' \in {nextId, nextId + 1}
      BY CounterGrows DEF MapInv
<1>2. ASSUME NEW w \in watchdogs'
      PROVE  w[1] \in 1..(nextId' - 1)
  <2>1. w[1] \in 1..(nextId - 1)
        BY <1>1, NextWatchdogs DEF LabelsAreFresh, WindowsFit
  <2> QED
      BY <1>1, <2>1
<1>3. ASSUME NEW t \in Thread, StillUnbuilt(t), NEW x, x = job[t].label
      PROVE  /\ x \notin DOMAIN windows' /\ \A w \in watchdogs' : w[1] # x
             /\ \A u \in Thread : x \notin job'[u].todo
             /\ \A u \in Thread \ {t} : Unbuilt(u)' => job'[u].label # x
             /\ at'[t] = "build" => x \in DOMAIN runtime' /\ runtime'[x] = Reserved
  <2>1. /\ Unbuilt(t) /\ x < nextId /\ (at[t] = "build floating" => t = "main")
        /\ x \notin Labels /\ (\A w \in watchdogs : w[1] # x)
        /\ (\A u \in Thread : x \notin job[u].todo)
        /\ \A u \in Thread \ {t} : Unbuilt(u) => job[u].label # x
        /\ at[t] = "build" => x \in DOMAIN runtime /\ runtime[x] = Reserved
        BY <1>1, <1>3, LabelOfUnbuilt DEF StillUnbuilt, LabelsAreFresh
  <2>2. x \notin DOMAIN windows'
    <3>1. CASE WindowsKept
          BY <2>1, <3>1 DEF WindowsKept
    <3>2. ASSUME NEW u \in Thread, Builds(u)
          PROVE  x \notin DOMAIN windows'
      <4>1. ~Unbuilt(u)' /\ Unbuilt(u) /\ DOMAIN windows' = Labels \cup {job[u].label}
            BY <1>1, <3>2, BuildsEnd, BuildsIs
      <4>2. u # t
            BY <1>3, <4>1 DEF StillUnbuilt, Unbuilt
      <4> QED
          BY <2>1, <4>1, <4>2
    <3> QED
        BY <1>1, <3>1, <3>2, NextWindows
  <2>3. \A w \in watchdogs' : w[1] # x
        BY <2>1, NextWatchdogs
  <2>4. ASSUME NEW u \in Thread
        PROVE  x \notin job'[u].todo
    <3>1. x \notin Claimable \/ ~Retry
      <4>1. CASE at[t] = "build"
            BY <2>1, <4>1 DEF Claimable, Reserved
      <4>2. CASE at[t] = "build floating"
            BY <2>1, <4>2 DEF Retry, MainIsFree
      <4> QED
          BY <2>1, <4>1, <4>2 DEF Unbuilt
    <3> QED
        BY <2>1, <3>1, TodoNext
  <2>5. ASSUME NEW u \in Thread \ {t}, Unbuilt(u)'
        PROVE  job'[u].label # x
    <3>1. CASE StillUnbuilt(u)
          BY <2>1, <3>1 DEF StillUnbuilt
    <3>2. CASE Takes(u)
      <4>1. PICK step, j : Moves(u, step, j) /\ j.label = nextId
            BY <3>2 DEF Takes
      <4>2. job'[u].label = nextId
            BY <4>1, MovedIs DEF ThreadsInv
      <4>3. x \in 1..(nextId - 1)
            BY <1>3, <2>1, LabelOfUnbuilt
      <4> QED
          BY <1>1, <4>2, <4>3, NextIsNew
    <3> QED
        BY <2>5, <3>1, <3>2, UnbuiltNext
  <2>6. at'[t] = "build" => x \in DOMAIN runtime' /\ runtime'[x] = Reserved
        BY <1>3, EntryStays DEF StillUnbuilt
  <2> QED
      BY <2>2, <2>3, <2>4, <2>5, <2>6
<1>4. ASSUME NEW t \in Thread, Takes(t)
      PROVE  /\ job'[t].label = nextId
             /\ nextId \notin DOMAIN windows' /\ \A w \in watchdogs' : w[1] # nextId
             /\ \A u \in Thread : nextId \notin job'[u].todo
             /\ \A u \in Thread \ {t} : Unbuilt(u)' => job'[u].label # nextId
             /\ at'[t] = "build" => nextId \in DOMAIN runtime' /\ runtime'[nextId] = Reserved
  <2>0. PICK step \in {"build", "build floating"} : \E j :
          /\ Moves(t, step, j) /\ j.label = nextId /\ j.todo = job[t].todo
          /\ step = "build" => Adds(t)
          /\ UNCHANGED <<windows, watchdogs>>
        BY <1>4 DEF Takes
  <2>1. PICK j :
          /\ Moves(t, step, j) /\ j.label = nextId /\ j.todo = job[t].todo
          /\ step = "build" => Adds(t)
          /\ UNCHANGED <<windows, watchdogs>>
        BY <2>0
  <2>2. /\ at'[t] = step /\ job'[t] = j
        /\ \A u \in Thread \ {t} : at'[u] = at[u] /\ job'[u] = job[u]
        BY <2>1, MovedIs DEF ThreadsInv
  <2>3. nextId \notin Labels /\ \A w \in watchdogs : w[1] # nextId
        BY <1>1, NextIsNew DEF WindowsFit, LabelsAreFresh
  <2>4. ASSUME NEW u \in Thread
        PROVE  nextId \notin job'[u].todo
    <3>1. job'[u].todo = job[u].todo
          BY <2>1, <2>2
    <3>2. job[u].todo \subseteq 1..(nextId - 1)
          BY DEF ThreadsInv, JobsFit, JobFits
    <3> QED
        BY <1>1, <3>1, <3>2, NextIsNew
  <2>5. ASSUME NEW u \in Thread \ {t}, Unbuilt(u)'
        PROVE  job'[u].label # nextId
    <3>1. Unbuilt(u) /\ job'[u] = job[u]
          BY <2>2, <2>5 DEF Unbuilt
    <3> QED
        BY <1>1, <3>1, LabelOfUnbuilt, NextIsNew
  <2>6. step = "build" => nextId \in DOMAIN runtime' /\ runtime'[nextId] = Reserved
        BY <2>1 DEF Adds, Reserve, Set
  <2>7. DOMAIN windows' = Labels
        BY <2>1 DEF Labels
  <2> QED
      BY <2>1, <2>2, <2>3, <2>4, <2>5, <2>6, <2>7
<1>5. ASSUME NEW t \in Thread, Unbuilt(t)'
      PROVE  /\ job'[t].label \notin DOMAIN windows'
             /\ \A w \in watchdogs' : w[1] # job'[t].label
             /\ \A u \in Thread : job'[t].label \notin job'[u].todo
             /\ \A u \in Thread \ {t} : Unbuilt(u)' => job'[u].label # job'[t].label
             /\ at'[t] = "build" => job'[t].label \in DOMAIN runtime' /\ runtime'[job'[t].label] = Reserved
  <2>1. CASE StillUnbuilt(t)
        BY <1>3, <2>1 DEF StillUnbuilt
  <2>2. CASE Takes(t)
        BY <1>4, <2>2
  <2> QED
      BY <1>5, <2>1, <2>2, UnbuiltNext
<1> QED
    BY <1>2, <1>5 DEF LabelsAreFresh, Labels

-----------------------------------------------------------------------------
(* Types.                                                                  *)

\* Entries are well-formed, and only a reservation adds one.
LEMMA NextEntries ==
  ASSUME ThreadsInv, MapInv, [Next]_vars
  PROVE  /\ EntriesFit'
         /\ \A l \in DOMAIN runtime' : l \in DOMAIN runtime \/ (l = nextId /\ nextId' = nextId + 1)
<1> EntriesFit
    BY DEF MapInv
<1>1. ASSUME NEW l, Drops(l)
      PROVE  EntriesFit' /\ DOMAIN runtime' \subseteq DOMAIN runtime
      BY <1>1 DEF Drops, Without, EntriesFit
<1>2. ASSUME NEW l, NEW e, Puts(l, e)
      PROVE  EntriesFit' /\ DOMAIN runtime' \subseteq DOMAIN runtime
      BY <1>2 DEF Puts, EntriesFit
<1>3. ASSUME NEW l, PutsBack(l)
      PROVE  EntriesFit' /\ DOMAIN runtime' \subseteq DOMAIN runtime
  <2>1. l \in DOMAIN runtime /\ runtime' = [runtime EXCEPT ![l] = TimedOut(runtime[l])]
        BY <1>3 DEF PutsBack
  <2>2. TimedOut(runtime[l]) \in EntryType
        BY <2>1, EntriesAre DEF EntriesFit
  <2> QED
      BY <2>1, <2>2 DEF EntriesFit
<1>4. ASSUME NEW t \in Thread, Adds(t)
      PROVE  EntriesFit' /\ DOMAIN runtime' \subseteq DOMAIN runtime \cup {nextId} /\ nextId' = nextId + 1
  <2>1. Reserved \in EntryType
        BY DEF EntryType, Reserved
  <2> QED
      BY <1>4, <2>1 DEF Adds, Reserve, Set, EntriesFit
<1>5. ASSUME Retry
      PROVE  EntriesFit' /\ DOMAIN runtime' \subseteq DOMAIN runtime
  <2>1. \A l \in DOMAIN runtime : Claimed(runtime[l]) \in EntryType
        BY EntriesAre DEF EntriesFit
  <2> QED
      BY <1>5, <2>1 DEF Retry, EntriesFit
<1>6. ASSUME UNCHANGED runtime
      PROVE  EntriesFit' /\ DOMAIN runtime' \subseteq DOMAIN runtime
      BY <1>6 DEF EntriesFit
<1> QED
    BY <1>1, <1>2, <1>3, <1>4, <1>5, <1>6, NextMap DEF MapStep

LEMMA LabelsGrow ==
  ASSUME NEW n \in Nat, NEW m \in {n, n + 1}
  PROVE  1..(n - 1) \subseteq 1..(m - 1)
OBVIOUS

LEMMA NextWindowsFit ==
  ASSUME ThreadsInv, MapInv, [Next]_vars
  PROVE  WindowsFit'
<1>1. WindowsFit /\ nextId \in Nat \ {0} /\ nextId' \in {nextId, nextId + 1}
      BY CounterGrows DEF MapInv
<1>2. 1..(nextId - 1) \subseteq 1..(nextId' - 1)
      BY <1>1, LabelsGrow
<1>3. DOMAIN runtime' \subseteq 1..(nextId' - 1)
  <2>1. nextId' = nextId + 1 => nextId \in 1..(nextId' - 1)
        BY <1>1
  <2> QED
      BY <1>1, <1>2, <2>1, NextEntries DEF WindowsFit
<1>4. CASE WindowsKept
      BY <1>1, <1>2, <1>3, <1>4 DEF WindowsKept, Edited, WindowsFit, Labels
<1>5. ASSUME NEW t \in Thread, Builds(t)
      PROVE  WindowsFit'
  <2>1. DOMAIN windows' = Labels \cup {job[t].label} /\ job[t].label \in 1..(nextId - 1)
        BY <1>1, <1>5, BuildsIs, LabelOfUnbuilt
  <2>2. DOMAIN windows' \subseteq 1..(nextId' - 1)
        BY <1>1, <1>2, <2>1 DEF WindowsFit
  <2>3. \A l \in DOMAIN windows' : windows'[l] \in WindowType
        BY <1>1, <1>5, BuildsIs DEF WindowsFit
  <2> QED
      BY <1>3, <2>2, <2>3 DEF WindowsFit, Labels
<1> QED
    BY <1>1, <1>4, <1>5, NextWindows

\* A window is destroyed with what waits for it, or no window goes.
Removes(l) ==
  windows' = Without(windows, {l}) /\ closing' = closing \ {l} /\ signals' \subseteq signals \ {l}
Keeps == Labels \subseteq DOMAIN windows' /\ closing' \subseteq Labels /\ signals' \subseteq Labels

LEMMA EditKeeps ==
  ASSUME MapInv, NEW l, NEW w, windows' = [windows EXCEPT ![l] = w], UNCHANGED <<closing, signals>>
  PROVE  Keeps
<1>1. DOMAIN windows' = Labels
      BY DEF Labels
<1> QED
    BY <1>1 DEF Keeps, MapInv

LEMMA StayKeeps ==
  ASSUME MapInv, UNCHANGED windows, closing' \subseteq closing \cup Labels, signals' \subseteq signals
  PROVE  Keeps
BY DEF Keeps, MapInv, Labels

LEMMA NextQueues ==
  ASSUME ThreadsInv, MapInv, [Next]_vars
  PROVE  Keeps \/ \E l : Removes(l)
<1>1. ASSUME Requests
      PROVE  Keeps \/ \E l : Removes(l)
  <2>1. ASSUME NEW l \in Labels, CloseRequested(l)
        PROVE  Keeps \/ Removes(l)
    <3>1. CASE Destroyed(l)
          BY <3>1 DEF Destroyed, Removes
    <3>2. CASE /\ windows' = [windows EXCEPT ![l].prompt = "prompting"]
               /\ closing' = closing \ {l} /\ UNCHANGED signals
          BY <3>2 DEF Keeps, MapInv, Labels
    <3> QED
        BY <2>1, <3>1, <3>2 DEF CloseRequested
  <2>2. ASSUME NEW l \in Labels, NEW answer, AnswerPrompt(l, answer)
        PROVE  Keeps
        BY <2>2 DEF AnswerPrompt, Keeps, MapInv, Labels
  <2>3. ASSUME NEW l \in Labels, Signal(l)
        PROVE  Keeps
        BY <2>3 DEF Signal, Keeps, MapInv, Labels
  <2>4. ASSUME NEW l \in Labels, NEW o, Load(l, o)
        PROVE  Keeps
        BY <2>4 DEF Load, Keeps, MapInv, Labels
  <2>5. ASSUME NEW l, NEW id, CloseOwnFloating(l, id)
        PROVE  Keeps
        BY <2>5, StayKeeps DEF CloseOwnFloating, CloseFloating
  <2>6. ASSUME UNCHANGED <<windows, closing, signals>>
        PROVE  Keeps
        BY <2>6, StayKeeps
  <2> QED
      BY <1>1, <2>1, <2>2, <2>3, <2>4, <2>5, <2>6
         DEF Requests, OpenConfigured, OpenSecondary, ShowFloating, SaveConfig, InspectClear,
             ClearConfirmed, Retry, StartSso, world
<1>2. ASSUME MainSteps
      PROVE  Keeps
  <2>1. ASSUME SnapshotFloating
        PROVE  Keeps
    <3>1. UNCHANGED windows /\ UNCHANGED signals /\ closing' \subseteq closing \cup Labels
          BY <2>1 DEF SnapshotFloating
    <3> QED
        BY <3>1, StayKeeps
  <2>2. ASSUME BuildFloating
        PROVE  Keeps
        BY <2>2 DEF BuildFloating, Set, Keeps, MapInv, Labels
  <2>3. ASSUME InsertFloating \/ FloatingShown
        PROVE  Keeps
    <3>1. UNCHANGED <<closing, signals>> /\ DOMAIN windows' = DOMAIN windows
          BY <2>3 DEF InsertFloating, FloatingShown
    <3> QED
        BY <3>1 DEF Keeps, MapInv, Labels
  <2>4. ASSUME NEW l, RetryOne(l)
        PROVE  Keeps
    <3>1. UNCHANGED <<closing, signals>> /\ DOMAIN windows' = DOMAIN windows
          BY <2>4 DEF RetryOne
    <3> QED
        BY <3>1 DEF Keeps, MapInv, Labels
  <2>5. ASSUME RetryEnds
        PROVE  Keeps
        BY <2>5, StayKeeps DEF RetryEnds, world
  <2> QED
      BY <1>2, <2>1, <2>2, <2>3, <2>4, <2>5 DEF MainSteps
<1>3. ASSUME Failures
      PROVE  Keeps
  <2>1. ASSUME NEW t, NEW l, DestroyFails(t, l)
        PROVE  Keeps
    <3>1. UNCHANGED <<closing, signals>> /\ DOMAIN windows' = DOMAIN windows
          BY <2>1 DEF DestroyFails
    <3> QED
        BY <3>1 DEF Keeps, MapInv, Labels
  <2>2. ASSUME UNCHANGED <<windows, closing, signals>>
        PROVE  Keeps
        BY <2>2, StayKeeps
  <2> QED
      BY <1>3, <2>1, <2>2
         DEF Failures, BuildFails, BuildFloatingFails, FloatingNotShown, SsoFails, RetryFails, world
<1>4. ASSUME NEW t \in Thread, Steps(t)
      PROVE  Keeps \/ \E l : Removes(l)
  <2>1. ASSUME Build(t)
        PROVE  Keeps
        BY <2>1 DEF Build, Set, Keeps, MapInv, Labels
  <2>2. ASSUME Install(t)
        PROVE  Keeps
    <3>1. UNCHANGED <<closing, signals>> /\ DOMAIN windows' = DOMAIN windows
          BY <2>2 DEF Install
    <3> QED
        BY <3>1 DEF Keeps, MapInv, Labels
  <2>3. ASSUME NEW l, DestroyOne(t, l)
        PROVE  Removes(l)
        BY <2>3 DEF DestroyOne, Removes
  <2>4. ASSUME UNCHANGED <<windows, closing, signals>>
        PROVE  Keeps
        BY <2>4, StayKeeps
  <2> QED
      BY <1>4, <2>1, <2>2, <2>3, <2>4
         DEF Steps, CheckProcesses, Snapshot, List, AllDestroyed, world
<1>5. ASSUME Timers \/ ReplaceConfig \/ RequestSso \/ AnswerSso \/ (\E l \in signals : FrontendReady(l))
             \/ UNCHANGED vars
      PROVE  Keeps
  <2>1. UNCHANGED windows /\ closing' \subseteq closing \cup Labels /\ signals' \subseteq signals
        BY <1>5 DEF Timers, Watchdog, FloatingExpires, CloseFloating, ReplaceConfig, RequestSso,
                    AnswerSso, FrontendReady, vars, world
  <2> QED
      BY <2>1, StayKeeps
<1> QED
    BY <1>1, <1>2, <1>3, <1>4, <1>5 DEF Next

\* What the map of floating windows loses and gets.
LEMMA NextFloating ==
  ASSUME [Next]_vars
  PROVE  \/ DOMAIN floating' \subseteq DOMAIN floating /\ \A i \in DOMAIN floating' : floating'[i] = floating[i]
         \/ InsertFloating
<1> DEFINE Less == DOMAIN floating' \subseteq DOMAIN floating /\ \A i \in DOMAIN floating' : floating'[i] = floating[i]
<1>1. ASSUME NEW S, floating' = Without(floating, S)
      PROVE  Less
      BY <1>1 DEF Without
<1>2. ASSUME UNCHANGED floating
      PROVE  Less
      BY <1>2
<1>3. \/ InsertFloating
      \/ \E S : floating' = Without(floating, S)
      \/ UNCHANGED floating
  <2>1. ASSUME Requests
        PROVE  UNCHANGED floating \/ \E S : floating' = Without(floating, S)
        BY <2>1 DEF Requests, OpenConfigured, OpenSecondary, ShowFloating, CloseOwnFloating, CloseFloating,
                    CloseRequested, Destroyed, Signal, AnswerPrompt, Load, SaveConfig, InspectClear,
                    ClearConfirmed, Retry, StartSso, shell
  <2>2. ASSUME MainSteps
        PROVE  InsertFloating \/ UNCHANGED floating \/ \E S : floating' = Without(floating, S)
        BY <2>2 DEF MainSteps, SnapshotFloating, BuildFloating, FloatingShown, RetryEnds, RetryOne, shell
  <2>3. ASSUME NEW t \in Thread, Steps(t)
        PROVE  UNCHANGED floating \/ \E S : floating' = Without(floating, S)
        BY <2>3 DEF Steps, CheckProcesses, Snapshot, Build, Install, List, AllDestroyed, DestroyOne, shell
  <2>4. ASSUME Timers
        PROVE  UNCHANGED floating \/ \E S : floating' = Without(floating, S)
        BY <2>4 DEF Timers, Watchdog, FloatingExpires, CloseFloating
  <2>5. ASSUME Failures \/ ReplaceConfig \/ RequestSso \/ AnswerSso
               \/ (\E l \in signals : FrontendReady(l)) \/ UNCHANGED vars
        PROVE  UNCHANGED floating
        BY <2>5 DEF Failures, BuildFails, DestroyFails, BuildFloatingFails, FloatingNotShown, SsoFails,
                    RetryFails, ReplaceConfig, RequestSso, AnswerSso, FrontendReady, vars, shell
  <2> QED
      BY <2>1, <2>2, <2>3, <2>4, <2>5 DEF Next
<1> QED
    BY <1>1, <1>2, <1>3

\* Only the replacement of the configuration changes the system.
LEMMA NextSystem ==
  ASSUME [Next]_vars
  PROVE  ReplaceConfig \/ UNCHANGED system
BY DEF Next, Requests, OpenConfigured, OpenSecondary, ShowFloating, CloseOwnFloating,
       CloseRequested, Signal, AnswerPrompt, Load, SaveConfig, InspectClear,
       ClearConfirmed, Retry, StartSso, Timers, Watchdog, FloatingExpires, MainSteps, SnapshotFloating,
       BuildFloating, InsertFloating, FloatingShown, RetryEnds, RetryOne, Failures, BuildFails,
       DestroyFails, BuildFloatingFails, FloatingNotShown, SsoFails, RetryFails, Steps, CheckProcesses,
       Snapshot, Build, Install, List, AllDestroyed, DestroyOne, RequestSso, AnswerSso, FrontendReady, vars

\* A start of the application is set as the system has it or the new
\* configuration wants it.
LEMMA AutostartFits ==
  ASSUME NEW old, NEW new, autostart \in BOOLEAN, new.autoStart \in BOOLEAN, NEW r \in Replacements(old, new)
  PROVE  r.autostart \in BOOLEAN
<1>1. ASSUME NEW a \in BOOLEAN, NEW b \in BOOLEAN, NEW s \in Autostarts(a, b)
      PROVE  s.autostart \in BOOLEAN
      BY DEF Autostarts
<1>2. ASSUME NEW k, NEW a \in BOOLEAN, NEW oldKeys, NEW s \in Restored(k, a, oldKeys, autostart, 1)
      PROVE  s.autostart \in BOOLEAN
  <2>1. PICK x \in Register(oldKeys, {}), y \in Autostarts(a, autostart) :
          s = [keys |-> x.keys, autostart |-> y.autostart, ok |-> FALSE, failed |-> 1 + x.failed + y.failed]
        BY DEF Restored
  <2> QED
      BY <1>1, <2>1
<1>3. PICK x \in Register(new.keys, old.keys) :
        \/ r = [keys |-> x.keys, autostart |-> autostart, ok |-> FALSE, failed |-> x.failed]
        \/ \E s \in Register(old.keys, {}) :
             r = [keys |-> s.keys, autostart |-> autostart, ok |-> FALSE, failed |-> 1 + s.failed]
        \/ \E s \in Autostarts(autostart, new.autoStart) :
             \/ r \in Restored(new.keys, s.autostart, old.keys, autostart, 1)
             \/ r = [keys |-> new.keys, autostart |-> s.autostart, ok |-> TRUE, failed |-> 0]
      BY DEF Replacements
<1>4. CASE \E s \in Autostarts(autostart, new.autoStart) :
             \/ r \in Restored(new.keys, s.autostart, old.keys, autostart, 1)
             \/ r = [keys |-> new.keys, autostart |-> s.autostart, ok |-> TRUE, failed |-> 0]
  <2>1. PICK s \in Autostarts(autostart, new.autoStart) :
             \/ r \in Restored(new.keys, s.autostart, old.keys, autostart, 1)
             \/ r = [keys |-> new.keys, autostart |-> s.autostart, ok |-> TRUE, failed |-> 0]
        BY <1>4
  <2>2. s.autostart \in BOOLEAN
        BY <1>1
  <2> QED
      BY <1>2, <2>1, <2>2
<1> QED
    BY <1>3, <1>4

LEMMA CountersGrow ==
  ASSUME TypeOK, ThreadsInv, MapInv, [Next]_vars
  PROVE  recoveries' \in Nat /\ timeouts' \in Nat
<1>1. recoveries \in Nat /\ timeouts \in Nat
      BY DEF TypeOK
<1>2. ASSUME NEW l, NEW e, Puts(l, e)
      PROVE  recoveries' \in Nat /\ timeouts' \in Nat
      BY <1>1, <1>2 DEF Puts
<1>3. ASSUME UNCHANGED counters
      PROVE  recoveries' \in Nat /\ timeouts' \in Nat
      BY <1>1, <1>3 DEF counters
<1> QED
    BY <1>2, <1>3, NextMap DEF MapStep, Drops, PutsBack, Adds, Retry

\* Pages are those that their windows may show.
LEMMA NextPages ==
  ASSUME TypeOK, ThreadsInv, MapInv, [Next]_vars
  PROVE  \A l \in DOMAIN windows' : windows'[l].page \in AllowedOrigins(windows'[l].seen)
<1>1. \A l \in Labels : windows[l].page \in AllowedOrigins(windows[l].seen)
      BY DEF TypeOK
<1>2. WindowsFit
      BY DEF MapInv
<1>3. CASE WindowsKept
      BY <1>1, <1>3 DEF WindowsKept, Edited, Labels
<1>4. ASSUME NEW t \in Thread, Builds(t)
      PROVE  \A l \in DOMAIN windows' : windows'[l].page \in AllowedOrigins(windows'[l].seen)
  <2>1. /\ DOMAIN windows' = Labels \cup {job[t].label}
        /\ \A m \in Labels \ {job[t].label} : windows'[m] = windows[m]
        /\ windows'[job[t].label].page \in AllowedOrigins(windows'[job[t].label].seen)
        BY <1>2, <1>4, BuildsIs
  <2> QED
      BY <1>1, <2>1
<1> QED
    BY <1>2, <1>3, <1>4, NextWindows

LEMMA NextConfig ==
  ASSUME TypeOK, ThreadsInv, [Next]_vars
  PROVE  config' \in Config /\ started' \in SUBSET {"helper"} /\ autostart' \in BOOLEAN
<1>1. CASE UNCHANGED system
      BY <1>1 DEF system, TypeOK
<1>2. CASE ReplaceConfig
  <2>1. at["config"] = "replace" /\ JobFits(at["config"], job["config"])
        BY <1>2, ThreadsAre DEF ReplaceConfig, ThreadsInv, JobsFit
  <2>2. job["config"].seen \in Config
        BY <2>1 DEF JobFits
  <2>3. job["config"].seen.autoStart \in BOOLEAN
        BY <2>2, WindowsAssumption DEF ConfigType
  <2>4. PICK r \in Replacements(config, job["config"].seen) :
          /\ autostart' = r.autostart /\ config' = IF r.ok THEN job["config"].seen ELSE config
          /\ started' = started
        BY <1>2 DEF ReplaceConfig
  <2>5. r.autostart \in BOOLEAN
        BY <2>3, AutostartFits DEF TypeOK
  <2> QED
      BY <2>2, <2>4, <2>5 DEF TypeOK
<1> QED
    BY <1>1, <1>2, NextSystem

LEMMA LastLabel ==
  ASSUME NEW M \in Nat, NEW n \in Nat \ {0}, NEW e \in 0..M, NEW a \in {0, 1}, NEW b \in {0, 1},
         n + a + b <= e + 1
  PROVE  n \in 1..(M + 1) /\ 1..(n - 1) \subseteq 1..(M + 1)
OBVIOUS

LEMMA NextTypes ==
  ASSUME TypeOK, ThreadsInv, MapInv, [Next]_vars
  PROVE  TypeOK' /\ ThreadsInv' /\ MapInv'
<1>1. ThreadsInv' /\ WindowsFit'
      BY NextThreads, NextWindowsFit DEF TypeOK, MapInv
<1>2. closing' \subseteq DOMAIN windows' /\ signals' \subseteq DOMAIN windows'
  <2>1. CASE Keeps
        BY <2>1 DEF Keeps
  <2>2. ASSUME NEW l, Removes(l)
        PROVE  closing' \subseteq DOMAIN windows' /\ signals' \subseteq DOMAIN windows'
        BY <2>2 DEF Removes, Without, MapInv, Labels
  <2> QED
      BY <2>1, <2>2, NextQueues
<1>3. MapInv'
      BY <1>1, <1>2, NextEntries, NextFresh DEF MapInv, Labels
<1>4. nextId' \in 1..(MaxEvents + 1) /\ 1..(nextId' - 1) \subseteq 1..(MaxEvents + 1)
  <2>1. \A s : Asked(s) \in {0, 1}
        BY DEF Asked
  <2>2. /\ events' \in 0..MaxEvents /\ nextId' \in Nat \ {0}
        /\ nextId' + Asked(at'["main"]) + Asked(at'["sso"]) <= events' + 1
        BY <1>1 DEF ThreadsInv, LabelsSuffice
  <2>3. MaxEvents \in Nat
        BY WindowsAssumption
  <2>4. PICK a, b : a = Asked(at'["main"]) /\ b = Asked(at'["sso"])
        OBVIOUS
  <2>5. a \in {0, 1} /\ b \in {0, 1} /\ nextId' + a + b <= events' + 1
        BY <2>1, <2>2, <2>4
  <2> QED
      BY <2>2, <2>3, <2>5, LastLabel
<1>5. DOMAIN floating' \subseteq FloatingId
  <2>1. CASE InsertFloating
    <3>1. at["main"] = "insert floating" /\ JobFits(at["main"], job["main"])
          BY <2>1, ThreadsAre DEF InsertFloating, ThreadsInv, JobsFit
    <3>2. job["main"].id \in FloatingId
          BY <3>1 DEF JobFits, FloatingSteps
    <3> QED
        BY <2>1, <3>2 DEF InsertFloating, Set, TypeOK
  <2> QED
      BY <2>1, NextFloating DEF TypeOK
<1>6. \A l \in DOMAIN runtime' : runtime'[l] \in [state : {"Loading", "Navigating", "Ready", "TimedOut"},
                                                generation : Nat, recovering : BOOLEAN]
      BY NextEntries DEF EntriesFit, EntryType
<1>7. DOMAIN runtime' \subseteq 1..(nextId' - 1) /\ DOMAIN windows' \subseteq 1..(nextId' - 1)
      BY <1>1 DEF WindowsFit, Labels
<1> QED
    BY <1>1, <1>2, <1>3, <1>4, <1>5, <1>6, <1>7, CountersGrow, NextPages, NextConfig
       DEF TypeOK, Label, Labels

-----------------------------------------------------------------------------
(* The map has room, and recoveries follow upon timeouts.                  *)

LEMMA LabelsAreFinite ==
  ASSUME NEW n \in Nat, NEW S, S \subseteq 1..(n - 1)
  PROVE  IsFiniteSet(S) /\ Cardinality(S) \in Nat
<1>1. n - 1 \in Int /\ 1 \in Int
      OBVIOUS
<1>2. IsFiniteSet(1..(n - 1))
      BY <1>1, FS_Interval
<1> QED
    BY <1>2, FS_Subset, FS_CardinalityType

LEMMA MapIsFinite ==
  ASSUME ThreadsInv, WindowsFit
  PROVE  IsFiniteSet(DOMAIN runtime) /\ Cardinality(DOMAIN runtime) \in Nat
<1>1. nextId \in Nat /\ DOMAIN runtime \subseteq 1..(nextId - 1)
      BY DEF ThreadsInv, LabelsSuffice, WindowsFit
<1> QED
    BY <1>1, LabelsAreFinite

LEMMA SmallerFits ==
  ASSUME NEW S, IsFiniteSet(S), NEW T, T \subseteq S
  PROVE  /\ IsFiniteSet(T) /\ Cardinality(S) \in Nat /\ Cardinality(T) \in Nat
         /\ Cardinality(T) <= Cardinality(S)
BY FS_Subset, FS_CardinalityType

\* The map has room for what it holds.
LEMMA NextRoom ==
  ASSUME ThreadsInv, MapInv, Cardinality(DOMAIN runtime) <= MaxWindows, [Next]_vars
  PROVE  Cardinality(DOMAIN runtime') <= MaxWindows
<1>1. IsFiniteSet(DOMAIN runtime) /\ Cardinality(DOMAIN runtime) \in Nat /\ MaxWindows \in Nat
      BY MapIsFinite, WindowsAssumption DEF MapInv
<1>2. ASSUME DOMAIN runtime' \subseteq DOMAIN runtime
      PROVE  Cardinality(DOMAIN runtime') <= MaxWindows
  <2>1. Cardinality(DOMAIN runtime') \in Nat /\ Cardinality(DOMAIN runtime') <= Cardinality(DOMAIN runtime)
        BY <1>1, <1>2, SmallerFits
  <2> QED
      BY <1>1, <2>1
<1>3. ASSUME NEW t \in Thread, Adds(t)
      PROVE  Cardinality(DOMAIN runtime') <= MaxWindows
  <2>1. Cardinality(DOMAIN runtime) < MaxWindows /\ DOMAIN runtime' = DOMAIN runtime \cup {nextId}
        BY <1>3 DEF Adds, HasRoom, Reserve, Set
  <2>2. Cardinality(DOMAIN runtime \cup {nextId}) <= Cardinality(DOMAIN runtime) + 1
        BY <1>1, FS_AddElement
  <2>3. Cardinality(DOMAIN runtime \cup {nextId}) \in Nat
        BY <1>1, FS_AddElement, FS_CardinalityType
  <2> QED
      BY <1>1, <2>1, <2>2, <2>3
<1>4. ASSUME NEW l, Drops(l)
      PROVE  DOMAIN runtime' \subseteq DOMAIN runtime
      BY <1>4 DEF Drops, Without
<1>5. ASSUME (\E l, e : Puts(l, e)) \/ (\E l : PutsBack(l)) \/ Retry \/ UNCHANGED runtime
      PROVE  DOMAIN runtime' \subseteq DOMAIN runtime
      BY <1>5 DEF Puts, PutsBack, Retry
<1> QED
    BY <1>2, <1>3, <1>4, <1>5, NextMap DEF MapStep

\* A window that timed out and has not been ready since.
Recovering == {l \in DOMAIN runtime : Recovers(runtime[l])}

LEMMA RecoveringIsFinite ==
  ASSUME ThreadsInv, WindowsFit
  PROVE  IsFiniteSet(Recovering) /\ Cardinality(Recovering) \in Nat
<1>1. Recovering \subseteq DOMAIN runtime
      BY DEF Recovering
<1> QED
    BY <1>1, MapIsFinite, SmallerFits

LEMMA NextRecoveries ==
  ASSUME TypeOK, ThreadsInv, MapInv, MapHolds, RecoveriesAreTrue, [Next]_vars
  PROVE  RecoveriesAreTrue'
<1>1. /\ recoveries \in Nat /\ timeouts \in Nat /\ recoveries + Cardinality(Recovering) <= timeouts
      /\ IsFiniteSet(Recovering) /\ Cardinality(Recovering) \in Nat
      BY RecoveringIsFinite DEF TypeOK, RecoveriesAreTrue, Recovering, MapInv
<1> DEFINE After == {l \in DOMAIN runtime' : Recovers(runtime'[l])}
           Holds == recoveries' + Cardinality(After) <= timeouts'
<1>2. ASSUME After \subseteq Recovering, recoveries' = recoveries, timeouts' = timeouts
      PROVE  Holds
  <2>1. Cardinality(After) \in Nat /\ Cardinality(After) <= Cardinality(Recovering)
        BY <1>1, <1>2, SmallerFits
  <2> HIDE DEF After
  <2> QED
      BY <1>1, <1>2, <2>1
<1>3. ASSUME NEW l, NEW e, Puts(l, e)
      PROVE  Holds
  <2>1. /\ l \in DOMAIN runtime /\ DOMAIN runtime' = DOMAIN runtime
        /\ \A m \in DOMAIN runtime : runtime'[m] = IF m = l THEN e ELSE runtime[m]
        BY <1>3 DEF Puts
  <2>2. CASE /\ recoveries' = recoveries + (IF Recovers(runtime[l]) THEN 1 ELSE 0) /\ timeouts' = timeouts
             /\ ~Recovers(e)
    <3>1. After = Recovering \ {l} /\ (Recovers(runtime[l]) <=> l \in Recovering)
          BY <2>1, <2>2 DEF Recovering
    <3>2. Cardinality(Recovering \ {l}) =
            IF l \in Recovering THEN Cardinality(Recovering) - 1 ELSE Cardinality(Recovering)
          BY <1>1, FS_RemoveElement
    <3>3. PICK n \in Nat : n = Cardinality(Recovering)
          BY <1>1
    <3>4. Cardinality(After) = IF l \in Recovering THEN n - 1 ELSE n
          BY <3>1, <3>2, <3>3
    <3>5. recoveries' = recoveries + IF l \in Recovering THEN 1 ELSE 0
          BY <2>2, <3>1
    <3> HIDE DEF After
    <3> QED
        BY <1>1, <2>2, <3>3, <3>4, <3>5
  <2>3. CASE recoveries' = recoveries /\ timeouts' = timeouts + 1
    <3>1. After \subseteq Recovering \cup {l}
          BY <2>1 DEF Recovering
    <3>2. /\ IsFiniteSet(Recovering \cup {l})
          /\ Cardinality(Recovering \cup {l}) = Cardinality(Recovering) \/
             Cardinality(Recovering \cup {l}) = Cardinality(Recovering) + 1
          BY <1>1, FS_AddElement
    <3>3. Cardinality(After) \in Nat /\ Cardinality(After) <= Cardinality(Recovering \cup {l})
          BY <3>1, <3>2, SmallerFits
    <3>4. PICK n \in Nat : n = Cardinality(Recovering)
          BY <1>1
    <3>5. Cardinality(After) <= n + 1
          BY <3>2, <3>3, <3>4
    <3> HIDE DEF After
    <3> QED
        BY <1>1, <2>3, <3>3, <3>4, <3>5
  <2>4. CASE recoveries' = recoveries /\ timeouts' = timeouts /\ (Recovers(e) => Recovers(runtime[l]))
    <3>1. After \subseteq Recovering
          BY <2>1, <2>4 DEF Recovering
    <3> QED
        BY <1>2, <2>4, <3>1
  <2> QED
      BY <1>3, <2>2, <2>3, <2>4 DEF Puts
<1>4. ASSUME NEW l, Drops(l)
      PROVE  Holds
  <2>1. After \subseteq Recovering
        BY <1>4 DEF Drops, Without, Recovering
  <2> QED
      BY <1>2, <1>4, <2>1 DEF Drops, counters
<1>5. ASSUME NEW l, PutsBack(l)
      PROVE  Holds
  <2>1. l \in DOMAIN runtime /\ Recovers(runtime[l])
        BY <1>5 DEF PutsBack, MapHolds
  <2>2. After \subseteq Recovering
        BY <1>5, <2>1 DEF PutsBack, Recovering
  <2> QED
      BY <1>2, <1>5, <2>2 DEF PutsBack, counters
<1>6. ASSUME NEW t \in Thread, Adds(t)
      PROVE  Holds
  <2>1. After \subseteq Recovering
        BY <1>6 DEF Adds, Reserve, Set, Recovering, Reserved, Recovers
  <2> QED
      BY <1>2, <1>6, <2>1 DEF Adds, counters
<1>7. ASSUME Retry
      PROVE  Holds
  <2>1. After \subseteq Recovering
        BY <1>7 DEF Retry, Claimable, Recovering, Recovers
  <2> QED
      BY <1>2, <1>7, <2>1 DEF Retry, counters
<1>8. ASSUME UNCHANGED <<runtime, counters>>
      PROVE  Holds
      BY <1>2, <1>8 DEF counters, Recovering
<1>9. Holds
      BY <1>3, <1>4, <1>5, <1>6, <1>7, <1>8, NextMap DEF MapStep
<1> QED
    BY <1>9 DEF RecoveriesAreTrue

\* What is retried was being retried before, or has just been claimed.
LEMMA RetriedNext ==
  ASSUME ThreadsInv, [Next]_vars, at'["main"] = "retry"
  PROVE  Retry \/ (at["main"] = "retry" /\ job'["main"].todo \subseteq job["main"].todo)
<1> JobsFit /\ "main" \in Thread
    BY ThreadsAre DEF ThreadsInv
<1>1. CASE UNCHANGED threads
      BY <1>1 DEF threads
<1>2. CASE ReplaceConfig
  <2>1. PICK r \in BOOLEAN : job'["main"] = Raced(job["main"], r) /\ at'["main"] = at["main"]
        BY <1>2, ReplacedJobs
  <2>2. PICK j : j = job["main"] /\ j \in JobType
        BY DEF JobsFit
  <2>3. Raced(j, r).todo = j.todo
        BY <2>2 DEF Raced, JobType
  <2> QED
      BY <2>1, <2>2, <2>3
<1>3. ASSUME NEW t \in Thread, GoesOn(t) \/ Takes(t)
      PROVE  t # "main" /\ at'["main"] = at["main"] /\ job'["main"] = job["main"]
  <2>1. PICK step, j : Moves(t, step, j) /\ step # "retry"
        BY <1>3 DEF GoesOn, Takes
  <2> QED
      BY <2>1, MovedIs
<1>4. ASSUME NEW t \in Thread, List(t)
      PROVE  t # "main" /\ at'["main"] = at["main"] /\ job'["main"] = job["main"]
  <2>1. PICK j : Moves(t, "destroy", j)
        BY <1>4 DEF List, GoWith, Moves
  <2> QED
      BY <2>1, MovedIs
<1>5. ASSUME NEW t \in Thread, NEW k, Done(t, k)
      PROVE  at'["main"] = at["main"] /\ job'["main"].todo \subseteq job["main"].todo
      BY <1>5, DoneBuilds
<1> QED
    BY <1>1, <1>2, <1>3, <1>4, <1>5, NextMoves DEF ThreadStep

\* What is retried has timed out.
LEMMA NextRetried ==
  ASSUME ThreadsInv, MapInv, MapHolds, [Next]_vars, at'["main"] = "retry",
         NEW l \in job'["main"].todo \cap DOMAIN runtime'
  PROVE  Recovers(runtime'[l])
<1>1. CASE Retry
  <2>1. PICK j : j = [NoJob EXCEPT !.todo = Claimable]
        OBVIOUS
  <2>2. Moves("main", "retry", j) /\ j.todo = Claimable
        BY <1>1, <2>1 DEF Retry, GoWith, Moves, NoJob
  <2>3. l \in Claimable /\ l \in DOMAIN runtime
        BY <2>2, MovedIs, ThreadsAre DEF ThreadsInv, Claimable
  <2>4. runtime'[l] = Claimed(runtime[l])
        BY <1>1, <2>3 DEF Retry
  <2> QED
      BY <2>4 DEF Claimed, Recovers
<1>2. CASE ~Retry
  <2>1. at["main"] = "retry" /\ l \in job["main"].todo
        BY <1>2, RetriedNext
  <2>2. l \in DOMAIN runtime => Recovers(runtime[l])
        BY <2>1 DEF MapHolds
  <2>3. nextId \in Nat /\ job["main"].todo \subseteq 1..(nextId - 1)
        BY ThreadsAre DEF ThreadsInv, LabelsSuffice, JobsFit, JobFits
  <2>4. ASSUME NEW k, Drops(k)
        PROVE  Recovers(runtime'[l])
        BY <2>2, <2>4 DEF Drops, Without
  <2>5. ASSUME NEW k, NEW e, Puts(k, e)
        PROVE  Recovers(runtime'[l])
        BY <2>1, <2>2, <2>5 DEF Puts
  <2>6. ASSUME NEW k, PutsBack(k)
        PROVE  Recovers(runtime'[l])
    <3>1. k \in DOMAIN runtime /\ runtime' = [runtime EXCEPT ![k] = TimedOut(runtime[k])]
          BY <2>6 DEF PutsBack
    <3>2. Recovers(TimedOut(runtime[k]))
          BY <3>1, EntriesAre DEF MapInv, EntriesFit
    <3> QED
        BY <2>2, <3>1, <3>2
  <2>7. ASSUME NEW t \in Thread, Adds(t)
        PROVE  Recovers(runtime'[l])
    <3>1. l # nextId
          BY <2>1, <2>3, NextIsNew
    <3> QED
        BY <2>2, <2>7, <3>1 DEF Adds, Reserve, Set
  <2> QED
      BY <1>2, <2>2, <2>4, <2>5, <2>6, <2>7, NextMap DEF MapStep
<1> QED
    BY <1>1, <1>2

\* Every business window has its entry.
LEMMA NextCounted ==
  ASSUME ThreadsInv, MapInv, WindowsAreCounted, [Next]_vars
  PROVE  {l \in DOMAIN windows' : windows'[l].kind = "business"} \subseteq DOMAIN runtime'
<1>1. /\ \A l \in Labels : windows[l].kind = "business" => l \in DOMAIN runtime
      /\ WindowsFit /\ LabelsAreFresh
      BY DEF WindowsAreCounted, Business, MapInv
<1>2. ASSUME WindowsKept, NEW l \in DOMAIN windows', windows'[l].kind = "business"
      PROVE  l \in DOMAIN runtime'
  <2>1. l \in Labels /\ l \in DOMAIN runtime
        BY <1>1, <1>2 DEF WindowsKept, Edited
  <2>2. ASSUME NEW k, Drops(k)
        PROVE  l \in DOMAIN runtime'
        BY <1>2, <2>1, <2>2 DEF Drops, Without
  <2>3. ASSUME (\E k, e : Puts(k, e)) \/ (\E k : PutsBack(k)) \/ Retry \/ UNCHANGED runtime
               \/ (\E t \in Thread : Adds(t))
        PROVE  l \in DOMAIN runtime'
        BY <2>1, <2>3 DEF Puts, PutsBack, Retry, Adds, Reserve, Set
  <2> QED
      BY <2>2, <2>3, NextMap DEF MapStep
<1>3. ASSUME NEW t \in Thread, Builds(t), NEW l \in DOMAIN windows', windows'[l].kind = "business"
      PROVE  l \in DOMAIN runtime'
  <2>1. runtime' = runtime /\ Unbuilt(t)
        BY <1>3, BuildsEnd
  <2>2. CASE l = job[t].label
    <3>1. windows'[l] = Window(t, IF at[t] = "build" THEN "business" ELSE "floating")
          BY <1>1, <1>3, <2>2, BuildsIs
    <3>2. at[t] = "build"
          BY <1>3, <3>1 DEF Window
    <3> QED
        BY <1>1, <2>1, <2>2, <3>2 DEF LabelsAreFresh
  <2>3. CASE l # job[t].label
    <3>1. l \in Labels /\ windows'[l] = windows[l]
          BY <1>1, <1>3, <2>3, BuildsIs
    <3> QED
        BY <1>1, <1>3, <2>1, <3>1
  <2> QED
      BY <2>2, <2>3
<1> QED
    BY <1>1, <1>2, <1>3, NextWindows

LEMMA NextMapHolds ==
  ASSUME TypeOK, ThreadsInv, MapInv, WindowsAreCounted, MapHolds, [Next]_vars
  PROVE  MapHolds' /\ WindowsAreCounted'
<1>1. Cardinality(DOMAIN runtime') <= MaxWindows
      BY NextRoom DEF MapHolds
<1>2. MapHolds'
      BY <1>1, NextRetried DEF MapHolds
<1>3. ThreadsInv' /\ MapInv'
      BY NextTypes
<1>4. Business' \subseteq DOMAIN runtime'
      BY NextCounted DEF Business, Labels
<1>5. IsFiniteSet(DOMAIN runtime')
  <2>1. /\ nextId' \in Nat /\ DOMAIN runtime' \subseteq 1..(nextId' - 1)
        BY <1>3 DEF ThreadsInv, LabelsSuffice, MapInv, WindowsFit
  <2> QED
      BY <2>1, LabelsAreFinite
<1>6. Cardinality(Business') <= MaxWindows
  <2>1. /\ Cardinality(Business') \in Nat /\ Cardinality(DOMAIN runtime') \in Nat
        /\ Cardinality(Business') <= Cardinality(DOMAIN runtime')
        BY <1>4, <1>5, SmallerFits
  <2>2. MaxWindows \in Nat
        BY WindowsAssumption
  <2> QED
      BY <1>1, <2>1, <2>2
<1>7. \A t \in Thread : at'[t] = "build" => job'[t].label \in DOMAIN runtime'
      BY <1>3 DEF MapInv, LabelsAreFresh, Unbuilt
<1> QED
    BY <1>2, <1>4, <1>6, <1>7 DEF WindowsAreCounted

-----------------------------------------------------------------------------
(* The system and the configuration.                                       *)

LEMMA FaultsGrow ==
  ASSUME faults \in Nat, [Next]_vars
  PROVE  ReplaceConfig \/ faults' \in {faults, faults + 1}
BY DEF Next, Requests, OpenConfigured, OpenSecondary, ShowFloating, CloseOwnFloating,
       CloseRequested, Signal, AnswerPrompt, Load, SaveConfig, InspectClear,
       ClearConfirmed, Retry, StartSso, Timers, Watchdog, FloatingExpires, MainSteps, SnapshotFloating,
       BuildFloating, InsertFloating, FloatingShown, RetryEnds, RetryOne, Failures, BuildFails,
       DestroyFails, BuildFloatingFails, FloatingNotShown, SsoFails, RetryFails, Steps, CheckProcesses,
       Snapshot, Build, Install, List, AllDestroyed, DestroyOne, RequestSso, AnswerSso, FrontendReady, vars,
       Spend, Fault, bounds

LEMMA NextSystemMatches ==
  ASSUME ThreadsInv, SystemMatchesConfig, [Next]_vars
  PROVE  SystemMatchesConfig'
<1>1. faults \in Nat
      BY DEF ThreadsInv, LabelsSuffice
<1>2. CASE ReplaceConfig
  <2>1. PICK new : new = job["config"].seen
        OBVIOUS
  <2>2. PICK r \in Replacements(config, new) :
          /\ faults' = faults + r.failed /\ keys' = r.keys /\ autostart' = r.autostart
          /\ config' = IF r.ok THEN new ELSE config
        BY <1>2, <2>1 DEF ReplaceConfig
  <2>3. /\ r.failed \in Nat
        /\ r.ok => r.keys = new.keys /\ r.autostart = new.autoStart /\ r.failed = 0
        /\ ~r.ok => r.failed > 0
        /\ ~r.ok /\ r.failed = 1 /\ keys = config.keys /\ autostart = config.autoStart =>
             r.keys = config.keys /\ r.autostart = config.autoStart
        BY ReplacementsFit
  <2>4. CASE r.ok
        BY <2>2, <2>3, <2>4 DEF SystemMatchesConfig
  <2>5. CASE ~r.ok
    <3>1. faults + r.failed <= 1 => r.failed = 1 /\ faults <= 1
          BY <1>1, <2>3, <2>5
    <3> QED
        BY <2>2, <2>3, <2>5, <3>1 DEF SystemMatchesConfig
  <2> QED
      BY <2>4, <2>5
<1>3. CASE ~ReplaceConfig
  <2>1. faults' \in {faults, faults + 1} /\ UNCHANGED system
        BY <1>1, <1>3, FaultsGrow, NextSystem
  <2>2. faults' <= 1 => faults <= 1
        BY <1>1, <2>1
  <2> QED
      BY <2>1, <2>2 DEF SystemMatchesConfig, system
<1> QED
    BY <1>2, <1>3

-----------------------------------------------------------------------------
(* No page of a configuration that was replaced.                           *)

LEMMA ResetIs ==
  ASSUME NEW a, NEW b, ~ResetRequired(a, b)
  PROVE  a.processes = b.processes /\ \A c : ResetRequired(c, a) <=> ResetRequired(c, b)
BY DEF ResetRequired

LEMMA SameNeedsNoReset == \A a : ~ResetRequired(a, a)
BY DEF ResetRequired

JobsAreCurrent == \A t \in Thread : job[t].raced \/ JobIsCurrent(at[t], job[t])
PlainSteps == {"idle", "request", "response", "check processes", "replace", "list", "destroy", "retry"}

LEMMA PlainIsCurrent ==
  ASSUME NEW step \in PlainSteps, NEW j
  PROVE  JobIsCurrent(step, j) /\ JobIsCurrent(step, j)'
BY DEF PlainSteps, JobIsCurrent, LabelledSteps

LEMMA CurrentStays ==
  ASSUME UNCHANGED system, NEW step, NEW j, JobIsCurrent(step, j)
  PROVE  JobIsCurrent(step, j)'
BY DEF JobIsCurrent, RestartRequired, system

\* What a thread goes on with is of the configuration of now.
LEMMA CurrentMoves ==
  ASSUME JobsFit, JobsAreCurrent, UNCHANGED system, NEW t \in Thread, NEW step, NEW j, Moves(t, step, j),
         j.raced \/ JobIsCurrent(step, j)
  PROVE  JobsAreCurrent'
<1>1. ASSUME NEW u \in Thread
      PROVE  job'[u].raced \/ JobIsCurrent(at[u], job[u])'
  <2>1. PICK s, i : s = at'[u] /\ i = job'[u]
        OBVIOUS
  <2>2. i.raced \/ JobIsCurrent(s, i)
    <3>1. CASE u = t
          BY <2>1, <3>1, MovedIs
    <3>2. CASE u # t
          BY <2>1, <3>2, MovedIs DEF JobsAreCurrent
    <3> QED
        BY <3>1, <3>2
  <2>3. i.raced \/ JobIsCurrent(s, i)'
        BY <2>2, CurrentStays
  <2> QED
      BY <2>1, <2>3 DEF JobIsCurrent
<1> QED
    BY <1>1 DEF JobsAreCurrent

LEMMA PlainMoves ==
  ASSUME JobsFit, JobsAreCurrent, UNCHANGED system, NEW t \in Thread, NEW step \in PlainSteps, NEW j,
         Moves(t, step, j)
  PROVE  JobsAreCurrent'
BY CurrentMoves, PlainIsCurrent

LEMMA EndMoves ==
  ASSUME JobsFit, JobsAreCurrent, UNCHANGED system, NEW t \in Thread, End(t)
  PROVE  JobsAreCurrent'
<1>1. "idle" \in PlainSteps /\ Moves(t, "idle", NoJob)
      BY EndIs DEF PlainSteps
<1> QED
    BY <1>1, PlainMoves

LEMMA GoMoves ==
  ASSUME JobsFit, JobsAreCurrent, UNCHANGED system, NEW t \in Thread, NEW step, Go(t, step),
         \/ step \in PlainSteps
         \/ step \in LabelledSteps /\ at[t] \in LabelledSteps
         \/ step = "snapshot" /\ ~RestartRequired
  PROVE  JobsAreCurrent'
<1>1. Moves(t, step, job[t])
      BY GoIs
<1>2. CASE step \in PlainSteps
      BY <1>1, <1>2, PlainMoves
<1>3. CASE step \in LabelledSteps /\ at[t] \in LabelledSteps
  <2>1. job[t].raced \/ JobIsCurrent(at[t], job[t])
        BY DEF JobsAreCurrent
  <2>2. job[t].raced \/ JobIsCurrent(step, job[t])
        BY <1>3, <2>1 DEF JobIsCurrent, LabelledSteps
  <2> QED
      BY <1>1, <2>2, CurrentMoves
<1>4. CASE step = "snapshot" /\ ~RestartRequired
  <2>1. JobIsCurrent(step, job[t])
        BY <1>4 DEF JobIsCurrent, LabelledSteps
  <2> QED
      BY <1>1, <2>1, CurrentMoves
<1> QED
    BY <1>2, <1>3, <1>4

LEMMA DoneMoves ==
  ASSUME JobsFit, JobsAreCurrent, UNCHANGED system, NEW t \in Thread, NEW l, Done(t, l)
  PROVE  JobsAreCurrent'
<1>1. ASSUME NEW u \in Thread
      PROVE  job'[u].raced \/ JobIsCurrent(at[u], job[u])'
  <2>1. at'[u] = at[u] /\ job'[u].raced = job[u].raced /\ job'[u].seen = job[u].seen
        BY DoneBuilds
  <2>2. job[u].raced \/ JobIsCurrent(at[u], job[u])
        BY DEF JobsAreCurrent
  <2> QED
      BY <2>1, <2>2 DEF JobIsCurrent, RestartRequired, system
<1> QED
    BY <1>1 DEF JobsAreCurrent

LEMMA StayMoves ==
  ASSUME JobsAreCurrent, UNCHANGED threads, UNCHANGED system
  PROVE  JobsAreCurrent'
<1>1. ASSUME NEW u \in Thread
      PROVE  job'[u].raced \/ JobIsCurrent(at[u], job[u])'
  <2>1. at' = at /\ job' = job
        BY DEF threads
  <2>2. job[u].raced \/ JobIsCurrent(at[u], job[u])
        BY DEF JobsAreCurrent
  <2> QED
      BY <2>1, <2>2 DEF JobIsCurrent, RestartRequired, system
<1> QED
    BY <1>1 DEF JobsAreCurrent

\* A page that opens a window passes on what it is itself.
LEMMA OpenedByPage ==
  ASSUME JobsFit, PagesAreCurrent, UNCHANGED system, NEW l \in Labels, NEW step \in {"snapshot", "snapshot floating"},
         NEW j, j.raced <=> OfBefore(l), GoWith("main", step, j)
  PROVE  JobsAreCurrent'
<1>1. Moves("main", step, j) /\ JobsAreCurrent
      BY DEF GoWith, Moves, PagesAreCurrent, JobsAreCurrent
<1>2. ASSUME ~OfBefore(l)
      PROVE  JobIsCurrent(step, j)
  <2>1. ~windows[l].stale /\ ~ResetRequired(windows[l].seen, config)
        BY <1>2 DEF OfBefore
  <2>2. windows[l].seen.processes = started
        BY <2>1 DEF PagesAreCurrent, WindowIsCurrent
  <2>3. windows[l].seen.processes = config.processes
        BY <2>1, ResetIs
  <2> QED
      BY <2>2, <2>3 DEF JobIsCurrent, RestartRequired, LabelledSteps
<1> QED
    BY <1>1, <1>2, CurrentMoves, ThreadsAre

\* A window is to live by the configuration of now.
LEMMA TakenIsCurrent ==
  ASSUME JobsFit, JobsAreCurrent, NEW t \in Thread, Takes(t), at[t] \in {"snapshot", "snapshot floating"}
  PROVE  JobsAreCurrent'
<1>0. PICK step \in {"build", "build floating"} : \E j :
        /\ Moves(t, step, j) /\ j.seen = config /\ j.raced = job[t].raced /\ UNCHANGED system
      BY DEF Takes
<1>1. PICK j :
        /\ Moves(t, step, j) /\ j.seen = config /\ j.raced = job[t].raced /\ UNCHANGED system
      BY <1>0
<1>2. job[t].raced \/ JobIsCurrent(at[t], job[t])
      BY DEF JobsAreCurrent
<1>3. j.raced \/ JobIsCurrent(step, j)
      BY <1>1, <1>2, SameNeedsNoReset DEF JobIsCurrent, RestartRequired, LabelledSteps
<1> QED
    BY <1>1, <1>3, CurrentMoves

LEMMA ReplacedIsCurrent ==
  ASSUME ThreadsInv, JobsAreCurrent, ReplaceConfig
  PROVE  JobsAreCurrent'
<1>1. JobsFit
      BY DEF ThreadsInv
<1> DEFINE new == job["config"].seen
<1>2. PICK r \in Replacements(config, new) :
        /\ config' = (IF r.ok THEN new ELSE config) /\ started' = started
        /\ job' = [t \in Thread |->
             IF t = "config" THEN NoJob
             ELSE [job[t] EXCEPT !.raced = @ \/ (r.ok /\ ResetRequired(config, new) /\ at[t] # "idle")]]
      BY DEF ReplaceConfig
<1> HIDE DEF new
<1>3. ASSUME NEW t \in Thread
      PROVE  job'[t].raced \/ JobIsCurrent(at[t], job[t])'
  <2>1. PICK s, i : s = at'[t] /\ i = job'[t]
        OBVIOUS
  <2>2. i.raced \/ JobIsCurrent(s, i)'
    <3>1. CASE t = "config"
      <4>1. s \in PlainSteps
            BY <1>1, <2>1, <3>1, ReplacedJobs DEF PlainSteps
      <4> QED
          BY <4>1, PlainIsCurrent
    <3>2. CASE t # "config"
      <4>1. PICK b \in BOOLEAN : i = Raced(job[t], b) /\ s = at[t]
            BY <1>1, <2>1, <3>2, ReplacedJobs
      <4>2. PICK j : j = job[t] /\ j \in JobType
            BY <1>1 DEF JobsFit
      <4>3. i.seen = j.seen /\ i.raced = b
            BY <4>1, <4>2 DEF Raced
      <4>4. i = [j EXCEPT !.raced = j.raced \/ (r.ok /\ ResetRequired(config, new) /\ at[t] # "idle")]
            BY <1>2, <2>1, <3>2, <4>2
      <4>5. i.raced = (j.raced \/ (r.ok /\ ResetRequired(config, new) /\ at[t] # "idle"))
            BY <4>2, <4>4 DEF JobType
      <4>6. CASE j.raced \/ (r.ok /\ ResetRequired(config, new) /\ at[t] # "idle")
            BY <4>5, <4>6
      <4>7. CASE at[t] = "idle"
        <5>1. s \in PlainSteps
              BY <4>1, <4>7 DEF PlainSteps
        <5> QED
            BY <5>1, PlainIsCurrent
      <4>8. CASE ~j.raced /\ (r.ok => ~ResetRequired(config, new))
        <5>1. JobIsCurrent(s, j)
              BY <4>1, <4>2, <4>8 DEF JobsAreCurrent
        <5>2. config'.processes = config.processes /\ \A c : ResetRequired(c, config) <=> ResetRequired(c, config')
              BY <1>2, <4>8, ResetIs
        <5> QED
            BY <1>2, <4>3, <5>1, <5>2 DEF JobIsCurrent, RestartRequired
      <4> QED
          BY <4>6, <4>7, <4>8
    <3> QED
        BY <3>1, <3>2
  <2> QED
      BY <2>1, <2>2 DEF JobIsCurrent
<1> QED
    BY <1>3 DEF JobsAreCurrent

LEMMA NextJobs ==
  ASSUME ThreadsInv, PagesAreCurrent, [Next]_vars
  PROVE  JobsAreCurrent'
<1> JobsFit /\ JobsAreCurrent
    BY DEF ThreadsInv, PagesAreCurrent, JobsAreCurrent
<1>1. CASE ReplaceConfig
      BY <1>1, ReplacedIsCurrent
<1>2. CASE ~ReplaceConfig
  <2>1. UNCHANGED system
        BY <1>2, NextSystem
  <2>2. ASSUME NEW t \in Thread, NEW l, Done(t, l)
        PROVE  JobsAreCurrent'
        BY <2>1, <2>2, DoneMoves
  <2>3. ASSUME Requests
        PROVE  JobsAreCurrent'
    <3>1. ASSUME NEW url, OpenConfigured(url)
          PROVE  JobsAreCurrent'
      <4>1. PICK j : Moves("main", "check processes", j)
            BY <3>1 DEF OpenConfigured, GoWith, Moves
      <4> QED
          BY <2>1, <4>1, PlainMoves, ThreadsAre DEF PlainSteps
    <3>2. ASSUME NEW new, SaveConfig(new)
          PROVE  JobsAreCurrent'
      <4>1. PICK j : Moves("config", "replace", j)
            BY <3>2 DEF SaveConfig, GoWith, Moves
      <4> QED
          BY <2>1, <4>1, PlainMoves, ThreadsAre DEF PlainSteps
    <3>3. ASSUME Retry
          PROVE  JobsAreCurrent'
      <4>1. PICK j : Moves("main", "retry", j)
            BY <3>3 DEF Retry, GoWith, Moves
      <4> QED
          BY <2>1, <4>1, PlainMoves, ThreadsAre DEF PlainSteps
    <3>4. ASSUME StartSso \/ (ClearConfirmed /\ Go("main", "list"))
          PROVE  JobsAreCurrent'
          BY <2>1, <3>4, GoMoves, ThreadsAre DEF StartSso, PlainSteps
    <3>5. ASSUME NEW l \in Labels, NEW url, OpenSecondary(l, url)
          PROVE  JobsAreCurrent'
      <4>1. PICK j : j = [NoJob EXCEPT !.url = url, !.parent = l, !.raced = OfBefore(l)]
            OBVIOUS
      <4>2. GoWith("main", "snapshot", j) /\ j.raced = OfBefore(l)
            BY <3>5, <4>1 DEF OpenSecondary, NoJob
      <4> QED
          BY <2>1, <4>2, OpenedByPage
    <3>6. ASSUME NEW l \in Labels, NEW id, NEW url, ShowFloating(l, id, url)
          PROVE  JobsAreCurrent'
      <4>1. PICK j : j = [NoJob EXCEPT !.url = url, !.parent = l, !.id = id, !.raced = OfBefore(l)]
            OBVIOUS
      <4>2. GoWith("main", "snapshot floating", j) /\ j.raced = OfBefore(l)
            BY <3>6, <4>1 DEF ShowFloating, NoJob
      <4> QED
          BY <2>1, <4>2, OpenedByPage
    <3>7. ASSUME UNCHANGED threads
          PROVE  JobsAreCurrent'
          BY <2>1, <3>7, StayMoves
    <3> QED
        BY <2>3, <3>1, <3>2, <3>3, <3>4, <3>5, <3>6, <3>7
           DEF Requests, ClearConfirmed, CloseOwnFloating, CloseRequested, Signal, AnswerPrompt, Load,
               InspectClear
  <2>4. ASSUME MainSteps
        PROVE  JobsAreCurrent'
    <3>1. ASSUME SnapshotFloating
          PROVE  JobsAreCurrent'
      <4>1. End("main") \/ Takes("main")
            BY <3>1, SnapshotFloatingMoves
      <4> QED
          BY <2>1, <3>1, <4>1, EndMoves, TakenIsCurrent, ThreadsAre DEF SnapshotFloating
    <3>2. ASSUME BuildFloating \/ InsertFloating
          PROVE  JobsAreCurrent'
          BY <2>1, <3>2, GoMoves, ThreadsAre DEF BuildFloating, InsertFloating, LabelledSteps
    <3>3. ASSUME FloatingShown \/ RetryEnds
          PROVE  JobsAreCurrent'
          BY <2>1, <3>3, EndMoves, ThreadsAre DEF FloatingShown, RetryEnds
    <3>4. ASSUME NEW l, RetryOne(l)
          PROVE  JobsAreCurrent'
          BY <2>2, <3>4, ThreadsAre DEF RetryOne
    <3> QED
        BY <2>4, <3>1, <3>2, <3>3, <3>4 DEF MainSteps
  <2>5. ASSUME Failures
        PROVE  JobsAreCurrent'
    <3>1. ASSUME NEW t \in Thread, BuildFails(t)
          PROVE  JobsAreCurrent'
          BY <2>1, <3>1, EndMoves DEF BuildFails
    <3>2. ASSUME BuildFloatingFails \/ FloatingNotShown \/ SsoFails
          PROVE  JobsAreCurrent'
          BY <2>1, <3>2, EndMoves, ThreadsAre DEF BuildFloatingFails, FloatingNotShown, SsoFails
    <3>3. ASSUME NEW t \in Thread, NEW l, DestroyFails(t, l)
          PROVE  JobsAreCurrent'
          BY <2>2, <3>3 DEF DestroyFails
    <3>4. ASSUME NEW l, RetryFails(l)
          PROVE  JobsAreCurrent'
          BY <2>2, <3>4, ThreadsAre DEF RetryFails
    <3> QED
        BY <2>5, <3>1, <3>2, <3>3, <3>4 DEF Failures
  <2>6. ASSUME NEW t \in Thread, Steps(t)
        PROVE  JobsAreCurrent'
    <3>1. ASSUME CheckProcesses(t)
          PROVE  JobsAreCurrent'
          BY <2>1, <3>1, EndMoves, GoMoves DEF CheckProcesses
    <3>2. ASSUME Snapshot(t)
          PROVE  JobsAreCurrent'
          BY <2>1, <3>2, SnapshotMoves, TakenIsCurrent, EndMoves DEF Snapshot
    <3>3. ASSUME Build(t)
          PROVE  JobsAreCurrent'
          BY <2>1, <3>3, GoMoves DEF Build, LabelledSteps
    <3>4. ASSUME Install(t) \/ AllDestroyed(t)
          PROVE  JobsAreCurrent'
          BY <2>1, <3>4, EndMoves DEF Install, AllDestroyed
    <3>5. ASSUME List(t)
          PROVE  JobsAreCurrent'
      <4>1. PICK j : Moves(t, "destroy", j)
            BY <3>5 DEF List, GoWith, Moves
      <4> QED
          BY <2>1, <4>1, PlainMoves DEF PlainSteps
    <3>6. ASSUME NEW l, DestroyOne(t, l)
          PROVE  JobsAreCurrent'
          BY <2>2, <3>6 DEF DestroyOne
    <3> QED
        BY <2>6, <3>1, <3>2, <3>3, <3>4, <3>5, <3>6 DEF Steps
  <2>7. ASSUME RequestSso
        PROVE  JobsAreCurrent'
    <3>1. End("sso") \/ \E j : Moves("sso", "response", j)
          BY <2>7 DEF RequestSso, GoWith, Moves
    <3> QED
        BY <2>1, <3>1, EndMoves, PlainMoves, ThreadsAre DEF PlainSteps
  <2>8. ASSUME AnswerSso
        PROVE  JobsAreCurrent'
        BY <2>1, <2>8, GoMoves, ThreadsAre DEF AnswerSso, PlainSteps
  <2>9. ASSUME Timers \/ (\E l \in signals : FrontendReady(l)) \/ UNCHANGED vars
        PROVE  JobsAreCurrent'
    <3>1. UNCHANGED threads
          BY <2>9 DEF Timers, Watchdog, FloatingExpires, FrontendReady, vars
    <3> QED
        BY <2>1, <3>1, StayMoves
  <2> QED
      BY <1>2, <2>3, <2>4, <2>5, <2>6, <2>7, <2>8, <2>9 DEF Next
<1> QED
    BY <1>1, <1>2

\* The replacement of the configuration closes what it has listed.
LEMMA ConfigNext ==
  ASSUME ThreadsInv, MapInv, [Next]_vars, ~ReplaceConfig, NEW l \in Labels, l \in DOMAIN windows', ~windows'[l].stale,
         at["config"] = "list" \/ (at["config"] = "destroy" /\ l \in job["config"].todo)
  PROVE  at'["config"] = "list" \/ (at'["config"] = "destroy" /\ l \in job'["config"].todo)
<1> JobsFit /\ "config" \in Thread
    BY ThreadsAre DEF ThreadsInv
<1> DEFINE Same == at'["config"] = at["config"] /\ job'["config"] = job["config"]
<1>1. ASSUME NEW t \in Thread, NEW step, NEW j, Moves(t, step, j), t # "config"
      PROVE  Same
      BY <1>1, MovedIs
<1>2. ASSUME UNCHANGED threads
      PROVE  Same
      BY <1>2 DEF threads
<1>3. ASSUME NEW t \in Thread, NEW k, Done(t, k), t # "config"
      PROVE  at'["config"] = at["config"] /\ job'["config"].todo = job["config"].todo
      BY <1>3, DoneBuilds
<1>4. ASSUME Requests
      PROVE  Same
  <2>1. ASSUME SaveConfig(config') \/ \E new : SaveConfig(new)
        PROVE  FALSE
        BY <2>1 DEF SaveConfig
  <2>2. \/ UNCHANGED threads
        \/ \E step, j : Moves("main", step, j)
        \/ Go("sso", "request") \/ Go("main", "list")
        BY <1>4, <2>1 DEF Requests, OpenConfigured, OpenSecondary, ShowFloating, CloseOwnFloating,
             CloseRequested, Signal, AnswerPrompt, Load, InspectClear, ClearConfirmed, Retry, StartSso,
             GoWith, Moves
  <2>3. \/ UNCHANGED threads
        \/ \E step, j : Moves("main", step, j)
        \/ \E step, j : Moves("sso", step, j)
        BY <2>2, GoIs, ThreadsAre
  <2> QED
      BY <1>1, <1>2, <2>3, ThreadsAre
<1>5. ASSUME MainSteps
      PROVE  at'["config"] = at["config"] /\ job'["config"].todo = job["config"].todo
  <2>1. \/ \E step, j : Moves("main", step, j)
        \/ Go("main", "insert floating") \/ Go("main", "show floating") \/ End("main")
        \/ \E k : Done("main", k)
        BY <1>5 DEF MainSteps, SnapshotFloating, BuildFloating, InsertFloating, FloatingShown, RetryEnds,
                    RetryOne, GoWith, Moves
  <2>2. (\E step, j : Moves("main", step, j)) \/ \E k : Done("main", k)
        BY <2>1, GoIs, EndIs, ThreadsAre
  <2> QED
      BY <1>1, <1>3, <2>2, ThreadsAre
<1>6. ASSUME RequestSso \/ AnswerSso \/ SsoFails \/ BuildFloatingFails \/ FloatingNotShown
      PROVE  Same
  <2>1. \/ \E step, j : Moves("sso", step, j)
        \/ Go("sso", "check processes") \/ End("sso") \/ End("main")
        BY <1>6 DEF RequestSso, AnswerSso, SsoFails, BuildFloatingFails, FloatingNotShown, GoWith, Moves
  <2>2. \/ \E step, j : Moves("main", step, j)
        \/ \E step, j : Moves("sso", step, j)
        BY <2>1, GoIs, EndIs, ThreadsAre
  <2> QED
      BY <1>1, <2>2, ThreadsAre
<1>7. ASSUME NEW t \in Thread, BuildFails(t)
      PROVE  Same
  <2>1. t # "config" /\ End(t)
        BY <1>7 DEF BuildFails
  <2> QED
      BY <1>1, <2>1, EndIs
<1>8. ASSUME NEW k, RetryFails(k)
      PROVE  at'["config"] = at["config"] /\ job'["config"].todo = job["config"].todo
      BY <1>3, <1>8, ThreadsAre DEF RetryFails
<1>9. ASSUME NEW t \in Thread, NEW k, DestroyFails(t, k) \/ DestroyOne(t, k)
      PROVE  /\ at'["config"] = at["config"]
             /\ l \in job["config"].todo => l \in job'["config"].todo
  <2>1. CASE t # "config"
        BY <1>3, <1>9, <2>1 DEF DestroyFails, DestroyOne
  <2>2. CASE t = "config"
    <3>1. Done("config", k)
          BY <1>9, <2>2 DEF DestroyFails, DestroyOne
    <3>2. k # l
      <4>1. CASE DestroyOne(t, k)
            BY <4>1 DEF DestroyOne, Without
      <4>2. CASE DestroyFails(t, k)
        <5>1. k \in Labels => windows' = [windows EXCEPT ![k].stale = TRUE]
              BY <2>2, <4>2 DEF DestroyFails
        <5>2. windows[l] \in WindowType
              BY DEF MapInv, WindowsFit
        <5> QED
            BY <5>1, <5>2 DEF WindowType, Labels
      <4> QED
          BY <1>9, <4>1, <4>2
    <3>3. at'["config"] = at["config"] /\ job'["config"].todo = job["config"].todo \ {k}
          BY <3>1, DoneBuilds
    <3> QED
        BY <3>2, <3>3
  <2> QED
      BY <2>1, <2>2
<1>10. ASSUME NEW t \in Thread, CheckProcesses(t) \/ Snapshot(t) \/ Build(t) \/ Install(t)
       PROVE  Same
  <2>1. t # "config"
        BY <1>10 DEF CheckProcesses, Snapshot, Build, Install
  <2>2. \E step, j : Moves(t, step, j)
    <3>1. End(t) \/ Takes(t) \/ \E step : Go(t, step)
          BY <1>10, SnapshotMoves DEF CheckProcesses, Build, Install
    <3> QED
        BY <3>1, EndIs, GoIs DEF Takes
  <2> QED
      BY <1>1, <2>1, <2>2
<1>11. ASSUME NEW t \in Thread, List(t) \/ AllDestroyed(t)
       PROVE  at'["config"] = "list" \/ (at'["config"] = "destroy" /\ l \in job'["config"].todo)
  <2>1. CASE t # "config"
    <3>1. \E step, j : Moves(t, step, j)
          BY <1>11, EndIs DEF List, AllDestroyed, GoWith, Moves
    <3>2. Same
          BY <1>1, <2>1, <3>1
    <3> QED
        BY <3>2
  <2>2. CASE t = "config"
    <3>1. CASE List(t)
      <4>1. PICK j : j = [job[t] EXCEPT !.todo = Labels]
            OBVIOUS
      <4>2. Moves(t, "destroy", j)
            BY <3>1, <4>1 DEF List, GoWith, Moves
      <4>3. j.todo = Labels
            BY <4>1 DEF JobsFit, JobType
      <4> QED
          BY <2>2, <4>2, <4>3, MovedIs
    <3>2. CASE AllDestroyed(t)
          BY <2>2, <3>2 DEF AllDestroyed
    <3> QED
        BY <1>11, <3>1, <3>2
  <2> QED
      BY <2>1, <2>2
<1>12. ASSUME Timers \/ (\E k \in signals : FrontendReady(k)) \/ UNCHANGED vars
       PROVE  Same
  <2>1. UNCHANGED threads
        BY <1>12 DEF Timers, Watchdog, FloatingExpires, FrontendReady, vars
  <2> QED
      BY <1>2, <2>1
<1>13. CASE Failures
       BY <1>6, <1>7, <1>8, <1>9, <1>13 DEF Failures
<1>14. ASSUME NEW t \in Thread, Steps(t)
       PROVE  at'["config"] = "list" \/ (at'["config"] = "destroy" /\ l \in job'["config"].todo)
       BY <1>9, <1>10, <1>11, <1>14 DEF Steps
<1> QED
    BY <1>4, <1>5, <1>6, <1>12, <1>13, <1>14 DEF Next

LEMMA NextPagesAreCurrent ==
  ASSUME ThreadsInv, MapInv, PagesAreCurrent, [Next]_vars
  PROVE  PagesAreCurrent'
<1> DEFINE Fine(l) ==
      \/ windows'[l].stale
      \/ /\ windows'[l].seen.processes = started'
         /\ \/ ~ResetRequired(windows'[l].seen, config')
            \/ at'["config"] = "list"
            \/ at'["config"] = "destroy" /\ l \in job'["config"].todo
<1>1. JobsAreCurrent'
      BY NextJobs
<1>2. WindowsFit /\ JobsFit
      BY DEF MapInv, ThreadsInv
<1>3. CASE ReplaceConfig
  <2>1. PICK new : new = job["config"].seen
        OBVIOUS
  <2>2. PICK r \in Replacements(config, new) :
          /\ config' = (IF r.ok THEN new ELSE config) /\ started' = started
          /\ at' = [at EXCEPT !["config"] = IF r.ok /\ ResetRequired(config, new) THEN "list" ELSE "idle"]
          /\ UNCHANGED windows
        BY <1>3, <2>1 DEF ReplaceConfig, world
  <2>3. ASSUME NEW l \in Labels, ~windows[l].stale
        PROVE  Fine(l)
    <3>1. at["config"] = "replace"
          BY <1>3 DEF ReplaceConfig
    <3>2. windows[l].seen.processes = started /\ ~ResetRequired(windows[l].seen, config)
          BY <2>3, <3>1 DEF PagesAreCurrent, WindowIsCurrent
    <3>3. CASE r.ok /\ ResetRequired(config, new)
      <4>1. at'["config"] = "list"
            BY <1>2, <2>2, <3>3, ThreadsAre DEF JobsFit
      <4> QED
          BY <2>2, <3>2, <4>1
    <3>4. CASE r.ok /\ ~ResetRequired(config, new)
          BY <2>2, <3>2, <3>4, ResetIs
    <3>5. CASE ~r.ok
          BY <2>2, <3>2, <3>5
    <3> QED
        BY <3>3, <3>4, <3>5
  <2>4. \A l \in DOMAIN windows' : Fine(l)
        BY <2>2, <2>3 DEF Labels
  <2> QED
      BY <1>1, <2>4 DEF PagesAreCurrent, WindowIsCurrent, JobsAreCurrent, Labels
<1>4. CASE ~ReplaceConfig
  <2>1. UNCHANGED system
        BY <1>4, NextSystem
  <2>2. ASSUME NEW l \in Labels, l \in DOMAIN windows', windows'[l].seen = windows[l].seen,
               windows[l].stale => windows'[l].stale
        PROVE  Fine(l)
    <3>1. CASE ~windows'[l].stale
      <4>1. /\ windows[l].seen.processes = started
            /\ \/ ~ResetRequired(windows[l].seen, config)
               \/ at["config"] = "list"
               \/ at["config"] = "destroy" /\ l \in job["config"].todo
            BY <2>2, <3>1 DEF PagesAreCurrent, WindowIsCurrent
      <4>2. config' = config /\ started' = started
            BY <2>1 DEF system
      <4>3. CASE ~ResetRequired(windows[l].seen, config)
            BY <2>2, <4>1, <4>2, <4>3
      <4>4. CASE at["config"] = "list" \/ (at["config"] = "destroy" /\ l \in job["config"].todo)
            BY <1>4, <2>2, <3>1, <4>1, <4>2, <4>4, ConfigNext
      <4> QED
          BY <4>1, <4>3, <4>4
    <3> QED
        BY <3>1
  <2>3. CASE WindowsKept
    <3>1. \A l \in DOMAIN windows' : Fine(l)
          BY <2>2, <2>3 DEF WindowsKept, Edited
    <3> QED
        BY <1>1, <3>1 DEF PagesAreCurrent, WindowIsCurrent, JobsAreCurrent, Labels
  <2>4. ASSUME NEW t \in Thread, Builds(t)
        PROVE  \A l \in DOMAIN windows' : Fine(l)
    <3>1. PICK k : k = job[t].label
          OBVIOUS
    <3>2. /\ DOMAIN windows' = Labels \cup {k}
          /\ windows'[k].seen = job[t].seen /\ windows'[k].stale = job[t].raced
          /\ \A m \in Labels \ {k} : windows'[m] = windows[m]
          /\ at[t] \in LabelledSteps
      <4>1. /\ DOMAIN windows' = Labels \cup {k} /\ Unbuilt(t)
            /\ windows'[k] = Window(t, IF at[t] = "build" THEN "business" ELSE "floating")
            /\ \A m \in Labels \ {k} : windows'[m] = windows[m]
            BY <1>2, <2>4, <3>1, BuildsIs
      <4>2. \A kind : Window(t, kind).seen = job[t].seen /\ Window(t, kind).stale = job[t].raced
            BY DEF Window
      <4> QED
          BY <4>1, <4>2 DEF Unbuilt, LabelledSteps
    <3>3. job[t].raced \/ (job[t].seen.processes = started /\ ~ResetRequired(job[t].seen, config))
          BY <3>2 DEF PagesAreCurrent, JobIsCurrent
    <3>4. Fine(k)
          BY <2>1, <3>2, <3>3 DEF system
    <3>5. \A m \in Labels \ {k} : Fine(m)
          BY <2>2, <3>2
    <3> QED
        BY <3>2, <3>4, <3>5
  <2>5. CASE \E t \in Thread : Builds(t)
    <3>1. \A l \in DOMAIN windows' : Fine(l)
          BY <2>4, <2>5
    <3> QED
        BY <1>1, <3>1 DEF PagesAreCurrent, WindowIsCurrent, JobsAreCurrent, Labels
  <2> QED
      BY <1>2, <2>3, <2>5, NextWindows
<1> QED
    BY <1>3, <1>4

-----------------------------------------------------------------------------
(* Floating windows and their entries.                                     *)

LEMMA WindowKinds ==
  ASSUME NEW t, NEW kind
  PROVE  Window(t, kind).kind = kind /\ (kind # "business" => ~Window(t, kind).shown)
BY DEF Window

\* An entry goes when its window has gone or is being closed.
LEMMA EntriesKept ==
  ASSUME ThreadsInv, MapInv, [Next]_vars, ~InsertFloating, NEW i \in DOMAIN floating,
         floating[i].window \in DOMAIN windows', floating[i].window \notin closing'
  PROVE  i \in DOMAIN floating' /\ floating'[i] = floating[i]
<1>1. ASSUME UNCHANGED floating
      PROVE  i \in DOMAIN floating' /\ floating'[i] = floating[i]
      BY <1>1
<1>2. ASSUME NEW l, floating' = Without(floating, {k \in DOMAIN floating : floating[k].window = l}),
             l \notin DOMAIN windows'
      PROVE  i \in DOMAIN floating' /\ floating'[i] = floating[i]
      BY <1>2 DEF Without
<1>3. ASSUME NEW id, NEW label, CloseFloating(id, label), UNCHANGED windows
      PROVE  i \in DOMAIN floating' /\ floating'[i] = floating[i]
      BY <1>3 DEF CloseFloating, Without, Labels
<1>4. ASSUME SnapshotFloating
      PROVE  i \in DOMAIN floating' /\ floating'[i] = floating[i]
  <2>1. windows' = windows
        BY <1>4 DEF SnapshotFloating
  <2>2. CASE UNCHANGED floating
        BY <2>2
  <2>3. CASE floating' = Without(floating, {job["main"].id}) /\ i # job["main"].id
        BY <2>3 DEF Without
  <2>4. CASE closing' = closing \cup {floating[i].window}
        BY <2>4
  <2>5. \/ UNCHANGED floating
        \/ /\ floating' = Without(floating, {job["main"].id})
           /\ i = job["main"].id => closing' = closing \cup ({floating[i].window} \cap Labels)
        BY <1>4 DEF SnapshotFloating
  <2> QED
      BY <2>1, <2>2, <2>3, <2>4, <2>5 DEF Labels
<1>5. ASSUME Requests
      PROVE  i \in DOMAIN floating' /\ floating'[i] = floating[i]
  <2>1. ASSUME NEW l \in Labels, CloseRequested(l)
        PROVE  i \in DOMAIN floating' /\ floating'[i] = floating[i]
    <3>1. CASE Destroyed(l)
      <4>1. l \notin DOMAIN windows'
            BY <3>1 DEF Destroyed, Without
      <4> QED
          BY <1>1, <1>2, <3>1, <4>1 DEF Destroyed
    <3> QED
        BY <1>1, <2>1, <3>1 DEF CloseRequested
  <2>2. ASSUME NEW l \in Labels, NEW id, CloseOwnFloating(l, id)
        PROVE  i \in DOMAIN floating' /\ floating'[i] = floating[i]
        BY <1>3, <2>2 DEF CloseOwnFloating
  <2> QED
      BY <1>1, <1>5, <2>1, <2>2
         DEF Requests, OpenConfigured, OpenSecondary, ShowFloating, Signal, AnswerPrompt, Load,
             SaveConfig, InspectClear, ClearConfirmed, Retry, StartSso, shell
<1>6. ASSUME MainSteps
      PROVE  i \in DOMAIN floating' /\ floating'[i] = floating[i]
      BY <1>1, <1>4, <1>6 DEF MainSteps, BuildFloating, FloatingShown, RetryEnds, RetryOne, shell
<1>7. ASSUME NEW t \in Thread, Steps(t)
      PROVE  i \in DOMAIN floating' /\ floating'[i] = floating[i]
  <2>1. ASSUME NEW l, DestroyOne(t, l)
        PROVE  i \in DOMAIN floating' /\ floating'[i] = floating[i]
    <3>1. l \notin DOMAIN windows'
          BY <2>1 DEF DestroyOne, Without
    <3> QED
        BY <1>2, <2>1, <3>1 DEF DestroyOne
  <2> QED
      BY <1>1, <1>7, <2>1 DEF Steps, CheckProcesses, Snapshot, Build, Install, List, AllDestroyed, shell
<1>8. ASSUME Timers
      PROVE  i \in DOMAIN floating' /\ floating'[i] = floating[i]
      BY <1>1, <1>3, <1>8 DEF Timers, Watchdog, FloatingExpires
<1>9. ASSUME Failures \/ ReplaceConfig \/ RequestSso \/ AnswerSso
             \/ (\E l \in signals : FrontendReady(l)) \/ UNCHANGED vars
      PROVE  i \in DOMAIN floating' /\ floating'[i] = floating[i]
  <2>1. UNCHANGED floating
        BY <1>9 DEF Failures, BuildFails, DestroyFails, BuildFloatingFails, FloatingNotShown, SsoFails,
                    RetryFails, ReplaceConfig, RequestSso, AnswerSso, FrontendReady, vars, shell
  <2> QED
      BY <1>1, <2>1
<1> QED
    BY <1>5, <1>6, <1>7, <1>8, <1>9 DEF Next

\* A timer goes when it expires.
LEMMA TimersKept ==
  ASSUME [Next]_vars, NEW x \in timers
  PROVE  x \in timers' \/ FloatingExpires(x[1], x[2])
<1>1. ASSUME Requests \/ Failures \/ (\E t \in Thread : Steps(t)) \/ ReplaceConfig \/ RequestSso \/ AnswerSso
             \/ (\E l \in signals : FrontendReady(l)) \/ UNCHANGED vars
      PROVE  timers' = timers
      BY <1>1 DEF Requests, OpenConfigured, OpenSecondary, ShowFloating, CloseOwnFloating, CloseRequested,
                  Signal, AnswerPrompt, Load, SaveConfig, InspectClear, ClearConfirmed, Retry, StartSso,
                  Failures, BuildFails, DestroyFails, BuildFloatingFails, FloatingNotShown, SsoFails,
                  RetryFails, Steps, CheckProcesses, Snapshot, Build, Install, List, AllDestroyed, DestroyOne,
                  ReplaceConfig, RequestSso, AnswerSso, FrontendReady, vars, world
<1>2. ASSUME MainSteps
      PROVE  timers \subseteq timers'
      BY <1>2 DEF MainSteps, SnapshotFloating, BuildFloating, InsertFloating, FloatingShown, RetryEnds,
                  RetryOne, world
<1>3. ASSUME NEW w, Watchdog(w[1], w[2])
      PROVE  timers' = timers
      BY <1>3 DEF Watchdog
<1>4. ASSUME NEW f \in timers, FloatingExpires(f[1], f[2])
      PROVE  x \in timers' \/ FloatingExpires(x[1], x[2])
  <2>1. timers' = timers \ {<<f[1], f[2]>>}
        BY <1>4 DEF FloatingExpires
  <2>2. CASE x = <<f[1], f[2]>>
    <3>1. x[1] = f[1] /\ x[2] = f[2]
          BY <2>2
    <3> QED
        BY <1>4, <3>1
  <2>3. CASE x # <<f[1], f[2]>>
        BY <2>1, <2>3
  <2> QED
      BY <2>2, <2>3
<1> QED
    BY <1>1, <1>2, <1>3, <1>4 DEF Next, Timers

\* The main thread reaches the steps of a floating window one by one.
LEMMA FloatingNext ==
  ASSUME ThreadsInv, [Next]_vars,
         at'["main"] \in {"build floating", "insert floating", "show floating"}
  PROVE  \/ SnapshotFloating /\ Takes("main") /\ at'["main"] = "build floating"
         \/ BuildFloating /\ at'["main"] = "insert floating" /\ job' = job
         \/ InsertFloating /\ at'["main"] = "show floating" /\ job' = job
         \/ /\ at'["main"] = at["main"] /\ job'["main"].label = job["main"].label
            /\ job'["main"].id = job["main"].id /\ ~InsertFloating /\ ~FloatingShown
<1> JobsFit /\ "main" \in Thread
    BY ThreadsAre DEF ThreadsInv
<1>1. InsertFloating => at["main"] = "insert floating" /\ at'["main"] = "show floating" /\ job' = job
      BY DEF InsertFloating, Go, JobsFit
<1>2. BuildFloating => at["main"] = "build floating" /\ at'["main"] = "insert floating" /\ job' = job
      BY DEF BuildFloating, Go, JobsFit
<1>3. ~FloatingShown
  <2>1. FloatingShown => at'["main"] = "idle"
        BY DEF FloatingShown, End, JobsFit
  <2> QED
      BY <2>1
<1> DEFINE Same == /\ at'["main"] = at["main"] /\ job'["main"].label = job["main"].label
                   /\ job'["main"].id = job["main"].id
<1>4. CASE Same
      BY <1>1, <1>3, <1>4
<1>5. CASE UNCHANGED threads
      BY <1>4, <1>5 DEF threads
<1>6. CASE ReplaceConfig
  <2>1. PICK r \in BOOLEAN : job'["main"] = Raced(job["main"], r) /\ at'["main"] = at["main"]
        BY <1>6, ReplacedJobs
  <2>2. PICK j : j = job["main"] /\ j \in JobType
        BY DEF JobsFit
  <2>3. Raced(j, r).label = j.label /\ Raced(j, r).id = j.id
        BY <2>2 DEF Raced, JobType
  <2> QED
      BY <1>4, <2>1, <2>2, <2>3
<1>7. ASSUME NEW t \in Thread \ {"main"}, ThreadStep(t)
      PROVE  Same
  <2>1. (\E step, j : Moves(t, step, j)) \/ \E k : Done(t, k)
        BY <1>7 DEF ThreadStep, GoesOn, Takes, List, GoWith, Moves
  <2> QED
      BY <2>1, MovedIs, DoneBuilds
<1>8. ASSUME GoesOn("main")
      PROVE  (BuildFloating /\ at'["main"] = "insert floating") \/ (InsertFloating /\ at'["main"] = "show floating")
  <2>1. PICK step, j : /\ Moves("main", step, j) /\ step # "build floating"
                       /\ step = "insert floating" => BuildFloating
                       /\ step = "show floating" => InsertFloating
        BY <1>8 DEF GoesOn
  <2>2. at'["main"] = step
        BY <2>1, MovedIs
  <2> QED
      BY <2>1, <2>2
<1>9. ASSUME Takes("main")
      PROVE  SnapshotFloating /\ at'["main"] = "build floating"
  <2>0. PICK step \in {"build", "build floating"} : \E j :
          /\ Moves("main", step, j) /\ (step = "build floating" => SnapshotFloating)
        BY <1>9 DEF Takes
  <2>1. PICK j :
          /\ Moves("main", step, j) /\ (step = "build floating" => SnapshotFloating)
        BY <2>0
  <2>2. at'["main"] = step
        BY <2>1, MovedIs
  <2> QED
      BY <2>1, <2>2
<1>10. ASSUME List("main") \/ Retry
       PROVE  FALSE
  <2>0. PICK step \in {"destroy", "retry"} : \E j : Moves("main", step, j)
        BY <1>10 DEF List, Retry, GoWith, Moves
  <2>1. PICK j : Moves("main", step, j)
        BY <2>0
  <2> QED
      BY <2>1, MovedIs
<1>11. ASSUME NEW k, Done("main", k)
       PROVE  Same
       BY <1>11, DoneBuilds
<1>12. ASSUME ThreadStep("main")
       PROVE  GoesOn("main") \/ Takes("main") \/ Same
       BY <1>10, <1>11, <1>12 DEF ThreadStep
<1>13. CASE GoesOn("main") \/ Takes("main")
       BY <1>1, <1>2, <1>8, <1>9, <1>13
<1> QED
    BY <1>4, <1>5, <1>6, <1>7, <1>12, <1>13, NextMoves

\* Only the main thread leaves the insertion of an entry.
LEMMA InsertingStays ==
  ASSUME ThreadsInv, [Next]_vars, at["main"] = "insert floating", ~InsertFloating
  PROVE  at'["main"] = "insert floating" /\ job'["main"].label = job["main"].label
<1> JobsFit /\ "main" \in Thread
    BY ThreadsAre DEF ThreadsInv
<1>1. CASE UNCHANGED threads
      BY <1>1 DEF threads
<1>2. CASE ReplaceConfig
  <2>1. PICK r \in BOOLEAN : job'["main"] = Raced(job["main"], r) /\ at'["main"] = at["main"]
        BY <1>2, ReplacedJobs
  <2>2. PICK j : j = job["main"] /\ j \in JobType
        BY DEF JobsFit
  <2>3. Raced(j, r).label = j.label
        BY <2>2 DEF Raced, JobType
  <2> QED
      BY <2>1, <2>2, <2>3
<1>3. ASSUME NEW t \in Thread \ {"main"}, ThreadStep(t)
      PROVE  at'["main"] = at["main"] /\ job'["main"].label = job["main"].label
  <2>1. (\E step, j : Moves(t, step, j)) \/ \E k : Done(t, k)
        BY <1>3 DEF ThreadStep, GoesOn, Takes, List, GoWith, Moves
  <2> QED
      BY <2>1, MovedIs, DoneBuilds
<1>4. ASSUME GoesOn("main") \/ Takes("main") \/ List("main") \/ Retry
      PROVE  FALSE
      BY <1>4 DEF GoesOn, Takes, List, Retry, MainIsFree, Snapshot, SnapshotFloating
<1>5. ASSUME NEW k, Done("main", k)
      PROVE  at'["main"] = at["main"] /\ job'["main"].label = job["main"].label
      BY <1>5, DoneBuilds
<1> QED
    BY <1>1, <1>2, <1>3, <1>4, <1>5, NextMoves DEF ThreadStep

\* A floating window that is not being closed was one before, or is built now.
IsFloating(l) == l \in Labels \ (Business \cup closing)

LEMMA QueuesShrink ==
  ASSUME MapInv, [Next]_vars, NEW l \in Labels, windows[l].kind = "floating", l \in closing
  PROVE  l \in closing' \/ l \notin DOMAIN windows'
<1>1. ASSUME NEW k \in Labels, CloseRequested(k)
      PROVE  l \in closing' \/ l \notin DOMAIN windows'
  <2>1. CASE k = l
    <3>1. Destroyed(l)
          BY <1>1, <2>1 DEF CloseRequested
    <3> QED
        BY <3>1 DEF Destroyed, Without
  <2>2. CASE k # l
        BY <1>1, <2>2 DEF CloseRequested, Destroyed
  <2> QED
      BY <2>1, <2>2
<1>2. ASSUME NEW t \in Thread, NEW k, DestroyOne(t, k)
      PROVE  l \in closing' \/ l \notin DOMAIN windows'
      BY <1>2 DEF DestroyOne, Without
<1>3. ASSUME closing \subseteq closing'
      PROVE  l \in closing' \/ l \notin DOMAIN windows'
      BY <1>3
<1>4. ASSUME Requests
      PROVE  l \in closing' \/ l \notin DOMAIN windows'
      BY <1>1, <1>3, <1>4
         DEF Requests, OpenConfigured, OpenSecondary, ShowFloating, CloseOwnFloating, CloseFloating, Signal,
             AnswerPrompt, Load, SaveConfig, InspectClear, ClearConfirmed, Retry, StartSso, world
<1>5. ASSUME MainSteps \/ Timers \/ Failures \/ ReplaceConfig \/ RequestSso \/ AnswerSso
             \/ (\E k \in signals : FrontendReady(k)) \/ UNCHANGED vars
      PROVE  closing \subseteq closing'
      BY <1>5 DEF MainSteps, SnapshotFloating, BuildFloating, InsertFloating, FloatingShown, RetryEnds,
                  RetryOne, Timers, Watchdog, FloatingExpires, CloseFloating, Failures, BuildFails,
                  DestroyFails, BuildFloatingFails, FloatingNotShown, SsoFails, RetryFails, ReplaceConfig,
                  RequestSso, AnswerSso, FrontendReady, vars, world
<1>6. ASSUME NEW t \in Thread, Steps(t)
      PROVE  l \in closing' \/ l \notin DOMAIN windows'
      BY <1>2, <1>3, <1>6 DEF Steps, CheckProcesses, Snapshot, Build, Install, List, AllDestroyed, world
<1> QED
    BY <1>3, <1>4, <1>5, <1>6 DEF Next

LEMMA FloatingsBefore ==
  ASSUME ThreadsInv, MapInv, [Next]_vars,
         NEW l \in DOMAIN windows', windows'[l].kind # "business", l \notin closing'
  PROVE  \/ IsFloating(l) /\ (windows'[l].shown = windows[l].shown \/ FloatingShown)
         \/ BuildFloating /\ l = job["main"].label /\ ~windows'[l].shown
<1>1. WindowsFit /\ closing \subseteq Labels
      BY DEF MapInv
<1>2. ASSUME l \in Labels, windows[l].kind = windows'[l].kind,
             windows'[l].shown = windows[l].shown \/ FloatingShown
      PROVE  IsFloating(l)
  <2>1. windows[l].kind = "floating"
        BY <1>1, <1>2 DEF WindowsFit, WindowType
  <2>2. l \notin closing
        BY <2>1, <1>2, QueuesShrink
  <2> QED
      BY <1>2, <2>1, <2>2 DEF IsFloating, Business
<1>3. CASE WindowsKept
      BY <1>2, <1>3 DEF WindowsKept, Edited
<1>4. ASSUME NEW t \in Thread, Builds(t)
      PROVE  \/ IsFloating(l) /\ windows'[l].shown = windows[l].shown
             \/ BuildFloating /\ l = job["main"].label /\ ~windows'[l].shown
  <2>1. CASE l = job[t].label
    <3>1. /\ windows'[l] = Window(t, IF at[t] = "build" THEN "business" ELSE "floating")
          BY <1>1, <1>4, <2>1, BuildsIs
    <3>2. \A kind : Window(t, kind).kind = kind /\ Window(t, kind).shown = (kind = "business")
          BY DEF Window
    <3>3. at[t] # "build" /\ ~windows'[l].shown
          BY <3>1, <3>2
    <3>4. t = "main" /\ BuildFloating
          BY <1>4, <3>3 DEF Builds, Build
    <3> QED
        BY <2>1, <3>3, <3>4
  <2>2. CASE l # job[t].label
    <3>1. l \in Labels /\ windows'[l] = windows[l]
          BY <1>1, <1>4, <2>2, BuildsOthers
    <3> QED
        BY <1>2, <3>1
  <2> QED
      BY <2>1, <2>2
<1> QED
    BY <1>1, <1>3, <1>4, NextWindows

\* The entry that is inserted.
LEMMA InsertedIs ==
  ASSUME InsertFloating
  PROVE  job["main"].id \in DOMAIN floating' /\ floating'[job["main"].id].window = job["main"].label
<1>1. PICK e, i : e = [window |-> job["main"].label, parent |-> job["main"].parent] /\ i = job["main"].id
      OBVIOUS
<1>2. floating' = Set(floating, i, e)
      BY <1>1 DEF InsertFloating
<1>3. floating'[i] = e /\ i \in DOMAIN floating'
      BY <1>2 DEF Set
<1> QED
    BY <1>1, <1>3

LEMMA NextFloatings ==
  ASSUME ThreadsInv, MapInv, FloatingsAreEntered, [Next]_vars
  PROVE  FloatingsAreEntered'
<1> JobsFit /\ WindowsFit /\ LabelsAreFresh /\ "main" \in Thread
    BY ThreadsAre DEF ThreadsInv, MapInv
<1>1. InsertFloating => /\ at["main"] = "insert floating" /\ at'["main"] = "show floating" /\ job' = job
                        /\ floating' = Set(floating, job["main"].id,
                                           [window |-> job["main"].label, parent |-> job["main"].parent])
                        /\ timers' = timers /\ closing' = closing
      BY DEF InsertFloating, Go, JobsFit
<1>2. BuildFloating => /\ at["main"] = "build floating" /\ at'["main"] = "insert floating" /\ job' = job
                       /\ floating' = floating /\ closing' = closing
      BY DEF BuildFloating, Go, JobsFit, shell
\* the entry of a window that stays
<1>3. ASSUME NEW l, IsFloating(l), l \in DOMAIN windows', l \notin closing',
             NEW i \in DOMAIN floating, floating[i].window = l
      PROVE  i \in DOMAIN floating' /\ floating'[i] = floating[i]
  <2>1. CASE InsertFloating
    <3>1. i # job["main"].id
          BY <1>1, <2>1 DEF FloatingsAreEntered
    <3> QED
        BY <1>1, <2>1, <3>1 DEF Set
  <2> QED
      BY <1>3, <2>1, EntriesKept
<1>4. ASSUME NEW l, IsFloating(l), l \in DOMAIN windows', l \notin closing',
             NEW i \in DOMAIN floating, floating[i].window = l, <<i, l>> \in timers
      PROVE  <<i, l>> \in timers'
  <2>1. PICK x : x = <<i, l>>
        OBVIOUS
  <2>2. x[1] = i /\ x[2] = l /\ x \in timers
        BY <1>4, <2>1
  <2>3. ~FloatingExpires(i, l)
        BY <1>4 DEF FloatingExpires, CloseFloating, IsFloating
  <2> QED
      BY <2>1, <2>2, <2>3, TimersKept
\* every floating window has its entry
<1>5. ASSUME NEW l \in DOMAIN windows', windows'[l].kind # "business", l \notin closing'
      PROVE  \/ \E id \in DOMAIN floating' :
                  floating'[id].window = l /\ (windows'[l].shown => <<id, l>> \in timers')
             \/ at'["main"] = "insert floating" /\ l = job'["main"].label
  <2>1. CASE BuildFloating /\ l = job["main"].label
        BY <1>2, <2>1
  <2>2. CASE IsFloating(l) /\ (windows'[l].shown = windows[l].shown \/ FloatingShown)
    <3>1. Owned(l) \/ (at["main"] = "insert floating" /\ l = job["main"].label)
          BY <2>2 DEF FloatingsAreEntered, IsFloating
    <3>2. CASE Owned(l)
      <4>1. PICK i \in DOMAIN floating : floating[i].window = l /\ (windows[l].shown => <<i, l>> \in timers)
            BY <3>2 DEF Owned
      <4>2. i \in DOMAIN floating' /\ floating'[i] = floating[i]
            BY <1>3, <1>5, <2>2, <4>1
      <4>3. CASE windows'[l].shown = windows[l].shown
            BY <1>4, <1>5, <2>2, <4>1, <4>2, <4>3
      <4>4. CASE FloatingShown /\ windows'[l].shown # windows[l].shown
        <5>1. /\ at["main"] = "show floating" /\ timers' = timers \cup {<<job["main"].id, job["main"].label>>}
              /\ floating' = floating
              BY <4>4 DEF FloatingShown, shell
        <5>2. l = job["main"].label
          <6>1. CASE job["main"].label \in Labels /\ l # job["main"].label
            <7>1. windows' = [windows EXCEPT ![job["main"].label].shown = TRUE]
                  BY <4>4, <6>1 DEF FloatingShown
            <7>2. windows'[l] = windows[l]
                  BY <6>1, <7>1, <2>2 DEF IsFloating, Labels
            <7> QED
                BY <4>4, <7>2
          <6>2. CASE job["main"].label \notin Labels
                BY <4>4, <6>2 DEF FloatingShown
          <6> QED
              BY <6>1, <6>2
        <5>3. job["main"].id \in DOMAIN floating /\ floating[job["main"].id].window = l
              BY <2>2, <5>1, <5>2 DEF FloatingsAreEntered, IsFloating
        <5> QED
            BY <5>1, <5>2, <5>3
      <4> QED
          BY <2>2, <4>3, <4>4
    <3>3. CASE at["main"] = "insert floating" /\ l = job["main"].label
      <4>1. CASE InsertFloating
        <5>1. l \in Labels /\ l \notin Business
              BY <2>2 DEF IsFloating
        <5>2. ~windows[l].shown
              BY <3>3, <5>1 DEF FloatingsAreEntered
        <5>3. ~FloatingShown
              BY <3>3 DEF FloatingShown
        <5>4. ~windows'[l].shown
              BY <2>2, <5>2, <5>3
        <5>5. job["main"].id \in DOMAIN floating' /\ floating'[job["main"].id].window = l
                BY <1>1, <3>3, <4>1, InsertedIs
        <5> QED
            BY <5>4, <5>5
      <4>2. CASE ~InsertFloating
            BY <3>3, <4>2, InsertingStays
      <4> QED
          BY <4>1, <4>2
    <3> QED
        BY <3>1, <3>2, <3>3
  <2> QED
      BY <1>5, <2>1, <2>2, FloatingsBefore
\* the steps of the main thread
<1>6. ASSUME at'["main"] \in {"build floating", "insert floating"}
      PROVE  job'["main"].id \notin DOMAIN floating'
  <2>1. CASE SnapshotFloating /\ Takes("main") /\ at'["main"] = "build floating"
    <3>1. PICK step, j : Moves("main", step, j) /\ j.id = job["main"].id
          BY <2>1 DEF Takes
    <3>2. job'["main"].id = job["main"].id
          BY <3>1, MovedIs
    <3>3. floating' = Without(floating, {job["main"].id})
      <4>1. ~End("main")
        <5>1. End("main") => at'["main"] = "idle"
              BY EndIs, MovedIs
        <5> QED
            BY <2>1, <5>1
      <4> QED
          BY <2>1, <4>1 DEF SnapshotFloating
    <3> QED
        BY <3>2, <3>3 DEF Without
  <2>2. CASE BuildFloating /\ job' = job
        BY <1>2, <2>2 DEF FloatingsAreEntered
  <2>3. CASE at'["main"] = at["main"] /\ job'["main"].id = job["main"].id /\ ~InsertFloating
        BY <1>6, <2>3, NextFloating DEF FloatingsAreEntered
  <2> QED
      BY <1>6, <2>1, <2>2, <2>3, FloatingNext
<1>7. ASSUME at'["main"] = "insert floating", NEW x, x = job'["main"].label, x \in DOMAIN windows',
             windows'[x].kind # "business"
      PROVE  ~windows'[x].shown
  <2>1. CASE BuildFloating /\ job' = job
    <3>1. windows'[x] = Window("main", "floating")
          BY <1>7, <2>1 DEF BuildFloating, Set
    <3> QED
        BY <3>1, WindowKinds
  <2>2. CASE at'["main"] = at["main"] /\ x = job["main"].label /\ ~FloatingShown
    <3>1. ASSUME x \in Labels, windows'[x].kind = windows[x].kind, windows'[x].shown = windows[x].shown
          PROVE  ~windows'[x].shown
          BY <1>7, <2>2, <3>1 DEF FloatingsAreEntered, Business
    <3>2. CASE WindowsKept
          BY <1>7, <2>2, <3>1, <3>2 DEF WindowsKept, Edited
    <3>3. ASSUME NEW t \in Thread, Builds(t)
          PROVE  ~windows'[x].shown
      <4>1. CASE x = job[t].label
        <5>1. PICK kind : windows'[x] = Window(t, kind)
              BY <3>3, <4>1, BuildsIs
        <5>2. Window(t, kind).kind = kind /\ (kind # "business" => ~Window(t, kind).shown)
              BY WindowKinds
        <5> QED
            BY <1>7, <5>1, <5>2
      <4>2. CASE x # job[t].label
        <5>1. x \in Labels /\ windows'[x] = windows[x]
              BY <1>7, <3>3, <4>2, BuildsOthers
        <5> QED
            BY <3>1, <5>1
      <4> QED
          BY <4>1, <4>2
    <3> QED
        BY <3>2, <3>3, NextWindows
  <2> QED
      BY <1>7, <2>1, <2>2, FloatingNext
<1>8. ASSUME at'["main"] = "show floating", NEW x, x = job'["main"].label, x \in DOMAIN windows',
             windows'[x].kind # "business", x \notin closing'
      PROVE  job'["main"].id \in DOMAIN floating' /\ floating'[job'["main"].id].window = x
  <2>1. CASE InsertFloating /\ job' = job
        BY <1>8, <2>1, InsertedIs
  <2>2. CASE at'["main"] = at["main"] /\ x = job["main"].label /\ job'["main"].id = job["main"].id
    <3>1. ~BuildFloating
          BY <1>2, <1>8
    <3>2. IsFloating(x)
          BY <1>8, <3>1, FloatingsBefore
    <3>3. job["main"].id \in DOMAIN floating /\ floating[job["main"].id].window = x
          BY <1>8, <2>2, <3>2 DEF FloatingsAreEntered, IsFloating
    <3> QED
        BY <1>3, <1>8, <2>2, <3>2, <3>3
  <2> QED
      BY <1>8, <2>1, <2>2, FloatingNext
<1> QED
    BY <1>5, <1>6, <1>7, <1>8 DEF FloatingsAreEntered, Owned, Business, Labels

-----------------------------------------------------------------------------
(* The inductive invariant.                                                *)

LEMMA InitHolds == Init => IInv
<1> SUFFICES ASSUME Init PROVE IInv
    OBVIOUS
<1>1. /\ config \in Config /\ started = config.processes /\ autostart = config.autoStart
      /\ keys = config.keys
      /\ runtime = <<>> /\ floating = <<>> /\ windows = <<>> /\ nextId = 1
      /\ timeouts = 0 /\ recoveries = 0
      /\ closing = {} /\ signals = {} /\ watchdogs = {} /\ timers = {}
      /\ at = [t \in Thread |-> "idle"] /\ job = [t \in Thread |-> NoJob]
      /\ events = 0 /\ faults = 0
      BY DEF Init
<1>2. DOMAIN runtime = {} /\ DOMAIN floating = {} /\ Labels = {} /\ Business = {}
  <2>1. DOMAIN runtime = {} /\ DOMAIN floating = {} /\ DOMAIN windows = {}
        BY <1>1
  <2> QED
      BY <2>1 DEF Labels, Business
<1>3. MaxEvents \in Nat /\ MaxWindows \in Nat \ {0} /\ Config \subseteq ConfigType
      BY WindowsAssumption
<1>4. TypeOK
  <2>1. started \in SUBSET {"helper"} /\ autostart \in BOOLEAN
        BY <1>1, <1>3 DEF ConfigType
  <2>2. 1 \in 1..(MaxEvents + 1)
        BY <1>3
  <2> QED
      BY <1>1, <1>2, <2>1, <2>2 DEF TypeOK, Label
<1>5. \A t \in Thread : at[t] = "idle" /\ job[t] = NoJob
      BY <1>1
<1>6. LabelsSuffice
  <2>1. Asked(at["main"]) = 0 /\ Asked(at["sso"]) = 0
        BY <1>5, ThreadsAre DEF Asked, AskingSteps
  <2> QED
      BY <1>1, <1>3, <2>1 DEF LabelsSuffice
<1>7. JobsFit
  <2>1. ASSUME NEW t \in Thread
        PROVE  "idle" \in StepsOf(t) /\ JobFits("idle", NoJob)
        BY NoJobIs, StepsAre DEF JobFits, AskingSteps, LabelledSteps, FloatingSteps, Thread
  <2>2. at \in [Thread -> UNION {StepsOf(t) : t \in Thread}] /\ job \in [Thread -> JobType]
        BY <1>1, <2>1, NoJobIs
  <2> QED
      BY <1>5, <2>1, <2>2 DEF JobsFit
<1>8. WindowsFit
      BY <1>2 DEF WindowsFit
<1>9. LabelsAreFresh
      BY <1>1, <1>5 DEF LabelsAreFresh, Unbuilt
<1>10. WindowsAreCounted /\ MapHolds
  <2>1. Cardinality({}) = 0
        BY FS_EmptySet
  <2> QED
      BY <1>2, <1>3, <1>5, <2>1, ThreadsAre DEF WindowsAreCounted, MapHolds
<1>11. RecoveriesAreTrue
  <2>1. {l \in DOMAIN runtime : Recovers(runtime[l])} = {} /\ Cardinality({}) = 0
        BY <1>2, FS_EmptySet
  <2> QED
      BY <1>1, <2>1 DEF RecoveriesAreTrue
<1>12. SystemMatchesConfig
       BY <1>1 DEF SystemMatchesConfig
<1>13. PagesAreCurrent
  <2>1. "idle" \in PlainSteps
        BY DEF PlainSteps
  <2>2. ASSUME NEW t \in Thread
        PROVE  JobIsCurrent(at[t], job[t])
        BY <1>5, <2>1, PlainIsCurrent
  <2> QED
      BY <1>2, <2>2 DEF PagesAreCurrent
<1>14. FloatingsAreEntered
       BY <1>2, <1>5, ThreadsAre DEF FloatingsAreEntered
<1> QED
    BY <1>4, <1>6, <1>7, <1>8, <1>9, <1>10, <1>11, <1>12, <1>13, <1>14 DEF IInv

LEMMA NextHolds == IInv /\ [Next]_vars => IInv'
<1> SUFFICES ASSUME IInv, [Next]_vars PROVE IInv'
    OBVIOUS
<1>1. /\ TypeOK /\ ThreadsInv /\ MapInv /\ WindowsAreCounted /\ MapHolds /\ RecoveriesAreTrue
      /\ SystemMatchesConfig /\ PagesAreCurrent /\ FloatingsAreEntered
      BY DEF IInv, ThreadsInv, MapInv, TypeOK, EntriesFit, EntryType
<1>2. TypeOK' /\ ThreadsInv' /\ MapInv'
      BY <1>1, NextTypes
<1>3. MapHolds' /\ WindowsAreCounted'
      BY <1>1, NextMapHolds
<1>4. RecoveriesAreTrue'
      BY <1>1, NextRecoveries
<1>5. SystemMatchesConfig'
      BY <1>1, NextSystemMatches
<1>6. PagesAreCurrent'
      BY <1>1, NextPagesAreCurrent
<1>7. FloatingsAreEntered'
      BY <1>1, NextFloatings
<1> QED
    BY <1>2, <1>3, <1>4, <1>5, <1>6, <1>7 DEF IInv, ThreadsInv, MapInv

\* The inductive invariant holds in every state the desktop reaches.
THEOREM ShellInvariant == Spec => []IInv
<1>1. Init => IInv
      BY InitHolds
<1>2. IInv /\ [Next]_vars => IInv'
      BY NextHolds
<1> QED
    BY <1>1, <1>2, PTL DEF Spec

\* The records of the desktop agree with the windows there are, over every
\* interleaving of handlers, the replacement of the configuration and single
\* sign-on (desktop.rs: reserve_business_window_label, FloatingWindowRuntime,
\* BusinessFrontendHealth), and after one failure of the system at the most its
\* shortcuts and autostart are those of the configuration
\* (replace_desktop_config).
THEOREM ShellTrue == Spec => []ShellIsTrue
<1>1. IInv => ShellIsTrue
  <2>1. IInv => FloatingsAreOwned
        BY DEF IInv, FloatingsAreEntered, FloatingsAreOwned, Owned, MainIsFree
  <2> QED
      BY <2>1 DEF IInv, ShellIsTrue, ShellIsConsistent
<1> QED
    BY <1>1, ShellInvariant, PTL

\* No page of a configuration that was replaced stays open, and none is opened
\* while the processes wait for a restart (replace_desktop_config,
\* force_close_business_surfaces, require_current_managed_processes), with the
\* exceptions that NoStalePages names.
THEOREM PagesNeverStale == Spec => []NoStalePages
<1>1. IInv => NoStalePages
  <2> SUFFICES ASSUME IInv, at["config"] = "idle", NEW l \in Labels, ~windows[l].stale
               PROVE  ~ResetRequired(windows[l].seen, config) /\ ~RestartRequired
      BY DEF NoStalePages
  <2>1. windows[l].seen.processes = started /\ ~ResetRequired(windows[l].seen, config)
        BY DEF IInv, PagesAreCurrent, WindowIsCurrent
  <2> QED
      BY <2>1, ResetIs DEF RestartRequired
<1> QED
    BY <1>1, ShellInvariant, PTL

=============================================================================
