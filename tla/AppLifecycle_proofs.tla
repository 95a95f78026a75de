------------------------ MODULE AppLifecycle_proofs ------------------------
(***************************************************************************)
(* Proofs about the life of the desktop process, for any number of calls,  *)
(* commands, offers, capabilities, starts and faults: a start that fails   *)
(* before the event loop is told and a running program can be reached, an  *)
(* update replaces the program as it was confirmed, and no end of the      *)
(* process that is not forced cuts off a native call.                      *)
(***************************************************************************)
EXTENDS AppLifecycle, FiniteSetTheorems, TLAPS

-----------------------------------------------------------------------------
(* Types.                                                                  *)

Commanded == [pc : CommandStates, offer : Offers \cup {None}, caps : Caps \cup {None},
              plan : PlansOf \cup {None}]

\* The variables of the start have their types.
StartTypes ==
    /\ life \in {"off", "starting", "running", "failed"} /\ at \in 1..Last
    /\ {complete, reported, logDir, told} \subseteq BOOLEAN
    /\ marker \in [code : Codes, resolved : BOOLEAN] /\ faults \in Nat
    /\ frontend \in {"Waiting", "Ready", "TimedOut", "Recovered"}
    /\ resolving \in 0..signals /\ signals \in 0..MaxSignals
    /\ control \in {"none", "hidden", "shown", "closed"} /\ {tray, business} \subseteq BOOLEAN

\* So do those of the update and the exit.
UpdateTypes ==
    /\ {controllerAccepts, coordinatorAccepts, exitReady, forced, reopened} \subseteq BOOLEAN
    /\ call \in [Calls -> CallStates]
    /\ command \in [Commands -> Commanded]
    /\ plans \subseteq PlansOf
    /\ pending \in Offers \cup {None} /\ caps \in Caps
    /\ exit \in {"none", "stop", "shutdown", "locked", "drain", "ended"}

LEMMA TypesAre ==
  TypeOK <=> StartTypes /\ UpdateTypes /\ (exit = "ended" => life = "off")
BY DEF TypeOK, StartTypes, UpdateTypes, Commanded

LEMMA StagesAre == Last = 11
BY DEF Last, Stages

\* What a report writes.
LEMMA CodeOf ==
  ASSUME at \in 1..Last
  PROVE  Failure(Stage) \in Codes
BY DEF Stage, Codes

LEMMA MarkerIs ==
  ASSUME NEW code \in Codes
  PROVE  MarkerOf(code) \in [code : Codes, resolved : BOOLEAN]
BY DEF MarkerOf

LEMMA WrittenIs ==
  ASSUME StartTypes, NEW code \in Codes, Written(code)
  PROVE  /\ marker' \in [code : Codes, resolved : BOOLEAN] /\ faults' \in Nat
         /\ faults' = 0 => faults = 0
         /\ faults' = 0 /\ logDir => marker' = MarkerOf(code)
<1>1. faults \in Nat /\ logDir \in BOOLEAN
      BY DEF StartTypes
<1> QED
    BY <1>1, MarkerIs DEF Written, StartTypes

\* A stage that fails before the start is complete tells so.
LEMMA FailingTells ==
  ASSUME StartTypes, StartIsOrderly, life = "starting", life' = "failed",
         at' = at, complete' = complete, logDir' = logDir,
         UNCHANGED <<frontendVars, surfaceVars>>,
         IF complete THEN UNCHANGED <<reported, told, marker, faults>>
         ELSE ReportFatal(Failure(Stage))
  PROVE  StartTypes' /\ StartIsOrderly' /\ StartIsTold'
<1>1. ~reported /\ frontend = "Waiting" /\ (complete <=> at >= Hook)
      BY DEF StartIsOrderly
<1>2. StartIsOrderly'
      BY <1>1 DEF StartIsOrderly, frontendVars
<1>3. Failure(Stage) \in Codes /\ Stage' = Stage
      BY CodeOf DEF StartTypes, Stage
<1>4. CASE complete
  <2>1. ~(at < Hook)
        BY <1>1, <1>4 DEF StartTypes, Hook
  <2> QED
      BY <1>1, <1>2, <1>4, <2>1 DEF StartTypes, StartIsTold, frontendVars, surfaceVars
<1>5. CASE ~complete
  <2>1. reported' = TRUE /\ told' = TRUE /\ Written(Failure(Stage))
        BY <1>1, <1>5 DEF ReportFatal
  <2>2. StartTypes'
        BY <1>3, <2>1, WrittenIs DEF StartTypes, frontendVars, surfaceVars
  <2>3. StartIsTold'
        BY <1>3, <2>1, WrittenIs DEF StartIsTold
  <2> QED
      BY <1>2, <2>2, <2>3
<1> QED
    BY <1>4, <1>5

-----------------------------------------------------------------------------
(* The start and its surfaces.                                             *)

StartInv == StartTypes /\ StartIsOrderly /\ StartIsTold /\ SurfacesAreLeft

\* A process is new.
LEMMA StartStarts ==
  ASSUME StartInv, Start
  PROVE  StartInv'
<1>1. /\ life' = "starting" /\ at' = 1 /\ complete' = FALSE /\ reported' = FALSE
      /\ told' = FALSE /\ logDir' \in BOOLEAN /\ frontend' = "Waiting" /\ resolving' = 0
      /\ signals' = 0 /\ tray' = FALSE /\ control' = "none" /\ business' = FALSE
      /\ UNCHANGED <<marker, faults>>
      BY DEF Start, Fresh
<1>2. 1 \in 1..Last /\ 0 \in 0..0 /\ 0 \in 0..MaxSignals
      BY StagesAre, StartupAssumption
<1>3. StartTypes'
      BY <1>1, <1>2 DEF StartTypes, StartInv
<1>4. complete' <=> at' >= Hook
      BY <1>1 DEF Hook
<1>5. StartIsOrderly' /\ StartIsTold' /\ SurfacesAreLeft'
      BY <1>1, <1>4, StagesAre DEF StartIsOrderly, StartIsTold, SurfacesAreLeft
<1> QED
    BY <1>3, <1>5 DEF StartInv

\* A stage is entered.
LEMMA EnterStarts ==
  ASSUME StartInv, Enter
  PROVE  StartInv'
<1>1. /\ life = "starting" /\ at < Last - 1 /\ at' = at + 1
      /\ logDir' = (logDir \/ at + 1 = 4)
      /\ complete' = (complete \/ at + 1 = 4)
      /\ UNCHANGED <<life, reported, told, marker, frontendVars, surfaceVars, faults>>
      BY DEF Enter, Hook
<1>2. StartTypes /\ StartIsOrderly /\ SurfacesAreLeft
      BY DEF StartInv
<1>3. at \in 1..11 /\ Last = 11
      BY <1>2, StagesAre DEF StartTypes
<1>4. logDir' \in BOOLEAN /\ complete' \in BOOLEAN
      BY <1>1, <1>2 DEF StartTypes
<1>5. StartTypes'
      BY <1>1, <1>2, <1>3, <1>4 DEF StartTypes, frontendVars, surfaceVars
<1>6. complete' <=> at' >= Hook
  <2>1. (complete <=> at >= 4) /\ complete \in BOOLEAN
        BY <1>1, <1>2 DEF StartIsOrderly, StartTypes, Hook
  <2>2. (at >= 4 \/ at + 1 = 4) <=> (at + 1 >= 4)
        BY <1>3
  <2>3. complete' <=> at + 1 >= 4
        BY <1>1, <2>1, <2>2
  <2> QED
      BY <1>1, <1>4, <2>3 DEF Hook
<1>7. StartIsOrderly'
      BY <1>1, <1>2, <1>3, <1>6 DEF StartIsOrderly, frontendVars
<1>8. StartIsTold' /\ SurfacesAreLeft'
      BY <1>1, <1>2 DEF StartIsTold, SurfacesAreLeft, surfaceVars
<1> QED
    BY <1>5, <1>7, <1>8 DEF StartInv

\* The last stage builds the surfaces.
LEMMA BuildStarts ==
  ASSUME StartInv, BuildShell
  PROVE  StartInv'
<1>1. /\ life = "starting" /\ tray' \in BOOLEAN /\ business' \in BOOLEAN
      /\ \/ control' = "shown"
         \/ control' = IF tray' THEN "hidden" ELSE "shown"
      /\ UNCHANGED <<processVars, marker, frontend, resolving, signals, faults>>
      BY DEF BuildShell
<1>2. StartTypes'
      BY <1>1 DEF StartTypes, StartInv, processVars
<1>3. StartIsOrderly' /\ StartIsTold' /\ SurfacesAreLeft'
      BY <1>1 DEF StartInv, StartTypes, StartIsOrderly, StartIsTold, SurfacesAreLeft, processVars
<1> QED
    BY <1>2, <1>3 DEF StartInv

LEMMA RunningStarts ==
  ASSUME StartInv, Running
  PROVE  StartInv'
<1>1. /\ life = "starting" /\ life' = "running" /\ control # "none"
      /\ at' = Last
      /\ UNCHANGED <<complete, reported, told, logDir, marker, frontendVars, surfaceVars, faults>>
      BY DEF Running
<1>2. Last \in 1..Last
      BY StagesAre
<1>3. StartTypes'
      BY <1>1, <1>2 DEF StartTypes, StartInv, frontendVars, surfaceVars
<1>4. frontend' = "Waiting" /\ resolving' = 0
      BY <1>1 DEF StartInv, StartIsOrderly, frontendVars
<1>5. StartIsOrderly' /\ StartIsTold' /\ SurfacesAreLeft'
      BY <1>1, <1>4 DEF StartInv, StartIsOrderly, StartIsTold, SurfacesAreLeft, surfaceVars
<1> QED
    BY <1>3, <1>5 DEF StartInv

LEMMA FailureStarts ==
  ASSUME StartInv, StageFails \/ Panics
  PROVE  StartInv'
<1>1. /\ life = "starting" /\ life' = "failed"
      /\ IF complete THEN UNCHANGED <<reported, told, marker, faults>>
         ELSE ReportFatal(Failure(Stage))
      /\ UNCHANGED <<at, complete, logDir, frontendVars, surfaceVars>>
      BY DEF StageFails, Panics
<1>2. StartTypes' /\ StartIsOrderly' /\ StartIsTold'
      BY <1>1, FailingTells DEF StartInv
<1>3. SurfacesAreLeft'
      BY <1>1 DEF StartInv, SurfacesAreLeft, surfaceVars
<1> QED
    BY <1>2, <1>3 DEF StartInv

\* The page signals that it is ready.
LEMMA ReadyStarts ==
  ASSUME StartInv, FrontendReady
  PROVE  StartInv'
<1>1. StartTypes /\ StartIsOrderly /\ StartIsTold /\ SurfacesAreLeft
      BY DEF StartInv
<1>2. /\ life = "running" /\ signals < MaxSignals /\ signals' = signals + 1
      /\ UNCHANGED <<processVars, marker, surfaceVars, faults>>
      BY DEF FrontendReady
<1>3. \/ /\ frontend \in {"Waiting", "TimedOut"} /\ frontend' \in {"Ready", "Recovered"}
         /\ resolving' = IF ~logDir THEN resolving ELSE resolving + 1
      \/ /\ frontend \in {"Ready", "Recovered"} /\ frontend' = frontend
         /\ resolving' = resolving
      BY <1>1 DEF FrontendReady, MarkReady, StartTypes
<1>4. /\ resolving \in Nat /\ resolving <= signals /\ signals \in Nat /\ MaxSignals \in Nat
      /\ logDir \in BOOLEAN
      BY <1>1, StartupAssumption DEF StartTypes
<1>5. resolving' \in 0..signals' /\ signals' \in 0..MaxSignals
      BY <1>2, <1>3, <1>4
<1>6. frontend' \in {"Ready", "Recovered"}
      BY <1>3
<1>7. StartTypes'
      BY <1>1, <1>2, <1>5, <1>6 DEF StartTypes, processVars, surfaceVars
<1>8. StartIsOrderly' /\ SurfacesAreLeft'
      BY <1>1, <1>2, <1>6 DEF StartIsOrderly, SurfacesAreLeft, processVars, surfaceVars
<1>9. logDir /\ resolving' = 0 => frontend \in {"Ready", "Recovered"} /\ resolving = 0
      BY <1>3, <1>4
<1>10. StartIsTold'
      BY <1>1, <1>2, <1>6, <1>9 DEF StartIsTold, processVars
<1> QED
    BY <1>7, <1>8, <1>10 DEF StartInv

\* The file of an earlier failure is resolved.
LEMMA ResolveStarts ==
  ASSUME StartInv, ResolveMarker
  PROVE  StartInv'
<1>1. StartTypes /\ StartIsOrderly /\ StartIsTold /\ SurfacesAreLeft
      BY DEF StartInv
<1>2. /\ life = "running" /\ resolving > 0 /\ resolving' = resolving - 1
      /\ UNCHANGED <<processVars, frontend, signals, surfaceVars>>
      /\ \/ marker' = Resolved(marker) /\ faults' = faults
         \/ marker' = marker /\ faults' = faults + 1
      BY DEF ResolveMarker
<1>3. resolving' \in 0..signals' /\ faults' \in Nat
      BY <1>1, <1>2 DEF StartTypes
<1>4. Resolved(marker) \in [code : Codes, resolved : BOOLEAN] /\ Resolved(marker).resolved
      BY <1>1 DEF Resolved, StartTypes
<1>5. StartTypes'
      BY <1>1, <1>2, <1>3, <1>4 DEF StartTypes, processVars, surfaceVars
<1>6. frontend \in {"Ready", "Recovered"}
      BY <1>1, <1>2 DEF StartTypes, StartIsOrderly
<1>7. faults' = 0 => marker' = Resolved(marker)
      BY <1>1, <1>2 DEF StartTypes
<1>8. StartIsOrderly' /\ SurfacesAreLeft' /\ StartIsTold'
      BY <1>1, <1>2, <1>4, <1>6, <1>7
         DEF StartIsOrderly, SurfacesAreLeft, StartIsTold, processVars, surfaceVars
<1> QED
    BY <1>5, <1>8 DEF StartInv

\* The watchdog finds a page that is not ready.
LEMMA WatchdogStarts ==
  ASSUME StartInv, WatchdogFires
  PROVE  StartInv'
<1>1. StartTypes /\ StartIsOrderly /\ StartIsTold /\ SurfacesAreLeft
      BY DEF StartInv
<1>2. /\ life = "running"
      /\ UNCHANGED <<life, at, complete, reported, logDir, resolving, signals, surfaceVars>>
      BY DEF WatchdogFires
<1>3. CASE frontend = "Waiting"
  <2>1. Written("frontend-startup-timeout") /\ frontend' = "TimedOut" /\ told' = TRUE
        BY <1>3 DEF WatchdogFires, ReportTimeout
  <2>2. "frontend-startup-timeout" \in Codes
        BY DEF Codes
  <2>3. StartTypes'
        BY <1>1, <1>2, <2>1, <2>2, WrittenIs DEF StartTypes, surfaceVars
  <2>4. StartIsTold'
        BY <1>1, <1>2, <2>1, <2>2, WrittenIs DEF StartIsTold
  <2>5. StartIsOrderly' /\ SurfacesAreLeft'
        BY <1>1, <1>2, <1>3, <2>1 DEF StartIsOrderly, SurfacesAreLeft, surfaceVars
  <2> QED
      BY <2>3, <2>4, <2>5 DEF StartInv
<1>4. CASE frontend # "Waiting"
  <2>1. UNCHANGED <<frontend, told, marker, faults>>
        BY <1>4 DEF WatchdogFires
  <2> QED
      BY <1>1, <1>2, <2>1
         DEF StartInv, StartTypes, StartIsOrderly, SurfacesAreLeft, StartIsTold, surfaceVars
<1> QED
    BY <1>3, <1>4

\* Surfaces are shown, hidden and closed.
LEMMA SurfaceStarts ==
  ASSUME StartInv, life = "running",
         UNCHANGED <<processVars, marker, frontendVars, tray, faults>>,
         business' \in BOOLEAN, control # "none",
         \/ control' = control
         \/ control' \in {"shown", "closed"}
         \/ control' = "hidden" /\ tray
  PROVE  StartInv'
<1>1. StartTypes /\ StartIsOrderly /\ StartIsTold /\ SurfacesAreLeft
      BY DEF StartInv
<1>2. StartTypes'
      BY <1>1 DEF StartTypes, processVars, frontendVars
<1>3. StartIsOrderly' /\ StartIsTold' /\ SurfacesAreLeft'
      BY <1>1 DEF StartIsOrderly, StartIsTold, SurfacesAreLeft, processVars, frontendVars
<1> QED
    BY <1>2, <1>3 DEF StartInv

\* Otherwise the process goes on as it was, or it ends.
LEMMA EndStarts ==
  ASSUME StartInv, life' \in {life, "off"},
         UNCHANGED <<at, complete, reported, logDir, told, marker, frontendVars,
                     surfaceVars, faults>>
  PROVE  StartInv'
<1>1. StartTypes /\ StartIsOrderly /\ StartIsTold /\ SurfacesAreLeft
      BY DEF StartInv
<1>2. StartTypes'
      BY <1>1 DEF StartTypes, frontendVars, surfaceVars
<1>3. Stage' = Stage
      BY DEF Stage
<1>4. StartIsOrderly' /\ StartIsTold' /\ SurfacesAreLeft'
      BY <1>1, <1>3 DEF StartIsOrderly, StartIsTold, SurfacesAreLeft, frontendVars, surfaceVars
<1> QED
    BY <1>2, <1>4 DEF StartInv

\* All steps.
LEMMA NextStarts ==
  ASSUME StartInv, [Next]_vars
  PROVE  StartInv'
<1>1. ASSUME StartProcess
      PROVE  StartInv'
      BY <1>1, StartStarts DEF StartProcess
<1>2. ASSUME StartupStep
      PROVE  StartInv'
      BY <1>2, EnterStarts, BuildStarts, RunningStarts, FailureStarts, ReadyStarts,
         ResolveStarts, WatchdogStarts DEF StartupStep
<1>3. ASSUME SurfaceStep
      PROVE  StartInv'
  <2>1. business \in BOOLEAN /\ (life = "running" => control # "none")
        BY DEF StartInv, StartTypes, SurfacesAreLeft
  <2> QED
      BY <1>3, <2>1, SurfaceStarts DEF SurfaceStep, ShowControl, CloseBusiness, OpenBusiness
<1>4. ASSUME RunningStep
      PROVE  StartInv'
      BY <1>4, EndStarts DEF RunningStep
<1>5. ASSUME AskExit
      PROVE  StartInv'
  <2>1. business' \in BOOLEAN /\ (life = "running" => control # "none")
        BY <1>5 DEF AskExit, StartInv, StartTypes, SurfacesAreLeft
  <2> QED
      BY <1>5, <2>1, SurfaceStarts DEF AskExit
<1>6. ASSUME CloseControlWindow
      PROVE  StartInv'
  <2>1. business \in BOOLEAN /\ (life = "running" => control # "none")
        BY DEF StartInv, StartTypes, SurfacesAreLeft
  <2> QED
      BY <1>6, <2>1, SurfaceStarts DEF CloseControlWindow, CloseControl, CloseHides
<1>7. ASSUME Terminated
      PROVE  StartInv'
      BY <1>7, EndStarts DEF Terminated, Gone
<1>8. ASSUME UNCHANGED vars
      PROVE  StartInv'
      BY <1>8, EndStarts DEF vars, startupVars, processVars
<1> QED
    BY <1>1, <1>2, <1>3, <1>4, <1>5, <1>6, <1>7, <1>8 DEF Next

-----------------------------------------------------------------------------
(* The commands: what an install has confirmed, and what it consumes.      *)

\* What a command rests on.
Sound(c) ==
  /\ command[c].pc = "offered" => command[c].offer \in Offers
  /\ command[c].pc \in Holding =>
       /\ command[c].plan \in plans
       /\ command[c].plan = Plan(command[c].offer, command[c].caps)
       /\ command[c].caps \notin Blocking
  /\ command[c].pc = "confirm" => command[c].plan \in plans
  /\ command[c].pc = "cloned" => pending \in {None, command[c].offer}

CommandInv == (\A c \in Commands : Sound(c)) /\ InstallsAreAlone

\* The other commands stay where they are.
Only(c) == \A d \in Commands \ {c} : command'[d] = command[d]

LEMMA ToIs ==
  ASSUME UpdateTypes, NEW c \in Commands, NEW pc \in CommandStates, To(c, pc)
  PROVE  /\ command' \in [Commands -> Commanded] /\ Only(c)
         /\ command'[c].pc = pc /\ command'[c].offer = command[c].offer
         /\ command'[c].caps = command[c].caps /\ command'[c].plan = command[c].plan
<1>1. command[c] \in Commanded
      BY DEF UpdateTypes
<1>2. PICK e : e = [command[c] EXCEPT !.pc = pc]
      OBVIOUS
<1>3. /\ e \in Commanded /\ e.pc = pc /\ e.offer = command[c].offer
      /\ e.caps = command[c].caps /\ e.plan = command[c].plan
      BY <1>1, <1>2 DEF Commanded
<1>4. command' = [command EXCEPT ![c] = e]
      BY <1>2 DEF To
<1> QED
    BY <1>3, <1>4 DEF UpdateTypes, Only

LEMMA IdleIs == Idle \in Commanded /\ Idle.pc = "idle"
BY DEF Idle, Commanded, CommandStates

LEMMA EndsIs ==
  ASSUME UpdateTypes, NEW c \in Commands, Ends(c)
  PROVE  /\ command' \in [Commands -> Commanded] /\ Only(c) /\ command'[c].pc = "idle"
BY IdleIs DEF Ends, UpdateTypes, Only

LEMMA StatesAre ==
  /\ Holding \subseteq CommandStates
  /\ {"idle", "asking", "offered", "confirm"} \subseteq CommandStates
  /\ {"idle", "asking", "offered", "confirm"} \cap Holding = {}
BY DEF CommandStates, Holding

\* The books of the commands after a step of one of them.
LEMMA CommandsKeep ==
  ASSUME CommandInv, NEW c \in Commands, Only(c),
         plans \subseteq plans',
         pending' \in {pending, None} \/ LockFree,
         command'[c].pc \in Holding => command[c].pc \in Holding \/ LockFree,
         Sound(c)'
  PROVE  CommandInv'
<1>1. ASSUME NEW d \in Commands \ {c}
      PROVE  Sound(d)'
  <2>1. Sound(d) /\ command'[d] = command[d]
        BY DEF CommandInv, Only
  <2>2. command[d].pc = "cloned" => ~LockFree
        BY DEF LockFree, Holding
  <2> QED
      BY <2>1, <2>2 DEF Sound
<1>2. InstallsAreAlone'
  <2> SUFFICES ASSUME NEW d \in Commands, NEW e \in Commands, d # e,
                      command'[d].pc \in Holding, command'[e].pc \in Holding
               PROVE  FALSE
      BY DEF InstallsAreAlone
  <2>1. \A x \in Commands \ {c} : command'[x].pc \in Holding => command[x].pc \in Holding /\ ~LockFree
        BY DEF Only, LockFree
  <2>2. ~LockFree
        BY <2>1
  <2> QED
      BY <2>1, <2>2 DEF CommandInv, InstallsAreAlone
<1> QED
    BY <1>1, <1>2 DEF CommandInv

-----------------------------------------------------------------------------
(* The ends: what an install and an exit have closed before they wait.     *)

DrainInv == InstallDrains /\ ExitDrains /\ CallsEndWithTheProcess /\ CallsAreNotCut

\* The books of the admission after a step that does not end the process.
\* Who got as far as to wait for calls has closed what lets them begin.
LEMMA DrainsKeep ==
  ASSUME UpdateTypes, DrainInv, exit # "ended", exit' # "ended",
         reopened => reopened',
         \A c \in Commands : command'[c].pc \in {"shutdown", "locked", "drain", "install", "resume"}
                             => ~coordinatorAccepts',
         \A c \in Commands : command'[c].pc \in {"locked", "drain", "install"} => ~controllerAccepts',
         \A c \in Commands : command'[c].pc \in {"drain", "install"} => InFlight' = {},
         \A c \in Commands : command'[c].pc = "install" => Active' = {},
         reopened' \/ (exit' \in {"shutdown", "locked", "drain"} => ~coordinatorAccepts'),
         reopened' \/ (exit' \in {"locked", "drain"} => ~controllerAccepts'),
         reopened' \/ (exit' = "drain" => InFlight' = {}),
         \A k \in Calls : call'[k] = "accepted" => k \in Tracked,
         \A k \in Calls : call'[k] # "cut"
  PROVE  DrainInv'
BY DEF DrainInv, InstallDrains, ExitDrains, CallsEndWithTheProcess, CallsAreNotCut

\* Nobody is cut while the process runs.
LEMMA NobodyIsCut ==
  ASSUME DrainInv, exit # "ended"
  PROVE  \A k \in Calls : call[k] # "cut" /\ (call[k] = "accepted" => k \in Tracked)
BY DEF DrainInv, CallsEndWithTheProcess

\* The end of the process cuts nobody when there is nobody.
LEMMA CutIs ==
  ASSUME UpdateTypes, DrainInv, exit # "ended", InFlight = {}, Active = {}
  PROVE  Cut(call) = call
<1>1. \A k \in Calls : call[k] \notin {"accepted", "running"}
      BY NobodyIsCut DEF InFlight, Active
<1> QED
    BY <1>1 DEF Cut, UpdateTypes

LEMMA CutTypes ==
  ASSUME UpdateTypes
  PROVE  Cut(call) \in [Calls -> CallStates]
BY DEF Cut, UpdateTypes, CallStates

\* The books at the end of the process.
LEMMA EndsKeep ==
  ASSUME exit' = "ended", UpdateTypes, DrainInv, exit # "ended",
         call' = Cut(call),
         UNCHANGED <<controllerAccepts, coordinatorAccepts, reopened, command>>,
         forced' \/ reopened \/ (InFlight = {} /\ Active = {})
  PROVE  DrainInv'
<1>1. \A k \in Calls : call'[k] # "accepted" /\ call'[k] # "running"
      BY DEF Cut
<1>2. InFlight' = {} /\ Active' = {}
      BY <1>1, UpdateAssumption DEF InFlight, Active
<1>3. InstallDrains' /\ ExitDrains' /\ CallsEndWithTheProcess'
      BY <1>1, <1>2 DEF DrainInv, InstallDrains, ExitDrains, CallsEndWithTheProcess
<1>4. CASE forced' \/ reopened
      BY <1>3, <1>4 DEF DrainInv, CallsAreNotCut
<1>5. CASE InFlight = {} /\ Active = {}
  <2>1. call' = call
        BY <1>5, CutIs
  <2>2. CallsAreNotCut'
        BY <2>1, NobodyIsCut DEF CallsAreNotCut
  <2> QED
      BY <1>3, <2>2 DEF DrainInv
<1> QED
    BY <1>4, <1>5

-----------------------------------------------------------------------------
(* The steps of the update and of the exit.                                *)

UpdateInv == UpdateTypes /\ CommandInv /\ DrainInv

\* What is true of a command that takes the program down.
Drains(c) ==
  /\ command[c].pc \in {"shutdown", "locked", "drain", "install", "resume"} => ~coordinatorAccepts
  /\ command[c].pc \in {"locked", "drain", "install"} => ~controllerAccepts
  /\ command[c].pc \in {"drain", "install"} => InFlight = {}
  /\ command[c].pc = "install" => Active = {}

\* A step of one command that leaves admission, calls and exit alone.
LEMMA QuietCommandKeeps ==
  ASSUME UpdateInv, exit # "ended", NEW c \in Commands, Only(c),
         UNCHANGED <<admissionVars, call, exitVars>>, Drains(c)'
  PROVE  DrainInv'
<1>1. InFlight' = InFlight /\ Active' = Active
      BY DEF InFlight, Active
<1>2. \A d \in Commands \ {c} : Drains(d) /\ command'[d] = command[d]
      BY DEF UpdateInv, DrainInv, InstallDrains, Drains, Only
<1>3. \A d \in Commands : Drains(d)'
      BY <1>1, <1>2 DEF Drains, admissionVars
<1>4. InstallDrains'
      BY <1>3 DEF InstallDrains, Drains
<1> QED
    BY <1>1, <1>4 DEF UpdateInv, DrainInv, ExitDrains, CallsEndWithTheProcess, CallsAreNotCut,
                      admissionVars, exitVars

\* So does one of a command that does not hold the lock.
LEMMA WaitingCommandKeeps ==
  ASSUME UpdateInv, exit # "ended", NEW c \in Commands, Only(c),
         UNCHANGED <<admissionVars, call, exitVars>>,
         command'[c].pc \notin {"shutdown", "locked", "drain", "install", "resume"}
  PROVE  DrainInv'
BY QuietCommandKeeps DEF Drains

LEMMA PlanIs ==
  ASSUME NEW o \in Offers, NEW x \in Caps
  PROVE  Plan(o, x) \in PlansOf /\ Plan(o, x).offer = o /\ Plan(o, x).caps = x
BY DEF Plan, PlansOf

\* A command asks for an update.
LEMMA CheckKeeps ==
  ASSUME UpdateInv, exit # "ended", NEW c \in Commands, BeginCheck(c) \/ CheckStep(c)
  PROVE  UpdateInv'
<1>1. UpdateTypes /\ CommandInv /\ command[c] \in Commanded
      BY DEF UpdateInv, UpdateTypes
<1>2. /\ UNCHANGED <<admissionVars, call, exitVars, caps>>
      BY DEF BeginCheck, CheckStep, CheckFails, NothingOffered, Offered, AnswerCheck
<1>3. CASE BeginCheck(c)
  <2>1. To(c, "asking") /\ pending' = None /\ plans' = plans
        BY <1>3 DEF BeginCheck
  <2>2. command' \in [Commands -> Commanded] /\ Only(c) /\ command'[c].pc = "asking"
        BY <1>1, <2>1, ToIs, StatesAre
  <2> QED
      BY <1>1, <1>2, <2>1, <2>2, CommandsKeep, WaitingCommandKeeps, StatesAre
         DEF UpdateInv, Sound, UpdateTypes, admissionVars, exitVars
<1>4. CASE CheckFails(c) \/ NothingOffered(c)
  <2>1. Ends(c) /\ pending' \in {pending, None} /\ plans' = plans
        BY <1>4 DEF CheckFails, NothingOffered
  <2>2. command' \in [Commands -> Commanded] /\ Only(c) /\ command'[c].pc = "idle"
        BY <1>1, <2>1, EndsIs
  <2> QED
      BY <1>1, <1>2, <2>1, <2>2, CommandsKeep, WaitingCommandKeeps, StatesAre
         DEF UpdateInv, Sound, UpdateTypes, admissionVars, exitVars
<1>5. CASE Offered(c)
  <2>1. PICK offer \in Offers : command' = [command EXCEPT ![c].pc = "offered", ![c].offer = offer]
        BY <1>5 DEF Offered
  <2>2. PICK e : e = [command[c] EXCEPT !.pc = "offered", !.offer = offer]
        OBVIOUS
  <2>3. e \in Commanded /\ e.pc = "offered" /\ e.offer = offer
        BY <1>1, <2>2, StatesAre DEF Commanded
  <2>4. command' = [command EXCEPT ![c] = e]
        BY <2>1, <2>2
  <2>5. /\ command' \in [Commands -> Commanded] /\ Only(c) /\ command'[c].pc = "offered"
        /\ command'[c].offer \in Offers
        BY <1>1, <2>3, <2>4 DEF UpdateTypes, Only
  <2>6. pending' = pending /\ plans' = plans
        BY <1>5 DEF Offered
  <2> QED
      BY <1>1, <1>2, <2>5, <2>6, CommandsKeep, WaitingCommandKeeps, StatesAre
         DEF UpdateInv, Sound, UpdateTypes, admissionVars, exitVars
<1>6. CASE AnswerCheck(c)
  <2>1. /\ Ends(c) /\ LockFree /\ pending' = command[c].offer
        /\ plans' = plans \cup (IF caps \in Blocking THEN {} ELSE {Plan(command[c].offer, caps)})
        BY <1>6 DEF AnswerCheck
  <2>2. command' \in [Commands -> Commanded] /\ Only(c) /\ command'[c].pc = "idle"
        BY <1>1, <2>1, EndsIs
  <2>3. plans \subseteq plans' /\ pending' \in Offers \cup {None}
        BY <1>1, <2>1 DEF Commanded
  <2>4. command[c].offer \in Offers
        BY <1>1, <1>6 DEF AnswerCheck, CommandInv, Sound
  <2>5. plans' \subseteq PlansOf
        BY <1>1, <2>1, <2>4, PlanIs DEF UpdateTypes
  <2> QED
      BY <1>1, <1>2, <2>1, <2>2, <2>3, <2>5, CommandsKeep, WaitingCommandKeeps, StatesAre
         DEF UpdateInv, Sound, UpdateTypes, admissionVars, exitVars
<1> QED
    BY <1>3, <1>4, <1>5, <1>6 DEF CheckStep

\* An install that has not stopped anything yet.
LEMMA EarlyInstallKeeps ==
  ASSUME UpdateInv, exit # "ended", NEW c \in Commands,
         BeginInstall(c) \/ Confirm(c) \/ Take(c) \/ Download(c) \/ Reinspect(c)
  PROVE  UpdateInv'
<1>1. UpdateTypes /\ CommandInv /\ command[c] \in Commanded /\ Sound(c)
      BY DEF UpdateInv, UpdateTypes, CommandInv
<1>2. UNCHANGED <<admissionVars, call, exitVars, caps, plans>>
      BY DEF BeginInstall, Confirm, Take, Download, Reinspect
<1>3. ASSUME command' \in [Commands -> Commanded], Only(c), pending' \in {pending, None},
             command'[c].pc \notin {"shutdown", "locked", "drain", "install", "resume"},
             command'[c].pc \in Holding => command[c].pc \in Holding \/ LockFree,
             Sound(c)'
      PROVE  UpdateInv'
      BY <1>1, <1>2, <1>3, CommandsKeep, WaitingCommandKeeps
         DEF UpdateInv, UpdateTypes, admissionVars, exitVars
<1>4. ASSUME Ends(c), pending' \in {pending, None}
      PROVE  UpdateInv'
  <2>1. command' \in [Commands -> Commanded] /\ Only(c) /\ command'[c].pc = "idle"
        BY <1>1, <1>4, EndsIs
  <2> QED
      BY <1>3, <1>4, <2>1, StatesAre DEF Sound
<1>5. CASE BeginInstall(c)
  <2>1. PICK plan \in plans : command' = [command EXCEPT ![c].pc = "confirm", ![c].plan = plan]
        BY <1>5 DEF BeginInstall
  <2>2. plan \in PlansOf /\ pending' = pending
        BY <1>1, <1>5, <2>1 DEF UpdateTypes, BeginInstall
  <2>3. PICK e : e = [command[c] EXCEPT !.pc = "confirm", !.plan = plan]
        OBVIOUS
  <2>4. e \in Commanded /\ e.pc = "confirm" /\ e.plan = plan
        BY <1>1, <2>2, <2>3, StatesAre DEF Commanded
  <2>5. command' = [command EXCEPT ![c] = e]
        BY <2>1, <2>3
  <2>6. /\ command' \in [Commands -> Commanded] /\ Only(c) /\ command'[c].pc = "confirm"
        /\ command'[c].plan = plan
        BY <1>1, <2>4, <2>5 DEF UpdateTypes, Only
  <2>7. Sound(c)'
        BY <1>2, <2>1, <2>6, StatesAre DEF Sound
  <2> QED
      BY <1>3, <2>2, <2>6, <2>7, StatesAre
<1>6. CASE Confirm(c) /\ PlanHolds(c)
  <2>1. /\ command' = [command EXCEPT ![c].pc = "cloned", ![c].offer = pending, ![c].caps = caps]
        /\ command[c].pc = "confirm" /\ LockFree /\ pending' = pending
        BY <1>6 DEF Confirm
  <2>2. /\ pending \in Offers /\ caps \in Caps /\ caps \notin Blocking
        /\ command[c].plan = Plan(pending, caps) /\ command[c].plan \in plans
        BY <1>1, <1>6, <2>1 DEF PlanHolds, UpdateTypes, Sound
  <2>3. PICK e : e = [command[c] EXCEPT !.pc = "cloned", !.offer = pending, !.caps = caps]
        OBVIOUS
  <2>4. "cloned" \in CommandStates
        BY DEF CommandStates, Holding
  <2>5. /\ e \in Commanded /\ e.pc = "cloned" /\ e.offer = pending /\ e.caps = caps
        /\ e.plan = command[c].plan
        BY <1>1, <2>2, <2>3, <2>4 DEF Commanded
  <2>6. command' = [command EXCEPT ![c] = e]
        BY <2>1, <2>3
  <2>7. /\ command' \in [Commands -> Commanded] /\ Only(c) /\ command'[c].pc = "cloned"
        /\ command'[c].offer = pending /\ command'[c].caps = caps
        /\ command'[c].plan = command[c].plan
        BY <1>1, <2>5, <2>6 DEF UpdateTypes, Only
  <2>8. Sound(c)'
        BY <1>2, <2>1, <2>2, <2>7 DEF Sound
  <2> QED
      BY <1>3, <2>1, <2>7, <2>8
<1>7. CASE Confirm(c) /\ ~PlanHolds(c)
  <2>1. Ends(c) /\ pending' = pending
        BY <1>7 DEF Confirm, Ends
  <2> QED
      BY <1>4, <2>1
<1>8. CASE Take(c)
  <2>1. command[c].pc = "cloned" /\ pending' = None
        BY <1>8 DEF Take
  <2>2. CASE pending = None
        BY <1>4, <1>8, <2>1, <2>2 DEF Take, Ends
  <2>3. CASE pending # None
    <3>1. command' = [command EXCEPT ![c].pc = "download", ![c].offer = pending]
          BY <1>8, <2>3 DEF Take
    <3>2. pending = command[c].offer
          BY <1>1, <2>1, <2>3 DEF Sound
    <3>3. PICK e : e = [command[c] EXCEPT !.pc = "download", !.offer = pending]
          OBVIOUS
    <3>4. "download" \in CommandStates /\ {"download", "cloned"} \subseteq Holding
          BY DEF CommandStates, Holding
    <3>5. /\ e \in Commanded /\ e.pc = "download" /\ e.offer = command[c].offer
          /\ e.caps = command[c].caps /\ e.plan = command[c].plan
          BY <1>1, <3>2, <3>3, <3>4 DEF Commanded
    <3>6. command' = [command EXCEPT ![c] = e]
          BY <3>1, <3>3
    <3>7. /\ command' \in [Commands -> Commanded] /\ Only(c) /\ command'[c].pc = "download"
          /\ command'[c].offer = command[c].offer /\ command'[c].caps = command[c].caps
          /\ command'[c].plan = command[c].plan
          BY <1>1, <3>5, <3>6 DEF UpdateTypes, Only
    <3>8. Sound(c)'
          BY <1>1, <1>2, <2>1, <3>4, <3>7 DEF Sound
    <3> QED
        BY <1>3, <2>1, <3>4, <3>7, <3>8
  <2> QED
      BY <2>2, <2>3
<1>9. CASE Download(c)
  <2>1. command[c].pc = "download" /\ pending' = pending /\ (To(c, "verified") \/ Ends(c))
        BY <1>9 DEF Download
  <2>2. "verified" \in CommandStates /\ {"download", "verified"} \subseteq Holding
        BY DEF CommandStates, Holding
  <2>3. ASSUME To(c, "verified")
        PROVE  UpdateInv'
    <3>1. /\ command' \in [Commands -> Commanded] /\ Only(c) /\ command'[c].pc = "verified"
          /\ command'[c].offer = command[c].offer /\ command'[c].caps = command[c].caps
          /\ command'[c].plan = command[c].plan
          BY <1>1, <2>2, <2>3, ToIs
    <3>2. Sound(c)'
          BY <1>1, <1>2, <2>1, <2>2, <3>1 DEF Sound
    <3> QED
        BY <1>3, <2>1, <2>2, <3>1, <3>2
  <2> QED
      BY <1>4, <2>1, <2>3
<1>10. CASE Reinspect(c) /\ StillHolds(c)
  <2>1. /\ command[c].pc = "verified" /\ pending' = pending /\ caps = command[c].caps
        /\ command' = [command EXCEPT ![c].pc = "stop", ![c].caps = caps]
        BY <1>10 DEF Reinspect, StillHolds
  <2>2. PICK e : e = [command[c] EXCEPT !.pc = "stop", !.caps = caps]
        OBVIOUS
  <2>3. "stop" \in CommandStates /\ {"stop", "verified"} \subseteq Holding
        BY DEF CommandStates, Holding
  <2>4. /\ e \in Commanded /\ e.pc = "stop" /\ e.offer = command[c].offer
        /\ e.caps = command[c].caps /\ e.plan = command[c].plan
        BY <1>1, <2>1, <2>2, <2>3 DEF Commanded
  <2>5. command' = [command EXCEPT ![c] = e]
        BY <2>1, <2>2
  <2>6. /\ command' \in [Commands -> Commanded] /\ Only(c) /\ command'[c].pc = "stop"
        /\ command'[c].offer = command[c].offer /\ command'[c].caps = command[c].caps
        /\ command'[c].plan = command[c].plan
        BY <1>1, <2>4, <2>5 DEF UpdateTypes, Only
  <2>7. Sound(c)'
        BY <1>1, <1>2, <2>1, <2>3, <2>6 DEF Sound
  <2> QED
      BY <1>3, <2>1, <2>3, <2>6, <2>7
<1>11. CASE Reinspect(c) /\ ~StillHolds(c)
  <2>1. Ends(c) /\ pending' = pending
        BY <1>11 DEF Reinspect, Ends
  <2> QED
      BY <1>4, <2>1
<1> QED
    BY <1>5, <1>6, <1>7, <1>8, <1>9, <1>10, <1>11

\* A command of an install goes on: the offer, the plan and the capabilities it
\* confirmed stay.
LEMMA GoesOn ==
  ASSUME UpdateInv, NEW c \in Commands, NEW pc \in Holding, To(c, pc),
         command[c].pc \in Holding, pc # "cloned",
         UNCHANGED <<pending, plans>>
  PROVE  command' \in [Commands -> Commanded] /\ Only(c) /\ command'[c].pc = pc /\ CommandInv'
<1>1. UpdateTypes /\ CommandInv /\ Sound(c)
      BY DEF UpdateInv, CommandInv
<1>2. /\ command' \in [Commands -> Commanded] /\ Only(c)
      /\ command'[c].pc = pc /\ command'[c].offer = command[c].offer
      /\ command'[c].caps = command[c].caps /\ command'[c].plan = command[c].plan
      BY <1>1, ToIs, StatesAre
<1>3. Sound(c)'
      BY <1>1, <1>2, StatesAre DEF Sound
<1> QED
    BY <1>1, <1>2, <1>3, CommandsKeep

\* The others do not hold the lock.
LEMMA OthersWait ==
  ASSUME UpdateInv, NEW c \in Commands, command[c].pc \in Holding, Only(c)
  PROVE  \A d \in Commands \ {c} : command'[d].pc \notin Holding
BY DEF UpdateInv, CommandInv, InstallsAreAlone, Only

LEMMA DownStates ==
  {"stop", "shutdown", "locked", "drain", "install", "resume"} \subseteq Holding
BY DEF Holding

\* The books of the admission after a step of the install that holds the lock.
LEMMA HoldingKeeps ==
  ASSUME UpdateInv, exit # "ended", NEW c \in Commands, command[c].pc \in Holding, Only(c),
         UNCHANGED <<call, exit>>, reopened => reopened', Drains(c)',
         reopened' \/ UNCHANGED <<controllerAccepts, coordinatorAccepts>>
         \/ (~coordinatorAccepts' /\ controllerAccepts' = controllerAccepts)
         \/ (~controllerAccepts' /\ coordinatorAccepts' = coordinatorAccepts)
  PROVE  DrainInv'
<1>1. UpdateTypes /\ DrainInv /\ InFlight' = InFlight /\ Active' = Active
      BY DEF UpdateInv, InFlight, Active
<1>2. \A d \in Commands \ {c} : command'[d].pc \notin Holding
      BY OthersWait
<1>3. \A d \in Commands : Drains(d)'
      BY <1>2, DownStates DEF Drains
<1>4. \A k \in Calls : call'[k] # "cut" /\ (call'[k] = "accepted" => k \in Tracked)
      BY <1>1, NobodyIsCut
<1>5. /\ reopened' \/ (exit \in {"shutdown", "locked", "drain"} => ~coordinatorAccepts')
      /\ reopened' \/ (exit \in {"locked", "drain"} => ~controllerAccepts')
      /\ reopened' \/ (exit = "drain" => InFlight' = {})
      BY <1>1 DEF DrainInv, ExitDrains
<1>6. InstallDrains'
      BY <1>3 DEF InstallDrains, Drains
<1>7. ExitDrains'
      BY <1>5 DEF ExitDrains
<1>8. CallsEndWithTheProcess' /\ CallsAreNotCut'
      BY <1>4 DEF CallsEndWithTheProcess, CallsAreNotCut
<1> QED
    BY <1>6, <1>7, <1>8 DEF DrainInv

\* An install that takes the program down, or gives up and reopens it.
LEMMA LateInstallKeeps ==
  ASSUME UpdateInv, exit # "ended", NEW c \in Commands,
         \/ StopCoordinator(c) \/ StopController(c) \/ ControllerDown(c)
         \/ CoordinatorDrained(c) \/ InstallFails(c) \/ ResumeCoordinator(c)
  PROVE  UpdateInv'
<1>1. UpdateTypes /\ CommandInv /\ DrainInv /\ Sound(c) /\ Drains(c)
      BY DEF UpdateInv, CommandInv, DrainInv, InstallDrains, Drains
<1>2. UNCHANGED <<call, exit, exitReady, forced, pending, plans, caps>>
      BY DEF StopCoordinator, StopController, ControllerDown, CoordinatorDrained,
             InstallFails, ResumeCoordinator, exitVars
<1>3. InFlight' = InFlight /\ Active' = Active
      BY <1>2 DEF InFlight, Active
<1>4. ASSUME NEW pc \in Holding, To(c, pc), command[c].pc \in Holding, pc # "cloned",
             {controllerAccepts', coordinatorAccepts', reopened'} \subseteq BOOLEAN,
             reopened => reopened',
             pc \in {"shutdown", "locked", "drain", "install", "resume"} => ~coordinatorAccepts',
             pc \in {"locked", "drain", "install"} => ~controllerAccepts',
             pc \in {"drain", "install"} => InFlight = {},
             pc = "install" => Active = {},
             reopened' \/ UNCHANGED <<controllerAccepts, coordinatorAccepts>>
             \/ (~coordinatorAccepts' /\ controllerAccepts' = controllerAccepts)
             \/ (~controllerAccepts' /\ coordinatorAccepts' = coordinatorAccepts)
      PROVE  UpdateInv'
  <2>1. /\ command' \in [Commands -> Commanded] /\ Only(c) /\ command'[c].pc = pc
        /\ CommandInv'
        BY <1>2, <1>4, GoesOn
  <2>2. Drains(c)'
        BY <1>3, <1>4, <2>1 DEF Drains
  <2>3. DrainInv'
        BY <1>2, <1>4, <2>1, <2>2, HoldingKeeps
  <2> QED
      BY <1>1, <1>2, <1>4, <2>1, <2>3 DEF UpdateInv, UpdateTypes
<1>5. CASE StopCoordinator(c)
      BY <1>1, <1>4, <1>5, DownStates DEF StopCoordinator, exitVars, UpdateTypes
<1>6. CASE StopController(c)
      BY <1>1, <1>4, <1>6, DownStates DEF StopController, exitVars, UpdateTypes, Drains
<1>7. CASE ControllerDown(c)
      BY <1>1, <1>4, <1>7, DownStates DEF ControllerDown, admissionVars, exitVars, UpdateTypes, Drains
<1>8. CASE CoordinatorDrained(c)
      BY <1>1, <1>4, <1>8, DownStates DEF CoordinatorDrained, admissionVars, exitVars, UpdateTypes, Drains
<1>9. CASE InstallFails(c)
  <2>1. /\ command[c].pc = "install" /\ To(c, "resume") /\ controllerAccepts' = TRUE
        /\ reopened' = (reopened \/ exit # "none") /\ coordinatorAccepts' = coordinatorAccepts
        BY <1>9 DEF InstallFails
  <2>2. command' \in [Commands -> Commanded] /\ Only(c) /\ command'[c].pc = "resume" /\ CommandInv'
        BY <1>2, <2>1, GoesOn, DownStates
  <2>3. \A d \in Commands \ {c} : command'[d].pc \notin Holding
        BY <2>1, <2>2, OthersWait, DownStates
  <2>4. \A d \in Commands : Drains(d)'
        BY <1>1, <2>1, <2>2, <2>3, DownStates DEF Drains
  <2>5. ExitDrains'
        BY <2>1, <1>2 DEF ExitDrains
  <2>6. DrainInv'
        BY <1>1, <1>2, <2>4, <2>5, NobodyIsCut
           DEF DrainInv, InstallDrains, Drains, CallsEndWithTheProcess, CallsAreNotCut
  <2>7. reopened' \in BOOLEAN
        BY <1>1, <2>1 DEF UpdateTypes
  <2> QED
      BY <1>1, <1>2, <2>1, <2>2, <2>6, <2>7 DEF UpdateInv, UpdateTypes
<1>10. CASE ResumeCoordinator(c)
  <2>1. /\ command[c].pc = "resume" /\ Ends(c) /\ coordinatorAccepts' = TRUE
        /\ reopened' = (reopened \/ exit # "none") /\ controllerAccepts' = controllerAccepts
        BY <1>10 DEF ResumeCoordinator
  <2>2. command' \in [Commands -> Commanded] /\ Only(c) /\ command'[c].pc = "idle"
        BY <1>1, <2>1, EndsIs
  <2>3. \A d \in Commands \ {c} : command'[d].pc \notin Holding
        BY <2>1, <2>2, OthersWait, DownStates
  <2>4. \A d \in Commands : Drains(d)'
        BY <2>2, <2>3, DownStates DEF Drains
  <2>5. ExitDrains'
        BY <2>1, <1>2 DEF ExitDrains
  <2>6. DrainInv'
        BY <1>1, <1>2, <2>4, <2>5, NobodyIsCut
           DEF DrainInv, InstallDrains, Drains, CallsEndWithTheProcess, CallsAreNotCut
  <2>7. reopened' \in BOOLEAN
        BY <1>1, <2>1 DEF UpdateTypes
  <2>8. CommandInv'
        BY <1>1, <1>2, <2>2, CommandsKeep, StatesAre DEF Sound
  <2> QED
      BY <1>1, <1>2, <2>1, <2>2, <2>6, <2>7, <2>8 DEF UpdateInv, UpdateTypes
<1> QED
    BY <1>5, <1>6, <1>7, <1>8, <1>9, <1>10

\* Steps that leave the commands alone.
LEMMA CommandsStand ==
  ASSUME CommandInv, UNCHANGED <<command, plans, pending>>
  PROVE  CommandInv'
BY DEF CommandInv, Sound, InstallsAreAlone

\* A call is accepted, begins or ends.
LEMMA CallKeeps ==
  ASSUME UpdateInv, exit # "ended", NEW k \in Calls, CallStep(k)
  PROVE  UpdateInv'
<1>1. /\ UpdateTypes /\ CommandInv /\ DrainInv
      /\ UNCHANGED <<admissionVars, exitVars, commandVars, caps>>
      BY DEF UpdateInv, CallStep, AcceptCall, BeginCall, EndCall
<1>2. PICK state \in CallStates :
        /\ call' = [call EXCEPT ![k] = state] /\ state \notin {"cut", "idle"}
        /\ state = "accepted" => k \in Tracked /\ coordinatorAccepts
        /\ state = "running" => controllerAccepts /\ (k \in Tracked => call[k] = "accepted")
      BY DEF CallStep, AcceptCall, BeginCall, EndCall, CallStates
<1>3. /\ call' \in [Calls -> CallStates] /\ call'[k] = state
      /\ \A l \in Calls \ {k} : call'[l] = call[l]
      BY <1>1, <1>2 DEF UpdateTypes
<1>4. \A l \in Calls : call'[l] # "cut" /\ (call'[l] = "accepted" => l \in Tracked)
      BY <1>1, <1>2, <1>3, NobodyIsCut
<1>5. InFlight = {} /\ ~controllerAccepts => InFlight' = {}
      BY <1>2, <1>3 DEF InFlight
<1>6. Active = {} /\ ~coordinatorAccepts => Active' = {}
      BY <1>2, <1>3, UpdateAssumption DEF Active
<1>7. ASSUME NEW c \in Commands
      PROVE  Drains(c)'
  <2>1. Drains(c) /\ UNCHANGED <<controllerAccepts, coordinatorAccepts, command>>
        BY <1>1 DEF DrainInv, InstallDrains, Drains, admissionVars, commandVars
  <2> QED
      BY <1>5, <1>6, <2>1 DEF Drains
<1>8. ExitDrains'
      BY <1>1, <1>5 DEF DrainInv, ExitDrains, admissionVars, exitVars
<1>9. DrainInv'
      BY <1>1, <1>4, <1>7, <1>8
         DEF DrainInv, InstallDrains, Drains, CallsEndWithTheProcess, CallsAreNotCut
<1>10. UpdateTypes' /\ CommandInv'
      BY <1>1, <1>3, CommandsStand DEF UpdateTypes, admissionVars, exitVars, commandVars
<1> QED
    BY <1>9, <1>10 DEF UpdateInv

\* The process ends.
LEMMA EndKeeps ==
  ASSUME UpdateInv, exit # "ended", exit' = "ended", call' = Cut(call),
         exitReady' \in BOOLEAN, forced' \in BOOLEAN,
         UNCHANGED <<admissionVars, reopened, commandVars, caps>>,
         forced' \/ reopened \/ (InFlight = {} /\ Active = {})
  PROVE  UpdateInv'
<1>1. UpdateTypes /\ CommandInv /\ DrainInv
      BY DEF UpdateInv
<1>2. DrainInv'
      BY <1>1, EndsKeep DEF admissionVars, commandVars
<1>3. CommandInv'
      BY <1>1, CommandsStand DEF commandVars
<1>4. UpdateTypes'
      BY <1>1, CutTypes DEF UpdateTypes, admissionVars, commandVars
<1> QED
    BY <1>2, <1>3, <1>4 DEF UpdateInv

LEMMA HandOverKeeps ==
  ASSUME UpdateInv, exit # "ended", NEW c \in Commands, HandOver(c)
  PROVE  UpdateInv'
<1>1. InFlight = {} /\ Active = {}
      BY DEF HandOver, UpdateInv, DrainInv, InstallDrains
<1>2. forced \in BOOLEAN
      BY DEF UpdateInv, UpdateTypes
<1> QED
    BY <1>1, <1>2, EndKeeps DEF HandOver

\* The exit goes on, with the admission closed in its order.
LEMMA ExitKeeps ==
  ASSUME UpdateInv, exit # "ended", RequestExit \/ ExitStep \/ DrainTimesOut
  PROVE  UpdateInv'
<1>1. UpdateTypes /\ CommandInv /\ DrainInv
      BY DEF UpdateInv
<1>2. forced \in BOOLEAN
      BY <1>1 DEF UpdateTypes
<1>3. ASSUME UNCHANGED <<call, exitReady, forced, reopened, commandVars, caps>>,
             controllerAccepts' \in {controllerAccepts, FALSE},
             coordinatorAccepts' \in {coordinatorAccepts, FALSE},
             exit' \in {"stop", "shutdown", "locked", "drain"},
             ExitDrains'
      PROVE  UpdateInv'
  <2>1. InFlight' = InFlight /\ Active' = Active
        BY <1>3 DEF InFlight, Active
  <2>2. InstallDrains'
        BY <1>1, <1>3, <2>1 DEF DrainInv, InstallDrains, commandVars
  <2>3. CallsEndWithTheProcess' /\ CallsAreNotCut'
        BY <1>1, <1>3, NobodyIsCut DEF CallsEndWithTheProcess, CallsAreNotCut
  <2>4. CommandInv'
        BY <1>1, <1>3, CommandsStand DEF commandVars
  <2>5. UpdateTypes'
        BY <1>1, <1>3 DEF UpdateTypes, commandVars
  <2> QED
      BY <1>3, <2>2, <2>3, <2>4, <2>5 DEF UpdateInv, DrainInv
<1>4. CASE RequestExit
  <2>1. ExitDrains'
        BY <1>4 DEF RequestExit, ExitDrains
  <2> QED
      BY <1>3, <1>4, <2>1 DEF RequestExit, admissionVars
<1>5. CASE ExitStopsCoordinator
  <2>1. ExitDrains'
        BY <1>5 DEF ExitStopsCoordinator, ExitDrains
  <2> QED
      BY <1>3, <1>5, <2>1 DEF ExitStopsCoordinator
<1>6. CASE ExitStopsController
  <2>1. ExitDrains'
        BY <1>1, <1>6 DEF ExitStopsController, ExitDrains, DrainInv
  <2> QED
      BY <1>3, <1>6, <2>1 DEF ExitStopsController
<1>7. CASE ExitControllerDown
  <2>1. InFlight' = {}
        BY <1>7 DEF ExitControllerDown, InFlight
  <2>2. ExitDrains'
        BY <1>1, <1>7, <2>1 DEF ExitControllerDown, ExitDrains, DrainInv, admissionVars
  <2> QED
      BY <1>3, <1>7, <2>2 DEF ExitControllerDown, admissionVars
<1>8. CASE FinalizeExit
  <2>1. reopened \/ (InFlight = {} /\ Active = {})
        BY <1>1, <1>8 DEF FinalizeExit, Drained, DrainInv, ExitDrains
  <2> QED
      BY <1>2, <1>8, <2>1, EndKeeps DEF FinalizeExit
<1>9. CASE DrainTimesOut
      BY <1>9, EndKeeps DEF DrainTimesOut
<1> QED
    BY <1>4, <1>5, <1>6, <1>7, <1>8, <1>9 DEF ExitStep

\* Nothing of the update changes but what is on disk.
LEMMA UpdateStands ==
  ASSUME UpdateInv, UNCHANGED <<admissionVars, call, exitVars, commandVars>>, caps' \in Caps
  PROVE  UpdateInv'
<1>1. UpdateTypes /\ CommandInv /\ DrainInv /\ InFlight' = InFlight /\ Active' = Active
      BY DEF UpdateInv, InFlight, Active
<1>2. UpdateTypes' /\ CommandInv'
      BY <1>1, CommandsStand DEF UpdateTypes, admissionVars, exitVars, commandVars
<1>3. DrainInv'
      BY <1>1 DEF DrainInv, InstallDrains, ExitDrains, CallsEndWithTheProcess, CallsAreNotCut,
                  admissionVars, exitVars, commandVars
<1> QED
    BY <1>2, <1>3 DEF UpdateInv

\* A new process.
LEMMA NewKeeps ==
  ASSUME UpdateInv, NewProcess
  PROVE  UpdateInv'
<1>1. /\ controllerAccepts' = TRUE /\ coordinatorAccepts' = TRUE
      /\ call' = [k \in Calls |-> "idle"] /\ exit' = "none" /\ exitReady' = FALSE
      /\ forced' = FALSE /\ reopened' = FALSE /\ command' = [c \in Commands |-> Idle]
      /\ pending' = None /\ plans' = {} /\ caps' = caps
      BY DEF NewProcess
<1>2. "idle" \in CallStates
      BY DEF CallStates
<1>3. \A k \in Calls : call'[k] = "idle"
      BY <1>1
<1>4. \A c \in Commands : command'[c] = Idle /\ command'[c].pc = "idle"
      BY <1>1, IdleIs
<1>5. UpdateTypes'
      BY <1>1, <1>2, IdleIs DEF UpdateInv, UpdateTypes
<1>6. CommandInv'
      BY <1>4, StatesAre DEF CommandInv, Sound, InstallsAreAlone
<1>7. InstallDrains'
      BY <1>4 DEF InstallDrains
<1>8. ExitDrains'
      BY <1>1 DEF ExitDrains
<1>9. CallsEndWithTheProcess' /\ CallsAreNotCut'
      BY <1>1, <1>3 DEF CallsEndWithTheProcess, CallsAreNotCut
<1> QED
    BY <1>5, <1>6, <1>7, <1>8, <1>9 DEF UpdateInv, DrainInv

-----------------------------------------------------------------------------
(* The composition.                                                        *)

\* A process that has ended is not running.
EndIsOff == exit = "ended" => life = "off"

LEMMA NextUpdates ==
  ASSUME UpdateInv, EndIsOff, [Next]_vars
  PROVE  UpdateInv' /\ EndIsOff'
<1>1. CASE StartProcess
  <2>1. exit' = "none"
        BY <1>1 DEF StartProcess, NewProcess
  <2> QED
      BY <1>1, <2>1, NewKeeps DEF StartProcess, EndIsOff
<1>2. CASE (StartupStep \/ SurfaceStep) /\ UNCHANGED updateVars
  <2>1. UpdateInv'
        BY <1>2, UpdateStands DEF updateVars, UpdateInv, UpdateTypes
  <2>2. EndIsOff'
        BY <1>2 DEF EndIsOff, updateVars, exitVars, StartupStep, SurfaceStep, Enter, BuildShell,
                    Running, StageFails, Panics, FrontendReady, ResolveMarker, WatchdogFires,
                    ShowControl, CloseBusiness, OpenBusiness, processVars
  <2> QED
      BY <2>1, <2>2
<1>3. CASE RunningStep
  <2>1. exit # "ended"
        BY <1>3 DEF RunningStep, EndIsOff
  <2>2. EndIsOff'
        BY <1>3 DEF RunningStep, EndIsOff
  <2>3. UpdateNext \/ ExitStep \/ DrainTimesOut
        BY <1>3 DEF RunningStep
  <2>4. ASSUME ChangeCapabilities
        PROVE  UpdateInv'
        BY <2>4, UpdateStands DEF ChangeCapabilities
  <2>5. ASSUME NEW c \in Commands, InstallStep(c)
        PROVE  UpdateInv'
        BY <2>1, <2>5, EarlyInstallKeeps, LateInstallKeeps, HandOverKeeps DEF InstallStep
  <2> QED
      BY <2>1, <2>2, <2>3, <2>4, <2>5, CallKeeps, CheckKeeps, EarlyInstallKeeps, ExitKeeps
         DEF UpdateNext
<1>4. CASE AskExit
  <2>1. exit # "ended" /\ exit' = "stop" /\ RequestExit
        BY <1>4 DEF AskExit, RequestExit
  <2> QED
      BY <2>1, ExitKeeps DEF EndIsOff
<1>5. CASE CloseControlWindow
  <2>1. UpdateInv'
        BY <1>5, UpdateStands DEF CloseControlWindow, updateVars, UpdateInv, UpdateTypes
  <2>2. EndIsOff'
        BY <1>5 DEF EndIsOff, CloseControlWindow, CloseControl, updateVars, exitVars, processVars
  <2> QED
      BY <2>1, <2>2
<1>6. CASE Terminated
  <2>1. life' = "off" /\ exit' = "ended" /\ forced' = TRUE /\ call' = Cut(call)
        BY <1>6 DEF Terminated, Gone
  <2>2. UpdateInv'
    <3>1. CASE exit # "ended"
      <4>1. exitReady \in BOOLEAN
            BY DEF UpdateInv, UpdateTypes
      <4> QED
          BY <1>6, <2>1, <3>1, <4>1, EndKeeps DEF Terminated
    <3>2. CASE exit = "ended"
      <4>1. \A k \in Calls : call'[k] \notin {"accepted", "running"}
            BY <2>1 DEF Cut
      <4>2. InFlight' = {} /\ Active' = {}
            BY <4>1, UpdateAssumption DEF InFlight, Active
      <4>3. UpdateTypes' /\ CommandInv'
            BY <1>6, <2>1, CutTypes, CommandsStand
               DEF Terminated, UpdateInv, UpdateTypes, admissionVars, commandVars
      <4>4. InstallDrains' /\ ExitDrains'
            BY <1>6, <2>1, <4>2
               DEF Terminated, UpdateInv, DrainInv, InstallDrains, ExitDrains,
                   admissionVars, commandVars
      <4>5. CallsEndWithTheProcess' /\ CallsAreNotCut'
            BY <2>1, <4>1 DEF CallsEndWithTheProcess, CallsAreNotCut
      <4> QED
          BY <4>3, <4>4, <4>5 DEF UpdateInv, DrainInv
    <3> QED
        BY <3>1, <3>2
  <2> QED
      BY <2>1, <2>2 DEF EndIsOff
<1>7. CASE UNCHANGED vars
  <2>1. UpdateInv'
        BY <1>7, UpdateStands DEF vars, updateVars, UpdateInv, UpdateTypes
  <2> QED
      BY <1>7, <2>1 DEF EndIsOff, vars, startupVars, processVars, updateVars, exitVars
<1> QED
    BY <1>1, <1>2, <1>3, <1>4, <1>5, <1>6, <1>7 DEF Next

-----------------------------------------------------------------------------
(* The theorems.                                                           *)

LEMMA InitInv == Init => StartInv /\ UpdateInv /\ EndIsOff
<1> SUFFICES ASSUME Init
             PROVE  StartInv /\ UpdateInv /\ EndIsOff
    OBVIOUS
<1>1. StartInv
  <2>1. 1 \in 1..Last /\ 0 \in 0..0 /\ 0 \in 0..MaxSignals
        BY StagesAre, StartupAssumption
  <2>2. NoMarker \in [code : Codes, resolved : BOOLEAN]
        BY DEF NoMarker, Codes
  <2>3. StartTypes
        BY <2>1, <2>2 DEF Init, StartupInit, StartTypes
  <2> QED
      BY <2>3 DEF StartInv, Init, StartupInit, StartIsOrderly, StartIsTold, SurfacesAreLeft
<1>2. UpdateInv
  <2>1. /\ call = [k \in Calls |-> "idle"] /\ command = [c \in Commands |-> Idle]
        /\ exit = "none" /\ pending = None /\ plans = {} /\ reopened = FALSE
        BY DEF Init, UpdateInit
  <2>2. "idle" \in CallStates
        BY DEF CallStates
  <2>3. UpdateTypes
        BY <2>1, <2>2, IdleIs DEF Init, UpdateInit, UpdateTypes
  <2>4. \A c \in Commands : command[c].pc = "idle"
        BY <2>1, IdleIs
  <2>5. CommandInv
        BY <2>4, StatesAre DEF CommandInv, Sound, InstallsAreAlone
  <2>6. DrainInv
        BY <2>1, <2>4 DEF DrainInv, InstallDrains, ExitDrains, CallsEndWithTheProcess, CallsAreNotCut
  <2> QED
      BY <2>3, <2>5, <2>6 DEF UpdateInv
<1>3. EndIsOff
      BY DEF Init, UpdateInit, EndIsOff
<1> QED
    BY <1>1, <1>2, <1>3

\* One command at most holds the lock of the install.
LEMMA OneInstall ==
  ASSUME InstallsAreAlone
  PROVE  Cardinality({c \in Commands : command[c].pc \in Holding}) <= 1
<1> DEFINE H == {c \in Commands : command[c].pc \in Holding}
<1>1. CASE H = {}
      BY <1>1, FS_EmptySet
<1>2. CASE H # {}
  <2>1. PICK c \in H : TRUE
        BY <1>2
  <2>2. H = {c}
        BY <2>1 DEF InstallsAreAlone
  <2> QED
      BY <2>2, FS_Singleton
<1> QED
    BY <1>1, <1>2

\* The three parts, which every step preserves, are the invariant TLC checks.
LEMMA PartsAreAll == StartInv /\ UpdateInv /\ EndIsOff => IInv
<1> SUFFICES ASSUME StartInv, UpdateInv, EndIsOff
             PROVE  IInv
    OBVIOUS
<1>1. TypeOK
      BY TypesAre DEF StartInv, UpdateInv, EndIsOff
<1>2. AlwaysReachable
      BY DEF StartInv, StartTypes, SurfacesAreLeft, AlwaysReachable, LastWindowGone
<1>3. InstallsAreConfirmed
      BY OneInstall DEF UpdateInv, CommandInv, Sound, InstallsAreConfirmed
<1>4. InstallsAreAlone /\ OffersAreConsumed
      BY DEF UpdateInv, CommandInv, Sound, OffersAreConsumed
<1> QED
    BY <1>1, <1>2, <1>3, <1>4 DEF IInv, StartInv, UpdateInv, DrainInv

\* The invariant of the process.
THEOREM Invariance == Spec => []IInv
<1> DEFINE Parts == StartInv /\ UpdateInv /\ EndIsOff
<1>1. Init => Parts
      BY InitInv
<1>2. Parts /\ [Next]_vars => Parts'
      BY NextStarts, NextUpdates
<1>3. Parts => IInv
      BY PartsAreAll
<1> HIDE DEF Parts
<1> QED
    BY <1>1, <1>2, <1>3, PTL DEF Spec

\* A start that fails before the event loop is entered has told the user and,
\* where it could be written, the file of the failed stage; what a page that is
\* late or ready makes of the file; and a running program has a window, a tray,
\* or is on its way out.
THEOREM StartsAreTold == Spec => []StartsReachTheUser
<1>1. IInv => StartsReachTheUser
      BY DEF IInv, StartsReachTheUser
<1> QED
    BY Invariance, <1>1, PTL

\* What an update installs was confirmed as it is, and neither an installer
\* nor an exit cuts off a native call unless its time limit forced it, or a
\* failed install let calls in again during the exit.
THEOREM UpdatesAndExits == Spec => []UpdatesAreOrderly
<1>1. IInv => UpdatesAreOrderly
      BY DEF IInv, UpdatesAreOrderly
<1> QED
    BY Invariance, <1>1, PTL

=============================================================================
