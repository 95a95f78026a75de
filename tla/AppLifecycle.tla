---------------------------- MODULE AppLifecycle ----------------------------
(***************************************************************************)
(* The life of the desktop process: AppStartup up to its first surface,    *)
(* AppUpdate while it runs, and its ends: an exit that is asked for, the   *)
(* installer of an update, a start that fails, a termination from outside. *)
(***************************************************************************)
EXTENDS AppStartup, AppUpdate

vars == <<startupVars, updateVars>>

\* A new process accepts calls and knows nothing of an update.
NewProcess ==
    /\ controllerAccepts' = TRUE /\ coordinatorAccepts' = TRUE
    /\ call' = [k \in Calls |-> "idle"]
    /\ exit' = "none" /\ exitReady' = FALSE /\ forced' = FALSE /\ reopened' = FALSE
    /\ command' = [c \in Commands |-> Idle]
    /\ pending' = None /\ plans' = {} /\ begun' = 0
    /\ UNCHANGED <<caps, edits>>

StartProcess == Start /\ (begun = 0 /\ edits = 0) /\ NewProcess

\* Bound: the calls and commands are followed in one process, whose start met
\* no fault and whose page is ready; nothing they do reads how it started.
Settled == lives = 1 /\ faults = 0 /\ marker = NoMarker
           /\ frontend = "Ready" /\ resolving = 0 /\ signals = 1 /\ watchdog = "fired" /\ logDir
           /\ tray /\ control = "shown" /\ business
Untouched == begun = 0 /\ edits = 0 /\ \A k \in Calls : call[k] = "idle"

\* A step of the update or of the exit; the one that ends the exit ends the
\* process.
RunningStep ==
    /\ life = "running" /\ ((Settled /\ UpdateNext) \/ ExitStep \/ DrainTimesOut)
    /\ life' = IF exit' = "ended" THEN "off" ELSE "running"
    /\ UNCHANGED <<at, complete, reported, logDir, told, marker, frontendVars,
                   surfaceVars, lives, faults>>

\* Exit from the tray, from the system, or because the last window is gone:
\* the business windows are destroyed first, as far as that succeeds.
AskExit ==
    /\ life = "running" /\ RequestExit
    /\ business' \in {FALSE, business}
    /\ UNCHANGED <<processVars, marker, frontendVars, tray, control, lives, faults>>

CloseControlWindow == CloseControl(exitReady) /\ Untouched /\ UNCHANGED updateVars

Terminated == Gone /\ call' = Cut(call) /\ exit' = "ended" /\ forced' = TRUE
              /\ UNCHANGED <<admissionVars, exitReady, reopened, commandVars, caps, edits>>

Init == StartupInit /\ UpdateInit

Next ==
    \/ StartProcess
    \/ StartupStep /\ Untouched /\ UNCHANGED updateVars
    \/ SurfaceStep /\ Untouched /\ UNCHANGED updateVars
    \/ RunningStep
    \/ AskExit
    \/ CloseControlWindow
    \/ Terminated

\* The runtime runs its tasks, native calls end (their worker has a time
\* limit), the time limit of the drain is real, and the framework asks to
\* exit when the last window is gone.
Fairness ==
    /\ WF_vars((\E k \in Calls : BeginCall(k) \/ EndCall(k)) /\ RunningStep)
    /\ WF_vars((\E c \in Commands : InstallStep(c)) /\ RunningStep)
    /\ WF_vars((ExitStep \/ DrainTimesOut) /\ RunningStep)
    /\ WF_vars(LastWindowGone /\ AskExit)

Spec == Init /\ [][Next]_vars
FairSpec == Spec /\ Fairness

-----------------------------------------------------------------------------
CallStates == {"idle", "accepted", "running", "answered", "refused", "cut"}
CommandStates == {"idle", "asking", "offered", "confirm"} \cup Holding
PlansOf == [offer : Offers, caps : Caps]
Codes == {"none", "frontend-startup-timeout"} \cup {Failure(Stages[i]) : i \in 1..Last}

TypeOK ==
    /\ life \in {"off", "starting", "running", "failed"} /\ at \in 1..Last
    /\ {complete, reported, logDir, told} \subseteq BOOLEAN
    /\ marker \in [code : Codes, resolved : BOOLEAN] /\ faults \in Nat
    /\ frontend \in {"Waiting", "Ready", "TimedOut", "Recovered"}
    /\ resolving \in 0..signals /\ signals \in 0..MaxSignals
    /\ control \in {"none", "hidden", "shown", "closed"} /\ {tray, business} \subseteq BOOLEAN
    /\ {controllerAccepts, coordinatorAccepts, exitReady, forced, reopened} \subseteq BOOLEAN
    /\ call \in [Calls -> CallStates]
    /\ command \in [Commands -> [pc : CommandStates, offer : Offers \cup {None},
                                 caps : Caps \cup {None}, plan : PlansOf \cup {None}]]
    /\ plans \subseteq PlansOf
    /\ pending \in Offers \cup {None} /\ caps \in Caps
    /\ exit \in {"none", "stop", "shutdown", "locked", "drain", "ended"}
    /\ exit = "ended" => life = "off"

\* The user can always reach a running program: some window is shown, or
\* the tray can show one, or the program is on its way out.
AlwaysReachable ==
    life = "running" /\ ~LastWindowGone /\ exit = "none" =>
        tray \/ control = "shown" \/ business

(***************************************************************************)
(* Every exit that was asked for ends the process; a program whose last    *)
(* window is gone exits; and an update that has stopped the calls either   *)
(* ends the process or lets both layers accept calls again.                *)
(***************************************************************************)
Accepting == controllerAccepts /\ coordinatorAccepts

LifecycleEnds ==
    /\ (life = "running" /\ (exit # "none" \/ LastWindowGone)) ~> (life # "running")
    /\ (life = "running" /\ \E c \in Commands : command[c].pc = "shutdown")
           ~> (life # "running" \/ exit # "none" \/ Accepting)

\* The user learns how a start ended, as far as StartIsTold says, and has a
\* way to the program after it.
StartsReachTheUser == TypeOK /\ StartIsTold /\ AlwaysReachable

\* An update replaces the program only as it was confirmed, and neither it nor
\* an exit cuts off a native call.
UpdatesAreOrderly == InstallsAreConfirmed /\ CallsAreNotCut

-----------------------------------------------------------------------------
\* What these rest on.  A running program has a control window or had one; it
\* is hidden only when a tray can show it, and shown where nothing else is.
SurfacesAreLeft ==
    /\ life = "running" => control # "none"
    /\ control = "hidden" => tray
    /\ life = "starting" /\ control # "none" => tray \/ control = "shown"

IInv ==
    /\ TypeOK /\ StartIsOrderly /\ StartIsTold /\ SurfacesAreLeft /\ AlwaysReachable
    /\ InstallsAreConfirmed /\ InstallsAreAlone /\ OffersAreConsumed /\ InstallDrains
    /\ ExitDrains /\ CallsEndWithTheProcess /\ CallsAreNotCut

=============================================================================
