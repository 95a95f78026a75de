------------------------------ MODULE AppUpdate ------------------------------
(***************************************************************************)
(* Update and exit of a running desktop (apps/desktop/src-tauri/src/       *)
(* app_update.rs and desktop.rs, ExitLifecycle to request_graceful_exit).  *)
(* Both close the admission of native calls, wait for the calls that have  *)
(* begun and end the process; an update whose installer does not start     *)
(* opens the admission again. The update itself is confirmed in two        *)
(* commands: a check offers a plan that binds the offer and the state of   *)
(* all capabilities, an install must present it.                           *)
(*                                                                         *)
(* Controller.tla and Coordinator.tla hold the details of admission; here  *)
(* a call is refused, or it begins and ends.                               *)
(***************************************************************************)
EXTENDS Naturals, FiniteSets

CONSTANTS
    Calls,        \* native calls of the business pages
    Tracked,      \* the ones that pass the invocation coordinator
    Commands,     \* commands of the control window
    Offers,       \* updates the server may offer
    Caps,         \* states of the plugin and mapping directories
    Blocking,     \* Caps with a plugin that does not allow the target version
    None,
    MaxCommands,  \* bound: commands begun
    MaxEdits      \* bound: changes of the directories from outside

ASSUME UpdateAssumption == Tracked \subseteq Calls /\ Blocking \subseteq Caps

VARIABLES
    controllerAccepts, coordinatorAccepts,   \* admission, in both layers
    call,          \* Calls -> "idle", "accepted", "running", "answered", "refused", "cut"
    exit,          \* request_graceful_exit: "none", "stop", "shutdown", "locked", "drain", "ended"
    exitReady,     \* ExitLifecycle.ready
    forced,        \* the drain of the exit ran into its time limit or panicked
    reopened,      \* a failed install opened the admission during the exit
    command,       \* Commands -> the command's progress
    pending,       \* AppUpdateState.pending
    caps,          \* the capabilities on disk
    plans,         \* plans the console has been given
    begun, edits

admissionVars == <<controllerAccepts, coordinatorAccepts>>
exitVars == <<exit, exitReady, forced, reopened>>
commandVars == <<command, pending, plans, begun>>
updateVars == <<admissionVars, call, exitVars, commandVars, caps, edits>>

Idle == [pc |-> "idle", offer |-> None, caps |-> None, plan |-> None]
Plan(offer, state) == [offer |-> offer, caps |-> state]

\* The commands that hold install_lock.
Holding == {"cloned", "download", "verified", "stop", "shutdown", "locked", "drain", "install", "resume"}
LockFree == \A c \in Commands : command[c].pc \notin Holding
To(c, pc) == command' = [command EXCEPT ![c].pc = pc]
Ends(c) == command' = [command EXCEPT ![c] = Idle]

-----------------------------------------------------------------------------
(***************************************************************************)
(* Native calls. A tracked call is counted by the coordinator before the   *)
(* controller admits or refuses it; exiting cuts whatever is not answered. *)
(***************************************************************************)
Active == {k \in Tracked : call[k] \in {"accepted", "running"}}
InFlight == {k \in Calls : call[k] = "running"}

AcceptCall(k) ==
    /\ k \in Tracked /\ call[k] = "idle"
    /\ call' = [call EXCEPT ![k] = IF coordinatorAccepts THEN "accepted" ELSE "refused"]
    /\ UNCHANGED <<admissionVars, exitVars, commandVars, caps, edits>>

BeginCall(k) ==
    /\ call[k] = IF k \in Tracked THEN "accepted" ELSE "idle"
    /\ call' = [call EXCEPT ![k] = IF controllerAccepts THEN "running" ELSE "refused"]
    /\ UNCHANGED <<admissionVars, exitVars, commandVars, caps, edits>>

EndCall(k) ==
    /\ call[k] = "running"
    /\ call' = [call EXCEPT ![k] = "answered"]
    /\ UNCHANGED <<admissionVars, exitVars, commandVars, caps, edits>>

\* What the end of the process does to them.
Cut(calls) == [k \in Calls |-> IF calls[k] \in {"accepted", "running"} THEN "cut" ELSE calls[k]]

-----------------------------------------------------------------------------
(***************************************************************************)
(* check_app_update: the previous offer is cleared at once, outside the    *)
(* install lock; the server is asked; the answer is judged under the lock. *)
(***************************************************************************)
BeginCheck(c) ==
    /\ command[c].pc = "idle" /\ begun < MaxCommands
    /\ pending' = None
    /\ To(c, "asking") /\ begun' = begun + 1
    /\ UNCHANGED <<admissionVars, call, exitVars, plans, caps, edits>>

CheckFails(c) ==
    /\ command[c].pc = "asking"
    /\ Ends(c)
    /\ UNCHANGED <<admissionVars, call, exitVars, pending, plans, begun, caps, edits>>

NothingOffered(c) ==
    /\ command[c].pc = "asking"
    /\ pending' = None /\ Ends(c)
    /\ UNCHANGED <<admissionVars, call, exitVars, plans, begun, caps, edits>>

Offered(c) ==
    /\ command[c].pc = "asking"
    /\ \E offer \in Offers : command' = [command EXCEPT ![c].pc = "offered", ![c].offer = offer]
    /\ UNCHANGED <<admissionVars, call, exitVars, pending, plans, begun, caps, edits>>

AnswerCheck(c) ==
    /\ command[c].pc = "offered" /\ LockFree
    /\ pending' = command[c].offer
    /\ plans' = plans \cup (IF caps \in Blocking THEN {} ELSE {Plan(command[c].offer, caps)})
    /\ Ends(c)
    /\ UNCHANGED <<admissionVars, call, exitVars, begun, caps, edits>>

(***************************************************************************)
(* install_app_update, under the install lock throughout.                  *)
(***************************************************************************)
BeginInstall(c) ==
    /\ command[c].pc = "idle" /\ begun < MaxCommands
    /\ \E plan \in plans :
         command' = [command EXCEPT ![c].pc = "confirm", ![c].plan = plan]
    /\ begun' = begun + 1
    /\ UNCHANGED <<admissionVars, call, exitVars, pending, plans, caps, edits>>

\* The offer is read, the capabilities are inspected, the plan is compared.
PlanHolds(c) == pending # None /\ caps \notin Blocking /\ command[c].plan = Plan(pending, caps)

Confirm(c) ==
    /\ command[c].pc = "confirm" /\ LockFree
    /\ command' = IF PlanHolds(c)
         THEN [command EXCEPT ![c].pc = "cloned", ![c].offer = pending, ![c].caps = caps]
         ELSE [command EXCEPT ![c] = Idle]
    /\ UNCHANGED <<admissionVars, call, exitVars, pending, plans, begun, caps, edits>>

\* The offer is consumed; a check may have cleared it in between.
Take(c) ==
    /\ command[c].pc = "cloned"
    /\ command' = IF pending = None THEN [command EXCEPT ![c] = Idle]
                  ELSE [command EXCEPT ![c].pc = "download", ![c].offer = pending]
    /\ pending' = None
    /\ UNCHANGED <<admissionVars, call, exitVars, plans, begun, caps, edits>>

Download(c) ==
    /\ command[c].pc = "download"
    /\ To(c, "verified") \/ Ends(c)
    /\ UNCHANGED <<admissionVars, call, exitVars, pending, plans, begun, caps, edits>>

\* The capabilities are inspected again before anything is stopped.
StillCompatible(c) == caps \notin Blocking    \* mutant: the digest is not compared
StillHolds(c) == caps \notin Blocking /\ caps = command[c].caps

Reinspect(c) ==
    /\ command[c].pc = "verified"
    /\ command' = IF StillHolds(c)
         THEN [command EXCEPT ![c].pc = "stop", ![c].caps = caps]
         ELSE [command EXCEPT ![c] = Idle]
    /\ UNCHANGED <<admissionVars, call, exitVars, pending, plans, begun, caps, edits>>

StopCoordinator(c) ==
    /\ command[c].pc = "stop"
    /\ coordinatorAccepts' = FALSE /\ To(c, "shutdown")
    /\ UNCHANGED <<controllerAccepts, call, exitVars, pending, plans, begun, caps, edits>>

StopController(c) ==
    /\ command[c].pc = "shutdown"
    /\ controllerAccepts' = FALSE /\ To(c, "locked")
    /\ UNCHANGED <<coordinatorAccepts, call, exitVars, pending, plans, begun, caps, edits>>

\* The lifecycle lock is got when no call holds it.
ControllerDown(c) ==
    /\ command[c].pc = "locked" /\ InFlight = {}
    /\ To(c, "drain")
    /\ UNCHANGED <<admissionVars, call, exitVars, pending, plans, begun, caps, edits>>

CoordinatorDrained(c) ==
    /\ command[c].pc = "drain" /\ Active = {}
    /\ To(c, "install")
    /\ UNCHANGED <<admissionVars, call, exitVars, pending, plans, begun, caps, edits>>

\* update.install failed: the controller accepts again, then the coordinator.
InstallFails(c) ==
    /\ command[c].pc = "install" /\ InFlight = {}
    /\ controllerAccepts' = TRUE /\ reopened' = (reopened \/ exit # "none")
    /\ To(c, "resume")
    /\ UNCHANGED <<coordinatorAccepts, call, exit, exitReady, forced, pending, plans, begun, caps, edits>>

ResumeCoordinator(c) ==
    /\ command[c].pc = "resume"
    /\ coordinatorAccepts' = TRUE /\ reopened' = (reopened \/ exit # "none")
    /\ Ends(c)
    /\ UNCHANGED <<controllerAccepts, call, exit, exitReady, forced, pending, plans, begun, caps, edits>>

\* The installer took over: the exit is allowed and the process ends.
HandOver(c) ==
    /\ command[c].pc = "install"
    /\ exitReady' = TRUE /\ exit' = "ended"
    /\ call' = Cut(call)
    /\ UNCHANGED <<admissionVars, forced, reopened, commandVars, caps, edits>>

-----------------------------------------------------------------------------
(***************************************************************************)
(* request_graceful_exit: only the first request starts the drain, which   *)
(* does not take the install lock and has a time limit; the guard ends the *)
(* process even when the task panics.                                      *)
(***************************************************************************)
\* Mutant: every request starts the drain again.
RequestExitAgain ==
    /\ exit # "ended"
    /\ exit' = "stop"
    /\ UNCHANGED <<admissionVars, call, exitReady, forced, reopened, commandVars, caps, edits>>

RequestExit ==
    /\ exit = "none"
    /\ exit' = "stop"
    /\ UNCHANGED <<admissionVars, call, exitReady, forced, reopened, commandVars, caps, edits>>

ExitStopsCoordinator ==
    /\ exit = "stop"
    /\ coordinatorAccepts' = FALSE /\ exit' = "shutdown"
    /\ UNCHANGED <<controllerAccepts, call, exitReady, forced, reopened, commandVars, caps, edits>>

ExitStopsController ==
    /\ exit = "shutdown"
    /\ controllerAccepts' = FALSE /\ exit' = "locked"
    /\ UNCHANGED <<coordinatorAccepts, call, exitReady, forced, reopened, commandVars, caps, edits>>

ExitControllerDown ==
    /\ exit = "locked" /\ InFlight = {}
    /\ exit' = "drain"
    /\ UNCHANGED <<admissionVars, call, exitReady, forced, reopened, commandVars, caps, edits>>

Drained == Active = {}

FinalizeExit ==
    /\ exit = "drain" /\ Drained
    /\ exitReady' = TRUE /\ exit' = "ended"
    /\ call' = Cut(call)
    /\ UNCHANGED <<admissionVars, forced, reopened, commandVars, caps, edits>>

DrainTimesOut ==
    /\ exit \in {"stop", "shutdown", "locked", "drain"}
    /\ exitReady' = TRUE /\ exit' = "ended" /\ forced' = TRUE
    /\ call' = Cut(call)
    /\ UNCHANGED <<admissionVars, reopened, commandVars, caps, edits>>

\* Somebody, or another command under the install lock, changes the plugins.
ChangeCapabilities ==
    /\ edits < MaxEdits
    /\ caps' \in Caps \ {caps} /\ edits' = edits + 1
    /\ UNCHANGED <<admissionVars, call, exitVars, commandVars>>

-----------------------------------------------------------------------------
UpdateInit ==
    /\ controllerAccepts = TRUE /\ coordinatorAccepts = TRUE
    /\ call = [k \in Calls |-> "idle"]
    /\ exit = "none" /\ exitReady = FALSE /\ forced = FALSE /\ reopened = FALSE
    /\ command = [c \in Commands |-> Idle]
    /\ pending = None /\ plans = {} /\ begun = 0 /\ edits = 0
    /\ caps \in Caps

CallStep(k) == AcceptCall(k) \/ BeginCall(k) \/ EndCall(k)
CheckStep(c) == CheckFails(c) \/ NothingOffered(c) \/ Offered(c) \/ AnswerCheck(c)
InstallStep(c) ==
    \/ Confirm(c) \/ Take(c) \/ Download(c) \/ Reinspect(c) \/ StopCoordinator(c)
    \/ StopController(c) \/ ControllerDown(c) \/ CoordinatorDrained(c)
    \/ InstallFails(c) \/ ResumeCoordinator(c) \/ HandOver(c)
ExitStep == ExitStopsCoordinator \/ ExitStopsController \/ ExitControllerDown \/ FinalizeExit

UpdateNext ==
    \/ \E k \in Calls : CallStep(k)
    \/ \E c \in Commands : BeginCheck(c) \/ CheckStep(c) \/ BeginInstall(c) \/ InstallStep(c)
    \/ ExitStep \/ DrainTimesOut \/ ChangeCapabilities

-----------------------------------------------------------------------------
(***************************************************************************)
(* What is installed was confirmed: from the moment the old version is     *)
(* taken down, the offer that is installed and the capabilities it was     *)
(* checked against are those of the plan the user confirmed, no capability *)
(* that blocks the new version was among them, the offer has been consumed *)
(* (a second confirmation of the same plan needs a new check), and one     *)
(* install at a time holds the lock.                                       *)
(***************************************************************************)
InstallsAreConfirmed ==
    /\ \A c \in Commands : command[c].pc \in Holding =>
         /\ command[c].plan \in plans
         /\ command[c].plan = Plan(command[c].offer, command[c].caps)
         /\ command[c].caps \notin Blocking
    /\ Cardinality({c \in Commands : command[c].pc \in Holding}) <= 1

\* No native call is cut off by an exit, or by an installer, that was not
\* forced by its time limit, unless a failed install opened the admission
\* while the exit was draining.
CallsAreNotCut ==
    exit = "ended" /\ (\E k \in Calls : call[k] = "cut") => forced \/ reopened

(***************************************************************************)
(* What these rest on. One install at a time holds the lock; an offer that *)
(* it has read is taken as it was, or cleared; a command that waits for    *)
(* the lock presents a plan that was given.                                *)
(***************************************************************************)
InstallsAreAlone ==
    \A c, d \in Commands : command[c].pc \in Holding /\ command[d].pc \in Holding => c = d

OffersAreConsumed ==
    \A c \in Commands :
      /\ command[c].pc = "offered" => command[c].offer \in Offers
      /\ command[c].pc = "confirm" => command[c].plan \in plans
      /\ command[c].pc = "cloned" => pending \in {None, command[c].offer}

\* Whoever takes the program down has closed the admission, in both layers and
\* in the code's order, before the calls are waited for.
InstallDrains ==
    \A c \in Commands :
      /\ command[c].pc \in {"shutdown", "locked", "drain", "install", "resume"} => ~coordinatorAccepts
      /\ command[c].pc \in {"locked", "drain", "install"} => ~controllerAccepts
      /\ command[c].pc \in {"drain", "install"} => InFlight = {}
      /\ command[c].pc = "install" => Active = {}

ExitDrains ==
    reopened \/
      /\ exit \in {"shutdown", "locked", "drain"} => ~coordinatorAccepts
      /\ exit \in {"locked", "drain"} => ~controllerAccepts
      /\ exit = "drain" => InFlight = {}

\* Calls are cut by the end of the process alone.
CallsEndWithTheProcess ==
    \A k \in Calls :
      /\ call[k] = "accepted" => k \in Tracked
      /\ call[k] = "cut" => exit = "ended"
=============================================================================
