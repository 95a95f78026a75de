----------------------------- MODULE AppStartup -----------------------------
(***************************************************************************)
(* From the start of the process to a surface the user can work with       *)
(* (apps/desktop/src-tauri/src/lib.rs, run; desktop.rs,                    *)
(* setup_control_window): the stages of the start, the file                *)
(* startup-failure.json that tells the next reader what went wrong, the    *)
(* state machine that decides between "the control page is ready" and "the *)
(* 15 seconds are over", and the surfaces that are left when the start is  *)
(* complete.                                                               *)
(*                                                                         *)
(* The setup hook is run by the desktop framework, which the repository    *)
(* does not hold: the version it is locked to (Cargo.lock, tauri 2) runs   *)
(* it when the event loop that run() enters is ready, and turns its error  *)
(* into a panic.                                                           *)
(***************************************************************************)
EXTENDS Naturals, Sequences

CONSTANTS
    MaxLives,    \* bound: processes started
    MaxSignals,  \* bound: frontend_ready calls of a process
    MaxFaults    \* bound: files that could not be written

ASSUME StartupAssumption == {MaxLives, MaxSignals, MaxFaults} \subseteq Nat

VARIABLES
    life,        \* "off", "starting", "running", "failed"
    at,          \* position in Stages
    complete,    \* STARTUP_COMPLETE
    reported,    \* STARTUP_FAILURE_REPORTED
    logDir,      \* STARTUP_LOG_DIR is set
    told,        \* a native dialog named a failure to the user
    marker,      \* startup-failure.json
    frontend,    \* FrontendRuntime.startup_state
    watchdog,    \* "none", "armed", "fired"
    resolving,   \* frontend_ready calls between mark_ready and the file
    signals,     \* frontend_ready calls of this process
    tray,        \* the tray icon exists
    control,     \* the control window: "none", "hidden", "shown", "closed"
    business,    \* a business window is open
    lives, faults

processVars == <<life, at, complete, reported, logDir, told>>
frontendVars == <<frontend, watchdog, resolving, signals>>
surfaceVars == <<tray, control, business>>
startupVars == <<processVars, marker, frontendVars, surfaceVars, lives, faults>>

\* The stages in the order run() enters them.
Stages == <<"Bootstrap", "RuntimePrerequisites", "Bootstrap", "RuntimePaths",
            "Diagnostics", "LocalStorage", "TrustPolicy", "PluginRuntime",
            "CoreServices", "DesktopShell", "SetupComplete">>

Stage == Stages[at]
Last == Len(Stages)

\* The error code a failure of the stage is reported under.
Failure(stage) ==
    IF stage \in {"SetupComplete", "Bootstrap"} THEN "startup-framework" ELSE stage

\* A stage that can make the start fail: diagnostics and the managed
\* processes, the ledger, shortcuts, autostart and the tray are not fatal.
Fatal == {"RuntimePrerequisites", "Bootstrap", "RuntimePaths", "LocalStorage",
          "TrustPolicy", "PluginRuntime", "CoreServices", "DesktopShell"}

NoMarker == [code |-> "none", resolved |-> TRUE]
MarkerOf(code) == [code |-> code, resolved |-> FALSE]

(***************************************************************************)
(* write_startup_failure_document and the one-shot report around it: the   *)
(* file is written at best, the dialog is shown whatever became of it.     *)
(***************************************************************************)
Written(code) ==
    \/ logDir /\ marker' = MarkerOf(code) /\ UNCHANGED faults
    \/ ~logDir /\ UNCHANGED <<marker, faults>>
    \/ logDir /\ faults < MaxFaults /\ faults' = faults + 1 /\ UNCHANGED marker

ReportFatal(code) ==
    IF reported
    THEN UNCHANGED <<reported, told, marker, faults>>
    ELSE reported' = TRUE /\ told' = TRUE /\ Written(code)

\* The process is new: every static and every managed state is fresh.
Fresh ==
    /\ at' = 1 /\ complete' = FALSE /\ reported' = FALSE /\ told' = FALSE
    /\ logDir' \in BOOLEAN      \* LOCALAPPDATA is absolute
    /\ frontend' = "Waiting" /\ watchdog' = "none" /\ resolving' = 0 /\ signals' = 0
    /\ tray' = FALSE /\ control' = "none" /\ business' = FALSE

Start ==
    /\ life \in {"off", "failed"} /\ lives < MaxLives
    /\ life' = "starting" /\ lives' = lives + 1
    /\ Fresh
    /\ UNCHANGED <<marker, faults>>

\* The first stage of the setup hook.  build() has returned and the flag is set
\* when the event loop, and with it the hook, is entered.
Hook == 4

(***************************************************************************)
(* One stage ends well and the next is entered. The last one builds the    *)
(* control window and the tray and opens the business page, or shows the   *)
(* control window when it cannot.                                          *)
(***************************************************************************)
Enter ==
    /\ life = "starting" /\ at < Last - 1
    /\ at' = at + 1
    /\ logDir' = (logDir \/ at + 1 = Hook)
    /\ complete' = (complete \/ at + 1 = Hook)
    /\ UNCHANGED <<life, reported, told, marker, frontendVars, surfaceVars, lives, faults>>

BuildShell ==
    /\ life = "starting" /\ Stage = "DesktopShell" /\ control = "none"
    /\ watchdog' = "armed"
    /\ tray' \in BOOLEAN                 \* setup_tray may fail
    /\ \/ control' = "shown" /\ business' \in BOOLEAN     \* started by SSO
       \/ control' = "shown" /\ business' = FALSE         \* no page, or it failed to open
       \/ business' = TRUE /\ control' = IF tray' THEN "hidden" ELSE "shown"
    /\ UNCHANGED <<processVars, marker, frontend, resolving, signals, lives, faults>>

Running ==
    /\ life = "starting" /\ Stage = "DesktopShell" /\ control # "none"
    /\ at' = Last /\ life' = "running"
    /\ UNCHANGED <<complete, reported, told, logDir, marker, frontendVars, surfaceVars, lives, faults>>

(***************************************************************************)
(* A stage fails. WebView2 missing, and an error of build(), are reported  *)
(* by run() itself; an error of the setup hook is a panic of the           *)
(* framework, and so is a panic anywhere: the panic hook installed by      *)
(* install_safe_panic_hook reports it while the flag is not set.           *)
(***************************************************************************)
StageFails ==
    /\ life = "starting" /\ Stage \in Fatal /\ at # 1
    /\ life' = "failed"
    /\ IF complete THEN UNCHANGED <<reported, told, marker, faults>>
                   ELSE ReportFatal(Failure(Stage))
    /\ UNCHANGED <<at, complete, logDir, frontendVars, surfaceVars, lives>>

Panics ==
    /\ life = "starting"
    /\ life' = "failed"
    /\ IF complete THEN UNCHANGED <<reported, told, marker, faults>>
                   ELSE ReportFatal(Failure(Stage))
    /\ UNCHANGED <<at, complete, logDir, frontendVars, surfaceVars, lives>>

-----------------------------------------------------------------------------
(***************************************************************************)
(* The control page reaches native IPC (frontend_ready): the state machine *)
(* moves under its mutex, then the first signal resolves the file. The     *)
(* watchdog writes its report inside the mutex.                            *)
(***************************************************************************)
\* Mutant: a page that is late counts as one that was ready.
MarkLateReady(state) ==
    [next |-> IF state = "Waiting" THEN "Ready"
              ELSE IF state = "TimedOut" THEN "Recovered" ELSE state,
     duplicate |-> state # "Waiting"]

MarkReady(state) ==
    [next |-> IF state = "Waiting" THEN "Ready"
              ELSE IF state = "TimedOut" THEN "Recovered" ELSE state,
     duplicate |-> state \in {"Ready", "Recovered"}]

FrontendReady ==
    /\ life = "running" /\ control \in {"shown", "hidden"} /\ signals < MaxSignals
    /\ LET transition == MarkReady(frontend) IN
         /\ frontend' = transition.next
         /\ resolving' = IF transition.duplicate \/ ~logDir THEN resolving ELSE resolving + 1
    /\ signals' = signals + 1
    /\ UNCHANGED <<processVars, marker, watchdog, surfaceVars, lives, faults>>

Resolved(document) == [document EXCEPT !.resolved = TRUE]

ResolveMarker ==
    /\ life = "running" /\ resolving > 0
    /\ resolving' = resolving - 1
    /\ \/ marker' = Resolved(marker) /\ UNCHANGED faults
       \/ faults < MaxFaults /\ faults' = faults + 1 /\ UNCHANGED marker
    /\ UNCHANGED <<processVars, frontend, watchdog, signals, surfaceVars, lives>>

\* report_timeout: the file is written before the state leaves Waiting.
ReportTimeout ==
    /\ frontend = "Waiting"
    /\ Written("frontend-startup-timeout")
    /\ frontend' = "TimedOut"

WatchdogFires ==
    /\ life = "running" /\ watchdog = "armed"
    /\ watchdog' = "fired"
    /\ IF frontend = "Waiting" THEN ReportTimeout /\ told' = TRUE
       ELSE UNCHANGED <<frontend, told, marker, faults>>
    /\ UNCHANGED <<life, at, complete, reported, logDir, resolving, signals, surfaceVars, lives>>

-----------------------------------------------------------------------------
(***************************************************************************)
(* The control window is closed: hidden while a tray can bring it back.    *)
(***************************************************************************)
CloseHides(exiting) == ~exiting /\ tray

CloseControl(exiting) ==
    /\ life = "running" /\ control = "shown"
    /\ control' = IF CloseHides(exiting) THEN "hidden" ELSE "closed"
    /\ UNCHANGED <<processVars, marker, frontendVars, tray, business, lives, faults>>

\* show_control, from the tray or from a second start of the program.
ShowControl ==
    /\ life = "running" /\ control = "hidden"
    /\ control' = "shown"
    /\ UNCHANGED <<processVars, marker, frontendVars, tray, business, lives, faults>>

CloseBusiness ==
    /\ life = "running" /\ business
    /\ business' = FALSE
    /\ UNCHANGED <<processVars, marker, frontendVars, tray, control, lives, faults>>

OpenBusiness ==
    /\ life = "running" /\ ~business /\ (tray \/ control = "shown")
    /\ business' = TRUE
    /\ UNCHANGED <<processVars, marker, frontendVars, tray, control, lives, faults>>

\* The framework asks to exit when the last window is gone.
LastWindowGone == life = "running" /\ control = "closed" /\ ~business

\* The process is gone: by its own exit, or killed.
Gone ==
    /\ life \in {"starting", "running"}
    /\ life' = "off"
    /\ UNCHANGED <<at, complete, reported, logDir, told, marker, frontendVars,
                   surfaceVars, lives, faults>>

StartupInit ==
    /\ life = "off" /\ lives = 0 /\ faults = 0
    /\ at = 1 /\ complete = FALSE /\ reported = FALSE /\ logDir = FALSE /\ told = FALSE
    /\ marker = NoMarker
    /\ frontend = "Waiting" /\ watchdog = "none" /\ resolving = 0 /\ signals = 0
    /\ tray = FALSE /\ control = "none" /\ business = FALSE

StartupStep ==
    \/ Enter \/ BuildShell \/ Running \/ StageFails \/ Panics
    \/ FrontendReady \/ ResolveMarker \/ WatchdogFires

SurfaceStep == ShowControl \/ CloseBusiness \/ OpenBusiness

-----------------------------------------------------------------------------
(***************************************************************************)
(* The start is told. A start that fails before the event loop is entered  *)
(* (the runtime is missing, build() fails, a panic) has been shown to the  *)
(* user and, where the file can be written, startup-failure.json names the *)
(* stage that failed and is not resolved; a page that timed out leaves the *)
(* file unresolved; and once a page is ready, and its call has returned,   *)
(* the file of an earlier failure is resolved. Files that could not be     *)
(* written are excepted. Nothing is said of a stage of the setup hook that *)
(* fails: see FailedStartsAreTold.                                         *)
(***************************************************************************)
StartIsTold ==
    /\ life = "failed" /\ at < Hook =>
         told /\ (logDir /\ faults = 0 => marker = MarkerOf(Failure(Stage)))
    /\ life = "running" /\ faults = 0 /\ logDir =>
         /\ frontend = "TimedOut" => marker = MarkerOf("frontend-startup-timeout")
         /\ frontend \in {"Ready", "Recovered"} /\ resolving = 0 => marker.resolved

(***************************************************************************)
(* What docs/diagnostics.md promises of every stage: a start that fails is *)
(* shown to the user. It is false of the code, and no run checks it: a     *)
(* stage of the setup hook fails after run() has declared the start        *)
(* complete, and then neither the dialog nor the file says so.             *)
(***************************************************************************)
FailedStartsAreTold == life = "failed" => told

(***************************************************************************)
(* What this rests on: the stages come in order, nothing is reported while *)
(* the start goes on, the flag is set where the event loop is entered, no  *)
(* page is ready before it runs, and only the signals of a page that is    *)
(* ready wait for the file.                                                *)
(***************************************************************************)
StartIsOrderly ==
    /\ life = "starting" =>
         /\ ~reported /\ frontend = "Waiting"
         /\ at < Last
         /\ (complete <=> at >= Hook)
    /\ frontend \in {"Waiting", "TimedOut"} => resolving = 0
=============================================================================
