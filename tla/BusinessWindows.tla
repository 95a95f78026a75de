--------------------------- MODULE BusinessWindows ---------------------------
(***************************************************************************)
(* The desktop shell (desktop.rs, sso.rs): business and floating windows,  *)
(* the supervision of their pages, the replacement of the configuration    *)
(* and the single sign-on that ends in a window.                           *)
(*                                                                         *)
(* Commands without async, the tray, shortcuts, page loads and window      *)
(* events run on the main thread, one at a time.  The replacement of the   *)
(* configuration (under install_lock), single sign-on, watchdogs and       *)
(* timers run on others and come between any two steps of a handler.       *)
(***************************************************************************)
EXTENDS Integers, FiniteSets

CONSTANTS
  Config,      \* configurations: see ConfigType
  Origin,      \* origins of pages
  FloatingId,  \* ids that pages choose for floating windows
  None,
  MaxWindows,  \* MAX_BUSINESS_WINDOWS
  MaxEvents,   \* bound: things that users, pages and operators do
  MaxFaults    \* bound: operations of the system that fail

ConfigType ==
  [website : Origin \cup {None}, environments : SUBSET Origin, trusted : SUBSET Origin,
   allowSwitch : BOOLEAN, processes : SUBSET {"helper"}, keys : SUBSET {"capture"},
   autoStart : BOOLEAN, autoClose : BOOLEAN]

ASSUME WindowsAssumption ==
  /\ Config \subseteq ConfigType /\ None \notin Origin
  /\ MaxWindows \in Nat \ {0}
  /\ {MaxEvents, MaxFaults} \subseteq Nat

VARIABLES
  config,     \* ConfigStore::value
  keys,       \* the shortcuts the system has registered
  autostart,  \* whether the system starts the application
  started,    \* DesktopState::started_managed_processes
  runtime,    \* DesktopState::business_windows
  floating,   \* DesktopState::floating_windows
  nextId,     \* DesktopState::next_window_id
  timeouts, recoveries,  \* the counters of the frontend health
  windows,    \* the windows there are
  closing,    \* windows with a close request in the queue of the main thread
  signals,    \* windows whose page sent business_frontend_ready
  watchdogs,  \* timers: <<label, generation>>
  timers,     \* timers of floating windows: <<id, label>>
  at,         \* [Thread -> the step it is at]
  job,        \* [Thread -> what it works on]
  plan,       \* the confirmed plan to clear the data of the sites
  events, faults

counters == <<timeouts, recoveries>>
shell == <<runtime, floating, nextId>>
system == <<config, keys, autostart, started>>
world == <<windows, closing, signals, watchdogs, timers>>
threads == <<at, job>>
bounds == <<events, faults>>
vars == <<system, shell, counters, world, threads, plan, bounds>>

Thread == {"main", "config", "sso"}
NoJob == [label |-> None, url |-> None, seen |-> None, parent |-> None, id |-> None,
          todo |-> {}, raced |-> FALSE]

Without(f, S) == [x \in DOMAIN f \ S |-> f[x]]
Set(f, x, v) == [y \in DOMAIN f \cup {x} |-> IF y = x THEN v ELSE f[y]]

Spend == events < MaxEvents /\ events' = events + 1 /\ UNCHANGED faults
Fault == faults < MaxFaults /\ faults' = faults + 1 /\ UNCHANGED events

End(t) == at' = [at EXCEPT ![t] = "idle"] /\ job' = [job EXCEPT ![t] = NoJob]
Go(t, step) == at' = [at EXCEPT ![t] = step] /\ UNCHANGED job
GoWith(t, step, j) == at' = [at EXCEPT ![t] = step] /\ job' = [job EXCEPT ![t] = j]
MainIsFree == at["main"] = "idle"

-----------------------------------------------------------------------------
(* Configurations.                                                         *)

BusinessOrigins(c) == c.environments \cup ({c.website} \ {None})
AllowedOrigins(c) == BusinessOrigins(c) \cup c.trusted

\* business_surface_reset_required
ResetRequired(old, new) ==
  <<old.website, old.environments, old.trusted, old.processes>>
    # <<new.website, new.environments, new.trusted, new.processes>>

RestartRequired == config.processes # started

\* open_configured_business and open_configured_environment
Destinations(c) == ({c.website} \ {None}) \cup (IF c.allowSwitch THEN c.environments ELSE {})

-----------------------------------------------------------------------------
(* DesktopState: the map of business windows.                              *)

Labels == DOMAIN windows
Business == {l \in Labels : windows[l].kind = "business"}

\* reserve_business_window_label
HasRoom == Cardinality(DOMAIN runtime) < MaxWindows
Reserved == [state |-> "Loading", generation |-> 0, recovering |-> FALSE]
Reserve(t) == runtime' = Set(runtime, nextId, Reserved) /\ nextId' = nextId + 1

\* mark_business_navigation
Navigated(r, business) ==
  [state |-> IF business THEN "Loading" ELSE "Navigating", generation |-> r.generation + 1,
   recovering |-> r.recovering \/ r.state = "TimedOut"]

\* mark_business_frontend_ready
MadeReady(r) == [r EXCEPT !.state = "Ready", !.recovering = FALSE]
Recovers(r) == r.state = "TimedOut" \/ r.recovering

\* report_business_frontend_timeout, restore_business_frontend_timeout
MayTimeOut(l, generation) ==
  l \in DOMAIN runtime /\ runtime[l].generation = generation /\ runtime[l].state = "Loading"
TimedOut(r) == [r EXCEPT !.state = "TimedOut", !.recovering = FALSE]

\* claim_timed_out_business_windows
Claimable == {l \in DOMAIN runtime : runtime[l].state = "TimedOut"}
Claimed(r) == [state |-> "Loading", generation |-> r.generation + 1, recovering |-> TRUE]

-----------------------------------------------------------------------------
(* Windows.                                                                *)

\* The system destroys a window; what was installed on it cleans up.
Destroyed(l) ==
  /\ windows' = Without(windows, {l})
  /\ closing' = closing \ {l} /\ signals' = signals \ {l}
  /\ runtime' = IF windows[l].cleanup THEN Without(runtime, {l}) ELSE runtime
  /\ floating' = IF windows[l].cleanup
                 THEN Without(floating, {i \in DOMAIN floating : floating[i].window = l}) ELSE floating

\* A user closes a window, or a handler asked for it.  The prompt of a
\* business window is installed with its cleanup.
CloseRequested(l) ==
  LET asks == windows[l].kind = "business" /\ windows[l].cleanup /\ config.autoClose
              /\ windows[l].prompt # "allow"
  IN
  /\ MainIsFree
  /\ \/ l \in closing /\ UNCHANGED bounds
     \/ l \notin closing /\ Spend
  /\ IF asks
     THEN /\ windows' = [windows EXCEPT ![l].prompt = "prompting"]
          /\ closing' = closing \ {l}
          /\ UNCHANGED <<signals, runtime, floating>>
     ELSE Destroyed(l)
  /\ UNCHANGED <<system, nextId, counters, watchdogs, timers, threads, plan>>

\* The dialog of install_close_confirmation.
AnswerPrompt(l, confirmed) ==
  /\ MainIsFree
  /\ windows[l].prompt = "prompting"
  /\ windows' = [windows EXCEPT ![l].prompt = IF confirmed THEN "allow" ELSE "idle"]
  /\ closing' = IF confirmed THEN closing \cup {l} ELSE closing
  /\ UNCHANGED <<system, shell, counters, signals, watchdogs, timers, threads, plan, bounds>>

\* on_page_load: the first page, a reload, or a page the navigation allows.
Load(l, origin) ==
  LET w == windows[l]
      business == origin \in BusinessOrigins(w.seen)
      allowed == IF w.kind = "business" THEN AllowedOrigins(w.seen) ELSE BusinessOrigins(w.seen)
  IN
  /\ MainIsFree
  /\ IF w.loading THEN origin = w.page /\ UNCHANGED bounds ELSE origin \in allowed /\ Spend
  /\ windows' = [windows EXCEPT ![l].page = origin, ![l].loading = FALSE, ![l].sent = FALSE]
  /\ IF l \in DOMAIN runtime
     THEN /\ runtime' = [runtime EXCEPT ![l] = Navigated(@, business)]
          /\ watchdogs' = IF business THEN watchdogs \cup {<<l, runtime'[l].generation>>} ELSE watchdogs
     ELSE UNCHANGED <<runtime, watchdogs>>
  /\ UNCHANGED <<system, floating, nextId, counters, closing, signals, timers, threads, plan>>

\* The script of a business page signals that its document is there.
Signal(l) ==
  /\ l \in Business /\ ~windows[l].loading /\ ~windows[l].sent
  /\ windows[l].page \in BusinessOrigins(windows[l].seen)
  /\ windows' = [windows EXCEPT ![l].sent = TRUE]
  /\ signals' = signals \cup {l}
  /\ UNCHANGED <<system, shell, counters, closing, watchdogs, timers, threads, plan, bounds>>

\* require_business: the page a window shows now, the configuration of now.
MayCall(l) == l \in Business /\ windows[l].page \in BusinessOrigins(config)

\* business_frontend_ready; the page may have been left since it signalled.
FrontendReady(l) ==
  /\ MainIsFree /\ l \in signals
  /\ signals' = signals \ {l}
  /\ IF MayCall(l) /\ l \in DOMAIN runtime
     THEN /\ runtime' = [runtime EXCEPT ![l] = MadeReady(@)]
          /\ recoveries' = recoveries + (IF Recovers(runtime[l]) THEN 1 ELSE 0)
     ELSE UNCHANGED <<runtime, recoveries>>
  /\ UNCHANGED <<system, floating, nextId, timeouts, windows, closing, watchdogs, timers, threads,
                 plan, bounds>>

\* start_business_frontend_watchdog, after its 30 seconds.
Watchdog(l, generation) ==
  /\ <<l, generation>> \in watchdogs
  /\ watchdogs' = watchdogs \ {<<l, generation>>}
  /\ IF MayTimeOut(l, generation)
     THEN runtime' = [runtime EXCEPT ![l] = TimedOut(@)] /\ timeouts' = timeouts + 1
     ELSE UNCHANGED <<runtime, timeouts>>
  /\ UNCHANGED <<system, floating, nextId, recoveries, windows, closing, signals, timers, threads,
                 plan, bounds>>

-----------------------------------------------------------------------------
(* open_business_at, for the control window, the tray, a shortcut, the     *)
(* start of the application and single sign-on; open_secondary_window.     *)

OpenConfigured(url) ==
  /\ MainIsFree /\ Spend
  /\ url \in Destinations(config)
  /\ GoWith("main", "check processes", [NoJob EXCEPT !.url = url])
  /\ UNCHANGED <<system, shell, counters, world, plan>>

\* require_current_managed_processes
CheckProcesses(t) ==
  /\ at[t] = "check processes"
  /\ IF RestartRequired THEN End(t) ELSE Go(t, "snapshot")
  /\ UNCHANGED <<system, shell, counters, world, plan, bounds>>

\* A window opened by a page of a time before is of that time too.
OfBefore(l) == windows[l].stale \/ ResetRequired(windows[l].seen, config)

\* A page opens a window beside its own.
OpenSecondary(l, url) ==
  /\ MainIsFree /\ Spend
  /\ MayCall(l)
  /\ GoWith("main", "snapshot", [NoJob EXCEPT !.url = url, !.parent = l, !.raced = OfBefore(l)])
  /\ UNCHANGED <<system, shell, counters, world, plan>>

\* The configuration the window will live by, and its label.
Snapshot(t) ==
  /\ at[t] = "snapshot"
  /\ IF job[t].url \in BusinessOrigins(config) /\ HasRoom
     THEN /\ GoWith(t, "build", [job[t] EXCEPT !.seen = config, !.label = nextId])
          /\ Reserve(t)
     ELSE End(t) /\ UNCHANGED <<runtime, nextId>>
  /\ UNCHANGED <<system, floating, counters, world, plan, bounds>>

Window(t, kind) ==
  [kind |-> kind, seen |-> job[t].seen, page |-> job[t].url, loading |-> TRUE, sent |-> FALSE,
   shown |-> kind = "business", cleanup |-> FALSE, prompt |-> "idle", stale |-> job[t].raced]

\* build_business_window; single sign-on asks the main thread to build.
Build(t) ==
  /\ at[t] = "build"
  /\ t = "sso" => MainIsFree
  /\ windows' = Set(windows, job[t].label, Window(t, "business"))
  /\ Go(t, "install")
  /\ UNCHANGED <<system, shell, counters, closing, signals, watchdogs, timers, plan, bounds>>

BuildFails(t) ==
  /\ at[t] = "build"
  /\ Fault
  /\ runtime' = Without(runtime, {job[t].label})
  /\ End(t)
  /\ UNCHANGED <<system, floating, nextId, counters, world, plan>>

\* install_close_confirmation, install_business_cleanup
Install(t) ==
  /\ at[t] = "install"
  /\ windows' = IF job[t].label \in Labels THEN [windows EXCEPT ![job[t].label].cleanup = TRUE] ELSE windows
  /\ End(t)
  /\ UNCHANGED <<system, shell, counters, closing, signals, watchdogs, timers, plan, bounds>>

-----------------------------------------------------------------------------
(* Floating windows.                                                       *)

ShowFloating(l, id, url) ==
  /\ MainIsFree /\ Spend
  /\ MayCall(l)
  /\ GoWith("main", "snapshot floating",
            [NoJob EXCEPT !.url = url, !.parent = l, !.id = id, !.raced = OfBefore(l)])
  /\ UNCHANGED <<system, shell, counters, world, plan>>

\* mutant: the window that had the id is forgotten and not closed.
SnapshotFloatingOver ==
  LET j == job["main"] IN
  /\ at["main"] = "snapshot floating"
  /\ IF j.url \in BusinessOrigins(config)
     THEN /\ GoWith("main", "build floating", [j EXCEPT !.seen = config, !.label = nextId])
          /\ floating' = Without(floating, {j.id})
          /\ nextId' = nextId + 1
     ELSE End("main") /\ UNCHANGED <<floating, nextId>>
  /\ UNCHANGED <<system, runtime, counters, world, plan, bounds>>

\* The window that had the id is closed first.
SnapshotFloating ==
  LET j == job["main"] IN
  /\ at["main"] = "snapshot floating"
  /\ IF j.url \in BusinessOrigins(config)
     THEN /\ GoWith("main", "build floating", [j EXCEPT !.seen = config, !.label = nextId])
          /\ floating' = Without(floating, {j.id})
          /\ closing' = closing \cup
               (IF j.id \in DOMAIN floating THEN {floating[j.id].window} \cap Labels ELSE {})
          /\ nextId' = nextId + 1
     ELSE End("main") /\ UNCHANGED <<floating, closing, nextId>>
  /\ UNCHANGED <<system, runtime, counters, windows, signals, watchdogs, timers, plan, bounds>>

BuildFloating ==
  /\ at["main"] = "build floating"
  /\ windows' = Set(windows, job["main"].label, Window("main", "floating"))
  /\ Go("main", "insert floating")
  /\ UNCHANGED <<system, shell, counters, closing, signals, watchdogs, timers, plan, bounds>>

BuildFloatingFails ==
  /\ at["main"] = "build floating"
  /\ Fault
  /\ End("main")
  /\ UNCHANGED <<system, shell, counters, world, plan>>

\* The entry, and install_floating_cleanup.
InsertFloating ==
  LET j == job["main"] IN
  /\ at["main"] = "insert floating"
  /\ floating' = Set(floating, j.id, [window |-> j.label, parent |-> j.parent])
  /\ windows' = IF j.label \in Labels THEN [windows EXCEPT ![j.label].cleanup = TRUE] ELSE windows
  /\ Go("main", "show floating")
  /\ UNCHANGED <<system, runtime, nextId, counters, closing, signals, watchdogs, timers, plan, bounds>>

FloatingShown ==
  /\ at["main"] = "show floating"
  /\ timers' = timers \cup {<<job["main"].id, job["main"].label>>}
  /\ windows' = IF job["main"].label \in Labels
                THEN [windows EXCEPT ![job["main"].label].shown = TRUE] ELSE windows
  /\ End("main")
  /\ UNCHANGED <<system, shell, counters, closing, signals, watchdogs, plan, bounds>>

\* The command ends before it starts the timer.
FloatingNotShown ==
  /\ at["main"] = "show floating"
  /\ Fault
  /\ End("main")
  /\ UNCHANGED <<system, shell, counters, world, plan>>

\* close_floating_by_identity
CloseFloating(id, label) ==
  IF id \in DOMAIN floating /\ floating[id].window = label
  THEN floating' = Without(floating, {id}) /\ closing' = closing \cup ({label} \cap Labels)
  ELSE UNCHANGED <<floating, closing>>

FloatingExpires(id, label) ==
  /\ <<id, label>> \in timers
  /\ timers' = timers \ {<<id, label>>}
  /\ CloseFloating(id, label)
  /\ UNCHANGED <<system, runtime, nextId, counters, windows, signals, watchdogs, threads, plan, bounds>>

\* close_floating_window by the parent or the window, resolve_floating_window
\* by the window.
CloseOwnFloating(l, id) ==
  /\ MainIsFree /\ Spend
  /\ windows[l].page \in BusinessOrigins(config)
  /\ id \in DOMAIN floating /\ l \in {floating[id].window, floating[id].parent}
  /\ CloseFloating(id, floating[id].window)
  /\ UNCHANGED <<system, runtime, nextId, counters, windows, signals, watchdogs, timers, threads, plan>>

-----------------------------------------------------------------------------
(* force_close_business_surfaces, by the configuration or by a clearing.   *)

\* mutant: only business windows are closed.
ListBusiness(t) ==
  /\ at[t] = "list"
  /\ GoWith(t, "destroy", [job[t] EXCEPT !.todo = Business])
  /\ UNCHANGED <<system, shell, counters, world, plan, bounds>>

List(t) ==
  /\ at[t] = "list"
  /\ GoWith(t, "destroy", [job[t] EXCEPT !.todo = Labels])
  /\ UNCHANGED <<system, shell, counters, world, plan, bounds>>

Done(t, l) == job' = [job EXCEPT ![t].todo = @ \ {l}] /\ UNCHANGED at

DestroyOne(t, l) ==
  /\ at[t] = "destroy" /\ l \in job[t].todo
  /\ windows' = Without(windows, {l})
  /\ closing' = closing \ {l} /\ signals' = signals \ {l}
  /\ runtime' = Without(runtime, {l})
  /\ floating' = Without(floating, {i \in DOMAIN floating : floating[i].window = l})
  /\ Done(t, l)
  /\ UNCHANGED <<system, nextId, counters, watchdogs, timers, plan, bounds>>

\* It is counted and reported, and stays.
DestroyFails(t, l) ==
  /\ at[t] = "destroy" /\ l \in job[t].todo
  /\ Fault
  /\ windows' = IF l \in Labels /\ t = "config" THEN [windows EXCEPT ![l].stale = TRUE] ELSE windows
  /\ Done(t, l)
  /\ UNCHANGED <<system, shell, counters, closing, signals, watchdogs, timers, plan>>

AllDestroyed(t) ==
  /\ at[t] = "destroy" /\ job[t].todo = {}
  /\ End(t)
  /\ UNCHANGED <<system, shell, counters, world, plan, bounds>>

\* inspect_business_data_clear
InspectClear ==
  /\ MainIsFree /\ plan = None /\ Spend
  /\ plan' = [origins |-> BusinessOrigins(config), labels |-> Labels]
  /\ UNCHANGED <<system, shell, counters, world, threads>>

\* clear_business_data; clear_all_browsing_data can fail.
ClearConfirmed ==
  /\ MainIsFree /\ plan # None
  /\ IF plan = [origins |-> BusinessOrigins(config), labels |-> Labels]
     THEN \/ Go("main", "list") /\ UNCHANGED bounds
          \/ Fault /\ UNCHANGED threads
     ELSE UNCHANGED <<threads, bounds>>
  /\ plan' = None
  /\ UNCHANGED <<system, shell, counters, world>>

-----------------------------------------------------------------------------
(* retry_timed_out_business_windows.                                       *)

Retry ==
  /\ MainIsFree /\ Claimable # {} /\ Spend
  /\ runtime' = [l \in DOMAIN runtime |-> IF l \in Claimable THEN Claimed(runtime[l]) ELSE runtime[l]]
  /\ GoWith("main", "retry", [NoJob EXCEPT !.todo = Claimable])
  /\ UNCHANGED <<system, floating, nextId, counters, world, plan>>

\* A claimed window is loaded again, or is gone and gives its label back.
RetryOne(l) ==
  /\ at["main"] = "retry" /\ l \in job["main"].todo
  /\ IF l \in Labels
     THEN /\ windows' = [windows EXCEPT ![l].loading = TRUE]
          /\ watchdogs' = IF l \in DOMAIN runtime
                          THEN watchdogs \cup {<<l, runtime[l].generation>>} ELSE watchdogs
          /\ UNCHANGED runtime
     ELSE runtime' = Without(runtime, {l}) /\ UNCHANGED <<windows, watchdogs>>
  /\ Done("main", l)
  /\ UNCHANGED <<system, floating, nextId, counters, closing, signals, timers, plan, bounds>>

\* restore_business_frontend_timeout
RetryFails(l) ==
  /\ at["main"] = "retry" /\ l \in job["main"].todo \cap Labels
  /\ Fault
  /\ runtime' = IF l \in DOMAIN runtime /\ runtime[l].state = "Loading"
                THEN [runtime EXCEPT ![l] = TimedOut(@)] ELSE runtime
  /\ Done("main", l)
  /\ UNCHANGED <<system, floating, nextId, counters, world, plan>>

RetryEnds ==
  /\ at["main"] = "retry" /\ job["main"].todo = {}
  /\ End("main")
  /\ UNCHANGED <<system, shell, counters, world, plan, bounds>>

-----------------------------------------------------------------------------
(* replace_desktop_config, under install_lock.                             *)

\* shortcuts::replace: what is registered, whether it succeeded and what
\* failed.  A set that fails may be registered in part.
Register(new, fallback) ==
  {[keys |-> new, ok |-> TRUE, failed |-> 0], [keys |-> fallback, ok |-> FALSE, failed |-> 1]}
  \cup {[keys |-> part, ok |-> FALSE, failed |-> 2] : part \in SUBSET (new \cup fallback)}

\* replace_autostart: it may fail before or after the system has changed.
Autostarts(old, new) ==
  {[autostart |-> new, ok |-> TRUE, failed |-> 0]}
  \cup {[autostart |-> a, ok |-> FALSE, failed |-> 1] : a \in {old, new}}

\* The way back from what was registered and started.
Restored(k, a, oldKeys, oldAuto, failed) ==
  {[keys |-> r.keys, autostart |-> s.autostart, ok |-> FALSE, failed |-> failed + r.failed + s.failed] :
     r \in Register(oldKeys, {}), s \in Autostarts(a, oldAuto)}

\* The outcomes of replace_desktop_config.
Replacements(old, new) ==
  UNION {
    IF ~r.ok THEN {[keys |-> r.keys, autostart |-> autostart, ok |-> FALSE, failed |-> r.failed]}
    ELSE \* the autostart cannot be read, cannot be replaced, or the file cannot be written
         {[keys |-> s.keys, autostart |-> autostart, ok |-> FALSE, failed |-> 1 + s.failed] :
            s \in Register(old.keys, {})}
         \cup UNION {
            IF ~s.ok THEN Restored(new.keys, s.autostart, old.keys, autostart, 1)
            ELSE {[keys |-> new.keys, autostart |-> s.autostart, ok |-> TRUE, failed |-> 0]}
                 \cup Restored(new.keys, s.autostart, old.keys, autostart, 1) :
            s \in Autostarts(autostart, new.autoStart)} :
    r \in Register(new.keys, old.keys)}

\* save_desktop_config, import_desktop_config: the plugins allow the change.
SaveConfig(new) ==
  /\ at["config"] = "idle" /\ Spend
  /\ new # config
  /\ GoWith("config", "replace", [NoJob EXCEPT !.seen = new])
  /\ UNCHANGED <<system, shell, counters, world, plan>>

\* Windows that are being opened now will not be found in the list.
ReplaceConfig ==
  LET new == job["config"].seen
      reset == ResetRequired(config, new)
  IN
  /\ at["config"] = "replace"
  /\ \E r \in Replacements(config, new) :
       /\ faults + r.failed <= MaxFaults /\ faults' = faults + r.failed
       /\ keys' = r.keys /\ autostart' = r.autostart
       /\ config' = IF r.ok THEN new ELSE config
       /\ at' = [at EXCEPT !["config"] = IF r.ok /\ reset THEN "list" ELSE "idle"]
       /\ job' = [t \in Thread |->
            IF t = "config" THEN NoJob
            ELSE [job[t] EXCEPT !.raced = @ \/ (r.ok /\ reset /\ at[t] # "idle")]]
  /\ UNCHANGED <<started, shell, counters, world, plan, events>>

-----------------------------------------------------------------------------
(* Single sign-on: one at a time.                                          *)

\* start_from_arguments, try_begin
StartSso ==
  /\ at["sso"] = "idle" /\ Spend
  /\ Go("sso", "request")
  /\ UNCHANGED <<system, shell, counters, world, plan>>

\* perform: the website of now, if there is one.
RequestSso ==
  /\ at["sso"] = "request"
  /\ IF config.website = None THEN End("sso")
     ELSE GoWith("sso", "response", [NoJob EXCEPT !.url = config.website])
  /\ UNCHANGED <<system, shell, counters, world, plan, bounds>>

\* The answer names no origin of its own: the login page is on the website.
AnswerSso ==
  /\ at["sso"] = "response"
  /\ Go("sso", "check processes")
  /\ UNCHANGED <<system, shell, counters, world, plan, bounds>>

\* mutant: a task that panics leaves the state active.
SsoPanics ==
  /\ at["sso"] \in {"request", "response"}
  /\ Fault
  /\ Go("sso", "gone")
  /\ UNCHANGED <<system, shell, counters, world, plan>>

\* The request fails or times out, or the task panics: SsoTaskGuard.
SsoFails ==
  /\ at["sso"] \in {"request", "response"}
  /\ Fault
  /\ End("sso")
  /\ UNCHANGED <<system, shell, counters, world, plan>>

-----------------------------------------------------------------------------
Init ==
  /\ config \in Config /\ started = config.processes
  /\ keys = config.keys /\ autostart = config.autoStart
  /\ runtime = <<>> /\ floating = <<>> /\ nextId = 1
  /\ timeouts = 0 /\ recoveries = 0
  /\ windows = <<>> /\ closing = {} /\ signals = {} /\ watchdogs = {} /\ timers = {}
  /\ at = [t \in Thread |-> "idle"] /\ job = [t \in Thread |-> NoJob]
  /\ plan = None /\ events = 0 /\ faults = 0

Steps(t) ==
  \/ CheckProcesses(t) \/ Snapshot(t) \/ Build(t) \/ Install(t)
  \/ List(t) \/ AllDestroyed(t)
  \/ \E l \in job[t].todo : DestroyOne(t, l)

MainSteps ==
  \/ SnapshotFloating \/ BuildFloating \/ InsertFloating \/ FloatingShown \/ RetryEnds
  \/ \E l \in job["main"].todo : RetryOne(l)

Failures ==
  \/ \E t \in Thread : BuildFails(t) \/ \E l \in job[t].todo : DestroyFails(t, l)
  \/ BuildFloatingFails \/ FloatingNotShown \/ SsoFails
  \/ \E l \in job["main"].todo : RetryFails(l)

Requests ==
  \/ \E url \in Origin : OpenConfigured(url)
  \/ \E l \in Labels, url \in Origin : OpenSecondary(l, url)
  \/ \E l \in Labels, id \in FloatingId, url \in Origin : ShowFloating(l, id, url)
  \/ \E l \in Labels, id \in FloatingId : CloseOwnFloating(l, id)
  \/ \E l \in Labels : CloseRequested(l) \/ Signal(l)
  \/ \E l \in Labels, answer \in BOOLEAN : AnswerPrompt(l, answer)
  \/ \E l \in Labels, o \in Origin : Load(l, o)
  \/ \E new \in Config : SaveConfig(new)
  \/ InspectClear \/ ClearConfirmed \/ Retry \/ StartSso

Timers ==
  \/ \E w \in watchdogs : Watchdog(w[1], w[2])
  \/ \E f \in timers : FloatingExpires(f[1], f[2])

Next ==
  \/ Requests \/ Timers \/ MainSteps \/ Failures
  \/ \E t \in Thread : Steps(t)
  \/ ReplaceConfig \/ RequestSso \/ AnswerSso
  \/ \E l \in signals : FrontendReady(l)

Spec == Init /\ [][Next]_vars

\* Threads that can go on do, timers expire, the main thread handles what is
\* in its queue, and a page that was asked for starts to load.
Fairness ==
  /\ WF_vars(\E t \in {"main", "config"} : Steps(t))
  /\ WF_vars(MainSteps)
  /\ SF_vars(Steps("sso") \/ RequestSso \/ AnswerSso)
  /\ WF_vars(ReplaceConfig) /\ WF_vars(Timers)
  /\ SF_vars(\E l \in Labels : windows[l].loading /\ Load(l, windows[l].page))
  /\ SF_vars(\E l \in closing : CloseRequested(l))

FairSpec == Spec /\ Fairness

-----------------------------------------------------------------------------
Label == 1..(MaxEvents + 1)

\* Types of the variables.
TypeOK ==
  /\ config \in Config /\ started \in SUBSET {"helper"} /\ autostart \in BOOLEAN
  /\ nextId \in Label /\ timeouts \in Nat /\ recoveries \in Nat
  /\ DOMAIN runtime \subseteq Label /\ DOMAIN floating \subseteq FloatingId
  /\ \A l \in DOMAIN runtime :
       runtime[l] \in [state : {"Loading", "Navigating", "Ready", "TimedOut"},
                       generation : Nat, recovering : BOOLEAN]
  /\ Labels \subseteq Label /\ closing \subseteq Labels /\ signals \subseteq Labels
  /\ \A l \in Labels : windows[l].page \in AllowedOrigins(windows[l].seen)

\* Every business window there is, or is being built, has its place in the map
\* that MAX_BUSINESS_WINDOWS bounds, so that the limit holds and health sees it.
WindowsAreCounted ==
  /\ Business \subseteq DOMAIN runtime
  /\ \A t \in Thread : at[t] = "build" => job[t].label \in DOMAIN runtime
  /\ Cardinality(Business) <= MaxWindows

\* BusinessFrontendHealth: a window recovers at most once for each time it
\* timed out, over retries, navigations and repeated signals.
RecoveriesAreTrue ==
  recoveries + Cardinality({l \in DOMAIN runtime : Recovers(runtime[l])}) <= timeouts

\* replace_desktop_config: shortcuts and autostart are those of the
\* configuration, also after a failed replacement; one failure can be undone.
SystemMatchesConfig ==
  faults <= 1 => keys = config.keys /\ autostart = config.autoStart

\* docs/project-bundles.md, docs/desktop-policies.md: after a change of the
\* configuration that resets the business surfaces no page of the time before is
\* left, and none is opened while the processes require a restart; except
\* windows that were being opened then, that could not be destroyed, or that
\* were opened by one of these.
NoStalePages ==
  at["config"] = "idle" =>
    \A l \in Labels : windows[l].stale
       \/ /\ ~ResetRequired(windows[l].seen, config)
          /\ ~RestartRequired

\* A floating window that is not being closed has an entry, through which its
\* parent can close it, and one that is shown has the timer that will.
FloatingsAreOwned ==
  MainIsFree =>
    \A l \in Labels \ (Business \cup closing) :
      \E id \in DOMAIN floating :
        floating[id].window = l /\ (windows[l].shown => <<id, l>> \in timers)

\* DesktopState describes the windows there are: the limit and the health of the
\* business windows, and the ownership of the floating ones.
ShellIsConsistent == TypeOK /\ WindowsAreCounted /\ RecoveriesAreTrue /\ FloatingsAreOwned

\* Every page that loads is ready or reported in the end, every floating window
\* that was shown goes, and single sign-on ends.
WaitsEnd ==
  /\ \A l \in Label : []<>(l \in Business \cap DOMAIN runtime => runtime[l].state # "Loading")
  /\ \A l \in Label : []<>(l \in Labels => windows[l].kind = "business" \/ ~windows[l].shown)
  /\ []<>(at["sso"] = "idle")

\* The records of the desktop agree with the windows there are, and the
\* system's shortcuts and autostart with the configuration.
ShellIsTrue == ShellIsConsistent /\ SystemMatchesConfig

-----------------------------------------------------------------------------
\* What these rest on.  A window is asked for, then its label is taken.
AskingSteps == {"request", "response", "check processes", "snapshot", "snapshot floating"}
LabelledSteps == {"build", "install", "build floating", "insert floating", "show floating"}
FloatingSteps == {"snapshot floating", "build floating", "insert floating", "show floating"}
Unbuilt(t) == at[t] \in {"build", "build floating"}

\* Every event opens one window at the most, so that the labels suffice.
Asked(step) == IF step \in AskingSteps THEN 1 ELSE 0

LabelsSuffice ==
  /\ events \in 0..MaxEvents /\ faults \in Nat /\ nextId \in Nat \ {0}
  /\ nextId + Asked(at["main"]) + Asked(at["sso"]) <= events + 1

\* Where each thread may be, and what its job holds there.
JobType ==
  [label : Nat \cup {None}, url : Origin \cup {None}, seen : Config \cup {None},
   parent : Nat \cup {None}, id : FloatingId \cup {None}, todo : SUBSET Nat, raced : BOOLEAN]

StepsOf(t) ==
  CASE t = "config" -> {"idle", "replace", "list", "destroy"}
    [] t = "sso" -> {"idle", "request", "response", "check processes", "snapshot", "build", "install"}
    [] t = "main" -> {"idle", "check processes", "snapshot", "build", "install", "list", "destroy",
                      "retry"} \cup FloatingSteps

JobFits(step, j) ==
  /\ step = "replace" => j.seen \in Config
  /\ step \in AskingSteps \ {"request"} => j.url \in Origin
  /\ step \in LabelledSteps =>
       j.label \in 1..(nextId - 1) /\ j.seen \in Config /\ j.url \in BusinessOrigins(j.seen)
  /\ step \in FloatingSteps => j.id \in FloatingId
  /\ j.todo \subseteq 1..(nextId - 1)

JobsFit ==
  /\ at \in [Thread -> UNION {StepsOf(t) : t \in Thread}] /\ job \in [Thread -> JobType]
  /\ \A t \in Thread : at[t] \in StepsOf(t) /\ JobFits(at[t], job[t])

WindowType ==
  [kind : {"business", "floating"}, seen : Config, page : Origin, loading : BOOLEAN, sent : BOOLEAN,
   shown : BOOLEAN, cleanup : BOOLEAN, prompt : {"idle", "prompting", "allow"}, stale : BOOLEAN]

WindowsFit ==
  /\ DOMAIN runtime \subseteq 1..(nextId - 1) /\ Labels \subseteq 1..(nextId - 1)
  /\ \A l \in Labels : windows[l] \in WindowType

\* A label that was taken for a window that is not there yet is nobody else's.
LabelsAreFresh ==
  /\ \A w \in watchdogs : w[1] \in 1..(nextId - 1)
  /\ \A t \in Thread : Unbuilt(t) =>
       /\ job[t].label \notin Labels
       /\ \A w \in watchdogs : w[1] # job[t].label
       /\ \A u \in Thread : job[t].label \notin job[u].todo
       /\ \A u \in Thread \ {t} : Unbuilt(u) => job[u].label # job[t].label
       /\ at[t] = "build" => job[t].label \in DOMAIN runtime /\ runtime[job[t].label] = Reserved

\* The map has room for what it holds, and what is retried has timed out.
MapHolds ==
  /\ Cardinality(DOMAIN runtime) <= MaxWindows
  /\ at["main"] = "retry" => \A l \in job["main"].todo \cap DOMAIN runtime : Recovers(runtime[l])

\* A window that is not stale was opened with the processes that run, for the
\* configuration of now, or the replacement of the configuration will close it.
WindowIsCurrent(l) ==
  /\ windows[l].seen.processes = started
  /\ \/ ~ResetRequired(windows[l].seen, config)
     \/ at["config"] = "list"
     \/ at["config"] = "destroy" /\ l \in job["config"].todo

JobIsCurrent(step, j) ==
  /\ step \in {"snapshot", "snapshot floating"} => ~RestartRequired
  /\ step \in LabelledSteps => j.seen.processes = started /\ ~ResetRequired(j.seen, config)

PagesAreCurrent ==
  /\ \A l \in Labels : windows[l].stale \/ WindowIsCurrent(l)
  /\ \A t \in Thread : job[t].raced \/ JobIsCurrent(at[t], job[t])

\* A floating window has its entry, or is about to get it.
Owned(l) ==
  \E id \in DOMAIN floating :
    floating[id].window = l /\ (windows[l].shown => <<id, l>> \in timers)

FloatingsAreEntered ==
  LET j == job["main"] IN
  /\ \A l \in Labels \ (Business \cup closing) :
       Owned(l) \/ (at["main"] = "insert floating" /\ l = j.label)
  /\ at["main"] \in {"build floating", "insert floating"} => j.id \notin DOMAIN floating
  /\ at["main"] = "insert floating" /\ j.label \in Labels \ Business => ~windows[j.label].shown
  /\ at["main"] = "show floating" /\ j.label \in Labels \ (Business \cup closing) =>
       j.id \in DOMAIN floating /\ floating[j.id].window = j.label

IInv ==
  /\ TypeOK /\ LabelsSuffice /\ JobsFit /\ WindowsFit /\ LabelsAreFresh
  /\ WindowsAreCounted /\ MapHolds /\ RecoveriesAreTrue
  /\ SystemMatchesConfig /\ PagesAreCurrent /\ FloatingsAreEntered

=============================================================================
