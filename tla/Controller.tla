----------------------------- MODULE Controller -----------------------------
(***************************************************************************)
(* The lifecycle of the plugin controller (crates/webplus-controller): who *)
(* may use the native hosts while routes and plugin directories change.    *)
(*                                                                         *)
(* Calls (business invocations, operator retries and candidate preflights) *)
(* hold a global and a per-plugin read lock.  A maintenance of everything  *)
(* or of one plugin advances an epoch, raises a flag, takes the write lock *)
(* and stops the hosts before it switches routes; a shutdown closes        *)
(* admission and does the same.  Flags and epochs are atomics that are     *)
(* read outside the locks, so their loads and stores are separate actions. *)
(* Supervisor.tla models what a call does with a host.                     *)
(***************************************************************************)
EXTENDS Integers, FiniteSets, Sequences

CONSTANTS
  Plugin,
  Global,       \* the scope of everything
  Call,         \* concurrent invocations, retries and preflights
  Maintainer,   \* concurrent maintenances
  Version,      \* route sets: what a plugin's service is bound to
  None,
  MaxInFlight,  \* max_in_flight_invocations
  Scopes,       \* the scopes that are maintained
  MaxRounds,    \* bound: maintenances begun
  MaxExits      \* bound: shutdowns begun

ASSUME ControllerAssumption ==
  /\ MaxInFlight \in Nat \ {0} /\ {MaxRounds, MaxExits} \subseteq Nat
  /\ Global \notin Plugin /\ Scopes \subseteq Plugin \cup {Global}
  /\ IsFiniteSet(Call) /\ IsFiniteSet(Maintainer)
  /\ None \notin Plugin \cup Version \cup Call \cup Maintainer \cup {"exit"}
  /\ "exit" \notin Call \cup Maintainer /\ Call \cap Maintainer = {}

Scope == Plugin \cup {Global}
Task == Call \cup Maintainer \cup {"exit"}

VARIABLES
  accepting,   \* accepting_invocations
  epoch,       \* [Scope -> Nat]: lifecycle_epoch and the plugins' epochs
  active,      \* [Scope -> BOOLEAN]: the maintenance flags
  scoped,      \* active_plugin_maintenances
  gate,        \* [Scope -> lock]: the maintenance gates
  life,        \* [Scope -> lock]: the lifecycle locks
  routes,      \* [Plugin -> version of its route, or None]
  hosts,       \* plugins with a running host
  call,        \* [Call -> state of the call]
  maint,       \* [Maintainer -> state of the maintenance]
  exit,        \* progress of shutdown and resume_after_shutdown
  rounds,      \* maintenances begun
  exits        \* shutdowns begun

flags == <<accepting, epoch, active, scoped>>
vars == <<flags, gate, life, routes, hosts, call, maint, exit, rounds, exits>>

-----------------------------------------------------------------------------
(* A tokio RwLock or Mutex is fair: a request holds it once every request   *)
(* ahead of it is gone, and readers hold it together with those ahead.     *)

Free == [mode |-> [t \in Task |-> "none"], ahead |-> [t \in Task |-> {}]]

Queued(lock) == {t \in Task : lock.mode[t] # "none"}

Request(lock, t, mode) ==
  [mode  |-> [lock.mode EXCEPT ![t] = mode],
   ahead |-> [lock.ahead EXCEPT ![t] = Queued(lock)]]

\* t gives up what it holds or waits for.
Leave(lock, t) ==
  [mode  |-> [lock.mode EXCEPT ![t] = "none"],
   ahead |-> [u \in Task |-> IF u = t THEN {} ELSE lock.ahead[u] \ {t}]]

Holds(lock, t) ==
  /\ lock.mode[t] # "none"
  /\ \A u \in lock.ahead[t] : lock.mode[u] = "read" /\ lock.mode[t] = "read"

Writes(lock, t) == lock.mode[t] = "write" /\ Holds(lock, t)

-----------------------------------------------------------------------------
(* Calls: invoke_inner, retry_plugin_host, preflight_candidate_manifest.   *)

Idle == [pc |-> "idle", kind |-> "invoke", plugin |-> None, seen |-> 0,
         seenPlugin |-> 0, route |-> None, refused |-> FALSE,
         raced |-> FALSE, disturbed |-> FALSE]

\* Some maintenance of s is anywhere between its epoch and its end.
Maintained(s) ==
  \E m \in Maintainer :
    /\ maint[m].scope = s
    /\ maint[m].pc \notin {"idle", "gate", "waitGlobal", "bump", "leave"}

\* The call ends and drops its guards; refused tells CONTROLLER_MAINTENANCE
\* from every other answer.
EndAs(c, refused) ==
  /\ call' = [call EXCEPT ![c] = [Idle EXCEPT !.refused = refused]]
  /\ life' = [s \in Scope |-> Leave(life[s], c)]

End(c) == EndAs(c, FALSE)
Refuse(c) == EndAs(c, TRUE)

Goto(c, pc) == call' = [call EXCEPT ![c].pc = pc]

CallStep == UNCHANGED <<flags, gate, maint, exit, rounds, exits>>

\* An invocation loads the global epoch; it does not know its plugin yet.
BeginInvoke(c, p) ==
  /\ call[c].pc = "idle"
  /\ call' = [call EXCEPT ![c] =
       [Idle EXCEPT !.pc = "flags", !.plugin = p, !.seen = epoch[Global],
                    !.raced = Maintained(Global),
                    !.disturbed = Maintained(Global) \/ Maintained(p)]]
  /\ UNCHANGED <<life, routes, hosts>> /\ CallStep

\* A retry or preflight of an operator names its plugin: both epochs.
BeginOperator(c, p) ==
  /\ call[c].pc = "idle"
  /\ call' = [call EXCEPT ![c] =
       [Idle EXCEPT !.pc = "flags", !.kind = "operator", !.plugin = p,
                    !.seen = epoch[Global], !.seenPlugin = epoch[p],
                    !.raced = Maintained(Global) \/ Maintained(p),
                    !.disturbed = Maintained(Global) \/ Maintained(p)]]
  /\ UNCHANGED <<life, routes, hosts>> /\ CallStep

\* Admission and the maintenance flags, without a lock.
CheckFlags(c) ==
  /\ call[c].pc = "flags"
  /\ IF ~accepting THEN End(c)
     ELSE IF active[Global] THEN Refuse(c)
     ELSE IF call[c].kind = "invoke" THEN Goto(c, "route") /\ UNCHANGED life
     ELSE IF active[call[c].plugin] THEN Refuse(c)
     ELSE /\ Goto(c, "waitGlobal")
          /\ life' = [life EXCEPT ![Global] = Request(@, c, "read")]
  /\ UNCHANGED <<routes, hosts>> /\ CallStep

\* The route is cloned; an ordinary call of a tracked method ends here.
CloneRoute(c) ==
  /\ call[c].pc = "route"
  /\ \/ /\ call' = [call EXCEPT ![c].pc = IF routes[call[c].plugin] = None
                                          THEN "admit" ELSE "lookup",
                                ![c].route = routes[call[c].plugin]]
        /\ UNCHANGED life
     \/ routes[call[c].plugin] # None /\ End(c)
  /\ UNCHANGED <<routes, hosts>> /\ CallStep

\* After the await for the plugin's lifecycle, its epoch is loaded.  The call
\* raced with a maintenance that is under way or that exchanged its route.
LoadPluginEpoch(c) ==
  LET p == call[c].plugin IN
  /\ call[c].pc = "lookup"
  /\ call' = [call EXCEPT ![c].pc = "admit",
                          ![c].seenPlugin = epoch[p],
                          ![c].raced = \/ @ \/ Maintained(p)
                                       \/ call[c].route # routes[p]]
  /\ UNCHANGED <<life, routes, hosts>> /\ CallStep

\* Invocations that hold an admission permit.
Admitted ==
  {c \in Call : /\ call[c].kind = "invoke"
                /\ call[c].pc \in {"waitGlobal", "waitPlugin", "executing"}}

\* The plugin's flag, then a permit, then the queue of the global lock.
Admit(c) ==
  /\ call[c].pc = "admit"
  /\ IF call[c].route # None /\ active[call[c].plugin] THEN Refuse(c)
     ELSE IF Cardinality(Admitted) >= MaxInFlight THEN End(c)
     ELSE /\ Goto(c, "waitGlobal")
          /\ life' = [life EXCEPT ![Global] = Request(@, c, "read")]
  /\ UNCHANGED <<routes, hosts>> /\ CallStep

NeedsPlugin(c) == call[c].kind # "invoke" \/ call[c].route # None

\* Mutant: the global lock is let go for the plugin's.
SwapLocks(c) ==
  /\ call[c].pc = "waitGlobal"
  /\ Holds(life[Global], c)
  /\ NeedsPlugin(c)
  /\ Goto(c, "waitPlugin")
  /\ life' = [life EXCEPT ![call[c].plugin] = Request(@, c, "read"),
                          ![Global] = Leave(@, c)]
  /\ UNCHANGED <<routes, hosts>> /\ CallStep

TakePluginLock(c) ==
  /\ call[c].pc = "waitGlobal"
  /\ Holds(life[Global], c)
  /\ NeedsPlugin(c)
  /\ Goto(c, "waitPlugin")
  /\ life' = [life EXCEPT ![call[c].plugin] = Request(@, c, "read")]
  /\ UNCHANGED <<routes, hosts>> /\ CallStep

\* Mutant: the flags are checked, the epochs are not.
StaleByFlag(c) == active[Global] \/ (NeedsPlugin(c) /\ active[call[c].plugin])

\* Mutant: the maintenance of any plugin turns every call away.
StaleByAnyone(c) == \E s \in Scope : active[s]

\* A maintenance that concerns the call is active, or was since it began.
Stale(c) ==
  \/ active[Global]
  \/ epoch[Global] # call[c].seen
  \/ /\ NeedsPlugin(c)
     /\ \/ active[call[c].plugin]
        \/ epoch[call[c].plugin] # call[c].seenPlugin

\* Under the locks everything is checked again; the call then uses a host.
Recheck(c) ==
  LET p == call[c].plugin IN
  /\ \/ call[c].pc = "waitGlobal" /\ Holds(life[Global], c) /\ ~NeedsPlugin(c)
     \/ call[c].pc = "waitPlugin" /\ Holds(life[p], c)
  /\ IF ~accepting THEN End(c) /\ UNCHANGED hosts
     ELSE IF Stale(c) THEN Refuse(c) /\ UNCHANGED hosts
     ELSE IF ~NeedsPlugin(c) \/ (call[c].kind # "invoke" /\ routes[p] = None)
     THEN End(c) /\ UNCHANGED hosts
     ELSE /\ call' = [call EXCEPT ![c].pc = "executing",
                        ![c].route = IF call[c].kind = "invoke" THEN @ ELSE routes[p]]
          /\ hosts' = hosts \cup {p}
          /\ UNCHANGED life
  /\ UNCHANGED routes /\ CallStep

\* The host answered, failed or was killed at the deadline.
Finish(c) ==
  /\ call[c].pc = "executing"
  /\ End(c)
  /\ hosts' \in {hosts, hosts \ {call[c].plugin}}
  /\ UNCHANGED routes /\ CallStep

-----------------------------------------------------------------------------
(* begin_maintenance, begin_plugin_maintenance and their guards.           *)

NoMaintenance == [pc |-> "idle", scope |-> Global, seen |-> 0]

MaintStep == UNCHANGED <<accepting, exit, rounds, exits>>

MGoto(m, pc) == maint' = [maint EXCEPT ![m].pc = pc, ![m].seen = 0]

RequestGate(m, s) ==
  /\ maint[m].pc = "idle"
  /\ rounds < MaxRounds
  /\ rounds' = rounds + 1
  /\ maint' = [maint EXCEPT ![m] = [pc |-> "gate", scope |-> s, seen |-> 0]]
  /\ gate' = [gate EXCEPT ![s] = Request(@, m, "write")]
  /\ UNCHANGED <<flags, life, routes, hosts, call, exit, exits>>

\* Mutant: the gate is kept.
GiveUpGated(m) ==
  /\ maint' = [maint EXCEPT ![m] = NoMaintenance]
  /\ life' = [life EXCEPT ![Global] = Leave(@, m)]
  /\ UNCHANGED gate

\* Nothing was activated yet: every guard is dropped.
GiveUp(m) ==
  /\ maint' = [maint EXCEPT ![m] = NoMaintenance]
  /\ gate' = [gate EXCEPT ![maint[m].scope] = Leave(@, m)]
  /\ life' = [life EXCEPT ![Global] = Leave(@, m)]

\* Through the gate.  A plugin's maintenance is refused during a shutdown or
\* a global one, else it queues for the global read lock.
PassGate(m) ==
  LET s == maint[m].scope IN
  /\ maint[m].pc = "gate"
  /\ Writes(gate[s], m)
  /\ IF s = Global THEN MGoto(m, "bump") /\ UNCHANGED <<gate, life>>
     ELSE IF ~accepting \/ active[Global] THEN GiveUp(m)
     ELSE /\ maint' = [maint EXCEPT ![m].pc = "waitGlobal", ![m].seen = epoch[Global]]
          /\ life' = [life EXCEPT ![Global] = Request(@, m, "read")]
          /\ UNCHANGED gate
  /\ UNCHANGED <<epoch, active, scoped, routes, hosts, call>> /\ MaintStep

RecheckMaintenance(m) ==
  /\ maint[m].pc = "waitGlobal"
  /\ Holds(life[Global], m)
  /\ IF ~accepting \/ active[Global] \/ epoch[Global] # maint[m].seen
     THEN GiveUp(m)
     ELSE MGoto(m, "bump") /\ UNCHANGED <<gate, life>>
  /\ UNCHANGED <<epoch, active, scoped, routes, hosts, call>> /\ MaintStep

\* activate: the epoch is advanced, then the flag is raised.  A call that is
\* under way from here on is disturbed.
AdvanceEpoch(m) ==
  LET s == maint[m].scope IN
  /\ maint[m].pc = "bump"
  /\ MGoto(m, "raise")
  /\ epoch' = [epoch EXCEPT ![s] = @ + 1]
  /\ call' = [c \in Call |-> [call[c] EXCEPT !.disturbed =
                @ \/ (call[c].pc # "idle" /\ s \in {Global, call[c].plugin})]]
  /\ UNCHANGED <<active, scoped, gate, life, routes, hosts>> /\ MaintStep

RaiseFlag(m) ==
  LET s == maint[m].scope IN
  /\ maint[m].pc = "raise"
  /\ MGoto(m, "waitWrite")
  /\ active' = [active EXCEPT ![s] = TRUE]
  /\ scoped' = IF s = Global THEN scoped ELSE scoped + 1
  /\ life' = [life EXCEPT ![s] = Request(@, m, "write")]
  /\ UNCHANGED <<epoch, gate, routes, hosts, call>> /\ MaintStep

\* The write lock is held: supervisor.shutdown or shutdown_plugin.
StopHosts(m) ==
  LET s == maint[m].scope IN
  /\ maint[m].pc = "waitWrite"
  /\ Writes(life[s], m)
  /\ MGoto(m, "held")
  /\ hosts' = IF s = Global THEN {} ELSE hosts \ {s}
  /\ UNCHANGED <<epoch, active, scoped, gate, life, routes, call>> /\ MaintStep

\* replace_manifests and replace_manifest.
Replace(m) ==
  LET s == maint[m].scope IN
  /\ maint[m].pc = "held"
  /\ IF s = Global THEN routes' \in [Plugin -> Version \cup {None}]
     ELSE \E v \in Version \cup {None} : routes' = [routes EXCEPT ![s] = v]
  /\ UNCHANGED <<epoch, active, scoped, gate, life, hosts, call, maint>> /\ MaintStep

\* Mutant: the lifecycle locks are leaked.
ReleaseNothing(m) ==
  /\ maint[m].pc = "held"
  /\ MGoto(m, "ungate")
  /\ UNCHANGED <<epoch, active, scoped, gate, life, routes, hosts, call>> /\ MaintStep

\* The guard is dropped field by field: the lifecycle locks ...
Release(m) ==
  LET s == maint[m].scope IN
  /\ maint[m].pc = "held"
  /\ MGoto(m, "ungate")
  /\ life' = [x \in Scope |-> Leave(life[x], m)]
  /\ UNCHANGED <<epoch, active, scoped, gate, routes, hosts, call>> /\ MaintStep

\* ... the gate ...
Ungate(m) ==
  /\ maint[m].pc = "ungate"
  /\ MGoto(m, "lower")
  /\ gate' = [gate EXCEPT ![maint[m].scope] = Leave(@, m)]
  /\ UNCHANGED <<epoch, active, scoped, life, routes, hosts, call>> /\ MaintStep

Lowered(m) ==
  /\ active' = [active EXCEPT ![maint[m].scope] = FALSE]
  /\ scoped' = IF maint[m].scope = Global THEN scoped ELSE scoped - 1

\* ... and the flag.
LowerFlag(m) ==
  /\ maint[m].pc = "lower"
  /\ maint' = [maint EXCEPT ![m] = NoMaintenance]
  /\ Lowered(m)
  /\ UNCHANGED <<epoch, gate, life, routes, hosts, call>> /\ MaintStep

\* The future is dropped at an await.  Before activation its guards go; while
\* it waits for or stops hosts under the write lock its locals go in reverse
\* order, the flag before the gate (the global one, already in its struct
\* while hosts stop, releases like a finished maintenance).
Cancel(m) ==
  LET s == maint[m].scope IN
  /\ \/ maint[m].pc \in {"gate", "waitGlobal"} /\ GiveUp(m) /\ UNCHANGED <<active, scoped>>
     \/ /\ maint[m].pc = "waitWrite"
        /\ life' = [life EXCEPT ![s] = Leave(@, m)]
        /\ UNCHANGED gate
        /\ IF s = Global /\ Writes(life[s], m)
           THEN MGoto(m, "ungate") /\ UNCHANGED <<active, scoped>>
           ELSE MGoto(m, "leave") /\ Lowered(m)
  /\ UNCHANGED <<epoch, routes, hosts, call>> /\ MaintStep

LeaveGuards(m) ==
  /\ maint[m].pc = "leave"
  /\ GiveUp(m)
  /\ UNCHANGED <<epoch, active, scoped, routes, hosts, call>> /\ MaintStep

-----------------------------------------------------------------------------
(* shutdown and resume_after_shutdown.                                     *)

ExitStep == UNCHANGED <<epoch, active, scoped, gate, routes, call, maint, rounds>>

Shutdown ==
  /\ exit = "running"
  /\ exits < MaxExits
  /\ exits' = exits + 1
  /\ exit' = "waitStop"
  /\ accepting' = FALSE
  /\ life' = [life EXCEPT ![Global] = Request(@, "exit", "write")]
  /\ UNCHANGED hosts /\ ExitStep

StopAllHosts ==
  /\ exit = "waitStop"
  /\ Writes(life[Global], "exit")
  /\ exit' = "down"
  /\ hosts' = {}
  /\ life' = [life EXCEPT ![Global] = Leave(@, "exit")]
  /\ UNCHANGED <<accepting, exits>> /\ ExitStep

Resume ==
  /\ exit = "down"
  /\ exit' = "waitResume"
  /\ life' = [life EXCEPT ![Global] = Request(@, "exit", "write")]
  /\ UNCHANGED <<accepting, hosts, exits>> /\ ExitStep

Reopen ==
  /\ exit = "waitResume"
  /\ Writes(life[Global], "exit")
  /\ exit' = "running"
  /\ accepting' = TRUE
  /\ life' = [life EXCEPT ![Global] = Leave(@, "exit")]
  /\ UNCHANGED <<hosts, exits>> /\ ExitStep

-----------------------------------------------------------------------------
Init ==
  /\ accepting = TRUE
  /\ epoch = [s \in Scope |-> 0]
  /\ active = [s \in Scope |-> FALSE]
  /\ scoped = 0
  /\ gate = [s \in Scope |-> Free]
  /\ life = [s \in Scope |-> Free]
  /\ routes \in [Plugin -> Version]
  /\ hosts = {}
  /\ call = [c \in Call |-> Idle]
  /\ maint = [m \in Maintainer |-> NoMaintenance]
  /\ exit = "running"
  /\ rounds = 0 /\ exits = 0

CallProgress(c) ==
  \/ CheckFlags(c) \/ CloneRoute(c) \/ LoadPluginEpoch(c) \/ Admit(c)
  \/ TakePluginLock(c) \/ Recheck(c) \/ Finish(c)

MaintProgress(m) ==
  \/ PassGate(m) \/ RecheckMaintenance(m) \/ AdvanceEpoch(m) \/ RaiseFlag(m)
  \/ StopHosts(m) \/ Release(m) \/ Ungate(m) \/ LowerFlag(m) \/ LeaveGuards(m)

Next ==
  \/ \E c \in Call :
       \/ \E p \in Plugin : BeginInvoke(c, p) \/ BeginOperator(c, p)
       \/ CallProgress(c)
  \/ \E m \in Maintainer :
       \/ \E s \in Scopes : RequestGate(m, s)
       \/ MaintProgress(m) \/ Replace(m) \/ Cancel(m)
  \/ Shutdown \/ StopAllHosts \/ Resume \/ Reopen

Spec == Init /\ [][Next]_vars

\* Tasks run; a host call ends by its deadline; a lock is granted in order; a
\* maintenance is ended by its owner.
Fairness ==
  /\ \A c \in Call : WF_vars(CallProgress(c))
  /\ \A m \in Maintainer : WF_vars(MaintProgress(m))
  /\ WF_vars(StopAllHosts) /\ WF_vars(Reopen)

FairSpec == Spec /\ Fairness

-----------------------------------------------------------------------------
Lock == [mode : [Task -> {"none", "read", "write"}], ahead : [Task -> SUBSET Task]]

CallState ==
  [pc : {"idle", "flags", "route", "lookup", "admit", "waitGlobal", "waitPlugin",
         "executing"},
   kind : {"invoke", "operator"}, plugin : Plugin \cup {None}, seen : Nat,
   seenPlugin : Nat, route : Version \cup {None}, refused : BOOLEAN, raced : BOOLEAN,
   disturbed : BOOLEAN]

MaintState ==
  [pc : {"idle", "gate", "waitGlobal", "bump", "raise", "waitWrite", "held", "ungate",
         "lower", "leave"},
   scope : Scope, seen : Nat]

\* Type correctness.
TypeOK ==
  /\ accepting \in BOOLEAN
  /\ epoch \in [Scope -> Nat] /\ active \in [Scope -> BOOLEAN] /\ scoped \in Nat
  /\ gate \in [Scope -> Lock] /\ life \in [Scope -> Lock]
  /\ routes \in [Plugin -> Version \cup {None}] /\ hosts \subseteq Plugin
  /\ call \in [Call -> CallState] /\ maint \in [Maintainer -> MaintState]
  /\ exit \in {"running", "waitStop", "down", "waitResume"}
  /\ rounds \in 0..MaxRounds /\ exits \in 0..MaxExits

\* A call uses a host only while nobody maintains its plugin or everything:
\* the two levels of locks together exclude every maintenance that may
\* switch the routes or the directory the host was started from.
HostUseExcludesMaintenance ==
  \A c \in Call, m \in Maintainer :
    call[c].pc = "executing" /\ maint[m].pc = "held"
      => maint[m].scope \notin {Global, call[c].plugin}

\* Two maintenances that hold the write lock never overlap, unless they
\* are of two different plugins.
MaintenancesAreSerial ==
  \A m, n \in Maintainer :
    m # n /\ maint[m].pc = "held" /\ maint[n].pc = "held"
      => Global \notin {maint[m].scope, maint[n].scope} /\ maint[m].scope # maint[n].scope

\* Once the hosts of a scope are stopped for a maintenance, or all of them by
\* a shutdown, none is started again before the guard is gone or admission
\* is reopened, not even for a call that was already past its first checks.
HostsStayDown ==
  /\ \A m \in Maintainer : maint[m].pc = "held" =>
       IF maint[m].scope = Global THEN hosts = {} ELSE maint[m].scope \notin hosts
  /\ exit \in {"down", "waitResume"} =>
       hosts = {} /\ \A c \in Call : call[c].pc # "executing"

\* When no maintenance is under way, finished, refused or cancelled at any
\* await, no flag is left raised and no lock or gate is left held by one.
GuardsAreReleased ==
  \A s \in Scope :
    (\A m \in Maintainer : maint[m].pc # "idle" => maint[m].scope # s) =>
      /\ ~active[s]
      /\ gate[s] = Free
      /\ \A m \in Maintainer : life[s].mode[m] # "write"

\* The maintenance has raised its flag and has yet to lower it.
Raised(m) == maint[m].pc \in {"waitWrite", "held", "ungate", "lower"}

\* active_plugin_maintenances counts the raised plugin maintenances exactly.
CounterIsExact ==
  scoped = Cardinality({m \in Maintainer : maint[m].scope # Global /\ Raised(m)})

\* Only a maintenance of everything or of its own plugin, and one that
\* overlaps it, makes a call be refused for maintenance: other plugins
\* are served.
UnrelatedPluginsAreServed ==
  [][\A c \in Call :
       call[c].pc # "idle" /\ call'[c].pc = "idle" /\ call'[c].refused
         => call[c].disturbed]_vars

\* A call that loaded each epoch while no maintenance of that scope was under
\* way, and whose route was installed then, runs on the route that is installed
\* when it runs, whatever maintenances come while it waits: the epochs make up
\* for flags that were lowered in the meantime.
SettledCallsStayInTheirVersion ==
  \A c \in Call : call[c].pc = "executing" /\ ~call[c].raced
                    => call[c].route = routes[call[c].plugin]

\* docs/web-bridge-migration.md: no request is executed across versions.
NoCallCrossesVersions ==
  \A c \in Call : call[c].pc = "executing" => call[c].route = routes[call[c].plugin]

\* Every call is answered: no order in which calls, maintenances and a shutdown
\* take the locks of the two levels makes one of them wait for ever.
CallsEnd == \A c \in Call : call[c].pc # "idle" ~> call[c].pc = "idle"

\* Every maintenance gets its locks or gives up, and lowers its flag, although
\* calls keep coming: no stream of readers starves a writer.
MaintenancesEnd == \A m \in Maintainer : maint[m].pc # "idle" ~> maint[m].pc = "idle"

\* A shutdown gets past the calls and maintenances under way and stops the
\* hosts.
ShutdownEnds == exit = "waitStop" ~> exit = "down"

\* Maintenances exclude each other where they must, and whatever way one ends
\* it leaves no flag, lock, gate or count behind.
MaintenanceIsExclusive ==
  TypeOK /\ MaintenancesAreSerial /\ GuardsAreReleased /\ CounterIsExact

\* What a maintenance or a shutdown has brought to rest no call uses or starts.
HostsAreQuiet == HostUseExcludesMaintenance /\ HostsStayDown

\* Calls, maintenances and shutdowns that compete for the locks of both levels
\* all come to their end.
EverythingEnds == CallsEnd /\ MaintenancesEnd /\ ShutdownEnds

-----------------------------------------------------------------------------
(* The strengthening of these invariants that every step preserves.        *)

\* Of two tasks in a lock one is ahead of the other, and no task that is gone.
Orderly(lock) ==
  /\ \A t \in Task :
       /\ lock.ahead[t] \subseteq Queued(lock) \ {t}
       /\ lock.mode[t] = "none" => lock.ahead[t] = {}
  /\ \A t, u \in Queued(lock) : t # u => t \in lock.ahead[u] \/ u \in lock.ahead[t]

LocksAreOrderly == \A s \in Scope : Orderly(life[s]) /\ Orderly(gate[s])

\* A call is a reader of the locks of the scopes it has come to ...
Reads(c, s) ==
  \/ s = Global /\ call[c].pc \in {"waitGlobal", "waitPlugin", "executing"}
  \/ s = call[c].plugin /\ call[c].pc \in {"waitPlugin", "executing"}

\* ... and has been granted all but the one it waits for.
CallIsLocked(c) ==
  /\ call[c].pc # "idle" => call[c].plugin \in Plugin
  /\ \A s \in Scope : life[s].mode[c] = IF Reads(c, s) THEN "read" ELSE "none"
  /\ call[c].pc \in {"waitPlugin", "executing"} => Holds(life[Global], c)
  /\ call[c].pc = "executing" => Holds(life[call[c].plugin], c)

\* A maintenance writes the lock of its scope; that of a plugin first reads the
\* global one, until it releases all.
LifeOf(m, s) ==
  IF s = maint[m].scope /\ maint[m].pc \in {"waitWrite", "held"} THEN "write"
  ELSE IF /\ s = Global /\ maint[m].scope # Global
          /\ maint[m].pc \in {"waitGlobal", "bump", "raise", "waitWrite", "held", "leave"}
       THEN "read" ELSE "none"

GateOf(m, s) ==
  IF s = maint[m].scope /\ maint[m].pc \notin {"idle", "lower"} THEN "write" ELSE "none"

MaintenanceIsLocked(m) ==
  /\ \A s \in Scope : life[s].mode[m] = LifeOf(m, s) /\ gate[s].mode[m] = GateOf(m, s)
  /\ maint[m].pc \notin {"idle", "gate", "lower"} => Holds(gate[maint[m].scope], m)
  /\ maint[m].pc = "held" => Holds(life[maint[m].scope], m)
  /\ /\ maint[m].scope # Global
     /\ maint[m].pc \in {"bump", "raise", "waitWrite", "held", "leave"}
     => Holds(life[Global], m)

\* A shutdown and a resume write the global lock, and only a running
\* controller accepts calls.
ExitIsLocked ==
  /\ \A s \in Scope : life[s].mode["exit"] =
       IF s = Global /\ exit \in {"waitStop", "waitResume"} THEN "write" ELSE "none"
  /\ accepting => exit = "running"

TasksAreLocked ==
  /\ \A c \in Call : CallIsLocked(c)
  /\ \A m \in Maintainer : MaintenanceIsLocked(m)
  /\ ExitIsLocked
  /\ \A s \in Scope, t \in Task \ Maintainer : gate[s].mode[t] = "none"

\* A raised flag is somebody's.
FlagsAreOwned ==
  \A s \in Scope : active[s] => \E m \in Maintainer : maint[m].scope = s /\ Raised(m)

\* The call has loaded the epoch of the scope.
Loaded(c, s) ==
  /\ call[c].pc \notin {"idle", "executing"}
  /\ \/ s = Global
     \/ /\ s = call[c].plugin
        /\ \/ call[c].kind = "operator"
           \/ call[c].pc \notin {"flags", "route", "lookup"} /\ call[c].route # None

SeenOf(c, s) == IF s = Global THEN call[c].seen ELSE call[c].seenPlugin

\* An epoch that still is what the call has seen tells that no maintenance has
\* begun since.
EpochsTell(c) ==
  \A s \in Scope : Loaded(c, s) =>
    /\ SeenOf(c, s) <= epoch[s]
    /\ SeenOf(c, s) = epoch[s] /\ ~call[c].raced => ~Maintained(s)

\* So the route that was cloned before still is the installed one.
CloneIsCurrent(c) ==
  /\ call[c].kind = "invoke" /\ Loaded(c, call[c].plugin)
  /\ ~call[c].raced
  /\ call[c].seen = epoch[Global] /\ call[c].seenPlugin = epoch[call[c].plugin]
  => call[c].route = routes[call[c].plugin]

\* A call that a maintenance has overlapped is marked.
DisturbanceShows(c) ==
  call[c].pc # "idle" /\ ~call[c].disturbed =>
    \A s \in {Global, call[c].plugin} :
      ~Maintained(s) /\ (Loaded(c, s) => SeenOf(c, s) = epoch[s])

CallsKnow ==
  \A c \in Call : EpochsTell(c) /\ CloneIsCurrent(c) /\ DisturbanceShows(c)

IInv ==
  /\ TypeOK /\ LocksAreOrderly /\ TasksAreLocked /\ FlagsAreOwned /\ CounterIsExact
  /\ HostsStayDown
  /\ CallsKnow /\ SettledCallsStayInTheirVersion

=============================================================================
