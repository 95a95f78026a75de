-------------------------- MODULE ProjectActivation --------------------------
(***************************************************************************)
(* How installed components (signed plugins and local mappings) and the    *)
(* desktop configuration are changed: activation and removal transactions  *)
(* of a component (crates/webplus-plugin-package, local_mappings.rs), the  *)
(* project transaction over them (project_activation.rs), the commands     *)
(* that drive them (lib.rs) and the recovery at startup and before every   *)
(* command.                                                                *)
(*                                                                         *)
(* One step is one change of the file system, so that the process can die  *)
(* between any two; removing a directory is two steps.  A step may fail;   *)
(* install_lock lets one command run at a time.  What a process crash      *)
(* leaves is what the file system showed: power losses are not modelled.   *)
(***************************************************************************)
EXTENDS Naturals, SequencesExt

CONSTANTS
  Signed,        \* signed plugins, below plugin_root
  Local,         \* local mappings, below local_mapping_root
  Version,       \* contents of a component directory
  Config,        \* desktop configurations
  None,
  MaxFaults,     \* bound: file operations that fail
  MaxCrashes,    \* bound: process crashes
  MaxTasks       \* bound: commands

Component == Signed \cup Local

ASSUME ProjectAssumption ==
  /\ {MaxFaults, MaxCrashes, MaxTasks} \subseteq Nat
  /\ Signed \cap Local = {}
  /\ None \notin Version \cup Config \cup Component \cup {"torn"}
  /\ "torn" \notin Version

VARIABLES
  target,    \* [Component -> content of its directory]
  txn,       \* [Component -> its transaction directory]
  project,   \* the project-activation directory
  config,    \* config.json
  routes,    \* [Component -> version the controller serves]
  settings,  \* the configuration in memory (ConfigStore)
  pc,        \* what the process does: the step of its command or recovery
  task,      \* the command
  faults, crashes, tasks,
  saved,     \* history: the configuration that was asked for last, and those that
             \* a project left behind or a failed restoration show in its place
  broken     \* history: a mapping was lost by an undo whose error is dropped, or a
             \* command went back although its commit is on disk

disk == <<target, txn, project, config>>
memory == <<routes, settings>>
bounds == <<faults, crashes, tasks, saved, broken>>
vars == <<disk, memory, pc, task, bounds>>

Installed == [Component -> Version \cup {None}]

\* A command: what each of its members is to become, the configuration of an
\* import, and what routes, settings and restarts showed when it was given.
Plans == {<<>>} \cup UNION {[S -> Version \cup {None}] : S \in SUBSET Component}
View == [components : Installed, config : Config]
Task ==
  [goal : Plans, config : Config \cup {None}, root : {"signed", "local"},
   at : Component \cup {None}, done : Seq(Component), retried : BOOLEAN, failed : BOOLEAN,
   kept : BOOLEAN, answer : {"none", "ok", "failed"},
   routes : Installed \cup {None}, settings : Config \cup {None}, view : View \cup {None}]

\* A directory that is being removed holds a part of its content.
Torn == "torn"
Content == Version \cup {None, Torn}

\* A transaction directory.  It is "partial" without a readable journal:
\* before the journal is written, or while the directory is removed.
Transaction == [state : {"none", "partial", "activation", "committed"},
                hadPrevious : BOOLEAN, previous : Version \cup {None}]
NoTransaction == [state |-> "none", hadPrevious |-> FALSE, previous |-> None]
Partial == [NoTransaction EXCEPT !.state = "partial"]

Project == [state : {"none", "partial", "prepared", "committed"},
            previous : Config \cup {None}, target : Config \cup {None}, members : SUBSET Component]
NoProject == [state |-> "none", previous |-> None, target |-> None, members |-> {}]
PartialProject == [NoProject EXCEPT !.state = "partial"]

NoTask == [goal |-> <<>>, config |-> None, root |-> "signed", at |-> None, done |-> <<>>,
           retried |-> FALSE, failed |-> FALSE, kept |-> FALSE, answer |-> "none",
           routes |-> None, settings |-> None, view |-> None]

IsImport == task.config # None
Members == DOMAIN task.goal
Starting == Members = {}
Root == IF task.root = "signed" THEN Signed ELSE Local

Committed(c) == project.state = "committed" /\ c \in project.members

\* What a restart makes of the files: transactions are rolled back, unless
\* their project is committed.  Partial directories hold nothing.
Outcome ==
  [components |-> [c \in Component |->
     IF txn[c].state # "activation" \/ Committed(c) THEN target[c]
     ELSE IF ~txn[c].hadPrevious THEN None
     ELSE IF txn[c].previous = None THEN target[c] ELSE txn[c].previous],
   config |-> IF project.state = "committed" THEN project.target
              ELSE IF project.state = "prepared" THEN project.previous
              ELSE config]

-----------------------------------------------------------------------------
Fault ==
  /\ faults < MaxFaults /\ faults' = faults + 1
  /\ UNCHANGED <<crashes, tasks, saved, broken>>

\* A failure after which what a restart finds is not what it should be.
BreakingFault ==
  /\ faults < MaxFaults /\ faults' = faults + 1
  /\ broken' = TRUE
  /\ UNCHANGED <<crashes, tasks, saved>>

\* The command answers.
Answer(answer) == pc' = "idle" /\ task' = [task EXCEPT !.answer = answer]

\* What a removal may leave whose error is dropped.
Leavings(t) == {NoTransaction, Partial, t}

-----------------------------------------------------------------------------
(* rollback_transaction and commit_transaction, one file operation a step.  *)

\* The new content has to go: there is something to put back, or was nothing.
Unwanted(c) == target[c] # None /\ (txn[c].hadPrevious => txn[c].previous # None)

RemoveTarget(c) ==
  /\ txn[c].state = "activation" /\ Unwanted(c)
  /\ target' = [target EXCEPT ![c] = IF @ = Torn THEN None ELSE Torn]
  /\ UNCHANGED txn

RestorePrevious(c) ==
  /\ txn[c].state = "activation" /\ txn[c].previous # None /\ target[c] = None
  /\ target' = [target EXCEPT ![c] = txn[c].previous]
  /\ txn' = [txn EXCEPT ![c].previous = None]

RemoveTransaction(c) ==
  /\ \/ txn[c].state = "partial"
     \/ /\ txn[c].state = "activation" /\ txn[c].previous = None
        /\ IF txn[c].hadPrevious THEN target[c] # None ELSE target[c] = None
  /\ txn' = [txn EXCEPT ![c] = IF @.state = "partial" THEN NoTransaction ELSE Partial]
  /\ UNCHANGED target

RollbackStep(c) == RemoveTarget(c) \/ RestorePrevious(c) \/ RemoveTransaction(c)

\* The single rename that decides.
MarkTransaction(c) ==
  /\ txn[c].state = "activation"
  /\ txn' = [txn EXCEPT ![c].state = "committed"]
  /\ UNCHANGED target

RemoveCommitted(c) ==
  /\ txn[c].state = "committed"
  /\ txn' = [txn EXCEPT ![c] = NoTransaction]
  /\ UNCHANGED target

-----------------------------------------------------------------------------
(* recover_inner: at startup, and at the start of every command.           *)

Startup ==
  /\ pc = "down"
  /\ pc' = "recover"
  /\ UNCHANGED <<disk, memory, task, bounds>>

\* Startup fails, or the command does before it changed anything.
RecoveryFails ==
  IF Starting THEN pc' = "down" /\ task' = NoTask ELSE Answer("failed")

\* Mutant: a prepared project keeps the configuration that is there.
KeptConfig == IF project.state = "committed" THEN project.target ELSE config

\* The configuration of the side the project is on.
RestoredConfig == IF project.state = "committed" THEN project.target ELSE project.previous

RecoverProject ==
  /\ pc = "recover"
  /\ \/ project.state = "none" /\ UNCHANGED config
     \/ project.state = "committed" /\ config' = RestoredConfig
     \/ project.state = "prepared" /\ Starting /\ config' = RestoredConfig
  /\ pc' = "scan"
  /\ task' = [task EXCEPT !.root = "signed"]
  /\ UNCHANGED <<target, txn, project, memory, bounds>>

\* The first pass over a root removes what was committed and reads journals.
Scan(c) ==
  /\ pc = "scan" /\ c \in Root
  /\ RemoveCommitted(c)
  /\ UNCHANGED <<project, config, memory, pc, task, bounds>>

ScanEnds ==
  /\ pc = "scan"
  /\ \A c \in Root : txn[c].state \in {"none", "activation"}
  /\ pc' = "settle"
  /\ UNCHANGED <<disk, memory, task, bounds>>

\* No readable journal in the project or in a transaction, or a prepared
\* project of this very process.
RecoveryRefused ==
  /\ \/ pc = "recover" /\ project.state = "partial"
     \/ pc = "recover" /\ project.state = "prepared" /\ ~Starting
     \/ pc = "scan" /\ \E c \in Root : txn[c].state = "partial"
  /\ RecoveryFails
  /\ UNCHANGED <<disk, memory, bounds>>

\* The second pass ends each transaction, one after the other.
Settle(c) ==
  /\ pc = "settle" /\ c \in Root
  /\ task.at = c \/ (task.at = None /\ txn[c].state = "activation")
  /\ IF Committed(c)
     THEN MarkTransaction(c) \/ RemoveCommitted(c)
     ELSE RollbackStep(c)
  /\ task' = [task EXCEPT !.at = IF txn'[c].state = "none" THEN None ELSE c]
  /\ UNCHANGED <<project, config, memory, pc, bounds>>

\* The cleanup of a committed transaction may be left for the next recovery.
SettleLater ==
  /\ pc = "settle" /\ task.at # None
  /\ txn[task.at].state = "committed"
  /\ Fault
  /\ task' = [task EXCEPT !.at = None]
  /\ UNCHANGED <<disk, memory, pc>>

SettleEnds ==
  /\ pc = "settle"
  /\ task.at = None /\ \A c \in Root : txn[c].state \in {"none", "committed"}
  /\ IF task.root = "signed"
     THEN pc' = "scan" /\ task' = [task EXCEPT !.root = "local"]
     ELSE pc' = "clear" /\ UNCHANGED task
  /\ UNCHANGED <<disk, memory, bounds>>

\* remove_dir_all of the project: its journal or its configurations go first.
RemoveProject ==
  /\ project.state # "none"
  /\ project' = IF project.state = "partial" THEN NoProject ELSE PartialProject
  /\ UNCHANGED <<target, txn, config>>

Clear ==
  /\ pc = "clear"
  /\ RemoveProject
  /\ UNCHANGED <<memory, pc, task, bounds>>

\* Startup goes on to load what is installed; a command begins.
RecoveryEnds ==
  /\ pc = "clear" /\ project.state = "none"
  /\ IF Starting
     THEN /\ routes' = target /\ settings' = config
          /\ pc' = "idle" /\ task' = NoTask
     ELSE /\ pc' = "begin" /\ UNCHANGED <<memory, task>>
  /\ UNCHANGED <<disk, bounds>>

RecoveryFaults ==
  /\ pc \in {"recover", "scan", "settle", "clear"}
  /\ Fault
  /\ RecoveryFails
  /\ UNCHANGED <<disk, memory>>

-----------------------------------------------------------------------------
(* The commands: import_project_bundle (a configuration and every member), *)
(* and the installation, upgrade and removal of one component.             *)

Command(goal, new) ==
  /\ pc = "idle"
  /\ tasks < MaxTasks
  /\ tasks' = tasks + 1
  /\ pc' = "recover"
  /\ task' = [NoTask EXCEPT !.goal = goal, !.config = new, !.routes = routes,
                            !.settings = settings, !.view = Outcome]
  /\ UNCHANGED <<disk, memory, faults, crashes, saved, broken>>

\* A bundle holds every installed component, and the routes are as on disk;
\* what is removed is installed.
MayBegin ==
  IF IsImport THEN /\ \A c \in Component : target[c] # None => c \in Members
                   /\ routes = target
  ELSE \A c \in Members : task.goal[c] = None => target[c] # None

\* The checks before anything is changed: the plan, the package, the
\* baseline, the preflight of the candidate hosts.
Refuse ==
  /\ pc = "begin"
  /\ Answer("failed")
  /\ UNCHANGED <<disk, memory, bounds>>

BeginSingle ==
  /\ pc = "begin" /\ MayBegin /\ ~IsImport
  /\ pc' = "activate"
  /\ UNCHANGED <<disk, memory, task, bounds>>

\* ProjectActivation::begin: the directory, then its files up to the journal.
MakeProject ==
  /\ pc = "begin" /\ MayBegin /\ IsImport
  /\ project' = PartialProject
  /\ pc' = "prepare"
  /\ UNCHANGED <<target, txn, config, memory, task, bounds>>

Prepared == [state |-> "prepared", previous |-> settings,
             target |-> task.config, members |-> Members]

Prepare ==
  /\ pc = "prepare"
  /\ project' = Prepared
  /\ pc' = "activate"
  /\ UNCHANGED <<target, txn, config, memory, task, bounds>>

\* The directory is removed, or what of it can be; the sync may be all that failed.
PrepareFails ==
  /\ pc = "prepare"
  /\ Fault
  /\ project' \in {NoProject, PartialProject, Prepared}
  /\ Answer("failed")
  /\ UNCHANGED <<target, txn, config, memory>>

-----------------------------------------------------------------------------
(* PreparedPlugin::activate, prepare_plugin_removal and their mapping       *)
(* counterparts, for one member after the other.                           *)

\* The journal of a transaction that was just made.
Journal(c) == [Partial EXCEPT !.state = "activation", !.hadPrevious = target[c] # None]

MakeTransaction(c) ==
  /\ pc = "activate" /\ task.at = None
  /\ c \in Members \ ToSet(task.done)
  /\ txn' = [txn EXCEPT ![c] = Partial]
  /\ task' = [task EXCEPT !.at = c]
  /\ UNCHANGED <<target, project, config, memory, pc, bounds>>

WriteJournal(c) ==
  /\ pc = "activate" /\ task.at = c
  /\ txn[c].state = "partial"
  /\ txn' = [txn EXCEPT ![c] = Journal(c)]
  /\ UNCHANGED <<target, project, config, memory, pc, task, bounds>>

\* The installed directory has to be renamed into the transaction.
HasToMove(c) == txn[c].hadPrevious /\ txn[c].previous = None

SetAside(c) ==
  /\ pc = "activate" /\ task.at = c
  /\ txn[c].state = "activation" /\ HasToMove(c)
  /\ txn' = [txn EXCEPT ![c].previous = target[c]]
  /\ target' = [target EXCEPT ![c] = None]
  /\ UNCHANGED <<project, config, memory, pc, task, bounds>>

\* The staging directory is renamed; a removal has none.
PutInPlace(c) ==
  /\ pc = "activate" /\ task.at = c
  /\ txn[c].state = "activation" /\ ~HasToMove(c)
  /\ target' = [target EXCEPT ![c] = task.goal[c]]
  /\ task' = [task EXCEPT !.at = None, !.done = Append(@, c)]
  /\ UNCHANGED <<txn, project, config, memory, pc, bounds>>

\* An import undoes the members before this one, another command is over.
ActivationFailed ==
  IF IsImport THEN pc' = "undo" /\ task' = [task EXCEPT !.at = None]
  ELSE Answer("failed")

\* A step of the activation fails before anything was moved.
ActivationFailsEarly ==
  LET c == task.at IN
  /\ pc = "activate"
  /\ Fault
  /\ \/ c = None /\ ToSet(task.done) # Members /\ UNCHANGED txn
     \/ /\ c # None /\ (txn[c].state = "partial" \/ HasToMove(c))
        /\ \E t \in Leavings(txn[c]) : txn' = [txn EXCEPT ![c] = t]
  /\ ActivationFailed
  /\ UNCHANGED <<target, project, config, memory>>

\* A transaction is removed, at least in part, with what it holds.
Dropped(c) == \E t \in {NoTransaction, Partial} : txn' = [txn EXCEPT ![c] = t]

\* The new directory cannot be put in place: the previous one is renamed
\* back.  If that fails too a plugin keeps its transaction, while a mapping
\* removes it with the previous directory inside.
PutInPlaceFails(c) ==
  /\ pc = "activate" /\ task.at = c
  /\ txn[c].state = "activation" /\ ~HasToMove(c) /\ task.goal[c] # None
  /\ \/ /\ Fault
        /\ target' = [target EXCEPT ![c] = txn[c].previous]
        /\ \E t \in Leavings([txn[c] EXCEPT !.previous = None]) : txn' = [txn EXCEPT ![c] = t]
     \/ Fault /\ UNCHANGED <<target, txn>>
     \/ /\ BreakingFault
        /\ c \in Local /\ txn[c].previous # None
        /\ UNCHANGED target /\ Dropped(c)
  /\ ActivationFailed
  /\ UNCHANGED <<project, config, memory>>

\* A mapping that cannot be loaded in place is exchanged again: it is renamed
\* away, the previous directory back, and the transaction is removed.  Whatever
\* of it fails is dropped.
MappingDoesNotLoad(c) ==
  /\ pc = "activate" /\ task.at = c /\ c \in Local
  /\ txn[c].state = "activation" /\ ~HasToMove(c) /\ task.goal[c] # None
  /\ \/ /\ UNCHANGED bounds
        /\ target' = [target EXCEPT ![c] = txn[c].previous]
        /\ txn' = [txn EXCEPT ![c] = NoTransaction]
     \/ /\ Fault
        /\ target' = [target EXCEPT ![c] = txn[c].previous]
        /\ \E t \in Leavings([txn[c] EXCEPT !.previous = None]) : txn' = [txn EXCEPT ![c] = t]
     \/ /\ Fault
        /\ target' \in {target, [target EXCEPT ![c] = task.goal[c]]}
        /\ UNCHANGED txn
     \/ /\ BreakingFault
        /\ \/ target' = [target EXCEPT ![c] = task.goal[c]]
           \/ txn[c].previous # None /\ UNCHANGED target
        /\ Dropped(c)
  /\ ActivationFailed
  /\ UNCHANGED <<project, config, memory>>

-----------------------------------------------------------------------------
(* Switching and committing.                                               *)

Activated == pc = "activate" /\ task.at = None /\ ToSet(task.done) = Members

\* inspect_all_plugins and the digests reject what is on disk now, or
\* replace_manifests rejects the routes.
Reject ==
  /\ Activated
  /\ pc' = "undo"
  /\ UNCHANGED <<disk, memory, task, bounds>>

SwitchRoutes ==
  /\ Activated
  /\ routes' = [c \in Component |-> IF c \in Members THEN task.goal[c] ELSE routes[c]]
  /\ pc' = IF IsImport THEN "config" ELSE "commit"
  /\ UNCHANGED <<disk, settings, task, bounds>>

SwitchConfig ==
  /\ pc = "config"
  /\ config' = task.config /\ settings' = task.config
  /\ pc' = "mark"
  /\ UNCHANGED <<target, txn, project, routes, task, bounds>>

\* replace_desktop_config changes nothing when it fails.
SwitchConfigFails ==
  /\ pc = "config"
  /\ routes' = task.routes
  /\ pc' = "undo"
  /\ UNCHANGED <<disk, settings, task, bounds>>

\* The old configuration and routes come back, then the components.  When the
\* configuration does not, the answer says so, and the components still do.
Revert ==
  /\ \/ /\ config' = task.settings /\ settings' = task.settings
        /\ UNCHANGED <<task, saved>>
     \/ /\ UNCHANGED <<config, settings>>
        /\ task' = [task EXCEPT !.kept = TRUE]
        /\ saved' = saved \cup {task.config}
  /\ routes' = task.routes
  /\ pc' = "undo"

\* The last verification before the commit point fails.
RejectAtLast ==
  /\ pc = "mark"
  /\ Revert
  /\ UNCHANGED <<target, txn, project, faults, crashes, tasks, broken>>

\* Mutant: the project is not marked.
Unmarked == project

Marked == [project EXCEPT !.state = "committed"]

MarkCommitted ==
  /\ pc = "mark"
  /\ project' = Marked
  /\ saved' = {task.config}
  /\ pc' = "commit"
  /\ UNCHANGED <<target, txn, config, memory, task, faults, crashes, tasks, broken>>

\* The rename fails, or (where directories are synced) the sync after it: the
\* command goes back although a restart would complete it.
MarkFails ==
  /\ pc = "mark"
  /\ faults < MaxFaults /\ faults' = faults + 1
  /\ Revert
  /\ \/ UNCHANGED <<project, broken>>
     \/ project' = Marked /\ broken' = TRUE
  /\ UNCHANGED <<target, txn, crashes, tasks>>

\* commit_grouped of the members in order, or commit of the single one.
CommitMember ==
  /\ pc = "commit" /\ task.done # <<>>
  /\ MarkTransaction(Head(task.done))
  /\ UNCHANGED <<project, config, memory, pc, task, bounds>>

CleanMember ==
  /\ pc = "commit" /\ task.done # <<>>
  /\ RemoveCommitted(Head(task.done))
  /\ task' = [task EXCEPT !.done = Tail(@)]
  /\ UNCHANGED <<project, config, memory, pc, bounds>>

\* A directory that cannot be removed is left to the next recovery.
CleanMemberLater ==
  /\ pc = "commit" /\ task.done # <<>>
  /\ txn[Head(task.done)].state = "committed"
  /\ Fault
  /\ task' = [task EXCEPT !.done = Tail(@)]
  /\ UNCHANGED <<disk, memory, pc>>

\* A member of a committed project is left to the next recovery; a single
\* one is rolled back by its drop, and its route restored.
CommitFails ==
  /\ pc = "commit" /\ task.done # <<>>
  /\ txn[Head(task.done)].state = "activation"
  /\ Fault
  /\ IF IsImport
     THEN /\ task' = [task EXCEPT !.done = Tail(@), !.failed = TRUE]
          /\ UNCHANGED <<pc, routes>>
     ELSE /\ pc' = "undo" /\ task' = [task EXCEPT !.retried = TRUE]
          /\ routes' = task.routes
  /\ UNCHANGED <<disk, settings>>

CommitEnds ==
  /\ pc = "commit" /\ task.done = <<>>
  /\ IF IsImport /\ ~task.failed THEN pc' = "finish" /\ UNCHANGED task
     ELSE Answer("ok")
  /\ UNCHANGED <<disk, memory, bounds>>

-----------------------------------------------------------------------------
(* rollback_project_components and the rollback of a single component.      *)

\* The members activated last go first.
Undo ==
  /\ pc = "undo" /\ task.done # <<>>
  /\ LET c == Last(task.done) IN
       /\ RollbackStep(c)
       /\ task' = IF txn'[c].state # "none" THEN task
                  ELSE [task EXCEPT !.done = Front(@), !.retried = FALSE]
  /\ UNCHANGED <<project, config, memory, pc, bounds>>

\* A failed rollback is tried once more when the activation is dropped.
UndoFailsOnce ==
  /\ pc = "undo" /\ task.done # <<>>
  /\ Fault
  /\ task' = [task EXCEPT !.failed = TRUE, !.retried = ~@,
                          !.done = IF task.retried THEN Front(@) ELSE @]
  /\ UNCHANGED <<disk, memory, pc>>

\* Only when every member was rolled back the project is aborted.
MayAbort == IsImport /\ ~task.failed

UndoEnds ==
  /\ pc = "undo" /\ task.done = <<>>
  /\ IF MayAbort THEN pc' = "abort" /\ UNCHANGED task ELSE Answer("failed")
  /\ UNCHANGED <<disk, memory, bounds>>

\* Both remove the project's directory.  Left behind, a committed project is
\* finished and a prepared one aborted by the recovery.
Finish ==
  /\ pc \in {"finish", "abort"}
  /\ RemoveProject
  /\ IF project'.state = "none" THEN Answer(IF pc = "finish" THEN "ok" ELSE "failed")
     ELSE UNCHANGED <<pc, task>>
  /\ UNCHANGED <<memory, bounds>>

FinishFails ==
  /\ pc \in {"finish", "abort"}
  /\ Fault
  /\ Answer(IF pc = "finish" THEN "ok" ELSE "failed")
  /\ UNCHANGED <<disk, memory>>

-----------------------------------------------------------------------------
\* save_desktop_config, which does not run the recovery: as long as a project
\* is left behind, a restart does not find what was saved.
SaveConfig(new) ==
  /\ pc = "idle"
  /\ tasks < MaxTasks
  /\ tasks' = tasks + 1
  /\ config' = new /\ settings' = new
  /\ task' = NoTask
  /\ UNCHANGED <<target, txn, project, routes, pc, faults, crashes, broken>>
  /\ saved' = {new, Outcome'.config}

Crash ==
  /\ pc # "down"
  /\ crashes < MaxCrashes
  /\ crashes' = crashes + 1
  /\ pc' = "down" /\ task' = NoTask
  /\ routes' = [c \in Component |-> None] /\ UNCHANGED settings
  /\ UNCHANGED <<disk, faults, tasks, saved, broken>>

-----------------------------------------------------------------------------
Init ==
  /\ target \in Installed
  /\ txn = [c \in Component |-> NoTransaction]
  /\ project = NoProject
  /\ config \in Config
  /\ routes = [c \in Component |-> None]
  /\ settings = config
  /\ pc = "down"
  /\ task = NoTask
  /\ faults = 0 /\ crashes = 0 /\ tasks = 0
  /\ saved = {config} /\ broken = FALSE

Recovery ==
  \/ Startup \/ RecoverProject \/ RecoveryRefused \/ RecoveryFaults
  \/ \E c \in Component : Scan(c) \/ Settle(c)
  \/ ScanEnds \/ SettleLater \/ SettleEnds \/ Clear \/ RecoveryEnds

Activation ==
  \/ \E c \in Component :
       \/ MakeTransaction(c) \/ WriteJournal(c) \/ SetAside(c) \/ PutInPlace(c)
       \/ PutInPlaceFails(c) \/ MappingDoesNotLoad(c)
  \/ ActivationFailsEarly

Commit ==
  \/ Reject \/ SwitchRoutes \/ SwitchConfig \/ SwitchConfigFails \/ RejectAtLast
  \/ MarkCommitted \/ MarkFails \/ CommitMember \/ CleanMember \/ CleanMemberLater
  \/ CommitFails \/ CommitEnds

Next ==
  \/ Recovery
  \/ \E S \in (SUBSET Component) \ {{}}, new \in Config :
       \E goal \in [S -> Version] : Command(goal, new)
  \/ \E c \in Component, v \in Version \cup {None} : Command([m \in {c} |-> v], None)
  \/ Refuse \/ BeginSingle \/ MakeProject \/ Prepare \/ PrepareFails
  \/ Activation \/ Commit
  \/ Undo \/ UndoFailsOnce \/ UndoEnds \/ Finish \/ FinishFails
  \/ \E new \in Config : SaveConfig(new)
  \/ Crash

Spec == Init /\ [][Next]_vars

-----------------------------------------------------------------------------
\* Types of the variables: what a transaction set aside is never a directory
\* that is being removed, the controller never serves one, and no unreadable
\* configuration is ever current.
TypeOK ==
  /\ target \in [Component -> Content]
  /\ txn \in [Component -> Transaction]
  /\ project \in Project
  /\ config \in Config /\ settings \in Config /\ saved \subseteq Config
  /\ routes \in Installed
  /\ pc \in {"down", "recover", "scan", "settle", "clear", "idle", "begin", "prepare",
             "activate", "config", "mark", "commit", "undo", "finish", "abort"}
  /\ task \in Task
  /\ faults \in 0..MaxFaults /\ crashes \in 0..MaxCrashes /\ tasks \in 0..MaxTasks
  /\ broken \in BOOLEAN

\* What a restart finds changes in one step, from everything before to
\* everything a command asked for, at the rename that commits it; no crash,
\* recovery, failed step or failed undo changes it or shows a mixture of
\* components and configurations.  Excepted are three failures the code does not
\* answer for: a configuration that cannot be restored (it may stay, Keep), a
\* mapping lost by an undo whose error is dropped and a commit whose sync
\* fails (after these nothing is claimed, Break).
Atomic == INSTANCE AtomicSwitch WITH
  view <- Outcome,
  wanted <- saved,
  broken <- broken,
  request <- IF Members = {} \/ pc = "idle" THEN {}
             ELSE {[goal |-> task.goal, config |-> task.config]}

SwitchesAtomically == Atomic!Spec

\* The configurations that may show after a command that was taken back.
Remaining ==
  {task.view.config, task.settings} \cup (IF task.kept THEN {task.config} ELSE {})

\* The one that the memory shows meanwhile.
Showing == IF task.kept THEN task.config ELSE task.settings

\* What a command answers is what a restart finds: everything it was asked
\* for after a success, even when its cleanup was put off, and exactly what
\* was there before after a failure, even when its rollback failed.  A saved
\* configuration that a project left behind has hidden may show after it, and
\* the new one when the answer says that the old one could not be restored.
ReportsAreTrue ==
  pc = "idle" =>
    /\ task.answer = "ok" =>
         /\ \A c \in Members : Outcome.components[c] = task.goal[c]
         /\ IsImport => Outcome.config = task.config
    /\ task.answer = "failed" =>
         /\ Outcome.components = task.view.components
         /\ Outcome.config \in Remaining

\* Between commands the controller serves exactly the components a restart
\* would load, although a command may have left its transactions behind.
RoutesMatchDisk == pc = "idle" => routes = Outcome.components

\* crates/webplus-plugin-package: recovery restores the state before the
\* installation after a process crash.  It does not hold even if no file
\* operation failed (README).
StartupRecovers ==
  faults = 0 /\ pc = "down" =>
    project.state # "partial" /\ \A c \in Component : txn[c].state # "partial"

\* docs/project-bundles.md: the recovery that a command runs never changes the
\* configuration on disk while the one in memory stays.  It does not hold
\* (README): a committed import that was left behind does.
MemoryMatchesDisk == pc = "idle" => config = settings

\* What a command answered, what the controller serves and what a restart
\* finds agree between commands, whatever was put off or failed, up to a
\* failure that the code does not answer for (broken, see SwitchesAtomically).
AnswersMatchDisk == ~broken => TypeOK /\ ReportsAreTrue /\ RoutesMatchDisk

-----------------------------------------------------------------------------
(* What these rest on, up to a failure that the code does not answer for.   *)

\* A directory is taken apart only when its transaction is going to be rolled
\* back, and what that puts back, or nothing, is whole.
TransactionsFit ==
  /\ \A c \in Component :
       /\ txn[c].state = "activation" /\ ~txn[c].hadPrevious => txn[c].previous = None
       /\ target[c] = Torn => /\ txn[c].state = "activation" /\ ~Committed(c)
                              /\ txn[c].hadPrevious => txn[c].previous # None
  /\ project.state \in {"prepared", "committed"} => {project.previous, project.target} \subseteq Config

Recovering == {"recover", "scan", "settle", "clear"}
Settled == {"none", "committed"}

\* A recovery works on one root after the other and leaves no transaction
\* that a restart would roll back.
RecoveriesSettle ==
  /\ pc \in {"scan", "settle", "clear", "begin"} => config = Outcome.config
  /\ pc \in {"scan", "settle"} /\ task.root = "local" =>
       \A c \in Signed : txn[c].state \in Settled
  /\ pc \in {"clear", "begin", "prepare"} => \A c \in Component : txn[c].state \in Settled
  /\ pc \in {"clear", "begin", "prepare"} => task.at = None
  /\ pc \in Recovering \cup {"down", "begin", "prepare"} => task.done = <<>>

\* A command remembers what a restart found when it was given.
CommandsRemember ==
  /\ pc \notin Recovering \cup {"down", "idle"} => Members # {}
  /\ pc = "down" => Members = {}
  /\ Members # {} =>
       /\ task.view \in View /\ task.settings \in Config
       /\ task.routes = task.view.components
       /\ IsImport \/ \E c \in Component : Members = {c}
       /\ ToSet(task.done) \subseteq Members

\* Before it commits, a restart finds what it found before; the memory is
\* switched at its own steps.
Before == Recovering \cup {"begin", "prepare", "activate", "config", "mark", "undo", "abort"}
Switched == {"config", "mark", "commit", "finish"}

NothingShowsBefore ==
  Members # {} /\ pc \in Before =>
    /\ Outcome.components = task.view.components
    /\ pc \in Recovering \cup {"begin"} => Outcome.config = task.view.config
    /\ Remaining \subseteq saved
    /\ pc # "mark" => settings = Showing
    /\ pc \notin Switched => routes = task.routes

\* An import's project says on which side a restart comes out.
ProjectFits ==
  /\ pc = "begin" => project.state = "none"
  /\ pc = "prepare" => IsImport /\ project.state = "partial"
  /\ pc \in {"config", "mark", "abort", "finish"} => IsImport
  /\ pc \in {"activate", "undo", "commit"} /\ ~IsImport => project.state = "none"
  /\ pc \in {"activate", "config", "mark", "undo", "abort"} /\ IsImport =>
       \/ project = [state |-> "prepared", previous |-> task.settings,
                     target |-> task.config, members |-> Members]
       \/ pc = "abort" /\ project.state = "partial"
  /\ pc \in {"commit", "finish"} /\ IsImport =>
       \/ project.state = "committed" /\ project.target = task.config /\ project.members = Members
       \/ pc = "finish" /\ project.state = "partial"

\* The configuration that shows was asked for, whichever side that is.
ConfigFits ==
  /\ task.kept => IsImport /\ pc \in {"undo", "abort", "idle"}
  /\ pc \in {"prepare", "activate", "config", "undo", "abort"} /\ IsImport =>
       config \in Remaining
  /\ pc \in {"activate", "undo", "commit"} /\ ~IsImport =>
       /\ config = task.view.config /\ settings = task.settings
       /\ {task.view.config, task.settings} \subseteq saved
  /\ pc \in {"mark", "commit", "finish"} /\ IsImport => config = task.config /\ settings = task.config
  /\ Outcome.config \in saved
  /\ pc \in {"idle", "commit", "finish"} => settings \in saved

\* Members are put in place one by one, all of them before anything switches,
\* and committed one by one.
MembersInPlace ==
  /\ pc = "activate" =>
       /\ task.at \in (Members \cup {None}) \ ToSet(task.done)
       /\ \A c \in ToSet(task.done) : target[c] = task.goal[c]
       /\ \A c \in Component \ (ToSet(task.done) \cup {task.at}) : txn[c].state \in Settled
  /\ pc \in {"config", "mark"} => ToSet(task.done) = Members
  /\ pc \in Switched =>
       /\ \A c \in Members : target[c] = task.goal[c]
       /\ routes = [c \in Component |-> IF c \in Members THEN task.goal[c] ELSE task.routes[c]]
  /\ pc \in {"commit", "finish"} =>
       \A c \in Component \ Members : Outcome.components[c] = task.view.components[c]
  /\ pc = "commit" =>
       /\ \A c \in Members \ ToSet(task.done) : txn[c].state \in Settled \/ (IsImport /\ task.failed)
       /\ ~IsImport => \A c \in Members :
            txn[c].state = "activation" => Outcome.components[c] = task.view.components[c]
  /\ pc = "finish" => \A c \in Members : txn[c].state \in Settled

IInv ==
  /\ TypeOK /\ TransactionsFit /\ RecoveriesSettle /\ CommandsRemember /\ NothingShowsBefore
  /\ ProjectFits /\ ConfigFits /\ MembersInPlace /\ ReportsAreTrue /\ RoutesMatchDisk

UntilBroken == broken \in BOOLEAN /\ (broken \/ IInv)

=============================================================================
