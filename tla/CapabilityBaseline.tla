-------------------------- MODULE CapabilityBaseline --------------------------
(***************************************************************************)
(* The capability baseline (plugin_api_baseline.rs): which APIs of signed  *)
(* plugins and which contents of local mappings were accepted last, kept   *)
(* across restarts so that directories changed behind the application's    *)
(* back are not served.  The commands of lib.rs that change what is        *)
(* installed write the next baseline beside the current one before their   *)
(* directories commit, and promote it afterwards; the next start decides   *)
(* what a crash left.                                                      *)
(*                                                                         *)
(* install_lock lets one command run at a time, but the directories can    *)
(* be changed from outside at any step, and a step on files can fail.  A   *)
(* change of directories is one step here: ProjectActivation shows that    *)
(* what a restart finds of it switches at once.                            *)
(***************************************************************************)
EXTENDS Integers, FiniteSets, Sequences

CONSTANTS
  Plugin,      \* identities of plugins and mappings
  Api,         \* APIs of signed plugins: each holds the smaller ones
  Runtime,     \* what a mapping runs
  Cases,       \* debug cases of a mapping
  None,
  Schemas,     \* schemas the baseline file may have at first
  SyncsDirectories,  \* cfg(unix): sync_directory does something and may fail
  MaxChanges,  \* bound: commands and changes made from outside
  MaxFaults,   \* bound: file operations that fail
  MaxCrashes   \* bound: process crashes

ASSUME BaselineAssumption ==
  /\ Api \subseteq Nat /\ Schemas \subseteq 2..4 /\ SyncsDirectories \in BOOLEAN
  /\ {MaxChanges, MaxFaults, MaxCrashes} \subseteq Nat

Signed == [kind : {"signed"}, contract : Api, cases : {None}]
Mapping == [kind : {"mapping"}, contract : Runtime, cases : Cases]
Content == Signed \cup Mapping

VARIABLES
  disk,      \* [Plugin -> content of its directory]
  txn,       \* directories to restore unless the transaction commits
  base,      \* plugin-api-baseline.json
  pending,   \* plugin-api-baseline.json.pending
  entries,   \* PluginApiBaselineStore::entries
  waiting,   \* PluginApiBaselineStore::pending_entries
  served,    \* the controller's routes
  pc,        \* the step of the command or of the start that runs
  task,      \* that command
  tasks, faults, crashes, outside,
  approved,  \* history: contents of mappings an operator confirmed
  retired,   \* history: identities whose removal an operator confirmed
  blame      \* history: what happened to the directories since the plan

files == <<disk, txn, base, pending>>
memory == <<entries, waiting, served>>
bounds == <<tasks, faults, crashes, outside>>
history == <<approved, retired, blame>>
vars == <<files, memory, pc, task, bounds, history>>

Partial(S, T) == UNION {[D -> T] : D \in SUBSET S}
Without(f, S) == [p \in DOMAIN f \ S |-> f[p]]
With(f, g) == [p \in DOMAIN f \cup DOMAIN g |-> IF p \in DOMAIN g THEN g[p] ELSE f[p]]

\* The directories that hold something.
Present(d) == [p \in {q \in Plugin : d[q] # None} |-> d[p]]

\* Debug cases are not a part of a route.
Route(c) == [c EXCEPT !.cases = None]
Routes(manifests) == [p \in DOMAIN manifests |-> Route(manifests[p])]

-----------------------------------------------------------------------------
(* plugin_api_baseline.rs: entries and documents.                          *)

Entry(c, installed) == [content |-> c, installed |-> installed]
Document(schema, plugins) == [schema |-> schema, plugins |-> plugins]

\* compare_public_api: a signed plugin keeps every service and method.
Compatible(old, new) == new.contract >= old.contract

\* same_capability_for_schema; same_capability is the one of schema 4.
SameCapability(a, b, schema) ==
  a.kind = b.kind /\ a.contract = b.contract /\ (schema < 4 \/ a.cases = b.cases)

\* document_matches_candidates: exactly the installed entries are there.
Matches(doc, candidates) ==
  LET known == {p \in DOMAIN candidates :
                  doc.schema >= 3 \/ candidates[p].kind = "signed"}
  IN /\ known = {p \in DOMAIN doc.plugins : doc.plugins[p].installed}
     /\ \A p \in known : SameCapability(doc.plugins[p].content, candidates[p], doc.schema)

\* breaking_plugin_ids
Breaking(accepted, candidates) ==
  {p \in DOMAIN candidates \cap DOMAIN accepted :
     /\ candidates[p].kind = "signed"
     /\ accepted[p].content.kind = "signed" => ~Compatible(accepted[p].content, candidates[p])}

\* mutant: a mapping the baseline does not know is not changed.
ChangedKnown(accepted, candidates) ==
  {p \in DOMAIN candidates \cap DOMAIN accepted :
     candidates[p].kind = "mapping" /\ ~SameCapability(accepted[p].content, candidates[p], 4)}

\* changed_local_mapping_ids
Changed(accepted, candidates) ==
  {p \in DOMAIN candidates :
     /\ candidates[p].kind = "mapping"
     /\ p \in DOMAIN accepted => ~SameCapability(accepted[p].content, candidates[p], 4)}

\* mutant: only what is installed is kept.
MergedInstalled(previous, candidates, blocked) ==
  [p \in DOMAIN candidates \ blocked |-> Entry(candidates[p], TRUE)]

\* merge_reviewed_entries: what is absent or blocked stays as a tombstone.
Merged(previous, candidates, blocked) ==
  With([p \in DOMAIN previous |-> Entry(previous[p].content, FALSE)],
       [p \in DOMAIN candidates \ blocked |-> Entry(candidates[p], TRUE)])

\* prepare_transition_retiring: absent identities stay, except the retired.
NextEntries(candidates, retiring) ==
  Merged(Without(entries, retiring \ DOMAIN candidates), candidates, {})

\* The adoptions of documents that were written before schema 4.
Adopted(doc, candidates) ==
  LET mappings == {p \in DOMAIN candidates : candidates[p].kind = "mapping"}
      accepts(p) == /\ doc.plugins[p].installed /\ p \in mappings
                    /\ SameCapability(doc.plugins[p].content, candidates[p], 3)
  IN IF doc.schema < 3
     THEN With([p \in mappings |-> Entry(candidates[p], TRUE)], doc.plugins)
     ELSE IF doc.schema = 3
     THEN [p \in DOMAIN doc.plugins |->
             IF accepts(p) THEN Entry([doc.plugins[p].content EXCEPT !.cases = candidates[p].cases], TRUE)
             ELSE doc.plugins[p]]
     ELSE doc.plugins

\* changed_local_mapping_ids looks at the pending entries first.
AcceptedMappings == IF waiting # None THEN waiting ELSE entries

\* inspect_all_plugins_for_state: without what the baseline quarantines.
Inspected ==
  Without(Present(disk), Breaking(entries, Present(disk)) \cup Changed(AcceptedMappings, Present(disk)))

\* manifests_match_active_routes
RoutesMatch == served = Routes(Inspected)

\* accepts_local_mapping_definition
AcceptsDefinition(p) ==
  LET accepted == AcceptedMappings
  IN p \in DOMAIN accepted /\ accepted[p].installed /\ accepted[p].content.cases = disk[p].cases

-----------------------------------------------------------------------------
NoTask == [kind |-> "none", goal |-> <<>>, seen |-> <<>>, routes |-> <<>>, candidates |-> <<>>,
           todo |-> <<>>, prepared |-> FALSE, answer |-> "none", expect |-> <<>>]

Members == DOMAIN task.goal

Fault == faults < MaxFaults /\ faults' = faults + 1 /\ UNCHANGED <<tasks, crashes, outside>>

\* The next step of the command.
Advance ==
  /\ pc' = IF task.todo = <<>> THEN "promote" ELSE Head(task.todo)
  /\ task' = [task EXCEPT !.todo = IF @ = <<>> THEN @ ELSE Tail(@)]

Answer(answer) ==
  /\ pc' = "idle"
  /\ task' = [NoTask EXCEPT !.answer = answer, !.kind = task.kind, !.goal = task.goal,
                            !.expect = task.expect]

-----------------------------------------------------------------------------
(* Startup: the directory transactions, then PluginApiBaselineStore::open. *)

Restored == IF txn = None THEN disk ELSE With(disk, txn)

\* The decision on a pending record and the entries that come of it.
PendingWins(candidates) == pending # None /\ Matches(pending, candidates)
Undecided(candidates) ==
  /\ pending # None
  /\ base # None => ~Matches(pending, candidates) /\ ~Matches(base, candidates)

\* What a start from these directories serves, or None when it fails.
StartFrom(directories) ==
  LET candidates == Present(directories)
      doc == IF PendingWins(candidates) THEN pending ELSE base
      accepted == Adopted(doc, candidates)
  IN IF Undecided(candidates) THEN None
     ELSE IF base = None
     THEN Routes([p \in {q \in DOMAIN candidates : candidates[q].kind = "signed"} |-> candidates[p]])
     ELSE Routes(Without(candidates, Breaking(accepted, candidates) \cup Changed(accepted, candidates)))

NextStart == StartFrom(Restored)

\* recover_plugin_store and the inspection of the directories.
Startup ==
  /\ pc \in {"down", "refused"}
  /\ disk' = Restored /\ txn' = None
  /\ task' = [NoTask EXCEPT !.candidates = Present(Restored)]
  /\ pc' = "open"
  /\ UNCHANGED <<base, pending, memory, bounds, history>>

\* A start without a baseline accepts the signed plugins alone.
OpenWithoutBaseline ==
  LET signed == {p \in DOMAIN task.candidates : task.candidates[p].kind = "signed"}
  IN
  /\ pc = "open" /\ base = None /\ pending = None
  /\ entries' = [p \in signed |-> Entry(task.candidates[p], TRUE)]
  /\ base' = Document(4, entries')
  /\ waiting' = None
  /\ served' = [p \in signed |-> Route(task.candidates[p])]
  /\ pc' = "idle" /\ task' = NoTask
  /\ UNCHANGED <<disk, txn, pending, bounds, history>>

\* recover_pending_transition: the pending record becomes the baseline, or
\* the baseline stays; the record is removed in a step of its own.
AdoptPending ==
  /\ pc = "open" /\ base # None
  /\ base' = IF PendingWins(task.candidates) THEN pending ELSE base
  /\ ~Undecided(task.candidates)
  /\ pc' = "forget pending"
  /\ UNCHANGED <<disk, txn, pending, memory, task, bounds, history>>

Refuse ==
  /\ pc = "open"
  /\ Undecided(task.candidates)
  /\ pc' = "refused" /\ task' = NoTask
  /\ UNCHANGED <<files, memory, bounds, history>>

ForgetPending ==
  /\ pc = "forget pending"
  /\ pending' = None
  /\ pc' = "review"
  /\ UNCHANGED <<disk, txn, base, memory, task, bounds, history>>

\* The review of what is on disk, persisted, and the routes.
Review ==
  LET accepted == Adopted(base, task.candidates)
      blocked == Breaking(accepted, task.candidates) \cup Changed(accepted, task.candidates)
  IN
  /\ pc = "review"
  /\ entries' = Merged(accepted, task.candidates, blocked)
  /\ base' = Document(IF base.schema = 4 THEN base.schema ELSE 4, entries')
  /\ waiting' = None
  /\ served' = Routes(Without(task.candidates, blocked))
  /\ approved' = approved \cup
       {<<p, task.candidates[p]>> : p \in {q \in DOMAIN task.candidates \ blocked :
          base.schema < 4 /\ task.candidates[q].kind = "mapping"}}
  /\ pc' = "idle" /\ task' = NoTask
  /\ UNCHANGED <<disk, txn, pending, bounds, retired, blame>>

StartupFails ==
  /\ pc \in {"open", "forget pending", "review"}
  /\ Fault
  /\ pc' = "down" /\ task' = NoTask
  /\ UNCHANGED <<files, memory, history>>

-----------------------------------------------------------------------------
(* The commands.  An operator is shown a plan and confirms it later; the   *)
(* command checks that the plan still holds.                               *)

\* The order of the steps of each command, once it may begin.
InstallSteps == <<"prepare", "activate", "switch", "commit">>
SaveSteps == <<"prepare", "activate", "switch", "commit">>
UninstallSteps == <<"activate", "prepare", "switch", "commit">>
DeleteSteps == <<"activate", "prepare", "switch", "commit">>
ImportSteps == <<"activate", "prepare", "switch", "verify", "commit">>
ReloadSteps == <<"prepare", "switch", "verify">>
CasesSteps == <<"activate", "prepare">>

Steps(kind) ==
  CASE kind = "install" -> InstallSteps [] kind = "uninstall" -> UninstallSteps
    [] kind = "save" -> SaveSteps [] kind = "delete" -> DeleteSteps
    [] kind = "import" -> ImportSteps [] kind = "reload" -> ReloadSteps
    [] kind = "cases" -> CasesSteps

\* inspect_*: the state the operator confirms.
Plan(kind, goal) ==
  /\ pc = "idle"
  /\ tasks + outside < MaxChanges /\ tasks' = tasks + 1
  /\ pc' = "plan"
  /\ task' = [NoTask EXCEPT !.kind = kind, !.goal = goal, !.seen = disk,
                            !.routes = served, !.expect = NextStart]
  /\ blame' = IF pending = None THEN blame \cap {"raced"} ELSE blame
  /\ UNCHANGED <<files, memory, faults, crashes, outside, approved, retired>>

\* inspect_plugin_package, inspect_signed_plugin_uninstall
InspectPackage(p, c) == Plan("install", [q \in {p} |-> c])
InspectUninstall(p) == Plan("uninstall", [q \in {p} |-> None])
\* inspect_local_mapping_import and the form that is saved; the removal; the
\* debug cases.
InspectMapping(p, c) == Plan("save", [q \in {p} |-> c])
InspectMappingRemoval(p) == Plan("delete", [q \in {p} |-> None])
EditCases(p, c) == Plan("cases", [q \in {p} |-> c])
\* inspect_project_bundle, inspect_plugin_reload
InspectProject(goal) == Plan("import", goal)
InspectReload == Plan("reload", <<>>)

\* The one identity the command is about, and its new content.
Target == CHOOSE p \in Members : TRUE
Wanted == task.goal[Target]
Is(manifests, p, kind) == p \in DOMAIN manifests /\ manifests[p].kind = kind

\* activate_prepared_plugin
MayInstall ==
  LET candidates == With(Inspected, task.goal) IN
  /\ Target \in DOMAIN Inspected => Inspected[Target].kind = "signed"
  /\ disk[Target] # None => disk[Target].kind = "signed"
  /\ disk[Target] = task.seen[Target]
  /\ Breaking(entries, candidates) = {}
  /\ task' = [task EXCEPT !.candidates = candidates, !.routes = served]

\* uninstall_signed_plugin and delete_local_mapping
MayRemove(kind) ==
  /\ RoutesMatch
  /\ Is(Inspected, Target, kind)
  /\ disk[Target] = task.seen[Target]
  /\ task' = [task EXCEPT !.routes = served]

\* save_local_mapping, import_local_mapping
MaySave ==
  /\ RoutesMatch
  /\ disk[Target] # None => disk[Target].kind = "mapping"
  /\ task' = [task EXCEPT !.candidates = With(Inspected, task.goal), !.routes = served]

\* reload_plugins: what is on disk, without the quarantine of the baseline.
MayReload ==
  LET raw == Present(disk) IN
  /\ Breaking(entries, raw) = {}
  /\ \A p \in DOMAIN served : served[p].kind = "signed" =>
       Is(raw, p, "signed") /\ Compatible(served[p], raw[p])
  /\ disk = task.seen /\ served = task.routes
  /\ task' = [task EXCEPT !.candidates = raw]

\* prepare_project_bundle and import_project_bundle
MayImport ==
  /\ Inspected = Present(disk) /\ RoutesMatch
  /\ DOMAIN Inspected \subseteq Members
  /\ \A p \in DOMAIN Inspected : Is(task.goal, p, Inspected[p].kind)
  /\ Breaking(entries, task.goal) = {}
  /\ disk = task.seen
  /\ task' = [task EXCEPT !.candidates = task.goal, !.routes = served]

\* approved_local_mapping_debug_context
MayDebug(p) == RoutesMatch /\ Is(Inspected, p, "mapping") /\ AcceptsDefinition(p)

MayEditCases ==
  /\ MayDebug(Target)
  /\ Wanted = [Inspected[Target] EXCEPT !.cases = Wanted.cases]
  /\ Wanted # Inspected[Target]
  /\ task' = [task EXCEPT !.candidates = With(Inspected, task.goal), !.routes = served,
                          !.seen = disk]

May ==
  CASE task.kind = "install" -> MayInstall
    [] task.kind = "uninstall" -> MayRemove("signed")
    [] task.kind = "delete" -> MayRemove("mapping")
    [] task.kind = "save" -> MaySave
    [] task.kind = "reload" -> MayReload
    [] task.kind = "import" -> MayImport
    [] task.kind = "cases" -> MayEditCases

\* The contents of mappings this command puts in service.
Confirmed ==
  LET new == IF task.kind = "reload" THEN Present(disk) ELSE Present(With(disk, task.goal))
  IN {<<p, new[p]>> : p \in {q \in DOMAIN new :
        new[q].kind = "mapping" /\ (task.kind = "reload" \/ q \in Members)}}

Check ==
  /\ pc = "plan" /\ txn = None
  /\ May
  /\ approved' = approved \cup Confirmed
  /\ retired' = retired \cup (IF task.kind \in {"uninstall", "delete"} THEN Members ELSE {})
  /\ pc' = "begin"
  /\ UNCHANGED <<files, memory, bounds, blame>>

\* recover_plugin_store at the start of a command; saving has none.
Recover ==
  /\ pc = "plan" /\ txn # None
  /\ task.kind \notin {"save", "cases"}
  /\ disk' = Restored /\ txn' = None
  /\ UNCHANGED <<base, pending, memory, pc, task, bounds, history>>

\* A check or the preflight of the candidate hosts fails.
Decline ==
  /\ pc = "plan"
  /\ Answer("failed")
  /\ UNCHANGED <<files, memory, bounds, history>>

Begin ==
  /\ pc = "begin"
  /\ pc' = Head(Steps(task.kind))
  /\ task' = [task EXCEPT !.todo = Tail(Steps(task.kind))]
  /\ UNCHANGED <<files, memory, bounds, history>>

Undo == pc' = "undo" /\ UNCHANGED task

\* The manifests the next baseline is made from.
Candidates ==
  IF task.kind \in {"uninstall", "delete"} THEN Inspected
  ELSE IF task.kind = "import" THEN Present(disk) ELSE task.candidates

\* definition_sha256_for_manifest reads the debug cases of an installed mapping
\* again; the package of an activation is still staged.
Staged == IF task.kind \in {"install", "save"} THEN Members ELSE {}
Definitions == {p \in DOMAIN Candidates \ Staged : Candidates[p].kind = "mapping"}
Recorded ==
  [p \in DOMAIN Candidates |->
     IF p \in Definitions THEN [Candidates[p] EXCEPT !.cases = disk[p].cases] ELSE Candidates[p]]

Retiring == IF task.kind \in {"uninstall", "delete"} THEN Members ELSE {}

\* ensure_project_component_manifests_match, and the commands that looked at
\* the directories before.
Preparable ==
  /\ \A p \in Definitions : Is(Present(disk), p, "mapping")
  /\ task.kind = "import" => Routes(Candidates) = Routes(task.goal)

NextDocument == Document(4, NextEntries(Recorded, Retiring))
Drift == IF Matches(Document(4, entries), Present(Restored)) THEN {} ELSE {"drift"}

\* PluginCapabilityBaselineTransition::prepare_retiring
Prepare ==
  /\ pc = "prepare"
  /\ waiting = None /\ pending = None /\ Preparable
  /\ pending' = NextDocument /\ waiting' = NextDocument.plugins
  /\ blame' = blame \cup Drift
  /\ pc' = Head(task.todo \o <<"promote">>)
  /\ task' = [task EXCEPT !.prepared = TRUE, !.todo = IF @ = <<>> THEN @ ELSE Tail(@),
                          !.candidates = Recorded]
  /\ UNCHANGED <<disk, txn, base, entries, served, bounds, approved, retired>>

\* An earlier record is still there, or the new one cannot be written; the
\* sync of its directory can fail after it was.
PrepareFails ==
  /\ pc = "prepare"
  /\ IF waiting = None /\ pending = None /\ Preparable
     THEN /\ Fault
          /\ \/ UNCHANGED <<pending, blame>>
             \/ SyncsDirectories /\ pending' = NextDocument /\ blame' = blame \cup Drift
     ELSE UNCHANGED <<pending, blame, bounds>>
  /\ Undo
  /\ UNCHANGED <<disk, txn, base, memory, approved, retired>>

\* The directories of the members, which a crash would restore; the debug
\* cases of a mapping are one file that is replaced.  What is removed or
\* edited is still what was read.
Activate ==
  /\ pc = "activate"
  /\ task.kind \in {"uninstall", "delete", "cases"} => disk[Target] = task.seen[Target]
  /\ disk' = With(disk, task.goal)
  /\ txn' = IF task.kind = "cases" THEN None ELSE [p \in Members |-> disk[p]]
  /\ blame' = blame \cup (IF task.kind = "cases" /\ pending # None THEN {"leftover"} ELSE {})
  /\ Advance
  /\ UNCHANGED <<base, pending, memory, bounds, approved, retired>>

\* maintenance is refused, or the directories cannot be changed, or what was
\* moved is not what was confirmed.
ActivateFails ==
  /\ pc = "activate"
  /\ pc' = IF task.kind = "cases" THEN "abort" ELSE "undo"
  /\ UNCHANGED task
  /\ UNCHANGED <<files, memory, bounds, history>>

\* What is found on disk before the routes change.
FoundAsWanted ==
  CASE task.kind = "install" -> Is(Inspected, Target, "signed")
    [] task.kind = "save" -> Routes(Inspected) = Routes(task.candidates)
    [] OTHER -> TRUE

Switch ==
  /\ pc = "switch"
  /\ FoundAsWanted
  /\ served' =
       CASE task.kind \in {"reload", "import"} -> Routes(task.candidates)
         [] task.kind \in {"uninstall", "delete"} -> Without(served, Members)
         [] OTHER -> With(served, [p \in Members |-> Route(Inspected[p])])
  /\ Advance
  /\ UNCHANGED <<files, entries, waiting, bounds, history>>

SwitchFails ==
  /\ pc = "switch"
  /\ Undo
  /\ UNCHANGED <<files, memory, bounds, history>>

\* The last inspection of a reload and of an import.
Verify ==
  /\ pc = "verify"
  /\ IF Present(disk) = task.candidates THEN Advance ELSE Undo
  /\ UNCHANGED <<files, memory, bounds, history>>

Commit ==
  /\ pc = "commit"
  /\ txn' = None
  /\ Advance
  /\ UNCHANGED <<disk, base, pending, memory, bounds, history>>

CommitFails ==
  /\ pc = "commit"
  /\ Fault
  /\ Undo
  /\ UNCHANGED <<files, memory, history>>

\* commit_transition: the next baseline, then the removal of the record.
Promote ==
  /\ pc = "promote"
  /\ base' = Document(4, waiting) /\ entries' = waiting
  /\ pc' = "forget"
  /\ UNCHANGED <<disk, txn, pending, waiting, served, task, bounds, history>>

Forget ==
  /\ pc = "forget"
  /\ pending' = None /\ waiting' = None
  /\ Answer("ok")
  /\ approved' = IF task.kind = "delete" /\ "raced" \notin blame
                 THEN {a \in approved : a[1] \notin Members} ELSE approved
  /\ UNCHANGED <<disk, txn, base, entries, served, bounds, retired, blame>>

\* Either is left to the next start; the command has succeeded.
PromoteFails ==
  /\ pc \in {"promote", "forget"}
  /\ Fault
  /\ \/ UNCHANGED base
     \/ SyncsDirectories /\ pc = "promote" /\ base' = Document(4, waiting)
  /\ Answer("ok")
  /\ UNCHANGED <<disk, txn, pending, memory, history>>

\* mutant: the routes stay as the command left them.
RollBackFiles ==
  /\ pc = "undo"
  /\ disk' = Restored /\ txn' = None
  /\ pc' = "abort"
  /\ UNCHANGED <<base, pending, entries, waiting, served, task, bounds, history>>

\* The rollback of the directories, and the routes there were before.
RollBack ==
  /\ pc = "undo"
  /\ disk' = IF task.kind = "cases"
             THEN IF disk[Target] = Wanted /\ Wanted # task.seen[Target]
                  THEN [disk EXCEPT ![Target] = [@ EXCEPT !.cases = task.seen[Target].cases]] ELSE disk
             ELSE Restored
  /\ txn' = None
  /\ served' = task.routes
  /\ pc' = "abort"
  /\ UNCHANGED <<base, pending, entries, waiting, task, bounds, history>>

\* The next command or the next start rolls back.
RollBackFails ==
  /\ pc = "undo" /\ txn # None
  /\ Fault
  /\ served' = task.routes
  /\ pc' = "abort"
  /\ UNCHANGED <<files, entries, waiting, task, history>>

\* abort_transition, when the transition is dropped.
Abort ==
  /\ pc = "abort"
  /\ IF task.prepared THEN pending' = None /\ waiting' = None
     ELSE UNCHANGED <<pending, waiting>>
  /\ Answer("failed")
  /\ UNCHANGED <<disk, txn, base, entries, served, bounds, history>>

AbortFails ==
  /\ pc = "abort" /\ task.prepared
  /\ Fault
  /\ Answer("failed")
  /\ UNCHANGED <<files, memory, history>>

-----------------------------------------------------------------------------
\* Somebody replaces a directory.
ChangeOutside(p, c) ==
  /\ tasks + outside < MaxChanges /\ outside' = outside + 1
  /\ disk[p] # c
  /\ disk' = [disk EXCEPT ![p] = c]
  /\ blame' = blame \cup {"outside"} \cup (IF pc \in {"down", "idle", "plan"} THEN {} ELSE {"raced"})
  /\ UNCHANGED <<txn, base, pending, memory, pc, task, tasks, faults, crashes, approved, retired>>

\* Somebody removes the baseline while the application is closed.
LoseBaseline ==
  /\ pc = "down"
  /\ tasks + outside < MaxChanges /\ outside' = outside + 1
  /\ base # None /\ base' = None
  /\ blame' = blame \cup {"outside"}
  /\ retired' = Plugin
  /\ UNCHANGED <<disk, txn, pending, memory, pc, task, tasks, faults, crashes, approved>>

Crash ==
  /\ pc \notin {"down", "refused"}
  /\ crashes < MaxCrashes /\ crashes' = crashes + 1
  /\ pc' = "down" /\ task' = NoTask
  /\ entries' = <<>> /\ waiting' = None /\ served' = <<>>
  /\ UNCHANGED <<files, tasks, faults, outside, history>>

-----------------------------------------------------------------------------
\* A first start, or one after an update of the application: an older
\* document knows the contents that are installed.
InitialDocument(schema) ==
  LET known == {p \in DOMAIN Present(disk) : schema >= 3 \/ disk[p].kind = "signed"}
  IN Document(schema, [p \in known |-> Entry([disk[p] EXCEPT !.cases = IF schema = 4 THEN @ ELSE None], TRUE)])

Init ==
  /\ disk \in [Plugin -> Content \cup {None}]
  /\ txn = None /\ pending = None
  /\ base \in {None} \cup {InitialDocument(s) : s \in Schemas}
  /\ entries = <<>> /\ waiting = None /\ served = <<>>
  /\ pc = "down" /\ task = NoTask
  /\ tasks = 0 /\ faults = 0 /\ crashes = 0 /\ outside = 0
  /\ approved = IF base # None /\ base.schema = 4
                THEN {<<p, disk[p]>> : p \in {q \in Plugin : disk[q] \in Mapping}} ELSE {}
  /\ retired = {} /\ blame = {}

StartupNext ==
  \/ Startup \/ OpenWithoutBaseline \/ AdoptPending \/ Refuse \/ ForgetPending
  \/ Review \/ StartupFails

PlanNext ==
  \/ \E p \in Plugin, c \in Signed : InspectPackage(p, c)
  \/ \E p \in Plugin, c \in Mapping : InspectMapping(p, c) \/ EditCases(p, c)
  \/ \E p \in Plugin : InspectUninstall(p) \/ InspectMappingRemoval(p)
  \/ \E goal \in [Plugin -> Content] : InspectProject(goal)
  \/ InspectReload

CommandNext ==
  \/ Check \/ Recover \/ Decline \/ Begin \/ Prepare \/ PrepareFails
  \/ Activate \/ ActivateFails \/ Switch \/ SwitchFails \/ Verify
  \/ Commit \/ CommitFails \/ Promote \/ Forget \/ PromoteFails
  \/ RollBack \/ RollBackFails \/ Abort \/ AbortFails

Next ==
  \/ StartupNext \/ PlanNext \/ CommandNext
  \/ \E p \in Plugin, c \in Content \cup {None} : ChangeOutside(p, c)
  \/ LoseBaseline \/ Crash

Spec == Init /\ [][Next]_vars

-----------------------------------------------------------------------------
Known == Signed \cup [kind : {"mapping"}, contract : Runtime, cases : Cases \cup {None}]
Entries == Partial(Plugin, [content : Known, installed : BOOLEAN])
Documents == [schema : 2..4, plugins : Entries]
RouteMaps == Partial(Plugin, {c \in Known : c.cases = None})
Directories == Partial(Plugin, Content \cup {None})
Points ==
  {"down", "refused", "open", "forget pending", "review", "idle", "plan", "begin", "prepare",
   "activate", "switch", "verify", "commit", "promote", "forget", "undo", "abort"}
Tasks ==
  [kind : {"none", "install", "uninstall", "save", "delete", "import", "reload", "cases"},
   goal : Directories, seen : Directories, routes : RouteMaps, candidates : Partial(Plugin, Content),
   todo : Seq(Points), prepared : BOOLEAN, answer : {"none", "ok", "failed"},
   expect : RouteMaps \cup {None}]

\* None is not one of the values it stands beside.
ASSUME NoneAssumption ==
  None \notin Cases \cup Known \cup Directories \cup Entries \cup Documents

\* Types of the variables.
TypeOK ==
  /\ disk \in [Plugin -> Content \cup {None}] /\ txn \in Directories \cup {None}
  /\ base \in Documents \cup {None} /\ pending \in Documents \cup {None}
  /\ entries \in Entries /\ waiting \in Entries \cup {None} /\ served \in RouteMaps
  /\ pc \in Points /\ task \in Tasks
  /\ {tasks, faults, crashes, outside} \subseteq Nat
  /\ approved \subseteq Plugin \X Mapping /\ retired \subseteq Plugin
  /\ blame \subseteq {"outside", "raced", "drift", "leftover"}

\* docs/local-mapping-studio.md: no local mapping is served that no operator
\* confirmed, whatever was put in its directory, whichever commands failed
\* or were interrupted, and whether or not the baseline was lost.
OnlyApprovedMappingsRun ==
  \A p \in DOMAIN served : served[p].kind = "mapping" =>
    \E c \in Mapping : <<p, c>> \in approved /\ Route(c) = served[p]

\* run_local_mapping_debug_cases: the regression, which prints and writes
\* cards, runs no debug case that was not confirmed.
OnlyApprovedCasesRun ==
  \A p \in Plugin : pc = "idle" /\ MayDebug(p) => <<p, disk[p]>> \in approved \/ "raced" \in blame

\* Neither a mapping is served nor a debug case run that nobody confirmed.
OnlyApprovedRuns == OnlyApprovedMappingsRun /\ OnlyApprovedCasesRun

\* Between commands the controller serves one accepted set, never a mixture
\* of the old and the next one.  With directories changed from outside, what is
\* served is at least within what was accepted.
RoutesAreOneAcceptedSet ==
  pc = "idle" /\ "raced" \notin blame =>
    \E accepted \in {entries, waiting} \ {None} :
      LET installed == {p \in DOMAIN accepted : accepted[p].installed}
          content(p) == accepted[p].content
      IN /\ outside = 0 => served = Routes([p \in installed |-> content(p)])
         /\ \A p \in DOMAIN served :
              /\ p \in DOMAIN accepted
              /\ \/ served[p] = Route(content(p))
                 \/ /\ served[p].kind = "signed" /\ content(p).kind = "signed"
                    /\ Compatible(served[p], content(p))

\* What a command answers is what the next start serves: everything it was
\* asked for after a success, what it would have served before after a
\* failure, except a mapping that was in quarantine and is now confirmed.
ServedNext(p) == IF p \in DOMAIN NextStart THEN NextStart[p] ELSE None
RouteOrNone(c) == IF c = None THEN None ELSE Route(c)

ReportsAreTrue ==
  pc = "idle" /\ "outside" \notin blame /\ NextStart # None =>
    /\ task.answer = "ok" =>
         /\ \A p \in Members : ServedNext(p) = RouteOrNone(task.goal[p])
         /\ task.kind = "reload" => NextStart = served
    /\ task.answer = "failed" /\ task.expect # None =>
         \A p \in Plugin :
           \/ ServedNext(p) = IF p \in DOMAIN task.expect THEN task.expect[p] ELSE None
           \/ pending # None /\ <<p, Restored[p]>> \in approved

\* A start fails over a pending record only when the directories were changed
\* from outside since the plan, or were not what the baseline describes when
\* the record was written, or when debug cases were edited over the record
\* that an earlier command left.
StartsAreDecided == pc = "refused" => blame \cap {"outside", "drift", "leftover"} # {}

\* Both hold of what a command left: its answer and the next start.
AnswersAndStartsAreTrue == ReportsAreTrue /\ StartsAreDecided

Contract(doc, p) == IF doc # None /\ p \in DOMAIN doc.plugins
                    THEN doc.plugins[p].content ELSE None

\* An accepted identity leaves the baseline on disk only by its own removal,
\* and the API of a signed plugin never shrinks there.
AcceptedContractsAreKept ==
  [][\A p \in Plugin \ retired' : Contract(base, p) # None =>
       /\ Contract(base', p) # None
       /\ Contract(base, p).kind = "signed" /\ Contract(base', p).kind = "signed" =>
            Compatible(Contract(base, p), Contract(base', p))]_vars

\* What is served between commands, what commands answered and what a start
\* decides agree with the accepted baseline.
BaselineIsServed == TypeOK /\ RoutesAreOneAcceptedSet /\ AnswersAndStartsAreTrue

-----------------------------------------------------------------------------
(* The inductive invariant.                                                *)

\* The baseline is not open, a command is past its checks, and it has not
\* written the next baseline.
Closed == pc \in {"down", "refused", "open", "forget pending", "review"}
Working == ~Closed /\ pc \notin {"idle", "plan"}
Unprepared == pc \in {"begin", "activate", "prepare"} /\ ~task.prepared

\* Nobody changed the directories since the command began.
Undisturbed == "raced" \notin blame \/ "outside" \notin blame

\* What a command is about.
GoalFits ==
  /\ task.kind = "install" => \E p \in Plugin, c \in Signed : task.goal = [q \in {p} |-> c]
  /\ task.kind \in {"save", "cases"} => \E p \in Plugin, c \in Mapping : task.goal = [q \in {p} |-> c]
  /\ task.kind \in {"uninstall", "delete"} => \E p \in Plugin : task.goal = [q \in {p} |-> None]
  /\ task.kind = "import" => task.goal \in [Plugin -> Content]
  /\ task.kind \in {"reload", "none"} => task.goal = <<>>
  /\ Working /\ task.kind \in {"install", "save", "cases"} => Members \subseteq DOMAIN task.candidates
  /\ Working /\ task.kind = "cases" =>
       /\ task.seen \in [Plugin -> Content \cup {None}]
       /\ task.seen[Target] \in Mapping /\ Wanted # task.seen[Target]
       /\ Wanted = [task.seen[Target] EXCEPT !.cases = Wanted.cases]

\* Where a command is, and what it still has to do.
StepsFit ==
  LET at(step, rest, done) == pc = step /\ task.todo = rest /\ task.prepared = done
  IN
  /\ pc = "plan" \/ Working => task.kind # "none"
  /\ ~Working \/ pc = "begin" => ~task.prepared
  /\ Closed => task.kind = "none"
  /\ pc \in {"promote", "forget"} => task.prepared
  /\ pc \in {"prepare", "activate", "switch", "verify", "commit"} =>
       \/ /\ task.kind \in {"install", "save"}
          /\ \/ at("prepare", <<"activate", "switch", "commit">>, FALSE)
             \/ at("activate", <<"switch", "commit">>, TRUE)
             \/ at("switch", <<"commit">>, TRUE)
             \/ at("commit", <<>>, TRUE)
       \/ /\ task.kind \in {"uninstall", "delete"}
          /\ \/ at("activate", <<"prepare", "switch", "commit">>, FALSE)
             \/ at("prepare", <<"switch", "commit">>, FALSE)
             \/ at("switch", <<"commit">>, TRUE)
             \/ at("commit", <<>>, TRUE)
       \/ /\ task.kind = "import"
          /\ \/ at("activate", <<"prepare", "switch", "verify", "commit">>, FALSE)
             \/ at("prepare", <<"switch", "verify", "commit">>, FALSE)
             \/ at("switch", <<"verify", "commit">>, TRUE)
             \/ at("verify", <<"commit">>, TRUE)
             \/ at("commit", <<>>, TRUE)
       \/ /\ task.kind = "reload"
          /\ \/ at("prepare", <<"switch", "verify">>, FALSE)
             \/ at("switch", <<"verify">>, TRUE)
             \/ at("verify", <<>>, TRUE)
       \/ /\ task.kind = "cases"
          /\ at("activate", <<"prepare">>, FALSE) \/ at("prepare", <<>>, FALSE)

\* The store of the process and the files of the baseline.
MemoryFits ==
  /\ Closed => entries = <<>> /\ waiting = None /\ served = <<>>
  /\ ~Closed => base \in {Document(4, entries)} \cup
                         (IF waiting = None THEN {} ELSE {Document(4, waiting)})
  /\ waiting # None => pending = Document(4, waiting)
  /\ pending # None => pending.schema = 4
  /\ task.prepared => waiting # None
  /\ task.prepared /\ pc # "forget" => base = Document(4, entries)
  /\ pc = "forget" => entries = waiting /\ base = Document(4, waiting)
  /\ pc \in {"forget pending", "review"} => base # None
  /\ pc = "review" => pending = None
  /\ base # None /\ base.schema < 4 =>
       \A p \in DOMAIN base.plugins : base.plugins[p].content.cases = None

\* The directories of the members, and what would restore them.
TransactionFits ==
  /\ pc \in {"begin", "activate"} => txn = None
  /\ pc = "prepare" /\ task.kind \in {"install", "save"} => txn = None
  /\ Working /\ task.kind \in {"reload", "cases"} => txn = None
  /\ pc \in {"promote", "forget"} => txn = None
  /\ pc \in {"undo", "abort"} /\ txn # None => DOMAIN txn = Members
  /\ \/ pc \in {"switch", "verify", "commit"} /\ task.kind # "reload"
     \/ pc = "prepare" /\ task.kind \in {"uninstall", "delete", "import"}
     => txn # None /\ DOMAIN txn = Members

\* What a command found and made stays as it was unless it is disturbed.
DirectoriesFit ==
  Undisturbed =>
    /\ Unprepared /\ task.kind \in {"install", "save", "cases"} =>
         task.candidates = With(Inspected, task.goal)
    /\ Working /\ task.kind = "reload" /\ pc \notin {"undo", "abort"} =>
         task.candidates = Present(disk)
    /\ \/ pc \in {"switch", "verify", "commit", "promote", "forget"}
       \/ pc = "prepare" /\ task.kind \notin {"install", "save"}
       => \A p \in Members : disk[p] = task.goal[p]

\* What was approved: exactly, unless a debug case was changed meanwhile.
ContentApproved(p, c) ==
  IF "raced" \in blame THEN \E d \in Mapping : <<p, d>> \in approved /\ Route(d) = Route(c)
  ELSE <<p, c>> \in approved
AllApproved(plugins) ==
  \A p \in DOMAIN plugins : plugins[p].content \in Mapping => ContentApproved(p, plugins[p].content)
RoutesApproved(routes) ==
  \A p \in DOMAIN routes : routes[p].kind = "mapping" =>
    \E c \in Mapping : <<p, c>> \in approved /\ Route(c) = routes[p]

AcceptedAreApproved ==
  /\ base # None => AllApproved(base.plugins)
  /\ pending # None => AllApproved(pending.plugins)
  /\ AllApproved(entries)
  /\ waiting # None => AllApproved(waiting)
  /\ RoutesApproved(served) /\ RoutesApproved(task.routes)
  /\ pc = "plan" \/ Working => \A p \in DOMAIN task.candidates :
       task.candidates[p] \in Mapping => ContentApproved(p, task.candidates[p])
  /\ Unprepared /\ task.kind = "import" => task.candidates = task.goal

\* A mapping that is removed leaves no trace that its approval is for.
DeletedAreGone ==
  task.kind = "delete" /\ "raced" \notin blame =>
    /\ pc \in {"switch", "commit", "promote", "forget"} => Members \cap DOMAIN waiting = {}
    /\ pc \in {"commit", "promote", "forget"} => Members \cap DOMAIN served = {}

Keeps(old, new) ==
  \A p \in DOMAIN old \ retired :
    /\ p \in DOMAIN new
    /\ old[p].content.kind = "signed" /\ new[p].content.kind = "signed" =>
         Compatible(old[p].content, new[p].content)

\* The next baseline keeps the contracts of the current one.
ContractsAreKept ==
  /\ base # None /\ pending # None => Keeps(base.plugins, pending.plugins)
  /\ Unprepared /\ task.kind \notin {"uninstall", "delete"} =>
       Breaking(entries, task.candidates) = {}
  /\ Working /\ task.kind \in {"uninstall", "delete"} => Members \subseteq retired

\* While nothing happened that a start may be refused for, one of the two
\* records describes what a start finds.
DecisionsArePossible ==
  LET quiet == blame \cap {"outside", "drift", "leftover"} = {} IN
  /\ quiet /\ pending # None =>
       /\ base # None
       /\ Matches(base, Present(Restored)) \/ Matches(pending, Present(Restored))
  /\ "outside" \notin blame /\ pc \in {"open", "forget pending", "review"} =>
       task.candidates = Present(Restored)
  /\ quiet /\ pc \in {"activate", "switch", "verify", "commit", "promote"} /\ task.prepared =>
       Matches(pending, Present(With(disk, task.goal)))
  /\ Unprepared /\ task.kind = "cases" /\ waiting = None =>
       Target \in DOMAIN entries /\ entries[Target].content.cases # Wanted.cases
  /\ pc \in {"prepare", "undo", "promote", "forget"} /\ task.kind = "cases" /\ pending # None => ~quiet
  /\ Undisturbed /\ pc = "undo" /\ task.kind = "cases" => disk[Target] = Wanted

\* The directories that a failure of the command leaves.
Before ==
  IF task.kind = "cases" /\ pc \in {"prepare", "undo"}
  THEN [disk EXCEPT ![Target] = task.seen[Target]] ELSE Restored

Installed(accepted) ==
  [p \in {q \in DOMAIN accepted : accepted[q].installed} |-> accepted[p].content]
Blocked(accepted, candidates) == Breaking(accepted, candidates) \cup Changed(accepted, candidates)

\* What is accepted is all that is not in quarantine.
ServesAll(accepted, directories) ==
  Routes(Without(Present(directories), Blocked(accepted, Present(directories))))
    = Routes(Installed(accepted))

DirectoriesAreAccepted ==
  outside = 0 =>
    /\ blame \cap {"outside", "raced"} = {}
    /\ ~Closed /\ pc # "promote" /\ (waiting = None \/ (task.prepared /\ pc # "forget")) =>
         ServesAll(entries, Before)
    /\ task.prepared /\ pc \notin {"undo", "abort"} => ServesAll(waiting, With(disk, task.goal))

\* The routes are those of an accepted set; without a change from outside all
\* of it.
Fits(routes, accepted) ==
  /\ outside = 0 => routes = Routes(Installed(accepted))
  /\ \A p \in DOMAIN routes :
       /\ p \in DOMAIN accepted
       /\ LET c == accepted[p].content IN
          \/ routes[p] = Route(c)
          \/ routes[p].kind = "signed" /\ c.kind = "signed" /\ Compatible(routes[p], c)
Accepted == {entries, waiting} \ {None}

\* The routes of the command's candidates.
NextRoutes ==
  CASE task.kind \in {"reload", "import"} -> Routes(task.candidates)
    [] task.kind \in {"uninstall", "delete"} -> Without(served, Members)
    [] task.kind = "cases" -> served
    [] OTHER -> With(served, Routes(task.goal))

RoutesFit ==
  /\ task.prepared => Installed(waiting) = task.candidates
  /\ task.kind = "reload" /\ pc \in {"verify", "promote", "forget"} => served = Routes(task.candidates)
  /\ Working => \/ pc \in {"verify", "commit", "promote", "forget", "undo"}
                \/ served = task.routes
  /\ Undisturbed /\ task.kind \in {"uninstall", "delete"} /\ Unprepared =>
       /\ pc \in {"begin", "activate"} => served = Routes(Inspected)
       /\ pc = "prepare" => Without(served, Members) = Routes(Inspected)
  /\ Unprepared /\ task.kind \in {"save", "cases"} =>
       Routes(task.candidates) = With(served, Routes(task.goal))
  /\ Unprepared /\ task.kind = "cases" => Routes(task.candidates) = served
  /\ "raced" \notin blame /\ ~Closed =>
       /\ pc \in {"idle", "plan"} => \E accepted \in Accepted : Fits(served, accepted)
       /\ Working /\ ~task.prepared => \E accepted \in Accepted : Fits(task.routes, accepted)
       /\ task.prepared /\ pc \in {"activate", "switch", "verify", "commit", "undo", "abort"} =>
            Fits(task.routes, entries)
       /\ task.prepared /\ pc \in {"activate", "switch"} => Fits(NextRoutes, waiting)
       /\ pc \in {"verify", "commit", "promote", "forget"} => Fits(served, waiting)

\* What a start serves from these directories without a pending record.
StartWithout(directories) ==
  LET candidates == Present(directories)
  IN Routes(Without(candidates, Blocked(entries, candidates)))

\* The pending record that the command wrote.
WrittenNow ==
  /\ pending # None /\ base = Document(4, entries)
  /\ task.expect = StartWithout(Before)
  /\ \A p \in DOMAIN Installed(pending.plugins) :
       LET c == pending.plugins[p].content IN
       /\ c.kind = "signed" /\ p \in DOMAIN entries =>
            entries[p].content.kind = "signed" /\ Compatible(entries[p].content, c)
       /\ c.kind = "mapping" =>
            \/ p \in DOMAIN entries /\ entries[p].content = c
            \/ <<p, c>> \in approved

\* What the next start serves if the command fails, and what the command made
\* if it does not.
AnswersFit ==
  "outside" \notin blame =>
    /\ pc = "plan" \/ Unprepared => task.expect = StartFrom(Before)
    /\ pc \in {"undo", "abort"} /\ ~task.prepared => task.expect = StartFrom(Before) \/ WrittenNow
    /\ task.prepared /\ pc \notin {"promote", "forget"} => WrittenNow
    /\ task.prepared => \A p \in Members :
         task.goal[p] # None => p \in DOMAIN task.candidates /\ task.candidates[p] = task.goal[p]
    /\ Unprepared =>
         /\ \A p \in Members : task.goal[p] \in Mapping => <<p, task.goal[p]>> \in approved
         /\ task.kind = "reload" => \A p \in DOMAIN task.candidates :
              task.candidates[p] \in Mapping => <<p, task.candidates[p]>> \in approved

IInv ==
  /\ TypeOK /\ GoalFits /\ StepsFit /\ MemoryFits /\ TransactionFits /\ DirectoriesFit
  /\ AcceptedAreApproved /\ DeletedAreGone /\ ContractsAreKept /\ DecisionsArePossible
  /\ DirectoriesAreAccepted /\ RoutesFit /\ AnswersFit
  /\ AnswersAndStartsAreTrue

=============================================================================
