# Formal models of SSDEV Desktop

SSDEV Desktop is a Tauri desktop client that lets business web pages call vendor
native components (DLL, COM, executables). This directory holds TLA+
specifications of it in two styles. Where the order of steps decides whether a
document is printed twice, a device is used by two hosts, or a machine is left
with half a project installed, the code is a state machine: ledger, coordinator,
controller, host supervisor, the transactions that change what is installed, the
capability baseline, the windows, the life of the process and the cutover of a
release. Where the code is a decision over documents (is this plugin compatible,
this package trusted, this bundle importable, this matrix complete) it is an
operator, and its decision is followed by the steps that rely on it.

Paths below are relative to the repository; `LED`, `INV`, `CTL`, `PKG`, `LM`,
`PA`, `LIB` and `DESK` stand for

| | |
|---|---|
| LED | `crates/ssdev-invocation-ledger/src/lib.rs` |
| INV | `apps/desktop/src-tauri/src/invocations.rs` |
| CTL | `crates/webplus-controller/src/lib.rs` |
| PKG | `crates/webplus-plugin-package/src/lib.rs` |
| LM, PA, LIB, DESK | `local_mappings.rs`, `project_activation.rs`, `lib.rs`, `desktop.rs` in `apps/desktop/src-tauri/src/` |

## 1. The system

```
  web page ── invoke / status ──> coordinator ──begin/complete──> ledger ── snapshot + journal
     ^                                │
     │ windows, origins               └── call ──> controller ── locks, epochs, flags
  desktop shell <── config.json                       │
     ^                                                v
  control window ── install / import ──┐          supervisor ── slots, lanes ──> native hosts
                                       v              ^                            └─ adapters: DLL, COM, process
     project and component transactions ── maintenance, replace_manifests
       (directories, config.json, capability baseline)
                                       ^
  packages, catalogs, project bundles ─┘ <── plugin tool, repository, bundle tool <── local mappings
  release: metadata ─> matrix, audit, smoke ─> evidence, signatures ─> decision ─> check-current-go
```

| Component | State | Operations | What is hard | What makes it correct |
|---|---|---|---|---|
| operation ledger (LED) | operations by key with state and time, counters per scope, next deadline; a snapshot and a journal file | `open`, `begin`, `complete`, `status`, compaction, expiration | crash or power loss at any file step, failed steps in a live process, retention boundary, capacity | what was promised to a caller is found again, in memory and after a restart; no key is started twice within its retention |
| coordinator (INV) | runtime map with shared operations, admission flag, entry gate, active workflow count | `invoke`, `status`, workflow and supervisor tasks, `stop_accepting`, `drain`, `resume_after_shutdown` | callers race, give up or repeat; the workflow panics; the process dies around the native call; the map is full | at most one execution per retained operation, evidence before execution, true answers, nobody waits for ever, a drained coordinator is quiet |
| controller lifecycle (CTL 430–1100) | lifecycle epochs and flags (global, per plugin), two levels of read/write locks and gates, routes, admission | `invoke`, retry, preflight, `begin_maintenance`, `begin_plugin_maintenance`, `replace_manifest(s)`, `shutdown`, `resume_after_shutdown` | atomics read outside locks, cancellation at every await, guards dropped in order, lock order over two levels | no maintenance while a host is in use, refused exactly when it must be, no call crosses versions, no deadlock |
| host supervisor (CTL 1280–1830) and host loop | a slot per worker key, a worker with its lane and pipe, host counter | `invoke`, `retry`, eviction, backoff, `shutdown`, `shutdown_plugin` | start races, deadlines against late frames, eviction by several callers, hosts that die, hang or answer garbage | single-flight start, own responses, true answers, exact counter, every call ends |
| component transactions (PKG, LM) | component directories; `.activation-*` and `.committed-*` directories with a journal | activate, prepare removal, commit, rollback, recovery | crash between any two file operations, failed operations, recovery of a recovery | a restart finds the old or the new content, nothing else |
| project transaction (PA, LIB) | project directory with both configurations and the journal | `begin`, `mark_committed`, `finish`, `abort`, `recover`, `import_project_bundle` | one commit point over many directories, undo in several steps, cleanup that is put off | components and configuration switch as one; what a command answers is what a restart finds |
| capability baseline (`plugin_api_baseline.rs`, LIB) | two baseline files and a downgrade fence; the routes served | start, prepare, promote, discard, in every command that changes what is installed | crash between the files and the directories, directories changed from outside at any step | nothing runs that was not accepted, an accepted contract is not narrowed silently |
| desktop shell (DESK, `sso.rs`, `capture.rs`) | windows with the state of their pages, floating windows and timers, shortcuts, autostart, the configuration in memory | open, page load, ready signal, watchdog, retry, replacement of the configuration, single sign-on | main-thread handlers against tasks of other threads; late signals; failures of the toolkit half-way | records agree with the windows, no page outlives its configuration, every page ends ready or reported |
| start, exit and app update (LIB, DESK, `app_update.rs`) | stage of the start, failure marker, control page state, exit lifecycle, pending update and its plans | start, ready signal, timeout; exit, forced exit; check, install | exit against install, failing stages, the installer that does not start | the user learns how a start ended, an update installs what was confirmed, no call is cut off |
| contracts of plugins (`webplus-plugin-config`) | none: services, parameters, types | validate, discover, compare versions, generate a client, make and verify an integrity document | aliases and names that meet, outputs, tails of variable inputs | what is called compatible serves the pages of the old version |
| native adapters (`webplus-native`) | none: declared types and values of a request | argument conversion and answer of DLL, COM and process calls | widths, missing and superfluous values, text encodings | a declaration that was accepted is answered as it is declared |
| plugin supply (`webplus-plugin-trust`, PKG, `webplus-plugin-repository`, `ssdev-plugin-tool`) | trust store with lifetimes of keys; packages, catalogs, withdrawals | sign, pack, create catalog, verify, plan, install, roll back | what is read twice may have changed; retired keys; two ids that differ in case only | what a publisher can publish a desktop can install, and installs nothing else |
| policies (`ssdev-origin-policy`, `ssdev-process-policy`, `ssdev-config`) | signed documents, configuration | validation, authorization of a page or a call, coverage of routes, launch of processes | two documents that are changed by different people at different times | no accepted change leaves a signed route without a page that may call it |
| project delivery (`ssdev-project-bundle`, LIB) | a bundle and its signature | export, sign, preview, import | the desktop changes between inspection, staging and packing; the file between preview and import | what is exported can be imported; what is imported is what was previewed |
| debug cases and release sources (LM, `ssdev-plugin-tool`) | a mapping's cases and files | save, run, export; check and stage a source, draft and review a matrix, page kit | the same rule in two programs | a mapping that works is taken by the release tool with its cases |
| release assessment (`deployment_check.rs`, `ssdev-pilot-readiness`, `ssdev-release-*`, `ssdev-cutover-evidence`) | reports, matrices, metadata, inventories, signatures, policy, decision | produce, verify, approve, check before the rollout | files change between any two tools and during one | only the release that was tested and approved goes, and an honest one does |

How the parts interact: a page reaches the coordinator only through `invoke` and
`status`. The coordinator calls `begin` before and `complete` after the one call
of the controller. The controller hands the call to the supervisor under the
read side of its locks; installation commands take the write side
(`begin_plugin_maintenance`, `begin_maintenance`), change directories, prepare and
promote the capability baseline and switch routes with `replace_manifest(s)`.
`install_lock` lets one installation or configuration command run at a time. On
exit and before an update's installer the coordinator stops accepting, the
controller shuts down and the coordinator drains. Documents made by the tools
(packages, catalogs, bundles, policies) reach a desktop as files; the tools share
their validation with it.

## 2. Modules

| Module | Models | Notes |
|---|---|---|
| `AtMostOnce` | the promise of `docs/tracked-invocations.md` for an operation: started at most once until its retention ends | abstract; implemented by `Ledger` |
| `Ledger` | LED, every file step | |
| `Coordinator` | INV, every await of callers, workflow, supervisor, exit | the ledger appears as the evidence it keeps |
| `Controller` | CTL lifecycle: locks, epochs, flags | hosts appear as a set of running plugins |
| `Supervisor` | CTL supervisor, worker, pipe; the loop of `webplus-plugin-host` | that a plugin's hosts are stopped only while no call of it is inside is what `Controller` shows |
| `AtomicSwitch` | the promise of `docs/project-bundles.md`: a change happens as one step or not at all | abstract; implemented by `ProjectActivation` |
| `ProjectActivation` | PKG, LM, PA and the commands of LIB and DESK that drive them, one file operation a step | |
| `CapabilityBaseline` | `plugin_api_baseline.rs` and its part in every command of LIB | a change of directories is one step, as `ProjectActivation` shows |
| `BusinessWindows` | windows, watchdogs, configuration, shortcuts and sign-on of DESK and `sso.rs` | |
| `AppStartup`, `AppUpdate`, `AppLifecycle` | the start up to the first surface; updates and exits; their composition | |
| `PluginContract` | `webplus-plugin-config`: validation, discovery, comparison, integrity | operators |
| `NativeCalls` | the three adapters of `webplus-native` | operators |
| `PluginClient` | the generated page client | operators |
| `PluginSupply` | trust, packages, catalogs, their commands | operators |
| `AccessPolicy` | configuration, origin policy, process policy | operators |
| `ProjectDelivery` | bundles, export, preview and import | operators |
| `GoldenMatrix`, `DebugCases`, `ReleaseSource` | golden cases; cases of a mapping; sources, page kits | operators |
| `DeploymentCheck`, `PilotReadiness` | self-check of a desktop; intake of a pilot's materials | operators |
| `ReleaseSigning`, `ReleaseEvidence` | signed documents; bundles, evidence and blockers of a release | operators |
| `Contracts`, `Deliveries`, `Promotions`, `Releases` | decisions taken with these operators and the steps that use them, each extending the one before | a question is chosen, then decided |
| `Cutover` | the tools of a release run one after the other on files that change | state machine |
| `MC*` | instances for TLC (model values, definitions, symmetry) | `MCReleases` lists the questions of `Contracts` to `Releases` and puts `Releases` and `Cutover` side by side |
| `Coordinator_proofs`, `Ledger_proofs`, `Controller_proofs`, `Supervisor_proofs`, `ProjectActivation_proofs`, `AppLifecycle_proofs`, `BusinessWindows_proofs`, `CapabilityBaseline_proofs` | theorems about the module of that name (section 4) | |

`map` in `PROJECT.json` names the lines each definition stands for. How state and
actions correspond to the code:

**Ledger.** `inner` is `LedgerInner`; `disk` holds two images of the snapshot and
the journal, what the operating system shows and what survives a power loss, and,
where directories are not synced, the snapshots that renames have replaced (`stale`),
one of which a power loss may show again (`LoseRename`, which sets `undone`). A
journal is a sequence of chunks, each a whole line, a record without its newline
or a torn prefix; `LinesParse`, `RecordsOf` and `Loaded` are what `load_records`
makes of it. An operation runs under one mutex and is one action; a crash inside
it is the operation stopped after any of its file steps (`Interrupt`). Sizes are
counted in records, times in ticks; hashes and JSON are abstracted.

**Coordinator.** A `Slot` is a `RuntimeOperation` with its workflow and supervisor.
A caller goes through `attach`, `gate`, `gated`, `waiting`, as `invoke` does, and
can be dropped at any of them (`Abandon`: navigation, a closed window). The
workflow goes through `begin`, `execute`, `finish`, `publish…`; `Panic` can end it
at each, and `Reconcile` is the supervisor's answer from the ledger. A ledger
error may or may not leave a record that a restart finds (`latent`), the
outcomes `Ledger` produces. `executed` counts controller executions while the
evidence is retained.

**Controller.** Tokio's locks are FIFO: a request waits for those ahead of it and
readers share (`Holds`). Each load or store of an atomic is an action of its
own. `Cancel` drops a maintenance at any await. `raced` and `disturbed` are
history: whether a maintenance overlapped the first loads of a call.

**Supervisor.** Starting a host holds the slot's lock; using it holds the lane.
`HostTakes` and `HostReplies` are the serial loop of the host. A worker that
nobody refers to is killed (`Kept`, kill_on_drop), one that was evicted by an
answer lives while a call holds it.

**ProjectActivation.** `target` is what the component directories hold, `txn` their
transaction directories, `project` the project directory. Each file operation is
a step; removing a directory is two. A directory without a readable journal is
"partial", a half-removed one "torn". The process (`pc`, `task`) runs one command
or recovery at a time, as `install_lock` prescribes. A single installation or
removal and an import share their steps; they differ where the code does
(`IsImport`). `Outcome` is what a restart would make of the files, which is what
`AtomicSwitch` calls `view`. Any step may fail, those of a rollback included. A
configuration that cannot be put back stays (`task.kept`), and the answer says so; a
member whose rollback fails keeps its transaction for the next recovery. Two failures break the switch, and nothing is claimed
after them (`broken`): the previous directory of a mapping that cannot be renamed
back, an error the code drops, and a directory sync that fails after the project's journal was
renamed to committed. Section 6 gives both schedules.

**CapabilityBaseline.** `disk` is what the directories hold, `base` and `pending` the
two files, `entries` and `waiting` the store in memory, `served` the routes. A command
goes through confirmation, check, recovery, `Prepare`, `Activate`, `Switch`, `Verify`,
`Commit` and `Promote`; each may fail and then rolls back, and the process may die
after each. `ChangeOutside` changes a directory between any two steps. An API is a
number, a larger one holding the smaller; `compare_public_api` itself is in
`PluginContract`. `approved`, `retired` and `blame` are history.

**BusinessWindows.** The threads are the main thread (window and page events,
commands without async), the configuration command and single sign-on; `at` and `job`
say where each is. A window is created in the steps of the code: reserve a label,
snapshot, build, install. Watchdogs carry the generation of the page they watch;
`seen` is the configuration a window was built from.

**AppStartup, AppUpdate, AppLifecycle.** The stages of `run` are a sequence, each may
fail and is then reported by the marker file and the dialog. Commands hold
`install_lock` from the clone of the pending update to the end of the installer. The
exit drains under the same lock with a time limit. `AppLifecycle` composes them: calls
and commands are followed in a process that started without a fault.

**Decisions.** `Contracts`, `Deliveries`, `Promotions` and `Releases` have two
variables: a `question`, chosen at first, and a `decision`, what the code answers with
the steps that follow from it. What can change between two reads of the code is part
of the question: the desktop that was previewed, that on which the command starts and
that on which it activates; the bundle file hashed and the one opened; the materials
when the report was written and when it is verified. The properties then relate what
two different parts of the code decide, for example what a publisher's tool accepts
and what a desktop installs.

**PluginContract, NativeCalls, PluginClient.** A service is its declaration. Values of
a request are the classes the adapters tell apart (small, negative, wide, huge and vast
numbers, fractions, texts, flags, null, objects). `Prepares` says which requests an adapter accepts, `Answer`
which kinds of values it may answer whatever the foreign code left behind.

**PluginSupply, ProjectDelivery, AccessPolicy.** Documents are records; a digest is the
thing it was taken of and a signature says what it was made for, by which key and
whether the key's owner made it. An id is a key with a spelling.

**DebugCases, ReleaseSource, GoldenMatrix.** Paths, names and values have the structure
their checks look at. `PrepareMapping` is what `prepare` of LM leaves of a mapping;
`ExportSource` and `CopySource` are the two ends of one handover between two programs.

**DeploymentCheck, PilotReadiness, ReleaseSigning, ReleaseEvidence, Cutover.** `Cutover`
runs the tools in their order, each in two steps: read the files, then read them
again and write. `Change` alters a field of `world` between any two steps, `Restore`
changes it back. `truth` and `harmless` are history: what the tools were run on,
and whether a change was of something that is no longer needed.

## 3. What is checked

All runs are exhaustive over their instance. Deadlock checking is off because
every instance ends: its bounded faults, operations or rounds are used up, an
idle client is a legal final state, and a decision is the last step of its
behaviour. A property of a run is mostly a conjunction of parts named and
commented in its module, given here in brackets.

| Run | Instance | Shows |
|---|---|---|
| `ledger` | 2 keys of one scope and 1 of another, room for 1 in each and 2 in all, 2 requests, 4 clock values, 1 I/O error, 2 crashes or power losses, with and without directory syncs | `EvidenceIsKept` (`EvidenceSurvives`, `EvidenceInMemory`): whatever a crash, a power loss or a failed step leaves, a promised record is found again or the ledger refuses to open, unless a power loss has undone a rename (section 6). `RecoveryIsSound` (`CrashesAreRecoverable`, `DeadlineIsSound`): crashes alone never make it refuse. `CapacityIsIsolated`, and the refinement `StartsAtMostOnce` |
| `coordinator` | 2 callers, 2 requests of 1 key, a runtime map of 1, 1 panic, 1 ledger error, 1 crash, an exit | `ExecutedAtMostOnce`, `EvidencePrecedesExecution`, `DrainIsQuiet`, `AnswersAreTrue`: every answer is what is known of the operation when it is given |
| `coordinator_live` | 1 panic, fair scheduling | `WaitsEnd` (`EveryWaiterIsAnswered`, `PendingIsResolved`, `DrainTerminates`) |
| `controller` | 1 call, 2 maintenances of 2 plugins or everything, 2 rounds, 1 shutdown, cancellation anywhere | `MaintenanceIsExclusive` (`MaintenancesAreSerial`, `GuardsAreReleased`, `CounterIsExact`), `SettledCallsStayInTheirVersion`, `UnrelatedPluginsAreServed` |
| `controller_live` | 2 calls at an admission limit of 1, 1 maintenance, 1 shutdown, fair locks | `HostsAreQuiet` (`HostUseExcludesMaintenance`, `HostsStayDown`), `EverythingEnds` (`CallsEnd`, `MaintenancesEnd`, `ShutdownEnds`) |
| `controller_versions` | 1 call, 1 maintenance | violation of `NoCallCrossesVersions`, see section 6 |
| `supervisor` | 2 calls, 3 hosts, 1 fault, ids that wrap at 4; one plugin that is invoked and retried and a second one that is retried and stopped beside it, fair scheduling | `HostsAreAccountedFor` (`StartIsSingleFlight`, `AnswersAreTrue`, `CounterIsExact`), `OutcomesAreOwn` (`ResponseIsOwn`, `HealthyHostsStay`), `CallsEnd` |
| `project` | 1 plugin and 1 mapping, 2 versions, 2 configurations, 2 failed operations (of a command, a rollback or a recovery), 2 crashes, 3 commands | refinement `SwitchesAtomically`, `AnswersMatchDisk` (`ReportsAreTrue`, `RoutesMatchDisk`), both up to a failure that the code does not answer for (`broken`) |
| `baseline` | 2 identities, each a plugin with 2 APIs or a mapping with 2 sets of cases, baselines of the schemas 2 to 4, 2 commands or changes from outside, 1 failed operation, 1 crash | `OnlyApprovedRuns` (`OnlyApprovedMappingsRun`, `OnlyApprovedCasesRun`), `BaselineIsServed` (`RoutesAreOneAcceptedSet`, `AnswersAndStartsAreTrue`), `AcceptedContractsAreKept` |
| `windows` | 2 origins and 1 of a login, 3 configurations, room for 1 business window, 1 floating window, 3 events of users or pages, 1 failure, fair scheduling | `ShellIsTrue` (`WindowsAreCounted`, `RecoveriesAreTrue`, `FloatingsAreOwned`, `SystemMatchesConfig`), `NoStalePages`, `WaitsEnd` |
| `lifecycle` | 2 processes, 2 signals and 1 fault of a start; 1 tracked and 1 plain call, 2 commands, 1 offer, 3 states of the capabilities, 3 commands begun, 1 change from outside, fair scheduling | `StartsReachTheUser` (`StartIsTold`, `AlwaysReachable`), `UpdatesAreOrderly` (`InstallsAreConfirmed`, `CallsAreNotCut`), `LifecycleEnds` |
| `decisions` | every question of `MCReleases`; a release with 2 changed files | see below |

The properties of `decisions`, each about what several parts of the code decide:

| Property | Shows |
|---|---|
| `CompatibleVersionsServeOldPages` | a version without a breaking change serves every request of a page of the old one, with an answer the page can read; one that adds nothing and breaks nothing can be taken back |
| `DeclarationsAreServed` | a declaration that is accepted is answered by its adapter as declared (`DeclaredCallsAreAnswered`) and every one of its methods is reached through the generated client (`ClientsAreComplete`) |
| `PublishedIsInstallable` | packages, catalogs and bundles that the tools and the desktop make are taken by a desktop, from any older version |
| `AcceptedIsWhatRuns` | what is installed, imported, verified or debugged is what was confirmed, whatever was changed between two reads (`ConfirmedIsInstalled`, `ConfirmedIsImported`, `VerifiedMappingsAreUnchanged`, `OnlyApprovedCasesRun`) |
| `SignedRoutesKeepAnOrigin` | no accepted configuration and no accepted plugin leaves a signed route without a page that may call it |
| `DeliveryIsReady` | a self-check that reports a desktop ready speaks of one whose pages, routes, processes and files agree |
| `PilotReportsHold` | a pilot's report is of its materials, and what the later tools read through it is what was collected |
| `GoldenCasesCoverTheRelease` | a matrix that is accepted covers every method (`ReviewedCasesCover`), and a mapping that works with its cases is taken by the release tools (`MappingsCanBeReleased`) |
| `OnlyTheApprovedReleaseGoes` | what the last check lets through is the bundle that was tested and approved, with files changed between any two steps |
| `HonestRunsAreGo` | a release of which nothing changed that is still needed is not refused by any tool |

Each property of a passing run also fails when a definition of the model is
changed the way a plausible bug would change the code (the operators commented
"mutant"; `mutants` in `PROJECT.json`).

**Bounds, and why they are enough.** The races of the coordinator need two actors
of one key: a second caller, a workflow against its supervisor, a call against
the exit. A third caller repeats the role of the second. The controller's locks are
queues, in which two maintenances and a call produce every order of writer, reader
and waiting writer; the liveness run has two calls, so that a permit or a lock
held by one blocks the other. Worker keys of the supervisor share nothing but the
host counter, so that the calls go to one of them and the other is only started and
stopped beside them (`SecondIsRetried`); three hosts are an evicted one, its successor
and one of the other plugin, and a start takes the first that is free (`HostsInOrder`).
Ledger keys share the room of their scope and the files; two of a scope are enough for
one to be started while the other's record is pruned, compacted or torn, and one
of another scope meets a full first one and the room of all. Two components, one of each kind, make every mixture a
restart must not find; three commands are an import whose cleanup is put off, a
configuration saved over it, and a command that meets both. Two crashes make a crash of a recovery; two faults make a
failed undo of a failed step. The baseline needs two identities to be a mixture, and
two changes so that one from outside meets a command, or one command follows
another. The windows share the limit, which is met at one; three events are a window
opened, its page navigated or signalling, and a configuration replaced. Two commands
of the lifecycle are an install and the check or the exit that overtakes it.

The inputs of `decisions` are built around one valid instance of each document:
each field of it is varied, alone or with the fields its checks relate it to, and
each thing read twice is varied between the reads. `MaxArguments` = 2, `MaxBuffer` = 1,
`MaxInputs` = 3, `MaxFiles` = 3, `MaxDepth` = 2 and `MaxSafe` = 2 stand for the
limits of the code and are reached and exceeded by the inputs; `MaxLifetime` = 3,
`Skew`, `Tolerance`, `MaxRollbacks` = 1, `MaxCheckAge` = 2 and `MaxDecisionAge` = 5 are
its times in ticks. `MaxChanges` = 2 lets one file change while another was changed
before, or be changed and changed back.

**Bounds that exclude something.** Some choices keep known behaviour out of a run;
each was tried the other way:

- `broken` (`project`): the behaviours in which a mapping was lost by an undo whose
  error the code drops (LM:479–483) or a sync failed after the commit rename (PA:101)
  are followed up to that step; the properties and theorems claim nothing after it, and
  `Unbroken` lets TLC stop there. All other failures, those of undo steps included, are
  inside: the answer of an import that kept the new configuration says so (`kept`).
- `CapacityIsIsolated` claims the limits only while no I/O error happened and no rename
  was undone: a record whose append failed, or whose deletion was undone, is found, and
  counted, after a restart.
- `Explored` (`ledger`): the operation of the second scope is recorded at the first tick,
  with the one request, and without I/O errors and undone renames beside it; the two
  keys of the first scope meet everything. `MaxTime` = 3.
- `Second` (`supervisor`): invocations go to the first plugin.
- `NoStalePages` exempts windows that were being built during the replacement, that
  could not be destroyed, or were opened by one of these; `SystemMatchesConfig` claims
  what one failure leaves.
- `CallsAreNotCut` exempts an exit during which a failed install opened the admission
  again (`reopened`, section 6).
- `StartIsTold` claims nothing of a stage of the setup hook that fails: the framework
  runs the hook in its event loop, after `STARTUP_COMPLETE`, and such a failure is not
  told (`FailedStartsAreTold`, section 6).
- `CompatibleVersionsServeOldPages` exempts requests with a text that GBK lacks when a
  DLL input changed its charset, which is marked for review, and versions whose native
  binding or extensions changed (section 6).
- A file of `Cutover` that is not a document changes once and stays: a file that is
  changed and changed back while a tool reads it cannot be noticed by comparing
  before and after. The same holds of a bundle between its two hashes, and of a kit
  for pages.

**Fairness.** Liveness needs that tasks that can run do run (the tokio runtime),
that its mutexes and read/write locks are granted in order (tokio documents both
as fair; the gate and the slot lock get strong fairness because they are
contended again and again), that a native call ends by its deadline
(`request_timeout`, CTL:1322), that a start ends by its own (120 s), and that
file operations return. In the shell timers expire, the main thread handles its
queue, and a page that was asked for starts to load (strong fairness, as a
navigation is taken up between other events). In the lifecycle the time limit of the
exit's drain is real and the framework asks to exit when the last window is gone.
Fairness is never put on faults, crashes, new calls, cancellation, the signal of a
page or the answers of a host: a host may stay silent for ever, its caller's deadline
is what ends the call. The owner of a maintenance is assumed to release it.

## 4. What is proved

The runs check small instances; the theorems hold for every value of the constants:
any number of callers, calls, components, keys or commands, and any number of
faults and crashes. Every theorem rests on an inductive invariant, `IInv` of its
module, which TLC checked on the instances of section 3 before it was proved.

| Theorem | States |
|---|---|
| `Coordinator_proofs` | |
| `TypeCorrect` | `Spec => []TypeOK` |
| `AtMostOnceExecution` | `Spec => []ExecutedAtMostOnce` |
| `EvidenceFirst` | `Spec => []EvidencePrecedesExecution` |
| `WaitersServed` | `Spec => []WaitersAreServed`: who waits, waits for an operation that is worked on or has an answer |
| `QuietDrain` | `Spec => []DrainIsQuiet` |
| `TrueAnswers` | `Spec => AnswersAreTrue` |
| `Ledger_proofs` | |
| `EvidenceSurvivesCrashes` | `Spec => []EvidenceIsKept` |
| `StartsRead` | `Spec => []RecoveryIsSound` |
| `ScopesFit` | `Spec => []CapacityIsIsolated` |
| `ImplementsAtMostOnce` | `Spec => StartsAtMostOnce` |
| `Controller_proofs` | |
| `MaintenancesExclude` | `Spec => []MaintenanceIsExclusive` |
| `QuietHosts` | `Spec => []HostsAreQuiet` |
| `SettledVersions` | `Spec => []SettledCallsStayInTheirVersion` |
| `OthersAreServed` | `Spec => UnrelatedPluginsAreServed` |
| `Supervisor_proofs` | |
| `HostsAccountedFor` | `Spec => []HostsAreAccountedFor` |
| `OwnOutcomes` | `Spec => OutcomesAreOwn` |
| `ProjectActivation_proofs` | up to `broken` |
| `AnswersMatch` | `Spec => []AnswersMatchDisk` |
| `ImplementsAtomicSwitch` | `Spec => SwitchesAtomically`: every file operation is a step of `AtomicSwitch` or a stutter |
| `AppLifecycle_proofs` | |
| `StartsAreTold` | `Spec => []StartsReachTheUser` |
| `UpdatesAndExits` | `Spec => []UpdatesAreOrderly` |
| `BusinessWindows_proofs` | |
| `ShellTrue` | `Spec => []ShellIsTrue` |
| `PagesNeverStale` | `Spec => []NoStalePages` |
| `CapabilityBaseline_proofs` | |
| `ApprovedRun` | `Spec => []OnlyApprovedRuns` |
| `ContractsKept` | `Spec => AcceptedContractsAreKept` |
| `BaselineServed` | `Spec => []BaselineIsServed` |

**Assumptions.** Each is a named `ASSUME` of the module, or the hypothesis of the
theorem. `None` differs from the values it stands beside; limits are numbers,
positive where the code divides or compares with them; the sets that a counter
counts (slots, tasks of the controller, operation keys, worker keys) are finite.
Two say more:

- `IdsOutnumberFaults` (`Supervisor`): there are more request ids than faults. The code
  counts ids in 64 bits (CTL:1804); each fault leaves at most one stale frame in a pipe,
  and with more of them than ids one could carry the id of a later request.
- `CompletedRetention <= AcceptedRetention` (`Ledger`), as LED sets them: a record that
  is only accepted keeps a completed promise at least as long.

**Why the properties are not inductive, and what the invariants add.**

*Coordinator.* Nothing in `ExecutedAtMostOnce` says that a workflow about to call the
controller belongs to a key nothing was executed for. `IInv` adds `WorkIsBound` (a
workflow keeps its key and request, and one in `execute` finds `executed = 0`) and
`CallsAreBound`. The argument turns on `BeginDurable`: a workflow reaches `execute` only
if the ledger had no evidence for the key; no execution is without evidence, so
`executed` is 0, and the record it writes keeps every other workflow of the key out.
`ServiceInv` adds the books: the runtime map is injective and its entries are of their
key, `finished` lists exactly the entries that may be dropped, once each, every
pending operation has a workflow or supervisor, every waiter an entry that is not
dropped, and the counter counts them. A drained coordinator is quiet because the
counter is exact; an answer is true because what a supervisor is
about to report is still what the ledger knows (`VerdictsAreCurrent`) and a result in the
runtime map that counts as durable is recorded (`ResultsAreCurrent`). A result may
be kept longer than its evidence; `conflict` and `failed` say nothing of an execution.

*Ledger.* `EvidenceIsKept` speaks of what is on disk; a step may be interrupted after any
of its file operations, and a power loss then chooses what survives. `FilesHold` says
that in every journal a power loss can leave, if its lines parse, the last record of
a key supports what was promised for it, and where there is none, every snapshot does.
While the ledger is open (`OpenIsSound`), memory supports the promises too, the counts
and the next deadline are those of the operations, and the promises hold without the
unterminated tail that an append hides. `CleanFiles` says what a run without an I/O
error leaves: only a last record is unfinished, the records of a key agree, and the
keys fit. All parts are stated of a disk and a memory, because they hold between the
steps of an operation; compaction is the hard one, in which for a while the old journal
stands behind the new snapshot and has to mean the same. `RenamesLast` says that a
rename is undone only where directories are not synced; after that `Owed` promises
nothing, as the files do.

*Controller.* `LocksAreOrderly` says who may hold a FIFO lock together, `TasksAreLocked`
which locks each task has or waits for at each of its awaits, `FlagsAreOwned` that a
raised flag is a maintenance's, and `CallsKnow` what the epochs tell: an epoch that is
still what the call has seen means that no maintenance has begun, so that the route it
cloned is the installed one. A call past its second check and a maintenance past its
gate therefore do not meet.

*Supervisor.* `SlotIsMine` (who starts a host has its slot), `HostsAreTheirs` (slots and
calls hold hosts of their own key, so that stopping a plugin leaves those of others), `LaneIsHeld` (a lane belongs to the call that uses
the pipe), `CallsAreConsistent`, and for the pipe `PipeIsOrdered` and `FramesAreOwn`:
ids count down from the next one, at most one unread frame is left per fault, and a
frame with the id a call waits for is its own. This is where the ids must outnumber
the faults.

*ProjectActivation.* `Outcome`, what a restart would find, is a function of all files;
whether a file operation changes it depends on where the command is. `IInv` has a
part for each place: a directory is taken apart only when its transaction restores
something else (`TransactionsFit`); a recovery settles one root after the other
(`RecoveriesSettle`); a command remembers what it found, and nothing of it shows
before the commit point (`CommandsRemember`, `NothingShowsBefore`); the project's
journal names the side (`ProjectFits`, `ConfigFits`); members are put in place, then
committed, one by one (`MembersInPlace`). The proof has a lemma per file operation
saying that `Outcome` stays, one per way in which a command ends, and few steps in which
`Outcome` moves: the rename of the project's journal, that of a single transaction, those
by which a saved configuration shows or is hidden, and the removal of a project whose
configuration could not be put back. The invariant proved is `UntilBroken`: `IInv`, or
one of the two failures of `broken` has happened.

*AppLifecycle.* `StartIsOrderly` (stages come in order, the flag is set where the event
loop is entered, and what was reported fits), `SurfacesAreLeft`, and for updates `InstallsAreAlone`, `OffersAreConsumed`,
`InstallDrains` and `ExitDrains`: admission is closed in both places before the calls
are waited for, and stays closed until the process ends or the command opens it
again.

*BusinessWindows.* Three threads take several steps over one window, which is known by
its label only. `LabelsSuffice` bounds the labels by the events, `LabelsAreFresh` says
that a label taken for a window not built yet is nobody else's, so that no handler
finds the wrong window; `JobsFit` and `WindowsFit` are the types of each step, `MapHolds`
keeps the map within its limit. `PagesAreCurrent` says which windows a replacement of the
configuration still has to close, and that a window being built has the configuration
its thread read or is marked as overtaken; `FloatingsAreEntered` says who owns a floating
window between its building, its entry and its display.

*CapabilityBaseline.* The three properties need each other's parts. `GoalFits`,
`StepsFit`, `MemoryFits` and `TransactionFits` say where a command is, what it still has to
do, and which of the two baselines and which transaction exist there; most arguments
start from them. `DirectoriesFit` says that nobody changed what a command found; a
change from outside during a command (`raced`) is what it exempts, and the parts on
approval and contracts hold even then. `AcceptedAreApproved` follows every place a
mapping can be served from: both records, their images in memory, the routes and those
a rollback puts back. `DeletedAreGone` is what lets a removal take an approval back.
`ContractsAreKept` compares the pending record with the baseline, since either may be
the next one. `DecisionsArePossible` is about the start after a crash at any step: one of
the two records describes what it finds, unless the directories were changed, the
baseline had drifted, or debug cases were edited over a record left behind.
`DirectoriesAreAccepted` and `RoutesFit` relate what is served to what is accepted: the
routes a command would put back are those of the current entries, the routes it makes
those of the next ones, and the entries are all that the quarantine leaves of the
directories. `AnswersFit` keeps what the next start would serve if the command failed
(`Before`, the directories as a failure leaves them) and what the record it wrote can
add to that: only what was confirmed. An answer is true because a start with a
pending record serves everything that is installed or is refused.

**What the proofs changed.** A configuration saved while a committed project is left
behind is hidden by it, and a later import can show it again: two commands were too few
to meet this, and both `AtomicSwitch` and `ReportsAreTrue` excluded it. They now say
which configurations may show (`saved`, `Show`), and the run has three commands. That
stale frames must be fewer than request ids became an assumption of its own. The
routes of `CapabilityBaseline` stayed those of the new set when a rollback of the
directories failed; in the code they are put back all the same, or were not changed yet
(`RollBackFails`). With that, one accepted set is served after any number of faults, where before the property
held for one only.

**Only model-checked.** Liveness (`WaitsEnd`, `EverythingEnds`, `CallsEnd`,
`LifecycleEnds`): no prover here handles fairness and ENABLED. What `Contracts` and the
modules after it decide is computed by folds and recursion over documents; what such a
definition gives for every input needs induction over data, which is out of the
provers' reach.

## 5. Assumptions of the models

- The file system keeps a new journal's name with its first sync. A rename survives a
  power loss once its directory was synced; where `sync_directory` does nothing (LED:535,
  not Unix) any later power loss may undo it (`LoseRename`).
- The clock does not go back (LED uses the wall clock; a step back only prolongs
  retention); in `Cutover` it may be ahead or behind by the tolerance of the tools.
- `AtMostOnce` counts executions the controller was asked for. Whether a native
  component acted when a call was indeterminate is outside any model.
- The evidence of an operation outlives its workflow: retention is counted in hours
  and days, a workflow ends by the deadline of its native call (`ExpireEvidence`).
- Futures are dropped only at awaits; atomics are sequentially consistent (the
  code uses acquire/release and locks around every dependent pair that matters
  here, except the reads discussed in section 6).
- In `ProjectActivation` and `CapabilityBaseline` a crash is the death of the process;
  what the file system showed stays. Power losses, which may undo renames that were
  not synced, are modelled for the ledger only.
- Request ids of a host wrap at 2^64; the model wraps at 4 with frames in flight
  fewer than that, as in the code.
- Digests have no collisions and signatures cannot be made without the key. JSON,
  archives, HTTP and PE files are read as they were written or refused; limits of
  bytes, counts and depths are left out unless a constant names them.
- The desktop framework handles the events of the main thread one at a time. The version
  the repository is locked to (`Cargo.lock`, tauri 2.11) runs the setup hook when its
  event loop is ready, not in `build`, and panics when the hook fails.
- What a foreign function leaves in its buffers is any value of their type.

## 6. Where the code and its documentation differ

Each of these was met while translating the code. One has a run:

1. `controller_versions`: `docs/web-bridge-migration.md:148` says no request is
   executed across versions. `invoke_inner` clones the route (CTL:691) and loads the
   epoch of the plugin after a later await; a whole maintenance fits between, and
   the call runs with the old route on the new installation. `activate` (CTL:952)
   also raises the epoch before the flag. `SettledCallsStayInTheirVersion` is what
   does hold.

Four are stated as properties of the modules and are false of them; no run checks
them, and checking one shows the behaviour:

- *Serial use* (`Supervisor!ComponentIsUsedSerially`, CTL:1455).
  `docs/web-bridge-migration.md:126` says a component is used serially. After an error
  answer `evict` removes the worker from the slot without stopping it; a call waiting
  for its lane uses it while the next call starts and uses a second host.
- *Startup* (`ProjectActivation!StartupRecovers`, PKG:262). PKG:205 says recovery
  restores the state after a process crash. The transaction directory is made (PKG:371)
  before its journal is written (PKG:385), and is removed piece by piece; a crash in
  between leaves a directory without a journal, on which startup (LIB:6034) and every
  later command fail. The project directory has the same window (PA:76, PA:112).
- *Memory* (`ProjectActivation!MemoryMatchesDisk`, PA:177). `docs/project-bundles.md:86`
  says the recovery at run time avoids a change of the configuration on disk under an
  unchanged memory. The guard covers the prepared case only. After an import with a
  deferred cleanup (LIB:1569), a saved configuration (DESK:562 runs no recovery) is
  overwritten on disk by the recovery of the next command; while the project is left
  behind a restart does not find it, and a later import that is begun and taken back
  can show it again.
- *Failed starts* (`AppStartup!FailedStartsAreTold`, LIB:6383). `docs/diagnostics.md:31–33`
  promises a dialog with a stable code, and the marker, for every stage at which the
  start fails. `STARTUP_COMPLETE` is set when `build` has returned, before `app.run`
  enters the event loop, where the framework runs the setup hook: all stages from
  `RuntimePaths` on. An error there is a panic, and the panic hook reports nothing once
  the flag is set (LIB:6764). The user sees neither, and a marker of an earlier
  failure stays as it was. Only the probe of WebView2, errors of `build` and panics
  before it are told.

`Coordinator!WaitersAreServed` (making room in the runtime map drops nobody's entry) is
stated without a run of its own and proved (`WaitersServed`).

Seen in the models, ledger to controller:

- On Windows the directory is not synced after the rename of a snapshot (LED:490, :535),
  and the compaction then empties the journal durably (LED:427). A power loss that undoes
  the rename leaves the old snapshot with an empty journal: evidence is lost, and a key
  can be started again (`docs/tracked-invocations.md:68` promises that it cannot). The
  properties of `Ledger` hold in full where directories are synced; elsewhere they are
  claimed for every crash and every power loss that undoes no rename (`undone`).
- A failed append leaves a torn line in front of later ones, and the next start
  refuses the whole ledger (LED:407; `docs/tracked-invocations.md:45` speaks of an
  interrupted last record only). `EvidenceSurvives` therefore says "refuses or finds".
- A compaction that fails after memory was pruned leaves bindings on disk that memory
  forgot (LED:540); a key bound anew to another request then conflicts at the next
  start, which refuses.
- `status` reads the runtime map and the ledger in two steps (INV:243): an operation
  admitted in between is reported as one a former process left.
- A refused request is retained in the runtime map under the key it does not own
  (INV:290), so that the rightful request meets a conflict until it is cleaned up.
- Calls that wait for a lifecycle lock hold their admission permit (CTL:720).
- The fields of a maintenance guard are dropped locks first (CTL:939), so that the
  flag that is lowered last may be the one the next maintenance raised; the epochs
  still turn stale calls away (`GuardsAreReleased`, `SettledCallsStayInTheirVersion`).

Installation:

- `rollback_project_after_final_verification` (LIB:1002) takes the members back and
  removes the project transaction although the former configuration could not be restored.
  The answer says so and asks for a restart to complete the recovery
  (`docs/project-bundles.md:80` promises no mixture of the two); but nothing is left to
  recover from, and the restart keeps the new configuration beside the old components.
- When the previous directory of a mapping cannot be renamed back, the error is dropped
  and its transaction is removed with the directory in it (LM:479–483): the mapping is
  lost.
- `mark_committed` renames the journal and then syncs the directory (PA:101). If the sync
  fails (on Unix), the command takes its members back and answers that it failed, while
  the journal says committed; if its removal fails too, or the process ends before it, a
  restart takes the import for complete.

Capability baseline:

- A start refuses for good after a crash, a failed abort or a failed promotion when the
  directories hold quarantined content, or when a debug case was edited over a record
  left behind; the comment at `plugin_api_baseline.rs:212` speaks of the interrupted
  transition only.
- The tombstone of a signed plugin is overwritten when a local mapping of its id is
  saved or imported (`README.md:59`, `docs/plugin-signing.md:71`).
- Debug cases that are changed outside between check and preparation are accepted
  (`docs/local-mapping-studio.md:51`); so is a compatible plugin that was changed
  outside, by the next installation of another one, although it is not served.
- After a deletion whose promotion failed, restoring the directory from outside before
  the restart serves the mapping again.

Shell and lifecycle:

- `open_secondary_window` does not ask `require_current_managed_processes`
  (DESK:1033–1113; `docs/completion-assessment.md:46`), and windows that are being
  built while the configuration is replaced keep the origins of the old one
  (`docs/project-bundles.md:82`).
- A window of single sign-on that is closed before its cleanup is installed keeps its
  place for ever; a floating window whose `show` fails stays, invisible, without a
  timer; a late ready signal makes the page loaded since Ready.
- A failed installation opens the admission again while an exit drains
  (`app_update.rs:350`; `docs/adr/0001-target-architecture.md:33`, `:51`). The drain of an installation has no
  time limit, and a check clears the pending update outside the lock of the install.

Contracts and native calls:

- Integers for a DLL are not checked against the width of their parameter
  (`arguments.rs`), those of COM are (`docs/completion-assessment.md:57`). A DLL input
  declared a string becomes empty when it is given another type, a bool false. The
  result of a DLL declared bool is that of its whole word.
- The generated client says `string` for a text a DLL may leave null; the declared type
  of a COM result is not enforced; answers of executables do not follow the response
  contract of the others.
- A change of the entry from COM to DLL is only marked for review. So is a change of the
  charset of a parameter or of the service, though GBK refuses texts that UTF-8 took
  (`arguments.rs:225`), and what a page reads of an output is decoded otherwise.
- The dependency `*` is accepted and makes the integrity document of a mapping fail;
  `./x` is a safe relative path to one function and none to another; a DLL that is
  imported implicitly is not protected by the document.

Supply, policies and projects:

- A local package is installed without a look at the catalog's withdrawals; an older
  catalog can be given again until it expires; a catalog may list packages that were
  signed by a key retired since.
- Merging a legacy configuration can give one that does not validate, which stops the
  start. `ssdev-process-policy` compares a canonicalized path with one that may not be
  (`src/lib.rs:242`, `:328`).
- An export compares its candidates with the active routes by the number of services
  and their coverage only, so that a component changed outside during the export is
  packed though it is not what is served. A project with a plugin signed by a retired
  key, or with pages but no routes, runs and cannot be exported.

Release:

- The desktop saves and exports a debug case whose name has blanks at its ends or
  control characters (LM:1289), and the release tool refuses it
  (`ssdev-plugin-tool/src/lib.rs:2788`; `docs/local-mapping-studio.md:16`,
  `docs/plugin-release.md:5`); it drafts names longer than it accepts. Likewise a kit is
  generated with a display name that its own check refuses (`:1240`). The instances use
  names on which both agree.
- The policy that is signed is whatever the file holds when the signature is requested;
  a desktop in unsigned plugin mode can be ready for delivery; a matrix run accepts
  keys that could no longer issue and its capture asks for those that could; evidence of
  a migration is written of a blocked audit, too; replacing the current trust stores
  during the last check refuses, even when only a key was retired.

## 7. Not modelled

- **Diagnostics, logs, dialogs, the tray menu**: they read and report; no modelled state
  depends on them.
- **Screen capture and its region overlays** (`capture.rs`): calls of the operating
  system. Two captures of a region that start together both open their overlays.
- **COM discovery, command permissions**: a query of the registry and a generated table.
- **Control window and JavaScript adapters**: user interface over the modelled commands;
  what they may ask of the coordinator and of the commands is its input in the models.
- **The foreign calls of the native adapters** (memory, exceptions, the life of a child
  process): the environment of `Supervisor`, in which a host answers anything, hangs or
  dies.
- **JSON, archives, PE files, HTTP, cryptography**: conversions that refuse or return
  what was written. So are the length-prefixed encoding of the host protocol and the
  extraction of packages, whose staging directories a restart does not load.
- **Limits** of bytes, counts and lengths, where no constant names them.
- **Migration of legacy configurations and what the migration audit reads**: single passes
  over files that nothing else writes; the audit's findings are an input of `Cutover`.
- **The scaffold of a new plugin, example and fixture plugins, build and test scripts**:
  they take no part at run time.

`PROJECT.json` lists the components with what is left out of each.

## 8. Plan

Done: tracked invocations (`AtMostOnce`, `Ledger`, `Coordinator`); native
calls (`Controller`, `Supervisor`, `NativeCalls`); installation for process crashes
(`AtomicSwitch`, `ProjectActivation`, `CapabilityBaseline`); the shell and the life of the
process; contracts, supply, policies and projects; the release from a mapping to the
rollout; the theorems of section 4.

Next, in this order:

1. The refinement of the host set of `Controller` by the slots of `Supervisor`.
2. Power losses for installation (two images of a directory, as in `Ledger`).
3. Region overlays and the origins of `ipc_business_origins` in `BusinessWindows`.

## 9. Running

    tlc -workers 2 -config MCProject.cfg MCProject     # one run
    tlapm Coordinator_proofs.tla                       # the proofs about one module

Each run takes between a second and three minutes on two cores; `decisions` explores
222,659 states.
