# tmup in TLA+

TLA+ models of `tmup`, the tmux plugin manager of this repository: what the
program does to its configuration, lockfile, checkouts and failure markers, and
how its processes share them. TLC checks the models on small instances, TLAPS
proves the main safety properties for every instance.

Paths below are relative to `src/` (the repository); `state.rs:347` is short for
`src/src/state.rs:347`. `PROJECT.json` maps every definition to the lines it
models and lists the runs, the theorems, the hazards and the disagreements found.

## The system

`tmup` is one executable, run by hand or by tmux, with no daemon. Processes share
files, tmux and an advisory file lock, nothing else.

Shared state:

| what | where | written by | guarded by |
|---|---|---|---|
| configuration `tmup.kdl` (or tmux's own files) | user | the user, a pull, the first command (`ensure_tmup_config_exists`) | nothing |
| `tmup.lock` | next to the configuration | sync, install, update, restore, init | operation lock, atomic rename |
| `plugins/<id>` checkouts | data root | publish, clean | operation lock |
| `repos/` bare repositories | data root | preparation | operation lock |
| `.staging/` | data root | preparation, publish | operation lock, named by process |
| `failures/` markers | state root | sync, update, clear | operation lock |
| `init-sessions/<id>/` | state root | init processes | rename, hard link without replacement |
| `operations.lock` | state root | every mutating command | `flock` |

### Components

| component | state and operations | interacts with | what is hard | what makes it correct |
|---|---|---|---|---|
| `sync.rs` reconciliation | selects, prepares, publishes, prunes, writes the lock, under a `SyncPolicy` | git, repo, lockfile, state, prepare | one plugin of several fails; a crash in every gap; stale reasons | converges on success, isolates failures, never advances a pinned revision |
| `plugin.rs` install, update, restore, clean | a phase after sync; staging of an update | the same | the follow-up works on what sync left | idle after a clean sync; targeted commands touch the target only |
| `git.rs` publish | stage, build, remove, rename | file system | removal and rename are two steps | nothing unbuilt goes live, a failed build leaves the old checkout |
| `repo.rs` preparation | which revision a selector means | git, upstream | short hashes, moving branches | `update` alone follows upstream |
| `lockfile.rs` | entries, fingerprint, atomic write | all commands | only memory of what was built | an entry names what was published |
| `state.rs` markers | write, read, clear | sync, init | torn files | a known failure is skipped until it is repaired |
| `state.rs` operation lock | try, wait, release by Drop | all mutating commands | death of the holder | one writer, always released |
| `planner.rs` | inspection, statuses, scan | list, clean, sync | reads beside a writer | a status a reader could have met |
| `init_session.rs`, `record.rs` | invoked process, bootstrap, child; session directory, claims, result | tmux, operation lock | hand-off between three processes, every one of which may fail | loaded exactly once, or reported; nobody waits for ever |
| `prepare.rs` | bounded concurrency | sync, plugin | results out of order | same results as one after the other |
| `loader.rs`, `tmux.rs`, load execution | a plan of commands in phases | init | a failed command in the middle | a failed plugin is left alone, the others load |
| `config.rs`, `config_tpm.rs`, `model.rs` | what a document and tmux lines declare | user's files | nested branches; files that go between two reads | an `else` belongs to its `if`; the first declaration of an id counts |
| `config_mode.rs`, `condition.rs` | default file; merge of native and TPM declarations; enabling, loading, branches | shell, user, other commands | creation beside a reader; timeout against exit; order of evaluation | no user file is replaced; disabled plugins are never asked or loaded |
| `progress/*`, `termui.rs` | events, reducer, reporter, live rows | all operations | concurrent reporters, late events | a finished plugin stays finished |
| `main.rs` | commands, the lock around them, exit codes | all | order of lock, read, write | reads after locking |
| `install.sh`, `scripts/release` | shell | | | outside the program |

## What is modelled where

### `Lifecycle`: the mutating commands

One process runs `sync`, `install`, `update`, `restore`, `clean` or `init` at a
time; that there is one at a time is the business of the operation lock
(`InitSession`). Every command is a *sync phase* (`sync.rs`) that its own
*follow-up phase* (`plugin.rs`) may come after, and both go through the same
places, the values of `pc`:

    idle -> select -> prepare -> apply -> { build -> remove -> rename -> track } -> write -> idle
                                                                        write -> load | scan -> clean

| TLA+ | code |
|---|---|
| `config`, `upstream` | the declarations of `tmup.kdl`; what branches and tags name at the remote |
| `lock`, `disk`, `markers`, `torn` | `tmup.lock`, `plugins/`, `failures/` whole and cut short |
| `mem` | `&mut LockFile`, the snapshot a command works on |
| `waiting`, `prepared`, `pending`, `staged` | prepare jobs, their results, those not applied, the staging directories |
| `failed`, `skipped` | `SyncOutcome`, the failures counted by `plugin.rs` |
| `SelectSync`, `NeedsReconcile`, `KeepsRevision` | `SyncPolicy`, `plugin_needs_reconcile`, the choice between the locked commit and resolution |
| `PrepareSucceeds`, `PrepareFails` | the jobs of `run_bounded`, in any order of completion |
| `Adopt`, `SkipKnownFailure`, `BeginPublish` .. `Track` | `reconcile_plugin`, `publish_replace`, `publish_fresh_install`, one action for each effect on disk, so that a crash falls between any two |
| `Write*`, `Load`, `Scan`, `RemoveManaged` | `write_lockfile_atomic`, `execute_load_plan`, `clean` |
| `Crash`, `*Fails`, `TearMarker` | the death of the process, failing file operations, a marker written in part |
| `EditConfig`, `Pull`, `Damage`, `UpstreamMoves` | the user, another machine, the remote |

What the data abstract: the configuration hash and the fingerprint are taken as
injective and are the declaration and the configuration themselves. A checkout
is its HEAD and the build its contents come from; `Gutted` says what a removal
that stops half-way leaves. A process has read its configuration before it
starts to work, so the user's edits are placed between commands. What `update`
reads from disk when it prepares is read when it applies: under the operation
lock nothing else writes in between. The removal of a staging directory
succeeds; that of a crashed process stays, under a name no other process uses.

### `InitSession` and `ManagedState`: the processes of `init`

An invocation is up to three processes (`Parents`, `Boots`, `Children`) and,
because tmux can run a resume command twice, second copies of the latter two.
`pc` follows `init_session.rs`:

    preview -> lock .. (inline)              bootstrap: claim -> preview -> ...
            -> host -> spawn -> await -> consume -> cleanup        child: claim -> lock .. result
            -> defer -> (abandon)            lock -> reload -> sync -> load -> unlock -> result | cleanup

| TLA+ | code |
|---|---|
| `config`, `managed` | version of the configuration; the version that managed state follows and who synced it |
| `holder` | the operation lock (`state.rs:330-397`) |
| `using`, `seen` | the configuration an execution has read; the one there was when it took the lock |
| `session[i]` | the session directory: bootstrap and child records, the child's result, whether the owner preserves it |
| `ui[i]` | popup or split: open until the wrapper has ended |
| `Preview`, `ChooseUi` | `preview` and the choice of inline, hosted or deferred |
| `Defer`, `PublishChild`, `Spawn`, `Await`, `Consume`, `Cleanup` | `record.rs` publication, tmux commands, `terminal_completion_confirmed`, `consume_child_result` |
| `Claim` | rename, read and removal of a record |
| `Acquire`, `Reload`, `Sync`, `Load`, `Unlock` | `execute` under the lock |
| `TryAcquire` | every other mutating command, which gives up when the lock is taken |
| `*Fails`, `Crash`, `Relaunch`, `UiCloses` | the faults, one kind each in `FaultKinds` |

`NeedsWork` makes the preview advisory: it is read without the lock, so beside a
writer it may find anything. `try_acquire` and the blocking acquisition that
follows it are one action. Records are never torn, because they appear by hard
link. "unacknowledged" is a tmux command that ran and was reported as failed:
`AtMostOneLoad` and `SessionOutlivesChild` exempt it, for there the code cannot
know; LoadedOrReported does not. `ManagedState` is the abstract specification of
`docs/design.md` 4: one owner, which alone changes the managed state. `InitSession`
implements it with the operation lock as owner.

### `Listing`: `tmup list` beside a command

`list` takes no lock. `Listing` extends `Lifecycle` with one reader that may run at
any moment between the steps of a command.

| TLA+ | code |
|---|---|
| `at`, `view` | where `run_list` is, and what it has read: configuration, lockfile, health of each checkout |
| `ReadConfiguration`, `ReadLockfile`, `InspectCheckout`, `CheckoutsRead`, `ShowStatuses` | `run_list` (`main.rs:349`) and `build_health_map`, one action for each read; markers are read when the table is made |
| `StateOf`, `Row`, `BuildStatus`, `Stale` | `compute_statuses`, `lock_is_stale`, as functions of what was read |
| `rows`, `beside`, `quiet` | history: the rows that were true while list ran, whether a phase ran beside it or began meanwhile, whether the last list had nothing to show: no warning, no row out of order, no failed build (`ListsSettled`) |

`RowsWereTrue` is the promise such a reader can keep: phases change checkouts first and
the lockfile last, and `list` reads them in the other order, so a row it joins from
both was true at some moment, if it overlaps one phase. Over two phases it is not.
`ListAndSyncAgree` relates the two readers of the same files: after a successful sync of everything
`list` shows no warning and no row out of order, and what it is content with, failed builds
included, no command but an update or a clean touches. That a sync also answers a failed
build is what the documentation says, and run `retry` refutes.

### `Configuration`, `Conditions`, `LoadPlan` and `LoadPlanReference`: what a command declares and an init applies to tmux

`Configuration` is one load of the declarations (`config_mode.rs`, with the parts of
`config.rs` and `config_tpm.rs` that decide what is declared), one action for each
access to a file; `Conditions` extends it with the resolution of conditions
(`config_mode/condition.rs`), and `LoadPlan` with what an Init Session does with the
result. In `InitSession` all of it is the actions `Reload`, `Sync` and `Load`.

    stage: start -> write -> discover -> root -> (expand -> open)* -> kdl      Configuration
           -> enabled -> cond -> if -> resolved | failed                       Conditions
    step:  conditions -> plan -> global -> commands -> ended                   LoadPlan

| TLA+ | code |
|---|---|
| `tmup`, `tmux` | `tmup.kdl`, absent, whole or cut short; the tmux files there are |
| `Found`, `Create`, `WriteTemplate`, `WriteFails` | `TmupConfigPolicy`, `create_default_tmup_config`: creation and writing are two steps |
| `Discover`, `ReadRoot`, `Expand`, `Open`, `OpenMissing`, `OpenFails`, `ScanEnds` | discovery of the root file, `direct_sourced_files`, patterns, `source -q`; every file is read by itself |
| `Misplaced`, `Declarations`, `Invalid` | `parse_config_document` and the branches, on nodes instead of text |
| `Scanned`, `Merge`, `ReadKdl`, `UseDefault` | the first declaration of an id, `merge_configs`, `load_tmup_config_or_default` |
| `UserWrites`, `UserRemoves`, `AnotherCreates`, `TmuxFileGoes` | the user and other commands while this one reads |
| `intent`, `NextStage` | `ResolutionIntent`: init resolves all three kinds, `list` two, other commands one |
| `Take`, `EndStage`, `Literal`, `Answered` | the loops of `resolve_plugins_with_runner`, `evaluate_condition` |
| `todo`, `Selected`, `Project`, `Projected` | `project_runtime_declarations`; its recursion is a list of what is left to visit |
| `shell`, `Spawn`, `Poll`, `Wake`, `PollLast`, `Kill`, `MonitorFails` | `ShellConditionRunner::run`, `terminate_condition_process`; time passes in `Wake`, in poll intervals |
| `Exits` | the predicate, at any moment, with any status, or never |
| `Sync` | `SyncOutcome`: the plugins excluded, those of them reported |
| `BuildPlan` | `build_load_plan`, its three global phases |
| `SkipCommand`, `Execute`, `ExecuteFails`, `Finish` | `execute_load_plan` and the verdict of `execute_core` |
| `last` | tmux: which command wrote an option, a variable or a key last |

A document is a sequence of nodes, a tmux file a sequence of lines, each of them a
record with what the merge and the resolution tell apart. A pattern is the list
of its matches. The user writes `tmup.kdl` only where there is none; another
command creates the default only beside a command that does not hold the
operation lock (`list`). Options, environment operations and their values are
`setup` of a name; a script may write any names at all, also when it fails. A tmux
command is one step, so what a script leaves running in the background is outside.
The scripts found on disk are any number up to `MaxScripts` for each plugin. Two
local entries with one path share an identity, as they do in `push_plugin_command`.

`LoadPlanReference` says what `docs/configuration.md` and the ADRs promise, as
recursive functions of the files and the answers: what the merge keeps and in which
order, which predicates are asked in which order, and what is selected. It is a
module of its own, over `LoadPlan`.

### `Display`, `Reporter` and `Progress`: what a command tells its reader

`Progress` is the sequence of events of one command (sync phase; follow-up of
`install`, `update`, `restore`; load of `init`) with the concurrent preparations of
`prepare.rs`; `Reporter` is what the reporter makes of an event, one operator for
each function, since every report is handled under one mutex. `Display` is the abstract
specification, which `Progress` implements: for every subject a status that only
moves forward.

| TLA+ | code |
|---|---|
| `rep.state`, `rep.stage`, `Reduced`, `Refuses` | `ProgressSnapshot`, `apply_event` |
| `rep.frame`, `rep.lines`, `Bootstrap`, `WriteRow`, `Reached` | `LiveRenderer`: its rows, and where writes to a terminal of `Height` lines land |
| `rep.shown` | the label the reader saw last of each subject, in either sink |
| `rep.file`, `rep.logged`, `rep.warned`, `rep.deferred`, `Logged`, `Drain` | `DetailLog`, its warnings, the output failures it records |
| `Finish`, `Dropped` | `ReporterState::finish` by the end event or by `Drop` |
| `Foreign` | `emit_warnings`, which writes past the reporter |
| `StartJob`, `EnsureCache` .. `Materialize`, `JobFails`, `Collect` | the jobs of `run_bounded` with the steps of `repo.rs` they report; `Slots`, `InOrder` |
| `ApplyUnprepared` .. `AdoptFails` | serial application, each outcome with its event |
| `Ends`, `OperationFails`, `Stop`, `Follow`, `LoadTmux`, `ReportLoad`, `FinishInit` | `finish_visible_operation`, the ends of phases, the load's failures |
| `StderrGone`, `LogsChange` | stderr or the log directory goes away or comes back |

A frame line and a transcript line are a subject with a label. What a phase
selects, which job fails and at which step is left open, so `Progress` has more
behaviours than `Lifecycle` would allow; it is not composed with it.


## The runs

Deadlock is checked in every run of `Lifecycle`, where a command can always start.

| run | question | bounds |
|---|---|---|
| `deep` | Do commands in any sequence, with an edit, damage, a pull or a move of upstream and a failure or crash anywhere, converge, keep pinned revisions, write only what is published, load only what is locked, leave a plugin that failed as it was, and put nothing on record as failed that is locked? | one plugin, branch, two commits, a build; 2 environment steps, 1 fault |
| `pair` | Do plugins leave each other alone, does every process that ends remove what it staged, and does every command end? | two plugins, 1 edit, 1 fault |
| `calm` | Without faults: is what `list` prints true, does a sync settle what it shows out of order, and does no command touch what it is content with? | one plugin that follows a branch or pins one of two commits, with or without a build; 2 edits or moves of upstream, a `list` at any moment; symmetric commits |
| `handoff` | Whatever single fault happens: is an invocation reported truthfully and cleaned up, managed state changed by its owner alone, does every process end, and is the invocation loaded, or an error reported? | one invocation, one other command, 1 fault of 9 kinds |
| `contend` | Whatever single fault happens: is every invocation loaded at most once, and does every execution load what it synced, from a fresh configuration? | two invocations, 1 fault of 9 kinds; symmetric invocations |
| `loading` | Are the files merged as documented whoever changes them, is no user file replaced, are the right predicates asked in the right order, does one that never exits hold nothing up, is what the answers say selected, and is the plan run in phases around the plugins that fail? | one valid document (two managed plugins, two local entries in one directory, branches nested three deep), four rejected ones, four sets of tmux files, up to six plugins, four predicates, a timeout of 2 polls, 1 script for each plugin |
| `reports` | Are rows in their place, outcomes shown as they are, failures traceable, the cursor back, and does the command end, whatever the concurrency and whichever output fails? | two managed plugins and a local one, concurrency 0 or 2, a terminal of 4 lines, 1 fault of stderr or log |

Bounds. One plugin has every interaction with itself across commands (a
command's result depends on its own entry, checkout and markers); a second is
needed for isolation and for a failure beside a success, and a third adds
nothing that `Plugins` treats differently. Two revisions tell "advanced" from
"kept"; a short hash is a third name for one of them. Commands are not
bounded, only faults and environment steps, so every sequence of commands
around them is explored. In `InitSession` two invocations (`contend`) and an
invocation with another command (`handoff`) are enough for every kind of
contention: inline against hosted, bootstrap against child, waiting against
refused. The two runs have one fault at a time; the safety
properties of both are theorems for any number of invocations and faults, and so
hold of a failure in the clean-up of a failure, too. The symmetries of `contend` and `calm` are sound: their properties are
safety properties, and neither invocations nor commits are told apart.

Runs that find a disagreement between the program and what it says of itself:

| run | what the code does | what is said |
|---|---|---|
| `unrecorded` | a checkout is live, its marker cannot be removed, and its entry is not written | `docs/design.md:44` |
| `abbrev` | a short hash is locked as written, so every sync republishes | `lockfile.rs:32` |
| `torn` | a marker cut short is honoured and never cleared | `docs/commands.md:271` |
| `pulled` | a changed build never runs where configuration and lockfile arrive together | `docs/configuration.md:122` |
| `retry` | after an update whose build failed, `list` shows `build-failed` and an explicit sync retries nothing | `docs/commands.md:271` |

### Fairness

Fairness is that of the steps of the program, never of users, predicates, upstream
or the faults that come from outside.

`Lifecycle`: weak fairness of `Process`. The process is one sequential program and each
of its steps returns; a build or a git command that hangs for ever is outside,
since the code gives neither a timeout. Nothing is assumed of users, upstream or faults.

`InitSession`: weak fairness of each process's `Works` and of `UiCloses`. A
process runs until it blocks; the only blocking steps are the lock and the wait
for the user interface. Weak fairness is enough for the lock because there are
finitely many contenders and each takes it once. `UiCloses` is the wrapper
ending after its child: the exit trap (`init_session.rs:496`) signals, and the
user is assumed to leave a popup that waits for a key. A split wrapper killed
with SIGKILL signals nobody, and then the host does wait for ever: the model
lets wrappers end only through their trap.
`CHECK_DEADLOCK FALSE` is set there because processes end and the system stops.

`LoadPlan`: `WF_vars(Program)`. A resolution and a load are one sequential
program. Nothing is assumed of predicates: `InitEnds` holds although they may
never exit. It does assume that tmux answers each command, scripts included:
`tmux.rs:98` waits for it without a timeout.

`Progress`: `WF_vars(Program)`. Jobs are futures on one runtime and each of their steps
returns; nothing is assumed of which job goes first. What is at stake in
`CommandEnds` is that no job is left without a slot.

Both set `CHECK_DEADLOCK FALSE`: a command ends, and the system stops.

## What is proved

The proofs hold for every value of the constants under the assumption named in
each module (`LifecycleAssumption`, `InitSessionAssumption`, ...), which say
only that special values differ from ordinary ones and that numbers are numbers.

* `Lifecycle_proofs`, on what a command keeps:
  * `TypeCorrect`. The type invariant alone is not inductive: a
    step that publishes needs to know that there is a plugin being published, that
    it is declared with a build when it builds, and that what is queued was
    selected among the declared (`Publishing`, `Queued`). `IInv` adds them; one lemma for each action.
  * `LockRecordsPublished`, that is `WritesArePublished`.
    `RInv` says for every entry of the lock in memory: it is the one in the file,
    or there is evidence on disk (a healthy checkout at its revision). Queued plugins
    are untouched, so a broken checkout may be dropped without losing evidence;
    a step that changes a checkout changes that of the current plugin only.
  * `RevisionsKept`, that is `OnlyUpdateAdvances`. `VInv` says
    of every plugin whose selector has not changed: its entries in memory and in the
    file name the revision they named when the phase began, and so does what has
    been prepared for it, which is why a publish cannot advance it.
  * `TargetIsolated`, that is `TargetedIsolation`.
    `AInv` adds what a targeted command may have queued (`Aimed`) and that phases
    which look at every plugin (load, scan, clean) belong to commands without a
    target.
  * `StagingCleaned`, that is `StagingRemoved`, from `SInv`: what is
    staged belongs to the plugin at hand, or is prepared and not applied yet (`Owned`).
  * `FailuresPreserve`, that is `FailurePreserves`, from `FInv`: what a phase has not
    reached is as the phase found it, the plugin at hand is not
    failed and has its old entry until it is published (`Reaching`), and a
    failure is only recorded where that still holds.
* `Lifecycle_convergence_proofs`, on what success means. `KInv` is control: which command is in
  which phase, that the queue is empty between phases (`Drained`), that nothing is lost when a
  phase begins (`NoneLost`), and that what is prepared is for the declaration of now
  (`FreshResults`). `CInv` says of every plugin in scope whose turn is over that it is excluded,
  exempt or in place (`Settled`), that a restore changes no entry (`Frozen`), and that
  a command without a target leaves no undeclared entry and the fingerprint of its configuration
  (`Whole`). The conjunction with `IInv`, `RInv` and `VInv` is `GInv`.
  * `SuccessMeansConverged`, that is `SuccessConverges`: when the queue is empty every turn is over.
  * `InitLoadsWhatIsLocked`, that is `InitLoadsLocked`, since what an init loads is not excluded.
  * `UpdateFollowsUpstream`, that is `UpdateReachesUpstream`: `UInv` says that what the second phase
    has prepared or locked for a plugin that follows a branch is a tip the branch has had since
    the phase began.
  * `SecondPhaseIdle`, that is `FollowUpIdle`, where no selector is a shortened hash
    (`Abbrevs = {}`): of a plugin in place the second phase finds entry and checkout. With a
    shortened hash the theorem is false, and run `abbrev` shows why: the entry then holds the
    hash as it was written, which is never the name of the commit that is checked out.
  * `CalmBuildsAsDeclared`, that is `BuiltAsDeclared`, which run `pulled` refutes in general, where
    no file operation fails, nobody else writes lockfile or checkouts, and no selector is a
    shortened hash (`Calm`): `BInv` says that a checkout is what its entry says it was made from
    (`Made`), except between publish and entry. Builds and preparations may fail there.
  * `LockedIsNotFailed`, that is `LockedNotFailed`, from `MInv` on top of `FInv` and `KInv`. `MInv` says
    that a plugin whose entry in memory differs from the one before the phase (`Relocked`) has nothing on record but
    files that were cut short before it, that one not tried yet has nothing newer than the phase on record (`Untried`,
    `NoNewer`), and that what is being published is not what is installed as the lockfile says
    (`Reinstalling`): the failure of a build or a publish is of another revision, build or state of the disk.
    It holds in both phases of an update and after them.
* `InitSession_proofs`: `InitTypeCorrect`, `LoadsWhatItSynced`,
  `ConfigurationIsFresh`, `ManagedStateSerial`. `IInv` is the type, mutual
  exclusion (a process is in its critical section exactly when it holds the
  lock, `Locked`), what has and has not been answered before the end, and the
  order of reading, syncing and loading (`LoadsAfterSync`, `SeenBefore`). Steps
  are sorted into those outside the critical section, those within it and
  those that take the lock, so that one lemma serves each class.
  `ManagedStateSerial` is step simulation: every step is `Enter`, `Change`,
  `Leave` or a stutter of `ManagedState`.
* `InitSession_proofs`, too: `LoadsAtMostOnce`, that is `AtMostOneLoad`. Counting loads is not
  inductive. `OInv` says who may still load an invocation: a process of it that has not
  come to its end (`Right`), or the record that a started process has yet to take over
  (`BootRecord`, `ChildRecord`), and never two of these (`OneRight`). Every hand-over moves that right.
* `InitSession_hosting_proofs`: `DirectoryOutlivesChild`, that is `SessionOutlivesChild`, on top of
  `OInv`. `HInv` says of every invocation that tmux did not misreport: one owner works in its
  directory at a time (`OwnerAlone`), its popup or pane is open as long as the child
  runs (`UiFollows`), and while it runs no owner is where it would remove the directory
  (`Guarded`), except after a popup was torn down (`TornDown`). `DirectoryRemoved`, that is
  `SessionRemoved`: `DInv` names for every directory that is there the owner who has yet to remove
  it (`Removes`), or the reason why it is left behind (`Left`).
  `HostRelaysItsChild`, that is `HostReportsChild`: `PInv` says that a
  result is that of a child that has ended (`Published`), that an owner that reports work has
  loaded itself, without a child, or has it from a child (`Honest`), and, when nothing failed,
  that a running child is watched by an owner that will find its result (`Smooth`).
* `Progress_proofs` has first what is known of the reporter:
  its record stays sound (`Sound`: the frame is one row for the operation and one for each plugin of
  a prefix of the order, and it is what the terminal shows) under each function, from the writes up;
  what reporting an event changes of what is shown, logged and counted (`Spoken`), whichever write
  fails meanwhile; and what the end of the reports leaves behind (`Closes`).
  The results are from two invariants. `JInv` is about jobs: a plugin to apply is
  queued, running or ended and never two of these (`Preparing`), and the results are put into the order of
  the plugins (`Applying`), which gives `PublishedAsItself`, that is `OwnCheckout`.
  That ordering the results has one outcome is a lemma of its own: two ascending sequences of the same
  numbers are equal, which is why `IsFiniteSet(Plugins)` is among the assumptions.
  `VInv` relates the command to what is displayed: the record is sound, what is at work
  belongs to a job (`Worked`), what is shown as failed has failed (`Displayed`), what failed is
  logged or warned of (`Traced`). It gives `RowsOnTerminal`, `DisplayMatchesOutcome`, `FailuresExplained` and
  `TypeCorrect`, that is `RowsInPlace`, `OutcomeShown`, `FailuresTraceable` and `TypeOK`.
  `PromisesKept` is the refinement of `Display`: each step tells the reader what `Display!Show`
  allows (`StepTells`), or leaves the reporter alone.
* `Listing_proofs`, on top of `GInv`, since a list changes nothing (`Undisturbing`):
  * `RowsHaveBeenTrue`, that is `RowsWereTrue`. `LInv` says of every checkout list has read that
    its row has been true, and of every other that it will have been (`Awaits`): its entry
    is still the one that was read, or the phase has ended and its row has been true as the
    checkout stands. What carries it is `WritesLast`: a phase writes the lockfile when it has
    changed its last checkout, and what `clean` removes is not listed (`CleansUndeclared`).
  * `SettledIsLeftAlone` and `ListAgreesWithSync`, that is `ListAndSyncAgree`. An undisturbed list has
    read what there is (`Undisturbed`), so one without a warning and without a row out of order (`RowsSettled`) means `InOrder`: the lockfile
    says what is declared and every checkout is at its entry. From there a command selects
    nothing and writes what it read (`Sits`, `QInv`). The second theorem assumes `Abbrevs = {}`:
    after the sync of a shortened hash `list` calls the plugin outdated; run `abbrev` shows why.
  * `SuccessMeansBuilt`, that is `SuccessWasBuilt`, under `Calm`, from `InOrder` and `BInv`.
* `LoadPlan_proofs`, on what a load relies on, for any documents, tmux files, predicates and scripts.
  First what the lists of the code are built with: picking elements in their order (`Sorted`, `Picked`), and joining
  parts, where every command stands in the piece of its part (`FlattenPlaced`). Then one invariant in
  parts, since what is run depends on what was selected and that on what was declared:
  * `CInv`: what was read of the files has the shape of a configuration; `RInv`: the resolution is about the
    plugins declared there. With the other parts they give `TypeCorrect`, that is `TypeOK`.
  * `PInv` says of the process of a predicate where the deadline stands at each step of the poll, in
    particular that who kills has seen it pass: `PredicatesJudged`, that is `PredicateJudged`.
  * `JInv` says who is broken (the excluded, and the owners of the commands that failed) and that it is the commands
    of the others that were run: `FailedAreLeftAlone`, that is `FailedLeftAlone`.
  * `Planned` says of the plan, while it is run, what `build_load_plan` made it: the phases follow each other, and the
    setup of every plugin is in one piece and in its order. `Overridden` says of every binding that was run
    that no script has written its key since. Together they are `PhasesAreKept`, that is `PhasesInOrder`.
  * `FirstStartIsUnseen`, that is `FirstStartUnseen`, is inductive on top of `CInv`: neither the template nor any
    beginning of it declares a plugin, and what the merge adds has no place in `tmup.kdl`.
* `LoadPlanReference_proofs`, on what is documented of a load, on top of `CInv`. `MergeIsDocumented`, that is
  `MergedAsDocumented`, assumes `FilesOnce`: in the trees that users have, no configuration
  sources a file twice, or itself. The property ranks plugins by the files there are at the end, and a file sourced
  twice that is removed in between would have been scanned and be gone. `Scanning` follows the scan: the lines of the
  main file, then those of the files named by each directive so far, each with the directive that it stems
  from (`at`), whichever file goes before it is opened. At its end the plugins found are in their documented order
  (`InRank`), and `MergedFrom` says what the merge makes of them: the slots of the scanned plugins, a declaration of
  the same id in its slot, then the rest.
  `ResolutionAsDocumented`, that is `ResolvedAsDocumented`, rests on the assumption that predicates are told apart
  by their places (`PlacesAssumption`), by which no order names one twice (`OrderOnce`). The reference is recursive
  over blocks, and the provers cannot do induction with an operator. The unfolding is shown by hand instead
  (`FixedPoint`): a step that looks only at less deep blocks has a fixed point, by the least depth at which approximations
  would stop to exist or to agree. A step of the resolution works on what is left of a block, with the branch taken put
  before the rest (`GoesOn`), so that the lemmas are about any sound sequence of nodes (`VisitedConcat`,
  `VisitedBranch`). The invariant, `HInv`, has to speak of answers not given yet. `Answering` does so for every guess that
  fits the answers there are: the predicates asked before the one at hand and those ahead of it (`Ahead`) are the order for that
  guess, and what is decided and projected so far, with what is left, is what the guess selects (`Knows`). An
  answer rules out the guesses that do not fit it, and moves one predicate from ahead to before.

Only model-checked: liveness (`CommandsEnd`, `LoadedOrReported`, `ProcessesEnd`, `InitEnds`, `CommandEnds`), because
the provers handle neither fairness nor ENABLED. Every other property of a passing run is a theorem.

Proof attempts changed the model. `Reporter`, `KeepsRevision` and the columns of `list`
used CASE with arms that overlap, whose value TLA+ leaves open where TLC takes the first:
no proof could say which, and they are nested conditions now. What is in place was said not to be on
record as failed: that is false, since a marker cut short stays (run `torn`), and since `list` looks failures up by
build alone (run `retry`); `LockedNotFailed` says what is true. And nothing had said that a
selector that names a branch or a tag is told from one that names a commit (`Refs \cap Revs = {}`), as it is by the
variants of `Tracking` (`model.rs:50`); `UpdateFollowsUpstream` needs it, and
`LifecycleAssumption` states it now.
The blocks of a document were trees that a recursive operator parsed; a block now stays the sequence of nodes it
is, what is rejected is a recursive function of the block, and what a step selects is the head of such a
sequence. The functions of `LoadPlanReference` are recursive functions over blocks for the same reason;
`Depth` says that there is an end to their nesting. Selections from a list were folds; now they are the elements at given places, in
order, of which the order can be proved.

## Plan

Done, in the order in which it was built: `Lifecycle` with its proofs,
`ManagedState` and `InitSession` with theirs, `Conditions` and `LoadPlan`,
`Display`, `Reporter` and `Progress`, `Configuration`, `Listing`, the proofs about
revisions, staging, failures, loads and the session directory, about what success means,
about what a host reports, about the display, about what `list` says, and about load plans.

What is left, the most important first:

* `repo.rs` fetches once for each repository and command; two plugins that share a
  repository under different ids do not exist, so the cache is not shared. A
  module `Repositories` would only be worth its state if that changed.
* `Progress` composed with `Lifecycle`: the events as a refinement of the steps. Both are
  checked alone; together they are beyond the bounds of a run.

## What is not modelled

* Lexing and formatting: the values of KDL properties, the quoting of TPM lines,
  URLs, JSON, the wording, colours and clamping of terminal lines, the command
  line, paths and their validation, shell scripts. Sequential code without
  state, covered by unit tests.
* git itself: it is what it leaves behind, a checkout at a revision or an error.
  The choice among version tags is one of the revisions a tag selector may mean.
* The rows of local plugins in `list`: whether a directory exists.
* Two users of one data root through different file systems, and a clock that jumps.

`PROJECT.json` gives each component's status and the hazards no property covers,
with the reason. Where the code does something that its documentation or a comment
does not lead one to expect, and no run is spent on it:

* The reducer refuses an event that comes after a plugin's outcome
  (`progress/reducer.rs:199-229`), while the line of the same event is displayed: after
  the sync phase of `update` has reported a plugin, its follow-up changes the row and
  not the snapshot. `OutcomeShown` is about both.
* `emit_warnings` (`init_session.rs:402`) writes below a live frame ("Live fixed-row
  renderer", `progress/live.rs:17`), and later updates land too low by the lines it
  wrote. `rep.disturbed` marks it; `RowsInPlace` exempts it.
* A live frame that is not lower than the terminal is overwritten from its first
  visible row (`progress/live.rs:239-242`): `RowsInPlace` exempts it too.
* `PluginState::Installed` is "present and matches the lock file" (`planner.rs:46`);
  a healthy checkout without a lock entry is shown so too (`planner.rs:158-163`). The
  staleness warning is then printed, which is why `ListAndSyncAgree` holds.
* `BuildStatus::Ok` is "Build hook completed successfully" (`planner.rs:81`); a build
  that has just been declared is shown so before it has run, and one that a pulled lockfile
  claims though it never ran here (run `pulled`). `SuccessWasBuilt` says when the column can be
  relied on: no warning, no row out of order, no pulled lockfile.
* The Build column shows the failure of another commit beside a healthy checkout, because it
  looks failures up by build command alone (`planner.rs:176`). A `build-failed` row goes away when a
  later command publishes or adopts that plugin, or its build command changes; `ListAndSyncAgree` promises nothing of
  it after a sync, and run `retry` shows a sync that leaves it.
