------------------------------ MODULE Lifecycle ------------------------------
(***************************************************************************)
(* The mutating commands of tmup, run by one process at a time (how the    *)
(* operation lock is taken is in InitSession, what it promises in          *)
(* ManagedState): select candidates, prepare them in staging, build and    *)
(* publish them one after the other, keep failure markers, and write       *)
(* tmup.lock.  Every command is a sync phase (sync.rs) that may be         *)
(* followed by a phase of its own (plugin.rs).                             *)
(* The user edits the configuration, upstream moves, a checkout is         *)
(* damaged, file operations fail and the process may crash at any step.    *)
(***************************************************************************)
EXTENDS Naturals, FiniteSets

CONSTANTS
  Plugins,    \* canonical remote ids, numbered in declaration order
  Branches,   \* floating selectors (named branches, the default branch)
  Tags,       \* tag selectors
  Commits,    \* full commit hashes
  Abbrevs,    \* shortened commit hashes, which a `commit` selector accepts
  HeadOf,     \* the commit `git checkout` lands on, for every revision
  Builds,     \* build commands
  Specs,      \* the declarations a user may write for a plugin
  NoBuild, Missing, Broken, None, All,
  EnvSteps,   \* the steps the environment takes: see Environment
  MaxEdits,   \* bound on the steps of the environment
  MaxFaults   \* bound on crashes and failed file operations

Refs     == Branches \cup Tags
Revs     == Commits \cup Abbrevs
BuildOpt == Builds \cup {NoBuild}

ASSUME LifecycleAssumption ==
  /\ Plugins \subseteq Nat
  /\ Refs \cap Revs = {}                 \* selectors of different kinds differ
  /\ HeadOf \in [Revs -> Commits]
  /\ \A c \in Commits : HeadOf[c] = c
  /\ Specs \subseteq [sel : Refs \cup Revs, build : BuildOpt]
  /\ None \notin Specs /\ None \notin BuildOpt /\ All \notin Plugins
  /\ None \notin Plugins
  /\ None \notin [sel : Refs \cup Revs, commit : Revs, hash : Specs]
  /\ {Missing, Broken} \cap [head : Commits, build : BuildOpt \cup {None}] = {}
  /\ EnvSteps \subseteq {"config", "damage", "pull", "upstream"}
  /\ MaxEdits \in Nat /\ MaxFaults \in Nat

Commands == {"sync", "install", "update", "restore", "clean",
             "init", "initRepair"}   \* init with auto_install on and off
InitCommands == {"init", "initRepair"}

(* Data.  remote_plugin_config_hash and config_fingerprint are injective on *)
(* what they hash, so a hash is the declaration and a fingerprint the whole *)
(* configuration.  A checkout is healthy when its HEAD can be read; `build` *)
(* is the command its contents were built with, None when only a part of    *)
(* them is left.                                                            *)
Config   == [Plugins -> Specs \cup {None}]
Entry    == [sel : Refs \cup Revs, commit : Revs, hash : Specs]
Entries  == [Plugins -> Entry \cup {None}]
LockFile == [entries : Entries, fp : Config \cup {None}]
Checkout == [head : Commits, build : BuildOpt \cup {None}]
Disk     == [Plugins -> Checkout \cup {Missing, Broken}]
Attempt  == [rev : Revs, build : Builds]
Markers  == [Plugins -> SUBSET Attempt]

VARIABLES
  config, upstream,            \* tmup.kdl; what every ref names upstream
  lock, disk, markers, torn,   \* tmup.lock, plugins/, failures/ (whole, cut short)
  pc, op,                      \* where the process is; command, target, phase
  mem,                         \* the lock snapshot in memory
  waiting, prepared, pending,  \* not yet prepared; results; not yet applied
  staged,                      \* the staging directories of this process
  cur,                         \* the plugin being published
  failed, skipped,             \* failures and known failures of this operation
  before,                      \* history: the state when the phase began
  result,                      \* how the last operation ended
  edits, faults

env   == <<config, upstream, edits>>
store == <<lock, disk, markers, torn>>
work  == <<waiting, prepared, pending, staged, cur>>
tally == <<failed, skipped>>
hist  == <<before, result>>
vars  == <<env, store, pc, op, mem, work, tally, hist, faults>>

-----------------------------------------------------------------------------
(* Reading the state.                                                       *)

Healthy(d)     == d \notin {Missing, Broken}
AtRev(id, rev) == Healthy(disk[id]) /\ disk[id].head = rev
Declared       == {id \in Plugins : config[id] # None}
Scope          == {id \in Declared : op.target \in {All, id}}
First(S, id)   == id \in S /\ \A j \in S : id <= j
Known(id)      == markers[id] \cup torn[id]   \* has_failure_marker: the file exists
ExcludedSkipped == skipped   \* faulty: forgets the failures
Excluded       == skipped \cup {id \in Plugins : failed[id] # "no"}
Untroubled     == \A id \in Plugins : failed[id] = "no"
Building(id)   == [rev |-> prepared[id].commit, build |-> config[id].build]

LockMatchesConfig(entries) ==
  \A id \in Plugins :
    /\ config[id] = None <=> entries[id] = None
    /\ config[id] # None => entries[id].hash = config[id]

LockIsStale ==
  IF Declared = {}
  THEN \E id \in Plugins : lock.entries[id] # None
  ELSE lock.fp # config \/ ~LockMatchesConfig(lock.entries)

NeedsReconcileByHash(id) ==   \* faulty: never looks at the checkout
  IF mem.entries[id] = None
  THEN op.cmd \notin {"clean", "initRepair"}
  ELSE op.cmd # "clean" /\ mem.entries[id].hash # config[id]

NeedsReconcile(id) ==
  LET entry == mem.entries[id] IN
  IF entry = None
  THEN op.cmd \notin {"clean", "initRepair"}
  ELSE /\ op.cmd # "clean"
       /\ entry.hash # config[id] \/ ~AtRev(id, entry.commit)

Resolved(id) ==
  LET sel == config[id].sel IN
  [sel |-> sel, hash |-> config[id],
   commit |-> IF sel \in Revs THEN sel ELSE upstream[id][sel]]

NeverKeepsRevision(id)  == FALSE                      \* faulty: always resolves
AlwaysKeepsRevision(id) == mem.entries[id] # None     \* faulty: update does not resolve

KeepsRevision(id) ==   \* prepare at the locked commit, without resolving
  /\ mem.entries[id] # None
  /\ IF op.phase = "sync" THEN mem.entries[id].sel = config[id].sel
     ELSE op.cmd \in {"install", "restore"}

PreparedEntry(id) ==
  IF KeepsRevision(id)
  THEN [mem.entries[id] EXCEPT !.hash = config[id]]
  ELSE Resolved(id)

UpToDateByHead(id) == AtRev(id, prepared[id].commit)   \* faulty: no republish

UpToDateInSync(id) ==    \* faulty: update publishes what is in place again
  op.phase = "sync" /\ AtRev(id, prepared[id].commit)

UpToDate(id) ==   \* nothing to publish: reconcile_plugin, and update's disk_commit
  /\ AtRev(id, prepared[id].commit)
  /\ op.phase = "sync" =>
       /\ mem.entries[id] # None
       /\ \/ mem.entries[id].commit # prepared[id].commit
          \/ mem.entries[id].hash = prepared[id].hash

-----------------------------------------------------------------------------
(* A command starts, or its second phase does.                              *)

NoStaging == [id \in Plugins |-> "none"]
Unstage(id) == staged' = [staged EXCEPT ![id] = "none"]

Snapshot ==
  [lock |-> lock, disk |-> disk, markers |-> markers, torn |-> torn,
   tips |-> [id \in Plugins |-> [r \in Refs |-> {upstream[id][r]}]]]

Start(cmd, target) ==
  /\ pc = "idle"
  /\ cmd \in InitCommands \cup {"clean"} => target = All
  /\ target \in Declared \cup {All}                  \* validate_target_id
  /\ op' = [cmd |-> cmd, target |-> target, phase |-> "sync"]
  /\ pc' = "select" /\ mem' = lock /\ result' = "running" /\ before' = Snapshot
  /\ failed' = [id \in Plugins |-> "no"] /\ skipped' = {}
  /\ staged' = NoStaging                             \* named after the new pid
  /\ UNCHANGED <<env, store, waiting, prepared, pending, cur, faults>>

EndsWithJobsLeft(res) ==   \* faulty: the preparations are not cancelled
  /\ pc' = "idle" /\ result' = res /\ mem' = lock'
  /\ waiting' = waiting /\ pending' = {} /\ cur' = None
  /\ prepared' = [id \in Plugins |-> None]

EndsWith(res) ==
  /\ pc' = "idle" /\ result' = res /\ mem' = lock'
  /\ waiting' = {} /\ pending' = {} /\ cur' = None
  /\ prepared' = [id \in Plugins |-> None]

Selects(S) ==
  /\ pending' = S /\ waiting' = S
  /\ pc' = IF S = {} THEN "apply" ELSE "prepare"
  /\ UNCHANGED <<env, lock, torn, op, mem, prepared, staged, cur, tally, hist>>

SelectSync ==
  /\ pc = "select" /\ op.phase = "sync"
  /\ Selects({id \in Scope : NeedsReconcile(id)})
  /\ UNCHANGED <<disk, markers, faults>>

InstallCandidates ==
  {id \in Scope : ~Healthy(disk[id]) \/ mem.entries[id] = None}

SelectInstall ==
  /\ pc = "select" /\ op.phase = "follow" /\ op.cmd = "install"
  /\ Selects(InstallCandidates)
  /\ \E gone \in SUBSET {id \in InstallCandidates : disk[id] = Broken} :   \* or not removed
       disk' = [id \in Plugins |-> IF id \in gone THEN Missing ELSE disk[id]]
  /\ UNCHANGED <<markers, faults>>

SelectUpdate ==
  /\ pc = "select" /\ op.phase = "follow" /\ op.cmd = "update"
  /\ Selects({id \in Scope : config[id].sel \in Branches})
  /\ UNCHANGED <<disk, markers, faults>>

LockedInScope   == {id \in Scope : mem.entries[id] # None}
AlreadyRestored == {id \in LockedInScope : AtRev(id, mem.entries[id].commit)}

SelectRestore ==
  /\ pc = "select" /\ op.phase = "follow" /\ op.cmd = "restore"
  /\ Selects(LockedInScope \ AlreadyRestored)
  /\ markers' = [id \in Plugins |-> IF id \in AlreadyRestored THEN {}
                                    ELSE markers[id]]
  /\ UNCHANGED <<disk, faults>>

Fault == faults < MaxFaults /\ faults' = faults + 1

SelectRestoreFails ==   \* a marker cannot be cleared: restore returns early
  /\ pc = "select" /\ op.phase = "follow" /\ op.cmd = "restore" /\ Fault
  /\ \E bad \in AlreadyRestored, rest \in SUBSET Attempt :
       /\ rest \subseteq markers[bad]
       /\ markers' = [id \in Plugins |->
                        CASE id = bad -> rest
                          [] id \in AlreadyRestored /\ id < bad -> {}
                          [] OTHER -> markers[id]]
  /\ UNCHANGED <<env, lock, disk, torn, op, staged, tally, before>>
  /\ EndsWith("error")

-----------------------------------------------------------------------------
(* Concurrent preparation: any order, each reading upstream when it runs.   *)

Prepares(id) ==
  /\ pc = "prepare" /\ id \in waiting
  /\ waiting' = waiting \ {id}
  /\ pc' = IF waiting = {id} THEN "apply" ELSE "prepare"
  /\ UNCHANGED <<env, store, op, mem, pending, cur, tally, hist, faults>>

PrepareSucceeds(id) ==
  /\ Prepares(id)
  /\ prepared' = [prepared EXCEPT ![id] = PreparedEntry(id)]
  /\ staged' = [staged EXCEPT ![id] = "whole"]

PrepareFails(id) ==   \* after the clone only a failed checkout removes the staging
  /\ Prepares(id)
  /\ staged' \in {staged, [staged EXCEPT ![id] = "partial"]}
  /\ UNCHANGED prepared

-----------------------------------------------------------------------------
(* Serial application, in declaration order.                                *)

AppliesForever(id) ==   \* faulty: the plugin stays in the queue
  /\ pc = "apply" /\ First(pending, id)
  /\ UNCHANGED <<env, lock, op, waiting, pending, hist>>

Applies(id) ==
  /\ pc = "apply" /\ First(pending, id)
  /\ pending' = pending \ {id}
  /\ UNCHANGED <<env, lock, op, waiting, hist>>

SkipUnprepared(id) ==
  /\ Applies(id) /\ prepared[id] = None
  /\ failed' = [failed EXCEPT ![id] = "prepare"]
  /\ UNCHANGED <<disk, markers, torn, pc, mem, prepared, staged, cur, skipped, faults>>

Inserted(id) == [mem EXCEPT !.entries[id] = prepared[id]]

ClearNothing(id) == UNCHANGED markers                 \* faulty
ClearMarkers(id) == markers' = [markers EXCEPT ![id] = {}]

PartlyCleared(id) ==  \* the directory cannot be read, or a marker not removed
  \E rest \in SUBSET markers[id] : markers' = [markers EXCEPT ![id] = rest]

Adopt(id) ==
  /\ Applies(id) /\ prepared[id] # None /\ UpToDate(id)
  /\ Unstage(id)
  /\ ClearMarkers(id)
  /\ mem' = Inserted(id)
  /\ prepared' = [prepared EXCEPT ![id] = None]
  /\ UNCHANGED <<disk, torn, pc, cur, tally, faults>>

AdoptFails(id) ==     \* sync goes on with the next plugin
  /\ op.phase = "sync"
  /\ Applies(id) /\ prepared[id] # None /\ UpToDate(id) /\ Fault
  /\ Unstage(id) /\ PartlyCleared(id)
  /\ failed' = [failed EXCEPT ![id] = "track"]
  /\ prepared' = [prepared EXCEPT ![id] = None]
  /\ UNCHANGED <<disk, torn, pc, mem, cur, skipped>>

OnlyOwnCleaned(id) == [staged EXCEPT ![id] = "none"]   \* faulty

PendingCleaned(id) ==   \* cleanup_pending_update_staging, and id's own directory
  [p \in Plugins |-> IF p \in pending /\ prepared[p] # None THEN "none" ELSE staged[p]]

AbortUpdate(id) ==      \* update returns at once: no lockfile is written
  /\ op.phase = "follow"
  /\ pc = "apply" /\ First(pending, id)
  /\ prepared[id] # None /\ UpToDate(id) /\ Fault
  /\ staged' = PendingCleaned(id) /\ PartlyCleared(id)
  /\ UNCHANGED <<env, lock, disk, torn, op, tally, before>>
  /\ EndsWith("error")

DropTarget(id) ==   \* faulty: removes the old checkout before the build
  disk' = [disk EXCEPT ![id] = Missing]

DropBroken(id) ==   \* reconcile_plugin removes a broken target, as best it can
  IF op.phase = "sync" /\ disk[id] = Broken
  THEN disk' \in {disk, [disk EXCEPT ![id] = Missing]}
  ELSE UNCHANGED disk

SkipsKnownFailure(id) ==
  /\ op.cmd \in InitCommands
  /\ config[id].build # NoBuild
  /\ Building(id) \in Known(id)

SkipKnownFailure(id) ==
  /\ Applies(id) /\ prepared[id] # None /\ ~UpToDate(id) /\ SkipsKnownFailure(id)
  /\ DropBroken(id)
  /\ Unstage(id)
  /\ skipped' = skipped \cup {id}
  /\ prepared' = [prepared EXCEPT ![id] = None]
  /\ UNCHANGED <<markers, torn, pc, mem, cur, failed, faults>>

Swap(d) == IF d = Missing THEN "rename" ELSE "remove"

BeginPublish(id) ==
  /\ Applies(id) /\ prepared[id] # None /\ ~UpToDate(id) /\ ~SkipsKnownFailure(id)
  /\ DropBroken(id)
  /\ cur' = id
  /\ pc' = IF config[id].build # NoBuild THEN "build" ELSE Swap(disk'[id])
  /\ UNCHANGED <<markers, torn, mem, prepared, staged, tally, faults>>

(* publish_replace and publish_fresh_install: build in staging, remove the  *)
(* target, rename the staging directory onto it.                            *)
BuildSucceeds ==
  /\ pc = "build" /\ pc' = Swap(disk[cur])
  /\ UNCHANGED <<env, store, op, mem, work, tally, hist, faults>>

Gutted(d) == IF Healthy(d) THEN {Broken, [d EXCEPT !.build = None]} ELSE {Broken}

RemoveTarget ==
  /\ pc = "remove" /\ pc' = "rename"
  /\ disk' = [disk EXCEPT ![cur] = Missing]
  /\ UNCHANGED <<env, lock, markers, torn, op, mem, work, tally, hist, faults>>

Rename ==
  /\ pc = "rename" /\ pc' = "track"
  /\ disk' = [disk EXCEPT ![cur] = [head  |-> HeadOf[prepared[cur].commit],
                                    build |-> config[cur].build]]
  /\ Unstage(cur)
  /\ UNCHANGED <<env, lock, markers, torn, op, mem, waiting, prepared, pending, cur,
                 tally, hist, faults>>

NextPlugin(kind) ==   \* the current plugin is done with
  /\ pc' = "apply" /\ cur' = None
  /\ prepared' = [prepared EXCEPT ![cur] = None]
  /\ failed' = [failed EXCEPT ![cur] = kind]
  /\ UNCHANGED <<env, lock, op, waiting, pending, skipped, hist>>

Track ==              \* clear the markers, insert the lock entry (restore: keep it)
  /\ pc = "track" /\ NextPlugin(failed[cur])
  /\ ClearMarkers(cur)
  /\ mem' = IF op.phase = "follow" /\ op.cmd = "restore" THEN mem ELSE Inserted(cur)
  /\ UNCHANGED <<disk, torn, staged, faults>>

TrackFails ==
  /\ pc = "track" /\ NextPlugin("track") /\ Fault
  /\ PartlyCleared(cur)
  /\ UNCHANGED <<disk, torn, mem, staged>>

(* A failed publish removes the staging checkout and writes a failure       *)
(* marker.  fs::write truncates first, so a failed write leaves no marker,  *)
(* or a file that exists and does not parse.                                *)
WriteMarker ==
  /\ markers' = [markers EXCEPT ![cur] = @ \cup {Building(cur)}]
  /\ torn' = [torn EXCEPT ![cur] = @ \ {Building(cur)}]

TearMarker ==
  /\ markers' = [markers EXCEPT ![cur] = @ \ {Building(cur)}]
  /\ torn' = [torn EXCEPT ![cur] = @ \cup {Building(cur)}]

PublishFailsLocked(kind) ==   \* faulty: inserts the entry whatever happened
  /\ NextPlugin(kind)
  /\ Unstage(cur)
  /\ mem' = Inserted(cur)

PublishFails(kind) ==
  /\ NextPlugin(kind)
  /\ Unstage(cur)
  /\ UNCHANGED mem

BuildFails ==
  /\ pc = "build" /\ PublishFails("build")
  /\ \/ WriteMarker /\ UNCHANGED faults
     \/ TearMarker /\ Fault
     \/ UNCHANGED <<markers, torn>> /\ Fault
  /\ UNCHANGED disk

SwapFails ==
  /\ pc \in {"remove", "rename"} /\ PublishFails("publish") /\ Fault
  /\ IF config[cur].build = NoBuild THEN UNCHANGED <<markers, torn>> ELSE WriteMarker
  /\ \/ UNCHANGED disk
     \/ pc = "remove" /\ \E d \in Gutted(disk[cur]) : disk' = [disk EXCEPT ![cur] = d]

-----------------------------------------------------------------------------
(* The end of a phase: prune, fingerprint, write, go on.                    *)

PrunedNothing(entries) == entries   \* faulty: undeclared entries stay

Pruned(entries) ==
  [id \in Plugins |-> IF config[id] = None THEN None ELSE entries[id]]

SyncedLockPruned ==   \* faulty: prunes in a targeted command too
  [entries |-> Pruned(mem.entries),
   fp |-> IF LockMatchesConfig(Pruned(mem.entries)) THEN config ELSE mem.fp]

SyncedLock ==
  LET kept == IF op.target = All THEN Pruned(mem.entries) ELSE mem.entries
  IN  [entries |-> kept, fp |-> IF LockMatchesConfig(kept) THEN config ELSE mem.fp]

PhaseDone == pc = "apply" /\ pending = {}
Verdict   == IF Untroubled THEN "ok" ELSE "error"

FinishApply ==
  /\ PhaseDone
  /\ op.phase = "sync" \/ op.cmd # "restore"
  /\ mem' = IF op.phase = "sync" THEN SyncedLock ELSE [mem EXCEPT !.fp = config]
  /\ pc' = "write"
  /\ UNCHANGED <<env, store, op, work, tally, hist, faults>>

FinishRestore ==      \* restore never writes the lockfile
  /\ PhaseDone
  /\ op.phase = "follow" /\ op.cmd = "restore"
  /\ UNCHANGED <<env, store, op, staged, tally, before, faults>>
  /\ EndsWith(Verdict)

Writes(phase) ==      \* write_lockfile_atomic
  /\ pc = "write" /\ op.phase = phase
  /\ lock' = mem
  /\ UNCHANGED <<env, disk, markers, torn, staged, tally, faults>>

Stops == op.cmd = "sync" \/ (op.cmd \notin InitCommands /\ ~Untroubled)

WriteAndStop ==
  /\ Writes("sync") /\ Stops
  /\ EndsWith(Verdict)
  /\ UNCHANGED <<op, before>>

WriteAndFollow ==     \* ensure_sync_phase_clean let the command through
  /\ Writes("sync") /\ ~Stops /\ op.cmd \in {"install", "update", "restore"}
  /\ op' = [op EXCEPT !.phase = "follow"]
  /\ pc' = "select"
  /\ before' = [Snapshot EXCEPT !.lock = mem]
  /\ UNCHANGED <<mem, waiting, prepared, pending, cur, result>>

WriteAndLoadOrClean ==
  /\ Writes("sync") /\ ~Stops /\ op.cmd \in InitCommands \cup {"clean"}
  /\ pc' = IF op.cmd = "clean" THEN "scan" ELSE "load"
  /\ UNCHANGED <<op, mem, waiting, prepared, pending, cur, hist>>

WriteFollow ==
  /\ Writes("follow")
  /\ EndsWith(Verdict)
  /\ UNCHANGED <<op, before>>

WriteFails ==
  /\ pc = "write" /\ Fault
  /\ UNCHANGED <<env, store, op, staged, tally, before>>
  /\ EndsWith("error")

Load ==               \* execute_load_plan, with every excluded plugin left out
  /\ pc = "load"
  /\ UNCHANGED <<env, store, op, staged, tally, before, faults>>
  /\ \E res \in {Verdict, "error"} : EndsWith(res)

Undeclared == {id \in Plugins \ Declared : disk[id] # Missing}

Scan ==               \* a broken directory is found only if it still has a .git
  /\ pc = "scan" /\ pc' = "clean"
  /\ \E found \in SUBSET Undeclared :
       /\ {id \in Undeclared : Healthy(disk[id])} \subseteq found
       /\ pending' = found
  /\ UNCHANGED <<env, store, op, mem, waiting, prepared, staged, cur, tally, hist,
                 faults>>

RemoveManaged(id) ==
  /\ pc = "clean" /\ First(pending, id)
  /\ disk' = [disk EXCEPT ![id] = Missing]
  /\ pending' = pending \ {id}
  /\ UNCHANGED <<env, lock, markers, torn, pc, op, mem, waiting, prepared, staged,
                 cur, tally, hist, faults>>

RemoveManagedFails(id) ==
  /\ pc = "clean" /\ First(pending, id) /\ Fault
  /\ \E d \in Gutted(disk[id]) \cup {disk[id]} : disk' = [disk EXCEPT ![id] = d]
  /\ UNCHANGED <<env, lock, markers, torn, op, staged, tally, before>>
  /\ EndsWith("error")

CleanDone ==
  /\ pc = "clean" /\ pending = {}
  /\ UNCHANGED <<env, store, op, staged, tally, before, faults>>
  /\ EndsWith(Verdict)

-----------------------------------------------------------------------------
(* Crashes, and what happens around the process.                            *)

BeingRemoved == {id \in Plugins : \/ pc = "remove" /\ id = cur
                                  \/ pc = "clean" /\ First(pending, id)}

Crash ==
  /\ pc # "idle" /\ Fault
  /\ \/ UNCHANGED disk
     \/ \E id \in BeingRemoved, d \in {Missing, Broken} \cup Checkout :
          /\ d \in Gutted(disk[id])
          /\ disk' = [disk EXCEPT ![id] = d]
  /\ UNCHANGED <<env, lock, markers, torn, op, before>>
  /\ EndsWith("crashed")
  /\ failed' = [id \in Plugins |-> "no"] /\ skipped' = {} /\ staged' = NoStaging

Edit == edits < MaxEdits /\ edits' = edits + 1

Intervenes ==         \* a running process has read its configuration already
  /\ pc = "idle" /\ Edit /\ result' = "none"
  /\ UNCHANGED <<upstream, markers, torn, pc, op, mem, work, tally, before, faults>>

EditConfig(id, spec) ==
  /\ spec # config[id] /\ Intervenes
  /\ config' = [config EXCEPT ![id] = spec]
  /\ UNCHANGED <<lock, disk>>

Damage(id) ==         \* edits inside the managed root
  /\ Intervenes
  /\ \E d \in {Missing, Broken} \cup {[head |-> c, build |-> NoBuild] : c \in Commits} :
       d # disk[id] /\ disk' = [disk EXCEPT ![id] = d]
  /\ UNCHANGED <<config, lock>>

Pull(cfg, at) ==      \* a configuration and a lock that a sync elsewhere made agree
  /\ Intervenes
  /\ config' = cfg
  /\ lock' = [fp |-> cfg,
              entries |-> [id \in Plugins |->
                 IF cfg[id] = None THEN None
                 ELSE [sel |-> cfg[id].sel, hash |-> cfg[id],
                       commit |-> IF cfg[id].sel \in Revs THEN cfg[id].sel ELSE at[id]]]]
  /\ UNCHANGED disk

UpstreamMoves(id, ref, c) ==   \* forwards or, since fetch forces, backwards
  /\ Edit /\ upstream[id][ref] # c
  /\ upstream' = [upstream EXCEPT ![id][ref] = c]
  /\ before' = [before EXCEPT !.tips[id][ref] = @ \cup {c}]
  /\ UNCHANGED <<config, store, pc, op, mem, work, tally, result, faults>>

-----------------------------------------------------------------------------
Init ==
  /\ config \in Config
  /\ upstream \in [Plugins -> [Refs -> Commits]]
  /\ lock = [entries |-> [id \in Plugins |-> None], fp |-> None]
  /\ disk = [id \in Plugins |-> Missing]
  /\ markers = [id \in Plugins |-> {}] /\ torn = markers
  /\ pc = "idle" /\ op = [cmd |-> "sync", target |-> All, phase |-> "sync"]
  /\ mem = lock
  /\ waiting = {} /\ pending = {} /\ staged = NoStaging /\ cur = None
  /\ prepared = [id \in Plugins |-> None]
  /\ failed = [id \in Plugins |-> "no"] /\ skipped = {}
  /\ before = Snapshot /\ result = "none"
  /\ edits = 0 /\ faults = 0

Apply(id) ==
  \/ SkipUnprepared(id) \/ Adopt(id) \/ AdoptFails(id) \/ AbortUpdate(id)
  \/ SkipKnownFailure(id) \/ BeginPublish(id)

Publish == BuildSucceeds \/ BuildFails \/ RemoveTarget \/ Rename \/ SwapFails
           \/ Track \/ TrackFails

Select == SelectSync \/ SelectInstall \/ SelectUpdate \/ SelectRestore
          \/ SelectRestoreFails

Finish == FinishApply \/ FinishRestore \/ WriteAndStop \/ WriteAndFollow
          \/ WriteAndLoadOrClean \/ WriteFollow \/ WriteFails \/ Load \/ Scan
          \/ CleanDone

Process ==            \* what the running command does next
  \/ Select \/ Publish \/ Finish
  \/ \E id \in Plugins : \/ PrepareSucceeds(id) \/ PrepareFails(id) \/ Apply(id)
                         \/ RemoveManaged(id) \/ RemoveManagedFails(id)

Environment ==
  \/ /\ "config" \in EnvSteps
     /\ \E id \in Plugins, spec \in Specs \cup {None} : EditConfig(id, spec)
  \/ "damage" \in EnvSteps /\ \E id \in Plugins : Damage(id)
  \/ "pull" \in EnvSteps /\ \E cfg \in Config, at \in [Plugins -> Commits] : Pull(cfg, at)
  \/ /\ "upstream" \in EnvSteps
     /\ \E id \in Plugins, ref \in Refs, c \in Commits : UpstreamMoves(id, ref, c)

Next ==
  \/ \E cmd \in Commands, target \in Plugins \cup {All} : Start(cmd, target)
  \/ Process \/ Crash \/ Environment

Spec     == Init /\ [][Next]_vars
FairSpec == Spec /\ WF_vars(Process /\ UNCHANGED faults)   \* nothing has to fail

-----------------------------------------------------------------------------
(* Properties.                                                              *)

Phases == {"idle", "select", "prepare", "apply", "build", "remove", "rename",
           "track", "write", "load", "scan", "clean"}

(* Every variable has its type: the stores and the state of the process.   *)
TypeOK ==
  /\ config \in Config /\ upstream \in [Plugins -> [Refs -> Commits]]
  /\ lock \in LockFile /\ mem \in LockFile /\ disk \in Disk
  /\ markers \in Markers /\ torn \in Markers
  /\ pc \in Phases
  /\ op \in [cmd : Commands, target : Plugins \cup {All}, phase : {"sync", "follow"}]
  /\ waiting \subseteq pending /\ pending \subseteq Plugins
  /\ staged \in [Plugins -> {"none", "partial", "whole"}]
  /\ prepared \in Entries
  /\ cur \in Plugins \cup {None}
  /\ failed \in [Plugins -> {"no", "prepare", "build", "publish", "track"}]
  /\ skipped \subseteq Plugins
  /\ before \in [lock : LockFile, disk : Disk, markers : Markers, torn : Markers,
                 tips : [Plugins -> [Refs -> SUBSET Commits]]]
  /\ result \in {"none", "running", "ok", "error", "crashed"}
  /\ edits \in 0 .. MaxEdits /\ faults \in 0 .. MaxFaults

Concluded(res) == pc = "idle" /\ result = res

(* What a command that reports success promises for the plugins it covers, *)
(* whatever crashed or failed before it: clean reconciles nothing, init    *)
(* skips known failures and, without auto_install, plugins with no entry.  *)
Covered ==
  {id \in Scope \ skipped :
     op.cmd # "clean" /\ (op.cmd = "initRepair" => lock.entries[id] # None)}

(* After a successful command every covered plugin is locked under its     *)
(* current declaration, its checkout is healthy and at the locked          *)
(* revision, and after an untargeted one the lock is not stale.            *)
SuccessConverges ==
  Concluded("ok") =>
    /\ \A id \in Covered :
         /\ lock.entries[id] # None /\ lock.entries[id].hash = config[id]
         /\ Healthy(disk[id]) /\ disk[id].head = HeadOf[lock.entries[id].commit]
    /\ (op.target = All /\ Covered = Declared /\ op.cmd # "clean") => ~LockIsStale

(* After a successful command the contents of every covered checkout are   *)
(* those its declared build command produced.                              *)
BuiltAsDeclared ==
  Concluded("ok") => \A id \in Covered :
    Healthy(disk[id]) /\ disk[id].build = config[id].build

(* A lock entry written to tmup.lock that differs from the one it replaces *)
(* names the revision whose checkout is published on disk at that moment.  *)
WritesArePublished ==
  [][pc = "write" => \A id \in Plugins :
       lock'.entries[id] \in {None, lock.entries[id]}
         \/ /\ Healthy(disk[id])
            /\ disk[id].head = HeadOf[lock'.entries[id].commit]]_vars

(* Only update advances a revision, and only a floating one: in any other  *)
(* phase a plugin whose selector is the one its entry was resolved with    *)
(* keeps its locked revision, in memory and on disk (design.md, 4).        *)
Pinned(id) ==
  /\ before.lock.entries[id] # None /\ config[id] # None
  /\ before.lock.entries[id].sel = config[id].sel
  /\ op.phase = "follow" /\ op.cmd = "update" => config[id].sel \notin Branches

OnlyUpdateAdvances ==
  result # "none" => \A id \in Plugins : Pinned(id) =>
    \A entries \in {mem.entries, lock.entries} :
      /\ entries[id] # None
      /\ entries[id].commit = before.lock.entries[id].commit

(* A targeted command leaves the checkout, the lock entry and the failure  *)
(* markers of every other plugin alone, stale entries included.            *)
TargetedIsolation ==
  (result # "none" /\ op.target # All) => \A id \in Plugins \ {op.target} :
    /\ disk[id] = before.disk[id] /\ markers[id] = before.markers[id]
    /\ mem.entries[id] = before.lock.entries[id]
    /\ lock.entries[id] = before.lock.entries[id]

(* A plugin whose preparation or build failed keeps the checkout and the   *)
(* lock entry it had when the phase began.                                 *)
FailurePreserves ==
  result # "none" => \A id \in Plugins : failed[id] \in {"prepare", "build"} =>
    /\ before.disk[id] # Broken => disk[id] = before.disk[id]
    /\ id \in Declared => mem.entries[id] = before.lock.entries[id]

(* Once a sync phase is clean, the follow-up phases of install and restore *)
(* find nothing to prepare: sync alone installs and repairs.               *)
FollowUpIdle ==
  (pc \notin {"idle", "select"} /\ op.phase = "follow" /\ op.cmd # "update") => pending = {}

(* What init loads is healthy and at the revision the lockfile names.      *)
InitLoadsLocked ==
  pc = "load" => \A id \in Declared \ Excluded :
    (op.cmd = "init" \/ lock.entries[id] # None) =>
      /\ Healthy(disk[id])
      /\ disk[id].head = HeadOf[lock.entries[id].commit]

(* A successful update leaves every floating plugin it covers at a         *)
(* revision its branch had while the update ran.                           *)
UpdateReachesUpstream ==
  (Concluded("ok") /\ op.cmd = "update") =>
    \A id \in Scope : config[id].sel \in Branches =>
      lock.entries[id].commit \in before.tips[id][config[id].sel]

(* A command that ends without crashing leaves no prepared checkout behind *)
(* in staging, however it ends.                                            *)
StagingRemoved ==
  pc = "idle" => \A id \in Plugins : staged[id] # "whole"

(* What is locked is not on record as failed because of what the command   *)
(* did.  When a phase writes tmup.lock, nothing is on record for a plugin  *)
(* whose entry changes, except files that were cut short before the phase  *)
(* (run torn).  And no phase puts on record the very attempt that an entry *)
(* of the current declaration names and that is checked out: what a phase  *)
(* after the write adds, as a failing update does, is of another revision *)
(* (list, which looks at the build alone, still shows it: run retry).      *)
LockedAttempt(id) == [rev |-> lock.entries[id].commit, build |-> config[id].build]

InstalledAsLocked(id) ==
  /\ id \in Declared /\ lock.entries[id] # None
  /\ lock.entries[id].hash = config[id] /\ AtRev(id, lock.entries[id].commit)

LockedNotFailed ==
  /\ pc = "write" => \A id \in Plugins :
       (mem.entries[id] # None /\ mem.entries[id] # before.lock.entries[id])
         => Known(id) \subseteq before.torn[id]
  /\ result # "none" => \A id \in Plugins :
       (InstalledAsLocked(id) /\ LockedAttempt(id) \in Known(id))
         => LockedAttempt(id) \in before.markers[id] \cup before.torn[id]

(* What the lockfile is about to record covers every checkout the phase    *)
(* published (design.md, 3).                                               *)
PublishesRecorded ==
  pc = "write" => \A id \in Declared :
    (Healthy(disk[id]) /\ disk[id] # before.disk[id] /\ disk[id].build # None) =>
      /\ mem.entries[id] # None
      /\ HeadOf[mem.entries[id].commit] = disk[id].head

(* The commit of a lock entry is the one that is checked out, once sync    *)
(* has succeeded (the comment on LockEntry::commit).                       *)
LockNamesHead ==
  (Concluded("ok") /\ op.cmd = "sync") => \A id \in Covered : AtRev(id, lock.entries[id].commit)

(* A successful publish leaves no failure on record for the plugin         *)
(* (commands.md, "A successful staged publish clears the marker").         *)
PublishClearsMarkers ==
  [][\A id \in Plugins : (pc = "track" /\ cur = id /\ mem' # mem) => Known(id)' = {}]_vars

(* Every command that starts ends.                                         *)
CommandsEnd == pc # "idle" ~> pc = "idle"

=============================================================================
