--------------------------- MODULE Lifecycle_proofs ---------------------------
(* Proofs about Lifecycle, for every set of plugins, branches, tags,         *)
(* commits, builds and declarations, and every bound on edits and faults:    *)
(* types, then what the lockfile records, then what a command leaves alone,  *)
(* and what a failure leaves behind.                                         *)
EXTENDS Lifecycle, TLAPS

PublishPhases == {"build", "remove", "rename", "track"}

(* TypeOK is not inductive alone: what is published has a declaration and a  *)
(* prepared entry, what is queued for application is declared, and nothing   *)
(* is still being prepared once application begins.                          *)
Publishing ==
  pc \in PublishPhases =>
    /\ cur \in Declared /\ prepared[cur] # None
    /\ pc = "build" => config[cur].build # NoBuild

Queued ==
  /\ pc \in {"prepare", "apply"} \cup PublishPhases => pending \subseteq Declared
  /\ pc # "prepare" => waiting = {}

IInv == TypeOK /\ Publishing /\ Queued

USE DEF PublishPhases

LEMMA InitIInv == Init => IInv
  BY LifecycleAssumption DEF Init, IInv, TypeOK, Publishing, Queued, Config, Entries, LockFile,
     Disk, Markers, Commands, Phases, NoStaging, Snapshot

LEMMA SpecsType ==
  ASSUME NEW s \in Specs
  PROVE  s.sel \in Refs \cup Revs /\ s.build \in BuildOpt
<1>1. s \in [sel : Refs \cup Revs, build : BuildOpt]
  BY LifecycleAssumption
<1>2. QED BY <1>1

LEMMA GuttedType ==
  ASSUME NEW d0 \in Checkout \cup {Missing, Broken}, NEW d \in Gutted(d0)
  PROVE  d \in Checkout \cup {Missing, Broken}
<1>1. CASE Healthy(d0)
  <2>1. d0 \in Checkout
    BY <1>1 DEF Healthy
  <2>2. [d0 EXCEPT !.build = None] \in Checkout
    BY <2>1 DEF Checkout
  <2>3. QED BY <1>1, <2>2 DEF Gutted
<1>2. CASE ~Healthy(d0)
  BY <1>2 DEF Gutted
<1>3. QED BY <1>1, <1>2

LEMMA PartlyClearedType ==
  ASSUME NEW id, markers \in Markers, PartlyCleared(id)
  PROVE  markers' \in Markers
  BY DEF PartlyCleared, Markers

LEMMA EndsWithType ==   \* the variables a command's end resets
  ASSUME NEW res \in {"ok", "error", "crashed"}, EndsWith(res)
  PROVE  /\ pc' = "idle" /\ result' = res /\ mem' = lock'
         /\ waiting' = {} /\ pending' = {} /\ cur' = None
         /\ prepared' \in Entries
  BY DEF EndsWith, Entries

LEMMA StartType ==
  ASSUME IInv, NEW cmd \in Commands, NEW target \in Plugins \cup {All}, Start(cmd, target)
  PROVE  IInv'
  BY LifecycleAssumption DEF Start, IInv, TypeOK, Publishing, Queued, Snapshot, NoStaging,
     env, store, Declared, Phases, LockFile

LEMMA SelectSyncType ==
  ASSUME IInv, SelectSync
  PROVE  IInv'
  BY LifecycleAssumption DEF SelectSync, Selects, Scope, NeedsReconcile,
     IInv, TypeOK, Publishing, Queued, Declared, Phases,
     env, store, work, tally, hist

LEMMA SelectInstallType ==
  ASSUME IInv, SelectInstall
  PROVE  IInv'
  BY LifecycleAssumption DEF SelectInstall, Selects, Scope, InstallCandidates, Disk,
     IInv, TypeOK, Publishing, Queued, Declared, Phases,
     env, store, work, tally, hist

LEMMA SelectUpdateType ==
  ASSUME IInv, SelectUpdate
  PROVE  IInv'
  BY LifecycleAssumption DEF SelectUpdate, Selects, Scope,
     IInv, TypeOK, Publishing, Queued, Declared, Phases,
     env, store, work, tally, hist

LEMMA SelectRestoreType ==
  ASSUME IInv, SelectRestore
  PROVE  IInv'
  BY LifecycleAssumption DEF SelectRestore, Selects, Scope, LockedInScope, AlreadyRestored, Markers,
     IInv, TypeOK, Publishing, Queued, Declared, Phases,
     env, store, work, tally, hist

LEMMA SelectRestoreFailsType ==
  ASSUME IInv, SelectRestoreFails
  PROVE  IInv'
<1>1. PICK bad \in AlreadyRestored, rest \in SUBSET Attempt :
        markers' = [id \in Plugins |-> CASE id = bad -> rest
                                         [] id \in AlreadyRestored /\ id < bad -> {}
                                         [] OTHER -> markers[id]]
  BY DEF SelectRestoreFails
<1>2. markers' \in Markers
  BY <1>1, Zenon DEF IInv, TypeOK, Markers
<1>3. EndsWith("error")
  BY DEF SelectRestoreFails
<1>4. QED
  BY <1>2, <1>3, EndsWithType, LifecycleAssumption DEF SelectRestoreFails, Fault,
     IInv, TypeOK, Publishing, Queued, Declared, Phases, env, tally

LEMMA PreparedEntryType ==
  ASSUME IInv, NEW id \in Declared
  PROVE  PreparedEntry(id) \in Entry
<1>1. config[id] \in Specs /\ config[id].sel \in Refs \cup Revs
  BY SpecsType DEF IInv, TypeOK, Declared, Config
<1>2. CASE KeepsRevision(id)
  <2>1. mem.entries[id] \in Entry
    BY <1>2 DEF KeepsRevision, IInv, TypeOK, LockFile, Entries, Declared
  <2>2. QED BY <1>1, <1>2, <2>1 DEF PreparedEntry, Entry
<1>3. CASE ~KeepsRevision(id)
  <2>1. Resolved(id) \in Entry
    BY <1>1 DEF Resolved, Entry, Revs, IInv, TypeOK, Declared
  <2>2. QED BY <1>3, <2>1 DEF PreparedEntry
<1>4. QED BY <1>2, <1>3

LEMMA PrepareSucceedsType ==
  ASSUME IInv, NEW id \in Plugins, PrepareSucceeds(id)
  PROVE  IInv'
<1>1. PreparedEntry(id) \in Entry
  BY PreparedEntryType DEF PrepareSucceeds, Prepares, IInv, TypeOK, Queued
<1>2. prepared' \in Entries
  BY <1>1 DEF PrepareSucceeds, Entries, IInv, TypeOK
<1>3. QED
  BY <1>2, LifecycleAssumption DEF PrepareSucceeds, Prepares,
     IInv, TypeOK, Publishing, Queued, Declared, Phases, env, store, tally, hist

LEMMA PrepareFailsType ==
  ASSUME IInv, NEW id \in Plugins, PrepareFails(id)
  PROVE  IInv'
  BY LifecycleAssumption DEF PrepareFails, Prepares,
     IInv, TypeOK, Publishing, Queued, Declared, Phases,
     env, store, work, tally, hist

LEMMA SkipUnpreparedType ==
  ASSUME IInv, NEW id \in Plugins, SkipUnprepared(id)
  PROVE  IInv'
  BY LifecycleAssumption DEF SkipUnprepared, Applies,
     IInv, TypeOK, Publishing, Queued, Declared, Phases,
     env, store, work, tally, hist

LEMMA AdoptType ==
  ASSUME IInv, NEW id \in Plugins, Adopt(id)
  PROVE  IInv'
  BY LifecycleAssumption DEF Adopt, Applies, Unstage, ClearMarkers, Inserted, Markers, LockFile, Entries,
     IInv, TypeOK, Publishing, Queued, Declared, Phases,
     env, store, work, tally, hist

LEMMA AdoptFailsType ==
  ASSUME IInv, NEW id \in Plugins, AdoptFails(id)
  PROVE  IInv'
  BY LifecycleAssumption DEF AdoptFails, Applies, Unstage, PartlyCleared, Fault, Markers, Entries,
     IInv, TypeOK, Publishing, Queued, Declared, Phases,
     env, store, work, tally, hist

LEMMA AbortUpdateType ==
  ASSUME IInv, NEW id \in Plugins, AbortUpdate(id)
  PROVE  IInv'
<1>1. markers' \in Markers
  BY PartlyClearedType DEF AbortUpdate, IInv, TypeOK
<1>2. staged' \in [Plugins -> {"none", "partial", "whole"}]
  BY DEF AbortUpdate, PendingCleaned, IInv, TypeOK
<1>3. EndsWith("error")
  BY DEF AbortUpdate
<1>4. QED
  BY <1>1, <1>2, <1>3, EndsWithType, LifecycleAssumption DEF AbortUpdate, Fault,
     IInv, TypeOK, Publishing, Queued, Declared, Phases, env, tally

LEMMA SkipKnownFailureType ==
  ASSUME IInv, NEW id \in Plugins, SkipKnownFailure(id)
  PROVE  IInv'
  BY LifecycleAssumption DEF SkipKnownFailure, Applies, DropBroken, Unstage, Disk, Entries,
     IInv, TypeOK, Publishing, Queued, Declared, Phases,
     env, store, work, tally, hist

LEMMA DropBrokenType ==
  ASSUME IInv, NEW id \in Plugins, DropBroken(id)
  PROVE  disk' \in Disk
  BY DEF DropBroken, Disk, IInv, TypeOK

LEMMA BeginPublishType ==
  ASSUME IInv, NEW id \in Plugins, BeginPublish(id)
  PROVE  IInv'
<1>1. disk' \in Disk
  BY DropBrokenType DEF BeginPublish
<1>2. pc' \in {"build", "remove", "rename"} /\ (pc' = "build" => config[id].build # NoBuild)
  BY DEF BeginPublish, Swap
<1>3. cur' = id /\ id \in Declared /\ prepared[id] # None /\ pending' \subseteq Declared
  BY DEF BeginPublish, Applies, First, IInv, Queued
<1>4. QED
  BY <1>1, <1>2, <1>3, LifecycleAssumption DEF BeginPublish, Applies,
     IInv, TypeOK, Publishing, Queued, Declared, Phases, env, tally, hist

LEMMA BuildSucceedsType ==
  ASSUME IInv, BuildSucceeds
  PROVE  IInv'
  BY LifecycleAssumption DEF BuildSucceeds, Swap,
     IInv, TypeOK, Publishing, Queued, Declared, Phases,
     env, store, work, tally, hist

LEMMA BuildingType ==
  ASSUME IInv, pc \in PublishPhases, config[cur].build # NoBuild
  PROVE  cur \in Plugins /\ Building(cur) \in Attempt
<1>1. cur \in Plugins /\ config[cur] \in Specs /\ prepared[cur] \in Entry
  BY DEF IInv, TypeOK, Publishing, Declared, Config, Entries
<1>2. QED
  BY <1>1, LifecycleAssumption DEF Building, Attempt, Entry, BuildOpt

LEMMA WriteMarkerType ==
  ASSUME IInv, pc \in PublishPhases, config[cur].build # NoBuild, WriteMarker \/ TearMarker
  PROVE  markers' \in Markers /\ torn' \in Markers
<1>1. cur \in Plugins /\ Building(cur) \in Attempt
  BY BuildingType
<1>2. markers[cur] \subseteq Attempt /\ torn[cur] \subseteq Attempt
  BY <1>1 DEF Markers, IInv, TypeOK
<1> DEFINE b == Building(cur)
<1>3. b \in Attempt BY <1>1
<1>4. CASE WriteMarker
  <2>1. markers' = [markers EXCEPT ![cur] = @ \cup {b}] /\ torn' = [torn EXCEPT ![cur] = @ \ {b}]
    BY <1>4 DEF WriteMarker
  <2> HIDE DEF b
  <2>2. QED BY <1>1, <1>2, <1>3, <2>1 DEF Markers, IInv, TypeOK
<1>5. CASE TearMarker
  <2>1. markers' = [markers EXCEPT ![cur] = @ \ {b}] /\ torn' = [torn EXCEPT ![cur] = @ \cup {b}]
    BY <1>5 DEF TearMarker
  <2> HIDE DEF b
  <2>2. QED BY <1>1, <1>2, <1>3, <2>1 DEF Markers, IInv, TypeOK
<1>6. QED BY <1>4, <1>5

LEMMA PublishFailsType ==
  ASSUME IInv, NEW kind \in {"build", "publish"}, PublishFails(kind), pc \in PublishPhases,
         disk' \in Disk, markers' \in Markers, torn' \in Markers,
         UNCHANGED faults \/ Fault
  PROVE  IInv'
  BY LifecycleAssumption DEF PublishFails, NextPlugin, Unstage, Fault, Entries,
     IInv, TypeOK, Publishing, Queued, Declared, Phases, env, hist

LEMMA BuildFailsType ==
  ASSUME IInv, BuildFails
  PROVE  IInv'
<1>1. pc = "build" /\ PublishFails("build") /\ disk' \in Disk /\ (UNCHANGED faults \/ Fault)
  BY DEF BuildFails, IInv, TypeOK
<1>2. config[cur].build # NoBuild
  BY <1>1 DEF IInv, Publishing
<1>3. markers' \in Markers /\ torn' \in Markers
  BY <1>1, <1>2, WriteMarkerType DEF BuildFails, IInv, TypeOK
<1>4. QED BY <1>1, <1>3, PublishFailsType

LEMMA RemoveTargetType ==
  ASSUME IInv, RemoveTarget
  PROVE  IInv'
  BY LifecycleAssumption DEF RemoveTarget, Disk,
     IInv, TypeOK, Publishing, Queued, Declared, Phases,
     env, store, work, tally, hist

LEMMA RenameType ==
  ASSUME IInv, Rename
  PROVE  IInv'
  BY LifecycleAssumption DEF Rename, Unstage, Disk, Checkout, Entries, Entry, Config,
     IInv, TypeOK, Publishing, Queued, Declared, Phases,
     env, store, work, tally, hist

LEMMA SwapFailsType ==
  ASSUME IInv, SwapFails
  PROVE  IInv'
<1>1. pc \in {"remove", "rename"} /\ PublishFails("publish") /\ Fault
  BY DEF SwapFails
<1>2. markers' \in Markers /\ torn' \in Markers
  BY <1>1, WriteMarkerType DEF SwapFails, IInv, TypeOK
<1>3. disk' \in Disk
  <2>1. CASE UNCHANGED disk
    BY <2>1 DEF IInv, TypeOK
  <2>2. CASE \E d \in Gutted(disk[cur]) : disk' = [disk EXCEPT ![cur] = d]
    BY <1>1, <2>2, GuttedType DEF IInv, TypeOK, Publishing, Declared, Disk
  <2>3. QED BY <2>1, <2>2 DEF SwapFails
<1>4. QED BY <1>1, <1>2, <1>3, PublishFailsType

LEMMA TrackType ==
  ASSUME IInv, Track
  PROVE  IInv'
  BY LifecycleAssumption DEF Track, NextPlugin, ClearMarkers, Inserted, Markers, LockFile, Entries,
     IInv, TypeOK, Publishing, Queued, Declared, Phases,
     env, store, work, tally, hist

LEMMA TrackFailsType ==
  ASSUME IInv, TrackFails
  PROVE  IInv'
<1>1. markers' \in Markers
  BY PartlyClearedType DEF TrackFails, IInv, TypeOK
<1>2. QED
  BY <1>1, LifecycleAssumption DEF TrackFails, NextPlugin, Fault, Entries,
     IInv, TypeOK, Publishing, Queued, Declared, Phases, env, hist

LEMMA FinishApplyType ==
  ASSUME IInv, FinishApply
  PROVE  IInv'
  BY LifecycleAssumption DEF FinishApply, PhaseDone, SyncedLock, Pruned, LockFile, Entries,
     IInv, TypeOK, Publishing, Queued, Declared, Phases,
     env, store, work, tally, hist

LEMMA FinishRestoreType ==
  ASSUME IInv, FinishRestore
  PROVE  IInv'
  BY LifecycleAssumption DEF FinishRestore, EndsWith, Verdict, Entries,
     IInv, TypeOK, Publishing, Queued, Declared, Phases,
     env, store, work, tally, hist

LEMMA WriteAndStopType ==
  ASSUME IInv, WriteAndStop
  PROVE  IInv'
  BY LifecycleAssumption DEF WriteAndStop, Writes, EndsWith, Verdict, Entries,
     IInv, TypeOK, Publishing, Queued, Declared, Phases,
     env, store, work, tally, hist

LEMMA WriteAndFollowType ==
  ASSUME IInv, WriteAndFollow
  PROVE  IInv'
<1>1. op' \in [cmd : Commands, target : Plugins \cup {All}, phase : {"sync", "follow"}]
  BY DEF WriteAndFollow, IInv, TypeOK
<1>2. before' \in [lock : LockFile, disk : Disk, markers : Markers, torn : Markers,
                   tips : [Plugins -> [Refs -> SUBSET Commits]]]
  <2>1. before' = [lock |-> mem, disk |-> disk, markers |-> markers, torn |-> torn,
                   tips |-> Snapshot.tips]
    BY DEF WriteAndFollow, Snapshot
  <2>2. Snapshot.tips \in [Plugins -> [Refs -> SUBSET Commits]]
    BY DEF Snapshot, IInv, TypeOK
  <2>3. QED BY <2>1, <2>2 DEF IInv, TypeOK
<1>3. pc' = "select" /\ lock' = mem /\ UNCHANGED <<env, disk, markers, torn, staged, tally,
        faults, mem, waiting, prepared, pending, cur, result>> /\ pc = "write"
  BY DEF WriteAndFollow, Writes
<1>4. QED
  BY <1>1, <1>2, <1>3, LifecycleAssumption DEF env, tally,
     IInv, TypeOK, Publishing, Queued, Declared, Phases

LEMMA WriteAndLoadOrCleanType ==
  ASSUME IInv, WriteAndLoadOrClean
  PROVE  IInv'
  BY LifecycleAssumption DEF WriteAndLoadOrClean, Writes,
     IInv, TypeOK, Publishing, Queued, Declared, Phases,
     env, store, work, tally, hist

LEMMA WriteFollowType ==
  ASSUME IInv, WriteFollow
  PROVE  IInv'
  BY LifecycleAssumption DEF WriteFollow, Writes, EndsWith, Verdict, Entries,
     IInv, TypeOK, Publishing, Queued, Declared, Phases,
     env, store, work, tally, hist

LEMMA WriteFailsType ==
  ASSUME IInv, WriteFails
  PROVE  IInv'
  BY LifecycleAssumption DEF WriteFails, EndsWith, Fault, Entries,
     IInv, TypeOK, Publishing, Queued, Declared, Phases,
     env, store, work, tally, hist

LEMMA LoadType ==
  ASSUME IInv, Load
  PROVE  IInv'
  BY LifecycleAssumption DEF Load, EndsWith, Verdict, Entries,
     IInv, TypeOK, Publishing, Queued, Declared, Phases,
     env, store, work, tally, hist

LEMMA ScanType ==
  ASSUME IInv, Scan
  PROVE  IInv'
  BY LifecycleAssumption DEF Scan, Undeclared,
     IInv, TypeOK, Publishing, Queued, Declared, Phases,
     env, store, work, tally, hist

LEMMA RemoveManagedType ==
  ASSUME IInv, NEW id \in Plugins, RemoveManaged(id)
  PROVE  IInv'
  BY LifecycleAssumption DEF RemoveManaged, Disk,
     IInv, TypeOK, Publishing, Queued, Declared, Phases,
     env, store, work, tally, hist

LEMMA RemoveManagedFailsType ==
  ASSUME IInv, NEW id \in Plugins, RemoveManagedFails(id)
  PROVE  IInv'
<1>1. disk' \in Disk
  <2>1. PICK d \in Gutted(disk[id]) \cup {disk[id]} : disk' = [disk EXCEPT ![id] = d]
    BY DEF RemoveManagedFails
  <2>2. QED BY <2>1, GuttedType DEF IInv, TypeOK, Disk
<1>2. EndsWith("error")
  BY DEF RemoveManagedFails
<1>3. QED
  BY <1>1, <1>2, EndsWithType, LifecycleAssumption DEF RemoveManagedFails, Fault,
     IInv, TypeOK, Publishing, Queued, Declared, Phases, env, tally

LEMMA CleanDoneType ==
  ASSUME IInv, CleanDone
  PROVE  IInv'
  BY LifecycleAssumption DEF CleanDone, EndsWith, Verdict, Entries,
     IInv, TypeOK, Publishing, Queued, Declared, Phases,
     env, store, work, tally, hist

LEMMA CrashType ==
  ASSUME IInv, Crash
  PROVE  IInv'
<1>1. disk' \in Disk
  <2>1. CASE UNCHANGED disk
    BY <2>1 DEF IInv, TypeOK
  <2>2. ASSUME NEW id \in BeingRemoved, NEW d \in Gutted(disk[id]),
               disk' = [disk EXCEPT ![id] = d]
        PROVE  disk' \in Disk
    BY <2>2, GuttedType DEF BeingRemoved, IInv, TypeOK, Disk
  <2>3. QED BY <2>1, <2>2 DEF Crash
<1>2. EndsWith("crashed")
  BY DEF Crash
<1>3. QED
  BY <1>1, <1>2, EndsWithType, LifecycleAssumption DEF Crash, Fault, NoStaging,
     IInv, TypeOK, Publishing, Queued, Declared, Phases, env

LEMMA EditConfigType ==
  ASSUME IInv, NEW id \in Plugins, NEW spec \in Specs \cup {None}, EditConfig(id, spec)
  PROVE  IInv'
  BY LifecycleAssumption DEF EditConfig, Intervenes, Edit, Config,
     IInv, TypeOK, Publishing, Queued, Declared, Phases,
     env, store, work, tally, hist

LEMMA DamageType ==
  ASSUME IInv, NEW id \in Plugins, Damage(id)
  PROVE  IInv'
  BY LifecycleAssumption DEF Damage, Intervenes, Edit, Disk, Checkout, BuildOpt,
     IInv, TypeOK, Publishing, Queued, Declared, Phases,
     env, store, work, tally, hist

LEMMA PullType ==
  ASSUME IInv, NEW cfg \in Config, NEW at \in [Plugins -> Commits], Pull(cfg, at)
  PROVE  IInv'
<1>1. lock' \in LockFile
  BY LifecycleAssumption DEF Pull, Config, LockFile, Entries, Entry, Refs, Revs
<1>2. QED
  BY <1>1, LifecycleAssumption DEF Pull, Intervenes, Edit,
     IInv, TypeOK, Publishing, Queued, Declared, Phases, work, tally

LEMMA UpstreamMovesType ==
  ASSUME IInv, NEW id \in Plugins, NEW ref \in Refs, NEW c \in Commits, UpstreamMoves(id, ref, c)
  PROVE  IInv'
<1>1. upstream' \in [Plugins -> [Refs -> Commits]]
  BY DEF UpstreamMoves, IInv, TypeOK
<1>2. before' \in [lock : LockFile, disk : Disk, markers : Markers, torn : Markers,
                   tips : [Plugins -> [Refs -> SUBSET Commits]]]
  <2>1. before.tips \in [Plugins -> [Refs -> SUBSET Commits]]
    BY DEF IInv, TypeOK
  <2>2. [before.tips EXCEPT ![id][ref] = @ \cup {c}] \in [Plugins -> [Refs -> SUBSET Commits]]
    BY <2>1
  <2>3. before' = [before EXCEPT !.tips = [before.tips EXCEPT ![id][ref] = @ \cup {c}]]
    BY DEF UpstreamMoves
  <2>4. QED BY <2>2, <2>3 DEF IInv, TypeOK
<1>3. /\ UNCHANGED <<config, store, pc, op, mem, work, tally, result, faults>>
      /\ edits' \in 0 .. MaxEdits
  BY LifecycleAssumption DEF UpstreamMoves, Edit, IInv, TypeOK
<1>4. QED
  BY <1>1, <1>2, <1>3 DEF store, work, tally,
     IInv, TypeOK, Publishing, Queued, Declared, Phases

(* An insertion into the lock in memory changes one entry.                    *)
LEMMA InsertedElsewhere ==
  ASSUME IInv, NEW id \in Plugins
  PROVE  \A p \in Plugins : p # id => Inserted(id).entries[p] = mem.entries[p]
<1>1. Inserted(id).entries = [mem.entries EXCEPT ![id] = prepared[id]]
  BY DEF Inserted, IInv, TypeOK, LockFile
<1>2. QED BY <1>1 DEF IInv, TypeOK, LockFile, Entries

LEMMA StutterType ==
  ASSUME IInv, UNCHANGED vars
  PROVE  IInv'
  BY DEF vars, env, store, work, tally, hist, IInv, TypeOK, Publishing, Queued, Declared

LEMMA ApplyType ==
  ASSUME IInv, NEW id \in Plugins, Apply(id)
  PROVE  IInv'
  BY SkipUnpreparedType, AdoptType, AdoptFailsType, AbortUpdateType, SkipKnownFailureType,
     BeginPublishType DEF Apply

LEMMA PublishType ==
  ASSUME IInv, Publish
  PROVE  IInv'
  BY BuildSucceedsType, BuildFailsType, RemoveTargetType, RenameType, SwapFailsType,
     TrackType, TrackFailsType DEF Publish

LEMMA SelectType ==
  ASSUME IInv, Select
  PROVE  IInv'
  BY SelectSyncType, SelectInstallType, SelectUpdateType, SelectRestoreType,
     SelectRestoreFailsType DEF Select

LEMMA FinishType ==
  ASSUME IInv, Finish
  PROVE  IInv'
  BY FinishApplyType, FinishRestoreType, WriteAndStopType, WriteAndFollowType,
     WriteAndLoadOrCleanType, WriteFollowType, WriteFailsType, LoadType, ScanType,
     CleanDoneType DEF Finish

LEMMA EnvironmentType ==
  ASSUME IInv, Environment
  PROVE  IInv'
  BY EditConfigType, DamageType, PullType, UpstreamMovesType DEF Environment

LEMMA NextType ==
  ASSUME IInv, [Next]_vars
  PROVE  IInv'
<1>1. CASE \E cmd \in Commands, target \in Plugins \cup {All} : Start(cmd, target)
  BY <1>1, StartType
<1>2. CASE Process
  BY <1>2, SelectType, PublishType, FinishType, PrepareSucceedsType, PrepareFailsType,
     ApplyType, RemoveManagedType, RemoveManagedFailsType DEF Process
<1>3. CASE Crash \/ Environment
  BY <1>3, CrashType, EnvironmentType
<1>4. CASE UNCHANGED vars
  BY <1>4, StutterType
<1>5. QED BY <1>1, <1>2, <1>3, <1>4 DEF Next

(* The inductive invariant: TypeOK, and what a step needs to keep it, such as *)
(* that a plugin which is applied has been prepared (sync.rs 185-260).        *)
THEOREM TypeInvariant == Spec => []IInv
  BY InitIInv, NextType, PTL DEF Spec

(* Type correctness: the stores and the state of the process keep their types *)
(* through every command, failure, crash and edit (sync.rs, plugin.rs).       *)
THEOREM TypeCorrect == Spec => []TypeOK
<1>1. IInv => TypeOK BY DEF IInv
<1>2. QED BY <1>1, TypeInvariant, PTL

-----------------------------------------------------------------------------
(* What entries say.  The lockfile records only what is published, and only  *)
(* update advances a revision.                                               *)

(* What the lock snapshot in memory says of a plugin is what tmup.lock says, *)
(* or nothing, or the revision of the checkout that is published.            *)
Recorded(id) ==
  \/ mem.entries[id] \in {None, lock.entries[id]}
  \/ Healthy(disk[id]) /\ disk[id].head = HeadOf[mem.entries[id].commit]

Untouched(id) == mem.entries[id] = lock.entries[id]

(* Inductive: a plugin's entry changes only after its turn, so the checkout  *)
(* of a plugin that is still to be published is not needed to justify it.    *)
RInv ==
  pc # "idle" =>
    /\ \A id \in Plugins : Recorded(id)
    /\ \A id \in pending : Untouched(id)
    /\ pc \in {"select", "load", "scan", "clean"} => \A id \in Plugins : Untouched(id)
    /\ pc \in PublishPhases => Untouched(cur) /\ cur \notin pending
    /\ pc = "track" => Healthy(disk[cur]) /\ disk[cur].head = HeadOf[prepared[cur].commit]

(* Four ways to preserve it: the command ends; memory and file agree; the    *)
(* records and the checkouts stay; only the checkout being published moves.  *)
LEMMA EndedRecord ==
  ASSUME pc' = "idle"
  PROVE  RInv'
  BY DEF RInv

LEMMA EndsRecord ==
  ASSUME NEW res, EndsWith(res)
  PROVE  RInv'
  BY EndedRecord DEF EndsWith

LEMMA SettledRecord ==
  ASSUME pc' \notin PublishPhases, mem' = lock', pending' \subseteq Plugins
  PROVE  RInv'
  BY DEF RInv, Recorded, Untouched

LEMMA QuietRecord ==
  ASSUME RInv, pc # "idle", pc' \in {"prepare", "apply", "write"},
         UNCHANGED <<lock, mem, disk>>, pending' \subseteq pending
  PROVE  RInv'
  BY DEF RInv, Recorded, Untouched, Healthy

LEMMA MovesRecord ==
  ASSUME IInv, RInv, pc \in PublishPhases, pc' \in {"build", "remove", "rename", "apply"},
         UNCHANGED <<lock, mem, pending>>, pc' # "apply" => cur' = cur,
         \A id \in Plugins : id # cur => disk'[id] = disk[id]
  PROVE  RInv'
<1>1. ASSUME NEW id \in Plugins PROVE Recorded(id)'
  BY <1>1 DEF RInv, Recorded, Untouched, Healthy
<1>2. (\A id \in pending : Untouched(id))' /\ (pc' # "apply" => Untouched(cur)')
      /\ (pc' # "apply" => cur' \notin pending')
  BY DEF RInv, Untouched
<1>3. QED BY <1>1, <1>2 DEF RInv

LEMMA StartRecord ==
  ASSUME IInv, NEW cmd, NEW target, Start(cmd, target)
  PROVE  RInv'
<1>1. pc' = "select" /\ mem' = lock' /\ pending' = pending
  BY DEF Start, store
<1>2. QED BY <1>1, SettledRecord DEF IInv, TypeOK

LEMMA SelectRecord ==
  ASSUME IInv, RInv, Select
  PROVE  RInv'
<1>1. ASSUME NEW S \in SUBSET Plugins, pc = "select", Selects(S)
      PROVE  RInv'
  <2>1. pc' \in {"apply", "prepare"} /\ pending' = S /\ UNCHANGED <<lock, mem>>
    BY <1>1 DEF Selects
  <2>2. \A id \in Plugins : Untouched(id)
    BY <1>1 DEF RInv
  <2>3. QED BY <2>1, <2>2 DEF RInv, Recorded, Untouched
<1>2. CASE SelectSync
  BY <1>1, <1>2 DEF SelectSync, Scope, Declared
<1>3. CASE SelectInstall
  BY <1>1, <1>3 DEF SelectInstall, InstallCandidates, Scope, Declared
<1>4. CASE SelectUpdate
  BY <1>1, <1>4 DEF SelectUpdate, Scope, Declared
<1>5. CASE SelectRestore
  BY <1>1, <1>5 DEF SelectRestore, LockedInScope, Scope, Declared
<1>6. CASE SelectRestoreFails
  BY <1>6, EndsRecord DEF SelectRestoreFails
<1>7. QED BY <1>2, <1>3, <1>4, <1>5, <1>6 DEF Select

LEMMA PrepareRecord ==
  ASSUME RInv, NEW id \in Plugins, Prepares(id)
  PROVE  RInv'
  BY QuietRecord DEF Prepares, store

(* An up-to-date plugin is inserted with the commit its checkout is at.      *)
LEMMA AdoptRecord ==
  ASSUME IInv, RInv, NEW id \in Plugins, Adopt(id)
  PROVE  RInv'
<1>1. Healthy(disk[id]) /\ disk[id].head = HeadOf[prepared[id].commit]
  <2>1. Healthy(disk[id]) /\ disk[id].head = prepared[id].commit
    BY DEF Adopt, UpToDate, AtRev
  <2>2. disk[id].head \in Commits
    BY <2>1 DEF IInv, TypeOK, Disk, Checkout, Healthy
  <2>3. QED BY <2>1, <2>2, LifecycleAssumption
<1>2. mem' = [mem EXCEPT !.entries[id] = prepared[id]]
      /\ pc = "apply" /\ pc' = pc /\ pending' = pending \ {id} /\ UNCHANGED <<lock, disk>>
  BY DEF Adopt, Applies, Inserted
<1>3. mem \in LockFile /\ pending \subseteq Plugins
  BY DEF IInv, TypeOK
<1>4. mem'.entries = [mem.entries EXCEPT ![id] = prepared[id]]
  BY <1>2, <1>3 DEF LockFile
<1>5. mem'.entries[id] = prepared[id] /\ \A p \in Plugins \ {id} : mem'.entries[p] = mem.entries[p]
  BY <1>3, <1>4 DEF LockFile, Entries
<1>6. \A p \in Plugins : Recorded(p)'
  BY <1>1, <1>2, <1>5 DEF RInv, Recorded, Healthy
<1>7. \A p \in pending' : Untouched(p)'
  BY <1>2, <1>3, <1>5 DEF RInv, Untouched
<1>8. QED BY <1>2, <1>6, <1>7 DEF RInv

(* A turn begins: the plugin leaves the queue with its entry untouched, so   *)
(* that a broken checkout may be dropped.                                    *)
LEMMA TurnRecord ==
  ASSUME IInv, RInv, NEW id \in Plugins, Applies(id), DropBroken(id), mem' = mem,
         pc' = "apply" \/ (pc' \in {"build", "remove", "rename"} /\ cur' = id)
  PROVE  RInv'
<1>1. pc = "apply" /\ id \in pending /\ pending' = pending \ {id} /\ lock' = lock
  BY DEF Applies, First
<1>2. \A p \in Plugins : p # id => disk'[p] = disk[p]
  BY DEF DropBroken, IInv, TypeOK, Disk
<1>3. Untouched(id)
  BY <1>1 DEF RInv
<1>4. ASSUME NEW p \in Plugins PROVE Recorded(p)'
  BY <1>1, <1>2, <1>3, <1>4 DEF RInv, Recorded, Untouched, Healthy
<1>5. (\A p \in pending' : Untouched(p)') /\ Untouched(id)'
  BY <1>1, <1>3 DEF RInv, Untouched
<1>6. QED BY <1>1, <1>4, <1>5 DEF RInv

LEMMA ApplyRecord ==
  ASSUME IInv, RInv, NEW id \in Plugins, Apply(id)
  PROVE  RInv'
<1>1. CASE SkipUnprepared(id) \/ AdoptFails(id)
  <2>1. Applies(id) /\ UNCHANGED <<disk, pc, mem>>
    BY <1>1 DEF SkipUnprepared, AdoptFails
  <2>2. QED BY <2>1, QuietRecord DEF Applies
<1>2. CASE Adopt(id)
  BY <1>2, AdoptRecord
<1>3. CASE AbortUpdate(id)
  BY <1>3, EndsRecord DEF AbortUpdate
<1>4. CASE SkipKnownFailure(id)
  BY <1>4, TurnRecord DEF SkipKnownFailure, Applies
<1>5. CASE BeginPublish(id)
  BY <1>5, TurnRecord DEF BeginPublish, Swap
<1>6. QED BY <1>1, <1>2, <1>3, <1>4, <1>5 DEF Apply

LEMMA RenameRecord ==
  ASSUME IInv, RInv, Rename
  PROVE  RInv'
<1> DEFINE new == [head |-> HeadOf[prepared[cur].commit], build |-> config[cur].build]
<1>1. cur \in Plugins /\ prepared[cur] \in Entry /\ config[cur] \in Specs
  BY DEF Rename, IInv, TypeOK, Publishing, Declared, Entries, Config
<1>2. new \in Checkout /\ Healthy(new)
  BY <1>1, SpecsType, LifecycleAssumption DEF Checkout, Entry, Healthy
<1>3. disk' = [disk EXCEPT ![cur] = new] /\ pc = "rename" /\ pc' = "track" /\ cur' = cur
      /\ UNCHANGED <<lock, mem, pending, prepared>>
  BY DEF Rename
<1>4. new.head = HeadOf[prepared[cur].commit]
  OBVIOUS
<1> HIDE DEF new
<1>5. disk'[cur] = new /\ \A p \in Plugins : p # cur => disk'[p] = disk[p]
  BY <1>1, <1>3 DEF IInv, TypeOK, Disk
<1>6. ASSUME NEW p \in Plugins PROVE Recorded(p)'
  BY <1>3, <1>5, <1>6 DEF RInv, Recorded, Untouched, Healthy
<1>7. (\A p \in pending' : Untouched(p)') /\ Untouched(cur)' /\ cur' \notin pending'
  BY <1>3 DEF RInv, Untouched
<1>8. Healthy(disk'[cur']) /\ disk'[cur'].head = HeadOf[prepared'[cur'].commit]
  BY <1>2, <1>3, <1>4, <1>5
<1>9. QED BY <1>3, <1>6, <1>7, <1>8 DEF RInv, Healthy

LEMMA TrackRecord ==
  ASSUME IInv, RInv, Track
  PROVE  RInv'
<1>1. pc = "track" /\ pc' = "apply" /\ UNCHANGED <<lock, disk, pending>>
  BY DEF Track, NextPlugin
<1>2. CASE mem' = mem
  BY <1>1, <1>2, QuietRecord
<1>3. CASE mem' = Inserted(cur)
  <2>1. cur \in Plugins /\ cur \notin pending /\ mem \in LockFile /\ pending \subseteq Plugins
    BY <1>1 DEF RInv, IInv, TypeOK, Publishing, Declared
  <2>2. mem'.entries = [mem.entries EXCEPT ![cur] = prepared[cur]]
    BY <1>3, <2>1 DEF Inserted, LockFile
  <2>3. /\ mem'.entries[cur] = prepared[cur]
        /\ \A p \in Plugins \ {cur} : mem'.entries[p] = mem.entries[p]
    BY <2>1, <2>2 DEF LockFile, Entries
  <2>4. \A p \in Plugins : Recorded(p)'
    BY <1>1, <2>3 DEF RInv, Recorded, Healthy
  <2>5. \A p \in pending' : Untouched(p)'
    BY <1>1, <2>1, <2>3 DEF RInv, Untouched
  <2>6. QED BY <1>1, <2>4, <2>5 DEF RInv
<1>4. QED BY <1>2, <1>3 DEF Track

LEMMA PublishRecord ==
  ASSUME IInv, RInv, Publish
  PROVE  RInv'
<1>1. cur \in Plugins \/ pc \notin PublishPhases
  BY DEF IInv, Publishing, Declared
<1>2. CASE BuildSucceeds
  BY <1>2, MovesRecord DEF BuildSucceeds, Swap, store, work
<1>3. CASE BuildFails
  BY <1>3, MovesRecord DEF BuildFails, PublishFails, NextPlugin
<1>4. CASE RemoveTarget
  BY <1>4, MovesRecord DEF RemoveTarget, work, IInv, TypeOK, Disk
<1>5. CASE Rename
  BY <1>5, RenameRecord
<1>6. CASE SwapFails
  <2>1. \A id \in Plugins : id # cur => disk'[id] = disk[id]
    BY <1>6 DEF SwapFails, IInv, TypeOK, Disk
  <2>2. QED BY <1>6, <2>1, MovesRecord DEF SwapFails, PublishFails, NextPlugin
<1>7. CASE Track
  BY <1>7, TrackRecord
<1>8. CASE TrackFails
  BY <1>8, QuietRecord DEF TrackFails, NextPlugin
<1>9. QED BY <1>2, <1>3, <1>4, <1>5, <1>6, <1>7, <1>8 DEF Publish

(* Pruning leaves every entry as it was, or removes it.                      *)
LEMMA FinishApplyRecord ==
  ASSUME IInv, RInv, FinishApply
  PROVE  RInv'
<1>1. pc = "apply" /\ pc' = "write" /\ pending' = {} /\ UNCHANGED <<lock, disk>>
  BY DEF FinishApply, PhaseDone, store, work
<1>2. \A p \in Plugins : mem'.entries[p] \in {None, mem.entries[p]}
  BY DEF FinishApply, SyncedLock, Pruned, IInv, TypeOK, LockFile
<1>3. \A p \in Plugins : Recorded(p)'
  BY <1>1, <1>2 DEF RInv, Recorded, Healthy
<1>4. QED BY <1>1, <1>3 DEF RInv

LEMMA FinishRecord ==
  ASSUME IInv, RInv, Finish
  PROVE  RInv'
<1>1. CASE FinishApply
  BY <1>1, FinishApplyRecord
<1>2. CASE FinishRestore \/ WriteAndStop \/ WriteFollow \/ WriteFails \/ Load \/ CleanDone
  BY <1>2, EndsRecord DEF FinishRestore, WriteAndStop, WriteFollow, WriteFails, Load, CleanDone
<1>3. CASE WriteAndFollow \/ WriteAndLoadOrClean
  <2>1. mem' = lock' /\ pc' \notin PublishPhases /\ pending' = pending
    BY <1>3 DEF WriteAndFollow, WriteAndLoadOrClean, Writes
  <2>2. QED BY <2>1, SettledRecord DEF IInv, TypeOK
<1>4. CASE Scan
  <2>1. pc = "scan" /\ pc' = "clean" /\ pending' \subseteq Plugins /\ UNCHANGED <<lock, mem>>
    BY <1>4 DEF Scan, Undeclared, store
  <2>2. \A id \in Plugins : Untouched(id)
    BY <2>1 DEF RInv
  <2>3. QED BY <2>1, <2>2 DEF RInv, Recorded, Untouched
<1>5. QED BY <1>1, <1>2, <1>3, <1>4 DEF Finish

LEMMA RemoveRecord ==
  ASSUME IInv, RInv, NEW id \in Plugins, RemoveManaged(id)
  PROVE  RInv'
<1>1. pc = "clean" /\ pc' = pc /\ pending' \subseteq pending /\ UNCHANGED <<lock, mem>>
  BY DEF RemoveManaged
<1>2. \A p \in Plugins : Untouched(p)
  BY <1>1 DEF RInv
<1>3. pending' \subseteq Plugins
  BY <1>1 DEF IInv, TypeOK
<1>4. QED BY <1>1, <1>2, <1>3 DEF RInv, Recorded, Untouched

LEMMA EnvironmentRecord ==
  ASSUME RInv, Environment
  PROVE  RInv'
<1>1. CASE \E id \in Plugins, ref \in Refs, c \in Commits : UpstreamMoves(id, ref, c)
  BY <1>1 DEF UpstreamMoves, store, work, RInv, Recorded, Untouched, Healthy
<1>2. ASSUME Intervenes PROVE RInv'
  BY <1>2, EndedRecord DEF Intervenes
<1>3. QED BY <1>1, <1>2 DEF Environment, EditConfig, Damage, Pull

LEMMA NextRecord ==
  ASSUME IInv, RInv, [Next]_vars
  PROVE  RInv'
<1>1. CASE \E cmd \in Commands, target \in Plugins \cup {All} : Start(cmd, target)
  BY <1>1, StartRecord
<1>2. CASE Process
  <2>1. ASSUME NEW id \in Plugins, PrepareSucceeds(id) \/ PrepareFails(id) PROVE RInv'
    BY <2>1, PrepareRecord DEF PrepareSucceeds, PrepareFails
  <2>2. ASSUME NEW id \in Plugins, RemoveManagedFails(id) PROVE RInv'
    BY <2>2, EndsRecord DEF RemoveManagedFails
  <2>3. QED BY <1>2, <2>1, <2>2, SelectRecord, PublishRecord, FinishRecord, ApplyRecord,
              RemoveRecord DEF Process
<1>3. CASE Crash
  BY <1>3, EndsRecord DEF Crash
<1>4. CASE Environment
  BY <1>4, EnvironmentRecord
<1>5. CASE UNCHANGED vars
  BY <1>5 DEF vars, store, work, RInv, Recorded, Untouched, Healthy
<1>6. QED BY <1>1, <1>2, <1>3, <1>4, <1>5 DEF Next

(* Memory and lockfile stay within the records that a publish justifies.     *)
THEOREM RecordInvariant == Spec => [](IInv /\ RInv)
<1>1. Init => RInv
  BY DEF Init, RInv
<1>2. IInv /\ RInv /\ [Next]_vars => (IInv /\ RInv)'
  BY NextType, NextRecord
<1>3. QED BY <1>1, <1>2, InitIInv, PTL DEF Spec

(* A lock entry that a write of tmup.lock changes is gone, or names the      *)
(* revision whose checkout is published at that moment (sync.rs:232-257,     *)
(* plugin.rs:227-237 and 436-446).                                           *)
THEOREM LockRecordsPublished == Spec => WritesArePublished
<1> DEFINE W == pc = "write" => \A id \in Plugins :
                  lock'.entries[id] \in {None, lock.entries[id]}
                    \/ /\ Healthy(disk[id])
                       /\ disk[id].head = HeadOf[lock'.entries[id].commit]
<1>1. ASSUME IInv, RInv, [Next]_vars, pc = "write" PROVE lock' \in {lock, mem}
  <2>1. CASE Start("sync", All) \/ \E cmd, target : Start(cmd, target)
    BY <1>1, <2>1 DEF Start
  <2>2. CASE Select
    BY <1>1, <2>2 DEF Select, SelectSync, SelectInstall, SelectUpdate, SelectRestore,
       SelectRestoreFails
  <2>3. CASE Publish
    BY <1>1, <2>3 DEF Publish, BuildSucceeds, BuildFails, RemoveTarget, Rename, SwapFails,
       Track, TrackFails
  <2>4. CASE Finish
    BY <1>1, <2>4 DEF Finish, FinishApply, FinishRestore, PhaseDone, WriteAndStop,
       WriteAndFollow, WriteAndLoadOrClean, WriteFollow, WriteFails, Writes, Load, Scan,
       CleanDone, store
  <2>5. ASSUME NEW id \in Plugins, PrepareSucceeds(id) \/ PrepareFails(id) \/ Apply(id)
                \/ RemoveManaged(id) \/ RemoveManagedFails(id)
        PROVE  lock' = lock
    BY <1>1, <2>5 DEF PrepareSucceeds, PrepareFails, Prepares, Apply, SkipUnprepared, Adopt,
       AdoptFails, AbortUpdate, SkipKnownFailure, BeginPublish, Applies, RemoveManaged,
       RemoveManagedFails
  <2>6. CASE Crash
    BY <2>6 DEF Crash
  <2>7. CASE Environment
    BY <1>1, <2>7 DEF Environment, EditConfig, Damage, Pull, Intervenes, UpstreamMoves, store
  <2>8. CASE UNCHANGED vars
    BY <2>8 DEF vars, store
  <2>9. QED BY <1>1, <2>1, <2>2, <2>3, <2>4, <2>5, <2>6, <2>7, <2>8 DEF Next, Process
<1>2. IInv /\ RInv /\ [Next]_vars => W
  BY <1>1 DEF RInv, Recorded
<1>3. QED BY <1>2, RecordInvariant, PTL DEF Spec, WritesArePublished

-----------------------------------------------------------------------------
(* Revisions.  Only update advances one, for every instance.                *)
(* An entry that still names what the lockfile named when the phase began.   *)
Keeps(id, entry) ==
  /\ entry # None
  /\ entry.sel = before.lock.entries[id].sel
  /\ entry.commit = before.lock.entries[id].commit

KeepsAll(id) ==
  /\ Keeps(id, mem.entries[id]) /\ Keeps(id, lock.entries[id])
  /\ prepared[id] # None => Keeps(id, prepared[id])

(* Results are kept only for plugins that are queued or being published.     *)
Results ==
  \A id \in Plugins : prepared[id] # None =>
    \/ pc \in {"prepare", "apply"} \cup PublishPhases /\ id \in pending
    \/ pc \in PublishPhases /\ id = cur

UpdatesFloating ==
  /\ op.phase = "follow" => op.cmd \in {"install", "update", "restore"}
  /\ (pc = "prepare" /\ op.phase = "follow" /\ op.cmd = "update") =>
       \A id \in waiting : config[id].sel \in Branches

(* Inductive: what is kept in memory, in the file and in the results alike.  *)
VInv ==
  /\ Results /\ UpdatesFloating
  /\ pc # "idle" => result # "none"
  /\ result # "none" => \A id \in Plugins : Pinned(id) => KeepsAll(id)

(* A step of one phase: the selectors of the configuration and the reference *)
(* state stay, and entries come from entries or from results.                *)
LEMMA StepKeeps ==
  ASSUME VInv, result # "none", UNCHANGED <<op, config>>, before'.lock = before.lock,
         Results', UpdatesFloating', pc' # "idle" => result' # "none",
         \A id \in Plugins : Pinned(id) =>
           /\ mem'.entries[id] \in {mem.entries[id], lock.entries[id]}
                \/ (prepared[id] # None /\ mem'.entries[id] = prepared[id])
           /\ lock'.entries[id] \in {mem.entries[id], lock.entries[id]}
           /\ prepared'[id] \in {None, prepared[id]} \/ Keeps(id, prepared'[id])
  PROVE  VInv'
<1>1. ASSUME NEW id \in Plugins, Pinned(id)' PROVE KeepsAll(id)'
  <2>1. Pinned(id)
    BY <1>1 DEF Pinned
  <2>2. KeepsAll(id)
    BY <2>1 DEF VInv
  <2>3. QED BY <2>1, <2>2 DEF KeepsAll, Keeps
<1>2. QED BY <1>1 DEF VInv

LEMMA EndKeeps ==
  ASSUME VInv, pc # "idle", NEW res, res # "none", EndsWith(res), UNCHANGED <<op, config>>,
         before' = before, lock' \in {lock, mem}
  PROVE  VInv'
<1>1. pc' = "idle" /\ result' = res /\ mem' = lock' /\ \A id \in Plugins : prepared'[id] = None
  BY DEF EndsWith
<1>2. Results' /\ UpdatesFloating'
  BY <1>1 DEF VInv, Results, UpdatesFloating
<1>3. QED BY <1>1, <1>2, StepKeeps DEF VInv

(* A phase begins: memory, file and reference state agree.                   *)
LEMMA BeginKeeps ==
  ASSUME op'.phase = "follow" => op'.cmd \in {"install", "update", "restore"},
         before'.lock = mem', lock' = mem', pc' # "prepare", result' # "none",
         \A id \in Plugins : prepared'[id] = None
  PROVE  VInv'
  BY DEF VInv, Results, UpdatesFloating, Pinned, KeepsAll, Keeps

LEMMA StartKeeps ==
  ASSUME VInv, NEW cmd, NEW target, Start(cmd, target)
  PROVE  VInv'
<1>1. /\ pc = "idle" /\ pc' = "select" /\ mem' = lock /\ result' = "running"
      /\ op'.phase = "sync" /\ before' = Snapshot /\ lock' = lock /\ prepared' = prepared
  BY DEF Start, store
<1>2. before'.lock = lock
  BY <1>1 DEF Snapshot
<1>3. \A id \in Plugins : prepared'[id] = None
  BY <1>1 DEF VInv, Results
<1>4. QED BY <1>1, <1>2, <1>3, BeginKeeps

LEMMA SelectKeeps ==
  ASSUME IInv, VInv, Select
  PROVE  VInv'
<1>1. ASSUME NEW S, pc = "select", Selects(S),
             (op.phase = "follow" /\ op.cmd = "update") =>
               \A id \in S : config[id].sel \in Branches
      PROVE  VInv'
  <2>1. /\ waiting' = S /\ pc' \in {"prepare", "apply"}
        /\ UNCHANGED <<config, op, lock, mem, prepared, before, result>>
    BY <1>1 DEF Selects, env, hist
  <2>2. Results' /\ UpdatesFloating'
    BY <1>1, <2>1 DEF VInv, Results, UpdatesFloating
  <2>3. QED BY <1>1, <2>1, <2>2, StepKeeps DEF VInv
<1>2. CASE SelectSync
  BY <1>1, <1>2 DEF SelectSync, IInv, TypeOK
<1>3. CASE SelectInstall
  BY <1>1, <1>3 DEF SelectInstall
<1>4. CASE SelectUpdate
  BY <1>1, <1>4 DEF SelectUpdate
<1>5. CASE SelectRestore
  BY <1>1, <1>5 DEF SelectRestore
<1>6. CASE SelectRestoreFails
  BY <1>6, EndKeeps DEF SelectRestoreFails, env
<1>7. QED BY <1>2, <1>3, <1>4, <1>5, <1>6 DEF Select

(* What is prepared for a pinned plugin is the revision in its entry: in a   *)
(* sync phase because the selector is the same, in install and restore       *)
(* always, and update prepares no pinned plugin.                             *)
LEMMA PreparedKeeps ==
  ASSUME IInv, VInv, pc = "prepare", NEW id \in waiting, Pinned(id), PreparedEntry(id) # None
  PROVE  Keeps(id, PreparedEntry(id))
<1>1. id \in Plugins /\ id \in Declared /\ Keeps(id, mem.entries[id])
  BY DEF IInv, TypeOK, Queued, VInv, KeepsAll
<1>2. mem.entries[id] \in Entry /\ config[id] \in Specs
  BY <1>1 DEF IInv, TypeOK, LockFile, Entries, Keeps, Declared, Config
<1>3. CASE KeepsRevision(id)
  <2>1. PreparedEntry(id) = [mem.entries[id] EXCEPT !.hash = config[id]]
    BY <1>3 DEF PreparedEntry
  <2>2. PreparedEntry(id) \in Entry /\ PreparedEntry(id).sel = mem.entries[id].sel
        /\ PreparedEntry(id).commit = mem.entries[id].commit
    BY <1>2, <2>1 DEF Entry
  <2>3. QED BY <1>1, <2>2 DEF Keeps
<1>4. CASE ~KeepsRevision(id)
  <2>1. op.phase = "sync" => FALSE
    BY <1>1, <1>4 DEF KeepsRevision, Keeps, Pinned
  <2>2. op.phase = "follow" /\ op.cmd = "update" => FALSE
    BY DEF VInv, UpdatesFloating, Pinned
  <2>3. op.phase = "follow" /\ op.cmd \notin {"install", "restore", "update"} => FALSE
    BY DEF VInv, UpdatesFloating
  <2>4. QED BY <1>1, <1>4, <2>1, <2>2, <2>3 DEF KeepsRevision, Keeps, IInv, TypeOK
<1>5. QED BY <1>3, <1>4

LEMMA PrepareKeeps ==
  ASSUME IInv, VInv, NEW id \in Plugins, PrepareSucceeds(id) \/ PrepareFails(id)
  PROVE  VInv'
<1>1. /\ pc = "prepare" /\ id \in waiting /\ waiting' \subseteq waiting
      /\ pc' \in {"prepare", "apply"}
      /\ UNCHANGED <<config, op, lock, mem, pending, before, result>>
  BY DEF PrepareSucceeds, PrepareFails, Prepares, env, store, hist
<1>2. prepared' \in {prepared, [prepared EXCEPT ![id] = PreparedEntry(id)]}
  BY DEF PrepareSucceeds, PrepareFails
<1>3. prepared \in [Plugins -> Entry \cup {None}] /\ id \in pending
  BY <1>1 DEF IInv, TypeOK, Entries
<1>4. Results'
  BY <1>1, <1>2, <1>3 DEF VInv, Results
<1>5. UpdatesFloating'
  BY <1>1 DEF VInv, UpdatesFloating
<1>6. ASSUME NEW p \in Plugins, Pinned(p)
      PROVE  prepared'[p] \in {None, prepared[p]} \/ Keeps(p, prepared'[p])
  <2>1. CASE p = id
    BY <1>1, <1>2, <1>3, <1>6, <2>1, PreparedKeeps
  <2>2. CASE p # id
    BY <1>2, <1>3, <2>2
  <2>3. QED BY <2>1, <2>2
<1>7. QED BY <1>1, <1>4, <1>5, <1>6, StepKeeps DEF VInv

(* The records in memory change for one plugin only, to its result.          *)
LEMMA InsertedKeeps ==
  ASSUME IInv, NEW id \in Plugins, NEW p \in Plugins, prepared[id] # None
  PROVE  Inserted(id).entries[p] = mem.entries[p]
           \/ (prepared[p] # None /\ Inserted(id).entries[p] = prepared[p])
<1>1. Inserted(id).entries = [mem.entries EXCEPT ![id] = prepared[id]]
  BY DEF Inserted, IInv, TypeOK, LockFile
<1>2. QED BY <1>1 DEF IInv, TypeOK, LockFile, Entries

LEMMA ApplyKeeps ==
  ASSUME IInv, VInv, NEW id \in Plugins, Apply(id)
  PROVE  VInv'
<1>1. CASE AbortUpdate(id)
  BY <1>1, EndKeeps DEF AbortUpdate, env
<1>2. CASE ~AbortUpdate(id)
  <2>1. /\ pc = "apply" /\ pc' \in {"apply"} \cup PublishPhases
        /\ pending' = pending \ {id} /\ UNCHANGED <<config, op, lock, before, result>>
        /\ pc' \in PublishPhases => cur' = id
    BY <1>2 DEF Apply, SkipUnprepared, Adopt, AdoptFails, SkipKnownFailure, BeginPublish,
       Applies, Swap, env, hist
  <2>2. \/ prepared' = [prepared EXCEPT ![id] = None]
        \/ prepared' = prepared /\ (prepared[id] = None \/ pc' \in PublishPhases)
    BY <1>2 DEF Apply, SkipUnprepared, Adopt, AdoptFails, SkipKnownFailure, BeginPublish, Swap
  <2>3. mem' = mem \/ (prepared[id] # None /\ mem' = Inserted(id))
    BY <1>2 DEF Apply, SkipUnprepared, Adopt, AdoptFails, SkipKnownFailure, BeginPublish
  <2>4. prepared \in [Plugins -> Entry \cup {None}]
    BY DEF IInv, TypeOK, Entries
  <2>5. Results'
    BY <2>1, <2>2, <2>4 DEF VInv, Results
  <2>6. UpdatesFloating'
    BY <2>1 DEF VInv, UpdatesFloating
  <2>7. \A p \in Plugins : /\ prepared'[p] \in {None, prepared[p]}
                           /\ mem'.entries[p] = mem.entries[p]
                                \/ (prepared[p] # None /\ mem'.entries[p] = prepared[p])
    BY <2>2, <2>3, <2>4, InsertedKeeps
  <2>8. QED BY <2>1, <2>5, <2>6, <2>7, StepKeeps DEF VInv
<1>3. QED BY <1>1, <1>2

LEMMA PublishKeeps ==
  ASSUME IInv, VInv, Publish
  PROVE  VInv'
<1>1. pc \in PublishPhases /\ cur \in Plugins /\ prepared[cur] # None
  BY DEF Publish, BuildSucceeds, BuildFails, RemoveTarget, Rename, SwapFails, Track,
     TrackFails, IInv, Publishing, Declared
<1>2. /\ pc' \in {"apply"} \cup PublishPhases
      /\ UNCHANGED <<config, op, lock, pending, before, result>>
  BY DEF Publish, BuildSucceeds, BuildFails, RemoveTarget, Rename, SwapFails, PublishFails,
     Track, TrackFails, NextPlugin, Swap, env, store, work, hist
<1>3. \/ prepared' = [prepared EXCEPT ![cur] = None]
      \/ prepared' = prepared /\ cur' = cur /\ pc' \in PublishPhases
  BY DEF Publish, BuildSucceeds, BuildFails, RemoveTarget, Rename, SwapFails, PublishFails,
     Track, TrackFails, NextPlugin, Swap, work
<1>4. mem' = mem \/ mem' = Inserted(cur)
  BY DEF Publish, BuildSucceeds, BuildFails, RemoveTarget, Rename, SwapFails, PublishFails,
     Track, TrackFails
<1>5. prepared \in [Plugins -> Entry \cup {None}]
  BY DEF IInv, TypeOK, Entries
<1>6. Results'
  BY <1>1, <1>2, <1>3, <1>5 DEF VInv, Results
<1>7. UpdatesFloating'
  BY <1>2 DEF VInv, UpdatesFloating
<1>8. \A p \in Plugins : /\ prepared'[p] \in {None, prepared[p]}
                         /\ mem'.entries[p] = mem.entries[p]
                              \/ (prepared[p] # None /\ mem'.entries[p] = prepared[p])
  BY <1>1, <1>3, <1>4, <1>5, InsertedKeeps
<1>9. QED BY <1>1, <1>2, <1>6, <1>7, <1>8, StepKeeps DEF VInv

(* Pruning spares every plugin that is declared.                             *)
LEMMA FinishKeeps ==
  ASSUME IInv, VInv, Finish
  PROVE  VInv'
<1>1. CASE FinishApply
  <2>1. /\ pc = "apply" /\ pc' = "write" /\ pending = {} /\ pending' = pending
        /\ UNCHANGED <<config, op, lock, prepared, before, result>>
    BY <1>1 DEF FinishApply, PhaseDone, env, store, work, hist
  <2>2. Results' /\ UpdatesFloating'
    BY <2>1 DEF VInv, Results, UpdatesFloating
  <2>3. \A p \in Plugins : Pinned(p) => mem'.entries[p] = mem.entries[p]
    BY <1>1 DEF FinishApply, SyncedLock, Pruned, Pinned, IInv, TypeOK, LockFile
  <2>4. QED BY <2>1, <2>2, <2>3, StepKeeps DEF VInv
<1>2. CASE FinishRestore \/ WriteFails \/ CleanDone \/ Load
  BY <1>2, EndKeeps DEF FinishRestore, PhaseDone, WriteFails, CleanDone, Load, store, env,
     Verdict
<1>3. CASE WriteAndStop \/ WriteFollow
  BY <1>3, EndKeeps DEF WriteAndStop, WriteFollow, Writes, env, Verdict
<1>4. CASE WriteAndFollow
  <2>1. /\ pc = "write" /\ pc' = "select" /\ lock' = mem /\ UNCHANGED <<mem, prepared, result>>
        /\ op.cmd \in {"install", "update", "restore"} /\ op'.cmd = op.cmd
    BY <1>4 DEF WriteAndFollow, Writes, IInv, TypeOK
  <2>2. before'.lock = mem
    BY <1>4 DEF WriteAndFollow, Snapshot
  <2>3. \A p \in Plugins : prepared'[p] = None
    BY <2>1 DEF VInv, Results
  <2>4. QED BY <2>1, <2>2, <2>3, BeginKeeps DEF VInv
<1>5. CASE WriteAndLoadOrClean \/ Scan
  <2>1. /\ pc \in {"write", "scan"} /\ pc' \in {"scan", "load", "clean"}
        /\ lock' \in {lock, mem} /\ UNCHANGED <<config, op, mem, prepared, before, result>>
    BY <1>5 DEF WriteAndLoadOrClean, Writes, Scan, env, store, hist
  <2>2. Results' /\ UpdatesFloating'
    BY <2>1 DEF VInv, Results, UpdatesFloating
  <2>3. QED BY <2>1, <2>2, StepKeeps DEF VInv
<1>6. QED BY <1>1, <1>2, <1>3, <1>4, <1>5 DEF Finish

LEMMA RemoveKeeps ==
  ASSUME IInv, VInv, NEW id \in Plugins, RemoveManaged(id) \/ RemoveManagedFails(id)
  PROVE  VInv'
<1>1. CASE RemoveManagedFails(id)
  BY <1>1, EndKeeps DEF RemoveManagedFails, env
<1>2. CASE RemoveManaged(id)
  <2>1. /\ pc = "clean" /\ pc' = pc
        /\ UNCHANGED <<config, op, lock, mem, prepared, before, result>>
    BY <1>2 DEF RemoveManaged, env, hist
  <2>2. Results' /\ UpdatesFloating'
    BY <2>1 DEF VInv, Results, UpdatesFloating
  <2>3. QED BY <2>1, <2>2, StepKeeps DEF VInv
<1>3. QED BY <1>1, <1>2

LEMMA EnvironmentKeeps ==
  ASSUME IInv, VInv, Environment
  PROVE  VInv'
<1>1. ASSUME NEW id \in Plugins, NEW ref \in Refs, NEW c \in Commits, UpstreamMoves(id, ref, c)
      PROVE  VInv'
  <2>1. UNCHANGED <<config, lock, mem, op, pc, waiting, pending, prepared, cur, result>>
    BY <1>1 DEF UpstreamMoves, store, work
  <2>2. before'.lock = before.lock
    BY <1>1 DEF UpstreamMoves, IInv, TypeOK
  <2>3. QED BY <2>1, <2>2 DEF VInv, Results, UpdatesFloating, Pinned, KeepsAll, Keeps
<1>2. ASSUME Intervenes PROVE VInv'
  BY <1>2 DEF Intervenes, Edit, work, VInv, Results, UpdatesFloating
<1>3. QED BY <1>1, <1>2 DEF Environment, EditConfig, Damage, Pull

LEMMA NextKeeps ==
  ASSUME IInv, VInv, [Next]_vars
  PROVE  VInv'
<1>1. CASE \E cmd \in Commands, target \in Plugins \cup {All} : Start(cmd, target)
  BY <1>1, StartKeeps
<1>2. CASE Process
  BY <1>2, SelectKeeps, PublishKeeps, FinishKeeps, PrepareKeeps, ApplyKeeps, RemoveKeeps
     DEF Process
<1>3. CASE Crash
  BY <1>3, EndKeeps DEF Crash, env
<1>4. CASE Environment
  BY <1>4, EnvironmentKeeps
<1>5. CASE UNCHANGED vars
  BY <1>5 DEF vars, env, store, work, hist, VInv, Results, UpdatesFloating, Pinned, KeepsAll,
     Keeps
<1>6. QED BY <1>1, <1>2, <1>3, <1>4, <1>5 DEF Next

(* In every phase but the follow-up of update, and in that one for tags and  *)
(* commits, a plugin whose selector is the one its entry was resolved with   *)
(* keeps its locked revision in memory and in tmup.lock, whatever fails and  *)
(* wherever a command stops (sync.rs 361-419, plugin.rs 239-289).            *)
THEOREM RevisionsKept == Spec => []OnlyUpdateAdvances
<1>1. Init => VInv
  BY DEF Init, VInv, Results, UpdatesFloating
<1>2. IInv /\ VInv /\ [Next]_vars => (IInv /\ VInv)'
  BY NextType, NextKeeps
<1>3. VInv => OnlyUpdateAdvances
  BY DEF VInv, KeepsAll, Keeps, OnlyUpdateAdvances
<1>4. QED BY <1>1, <1>2, <1>3, InitIInv, PTL DEF Spec

-----------------------------------------------------------------------------
(* Isolation.  A targeted command leaves every other plugin alone.           *)
Same(id) ==
  /\ disk[id] = before.disk[id] /\ markers[id] = before.markers[id]
  /\ mem.entries[id] = before.lock.entries[id]
  /\ lock.entries[id] = before.lock.entries[id]

(* What is queued and what is being published is the target, and the phases  *)
(* that look at every plugin belong to commands without a target.            *)
Aimed ==
  /\ pc \in {"prepare", "apply"} \cup PublishPhases => pending \subseteq {op.target}
  /\ pc \in PublishPhases => cur = op.target
  /\ op.cmd \notin InitCommands \cup {"clean"}
  /\ pc \notin {"load", "scan", "clean"}

AInv ==
  /\ pc # "idle" => result = "running"
  /\ (result # "none" /\ op.target # All) =>
       /\ \A id \in Plugins \ {op.target} : Same(id)
       /\ pc # "idle" => Aimed

(* What a step of a running command may change: the target's part of the     *)
(* stores, under the same target and the same reference state.               *)
LEMMA StepIsolated ==
  ASSUME AInv, pc # "idle", op' = op \/ op'.target = op.target,
         before'.disk = before.disk, before'.markers = before.markers,
         before'.lock = before.lock,
         pc' # "idle" => result' = "running",
         op.target # All => /\ pc' # "idle" => Aimed'
                            /\ \A id \in Plugins \ {op.target} :
                                 /\ disk'[id] = disk[id] /\ markers'[id] = markers[id]
                                 /\ mem'.entries[id] \in {mem.entries[id], lock.entries[id]}
                                 /\ lock'.entries[id] \in {mem.entries[id], lock.entries[id]}
  PROVE  AInv'
  BY DEF AInv, Same

LEMMA EndIsolated ==
  ASSUME AInv, pc # "idle", NEW res, EndsWith(res), op' = op, before' = before,
         op.target # All =>
           /\ \A id \in Plugins \ {op.target} :
                /\ disk'[id] = disk[id] /\ markers'[id] = markers[id]
           /\ lock' \in {lock, mem}
  PROVE  AInv'
<1>1. pc' = "idle" /\ mem' = lock'
  BY DEF EndsWith
<1>2. QED BY <1>1, StepIsolated

LEMMA StartIsolated ==
  ASSUME IInv, NEW cmd, NEW target, Start(cmd, target)
  PROVE  AInv'
<1>1. /\ op' = [cmd |-> cmd, target |-> target, phase |-> "sync"]
      /\ pc' = "select" /\ mem' = lock /\ result' = "running" /\ before' = Snapshot
      /\ UNCHANGED <<lock, disk, markers>>
      /\ cmd \in InitCommands \cup {"clean"} => target = All
  BY DEF Start, store
<1>2. before'.lock = lock /\ before'.disk = disk /\ before'.markers = markers
  BY <1>1 DEF Snapshot
<1>3. QED BY <1>1, <1>2 DEF AInv, Same, Aimed

LEMMA SelectIsolated ==
  ASSUME IInv, AInv, Select
  PROVE  AInv'
<1>1. ASSUME NEW S \in SUBSET Scope, pc = "select", Selects(S),
             \A id \in Plugins \ Scope : disk'[id] = disk[id] /\ markers'[id] = markers[id]
      PROVE  AInv'
  <2>1. /\ pending' = S /\ pc' \in {"prepare", "apply"}
        /\ UNCHANGED <<lock, mem, op, before, result>>
    BY <1>1 DEF Selects, hist
  <2>2. op.target # All => Scope \subseteq {op.target}
    BY DEF Scope
  <2>3. result = "running"
    BY <1>1 DEF AInv
  <2>4. op.target # All => Aimed'
    BY <1>1, <2>1, <2>2, <2>3 DEF AInv, Aimed
  <2>5. QED BY <1>1, <2>1, <2>2, <2>3, <2>4, StepIsolated
<1>2. CASE SelectSync
  BY <1>1, <1>2 DEF SelectSync
<1>3. CASE SelectInstall
  BY <1>1, <1>3 DEF SelectInstall, InstallCandidates
<1>4. CASE SelectUpdate
  BY <1>1, <1>4 DEF SelectUpdate
<1>5. CASE SelectRestore
  BY <1>1, <1>5 DEF SelectRestore, LockedInScope, AlreadyRestored
<1>6. CASE SelectRestoreFails
  <2>1. PICK bad \in AlreadyRestored, rest \in SUBSET Attempt :
          markers' = [id \in Plugins |-> CASE id = bad -> rest
                                           [] id \in AlreadyRestored /\ id < bad -> {}
                                           [] OTHER -> markers[id]]
    BY <1>6 DEF SelectRestoreFails
  <2>2. ASSUME NEW id \in Plugins \ AlreadyRestored PROVE markers'[id] = markers[id]
    BY <2>1, <2>2, Zenon
  <2>3. op.target # All => AlreadyRestored \subseteq {op.target}
    BY DEF AlreadyRestored, LockedInScope, Scope
  <2>4. pc = "select" /\ EndsWith("error") /\ UNCHANGED <<lock, disk, op, before>>
    BY <1>6 DEF SelectRestoreFails
  <2>5. QED BY <2>2, <2>3, <2>4, EndIsolated
<1>7. QED BY <1>2, <1>3, <1>4, <1>5, <1>6 DEF Select

LEMMA PrepareIsolated ==
  ASSUME AInv, NEW id \in Plugins, Prepares(id)
  PROVE  AInv'
<1>1. /\ pc = "prepare" /\ pc' \in {"prepare", "apply"}
      /\ UNCHANGED <<lock, disk, markers, mem, op, pending, before, result>>
  BY DEF Prepares, store, hist
<1>2. QED BY <1>1, StepIsolated DEF AInv, Aimed

(* The plugin whose turn it is is the target.                                *)
LEMMA ApplyIsolated ==
  ASSUME IInv, AInv, NEW id \in Plugins, Apply(id)
  PROVE  AInv'
<1>1. pc = "apply" /\ id \in pending /\ (op.target # All => id = op.target)
  BY DEF Apply, SkipUnprepared, Adopt, AdoptFails, AbortUpdate, SkipKnownFailure,
     BeginPublish, Applies, First, AInv, Aimed
<1>2. \A p \in Plugins : p # id => /\ disk'[p] = disk[p] /\ markers'[p] = markers[p]
                                   /\ mem'.entries[p] \in {mem.entries[p], lock.entries[p]}
  <2>1. \A p \in Plugins : p # id => disk'[p] = disk[p]
    BY DEF Apply, SkipUnprepared, Adopt, AdoptFails, AbortUpdate, SkipKnownFailure,
       BeginPublish, DropBroken, IInv, TypeOK, Disk
  <2>2. \A p \in Plugins : p # id => markers'[p] = markers[p]
    BY DEF Apply, SkipUnprepared, Adopt, AdoptFails, AbortUpdate, SkipKnownFailure,
       BeginPublish, ClearMarkers, PartlyCleared, IInv, TypeOK, Markers
  <2>3. \A p \in Plugins : p # id => mem'.entries[p] \in {mem.entries[p], lock.entries[p]}
    BY InsertedElsewhere DEF Apply, SkipUnprepared, Adopt, AdoptFails, AbortUpdate,
       SkipKnownFailure, BeginPublish, EndsWith
  <2>4. QED BY <2>1, <2>2, <2>3
<1>3. CASE AbortUpdate(id)
  BY <1>1, <1>2, <1>3, EndIsolated DEF AbortUpdate
<1>4. CASE ~AbortUpdate(id)
  <2>1. /\ Applies(id) /\ pc' \in {"apply"} \cup PublishPhases
        /\ pc' \in PublishPhases => cur' = id
    BY <1>1, <1>4 DEF Apply, SkipUnprepared, Adopt, AdoptFails, SkipKnownFailure,
       BeginPublish, Swap
  <2>2. pending' \subseteq pending /\ UNCHANGED <<lock, op, before, result>>
    BY <2>1 DEF Applies, hist
  <2>3. result = "running"
    BY <1>1 DEF AInv
  <2>4. op.target # All => Aimed'
    BY <1>1, <2>1, <2>2, <2>3 DEF AInv, Aimed
  <2>5. QED BY <1>1, <1>2, <2>2, <2>3, <2>4, StepIsolated
<1>5. QED BY <1>3, <1>4

LEMMA PublishIsolated ==
  ASSUME IInv, AInv, Publish
  PROVE  AInv'
<1>1. pc \in PublishPhases /\ cur \in Plugins /\ (op.target # All => cur = op.target)
  BY DEF Publish, BuildSucceeds, BuildFails, RemoveTarget, Rename, SwapFails, Track,
     TrackFails, IInv, Publishing, Declared, AInv, Aimed
<1>2. \A p \in Plugins : p # cur => disk'[p] = disk[p]
  BY DEF Publish, BuildSucceeds, BuildFails, RemoveTarget, Rename, SwapFails, Track,
     TrackFails, store, IInv, TypeOK, Disk
<1>3. \A p \in Plugins : p # cur => markers'[p] = markers[p]
  BY DEF Publish, BuildSucceeds, BuildFails, RemoveTarget, Rename, SwapFails, Track,
     TrackFails, WriteMarker, TearMarker, ClearMarkers, PartlyCleared, store, IInv, TypeOK,
     Markers
<1>4. \A p \in Plugins : p # cur => mem'.entries[p] = mem.entries[p]
  BY <1>1, InsertedElsewhere DEF Publish, BuildSucceeds, BuildFails, RemoveTarget, Rename,
     SwapFails, PublishFails, Track, TrackFails
<1>5. /\ pc' \in {"apply"} \cup PublishPhases /\ (pc' # "apply" => cur' = cur)
      /\ UNCHANGED <<lock, op, pending, before, result>>
  BY DEF Publish, BuildSucceeds, BuildFails, RemoveTarget, Rename, SwapFails, PublishFails,
     Track, TrackFails, NextPlugin, Swap, store, work, hist
<1>6. result = "running"
  BY <1>1 DEF AInv
<1>7. op.target # All => Aimed'
  BY <1>1, <1>5, <1>6 DEF AInv, Aimed
<1>8. QED BY <1>1, <1>2, <1>3, <1>4, <1>5, <1>6, <1>7, StepIsolated

(* Only an untargeted command prunes, loads or cleans.                       *)
LEMMA FinishIsolated ==
  ASSUME IInv, AInv, Finish
  PROVE  AInv'
<1>1. CASE FinishApply
  <2>1. /\ pc = "apply" /\ pc' = "write" /\ pending' = pending
        /\ UNCHANGED <<lock, disk, markers, op, before, result>>
    BY <1>1 DEF FinishApply, PhaseDone, store, work, hist
  <2>2. op.target # All => mem'.entries = mem.entries
    BY <1>1 DEF FinishApply, SyncedLock, IInv, TypeOK, LockFile
  <2>3. QED BY <2>1, <2>2, StepIsolated DEF AInv, Aimed
<1>2. CASE FinishRestore \/ WriteFails \/ CleanDone \/ Load
  BY <1>2, EndIsolated DEF FinishRestore, PhaseDone, WriteFails, CleanDone, Load, store
<1>3. CASE WriteAndStop \/ WriteFollow
  BY <1>3, EndIsolated DEF WriteAndStop, WriteFollow, Writes
<1>4. CASE WriteAndFollow
  <2>1. /\ pc = "write" /\ pc' = "select" /\ lock' = mem /\ result' = result
        /\ op'.target = op.target /\ op'.cmd = op.cmd
        /\ UNCHANGED <<disk, markers, mem>> /\ op.cmd \notin InitCommands \cup {"clean"}
    BY <1>4 DEF WriteAndFollow, Writes, IInv, TypeOK, InitCommands
  <2>2. before'.lock = mem /\ before'.disk = disk /\ before'.markers = markers
    BY <1>4 DEF WriteAndFollow, Snapshot
  <2>3. QED BY <2>1, <2>2 DEF AInv, Same, Aimed
<1>5. CASE WriteAndLoadOrClean
  <2>1. op.cmd \in InitCommands \cup {"clean"} /\ pc = "write" /\ pc' # "idle"
        /\ UNCHANGED <<op, result>>
    BY <1>5 DEF WriteAndLoadOrClean, Writes, hist
  <2>2. op.target = All
    BY <2>1 DEF AInv, Aimed
  <2>3. QED BY <2>1, <2>2 DEF AInv
<1>6. CASE Scan
  <2>1. pc = "scan" /\ pc' # "idle" /\ UNCHANGED <<op, result>>
    BY <1>6 DEF Scan, hist
  <2>2. QED BY <2>1 DEF AInv, Aimed
<1>7. QED BY <1>1, <1>2, <1>3, <1>4, <1>5, <1>6 DEF Finish

LEMMA RemoveIsolated ==
  ASSUME AInv, NEW id \in Plugins, RemoveManaged(id) \/ RemoveManagedFails(id)
  PROVE  AInv'
<1>1. pc = "clean" /\ op' = op /\ pc' \in {"clean", "idle"}
      /\ (pc' = "clean" => result' = result)
  BY DEF RemoveManaged, RemoveManagedFails, EndsWith, hist
<1>2. op.target = All /\ result = "running"
  BY <1>1 DEF AInv, Aimed
<1>3. QED BY <1>1, <1>2 DEF AInv

(* A crash inside a removal damages only what was being removed.             *)
LEMMA CrashIsolated ==
  ASSUME IInv, AInv, Crash
  PROVE  AInv'
<1>1. op.target # All => BeingRemoved \subseteq {op.target}
  BY DEF Crash, BeingRemoved, AInv, Aimed
<1>2. \A p \in Plugins \ BeingRemoved : disk'[p] = disk[p]
  BY DEF Crash, IInv, TypeOK, Disk
<1>3. pc # "idle" /\ EndsWith("crashed") /\ UNCHANGED <<lock, markers, op, before>>
  BY DEF Crash
<1>4. QED BY <1>1, <1>2, <1>3, EndIsolated

LEMMA EnvironmentIsolated ==
  ASSUME IInv, AInv, Environment
  PROVE  AInv'
<1>1. ASSUME NEW id \in Plugins, NEW ref \in Refs, NEW c \in Commits, UpstreamMoves(id, ref, c)
      PROVE  AInv'
  <2>1. UNCHANGED <<lock, disk, markers, mem, op, pc, pending, cur, result>>
    BY <1>1 DEF UpstreamMoves, store, work
  <2>2. /\ before'.disk = before.disk /\ before'.markers = before.markers
        /\ before'.lock = before.lock
    BY <1>1 DEF UpstreamMoves, IInv, TypeOK
  <2>3. QED BY <2>1, <2>2 DEF AInv, Same, Aimed
<1>2. ASSUME Intervenes PROVE AInv'
  BY <1>2 DEF Intervenes, AInv
<1>3. QED BY <1>1, <1>2 DEF Environment, EditConfig, Damage, Pull

LEMMA NextIsolated ==
  ASSUME IInv, AInv, [Next]_vars
  PROVE  AInv'
<1>1. CASE \E cmd \in Commands, target \in Plugins \cup {All} : Start(cmd, target)
  BY <1>1, StartIsolated
<1>2. CASE Process
  <2>1. ASSUME NEW id \in Plugins, PrepareSucceeds(id) \/ PrepareFails(id) PROVE AInv'
    BY <2>1, PrepareIsolated DEF PrepareSucceeds, PrepareFails
  <2>2. QED BY <1>2, <2>1, SelectIsolated, PublishIsolated, FinishIsolated, ApplyIsolated,
              RemoveIsolated DEF Process
<1>3. CASE Crash \/ Environment
  BY <1>3, CrashIsolated, EnvironmentIsolated
<1>4. CASE UNCHANGED vars
  BY <1>4 DEF vars, store, work, hist, AInv, Same, Aimed
<1>5. QED BY <1>1, <1>2, <1>3, <1>4 DEF Next

(* A targeted command leaves the checkout, the lock entry and the failure    *)
(* markers of every other plugin alone, whatever fails and wherever it       *)
(* crashes (the target filters of sync.rs and plugin.rs, sync.rs:232-235).   *)
THEOREM TargetIsolated == Spec => []TargetedIsolation
<1>1. Init => AInv
  BY DEF Init, AInv
<1>2. IInv /\ AInv /\ [Next]_vars => (IInv /\ AInv)'
  BY NextType, NextIsolated
<1>3. AInv => TargetedIsolation
  BY DEF AInv, Same, TargetedIsolation
<1>4. QED BY <1>1, <1>2, <1>3, InitIInv, PTL DEF Spec

-----------------------------------------------------------------------------
(* Staging.  A whole staging directory belongs to a result that is still to  *)
(* be applied or to the plugin that is being published.                      *)
Owned(id) ==
  \/ pc \in {"prepare", "apply"} \cup PublishPhases /\ id \in pending /\ prepared[id] # None
  \/ pc \in {"build", "remove", "rename"} /\ id = cur

SInv ==
  /\ \A id \in Plugins : staged[id] = "whole" => Owned(id)
  /\ pc \in PublishPhases => cur \notin pending

LEMMA NothingWhole ==
  ASSUME pc' \notin PublishPhases, \A id \in Plugins : staged'[id] # "whole"
  PROVE  SInv'
  BY DEF SInv

LEMMA EndStaged ==   \* an end in a phase that owns no staging
  ASSUME SInv, pc \in {"select", "write", "load", "scan", "clean"} \/ (pc = "apply" /\ pending = {}),
         NEW res, EndsWith(res), staged' = staged
  PROVE  SInv'
  BY NothingWhole DEF EndsWith, SInv, Owned

LEMMA PreparedIsSome ==
  ASSUME IInv, NEW id \in pending, pc = "prepare"
  PROVE  PreparedEntry(id) # None
<1>1. PreparedEntry(id) \in Entry
  BY PreparedEntryType DEF IInv, Queued
<1>2. QED BY <1>1, LifecycleAssumption DEF Entry

LEMMA SelectStaged ==
  ASSUME SInv, Select
  PROVE  SInv'
<1>1. ASSUME NEW S, pc = "select", Selects(S) PROVE SInv'
  <2>1. pc' \in {"prepare", "apply"} /\ staged' = staged
    BY <1>1 DEF Selects
  <2>2. QED BY <1>1, <2>1, NothingWhole DEF SInv, Owned
<1>2. CASE SelectSync \/ SelectInstall \/ SelectUpdate \/ SelectRestore
  BY <1>1, <1>2 DEF SelectSync, SelectInstall, SelectUpdate, SelectRestore
<1>3. CASE SelectRestoreFails
  BY <1>3, EndStaged DEF SelectRestoreFails
<1>4. QED BY <1>2, <1>3 DEF Select

LEMMA PrepareStaged ==
  ASSUME IInv, SInv, NEW id \in Plugins, PrepareSucceeds(id) \/ PrepareFails(id)
  PROVE  SInv'
<1>1. /\ pc = "prepare" /\ pc' \in {"prepare", "apply"} /\ id \in pending
      /\ pending' = pending
  BY DEF PrepareSucceeds, PrepareFails, Prepares, IInv, TypeOK
<1>2. staged \in [Plugins -> {"none", "partial", "whole"}] /\ prepared \in [Plugins -> Entry \cup {None}]
  BY DEF IInv, TypeOK, Entries
<1>3. CASE PrepareFails(id)
  BY <1>1, <1>2, <1>3 DEF PrepareFails, SInv, Owned
<1>4. CASE PrepareSucceeds(id)
  <2>1. PreparedEntry(id) # None
    BY <1>1, <1>4, PreparedIsSome DEF PrepareSucceeds
  <2>2. QED BY <1>1, <1>2, <1>4, <2>1 DEF PrepareSucceeds, SInv, Owned
<1>5. QED BY <1>3, <1>4

(* A plugin's turn ends without its staging directory, or it is published.   *)
LEMMA ApplyStaged ==
  ASSUME IInv, SInv, NEW id \in Plugins, Apply(id)
  PROVE  SInv'
<1>1. pc = "apply" /\ id \in pending
  BY DEF Apply, SkipUnprepared, Adopt, AdoptFails, AbortUpdate, SkipKnownFailure,
     BeginPublish, Applies, First
<1>2. staged \in [Plugins -> {"none", "partial", "whole"}] /\ prepared \in [Plugins -> Entry \cup {None}]
  BY DEF IInv, TypeOK, Entries
<1>3. CASE AbortUpdate(id)
  <2>1. \A p \in Plugins : staged'[p] # "whole"
    BY <1>1, <1>3 DEF AbortUpdate, PendingCleaned, SInv, Owned
  <2>2. pc' = "idle"
    BY <1>3 DEF AbortUpdate, EndsWith
  <2>3. QED BY <2>1, <2>2, NothingWhole
<1>4. CASE SkipUnprepared(id)
  BY <1>1, <1>2, <1>4 DEF SkipUnprepared, Applies, SInv, Owned
<1>5. CASE Adopt(id) \/ AdoptFails(id) \/ SkipKnownFailure(id)
  <2>1. /\ pc' = "apply" /\ pending' = pending \ {id}
        /\ staged' = [staged EXCEPT ![id] = "none"] /\ prepared' = [prepared EXCEPT ![id] = None]
    BY <1>1, <1>5 DEF Adopt, AdoptFails, SkipKnownFailure, Applies, Unstage
  <2>2. QED BY <1>1, <1>2, <2>1 DEF SInv, Owned
<1>6. CASE BeginPublish(id)
  <2>1. /\ pc' \in {"build", "remove", "rename"} /\ pending' = pending \ {id} /\ cur' = id
        /\ UNCHANGED <<staged, prepared>>
    BY <1>6 DEF BeginPublish, Applies, Swap
  <2>2. QED BY <1>1, <2>1 DEF SInv, Owned
<1>7. QED BY <1>3, <1>4, <1>5, <1>6 DEF Apply

LEMMA PublishStaged ==
  ASSUME IInv, SInv, Publish
  PROVE  SInv'
<1>1. pc \in PublishPhases /\ cur \in Plugins /\ cur \notin pending
  BY DEF Publish, BuildSucceeds, BuildFails, RemoveTarget, Rename, SwapFails, Track,
     TrackFails, IInv, Publishing, Declared, SInv
<1>2. staged \in [Plugins -> {"none", "partial", "whole"}] /\ prepared \in [Plugins -> Entry \cup {None}]
  BY DEF IInv, TypeOK, Entries
<1>3. CASE BuildSucceeds \/ RemoveTarget
  <2>1. pc' \in {"remove", "rename"} /\ UNCHANGED <<pending, cur, staged, prepared>>
        /\ pc \in {"build", "remove"}
    BY <1>3 DEF BuildSucceeds, RemoveTarget, Swap, work
  <2>2. QED BY <1>1, <2>1 DEF SInv, Owned
<1>4. CASE Rename
  <2>1. pc' = "track" /\ UNCHANGED <<pending, cur, prepared>>
        /\ staged' = [staged EXCEPT ![cur] = "none"]
    BY <1>4 DEF Rename, Unstage
  <2>2. QED BY <1>1, <1>2, <2>1 DEF SInv, Owned
<1>5. CASE BuildFails \/ SwapFails
  <2>1. /\ pc' = "apply" /\ pending' = pending
        /\ staged' = [staged EXCEPT ![cur] = "none"] /\ prepared' = [prepared EXCEPT ![cur] = None]
    BY <1>5 DEF BuildFails, SwapFails, PublishFails, NextPlugin, Unstage
  <2>2. QED BY <1>1, <1>2, <2>1 DEF SInv, Owned
<1>6. CASE Track \/ TrackFails
  <2>1. /\ pc = "track" /\ pc' = "apply" /\ pending' = pending /\ staged' = staged
        /\ prepared' = [prepared EXCEPT ![cur] = None]
    BY <1>6 DEF Track, TrackFails, NextPlugin
  <2>2. QED BY <1>1, <1>2, <2>1 DEF SInv, Owned
<1>7. QED BY <1>3, <1>4, <1>5, <1>6 DEF Publish

LEMMA FinishStaged ==
  ASSUME SInv, Finish
  PROVE  SInv'
<1>1. CASE FinishApply \/ WriteAndFollow \/ WriteAndLoadOrClean \/ Scan
  <2>1. /\ pc \in {"write", "scan"} \/ (pc = "apply" /\ pending = {})
        /\ pc' \in {"select", "write", "load", "scan", "clean"} /\ staged' = staged
    BY <1>1 DEF FinishApply, PhaseDone, WriteAndFollow, WriteAndLoadOrClean, Writes, Scan, work
  <2>2. QED BY <2>1, NothingWhole DEF SInv, Owned
<1>2. CASE FinishRestore \/ WriteAndStop \/ WriteFollow \/ WriteFails \/ Load \/ CleanDone
  BY <1>2, EndStaged DEF FinishRestore, PhaseDone, WriteAndStop, WriteFollow, Writes,
     WriteFails, Load, CleanDone
<1>3. QED BY <1>1, <1>2 DEF Finish

LEMMA NextStaged ==
  ASSUME IInv, SInv, [Next]_vars
  PROVE  SInv'
<1>1. ASSUME NEW cmd, NEW target, Start(cmd, target) PROVE SInv'
  BY <1>1, NothingWhole DEF Start, NoStaging
<1>2. CASE Process
  <2>1. ASSUME NEW id \in Plugins, RemoveManaged(id) PROVE SInv'
    BY <2>1, NothingWhole DEF RemoveManaged, SInv, Owned
  <2>2. ASSUME NEW id \in Plugins, RemoveManagedFails(id) PROVE SInv'
    BY <2>2, EndStaged DEF RemoveManagedFails
  <2>3. QED BY <1>2, <2>1, <2>2, SelectStaged, PublishStaged, FinishStaged, PrepareStaged,
              ApplyStaged DEF Process
<1>3. CASE Crash
  BY <1>3, NothingWhole DEF Crash, EndsWith, NoStaging
<1>4. CASE Environment \/ UNCHANGED vars
  <2>1. UNCHANGED <<pc, pending, prepared, staged, cur>>
    BY <1>4 DEF Environment, EditConfig, Damage, Pull, Intervenes, UpstreamMoves, vars, work
  <2>2. QED BY <2>1 DEF SInv, Owned
<1>5. QED BY <1>1, <1>2, <1>3, <1>4 DEF Next

(* A command that ends leaves no prepared checkout in staging: the queued    *)
(* ones of an update that stops half-way included (plugin.rs 679-687).       *)
THEOREM StagingCleaned == Spec => []StagingRemoved
<1>1. Init => SInv
  BY DEF Init, SInv, NoStaging
<1>2. IInv /\ SInv /\ [Next]_vars => (IInv /\ SInv)'
  BY NextType, NextStaged
<1>3. SInv => StagingRemoved
  BY DEF SInv, Owned, StagingRemoved
<1>4. QED BY <1>1, <1>2, <1>3, InitIInv, PTL DEF Spec

-----------------------------------------------------------------------------
(* Failures.  What a phase has not reached yet is as the phase found it.     *)
Lost(id)      == failed[id] \in {"prepare", "build"}
SameDisk(id)  == before.disk[id] # Broken => disk[id] = before.disk[id]
SameEntry(id) == mem.entries[id] = before.lock.entries[id]
Fresh(id)     == SameDisk(id) /\ SameEntry(id) /\ failed[id] = "no"

Spared ==      \* what FailurePreserves says
  \A id \in Plugins : Lost(id) => SameDisk(id) /\ (id \in Declared => SameEntry(id))

Reaching ==    \* by phase: who has not been reached, and what the file says
  /\ pc = "select" => \A id \in Plugins : Fresh(id)
  /\ pc \in {"prepare", "apply"} \cup PublishPhases => \A id \in pending : Fresh(id)
  /\ pc \in PublishPhases => /\ cur \notin pending /\ SameEntry(cur) /\ failed[cur] = "no"
                             /\ pc = "build" => SameDisk(cur)
  /\ pc \in {"scan", "clean"} => \A id \in Plugins : failed[id] = "no"
  /\ pc \in {"select", "prepare", "apply", "write"} \cup PublishPhases =>
       lock.entries = before.lock.entries
  /\ pc = "load" => mem.entries = lock.entries

FInv ==
  /\ pc # "idle" => result = "running"
  /\ result # "none" => Spared /\ Reaching

LEMMA PhaseOf ==
  ASSUME IInv
  PROVE  pc \in {"idle", "select", "prepare", "apply", "write", "load", "scan", "clean"}
                 \cup PublishPhases
  BY DEF IInv, TypeOK, Phases

LEMMA EndSpares ==   \* an end that leaves failures and checkouts alone
  ASSUME IInv, FInv, pc # "idle", NEW res, EndsWith(res), UNCHANGED <<config, before>>,
         \A id \in Plugins : Lost(id)' => Lost(id) /\ disk'[id] = disk[id],
         \/ lock' = lock /\ pc \notin {"scan", "clean"}
         \/ lock' = mem
         \/ \A id \in Plugins : ~Lost(id)'
  PROVE  FInv'
<1>1. pc' = "idle" /\ mem' = lock' /\ result = "running"
  BY DEF EndsWith, FInv
<1>2. Reaching'
  BY <1>1 DEF Reaching
<1>3. ASSUME NEW id \in Plugins, Lost(id)'
      PROVE  (SameDisk(id) /\ (id \in Declared => SameEntry(id)))'
  <2>1. Lost(id) /\ SameDisk(id) /\ (id \in Declared => SameEntry(id)) /\ disk'[id] = disk[id]
    BY <1>1, <1>3 DEF FInv, Spared
  <2>2. CASE lock' = mem
    BY <1>1, <2>1, <2>2 DEF SameDisk, SameEntry, Declared
  <2>3. CASE lock' = lock /\ pc \notin {"scan", "clean"}
    <3>1. lock.entries = before.lock.entries \/ (pc = "load" /\ mem.entries = lock.entries)
      BY <1>1, <2>3, PhaseOf DEF FInv, Reaching
    <3>2. QED BY <1>1, <2>1, <2>3, <3>1 DEF SameDisk, SameEntry, Declared
  <2>4. QED BY <1>3, <2>2, <2>3
<1>4. QED BY <1>1, <1>2, <1>3 DEF FInv, Spared

LEMMA StartSpares ==
  ASSUME IInv, NEW cmd, NEW target, Start(cmd, target)
  PROVE  FInv'
<1>1. /\ pc' = "select" /\ mem' = lock /\ result' = "running" /\ before' = Snapshot
      /\ failed' = [id \in Plugins |-> "no"] /\ UNCHANGED <<lock, disk>>
  BY DEF Start, store
<1>2. before'.lock = lock /\ before'.disk = disk
  BY <1>1 DEF Snapshot
<1>3. \A id \in Plugins : Fresh(id)'
  BY <1>1, <1>2 DEF Fresh, SameDisk, SameEntry
<1>4. QED BY <1>1, <1>2, <1>3 DEF FInv, Spared, Reaching, Lost, Fresh

(* A selection touches only checkouts that are broken.                       *)
LEMMA SelectSpares ==
  ASSUME IInv, FInv, Select
  PROVE  FInv'
<1>1. ASSUME NEW S \in SUBSET Plugins, pc = "select", Selects(S),
             \A id \in Plugins : disk'[id] = disk[id] \/ disk[id] = Broken
      PROVE  FInv'
  <2>1. /\ pending' = S /\ pc' \in {"prepare", "apply"}
        /\ UNCHANGED <<config, lock, mem, failed, before, result>>
    BY <1>1 DEF Selects, env, tally, hist
  <2>2. result = "running" /\ lock.entries = before.lock.entries
    BY <1>1 DEF FInv, Reaching
  <2>3. \A id \in Plugins : Fresh(id)'
    BY <1>1, <2>1, <2>2 DEF FInv, Reaching, Fresh, SameDisk, SameEntry
  <2>4. QED BY <2>1, <2>2, <2>3 DEF FInv, Spared, Reaching, Lost, Fresh
<1>2. CASE SelectSync
  BY <1>1, <1>2 DEF SelectSync, Scope, Declared
<1>3. CASE SelectInstall
  <2>1. \A id \in Plugins : disk'[id] = disk[id] \/ disk[id] = Broken
    BY <1>3 DEF SelectInstall
  <2>2. QED BY <1>1, <1>3, <2>1 DEF SelectInstall, InstallCandidates, Scope, Declared
<1>4. CASE SelectUpdate
  BY <1>1, <1>4 DEF SelectUpdate, Scope, Declared
<1>5. CASE SelectRestore
  BY <1>1, <1>5 DEF SelectRestore, LockedInScope, Scope, Declared
<1>6. CASE SelectRestoreFails
  <2>1. pc = "select" /\ EndsWith("error") /\ UNCHANGED <<config, lock, disk, before, failed>>
    BY <1>6 DEF SelectRestoreFails, env, tally
  <2>2. QED BY <2>1, EndSpares DEF Lost
<1>7. QED BY <1>2, <1>3, <1>4, <1>5, <1>6 DEF Select

LEMMA PrepareSpares ==
  ASSUME FInv, NEW id \in Plugins, Prepares(id)
  PROVE  FInv'
<1>1. /\ pc = "prepare" /\ pc' \in {"prepare", "apply"}
      /\ UNCHANGED <<config, lock, disk, mem, pending, failed, before, result>>
  BY DEF Prepares, env, store, tally, hist
<1>2. QED BY <1>1 DEF FInv, Spared, Reaching, Lost, Fresh, SameDisk, SameEntry, Declared

(* A step in the middle of a phase: one plugin's turn moves on.              *)
LEMMA TurnSpares ==
  ASSUME FInv, pc \in {"apply"} \cup PublishPhases, pc' \in {"apply"} \cup PublishPhases,
         NEW id \in Plugins, pending' \subseteq pending \ {id},
         UNCHANGED <<config, lock, before, result>>,
         \A p \in Plugins : p # id => /\ disk'[p] = disk[p] /\ mem'.entries[p] = mem.entries[p]
                                      /\ failed'[p] = failed[p],
         Lost(id)' => SameDisk(id)' /\ SameEntry(id)',
         pc' \in PublishPhases => /\ cur' = id /\ SameEntry(id)' /\ failed'[id] = "no"
                                  /\ pc' = "build" => SameDisk(id)',
         pending' \subseteq Plugins
  PROVE  FInv'
<1>1. result = "running"
  BY DEF FInv
<1>2. Spared'
  BY <1>1 DEF FInv, Spared, Lost, SameDisk, SameEntry, Declared
<1>3. \A p \in pending' : Fresh(p)'
  BY <1>1 DEF FInv, Reaching, Fresh, SameDisk, SameEntry
<1>4. lock'.entries = before'.lock.entries
  BY <1>1 DEF FInv, Reaching
<1>5. ASSUME pc' \in PublishPhases
      PROVE  /\ cur' \notin pending' /\ SameEntry(cur)' /\ failed'[cur'] = "no"
             /\ pc' = "build" => SameDisk(cur)'
  BY <1>5 DEF SameDisk, SameEntry
<1>6. pc' \notin {"select", "scan", "clean", "load"}
  OBVIOUS
<1>7. Reaching'
  BY <1>3, <1>4, <1>5, <1>6 DEF Reaching
<1>8. QED BY <1>1, <1>2, <1>7 DEF FInv

LEMMA ApplySpares ==
  ASSUME IInv, FInv, NEW id \in Plugins, Apply(id)
  PROVE  FInv'
<1>1. pc = "apply" /\ id \in pending /\ Fresh(id) /\ pending \subseteq Plugins
  BY DEF Apply, SkipUnprepared, Adopt, AdoptFails, AbortUpdate, SkipKnownFailure,
     BeginPublish, Applies, First, FInv, Reaching, IInv, TypeOK
<1>2. failed \in [Plugins -> {"no", "prepare", "build", "publish", "track"}]
  BY DEF IInv, TypeOK
<1>3. CASE AbortUpdate(id)
  <2>1. EndsWith("error") /\ UNCHANGED <<config, lock, disk, before, failed>>
    BY <1>3 DEF AbortUpdate, env, tally
  <2>2. QED BY <1>1, <2>1, EndSpares DEF Lost
<1>4. CASE ~AbortUpdate(id)
  <2>1. Applies(id) /\ pending' = pending \ {id} /\ UNCHANGED <<config, lock, before, result>>
    BY <1>4 DEF Apply, SkipUnprepared, Adopt, AdoptFails, SkipKnownFailure, BeginPublish,
       Applies, env, hist
  <2>2. \A p \in Plugins : p # id => mem'.entries[p] = mem.entries[p]
    BY <1>4, InsertedElsewhere DEF Apply, SkipUnprepared, Adopt, AdoptFails,
       SkipKnownFailure, BeginPublish
  <2>3. \A p \in Plugins : p # id => disk'[p] = disk[p] /\ failed'[p] = failed[p]
    BY <1>2, <1>4 DEF Apply, SkipUnprepared, Adopt, AdoptFails, SkipKnownFailure,
       BeginPublish, DropBroken, tally, IInv, TypeOK, Disk
  <2>4. SameDisk(id)'
    BY <1>1, <1>4, <2>1 DEF Apply, SkipUnprepared, Adopt, AdoptFails, SkipKnownFailure,
       BeginPublish, DropBroken, Fresh, SameDisk
  <2>5. CASE SkipUnprepared(id)
    <3>1. SameEntry(id)' /\ pc' = "apply"
      BY <1>1, <2>1, <2>5 DEF SkipUnprepared, Fresh, SameEntry
    <3>2. QED BY <1>1, <2>1, <2>2, <2>3, <2>4, <3>1, TurnSpares
  <2>6. CASE Adopt(id) \/ AdoptFails(id) \/ SkipKnownFailure(id)
    <3>1. pc' = "apply" /\ failed'[id] \in {"no", "track"}
      BY <1>1, <1>2, <2>6 DEF Adopt, AdoptFails, SkipKnownFailure, Fresh, tally
    <3>2. QED BY <1>1, <2>1, <2>2, <2>3, <3>1, TurnSpares DEF Lost
  <2>7. CASE BeginPublish(id)
    <3>1. /\ pc' \in {"build", "remove", "rename"} /\ cur' = id /\ failed' = failed
          /\ SameEntry(id)'
      BY <1>1, <2>1, <2>7 DEF BeginPublish, Swap, Fresh, SameEntry, tally
    <3>2. failed'[id] = "no" /\ ~Lost(id)'
      BY <1>1, <3>1 DEF Fresh, Lost
    <3>3. QED BY <1>1, <2>1, <2>2, <2>3, <2>4, <3>1, <3>2, TurnSpares
  <2>8. QED BY <1>4, <2>5, <2>6, <2>7 DEF Apply
<1>5. QED BY <1>3, <1>4

(* A build that fails has touched neither checkout nor entry; the later      *)
(* failures of a publish are not of this kind.                               *)
LEMMA PublishSpares ==
  ASSUME IInv, FInv, Publish, NEW c, c = cur
  PROVE  FInv'
<1>1. pc \in PublishPhases /\ c \in Plugins /\ c \notin pending /\ pending \subseteq Plugins
      /\ SameEntry(c) /\ failed[c] = "no" /\ (pc = "build" => SameDisk(c))
  BY DEF Publish, BuildSucceeds, BuildFails, RemoveTarget, Rename, SwapFails, Track,
     TrackFails, IInv, TypeOK, Publishing, Declared, FInv, Reaching
<1>2. failed \in [Plugins -> {"no", "prepare", "build", "publish", "track"}]
  BY DEF IInv, TypeOK
<1>3. pending' = pending /\ UNCHANGED <<config, lock, before, result>>
  BY DEF Publish, BuildSucceeds, BuildFails, RemoveTarget, Rename, SwapFails, PublishFails,
     Track, TrackFails, NextPlugin, env, store, work, hist
<1>4. \A p \in Plugins : p # c => mem'.entries[p] = mem.entries[p]
  BY <1>1, InsertedElsewhere DEF Publish, BuildSucceeds, BuildFails, RemoveTarget, Rename,
     SwapFails, PublishFails, Track, TrackFails
<1>5. \A p \in Plugins : p # c => disk'[p] = disk[p]
  BY DEF Publish, BuildSucceeds, BuildFails, RemoveTarget, Rename, SwapFails, Track,
     TrackFails, store, IInv, TypeOK, Disk
<1>6. \A p \in Plugins : p # c => failed'[p] = failed[p]
  BY <1>2 DEF Publish, BuildSucceeds, BuildFails, RemoveTarget, Rename, SwapFails,
     PublishFails, Track, TrackFails, NextPlugin, tally
<1>7. CASE BuildSucceeds \/ RemoveTarget \/ Rename
  <2>1. pc' \in {"remove", "rename", "track"} /\ cur' = c /\ UNCHANGED <<mem, failed>>
    BY <1>7 DEF BuildSucceeds, RemoveTarget, Rename, Swap, work, tally
  <2>2. SameEntry(c)' /\ failed'[c] = "no" /\ ~Lost(c)'
    BY <1>1, <1>3, <2>1 DEF SameEntry, Lost
  <2>3. QED BY <1>1, <1>3, <1>4, <1>5, <1>6, <2>1, <2>2, TurnSpares
<1>8. CASE BuildFails
  <2>1. pc' = "apply" /\ pc = "build" /\ UNCHANGED <<mem, disk>>
    BY <1>8 DEF BuildFails, PublishFails, NextPlugin
  <2>2. SameDisk(c)' /\ SameEntry(c)'
    BY <1>1, <1>3, <2>1 DEF SameDisk, SameEntry
  <2>3. QED BY <1>1, <1>3, <1>4, <1>5, <1>6, <2>1, <2>2, TurnSpares
<1>9. CASE SwapFails \/ Track \/ TrackFails
  <2>1. pc' = "apply" /\ failed'[c] \in {"no", "publish", "track"}
    BY <1>1, <1>2, <1>9 DEF SwapFails, PublishFails, Track, TrackFails, NextPlugin
  <2>2. QED BY <1>1, <1>3, <1>4, <1>5, <1>6, <2>1, TurnSpares DEF Lost
<1>10. QED BY <1>7, <1>8, <1>9 DEF Publish

LEMMA FinishSpares ==
  ASSUME IInv, FInv, Finish
  PROVE  FInv'
<1>1. CASE FinishApply
  <2>1. /\ pc = "apply" /\ pc' = "write"
        /\ UNCHANGED <<config, lock, disk, failed, before, result>>
    BY <1>1 DEF FinishApply, PhaseDone, env, store, tally, hist
  <2>2. \A p \in Declared : mem'.entries[p] = mem.entries[p]
    BY <1>1 DEF FinishApply, SyncedLock, Pruned, Declared, IInv, TypeOK, LockFile
  <2>3. QED BY <2>1, <2>2 DEF FInv, Spared, Reaching, Lost, SameDisk, SameEntry, Declared
<1>2. CASE FinishRestore \/ WriteFails \/ Load
  BY <1>2, EndSpares DEF FinishRestore, PhaseDone, WriteFails, Load, store, env, tally, Lost
<1>3. CASE CleanDone
  <2>1. pc = "clean" /\ failed' = failed /\ \E res : EndsWith(res) /\ UNCHANGED <<config, before, disk>>
    BY <1>3 DEF CleanDone, env, store, tally
  <2>2. \A id \in Plugins : ~Lost(id)'
    BY <2>1 DEF FInv, Reaching, Lost
  <2>3. QED BY <2>1, <2>2, EndSpares DEF FInv
<1>4. CASE WriteAndStop \/ WriteFollow
  BY <1>4, EndSpares DEF WriteAndStop, WriteFollow, Writes, env, tally, Lost
<1>5. CASE WriteAndFollow
  <2>1. /\ pc = "write" /\ pc' = "select" /\ lock' = mem
        /\ UNCHANGED <<config, mem, disk, failed, result>>
        /\ \A id \in Plugins : failed[id] = "no"
    BY <1>5 DEF WriteAndFollow, Writes, Stops, Untroubled, InitCommands, env, tally
  <2>2. before'.lock = mem /\ before'.disk = disk
    BY <1>5 DEF WriteAndFollow, Snapshot
  <2>3. \A id \in Plugins : Fresh(id)' /\ ~Lost(id)'
    BY <2>1, <2>2 DEF Fresh, SameDisk, SameEntry, Lost
  <2>4. QED BY <2>1, <2>2, <2>3 DEF FInv, Spared, Reaching
<1>6. CASE WriteAndLoadOrClean
  <2>1. /\ pc = "write" /\ pc' \in {"load", "scan"} /\ lock' = mem
        /\ UNCHANGED <<config, mem, disk, failed, before, result>>
        /\ pc' = "scan" => \A id \in Plugins : failed[id] = "no"
    BY <1>6 DEF WriteAndLoadOrClean, Writes, Stops, Untroubled, InitCommands, env, tally, hist
  <2>2. QED BY <2>1 DEF FInv, Spared, Reaching, Lost, SameDisk, SameEntry, Declared
<1>7. CASE Scan
  <2>1. /\ pc = "scan" /\ pc' = "clean"
        /\ UNCHANGED <<config, lock, mem, disk, failed, before, result>>
    BY <1>7 DEF Scan, env, store, tally, hist
  <2>2. QED BY <2>1 DEF FInv, Spared, Reaching, Lost
<1>8. QED BY <1>1, <1>2, <1>3, <1>4, <1>5, <1>6, <1>7 DEF Finish

(* Only a command without failures cleans.                                   *)
LEMMA RemoveSpares ==
  ASSUME IInv, FInv, NEW id \in Plugins, RemoveManaged(id) \/ RemoveManagedFails(id)
  PROVE  FInv'
<1>1. pc = "clean" /\ UNCHANGED <<config, lock, failed, before>>
  BY DEF RemoveManaged, RemoveManagedFails, env, tally, hist
<1>2. \A p \in Plugins : failed'[p] = "no" /\ ~Lost(p)'
  BY <1>1 DEF FInv, Reaching, Lost
<1>3. CASE RemoveManagedFails(id)
  BY <1>1, <1>2, <1>3, EndSpares DEF RemoveManagedFails
<1>4. CASE RemoveManaged(id)
  BY <1>1, <1>2, <1>4 DEF RemoveManaged, hist, FInv, Spared, Reaching
<1>5. QED BY <1>3, <1>4

LEMMA EnvironmentSpares ==
  ASSUME IInv, FInv, Environment
  PROVE  FInv'
<1>1. ASSUME NEW id \in Plugins, NEW ref \in Refs, NEW c \in Commits, UpstreamMoves(id, ref, c)
      PROVE  FInv'
  <2>1. UNCHANGED <<config, lock, disk, mem, pc, pending, cur, failed, result>>
    BY <1>1 DEF UpstreamMoves, store, work, tally
  <2>2. before'.lock = before.lock /\ before'.disk = before.disk
    BY <1>1 DEF UpstreamMoves, IInv, TypeOK
  <2>3. QED BY <2>1, <2>2 DEF FInv, Spared, Reaching, Lost, Fresh, SameDisk, SameEntry, Declared
<1>2. ASSUME Intervenes PROVE FInv'
  BY <1>2 DEF Intervenes, FInv
<1>3. QED BY <1>1, <1>2 DEF Environment, EditConfig, Damage, Pull

LEMMA NextSpares ==
  ASSUME IInv, FInv, [Next]_vars
  PROVE  FInv'
<1>1. CASE \E cmd \in Commands, target \in Plugins \cup {All} : Start(cmd, target)
  BY <1>1, StartSpares
<1>2. CASE Process
  <2>1. ASSUME NEW id \in Plugins, PrepareSucceeds(id) \/ PrepareFails(id) PROVE FInv'
    BY <2>1, PrepareSpares DEF PrepareSucceeds, PrepareFails
  <2>2. CASE Publish
    BY <2>2, PublishSpares
  <2>3. QED BY <1>2, <2>1, <2>2, SelectSpares, FinishSpares, ApplySpares, RemoveSpares
           DEF Process
<1>3. CASE Crash
  <2>1. EndsWith("crashed") /\ pc # "idle" /\ UNCHANGED <<config, lock, before>>
        /\ failed' = [id \in Plugins |-> "no"]
    BY <1>3 DEF Crash, env
  <2>2. \A id \in Plugins : ~Lost(id)'
    BY <2>1 DEF Lost
  <2>3. QED BY <2>1, <2>2, EndSpares
<1>4. CASE Environment
  BY <1>4, EnvironmentSpares
<1>5. CASE UNCHANGED vars
  BY <1>5 DEF vars, env, store, work, tally, hist, FInv, Spared, Reaching, Lost, Fresh, SameDisk,
     SameEntry, Declared
<1>6. QED BY <1>1, <1>2, <1>3, <1>4, <1>5 DEF Next

(* A plugin whose preparation or build failed keeps the checkout and the     *)
(* entry it had when the phase began, whatever else fails (git.rs 350-379,   *)
(* sync.rs 185-230).                                                         *)
THEOREM FailuresPreserve == Spec => []FailurePreserves
<1>1. Init => FInv
  BY DEF Init, FInv
<1>2. IInv /\ FInv /\ [Next]_vars => (IInv /\ FInv)'
  BY NextType, NextSpares
<1>3. FInv => FailurePreserves
  BY DEF FInv, Spared, Lost, SameDisk, SameEntry, FailurePreserves
<1>4. QED BY <1>1, <1>2, <1>3, InitIInv, PTL DEF Spec
=============================================================================
