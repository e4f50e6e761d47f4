---------------------------- MODULE Listing_proofs ----------------------------
(* What list says, for every instance: its rows have been true although a     *)
(* command runs beside it, and it agrees with sync on what is out of order.   *)
EXTENDS Listing, Lifecycle_convergence_proofs

-----------------------------------------------------------------------------
(* List changes nothing, so that what holds of the commands holds beside it. *)
LEMMA Undisturbing == [ListNext]_listVars => [Next]_vars
  BY DEF ListNext, listVars, vars

LEMMA InitCommandsInv == ListInit => GInv
  BY InitGInv DEF ListInit

LEMMA NextCommandsInv == GInv /\ [ListNext]_listVars => GInv'
  BY Undisturbing, NextGInv

(* What clean has found is undeclared.                                       *)
CleansUndeclared == pc = "clean" => pending \cap Declared = {}

LEMMA NextCleans ==
  ASSUME CleansUndeclared, [Next]_vars
  PROVE  CleansUndeclared'
<1>1. CASE Scan
  BY <1>1 DEF Scan, env, Undeclared, Declared, CleansUndeclared
<1>2. ASSUME NEW id \in Plugins, RemoveManaged(id) PROVE CleansUndeclared'
  BY <1>2 DEF RemoveManaged, env, Declared, CleansUndeclared
<1>3. CASE UNCHANGED vars
  BY <1>3 DEF vars, env, work, Declared, CleansUndeclared
<1>4. ASSUME NEW id \in Plugins, NEW ref \in Refs, NEW c \in Commits, UpstreamMoves(id, ref, c)
      PROVE  CleansUndeclared'
  BY <1>4 DEF UpstreamMoves, work, Declared, CleansUndeclared
<1>5. ASSUME pc' # "clean" PROVE CleansUndeclared'
  BY <1>5 DEF CleansUndeclared
<1>6. CASE Select \/ Publish \/ Crash \/ \E cmd, target : Start(cmd, target)
  <2>1. pc' # "clean"
    BY <1>6 DEF Select, SelectSync, SelectInstall, SelectUpdate, SelectRestore,
       SelectRestoreFails, Selects, Publish, BuildSucceeds, BuildFails, RemoveTarget, Rename,
       SwapFails, PublishFails, Track, TrackFails, NextPlugin, Swap, Crash, EndsWith, Start
  <2>2. QED BY <1>5, <2>1
<1>7. CASE Finish /\ ~Scan
  <2>1. pc' # "clean"
    BY <1>7 DEF Finish, FinishApply, FinishRestore, WriteAndStop, WriteAndFollow,
       WriteAndLoadOrClean, WriteFollow, WriteFails, Load, CleanDone, EndsWith
  <2>2. QED BY <1>5, <2>1
<1>8. ASSUME NEW id \in Plugins,
             PrepareSucceeds(id) \/ PrepareFails(id) \/ Apply(id) \/ RemoveManagedFails(id)
      PROVE  CleansUndeclared'
  <2>1. pc' # "clean"
    BY <1>8 DEF PrepareSucceeds, PrepareFails, Prepares, Apply, SkipUnprepared, Adopt, AdoptFails,
       AbortUpdate, SkipKnownFailure, BeginPublish, Applies, Swap, RemoveManagedFails, EndsWith
  <2>2. QED BY <1>5, <2>1
<1>9. ASSUME Intervenes PROVE CleansUndeclared'
  BY <1>5, <1>9 DEF Intervenes
<1>10. QED BY <1>1, <1>2, <1>3, <1>4, <1>6, <1>7, <1>8, <1>9
          DEF Next, Process, Environment, EditConfig, Damage, Pull

-----------------------------------------------------------------------------
(* What a step beside list does: the lockfile is written last, and after it  *)
(* no declared checkout changes until the next phase begins.                 *)
Afterwards == {"idle", "load", "scan", "clean"}

LEMMA WritesLast ==
  ASSUME IInv, CleansUndeclared, Next, edits' = edits, pc' # "select"
  PROVE  /\ config' = config
         /\ lock' = lock \/ (disk' = disk /\ pc' \in Afterwards)
         /\ pc \in Afterwards =>
              /\ pc' \in Afterwards /\ lock' = lock
              /\ \A id \in Declared : disk'[id] = disk[id]
<1>1. edits \in Nat
  BY DEF IInv, TypeOK
<1>2. ~Environment /\ \A cmd, target : ~Start(cmd, target)
  BY <1>1 DEF Environment, EditConfig, Damage, Pull, Intervenes, UpstreamMoves, Edit, Start
<1>3. CASE Crash
  <2>1. /\ config' = config /\ lock' = lock /\ pc' = "idle"
        /\ disk' = disk \/ \E id \in BeingRemoved : \A p \in Plugins : p # id => disk'[p] = disk[p]
    BY <1>3 DEF Crash, EndsWith, env, IInv, TypeOK, Disk
  <2>2. ASSUME pc \in Afterwards, NEW id \in BeingRemoved PROVE id \notin Declared
    BY <2>2 DEF BeingRemoved, Afterwards, First, CleansUndeclared
  <2>3. QED BY <2>1, <2>2 DEF Afterwards, Declared
<1>4. CASE Finish
  BY <1>4 DEF Finish, FinishApply, FinishRestore, PhaseDone, WriteAndStop, WriteAndFollow,
     WriteAndLoadOrClean, WriteFollow, WriteFails, Writes, Load, Scan, CleanDone, EndsWith,
     env, store, Afterwards
<1>5. CASE Select \/ Publish
  BY <1>5 DEF Select, SelectSync, SelectInstall, SelectUpdate, SelectRestore,
     SelectRestoreFails, Selects, Publish, BuildSucceeds, BuildFails, RemoveTarget, Rename,
     SwapFails, PublishFails, Track, TrackFails, NextPlugin, env, store, Afterwards
<1>6. ASSUME NEW id \in Plugins, PrepareSucceeds(id) \/ PrepareFails(id) \/ Apply(id)
      PROVE  config' = config /\ lock' = lock /\ pc \notin Afterwards
  BY <1>6 DEF PrepareSucceeds, PrepareFails, Prepares, Apply, SkipUnprepared, Adopt, AdoptFails,
     AbortUpdate, SkipKnownFailure, BeginPublish, Applies, env, store, Afterwards
<1>7. ASSUME NEW id \in Plugins, RemoveManaged(id) \/ RemoveManagedFails(id)
      PROVE  /\ config' = config /\ lock' = lock /\ pc' \in Afterwards
             /\ \A p \in Declared : disk'[p] = disk[p]
  <2>1. config' = config /\ lock' = lock /\ pc = "clean" /\ pc' \in {"idle", "clean"} /\ id \in pending
    BY <1>7 DEF RemoveManaged, RemoveManagedFails, First, EndsWith, env
  <2>2. id \notin Declared
    BY <2>1 DEF CleansUndeclared
  <2>3. \A p \in Plugins : p # id => disk'[p] = disk[p]
    BY <1>7 DEF RemoveManaged, RemoveManagedFails, IInv, TypeOK, Disk
  <2>4. QED BY <2>1, <2>2, <2>3 DEF Afterwards, Declared
<1>8. QED BY <1>2, <1>3, <1>4, <1>5, <1>6, <1>7 DEF Next, Process

LEMMA ProcessConfig == Process \/ Crash => config' = config
  BY DEF Process, Select, SelectSync, SelectInstall, SelectUpdate, SelectRestore,
     SelectRestoreFails, Selects, Publish, BuildSucceeds, BuildFails, RemoveTarget, Rename,
     SwapFails, PublishFails, Track, TrackFails, NextPlugin, Finish, FinishApply, FinishRestore,
     WriteAndStop, WriteAndFollow, WriteAndLoadOrClean, WriteFollow, WriteFails, Writes, Load,
     Scan, CleanDone, PrepareSucceeds, PrepareFails, Prepares, Apply, SkipUnprepared, Adopt,
     AdoptFails, AbortUpdate, SkipKnownFailure, BeginPublish, Applies, RemoveManaged,
     RemoveManagedFails, Crash, env

-----------------------------------------------------------------------------
(* What list has read.  A row is seen when it has been true while list ran.  *)
(* What has not been inspected will be seen: the entry still stands, or the  *)
(* phase is over and its checkout stands.                                    *)
Read  == [head : Commits \cup {Missing, Broken}]
Views == [cfg : Config, lock : LockFile, health : [Plugins -> Read \cup {None}]]

Seen(id, health) == Row(view.cfg[id], view.lock.entries[id], health) \in rows[id]
Awaits(id) ==
  \/ lock.entries[id] = view.lock.entries[id]
  \/ pc \in Afterwards /\ Seen(id, Health(disk[id]))

Reading ==
  at # "idle" =>
    /\ view.cfg = config
    /\ \A id \in Listed : RowNow(view.cfg, id) \in rows[id]
    /\ at = "lock" => \A id \in Listed : view.health[id] = None
    /\ at # "lock" /\ beside # "several" => \A id \in Listed :
         IF view.health[id] = None THEN Awaits(id) ELSE Seen(id, view.health[id])
    /\ at = "markers" => \A id \in Listed : view.health[id] # None

LInv == at \in {"idle", "lock", "checkouts", "markers"} /\ view \in Views /\ Reading

LEMMA HealthRead ==
  ASSUME IInv, NEW id \in Plugins
  PROVE  Health(disk[id]) \in Read
  BY DEF IInv, TypeOK, Disk, Checkout, Health, Healthy, Read

LEMMA UnreadType == Unread \in Views
<1>1. Unread.cfg \in Config /\ Unread.lock \in LockFile
  BY DEF Unread, Config, LockFile, Entries
<1>2. QED BY <1>1 DEF Unread, Views

LEMMA InitReading == ListInit => LInv
  BY UnreadType DEF ListInit, LInv, Reading

LEMMA ListReads ==
  ASSUME IInv, LInv, List, UNCHANGED vars
  PROVE  LInv'
<1> USE DEF LInv
<1>1. UNCHANGED <<config, lock, disk, pc>>
  BY DEF vars, env, store
<1>2. CASE ReadConfiguration
  <2>1. at' = "lock" /\ view' = [Unread EXCEPT !.cfg = config]
    BY <1>2 DEF ReadConfiguration, After
  <2>2. view' \in Views /\ view'.cfg = config
    BY <2>1, UnreadType DEF Views, IInv, TypeOK
  <2>3. \A id \in Listed' : RowNow(view.cfg, id)' \in rows'[id]
    BY <1>1, <1>2, <2>2 DEF ReadConfiguration, Listed, Declared, RowNow
  <2>4. \A id \in Listed' : view'.health[id] = None
    BY <2>1 DEF Unread, Listed
  <2>5. QED BY <1>1, <2>1, <2>2, <2>3, <2>4 DEF Reading
<1>3. CASE ReadLockfile
  <2>1. at = "lock" /\ at' = "checkouts" /\ view' = [view EXCEPT !.lock = lock] /\ rows' = rows
    BY <1>3 DEF ReadLockfile, After
  <2>2. view' \in Views /\ view'.cfg = view.cfg /\ view'.lock = lock /\ view'.health = view.health
    BY <2>1 DEF Views, IInv, TypeOK
  <2>3. Listed' = Listed /\ \A id \in Listed : RowNow(view.cfg, id)' = RowNow(view.cfg, id)
    BY <1>1, <2>2 DEF Listed, RowNow
  <2>4. \A id \in Listed : view'.health[id] = None
    BY <2>1, <2>2 DEF Reading
  <2>5. \A id \in Listed : Awaits(id)'
    BY <1>1, <2>2 DEF Awaits
  <2>6. QED BY <1>1, <2>1, <2>2, <2>3, <2>4, <2>5 DEF Reading
<1>4. ASSUME NEW id \in Plugins, InspectCheckout(id) PROVE LInv'
  <2>1. /\ at = "checkouts" /\ id \in Uninspected /\ UNCHANGED <<at, rows, beside>>
        /\ view' = [view EXCEPT !.health[id] = Health(disk[id])]
    BY <1>4 DEF InspectCheckout, First
  <2>2. /\ view' \in Views /\ view'.cfg = view.cfg /\ view'.lock = view.lock
        /\ view'.health[id] = Health(disk[id])
        /\ \A p \in Plugins : p # id => view'.health[p] = view.health[p]
    BY <2>1, HealthRead DEF Views
  <2>3. Listed' = Listed /\ \A p \in Listed : RowNow(view.cfg, p)' = RowNow(view.cfg, p)
    BY <1>1, <2>2 DEF Listed, RowNow
  <2>4. ASSUME beside # "several" PROVE Awaits(id)' /\ Seen(id, view.health[id])'
    <3>1. Awaits(id) /\ RowNow(view.cfg, id) \in rows[id]
      BY <2>1, <2>4 DEF Reading, Uninspected
    <3>2. QED BY <1>1, <2>1, <2>2, <3>1 DEF Awaits, Seen, RowNow
  <2>5. ASSUME beside # "several", NEW p \in Listed, p # id
        PROVE  IF view'.health[p] = None THEN Awaits(p)' ELSE Seen(p, view.health[p])'
    BY <1>1, <2>1, <2>2, <2>5 DEF Reading, Awaits, Seen, Listed
  <2>6. QED BY <1>1, <2>1, <2>2, <2>3, <2>4, <2>5 DEF Reading
<1>5. CASE CheckoutsRead
  <2>1. at = "checkouts" /\ at' = "markers" /\ Uninspected = {} /\ UNCHANGED <<view, rows, beside>>
    BY <1>5 DEF CheckoutsRead, After
  <2>2. Listed' = Listed /\ \A p \in Listed : RowNow(view.cfg, p)' = RowNow(view.cfg, p)
                            /\ view.health[p] # None
    BY <1>1, <2>1 DEF Listed, RowNow, Uninspected
  <2>3. QED BY <1>1, <2>1, <2>2 DEF Reading, Awaits, Seen
<1>6. CASE ShowStatuses
  BY <1>6, UnreadType DEF ShowStatuses, Reading
<1>7. QED BY <1>2, <1>3, <1>4, <1>5, <1>6 DEF List

LEMMA CommandReads ==
  ASSUME IInv, CleansUndeclared, LInv, at = "idle" \/ edits' = edits, Next, Observe
  PROVE  LInv'
<1> USE DEF LInv
<1>1. at' = at /\ view' = view /\ Listed' = Listed
  BY DEF Observe, Listed
<1>2. CASE at = "idle"
  BY <1>1, <1>2 DEF Reading
<1>3. CASE at # "idle"
  <2>1. edits' = edits /\ Listed = Declared /\ Listed \subseteq Plugins
    BY <1>3 DEF Reading, Listed, Declared
  <2>2. /\ \A id \in Listed : rows'[id] = rows[id] \cup {RowNow(view.cfg, id)'}
        /\ pc' = "select" \/ beside = "several" => beside' = "several"
    BY <1>3, <2>1 DEF Observe
  <2>3. config' = config
    <3>1. edits \in Nat
      BY DEF IInv, TypeOK
    <3>2. CASE Environment \/ \E cmd, target : Start(cmd, target)
      BY <2>1, <3>1, <3>2 DEF Environment, EditConfig, Damage, Pull, Intervenes, UpstreamMoves,
         Edit, Start, env
    <3>3. CASE pc' # "select"
      BY <2>1, <3>3, WritesLast
    <3>4. CASE Process \/ Crash
      BY <3>4, ProcessConfig
    <3>5. QED BY <3>2, <3>4 DEF Next
  <2>4. ASSUME at # "lock", beside' # "several", NEW id \in Listed
        PROVE  IF view.health[id] = None THEN Awaits(id)' ELSE Seen(id, view.health[id])'
    <3>1. beside # "several" /\ pc' # "select"
      BY <2>2, <2>4
    <3>2. /\ lock' = lock \/ (disk' = disk /\ pc' \in Afterwards)
          /\ pc \in Afterwards => pc' \in Afterwards /\ lock' = lock /\ disk'[id] = disk[id]
      BY <2>1, <2>4, <3>1, WritesLast
    <3>3. IF view.health[id] = None THEN Awaits(id) ELSE Seen(id, view.health[id])
      BY <1>3, <2>4, <3>1 DEF Reading
    <3>4. RowNow(view.cfg, id) \in rows[id]
      BY <1>3, <2>4 DEF Reading
    <3>5. QED BY <1>1, <2>2, <2>4, <3>2, <3>3, <3>4 DEF Awaits, Seen, RowNow
  <2>5. QED BY <1>1, <1>3, <2>2, <2>3, <2>4 DEF Reading
<1>4. QED BY <1>2, <1>3

LEMMA NextReads ==
  ASSUME IInv, CleansUndeclared, LInv, [ListNext]_listVars
  PROVE  LInv'
<1>1. CASE UNCHANGED listVars
  BY <1>1 DEF listVars, listing, vars, env, store, LInv, Reading, Listed, RowNow, Awaits, Seen
<1>2. QED BY <1>1, ListReads, CommandReads DEF ListNext

(* Every row was true while list ran, as long as no other phase of a command *)
(* begins meanwhile (main.rs 349-371, plugin.rs 615-622): the writer changes *)
(* checkouts before the lockfile, and the reader reads the lockfile first.   *)
THEOREM RowsHaveBeenTrue == ListSpec => RowsWereTrue
<1>1. ListInit => GInv /\ CleansUndeclared /\ LInv
  BY InitCommandsInv, InitReading DEF ListInit, Init, CleansUndeclared
<1>2. GInv /\ CleansUndeclared /\ LInv /\ [ListNext]_listVars
        => (GInv /\ CleansUndeclared /\ LInv)'
  BY NextCommandsInv, Undisturbing, NextCleans, NextReads DEF GInv
<1>3. LInv => (at = "markers" /\ at' = "idle" /\ beside # "several" => \A id \in Listed :
                 Row(view.cfg[id], view.lock.entries[id], view.health[id]) \in rows[id])
  BY DEF LInv, Reading, Seen
<1>4. QED BY <1>1, <1>2, <1>3, PTL DEF ListSpec, RowsWereTrue

-----------------------------------------------------------------------------
(* Undisturbed, list has read what there is.                                 *)
Undisturbed ==
  at # "idle" /\ beside = "nothing" =>
    /\ at # "lock" => view.lock = lock
    /\ \A id \in Listed : view.health[id] \in {None, Health(disk[id])}

LEMMA NextUndisturbed ==
  ASSUME IInv, LInv, Undisturbed, [ListNext]_listVars
  PROVE  Undisturbed'
<1>1. CASE UNCHANGED listVars
  BY <1>1 DEF listVars, listing, vars, env, store, Undisturbed, Listed
<1>2. CASE Observe
  BY <1>2 DEF Observe, Undisturbed, Listed
<1>3. CASE List /\ UNCHANGED vars
  <2>1. UNCHANGED <<lock, disk>>
    BY <1>3 DEF vars, store
  <2>2. CASE ReadConfiguration
    BY <2>2 DEF ReadConfiguration, After, Unread, Undisturbed, Listed
  <2>3. CASE ReadLockfile
    BY <2>1, <2>3 DEF ReadLockfile, After, Undisturbed, Listed, LInv, Views
  <2>4. ASSUME NEW id \in Plugins, InspectCheckout(id) PROVE Undisturbed'
    BY <2>1, <2>4 DEF InspectCheckout, Undisturbed, Listed, LInv, Views
  <2>5. CASE CheckoutsRead
    BY <2>1, <2>5 DEF CheckoutsRead, Undisturbed, Listed
  <2>6. CASE ShowStatuses
    BY <2>6 DEF ShowStatuses, Undisturbed
  <2>7. QED BY <1>3, <2>2, <2>3, <2>4, <2>5, <2>6 DEF List
<1>4. QED BY <1>1, <1>2, <1>3 DEF ListNext

(* Everything is in order: locked as declared and checked out as locked.     *)
InOrder ==
  /\ LockMatchesConfig(lock.entries)
  /\ \A id \in Declared : lock.entries[id] # None /\ AtRev(id, lock.entries[id].commit)

LEMMA StateRead ==   \* what a row says of a checkout
  ASSUME NEW spec, NEW entry, NEW d \in Checkout \cup {Missing, Broken}, entry # None
  PROVE  StateOf(spec, entry, Health(d)) \notin {"missing", "broken", "outdated"}
           <=> Healthy(d) /\ d.head = entry.commit
  BY ListingAssumption DEF StateOf, Health, Healthy, Checkout

LEMMA StaleIsMismatch == ~Stale(config, lock) => LockMatchesConfig(lock.entries)
  BY DEF Stale, LockMatchesConfig

LEMMA ReadInFull ==
  ASSUME LInv, Undisturbed, at = "markers", beside = "nothing"
  PROVE  /\ view.cfg = config /\ view.lock = lock /\ Listed = Declared
         /\ \A id \in Declared : view.health[id] = Health(disk[id])
<1>1. view.cfg = config /\ view.lock = lock /\ Listed = Declared
  BY DEF LInv, Reading, Undisturbed, Listed, Declared
<1>2. QED BY <1>1 DEF LInv, Reading, Undisturbed

LEMMA SettledInOrder ==
  ASSUME IInv, LInv, Undisturbed, at = "markers", beside = "nothing", RowsSettled
  PROVE  InOrder
<1>1. LockMatchesConfig(lock.entries)
  BY ReadInFull, StaleIsMismatch DEF RowsSettled
<1>2. ASSUME NEW id \in Declared
      PROVE  lock.entries[id] # None /\ AtRev(id, lock.entries[id].commit)
  <2>1. lock.entries[id] # None /\ disk[id] \in Checkout \cup {Missing, Broken}
    BY <1>1, <1>2 DEF LockMatchesConfig, Declared, IInv, TypeOK, Disk
  <2>2. StateOf(config[id], lock.entries[id], Health(disk[id]))
          \notin {"missing", "broken", "outdated"}
    BY <1>2, ReadInFull DEF RowsSettled
  <2>3. QED BY <2>1, <2>2, StateRead DEF AtRev
<1>3. QED BY <1>1, <1>2 DEF InOrder

(* A command that finds everything in order has nothing to do.               *)
Sits ==
  /\ pc \in {"select", "apply", "write", "load"} /\ pending = {}
  /\ mem.entries = lock.entries /\ InOrder

LEMMA SitsStill ==
  ASSUME IInv, Sits, op.cmd \notin {"update", "clean"}, Next
  PROVE  /\ lock'.entries = lock.entries /\ disk' = disk
         /\ edits' = edits /\ pc' # "idle" => Sits' /\ op'.cmd = op.cmd
<1> USE DEF Sits
<1>2. ASSUME UNCHANGED <<config, disk>>, lock'.entries = lock.entries, op'.cmd = op.cmd,
             pending' = {}, mem'.entries = lock'.entries,
             pc' \in {"select", "apply", "write", "load"}
      PROVE  Sits' /\ op'.cmd = op.cmd
  BY <1>2 DEF InOrder, LockMatchesConfig, Declared, AtRev
<1>3. \A id \in Scope : /\ id \in Plugins /\ mem.entries[id] # None /\ mem.entries[id].hash = config[id]
                        /\ AtRev(id, mem.entries[id].commit)
  BY DEF InOrder, LockMatchesConfig, Scope, Declared
<1>4. CASE Select
  <2>1. {id \in Scope : NeedsReconcile(id)} = {} /\ InstallCandidates = {}
        /\ LockedInScope \ AlreadyRestored = {}
    BY <1>3 DEF NeedsReconcile, InstallCandidates, LockedInScope, AlreadyRestored, AtRev
  <2>2. CASE SelectSync
    BY <1>2, <2>1, <2>2 DEF SelectSync, Selects, env
  <2>3. CASE SelectInstall
    <3>1. disk' = disk
      BY <2>1, <2>3 DEF SelectInstall, IInv, TypeOK, Disk
    <3>2. QED BY <1>2, <2>1, <2>3, <3>1 DEF SelectInstall, Selects, env
  <2>4. CASE SelectRestore
    BY <1>2, <2>1, <2>4 DEF SelectRestore, Selects, env
  <2>5. CASE SelectRestoreFails
    BY <2>5 DEF SelectRestoreFails, EndsWith
  <2>6. QED BY <1>4, <2>2, <2>3, <2>4, <2>5 DEF Select, SelectUpdate
<1>5. CASE FinishApply
  <2>1. pc' = "write" /\ UNCHANGED <<config, lock, disk, op, pending>>
    BY <1>5 DEF FinishApply, env, store, work
  <2>2. LockMatchesConfig(mem.entries) /\ mem \in LockFile
    BY DEF InOrder, IInv, TypeOK
  <2>3. Pruned(mem.entries) = mem.entries
    BY <2>2 DEF Pruned, LockMatchesConfig, LockFile, Entries
  <2>4. mem'.entries = mem.entries
    BY <1>5, <2>2, <2>3 DEF FinishApply, SyncedLock, LockFile
  <2>5. QED BY <1>2, <2>1, <2>4
<1>6. CASE Finish /\ ~FinishApply
  <2>1. CASE FinishRestore \/ WriteFails \/ Load \/ CleanDone \/ WriteAndStop \/ WriteFollow
    BY <2>1 DEF FinishRestore, WriteFails, Load, CleanDone, WriteAndStop, WriteFollow, Writes,
       EndsWith, store
  <2>2. CASE WriteAndFollow
    BY <1>2, <2>2 DEF WriteAndFollow, Writes, env, IInv, TypeOK
  <2>3. CASE WriteAndLoadOrClean
    BY <1>2, <2>3 DEF WriteAndLoadOrClean, Writes, env
  <2>4. QED BY <1>6, <2>1, <2>2, <2>3 DEF Finish, Scan
<1>7. CASE Crash
  <2>1. BeingRemoved = {}
    BY DEF BeingRemoved
  <2>2. QED BY <1>7, <2>1 DEF Crash, EndsWith
<1>8. CASE Environment \/ \E cmd, target : Start(cmd, target)
  <2>1. edits \in Nat
    BY DEF IInv, TypeOK
  <2>2. QED BY <1>8, <2>1 DEF Environment, EditConfig, Damage, Pull, Intervenes, UpstreamMoves,
               Edit, Start, store
<1>9. ASSUME Publish \/ \E id \in Plugins : \/ PrepareSucceeds(id) \/ PrepareFails(id) \/ Apply(id)
                                           \/ RemoveManaged(id) \/ RemoveManagedFails(id)
      PROVE  FALSE
  BY <1>9 DEF Publish, BuildSucceeds, BuildFails, RemoveTarget, Rename, SwapFails, Track,
     TrackFails, PrepareSucceeds, PrepareFails, Prepares, Apply, SkipUnprepared, Adopt,
     AdoptFails, AbortUpdate, SkipKnownFailure, BeginPublish, Applies, First, RemoveManaged,
     RemoveManagedFails
<1>10. QED BY <1>4, <1>5, <1>6, <1>7, <1>8, <1>9 DEF Next, Process

LEMMA IdleStarts ==
  ASSUME IInv, Next, pc = "idle", edits' = edits
  PROVE  \E cmd, target : Start(cmd, target)
<1>1. edits \in Nat
  BY DEF IInv, TypeOK
<1>2. ~Environment
  BY <1>1 DEF Environment, EditConfig, Damage, Pull, Intervenes, UpstreamMoves, Edit
<1>3. ~Select /\ ~Publish /\ ~Finish /\ ~Crash
  BY DEF Select, SelectSync, SelectInstall, SelectUpdate, SelectRestore, SelectRestoreFails,
     Publish, BuildSucceeds, BuildFails, RemoveTarget, Rename, SwapFails, Track, TrackFails,
     Finish, FinishApply, FinishRestore, PhaseDone, WriteAndStop, WriteAndFollow,
     WriteAndLoadOrClean, WriteFollow, WriteFails, Writes, Load, Scan, CleanDone, Crash
<1>4. ASSUME NEW id \in Plugins
      PROVE  ~(\/ PrepareSucceeds(id) \/ PrepareFails(id) \/ Apply(id)
               \/ RemoveManaged(id) \/ RemoveManagedFails(id))
  BY DEF PrepareSucceeds, PrepareFails, Prepares, Apply, SkipUnprepared, Adopt, AdoptFails,
     AbortUpdate, SkipKnownFailure, BeginPublish, Applies, RemoveManaged, RemoveManagedFails
<1>5. QED BY <1>2, <1>3, <1>4 DEF Next, Process

LEMMA SameCommand ==
  ASSUME IInv, Next, pc # "idle"
  PROVE  op'.cmd = op.cmd
<1>1. CASE Process
  <2>1. ASSUME NEW id \in Plugins, \/ PrepareSucceeds(id) \/ PrepareFails(id) \/ Apply(id)
                                 \/ RemoveManaged(id) \/ RemoveManagedFails(id)
        PROVE  op' = op
    BY <2>1 DEF PrepareSucceeds, PrepareFails, Prepares, Apply, SkipUnprepared, Adopt, AdoptFails,
       AbortUpdate, SkipKnownFailure, BeginPublish, Applies, RemoveManaged, RemoveManagedFails
  <2>2. CASE Select \/ Publish
    BY <2>2 DEF Select, SelectSync, SelectInstall, SelectUpdate, SelectRestore,
       SelectRestoreFails, Selects, Publish, BuildSucceeds, BuildFails, RemoveTarget, Rename,
       SwapFails, PublishFails, Track, TrackFails, NextPlugin
  <2>3. CASE Finish
    BY <2>3 DEF Finish, FinishApply, FinishRestore, WriteAndStop, WriteAndFollow,
       WriteAndLoadOrClean, WriteFollow, WriteFails, Load, Scan, CleanDone, IInv, TypeOK
  <2>4. QED BY <1>1, <2>1, <2>2, <2>3 DEF Process
<1>2. CASE ~Process
  BY <1>2 DEF Next, Start, Crash, Environment, EditConfig, Damage, Pull, Intervenes, UpstreamMoves
<1>3. QED BY <1>1, <1>2

(* After a list that has nothing to report, commands sit still.              *)
QInv ==
  /\ quiet \in BOOLEAN
  /\ quiet => IF pc = "idle" THEN InOrder ELSE op.cmd \in {"update", "clean"} \/ Sits

LEMMA NextQuiet ==
  ASSUME IInv, KInv, LInv, Undisturbed, QInv, [ListNext]_listVars
  PROVE  QInv'
<1>1. ASSUME UNCHANGED <<vars, quiet>> PROVE QInv'
  BY <1>1 DEF vars, env, store, work, QInv, InOrder, LockMatchesConfig, Declared, AtRev, Sits
<1>2. CASE List /\ UNCHANGED vars
  <2>1. CASE ShowStatuses
    <3>1. quiet' = (ListsSettled /\ beside = "nothing" /\ pc = "idle") /\ at = "markers"
      BY <2>1 DEF ShowStatuses
    <3>2. quiet' => InOrder
      BY <3>1, SettledInOrder DEF ListsSettled
    <3>3. InOrder' = InOrder /\ pc' = pc
      BY <1>2 DEF vars, env, store, InOrder, LockMatchesConfig, Declared, AtRev
    <3>4. QED BY <3>1, <3>2, <3>3 DEF QInv
  <2>2. CASE ~ShowStatuses
    <3>1. quiet' = quiet
      BY <1>2, <2>2 DEF List, ReadConfiguration, ReadLockfile, InspectCheckout, CheckoutsRead
    <3>2. QED BY <1>1, <1>2, <3>1
  <2>3. QED BY <2>1, <2>2
<1>3. CASE Next /\ Observe
  <2>1. quiet' = (quiet /\ edits' = edits /\ pc' # "idle")
    BY <1>3 DEF Observe
  <2>2. ASSUME quiet, edits' = edits, pc' # "idle", pc = "idle" PROVE Sits'
    <3>1. edits \in Nat /\ InOrder
      BY <2>2 DEF IInv, TypeOK, QInv
    <3>2. PICK cmd, target : Start(cmd, target)
      BY <1>3, <2>2, <3>1, IdleStarts
    <3>3. pending = {}
      BY <2>2 DEF KInv, Drained
    <3>4. QED BY <2>2, <3>1, <3>2, <3>3 DEF Start, env, store, Sits, InOrder, LockMatchesConfig,
                 Declared, AtRev
  <2>3. ASSUME quiet, edits' = edits, pc' # "idle", pc # "idle"
        PROVE  op'.cmd \in {"update", "clean"} \/ Sits'
    <3>1. CASE op.cmd \in {"update", "clean"}
      BY <1>3, <2>3, <3>1, SameCommand
    <3>2. CASE op.cmd \notin {"update", "clean"}
      BY <1>3, <2>3, <3>2, SitsStill DEF QInv
    <3>3. QED BY <3>1, <3>2
  <2>4. QED BY <2>1, <2>2, <2>3 DEF QInv
<1>4. QED BY <1>1, <1>2, <1>3 DEF ListNext, listVars, listing

ListInv == GInv /\ CleansUndeclared /\ LInv /\ Undisturbed /\ QInv

LEMMA InitListInv == ListInit => ListInv
  BY InitCommandsInv, InitReading
     DEF ListInit, Init, ListInv, CleansUndeclared, Undisturbed, QInv

LEMMA NextListInv == ListInv /\ [ListNext]_listVars => ListInv'
  BY NextCommandsInv, Undisturbing, NextCleans, NextReads, NextUndisturbed, NextQuiet
     DEF ListInv, GInv

(* When an undisturbed list reports nothing, the next command changes no     *)
(* entry and no checkout, unless it is an update or a clean (sync.rs         *)
(* 296-328, plugin.rs 154-237 and 290-446).                                  *)
LEMMA NothingIsLeft == ListInv /\ [ListNext]_listVars => SettledLeavesNothing
<1> SUFFICES ASSUME ListInv, [ListNext]_listVars, quiet, pc # "idle",
                    op.cmd \notin {"update", "clean"}
             PROVE  lock'.entries = lock.entries /\ UNCHANGED disk
  BY DEF SettledLeavesNothing
<1>1. IInv /\ Sits
  BY DEF ListInv, GInv, QInv
<1>2. CASE Next
  BY <1>1, <1>2, SitsStill
<1>3. CASE UNCHANGED vars
  BY <1>3 DEF vars, store
<1>4. QED BY <1>2, <1>3, Undisturbing

THEOREM SettledIsLeftAlone == ListSpec => [][SettledLeavesNothing]_listVars
<1>1. QED BY InitListInv, NextListInv, NothingIsLeft, PTL DEF ListSpec

(* After a sync of everything that succeeded list shows no warning and no    *)
(* row out of order, if no declaration pins a shortened hash.                *)
LEMMA SyncIsSettled ==
  ASSUME Abbrevs = {}, ListInv
  PROVE  SyncSettles
<1> SUFFICES ASSUME at = "markers", beside = "nothing", Concluded("ok"), op.cmd = "sync",
                    op.target = All
             PROVE  RowsSettled
  BY DEF SyncSettles
<1> USE DEF ListInv, GInv
<1>1. Covered = Declared
  BY DEF Covered, Scope, KInv, NoneLost, InitCommands
<1>2. ~LockIsStale
  BY <1>1 DEF CInv, SuccessConverges
<1>3. ~Stale(view.cfg, view.lock)
  BY <1>2, ReadInFull DEF Stale, LockIsStale, LockMatchesConfig, Declared
<1>4. ASSUME NEW id \in Declared
      PROVE  StateOf(view.cfg[id], view.lock.entries[id], view.health[id])
               \notin {"missing", "broken", "outdated"}
  <2>1. /\ lock.entries[id] # None /\ Healthy(disk[id])
        /\ disk[id].head = HeadOf[lock.entries[id].commit]
    BY <1>1, <1>4 DEF CInv, SuccessConverges
  <2>2. lock.entries[id] \in Entry /\ disk[id] \in Checkout \cup {Missing, Broken}
    BY <1>4, <2>1 DEF IInv, TypeOK, LockFile, Entries, Disk, Declared
  <2>3. disk[id].head = lock.entries[id].commit
    BY <2>1, <2>2, LifecycleAssumption DEF Entry, Revs
  <2>4. QED BY <1>4, <2>1, <2>2, <2>3, StateRead, ReadInFull
<1>5. QED BY <1>3, <1>4, ReadInFull DEF RowsSettled

(* List and sync agree on what is out of order (main.rs 349-371, planner.rs  *)
(* 144-168, sync.rs 259-328).                                                *)
THEOREM ListAgreesWithSync ==
  ASSUME Abbrevs = {}
  PROVE  ListSpec => ListAndSyncAgree
<1>1. ListInv => SyncSettles
  BY SyncIsSettled
<1>2. QED BY <1>1, InitListInv, NextListInv, NothingIsLeft, PTL DEF ListSpec, ListAndSyncAgree

(* Where nothing fails and nobody else writes, an undisturbed list without a *)
(* warning and without a row out of order calls no build successful but the  *)
(* one that made the checkout (planner.rs 172-186, sync.rs 527-541).         *)
THEOREM SuccessMeansBuilt ==
  ASSUME Calm
  PROVE  ListSpec => SuccessWasBuilt
<1>1. ListInit => BInv
  BY DEF ListInit, Init, BInv, Built, Healthy, Following
<1>2. GInv /\ BInv /\ [ListNext]_listVars => BInv'
  BY Undisturbing, NextBuilds
<1>3. ASSUME ListInv, BInv, at = "markers", beside = "nothing", pc = "idle", RowsSettled,
             NEW id \in Listed
      PROVE  disk[id].build = view.cfg[id].build
  <2>1. InOrder /\ id \in Declared /\ view.cfg = config
    BY <1>3, SettledInOrder, ReadInFull DEF ListInv, GInv
  <2>2. id \in Plugins /\ lock.entries[id] # None /\ lock.entries[id].hash = config[id] /\ Healthy(disk[id])
    BY <2>1 DEF InOrder, LockMatchesConfig, AtRev, Declared
  <2>3. disk[id] = Made(lock.entries[id])
    BY <1>3, <2>2 DEF BInv, Built, Tracking
  <2>4. QED BY <2>1, <2>2, <2>3 DEF Made
<1>4. ListInv /\ BInv =>
        (at = "markers" /\ at' = "idle" /\ beside = "nothing" /\ pc = "idle" /\ RowsSettled =>
          \A id \in Listed : BuildStatus(view.cfg[id], view.health[id], markers[id]) = "ok" =>
             disk[id].build = view.cfg[id].build)
  BY <1>3
<1>5. ListInv => GInv
  BY DEF ListInv
<1>6. QED BY <1>1, <1>2, <1>4, <1>5, InitListInv, NextListInv, PTL DEF ListSpec, SuccessWasBuilt
=============================================================================
