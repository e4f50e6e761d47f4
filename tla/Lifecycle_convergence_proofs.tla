--------------------- MODULE Lifecycle_convergence_proofs ---------------------
(* What success means, for every instance: every plugin that a command covers *)
(* is locked under its declaration and checked out at the locked revision.    *)
EXTENDS Lifecycle_proofs

Working   == {"prepare", "apply"} \cup PublishPhases
Following == pc # "idle" /\ op.phase = "follow"
Restoring == Following /\ op.cmd = "restore"
Updating  == Following /\ op.cmd = "update"
Current(id) == pc \in PublishPhases /\ id = cur

USE DEF PublishPhases, Working

-----------------------------------------------------------------------------
(* Control.  Which command is where, whom it works on, and what it has lost. *)
Drained == pc \in {"idle", "select", "write", "load", "scan"} => pending = {}

Commanded ==
  /\ op.cmd \in InitCommands \cup {"clean"} => op.target = All
  /\ op.phase = "follow" => op.cmd \in {"install", "update", "restore"}
  /\ pc = "load" => op.cmd \in InitCommands
  /\ pc \in {"scan", "clean"} => op.cmd = "clean"
  /\ pc = "write" => ~Restoring

NoneLost ==      \* nothing is lost when a phase begins; only init skips plugins
  /\ op.cmd \notin InitCommands => skipped = {}
  /\ pc = "select" => Untroubled /\ skipped = {}

InScope ==
  /\ pc \in Working => pending \subseteq Scope
  /\ pc \in PublishPhases => cur \in Scope

FreshResults ==  \* what has been prepared is for the current declaration
  \A id \in Plugins : prepared[id] # None => pc # "idle" /\ prepared[id].hash = config[id]

KInv == Drained /\ Commanded /\ NoneLost /\ InScope /\ FreshResults

LEMMA EndControl ==
  ASSUME KInv, NEW res, EndsWith(res), op' = op, skipped' \in {skipped, {}}
  PROVE  KInv'
<1>1. pc' = "idle" /\ pending' = {} /\ \A id \in Plugins : prepared'[id] = None
  BY DEF EndsWith
<1>2. QED BY <1>1 DEF KInv, Drained, Commanded, NoneLost, InScope, FreshResults, Restoring, Following

LEMMA StartControl ==
  ASSUME KInv, NEW cmd \in Commands, NEW target, Start(cmd, target)
  PROVE  KInv'
<1>1. /\ op' = [cmd |-> cmd, target |-> target, phase |-> "sync"]
      /\ pc = "idle" /\ pc' = "select" /\ UNCHANGED <<pending, prepared>>
      /\ failed' = [id \in Plugins |-> "no"] /\ skipped' = {}
      /\ cmd \in InitCommands \cup {"clean"} => target = All
  BY DEF Start
<1>2. Untroubled'
  BY <1>1 DEF Untroubled
<1>3. QED BY <1>1, <1>2 DEF KInv, Drained, Commanded, NoneLost, InScope, FreshResults, Restoring,
     Following

LEMMA SelectControl ==
  ASSUME IInv, KInv, Select
  PROVE  KInv'
<1>1. ASSUME NEW S \in SUBSET Scope, pc = "select", Selects(S)
      PROVE  KInv'
  <2>1. /\ pending' = S /\ pc' \in {"prepare", "apply"}
        /\ UNCHANGED <<config, op, prepared, failed, skipped>>
    BY <1>1 DEF Selects, env, tally
  <2>2. Scope' = Scope
    BY <2>1 DEF Scope, Declared
  <2>3. QED BY <1>1, <2>1, <2>2 DEF KInv, Drained, Commanded, NoneLost, InScope, FreshResults
<1>2. CASE SelectSync \/ SelectInstall \/ SelectUpdate \/ SelectRestore
  BY <1>1, <1>2 DEF SelectSync, SelectInstall, SelectUpdate, SelectRestore, InstallCandidates,
     LockedInScope
<1>3. CASE SelectRestoreFails
  BY <1>3, EndControl DEF SelectRestoreFails, tally
<1>4. QED BY <1>2, <1>3 DEF Select

LEMMA PreparedHash ==
  ASSUME IInv, NEW id \in Declared
  PROVE  PreparedEntry(id).hash = config[id]
<1>1. id \in Plugins /\ mem.entries \in Entries /\ config[id] \in Specs
  BY DEF IInv, TypeOK, LockFile, Declared, Config
<1>2. CASE KeepsRevision(id)
  <2>1. mem.entries[id] \in Entry
    BY <1>1, <1>2 DEF KeepsRevision, Entries
  <2>2. QED BY <1>2, <2>1 DEF PreparedEntry, Entry
<1>3. CASE ~KeepsRevision(id)
  BY <1>3 DEF PreparedEntry, Resolved
<1>4. QED BY <1>2, <1>3

LEMMA PrepareControl ==
  ASSUME IInv, KInv, NEW id \in Plugins, PrepareSucceeds(id) \/ PrepareFails(id)
  PROVE  KInv'
<1>1. /\ pc = "prepare" /\ pc' \in {"prepare", "apply"} /\ id \in waiting
      /\ UNCHANGED <<config, op, pending, failed, skipped>>
      /\ prepared' \in {prepared, [prepared EXCEPT ![id] = PreparedEntry(id)]}
  BY DEF PrepareSucceeds, PrepareFails, Prepares, env, tally
<1>2. id \in Declared /\ prepared \in [Plugins -> Entry \cup {None}]
  BY <1>1 DEF IInv, TypeOK, Queued, Entries
<1>3. FreshResults'
  BY <1>1, <1>2, PreparedHash DEF KInv, FreshResults
<1>4. Scope' = Scope
  BY <1>1 DEF Scope, Declared
<1>5. QED BY <1>1, <1>3, <1>4 DEF KInv, Drained, Commanded, NoneLost, InScope

LEMMA TurnControl ==   \* a plugin's turn goes on
  ASSUME IInv, KInv, pc \in Working, pc' \in {"apply"} \cup PublishPhases,
         UNCHANGED <<config, op>>, pending' \subseteq pending,
         pc' \in PublishPhases => cur' \in Scope,
         skipped' = skipped \/ op.cmd \in InitCommands,
         \A p \in Plugins : prepared'[p] \in {None, prepared[p]}
  PROVE  KInv'
<1>1. Scope' = Scope
  BY DEF Scope, Declared
<1>2. QED BY <1>1 DEF KInv, Drained, Commanded, NoneLost, InScope, FreshResults

LEMMA ApplyControl ==
  ASSUME IInv, KInv, NEW id \in Plugins, Apply(id)
  PROVE  KInv'
<1>1. CASE AbortUpdate(id)
  BY <1>1, EndControl DEF AbortUpdate, tally
<1>2. CASE ~AbortUpdate(id)
  <2>1. /\ pc = "apply" /\ id \in pending /\ pc' \in {"apply"} \cup PublishPhases
        /\ pending' = pending \ {id} /\ UNCHANGED <<config, op>>
        /\ pc' \in PublishPhases => cur' = id
    BY <1>2 DEF Apply, SkipUnprepared, Adopt, AdoptFails, SkipKnownFailure, BeginPublish,
       Applies, First, Swap, env
  <2>2. prepared' \in {prepared, [prepared EXCEPT ![id] = None]}
    BY <1>2 DEF Apply, SkipUnprepared, Adopt, AdoptFails, SkipKnownFailure, BeginPublish
  <2>3. skipped' = skipped \/ op.cmd \in InitCommands
    BY <1>2 DEF Apply, SkipUnprepared, Adopt, AdoptFails, SkipKnownFailure, SkipsKnownFailure,
       BeginPublish, tally
  <2>4. \A p \in Plugins : prepared'[p] \in {None, prepared[p]}
    BY <2>2 DEF IInv, TypeOK, Entries
  <2>5. QED BY <2>1, <2>3, <2>4, TurnControl DEF KInv, InScope
<1>3. QED BY <1>1, <1>2

LEMMA PublishControl ==
  ASSUME IInv, KInv, Publish
  PROVE  KInv'
<1>1. /\ pc \in PublishPhases /\ pc' \in {"apply"} \cup PublishPhases
      /\ UNCHANGED <<config, op, pending, skipped>> /\ (pc' \in PublishPhases => cur' = cur)
  BY DEF Publish, BuildSucceeds, BuildFails, RemoveTarget, Rename, SwapFails, PublishFails,
     Track, TrackFails, NextPlugin, Swap, env, work, tally
<1>2. prepared' \in {prepared, [prepared EXCEPT ![cur] = None]}
  BY DEF Publish, BuildSucceeds, BuildFails, RemoveTarget, Rename, SwapFails, PublishFails,
     Track, TrackFails, NextPlugin, work
<1>3. \A p \in Plugins : prepared'[p] \in {None, prepared[p]}
  BY <1>2 DEF IInv, TypeOK, Entries
<1>4. QED BY <1>1, <1>3, TurnControl DEF KInv, InScope

LEMMA FinishControl ==
  ASSUME IInv, KInv, Finish
  PROVE  KInv'
<1>1. CASE FinishApply
  <2>1. /\ pc = "apply" /\ pending = {} /\ pc' = "write" /\ ~Restoring
        /\ UNCHANGED <<config, op, pending, prepared, failed, skipped>>
    BY <1>1 DEF FinishApply, PhaseDone, Restoring, Following, env, work, tally
  <2>2. QED BY <2>1 DEF KInv, Drained, Commanded, NoneLost, InScope, FreshResults, Restoring,
        Following
<1>2. CASE FinishRestore \/ WriteAndStop \/ WriteFollow \/ WriteFails \/ Load \/ CleanDone
  BY <1>2, EndControl DEF FinishRestore, WriteAndStop, WriteFollow, WriteFails, Writes, Load,
     CleanDone, tally
<1>3. CASE WriteAndFollow
  <2>1. /\ pc = "write" /\ pc' = "select" /\ op.cmd \in {"install", "update", "restore"}
        /\ op' = [op EXCEPT !.phase = "follow"] /\ ~Stops
        /\ UNCHANGED <<config, pending, prepared, failed, skipped>>
    BY <1>3 DEF WriteAndFollow, Writes, env, tally
  <2>2. op'.cmd = op.cmd /\ op'.target = op.target /\ op.cmd \notin InitCommands
    BY <2>1 DEF IInv, TypeOK, InitCommands
  <2>3. Untroubled
    BY <2>1, <2>2 DEF Stops
  <2>4. QED BY <2>1, <2>2, <2>3 DEF KInv, Drained, Commanded, NoneLost, InScope, FreshResults,
        Untroubled, InitCommands
<1>4. CASE WriteAndLoadOrClean
  <2>1. /\ pc = "write" /\ pc' = IF op.cmd = "clean" THEN "scan" ELSE "load"
        /\ op.cmd \in InitCommands \cup {"clean"}
        /\ UNCHANGED <<config, op, pending, prepared, failed, skipped>>
    BY <1>4 DEF WriteAndLoadOrClean, Writes, env, tally
  <2>2. QED BY <2>1 DEF KInv, Drained, Commanded, NoneLost, InScope, FreshResults, Restoring,
        Following
<1>5. CASE Scan
  <2>1. /\ pc = "scan" /\ pc' = "clean"
        /\ UNCHANGED <<config, op, prepared, failed, skipped>>
    BY <1>5 DEF Scan, env, tally
  <2>2. QED BY <2>1 DEF KInv, Drained, Commanded, NoneLost, InScope, FreshResults
<1>6. QED BY <1>1, <1>2, <1>3, <1>4, <1>5 DEF Finish

LEMMA RemoveControl ==
  ASSUME IInv, KInv, NEW id \in Plugins, RemoveManaged(id) \/ RemoveManagedFails(id)
  PROVE  KInv'
<1>1. CASE RemoveManagedFails(id)
  BY <1>1, EndControl DEF RemoveManagedFails, tally
<1>2. CASE RemoveManaged(id)
  BY <1>2 DEF RemoveManaged, env, tally, KInv, Drained, Commanded, NoneLost, InScope, FreshResults
<1>3. QED BY <1>1, <1>2

LEMMA EnvironmentControl ==
  ASSUME KInv, Environment \/ UNCHANGED vars
  PROVE  KInv'
<1>1. UNCHANGED <<pc, op, pending, prepared, cur, failed, skipped>>
      /\ (pc = "idle" \/ config' = config)
  BY DEF Environment, EditConfig, Damage, Pull, Intervenes, UpstreamMoves, vars, env, work, tally
<1>2. QED BY <1>1 DEF KInv, Drained, Commanded, NoneLost, InScope, FreshResults, Restoring,
     Following, Untroubled, Scope, Declared

LEMMA NextControl ==
  ASSUME IInv, KInv, [Next]_vars
  PROVE  KInv'
<1>1. CASE \E cmd \in Commands, target \in Plugins \cup {All} : Start(cmd, target)
  BY <1>1, StartControl
<1>2. CASE Process
  BY <1>2, SelectControl, PublishControl, FinishControl, PrepareControl, ApplyControl,
     RemoveControl DEF Process
<1>3. CASE Crash
  BY <1>3, EndControl DEF Crash
<1>4. CASE Environment \/ UNCHANGED vars
  BY <1>4, EnvironmentControl
<1>5. QED BY <1>1, <1>2, <1>3, <1>4 DEF Next

-----------------------------------------------------------------------------
(* Convergence.  A plugin whose turn is over has lost, has nothing to keep,  *)
(* or is in place: locked under its declaration and at the locked revision.  *)
Synced(id) ==
  /\ mem.entries[id] # None /\ mem.entries[id].hash = config[id]
  /\ Healthy(disk[id]) /\ disk[id].head = HeadOf[mem.entries[id].commit]
Exempt(id)  == op.cmd = "clean" \/ (op.cmd = "initRepair" /\ mem.entries[id] = None)
Settled(id) == id \in Excluded \/ Exempt(id) \/ Synced(id)

Reached ==       \* where a turn may be over
  pc \in Working \cup {"write", "load"} \/ (pc = "select" /\ op.phase = "follow")

Converging == Reached => \A id \in Scope : id \in pending \/ Current(id) \/ Settled(id)

Frozen ==        \* restore changes no entry, and lock and memory agree
  Restoring =>
    /\ lock = mem
    /\ \A id \in Scope : mem.entries[id] # None /\ mem.entries[id].hash = config[id]
    /\ \A id \in Plugins : prepared[id] \in {None, mem.entries[id]}

Whole ==         \* without a target: no undeclared entry, and the fingerprint
  (op.target = All /\ (Following \/ pc \in {"write", "load"})) =>
    /\ \A id \in Plugins \ Declared : mem.entries[id] = None
    /\ Following \/ LockMatchesConfig(mem.entries) => mem.fp = config

CInv ==
  /\ Converging /\ Frozen /\ Whole
  /\ pc = "load" => lock = mem
  /\ SuccessConverges

LEMMA MatchesSettled ==   \* who is settled matches the configuration
  ASSUME IInv, \A id \in Declared : mem.entries[id] # None /\ mem.entries[id].hash = config[id],
         \A id \in Plugins \ Declared : mem.entries[id] = None
  PROVE  LockMatchesConfig(mem.entries)
  BY DEF LockMatchesConfig, Declared

(* A command that succeeds has every covered plugin in memory as it should   *)
(* be, and memory is what the lockfile says.                                 *)
LEMMA EndsConverged ==
  ASSUME IInv, KInv, CInv, EndsWith("ok"), Untroubled, UNCHANGED <<config, op, disk, skipped>>,
         lock' = mem, op.cmd = "clean" \/ (Reached /\ pending = {} /\ pc \notin PublishPhases
                                           /\ (Following \/ pc \in {"write", "load"}))
  PROVE  CInv'
<1>1. pc' = "idle" /\ result' = "ok" /\ Scope' = Scope /\ Declared' = Declared
  BY DEF EndsWith, Scope, Declared
<1>2. CASE op.cmd = "clean"
  BY <1>1, <1>2 DEF CInv, Converging, Reached, Frozen, Restoring, Following, Whole,
     SuccessConverges, Covered
<1>3. CASE op.cmd # "clean"
  <2>1. Covered' \subseteq Scope /\ Covered' \cap skipped = {}
    BY <1>1 DEF Covered
  <2>2. \A id \in Covered' : Synced(id)
    <3>1. ASSUME NEW id \in Covered' PROVE Synced(id)
      <4>1. Settled(id)
        BY <1>3, <2>1 DEF CInv, Converging, Current
      <4>2. id \notin Excluded
        BY <2>1 DEF Excluded, Untroubled
      <4>3. ~Exempt(id)
        BY <1>3 DEF Exempt, Covered
      <4>4. QED BY <4>1, <4>2, <4>3 DEF Settled
    <3>2. QED BY <3>1
  <2>3. ASSUME op.target = All, Covered' = Declared PROVE ~LockIsStale'
    <3>1. \A id \in Plugins \ Declared : mem.entries[id] = None
      BY <1>3, <2>3 DEF CInv, Whole
    <3>2. LockMatchesConfig(mem.entries)
      BY <2>2, <2>3, <3>1, MatchesSettled DEF Synced
    <3>3. mem.fp = config
      BY <1>3, <2>3, <3>2 DEF CInv, Whole
    <3>4. LockMatchesConfig(lock.entries)'
      BY <3>2 DEF LockMatchesConfig
    <3>5. QED BY <1>1, <3>1, <3>3, <3>4 DEF LockIsStale, Declared
  <2>4. ASSUME NEW id \in Covered'
        PROVE  /\ lock'.entries[id] # None /\ lock'.entries[id].hash = config'[id]
               /\ Healthy(disk'[id]) /\ disk'[id].head = HeadOf[lock'.entries[id].commit]
    <3>1. Synced(id)
      BY <2>2
    <3>2. lock' = mem /\ disk' = disk /\ config' = config
      OBVIOUS
    <3>3. QED BY <3>1, <3>2 DEF Synced, Healthy
  <2>5. SuccessConverges'
    BY <1>1, <2>3, <2>4 DEF SuccessConverges, Healthy
  <2>6. QED BY <1>1, <2>5 DEF CInv, Converging, Reached, Frozen, Restoring, Following, Whole
<1>4. QED BY <1>2, <1>3

LEMMA EndsOtherwise ==
  ASSUME NEW res, res # "ok", EndsWith(res)
  PROVE  CInv'
  BY DEF EndsWith, CInv, Converging, Reached, Frozen, Restoring, Following, Whole,
     SuccessConverges, Concluded

LEMMA EndsConverging ==
  ASSUME IInv, KInv, CInv, EndsWith(Verdict), UNCHANGED <<config, op, disk, skipped>>,
         lock' = mem, op.cmd = "clean" \/ (Reached /\ pending = {} /\ pc \notin PublishPhases
                                           /\ (Following \/ pc \in {"write", "load"}))
  PROVE  CInv'
<1>1. CASE Untroubled
  BY <1>1, EndsConverged DEF Verdict
<1>2. CASE ~Untroubled
  BY <1>2, EndsOtherwise DEF Verdict
<1>3. QED BY <1>1, <1>2

(* One plugin's turn moves on: the others stay as they are.                  *)
LEMMA TurnConverges ==
  ASSUME IInv, KInv, CInv, pc \in Working, pc' \in Working, NEW id \in Scope,
         UNCHANGED <<config, op, lock>>, pending \ {id} \subseteq pending',
         \A p \in Plugins : p # id => /\ disk'[p] = disk[p] /\ failed'[p] = failed[p]
                                      /\ mem'.entries[p] = mem.entries[p],
         skipped \subseteq skipped', mem'.fp = mem.fp,
         \A p \in Plugins : Current(p) => p = id,
         (id \in pending \/ Current(id) \/ Settled(id))',
         Restoring => mem' = mem /\ \A p \in Plugins : prepared'[p] \in {None, mem.entries[p]}
  PROVE  CInv'
<1>1. Scope' = Scope /\ Declared' = Declared /\ Scope \subseteq Declared /\ Declared \subseteq Plugins
      /\ (Following' <=> Following) /\ (Restoring' <=> Restoring)
  BY DEF Scope, Declared, Following, Restoring
<1>2. Converging'
  <2>1. ASSUME NEW p \in Scope, p # id, p \notin pending', ~Current(p)' PROVE Settled(p)'
    <3>1. p \in Plugins /\ Settled(p)
      BY <1>1, <2>1 DEF CInv, Converging, Reached
    <3>2. disk'[p] = disk[p] /\ failed'[p] = failed[p] /\ mem'.entries[p] = mem.entries[p]
      BY <2>1, <3>1
    <3>3. QED BY <3>1, <3>2 DEF Settled, Excluded, Exempt, Synced, Healthy
  <2>2. QED BY <1>1, <2>1 DEF Converging
<1>3. Frozen'
  BY <1>1 DEF CInv, Frozen
<1>4. Whole'
  <2>1. \A p \in Plugins \ Declared : mem'.entries[p] = mem.entries[p]
    BY <1>1
  <2>2. QED BY <1>1, <2>1 DEF CInv, Whole
<1>5. QED BY <1>2, <1>3, <1>4 DEF CInv, SuccessConverges, Concluded

LEMMA StartConverges ==
  ASSUME NEW cmd, NEW target, Start(cmd, target)
  PROVE  CInv'
<1>1. pc' = "select" /\ op'.phase = "sync" /\ result' = "running"
  BY DEF Start
<1>2. QED BY <1>1 DEF CInv, Converging, Reached, Frozen, Restoring, Following, Whole,
     SuccessConverges, Concluded

(* A commit hash is the revision that is checked out.                        *)
LEMMA AtRevHead ==
  ASSUME IInv, NEW id \in Plugins, NEW rev \in Revs, AtRev(id, rev)
  PROVE  Healthy(disk[id]) /\ disk[id].head = HeadOf[rev]
<1>1. Healthy(disk[id]) /\ disk[id].head = rev
  BY DEF AtRev
<1>2. rev \in Commits
  BY <1>1 DEF IInv, TypeOK, Disk, Checkout, Healthy
<1>3. QED BY <1>1, <1>2, LifecycleAssumption

(* What sync does not select needs nothing.                                  *)
LEMMA SelectSyncConverges ==
  ASSUME IInv, KInv, SelectSync
  PROVE  CInv'
<1>1. /\ pc' \in {"prepare", "apply"} /\ op.phase = "sync"
      /\ pending' = {id \in Scope : NeedsReconcile(id)}
      /\ UNCHANGED <<config, op, mem, disk, failed, skipped, result>>
  BY DEF SelectSync, Selects, env, tally, hist
<1>2. pc' # "idle" /\ pc' \notin {"select", "write", "load"} /\ pc' \notin PublishPhases
  BY <1>1
<1>3. Scope' = Scope /\ Scope \subseteq Plugins
  BY <1>1 DEF Scope, Declared
<1>4. ASSUME NEW id \in Scope, ~NeedsReconcile(id) PROVE Settled(id)
  <2>1. CASE mem.entries[id] = None
    BY <1>4, <2>1 DEF NeedsReconcile, Settled, Exempt
  <2>2. CASE op.cmd = "clean"
    BY <2>2 DEF Settled, Exempt
  <2>3. CASE mem.entries[id] # None /\ op.cmd # "clean"
    <3>1. mem.entries[id].hash = config[id] /\ AtRev(id, mem.entries[id].commit)
      BY <1>4, <2>3 DEF NeedsReconcile
    <3>2. mem.entries[id] \in Entry
      BY <1>3, <2>3 DEF IInv, TypeOK, LockFile, Entries
    <3>3. mem.entries[id].commit \in Revs
      BY <3>2 DEF Entry
    <3>4. QED BY <1>3, <2>3, <3>1, <3>3, AtRevHead DEF Settled, Synced
  <2>4. QED BY <2>1, <2>2, <2>3
<1>5. \A id \in Scope : Settled(id) => Settled(id)'
  BY <1>1 DEF Settled, Excluded, Exempt, Synced, Healthy
<1>6. Converging'
  BY <1>1, <1>3, <1>4, <1>5 DEF Converging
<1>7. QED BY <1>1, <1>2, <1>6 DEF CInv, Frozen, Restoring, Following, Whole, SuccessConverges,
     Concluded

(* The second phase begins with every plugin settled.                        *)
LEMMA SelectFollowConverges ==
  ASSUME IInv, KInv, CInv, op.phase = "follow", SelectInstall \/ SelectUpdate \/ SelectRestore
  PROVE  CInv'
<1>1. /\ pc = "select" /\ pc' \in {"prepare", "apply"} /\ pending = {}
      /\ UNCHANGED <<config, op, lock, mem, prepared, failed, skipped, result>>
  BY DEF SelectInstall, SelectUpdate, SelectRestore, Selects, env, tally, hist, KInv, Drained
<1>2. \A id \in Plugins : disk'[id] = disk[id] \/ disk[id] = Broken
  BY DEF SelectInstall, SelectUpdate, SelectRestore
<1>3. Scope' = Scope /\ Declared' = Declared /\ Scope \subseteq Plugins
  BY <1>1 DEF Scope, Declared
<1>4. ASSUME NEW id \in Scope PROVE Settled(id)'
  <2>1. Settled(id)
    BY <1>1 DEF CInv, Converging, Reached, Current
  <2>2. QED BY <1>1, <1>2, <1>3, <2>1 DEF Settled, Excluded, Exempt, Synced, Healthy
<1>5. Converging'
  BY <1>3, <1>4 DEF Converging
<1>6. QED BY <1>1, <1>3, <1>5 DEF CInv, Frozen, Restoring, Following, Whole, LockMatchesConfig,
     SuccessConverges, Concluded

LEMMA SelectConverges ==
  ASSUME IInv, KInv, CInv, Select
  PROVE  CInv'
<1>1. CASE SelectSync
  BY <1>1, SelectSyncConverges
<1>2. CASE SelectInstall \/ SelectUpdate \/ SelectRestore
  BY <1>2, SelectFollowConverges DEF SelectInstall, SelectUpdate, SelectRestore
<1>3. CASE SelectRestoreFails
  BY <1>3, EndsOtherwise DEF SelectRestoreFails
<1>4. QED BY <1>1, <1>2, <1>3 DEF Select

LEMMA PrepareConverges ==
  ASSUME IInv, KInv, CInv, NEW id \in Plugins, PrepareSucceeds(id) \/ PrepareFails(id)
  PROVE  CInv'
<1>1. /\ pc = "prepare" /\ pc' \in {"prepare", "apply"} /\ id \in pending
      /\ UNCHANGED <<config, op, lock, mem, disk, pending, failed, skipped>>
      /\ prepared' \in {prepared, [prepared EXCEPT ![id] = PreparedEntry(id)]}
  BY DEF PrepareSucceeds, PrepareFails, Prepares, env, store, tally, IInv, TypeOK
<1>2. id \in Scope
  BY <1>1 DEF KInv, InScope
<1>3. ASSUME Restoring, NEW p \in Plugins PROVE prepared'[p] \in {None, mem.entries[p]}
  <2>1. mem.entries[id] \in Entry /\ mem.entries[id].hash = config[id] /\ mem.entries[id] # None
    BY <1>2, <1>3 DEF CInv, Frozen, IInv, TypeOK, LockFile, Entries
  <2>2. KeepsRevision(id)
    BY <1>3, <2>1 DEF Restoring, Following, KeepsRevision
  <2>3. PreparedEntry(id) = mem.entries[id]
    BY <2>1, <2>2 DEF PreparedEntry, Entry
  <2>4. QED BY <1>1, <1>3, <2>3 DEF CInv, Frozen, IInv, TypeOK, Entries
<1>4. QED BY <1>1, <1>2, <1>3, TurnConverges DEF Current

(* A plugin that is up to date is adopted, one that is not is skipped or its *)
(* publication begins.                                                       *)
LEMMA InsertedAt ==
  ASSUME IInv, NEW id \in Plugins
  PROVE  Inserted(id).entries[id] = prepared[id] /\ Inserted(id).fp = mem.fp
<1>1. Inserted(id).entries = [mem.entries EXCEPT ![id] = prepared[id]]
      /\ Inserted(id).fp = mem.fp
  BY DEF Inserted, IInv, TypeOK, LockFile
<1>2. QED BY <1>1 DEF IInv, TypeOK, LockFile, Entries

LEMMA InsertedSame ==
  ASSUME IInv, NEW id \in Plugins, prepared[id] = mem.entries[id]
  PROVE  Inserted(id) = mem
<1>1. mem \in [entries : Entries, fp : Config \cup {None}] /\ mem.entries \in [Plugins -> Entry \cup {None}]
  BY DEF IInv, TypeOK, LockFile, Entries
<1>2. [mem.entries EXCEPT ![id] = prepared[id]] = mem.entries
  BY <1>1
<1>3. Inserted(id) = [mem EXCEPT !.entries = mem.entries]
  BY <1>2 DEF Inserted
<1>4. QED BY <1>1, <1>3

LEMMA AdoptConverges ==
  ASSUME IInv, KInv, CInv, NEW id \in Plugins, Adopt(id)
  PROVE  CInv'
<1>1. /\ pc = "apply" /\ pc' = "apply" /\ id \in pending /\ pending' = pending \ {id}
      /\ UNCHANGED <<config, op, lock, disk, failed, skipped>> /\ mem' = Inserted(id)
      /\ prepared[id] # None /\ prepared' = [prepared EXCEPT ![id] = None]
      /\ AtRev(id, prepared[id].commit)
  BY DEF Adopt, Applies, First, UpToDate, env, tally
<1>2. id \in Scope /\ prepared \in [Plugins -> Entry \cup {None}]
  BY <1>1 DEF KInv, InScope, IInv, TypeOK, Entries
<1>3. prepared[id].commit \in Revs
  BY <1>1, <1>2 DEF Entry
<1>4. mem'.entries[id] = prepared[id] /\ mem'.fp = mem.fp
      /\ \A p \in Plugins : p # id => mem'.entries[p] = mem.entries[p]
  BY <1>1, InsertedAt, InsertedElsewhere
<1>5. prepared[id].hash = config[id]
  BY <1>1 DEF KInv, FreshResults
<1>6. Healthy(disk[id]) /\ disk[id].head = HeadOf[prepared[id].commit]
  BY <1>1, <1>3, AtRevHead
<1>7. Settled(id)'
  BY <1>1, <1>4, <1>5, <1>6 DEF Settled, Synced, Healthy
<1>8. ASSUME Restoring PROVE mem' = mem /\ \A p \in Plugins : prepared'[p] \in {None, mem.entries[p]}
  <2>1. prepared[id] = mem.entries[id]
    BY <1>1, <1>8 DEF CInv, Frozen
  <2>2. QED BY <1>1, <1>2, <1>8, <2>1, InsertedSame DEF CInv, Frozen
<1>9. QED BY <1>1, <1>2, <1>4, <1>7, <1>8, TurnConverges DEF Current

LEMMA ApplyConverges ==
  ASSUME IInv, KInv, CInv, NEW id \in Plugins, Apply(id)
  PROVE  CInv'
<1>1. CASE Adopt(id)
  BY <1>1, AdoptConverges
<1>2. CASE AbortUpdate(id)
  BY <1>2, EndsOtherwise DEF AbortUpdate
<1>3. CASE SkipUnprepared(id) \/ AdoptFails(id) \/ SkipKnownFailure(id) \/ BeginPublish(id)
  <2>1. /\ pc = "apply" /\ pc' \in {"apply"} \cup PublishPhases /\ id \in pending
        /\ pending' = pending \ {id} /\ UNCHANGED <<config, op, lock, mem>>
        /\ pc' \in PublishPhases => cur' = id
    BY <1>3 DEF SkipUnprepared, AdoptFails, SkipKnownFailure, BeginPublish, Applies, First,
       Swap, env
  <2>2. id \in Scope
    BY <2>1 DEF KInv, InScope
  <2>3. \A p \in Plugins : p # id => disk'[p] = disk[p]
    BY <1>3 DEF SkipUnprepared, AdoptFails, SkipKnownFailure, BeginPublish, DropBroken, IInv,
       TypeOK, Disk
  <2>4. \A p \in Plugins : p # id => failed'[p] = failed[p]
    BY <1>3 DEF SkipUnprepared, AdoptFails, SkipKnownFailure, BeginPublish, tally, IInv, TypeOK
  <2>5. \A p \in Plugins : prepared'[p] \in {None, prepared[p]}
    BY <1>3 DEF SkipUnprepared, AdoptFails, SkipKnownFailure, BeginPublish, IInv, TypeOK, Entries
  <2>6. skipped \subseteq skipped'
    BY <1>3 DEF SkipUnprepared, AdoptFails, SkipKnownFailure, BeginPublish, tally
  <2>7. Current(id)' \/ id \in Excluded'
    BY <1>3, <2>1 DEF SkipUnprepared, AdoptFails, SkipKnownFailure, BeginPublish, Swap, Current,
       Excluded, IInv, TypeOK
  <2>8. QED BY <2>1, <2>2, <2>3, <2>4, <2>5, <2>6, <2>7, TurnConverges DEF Current, Settled,
        CInv, Frozen
<1>4. QED BY <1>1, <1>2, <1>3 DEF Apply

LEMMA RenameConverges ==
  ASSUME IInv, KInv, CInv, Rename, NEW c, c = cur
  PROVE  CInv'
<1>1. /\ pc = "rename" /\ pc' = "track" /\ c \in Scope /\ cur' = cur
      /\ UNCHANGED <<config, op, lock, mem, pending, prepared, failed, skipped>>
  BY DEF Rename, env, tally, KInv, InScope
<1>2. \A p \in Plugins : p # c => disk'[p] = disk[p]
  BY DEF Rename, IInv, TypeOK, Disk
<1>3. QED BY <1>1, <1>2, TurnConverges DEF Current, CInv, Frozen

LEMMA TrackConverges ==
  ASSUME IInv, KInv, CInv, RInv, Track, NEW c, c = cur
  PROVE  CInv'
<1>1. /\ pc = "track" /\ pc' = "apply" /\ c \in Scope /\ c \in Plugins /\ prepared[c] # None
      /\ UNCHANGED <<config, op, lock, disk, pending, skipped>>
      /\ prepared' = [prepared EXCEPT ![c] = None] /\ failed' = [failed EXCEPT ![c] = failed[c]]
      /\ mem' = IF Restoring THEN mem ELSE Inserted(c)
  BY DEF Track, NextPlugin, env, KInv, InScope, IInv, Publishing, Declared, Restoring, Following
<1>2. prepared[c].hash = config[c] /\ Healthy(disk[c]) /\ disk[c].head = HeadOf[prepared[c].commit]
  BY <1>1 DEF KInv, FreshResults, RInv
<1>3. mem'.entries[c] = prepared[c] /\ mem'.fp = mem.fp
      /\ \A p \in Plugins : p # c => mem'.entries[p] = mem.entries[p]
  <2>1. CASE Restoring
    BY <1>1, <2>1 DEF CInv, Frozen
  <2>2. CASE ~Restoring
    BY <1>1, <2>2, InsertedAt, InsertedElsewhere
  <2>3. QED BY <2>1, <2>2
<1>4. Settled(c)'
  BY <1>1, <1>2, <1>3 DEF Settled, Synced, Healthy
<1>5. \A p \in Plugins : p # c => failed'[p] = failed[p]
  BY <1>1 DEF IInv, TypeOK
<1>6. \A p \in Plugins : prepared'[p] \in {None, prepared[p]}
  BY <1>1 DEF IInv, TypeOK, Entries
<1>7. QED BY <1>1, <1>3, <1>4, <1>5, <1>6, TurnConverges DEF Current, CInv, Frozen

LEMMA PublishConverges ==
  ASSUME IInv, KInv, CInv, RInv, Publish, NEW c, c = cur
  PROVE  CInv'
<1>1. CASE Rename
  BY <1>1, RenameConverges
<1>2. CASE Track
  BY <1>2, TrackConverges
<1>3. CASE BuildSucceeds \/ RemoveTarget
  <2>1. /\ pc \in PublishPhases /\ pc' \in PublishPhases /\ c \in Scope /\ cur' = cur
        /\ UNCHANGED <<config, op, lock, mem, pending, prepared, failed, skipped>>
    BY <1>3 DEF BuildSucceeds, RemoveTarget, Swap, env, store, work, tally, KInv, InScope
  <2>2. \A p \in Plugins : p # c => disk'[p] = disk[p]
    BY <1>3 DEF BuildSucceeds, RemoveTarget, store, IInv, TypeOK, Disk
  <2>3. QED BY <2>1, <2>2, TurnConverges DEF Current, CInv, Frozen
<1>4. CASE BuildFails \/ SwapFails \/ TrackFails
  <2>1. /\ pc \in PublishPhases /\ pc' = "apply" /\ c \in Scope /\ c \in Plugins
        /\ UNCHANGED <<config, op, lock, mem, pending, skipped>>
        /\ prepared' = [prepared EXCEPT ![c] = None]
        /\ \E kind \in {"build", "publish", "track"} : failed' = [failed EXCEPT ![c] = kind]
    BY <1>4 DEF BuildFails, SwapFails, TrackFails, PublishFails, NextPlugin, env, KInv, InScope,
       IInv, Publishing, Declared
  <2>2. \A p \in Plugins : p # c => disk'[p] = disk[p]
    BY <1>4 DEF BuildFails, SwapFails, TrackFails, IInv, TypeOK, Disk
  <2>3. c \in Excluded' /\ \A p \in Plugins : p # c => failed'[p] = failed[p]
    BY <2>1 DEF Excluded, IInv, TypeOK
  <2>4. \A p \in Plugins : prepared'[p] \in {None, prepared[p]}
    BY <2>1 DEF IInv, TypeOK, Entries
  <2>5. QED BY <2>1, <2>2, <2>3, <2>4, TurnConverges DEF Current, Settled, CInv, Frozen
<1>5. QED BY <1>1, <1>2, <1>3, <1>4 DEF Publish

(* A phase ends: undeclared entries go, and the fingerprint is that of the   *)
(* configuration if every entry matches it.                                  *)
LEMMA FinishApplyConverges ==
  ASSUME IInv, KInv, CInv, FinishApply
  PROVE  CInv'
<1>1. /\ pc = "apply" /\ pc' = "write" /\ pending = {} /\ pending' = {} /\ ~Restoring
      /\ UNCHANGED <<config, op, lock, disk, failed, skipped, result>>
      /\ mem' = IF op.phase = "sync" THEN SyncedLock ELSE [mem EXCEPT !.fp = config]
  BY DEF FinishApply, PhaseDone, env, store, work, tally, hist, Restoring, Following
<1>2. Scope' = Scope /\ Declared' = Declared /\ Scope \subseteq Declared /\ Declared \subseteq Plugins
      /\ (Following' <=> Following) /\ ~Restoring'
  BY <1>1 DEF Scope, Declared, Following, Restoring
<1>3. \A id \in Declared : mem'.entries[id] = mem.entries[id]
  BY <1>1 DEF SyncedLock, Pruned, Declared, IInv, TypeOK, LockFile
<1>4. Converging'
  <2>1. ASSUME NEW id \in Scope PROVE Settled(id)'
    <3>1. Settled(id)
      BY <1>1 DEF CInv, Converging, Reached, Current
    <3>2. id \in Plugins /\ mem'.entries[id] = mem.entries[id]
      BY <1>2, <1>3
    <3>3. QED BY <1>1, <3>1, <3>2 DEF Settled, Excluded, Exempt, Synced, Healthy
  <2>2. QED BY <1>2, <2>1 DEF Converging
<1>5. ASSUME op.target = All
      PROVE  /\ \A id \in Plugins \ Declared : mem'.entries[id] = None
             /\ Following \/ LockMatchesConfig(mem'.entries) => mem'.fp = config
  <2>1. CASE op.phase = "sync"
    <3>1. /\ mem'.entries = Pruned(mem.entries)
          /\ mem'.fp = IF LockMatchesConfig(Pruned(mem.entries)) THEN config ELSE mem.fp
      BY <1>1, <1>5, <2>1 DEF SyncedLock
    <3>2. QED BY <2>1, <3>1 DEF Pruned, Declared, Following
  <2>2. CASE op.phase = "follow"
    <3>1. mem'.entries = mem.entries /\ mem'.fp = config
      BY <1>1, <2>2 DEF IInv, TypeOK, LockFile
    <3>2. QED BY <1>1, <1>5, <2>2, <3>1 DEF CInv, Whole, Following
  <2>3. QED BY <2>1, <2>2 DEF IInv, TypeOK
<1>6. Whole'
  <2>1. LockMatchesConfig(mem.entries)' <=> LockMatchesConfig(mem'.entries)
    BY <1>1 DEF LockMatchesConfig
  <2>2. QED BY <1>1, <1>2, <1>5, <2>1 DEF Whole
<1>7. QED BY <1>1, <1>2, <1>4, <1>6 DEF CInv, Frozen, SuccessConverges, Concluded

(* A command goes on to its second phase only if nothing is lost.            *)
LEMMA FollowConverges ==
  ASSUME IInv, KInv, CInv, VInv, WriteAndFollow
  PROVE  CInv'
<1>1. /\ pc = "write" /\ pc' = "select" /\ lock' = mem /\ op.phase = "sync"
      /\ op.cmd \in {"install", "update", "restore"} /\ ~Stops
      /\ op' = [op EXCEPT !.phase = "follow"] /\ pending = {}
      /\ UNCHANGED <<config, disk, mem, pending, prepared, failed, skipped, result>>
  BY DEF WriteAndFollow, Writes, env, tally, KInv, Drained
<1>2. op'.cmd = op.cmd /\ op'.target = op.target /\ op'.phase = "follow"
      /\ op.cmd \notin InitCommands
  BY <1>1 DEF IInv, TypeOK, InitCommands
<1>3. Scope' = Scope /\ Declared' = Declared /\ Scope \subseteq Declared /\ Declared \subseteq Plugins
  BY <1>1, <1>2 DEF Scope, Declared
<1>4. ASSUME NEW id \in Scope PROVE Synced(id)
  <2>1. Settled(id)
    BY <1>1 DEF CInv, Converging, Reached, Current
  <2>2. id \notin Excluded
    BY <1>1, <1>2 DEF KInv, NoneLost, Excluded, Stops, Untroubled
  <2>3. QED BY <1>1, <2>1, <2>2 DEF Settled, Exempt
<1>5. Converging'
  BY <1>1, <1>3, <1>4 DEF Converging, Settled, Synced, Healthy
<1>6. \A id \in Plugins : prepared'[id] = None
  BY <1>1 DEF VInv, Results
<1>7. Frozen'
  BY <1>1, <1>3, <1>4, <1>6 DEF Frozen, Synced
<1>8. ASSUME op.target = All PROVE mem.fp = config /\ \A id \in Plugins \ Declared : mem.entries[id] = None
  <2>1. \A id \in Declared : Synced(id)
    BY <1>4, <1>8 DEF Scope
  <2>2. \A id \in Plugins \ Declared : mem.entries[id] = None
    BY <1>1, <1>8 DEF CInv, Whole
  <2>3. LockMatchesConfig(mem.entries)
    BY <2>1, <2>2, MatchesSettled DEF Synced
  <2>4. QED BY <1>1, <1>8, <2>2, <2>3 DEF CInv, Whole
<1>9. QED BY <1>1, <1>2, <1>3, <1>5, <1>7, <1>8 DEF CInv, Whole, SuccessConverges, Concluded

LEMMA FinishConverges ==
  ASSUME IInv, KInv, CInv, VInv, Finish
  PROVE  CInv'
<1>1. CASE FinishApply
  BY <1>1, FinishApplyConverges
<1>2. CASE FinishRestore
  <2>1. /\ EndsWith(Verdict) /\ UNCHANGED <<config, op, lock, disk, skipped>>
        /\ pc = "apply" /\ pending = {} /\ Restoring
    BY <1>2 DEF FinishRestore, PhaseDone, Restoring, Following, env, store, tally
  <2>2. lock' = mem
    BY <2>1 DEF CInv, Frozen
  <2>3. QED BY <2>1, <2>2, EndsConverging DEF Reached, Restoring
<1>3. CASE WriteAndStop \/ WriteFollow
  <2>1. /\ EndsWith(Verdict) /\ UNCHANGED <<config, op, disk, skipped>> /\ lock' = mem
        /\ pc = "write" /\ pending = {}
    BY <1>3 DEF WriteAndStop, WriteFollow, Writes, env, tally, KInv, Drained
  <2>2. QED BY <2>1, EndsConverging DEF Reached
<1>4. CASE WriteAndFollow
  BY <1>4, FollowConverges
<1>5. CASE WriteAndLoadOrClean \/ Scan
  <2>1. /\ pc' \in {"scan", "load", "clean"} /\ (pc' = "load" => pc = "write" /\ lock' = mem)
        /\ UNCHANGED <<config, op, mem, disk, failed, skipped, result>> /\ op.phase = "sync"
    BY <1>5 DEF WriteAndLoadOrClean, Writes, Scan, env, store, tally, hist, KInv, Commanded,
       IInv, TypeOK
  <2>2. Scope' = Scope /\ Declared' = Declared
    BY <2>1 DEF Scope, Declared
  <2>3. ASSUME pc' = "load", NEW id \in Scope PROVE Settled(id)'
    <3>1. Settled(id)
      BY <2>1, <2>3 DEF CInv, Converging, Reached, Current, KInv, Drained
    <3>2. QED BY <2>1, <3>1 DEF Settled, Excluded, Exempt, Synced, Healthy
  <2>4. Converging'
    BY <2>1, <2>2, <2>3 DEF Converging, Reached
  <2>5. Whole'
    BY <2>1, <2>2 DEF CInv, Whole, Following, LockMatchesConfig
  <2>6. QED BY <2>1, <2>4, <2>5 DEF CInv, Frozen, Restoring, Following, SuccessConverges, Concluded
<1>6. CASE WriteFails
  BY <1>6, EndsOtherwise DEF WriteFails
<1>7. CASE Load
  <2>1. /\ UNCHANGED <<config, op, lock, disk, skipped>> /\ pc = "load" /\ pending = {}
        /\ lock' = mem /\ \E res \in {Verdict, "error"} : EndsWith(res)
    BY <1>7 DEF Load, env, store, tally, KInv, Drained, CInv
  <2>2. CASE EndsWith(Verdict)
    BY <2>1, <2>2, EndsConverging DEF Reached
  <2>3. CASE EndsWith("error")
    BY <2>3, EndsOtherwise
  <2>4. QED BY <2>1, <2>2, <2>3
<1>8. CASE CleanDone
  <2>1. EndsWith(Verdict) /\ op' = op /\ op.cmd = "clean"
    BY <1>8 DEF CleanDone, KInv, Commanded
  <2>2. QED BY <2>1 DEF EndsWith, CInv, Converging, Reached, Frozen, Restoring, Following, Whole,
        SuccessConverges, Covered
<1>9. QED BY <1>1, <1>2, <1>3, <1>4, <1>5, <1>6, <1>7, <1>8 DEF Finish

LEMMA RemoveConverges ==
  ASSUME KInv, NEW id \in Plugins, RemoveManaged(id) \/ RemoveManagedFails(id)
  PROVE  CInv'
<1>1. CASE RemoveManagedFails(id)
  BY <1>1, EndsOtherwise DEF RemoveManagedFails
<1>2. CASE RemoveManaged(id)
  <2>1. pc = "clean" /\ pc' = "clean" /\ op' = op /\ op.cmd = "clean"
    BY <1>2 DEF RemoveManaged, KInv, Commanded
  <2>2. QED BY <2>1 DEF CInv, Converging, Reached, Frozen, Restoring, Following, Whole,
        SuccessConverges, Concluded, KInv, Commanded
<1>3. QED BY <1>1, <1>2

LEMMA EnvironmentConverges ==
  ASSUME CInv, Environment \/ UNCHANGED vars
  PROVE  CInv'
<1>1. CASE UNCHANGED <<config, lock, mem, op, pc, disk, pending, prepared, cur, failed, skipped,
                       result>>
  BY <1>1 DEF CInv, Converging, Reached, Current, Settled, Excluded, Exempt, Synced, Healthy,
     Frozen, Restoring, Following, Whole, LockMatchesConfig, LockIsStale, Scope, Declared,
     SuccessConverges, Concluded, Covered
<1>2. CASE pc = "idle" /\ pc' = "idle" /\ result' = "none"
  BY <1>2 DEF CInv, Converging, Reached, Frozen, Restoring, Following, Whole, SuccessConverges,
     Concluded
<1>3. QED BY <1>1, <1>2 DEF Environment, EditConfig, Damage, Pull, Intervenes, UpstreamMoves,
     vars, env, store, work, tally, hist

LEMMA NextConverges ==
  ASSUME IInv, KInv, CInv, RInv, VInv, [Next]_vars
  PROVE  CInv'
<1>1. CASE \E cmd \in Commands, target \in Plugins \cup {All} : Start(cmd, target)
  BY <1>1, StartConverges
<1>2. CASE Process
  <2>1. CASE Publish
    BY <2>1, PublishConverges
  <2>2. QED BY <1>2, <2>1, SelectConverges, FinishConverges, PrepareConverges, ApplyConverges,
        RemoveConverges DEF Process
<1>3. CASE Crash
  BY <1>3, EndsOtherwise DEF Crash
<1>4. CASE Environment \/ UNCHANGED vars
  BY <1>4, EnvironmentConverges
<1>5. QED BY <1>1, <1>2, <1>3, <1>4 DEF Next

(* The invariant of convergence, on top of types, records and revisions.     *)
GInv == IInv /\ RInv /\ VInv /\ KInv /\ CInv

LEMMA InitGInv == Init => GInv
<1> SUFFICES ASSUME Init PROVE RInv /\ VInv /\ KInv /\ CInv
  BY InitIInv DEF GInv
<1>1. /\ pc = "idle" /\ result = "none" /\ op = [cmd |-> "sync", target |-> All, phase |-> "sync"]
      /\ pending = {} /\ skipped = {} /\ \A id \in Plugins : prepared[id] = None
  BY DEF Init
<1>2. RInv /\ VInv
  BY <1>1 DEF RInv, VInv, Results, UpdatesFloating
<1>3. KInv
  BY <1>1 DEF KInv, Drained, Commanded, NoneLost, InScope, FreshResults
<1>4. CInv
  BY <1>1 DEF CInv, Converging, Reached, Frozen, Restoring, Following, Whole, SuccessConverges,
     Concluded
<1>5. QED BY <1>2, <1>3, <1>4

LEMMA NextGInv == GInv /\ [Next]_vars => GInv'
  BY NextType, NextRecord, NextKeeps, NextControl, NextConverges DEF GInv

(* A command that reports success has locked every plugin it covers under    *)
(* its declaration, at the revision that is checked out, and without a       *)
(* target the lockfile is not stale, whatever failed or crashed before       *)
(* (sync.rs 93-257, plugin.rs 154-446).                                      *)
THEOREM SuccessMeansConverged == Spec => []SuccessConverges
<1>1. GInv => SuccessConverges
  BY DEF GInv, CInv
<1>2. QED BY <1>1, InitGInv, NextGInv, PTL DEF Spec

(* What init loads is checked out at the revision that tmup.lock names: a    *)
(* plugin that failed, now or earlier, is left out (init_session.rs, the     *)
(* execution between sync and load).                                         *)
THEOREM InitLoadsWhatIsLocked == Spec => []InitLoadsLocked
<1>1. ASSUME GInv, pc = "load", NEW id \in Declared \ Excluded,
             op.cmd = "init" \/ lock.entries[id] # None
      PROVE  Healthy(disk[id]) /\ disk[id].head = HeadOf[lock.entries[id].commit]
  <2>1. op.cmd \in InitCommands /\ op.target = All /\ lock = mem /\ pending = {}
    BY <1>1 DEF GInv, KInv, Commanded, CInv, Drained
  <2>2. id \in Scope
    BY <1>1, <2>1 DEF Scope
  <2>3. Settled(id)
    BY <1>1, <2>1, <2>2 DEF GInv, CInv, Converging, Reached, Current
  <2>4. ~Exempt(id)
    BY <1>1, <2>1 DEF Exempt, InitCommands
  <2>5. QED BY <1>1, <2>1, <2>3, <2>4 DEF Settled, Synced
<1>2. GInv => InitLoadsLocked
  BY <1>1 DEF InitLoadsLocked
<1>3. QED BY <1>2, InitGInv, NextGInv, PTL DEF Spec

-----------------------------------------------------------------------------
(* The second phase.  Of a plugin that is in place, install finds the entry  *)
(* and the checkout, and restore the locked revision, unless the entry holds *)
(* a shortened hash, which is never the name of a checked out commit.        *)
LEMMA NothingSelected ==
  ASSUME Abbrevs = {}, GInv, SelectInstall \/ SelectRestore
  PROVE  pending' = {}
<1> USE DEF GInv
<1>1. pc = "select" /\ op.phase = "follow" /\ op.cmd \in {"install", "restore"} /\ pending = {}
  BY DEF SelectInstall, SelectRestore, KInv, Drained
<1>2. ASSUME NEW id \in Scope
      PROVE  Healthy(disk[id]) /\ mem.entries[id] # None /\ AtRev(id, mem.entries[id].commit)
  <2>1. id \notin Excluded /\ ~Exempt(id) /\ id \in Plugins
    BY <1>1, <1>2 DEF KInv, NoneLost, Untroubled, Excluded, Exempt, Scope, Declared
  <2>2. Synced(id)
    BY <1>1, <1>2, <2>1 DEF CInv, Converging, Reached, Current, Settled
  <2>3. mem.entries[id] \in Entry
    BY <2>1, <2>2 DEF Synced, IInv, TypeOK, LockFile, Entries
  <2>4. mem.entries[id].commit \in Commits
    BY <2>3 DEF Entry, Revs
  <2>5. HeadOf[mem.entries[id].commit] = mem.entries[id].commit
    BY <2>4, LifecycleAssumption
  <2>6. QED BY <2>2, <2>5 DEF Synced, AtRev
<1>3. InstallCandidates = {} /\ LockedInScope \subseteq AlreadyRestored
  BY <1>2 DEF InstallCandidates, LockedInScope, AlreadyRestored
<1>4. QED BY <1>3 DEF SelectInstall, SelectRestore, Selects

LEMMA NothingQueued ==   \* after the selection the queue only shrinks
  ASSUME Process
  PROVE  /\ pc # "idle" /\ (op' = op \/ pc' = "select")
         /\ pc = "select" => Select
         /\ pc \in {"select", "scan"} \/ pending' \subseteq pending
<1>1. CASE Select
  BY <1>1 DEF Select, SelectSync, SelectInstall, SelectUpdate, SelectRestore, SelectRestoreFails,
     Selects
<1>2. CASE Publish
  BY <1>2 DEF Publish, BuildSucceeds, BuildFails, RemoveTarget, Rename, SwapFails, PublishFails,
     Track, TrackFails, NextPlugin, work
<1>3. CASE Finish
  BY <1>3 DEF Finish, FinishApply, FinishRestore, PhaseDone, WriteAndStop, WriteAndFollow,
     WriteAndLoadOrClean, WriteFollow, WriteFails, Writes, Load, Scan, CleanDone, EndsWith, work
<1>4. ASSUME NEW id \in Plugins, PrepareSucceeds(id) \/ PrepareFails(id) \/ Apply(id)
              \/ RemoveManaged(id) \/ RemoveManagedFails(id)
      PROVE  pending' \subseteq pending /\ op' = op /\ pc \notin {"idle", "select"}
  BY <1>4 DEF PrepareSucceeds, PrepareFails, Prepares, Apply, SkipUnprepared, Adopt, AdoptFails,
     AbortUpdate, SkipKnownFailure, BeginPublish, Applies, RemoveManaged, RemoveManagedFails,
     EndsWith
<1>5. QED BY <1>1, <1>2, <1>3, <1>4 DEF Process

(* Once a sync phase is clean, the second phases of install and restore      *)
(* prepare nothing: sync alone installs and repairs (plugin.rs 154-237 and   *)
(* 290-446), if no selector is a shortened commit hash.                      *)
THEOREM SecondPhaseIdle ==
  ASSUME Abbrevs = {}
  PROVE  Spec => []FollowUpIdle
<1>1. Init => FollowUpIdle
  BY DEF Init, FollowUpIdle
<1>2. ASSUME GInv, FollowUpIdle, [Next]_vars PROVE FollowUpIdle'
  <2>1. CASE Process /\ pc # "select"
    <3>1. op.phase = "follow" => pc \notin {"idle", "scan"}
      BY <1>2, <2>1, NothingQueued DEF GInv, KInv, Commanded
    <3>2. QED BY <1>2, <2>1, <3>1, NothingQueued DEF FollowUpIdle
  <2>2. CASE Process /\ pc = "select"
    <3>1. CASE SelectInstall \/ SelectRestore
      BY <1>2, <3>1, NothingSelected DEF FollowUpIdle
    <3>2. CASE SelectSync \/ SelectUpdate \/ SelectRestoreFails
      BY <3>2 DEF SelectSync, SelectUpdate, SelectRestoreFails, Selects, EndsWith, FollowUpIdle
    <3>3. QED BY <2>2, <3>1, <3>2, NothingQueued DEF Select
  <2>3. CASE Crash \/ \E cmd \in Commands, target \in Plugins \cup {All} : Start(cmd, target)
    BY <2>3 DEF Crash, EndsWith, Start, FollowUpIdle
  <2>4. CASE Environment \/ UNCHANGED vars
    BY <1>2, <2>4 DEF Environment, EditConfig, Damage, Pull, Intervenes, UpstreamMoves, vars, work,
       FollowUpIdle
  <2>5. QED BY <1>2, <2>1, <2>2, <2>3, <2>4 DEF Next
<1>3. QED BY <1>1, <1>2, InitGInv, NextGInv, PTL DEF Spec

-----------------------------------------------------------------------------
(* Update.  A plugin that follows a branch gets a commit the branch has had  *)
(* since the second phase began.                                             *)
Tip(id, entry) == entry.commit \in before.tips[id][config[id].sel]
Floating       == {id \in Scope : config[id].sel \in Branches}
Advanced(id)   == id \in pending \/ Current(id) \/ failed[id] # "no" \/ Tip(id, mem.entries[id])

Observed == \A id \in Plugins, r \in Refs : upstream[id][r] \in before.tips[id][r]

UInv ==
  /\ Observed
  /\ (Updating /\ pc \in Working \cup {"write"}) => \A id \in Floating :
       Advanced(id) /\ (prepared[id] # None => Tip(id, prepared[id]))
  /\ UpdateReachesUpstream

LEMMA EndsUpstream ==
  ASSUME UInv, NEW res, EndsWith(res), UNCHANGED <<upstream, before>>,
         ~(res = "ok" /\ op'.cmd = "update")
  PROVE  UInv'
  BY DEF EndsWith, UInv, Observed, Updating, Following, UpdateReachesUpstream, Concluded

LEMMA TurnUpstream ==
  ASSUME UInv, pc \in Working, pc' \in Working, NEW id \in Plugins,
         UNCHANGED <<config, op, upstream, before>>,
         pending \ {id} \subseteq pending',
         \A p \in Plugins : Current(p) => p = id,
         \A p \in Plugins : p # id => mem'.entries[p] = mem.entries[p] /\ failed'[p] = failed[p],
         Advanced(id)' \/ (Updating => mem'.entries[id] = prepared[id] /\ prepared[id] # None),
         \A p \in Plugins : prepared'[p] \in {None, prepared[p]}
                              \/ (Updating /\ p \in Floating => Tip(p, prepared'[p]))
  PROVE  UInv'
<1>1. Floating' = Floating /\ (Updating' <=> Updating) /\ Floating \subseteq Plugins
  BY DEF Floating, Scope, Declared, Updating, Following
<1>2. ASSUME Updating, NEW p \in Floating PROVE (Advanced(p) /\ (prepared[p] # None => Tip(p, prepared[p])))'
  <2>1. p \in Plugins /\ Advanced(p) /\ (prepared[p] # None => Tip(p, prepared[p]))
    BY <1>1, <1>2 DEF UInv
  <2>2. Advanced(p)'
    BY <1>2, <2>1 DEF Advanced, Tip
  <2>3. prepared'[p] # None => Tip(p, prepared'[p])
    BY <1>2, <2>1
  <2>4. QED BY <2>2, <2>3 DEF Tip
<1>3. QED BY <1>1, <1>2 DEF UInv, Observed, UpdateReachesUpstream, Concluded

LEMMA StartUpstream ==
  ASSUME IInv, NEW cmd, NEW target, Start(cmd, target)
  PROVE  UInv'
<1>1. pc' = "select" /\ before' = Snapshot /\ upstream' = upstream /\ result' = "running"
  BY DEF Start, env
<1>2. Observed'
  BY <1>1 DEF Snapshot, Observed
<1>3. QED BY <1>1, <1>2 DEF UInv, UpdateReachesUpstream, Concluded

LEMMA SelectUpstream ==
  ASSUME IInv, VInv, UInv, Select
  PROVE  UInv'
<1>1. CASE SelectSync \/ SelectInstall \/ SelectRestore
  <2>1. ~Updating' /\ UNCHANGED <<upstream, before>> /\ pc' # "idle"
    BY <1>1 DEF SelectSync, SelectInstall, SelectRestore, Selects, Updating, Following, env, hist
  <2>2. QED BY <2>1 DEF UInv, Observed, UpdateReachesUpstream, Concluded
<1>2. CASE SelectUpdate
  <2>1. /\ pc = "select" /\ pending' = Floating /\ pc' \in {"prepare", "apply"}
        /\ UNCHANGED <<config, op, upstream, before, prepared>>
    BY <1>2 DEF SelectUpdate, Selects, Floating, env, hist
  <2>2. Floating' = Floating /\ Floating \subseteq Plugins
    BY <2>1 DEF Floating, Scope, Declared
  <2>3. \A id \in Plugins : prepared'[id] = None
    BY <2>1 DEF VInv, Results
  <2>4. QED BY <2>1, <2>2, <2>3 DEF UInv, Observed, Advanced, UpdateReachesUpstream, Concluded
<1>3. CASE SelectRestoreFails
  BY <1>3, EndsUpstream DEF SelectRestoreFails, env
<1>4. QED BY <1>1, <1>2, <1>3 DEF Select

LEMMA PrepareUpstream ==
  ASSUME IInv, UInv, NEW id \in Plugins, PrepareSucceeds(id) \/ PrepareFails(id)
  PROVE  UInv'
<1>1. /\ pc = "prepare" /\ pc' \in {"prepare", "apply"} /\ id \in pending
      /\ UNCHANGED <<config, op, upstream, before, result, mem, pending, failed>>
      /\ prepared' \in {prepared, [prepared EXCEPT ![id] = PreparedEntry(id)]}
  BY DEF PrepareSucceeds, PrepareFails, Prepares, env, tally, hist, IInv, TypeOK
<1>2. ASSUME Updating, id \in Floating PROVE Tip(id, PreparedEntry(id))
  <2>1. ~KeepsRevision(id)
    BY <1>2 DEF Updating, Following, KeepsRevision
  <2>2. PreparedEntry(id).commit = upstream[id][config[id].sel]
    BY <1>2, <2>1, LifecycleAssumption DEF PreparedEntry, Resolved, Floating, Refs
  <2>3. QED BY <1>2, <2>2 DEF Tip, UInv, Observed, Floating, Refs
<1>3. \A p \in Plugins : prepared'[p] \in {None, prepared[p]}
                           \/ (Updating /\ p \in Floating => Tip(p, prepared'[p]))
  BY <1>1, <1>2 DEF IInv, TypeOK, Entries
<1>4. Advanced(id)'
  BY <1>1 DEF Advanced
<1>5. \A p \in Plugins : ~Current(p)
  BY <1>1 DEF Current
<1>6. /\ pc \in Working /\ pc' \in Working /\ (\A p \in Plugins : Current(p) => p = id)
      /\ (pending \ {id}) \subseteq pending'
      /\ \A p \in Plugins : p # id => mem'.entries[p] = mem.entries[p] /\ failed'[p] = failed[p]
  BY <1>1, <1>5
<1>7. QED BY <1>1, <1>3, <1>4, <1>6, TurnUpstream

LEMMA ApplyUpstream ==
  ASSUME IInv, UInv, NEW id \in Plugins, Apply(id)
  PROVE  UInv'
<1>1. CASE AbortUpdate(id)
  BY <1>1, EndsUpstream DEF AbortUpdate, env
<1>2. CASE ~AbortUpdate(id)
  <2>1. /\ pc = "apply" /\ pc' \in {"apply"} \cup PublishPhases
        /\ pending' = pending \ {id} /\ UNCHANGED <<config, op, upstream, before, result>>
        /\ pc' \in PublishPhases => cur' = id
    BY <1>2 DEF Apply, SkipUnprepared, Adopt, AdoptFails, SkipKnownFailure, BeginPublish,
       Applies, Swap, env, hist
  <2>2. \A p \in Plugins : p # id => mem'.entries[p] = mem.entries[p] /\ failed'[p] = failed[p]
    BY <1>2, InsertedElsewhere DEF Apply, SkipUnprepared, Adopt, AdoptFails, SkipKnownFailure,
       BeginPublish, tally, IInv, TypeOK
  <2>3. \A p \in Plugins : prepared'[p] \in {None, prepared[p]}
    BY <1>2 DEF Apply, SkipUnprepared, Adopt, AdoptFails, SkipKnownFailure, BeginPublish, IInv,
       TypeOK, Entries
  <2>4. CASE SkipUnprepared(id) \/ AdoptFails(id) \/ BeginPublish(id)
    <3>1. Advanced(id)'
      BY <2>1, <2>4 DEF SkipUnprepared, AdoptFails, BeginPublish, Swap, Advanced, Current, IInv,
         TypeOK
    <3>2. QED BY <2>1, <2>2, <2>3, <3>1, TurnUpstream DEF Current
  <2>5. CASE Adopt(id)
    <3>1. mem'.entries[id] = prepared[id] /\ prepared[id] # None
      BY <2>5, InsertedAt DEF Adopt
    <3>2. QED BY <2>1, <2>2, <2>3, <3>1, TurnUpstream DEF Current
  <2>6. CASE SkipKnownFailure(id)
    <3>1. ~Updating
      BY <2>6 DEF SkipKnownFailure, SkipsKnownFailure, Updating, InitCommands
    <3>2. QED BY <2>1, <2>2, <2>3, <3>1, TurnUpstream DEF Current
  <2>7. QED BY <1>2, <2>4, <2>5, <2>6 DEF Apply
<1>3. QED BY <1>1, <1>2

LEMMA PublishUpstream ==
  ASSUME IInv, UInv, Publish, NEW c, c = cur
  PROVE  UInv'
<1>1. /\ pc \in PublishPhases /\ c \in Plugins /\ prepared[c] # None
      /\ pc' \in {"apply"} \cup PublishPhases /\ (pc' \in PublishPhases => cur' = c)
      /\ UNCHANGED <<config, op, upstream, before, result, pending>>
  BY DEF Publish, BuildSucceeds, BuildFails, RemoveTarget, Rename, SwapFails, PublishFails,
     Track, TrackFails, NextPlugin, Swap, env, work, hist, IInv, Publishing, Declared
<1>2. \A p \in Plugins : p # c => mem'.entries[p] = mem.entries[p]
  BY <1>1, InsertedElsewhere DEF Publish, BuildSucceeds, BuildFails, RemoveTarget, Rename,
     SwapFails, PublishFails, Track, TrackFails
<1>3. \A p \in Plugins : p # c => failed'[p] = failed[p]
  BY DEF Publish, BuildSucceeds, BuildFails, RemoveTarget, Rename, SwapFails, PublishFails, Track,
     TrackFails, NextPlugin, tally, IInv, TypeOK
<1>4. \A p \in Plugins : prepared'[p] \in {None, prepared[p]}
  BY DEF Publish, BuildSucceeds, BuildFails, RemoveTarget, Rename, SwapFails, PublishFails, Track,
     TrackFails, NextPlugin, work, IInv, TypeOK, Entries
<1>5. Advanced(c)' \/ (Updating => mem'.entries[c] = prepared[c])
  <2>1. CASE BuildSucceeds \/ RemoveTarget \/ Rename
    BY <1>1, <2>1 DEF BuildSucceeds, RemoveTarget, Rename, Swap, Advanced, Current
  <2>2. CASE BuildFails \/ SwapFails \/ TrackFails
    BY <1>1, <2>2 DEF BuildFails, SwapFails, TrackFails, PublishFails, NextPlugin, Advanced, IInv,
       TypeOK
  <2>3. CASE Track
    BY <1>1, <2>3, InsertedAt DEF Track, Updating, Following
  <2>4. QED BY <2>1, <2>2, <2>3 DEF Publish
<1>6. QED BY <1>1, <1>2, <1>3, <1>4, <1>5, TurnUpstream DEF Current

LEMMA FinishUpstream ==
  ASSUME IInv, KInv, UInv, Finish
  PROVE  UInv'
<1>1. CASE FinishApply
  <2>1. /\ pc = "apply" /\ pc' = "write" /\ pending' = pending /\ pending = {}
        /\ UNCHANGED <<config, op, upstream, before, prepared, failed>>
    BY <1>1 DEF FinishApply, PhaseDone, env, work, tally, hist
  <2>2. Updating => mem'.entries = mem.entries
    BY <1>1 DEF FinishApply, Updating, Following, IInv, TypeOK, LockFile
  <2>3. Floating' = Floating /\ (Updating' <=> Updating)
    BY <2>1 DEF Floating, Scope, Declared, Updating, Following
  <2>4. QED BY <2>1, <2>2, <2>3 DEF UInv, Observed, Advanced, Tip, Current, UpdateReachesUpstream,
        Concluded
<1>2. CASE FinishRestore \/ WriteFails \/ Load \/ CleanDone
  <2>1. op.cmd # "update" \/ EndsWith("error")
    BY <1>2 DEF FinishRestore, WriteFails, Load, CleanDone, KInv, Commanded, InitCommands
  <2>2. op' = op /\ UNCHANGED <<upstream, before>> /\ \E res : EndsWith(res)
    BY <1>2 DEF FinishRestore, WriteFails, Load, CleanDone, env
  <2>3. QED BY <2>1, <2>2, EndsUpstream
<1>3. CASE WriteAndStop
  <2>1. EndsWith(Verdict) /\ op' = op /\ UNCHANGED <<upstream, before>> /\ Stops
    BY <1>3 DEF WriteAndStop, Writes, env
  <2>2. ~(Verdict = "ok" /\ op'.cmd = "update")
    BY <2>1 DEF Stops, Verdict
  <2>3. QED BY <2>1, <2>2, EndsUpstream
<1>4. CASE WriteFollow
  <2>1. /\ EndsWith(Verdict) /\ pc = "write" /\ op.phase = "follow" /\ lock' = mem
        /\ UNCHANGED <<config, op, upstream, before>> /\ pending = {}
    BY <1>4 DEF WriteFollow, Writes, env, KInv, Drained
  <2>2. ASSUME Verdict = "ok", op.cmd = "update", NEW id \in Floating
        PROVE  lock'.entries[id].commit \in before.tips[id][config[id].sel]
    BY <2>1, <2>2 DEF UInv, Updating, Following, Advanced, Current, Verdict, Untroubled, Tip,
       Floating, Scope, Declared
  <2>3. Scope' = Scope
    BY <2>1 DEF Scope, Declared
  <2>4. UpdateReachesUpstream'
    BY <2>1, <2>2, <2>3 DEF EndsWith, UpdateReachesUpstream, Concluded, Floating
  <2>5. QED BY <2>1, <2>4 DEF EndsWith, UInv, Observed
<1>5. CASE WriteAndFollow
  <2>1. pc' = "select" /\ upstream' = upstream /\ before'.tips = Snapshot.tips
    BY <1>5 DEF WriteAndFollow, Writes, Snapshot, env
  <2>2. Observed'
    BY <2>1 DEF Observed, Snapshot
  <2>3. QED BY <2>1, <2>2 DEF UInv, UpdateReachesUpstream, Concluded
<1>6. CASE WriteAndLoadOrClean \/ Scan
  <2>1. pc' \in {"load", "scan", "clean"} /\ UNCHANGED <<upstream, before>>
    BY <1>6 DEF WriteAndLoadOrClean, Writes, Scan, env, hist
  <2>2. QED BY <2>1 DEF UInv, Observed, UpdateReachesUpstream, Concluded
<1>7. QED BY <1>1, <1>2, <1>3, <1>4, <1>5, <1>6 DEF Finish

LEMMA EnvironmentUpstream ==
  ASSUME IInv, UInv, Environment
  PROVE  UInv'
<1>1. ASSUME NEW id \in Plugins, NEW ref \in Refs, NEW c \in Commits, UpstreamMoves(id, ref, c)
      PROVE  UInv'
  <2>1. UNCHANGED <<config, lock, mem, op, pc, pending, prepared, cur, failed, result>>
        /\ upstream' = [upstream EXCEPT ![id][ref] = c]
    BY <1>1 DEF UpstreamMoves, store, work, tally
  <2>2. before'.tips = [before.tips EXCEPT ![id][ref] = @ \cup {c}]
    BY <1>1 DEF UpstreamMoves, IInv, TypeOK
  <2>3. before.tips \in [Plugins -> [Refs -> SUBSET Commits]] /\ upstream \in [Plugins -> [Refs -> Commits]]
    BY DEF IInv, TypeOK
  <2>4. ASSUME NEW p \in Plugins, NEW r \in Refs PROVE before.tips[p][r] \subseteq before'.tips[p][r]
    BY <1>1, <2>2, <2>3, <2>4
  <2>5. ASSUME NEW p \in Plugins, NEW r \in Refs PROVE upstream'[p][r] \in before'.tips[p][r]
    BY <1>1, <2>1, <2>2, <2>3, <2>5 DEF UInv, Observed
  <2>6. Floating' = Floating /\ (Updating' <=> Updating) /\ Scope' = Scope
        /\ \A p \in Floating : p \in Plugins /\ config[p].sel \in Refs
    BY <2>1 DEF Floating, Scope, Declared, Updating, Following, Refs
  <2>7. \A p \in Floating : /\ Advanced(p) => Advanced(p)'
                            /\ Tip(p, prepared[p]) => Tip(p, prepared[p])'
                            /\ Tip(p, lock.entries[p]) => Tip(p, lock.entries[p])'
    BY <2>1, <2>4, <2>6 DEF Advanced, Current, Tip
  <2>8. UpdateReachesUpstream'
    BY <2>1, <2>6, <2>7 DEF UInv, UpdateReachesUpstream, Concluded, Tip, Floating
  <2>9. QED BY <2>1, <2>5, <2>6, <2>7, <2>8 DEF UInv, Observed
<1>2. ASSUME Intervenes, before' = before, upstream' = upstream PROVE UInv'
  BY <1>2 DEF Intervenes, UInv, Observed, Updating, Following, UpdateReachesUpstream, Concluded
<1>3. QED BY <1>1, <1>2 DEF Environment, EditConfig, Damage, Pull, Intervenes

LEMMA NextUpstream ==
  ASSUME GInv, UInv, [Next]_vars
  PROVE  UInv'
<1> USE DEF GInv
<1>1. CASE \E cmd \in Commands, target \in Plugins \cup {All} : Start(cmd, target)
  BY <1>1, StartUpstream
<1>2. CASE Process
  <2>1. CASE Publish
    BY <2>1, PublishUpstream
  <2>2. ASSUME NEW id \in Plugins, RemoveManaged(id) \/ RemoveManagedFails(id) PROVE UInv'
    <3>1. CASE RemoveManaged(id)
      BY <3>1 DEF RemoveManaged, env, hist, UInv, Observed, UpdateReachesUpstream, Concluded
    <3>2. CASE RemoveManagedFails(id)
      BY <3>2, EndsUpstream DEF RemoveManagedFails, env
    <3>3. QED BY <2>2, <3>1, <3>2
  <2>3. QED BY <1>2, <2>1, <2>2, SelectUpstream, FinishUpstream, PrepareUpstream, ApplyUpstream
        DEF Process
<1>3. CASE Crash
  BY <1>3, EndsUpstream DEF Crash, env
<1>4. CASE Environment
  BY <1>4, EnvironmentUpstream
<1>5. CASE UNCHANGED vars
  BY <1>5 DEF vars, env, store, work, tally, hist, UInv, Observed, Floating, Scope, Declared,
     Advanced, Current, Tip, Updating, Following, UpdateReachesUpstream, Concluded
<1>6. QED BY <1>1, <1>2, <1>3, <1>4, <1>5 DEF Next

(* A successful update leaves every plugin it covers that follows a branch   *)
(* at a commit the branch had while the update ran (plugin.rs 239-289), even *)
(* if the branch moves again meanwhile.                                      *)
THEOREM UpdateFollowsUpstream == Spec => []UpdateReachesUpstream
<1>1. Init => UInv
  BY DEF Init, UInv, Observed, Snapshot, Updating, Following, UpdateReachesUpstream, Concluded
<1>2. GInv /\ UInv /\ [Next]_vars => (GInv /\ UInv)'
  BY NextGInv, NextUpstream
<1>3. UInv => UpdateReachesUpstream
  BY DEF UInv
<1>4. QED BY <1>1, <1>2, <1>3, InitGInv, PTL DEF Spec

-----------------------------------------------------------------------------
(* Builds.  Where no file operation fails, nobody but tmup touches lockfile  *)
(* and checkouts, and no selector is a shortened hash, the contents of every *)
(* checkout are those of the declaration its entry was locked under.         *)
Calm == MaxFaults = 0 /\ EnvSteps \subseteq {"config", "upstream"} /\ Abbrevs = {}

Made(entry)  == [head |-> entry.commit, build |-> entry.hash.build]
Tracking(id) == pc = "track" /\ id = cur
Built(id) ==
  Healthy(disk[id]) /\ mem.entries[id] # None /\ ~Tracking(id) => disk[id] = Made(mem.entries[id])

BInv ==
  /\ \A id \in Plugins : Built(id)
  /\ pc = "track" => disk[cur] = Made(prepared[cur])
  /\ pc \in {"idle", "scan", "clean"} => lock = mem
  /\ Following => \A id \in Scope : mem.entries[id] # None /\ mem.entries[id].hash = config[id]

LEMMA NoFault == ASSUME Calm, IInv PROVE ~Fault
  BY LifecycleAssumption DEF Calm, IInv, TypeOK, Fault

LEMMA CalmHead ==
  ASSUME Calm, NEW entry \in Entry
  PROVE  HeadOf[entry.commit] = entry.commit
  BY LifecycleAssumption DEF Calm, Entry, Revs

LEMMA StepBuilds ==   \* a step that makes no checkout and no entry but one
  ASSUME BInv, pc # "idle", pc' \notin {"idle", "track", "clean"}, UNCHANGED <<config, op>>,
         pc' = "scan" => lock' = mem',
         \A id \in Plugins :
            \/ /\ mem'.entries[id] = mem.entries[id] \/ (~Following /\ mem'.entries[id] = None)
               /\ disk'[id] = disk[id] \/ ~Healthy(disk'[id])
               /\ ~Tracking(id)
            \/ /\ disk'[id] = Made(mem'.entries[id])
               /\ Following => mem'.entries[id] # None /\ mem'.entries[id].hash = config[id]
  PROVE  BInv'
<1>1. \A id \in Plugins : Built(id)'
  BY DEF BInv, Built, Tracking, Healthy
<1>2. Scope' = Scope /\ Scope \subseteq Plugins /\ (Following' <=> Following)
  BY DEF Scope, Declared, Following
<1>3. Following => \A id \in Scope : mem'.entries[id] # None /\ mem'.entries[id].hash = config[id]
  BY <1>2 DEF BInv
<1>4. QED BY <1>1, <1>2, <1>3 DEF BInv

LEMMA EndBuilds ==
  ASSUME BInv, NEW res, EndsWith(res), disk' = disk, lock' = mem, pc # "track"
  PROVE  BInv'
<1>1. pc' = "idle" /\ mem' = mem /\ lock' = mem'
  BY DEF EndsWith
<1>2. QED BY <1>1 DEF BInv, Built, Tracking, Following

LEMMA SelectBuilds ==
  ASSUME Calm, IInv, BInv, Select
  PROVE  BInv'
<1>1. ~SelectRestoreFails
  BY NoFault DEF SelectRestoreFails
<1>2. /\ pc = "select" /\ pc' \in {"prepare", "apply"} /\ UNCHANGED <<config, op, mem>>
      /\ \A id \in Plugins : disk'[id] = disk[id] \/ disk'[id] = Missing
  BY <1>1 DEF Select, SelectSync, SelectInstall, SelectUpdate, SelectRestore, Selects, env, IInv,
     TypeOK, Disk
<1>3. QED BY <1>2, StepBuilds DEF Healthy, Tracking

LEMMA AdoptBuilds ==
  ASSUME Calm, IInv, KInv, BInv, NEW id \in Plugins, Adopt(id)
  PROVE  BInv'
<1>1. /\ pc = "apply" /\ pc' = "apply" /\ UNCHANGED <<config, op, disk>> /\ id \in pending
      /\ prepared[id] # None /\ UpToDate(id) /\ mem' = Inserted(id)
  BY DEF Adopt, Applies, First, env
<1>2. /\ prepared[id] \in Entry /\ prepared[id].hash = config[id] /\ id \in Scope
      /\ disk[id] \in Checkout /\ disk[id].head = prepared[id].commit
  BY <1>1 DEF IInv, TypeOK, Entries, Disk, KInv, FreshResults, InScope, UpToDate, AtRev, Healthy
<1>3. /\ mem.entries[id] # None /\ disk[id] = Made(mem.entries[id])
      /\ mem.entries[id].hash = prepared[id].hash
  <2>1. mem.entries[id] # None
    BY <1>1, <1>2 DEF UpToDate, BInv, Following, IInv, TypeOK
  <2>2. disk[id] = Made(mem.entries[id])
    BY <1>1, <2>1 DEF UpToDate, AtRev, BInv, Built, Tracking
  <2>3. mem.entries[id].commit = prepared[id].commit
    BY <1>2, <2>2 DEF Made
  <2>4. QED BY <1>1, <1>2, <2>1, <2>2, <2>3 DEF UpToDate, BInv, Following, IInv, TypeOK
<1>4. disk[id] = Made(prepared[id])
  BY <1>2, <1>3 DEF Made
<1>5. mem'.entries[id] = prepared[id] /\ \A p \in Plugins : p # id => mem'.entries[p] = mem.entries[p]
  BY <1>1, InsertedAt, InsertedElsewhere
<1>6. QED BY <1>1, <1>2, <1>4, <1>5, StepBuilds DEF Tracking

LEMMA ApplyBuilds ==
  ASSUME Calm, IInv, KInv, BInv, NEW id \in Plugins, Apply(id)
  PROVE  BInv'
<1>1. ~AdoptFails(id) /\ ~AbortUpdate(id)
  BY NoFault DEF AdoptFails, AbortUpdate
<1>2. CASE SkipUnprepared(id) \/ SkipKnownFailure(id) \/ BeginPublish(id)
  <2>1. /\ pc = "apply" /\ pc' \in {"apply", "build", "remove", "rename"}
        /\ UNCHANGED <<config, op, mem>>
        /\ \A p \in Plugins : disk'[p] = disk[p] \/ disk'[p] = Missing
    BY <1>2 DEF SkipUnprepared, SkipKnownFailure, BeginPublish, Applies, DropBroken, Swap, env,
       IInv, TypeOK, Disk
  <2>2. QED BY <2>1, StepBuilds DEF Healthy, Tracking
<1>3. QED BY <1>1, <1>2, AdoptBuilds DEF Apply

LEMMA RenameBuilds ==
  ASSUME Calm, IInv, KInv, BInv, Rename
  PROVE  BInv'
<1>1. /\ pc = "rename" /\ pc' = "track" /\ UNCHANGED <<config, op, mem, cur, prepared>>
      /\ disk' = [disk EXCEPT ![cur] = [head |-> HeadOf[prepared[cur].commit],
                                        build |-> config[cur].build]]
  BY DEF Rename, env
<1>2. cur \in Plugins /\ prepared[cur] \in Entry /\ prepared[cur].hash = config[cur]
  BY <1>1 DEF IInv, TypeOK, Publishing, Declared, Entries, KInv, FreshResults
<1>3. disk'[cur] = Made(prepared[cur]) /\ \A p \in Plugins : p # cur => disk'[p] = disk[p]
  BY <1>1, <1>2, CalmHead DEF IInv, TypeOK, Disk, Made
<1>4. Scope' = Scope /\ (Following' <=> Following)
  BY <1>1 DEF Scope, Declared, Following
<1>5. \A p \in Plugins : Built(p)'
  BY <1>1, <1>3 DEF BInv, Built, Tracking, Healthy
<1>6. QED BY <1>1, <1>3, <1>4, <1>5 DEF BInv, Made

LEMMA TrackBuilds ==
  ASSUME Calm, IInv, KInv, CInv, BInv, Track
  PROVE  BInv'
<1>1. /\ pc = "track" /\ pc' = "apply" /\ UNCHANGED <<config, op, disk>>
      /\ mem' = IF op.phase = "follow" /\ op.cmd = "restore" THEN mem ELSE Inserted(cur)
  BY DEF Track, NextPlugin, env
<1>2. /\ cur \in Plugins /\ prepared[cur] # None /\ prepared[cur].hash = config[cur]
      /\ disk[cur] = Made(prepared[cur])
  BY <1>1 DEF IInv, Publishing, Declared, KInv, FreshResults, BInv
<1>3. mem'.entries[cur] = prepared[cur]
  <2>1. CASE op.phase = "follow" /\ op.cmd = "restore"
    BY <1>1, <1>2, <2>1 DEF CInv, Frozen, Restoring, Following
  <2>2. CASE ~(op.phase = "follow" /\ op.cmd = "restore")
    BY <1>1, <1>2, <2>2, InsertedAt
  <2>3. QED BY <2>1, <2>2
<1>4. \A p \in Plugins : p # cur => mem'.entries[p] = mem.entries[p]
  BY <1>1, <1>2, InsertedElsewhere
<1>5. QED BY <1>1, <1>2, <1>3, <1>4, StepBuilds DEF Tracking

LEMMA PublishBuilds ==
  ASSUME Calm, IInv, KInv, CInv, BInv, Publish
  PROVE  BInv'
<1>1. ~SwapFails /\ ~TrackFails
  BY NoFault DEF SwapFails, TrackFails
<1>2. CASE BuildSucceeds \/ BuildFails \/ RemoveTarget
  <2>1. /\ pc \in {"build", "remove"} /\ pc' \in {"apply", "remove", "rename"}
        /\ UNCHANGED <<config, op, mem>>
        /\ \A p \in Plugins : disk'[p] = disk[p] \/ disk'[p] = Missing
    BY <1>2 DEF BuildSucceeds, BuildFails, PublishFails, NextPlugin, RemoveTarget, Swap, env, store,
       IInv, TypeOK, Disk
  <2>2. QED BY <2>1, StepBuilds DEF Healthy, Tracking
<1>3. QED BY <1>1, <1>2, RenameBuilds, TrackBuilds DEF Publish

LEMMA FinishBuilds ==
  ASSUME Calm, IInv, KInv, CInv, BInv, Finish
  PROVE  BInv'
<1>1. ~WriteFails
  BY NoFault DEF WriteFails
<1>2. CASE FinishApply
  <2>1. pc = "apply" /\ pc' = "write" /\ UNCHANGED <<config, op, disk>>
    BY <1>2 DEF FinishApply, PhaseDone, env, store
  <2>2. \A id \in Plugins : mem'.entries[id] = mem.entries[id]
                             \/ (~Following /\ mem'.entries[id] = None)
    BY <1>2 DEF FinishApply, SyncedLock, Pruned, Following, IInv, TypeOK, LockFile
  <2>3. QED BY <2>1, <2>2, StepBuilds DEF Tracking
<1>3. CASE FinishRestore \/ WriteAndStop \/ WriteFollow \/ Load \/ CleanDone
  <2>1. pc # "track" /\ disk' = disk /\ \E res : EndsWith(res)
    BY <1>3 DEF FinishRestore, PhaseDone, WriteAndStop, WriteFollow, Writes, Load, CleanDone, store
  <2>2. lock' = mem
    BY <1>3 DEF FinishRestore, PhaseDone, WriteAndStop, WriteFollow, Writes, Load, CleanDone, store,
       CInv, Frozen, Restoring, Following, BInv
  <2>3. QED BY <2>1, <2>2, EndBuilds
<1>4. CASE WriteAndFollow
  <2>1. /\ pc = "write" /\ pc' = "select" /\ UNCHANGED <<config, disk, mem>>
        /\ op.cmd \in {"install", "update", "restore"} /\ ~Stops
        /\ op'.target = op.target
    BY <1>4 DEF WriteAndFollow, Writes, env, IInv, TypeOK
  <2>2. ASSUME NEW id \in Scope PROVE mem.entries[id] # None /\ mem.entries[id].hash = config[id]
    <3>1. id \notin Excluded /\ ~Exempt(id) /\ pending = {}
      BY <2>1, <2>2 DEF KInv, Drained, NoneLost, InitCommands, Stops, Untroubled, Excluded, Exempt,
         Scope, Declared
    <3>2. Synced(id)
      BY <2>1, <2>2, <3>1 DEF CInv, Converging, Reached, Current, Settled
    <3>3. QED BY <3>2 DEF Synced
  <2>3. Scope' = Scope
    BY <2>1 DEF Scope, Declared
  <2>4. QED BY <2>1, <2>2, <2>3 DEF BInv, Built, Tracking
<1>5. CASE WriteAndLoadOrClean
  <2>1. pc = "write" /\ pc' \in {"load", "scan"} /\ UNCHANGED <<config, op, mem, disk>> /\ lock' = mem
    BY <1>5 DEF WriteAndLoadOrClean, Writes, env
  <2>2. QED BY <2>1, StepBuilds DEF Tracking
<1>6. CASE Scan
  <2>1. pc = "scan" /\ pc' = "clean" /\ UNCHANGED <<config, op, mem, disk, lock>>
    BY <1>6 DEF Scan, env, store
  <2>2. Scope' = Scope /\ (Following' <=> Following)
    BY <2>1 DEF Scope, Declared, Following
  <2>3. QED BY <2>1, <2>2 DEF BInv, Built, Tracking
<1>7. QED BY <1>1, <1>2, <1>3, <1>4, <1>5, <1>6 DEF Finish

LEMMA NextBuilds ==
  ASSUME Calm, GInv, BInv, [Next]_vars
  PROVE  BInv'
<1> USE DEF GInv
<1>1. ASSUME NEW cmd, NEW target, Start(cmd, target) PROVE BInv'
  <2>1. /\ pc = "idle" /\ pc' = "select" /\ disk' = disk /\ mem' = lock /\ ~Following'
    BY <1>1 DEF Start, store, Following
  <2>2. QED BY <2>1 DEF BInv, Built, Tracking
<1>2. CASE Process
  <2>1. ASSUME NEW id \in Plugins, PrepareSucceeds(id) \/ PrepareFails(id) PROVE BInv'
    <3>1. pc = "prepare" /\ pc' \in {"prepare", "apply"} /\ UNCHANGED <<config, op, mem, disk>>
      BY <2>1 DEF PrepareSucceeds, PrepareFails, Prepares, env, store
    <3>2. QED BY <3>1, StepBuilds DEF Tracking
  <2>2. ASSUME NEW id \in Plugins, RemoveManaged(id) PROVE BInv'
    <3>1. /\ pc = "clean" /\ pc' = "clean" /\ UNCHANGED <<config, op, mem, lock>>
          /\ \A p \in Plugins : disk'[p] = disk[p] \/ disk'[p] = Missing
      BY <2>2 DEF RemoveManaged, env, IInv, TypeOK, Disk
    <3>2. Scope' = Scope /\ (Following' <=> Following)
      BY <3>1 DEF Scope, Declared, Following
    <3>3. QED BY <3>1, <3>2 DEF BInv, Built, Tracking, Healthy
  <2>3. \A id \in Plugins : ~RemoveManagedFails(id)
    BY NoFault DEF RemoveManagedFails
  <2>4. QED BY <1>2, <2>1, <2>2, <2>3, SelectBuilds, PublishBuilds, FinishBuilds, ApplyBuilds
        DEF Process
<1>3. ~Crash
  BY NoFault DEF Crash
<1>4. CASE Environment
  <2>1. ASSUME NEW id \in Plugins, NEW spec, EditConfig(id, spec) PROVE BInv'
    <3>1. pc = "idle" /\ UNCHANGED <<pc, mem, lock, disk>>
      BY <2>1 DEF EditConfig, Intervenes
    <3>2. QED BY <3>1 DEF BInv, Built, Tracking, Following
  <2>2. ASSUME NEW id \in Plugins, NEW ref \in Refs, NEW c \in Commits, UpstreamMoves(id, ref, c)
        PROVE  BInv'
    <3>1. UNCHANGED <<pc, op, cur, config, prepared, mem, lock, disk>>
      BY <2>2 DEF UpstreamMoves, store, work
    <3>2. Scope' = Scope /\ (Following' <=> Following)
      BY <3>1 DEF Scope, Declared, Following
    <3>3. QED BY <3>1, <3>2 DEF BInv, Built, Tracking
  <2>3. "damage" \notin EnvSteps /\ "pull" \notin EnvSteps
    BY DEF Calm
  <2>4. QED BY <1>4, <2>1, <2>2, <2>3 DEF Environment
<1>5. CASE UNCHANGED vars
  <2>1. UNCHANGED <<pc, op, cur, config, prepared, mem, lock, disk>>
    BY <1>5 DEF vars, env, store, work
  <2>2. Scope' = Scope /\ (Following' <=> Following)
    BY <2>1 DEF Scope, Declared, Following
  <2>3. QED BY <2>1, <2>2 DEF BInv, Built, Tracking
<1>6. QED BY <1>1, <1>2, <1>3, <1>4, <1>5 DEF Next

(* Where nothing fails and nobody else writes, a successful command leaves   *)
(* every checkout it covers built as declared (sync.rs 457-463 and 527-541,  *)
(* git.rs 327-379): `pulled` shows what a lockfile from elsewhere changes.   *)
THEOREM CalmBuildsAsDeclared ==
  ASSUME Calm
  PROVE  Spec => []BuiltAsDeclared
<1>1. Init => BInv
  BY DEF Init, BInv, Built, Healthy, Following
<1>2. GInv /\ BInv /\ [Next]_vars => (GInv /\ BInv)'
  BY NextGInv, NextBuilds
<1>3. ASSUME GInv, BInv PROVE BuiltAsDeclared
  <2> SUFFICES ASSUME Concluded("ok"), NEW id \in Covered
               PROVE  Healthy(disk[id]) /\ disk[id].build = config[id].build
    BY DEF BuiltAsDeclared
  <2>1. /\ id \in Plugins /\ pc = "idle" /\ lock.entries[id] # None
        /\ lock.entries[id].hash = config[id] /\ Healthy(disk[id])
    BY <1>3 DEF GInv, CInv, SuccessConverges, Covered, Scope, Declared, Concluded
  <2>2. disk[id] = Made(lock.entries[id])
    BY <1>3, <2>1 DEF BInv, Built, Tracking
  <2>3. QED BY <2>1, <2>2 DEF Made
<1>4. QED BY <1>1, <1>2, <1>3, InitGInv, PTL DEF Spec

-----------------------------------------------------------------------------
(* Markers.  An entry changes only together with the removal of its          *)
(* plugin's markers; a plugin that has not been tried yet has no failure on  *)
(* record that is newer than the phase; and what is being published is not   *)
(* what is installed as the lockfile says.                                   *)
Relocked(id) == mem.entries[id] # None /\ mem.entries[id] # before.lock.entries[id]
NoNewer(id)  == markers[id] \subseteq before.markers[id] /\ torn[id] \subseteq before.torn[id]

Untried(id) ==
  \/ pc = "select"
  \/ pc \in {"prepare", "apply"} \cup PublishPhases /\ id \in pending
  \/ pc \in PublishPhases /\ id = cur

Cleared(id) == (Relocked(id) => Known(id) \subseteq before.torn[id]) /\ (Untried(id) => NoNewer(id))

Unblamed(id) ==        \* what LockedNotFailed says once the lockfile is written
  (InstalledAsLocked(id) /\ LockedAttempt(id) \in Known(id))
    => LockedAttempt(id) \in before.markers[id] \cup before.torn[id]

Unfinished   == {"select", "prepare", "apply", "write"} \cup PublishPhases
Reinstalling == InstalledAsLocked(cur) /\ lock.entries[cur].commit = prepared[cur].commit

MInv ==
  /\ pc \in Unfinished => \A id \in Plugins : Cleared(id)
  /\ pc \in {"build", "remove", "rename"} => ~Reinstalling
  /\ result # "none" => \A id \in Plugins : Unblamed(id)

Silent ==                \* a step that puts nothing on record
  /\ UNCHANGED <<config, lock, torn, before>>
  /\ \A id \in Plugins : markers'[id] \subseteq markers[id]

Worse(id) ==           \* a step that publishes nothing
  Healthy(disk'[id]) => Healthy(disk[id]) /\ disk'[id].head = disk[id].head

LEMMA WorseInstalled ==
  ASSUME NEW id \in Plugins, Worse(id), UNCHANGED <<config, lock>>, InstalledAsLocked(id)'
  PROVE  InstalledAsLocked(id)
  BY DEF Worse, InstalledAsLocked, AtRev, Declared

LEMMA GuttedWorse ==
  ASSUME IInv, NEW id \in Plugins, NEW d \in Gutted(disk[id]), Healthy(d)
  PROVE  Healthy(disk[id]) /\ d.head = disk[id].head
<1>1. Healthy(disk[id]) /\ d = [disk[id] EXCEPT !.build = None]
  BY DEF Gutted, Healthy
<1>2. disk[id] \in Checkout
  BY <1>1 DEF Healthy, IInv, TypeOK, Disk
<1>3. QED BY <1>1, <1>2 DEF Checkout

LEMMA SilentUnblamed ==
  ASSUME MInv, result # "none", Silent, NEW id \in Plugins, Worse(id) \/ NoNewer(id)
  PROVE  Unblamed(id)'
<1>1. CASE Worse(id)
  <2>1. InstalledAsLocked(id)' => InstalledAsLocked(id)
    BY <1>1, WorseInstalled DEF Silent
  <2>2. LockedAttempt(id)' = LockedAttempt(id) /\ Known(id)' \subseteq Known(id)
    BY DEF Silent, LockedAttempt, Known
  <2>3. Unblamed(id) /\ before' = before
    BY DEF MInv, Silent
  <2>4. QED BY <2>1, <2>2, <2>3 DEF Unblamed
<1>2. CASE NoNewer(id)
  BY <1>2 DEF NoNewer, Unblamed, Known, Silent
<1>3. QED BY <1>1, <1>2

LEMMA EndUnmarks ==    \* the rest of a command, or its end
  ASSUME MInv, result # "none", pc' \notin Unfinished, Silent, \A id \in Plugins : Worse(id)
  PROVE  MInv'
  BY SilentUnblamed DEF MInv, Unfinished, PublishPhases

LEMMA StepUnmarks ==   \* within a phase: an entry changes as the markers are removed
  ASSUME MInv, result # "none", pc \in Unfinished, Silent,
         \A id \in Plugins :
           /\ Worse(id) \/ Untried(id)
           /\ Untried(id)' => Untried(id)
           /\ mem'.entries[id] \in {None, mem.entries[id]} \/ (markers'[id] = {} /\ Untried(id)),
         pc' \in {"build", "remove", "rename"} => ~Reinstalling'
  PROVE  MInv'
<1>1. ASSUME NEW id \in Plugins PROVE Cleared(id)' /\ Unblamed(id)'
  <2>1. Cleared(id) /\ before' = before /\ torn' = torn /\ markers'[id] \subseteq markers[id]
    BY DEF MInv, Silent
  <2>2. Untried(id)' => NoNewer(id)'
    BY <2>1 DEF Cleared, NoNewer
  <2>3. Unblamed(id)'
    BY <2>1, SilentUnblamed DEF Cleared
  <2>4. CASE mem'.entries[id] \in {None, mem.entries[id]}
    <3>1. Relocked(id)' => Relocked(id)
      BY <2>1, <2>4 DEF Relocked
    <3>2. Known(id)' \subseteq Known(id)
      BY <2>1 DEF Known
    <3>3. Relocked(id)' => Known(id)' \subseteq before'.torn[id]
      BY <2>1, <3>1, <3>2 DEF Cleared
    <3>4. QED BY <2>2, <2>3, <3>3 DEF Cleared
  <2>5. CASE markers'[id] = {} /\ Untried(id)
    <3>1. Known(id)' \subseteq before'.torn[id]
      BY <2>1, <2>5 DEF Cleared, NoNewer, Known
    <3>2. QED BY <2>2, <2>3, <3>1 DEF Cleared
  <2>6. QED BY <2>4, <2>5
<1>2. QED BY <1>1 DEF MInv

LEMMA SelectUnmarks ==
  ASSUME IInv, FInv, MInv, Select
  PROVE  MInv'
<1>1. pc = "select" /\ pc \in Unfinished /\ result # "none"
  BY DEF Select, SelectSync, SelectInstall, SelectUpdate, SelectRestore, SelectRestoreFails,
     Unfinished, FInv
<1>2. UNCHANGED <<config, lock, torn, before>>
  BY DEF Select, SelectSync, SelectInstall, SelectUpdate, SelectRestore, SelectRestoreFails,
     Selects, env, hist
<1>3. \A id \in Plugins : markers'[id] \subseteq markers[id]
  <2>1. CASE SelectRestore \/ SelectRestoreFails
    <3>1. \A id \in Plugins : markers'[id] = {} \/ markers'[id] \subseteq markers[id]
      BY <2>1 DEF SelectRestore, SelectRestoreFails
    <3>2. QED BY <3>1
  <2>2. CASE SelectSync \/ SelectInstall \/ SelectUpdate
    BY <2>2 DEF SelectSync, SelectInstall, SelectUpdate
  <2>3. QED BY <2>1, <2>2 DEF Select
<1>4. \A id \in Plugins : Worse(id)
  <2>1. CASE SelectInstall
    <3>1. \A id \in Plugins : disk'[id] \in {Missing, disk[id]}
      BY <2>1 DEF SelectInstall, IInv, TypeOK, Disk
    <3>2. QED BY <3>1 DEF Worse, Healthy
  <2>2. CASE ~SelectInstall
    <3>1. disk' = disk
      BY <2>2 DEF Select, SelectSync, SelectUpdate, SelectRestore, SelectRestoreFails, Selects
    <3>2. QED BY <3>1 DEF Worse
  <2>3. QED BY <2>1, <2>2
<1>5. CASE SelectRestoreFails
  <2>1. pc' \notin Unfinished
    BY <1>5 DEF SelectRestoreFails, EndsWith, Unfinished, PublishPhases
  <2>2. QED BY <1>1, <1>2, <1>3, <1>4, <2>1, EndUnmarks DEF Silent
<1>6. CASE ~SelectRestoreFails
  <2>1. pc' \in {"prepare", "apply"} /\ mem' = mem
    BY <1>6 DEF Select, SelectSync, SelectInstall, SelectUpdate, SelectRestore, Selects
  <2>2. \A id \in Plugins : Untried(id)
    BY <1>1 DEF Untried
  <2>3. QED BY <1>1, <1>2, <1>3, <1>4, <2>1, <2>2, StepUnmarks DEF Silent
<1>7. QED BY <1>5, <1>6

LEMMA DropsWorse ==
  ASSUME IInv, NEW id \in Plugins, DropBroken(id)
  PROVE  \A p \in Plugins : Worse(p)
<1>1. \A p \in Plugins : disk'[p] \in {Missing, disk[p]}
  BY DEF DropBroken, IInv, TypeOK, Disk
<1>2. QED BY <1>1 DEF Worse, Healthy

LEMMA ApplyUnmarks ==
  ASSUME IInv, FInv, KInv, MInv, NEW id \in Plugins, Apply(id)
  PROVE  MInv'
<1>1. pc = "apply" /\ id \in pending /\ UNCHANGED <<config, lock, torn, before>>
  BY DEF Apply, SkipUnprepared, Adopt, AdoptFails, AbortUpdate, SkipKnownFailure,
     BeginPublish, Applies, First, env, hist
<1>2. result # "none" /\ pc \in Unfinished
  BY <1>1 DEF FInv, Unfinished
<1>3. markers \in [Plugins -> SUBSET Attempt]
  BY DEF IInv, TypeOK, Markers
<1>4. \A p \in Plugins : markers'[p] \subseteq markers[p]
  BY <1>3 DEF Apply, SkipUnprepared, Adopt, AdoptFails, AbortUpdate, SkipKnownFailure,
     BeginPublish, ClearMarkers, PartlyCleared
<1>5. \A p \in Plugins : Worse(p)
  <2>1. CASE SkipKnownFailure(id) \/ BeginPublish(id)
    BY <2>1, DropsWorse DEF SkipKnownFailure, BeginPublish
  <2>2. CASE SkipUnprepared(id) \/ Adopt(id) \/ AdoptFails(id) \/ AbortUpdate(id)
    <3>1. disk' = disk
      BY <2>2 DEF SkipUnprepared, Adopt, AdoptFails, AbortUpdate
    <3>2. QED BY <3>1 DEF Worse
  <2>3. QED BY <2>1, <2>2 DEF Apply
<1>6. CASE AbortUpdate(id)
  <2>1. pc' \notin Unfinished
    BY <1>6 DEF AbortUpdate, EndsWith, Unfinished, PublishPhases
  <2>2. QED BY <1>1, <1>2, <1>4, <1>5, <2>1, EndUnmarks DEF Silent
<1>7. CASE ~AbortUpdate(id)
  <2>1. pending' = pending \ {id} /\ pc' \in {"apply", "build", "remove", "rename"}
    BY <1>1, <1>7 DEF Apply, SkipUnprepared, Adopt, AdoptFails, SkipKnownFailure, BeginPublish,
       Applies, Swap
  <2>2. pc' # "apply" => BeginPublish(id) /\ cur' = id
    BY <1>1, <1>7 DEF Apply, SkipUnprepared, Adopt, AdoptFails, SkipKnownFailure, BeginPublish
  <2>3. \A p \in Plugins : Untried(p)' => Untried(p)
    BY <1>1, <2>1, <2>2 DEF Untried, PublishPhases
  <2>4. Untried(id)
    BY <1>1 DEF Untried
  <2>5. \A p \in Plugins : mem'.entries[p] = mem.entries[p] \/ (markers'[p] = {} /\ Untried(p))
    <3>1. CASE Adopt(id)
      BY <1>3, <2>4, <3>1, InsertedElsewhere DEF Adopt, ClearMarkers
    <3>2. CASE ~Adopt(id)
      BY <1>7, <3>2 DEF Apply, SkipUnprepared, AdoptFails, SkipKnownFailure, BeginPublish
    <3>3. QED BY <3>1, <3>2
  <2>6. ASSUME pc' \in {"build", "remove", "rename"}, Reinstalling' PROVE FALSE
    <3>1. BeginPublish(id) /\ cur' = id /\ prepared'[id] = prepared[id] /\ UNCHANGED op
      BY <2>2, <2>6 DEF BeginPublish, Applies
    <3>2. InstalledAsLocked(id) /\ lock.entries[id].commit = prepared[id].commit
      BY <1>1, <1>5, <2>6, <3>1, WorseInstalled DEF Reinstalling, InstalledAsLocked
    <3>3. mem.entries[id] = lock.entries[id]
      BY <1>1 DEF FInv, Reaching, Fresh, SameEntry
    <3>4. prepared[id].hash = config[id]
      BY <3>1 DEF KInv, FreshResults, BeginPublish
    <3>5. UpToDate(id)
      BY <3>2, <3>3, <3>4 DEF UpToDate, InstalledAsLocked
    <3>6. QED BY <3>1, <3>5 DEF BeginPublish
  <2>7. QED BY <1>1, <1>2, <1>4, <1>5, <2>1, <2>3, <2>5, <2>6, StepUnmarks DEF Silent
<1>8. QED BY <1>6, <1>7

(* A failure is put on record for the plugin at hand, which has its old      *)
(* entry, and not for what is installed.                                     *)
LEMMA FailureUnmarks ==
  ASSUME IInv, FInv, MInv, BuildFails \/ SwapFails, NEW c, c = cur
  PROVE  MInv'
<1>1. /\ pc \in {"build", "remove", "rename"} /\ pc \in PublishPhases /\ pc \in Unfinished
      /\ result # "none" /\ pc' = "apply" /\ pending' = pending /\ mem' = mem
      /\ UNCHANGED <<config, lock, before>>
  BY DEF BuildFails, SwapFails, PublishFails, NextPlugin, Unfinished, PublishPhases, FInv, env,
     hist
<1>2. c \in Plugins /\ c \notin pending /\ ~Relocked(c) /\ ~Reinstalling
  BY <1>1 DEF IInv, Publishing, Declared, FInv, Reaching, SameEntry, Relocked, MInv
<1>3. \A p \in Plugins : p # c => markers'[p] = markers[p] /\ torn'[p] = torn[p]
  BY <1>2 DEF BuildFails, SwapFails, WriteMarker, TearMarker, IInv, TypeOK, Markers
<1>4. Known(c)' \subseteq Known(c) \cup {Building(c)}
  BY <1>2 DEF BuildFails, SwapFails, WriteMarker, TearMarker, IInv, TypeOK, Markers, Known
<1>5. \A p \in Plugins : Worse(p)
  <2>1. CASE disk' = disk
    BY <2>1 DEF Worse
  <2>2. CASE disk' # disk
    <3>1. PICK d \in Gutted(disk[c]) : disk' = [disk EXCEPT ![c] = d]
      BY <2>2 DEF BuildFails, SwapFails
    <3>2. QED BY <1>2, <3>1, GuttedWorse DEF Worse, IInv, TypeOK, Disk
  <2>3. QED BY <2>1, <2>2
<1>6. ASSUME NEW p \in Plugins PROVE Cleared(p)' /\ Unblamed(p)'
  <2>1. Cleared(p) /\ Unblamed(p) /\ (Relocked(p)' => Relocked(p))
    BY <1>1 DEF MInv, Relocked
  <2>2. InstalledAsLocked(p)' => InstalledAsLocked(p)
    BY <1>1, <1>5, WorseInstalled
  <2>3. LockedAttempt(p)' = LockedAttempt(p)
    BY <1>1 DEF LockedAttempt
  <2>4. CASE p # c
    <3>1. Known(p)' = Known(p) /\ (NoNewer(p) => NoNewer(p)') /\ (Untried(p)' => Untried(p))
      BY <1>1, <1>3, <2>4 DEF Known, NoNewer, Untried, PublishPhases
    <3>2. QED BY <1>1, <2>1, <2>2, <2>3, <3>1 DEF Cleared, Unblamed
  <2>5. CASE p = c
    <3>1. ~Untried(p)' /\ ~Relocked(p)'
      BY <1>1, <1>2, <2>1, <2>5 DEF Untried, PublishPhases
    <3>2. InstalledAsLocked(p) => LockedAttempt(p) # Building(p)
      BY <1>2, <2>5 DEF Reinstalling, LockedAttempt, Building
    <3>3. Unblamed(p)'
      BY <1>1, <1>4, <2>1, <2>2, <2>3, <2>5, <3>2 DEF Unblamed
    <3>4. QED BY <3>1, <3>3 DEF Cleared
  <2>6. QED BY <2>4, <2>5
<1>7. QED BY <1>1, <1>6 DEF MInv

LEMMA PublishUnmarks ==
  ASSUME IInv, FInv, MInv, Publish, NEW c, c = cur
  PROVE  MInv'
<1>1. pc \in PublishPhases /\ pc \in Unfinished /\ c \in Plugins /\ result # "none"
  BY DEF Publish, BuildSucceeds, BuildFails, RemoveTarget, Rename, SwapFails, Track, TrackFails,
     PublishPhases, Unfinished, IInv, TypeOK, Publishing, Declared, FInv
<1>2. Untried(c)
  BY <1>1 DEF Untried
<1>3. CASE BuildSucceeds \/ RemoveTarget \/ Rename
  <2>1. UNCHANGED <<config, lock, torn, markers, before, mem, cur, pending, prepared>>
    BY <1>3 DEF BuildSucceeds, RemoveTarget, Rename, env, store, work, hist
  <2>2. pc' \in PublishPhases /\ (pc' \in {"build", "remove", "rename"} => ~Rename)
    BY <1>3 DEF BuildSucceeds, RemoveTarget, Rename, Swap, PublishPhases
  <2>3. \A p \in Plugins : Untried(p)' => Untried(p)
    BY <1>1, <2>1, <2>2 DEF Untried, PublishPhases
  <2>4. \A p \in Plugins : Worse(p) \/ Untried(p)
    BY <1>1, <1>2, <1>3 DEF BuildSucceeds, RemoveTarget, Rename, store, Worse, IInv, TypeOK, Disk
  <2>5. ASSUME pc' \in {"build", "remove", "rename"}, Reinstalling' PROVE FALSE
    <3>1. pc \in {"build", "remove"} /\ Worse(c)
      BY <1>1, <1>3, <2>2, <2>5 DEF BuildSucceeds, RemoveTarget, store, Worse, Healthy, IInv, TypeOK,
         Disk
    <3>2. InstalledAsLocked(c)
      BY <1>1, <2>1, <2>5, <3>1, WorseInstalled DEF Reinstalling, InstalledAsLocked
    <3>3. Reinstalling
      BY <2>1, <2>5, <3>2 DEF Reinstalling
    <3>4. QED BY <3>1, <3>3 DEF MInv
  <2>6. QED BY <1>1, <2>1, <2>3, <2>4, <2>5, StepUnmarks DEF Silent
<1>4. CASE Track \/ TrackFails
  <2>1. /\ UNCHANGED <<config, lock, torn, before, disk, pending>> /\ pc' = "apply"
    BY <1>4 DEF Track, TrackFails, NextPlugin, env, hist
  <2>2. markers \in [Plugins -> SUBSET Attempt]
    BY DEF IInv, TypeOK, Markers
  <2>3. \A p \in Plugins : markers'[p] \subseteq markers[p]
    BY <1>1, <1>4, <2>2 DEF Track, TrackFails, ClearMarkers, PartlyCleared
  <2>4. \A p \in Plugins : Untried(p)' => Untried(p)
    BY <1>1, <2>1 DEF Untried, PublishPhases
  <2>5. \A p \in Plugins : Worse(p)
    BY <2>1 DEF Worse
  <2>6. \A p \in Plugins : p # c => mem'.entries[p] = mem.entries[p]
    BY <1>1, <1>4, InsertedElsewhere DEF Track, TrackFails
  <2>7. mem' = mem \/ markers'[c] = {}
    BY <1>1, <1>4, <2>2 DEF Track, TrackFails, ClearMarkers
  <2>8. QED BY <1>1, <1>2, <2>1, <2>3, <2>4, <2>5, <2>6, <2>7, StepUnmarks DEF Silent
<1>5. QED BY <1>3, <1>4, FailureUnmarks DEF Publish

(* At the write an entry is the old one, or has nothing newer on record.     *)
LEMMA WriteUnmarks ==
  ASSUME FInv, MInv, pc = "write", lock' = mem, pc' \notin Unfinished,
         UNCHANGED <<config, disk, markers, torn, before>>
  PROVE  MInv'
<1>1. result # "none" /\ lock.entries = before.lock.entries /\ pc \in Unfinished
  BY DEF FInv, Reaching, Unfinished
<1>2. ASSUME NEW id \in Plugins PROVE Unblamed(id)'
  <2>1. Cleared(id) /\ Unblamed(id) /\ Known(id)' = Known(id) /\ before' = before
    BY <1>1 DEF MInv, Known
  <2>2. CASE Relocked(id)
    BY <2>1, <2>2 DEF Cleared, Unblamed
  <2>3. CASE mem.entries[id] = None
    BY <2>3 DEF Unblamed, InstalledAsLocked
  <2>4. CASE mem.entries[id] = lock.entries[id]
    <3>1. /\ InstalledAsLocked(id)' = InstalledAsLocked(id)
          /\ LockedAttempt(id)' = LockedAttempt(id)
      BY <2>4 DEF InstalledAsLocked, LockedAttempt, AtRev, Declared
    <3>2. QED BY <2>1, <3>1 DEF Unblamed
  <2>5. QED BY <1>1, <2>2, <2>3, <2>4 DEF Relocked
<1>3. QED BY <1>2 DEF MInv, Unfinished, PublishPhases

LEMMA FinishUnmarks ==
  ASSUME IInv, FInv, MInv, Finish
  PROVE  MInv'
<1>1. /\ UNCHANGED <<config, disk, markers, torn>> /\ result # "none"
  BY DEF Finish, FinishApply, FinishRestore, PhaseDone, WriteAndStop, WriteAndFollow,
     WriteAndLoadOrClean, WriteFollow, WriteFails, Writes, Load, Scan, CleanDone, env, store, FInv
<1>2. \A p \in Plugins : Worse(p)
  BY <1>1 DEF Worse
<1>3. CASE FinishApply
  <2>1. pc = "apply" /\ pc' = "write" /\ UNCHANGED <<before, lock, pending>> /\ pc \in Unfinished
    BY <1>3 DEF FinishApply, PhaseDone, hist, store, work, Unfinished
  <2>2. \A p \in Plugins : mem'.entries[p] \in {None, mem.entries[p]}
    BY <1>3 DEF FinishApply, SyncedLock, Pruned, IInv, TypeOK, LockFile
  <2>3. \A p \in Plugins : ~Untried(p)'
    BY <2>1 DEF Untried, PublishPhases
  <2>4. QED BY <1>1, <1>2, <2>1, <2>2, <2>3, StepUnmarks DEF Silent
<1>4. CASE FinishRestore \/ WriteFails \/ Load \/ CleanDone \/ Scan
  <2>1. UNCHANGED <<lock, before>> /\ pc' \in {"idle", "clean"}
    BY <1>4 DEF FinishRestore, WriteFails, Load, CleanDone, Scan, EndsWith, store, hist
  <2>2. QED BY <1>1, <1>2, <2>1, EndUnmarks DEF Silent, Unfinished, PublishPhases
<1>5. CASE WriteAndStop \/ WriteFollow \/ WriteAndLoadOrClean
  <2>1. pc = "write" /\ lock' = mem /\ pc' \in {"idle", "load", "scan"} /\ before' = before
    BY <1>5 DEF WriteAndStop, WriteFollow, WriteAndLoadOrClean, Writes, EndsWith, hist
  <2>2. QED BY <1>1, <2>1, WriteUnmarks DEF Unfinished, PublishPhases
<1>6. CASE WriteAndFollow
  <2>1. /\ pc' = "select" /\ mem' = mem /\ before'.lock = mem
        /\ before'.markers = markers' /\ before'.torn = torn'
    BY <1>1, <1>6 DEF WriteAndFollow, Snapshot
  <2>2. QED BY <2>1 DEF MInv, Cleared, Relocked, NoNewer, Unblamed, Known
<1>7. QED BY <1>3, <1>4, <1>5, <1>6 DEF Finish

LEMMA OtherUnmarks ==   \* preparation and removal touch neither entries nor markers
  ASSUME IInv, FInv, MInv, NEW id \in Plugins,
         Prepares(id) \/ RemoveManaged(id) \/ RemoveManagedFails(id)
  PROVE  MInv'
<1>1. pc \in {"prepare", "clean"} /\ UNCHANGED <<config, before, lock, markers, torn>> /\ result # "none"
  BY DEF Prepares, RemoveManaged, RemoveManagedFails, env, store, hist, FInv
<1>2. CASE Prepares(id)
  <2>1. pc = "prepare" /\ UNCHANGED <<mem, pending, disk>> /\ pc' \in {"prepare", "apply"} /\ pc \in Unfinished
    BY <1>2 DEF Prepares, store, Unfinished
  <2>2. \A p \in Plugins : Worse(p) /\ (Untried(p)' => Untried(p))
    BY <2>1 DEF Worse, Untried, PublishPhases
  <2>3. QED BY <1>1, <2>1, <2>2, StepUnmarks DEF Silent
<1>3. CASE RemoveManaged(id) \/ RemoveManagedFails(id)
  <2>1. \E d \in {Missing, disk[id]} \cup Gutted(disk[id]) : disk' = [disk EXCEPT ![id] = d]
    BY <1>3 DEF RemoveManaged, RemoveManagedFails
  <2>2. \A p \in Plugins : Worse(p)
    BY <2>1, GuttedWorse DEF Worse, Healthy, IInv, TypeOK, Disk
  <2>3. pc' \in {"clean", "idle"}
    BY <1>3 DEF RemoveManaged, RemoveManagedFails, EndsWith
  <2>4. QED BY <1>1, <2>2, <2>3, EndUnmarks DEF Silent, Unfinished, PublishPhases
<1>4. QED BY <1>2, <1>3

LEMMA CrashUnmarks ==
  ASSUME IInv, FInv, MInv, Crash
  PROVE  MInv'
<1>1. /\ UNCHANGED <<config, lock, before, markers, torn>> /\ pc' = "idle" /\ result # "none"
  BY DEF Crash, EndsWith, env, FInv
<1>2. \A p \in Plugins : Worse(p)
  <2>1. CASE disk' = disk
    BY <2>1 DEF Worse
  <2>2. CASE disk' # disk
    <3>1. PICK id \in Plugins : \E d \in Gutted(disk[id]) : disk' = [disk EXCEPT ![id] = d]
      BY <2>2 DEF Crash, BeingRemoved
    <3>2. QED BY <3>1, GuttedWorse DEF Worse, IInv, TypeOK, Disk
  <2>3. QED BY <2>1, <2>2
<1>3. QED BY <1>1, <1>2, EndUnmarks DEF Silent, Unfinished, PublishPhases

LEMMA NextUnmarks ==
  ASSUME IInv, FInv, KInv, MInv, [Next]_vars
  PROVE  MInv'
<1>1. ASSUME NEW cmd, NEW target, Start(cmd, target) PROVE MInv'
  <2>1. /\ pc' = "select" /\ mem' = lock /\ before'.lock = lock
        /\ before'.markers = markers' /\ before'.torn = torn'
    BY <1>1 DEF Start, Snapshot, store
  <2>2. QED BY <2>1 DEF MInv, Cleared, Relocked, NoNewer, Unblamed, Known
<1>2. CASE Process
  BY <1>2, SelectUnmarks, PublishUnmarks, FinishUnmarks, ApplyUnmarks, OtherUnmarks
     DEF Process, PrepareSucceeds, PrepareFails
<1>3. CASE Crash
  BY <1>3, CrashUnmarks
<1>4. ASSUME NEW id \in Plugins, NEW ref \in Refs, NEW r \in Commits, UpstreamMoves(id, ref, r)
      PROVE  MInv'
  <2>1. UNCHANGED <<config, lock, disk, markers, torn, mem, pc, pending, cur, prepared, result>>
    BY <1>4 DEF UpstreamMoves, store, work
  <2>2. /\ before'.lock = before.lock /\ before'.markers = before.markers
        /\ before'.torn = before.torn
    BY <1>4 DEF UpstreamMoves, IInv, TypeOK
  <2>3. ASSUME NEW p \in Plugins
        PROVE  /\ Cleared(p)' = Cleared(p) /\ InstalledAsLocked(p)' = InstalledAsLocked(p)
               /\ Unblamed(p)' = Unblamed(p)
    BY <2>1, <2>2 DEF Cleared, Relocked, NoNewer, Untried, Unblamed, Known, InstalledAsLocked,
       LockedAttempt, AtRev, Declared
  <2>4. Reinstalling' = Reinstalling
    BY <2>1 DEF Reinstalling, InstalledAsLocked, AtRev, Declared
  <2>5. QED BY <2>1, <2>3, <2>4 DEF MInv
<1>5. ASSUME Intervenes PROVE MInv'
  BY <1>5 DEF Intervenes, MInv, Unfinished, PublishPhases
<1>6. CASE UNCHANGED vars
  <2>1. UNCHANGED <<config, lock, disk, markers, torn, mem, pc, pending, cur, prepared, result, before>>
    BY <1>6 DEF vars, env, store, work, hist
  <2>2. QED BY <2>1 DEF MInv, Cleared, Relocked, NoNewer, Untried, Unblamed, Known,
     InstalledAsLocked, LockedAttempt, AtRev, Declared, Reinstalling
<1>7. QED BY <1>1, <1>2, <1>3, <1>4, <1>5, <1>6 DEF Next, Environment, EditConfig, Damage, Pull

(* When a phase writes tmup.lock, all that is on record as failed for a      *)
(* plugin whose entry changes are files that were cut short before it, and   *)
(* no phase puts on record the attempt that is locked and installed,         *)
(* whatever fails (state.rs 259-315, sync.rs 465-541, plugin.rs 640-676).    *)
THEOREM LockedIsNotFailed == Spec => []LockedNotFailed
<1>1. Init => FInv /\ KInv /\ MInv
  BY InitGInv DEF GInv, Init, FInv, MInv, Unfinished, PublishPhases
<1>2. IInv /\ FInv /\ KInv /\ MInv /\ [Next]_vars => (IInv /\ FInv /\ KInv /\ MInv)'
  BY NextType, NextSpares, NextControl, NextUnmarks
<1>3. FInv /\ MInv => LockedNotFailed
  BY DEF FInv, MInv, Unblamed, Cleared, Relocked, Unfinished, LockedNotFailed
<1>4. QED BY <1>1, <1>2, <1>3, InitIInv, PTL DEF Spec

=============================================================================
