------------------------------- MODULE Listing -------------------------------
(***************************************************************************)
(* tmup list (main.rs run_list, planner.rs) beside the commands of         *)
(* Lifecycle.  It takes no lock: it reads the configuration, tmup.lock,    *)
(* every checkout and the failure markers one after the other, while a     *)
(* command may be anywhere between its first and its last step.            *)
(***************************************************************************)
EXTENDS Lifecycle

ASSUME ListingAssumption ==
  /\ Missing # Broken /\ {Missing, Broken} \cap Commits = {}
  /\ None \notin [head : Commits \cup {Missing, Broken}]

VARIABLES
  at,                       \* what run_list reads next
  view,                     \* what it has read
  rows, beside,             \* history: see Observe
  quiet                     \* history: the last list said there is nothing to do

listing  == <<at, view, rows, beside, quiet>>
listVars == <<vars, listing>>

-----------------------------------------------------------------------------
(* The table, as a function of what was read.                               *)

Health(d) == [head |-> IF Healthy(d) THEN d.head ELSE d]   \* RepoHealth

StateOf(spec, entry, health) ==
  IF health.head = Missing THEN "missing"
  ELSE IF health.head = Broken THEN "broken"
  ELSE IF entry # None /\ entry.commit # health.head THEN "outdated"
  ELSE CASE spec.sel \in Tags -> "pinned-tag"
         [] spec.sel \in Revs -> "pinned-commit"
         [] OTHER             -> "installed"

Row(spec, entry, health) ==
  [state    |-> StateOf(spec, entry, health),
   current  |-> IF health.head \in Commits THEN health.head ELSE None,
   expected |-> IF entry = None THEN None ELSE entry.commit]

BuildStatus(spec, health, failures) ==   \* whatever the commit of the failure
  IF spec.build = NoBuild THEN "none"
  ELSE IF \E a \in failures : a.build = spec.build THEN "build-failed"
  ELSE IF health.head \in Commits THEN "ok"
  ELSE "none"

StaleByPresence(cfg, lk) ==              \* faulty: compares ids only
  \E id \in Plugins : cfg[id] = None <=> lk.entries[id] # None

Stale(cfg, lk) ==                        \* lock_is_stale
  IF \A id \in Plugins : cfg[id] = None
  THEN \E id \in Plugins : lk.entries[id] # None
  ELSE \/ lk.fp # cfg
       \/ \E id \in Plugins :
            IF cfg[id] = None THEN lk.entries[id] # None
            ELSE lk.entries[id] = None \/ lk.entries[id].hash # cfg[id]

Listed == {id \in Plugins : view.cfg[id] # None}

RowsSettled ==        \* no warning, and no row missing, broken or outdated
  /\ ~Stale(view.cfg, view.lock)
  /\ \A id \in Listed :
       StateOf(view.cfg[id], view.lock.entries[id], view.health[id])
         \notin {"missing", "broken", "outdated"}

ListsSettled ==   \* and no build that failed; the markers are read last
  /\ RowsSettled
  /\ \A id \in Listed :
       BuildStatus(view.cfg[id], view.health[id], markers[id]) # "build-failed"

-----------------------------------------------------------------------------
(* run_list.                                                                *)

Unread == [cfg    |-> [id \in Plugins |-> None],
           lock   |-> [entries |-> [id \in Plugins |-> None], fp |-> None],
           health |-> [id \in Plugins |-> None]]

NoRows == [id \in Plugins |-> {}]

AfterCheckoutsFirst(step) ==   \* faulty: the lockfile is read last
  CASE step = "config" -> "checkouts" [] step = "checkouts" -> "lock"
    [] step = "lock" -> "markers"

After(step) ==
  CASE step = "config" -> "lock" [] step = "lock" -> "checkouts"
    [] step = "checkouts" -> "markers"

RowNow(cfg, id) == Row(cfg[id], lock.entries[id], Health(disk[id]))

ReadConfiguration ==
  /\ at = "idle"
  /\ at' = After("config")
  /\ view' = [Unread EXCEPT !.cfg = config]
  /\ rows' = [id \in Plugins |-> IF id \in Declared THEN {RowNow(config, id)} ELSE {}]
  /\ beside' = "nothing" /\ UNCHANGED quiet

ReadLockfile ==
  /\ at = "lock" /\ at' = After("lock")
  /\ view' = [view EXCEPT !.lock = lock]
  /\ UNCHANGED <<rows, beside, quiet>>

Uninspected == {id \in Listed : view.health[id] = None}

InspectCheckout(id) ==        \* build_health_map, in declaration order
  /\ at = "checkouts" /\ First(Uninspected, id)
  /\ view' = [view EXCEPT !.health[id] = Health(disk[id])]
  /\ UNCHANGED <<at, rows, beside, quiet>>

CheckoutsRead ==
  /\ at = "checkouts" /\ Uninspected = {} /\ at' = After("checkouts")
  /\ UNCHANGED <<view, rows, beside, quiet>>

ShowStatuses ==               \* read_failure_markers, and everything is printed
  /\ at = "markers" /\ at' = "idle"
  /\ quiet' = (ListsSettled /\ beside = "nothing" /\ pc = "idle")
  /\ view' = Unread /\ rows' = NoRows /\ beside' = "nothing"

List == ReadConfiguration \/ ReadLockfile \/ CheckoutsRead \/ ShowStatuses
        \/ \E id \in Plugins : InspectCheckout(id)

(* History.  While list runs: the rows that have been true of its           *)
(* configuration, and what ran beside it (nothing, one phase of a command,  *)
(* or a phase that began meanwhile).  After it: whether what it said still  *)
(* stands, until the next command has ended or the user does something.     *)
Observe ==
  /\ UNCHANGED <<at, view>>
  /\ quiet' = (quiet /\ edits' = edits /\ pc' # "idle")
  /\ IF at = "idle" THEN UNCHANGED <<rows, beside>>
     ELSE /\ rows' = [id \in Plugins |->
               IF id \in Listed THEN rows[id] \cup {RowNow(view.cfg, id)'} ELSE {}]
          /\ beside' = IF beside = "several" \/ pc' = "select" THEN "several"
                       ELSE "one"

-----------------------------------------------------------------------------
ListInit == Init /\ at = "idle" /\ view = Unread /\ rows = NoRows
            /\ beside = "nothing" /\ quiet = FALSE

ListNext == \/ List /\ UNCHANGED vars
            \/ (at = "idle" \/ edits' = edits) /\ Next /\ Observe   \* bound: no edits beside it

ListSpec == ListInit /\ [][ListNext]_listVars

-----------------------------------------------------------------------------
(* Properties.                                                              *)

(* Every row that list prints (state, current and expected revision) was   *)
(* true at some moment while it ran, although it reads lockfile and        *)
(* checkouts at different moments beside a running command, as long as no  *)
(* other phase of a command begins meanwhile: a phase changes checkouts    *)
(* first and the lockfile last, and list reads them in the other order.    *)
RowsWereTrue ==
  [][(at = "markers" /\ at' = "idle" /\ beside # "several") => \A id \in Listed :
         Row(view.cfg[id], view.lock.entries[id], view.health[id]) \in rows[id]]_listVars

(* When an undisturbed list shows no warning, no row that is missing,      *)
(* broken or outdated and no failed build, the next command finds nothing  *)
(* to do: unless it is an update or a clean, entries and checkouts stay as *)
(* they are.                                                               *)
SettledLeavesNothing ==
  (quiet /\ pc # "idle" /\ op.cmd \notin {"update", "clean"})
    => lock'.entries = lock.entries /\ UNCHANGED disk

(* After a sync of everything has succeeded, list shows no warning and no  *)
(* row that is missing, broken or outdated (configuration.md, "Run `tmup   *)
(* sync` in the same configuration mode to reconcile it").  A failed build *)
(* it may still show: see SyncRetriesFailures.                             *)
SyncSettles ==
  (/\ at = "markers" /\ at' = "idle" /\ beside = "nothing"
   /\ Concluded("ok") /\ op.cmd = "sync" /\ op.target = All) => RowsSettled

(* List and sync agree on what is out of order, the Build column apart: a  *)
(* sync leaves no warning and no row out of order, and what list is        *)
(* content with, failed builds included, no command touches.               *)
ListAndSyncAgree == [][SettledLeavesNothing /\ SyncSettles]_listVars

(* When an undisturbed list shows no warning and no row that is out of     *)
(* order, a build it calls successful is the one that made the checkout    *)
(* ("Build hook completed successfully", planner.rs:81): with the warning  *)
(* or an outdated row it may be one that has not run yet.  A lockfile      *)
(* pulled with its configuration claims builds that never ran here (run    *)
(* pulled), so this holds only where none is.                              *)
SuccessWasBuilt ==
  [][(at = "markers" /\ at' = "idle" /\ beside = "nothing" /\ pc = "idle" /\ RowsSettled) =>
       \A id \in Listed :
         BuildStatus(view.cfg[id], view.health[id], markers[id]) = "ok" =>
           disk[id].build = view.cfg[id].build]_listVars

(* An explicit sync retries every build in its scope that list, run just   *)
(* before it, shows as failed (commands.md, "A build stays `build-failed`: *)
(* an explicit sync retries it").                                          *)
SyncRetriesFailures ==
  [][(pc = "select" /\ pc' \in {"prepare", "apply"} /\ op.cmd = "sync") =>
       \A id \in Scope :
         BuildStatus(config[id], Health(disk[id]), markers[id]) = "build-failed"
           => id \in pending']_listVars
=============================================================================
