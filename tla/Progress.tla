------------------------------ MODULE Progress ------------------------------
(***************************************************************************)
(* The events a command reports: a sync phase, then the follow-up of       *)
(* install, update or restore, or the load of init.  In a phase the        *)
(* preparations run concurrently (prepare.rs) and report as they go; their *)
(* results are applied one after the other, in declaration order.          *)
(***************************************************************************)
EXTENDS Reporter, SequencesExt

CONSTANTS
  Local,       \* the plugins that are a directory of the user's: never synced
  Limits,      \* the settings of `concurrency`
  MaxFaults    \* bound on the times that stderr or the log directory changes

ASSUME ProgressAssumption ==
  /\ Local \subseteq Plugins /\ Limits \subseteq Nat /\ MaxFaults \in Nat

Commands == {"sync", "install", "update", "restore", "init"}
Remote   == Plugins \ Local

VARIABLES
  cmd, phase, limit,    \* the command, its phase, its concurrency
  scope,                \* the managed plugins it covers
  pc, todo,             \* where it is; plugins it has not looked at yet
  queue, job, ended,    \* jobs not started; steps of the others; results as they come
  apply, results,       \* plugins to apply and their results, in declaration order
  failures, excluded,   \* plugins that failed; plugins not to be loaded
  used,                 \* history: whose prepared checkout was published as whose
  outcome, faults

env      == <<terminal, logs, faults>>
setting  == <<cmd, limit, scope>>
batch    == <<queue, job, ended>>
applying == <<apply, results>>
tally    == <<failures, excluded, outcome>>
vars     == <<rep, env, setting, phase, pc, todo, batch, applying, tally, used>>

Report(e)        == rep' = Reported(rep, e)
ReportBoth(e, f) == rep' = To(Reported(rep, e), LAMBDA r : Reported(r, f))
Least(S)        == CHOOSE p \in S : \A q \in S : p <= q
Declaration(S)  ==
  CHOOSE s \in [1 .. Cardinality(S) -> S] : \A i, j \in DOMAIN s : i < j => s[i] < s[j]

-----------------------------------------------------------------------------
(* A command begins.  init shows that it waits for the lock, and reads its  *)
(* configuration again once it has it.                                      *)

Selects ==
  /\ pc' = "select" /\ todo' = scope
  /\ queue' = {} /\ job' = [p \in Plugins |-> "none"] /\ ended' = <<>>
  /\ apply' = <<>> /\ results' = <<>>

Begin ==
  /\ pc = "begin" /\ cmd # "init"
  /\ Report(Stage("Syncing")) /\ Selects
  /\ UNCHANGED <<env, setting, phase, tally, used>>

Wait ==
  /\ pc = "begin" /\ cmd = "init" /\ pc' = "lock"
  /\ Report(Stage("WaitingForLock"))
  /\ UNCHANGED <<env, setting, phase, todo, batch, applying, tally, used>>

LockFails ==    \* or the configuration cannot be read: the reporter is dropped
  /\ pc = "lock" /\ pc' = "done" /\ outcome' = "error"
  /\ rep' = Dropped(rep)
  /\ UNCHANGED <<env, setting, phase, todo, batch, applying, failures, excluded, used>>

Locked ==       \* emit_warnings writes to the terminal itself
  /\ pc = "lock" /\ pc' = "locked"
  /\ rep' \in {rep, Foreign(rep)}
  /\ UNCHANGED <<env, setting, phase, todo, batch, applying, tally, used>>

SyncsInit ==
  /\ pc = "locked"
  /\ Report(Stage("Syncing")) /\ Selects
  /\ UNCHANGED <<env, setting, phase, tally, used>>

-----------------------------------------------------------------------------
(* Selection, in declaration order.                                         *)

Looks(p) == pc = "select" /\ todo # {} /\ p = Least(todo) /\ todo' = todo \ {p}

Selected(p) ==
  /\ Looks(p) /\ queue' = queue \cup {p}
  /\ UNCHANGED <<rep, env, setting, phase, pc, job, ended, applying, tally, used>>

Passed(p) ==    \* nothing to do for p
  /\ Looks(p)
  /\ phase = "sync" \/ cmd = "install"
  /\ UNCHANGED <<rep, env, setting, phase, pc, batch, applying, tally, used>>

LeftAlone(p) == \* pinned, not locked, or already at the locked revision
  /\ Looks(p) /\ phase = "follow" /\ cmd \in {"update", "restore"}
  /\ \E what \in IF cmd = "update" THEN {"Skipped"} ELSE {"Skipped", "Checked"} :
       Report(PluginDone(p, what))
  /\ UNCHANGED <<env, setting, phase, pc, batch, applying, tally, used>>

Schedule ==
  /\ pc = "select" /\ todo = {} /\ pc' = "prepare"
  /\ apply' = Declaration(queue)
  /\ UNCHANGED <<rep, env, setting, phase, todo, batch, results, tally, used>>

-----------------------------------------------------------------------------
(* run_bounded: at most `limit` jobs at a time, and always one.             *)

Running == {p \in Plugins : job[p] # "none"}
AsLimited == limit                       \* faulty: no job at all with limit 0
Slots == IF limit = 0 THEN 1 ELSE limit

StartJob(p) ==
  /\ pc = "prepare" /\ queue # {} /\ p = Least(queue)
  /\ Cardinality(Running) < Slots
  /\ queue' = queue \ {p} /\ job' = [job EXCEPT ![p] = "cache"]
  /\ Report(PluginStage(p, "Fetching"))
  /\ UNCHANGED <<env, setting, phase, pc, todo, ended, applying, tally, used>>

Goes(p, from, to) ==
  /\ pc = "prepare" /\ job[p] = from /\ job' = [job EXCEPT ![p] = to]
  /\ UNCHANGED <<env, setting, phase, pc, todo, queue, ended, applying, tally, used>>

ChecksOut(p, from) ==
  Goes(p, from, "stage") /\ Report(PluginStage(p, "CheckingOut"))

Resolves == ~(phase = "follow" /\ cmd = "restore")   \* may resolve the selector
Reuses   == ~(phase = "follow" /\ cmd = "update")    \* may use the locked revision

EnsureCache(p) ==       \* then fetch what the selector tracks, or just what is missing
  \/ Resolves /\ Goes(p, "cache", "fetchTracking") /\ UNCHANGED rep
  \/ Reuses /\ Goes(p, "cache", "fetchLocked") /\ UNCHANGED rep
  \/ Reuses /\ ChecksOut(p, "cache")

FetchLocked(p)   == ChecksOut(p, "fetchLocked")
FetchTracking(p) == Goes(p, "fetchTracking", "resolve") /\ UNCHANGED rep

ResolveTracking(p) ==
  /\ Goes(p, "resolve", "stage")
  /\ ReportBoth(PluginStage(p, "Resolving"), PluginStage(p, "CheckingOut"))

JobEnds(p, how) ==
  /\ pc = "prepare" /\ job' = [job EXCEPT ![p] = "none"]
  /\ ended' = Append(ended, [of |-> p, how |-> how])
  /\ UNCHANGED <<rep, env, setting, phase, pc, todo, queue, applying, tally, used>>

Materialize(p) == job[p] = "stage" /\ JobEnds(p, "ok")

JobFails(p)    == job[p] # "none" /\ JobEnds(p, "failed")

AsTheyCame(done) == done    \* faulty: results are not put back into input order
InOrder(done) ==            \* stable: no two results are of one plugin
  CHOOSE s \in [DOMAIN done -> Range(done)] :
    \A i, j \in DOMAIN s : i < j => s[i].of < s[j].of

Collect ==
  /\ pc = "prepare" /\ queue = {} /\ Running = {} /\ pc' = "apply"
  /\ results' = InOrder(ended) /\ ended' = <<>>
  /\ UNCHANGED <<rep, env, setting, phase, todo, queue, job, apply, tally, used>>

-----------------------------------------------------------------------------
(* Serial application.                                                      *)

Current == Head(apply)    \* the plugin at hand
Result == Head(results)

AtHand == pc = "apply" /\ apply # <<>>

MovesOn == apply' = Tail(apply) /\ results' = Tail(results) /\ pc' = "apply"

Concludes(what) ==
  /\ Report(PluginDone(Current, what)) /\ MovesOn
  /\ UNCHANGED <<env, setting, phase, todo, batch, failures, outcome>>

FailsUnreported(at) ==  \* faulty: counted, and not reported
  /\ MovesOn /\ failures' = failures \cup {Current} /\ excluded' = excluded \cup {Current}
  /\ UNCHANGED <<rep, env, setting, phase, todo, batch, outcome, used>>

FailsAt(at) ==
  /\ Report(PluginFailed(Current, at)) /\ MovesOn
  /\ failures' = failures \cup {Current} /\ excluded' = excluded \cup {Current}
  /\ UNCHANGED <<env, setting, phase, todo, batch, outcome, used>>

ApplyUnprepared == AtHand /\ Result.how = "failed" /\ FailsAt("Preparing")

ApplyKept ==            \* the checkout is the one wanted
  /\ AtHand /\ Result.how = "ok"
  /\ \/ phase = "sync" /\ Concludes("Reconciled")
     \/ phase = "follow" /\ cmd = "update" /\ Concludes("Checked")
  /\ UNCHANGED <<excluded, used>>

SkipKnownFailure ==
  /\ AtHand /\ Result.how = "ok" /\ cmd = "init" /\ Concludes("Skipped")
  /\ excluded' = excluded \cup {Current} /\ UNCHANGED used

BeginPublish ==
  /\ AtHand /\ Result.how = "ok" /\ pc' = "publish"
  /\ \E what \in {"Applying", "Building"} : Report(PluginStage(Current, what))
  /\ UNCHANGED <<env, setting, phase, todo, batch, applying, tally, used>>

Published ==
  IF phase = "sync" THEN {"Synced"}
  ELSE CASE cmd = "install" -> {"Installed"}
         [] cmd = "update"  -> {"Updated", "Installed"}
         [] OTHER           -> {"Restored"}

Publish ==
  /\ pc = "publish" /\ \E what \in Published : Concludes(what)
  /\ used' = [used EXCEPT ![Current] = @ \cup {Result.of}] /\ UNCHANGED excluded

PublishFails == pc = "publish" /\ FailsAt("Applying")

AdoptFails == AtHand /\ Result.how = "ok" /\ phase = "sync" /\ FailsAt("Applying")

-----------------------------------------------------------------------------
(* The ends of a phase and of the command.                                  *)

Ends(res, r) ==         \* finish_visible_operation; then the reporter is dropped
  /\ pc' = "done" /\ outcome' = res
  /\ rep' = To(Reported(r, End(cmd, res = "ok")), Dropped)

OperationFails ==       \* a store cannot be read or written
  /\ \/ pc = "locked" \/ (pc = "select" /\ phase = "follow" /\ cmd = "restore")
     \/ (AtHand /\ Result.how = "ok" /\ phase = "follow" /\ cmd = "update")
     \/ (pc = "apply" /\ apply = <<>>) \/ pc = "load"
  /\ Ends("error", Reported(rep, OperationFailed))
  /\ UNCHANGED <<env, setting, phase, todo, batch, applying, failures, excluded, used>>

PhaseDone == pc = "apply" /\ apply = <<>>

NeverStops == cmd = "sync"      \* faulty: the follow-up runs although sync failed
Stops == phase = "follow" \/ cmd = "sync" \/ (cmd # "init" /\ failures # {})

Stop ==
  /\ PhaseDone /\ Stops
  /\ Ends(IF failures = {} THEN "ok" ELSE "failures", rep)
  /\ UNCHANGED <<env, setting, phase, todo, batch, applying, failures, excluded, used>>

Follow ==
  /\ PhaseDone /\ ~Stops /\ cmd # "init" /\ phase' = "follow"
  /\ Report(Stage("ApplyingWrites")) /\ Selects
  /\ UNCHANGED <<env, setting, tally, used>>

LoadTmux ==
  /\ PhaseDone /\ ~Stops /\ cmd = "init" /\ pc' = "load"
  /\ Report(Stage("LoadingTmux"))
  /\ UNCHANGED <<env, setting, phase, todo, batch, applying, tally, used>>

Loads ==                \* execute_load_plan returns the plugins that failed
  /\ pc = "load" /\ pc' = "loaded"
  /\ todo' \in SUBSET ((scope \cup Local) \ excluded)
  /\ UNCHANGED <<rep, env, setting, phase, batch, applying, tally, used>>

ReportLoad ==
  /\ pc = "loaded"
  /\ \E p \in todo :    \* in the order the load met them
       /\ Report(PluginFailed(p, "Loading"))
       /\ todo' = todo \ {p} /\ failures' = failures \cup {p}
  /\ UNCHANGED <<env, setting, phase, pc, batch, applying, excluded, outcome, used>>

FinishInit ==
  /\ pc = "loaded" /\ todo = {}
  /\ Ends(IF failures = {} THEN "ok" ELSE "failures", rep)
  /\ UNCHANGED <<env, setting, phase, todo, batch, applying, failures, excluded, used>>

-----------------------------------------------------------------------------
(* Around the process: stderr goes away, the log directory comes and goes.  *)

Fault ==
  /\ pc # "done" /\ faults < MaxFaults /\ faults' = faults + 1
  /\ UNCHANGED <<rep, setting, phase, pc, todo, batch, applying, tally, used>>

StderrGone == terminal = "ok" /\ Fault /\ terminal' = "gone" /\ UNCHANGED logs

LogsChange ==
  /\ Fault /\ logs' = (IF logs = "ok" THEN "unwritable" ELSE "ok") /\ UNCHANGED terminal

-----------------------------------------------------------------------------
Init ==
  /\ terminal = "ok" /\ logs = "ok" /\ faults = 0
  /\ cmd \in Commands /\ limit \in Limits /\ scope \in SUBSET Remote
  /\ \E sink \in {"live", "transcript"}, catalog \in SUBSET Remote :
       /\ cmd # "init" => catalog = scope     \* init shows an earlier configuration
       /\ rep = NewReporter(sink, Declaration(catalog))
  /\ phase = "sync" /\ pc = "begin" /\ todo = {}
  /\ queue = {} /\ job = [p \in Plugins |-> "none"] /\ ended = <<>>
  /\ apply = <<>> /\ results = <<>>
  /\ failures = {} /\ excluded = {} /\ outcome = "none"
  /\ used = [p \in Plugins |-> {}]

Job(p) ==
  \/ Materialize(p) \/ JobFails(p) \/ FetchTracking(p) \/ EnsureCache(p)
  \/ FetchLocked(p) \/ ResolveTracking(p) \/ StartJob(p)

Program ==
  \/ \E p \in Plugins : Selected(p) \/ Passed(p) \/ Job(p) \/ LeftAlone(p)
  \/ Schedule \/ Collect \/ Locked \/ Loads
  \/ Begin \/ Wait \/ LockFails \/ SyncsInit
  \/ ApplyUnprepared \/ ApplyKept \/ SkipKnownFailure \/ BeginPublish
  \/ PublishFails \/ Publish \/ AdoptFails
  \/ OperationFails \/ Stop \/ Follow \/ LoadTmux \/ ReportLoad \/ FinishInit

Next == Program \/ StderrGone \/ LogsChange

Spec     == Init /\ [][Next]_vars
FairSpec == Spec /\ WF_vars(Program)

-----------------------------------------------------------------------------
(* Properties.                                                              *)

Results == [of : Remote, how : {"ok", "failed"}]
Steps   == {"none", "cache", "fetchLocked", "fetchTracking", "resolve", "stage"}

(* Every variable has its type.                                             *)
TypeOK ==
  /\ cmd \in Commands /\ limit \in Limits /\ scope \subseteq Remote
  /\ phase \in {"sync", "follow"} /\ todo \subseteq Plugins
  /\ pc \in {"begin", "lock", "locked", "select", "prepare", "apply", "publish",
             "load", "loaded", "done"}
  /\ queue \subseteq scope /\ job \in [Plugins -> Steps] /\ ended \in Seq(Results)
  /\ apply \in Seq(scope) /\ results \in Seq(Results)
  /\ failures \subseteq Plugins /\ excluded \subseteq Plugins
  /\ used \in [Plugins -> SUBSET Plugins]
  /\ outcome \in {"none", "ok", "failures", "error"}
  /\ terminal \in {"ok", "gone"} /\ logs \in {"ok", "unwritable"} /\ faults \in 0 .. MaxFaults
  /\ rep.sink \in {"live", "transcript"} /\ rep.order \in Seq(Plugins)
  /\ rep.state \in [Plugins -> {"pending", "running", "finished", "failed"}]
  /\ rep.frame \in Seq(Row) /\ rep.lines \in Seq(Texts)
  /\ rep.shown \in [Subjects -> Labels]
  /\ rep.io \subseteq IoActions /\ rep.recorded \subseteq IoActions
  /\ rep.logged \subseteq Subjects \cup {Output} /\ rep.deferred \in 0 .. 1

(* What is displayed keeps the promises of Display: a failure, once shown,  *)
(* is not overwritten by an event that comes later, in this phase or the    *)
(* next, and after the command has ended nothing is shown (reporter.rs).    *)
Category(label) ==
  CASE label = "none"                         -> "silent"
    [] label \in {"Status", "Pending"}        -> "pending"
    [] label \in Working                      -> "working"
    [] label \in Outcomes \cup {"Finished"}   -> "done"
    [] OTHER                                  -> "failed"

Reader == INSTANCE Display
            WITH status <- [s \in Subjects |-> Category(rep.shown[s])],
                 over   <- rep.finished

ReaderSeesPromise == Reader!Spec

(* Every row of the live frame is on the terminal at its place, however the *)
(* events of concurrent jobs interleave and whichever plugins turn up late, *)
(* if the frame is lower than the terminal and nobody else has written to   *)
(* it (live.rs, write_row).                                                 *)
RowsInPlace ==
  (terminal = "ok" /\ rep.sink = "live" /\ ~rep.disturbed /\ Len(rep.frame) < Height) =>
    IsPrefix(rep.frame, rep.lines)

(* A checkout is published only as the plugin it was prepared for, although *)
(* the jobs end in any order (prepare.rs, run_bounded).                     *)
OwnCheckout == \A p \in Plugins : used[p] \subseteq {p}

(* No plugin is left shown as being worked on, nor kept so in the snapshot,  *)
(* unless the operation failed: whatever was started got its outcome.       *)
Settled ==
  outcome \in {"ok", "failures"} =>
    \A p \in Plugins :
      /\ rep.state[p] # "running"
      /\ terminal = "ok" => rep.shown[p] \notin Working

(* The last thing the reader sees is the result that the command returns:   *)
(* exactly the plugins that failed are shown as failed, the operation only  *)
(* if it failed itself, nothing as going on, and the cursor is back, also   *)
(* when the command leaves early (finish_visible_operation, Drop).          *)
OutcomeShown ==
  /\ Settled
  /\ (pc = "done" /\ terminal = "ok") =>
       /\ failures = {p \in Plugins : rep.shown[p] = "Failed"}
       /\ outcome = "ok" => failures = {}
       /\ rep.failed <=> rep.shown[Operation] = "Failed"
       /\ ~rep.hidden

(* The reader of the end of the output learns of the details of every       *)
(* failure: they are in the log whose path is shown, or a warning says that *)
(* the log could not be written (docs/commands.md, Detail logs).            *)
Failed == failures \cup (IF rep.failed THEN {Operation} ELSE {})

FailuresTraceable ==
  (rep.finished /\ terminal = "ok") =>
    /\ rep.file => Contains(rep.tail, "Details")
    /\ Failed \subseteq rep.logged \/ Contains(rep.tail, "Warning")

(* Every command ends, whatever the setting of `concurrency`.               *)
CommandEnds == <>(pc = "done")
=============================================================================
