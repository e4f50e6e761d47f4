----------------------------- MODULE InitSession -----------------------------
(***************************************************************************)
(* `tmup init` as a set of processes.  The invoked process loads inline,   *)
(* hands its work to a child in a tmux popup or split, or defers it to a   *)
(* background bootstrap that may host a child itself.  The hand-off is a   *)
(* session directory with continuation records and the child's result; the *)
(* operation lock serialises the executions with each other and with the   *)
(* other commands.  Processes crash, tmux commands fail, and a command     *)
(* that tmux ran may still be reported as failed.                          *)
(***************************************************************************)
EXTENDS Naturals, FiniteSets

CONSTANTS
  Invocations,   \* invocations of `tmup init`
  Others,        \* other mutating commands, each run once
  None,
  FaultKinds,    \* the faults that may happen: see Fault
  MaxVersion,    \* bound on the versions of the configuration
  MaxFaults      \* bound on the faults

Parents  == Invocations \X {"parent"}
Boots    == Invocations \X {"boot", "boot again"}
Children == Invocations \X {"child", "child again"}
Sessions == Parents \cup Boots \cup Children
Procs    == Sessions \cup Others
Versions == 0 .. MaxVersion
Steps    == {"off", "preview", "ui", "defer", "abandon", "host", "spawn", "await",
             "consume", "cleanup", "claim", "lock", "reload", "sync", "load", "unlock",
             "result", "ended", "crashed"}
Critical == {"reload", "sync", "load", "unlock"}
Outcomes == {"none", "ok", "failures", "error", "deferred", "busy"}

ASSUME InitSessionAssumption ==
  /\ MaxVersion \in Nat /\ MaxFaults \in Nat
  /\ None \notin Procs /\ Sessions \cap Others = {}
  /\ FaultKinds \subseteq
       {"crash", "operation", "publish", "tmux", "unacknowledged", "await", "consume",
        "cleanup", "relaunch"}

VARIABLES
  config,    \* version of the configuration on disk
  managed,   \* version that lockfile and checkouts realise, and who synced last
  holder,    \* the operation lock
  pc, mode,  \* the step a process is at; how an invocation hosts its child
  using,     \* the configuration a process has read
  seen,      \* history: the configuration when the process took the lock
  outcome,   \* what a process reports
  session,   \* per invocation: the directory, its records and the result
  ui,        \* per invocation: the popup or pane
  loads,     \* history: how many executions have reached the load plan
  faults, faulted   \* how many faults so far; history: which ones hit whom

locking == <<config, managed, holder, using, seen, loads>>
hosting == <<mode, session, ui>>
failing == <<faults, faulted>>
vars    == <<locking, hosting, failing, pc, outcome>>

-----------------------------------------------------------------------------
Inv(p)    == p[1]
Child(p)  == <<Inv(p), "child">>
Live(p)   == pc[p] \notin {"off", "ended", "crashed"}
Goes(p, step)    == pc' = [pc EXCEPT ![p] = step]
Reports(p, what) == outcome' = [outcome EXCEPT ![p] = what]

Fault(p, kind) ==
  /\ kind \in FaultKinds /\ faults < MaxFaults
  /\ faults' = faults + 1 /\ faulted' = faulted \cup {<<p, kind>>}

(* No directory; otherwise which records it holds, and whether its owner    *)
(* has been told of a running child (SessionCleanup::Preserve).             *)
NoSession == [dir |-> FALSE, boot |-> FALSE, child |-> FALSE, result |-> "none",
              preserve |-> FALSE]
Remove(i) ==
  session' = [session EXCEPT ![i] = [NoSession EXCEPT !.preserve = session[i].preserve]]

Invoke(i) ==
  /\ pc[<<i, "parent">>] = "off"
  /\ Goes(<<i, "parent">>, "preview")
  /\ UNCHANGED <<locking, hosting, failing, outcome>>

-----------------------------------------------------------------------------
(* Where to execute: decided without the lock, possibly in the middle of    *)
(* another operation; a failed sync need not leave work (known failures).   *)

NeedsWork == IF holder = None /\ managed.version = config THEN {FALSE} ELSE BOOLEAN

Preview(p) ==
  /\ p \in Sessions /\ pc[p] = "preview"
  /\ using' = [using EXCEPT ![p] = config]
  /\ \E needed \in NeedsWork :
       Goes(p, IF p \in Children \/ ~needed THEN "lock" ELSE "ui")
  /\ UNCHANGED <<config, managed, holder, seen, loads, hosting, failing, outcome>>

EndsOnError(p) ==    \* faulty: the bootstrap's session is not cleaned up
  IF p \in Parents \cup Boots THEN "ended" ELSE "result"

AfterError(p) ==
  CASE p \in Parents -> "ended" [] p \in Boots -> "cleanup" [] OTHER -> "result"

Fails(p) ==          \* an unreadable configuration, lockfile or operations.lock
  /\ p \in Sessions /\ pc[p] \in {"preview", "lock"} /\ Fault(p, "operation")
  /\ Goes(p, AfterError(p)) /\ Reports(p, "error")
  /\ UNCHANGED <<locking, hosting>>

ChooseUiLocked(p) == \* faulty: takes the lock before it hosts the child
  /\ p \in Sessions /\ pc[p] = "ui" /\ holder = None
  /\ holder' = p /\ Goes(p, "host")
  /\ UNCHANGED <<config, managed, using, seen, loads, hosting, failing, outcome>>

ChooseUi(p) ==
  /\ p \in Sessions /\ pc[p] = "ui"
  /\ \/ Goes(p, "lock") /\ UNCHANGED mode            \* no UI; or no host in time
     \/ p \in Parents /\ Goes(p, "defer") /\ UNCHANGED mode
     \/ /\ Goes(p, "host")
        /\ \E m \in {"popup", "split"} : mode' = [mode EXCEPT ![Inv(p)] = m]
  /\ UNCHANGED <<locking, session, ui, failing, outcome>>

-----------------------------------------------------------------------------
(* Deferring to a background bootstrap.                                     *)

Defer(p) ==          \* publish_bootstrap, then tmux run-shell -b
  /\ p \in Parents /\ pc[p] = "defer" /\ pc[<<Inv(p), "boot">>] = "off"
  /\ session' = [session EXCEPT ![Inv(p)] = [NoSession EXCEPT !.dir = TRUE, !.boot = TRUE]]
  /\ pc' = [pc EXCEPT ![p] = "ended", ![<<Inv(p), "boot">>] = "claim"]
  /\ Reports(p, "deferred")
  /\ UNCHANGED <<locking, mode, ui, failing>>

DeferFails(p) ==     \* the record is published; tmux may have started the bootstrap
  /\ p \in Parents /\ pc[p] = "defer"
  /\ session' = [session EXCEPT ![Inv(p)] = [NoSession EXCEPT !.dir = TRUE, !.boot = TRUE]]
  /\ \/ Fault(p, "tmux") /\ Goes(p, "abandon")
     \/ /\ Fault(p, "unacknowledged") /\ pc[<<Inv(p), "boot">>] = "off"
        /\ pc' = [pc EXCEPT ![p] = "abandon", ![<<Inv(p), "boot">>] = "claim"]
  /\ UNCHANGED <<locking, mode, ui, outcome>>

PublishBootstrapFails(p) ==
  /\ p \in Parents /\ pc[p] = "defer" /\ Fault(p, "publish")
  /\ Goes(p, "ended") /\ Reports(p, "error")
  /\ UNCHANGED <<locking, hosting>>

AbandonSilently(p) == \* faulty: no fallback
  /\ p \in Parents /\ pc[p] = "abandon"
  /\ Remove(Inv(p)) /\ Goes(p, "ended")
  /\ UNCHANGED <<locking, mode, ui, failing, outcome>>

Abandon(p) ==        \* remove the record, then fall back to inline
  /\ p \in Parents /\ pc[p] = "abandon"
  /\ \/ Remove(Inv(p)) /\ UNCHANGED failing
     \/ Fault(p, "cleanup") /\ UNCHANGED session
  /\ Goes(p, "lock")
  /\ UNCHANGED <<locking, mode, ui, outcome>>

-----------------------------------------------------------------------------
(* Hosting a child.                                                         *)

PublishChild(p) ==   \* in a directory of its own, or in the bootstrap's
  /\ p \in Sessions /\ pc[p] = "host" /\ (p \in Parents \/ session[Inv(p)].dir)
  /\ session' = [session EXCEPT ![Inv(p)].dir = TRUE, ![Inv(p)].child = TRUE]
  /\ Goes(p, "spawn")
  /\ UNCHANGED <<locking, mode, ui, failing, outcome>>

PublishChildFails(p) ==
  /\ p \in Sessions /\ pc[p] = "host"
  /\ \/ Fault(p, "publish")
     \/ p \notin Parents /\ ~session[Inv(p)].dir /\ UNCHANGED failing
  /\ Goes(p, AfterError(p)) /\ Reports(p, "error")
  /\ UNCHANGED <<locking, hosting>>

Launched(p) ==        \* a process is launched once for a record; see Relaunch
  /\ pc[Child(p)] = "off"
  /\ pc' = [pc EXCEPT ![p] = "await", ![Child(p)] = "claim"]
  /\ ui' = [ui EXCEPT ![Inv(p)] = "open"]

SpawnUnpreserved(p) == \* faulty: child_launched is never called
  /\ p \in Sessions /\ pc[p] = "spawn" /\ Launched(p)
  /\ UNCHANGED <<locking, mode, session, failing, outcome>>

Spawn(p) ==          \* a split returns at once, and its owner preserves the session
  /\ p \in Sessions /\ pc[p] = "spawn" /\ Launched(p)
  /\ session' = [session EXCEPT ![Inv(p)].preserve = mode[Inv(p)] = "split"]
  /\ UNCHANGED <<locking, mode, failing, outcome>>

SpawnFails(p) ==
  /\ p \in Sessions /\ pc[p] = "spawn"
  /\ \/ Fault(p, "tmux") /\ Goes(p, "cleanup") /\ UNCHANGED ui
     \/ /\ Fault(p, "unacknowledged") /\ pc[Child(p)] = "off"
        /\ pc' = [pc EXCEPT ![p] = "cleanup", ![Child(p)] = "claim"]
        /\ ui' = [ui EXCEPT ![Inv(p)] = "open"]
  /\ Reports(p, "error")
  /\ UNCHANGED <<locking, mode, session>>

UiClosesAfterResult(i) == \* faulty: the channel is signalled by a finished child only
  /\ ui[i] = "open" /\ ~Live(<<i, "child">>) /\ session[i].result # "none"
  /\ ui' = [ui EXCEPT ![i] = "closed"]
  /\ UNCHANGED <<locking, mode, session, failing, pc, outcome>>

UiCloses(i) ==       \* the wrapper ends after the child, and signals the channel
  /\ ui[i] = "open" /\ ~Live(<<i, "child">>)
  /\ ui' = [ui EXCEPT ![i] = "closed"]
  /\ UNCHANGED <<locking, mode, session, failing, pc, outcome>>

AwaitNothing(p) ==   \* faulty: does not wait for the child
  /\ p \in Sessions /\ pc[p] = "await"
  /\ Goes(p, "consume")
  /\ UNCHANGED <<locking, hosting, failing, outcome>>

Await(p) ==          \* terminal_completion_confirmed
  /\ p \in Sessions /\ pc[p] = "await" /\ ui[Inv(p)] = "closed"
  /\ session' = [session EXCEPT ![Inv(p)].preserve = FALSE]
  /\ Goes(p, "consume")
  /\ UNCHANGED <<locking, mode, ui, failing, outcome>>

AwaitFails(p) ==     \* the waiting tmux command fails; the child may be running
  /\ p \in Sessions /\ pc[p] = "await" /\ Fault(p, "await")
  /\ Goes(p, "cleanup") /\ Reports(p, "error")
  /\ UNCHANGED <<locking, hosting>>

ConsumeAnything(p) == \* faulty: a missing result is taken as it is
  /\ p \in Sessions /\ pc[p] = "consume"
  /\ Goes(p, "cleanup") /\ Reports(p, session[Inv(p)].result)
  /\ UNCHANGED <<locking, hosting, failing>>

Consume(p) ==        \* consume_child_result: a missing result is an error
  /\ p \in Sessions /\ pc[p] = "consume"
  /\ Goes(p, "cleanup")
  /\ LET found == session[Inv(p)].result IN
       Reports(p, IF found = "none" THEN "error" ELSE found)
  /\ session' = [session EXCEPT ![Inv(p)].result = "none"]
  /\ UNCHANGED <<locking, mode, ui, failing>>

ConsumeFails(p) ==   \* the claimed result cannot be read or removed
  /\ p \in Sessions /\ pc[p] = "consume" /\ session[Inv(p)].result # "none"
  /\ Fault(p, "consume")
  /\ Goes(p, "cleanup") /\ Reports(p, "error")
  /\ session' = [session EXCEPT ![Inv(p)].result = "none"]
  /\ UNCHANGED <<locking, mode, ui>>

Cleanup(p) ==        \* the owner's; failing to remove turns a success into an error
  /\ p \in Sessions /\ pc[p] = "cleanup"
  /\ IF session[Inv(p)].preserve THEN UNCHANGED <<session, outcome>>
     ELSE /\ Remove(Inv(p))
          /\ Reports(p, IF session[Inv(p)].dir THEN outcome[p] ELSE "error")
  /\ Goes(p, "ended")
  /\ UNCHANGED <<locking, mode, ui, failing>>

CleanupFails(p) ==
  /\ p \in Sessions /\ pc[p] = "cleanup" /\ Fault(p, "cleanup")
  /\ ~session[Inv(p)].preserve
  /\ Goes(p, "ended") /\ Reports(p, "error")
  /\ UNCHANGED <<locking, hosting>>

-----------------------------------------------------------------------------
(* A resumed process: claim the record by renaming it, or end.              *)

Record(p) == IF p \in Boots THEN session[Inv(p)].boot ELSE session[Inv(p)].child

ClaimByReading(p) == \* faulty: leaves the record in place
  /\ p \in Boots \cup Children /\ pc[p] = "claim" /\ Record(p)
  /\ Goes(p, "preview")
  /\ UNCHANGED <<locking, hosting, failing, outcome>>

TakeRecord(p) ==
  session' = IF p \in Boots THEN [session EXCEPT ![Inv(p)].boot = FALSE]
             ELSE [session EXCEPT ![Inv(p)].child = FALSE]

Claim(p) ==
  /\ p \in Boots \cup Children /\ pc[p] = "claim" /\ Record(p)
  /\ TakeRecord(p) /\ Goes(p, "preview")
  /\ UNCHANGED <<locking, mode, ui, failing, outcome>>

ClaimFails(p) ==     \* no record, or a claimed one that cannot be read or removed
  /\ p \in Boots \cup Children /\ pc[p] = "claim"
  /\ \/ ~Record(p) /\ UNCHANGED <<session, failing>>
     \/ Record(p) /\ Fault(p, "consume") /\ TakeRecord(p)
  /\ Goes(p, "ended") /\ Reports(p, "error")
  /\ UNCHANGED <<locking, mode, ui>>

PublishResult(p) ==  \* without replacement, if the directory is still there
  /\ p \in Children /\ pc[p] = "result"
  /\ session[Inv(p)].dir /\ session[Inv(p)].result = "none"
  /\ session' = [session EXCEPT ![Inv(p)].result = outcome[p]]
  /\ Goes(p, "ended")
  /\ UNCHANGED <<locking, mode, ui, failing, outcome>>

PublishResultFails(p) ==
  /\ p \in Children /\ pc[p] = "result"
  /\ \/ Fault(p, "publish")
     \/ (~session[Inv(p)].dir \/ session[Inv(p)].result # "none") /\ UNCHANGED failing
  /\ Goes(p, "ended") /\ Reports(p, "error")
  /\ UNCHANGED <<locking, hosting>>

-----------------------------------------------------------------------------
(* Executing: under the lock from the reload to the end of the load plan.   *)

AcquireRegardless(p) == \* faulty: goes on when try_acquire finds the lock taken
  /\ p \in Sessions /\ pc[p] = "lock"
  /\ holder' = p /\ seen' = [seen EXCEPT ![p] = config]
  /\ Goes(p, "reload")
  /\ UNCHANGED <<config, managed, using, loads, hosting, failing, outcome>>

Acquire(p) ==
  /\ p \in Sessions /\ pc[p] = "lock" /\ holder = None
  /\ holder' = p /\ seen' = [seen EXCEPT ![p] = config]
  /\ Goes(p, "reload")
  /\ UNCHANGED <<config, managed, using, loads, hosting, failing, outcome>>

TryAcquire(o) ==     \* any other command fails at once when the lock is taken
  /\ o \in Others /\ pc[o] = "off"
  /\ IF holder = None
     THEN /\ holder' = o /\ seen' = [seen EXCEPT ![o] = config]
          /\ Goes(o, "reload") /\ UNCHANGED outcome
     ELSE Goes(o, "ended") /\ Reports(o, "busy") /\ UNCHANGED <<holder, seen>>
  /\ UNCHANGED <<config, managed, using, loads, hosting, failing>>

ReloadNothing(p) ==  \* faulty: executes what the preview has read
  /\ pc[p] = "reload" /\ Goes(p, "sync")
  /\ UNCHANGED <<locking, hosting, failing, outcome>>

Reload(p) ==
  /\ pc[p] = "reload"
  /\ using' = [using EXCEPT ![p] = config]
  /\ Goes(p, "sync")
  /\ UNCHANGED <<config, managed, holder, seen, loads, hosting, failing, outcome>>

SyncAndRelease(p) == \* faulty: gives the lock back before loading
  /\ pc[p] = "sync" /\ holder' = None
  /\ managed' = [by |-> p, version |-> using[p]] /\ Reports(p, "ok")
  /\ Goes(p, IF p \in Sessions THEN "load" ELSE "unlock")
  /\ UNCHANGED <<config, using, seen, loads, hosting, failing>>

Sync(p) ==           \* with failures of single plugins, or without
  /\ pc[p] = "sync"
  /\ \E res \in {"ok", "failures"} :
       /\ Reports(p, res)
       /\ managed' = [by |-> p,
                      version |-> IF res = "ok" THEN using[p] ELSE managed.version]
  /\ Goes(p, IF p \in Sessions THEN "load" ELSE "unlock")
  /\ UNCHANGED <<config, holder, using, seen, loads, hosting, failing>>

Load(p) ==           \* execute_load_plan, whose commands may fail one by one
  /\ pc[p] = "load"
  /\ loads' = [loads EXCEPT ![Inv(p)] = @ + 1]
  /\ \E res \in {outcome[p], "failures"} : Reports(p, res)
  /\ Goes(p, "unlock")
  /\ UNCHANGED <<config, managed, holder, using, seen, hosting, failing>>

ExecutionFails(p) == \* an operation-level error: nothing is loaded after it
  /\ pc[p] \in {"reload", "sync", "load"} /\ Fault(p, "operation")
  /\ managed' \in {managed, [managed EXCEPT !.by = p]}
  /\ Goes(p, "unlock") /\ Reports(p, "error")
  /\ UNCHANGED <<config, holder, using, seen, loads, hosting>>

AfterUnlock(p) ==
  CASE p \in Boots -> "cleanup" [] p \in Children -> "result" [] OTHER -> "ended"

Unlock(p) ==
  /\ pc[p] = "unlock"
  /\ holder' = None
  /\ using' = [using EXCEPT ![p] = 0] /\ seen' = [seen EXCEPT ![p] = 0]
  /\ Goes(p, AfterUnlock(p))
  /\ UNCHANGED <<config, managed, loads, hosting, failing, outcome>>

-----------------------------------------------------------------------------
(* The environment.                                                         *)

EditConfig ==
  /\ config < MaxVersion /\ config' = config + 1
  /\ UNCHANGED <<managed, holder, using, seen, loads, hosting, failing, pc, outcome>>

Crash(p) ==          \* the operating system gives the lock back
  /\ Live(p) /\ Fault(p, "crash")
  /\ Goes(p, "crashed")
  /\ holder' = IF holder = p THEN None ELSE holder
  /\ UNCHANGED <<config, managed, using, seen, loads, hosting, outcome>>

Relaunch(i, role) == \* the resume command is run a second time
  /\ pc[<<i, role>>] # "off" /\ Fault(<<i, role>>, "relaunch")
  /\ LET again == <<i, IF role = "boot" THEN "boot again" ELSE "child again">> IN
       pc[again] = "off" /\ Goes(again, "claim")
  /\ UNCHANGED <<locking, hosting, outcome>>

Init ==
  /\ config \in Versions /\ managed = [version |-> 0, by |-> None] /\ holder = None
  /\ pc = [p \in Procs |-> "off"] /\ mode = [i \in Invocations |-> "popup"]
  /\ using = [p \in Procs |-> 0] /\ seen = using
  /\ outcome = [p \in Procs |-> "none"]
  /\ session = [i \in Invocations |-> NoSession]
  /\ ui = [i \in Invocations |-> "none"] /\ loads = [i \in Invocations |-> 0]
  /\ faults = 0 /\ faulted = {}

Step(p) ==           \* what a running process does next
  \/ Preview(p) \/ Fails(p) \/ ChooseUi(p)
  \/ Defer(p) \/ DeferFails(p) \/ PublishBootstrapFails(p) \/ Abandon(p)
  \/ PublishChild(p) \/ PublishChildFails(p) \/ Spawn(p) \/ SpawnFails(p)
  \/ Await(p) \/ AwaitFails(p) \/ Consume(p) \/ ConsumeFails(p)
  \/ Cleanup(p) \/ CleanupFails(p)
  \/ Claim(p) \/ ClaimFails(p) \/ PublishResult(p) \/ PublishResultFails(p)
  \/ Acquire(p) \/ Reload(p) \/ Sync(p) \/ Load(p) \/ ExecutionFails(p) \/ Unlock(p)

Next ==
  \/ \E p \in Procs : Step(p) \/ Crash(p)
  \/ \E i \in Invocations : \/ Invoke(i) \/ UiCloses(i)
                            \/ \E role \in {"boot", "child"} : Relaunch(i, role)
  \/ \E o \in Others : TryAcquire(o)
  \/ EditConfig

Works(p) == Step(p) /\ UNCHANGED failing   \* nothing has to fail

Spec     == Init /\ [][Next]_vars
FairSpec == /\ Spec
            /\ \A p \in Procs : WF_vars(Works(p))
            /\ \A i \in Invocations : WF_vars(UiCloses(i))

-----------------------------------------------------------------------------
(* Properties.                                                              *)

(* Every variable has its type, and whatever has ended has an outcome.     *)
TypeOK ==
  /\ config \in Versions /\ holder \in Procs \cup {None}
  /\ managed \in [version : Versions, by : Procs \cup {None}]
  /\ pc \in [Procs -> Steps] /\ mode \in [Invocations -> {"popup", "split"}]
  /\ using \in [Procs -> Versions] /\ seen \in [Procs -> Versions]
  /\ outcome \in [Procs -> Outcomes]
  /\ \A p \in Procs : pc[p] = "ended" => outcome[p] # "none"
  /\ session \in [Invocations ->
       [dir : BOOLEAN, boot : BOOLEAN, child : BOOLEAN, result : Outcomes,
        preserve : BOOLEAN]]
  /\ ui \in [Invocations -> {"none", "open", "closed"}]
  /\ loads \in [Invocations -> Nat]
  /\ faults \in 0 .. MaxFaults /\ faulted \subseteq (Procs \X FaultKinds)

Hit(i) == {f[2] : f \in {g \in faulted : g[1] \in Sessions /\ Inv(g[1]) = i}}

(* What an execution loads is what it synced itself: no other process has  *)
(* touched the managed state in between (design.md, 4).                    *)
LoadsOwnSync ==
  \A p \in Procs : pc[p] = "load" => managed.by = p /\ holder = p

(* An execution follows the configuration as it was once the lock was      *)
(* taken, never the one its preview saw before it waited.                  *)
FreshConfiguration ==
  \A p \in Procs : pc[p] \in {"sync", "load", "unlock"} /\ outcome[p] # "error" =>
    using[p] >= seen[p] /\ (outcome[p] = "ok" => managed.version >= seen[p])

(* An invocation is loaded at most once, however often a resume command    *)
(* runs, unless tmux ran a bootstrap that it reported as failed.           *)
AtMostOneLoad ==
  \A i \in Invocations : loads[i] <= 1 \/ <<<<i, "parent">>, "unacknowledged">> \in faulted

(* A host reports success or plugin failures only as the result of a child *)
(* that executed, and the child's own result if nothing failed around it.  *)
HostReportsChild ==
  \A i \in Invocations, p \in Parents \cup Boots :
    (Inv(p) = i /\ pc[p] = "ended" /\ ui[i] # "none"
       /\ <<<<i, "parent">>, "unacknowledged">> \notin faulted) =>
      /\ outcome[p] \in {"ok", "failures"} =>
           \E q \in Children : Inv(q) = i /\ outcome[q] = outcome[p]
      /\ Hit(i) = {} /\ outcome[p] # "deferred" => outcome[p] = outcome[Child(p)]

(* The session directory outlives the child that works in it, unless tmux  *)
(* misreported the child's launch or the popup was torn down.              *)
SessionOutlivesChild ==
  \A i \in Invocations :
    Live(<<i, "child">>) =>
      \/ session[i].dir
      \/ "unacknowledged" \in Hit(i)
      \/ mode[i] = "popup" /\ "await" \in Hit(i)

(* Once every process of an invocation has ended, its directory is gone,   *)
(* unless a process crashed, a removal failed, the fate of the child was    *)
(* unknown, or a bootstrap could not read the record it had claimed.       *)
SessionRemoved ==
  \A i \in Invocations :
    /\ \A p \in Sessions : Inv(p) = i => ~Live(p)
    /\ Hit(i) \cap {"crash", "cleanup"} = {} /\ ~session[i].preserve
    /\ \A p \in Boots : Inv(p) = i => <<p, "consume">> \notin faulted
    => ~session[i].dir

(* Managed state is changed by one process at a time, from taking the lock *)
(* to giving it back.                                                      *)
Exclusive == INSTANCE ManagedState WITH
  Owners <- Procs, Nobody <- None, owner <- holder, version <- managed,
  Versions <- [version : Versions, by : Procs \cup {None}]
SerialManagedState == Exclusive!Spec

(* When nothing fails, every invocation is loaded, directly, by the child  *)
(* or by the bootstrap, and whoever else wants the lock. When something    *)
(* does, it is loaded, or some process of it reports an error or has       *)
(* crashed: work is never silently dropped.                                *)
LoadedOrReported ==
  \A i \in Invocations : pc[<<i, "parent">>] # "off" ~>
    IF faulted = {} THEN loads[i] = 1
    ELSE \/ loads[i] > 0
         \/ \E p \in Sessions : Inv(p) = i /\ (outcome[p] = "error" \/ pc[p] = "crashed")

(* Every process ends, whatever fails.                                     *)
ProcessesEnd == \A p \in Procs : Live(p) ~> ~Live(p)

=============================================================================
