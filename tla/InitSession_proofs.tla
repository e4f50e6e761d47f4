-------------------------- MODULE InitSession_proofs --------------------------
(* Proofs about InitSession, for every number of invocations and commands:  *)
(* one process at a time changes the managed state, what an execution loads *)
(* is what it synced itself, from a configuration read under the lock, and  *)
(* an invocation is loaded at most once.                                    *)
EXTENDS InitSession, TLAPS

(* The lock is held by the process that executes, and by it alone.          *)
Locked == \A p \in Procs : pc[p] \in Critical <=> holder = p

(* A process has no outcome before it executes or fails, and has one after. *)
Early == {"off", "preview", "ui", "defer", "abandon", "host", "spawn", "await",
          "consume", "claim", "lock", "reload", "sync"}
Late  == {"cleanup", "load", "unlock", "result", "ended"}
Unanswered == \A p \in Procs : pc[p] \in Early => outcome[p] = "none"
Answered   == \A p \in Procs : pc[p] \in Late => outcome[p] # "none"

(* Only an execution whose sync has succeeded reaches the load plan.        *)
LoadsAfterSync == \A p \in Procs : pc[p] = "load" => outcome[p] \in {"ok", "failures"}

(* Versions of the configuration only grow.                                 *)
SeenBefore == \A p \in Procs : seen[p] <= config

IInv == /\ TypeOK /\ Locked /\ Unanswered /\ Answered /\ LoadsAfterSync /\ SeenBefore
        /\ LoadsOwnSync /\ FreshConfiguration

-----------------------------------------------------------------------------
LEMMA Places ==
  /\ \A p \in Sessions : p \in Procs /\ Inv(p) \in Invocations /\ Child(p) \in Procs
  /\ \A i \in Invocations, r \in {"parent", "boot", "boot again", "child", "child again"} :
       <<i, r>> \in Procs
  /\ Others \subseteq Procs
BY DEF Procs, Sessions, Parents, Boots, Children, Inv, Child

LEMMA IInvInit == Init => IInv
<1> SUFFICES ASSUME Init PROVE IInv
  OBVIOUS
<1>1. TypeOK
  BY InitSessionAssumption
  DEF Init, TypeOK, Versions, Steps, Outcomes, NoSession
<1>2. Locked /\ Unanswered /\ Answered /\ SeenBefore
  BY InitSessionAssumption DEF Init, Locked, Critical, Unanswered, Answered, Early,
    Late, SeenBefore, Versions
<1>3. LoadsAfterSync /\ LoadsOwnSync /\ FreshConfiguration
  BY DEF Init, LoadsAfterSync, LoadsOwnSync, FreshConfiguration
<1> QED
  BY <1>1, <1>2, <1>3 DEF IInv

(* TypeOK in four parts.                                                    *)
LockTypeOK ==
  /\ config \in Versions /\ holder \in Procs \cup {None}
  /\ managed \in [version : Versions, by : Procs \cup {None}]
  /\ using \in [Procs -> Versions] /\ seen \in [Procs -> Versions]
  /\ loads \in [Invocations -> Nat]
FlowTypeOK == pc \in [Procs -> Steps] /\ outcome \in [Procs -> Outcomes]
HostTypeOK ==
  /\ mode \in [Invocations -> {"popup", "split"}]
  /\ session \in [Invocations ->
       [dir : BOOLEAN, boot : BOOLEAN, child : BOOLEAN, result : Outcomes,
        preserve : BOOLEAN]]
  /\ ui \in [Invocations -> {"none", "open", "closed"}]
FaultTypeOK == faults \in 0 .. MaxFaults /\ faulted \subseteq (Procs \X FaultKinds)

LEMMA ZeroVersion == 0 \in Versions
BY InitSessionAssumption DEF Versions

LEMMA NextVersion == \A c \in Versions : c < MaxVersion => c + 1 \in Versions
BY InitSessionAssumption DEF Versions

LEMMA OneMore ==
  ASSUME NEW D, NEW f \in [D -> Nat], NEW x
  PROVE  [f EXCEPT ![x] = f[x] + 1] \in [D -> Nat]
<1>1. CASE x \in D
  <2>1. f[x] \in Nat
    BY <1>1
  <2>2. f[x] + 1 \in Nat
    BY <2>1
  <2> QED
    BY <1>1, <2>2
<1>2. CASE x \notin D
  <2>1. [f EXCEPT ![x] = f[x] + 1] = f
    BY <1>2
  <2> QED
    BY <2>1
<1> QED
  BY <1>1, <1>2

LEMMA LockTypeStep ==
  ASSUME LockTypeOK, NEW p \in Procs, Step(p) PROVE LockTypeOK'
<1> USE InitSessionAssumption, Places DEF LockTypeOK, locking
<1>1. CASE Preview(p)
  BY <1>1 DEF Preview
<1>2. CASE Fails(p)
  BY <1>2 DEF Fails
<1>3. CASE ChooseUi(p)
  BY <1>3 DEF ChooseUi
<1>4. CASE Defer(p)
  BY <1>4 DEF Defer
<1>5. CASE DeferFails(p)
  BY <1>5 DEF DeferFails
<1>6. CASE PublishBootstrapFails(p)
  BY <1>6 DEF PublishBootstrapFails
<1>7. CASE Abandon(p)
  BY <1>7 DEF Abandon
<1>8. CASE PublishChild(p)
  BY <1>8 DEF PublishChild
<1>9. CASE PublishChildFails(p)
  BY <1>9 DEF PublishChildFails
<1>10. CASE Spawn(p)
  BY <1>10 DEF Spawn
<1>11. CASE SpawnFails(p)
  BY <1>11 DEF SpawnFails
<1>12. CASE Await(p)
  BY <1>12 DEF Await
<1>13. CASE AwaitFails(p)
  BY <1>13 DEF AwaitFails
<1>14. CASE Consume(p)
  BY <1>14 DEF Consume
<1>15. CASE ConsumeFails(p)
  BY <1>15 DEF ConsumeFails
<1>16. CASE Cleanup(p)
  BY <1>16 DEF Cleanup
<1>17. CASE CleanupFails(p)
  BY <1>17 DEF CleanupFails
<1>18. CASE Claim(p)
  BY <1>18 DEF Claim
<1>19. CASE ClaimFails(p)
  BY <1>19 DEF ClaimFails
<1>20. CASE PublishResult(p)
  BY <1>20 DEF PublishResult
<1>21. CASE PublishResultFails(p)
  BY <1>21 DEF PublishResultFails
<1>22. CASE Acquire(p)
  BY <1>22 DEF Acquire
<1>23. CASE Reload(p)
  BY <1>23 DEF Reload
<1>24. CASE Sync(p)
  <2>1. PICK res \in {"ok", "failures"} :
          managed' = [by |-> p,
                      version |-> IF res = "ok" THEN using[p] ELSE managed.version]
    BY <1>24 DEF Sync
  <2>2. using[p] \in Versions /\ managed.version \in Versions
    OBVIOUS
  <2>3. managed' \in [version : Versions, by : Procs \cup {None}]
    BY <2>1, <2>2
  <2> QED
    BY <1>24, <2>3 DEF Sync
<1>25. CASE Load(p)
  <2>1. loads' = [loads EXCEPT ![Inv(p)] = loads[Inv(p)] + 1]
    BY <1>25 DEF Load
  <2>2. loads' \in [Invocations -> Nat]
    BY <2>1, OneMore
  <2> QED
    BY <1>25, <2>2 DEF Load
<1>26. CASE ExecutionFails(p)
  BY <1>26 DEF ExecutionFails
<1>27. CASE Unlock(p)
  <2>1. 0 \in Versions
    BY ZeroVersion
  <2>2. using' \in [Procs -> Versions] /\ seen' \in [Procs -> Versions]
    BY <1>27, <2>1 DEF Unlock
  <2>3. UNCHANGED <<config, managed, loads>> /\ holder' = None
    BY <1>27 DEF Unlock
  <2> QED
    BY <2>2, <2>3
<1> QED
  BY <1>1, <1>2, <1>3, <1>4, <1>5, <1>6, <1>7, <1>8, <1>9, <1>10, <1>11,
     <1>12, <1>13, <1>14, <1>15, <1>16, <1>17, <1>18, <1>19, <1>20, <1>21,
     <1>22, <1>23, <1>24, <1>25, <1>26, <1>27 DEF Step

LEMMA FlowTypeStep ==
  ASSUME FlowTypeOK, HostTypeOK, NEW p \in Procs, Step(p) PROVE FlowTypeOK'
<1> USE Places DEF FlowTypeOK, Steps, Outcomes, Goes, Reports
<1>1. CASE Preview(p)
  BY <1>1 DEF Preview
<1>2. CASE Fails(p)
  BY <1>2 DEF Fails, AfterError
<1>3. CASE ChooseUi(p)
  BY <1>3 DEF ChooseUi
<1>4. CASE Defer(p)
  BY <1>4 DEF Defer
<1>5. CASE DeferFails(p)
  BY <1>5 DEF DeferFails
<1>6. CASE PublishBootstrapFails(p)
  BY <1>6 DEF PublishBootstrapFails
<1>7. CASE Abandon(p)
  BY <1>7 DEF Abandon
<1>8. CASE PublishChild(p)
  BY <1>8 DEF PublishChild
<1>9. CASE PublishChildFails(p)
  BY <1>9 DEF PublishChildFails, AfterError
<1>10. CASE Spawn(p)
  BY <1>10 DEF Spawn, Launched
<1>11. CASE SpawnFails(p)
  BY <1>11 DEF SpawnFails
<1>12. CASE Await(p)
  BY <1>12 DEF Await
<1>13. CASE AwaitFails(p)
  BY <1>13 DEF AwaitFails
<1>14. CASE Consume(p)
  BY <1>14 DEF Consume, HostTypeOK
<1>15. CASE ConsumeFails(p)
  BY <1>15 DEF ConsumeFails
<1>16. CASE Cleanup(p)
  BY <1>16 DEF Cleanup
<1>17. CASE CleanupFails(p)
  BY <1>17 DEF CleanupFails
<1>18. CASE Claim(p)
  BY <1>18 DEF Claim
<1>19. CASE ClaimFails(p)
  BY <1>19 DEF ClaimFails
<1>20. CASE PublishResult(p)
  BY <1>20 DEF PublishResult
<1>21. CASE PublishResultFails(p)
  BY <1>21 DEF PublishResultFails
<1>22. CASE Acquire(p)
  BY <1>22 DEF Acquire
<1>23. CASE Reload(p)
  BY <1>23 DEF Reload
<1>24. CASE Sync(p)
  BY <1>24 DEF Sync
<1>25. CASE Load(p)
  BY <1>25 DEF Load
<1>26. CASE ExecutionFails(p)
  BY <1>26 DEF ExecutionFails
<1>27. CASE Unlock(p)
  BY <1>27 DEF Unlock, AfterUnlock
<1> QED
  BY <1>1, <1>2, <1>3, <1>4, <1>5, <1>6, <1>7, <1>8, <1>9, <1>10, <1>11,
     <1>12, <1>13, <1>14, <1>15, <1>16, <1>17, <1>18, <1>19, <1>20, <1>21,
     <1>22, <1>23, <1>24, <1>25, <1>26, <1>27 DEF Step

LEMMA RemoveType ==
  ASSUME HostTypeOK, NEW i \in Invocations, Remove(i)
  PROVE  session' \in [Invocations -> [dir : BOOLEAN, boot : BOOLEAN, child : BOOLEAN,
                                       result : Outcomes, preserve : BOOLEAN]]
<1>1. session[i].preserve \in BOOLEAN
  BY DEF HostTypeOK
<1>2. [NoSession EXCEPT !.preserve = session[i].preserve] \in
        [dir : BOOLEAN, boot : BOOLEAN, child : BOOLEAN, result : Outcomes,
         preserve : BOOLEAN]
  BY <1>1 DEF NoSession, Outcomes
<1> QED
  BY <1>2 DEF HostTypeOK, Remove

LEMMA HostTypeStep ==
  ASSUME FlowTypeOK, HostTypeOK, NEW p \in Procs, Step(p) PROVE HostTypeOK'
<1> USE Places DEF HostTypeOK, hosting
<1>1. CASE Preview(p)
  BY <1>1 DEF Preview
<1>2. CASE Fails(p)
  BY <1>2 DEF Fails
<1>3. CASE ChooseUi(p)
  BY <1>3 DEF ChooseUi
<1>4. CASE Defer(p)
  BY <1>4 DEF Defer, NoSession, Outcomes
<1>5. CASE DeferFails(p)
  BY <1>5 DEF DeferFails, NoSession, Outcomes
<1>6. CASE PublishBootstrapFails(p)
  BY <1>6 DEF PublishBootstrapFails
<1>7. CASE Abandon(p)
  <2>1. CASE session' = session
    BY <1>7, <2>1 DEF Abandon
  <2>2. CASE Remove(Inv(p))
    BY <1>7, <2>2, RemoveType DEF Abandon, Parents, Sessions
  <2> QED
    BY <1>7, <2>1, <2>2 DEF Abandon
<1>8. CASE PublishChild(p)
  BY <1>8 DEF PublishChild
<1>9. CASE PublishChildFails(p)
  BY <1>9 DEF PublishChildFails
<1>10. CASE Spawn(p)
  <2>1. Inv(p) \in Invocations
    BY <1>10 DEF Spawn
  <2>2. (mode[Inv(p)] = "split") \in BOOLEAN
    OBVIOUS
  <2>3. PICK b \in BOOLEAN : session' = [session EXCEPT ![Inv(p)].preserve = b]
    BY <1>10, <2>2 DEF Spawn
  <2>4. session' \in [Invocations -> [dir : BOOLEAN, boot : BOOLEAN, child : BOOLEAN,
                                     result : Outcomes, preserve : BOOLEAN]]
    BY <2>1, <2>3
  <2> QED
    BY <1>10, <2>1, <2>4 DEF Spawn, Launched
<1>11. CASE SpawnFails(p)
  BY <1>11 DEF SpawnFails
<1>12. CASE Await(p)
  BY <1>12 DEF Await
<1>13. CASE AwaitFails(p)
  BY <1>13 DEF AwaitFails
<1>14. CASE Consume(p)
  BY <1>14 DEF Consume, Outcomes
<1>15. CASE ConsumeFails(p)
  BY <1>15 DEF ConsumeFails, Outcomes
<1>16. CASE Cleanup(p)
  BY <1>16, RemoveType DEF Cleanup
<1>17. CASE CleanupFails(p)
  BY <1>17 DEF CleanupFails
<1>18. CASE Claim(p)
  BY <1>18 DEF Claim, TakeRecord
<1>19. CASE ClaimFails(p)
  <2>1. session' = session \/ TakeRecord(p)
    BY <1>19 DEF ClaimFails
  <2>2. CASE session' = session
    BY <1>19, <2>2 DEF ClaimFails
  <2>3. CASE TakeRecord(p)
    BY <1>19, <2>3 DEF ClaimFails, TakeRecord
  <2> QED
    BY <2>1, <2>2, <2>3
<1>20. CASE PublishResult(p)
  <2>1. Inv(p) \in Invocations /\ outcome[p] \in Outcomes
    BY <1>20 DEF PublishResult, FlowTypeOK, Sessions
  <2>2. session' = [session EXCEPT ![Inv(p)].result = outcome[p]]
    BY <1>20 DEF PublishResult
  <2>3. UNCHANGED <<mode, ui>>
    BY <1>20 DEF PublishResult
  <2> QED
    BY <2>1, <2>2, <2>3
<1>21. CASE PublishResultFails(p)
  BY <1>21 DEF PublishResultFails
<1>22. CASE Acquire(p)
  BY <1>22 DEF Acquire
<1>23. CASE Reload(p)
  BY <1>23 DEF Reload
<1>24. CASE Sync(p)
  BY <1>24 DEF Sync
<1>25. CASE Load(p)
  BY <1>25 DEF Load
<1>26. CASE ExecutionFails(p)
  BY <1>26 DEF ExecutionFails
<1>27. CASE Unlock(p)
  BY <1>27 DEF Unlock
<1> QED
  BY <1>1, <1>2, <1>3, <1>4, <1>5, <1>6, <1>7, <1>8, <1>9, <1>10, <1>11,
     <1>12, <1>13, <1>14, <1>15, <1>16, <1>17, <1>18, <1>19, <1>20, <1>21,
     <1>22, <1>23, <1>24, <1>25, <1>26, <1>27 DEF Step

LEMMA FaultType ==
  ASSUME FaultTypeOK, NEW p \in Procs, NEW kind, Fault(p, kind) PROVE FaultTypeOK'
BY InitSessionAssumption DEF FaultTypeOK, Fault

LEMMA FaultTypeStep ==
  ASSUME FaultTypeOK, NEW p \in Procs, Step(p) PROVE FaultTypeOK'
<1> USE InitSessionAssumption DEF FaultTypeOK, failing, Fault
<1>1. CASE Preview(p)
  BY <1>1 DEF Preview
<1>2. CASE Fails(p)
  BY <1>2 DEF Fails
<1>3. CASE ChooseUi(p)
  BY <1>3 DEF ChooseUi
<1>4. CASE Defer(p)
  BY <1>4 DEF Defer
<1>5. CASE DeferFails(p)
  BY <1>5 DEF DeferFails
<1>6. CASE PublishBootstrapFails(p)
  BY <1>6 DEF PublishBootstrapFails
<1>7. CASE Abandon(p)
  BY <1>7 DEF Abandon
<1>8. CASE PublishChild(p)
  BY <1>8 DEF PublishChild
<1>9. CASE PublishChildFails(p)
  BY <1>9 DEF PublishChildFails
<1>10. CASE Spawn(p)
  BY <1>10 DEF Spawn
<1>11. CASE SpawnFails(p)
  BY <1>11 DEF SpawnFails
<1>12. CASE Await(p)
  BY <1>12 DEF Await
<1>13. CASE AwaitFails(p)
  BY <1>13 DEF AwaitFails
<1>14. CASE Consume(p)
  BY <1>14 DEF Consume
<1>15. CASE ConsumeFails(p)
  BY <1>15 DEF ConsumeFails
<1>16. CASE Cleanup(p)
  BY <1>16 DEF Cleanup
<1>17. CASE CleanupFails(p)
  BY <1>17 DEF CleanupFails
<1>18. CASE Claim(p)
  BY <1>18 DEF Claim
<1>19. CASE ClaimFails(p)
  BY <1>19 DEF ClaimFails
<1>20. CASE PublishResult(p)
  BY <1>20 DEF PublishResult
<1>21. CASE PublishResultFails(p)
  BY <1>21 DEF PublishResultFails
<1>22. CASE Acquire(p)
  BY <1>22 DEF Acquire
<1>23. CASE Reload(p)
  BY <1>23 DEF Reload
<1>24. CASE Sync(p)
  BY <1>24 DEF Sync
<1>25. CASE Load(p)
  BY <1>25 DEF Load
<1>26. CASE ExecutionFails(p)
  BY <1>26 DEF ExecutionFails
<1>27. CASE Unlock(p)
  BY <1>27 DEF Unlock
<1> QED
  BY <1>1, <1>2, <1>3, <1>4, <1>5, <1>6, <1>7, <1>8, <1>9, <1>10, <1>11,
     <1>12, <1>13, <1>14, <1>15, <1>16, <1>17, <1>18, <1>19, <1>20, <1>21,
     <1>22, <1>23, <1>24, <1>25, <1>26, <1>27 DEF Step

LEMMA LockTypeNext ==
  ASSUME LockTypeOK, [Next]_vars PROVE LockTypeOK'
<1> USE InitSessionAssumption, Places DEF LockTypeOK, locking
<1>1. ASSUME NEW p \in Procs, Step(p) PROVE LockTypeOK'
  BY <1>1, LockTypeStep
<1>2. ASSUME NEW p \in Procs, Crash(p) PROVE LockTypeOK'
  BY <1>2 DEF Crash
<1>3. ASSUME NEW i \in Invocations, Invoke(i) PROVE LockTypeOK'
  BY <1>3 DEF Invoke
<1>4. ASSUME NEW i \in Invocations, UiCloses(i) PROVE LockTypeOK'
  BY <1>4 DEF UiCloses
<1>5. ASSUME NEW i \in Invocations, NEW role \in {"boot", "child"}, Relaunch(i, role)
     PROVE  LockTypeOK'
  BY <1>5 DEF Relaunch
<1>6. ASSUME NEW o \in Others, TryAcquire(o) PROVE LockTypeOK'
  <2>1. o \in Procs
    OBVIOUS
  <2>2. CASE UNCHANGED <<holder, seen>>
    BY <1>6, <2>2 DEF TryAcquire
  <2>3. CASE holder' = o /\ seen' = [seen EXCEPT ![o] = config]
    BY <1>6, <2>1, <2>3 DEF TryAcquire
  <2> QED
    BY <1>6, <2>2, <2>3 DEF TryAcquire
<1>7. ASSUME EditConfig PROVE LockTypeOK'
  BY <1>7, NextVersion DEF EditConfig
<1>8. ASSUME UNCHANGED vars PROVE LockTypeOK'
  BY <1>8 DEF vars
<1> QED
  BY <1>1, <1>2, <1>3, <1>4, <1>5, <1>6, <1>7, <1>8 DEF Next

LEMMA FlowTypeNext ==
  ASSUME FlowTypeOK, HostTypeOK, [Next]_vars PROVE FlowTypeOK'
<1> USE Places DEF FlowTypeOK, Steps, Outcomes, Goes, Reports
<1>1. ASSUME NEW p \in Procs, Step(p) PROVE FlowTypeOK'
  BY <1>1, FlowTypeStep
<1>2. ASSUME NEW p \in Procs, Crash(p) PROVE FlowTypeOK'
  BY <1>2 DEF Crash
<1>3. ASSUME NEW i \in Invocations, Invoke(i) PROVE FlowTypeOK'
  BY <1>3 DEF Invoke
<1>4. ASSUME NEW i \in Invocations, UiCloses(i) PROVE FlowTypeOK'
  BY <1>4 DEF UiCloses
<1>5. ASSUME NEW i \in Invocations, NEW role \in {"boot", "child"}, Relaunch(i, role)
     PROVE  FlowTypeOK'
  BY <1>5 DEF Relaunch
<1>6. ASSUME NEW o \in Others, TryAcquire(o) PROVE FlowTypeOK'
  BY <1>6 DEF TryAcquire
<1>7. ASSUME EditConfig PROVE FlowTypeOK'
  BY <1>7 DEF EditConfig
<1>8. ASSUME UNCHANGED vars PROVE FlowTypeOK'
  BY <1>8 DEF vars
<1> QED
  BY <1>1, <1>2, <1>3, <1>4, <1>5, <1>6, <1>7, <1>8 DEF Next

LEMMA HostTypeNext ==
  ASSUME FlowTypeOK, HostTypeOK, [Next]_vars PROVE HostTypeOK'
<1> USE Places DEF HostTypeOK, hosting
<1>1. ASSUME NEW p \in Procs, Step(p) PROVE HostTypeOK'
  BY <1>1, HostTypeStep
<1>2. ASSUME NEW p \in Procs, Crash(p) PROVE HostTypeOK'
  BY <1>2 DEF Crash
<1>3. ASSUME NEW i \in Invocations, Invoke(i) PROVE HostTypeOK'
  BY <1>3 DEF Invoke
<1>4. ASSUME NEW i \in Invocations, UiCloses(i) PROVE HostTypeOK'
  BY <1>4 DEF UiCloses
<1>5. ASSUME NEW i \in Invocations, NEW role \in {"boot", "child"}, Relaunch(i, role)
     PROVE  HostTypeOK'
  BY <1>5 DEF Relaunch
<1>6. ASSUME NEW o \in Others, TryAcquire(o) PROVE HostTypeOK'
  BY <1>6 DEF TryAcquire
<1>7. ASSUME EditConfig PROVE HostTypeOK'
  BY <1>7 DEF EditConfig
<1>8. ASSUME UNCHANGED vars PROVE HostTypeOK'
  BY <1>8 DEF vars
<1> QED
  BY <1>1, <1>2, <1>3, <1>4, <1>5, <1>6, <1>7, <1>8 DEF Next

LEMMA FaultTypeNext ==
  ASSUME FaultTypeOK, [Next]_vars PROVE FaultTypeOK'
<1> USE DEF FaultTypeOK, failing
<1>1. ASSUME NEW p \in Procs, Step(p) PROVE FaultTypeOK'
  BY <1>1, FaultTypeStep
<1>2. ASSUME NEW p \in Procs, Crash(p) PROVE FaultTypeOK'
  BY <1>2, FaultType DEF Crash
<1>3. ASSUME NEW i \in Invocations, Invoke(i) PROVE FaultTypeOK'
  BY <1>3 DEF Invoke
<1>4. ASSUME NEW i \in Invocations, UiCloses(i) PROVE FaultTypeOK'
  BY <1>4 DEF UiCloses
<1>5. ASSUME NEW i \in Invocations, NEW role \in {"boot", "child"}, Relaunch(i, role)
     PROVE  FaultTypeOK'
  BY <1>5, FaultType, Places DEF Relaunch
<1>6. ASSUME NEW o \in Others, TryAcquire(o) PROVE FaultTypeOK'
  BY <1>6 DEF TryAcquire
<1>7. ASSUME EditConfig PROVE FaultTypeOK'
  BY <1>7 DEF EditConfig
<1>8. ASSUME UNCHANGED vars PROVE FaultTypeOK'
  BY <1>8 DEF vars
<1> QED
  BY <1>1, <1>2, <1>3, <1>4, <1>5, <1>6, <1>7, <1>8 DEF Next

-----------------------------------------------------------------------------
LEMMA AnswersStep ==
  ASSUME FlowTypeOK, Unanswered, Answered, NEW p \in Procs, Step(p) PROVE (Unanswered /\ Answered)'
<1> USE Places DEF FlowTypeOK, Unanswered, Answered, Early, Late, Goes, Reports
<1>1. CASE Preview(p)
  BY <1>1 DEF Preview
<1>2. CASE Fails(p)
  BY <1>2 DEF Fails, AfterError
<1>3. CASE ChooseUi(p)
  BY <1>3 DEF ChooseUi
<1>4. CASE Defer(p)
  BY <1>4 DEF Defer
<1>5. CASE DeferFails(p)
  BY <1>5 DEF DeferFails
<1>6. CASE PublishBootstrapFails(p)
  BY <1>6 DEF PublishBootstrapFails
<1>7. CASE Abandon(p)
  BY <1>7 DEF Abandon
<1>8. CASE PublishChild(p)
  BY <1>8 DEF PublishChild
<1>9. CASE PublishChildFails(p)
  BY <1>9 DEF PublishChildFails, AfterError
<1>10. CASE Spawn(p)
  BY <1>10 DEF Spawn, Launched
<1>11. CASE SpawnFails(p)
  BY <1>11 DEF SpawnFails
<1>12. CASE Await(p)
  BY <1>12 DEF Await
<1>13. CASE AwaitFails(p)
  BY <1>13 DEF AwaitFails
<1>14. CASE Consume(p)
  BY <1>14 DEF Consume
<1>15. CASE ConsumeFails(p)
  BY <1>15 DEF ConsumeFails
<1>16. CASE Cleanup(p)
  BY <1>16 DEF Cleanup
<1>17. CASE CleanupFails(p)
  BY <1>17 DEF CleanupFails
<1>18. CASE Claim(p)
  BY <1>18 DEF Claim
<1>19. CASE ClaimFails(p)
  BY <1>19 DEF ClaimFails
<1>20. CASE PublishResult(p)
  BY <1>20 DEF PublishResult
<1>21. CASE PublishResultFails(p)
  BY <1>21 DEF PublishResultFails
<1>22. CASE Acquire(p)
  BY <1>22 DEF Acquire
<1>23. CASE Reload(p)
  BY <1>23 DEF Reload
<1>24. CASE Sync(p)
  BY <1>24 DEF Sync
<1>25. CASE Load(p)
  BY <1>25 DEF Load
<1>26. CASE ExecutionFails(p)
  BY <1>26 DEF ExecutionFails
<1>27. CASE Unlock(p)
  BY <1>27 DEF Unlock, AfterUnlock
<1> QED
  BY <1>1, <1>2, <1>3, <1>4, <1>5, <1>6, <1>7, <1>8, <1>9, <1>10, <1>11,
     <1>12, <1>13, <1>14, <1>15, <1>16, <1>17, <1>18, <1>19, <1>20, <1>21,
     <1>22, <1>23, <1>24, <1>25, <1>26, <1>27 DEF Step

LEMMA AnswersNext ==
  ASSUME FlowTypeOK, Unanswered, Answered, [Next]_vars PROVE (Unanswered /\ Answered)'
<1> USE Places DEF FlowTypeOK, Unanswered, Answered, Early, Late, Goes, Reports
<1>1. ASSUME NEW p \in Procs, Step(p) PROVE (Unanswered /\ Answered)'
  BY <1>1, AnswersStep
<1>2. ASSUME NEW p \in Procs, Crash(p) PROVE (Unanswered /\ Answered)'
  BY <1>2 DEF Crash, Live
<1>3. ASSUME NEW i \in Invocations, Invoke(i) PROVE (Unanswered /\ Answered)'
  BY <1>3 DEF Invoke
<1>4. ASSUME NEW i \in Invocations, UiCloses(i) PROVE (Unanswered /\ Answered)'
  BY <1>4 DEF UiCloses
<1>5. ASSUME NEW i \in Invocations, NEW role \in {"boot", "child"}, Relaunch(i, role)
     PROVE  (Unanswered /\ Answered)'
  BY <1>5 DEF Relaunch
<1>6. ASSUME NEW o \in Others, TryAcquire(o) PROVE (Unanswered /\ Answered)'
  BY <1>6 DEF TryAcquire
<1>7. ASSUME EditConfig PROVE (Unanswered /\ Answered)'
  BY <1>7 DEF EditConfig
<1>8. ASSUME UNCHANGED vars PROVE (Unanswered /\ Answered)'
  BY <1>8 DEF vars
<1> QED
  BY <1>1, <1>2, <1>3, <1>4, <1>5, <1>6, <1>7, <1>8 DEF Next

-----------------------------------------------------------------------------
(* Most steps are outside the lock: no process in its critical section is   *)
(* touched, and none enters or leaves.                                      *)
Outside ==
  /\ UNCHANGED <<config, managed, holder, seen>>
  /\ \A q \in Procs : pc[q] \in Critical \/ pc'[q] \in Critical =>
       pc'[q] = pc[q] /\ using'[q] = using[q] /\ outcome'[q] = outcome[q]

Within(p) == Reload(p) \/ Sync(p) \/ Load(p) \/ ExecutionFails(p) \/ Unlock(p)

Takes(p) ==
  /\ pc[p] \in {"lock", "off"} /\ pc' = [pc EXCEPT ![p] = "reload"]
  /\ holder = None /\ holder' = p /\ seen' = [seen EXCEPT ![p] = config]
  /\ UNCHANGED <<config, managed, using, outcome>>

LEMMA OutsideStep ==
  ASSUME FlowTypeOK, LockTypeOK, NEW p \in Procs, Step(p), ~Within(p), ~Acquire(p) PROVE Outside
<1> USE Places DEF FlowTypeOK, LockTypeOK, Outside, Critical, Goes, Reports, locking
<1>1. CASE Preview(p)
  BY <1>1 DEF Preview
<1>2. CASE Fails(p)
  BY <1>2 DEF Fails, AfterError
<1>3. CASE ChooseUi(p)
  BY <1>3 DEF ChooseUi
<1>4. CASE Defer(p)
  BY <1>4 DEF Defer
<1>5. CASE DeferFails(p)
  BY <1>5 DEF DeferFails
<1>6. CASE PublishBootstrapFails(p)
  BY <1>6 DEF PublishBootstrapFails
<1>7. CASE Abandon(p)
  BY <1>7 DEF Abandon
<1>8. CASE PublishChild(p)
  BY <1>8 DEF PublishChild
<1>9. CASE PublishChildFails(p)
  BY <1>9 DEF PublishChildFails, AfterError
<1>10. CASE Spawn(p)
  BY <1>10 DEF Spawn, Launched
<1>11. CASE SpawnFails(p)
  BY <1>11 DEF SpawnFails
<1>12. CASE Await(p)
  BY <1>12 DEF Await
<1>13. CASE AwaitFails(p)
  BY <1>13 DEF AwaitFails
<1>14. CASE Consume(p)
  BY <1>14 DEF Consume
<1>15. CASE ConsumeFails(p)
  BY <1>15 DEF ConsumeFails
<1>16. CASE Cleanup(p)
  BY <1>16 DEF Cleanup
<1>17. CASE CleanupFails(p)
  BY <1>17 DEF CleanupFails
<1>18. CASE Claim(p)
  BY <1>18 DEF Claim
<1>19. CASE ClaimFails(p)
  BY <1>19 DEF ClaimFails
<1>20. CASE PublishResult(p)
  BY <1>20 DEF PublishResult
<1>21. CASE PublishResultFails(p)
  BY <1>21 DEF PublishResultFails
<1> QED
  BY <1>1, <1>2, <1>3, <1>4, <1>5, <1>6, <1>7, <1>8, <1>9, <1>10, <1>11,
     <1>12, <1>13, <1>14, <1>15, <1>16, <1>17, <1>18, <1>19, <1>20, <1>21 DEF Step, Within

LEMMA KindsOfStep ==
  ASSUME FlowTypeOK, LockTypeOK, [Next]_vars
  PROVE  Outside \/ EditConfig \/ \E p \in Procs : Within(p) \/ Takes(p) \/ Crash(p)
<1>1. ASSUME NEW p \in Procs, Step(p) PROVE Outside \/ Within(p) \/ Takes(p)
  <2>1. CASE Acquire(p)
    BY <2>1 DEF Acquire, Takes, Goes
  <2> QED
    BY <1>1, <2>1, OutsideStep
<1>2. ASSUME NEW i \in Invocations, Invoke(i) PROVE Outside
  BY <1>2 DEF Invoke, Outside, FlowTypeOK, Critical, Goes, locking
<1>3. ASSUME NEW i \in Invocations, UiCloses(i) PROVE Outside
  BY <1>3 DEF UiCloses, Outside, locking
<1>4. ASSUME NEW i \in Invocations, NEW role \in {"boot", "child"}, Relaunch(i, role)
     PROVE  Outside
  BY <1>4 DEF Relaunch, Outside, FlowTypeOK, Critical, Goes, locking
<1>5. ASSUME NEW o \in Others, TryAcquire(o) PROVE Outside \/ Takes(o)
  <2>1. CASE holder = None
    BY <1>5, <2>1 DEF TryAcquire, Takes, Goes
  <2>2. CASE holder # None
    BY <1>5, <2>2, Places
    DEF TryAcquire, Outside, FlowTypeOK, Critical, Goes, Reports
  <2> QED
    BY <2>1, <2>2
<1>6. ASSUME UNCHANGED vars PROVE Outside
  BY <1>6 DEF vars, Outside, locking
<1> QED
  BY <1>1, <1>2, <1>3, <1>4, <1>5, <1>6, Places DEF Next

-----------------------------------------------------------------------------
(* The lock stays with the process that executes.                           *)
LEMMA LockedNext ==
  ASSUME FlowTypeOK, LockTypeOK, Locked, [Next]_vars PROVE Locked'
<1> USE InitSessionAssumption DEF FlowTypeOK, LockTypeOK, Locked, Critical, Goes, locking
<1>1. CASE Outside
  BY <1>1 DEF Outside
<1>2. CASE EditConfig
  BY <1>2 DEF EditConfig
<1>3. ASSUME NEW p \in Procs, Reload(p) PROVE Locked'
  BY <1>3 DEF Reload
<1>4. ASSUME NEW p \in Procs, Sync(p) PROVE Locked'
  BY <1>4 DEF Sync
<1>5. ASSUME NEW p \in Procs, Load(p) PROVE Locked'
  BY <1>5 DEF Load
<1>6. ASSUME NEW p \in Procs, ExecutionFails(p) PROVE Locked'
  BY <1>6 DEF ExecutionFails
<1>7. ASSUME NEW p \in Procs, Unlock(p) PROVE Locked'
  BY <1>7 DEF Unlock, AfterUnlock
<1>8. ASSUME NEW p \in Procs, Takes(p) PROVE Locked'
  <2>1. \A q \in Procs : pc[q] \notin Critical
    BY <1>8 DEF Takes
  <2>2. pc' = [pc EXCEPT ![p] = "reload"] /\ holder' = p
    BY <1>8 DEF Takes
  <2> QED
    BY <2>1, <2>2
<1>9. ASSUME NEW p \in Procs, Crash(p) PROVE Locked'
  BY <1>9 DEF Crash
<1> QED
  BY <1>1, <1>2, <1>3, <1>4, <1>5, <1>6, <1>7, <1>8, <1>9, KindsOfStep DEF Within

(* The configuration a process saw when it took the lock is a past one.     *)
LEMMA SeenBeforeNext ==
  ASSUME FlowTypeOK, LockTypeOK, SeenBefore, [Next]_vars PROVE SeenBefore'
<1> USE InitSessionAssumption DEF LockTypeOK, SeenBefore, Versions, locking
<1>1. CASE Outside
  BY <1>1 DEF Outside
<1>2. CASE EditConfig
  BY <1>2 DEF EditConfig
<1>3. ASSUME NEW p \in Procs, Reload(p) \/ Sync(p) \/ Load(p) \/ ExecutionFails(p)
     PROVE  SeenBefore'
  BY <1>3 DEF Reload, Sync, Load, ExecutionFails
<1>4. ASSUME NEW p \in Procs, Unlock(p) PROVE SeenBefore'
  BY <1>4 DEF Unlock
<1>5. ASSUME NEW p \in Procs, Takes(p) PROVE SeenBefore'
  BY <1>5 DEF Takes
<1>6. ASSUME NEW p \in Procs, Crash(p) PROVE SeenBefore'
  BY <1>6 DEF Crash
<1> QED
  BY <1>1, <1>2, <1>3, <1>4, <1>5, <1>6, KindsOfStep DEF Within

LEMMA LoadsAfterSyncNext ==
  ASSUME FlowTypeOK, LockTypeOK, LoadsAfterSync, [Next]_vars PROVE LoadsAfterSync'
<1> USE DEF FlowTypeOK, LoadsAfterSync, Critical, Goes, Reports, locking
<1>1. CASE Outside
  BY <1>1 DEF Outside
<1>2. CASE EditConfig
  BY <1>2 DEF EditConfig
<1>3. ASSUME NEW p \in Procs, Reload(p) PROVE LoadsAfterSync'
  BY <1>3 DEF Reload
<1>4. ASSUME NEW p \in Procs, Sync(p) PROVE LoadsAfterSync'
  <2>1. outcome'[p] \in {"ok", "failures"}
    BY <1>4 DEF Sync
  <2> QED
    BY <1>4, <2>1 DEF Sync
<1>5. ASSUME NEW p \in Procs, Load(p) \/ ExecutionFails(p) PROVE LoadsAfterSync'
  BY <1>5 DEF Load, ExecutionFails
<1>6. ASSUME NEW p \in Procs, Unlock(p) PROVE LoadsAfterSync'
  BY <1>6 DEF Unlock, AfterUnlock
<1>7. ASSUME NEW p \in Procs, Takes(p) \/ Crash(p) PROVE LoadsAfterSync'
  BY <1>7 DEF Takes, Crash
<1> QED
  BY <1>1, <1>2, <1>3, <1>4, <1>5, <1>6, <1>7, KindsOfStep DEF Within

(* Nobody syncs between the sync and the load of another process.           *)
LEMMA LoadsOwnSyncNext ==
  ASSUME FlowTypeOK, LockTypeOK, Locked, LoadsOwnSync, [Next]_vars PROVE LoadsOwnSync'
<1> USE InitSessionAssumption DEF FlowTypeOK, LockTypeOK, Locked, LoadsOwnSync, Critical,
    Goes, locking
<1>1. CASE Outside
  BY <1>1 DEF Outside
<1>2. CASE EditConfig
  BY <1>2 DEF EditConfig
<1>3. ASSUME NEW p \in Procs, Reload(p) PROVE LoadsOwnSync'
  BY <1>3 DEF Reload
<1>4. ASSUME NEW p \in Procs, Sync(p) PROVE LoadsOwnSync'
  <2>1. holder = p /\ managed'.by = p /\ holder' = holder
    BY <1>4 DEF Sync
  <2>2. \A q \in Procs : q # p => pc'[q] = pc[q] /\ pc[q] \notin Critical
    BY <1>4, <2>1 DEF Sync
  <2> QED
    BY <2>1, <2>2
<1>5. ASSUME NEW p \in Procs, Load(p) PROVE LoadsOwnSync'
  BY <1>5 DEF Load
<1>6. ASSUME NEW p \in Procs, ExecutionFails(p) PROVE LoadsOwnSync'
  <2>1. holder = p /\ pc'[p] = "unlock"
    BY <1>6 DEF ExecutionFails
  <2>2. \A q \in Procs : q # p => pc'[q] = pc[q] /\ pc[q] \notin Critical
    BY <1>6, <2>1 DEF ExecutionFails
  <2> QED
    BY <2>1, <2>2
<1>7. ASSUME NEW p \in Procs, Unlock(p) PROVE LoadsOwnSync'
  <2>1. holder = p /\ pc'[p] # "load"
    BY <1>7 DEF Unlock, AfterUnlock
  <2>2. \A q \in Procs : q # p => pc'[q] = pc[q] /\ pc[q] \notin Critical
    BY <1>7, <2>1 DEF Unlock
  <2> QED
    BY <2>1, <2>2
<1>8. ASSUME NEW p \in Procs, Takes(p) PROVE LoadsOwnSync'
  <2>1. \A q \in Procs : pc[q] \notin Critical
    BY <1>8 DEF Takes
  <2>2. pc' = [pc EXCEPT ![p] = "reload"]
    BY <1>8 DEF Takes
  <2> QED
    BY <2>1, <2>2
<1>9. ASSUME NEW p \in Procs, Crash(p) PROVE LoadsOwnSync'
  BY <1>9 DEF Crash
<1> QED
  BY <1>1, <1>2, <1>3, <1>4, <1>5, <1>6, <1>7, <1>8, <1>9, KindsOfStep DEF Within

(* What is read under the lock is at least as recent as what was seen when  *)
(* the lock was taken, and nobody else syncs in between.                    *)
LEMMA FreshConfigurationNext ==
  ASSUME FlowTypeOK, LockTypeOK, Locked, Unanswered, LoadsAfterSync, SeenBefore,
         FreshConfiguration, [Next]_vars
  PROVE  FreshConfiguration'
<1> USE InitSessionAssumption DEF FlowTypeOK, LockTypeOK, Locked, FreshConfiguration,
    Critical, Goes, Reports, locking
<1>1. CASE Outside
  BY <1>1 DEF Outside
<1>2. CASE EditConfig
  BY <1>2 DEF EditConfig
<1>3. ASSUME NEW p \in Procs, Reload(p) PROVE FreshConfiguration'
  <2>1. holder = p /\ outcome' = outcome /\ outcome[p] = "none"
    BY <1>3 DEF Reload, Unanswered, Early
  <2>2. pc'[p] = "sync" /\ using'[p] = config /\ seen' = seen
    BY <1>3 DEF Reload
  <2>3. using'[p] >= seen'[p]
    BY <2>2 DEF SeenBefore, Versions
  <2>4. \A q \in Procs : q # p => pc'[q] = pc[q] /\ pc[q] \notin Critical
    BY <1>3, <2>1 DEF Reload
  <2> QED
    BY <2>1, <2>2, <2>3, <2>4
<1>4. ASSUME NEW p \in Procs, Sync(p) PROVE FreshConfiguration'
  <2>1. holder = p /\ outcome[p] = "none" /\ using[p] >= seen[p]
    BY <1>4 DEF Sync, Unanswered, Early
  <2>2. using' = using /\ seen' = seen
    BY <1>4 DEF Sync
  <2>3. outcome'[p] = "ok" => managed'.version = using[p]
    BY <1>4 DEF Sync
  <2>4. \A q \in Procs : q # p => pc'[q] = pc[q] /\ pc[q] \notin Critical
    BY <1>4, <2>1 DEF Sync
  <2> QED
    BY <2>1, <2>2, <2>3, <2>4
<1>5. ASSUME NEW p \in Procs, Load(p) PROVE FreshConfiguration'
  <2>1. UNCHANGED <<managed, using, seen>> /\ pc[p] = "load"
    BY <1>5 DEF Load
  <2>2. outcome'[p] = outcome[p] \/ outcome'[p] = "failures"
    BY <1>5 DEF Load
  <2>3. holder = p
    BY <2>1
  <2>4. \A q \in Procs : q # p => pc'[q] = pc[q] /\ pc[q] \notin Critical
    BY <1>5, <2>3 DEF Load
  <2>5. outcome[p] # "error"
    BY <2>1 DEF LoadsAfterSync
  <2> QED
    BY <2>1, <2>2, <2>4, <2>5
<1>6. ASSUME NEW p \in Procs, ExecutionFails(p) PROVE FreshConfiguration'
  <2>1. holder = p /\ outcome'[p] = "error"
    BY <1>6 DEF ExecutionFails
  <2>2. \A q \in Procs : q # p => pc'[q] = pc[q] /\ pc[q] \notin Critical
    BY <1>6, <2>1 DEF ExecutionFails
  <2> QED
    BY <2>1, <2>2
<1>7. ASSUME NEW p \in Procs, Unlock(p) PROVE FreshConfiguration'
  <2>1. holder = p /\ pc'[p] \notin Critical
    BY <1>7 DEF Unlock, AfterUnlock
  <2>2. \A q \in Procs : q # p => pc'[q] = pc[q] /\ pc[q] \notin Critical
    BY <1>7, <2>1 DEF Unlock
  <2> QED
    BY <2>1, <2>2
<1>8. ASSUME NEW p \in Procs, Takes(p) PROVE FreshConfiguration'
  <2>1. \A q \in Procs : pc[q] \notin Critical
    BY <1>8 DEF Takes
  <2>2. pc' = [pc EXCEPT ![p] = "reload"]
    BY <1>8 DEF Takes
  <2> QED
    BY <2>1, <2>2
<1>9. ASSUME NEW p \in Procs, Crash(p) PROVE FreshConfiguration'
  BY <1>9 DEF Crash
<1> QED
  BY <1>1, <1>2, <1>3, <1>4, <1>5, <1>6, <1>7, <1>8, <1>9, KindsOfStep DEF Within

-----------------------------------------------------------------------------
LEMMA TypeParts ==
  Answered => (TypeOK <=> LockTypeOK /\ FlowTypeOK /\ HostTypeOK /\ FaultTypeOK)
BY DEF Answered, Late, TypeOK, LockTypeOK, FlowTypeOK, HostTypeOK, FaultTypeOK

LEMMA IInvNext == IInv /\ [Next]_vars => IInv'
<1> SUFFICES ASSUME IInv, [Next]_vars PROVE IInv'
  OBVIOUS
<1> USE DEF IInv
<1>1. LockTypeOK /\ FlowTypeOK /\ HostTypeOK /\ FaultTypeOK
  BY TypeParts
<1>2. Unanswered' /\ Answered'
  BY <1>1, AnswersNext
<1>3. LockTypeOK' /\ FlowTypeOK' /\ HostTypeOK' /\ FaultTypeOK'
  BY <1>1, LockTypeNext, FlowTypeNext, HostTypeNext, FaultTypeNext
<1>4. TypeOK'
  BY <1>2, <1>3 DEF Answered, Late, TypeOK, LockTypeOK, FlowTypeOK, HostTypeOK, FaultTypeOK
<1>5. Locked' /\ LoadsAfterSync' /\ SeenBefore'
  BY <1>1, LockedNext, LoadsAfterSyncNext, SeenBeforeNext
<1>6. LoadsOwnSync' /\ FreshConfiguration'
  BY <1>1, LoadsOwnSyncNext, FreshConfigurationNext
<1> QED
  BY <1>2, <1>4, <1>5, <1>6

(* The inductive invariant holds in every reachable state of the hand-off,  *)
(* the executions and the faults between them.                              *)
THEOREM InitInvariant == Spec => []IInv
<1>1. Init => IInv
  BY IInvInit
<1>2. IInv /\ [Next]_vars => IInv'
  BY IInvNext
<1> QED
  BY <1>1, <1>2, PTL DEF Spec

(* Every variable of the init processes keeps its type, and no process ends *)
(* without an outcome (init_session.rs, Outcome).                           *)
THEOREM InitTypeCorrect == Spec => []TypeOK
<1>1. IInv => TypeOK
  BY DEF IInv
<1> QED
  BY <1>1, InitInvariant, PTL

(* Whatever the number of concurrent invocations and commands, an execution *)
(* loads what it synced itself (execute_core, under execute_inline's lock). *)
THEOREM LoadsWhatItSynced == Spec => []LoadsOwnSync
<1>1. IInv => LoadsOwnSync
  BY DEF IInv
<1> QED
  BY <1>1, InitInvariant, PTL

(* An execution follows a configuration at least as recent as its lock      *)
(* (load_runtime_context is called after OperationLock::acquire).           *)
THEOREM ConfigurationIsFresh == Spec => []FreshConfiguration
<1>1. IInv => FreshConfiguration
  BY DEF IInv
<1> QED
  BY <1>1, InitInvariant, PTL

-----------------------------------------------------------------------------
LEMMA SerialInit == Init => Exclusive!Init
BY ZeroVersion DEF Init, Exclusive!Init

(* A step of the processes enters, changes or leaves the managed state, or  *)
(* does not touch it.                                                       *)
LEMMA SerialNext ==
  ASSUME LockTypeOK, LockTypeOK', FlowTypeOK, Locked, [Next]_vars
  PROVE  Exclusive!Next \/ UNCHANGED <<holder, managed>>
<1> USE DEF LockTypeOK
<1>1. CASE Outside
  BY <1>1 DEF Outside
<1>2. CASE EditConfig
  BY <1>2 DEF EditConfig
<1>3. ASSUME NEW p \in Procs, Reload(p) \/ Load(p) PROVE UNCHANGED <<holder, managed>>
  BY <1>3 DEF Reload, Load
<1>4. ASSUME NEW p \in Procs, Sync(p) \/ ExecutionFails(p) PROVE Exclusive!Change(p)
  <2>1. holder = p /\ holder' = p
    BY <1>4 DEF Sync, ExecutionFails, Locked, Critical
  <2> QED
    BY <2>1 DEF Exclusive!Change
<1>5. ASSUME NEW p \in Procs, Unlock(p) PROVE Exclusive!Leave(p)
  BY <1>5 DEF Unlock, Locked, Critical, Exclusive!Leave
<1>6. ASSUME NEW p \in Procs, Takes(p) PROVE Exclusive!Enter(p)
  BY <1>6 DEF Takes, Exclusive!Enter
<1>7. ASSUME NEW p \in Procs, Crash(p)
     PROVE  Exclusive!Leave(p) \/ UNCHANGED <<holder, managed>>
  BY <1>7 DEF Crash, Exclusive!Leave
<1> QED
  BY <1>1, <1>2, <1>3, <1>4, <1>5, <1>6, <1>7, KindsOfStep DEF Within, Exclusive!Next

(* The init processes implement the abstract specification of the managed   *)
(* state: one owner at a time, from OperationLock::acquire to its Drop.     *)
THEOREM ManagedStateSerial == Spec => SerialManagedState
<1>1. Init => Exclusive!Init
  BY SerialInit
<1>2. IInv /\ IInv' /\ [Next]_vars => [Exclusive!Next]_<<holder, managed>>
  BY TypeParts, SerialNext
  DEF IInv, TypeOK, LockTypeOK
<1> QED
  BY <1>1, <1>2, InitInvariant, PTL DEF Spec, SerialManagedState, Exclusive!Spec

-----------------------------------------------------------------------------
(* An invocation is loaded at most once: the right to load is passed on, and *)
(* never copied.                                                            *)

BootsOf(i)    == {<<i, "boot">>, <<i, "boot again">>}
ChildrenOf(i) == {<<i, "child">>, <<i, "child again">>}
Resumed(i)    == BootsOf(i) \cup ChildrenOf(i)
Mine(i)       == Resumed(i) \cup {<<i, "parent">>}

(* The right to load an invocation is with a process of it that has not     *)
(* started yet as its parent, or may still load it or hand it over; or with *)
(* a record whose process has been started.                                 *)
Entitled == {"preview", "ui", "defer", "abandon", "host", "spawn",
             "lock", "reload", "sync", "load"}
Right(p) == pc[p] \in Entitled \/ (p \in Parents /\ pc[p] = "off")
BootRecord(i)  == session[i].boot /\ pc[<<i, "boot">>] # "off"
ChildRecord(i) == session[i].child /\ pc[<<i, "child">>] # "off"

(* Only owners host and clean up, only parents defer, only sessions load.   *)
Hosting == {"ui", "host", "spawn", "await", "consume", "cleanup"}
Parting == {"defer", "abandon"}
RoleOf(p) ==
  /\ p \in Children => pc[p] \notin Hosting \cup Parting
  /\ p \in Boots => pc[p] \notin Parting
  /\ p \in Others => pc[p] # "load"
Roles == \A p \in Procs : RoleOf(p)

(* A process that is resumed again has been resumed before.                 *)
Relaunched(i) ==
  /\ pc[<<i, "boot again">>] # "off" => pc[<<i, "boot">>] # "off"
  /\ pc[<<i, "child again">>] # "off" => pc[<<i, "child">>] # "off"

(* Whoever holds the right excludes every other holder, and a load ends it. *)
NoBoot(i)  == \A q \in BootsOf(i) : pc[q] = "off"
NoChild(i) == \A q \in ChildrenOf(i) : pc[q] = "off"
ParentAlone(i) == Right(<<i, "parent">>) => NoBoot(i) /\ NoChild(i)
BootAlone(i) ==
  \A q \in BootsOf(i) : Right(q) =>
    ~BootRecord(i) /\ NoChild(i) /\ \A r \in BootsOf(i) : Right(r) => r = q
ChildAlone(i) ==
  \A q \in ChildrenOf(i) : Right(q) =>
    ~ChildRecord(i) /\ \A r \in ChildrenOf(i) : Right(r) => r = q
RecordAlone(i) == BootRecord(i) => NoChild(i)
LoadedOnce(i) ==
  loads[i] # 0 =>
    loads[i] = 1 /\ ~BootRecord(i) /\ ~ChildRecord(i) /\ \A q \in Mine(i) : ~Right(q)
OneRight(i) ==
  ParentAlone(i) /\ BootAlone(i) /\ ChildAlone(i) /\ RecordAlone(i) /\ LoadedOnce(i)

Doubtful(i) == <<<<i, "parent">>, "unacknowledged">> \in faulted
OInv == Roles /\ \A i \in Invocations : Relaunched(i) /\ (Doubtful(i) \/ OneRight(i))

-----------------------------------------------------------------------------
LEMMA Pairs ==
  ASSUME NEW S, NEW T, NEW p \in S \X T
  PROVE  p = <<p[1], p[2]>> /\ p[1] \in S /\ p[2] \in T
OBVIOUS

LEMMA Marks ==
  /\ \A p \in Parents : p = <<Inv(p), "parent">> /\ p[2] = "parent" /\ Inv(p) \in Invocations
  /\ \A p \in Boots : /\ p = <<Inv(p), p[2]>> /\ p[2] \in {"boot", "boot again"}
                      /\ Inv(p) \in Invocations
  /\ \A p \in Children : /\ p = <<Inv(p), p[2]>> /\ p[2] \in {"child", "child again"}
                         /\ Inv(p) \in Invocations
<1>1. \A p \in Parents : p = <<p[1], p[2]>> /\ p[2] \in {"parent"} /\ p[1] \in Invocations
  BY Pairs DEF Parents
<1>2. \A p \in Boots : /\ p = <<p[1], p[2]>> /\ p[2] \in {"boot", "boot again"}
                       /\ p[1] \in Invocations
  BY Pairs DEF Boots
<1>3. \A p \in Children : /\ p = <<p[1], p[2]>> /\ p[2] \in {"child", "child again"}
                          /\ p[1] \in Invocations
  BY Pairs DEF Children
<1> QED
  BY <1>1, <1>2, <1>3 DEF Inv

LEMMA Family ==
  ASSUME NEW i \in Invocations
  PROVE  /\ Mine(i) \subseteq Procs
         /\ \A q \in Mine(i) : q \in Sessions /\ Inv(q) = i
         /\ \A q \in Resumed(i) : q \notin Parents
         /\ \A q \in BootsOf(i) : q \in Boots /\ q \notin Children
         /\ \A q \in ChildrenOf(i) : q \in Children /\ q \notin Boots
         /\ <<i, "parent">> \in Parents
<1>1. /\ <<i, "parent">> \in Parents
      /\ <<i, "boot">> \in Boots /\ <<i, "boot again">> \in Boots
      /\ <<i, "child">> \in Children /\ <<i, "child again">> \in Children
  BY DEF Parents, Boots, Children
<1>2. \A q \in BootsOf(i) : q \in Boots
  BY <1>1 DEF BootsOf
<1>3. \A q \in ChildrenOf(i) : q \in Children
  BY <1>1 DEF ChildrenOf
<1>4. Boots \cap Children = {} /\ Boots \cap Parents = {} /\ Children \cap Parents = {}
  <2>1. \A p \in Boots : p[2] # "parent" /\ p[2] # "child" /\ p[2] # "child again"
    BY Marks
  <2>2. \A p \in Children : p[2] # "parent"
    BY Marks
  <2> QED
    BY <2>1, <2>2, Marks
<1>5. \A q \in Mine(i) : q \in Sessions /\ q \in Procs
  BY <1>1, <1>2, <1>3 DEF Mine, Resumed, Sessions, Procs
<1>6. \A q \in Mine(i) : Inv(q) = i
  <2>1. \A q \in Mine(i) : \E r : q = <<i, r>>
    BY DEF Mine, Resumed, BootsOf, ChildrenOf
  <2> QED
    BY <2>1 DEF Inv
<1> QED
  BY <1>1, <1>2, <1>3, <1>4, <1>5, <1>6 DEF Resumed

LEMMA Kin ==
  ASSUME NEW p \in Sessions
  PROVE  /\ Inv(p) \in Invocations /\ p \in Mine(Inv(p))
         /\ p \in Parents => p = <<Inv(p), "parent">> /\ p \notin Boots /\ p \notin Children
         /\ p \in Boots => p \in BootsOf(Inv(p)) /\ p \notin Children
         /\ p \in Children => p \in ChildrenOf(Inv(p))
         /\ p \in Parents \/ p \in Boots \/ p \in Children
<1>1. p \in Parents \/ p \in Boots \/ p \in Children
  BY DEF Sessions
<1>2. /\ p \in Parents => p = <<Inv(p), "parent">> /\ Inv(p) \in Invocations
      /\ p \in Boots => p \in BootsOf(Inv(p)) /\ Inv(p) \in Invocations
      /\ p \in Children => p \in ChildrenOf(Inv(p)) /\ Inv(p) \in Invocations
  BY Marks DEF BootsOf, ChildrenOf
<1>3. Inv(p) \in Invocations /\ p \in Mine(Inv(p))
  BY <1>1, <1>2 DEF Mine, Resumed
<1> QED
  BY <1>1, <1>2, <1>3, Family DEF Resumed

LEMMA Strangers == \A p \in Procs : p \in Others => p \notin Sessions
BY InitSessionAssumption

(* Whoever holds the right is the only one: no other process, no record,    *)
(* and nothing has been loaded.                                             *)
LEMMA Sole ==
  ASSUME NEW i \in Invocations, OneRight(i), NEW p \in Mine(i), Right(p),
         p \in Resumed(i) => pc[p] # "off"
  PROVE  /\ \A q \in Mine(i) : q # p => ~Right(q)
         /\ ~BootRecord(i) /\ ~ChildRecord(i) /\ loads[i] = 0
         /\ p \notin ChildrenOf(i) => NoChild(i)
         /\ p = <<i, "parent">> => NoBoot(i)
<1> USE Family DEF OneRight, ParentAlone, BootAlone, ChildAlone, RecordAlone, LoadedOnce,
        NoBoot, NoChild, Right, BootRecord, ChildRecord, Mine, Resumed, Entitled
<1>1. CASE p = <<i, "parent">>
  <2>1. \A q \in Resumed(i) : pc[q] = "off"
    BY <1>1
  <2> QED
    BY <1>1, <2>1 DEF BootsOf, ChildrenOf
<1>2. CASE p \in BootsOf(i)
  BY <1>2 DEF BootsOf, ChildrenOf
<1>3. CASE p \in ChildrenOf(i)
  BY <1>3 DEF BootsOf, ChildrenOf
<1> QED
  BY <1>1, <1>2, <1>3

(* Nobody has the right any more.                                           *)
LEMMA NoRights ==
  ASSUME NEW i \in Invocations, \A q \in Mine(i) : ~Right(q)', RecordAlone(i)', loads'[i] = 0
  PROVE  OneRight(i)'
BY DEF OneRight, ParentAlone, BootAlone, ChildAlone, LoadedOnce, Mine, Resumed

(* Nobody gains the right, no record is added and nobody is started.        *)
LEMMA Calm ==
  ASSUME NEW i \in Invocations, OneRight(i), loads'[i] = loads[i],
         \A q \in Resumed(i) : pc[q] = "off" => pc'[q] = "off",
         \A q \in Mine(i) : Right(q)' => Right(q),
         BootRecord(i)' => BootRecord(i), ChildRecord(i)' => ChildRecord(i)
  PROVE  OneRight(i)'
<1>1. (NoBoot(i) => NoBoot(i)') /\ (NoChild(i) => NoChild(i)')
  BY DEF NoBoot, NoChild, Resumed
<1>2. ParentAlone(i)'
  BY <1>1 DEF OneRight, ParentAlone, Mine
<1>3. BootAlone(i)'
  BY <1>1 DEF OneRight, BootAlone, Mine, Resumed
<1>4. ChildAlone(i)'
  BY <1>1 DEF OneRight, ChildAlone, Mine, Resumed
<1>5. RecordAlone(i)'
  BY <1>1 DEF OneRight, RecordAlone
<1>6. LoadedOnce(i)'
  BY DEF OneRight, LoadedOnce
<1> QED
  BY <1>2, <1>3, <1>4, <1>5, <1>6 DEF OneRight

LEMMA Elsewhere ==
  ASSUME NEW i \in Invocations, OneRight(i), Relaunched(i),
         \A q \in Mine(i) : pc'[q] = pc[q], session'[i] = session[i], loads'[i] = loads[i]
  PROVE  OneRight(i)' /\ Relaunched(i)'
<1>1. \A q \in Mine(i) : Right(q)' => Right(q)
  BY DEF Right
<1>2. (BootRecord(i)' => BootRecord(i)) /\ (ChildRecord(i)' => ChildRecord(i))
  BY DEF BootRecord, ChildRecord, Mine, Resumed, BootsOf, ChildrenOf
<1>3. OneRight(i)'
  BY <1>1, <1>2, Calm DEF Mine
<1> QED
  BY <1>3 DEF Relaunched, Mine, Resumed, BootsOf, ChildrenOf

(* A step within one invocation.                                            *)
LEMMA Assemble ==
  ASSUME OInv, NEW i \in Invocations, faulted \subseteq faulted',
         \A q \in Procs : pc'[q] = pc[q] \/ (q \in Mine(i) /\ RoleOf(q)'),
         \A j \in Invocations : j # i => session'[j] = session[j] /\ loads'[j] = loads[j],
         Relaunched(i)', Doubtful(i)' \/ OneRight(i)'
  PROVE  OInv'
<1>1. Roles'
  BY DEF OInv, Roles, RoleOf
<1>2. ASSUME NEW j \in Invocations, j # i
      PROVE  Relaunched(j)' /\ (Doubtful(j)' \/ OneRight(j)')
  <2>1. \A q \in Mine(j) : pc'[q] = pc[q]
    <3>1. \A q \in Mine(j) : q \in Procs /\ Inv(q) = j
      BY Family
    <3>2. \A q \in Mine(i) : Inv(q) = i
      BY Family
    <3> QED
      BY <1>2, <3>1, <3>2
  <2>2. Relaunched(j)'
    BY <2>1, <1>2 DEF OInv, Relaunched, Mine, Resumed, BootsOf, ChildrenOf
  <2>3. CASE Doubtful(j)
    BY <2>2, <2>3 DEF Doubtful
  <2>4. CASE OneRight(j)
    BY <1>2, <2>1, <2>4, Elsewhere DEF OInv
  <2> QED
    BY <1>2, <2>2, <2>3, <2>4 DEF OInv
<1> QED
  BY <1>1, <1>2 DEF OInv

-----------------------------------------------------------------------------
(* Steps that start nobody and add neither a right nor a record.            *)
NoRecord(i) ==
  (session'[i].boot => session[i].boot) /\ (session'[i].child => session[i].child)

Quiet(p) ==
  /\ \A q \in Procs : q # p => pc'[q] = pc[q]
  /\ pc'[p] # "off" /\ (pc[p] = "off" => p \notin Boots \cup Children)
  /\ p \in Sessions => (Right(p)' => Right(p))
  /\ RoleOf(p)'
  /\ \A i \in Invocations : NoRecord(i)
  /\ loads' = loads /\ faulted \subseteq faulted'

LEMMA RightStays ==
  ASSUME NEW q \in Procs, pc'[q] = pc[q] PROVE Right(q)' <=> Right(q)
BY DEF Right

LEMMA QuietKeeps ==
  ASSUME OInv, NEW p \in Procs, Quiet(p) PROVE OInv'
<1>1. Roles'
  BY DEF OInv, Roles, RoleOf, Quiet
<1>2. ASSUME NEW i \in Invocations PROVE Relaunched(i)' /\ (Doubtful(i)' \/ OneRight(i)')
  <2> \A q \in Resumed(i) : q \in Procs /\ q \in Boots \cup Children
    BY Family DEF Resumed, Mine
  <2>1. \A q \in Resumed(i) : pc[q] = "off" => pc'[q] = "off"
    BY DEF Quiet
  <2>2. \A q \in Resumed(i) : pc[q] # "off" => pc'[q] # "off"
    BY DEF Quiet
  <2>3. Relaunched(i)'
    BY <2>1, <2>2 DEF OInv, Relaunched, Resumed, BootsOf, ChildrenOf
  <2>4. CASE Doubtful(i)
    BY <2>3, <2>4 DEF Doubtful, Quiet
  <2>5. CASE OneRight(i)
    <3>1. ASSUME NEW q \in Mine(i) PROVE Right(q)' => Right(q)
      <4>1. q \in Procs /\ q \in Sessions
        BY Family
      <4> QED
        BY <4>1, RightStays DEF Quiet
    <3>2. (BootRecord(i)' => BootRecord(i)) /\ (ChildRecord(i)' => ChildRecord(i))
      <4>1. NoRecord(i)
        BY DEF Quiet
      <4> QED
        BY <2>1, <4>1 DEF NoRecord, BootRecord, ChildRecord, Resumed, BootsOf, ChildrenOf
    <3>3. loads'[i] = loads[i]
      BY DEF Quiet
    <3>4. OneRight(i)'
      BY <2>1, <2>5, <3>1, <3>2, <3>3, Calm
    <3> QED
      BY <2>3, <3>4
  <2> QED
    BY <2>4, <2>5 DEF OInv
<1> QED
  BY <1>1, <1>2 DEF OInv

LEMMA Kinds ==
  \A p \in Procs :
    /\ p \in Parents => p \in Sessions /\ p \notin Boots /\ p \notin Children /\ p \notin Others
    /\ p \in Boots => p \in Sessions /\ p \notin Children /\ p \notin Others
    /\ p \in Children => p \in Sessions /\ p \notin Others
    /\ p \in Sessions => Inv(p) \in Invocations
BY Kin, Strangers DEF Sessions

(* What the step of a single process does to the processes.                 *)
LEMMA GoesOn ==
  ASSUME FlowTypeOK, NEW p \in Procs, NEW step, Goes(p, step)
  PROVE  pc'[p] = step /\ \A q \in Procs : q # p => pc'[q] = pc[q]
BY DEF Goes, FlowTypeOK

(* Where the rest of the steps go: see Right and RoleOf.                    *)
Modest(p) ==
  /\ pc'[p] # "off" /\ pc[p] # "off"
  /\ p \in Sessions => (Right(p)' => Right(p))
  /\ RoleOf(p)'
  /\ \A q \in Procs : q # p => pc'[q] = pc[q]

LEMMA ModestStep ==
  ASSUME FlowTypeOK, NEW p \in Procs, RoleOf(p),
         \/ Preview(p)
         \/ Fails(p)
         \/ ChooseUi(p)
         \/ PublishBootstrapFails(p)
         \/ Abandon(p)
         \/ PublishChildFails(p)
         \/ Await(p)
         \/ AwaitFails(p)
         \/ Consume(p)
         \/ ConsumeFails(p)
         \/ Cleanup(p)
         \/ CleanupFails(p)
         \/ ClaimFails(p)
         \/ PublishResult(p)
         \/ PublishResultFails(p)
         \/ Acquire(p)
         \/ Reload(p)
         \/ Sync(p)
         \/ ExecutionFails(p)
         \/ Unlock(p)
  PROVE  Modest(p)
<1> USE Kinds, GoesOn DEF Modest, Right, RoleOf, Entitled, Hosting, Parting, Steps
<1>1. CASE Preview(p)
  BY <1>1 DEF Preview
<1>2. CASE Fails(p)
  BY <1>2 DEF Fails, AfterError
<1>3. CASE ChooseUi(p)
  BY <1>3 DEF ChooseUi
<1>4. CASE PublishBootstrapFails(p)
  BY <1>4 DEF PublishBootstrapFails
<1>5. CASE Abandon(p)
  BY <1>5 DEF Abandon
<1>6. CASE PublishChildFails(p)
  BY <1>6 DEF PublishChildFails, AfterError
<1>7. CASE Await(p)
  BY <1>7 DEF Await
<1>8. CASE AwaitFails(p)
  BY <1>8 DEF AwaitFails
<1>9. CASE Consume(p)
  BY <1>9 DEF Consume
<1>10. CASE ConsumeFails(p)
  BY <1>10 DEF ConsumeFails
<1>11. CASE Cleanup(p)
  BY <1>11 DEF Cleanup
<1>12. CASE CleanupFails(p)
  BY <1>12 DEF CleanupFails
<1>13. CASE ClaimFails(p)
  BY <1>13 DEF ClaimFails
<1>14. CASE PublishResult(p)
  BY <1>14 DEF PublishResult
<1>15. CASE PublishResultFails(p)
  BY <1>15 DEF PublishResultFails
<1>16. CASE Acquire(p)
  BY <1>16 DEF Acquire
<1>17. CASE Reload(p)
  BY <1>17 DEF Reload
<1>18. CASE Sync(p)
  <2>1. pc[p] = "sync" /\ Goes(p, IF p \in Sessions THEN "load" ELSE "unlock")
    BY <1>18 DEF Sync
  <2>2. /\ pc'[p] = IF p \in Sessions THEN "load" ELSE "unlock"
        /\ \A q \in Procs : q # p => pc'[q] = pc[q]
    BY <2>1 DEF Goes, FlowTypeOK
  <2>3. p \in Others => p \notin Sessions
    BY Strangers
  <2> QED
    BY <2>1, <2>2, <2>3
<1>19. CASE ExecutionFails(p)
  BY <1>19 DEF ExecutionFails
<1>20. CASE Unlock(p)
  BY <1>20 DEF Unlock, AfterUnlock
<1> QED
  BY <1>1, <1>2, <1>3, <1>4, <1>5, <1>6, <1>7, <1>8, <1>9, <1>10, <1>11, <1>12, <1>13, <1>14, <1>15, <1>16, <1>17, <1>18, <1>19, <1>20

LEMMA UnlessSessionChanges ==
  session' = session => \A i \in Invocations : NoRecord(i)
BY DEF NoRecord

LEMMA RecordsRemoved ==
  ASSUME HostTypeOK, NEW i \in Invocations, Remove(i)
  PROVE  \A j \in Invocations : NoRecord(j)
BY DEF HostTypeOK, Remove, NoSession, NoRecord

LEMMA RecordsKept ==
  ASSUME HostTypeOK, NEW p \in Procs,
         \/ Preview(p)
         \/ Fails(p)
         \/ ChooseUi(p)
         \/ PublishBootstrapFails(p)
         \/ Abandon(p)
         \/ PublishChildFails(p)
         \/ Await(p)
         \/ AwaitFails(p)
         \/ Consume(p)
         \/ ConsumeFails(p)
         \/ Cleanup(p)
         \/ CleanupFails(p)
         \/ ClaimFails(p)
         \/ PublishResult(p)
         \/ PublishResultFails(p)
         \/ Acquire(p)
         \/ Reload(p)
         \/ Sync(p)
         \/ ExecutionFails(p)
         \/ Unlock(p)
  PROVE  (\A i \in Invocations : NoRecord(i)) /\ loads' = loads /\ faulted \subseteq faulted'
<1> USE UnlessSessionChanges, Kinds DEF locking, hosting, failing, Fault
<1>1. CASE Preview(p)
  BY <1>1 DEF Preview
<1>2. CASE Fails(p)
  BY <1>2 DEF Fails
<1>3. CASE ChooseUi(p)
  BY <1>3 DEF ChooseUi
<1>4. CASE PublishBootstrapFails(p)
  BY <1>4 DEF PublishBootstrapFails
<1>5. CASE Abandon(p)
  BY <1>5, RecordsRemoved DEF Abandon
<1>6. CASE PublishChildFails(p)
  BY <1>6 DEF PublishChildFails
<1>7. CASE Await(p)
  BY <1>7 DEF Await, HostTypeOK, NoRecord
<1>8. CASE AwaitFails(p)
  BY <1>8 DEF AwaitFails
<1>9. CASE Consume(p)
  BY <1>9 DEF Consume, HostTypeOK, NoRecord
<1>10. CASE ConsumeFails(p)
  BY <1>10 DEF ConsumeFails, HostTypeOK, NoRecord
<1>11. CASE Cleanup(p)
  BY <1>11, RecordsRemoved DEF Cleanup
<1>12. CASE CleanupFails(p)
  BY <1>12 DEF CleanupFails
<1>13. CASE ClaimFails(p)
  BY <1>13 DEF ClaimFails, HostTypeOK, NoRecord, TakeRecord
<1>14. CASE PublishResult(p)
  BY <1>14 DEF PublishResult, HostTypeOK, NoRecord
<1>15. CASE PublishResultFails(p)
  BY <1>15 DEF PublishResultFails
<1>16. CASE Acquire(p)
  BY <1>16 DEF Acquire
<1>17. CASE Reload(p)
  BY <1>17 DEF Reload
<1>18. CASE Sync(p)
  BY <1>18 DEF Sync
<1>19. CASE ExecutionFails(p)
  BY <1>19 DEF ExecutionFails
<1>20. CASE Unlock(p)
  BY <1>20 DEF Unlock
<1> QED
  BY <1>1, <1>2, <1>3, <1>4, <1>5, <1>6, <1>7, <1>8, <1>9, <1>10, <1>11, <1>12, <1>13, <1>14, <1>15, <1>16, <1>17, <1>18, <1>19, <1>20

-----------------------------------------------------------------------------
(* The steps that hand the right over.                                      *)
TypesOK == LockTypeOK /\ FlowTypeOK /\ HostTypeOK

LEMMA PublishChildKeeps ==
  ASSUME TypesOK, OInv, NEW p \in Procs, PublishChild(p) PROVE OInv'
<1> DEFINE i == Inv(p)
<1>1. p \in Sessions /\ pc[p] = "host"
  BY DEF PublishChild
<1>2. i \in Invocations /\ p \in Mine(i) /\ p \notin Children
  BY <1>1, Kin DEF OInv, Roles, RoleOf, Hosting
<1>3. pc'[p] = "spawn" /\ \A q \in Procs : q # p => pc'[q] = pc[q]
  BY GoesOn DEF PublishChild, TypesOK
<1>4. /\ session'[i].boot = session[i].boot
      /\ \A j \in Invocations : j # i => session'[j] = session[j]
      /\ loads' = loads /\ faulted' = faulted
  BY <1>2 DEF PublishChild, TypesOK, HostTypeOK, locking, failing
<1>5. RoleOf(p)'
  BY <1>2, <1>3, Strangers, <1>1 DEF RoleOf, Parting
<1>6. \A q \in Resumed(i) : q \in Procs /\ (pc[q] = "off" <=> pc'[q] = "off")
  BY <1>1, <1>2, <1>3, Family DEF Mine
<1>7. Relaunched(i)'
  BY <1>2, <1>6 DEF OInv, Relaunched, Resumed, BootsOf, ChildrenOf
<1>8. ASSUME OneRight(i) PROVE OneRight(i)'
  <2>1. NoChild(i)
    BY <1>1, <1>2, <1>8, Sole, Family DEF Right, Entitled
  <2>2. NoChild(i)'
    BY <2>1, <1>6 DEF NoChild, Resumed
  <2>3. ~ChildRecord(i)' /\ (BootRecord(i)' => BootRecord(i))
    BY <2>2, <1>4, <1>6 DEF ChildRecord, BootRecord, NoChild, ChildrenOf, Resumed, BootsOf
  <2>4. \A q \in Mine(i) : Right(q)' => Right(q)
    BY <1>1, <1>2, <1>3, Family DEF Right, Entitled
  <2> QED
    BY <1>2, <1>4, <1>6, <1>8, <2>3, <2>4, Calm
<1>9. Doubtful(i)' \/ OneRight(i)'
  BY <1>2, <1>4, <1>8 DEF OInv, Doubtful
<1> QED
  BY <1>2, <1>3, <1>4, <1>5, <1>7, <1>9, Assemble

LEMMA LoadKeeps ==
  ASSUME TypesOK, OInv, NEW p \in Procs, Load(p) PROVE OInv'
<1> DEFINE i == Inv(p)
<1>1. pc[p] = "load" /\ p \in Sessions
  <2>1. pc[p] = "load"
    BY DEF Load
  <2> QED
    BY <2>1 DEF OInv, Roles, RoleOf, Procs
<1>2. i \in Invocations /\ p \in Mine(i)
  BY <1>1, Kin
<1>3. pc'[p] = "unlock" /\ \A q \in Procs : q # p => pc'[q] = pc[q]
  BY GoesOn DEF Load, TypesOK
<1>4. session' = session /\ faulted' = faulted
  BY DEF Load, hosting, failing
<1>5. loads'[i] = loads[i] + 1 /\ \A j \in Invocations : j # i => loads'[j] = loads[j]
  BY <1>2 DEF Load, TypesOK, LockTypeOK
<1>6. RoleOf(p)'
  BY <1>3 DEF RoleOf, Hosting, Parting
<1>7. \A q \in Resumed(i) : q \in Procs /\ (pc[q] = "off" <=> pc'[q] = "off")
  BY <1>1, <1>2, <1>3, Family DEF Mine
<1>8. Relaunched(i)'
  BY <1>2, <1>7 DEF OInv, Relaunched, Resumed, BootsOf, ChildrenOf
<1>9. ASSUME OneRight(i) PROVE OneRight(i)'
  <2>1. /\ \A q \in Mine(i) : q # p => ~Right(q)
        /\ ~BootRecord(i) /\ ~ChildRecord(i) /\ loads[i] = 0
    BY <1>1, <1>2, <1>9, Sole DEF Right, Entitled
  <2>2. \A q \in Mine(i) : ~Right(q)'
    BY <1>1, <1>2, <1>3, <2>1, Family DEF Right, Entitled
  <2>3. ~BootRecord(i)' /\ ~ChildRecord(i)'
    BY <2>1, <1>4, <1>7 DEF BootRecord, ChildRecord, Resumed, BootsOf, ChildrenOf
  <2>4. loads'[i] = 1
    BY <2>1, <1>5
  <2> QED
    BY <2>2, <2>3, <2>4 DEF OneRight, ParentAlone, BootAlone, ChildAlone, RecordAlone,
                            LoadedOnce, Mine, Resumed
<1>10. Doubtful(i)' \/ OneRight(i)'
  BY <1>2, <1>4, <1>9 DEF OInv, Doubtful
<1> QED
  BY <1>2, <1>3, <1>4, <1>5, <1>6, <1>8, <1>10, Assemble

(* Whoever claims a record finds it there, and takes it away.               *)
LEMMA ClaimKeeps ==
  ASSUME TypesOK, OInv, NEW p \in Procs, Claim(p) PROVE OInv'
<1> DEFINE i == Inv(p)
<1>1. p \in Boots \cup Children /\ pc[p] = "claim" /\ p \in Sessions /\ p \in Resumed(Inv(p))
  BY Kinds, Kin DEF Claim, Resumed
<1>2. i \in Invocations /\ p \in Mine(i)
  BY <1>1, Kin
<1>3. pc'[p] = "preview" /\ \A q \in Procs : q # p => pc'[q] = pc[q]
  BY GoesOn DEF Claim, TypesOK
<1>4. loads' = loads /\ faulted' = faulted
  BY DEF Claim, locking, failing
<1>5. \A j \in Invocations : j # i => session'[j] = session[j]
  BY <1>2 DEF Claim, TakeRecord, TypesOK, HostTypeOK
<1>6. RoleOf(p)'
  BY <1>1, <1>3, Kinds DEF RoleOf, Hosting, Parting
<1>7. \A q \in Resumed(i) : q \in Procs /\ (pc[q] = "off" <=> pc'[q] = "off")
  BY <1>1, <1>2, <1>3, Family DEF Mine
<1>8. Relaunched(i)'
  BY <1>2, <1>7 DEF OInv, Relaunched, Resumed, BootsOf, ChildrenOf
<1>9. ASSUME OneRight(i), p \in Boots PROVE OneRight(i)'
  <2>1. p \in BootsOf(i) /\ session[i].boot /\ ~session'[i].boot
    BY <1>2, <1>9, <1>1, Kin DEF Claim, Record, TakeRecord, TypesOK, HostTypeOK
  <2>2. BootRecord(i)
    BY <1>1, <1>2, <2>1 DEF OInv, Relaunched, BootRecord, BootsOf
  <2>3. NoChild(i) /\ loads[i] = 0
    BY <2>2, <1>9 DEF OneRight, RecordAlone, LoadedOnce
  <2>4. \A q \in BootsOf(i) : ~Right(q)
    BY <2>2, <1>9 DEF OneRight, BootAlone
  <2>5. ~Right(<<i, "parent">>)
    BY <1>1, <2>1, <1>9 DEF OneRight, ParentAlone, NoBoot
  <2>6. ~BootRecord(i)' /\ NoChild(i)'
    BY <2>1, <2>3, <1>7 DEF BootRecord, NoChild, Resumed
  <2>7. \A q \in Mine(i) : q # p => ~Right(q)'
    <3>1. \A q \in ChildrenOf(i) : ~Right(q)
      BY <1>2, <2>3, Family DEF NoChild, Right, Entitled, Resumed
    <3> QED
      BY <1>2, <1>3, <2>4, <2>5, <3>1, Family DEF Right, Mine, Resumed
  <2>8. p # <<i, "parent">> /\ p \notin ChildrenOf(i)
    BY <1>2, <1>9, Family, Kinds
  <2> QED
    BY <1>4, <2>3, <2>6, <2>7, <2>8 DEF OneRight, ParentAlone, BootAlone, ChildAlone,
       RecordAlone, LoadedOnce, Mine, Resumed
<1>10. ASSUME OneRight(i), p \in Children PROVE OneRight(i)'
  <2>1. p \in ChildrenOf(i) /\ session[i].child /\ ~session'[i].child
    BY <1>2, <1>10, <1>1, Kin, Kinds DEF Claim, Record, TakeRecord, TypesOK, HostTypeOK
  <2>2. ChildRecord(i) /\ ~NoChild(i)
    BY <1>1, <1>2, <2>1 DEF OInv, Relaunched, ChildRecord, ChildrenOf, NoChild
  <2>3. ~BootRecord(i) /\ loads[i] = 0
    BY <2>2, <1>10 DEF OneRight, RecordAlone, LoadedOnce
  <2>4. /\ \A q \in ChildrenOf(i) : ~Right(q)
        /\ \A q \in BootsOf(i) : ~Right(q)
        /\ ~Right(<<i, "parent">>)
    BY <2>2, <1>10 DEF OneRight, ChildAlone, BootAlone, ParentAlone
  <2>5. session'[i].boot = session[i].boot
    BY <1>2, <1>10, Kinds DEF Claim, TakeRecord, TypesOK, HostTypeOK
  <2>6. ~BootRecord(i)' /\ ~ChildRecord(i)'
    BY <2>1, <2>3, <2>5, <1>7 DEF BootRecord, ChildRecord, Resumed, BootsOf
  <2>7. \A q \in Mine(i) : q # p => ~Right(q)'
    BY <1>2, <1>3, <2>4, Family DEF Right, Mine, Resumed
  <2>8. p # <<i, "parent">> /\ p \notin BootsOf(i)
    BY <1>2, <1>10, Family, Kinds
  <2> QED
    BY <1>4, <2>3, <2>6, <2>7, <2>8 DEF OneRight, ParentAlone, BootAlone, ChildAlone,
       RecordAlone, LoadedOnce, Mine, Resumed
<1>11. Doubtful(i)' \/ OneRight(i)'
  BY <1>1, <1>2, <1>4, <1>9, <1>10 DEF OInv, Doubtful
<1> QED
  BY <1>2, <1>3, <1>4, <1>5, <1>6, <1>8, <1>11, Assemble

(* A host that launches its child passes the right on through the record.   *)
LEMMA LaunchKeeps ==
  ASSUME TypesOK, OInv, NEW p \in Sessions, pc[p] = "spawn", NEW next \in {"await", "cleanup"},
         pc[Child(p)] = "off", pc' = [pc EXCEPT ![p] = next, ![Child(p)] = "claim"],
         session'[Inv(p)].boot = session[Inv(p)].boot,
         \A j \in Invocations : j # Inv(p) => session'[j] = session[j],
         loads' = loads, faulted \subseteq faulted'
  PROVE  OInv'
<1> DEFINE i == Inv(p)
<1>1. i \in Invocations /\ p \in Mine(i) /\ p \in Procs
  BY Kin, Places
<1>2. p \notin Children
  BY <1>1 DEF OInv, Roles, RoleOf, Hosting
<1>3. Child(p) \in ChildrenOf(i) /\ Child(p) \in Mine(i) /\ Child(p) \in Procs
      /\ Child(p) \in Children /\ Child(p) # p
  <2>1. Child(p) \in ChildrenOf(i) /\ Child(p) \in Mine(i)
    BY DEF Child, ChildrenOf, Mine, Resumed
  <2> QED
    BY <1>1, <1>2, <2>1, Family
<1>4. /\ pc'[p] = next /\ pc'[Child(p)] = "claim"
      /\ \A q \in Procs : q # p /\ q # Child(p) => pc'[q] = pc[q]
  BY <1>1, <1>3 DEF TypesOK, FlowTypeOK
<1>5. RoleOf(p)' /\ RoleOf(Child(p))'
  BY <1>2, <1>3, <1>4, Kinds DEF RoleOf, Hosting, Parting
<1>6. \A q \in Resumed(i) : q \in Procs /\ (pc'[q] = "off" => pc[q] = "off")
  BY <1>1, <1>3, <1>4, Family DEF Mine
<1>7. <<i, "child again">> # Child(p) /\ <<i, "boot again">> # Child(p) /\ <<i, "boot">> # Child(p)
  BY DEF Child
<1>8. \A q \in Resumed(i) : q # Child(p) => (pc'[q] = "off" <=> pc[q] = "off")
  BY <1>1, <1>4, <1>6, Family DEF Mine
<1>9. Relaunched(i)'
  BY <1>1, <1>6, <1>7, <1>8 DEF OInv, Relaunched, Resumed, BootsOf, ChildrenOf
<1>10. ASSUME OneRight(i) PROVE OneRight(i)'
  <2>1. /\ \A q \in Mine(i) : q # p => ~Right(q)
        /\ ~BootRecord(i) /\ loads[i] = 0
    BY <1>1, <1>10, Sole DEF Right, Entitled
  <2>2. \A q \in Mine(i) : ~Right(q)'
    BY <1>1, <1>3, <1>4, <2>1, Family DEF Right, Entitled
  <2>3. ~BootRecord(i)'
    BY <2>1, <1>7, <1>8 DEF BootRecord, Resumed, BootsOf
  <2> QED
    BY <1>1, <2>1, <2>2, <2>3, NoRights DEF RecordAlone
<1>11. Doubtful(i)' \/ OneRight(i)'
  BY <1>1, <1>10 DEF OInv, Doubtful
<1>12. \A q \in Procs : pc'[q] = pc[q] \/ (q \in Mine(i) /\ RoleOf(q)')
  BY <1>1, <1>3, <1>4, <1>5
<1> QED
  BY <1>1, <1>9, <1>11, <1>12, Assemble

LEMMA SpawnKeeps ==
  ASSUME TypesOK, OInv, NEW p \in Procs, Spawn(p) \/ SpawnFails(p) PROVE OInv'
<1>1. p \in Sessions /\ pc[p] = "spawn" /\ loads' = loads /\ faulted \subseteq faulted'
      /\ Inv(p) \in Invocations
  BY Kinds DEF Spawn, SpawnFails, Fault, locking, failing
<1>2. CASE Spawn(p)
  <2>1. /\ session'[Inv(p)].boot = session[Inv(p)].boot
        /\ \A j \in Invocations : j # Inv(p) => session'[j] = session[j]
    BY <1>1, <1>2 DEF Spawn, TypesOK, HostTypeOK
  <2>2. pc[Child(p)] = "off" /\ pc' = [pc EXCEPT ![p] = "await", ![Child(p)] = "claim"]
    BY <1>2 DEF Spawn, Launched
  <2> QED
    BY <1>1, <2>1, <2>2, LaunchKeeps
<1>3. CASE SpawnFails(p) /\ Goes(p, "cleanup")
  <2>1. pc'[p] = "cleanup" /\ \A q \in Procs : q # p => pc'[q] = pc[q]
    BY <1>3, GoesOn DEF TypesOK
  <2>2. RoleOf(p)' /\ ~Right(p)'
    BY <1>1, <2>1, Kinds DEF OInv, Roles, RoleOf, Hosting, Parting, Right, Entitled
  <2>3. \A i \in Invocations : NoRecord(i)
    BY <1>3, UnlessSessionChanges DEF SpawnFails
  <2> QED
    BY <1>1, <2>1, <2>2, <2>3, QuietKeeps DEF Quiet
<1>4. CASE SpawnFails(p) /\ ~Goes(p, "cleanup")
  <2>1. pc[Child(p)] = "off" /\ pc' = [pc EXCEPT ![p] = "cleanup", ![Child(p)] = "claim"]
        /\ session' = session
    BY <1>4 DEF SpawnFails
  <2> QED
    BY <1>1, <2>1, LaunchKeeps
<1> QED
  BY <1>2, <1>3, <1>4

(* A parent that defers publishes the record before the bootstrap starts.   *)
LEMMA DeferKeeps ==
  ASSUME TypesOK, OInv, NEW p \in Procs, Defer(p) \/ DeferFails(p) PROVE OInv'
<1> DEFINE i == Inv(p)
           boot == <<i, "boot">>
<1>1. p \in Parents /\ p \in Sessions /\ pc[p] = "defer" /\ loads' = loads
      /\ faulted \subseteq faulted'
  BY Kinds DEF Defer, DeferFails, Fault, locking, failing
<1>2. i \in Invocations /\ p = <<i, "parent">> /\ p \in Mine(i)
  BY <1>1, Kin
<1>3. boot \in BootsOf(i) /\ boot \in Mine(i) /\ boot \in Procs /\ boot \in Boots
      /\ boot # p /\ boot # <<i, "boot again">>
  <2>1. boot \in BootsOf(i) /\ boot \in Mine(i)
    BY DEF BootsOf, Mine, Resumed
  <2> QED
    BY <1>1, <1>2, <2>1, Family, Kinds
<1>4. \A j \in Invocations : j # i => session'[j] = session[j]
  BY <1>2 DEF Defer, DeferFails, TypesOK, HostTypeOK
<1>5. session'[i].child = FALSE
  <2>1. session' = [session EXCEPT ![i] = [NoSession EXCEPT !.dir = TRUE, !.boot = TRUE]]
    BY DEF Defer, DeferFails
  <2>2. session'[i] = [NoSession EXCEPT !.dir = TRUE, !.boot = TRUE]
    BY <1>2, <2>1 DEF TypesOK, HostTypeOK
  <2> QED
    BY <2>2 DEF NoSession
<1>6. \/ /\ pc'[p] = "abandon"
         /\ \A q \in Procs : q # p => pc'[q] = pc[q]
      \/ /\ pc'[p] \in {"ended", "abandon"} /\ pc'[boot] = "claim"
         /\ \A q \in Procs : q # p /\ q # boot => pc'[q] = pc[q]
         /\ pc'[p] = "ended" \/ Doubtful(i)'
  <2>1. CASE Defer(p)
    BY <2>1, <1>1, <1>3 DEF Defer, TypesOK, FlowTypeOK
  <2>2. CASE DeferFails(p) /\ Goes(p, "abandon")
    BY <2>2, GoesOn DEF TypesOK
  <2>3. CASE DeferFails(p) /\ ~Goes(p, "abandon")
    <3>1. Fault(p, "unacknowledged")
          /\ pc' = [pc EXCEPT ![p] = "abandon", ![boot] = "claim"]
      BY <2>3 DEF DeferFails
    <3>2. Doubtful(i)'
      BY <3>1, <1>2 DEF Fault, Doubtful
    <3> QED
      BY <3>1, <3>2, <1>1, <1>3 DEF TypesOK, FlowTypeOK
  <2> QED
    BY <2>1, <2>2, <2>3
<1>7. \A q \in Procs : pc'[q] = pc[q] \/ (q \in Mine(i) /\ RoleOf(q)')
  <2>1. RoleOf(p)'
    BY <1>1, <1>6, <1>3, Kinds DEF RoleOf
  <2>2. pc'[boot] = "claim" => RoleOf(boot)'
    BY <1>3, Kinds DEF RoleOf, Hosting, Parting
  <2> QED
    BY <1>2, <1>3, <1>6, <2>1, <2>2
<1>8. \A q \in Resumed(i) : q \in Procs /\ q # p
  BY <1>1, <1>2, Family DEF Mine
<1>9. Relaunched(i)'
  BY <1>2, <1>3, <1>6, <1>8 DEF OInv, Relaunched, Resumed, BootsOf, ChildrenOf
<1>10. ASSUME OneRight(i), ~Doubtful(i)' PROVE OneRight(i)'
  <2>1. /\ \A q \in Mine(i) : q # p => ~Right(q)
        /\ loads[i] = 0 /\ NoChild(i) /\ NoBoot(i)
    BY <1>1, <1>2, <1>8, <1>10, Sole DEF Right, Entitled, OneRight, ParentAlone
  <2>2. NoChild(i)'
    BY <2>1, <1>2, <1>3, <1>6, <1>8, Family DEF NoChild, Resumed
  <2>3. \A q \in Mine(i) : q # p => ~Right(q)'
    <3>1. \A q \in Mine(i) : q \in Procs
      BY <1>2, Family
    <3>2. boot \notin Parents
      BY <1>3, Kinds
    <3> QED
      BY <1>6, <2>1, <3>1, <3>2 DEF Right, Entitled
  <2>4. CASE pc'[p] = "ended"
    <3>1. ~Right(p)'
      BY <2>4 DEF Right, Entitled
    <3> QED
      BY <1>1, <1>2, <2>1, <2>2, <2>3, <3>1, NoRights DEF RecordAlone
  <2>5. CASE pc'[p] # "ended"
    <3>1. \A q \in Procs : q # p => pc'[q] = pc[q]
      BY <1>6, <1>10, <2>5
    <3>2. \A q \in Resumed(i) : pc'[q] = "off"
      BY <1>8, <2>1, <3>1 DEF NoBoot, NoChild, Resumed
    <3>3. ~BootRecord(i)' /\ ~ChildRecord(i)'
      BY <3>2 DEF BootRecord, ChildRecord, Resumed, BootsOf, ChildrenOf
    <3>4. Right(p)' => Right(p)
      BY <1>1 DEF Right, Entitled
    <3>5. \A q \in Mine(i) : Right(q)' => Right(q)
      BY <2>3, <3>4
    <3>6. \A q \in Resumed(i) : pc[q] = "off" => pc'[q] = "off"
      BY <3>2
    <3>7. loads'[i] = loads[i]
      BY <1>1
    <3> QED
      BY <1>2, <1>10, <3>3, <3>5, <3>6, <3>7, Calm
  <2> QED
    BY <2>4, <2>5
<1>11. Doubtful(i)' \/ OneRight(i)'
  BY <1>1, <1>2, <1>10 DEF OInv, Doubtful
<1>12. \A j \in Invocations : j # i => session'[j] = session[j] /\ loads'[j] = loads[j]
  BY <1>1, <1>4
<1> QED
  BY <1>1, <1>2, <1>7, <1>9, <1>11, <1>12, Assemble

LEMMA RelaunchKeeps ==
  ASSUME TypesOK, OInv, NEW i \in Invocations, NEW role \in {"boot", "child"},
         Relaunch(i, role)
  PROVE  OInv'
<1> DEFINE first == <<i, role>>
           again == <<i, IF role = "boot" THEN "boot again" ELSE "child again">>
<1>1. /\ pc[first] # "off" /\ pc[again] = "off" /\ Goes(again, "claim")
      /\ session' = session /\ loads' = loads /\ faulted \subseteq faulted'
  BY DEF Relaunch, Fault, locking, hosting
<1>2. \/ role = "boot" /\ first = <<i, "boot">> /\ again = <<i, "boot again">>
      \/ role = "child" /\ first = <<i, "child">> /\ again = <<i, "child again">>
  OBVIOUS
<1>3. /\ first \in Resumed(i) /\ again \in Resumed(i) /\ first # again
      /\ role = "boot" => first \in BootsOf(i) /\ again \in BootsOf(i)
      /\ role = "child" => first \in ChildrenOf(i) /\ again \in ChildrenOf(i)
  BY <1>2 DEF Resumed, BootsOf, ChildrenOf
<1>4. \A q \in Mine(i) : q \in Procs
  BY Family
<1>5. pc'[again] = "claim" /\ \A q \in Procs : q # again => pc'[q] = pc[q]
  BY <1>1, <1>3, <1>4, GoesOn DEF TypesOK, Mine
<1>6. RoleOf(again)'
  BY <1>5, <1>3, <1>4, Family, Kinds DEF RoleOf, Hosting, Parting, Resumed, Mine
<1>7. again # <<i, "boot">> /\ again # <<i, "child">> /\ again # <<i, "parent">>
  BY <1>2
<1>8. pc'[<<i, "boot">>] = pc[<<i, "boot">>] /\ pc'[<<i, "child">>] = pc[<<i, "child">>]
  BY <1>4, <1>5, <1>7 DEF Mine, Resumed, BootsOf, ChildrenOf
<1>9. Relaunched(i)'
  BY <1>1, <1>2, <1>4, <1>5, <1>8 DEF OInv, Relaunched, Mine, Resumed, BootsOf, ChildrenOf
<1>10. ASSUME OneRight(i) PROVE OneRight(i)'
  <2>1. (BootRecord(i)' <=> BootRecord(i)) /\ (ChildRecord(i)' <=> ChildRecord(i))
    BY <1>1, <1>8 DEF BootRecord, ChildRecord
  <2>2. \A q \in Mine(i) : Right(q)' => Right(q)
    BY <1>3, <1>4, <1>5, Family DEF Right, Entitled
  <2>3. ~Right(<<i, "parent">>)
    BY <1>1, <1>2, <1>3, <1>10 DEF OneRight, ParentAlone, NoBoot, NoChild
  <2>4. ~NoChild(i) \/ (NoChild(i) <=> NoChild(i)')
    <3>1. CASE role = "boot"
      <4>1. again \notin ChildrenOf(i)
        BY <1>3, <3>1, Family
      <4> QED
        BY <1>4, <1>5, <4>1 DEF NoChild, Mine, Resumed
    <3>2. CASE role = "child"
      BY <1>1, <1>3, <3>2 DEF NoChild
    <3> QED
      BY <3>1, <3>2
  <2>5. ParentAlone(i)' /\ BootAlone(i)' /\ ChildAlone(i)'
    BY <2>1, <2>2, <2>3, <2>4, <1>10 DEF OneRight, ParentAlone, BootAlone, ChildAlone,
       Mine, Resumed
  <2>6. RecordAlone(i)' /\ LoadedOnce(i)'
    BY <1>1, <2>1, <2>2, <2>4, <1>10 DEF OneRight, RecordAlone, LoadedOnce
  <2> QED
    BY <2>5, <2>6 DEF OneRight
<1>11. Doubtful(i)' \/ OneRight(i)'
  BY <1>1, <1>10 DEF OInv, Doubtful
<1>12. \A q \in Procs : pc'[q] = pc[q] \/ (q \in Mine(i) /\ RoleOf(q)')
  BY <1>3, <1>5, <1>6 DEF Mine
<1> QED
  BY <1>1, <1>9, <1>11, <1>12, Assemble

-----------------------------------------------------------------------------
(* All steps together.                                                      *)
LEMMA OwnStep ==
  ASSUME TypesOK, OInv, NEW p \in Procs, Step(p) PROVE OInv'
<1>1. CASE Defer(p) \/ DeferFails(p)
  BY <1>1, DeferKeeps
<1>2. CASE PublishChild(p)
  BY <1>2, PublishChildKeeps
<1>3. CASE Spawn(p) \/ SpawnFails(p)
  BY <1>3, SpawnKeeps
<1>4. CASE Claim(p)
  BY <1>4, ClaimKeeps
<1>5. CASE Load(p)
  BY <1>5, LoadKeeps
<1>6. CASE \/ Preview(p) \/ Fails(p) \/ ChooseUi(p) \/ PublishBootstrapFails(p)
           \/ Abandon(p) \/ PublishChildFails(p) \/ Await(p) \/ AwaitFails(p)
           \/ Consume(p) \/ ConsumeFails(p) \/ Cleanup(p) \/ CleanupFails(p)
           \/ ClaimFails(p) \/ PublishResult(p) \/ PublishResultFails(p) \/ Acquire(p)
           \/ Reload(p) \/ Sync(p) \/ ExecutionFails(p) \/ Unlock(p)
  <2>1. Modest(p)
    BY <1>6, ModestStep DEF TypesOK, OInv, Roles
  <2>2. (\A i \in Invocations : NoRecord(i)) /\ loads' = loads /\ faulted \subseteq faulted'
    BY <1>6, RecordsKept DEF TypesOK
  <2>3. Quiet(p)
    BY <2>1, <2>2 DEF Quiet, Modest
  <2> QED
    BY <2>3, QuietKeeps
<1> QED
  BY <1>1, <1>2, <1>3, <1>4, <1>5, <1>6 DEF Step

LEMMA EnvironmentStep ==
  ASSUME TypesOK, OInv,
         \/ \E p \in Procs : Crash(p)
         \/ \E i \in Invocations : Invoke(i)
         \/ \E o \in Others : TryAcquire(o)
  PROVE  OInv'
<1>1. ASSUME NEW p \in Procs, Crash(p) PROVE OInv'
  <2>1. /\ pc'[p] = "crashed" /\ pc[p] # "off" /\ \A q \in Procs : q # p => pc'[q] = pc[q]
        /\ session' = session /\ loads' = loads /\ faulted \subseteq faulted'
    BY <1>1, GoesOn DEF Crash, Live, Fault, TypesOK, hosting
  <2>2. RoleOf(p)' /\ ~Right(p)'
    BY <2>1 DEF RoleOf, Hosting, Parting, Right, Entitled
  <2> QED
    BY <2>1, <2>2, UnlessSessionChanges, QuietKeeps DEF Quiet
<1>2. ASSUME NEW i \in Invocations, Invoke(i) PROVE OInv'
  <2> DEFINE p == <<i, "parent">>
  <2>1. p \in Procs /\ p \in Parents
    BY Family DEF Mine
  <2>2. /\ pc'[p] = "preview" /\ pc[p] = "off" /\ \A q \in Procs : q # p => pc'[q] = pc[q]
        /\ session' = session /\ loads' = loads /\ faulted \subseteq faulted'
    BY <1>2, <2>1, GoesOn DEF Invoke, TypesOK, locking, hosting, failing
  <2>3. RoleOf(p)' /\ Right(p) /\ p \notin Boots \cup Children
    BY <2>1, <2>2, Kinds DEF RoleOf, Right
  <2> QED
    BY <2>1, <2>2, <2>3, UnlessSessionChanges, QuietKeeps DEF Quiet
<1>3. ASSUME NEW p \in Others, TryAcquire(p) PROVE OInv'
  <2>1. p \in Procs /\ p \notin Sessions
    BY Places, Strangers
  <2>2. /\ pc'[p] \in {"reload", "ended"} /\ \A q \in Procs : q # p => pc'[q] = pc[q]
        /\ session' = session /\ loads' = loads /\ faulted \subseteq faulted'
    BY <1>3, <2>1, GoesOn DEF TryAcquire, TypesOK, hosting, failing
  <2>3. RoleOf(p)' /\ p \notin Boots \cup Children
    BY <2>1, <2>2 DEF RoleOf, Sessions
  <2> QED
    BY <2>1, <2>2, <2>3, UnlessSessionChanges, QuietKeeps DEF Quiet
<1> QED
  BY <1>1, <1>2, <1>3

LEMMA NoProcessMoves ==
  ASSUME OInv, pc' = pc, session' = session, loads' = loads, faulted' = faulted
  PROVE  OInv'
BY DEF OInv, Roles, RoleOf, Relaunched, Doubtful, OneRight, ParentAlone, BootAlone,
       ChildAlone, RecordAlone, LoadedOnce, NoBoot, NoChild, BootRecord, ChildRecord, Right

LEMMA OInvNext == IInv /\ OInv /\ [Next]_vars => OInv'
<1> SUFFICES ASSUME IInv, OInv, [Next]_vars PROVE OInv'
  OBVIOUS
<1>1. TypesOK
  BY TypeParts DEF IInv, TypesOK
<1>2. CASE \E p \in Procs : Step(p)
  BY <1>1, <1>2, OwnStep
<1>3. CASE \E i \in Invocations, role \in {"boot", "child"} : Relaunch(i, role)
  BY <1>1, <1>3, RelaunchKeeps
<1>4. CASE \/ \E p \in Procs : Crash(p)
           \/ \E i \in Invocations : Invoke(i)
           \/ \E o \in Others : TryAcquire(o)
  BY <1>1, <1>4, EnvironmentStep
<1>5. CASE EditConfig \/ (\E i \in Invocations : UiCloses(i)) \/ UNCHANGED vars
  BY <1>5, NoProcessMoves DEF EditConfig, UiCloses, vars, locking, hosting, failing
<1> QED
  BY <1>2, <1>3, <1>4, <1>5 DEF Next

LEMMA OInvInit == Init => OInv
<1> SUFFICES ASSUME Init PROVE OInv
  OBVIOUS
<1>1. \A p \in Procs : pc[p] = "off"
  BY DEF Init
<1>2. Roles
  BY <1>1 DEF Roles, RoleOf, Hosting, Parting
<1>3. ASSUME NEW i \in Invocations PROVE Relaunched(i) /\ OneRight(i)
  <2>1. \A q \in Mine(i) : pc[q] = "off"
    BY <1>1, Family
  <2>2. \A q \in Resumed(i) : ~Right(q)
    BY <2>1, Family DEF Mine, Right, Entitled
  <2>3. ~BootRecord(i) /\ NoBoot(i) /\ NoChild(i) /\ loads[i] = 0
    BY <2>1 DEF Init, BootRecord, NoBoot, NoChild, Mine, Resumed, BootsOf
  <2>4. Relaunched(i)
    BY <2>1 DEF Relaunched, Mine, Resumed, BootsOf, ChildrenOf
  <2> QED
    BY <2>2, <2>3, <2>4 DEF OneRight, ParentAlone, BootAlone, ChildAlone, RecordAlone,
       LoadedOnce, Resumed
<1> QED
  BY <1>2, <1>3 DEF OInv

(* An invocation is loaded at most once, however the parent, the bootstrap  *)
(* and the child pass the work on, whichever of them fails or crashes and   *)
(* however often a resume command runs: a record is renamed before it is    *)
(* used (record.rs, claim). A bootstrap that tmux started and reported as   *)
(* failed is the one exception.                                             *)
THEOREM LoadsAtMostOnce == Spec => []AtMostOneLoad
<1>1. Init => IInv /\ OInv
  BY IInvInit, OInvInit
<1>2. IInv /\ OInv /\ [Next]_vars => (IInv /\ OInv)'
  BY IInvNext, OInvNext
<1>3. OInv => AtMostOneLoad
  <2> SUFFICES ASSUME OInv, NEW i \in Invocations PROVE loads[i] <= 1 \/ Doubtful(i)
    BY DEF AtMostOneLoad, Doubtful
  <2>1. loads[i] = 0 \/ loads[i] = 1 \/ Doubtful(i)
    BY DEF OInv, OneRight, LoadedOnce
  <2> QED
    BY <2>1
<1> QED
  BY <1>1, <1>2, <1>3, PTL DEF Spec
=============================================================================
