---------------------- MODULE InitSession_hosting_proofs ----------------------
(* The owner of an invocation and the child it hosts, for every number of     *)
(* invocations, commands and faults.  The session directory outlives the      *)
(* child that works in it and is then removed; what the owner reports of a    *)
(* child that ran is its outcome, and nothing that no child has done.         *)
EXTENDS InitSession_proofs

OwnersOf(i) == BootsOf(i) \cup {<<i, "parent">>}
ChildOf(i)  == <<i, "child">>

(* A parent hands over once it ends, and one bootstrap has the record.       *)
Idle == {"off", "claim", "ended", "crashed"}
OwnerAlone(i) ==
  /\ pc[<<i, "parent">>] \notin {"ended", "crashed"} => NoBoot(i)
  /\ \A q \in BootsOf(i) :
       pc[q] \notin Idle => ~BootRecord(i) /\ \A r \in BootsOf(i) : r # q => pc[r] \in Idle

(* The popup or pane is open as long as the child runs.                      *)
UiFollows(i) ==
  /\ pc[ChildOf(i)] = "off" => ui[i] = "none"
  /\ Live(ChildOf(i)) => ui[i] = "open"

SpawnDir(i) == \A q \in OwnersOf(i) : pc[q] = "spawn" => session[i].dir

(* Nobody is about to remove the directory of a running child.               *)
TornDown(i) == mode[i] = "popup" /\ "await" \in Hit(i)
Guarded(i) ==
  /\ session[i].dir /\ (mode[i] = "split" => session[i].preserve)
  /\ \A q \in OwnersOf(i) :
       pc[q] \notin {"consume", "unlock"} /\ (pc[q] = "cleanup" => session[i].preserve)
Kept(i) == Live(ChildOf(i)) => TornDown(i) \/ Guarded(i)

Hosted(i)    == OwnerAlone(i) /\ UiFollows(i) /\ SpawnDir(i) /\ Kept(i)
Misled(i)    == "unacknowledged" \in Hit(i)
HInv         == \A i \in Invocations : Misled(i) \/ Hosted(i)

-----------------------------------------------------------------------------
LEMMA HitGrows ==
  ASSUME faulted \subseteq faulted', NEW i \in Invocations, NEW k \in Hit(i)
  PROVE  k \in Hit(i)'
BY DEF Hit

LEMMA HitNow ==
  ASSUME NEW p \in Sessions, NEW k, Fault(p, k) PROVE k \in Hit(Inv(p))'
<1>1. <<p, k>> \in faulted' /\ <<p, k>>[1] = p /\ <<p, k>>[2] = k
  BY DEF Fault
<1> QED
  BY <1>1 DEF Hit

LEMMA DoubtMisleads ==
  ASSUME NEW i \in Invocations, Doubtful(i) PROVE Misled(i)
<1> DEFINE f == <<<<i, "parent">>, "unacknowledged">>
<1>1. f \in faulted /\ f[1] = <<i, "parent">> /\ f[2] = "unacknowledged"
  BY DEF Doubtful
<1>2. <<i, "parent">> \in Sessions /\ Inv(<<i, "parent">>) = i
  BY Family DEF Mine
<1> QED
  BY <1>1, <1>2 DEF Hit, Misled

LEMMA Owners ==
  ASSUME NEW i \in Invocations
  PROVE  /\ \A q \in OwnersOf(i) : q \in Mine(i) /\ q \in Procs /\ q \notin Children
         /\ ChildOf(i) \in Mine(i) /\ ChildOf(i) \in Procs /\ ChildOf(i) \in Children
         /\ ChildOf(i) \in ChildrenOf(i) /\ ChildOf(i) \notin OwnersOf(i)
<1>1. \A q \in OwnersOf(i) : q \in Mine(i)
  BY DEF OwnersOf, Mine, Resumed
<1>2. ChildOf(i) \in ChildrenOf(i) /\ ChildOf(i) \in Mine(i)
  BY DEF ChildOf, ChildrenOf, Mine, Resumed
<1> QED
  BY <1>1, <1>2, Family, Kinds DEF OwnersOf

LEMMA OwnersAreNotChildren ==
  ASSUME NEW p \in Sessions PROVE p \in OwnersOf(Inv(p)) <=> p \notin Children
BY Kin, Owners DEF OwnersOf

(* While one owner is at work, the others are not.                           *)
LEMMA AtWorkAlone ==
  ASSUME NEW i \in Invocations, OwnerAlone(i), NEW p \in OwnersOf(i), pc[p] \notin Idle
  PROVE  \A q \in OwnersOf(i) : q # p => pc[q] \in Idle
<1>1. CASE p = <<i, "parent">>
  BY <1>1 DEF OwnerAlone, OwnersOf, NoBoot, Idle
<1>2. CASE p \in BootsOf(i)
  BY <1>2 DEF OwnerAlone, OwnersOf, NoBoot, Idle
<1> QED
  BY <1>1, <1>2 DEF OwnersOf

(* A process of another invocation, or none, moves.                          *)
Aside(i) ==
  /\ \A q \in Mine(i) : pc'[q] = pc[q]
  /\ session'[i] = session[i] /\ mode'[i] = mode[i] /\ ui'[i] = ui[i]

LEMMA AsideKeeps ==
  ASSUME NEW i \in Invocations, Aside(i), faulted \subseteq faulted', Hosted(i)
  PROVE  Hosted(i)'
<1>1. \A q \in OwnersOf(i) : pc'[q] = pc[q]
  BY Owners DEF Aside
<1>2. pc'[ChildOf(i)] = pc[ChildOf(i)] /\ (Live(ChildOf(i))' <=> Live(ChildOf(i)))
  BY Owners DEF Aside, Live
<1>3. OwnerAlone(i)'
  BY <1>1 DEF Hosted, OwnerAlone, OwnersOf, BootsOf, NoBoot, BootRecord, Aside
<1>4. UiFollows(i)' /\ SpawnDir(i)'
  BY <1>1, <1>2 DEF Hosted, UiFollows, SpawnDir, Aside
<1>5. Kept(i)'
  BY <1>1, <1>2, HitGrows DEF Hosted, Kept, Guarded, TornDown, Aside
<1> QED
  BY <1>3, <1>4, <1>5 DEF Hosted

LEMMA StepAside ==
  ASSUME TypesOK, NEW p \in Procs, Step(p), NEW i \in Invocations,
         p \in Sessions => Inv(p) # i
  PROVE  Aside(i)
<1>1. \A q \in Mine(i) : q \in Procs /\ q \in Sessions /\ Inv(q) = i
  BY Family
<1>2. \A q \in Mine(i) : q # p
  BY <1>1
<1>3. \A q \in Mine(i) : p \in Sessions => q # Child(p) /\ q # <<Inv(p), "boot">>
  <2>1. Inv(Child(p)) = Inv(p) /\ Inv(<<Inv(p), "boot">>) = Inv(p)
    BY DEF Child, Inv
  <2> QED
    BY <1>1, <2>1
<1> USE <1>1, <1>2, <1>3, Kinds DEF Aside, TypesOK, FlowTypeOK, HostTypeOK, Goes, hosting
<1>4. CASE Preview(p)
  BY <1>4 DEF Preview
<1>5. CASE Fails(p)
  BY <1>5 DEF Fails
<1>6. CASE ChooseUi(p)
  BY <1>6 DEF ChooseUi
<1>7. CASE Defer(p)
  BY <1>7 DEF Defer
<1>8. CASE DeferFails(p)
  BY <1>8 DEF DeferFails
<1>9. CASE PublishBootstrapFails(p)
  BY <1>9 DEF PublishBootstrapFails
<1>10. CASE Abandon(p)
  BY <1>10 DEF Abandon, Remove
<1>11. CASE PublishChild(p)
  BY <1>11 DEF PublishChild
<1>12. CASE PublishChildFails(p)
  BY <1>12 DEF PublishChildFails
<1>13. CASE Spawn(p)
  BY <1>13 DEF Spawn, Launched
<1>14. CASE SpawnFails(p)
  BY <1>14 DEF SpawnFails
<1>15. CASE Await(p)
  BY <1>15 DEF Await
<1>16. CASE AwaitFails(p)
  BY <1>16 DEF AwaitFails
<1>17. CASE Consume(p)
  BY <1>17 DEF Consume
<1>18. CASE ConsumeFails(p)
  BY <1>18 DEF ConsumeFails
<1>19. CASE Cleanup(p)
  BY <1>19 DEF Cleanup, Remove
<1>20. CASE CleanupFails(p)
  BY <1>20 DEF CleanupFails
<1>21. CASE Claim(p)
  BY <1>21 DEF Claim, TakeRecord
<1>22. CASE ClaimFails(p)
  BY <1>22 DEF ClaimFails, TakeRecord
<1>23. CASE PublishResult(p)
  BY <1>23 DEF PublishResult
<1>24. CASE PublishResultFails(p)
  BY <1>24 DEF PublishResultFails
<1>25. CASE Acquire(p)
  BY <1>25 DEF Acquire
<1>26. CASE Reload(p)
  BY <1>26 DEF Reload
<1>27. CASE Sync(p)
  BY <1>27 DEF Sync
<1>28. CASE Load(p)
  BY <1>28 DEF Load
<1>29. CASE ExecutionFails(p)
  BY <1>29 DEF ExecutionFails
<1>30. CASE Unlock(p)
  BY <1>30 DEF Unlock
<1> QED
  BY <1>4, <1>5, <1>6, <1>7, <1>8, <1>9, <1>10, <1>11, <1>12, <1>13, <1>14,
     <1>15, <1>16, <1>17, <1>18, <1>19, <1>20, <1>21, <1>22, <1>23, <1>24,
     <1>25, <1>26, <1>27, <1>28, <1>29, <1>30 DEF Step

-----------------------------------------------------------------------------
(* The step of a child leaves directory, owners and window alone.            *)
ChildMoves(p, i) ==
  /\ \A q \in Procs : q # p => pc'[q] = pc[q]
  /\ pc[p] # "off" /\ pc'[p] # "off"
  /\ Live(p)' => Live(p)
  /\ session'[i].dir = session[i].dir /\ session'[i].preserve = session[i].preserve
  /\ session'[i].boot = session[i].boot /\ mode' = mode /\ ui' = ui

LEMMA ChildStep ==
  ASSUME TypesOK, NEW p \in Children, RoleOf(p), Step(p) PROVE ChildMoves(p, Inv(p))
<1>1. p \in Procs /\ p \in Sessions /\ p \notin Parents /\ p \notin Boots /\ p \notin Others
      /\ Inv(p) \in Invocations
  BY Kinds DEF Procs, Sessions
<1> USE <1>1 DEF ChildMoves, Live, RoleOf, Hosting, Parting, TypesOK, FlowTypeOK, HostTypeOK,
        Goes, hosting
<1>2. CASE Preview(p)
  BY <1>2 DEF Preview
<1>3. CASE Fails(p)
  BY <1>3 DEF Fails, AfterError
<1>4. CASE ChooseUi(p)
  BY <1>4 DEF ChooseUi
<1>5. CASE Defer(p)
  BY <1>5 DEF Defer
<1>6. CASE DeferFails(p)
  BY <1>6 DEF DeferFails
<1>7. CASE PublishBootstrapFails(p)
  BY <1>7 DEF PublishBootstrapFails
<1>8. CASE Abandon(p)
  BY <1>8 DEF Abandon, Remove
<1>9. CASE PublishChild(p)
  BY <1>9 DEF PublishChild
<1>10. CASE PublishChildFails(p)
  BY <1>10 DEF PublishChildFails, AfterError
<1>11. CASE Spawn(p)
  BY <1>11 DEF Spawn, Launched
<1>12. CASE SpawnFails(p)
  BY <1>12 DEF SpawnFails
<1>13. CASE Await(p)
  BY <1>13 DEF Await
<1>14. CASE AwaitFails(p)
  BY <1>14 DEF AwaitFails
<1>15. CASE Consume(p)
  BY <1>15 DEF Consume
<1>16. CASE ConsumeFails(p)
  BY <1>16 DEF ConsumeFails
<1>17. CASE Cleanup(p)
  BY <1>17 DEF Cleanup, Remove
<1>18. CASE CleanupFails(p)
  BY <1>18 DEF CleanupFails
<1>19. CASE Claim(p)
  BY <1>19 DEF Claim, TakeRecord
<1>20. CASE ClaimFails(p)
  BY <1>20 DEF ClaimFails, TakeRecord
<1>21. CASE PublishResult(p)
  BY <1>21 DEF PublishResult
<1>22. CASE PublishResultFails(p)
  BY <1>22 DEF PublishResultFails
<1>23. CASE Acquire(p)
  BY <1>23 DEF Acquire
<1>24. CASE Reload(p)
  BY <1>24 DEF Reload
<1>25. CASE Sync(p)
  BY <1>25 DEF Sync
<1>26. CASE Load(p)
  BY <1>26 DEF Load
<1>27. CASE ExecutionFails(p)
  BY <1>27 DEF ExecutionFails
<1>28. CASE Unlock(p)
  BY <1>28 DEF Unlock, AfterUnlock
<1> QED
  BY <1>2, <1>3, <1>4, <1>5, <1>6, <1>7, <1>8, <1>9, <1>10, <1>11, <1>12,
     <1>13, <1>14, <1>15, <1>16, <1>17, <1>18, <1>19, <1>20, <1>21, <1>22,
     <1>23, <1>24, <1>25, <1>26, <1>27, <1>28 DEF Step

LEMMA ChildKeeps ==
  ASSUME NEW p \in Children, p \in Sessions, Hosted(Inv(p)), ChildMoves(p, Inv(p)),
         faulted \subseteq faulted'
  PROVE  Hosted(Inv(p))'
<1> DEFINE i == Inv(p)
<1>1. i \in Invocations
  BY Kin
<1>2. \A q \in OwnersOf(i) : pc'[q] = pc[q]
  BY <1>1, Owners DEF ChildMoves
<1>3. /\ pc'[ChildOf(i)] = "off" <=> pc[ChildOf(i)] = "off"
      /\ Live(ChildOf(i))' => Live(ChildOf(i))
  BY <1>1, Owners DEF ChildMoves, Live
<1>4. OwnerAlone(i)'
  BY <1>2 DEF Hosted, OwnerAlone, OwnersOf, BootsOf, NoBoot, BootRecord, ChildMoves
<1>5. UiFollows(i)' /\ SpawnDir(i)'
  BY <1>2, <1>3 DEF Hosted, UiFollows, SpawnDir, ChildMoves
<1>6. Kept(i)'
  BY <1>1, <1>2, <1>3, HitGrows DEF Hosted, Kept, Guarded, TornDown, ChildMoves
<1> QED
  BY <1>4, <1>5, <1>6 DEF Hosted

-----------------------------------------------------------------------------
(* The step of an owner that is at work and starts nobody.                   *)
OwnerMoves(p, i) ==
  /\ pc[p] \notin Idle /\ pc'[p] \notin {"off", "claim"}
  /\ \A q \in Procs : q # p => pc'[q] = pc[q]
  /\ BootRecord(i)' => BootRecord(i)
  /\ ui'[i] = ui[i] /\ faulted \subseteq faulted'

LEMMA OwnerStays ==
  ASSUME NEW i \in Invocations, NEW p \in OwnersOf(i), OwnerMoves(p, i),
         OwnerAlone(i), UiFollows(i)
  PROVE  /\ OwnerAlone(i)' /\ UiFollows(i)'
         /\ \A q \in OwnersOf(i) : q # p => pc'[q] = pc[q] /\ pc'[q] \in Idle
         /\ pc'[ChildOf(i)] = pc[ChildOf(i)]
<1>1. \A q \in OwnersOf(i) : q # p => pc'[q] = pc[q] /\ pc[q] \in Idle
  BY AtWorkAlone, Owners DEF OwnerMoves
<1>2. pc'[ChildOf(i)] = pc[ChildOf(i)]
  BY Owners DEF OwnerMoves
<1>3. UiFollows(i)'
  BY <1>2 DEF UiFollows, Live, OwnerMoves
<1>4. CASE p = <<i, "parent">>
  <2>1. NoBoot(i) /\ \A q \in BootsOf(i) : q # p
    BY <1>4, Family DEF OwnerAlone, OwnerMoves, Idle, Resumed
  <2>2. \A q \in BootsOf(i) : pc'[q] = "off"
    BY <1>1, <2>1 DEF NoBoot, OwnersOf
  <2> QED
    BY <1>1, <1>2, <1>3, <2>2 DEF OwnerAlone, NoBoot, Idle
<1>5. CASE p \in BootsOf(i)
  <2>1. ~BootRecord(i)' /\ pc[<<i, "parent">>] \in {"ended", "crashed"}
    BY <1>5 DEF OwnerAlone, OwnerMoves, NoBoot, Idle
  <2>2. pc'[<<i, "parent">>] \in {"ended", "crashed"}
    BY <1>1, <1>5, <2>1, Family DEF OwnersOf, Resumed
  <2>3. \A q \in BootsOf(i) : q # p => pc'[q] \in Idle
    BY <1>1 DEF OwnersOf
  <2> QED
    BY <1>1, <1>2, <1>3, <2>1, <2>2, <2>3 DEF OwnerAlone
<1> QED
  BY <1>4, <1>5 DEF OwnersOf

(* With the right, before there is a child.                                  *)
LEMMA RightKeeps ==
  ASSUME NEW i \in Invocations, NEW p \in OwnersOf(i), OwnerMoves(p, i), Right(p),
         OneRight(i), Hosted(i), pc'[p] = "spawn" => session'[i].dir
  PROVE  Hosted(i)'
<1>1. NoChild(i)
  BY Owners DEF OneRight, ParentAlone, BootAlone, OwnersOf
<1>2. /\ OwnerAlone(i)' /\ UiFollows(i)' /\ pc'[ChildOf(i)] = pc[ChildOf(i)]
      /\ \A q \in OwnersOf(i) : q # p => pc'[q] \in Idle
  BY OwnerStays DEF Hosted
<1>3. ~Live(ChildOf(i))'
  BY <1>1, <1>2, Owners DEF NoChild, Live
<1>4. SpawnDir(i)'
  BY <1>2 DEF SpawnDir, Idle
<1> QED
  BY <1>2, <1>3, <1>4 DEF Hosted, Kept

(* Afterwards, the directory may go only when the child has ended.           *)
LEMMA AfterwardsKeeps ==
  ASSUME NEW i \in Invocations, NEW p \in OwnersOf(i), OwnerMoves(p, i),
         Hosted(i), pc'[p] # "spawn",
         Live(ChildOf(i)) => (TornDown(i) \/ Guarded(i) => TornDown(i)' \/ Guarded(i)')
  PROVE  Hosted(i)'
<1>1. /\ OwnerAlone(i)' /\ UiFollows(i)' /\ pc'[ChildOf(i)] = pc[ChildOf(i)]
      /\ \A q \in OwnersOf(i) : q # p => pc'[q] \in Idle
  BY OwnerStays DEF Hosted
<1>2. SpawnDir(i)'
  BY <1>1 DEF SpawnDir, Idle
<1>3. Kept(i)'
  BY <1>1 DEF Hosted, Kept, Live
<1> QED
  BY <1>1, <1>2, <1>3 DEF Hosted

-----------------------------------------------------------------------------
(* The steps of an owner, one by one.                                        *)
LEMMA RecordsStay ==
  ASSUME NEW i \in Invocations, NEW p \in Procs, NoRecord(i), pc[p] # "off",
         \A q \in Procs : q # p => pc'[q] = pc[q]
  PROVE  BootRecord(i)' => BootRecord(i)
<1>1. <<i, "boot">> \in Procs
  BY Family DEF Mine, Resumed, BootsOf
<1> QED
  BY <1>1 DEF NoRecord, BootRecord

LEMMA AtWork ==
  ASSUME TypesOK, NEW p \in Sessions, RoleOf(p), p \notin Children,
         \/ Preview(p) \/ Fails(p) \/ ChooseUi(p) \/ PublishBootstrapFails(p)
         \/ Abandon(p) \/ PublishChildFails(p) \/ Acquire(p) \/ Reload(p)
         \/ Sync(p) \/ ExecutionFails(p) \/ Await(p) \/ AwaitFails(p)
         \/ Consume(p) \/ ConsumeFails(p) \/ Cleanup(p) \/ CleanupFails(p)
         \/ Unlock(p)
  PROVE  OwnerMoves(p, Inv(p)) /\ pc'[p] # "spawn"
<1>1. p \in Procs /\ Inv(p) \in Invocations
  BY Kin, Places
<1>2. Modest(p)
  BY <1>1, ModestStep DEF TypesOK
<1>3. NoRecord(Inv(p)) /\ faulted \subseteq faulted'
  BY <1>1, RecordsKept DEF TypesOK
<1>4. BootRecord(Inv(p))' => BootRecord(Inv(p))
  BY <1>1, <1>2, <1>3, RecordsStay DEF Modest
<1>5. pc[p] \notin Idle /\ pc'[p] \notin {"claim", "spawn"} /\ ui' = ui
  <2> USE <1>1 DEF Idle, TypesOK, FlowTypeOK, Goes, hosting
  <2>1. CASE Preview(p)
    BY <2>1 DEF Preview
  <2>2. CASE Fails(p)
    BY <2>2 DEF Fails, AfterError
  <2>3. CASE ChooseUi(p)
    BY <2>3 DEF ChooseUi
  <2>4. CASE PublishBootstrapFails(p)
    BY <2>4 DEF PublishBootstrapFails
  <2>5. CASE Abandon(p)
    BY <2>5 DEF Abandon
  <2>6. CASE PublishChildFails(p)
    BY <2>6 DEF PublishChildFails, AfterError
  <2>7. CASE Acquire(p)
    BY <2>7 DEF Acquire
  <2>8. CASE Reload(p)
    BY <2>8 DEF Reload
  <2>9. CASE Sync(p)
    BY <2>9 DEF Sync
  <2>10. CASE ExecutionFails(p)
    BY <2>10 DEF ExecutionFails
  <2>11. CASE Await(p)
    BY <2>11 DEF Await
  <2>12. CASE AwaitFails(p)
    BY <2>12 DEF AwaitFails
  <2>13. CASE Consume(p)
    BY <2>13 DEF Consume
  <2>14. CASE ConsumeFails(p)
    BY <2>14 DEF ConsumeFails
  <2>15. CASE Cleanup(p)
    BY <2>15 DEF Cleanup
  <2>16. CASE CleanupFails(p)
    BY <2>16 DEF CleanupFails
  <2>17. CASE Unlock(p)
    BY <2>17 DEF Unlock, AfterUnlock
  <2> QED
    BY <2>1, <2>2, <2>3, <2>4, <2>5, <2>6, <2>7, <2>8, <2>9, <2>10, <2>11,
       <2>12, <2>13, <2>14, <2>15, <2>16, <2>17
<1> QED
  BY <1>2, <1>3, <1>4, <1>5 DEF OwnerMoves, Modest

LEMMA OwnerWithRight ==
  ASSUME TypesOK, NEW p \in Sessions, RoleOf(p), p \notin Children, OneRight(Inv(p)),
         Hosted(Inv(p)),
         \/ Preview(p) \/ Fails(p) \/ ChooseUi(p) \/ PublishBootstrapFails(p)
         \/ Abandon(p) \/ PublishChildFails(p) \/ Acquire(p) \/ Reload(p)
         \/ Sync(p) \/ ExecutionFails(p)
  PROVE  Hosted(Inv(p))'
<1>1. Inv(p) \in Invocations /\ p \in OwnersOf(Inv(p))
  BY Kin, OwnersAreNotChildren
<1>2. OwnerMoves(p, Inv(p)) /\ pc'[p] # "spawn"
  BY AtWork
<1>3. Right(p)
  <2>1. pc[p] \in Entitled
    BY DEF Entitled, Preview, Fails, ChooseUi, PublishBootstrapFails, Abandon,
           PublishChildFails, Acquire, Reload, Sync, ExecutionFails
  <2> QED
    BY <2>1 DEF Right
<1> QED
  BY <1>1, <1>2, <1>3, RightKeeps

LEMMA OwnerPublishes ==
  ASSUME TypesOK, NEW p \in Sessions, p \notin Children, OneRight(Inv(p)), Hosted(Inv(p)),
         PublishChild(p) \/ Load(p)
  PROVE  Hosted(Inv(p))'
<1> DEFINE i == Inv(p)
<1>1. i \in Invocations /\ p \in OwnersOf(i) /\ p \in Procs
  BY Kin, Places, OwnersAreNotChildren
<1>2. /\ pc[p] \in {"host", "load"} /\ pc'[p] \in {"spawn", "unlock"}
      /\ \A q \in Procs : q # p => pc'[q] = pc[q]
  BY <1>1 DEF PublishChild, Load, TypesOK, FlowTypeOK, Goes
<1>3. /\ session'[i].boot = session[i].boot /\ ui' = ui /\ faulted' = faulted
      /\ pc'[p] = "spawn" => session'[i].dir
  <2>1. CASE PublishChild(p)
    <3>1. session'[i].boot = session[i].boot /\ session'[i].dir
      BY <1>1, <2>1 DEF PublishChild, TypesOK, HostTypeOK
    <3> QED
      BY <2>1, <3>1 DEF PublishChild, failing
  <2>2. CASE Load(p)
    BY <1>1, <2>2 DEF Load, TypesOK, FlowTypeOK, Goes, hosting, failing
  <2> QED
    BY <2>1, <2>2
<1>4. BootRecord(i)' => BootRecord(i)
  <2>1. <<i, "boot">> \in Procs
    BY <1>1, Family DEF Mine, Resumed, BootsOf
  <2>2. pc'[<<i, "boot">>] # "off" => pc[<<i, "boot">>] # "off"
    BY <1>2, <2>1
  <2> QED
    BY <1>3, <2>2 DEF BootRecord
<1>5. OwnerMoves(p, i)
  BY <1>2, <1>3, <1>4 DEF OwnerMoves, Idle
<1>6. Right(p)
  BY <1>2 DEF Right, Entitled
<1> QED
  BY <1>1, <1>3, <1>5, <1>6, RightKeeps

LEMMA OwnerAfterwards ==
  ASSUME TypesOK, NEW p \in Sessions, RoleOf(p), p \notin Children, Hosted(Inv(p)),
         \/ Await(p) \/ AwaitFails(p) \/ Consume(p) \/ ConsumeFails(p)
         \/ Cleanup(p) \/ CleanupFails(p) \/ Unlock(p)
  PROVE  Hosted(Inv(p))'
<1> DEFINE i == Inv(p)
<1>1. i \in Invocations /\ p \in OwnersOf(i) /\ p \in Procs
  BY Kin, Places, OwnersAreNotChildren
<1>2. OwnerMoves(p, i) /\ pc'[p] # "spawn"
  BY AtWork
<1>3. TornDown(i) => TornDown(i)'
  <2>1. mode' = mode
    BY DEF hosting, Await, AwaitFails, Consume, ConsumeFails, Cleanup, CleanupFails, Unlock
  <2> QED
    BY <1>1, <1>2, <2>1, HitGrows DEF TornDown, OwnerMoves
<1>4. ASSUME Live(ChildOf(i)), Guarded(i) PROVE TornDown(i)' \/ Guarded(i)'
  <2>1. \A q \in OwnersOf(i) : q # p => pc'[q] \in Idle
    BY <1>1, <1>2, OwnerStays DEF Hosted
  <2>2. ~(Await(p) \/ Consume(p) \/ ConsumeFails(p) \/ Unlock(p))
    <3>1. ui[i] # "closed"
      BY <1>4 DEF Hosted, UiFollows
    <3>2. pc[p] # "consume" /\ pc[p] # "unlock"
      BY <1>1, <1>4 DEF Guarded
    <3> QED
      BY <3>1, <3>2 DEF Await, Consume, ConsumeFails, Unlock
  <2>3. CASE AwaitFails(p)
    <3>1. "await" \in Hit(i)' /\ mode' = mode /\ session' = session /\ pc'[p] = "cleanup"
      BY <1>1, <2>3, HitNow DEF AwaitFails, hosting, Goes, TypesOK, FlowTypeOK
    <3>2. CASE mode[i] = "popup"
      BY <3>1, <3>2 DEF TornDown
    <3>3. CASE mode[i] = "split"
      <4>1. Guarded(i)'
        BY <1>4, <2>1, <3>1, <3>3 DEF Guarded, Idle
      <4> QED
        BY <4>1
    <3> QED
      BY <1>1, <3>2, <3>3 DEF TypesOK, HostTypeOK
  <2>4. CASE Cleanup(p) \/ CleanupFails(p)
    <3>1. pc[p] = "cleanup" /\ session[i].preserve
      BY <1>1, <1>4, <2>4 DEF Cleanup, CleanupFails, Guarded
    <3>2. session' = session /\ mode' = mode /\ pc'[p] = "ended"
      BY <1>1, <2>4, <3>1 DEF Cleanup, CleanupFails, hosting, Goes, TypesOK, FlowTypeOK
    <3> QED
      BY <1>4, <2>1, <3>2 DEF Guarded, Idle
  <2> QED
    BY <2>2, <2>3, <2>4
<1> QED
  BY <1>1, <1>2, <1>3, <1>4, AfterwardsKeeps

(* The child starts in a directory that is there, and a split preserves it.  *)
LEMMA SpawnKeepsDirectory ==
  ASSUME TypesOK, NEW p \in Sessions, p \notin Children, OneRight(Inv(p)), Hosted(Inv(p)),
         Spawn(p)
  PROVE  Hosted(Inv(p))'
<1> DEFINE i == Inv(p)
<1>1. i \in Invocations /\ p \in OwnersOf(i) /\ p \in Procs /\ Child(p) = ChildOf(i)
  BY Kin, Places, OwnersAreNotChildren DEF Child, ChildOf
<1>2. /\ pc[p] = "spawn" /\ pc'[p] = "await" /\ pc'[ChildOf(i)] = "claim"
      /\ \A q \in OwnersOf(i) : q # p => pc'[q] = pc[q]
  BY <1>1, Owners DEF Spawn, Launched, TypesOK, FlowTypeOK
<1>3. /\ session'[i].boot = session[i].boot /\ session'[i].dir = session[i].dir
      /\ session'[i].preserve = (mode[i] = "split") /\ ui'[i] = "open" /\ mode' = mode
  BY <1>1 DEF Spawn, Launched, TypesOK, HostTypeOK
<1>4. \A q \in OwnersOf(i) : q # p => pc'[q] \in Idle
  BY <1>1, <1>2, AtWorkAlone DEF Hosted, Idle
<1>5. OwnerAlone(i)'
  <2>1. \A q \in OwnersOf(i) : pc'[q] = "off" <=> pc[q] = "off"
    BY <1>2
  <2>2. \A q \in OwnersOf(i) : pc'[q] \notin {"ended", "crashed"} <=> pc[q] \notin {"ended", "crashed"}
    BY <1>2
  <2>3. (NoBoot(i)' <=> NoBoot(i)) /\ (BootRecord(i)' => BootRecord(i))
    BY <1>3, <2>1 DEF NoBoot, BootRecord, OwnersOf, BootsOf
  <2>4. \A q \in BootsOf(i) : pc'[q] \notin Idle => q = p /\ pc[q] \notin Idle
    BY <1>2, <1>4 DEF OwnersOf, Idle
  <2> QED
    BY <1>4, <2>2, <2>3, <2>4 DEF Hosted, OwnerAlone, OwnersOf
<1>6. UiFollows(i)' /\ SpawnDir(i)'
  BY <1>2, <1>3, <1>4 DEF UiFollows, SpawnDir, Idle
<1>7. session[i].dir
  BY <1>1, <1>2 DEF Hosted, SpawnDir
<1>8. Guarded(i)'
  BY <1>2, <1>3, <1>4, <1>7 DEF Guarded, Idle
<1> QED
  BY <1>5, <1>6, <1>8 DEF Hosted, Kept

LEMMA SpawnFailsKeepsDirectory ==
  ASSUME TypesOK, NEW p \in Sessions, p \notin Children, OneRight(Inv(p)), Hosted(Inv(p)),
         SpawnFails(p)
  PROVE  Misled(Inv(p))' \/ Hosted(Inv(p))'
<1>1. Inv(p) \in Invocations /\ p \in OwnersOf(Inv(p)) /\ p \in Procs
  BY Kin, Places, OwnersAreNotChildren
<1>2. CASE Fault(p, "unacknowledged")
  BY <1>2, HitNow DEF Misled
<1>3. CASE ~Fault(p, "unacknowledged")
  <2>1. /\ Goes(p, "cleanup") /\ ui' = ui /\ faulted \subseteq faulted' /\ session' = session
        /\ pc[p] = "spawn"
    BY <1>3 DEF SpawnFails, Fault
  <2>2. pc'[p] = "cleanup" /\ \A q \in Procs : q # p => pc'[q] = pc[q]
    BY <1>1, <2>1, GoesOn DEF TypesOK
  <2>3. BootRecord(Inv(p))' => BootRecord(Inv(p))
    BY <1>1, <2>1, <2>2, RecordsStay, UnlessSessionChanges
  <2>4. OwnerMoves(p, Inv(p)) /\ Right(p)
    BY <2>1, <2>2, <2>3 DEF OwnerMoves, Idle, Right, Entitled
  <2> QED
    BY <1>1, <2>2, <2>4, RightKeeps
<1> QED
  BY <1>2, <1>3

LEMMA DeferKeepsDirectory ==
  ASSUME TypesOK, NEW p \in Sessions, OneRight(Inv(p)), Hosted(Inv(p)),
         Defer(p) \/ DeferFails(p)
  PROVE  Misled(Inv(p))' \/ Hosted(Inv(p))'
<1> DEFINE i == Inv(p)
           boot == <<i, "boot">>
<1>1. /\ i \in Invocations /\ p = <<i, "parent">> /\ p \in OwnersOf(i) /\ p \in Procs
      /\ pc[p] = "defer" /\ Right(p) /\ p \notin BootsOf(i)
  BY Kin, Places, OwnersAreNotChildren, Family DEF Defer, DeferFails, Right, Entitled
<1>2. NoBoot(i) /\ NoChild(i)
  BY <1>1 DEF OneRight, ParentAlone
<1>3. CASE Defer(p)
  <2>1. boot \in BootsOf(i) /\ boot \in Procs /\ ChildOf(i) # boot /\ ChildOf(i) # p
    BY <1>1, Family, Owners DEF BootsOf, ChildOf, Mine, Resumed
  <2>2. /\ pc'[p] = "ended" /\ pc'[boot] = "claim" /\ ui' = ui
        /\ \A q \in Procs : q # p /\ q # boot => pc'[q] = pc[q]
    BY <1>1, <1>3, <2>1 DEF Defer, TypesOK, FlowTypeOK
  <2>3. \A q \in BootsOf(i) : pc'[q] \in {"off", "claim"}
    BY <1>1, <1>2, <2>2, Owners DEF NoBoot, OwnersOf
  <2>4. pc'[ChildOf(i)] = pc[ChildOf(i)] /\ pc[ChildOf(i)] = "off"
    BY <1>1, <1>2, <2>1, <2>2, Owners DEF NoChild
  <2>5. OwnerAlone(i)' /\ SpawnDir(i)'
    BY <1>1, <2>2, <2>3 DEF OwnerAlone, SpawnDir, OwnersOf, Idle
  <2>6. UiFollows(i)' /\ Kept(i)'
    BY <2>2, <2>4 DEF Hosted, UiFollows, Kept, Live
  <2> QED
    BY <2>5, <2>6 DEF Hosted
<1>4. CASE DeferFails(p) /\ Fault(p, "unacknowledged")
  BY <1>4, HitNow DEF Misled
<1>5. CASE DeferFails(p) /\ ~Fault(p, "unacknowledged")
  <2>1. Goes(p, "abandon") /\ ui' = ui /\ faulted \subseteq faulted'
    BY <1>5 DEF DeferFails, Fault
  <2>2. pc'[p] = "abandon" /\ \A q \in Procs : q # p => pc'[q] = pc[q]
    BY <1>1, <2>1, GoesOn DEF TypesOK
  <2>3. boot \in BootsOf(i) /\ pc'[boot] = "off"
    BY <1>1, <1>2, <2>2, Owners DEF NoBoot, OwnersOf, BootsOf
  <2>4. OwnerMoves(p, i)
    BY <1>1, <2>1, <2>2, <2>3 DEF OwnerMoves, Idle, BootRecord
  <2> QED
    BY <1>1, <2>2, <2>4, RightKeeps
<1> QED
  BY <1>3, <1>4, <1>5

(* A bootstrap that claims a record starts before there is a child.          *)
LEMMA ClaimKeepsDirectory ==
  ASSUME TypesOK, NEW p \in Sessions, p \notin Children, OneRight(Inv(p)), Hosted(Inv(p)),
         Relaunched(Inv(p)), Claim(p) \/ ClaimFails(p)
  PROVE  Hosted(Inv(p))'
<1> DEFINE i == Inv(p)
<1>1. /\ i \in Invocations /\ p \in BootsOf(i) /\ p \in OwnersOf(i) /\ p \in Procs /\ p \in Boots
      /\ p # <<i, "parent">> /\ pc[p] = "claim"
  <2>1. p \in Boots /\ pc[p] = "claim"
    BY DEF Claim, ClaimFails
  <2>2. i \in Invocations /\ p \in BootsOf(i) /\ p \in OwnersOf(i) /\ p \in Procs
    BY <2>1, Kin, Places, OwnersAreNotChildren
  <2>3. p # <<i, "parent">>
    BY <2>2, Family DEF Resumed
  <2> QED
    BY <2>1, <2>2, <2>3
<1>2. /\ pc'[p] \in {"preview", "ended"}
      /\ \A q \in Procs : q # p => pc'[q] = pc[q]
  BY <1>1, GoesOn DEF Claim, ClaimFails, TypesOK
<1>3. /\ session'[i].dir = session[i].dir /\ session'[i].preserve = session[i].preserve
      /\ session'[i].boot => session[i].boot
  BY <1>1 DEF Claim, ClaimFails, TakeRecord, TypesOK, HostTypeOK
<1>4. mode' = mode /\ ui' = ui /\ faulted \subseteq faulted'
  BY DEF Claim, ClaimFails, Fault, failing
<1>5. pc'[p] = "preview" => BootRecord(i) /\ ~session'[i].boot
  <2>1. CASE Claim(p)
    <3>1. session[i].boot /\ ~session'[i].boot
      BY <1>1, <2>1 DEF Claim, Record, TakeRecord, TypesOK, HostTypeOK
    <3>2. pc[<<i, "boot">>] # "off"
      BY <1>1 DEF Relaunched, BootsOf
    <3> QED
      BY <3>1, <3>2 DEF BootRecord
  <2>2. CASE ClaimFails(p)
    BY <1>1, <2>2, GoesOn DEF ClaimFails, TypesOK
  <2> QED
    BY <2>1, <2>2
<1>6. pc'[ChildOf(i)] = pc[ChildOf(i)] /\ pc'[<<i, "parent">>] = pc[<<i, "parent">>]
  BY <1>1, <1>2, Owners DEF OwnersOf
<1>7. \A q \in BootsOf(i) : q # p => pc'[q] = pc[q]
  BY <1>1, <1>2, Owners DEF OwnersOf
<1>8. OwnerAlone(i)'
  <2>1. pc'[<<i, "parent">>] \in {"ended", "crashed"}
    BY <1>1, <1>6 DEF Hosted, OwnerAlone, NoBoot
  <2>2. <<i, "boot">> \in Procs /\ (BootRecord(i)' => BootRecord(i))
    BY <1>1, <1>2, <1>3, Family DEF BootRecord, Mine, Resumed, BootsOf
  <2>3. CASE pc'[p] = "preview"
    <3>1. \A q \in BootsOf(i) : pc[q] \in Idle
      BY <1>5, <2>3 DEF Hosted, OwnerAlone
    <3>2. ~BootRecord(i)' /\ \A q \in BootsOf(i) : q # p => pc'[q] \in Idle
      BY <1>5, <1>7, <2>3, <3>1 DEF BootRecord
    <3> QED
      BY <2>1, <3>2 DEF OwnerAlone
  <2>4. CASE pc'[p] = "ended"
    <3>1. \A q \in BootsOf(i) : pc'[q] \notin Idle => q # p /\ pc[q] \notin Idle
      BY <1>7, <2>4 DEF Idle
    <3>2. \A q \in BootsOf(i) : pc[q] \in Idle => pc'[q] \in Idle
      BY <1>7, <2>4 DEF Idle
    <3> QED
      BY <2>1, <2>2, <3>1, <3>2 DEF Hosted, OwnerAlone
  <2> QED
    BY <1>2, <2>3, <2>4
<1>9. UiFollows(i)'
  BY <1>4, <1>6 DEF Hosted, UiFollows, Live
<1>10. \A q \in OwnersOf(i) : pc'[q] = pc[q] \/ pc'[q] \in {"preview", "ended"}
  BY <1>1, <1>2, Owners
<1>11. SpawnDir(i)' /\ Kept(i)'
  BY <1>1, <1>3, <1>4, <1>6, <1>10, HitGrows DEF Hosted, SpawnDir, Kept, TornDown, Guarded, Live
<1> QED
  BY <1>8, <1>9, <1>11 DEF Hosted

-----------------------------------------------------------------------------
(* Crashes, resume commands that run again, and new invocations.             *)
LEMMA RelaunchKeepsDirectory ==
  ASSUME TypesOK, NEW i \in Invocations, NEW role \in {"boot", "child"}, Hosted(i),
         Relaunched(i), Relaunch(i, role)
  PROVE  Hosted(i)'
<1> DEFINE again == <<i, IF role = "boot" THEN "boot again" ELSE "child again">>
<1>1. /\ pc[<<i, role>>] # "off" /\ pc[again] = "off" /\ Goes(again, "claim")
      /\ session' = session /\ mode' = mode /\ ui' = ui /\ faulted \subseteq faulted'
  BY DEF Relaunch, Fault, locking, hosting
<1>2. again \in Resumed(i) /\ again \in Procs /\ again # ChildOf(i) /\ again # <<i, "boot">>
      /\ again # <<i, "parent">>
  <2>1. again \in Resumed(i)
    BY DEF Resumed, BootsOf, ChildrenOf
  <2>2. again # ChildOf(i) /\ again # <<i, "boot">> /\ again # <<i, "parent">>
    BY DEF ChildOf
  <2> QED
    BY <2>1, <2>2, Family DEF Mine
<1>3. pc'[again] = "claim" /\ \A q \in Procs : q # again => pc'[q] = pc[q]
  BY <1>1, <1>2, GoesOn DEF TypesOK
<1>4. /\ pc'[ChildOf(i)] = pc[ChildOf(i)] /\ pc'[<<i, "parent">>] = pc[<<i, "parent">>]
      /\ pc'[<<i, "boot">>] = pc[<<i, "boot">>]
  BY <1>2, <1>3, Owners, Family DEF Mine, Resumed, BootsOf
<1>5. \A q \in OwnersOf(i) : pc'[q] = pc[q] \/ pc'[q] = "claim"
  BY <1>3, Owners
<1>6. OwnerAlone(i)'
  <2>1. pc'[<<i, "parent">>] \notin {"ended", "crashed"} => NoBoot(i)'
    <3>1. CASE NoBoot(i)
      <4>1. role = "child" /\ again \notin BootsOf(i)
        BY <1>1, <3>1 DEF NoBoot, BootsOf
      <4>2. \A q \in BootsOf(i) : q \in Procs
        BY Owners DEF OwnersOf
      <4> QED
        BY <1>3, <3>1, <4>1, <4>2 DEF NoBoot
    <3>2. CASE ~NoBoot(i)
      BY <1>4, <3>2 DEF Hosted, OwnerAlone
    <3> QED
      BY <3>1, <3>2
  <2>2. \A q \in BootsOf(i) : pc'[q] \notin Idle => pc[q] \notin Idle
    BY <1>5 DEF OwnersOf, Idle
  <2>3. \A q \in BootsOf(i) : pc[q] \in Idle => pc'[q] \in Idle
    BY <1>5 DEF OwnersOf, Idle
  <2>4. BootRecord(i)' => BootRecord(i)
    BY <1>1, <1>4 DEF BootRecord
  <2> QED
    BY <2>1, <2>2, <2>3, <2>4 DEF Hosted, OwnerAlone
<1>7. UiFollows(i)'
  BY <1>1, <1>4 DEF Hosted, UiFollows, Live
<1>8. SpawnDir(i)' /\ Kept(i)'
  BY <1>1, <1>4, <1>5, HitGrows DEF Hosted, SpawnDir, Kept, TornDown, Guarded, Live
<1> QED
  BY <1>6, <1>7, <1>8 DEF Hosted

LEMMA CrashKeepsDirectory ==
  ASSUME TypesOK, NEW p \in Sessions, Hosted(Inv(p)), Crash(p) PROVE Hosted(Inv(p))'
<1> DEFINE i == Inv(p)
<1>1. /\ pc[p] \notin {"off", "ended", "crashed"} /\ Goes(p, "crashed")
      /\ session' = session /\ mode' = mode /\ ui' = ui /\ faulted \subseteq faulted'
      /\ i \in Invocations /\ p \in Procs
  BY Kin, Places DEF Crash, Fault, Live, hosting
<1>2. pc'[p] = "crashed" /\ \A q \in Procs : q # p => pc'[q] = pc[q]
  BY <1>1, GoesOn DEF TypesOK
<1>3. \A q \in OwnersOf(i) : pc'[q] = pc[q] \/ (pc'[q] = "crashed" /\ pc[q] \notin {"off", "ended"})
  BY <1>1, <1>2, Owners
<1>4. /\ pc'[ChildOf(i)] = "off" <=> pc[ChildOf(i)] = "off"
      /\ Live(ChildOf(i))' => Live(ChildOf(i))
  BY <1>1, <1>2, Owners DEF Live
<1>5. OwnerAlone(i)'
  <2>1. /\ pc'[<<i, "parent">>] \notin {"ended", "crashed"} => pc[<<i, "parent">>] \notin {"ended", "crashed"}
        /\ NoBoot(i) => NoBoot(i)'
    <3>1. \A q \in OwnersOf(i) : pc[q] \in {"ended", "crashed"} => pc'[q] \in {"ended", "crashed"}
      BY <1>3
    <3>2. <<i, "parent">> \in OwnersOf(i) /\ \A q \in BootsOf(i) : q \in OwnersOf(i)
      BY DEF OwnersOf
    <3>3. \A q \in OwnersOf(i) : pc[q] = "off" => pc'[q] = "off"
      BY <1>3
    <3> QED
      BY <3>1, <3>2, <3>3 DEF NoBoot
  <2>2. \A q \in BootsOf(i) : pc[q] \in Idle => pc'[q] \in Idle
    BY <1>3 DEF OwnersOf, Idle
  <2>3. BootRecord(i)' => BootRecord(i)
    BY <1>1, <1>3 DEF BootRecord, OwnersOf, BootsOf
  <2> QED
    <3>1. pc'[<<i, "parent">>] \notin {"ended", "crashed"} => NoBoot(i)'
      BY <2>1 DEF Hosted, OwnerAlone
    <3>2. \A q \in BootsOf(i) : pc'[q] \notin Idle =>
             ~BootRecord(i)' /\ \A r \in BootsOf(i) : r # q => pc'[r] \in Idle
      <4>1. TAKE q \in BootsOf(i)
      <4>2. HAVE pc'[q] \notin Idle
      <4>3. pc[q] \notin Idle
        BY <2>2, <4>2
      <4>4. ~BootRecord(i) /\ \A r \in BootsOf(i) : r # q => pc[r] \in Idle
        BY <4>3 DEF Hosted, OwnerAlone
      <4> QED
        BY <2>2, <2>3, <4>4
    <3> QED
      BY <3>1, <3>2 DEF OwnerAlone
<1>6. UiFollows(i)'
  BY <1>1, <1>4 DEF Hosted, UiFollows
<1>7. SpawnDir(i)' /\ Kept(i)'
  BY <1>1, <1>3, <1>4, HitGrows DEF Hosted, SpawnDir, Kept, TornDown, Guarded
<1> QED
  BY <1>5, <1>6, <1>7 DEF Hosted

LEMMA InvokeKeepsDirectory ==
  ASSUME TypesOK, NEW i \in Invocations, Hosted(i), Invoke(i) PROVE Hosted(i)'
<1> DEFINE p == <<i, "parent">>
<1>1. p \in OwnersOf(i) /\ p \in Procs /\ p # ChildOf(i) /\ pc[p] = "off" /\ p \notin BootsOf(i)
  <2>1. p \in OwnersOf(i)
    BY DEF OwnersOf
  <2> QED
    BY <2>1, Owners, Family DEF Invoke, Resumed
<1>2. /\ pc'[p] = "preview" /\ \A q \in Procs : q # p => pc'[q] = pc[q]
      /\ session' = session /\ mode' = mode /\ ui' = ui /\ faulted \subseteq faulted'
  BY <1>1, GoesOn DEF Invoke, TypesOK, hosting, failing
<1>3. NoBoot(i)
  BY <1>1 DEF Hosted, OwnerAlone
<1>4. \A q \in BootsOf(i) : pc'[q] = "off"
  BY <1>1, <1>2, <1>3, Owners DEF NoBoot, OwnersOf
<1>5. pc'[ChildOf(i)] = pc[ChildOf(i)]
  BY <1>1, <1>2, Owners
<1>6. OwnerAlone(i)' /\ SpawnDir(i)' /\ \A q \in OwnersOf(i) : pc'[q] \notin {"consume", "unlock", "cleanup"}
  BY <1>2, <1>4 DEF OwnerAlone, SpawnDir, NoBoot, Idle, OwnersOf
<1>7. UiFollows(i)'
  BY <1>2, <1>5 DEF Hosted, UiFollows, Live
<1>8. Kept(i)'
  BY <1>2, <1>5, <1>6, HitGrows DEF Hosted, Kept, TornDown, Guarded, Live
<1> QED
  BY <1>6, <1>7, <1>8 DEF Hosted

LEMMA UiClosesKeepsDirectory ==
  ASSUME TypesOK, NEW i \in Invocations, Hosted(i), UiCloses(i) PROVE Hosted(i)'
<1>1. pc' = pc /\ session' = session /\ mode' = mode /\ faulted' = faulted
      /\ ~Live(ChildOf(i)) /\ ui[i] # "none"
  BY DEF UiCloses, failing, ChildOf
<1>2. OwnerAlone(i)' /\ SpawnDir(i)'
  BY <1>1 DEF Hosted, OwnerAlone, SpawnDir, NoBoot, BootRecord
<1>3. UiFollows(i)' /\ Kept(i)'
  BY <1>1 DEF Hosted, UiFollows, Kept, Live
<1> QED
  BY <1>2, <1>3 DEF Hosted

-----------------------------------------------------------------------------
(* All steps together.                                                       *)
LEMMA FaultsStay == [Next]_vars => faulted \subseteq faulted'
<1> SUFFICES ASSUME [Next]_vars PROVE faulted \subseteq faulted'
  OBVIOUS
<1> USE DEF failing, Fault
<1>1. ASSUME NEW p \in Procs, Step(p) PROVE faulted \subseteq faulted'
  <2>1. CASE Preview(p)
    BY <2>1 DEF Preview
  <2>2. CASE Fails(p)
    BY <2>2 DEF Fails
  <2>3. CASE ChooseUi(p)
    BY <2>3 DEF ChooseUi
  <2>4. CASE Defer(p)
    BY <2>4 DEF Defer
  <2>5. CASE DeferFails(p)
    BY <2>5 DEF DeferFails
  <2>6. CASE PublishBootstrapFails(p)
    BY <2>6 DEF PublishBootstrapFails
  <2>7. CASE Abandon(p)
    BY <2>7 DEF Abandon
  <2>8. CASE PublishChild(p)
    BY <2>8 DEF PublishChild
  <2>9. CASE PublishChildFails(p)
    BY <2>9 DEF PublishChildFails
  <2>10. CASE Spawn(p)
    BY <2>10 DEF Spawn
  <2>11. CASE SpawnFails(p)
    BY <2>11 DEF SpawnFails
  <2>12. CASE Await(p)
    BY <2>12 DEF Await
  <2>13. CASE AwaitFails(p)
    BY <2>13 DEF AwaitFails
  <2>14. CASE Consume(p)
    BY <2>14 DEF Consume
  <2>15. CASE ConsumeFails(p)
    BY <2>15 DEF ConsumeFails
  <2>16. CASE Cleanup(p)
    BY <2>16 DEF Cleanup
  <2>17. CASE CleanupFails(p)
    BY <2>17 DEF CleanupFails
  <2>18. CASE Claim(p)
    BY <2>18 DEF Claim
  <2>19. CASE ClaimFails(p)
    BY <2>19 DEF ClaimFails
  <2>20. CASE PublishResult(p)
    BY <2>20 DEF PublishResult
  <2>21. CASE PublishResultFails(p)
    BY <2>21 DEF PublishResultFails
  <2>22. CASE Acquire(p)
    BY <2>22 DEF Acquire
  <2>23. CASE Reload(p)
    BY <2>23 DEF Reload
  <2>24. CASE Sync(p)
    BY <2>24 DEF Sync
  <2>25. CASE Load(p)
    BY <2>25 DEF Load
  <2>26. CASE ExecutionFails(p)
    BY <2>26 DEF ExecutionFails
  <2>27. CASE Unlock(p)
    BY <2>27 DEF Unlock
  <2> QED
    BY <1>1, <2>1, <2>2, <2>3, <2>4, <2>5, <2>6, <2>7, <2>8, <2>9, <2>10,
       <2>11, <2>12, <2>13, <2>14, <2>15, <2>16, <2>17, <2>18, <2>19, <2>20,
       <2>21, <2>22, <2>23, <2>24, <2>25, <2>26, <2>27 DEF Step
<1>2. ASSUME NEW p \in Procs, Crash(p) PROVE faulted \subseteq faulted'
  BY <1>2 DEF Crash
<1>3. ASSUME NEW i \in Invocations, NEW role \in {"boot", "child"},
             Invoke(i) \/ UiCloses(i) \/ Relaunch(i, role)
      PROVE  faulted \subseteq faulted'
  BY <1>3 DEF Invoke, UiCloses, Relaunch
<1>4. ASSUME NEW o \in Others, TryAcquire(o) PROVE faulted \subseteq faulted'
  BY <1>4 DEF TryAcquire
<1>5. CASE EditConfig \/ UNCHANGED vars
  BY <1>5 DEF EditConfig, vars
<1> QED
  BY <1>1, <1>2, <1>3, <1>4, <1>5 DEF Next

LEMMA OwnStepHosted ==
  ASSUME TypesOK, OInv, NEW p \in Sessions, Step(p), Hosted(Inv(p)), ~Misled(Inv(p)),
         faulted \subseteq faulted'
  PROVE  Misled(Inv(p))' \/ Hosted(Inv(p))'
<1>1. p \in Procs /\ Inv(p) \in Invocations /\ RoleOf(p)
  BY Kin, Places DEF OInv, Roles
<1>2. OneRight(Inv(p)) /\ Relaunched(Inv(p))
  BY <1>1, DoubtMisleads DEF OInv
<1>3. CASE p \in Children
  BY <1>1, <1>3, ChildStep, ChildKeeps
<1>4. CASE p \notin Children
  <2>1. CASE \/ Preview(p) \/ Fails(p) \/ ChooseUi(p) \/ PublishBootstrapFails(p)
             \/ Abandon(p) \/ PublishChildFails(p) \/ Acquire(p) \/ Reload(p)
             \/ Sync(p) \/ ExecutionFails(p)
    BY <1>1, <1>2, <1>4, <2>1, OwnerWithRight
  <2>2. CASE PublishChild(p) \/ Load(p)
    BY <1>2, <1>4, <2>2, OwnerPublishes
  <2>3. CASE Spawn(p)
    BY <1>2, <1>4, <2>3, SpawnKeepsDirectory
  <2>4. CASE SpawnFails(p)
    BY <1>2, <1>4, <2>4, SpawnFailsKeepsDirectory
  <2>5. CASE Defer(p) \/ DeferFails(p)
    BY <1>2, <2>5, DeferKeepsDirectory
  <2>6. CASE Claim(p) \/ ClaimFails(p)
    BY <1>2, <1>4, <2>6, ClaimKeepsDirectory
  <2>7. CASE \/ Await(p) \/ AwaitFails(p) \/ Consume(p) \/ ConsumeFails(p)
             \/ Cleanup(p) \/ CleanupFails(p) \/ Unlock(p)
    BY <1>1, <1>4, <2>7, OwnerAfterwards
  <2>8. ~PublishResult(p) /\ ~PublishResultFails(p)
    BY <1>4 DEF PublishResult, PublishResultFails
  <2> QED
    BY <2>1, <2>2, <2>3, <2>4, <2>5, <2>6, <2>7, <2>8 DEF Step
<1> QED
  BY <1>3, <1>4

LEMMA OtherInvocations ==   \* and the steps of other commands
  ASSUME TypesOK, [Next]_vars, NEW i \in Invocations
  PROVE  \/ Aside(i)
         \/ \E p \in Sessions : Inv(p) = i /\ (Step(p) \/ Crash(p))
         \/ Invoke(i) \/ UiCloses(i) \/ \E role \in {"boot", "child"} : Relaunch(i, role)
<1>1. \A q \in Mine(i) : q \in Procs /\ q \in Sessions /\ Inv(q) = i
  BY Family
<1>2. ASSUME NEW p \in Procs, Step(p), p \in Sessions => Inv(p) # i PROVE Aside(i)
  BY <1>2, StepAside
<1>3. ASSUME NEW p \in Procs, Crash(p), p \in Sessions => Inv(p) # i PROVE Aside(i)
  <2>1. \A q \in Mine(i) : q # p
    BY <1>1, <1>3
  <2> QED
    BY <1>1, <1>3, <2>1, GoesOn DEF Crash, Aside, TypesOK, hosting
<1>4. ASSUME NEW j \in Invocations, j # i, Invoke(j) PROVE Aside(i)
  <2>1. <<j, "parent">> \in Procs /\ Inv(<<j, "parent">>) = j
    BY <1>4, Family DEF Mine
  <2>2. \A q \in Mine(i) : q # <<j, "parent">>
    BY <1>1, <1>4, <2>1
  <2> QED
    BY <1>1, <1>4, <2>1, <2>2, GoesOn DEF Invoke, Aside, TypesOK, hosting
<1>5. ASSUME NEW j \in Invocations, j # i, UiCloses(j) PROVE Aside(i)
  BY <1>5 DEF UiCloses, Aside, TypesOK, HostTypeOK
<1>6. ASSUME NEW j \in Invocations, j # i, NEW role \in {"boot", "child"}, Relaunch(j, role)
      PROVE  Aside(i)
  <2> DEFINE again == <<j, IF role = "boot" THEN "boot again" ELSE "child again">>
  <2>1. again \in Mine(j)
    BY DEF Mine, Resumed, BootsOf, ChildrenOf
  <2>2. Goes(again, "claim") /\ UNCHANGED hosting
    BY <1>6 DEF Relaunch
  <2> HIDE DEF again
  <2>3. again \in Procs /\ Inv(again) = j
    BY <2>1, <1>6, Family
  <2>4. \A q \in Mine(i) : q # again
    BY <1>1, <1>6, <2>3
  <2>5. \A q \in Procs : q # again => pc'[q] = pc[q]
    BY <2>2, <2>3, GoesOn DEF TypesOK
  <2> QED
    BY <1>1, <2>2, <2>4, <2>5 DEF Aside, hosting
<1>7. ASSUME NEW o \in Others, TryAcquire(o) PROVE Aside(i)
  <2>1. o \in Procs /\ \A q \in Mine(i) : q # o
    BY <1>1, Places, Strangers
  <2> QED
    BY <1>1, <1>7, <2>1, GoesOn DEF TryAcquire, Aside, TypesOK, hosting
<1>8. CASE EditConfig \/ UNCHANGED vars
  BY <1>8 DEF EditConfig, vars, hosting, Aside
<1> QED
  BY <1>2, <1>3, <1>4, <1>5, <1>6, <1>7, <1>8 DEF Next

LEMMA HInvNext == IInv /\ OInv /\ HInv /\ [Next]_vars => HInv'
<1> SUFFICES ASSUME IInv, OInv, HInv, [Next]_vars, NEW i \in Invocations
             PROVE  Misled(i)' \/ Hosted(i)'
  BY DEF HInv
<1>1. TypesOK
  BY TypeParts DEF IInv, TypesOK
<1>2. faulted \subseteq faulted'
  BY FaultsStay
<1>3. CASE Misled(i)
  BY <1>2, <1>3, HitGrows DEF Misled
<1>4. CASE ~Misled(i)
  <2>1. Hosted(i) /\ Relaunched(i)
    BY <1>4 DEF HInv, OInv
  <2>2. CASE Aside(i)
    BY <1>2, <2>1, <2>2, AsideKeeps
  <2>3. ASSUME NEW p \in Sessions, Inv(p) = i, Step(p) PROVE Misled(i)' \/ Hosted(i)'
    BY <1>1, <1>2, <1>4, <2>1, <2>3, OwnStepHosted
  <2>4. ASSUME NEW p \in Sessions, Inv(p) = i, Crash(p) PROVE Hosted(i)'
    BY <1>1, <2>1, <2>4, CrashKeepsDirectory
  <2>5. CASE Invoke(i)
    BY <1>1, <2>1, <2>5, InvokeKeepsDirectory
  <2>6. CASE UiCloses(i)
    BY <1>1, <2>1, <2>6, UiClosesKeepsDirectory
  <2>7. ASSUME NEW role \in {"boot", "child"}, Relaunch(i, role) PROVE Hosted(i)'
    BY <1>1, <2>1, <2>7, RelaunchKeepsDirectory
  <2> QED
    BY <1>1, <2>2, <2>3, <2>4, <2>5, <2>6, <2>7, OtherInvocations
<1> QED
  BY <1>3, <1>4

LEMMA HInvInit == Init => HInv
<1> SUFFICES ASSUME Init, NEW i \in Invocations PROVE Hosted(i)
  BY DEF HInv
<1>1. \A q \in OwnersOf(i) : pc[q] = "off"
  BY Owners DEF Init
<1>2. pc[ChildOf(i)] = "off" /\ ui[i] = "none"
  BY Owners DEF Init
<1> QED
  BY <1>1, <1>2 DEF Hosted, OwnerAlone, UiFollows, SpawnDir, Kept, NoBoot, Idle, Live, OwnersOf

(* The session directory outlives the child that works in it: its owner      *)
(* removes it after the child has ended (init_session.rs, the owner's        *)
(* cleanup), preserves that of a split it no longer watches (record.rs,      *)
(* SessionCleanup::Preserve), and no bootstrap or parent beside it removes   *)
(* it. A launch that tmux misreported and a popup torn down are exempt.      *)
THEOREM DirectoryOutlivesChild == Spec => []SessionOutlivesChild
<1>1. Init => IInv /\ OInv /\ HInv
  BY IInvInit, OInvInit, HInvInit
<1>2. IInv /\ OInv /\ HInv /\ [Next]_vars => (IInv /\ OInv /\ HInv)'
  BY IInvNext, OInvNext, HInvNext
<1>3. HInv => SessionOutlivesChild
  BY DEF HInv, Misled, Hosted, Kept, TornDown, Guarded, ChildOf, SessionOutlivesChild
<1> QED
  BY <1>1, <1>2, <1>3, PTL DEF Spec

-----------------------------------------------------------------------------
(* Removal.  A directory that is there has somebody who will remove it, or a *)
(* reason to be left behind.                                                 *)
Removes(q) ==
  IF q \in Parents THEN pc[q] \in {"abandon", "spawn", "await", "consume", "cleanup"}
  ELSE pc[q] \notin Idle \/ (pc[q] = "claim" /\ session[Inv(q)].boot)
Left(i) ==
  \/ "crash" \in Hit(i) \/ "cleanup" \in Hit(i)
  \/ \E q \in BootsOf(i) : <<q, "consume">> \in faulted
Awaited(i) == session[i].dir =>
                (\E q \in OwnersOf(i) : Removes(q)) \/ session[i].preserve \/ Left(i)
DInv       == \A i \in Invocations : Awaited(i)

LEMMA LeftGrows ==
  ASSUME NEW i \in Invocations, faulted \subseteq faulted', Left(i) PROVE Left(i)'
BY HitGrows DEF Left

(* Nobody who will remove the directory stops to be one.                     *)
LEMMA StillAwaited ==
  ASSUME NEW i \in Invocations, Awaited(i), faulted \subseteq faulted',
         session'[i].dir => session[i].dir, session'[i].preserve = session[i].preserve,
         \A q \in OwnersOf(i) : Removes(q) => Removes(q)'
  PROVE  Awaited(i)'
BY LeftGrows DEF Awaited

LEMMA SameRemoval ==
  ASSUME NEW i \in Invocations, NEW q \in OwnersOf(i), pc'[q] = pc[q],
         session'[i].boot = session[i].boot, Removes(q)
  PROVE  Removes(q)'
<1>1. Inv(q) = i
  BY Owners, Family
<1> QED
  BY <1>1 DEF Removes

LEMMA OwnerGoesOn ==
  ASSUME TypesOK, NEW p \in Sessions, RoleOf(p), p \notin Children, Awaited(Inv(p)),
         faulted \subseteq faulted',
         \/ Preview(p) \/ Fails(p) \/ ChooseUi(p) \/ PublishBootstrapFails(p)
         \/ PublishChildFails(p) \/ SpawnFails(p) \/ AwaitFails(p) \/ Consume(p)
         \/ ConsumeFails(p) \/ Acquire(p) \/ Reload(p) \/ Sync(p)
         \/ Load(p) \/ ExecutionFails(p) \/ Unlock(p)
  PROVE  Awaited(Inv(p))'
<1> DEFINE i == Inv(p)
<1>1. /\ i \in Invocations /\ p \in OwnersOf(i) /\ p \in Procs
      /\ (p \in Parents \/ p \in Boots) /\ (p \in Parents => p \notin Boots)
  BY Kin, Places, OwnersAreNotChildren
<1>2. Child(p) \notin OwnersOf(i) /\ Child(p) # p
  BY <1>1, Owners DEF Child, ChildOf
<1>3. /\ session'[i].dir = session[i].dir /\ session'[i].preserve = session[i].preserve
      /\ session'[i].boot = session[i].boot
  <2>1. CASE Consume(p) \/ ConsumeFails(p)
    BY <1>1, <2>1 DEF Consume, ConsumeFails, TypesOK, HostTypeOK
  <2>2. CASE ~(Consume(p) \/ ConsumeFails(p))
    BY <2>2 DEF hosting, Preview, Fails, ChooseUi, PublishBootstrapFails,
       PublishChildFails, SpawnFails, AwaitFails, Acquire, Reload, Sync, Load,
       ExecutionFails, Unlock
  <2> QED
    BY <2>1, <2>2
<1>4. \A q \in OwnersOf(i) : q # p => pc'[q] = pc[q]
  <2> USE <1>1, <1>2, Owners DEF TypesOK, FlowTypeOK, Goes
  <2>1. CASE Preview(p)
    BY <2>1 DEF Preview
  <2>2. CASE Fails(p)
    BY <2>2 DEF Fails
  <2>3. CASE ChooseUi(p)
    BY <2>3 DEF ChooseUi
  <2>4. CASE PublishBootstrapFails(p)
    BY <2>4 DEF PublishBootstrapFails
  <2>5. CASE PublishChildFails(p)
    BY <2>5 DEF PublishChildFails
  <2>6. CASE SpawnFails(p)
    BY <2>6 DEF SpawnFails
  <2>7. CASE AwaitFails(p)
    BY <2>7 DEF AwaitFails
  <2>8. CASE Consume(p)
    BY <2>8 DEF Consume
  <2>9. CASE ConsumeFails(p)
    BY <2>9 DEF ConsumeFails
  <2>10. CASE Acquire(p)
    BY <2>10 DEF Acquire
  <2>11. CASE Reload(p)
    BY <2>11 DEF Reload
  <2>12. CASE Sync(p)
    BY <2>12 DEF Sync
  <2>13. CASE Load(p)
    BY <2>13 DEF Load
  <2>14. CASE ExecutionFails(p)
    BY <2>14 DEF ExecutionFails
  <2>15. CASE Unlock(p)
    BY <2>15 DEF Unlock
  <2> QED
    BY <2>1, <2>2, <2>3, <2>4, <2>5, <2>6, <2>7, <2>8, <2>9, <2>10, <2>11,
       <2>12, <2>13, <2>14, <2>15
<1>5. Removes(p) => Removes(p)'
  <2> USE <1>1, <1>2, Kinds DEF Removes, Idle, RoleOf, Parting, TypesOK, FlowTypeOK, Goes
  <2>1. CASE Preview(p)
    BY <2>1 DEF Preview
  <2>2. CASE Fails(p)
    BY <2>2 DEF Fails, AfterError
  <2>3. CASE ChooseUi(p)
    BY <2>3 DEF ChooseUi
  <2>4. CASE PublishBootstrapFails(p)
    BY <2>4 DEF PublishBootstrapFails
  <2>5. CASE PublishChildFails(p)
    BY <2>5 DEF PublishChildFails, AfterError
  <2>6. CASE SpawnFails(p)
    BY <2>6 DEF SpawnFails
  <2>7. CASE AwaitFails(p)
    BY <2>7 DEF AwaitFails
  <2>8. CASE Consume(p)
    BY <2>8 DEF Consume
  <2>9. CASE ConsumeFails(p)
    BY <2>9 DEF ConsumeFails
  <2>10. CASE Acquire(p)
    BY <2>10 DEF Acquire
  <2>11. CASE Reload(p)
    BY <2>11 DEF Reload
  <2>12. CASE Sync(p)
    BY <2>12 DEF Sync
  <2>13. CASE Load(p)
    BY <2>13 DEF Load
  <2>14. CASE ExecutionFails(p)
    BY <2>14 DEF ExecutionFails
  <2>15. CASE Unlock(p)
    BY <2>15 DEF Unlock, AfterUnlock
  <2> QED
    BY <2>1, <2>2, <2>3, <2>4, <2>5, <2>6, <2>7, <2>8, <2>9, <2>10, <2>11,
       <2>12, <2>13, <2>14, <2>15
<1>6. ASSUME NEW q \in OwnersOf(i), Removes(q) PROVE Removes(q)'
  <2>1. CASE q = p
    BY <1>5, <1>6, <2>1
  <2>2. CASE q # p
    BY <1>1, <1>3, <1>4, <1>6, <2>2, SameRemoval
  <2> QED
    BY <2>1, <2>2
<1> QED
  BY <1>1, <1>3, <1>6, StillAwaited

(* Whoever publishes, starts or abandons something removes it himself.       *)
LEMMA OwnerTakesCharge ==
  ASSUME TypesOK, NEW p \in Sessions, RoleOf(p), p \notin Children,
         PublishChild(p) \/ Spawn(p) \/ Await(p) \/ DeferFails(p) \/ Defer(p)
  PROVE  Awaited(Inv(p))'
<1> DEFINE i == Inv(p)
<1>1. /\ i \in Invocations /\ p \in OwnersOf(i) /\ p \in Procs
      /\ p \in Parents => p = <<i, "parent">> /\ p \notin Boots
      /\ Child(p) \in Procs /\ Child(p) # p
  BY Kin, Places, OwnersAreNotChildren, Owners DEF Child, ChildOf
<1>2. CASE PublishChild(p) \/ Spawn(p) \/ Await(p)
  <2>1. pc'[p] \in {"spawn", "await", "consume"}
    BY <1>1, <1>2 DEF PublishChild, Spawn, Launched, Await, Goes, TypesOK, FlowTypeOK
  <2>2. Removes(p)'
    BY <2>1 DEF Removes, Idle
  <2> QED
    BY <1>1, <2>2 DEF Awaited
<1>3. <<i, "boot">> \in OwnersOf(i) /\ <<i, "boot">> \in Procs /\ <<i, "boot">> \notin Parents
      /\ Inv(<<i, "boot">>) = i
  BY <1>1, Family DEF OwnersOf, BootsOf, Mine, Resumed
<1>4. CASE DeferFails(p)
  <2>1. p \in Parents /\ p # <<i, "boot">>
    BY <1>3, <1>4 DEF DeferFails
  <2>2. pc'[p] = "abandon"
    BY <1>1, <1>3, <1>4, <2>1 DEF DeferFails, Goes, TypesOK, FlowTypeOK
  <2>3. Removes(p)'
    BY <2>1, <2>2 DEF Removes
  <2> QED
    BY <1>1, <2>3 DEF Awaited
<1>5. CASE Defer(p)
  <2>1. pc'[<<i, "boot">>] = "claim" /\ session'[i].boot
    BY <1>1, <1>3, <1>5 DEF Defer, NoSession, TypesOK, FlowTypeOK, HostTypeOK
  <2>2. Removes(<<i, "boot">>)'
    BY <1>3, <2>1 DEF Removes
  <2> QED
    BY <1>1, <1>3, <2>2 DEF Awaited
<1> QED
  BY <1>2, <1>4, <1>5

(* A removal that fails, and a directory that is kept, are on record.        *)
LEMMA OwnerRemoves ==
  ASSUME TypesOK, NEW p \in Sessions, p \notin Children, Awaited(Inv(p)),
         Abandon(p) \/ Cleanup(p) \/ CleanupFails(p)
  PROVE  Awaited(Inv(p))'
<1> DEFINE i == Inv(p)
<1>1. i \in Invocations
  BY Kin
<1>2. CASE Remove(i)
  BY <1>1, <1>2 DEF Remove, NoSession, Awaited, TypesOK, HostTypeOK
<1>3. CASE Fault(p, "cleanup")
  BY <1>1, <1>3, HitNow DEF Awaited, Left
<1>4. CASE session[i].preserve /\ session' = session
  BY <1>4 DEF Awaited
<1> QED
  BY <1>2, <1>3, <1>4 DEF Abandon, Cleanup, CleanupFails

(* A bootstrap that has claimed its record takes over from its parent.       *)
LEMMA BootTakesOver ==
  ASSUME TypesOK, NEW p \in Sessions, p \notin Children, Awaited(Inv(p)),
         faulted \subseteq faulted', Claim(p) \/ ClaimFails(p)
  PROVE  Awaited(Inv(p))'
<1> DEFINE i == Inv(p)
<1>1. /\ i \in Invocations /\ p \in OwnersOf(i) /\ p \in Procs /\ pc[p] = "claim"
      /\ p \in Boots /\ p \in BootsOf(i) /\ p \notin Parents
  BY Kin, Places, OwnersAreNotChildren, Kinds DEF Claim, ClaimFails
<1>2. CASE Claim(p)
  <2>1. pc'[p] = "preview"
    BY <1>1, <1>2, GoesOn DEF Claim, TypesOK
  <2>2. Removes(p)'
    BY <1>1, <2>1 DEF Removes, Idle
  <2> QED
    BY <1>1, <2>2 DEF Awaited
<1>3. CASE ClaimFails(p) /\ Fault(p, "consume")
  BY <1>1, <1>3 DEF Fault, Awaited, Left
<1>4. CASE ClaimFails(p) /\ ~Fault(p, "consume")
  <2>1. ~session[i].boot /\ session' = session
    BY <1>1, <1>4 DEF ClaimFails, Record
  <2>2. \A q \in Procs : q # p => pc'[q] = pc[q]
    BY <1>1, <1>4, GoesOn DEF ClaimFails, TypesOK
  <2>3. ASSUME NEW q \in OwnersOf(i), Removes(q) PROVE Removes(q)'
    <3>1. q # p
      BY <1>1, <2>1, <2>3 DEF Removes, Idle
    <3> QED
      BY <1>1, <2>1, <2>2, <2>3, <3>1, SameRemoval, Owners
  <2> QED
    BY <1>1, <2>1, <2>3, StillAwaited
<1> QED
  BY <1>2, <1>3, <1>4

(* Whoever does not move stays in charge.                                    *)
LEMMA NobodyLeaves ==
  ASSUME NEW i \in Invocations, Awaited(i), faulted \subseteq faulted',
         session'[i].dir = session[i].dir, session'[i].boot = session[i].boot,
         session'[i].preserve = session[i].preserve,
         \A q \in OwnersOf(i) : pc'[q] = pc[q] \/ ~Removes(q)
  PROVE  Awaited(i)'
<1>1. \A q \in OwnersOf(i) : Removes(q) => Removes(q)'
  BY SameRemoval
<1> QED
  BY <1>1, StillAwaited

LEMMA OwnStepAwaited ==
  ASSUME TypesOK, NEW p \in Sessions, RoleOf(p), Step(p), Awaited(Inv(p)),
         faulted \subseteq faulted'
  PROVE  Awaited(Inv(p))'
<1>1. CASE p \in Children
  <2>1. Inv(p) \in Invocations /\ \A q \in OwnersOf(Inv(p)) : q \in Procs /\ q # p
    BY <1>1, Kin, Owners
  <2>2. ChildMoves(p, Inv(p))
    BY <1>1, ChildStep
  <2> QED
    BY <2>1, <2>2, NobodyLeaves DEF ChildMoves
<1>2. CASE p \notin Children
  <2>1. ~PublishResult(p) /\ ~PublishResultFails(p)
    BY <1>2 DEF PublishResult, PublishResultFails
  <2> QED
    BY <1>2, <2>1, OwnerGoesOn, OwnerTakesCharge, OwnerRemoves, BootTakesOver DEF Step
<1> QED
  BY <1>1, <1>2

LEMMA EnvironmentAwaited ==
  ASSUME TypesOK, NEW i \in Invocations, Awaited(i), faulted \subseteq faulted',
         \/ Invoke(i) \/ UiCloses(i) \/ \E role \in {"boot", "child"} : Relaunch(i, role)
         \/ \E p \in Sessions : Inv(p) = i /\ Crash(p)
  PROVE  Awaited(i)'
<1>1. CASE Invoke(i)
  <2>1. /\ <<i, "parent">> \in Procs /\ <<i, "parent">> \in Parents
        /\ \A q \in OwnersOf(i) : q \in Procs
    BY Family, Owners DEF Mine
  <2>2. ~Removes(<<i, "parent">>) /\ session' = session
    BY <1>1, <2>1 DEF Invoke, Removes, hosting
  <2>3. \A q \in Procs : q # <<i, "parent">> => pc'[q] = pc[q]
    BY <1>1, <2>1, GoesOn DEF Invoke, TypesOK
  <2> QED
    BY <2>1, <2>2, <2>3, NobodyLeaves
<1>2. CASE UiCloses(i)
  BY <1>2, NobodyLeaves DEF UiCloses
<1>3. ASSUME NEW role \in {"boot", "child"}, Relaunch(i, role) PROVE Awaited(i)'
  <2> DEFINE again == <<i, IF role = "boot" THEN "boot again" ELSE "child again">>
  <2>1. Goes(again, "claim") /\ pc[again] = "off" /\ session' = session
    BY <1>3 DEF Relaunch, hosting
  <2>2. again \in Resumed(i)
    BY DEF Resumed, BootsOf, ChildrenOf
  <2> HIDE DEF again
  <2>3. again \in Procs /\ again \notin Parents
    BY <2>2, Family DEF Mine
  <2>4. ~Removes(again)
    BY <2>1, <2>3 DEF Removes, Idle
  <2>5. \A q \in OwnersOf(i) : pc'[q] = pc[q] \/ ~Removes(q)
    BY <2>1, <2>3, <2>4, GoesOn, Owners DEF TypesOK
  <2> QED
    BY <2>1, <2>5, NobodyLeaves
<1>4. ASSUME NEW p \in Sessions, Inv(p) = i, Crash(p) PROVE Awaited(i)'
  <2>1. "crash" \in Hit(i)'
    BY <1>4, HitNow DEF Crash
  <2> QED
    BY <2>1 DEF Awaited, Left
<1> QED
  BY <1>1, <1>2, <1>3, <1>4

LEMMA DInvNext == IInv /\ OInv /\ DInv /\ [Next]_vars => DInv'
<1> SUFFICES ASSUME IInv, OInv, DInv, [Next]_vars, NEW i \in Invocations PROVE Awaited(i)'
  BY DEF DInv
<1>1. TypesOK /\ Awaited(i)
  BY TypeParts DEF IInv, TypesOK, DInv
<1>2. faulted \subseteq faulted'
  BY FaultsStay
<1>3. CASE Aside(i)
  <2>1. \A q \in OwnersOf(i) : pc'[q] = pc[q]
    BY <1>3, Owners DEF Aside
  <2> QED
    BY <1>1, <1>2, <1>3, <2>1, NobodyLeaves DEF Aside
<1>4. ASSUME NEW p \in Sessions, Inv(p) = i, Step(p) PROVE Awaited(i)'
  <2>1. RoleOf(p)
    BY Places DEF OInv, Roles
  <2> QED
    BY <1>1, <1>2, <1>4, <2>1, OwnStepAwaited
<1> QED
  BY <1>1, <1>2, <1>3, <1>4, EnvironmentAwaited, OtherInvocations

LEMMA DInvInit == Init => DInv
BY DEF Init, DInv, Awaited, NoSession

(* A session directory does not stay behind: whoever publishes it, or takes  *)
(* it over with the record, removes it once the child has ended or could not *)
(* be started (init_session.rs, the owners' cleanup; record.rs, Drop).       *)
THEOREM DirectoryRemoved == Spec => []SessionRemoved
<1>1. Init => IInv /\ OInv /\ DInv
  BY IInvInit, OInvInit, DInvInit
<1>2. IInv /\ OInv /\ DInv /\ [Next]_vars => (IInv /\ OInv /\ DInv)'
  BY IInvNext, OInvNext, DInvNext
<1>3. DInv => SessionRemoved
  <2> SUFFICES ASSUME DInv, NEW i \in Invocations,
                      \A p \in Sessions : Inv(p) = i => ~Live(p),
                      Hit(i) \cap {"crash", "cleanup"} = {}, ~session[i].preserve,
                      \A p \in Boots : Inv(p) = i => <<p, "consume">> \notin faulted
               PROVE  ~session[i].dir
    BY DEF SessionRemoved
  <2>1. \A q \in OwnersOf(i) : q \in Sessions /\ Inv(q) = i /\ (q \in BootsOf(i) => q \in Boots)
    BY Owners, Family
  <2>2. \A q \in OwnersOf(i) : ~Removes(q)
    BY <2>1 DEF Live, Removes, Idle
  <2>3. ~Left(i)
    BY <2>1 DEF Left, OwnersOf
  <2> QED
    BY <2>2, <2>3 DEF DInv, Awaited
<1> QED
  BY <1>1, <1>2, <1>3, PTL DEF Spec

-----------------------------------------------------------------------------
(* Reports.                                                                  *)
Work == {"ok", "failures"}

(* A result is that of a child that has ended, and a child has a window.     *)
Published(i) ==
  session[i].result # "none" =>
    \E q \in ChildrenOf(i) : pc[q] = "ended" /\ outcome[q] = session[i].result
Windowed(i) == pc[ChildOf(i)] = "off" <=> ui[i] = "none"

(* An owner that reports work has done it itself, and then there is no       *)
(* child, or has it from a child.                                            *)
FromChild(i, p) == \E q \in ChildrenOf(i) : pc[q] = "ended" /\ outcome[q] = outcome[p]
Honest(i) ==
  \A p \in OwnersOf(i) : pc[p] # "crashed" /\ outcome[p] \in Work =>
    pc[p] = "load" \/ (loads[i] # 0 /\ ui[i] = "none") \/ FromChild(i, p)

(* When nothing fails, a running child is watched by an owner that will      *)
(* find its result, and an owner that is done without a child was the last.  *)
Settled(i) == ~BootRecord(i) /\ \A q \in OwnersOf(i) : ~Right(q)
Watching(i, p) ==
  pc[p] \in {"await", "consume"} =>
    /\ session[i].dir /\ pc[ChildOf(i)] # "off"
    /\ pc[ChildOf(i)] = "claim" => session[i].child
    /\ pc[p] = "consume" => pc[ChildOf(i)] = "ended"
    /\ session[i].result = IF pc[ChildOf(i)] = "ended" THEN outcome[ChildOf(i)] ELSE "none"
Done(p) == pc[p] \in {"unlock", "cleanup"} \/ (pc[p] = "ended" /\ outcome[p] # "deferred")
Relays(i, p) ==
  Done(p) =>
    IF ui[i] = "none" THEN Settled(i)
    ELSE /\ pc[p] # "unlock" /\ pc[ChildOf(i)] = "ended" /\ outcome[p] = outcome[ChildOf(i)]
         /\ pc[p] = "cleanup" => session[i].dir
Prepared(i, p) ==
  /\ pc[p] = "spawn" => session[i].child
  /\ pc[p] = "claim" => session[i].boot
Unhurt(i) ==
  /\ \A q \in Mine(i) : pc[q] # "crashed"
  /\ pc[<<i, "child again">>] = "off" /\ pc[<<i, "boot again">>] = "off"
Watched(i) == Live(ChildOf(i)) => \E p \in OwnersOf(i) : pc[p] = "await"
Smooth(i) ==
  /\ Unhurt(i) /\ Watched(i)
  /\ \A p \in OwnersOf(i) : Prepared(i, p) /\ Watching(i, p) /\ Relays(i, p)
Reported(i) ==
  /\ Published(i) /\ Windowed(i)
  /\ Doubtful(i) \/ Honest(i)
  /\ Hit(i) = {} => Smooth(i)
PInv == \A i \in Invocations : Reported(i)

-----------------------------------------------------------------------------
(* What the step of a process leaves alone: it starts its child or the       *)
(* bootstrap at most, answers for itself, and ends once.                     *)
Started(p, q) ==
  /\ pc[q] = "off" /\ pc'[q] = "claim"
  /\ \/ q = Child(p) /\ pc[p] = "spawn" /\ ui'[Inv(p)] = "open"
     \/ q = <<Inv(p), "boot">> /\ pc[p] = "defer"
Frame(p) ==
  /\ pc[p] \notin {"off", "ended", "crashed"} /\ pc'[p] \notin {"off", "crashed"}
  /\ \A q \in Procs : q # p => outcome'[q] = outcome[q] /\ (pc'[q] = pc[q] \/ Started(p, q))
  /\ ui' = ui \/ (pc[p] = "spawn" /\ pc'[Child(p)] = "claim" /\ pc[Child(p)] = "off"
                    /\ ui' = [ui EXCEPT ![Inv(p)] = "open"])

LEMMA StepFrame ==
  ASSUME TypesOK, NEW p \in Sessions, Step(p) PROVE Frame(p)
<1> USE Places DEF Frame, Started, TypesOK, FlowTypeOK, HostTypeOK, Goes, Reports, hosting, Steps
<1>1. CASE Preview(p)
  BY <1>1 DEF Preview
<1>2. CASE Fails(p)
  BY <1>2 DEF Fails, AfterError
<1>3. CASE ChooseUi(p)
  BY <1>3 DEF ChooseUi
<1>4. CASE Defer(p)
  BY <1>4 DEF Defer
<1>5. CASE DeferFails(p)
  BY <1>5 DEF DeferFails
<1>6. CASE PublishBootstrapFails(p)
  BY <1>6 DEF PublishBootstrapFails
<1>7. CASE Abandon(p)
  BY <1>7 DEF Abandon
<1>8. CASE PublishChild(p)
  BY <1>8 DEF PublishChild
<1>9. CASE PublishChildFails(p)
  BY <1>9 DEF PublishChildFails, AfterError
<1>10. CASE Spawn(p)
  BY <1>10 DEF Spawn, Launched
<1>11. CASE SpawnFails(p)
  BY <1>11 DEF SpawnFails
<1>12. CASE Await(p)
  BY <1>12 DEF Await
<1>13. CASE AwaitFails(p)
  BY <1>13 DEF AwaitFails
<1>14. CASE Consume(p)
  BY <1>14 DEF Consume
<1>15. CASE ConsumeFails(p)
  BY <1>15 DEF ConsumeFails
<1>16. CASE Cleanup(p)
  BY <1>16 DEF Cleanup
<1>17. CASE CleanupFails(p)
  BY <1>17 DEF CleanupFails
<1>18. CASE Claim(p)
  BY <1>18 DEF Claim
<1>19. CASE ClaimFails(p)
  BY <1>19 DEF ClaimFails
<1>20. CASE PublishResult(p)
  BY <1>20 DEF PublishResult
<1>21. CASE PublishResultFails(p)
  BY <1>21 DEF PublishResultFails
<1>22. CASE Acquire(p)
  BY <1>22 DEF Acquire
<1>23. CASE Reload(p)
  BY <1>23 DEF Reload
<1>24. CASE Sync(p)
  BY <1>24 DEF Sync
<1>25. CASE Load(p)
  BY <1>25 DEF Load
<1>26. CASE ExecutionFails(p)
  BY <1>26 DEF ExecutionFails
<1>27. CASE Unlock(p)
  BY <1>27 DEF Unlock, AfterUnlock
<1> QED
  BY <1>1, <1>2, <1>3, <1>4, <1>5, <1>6, <1>7, <1>8, <1>9,
     <1>10, <1>11, <1>12, <1>13, <1>14, <1>15, <1>16, <1>17, <1>18,
     <1>19, <1>20, <1>21, <1>22, <1>23, <1>24, <1>25, <1>26, <1>27 DEF Step

LEMMA StepResult ==
  ASSUME TypesOK, NEW p \in Sessions, Step(p)
  PROVE  session'[Inv(p)].result \in {session[Inv(p)].result, "none"} \/ PublishResult(p)
<1> USE Places DEF TypesOK, HostTypeOK, NoSession, Remove, TakeRecord, hosting
<1>1. CASE Preview(p) \/ Fails(p) \/ ChooseUi(p) \/ PublishBootstrapFails(p)
  BY <1>1 DEF Preview, Fails, ChooseUi, PublishBootstrapFails
<1>2. CASE Defer(p) \/ DeferFails(p)
  BY <1>2 DEF Defer, DeferFails
<1>3. CASE Abandon(p) \/ Cleanup(p)
  BY <1>3 DEF Abandon, Cleanup
<1>4. CASE PublishChild(p) \/ Spawn(p) \/ Await(p)
  <2>1. CASE PublishChild(p)
    BY <2>1 DEF PublishChild
  <2>2. CASE Spawn(p)
    BY <2>2 DEF Spawn
  <2>3. CASE Await(p)
    BY <2>3 DEF Await
  <2> QED
    BY <1>4, <2>1, <2>2, <2>3
<1>5. CASE PublishChildFails(p) \/ SpawnFails(p) \/ AwaitFails(p) \/ CleanupFails(p)
  BY <1>5 DEF PublishChildFails, SpawnFails, AwaitFails, CleanupFails
<1>6. CASE Consume(p) \/ ConsumeFails(p)
  BY <1>6 DEF Consume, ConsumeFails
<1>7. CASE Claim(p) \/ ClaimFails(p)
  BY <1>7 DEF Claim, ClaimFails
<1>8. CASE PublishResultFails(p) \/ Acquire(p) \/ Reload(p) \/ Sync(p) \/ Load(p)
           \/ ExecutionFails(p) \/ Unlock(p)
  BY <1>8 DEF PublishResultFails, Acquire, Reload, Sync, Load, ExecutionFails, Unlock
<1> QED
  BY <1>1, <1>2, <1>3, <1>4, <1>5, <1>6, <1>7, <1>8 DEF Step

LEMMA StepLoads ==
  ASSUME NEW p \in Procs, Step(p) PROVE loads' = loads \/ Load(p)
<1>1. Load(p) \/ UNCHANGED loads
  BY DEF Step, locking, Preview, Fails, ChooseUi, Defer, DeferFails, PublishBootstrapFails,
     Abandon, PublishChild, PublishChildFails, Spawn, SpawnFails, Await, AwaitFails, Consume,
     ConsumeFails, Cleanup, CleanupFails, Claim, ClaimFails, PublishResult, PublishResultFails,
     Acquire, Reload, Sync, ExecutionFails, Unlock
<1> QED
  BY <1>1

(* A process that has ended neither starts again nor answers again.          *)
LEMMA EndedForGood ==
  ASSUME NEW p \in Procs, Frame(p), NEW q \in Procs, pc[q] = "ended"
  PROVE  pc'[q] = "ended" /\ outcome'[q] = outcome[q]
BY DEF Frame, Started

LEMMA FromChildStays ==
  ASSUME NEW i \in Invocations, NEW p, NEW r, outcome'[r] = outcome[p], FromChild(i, p),
         \A q \in ChildrenOf(i) : pc[q] = "ended" => pc'[q] = "ended" /\ outcome'[q] = outcome[q]
  PROVE  FromChild(i, r)'
BY DEF FromChild

LEMMA PublishedStays ==
  ASSUME NEW i \in Invocations, Published(i),
         session'[i].result \in {session[i].result, "none"},
         \A q \in ChildrenOf(i) : pc[q] = "ended" => pc'[q] = "ended" /\ outcome'[q] = outcome[q]
  PROVE  Published(i)'
BY DEF Published

LEMMA ChildrenEndForGood ==
  ASSUME NEW p \in Procs, Frame(p), NEW i \in Invocations
  PROVE  \A q \in ChildrenOf(i) : pc[q] = "ended" => pc'[q] = "ended" /\ outcome'[q] = outcome[q]
<1>1. \A q \in ChildrenOf(i) : q \in Procs
  BY Family DEF Mine, Resumed
<1> QED
  BY <1>1, EndedForGood

LEMMA ResultPublished ==
  ASSUME TypesOK, NEW p \in Sessions, Step(p), Published(Inv(p)), Windowed(Inv(p))
  PROVE  Published(Inv(p))' /\ Windowed(Inv(p))'
<1> DEFINE i == Inv(p)
<1>1. /\ i \in Invocations /\ p \in Procs /\ Frame(p) /\ ChildOf(i) \in Procs
      /\ Child(p) = ChildOf(i)
  BY Places, StepFrame, Owners DEF Child, ChildOf
<1>2. Published(i)'
  <2>1. CASE PublishResult(p)
    <3>1. p \in ChildrenOf(i) /\ session'[i].result = outcome[p]
      BY <1>1, <2>1, Kin DEF PublishResult, TypesOK, HostTypeOK
    <3>2. pc'[p] = "ended" /\ outcome'[p] = outcome[p]
      BY <1>1, <2>1, GoesOn DEF PublishResult, TypesOK
    <3> QED
      BY <3>1, <3>2 DEF Published
  <2>2. CASE session'[i].result \in {session[i].result, "none"}
    BY <1>1, <2>2, ChildrenEndForGood, PublishedStays
  <2> QED
    BY <2>1, <2>2, StepResult
<1>3. Windowed(i)'
  <2>1. CASE ui' = ui
    <3>1. pc'[ChildOf(i)] = "off" <=> pc[ChildOf(i)] = "off"
      <4>1. CASE ChildOf(i) = p
        BY <1>1, <4>1 DEF Frame
      <4>2. CASE ChildOf(i) # p /\ Started(p, ChildOf(i))
        <5>1. ChildOf(i) # <<i, "boot">>
          BY DEF ChildOf
        <5>2. ui'[i] = "open" /\ ui[i] = "none"
          BY <4>2, <5>1 DEF Started, Windowed
        <5> QED
          BY <2>1, <5>2
      <4> QED
        BY <1>1, <4>1, <4>2 DEF Frame
    <3> QED
      BY <2>1, <3>1 DEF Windowed
  <2>2. CASE pc'[Child(p)] = "claim" /\ ui' = [ui EXCEPT ![i] = "open"]
    BY <1>1, <2>2 DEF Windowed, TypesOK, HostTypeOK
  <2> QED
    BY <1>1, <2>1, <2>2 DEF Frame
<1> QED
  BY <1>2, <1>3

(* The owner that moves answers for what it has loaded or has been told.     *)
LEMMA AnswersHonestly ==
  ASSUME IInv, TypesOK, NEW p \in Sessions, p \notin Children, Step(p), OneRight(Inv(p)),
         Published(Inv(p)), Windowed(Inv(p)), Honest(Inv(p)), outcome'[p] \in Work
  PROVE  \/ pc'[p] = "load"
         \/ loads'[Inv(p)] # 0 /\ ui'[Inv(p)] = "none"
         \/ FromChild(Inv(p), p)'
<1> DEFINE i == Inv(p)
<1>1. /\ i \in Invocations /\ p \in OwnersOf(i) /\ p \in Procs /\ Frame(p)
      /\ \A q \in ChildrenOf(i) : pc[q] = "ended" => pc'[q] = "ended" /\ outcome'[q] = outcome[q]
  BY Kin, Places, OwnersAreNotChildren, StepFrame, ChildrenEndForGood
<1>2. outcome \in [Procs -> Outcomes] /\ loads \in [Invocations -> Nat]
  BY DEF TypesOK, FlowTypeOK, LockTypeOK
<1>3. pc[p] \in Early => outcome[p] \notin Work
  BY <1>1 DEF IInv, Unanswered, Work
<1>4. CASE Sync(p)
  BY <1>1, <1>4, GoesOn DEF Sync, TypesOK
<1>5. CASE Load(p)
  <2>1. Right(p) /\ ui' = ui
    BY <1>5 DEF Load, Right, Entitled, hosting
  <2>2. NoChild(i)
    BY <1>1, <2>1 DEF OneRight, ParentAlone, BootAlone, OwnersOf
  <2>3. ui[i] = "none"
    BY <1>1, <2>2, Owners DEF Windowed, NoChild
  <2>4. loads'[i] # 0
    BY <1>1, <1>2, <1>5 DEF Load
  <2> QED
    BY <2>1, <2>3, <2>4
<1>6. CASE Consume(p)
  <2>1. outcome'[p] = session[i].result /\ session[i].result # "none"
    BY <1>1, <1>2, <1>6 DEF Consume, Reports, Work
  <2> QED
    BY <1>1, <2>1 DEF Published, FromChild
<1>7. CASE Unlock(p) \/ Cleanup(p)
  <2>1. outcome'[p] = outcome[p] /\ pc[p] \in {"unlock", "cleanup"} /\ ui' = ui /\ loads' = loads
    BY <1>1, <1>2, <1>7 DEF Unlock, Cleanup, Reports, Work, hosting, locking
  <2>2. (loads[i] # 0 /\ ui[i] = "none") \/ FromChild(i, p)
    BY <1>1, <2>1 DEF Honest
  <2>3. FromChild(i, p) => FromChild(i, p)'
    BY <1>1, <2>1, FromChildStays
  <2> QED
    BY <2>1, <2>2, <2>3
<1>8. ~(\/ Fails(p) \/ PublishBootstrapFails(p) \/ PublishChildFails(p) \/ SpawnFails(p)
        \/ AwaitFails(p) \/ ConsumeFails(p) \/ CleanupFails(p) \/ ClaimFails(p) \/ Defer(p)
        \/ ExecutionFails(p) \/ PublishResult(p) \/ PublishResultFails(p))
  BY <1>1, <1>2 DEF Fails, PublishBootstrapFails, PublishChildFails, SpawnFails, AwaitFails,
     ConsumeFails, CleanupFails, ClaimFails, Defer, ExecutionFails, PublishResult,
     PublishResultFails, Reports, Work
<1>9. ~(\/ Preview(p) \/ ChooseUi(p) \/ DeferFails(p) \/ Abandon(p) \/ PublishChild(p)
        \/ Spawn(p) \/ Await(p) \/ Claim(p) \/ Acquire(p) \/ Reload(p))
  <2>1. SUFFICES ASSUME \/ Preview(p) \/ ChooseUi(p) \/ DeferFails(p) \/ Abandon(p)
                        \/ PublishChild(p) \/ Spawn(p) \/ Await(p) \/ Claim(p) \/ Acquire(p)
                        \/ Reload(p)
                 PROVE  FALSE
    OBVIOUS
  <2>2. pc[p] \in Early /\ outcome' = outcome
    BY <2>1 DEF Early, Preview, ChooseUi, DeferFails, Abandon, PublishChild, Spawn, Await, Claim,
       Acquire, Reload
  <2> QED
    BY <1>3, <2>2
<1> QED
  BY <1>4, <1>5, <1>6, <1>7, <1>8, <1>9 DEF Step

LEMMA OwnStepHonest ==
  ASSUME IInv, TypesOK, NEW p \in Sessions, Step(p), OneRight(Inv(p)),
         Published(Inv(p)), Windowed(Inv(p)), Honest(Inv(p))
  PROVE  Honest(Inv(p))'
<1> DEFINE i == Inv(p)
<1>1. /\ i \in Invocations /\ p \in Procs /\ Frame(p)
      /\ \A q \in ChildrenOf(i) : pc[q] = "ended" => pc'[q] = "ended" /\ outcome'[q] = outcome[q]
  BY Places, StepFrame, ChildrenEndForGood
<1>2. ASSUME NEW q \in OwnersOf(i), pc'[q] # "crashed", outcome'[q] \in Work, q # p
      PROVE  pc'[q] = "load" \/ (loads'[i] # 0 /\ ui'[i] = "none") \/ FromChild(i, q)'
  <2>1. q \in Procs /\ outcome'[q] = outcome[q] /\ (pc'[q] = pc[q] \/ Started(p, q))
    BY <1>1, <1>2, Owners DEF Frame
  <2>2. pc'[q] = pc[q]
    BY <1>2, <2>1 DEF Started, IInv, Unanswered, Early, Work
  <2>3. CASE pc[q] = "load"
    BY <2>2, <2>3
  <2>4. CASE loads[i] # 0 /\ ui[i] = "none"
    <3>1. loads'[i] # 0
      BY <1>1, <2>4, StepLoads DEF Load, TypesOK, LockTypeOK
    <3>2. p \in Mine(i) /\ ~Right(p)
      BY <2>4, Kin DEF OneRight, LoadedOnce
    <3>3. pc[p] # "spawn"
      BY <3>2 DEF Right, Entitled
    <3> QED
      BY <1>1, <2>4, <3>1, <3>3 DEF Frame
  <2>5. CASE FromChild(i, q)
    BY <1>1, <2>1, <2>5, FromChildStays
  <2> QED
    BY <1>2, <2>1, <2>2, <2>3, <2>4, <2>5 DEF Honest
<1>3. p \in OwnersOf(i) => p \notin Children
  BY OwnersAreNotChildren
<1> QED
  BY <1>2, <1>3, AnswersHonestly DEF Honest

-----------------------------------------------------------------------------
(* Smoothness: the steps of an owner.                                        *)
LEMMA NoFaultHere ==
  ASSUME NEW p \in Sessions, Hit(Inv(p))' = {} PROVE \A k : ~Fault(p, k)
BY HitNow

LEMMA UnhurtStays ==
  ASSUME NEW p \in Sessions, Frame(p), Unhurt(Inv(p)) PROVE Unhurt(Inv(p))'
<1> DEFINE i == Inv(p)
<1>1. i \in Invocations /\ \A q \in Mine(i) : q \in Procs
  BY Kin, Family
<1>2. \A q \in Mine(i) : pc'[q] # "crashed"
  BY <1>1 DEF Frame, Started, Unhurt
<1>3. ASSUME NEW q \in Mine(i), pc[q] = "off", q # <<i, "child">>, q # <<i, "boot">>
      PROVE  pc'[q] = "off"
  BY <1>1, <1>3 DEF Frame, Started, Child
<1>4. /\ <<i, "child again">> \in Mine(i) /\ <<i, "boot again">> \in Mine(i)
      /\ <<i, "child again">> # <<i, "child">> /\ <<i, "child again">> # <<i, "boot">>
      /\ <<i, "boot again">> # <<i, "child">> /\ <<i, "boot again">> # <<i, "boot">>
  BY DEF Mine, Resumed, BootsOf, ChildrenOf
<1> QED
  BY <1>2, <1>3, <1>4 DEF Unhurt

(* Unless a resume command runs again, one owner is at work or to start.     *)
LEMMA OneOwner ==
  ASSUME NEW i \in Invocations, Unhurt(i), OwnerAlone(i), NEW p \in OwnersOf(i),
         pc[p] \notin {"off", "ended", "crashed"}
  PROVE  \A q \in OwnersOf(i) : q # p => pc[q] \in {"off", "ended"}
<1>1. CASE p = <<i, "parent">>
  BY <1>1 DEF OwnerAlone, OwnersOf, NoBoot
<1>2. CASE p = <<i, "boot">>
  <2>1. ~NoBoot(i) /\ pc[<<i, "boot again">>] = "off"
    BY <1>2 DEF NoBoot, BootsOf, Unhurt
  <2>2. pc[<<i, "parent">>] = "ended"
    BY <2>1 DEF OwnerAlone, Unhurt, Mine
  <2> QED
    BY <1>2, <2>1, <2>2 DEF OwnersOf, BootsOf
<1>3. p # <<i, "boot again">>
  BY DEF Unhurt
<1> QED
  BY <1>1, <1>2, <1>3 DEF OwnersOf, BootsOf

LEMMA SettledOwner ==
  ASSUME TypesOK, NEW p \in Sessions, p \notin Children, RoleOf(p), Step(p),
         Relaunched(Inv(p)), Settled(Inv(p))
  PROVE  Settled(Inv(p))'
<1> DEFINE i == Inv(p)
<1>1. /\ i \in Invocations /\ p \in OwnersOf(i) /\ p \in Procs
      /\ pc[p] \notin Entitled /\ ~Right(p)
      /\ \A q \in OwnersOf(i) : q \in Procs
  BY Kin, Places, OwnersAreNotChildren, Owners DEF Settled, Right
<1>2. \/ Await(p) \/ AwaitFails(p) \/ Consume(p) \/ ConsumeFails(p) \/ Cleanup(p)
      \/ CleanupFails(p) \/ Claim(p) \/ ClaimFails(p) \/ Unlock(p)
  BY <1>1 DEF Step, Entitled, Preview, Fails, ChooseUi, Defer, DeferFails, PublishBootstrapFails,
     Abandon, PublishChild, PublishChildFails, Spawn, SpawnFails, PublishResult,
     PublishResultFails, Acquire, Reload, Sync, Load, ExecutionFails
<1>3. ~Claim(p)
  <2>1. SUFFICES ASSUME Claim(p) PROVE FALSE
    OBVIOUS
  <2>2. p \in BootsOf(i) /\ session[i].boot /\ pc[p] = "claim"
    BY <2>1, Kin DEF Claim, Record
  <2>3. pc[<<i, "boot">>] # "off"
    BY <2>2 DEF Relaunched, BootsOf
  <2> QED
    BY <2>2, <2>3 DEF Settled, BootRecord
<1>4. Modest(p)
  BY <1>1, <1>2, <1>3, ModestStep DEF TypesOK
<1>5. NoRecord(i)
  BY <1>1, <1>2, <1>3, RecordsKept DEF TypesOK
<1>6. \A q \in OwnersOf(i) : ~Right(q)'
  BY <1>1, <1>4 DEF Modest, Settled, Right
<1>7. BootRecord(i)' => BootRecord(i)
  BY <1>1, <1>4, <1>5, RecordsStay DEF Modest
<1> QED
  BY <1>6, <1>7 DEF Settled

LEMMA SettlesNow ==   \* the owner that had the right gives it up
  ASSUME NEW i \in Invocations, NEW p \in OwnersOf(i), OneRight(i), Right(p), pc[p] # "off",
         pc'[p] \notin Entitled \cup {"off"}, \A q \in Procs : q # p => pc'[q] = pc[q],
         NoRecord(i)
  PROVE  Settled(i)'
<1>1. p \in Mine(i) /\ p \in Procs /\ \A q \in OwnersOf(i) : q \in Mine(i) /\ q \in Procs
  BY Owners
<1>2. ~BootRecord(i) /\ \A q \in Mine(i) : q # p => ~Right(q)
  BY <1>1, Sole
<1>3. BootRecord(i)' => BootRecord(i)
  BY <1>1, RecordsStay
<1>4. \A q \in OwnersOf(i) : ~Right(q)'
  BY <1>1, <1>2 DEF Right
<1> QED
  BY <1>2, <1>3, <1>4 DEF Settled

SmoothFor(i, q) == Prepared(i, q) /\ Watching(i, q) /\ Relays(i, q)

LEMMA OthersSmooth ==
  ASSUME TypesOK, NEW p \in Sessions, p \notin Children, RoleOf(p), Step(p),
         \A k : ~Fault(p, k), Relaunched(Inv(p)), Hosted(Inv(p)), Windowed(Inv(p))',
         Smooth(Inv(p)), NEW q \in OwnersOf(Inv(p)), q # p
  PROVE  SmoothFor(Inv(p), q)'
<1> DEFINE i == Inv(p)
           c == ChildOf(i)
<1>1. /\ i \in Invocations /\ p \in OwnersOf(i) /\ p \in Procs /\ Frame(p) /\ q \in Procs
      /\ c \in Procs
  BY Kin, Places, OwnersAreNotChildren, StepFrame, Owners
<1>2. pc[q] \in {"off", "ended"} /\ outcome'[q] = outcome[q]
  BY <1>1, OneOwner DEF Frame, Hosted, Smooth
<1>3. CASE Started(p, q)
  <2>1. pc[p] = "defer" /\ pc'[q] = "claim"
    <3>1. q # Child(p)
      BY <1>1, Owners DEF Child, ChildOf
    <3> QED
      BY <1>3, <3>1 DEF Started
  <2>2. session'[i].boot
    <3>1. Defer(p)
      BY <2>1 DEF Step, Defer, DeferFails, PublishBootstrapFails, Preview, Fails, ChooseUi,
         Abandon, PublishChild, PublishChildFails, Spawn, SpawnFails, Await, AwaitFails, Consume,
         ConsumeFails, Cleanup, CleanupFails, Claim, ClaimFails, PublishResult,
         PublishResultFails, Acquire, Reload, Sync, Load, ExecutionFails, Unlock
    <3> QED
      BY <1>1, <3>1 DEF Defer, NoSession, TypesOK, HostTypeOK
  <2> QED
    BY <2>1, <2>2 DEF SmoothFor, Prepared, Watching, Relays, Done
<1>4. CASE pc'[q] = pc[q]
  <2>1. Prepared(i, q)' /\ Watching(i, q)'
    BY <1>2, <1>4 DEF Prepared, Watching
  <2>2. ASSUME Done(q)' PROVE Relays(i, q)'
    <3>1. Done(q) /\ pc'[q] = "ended" /\ Relays(i, q)
      BY <1>2, <1>4, <2>2 DEF Done, Smooth
    <3>2. CASE ui[i] = "none"
      <4>1. Settled(i) /\ ~Right(p)
        BY <1>1, <3>1, <3>2 DEF Relays, Settled
      <4>2. ui' = ui
        BY <1>1, <4>1 DEF Frame, Right, Entitled
      <4> QED
        BY <3>2, <4>1, <4>2, SettledOwner DEF Relays
    <3>3. CASE ui[i] # "none"
      <4>1. pc[c] = "ended" /\ outcome[q] = outcome[c]
        BY <3>1, <3>3 DEF Relays
      <4>2. pc'[c] = "ended" /\ outcome'[c] = outcome[c]
        BY <1>1, <4>1, EndedForGood
      <4>3. ui'[i] # "none"
        BY <4>2 DEF Windowed
      <4> QED
        BY <1>2, <3>1, <4>1, <4>2, <4>3 DEF Relays
    <3> QED
      BY <3>2, <3>3
  <2> QED
    BY <2>1, <2>2 DEF SmoothFor, Relays
<1> QED
  BY <1>1, <1>3, <1>4 DEF Frame

(* The owner goes on, and nobody is started or watched.                      *)
LEMMA GoesOnSmoothly ==
  ASSUME TypesOK, NEW p \in Sessions, p \notin Children, Unhurt(Inv(p)), Hosted(Inv(p)),
         Smooth(Inv(p)), Step(p), pc[p] \notin {"await", "spawn"}
  PROVE  Watched(Inv(p))'
<1> DEFINE i == Inv(p)
           c == ChildOf(i)
<1>1. /\ i \in Invocations /\ p \in OwnersOf(i) /\ p \in Procs /\ Frame(p)
      /\ c \in Procs /\ c # p /\ \A q \in OwnersOf(i) : q \in Procs
  BY Kin, Places, OwnersAreNotChildren, StepFrame, Owners
<1>2. \A q \in OwnersOf(i) : pc[q] # "await"
  BY <1>1, OneOwner DEF Frame, Hosted
<1>3. ~Live(c)
  BY <1>2 DEF Smooth, Watched
<1>4. ~Started(p, c)
  BY DEF Started, ChildOf
<1> QED
  BY <1>1, <1>3, <1>4 DEF Frame, Live, Watched

(* The owner that moves, by what it does.                                    *)
LEMMA OwnerHosts ==
  ASSUME TypesOK, NEW p \in Sessions, p \notin Children, RoleOf(p),
         OneRight(Inv(p)), Hosted(Inv(p)), Published(Inv(p)), Smooth(Inv(p)),
         PublishChild(p) \/ Spawn(p) \/ Await(p)
  PROVE  SmoothFor(Inv(p), p)' /\ Watched(Inv(p))'
<1> DEFINE i == Inv(p)
           c == ChildOf(i)
<1>1. /\ i \in Invocations /\ p \in OwnersOf(i) /\ p \in Procs /\ Child(p) = c
      /\ c \in Procs /\ c # p /\ c \in ChildrenOf(i)
  BY Kin, Places, OwnersAreNotChildren, Owners DEF Child, ChildOf
<1>2. CASE PublishChild(p)
  <2>1. pc'[p] = "spawn" /\ session'[i].child
    BY <1>1, <1>2, GoesOn DEF PublishChild, TypesOK, HostTypeOK
  <2>2. SmoothFor(i, p)'
    BY <2>1 DEF SmoothFor, Prepared, Watching, Relays, Done
  <2>3. Step(p)
    BY <1>2 DEF Step
  <2> QED
    BY <1>2, <2>2, <2>3, GoesOnSmoothly DEF PublishChild, Smooth
<1>3. CASE Spawn(p)
  <2>1. pc[p] = "spawn" /\ pc'[p] = "await" /\ pc'[c] = "claim" /\ pc[c] = "off"
    BY <1>1, <1>3 DEF Spawn, Launched, TypesOK, FlowTypeOK
  <2>2. /\ session'[i].dir = session[i].dir /\ session'[i].child = session[i].child
        /\ session'[i].result = session[i].result
    BY <1>1, <1>3 DEF Spawn, TypesOK, HostTypeOK
  <2>3. session[i].dir /\ session[i].child
    BY <1>1, <2>1 DEF Hosted, SpawnDir, Smooth, Prepared
  <2>4. session[i].result = "none"
    <3>1. Right(p)
      BY <2>1 DEF Right, Entitled
    <3>2. NoChild(i)
      BY <1>1, <3>1 DEF OneRight, ParentAlone, BootAlone, OwnersOf
    <3> QED
      BY <3>2 DEF Published, NoChild
  <2>5. SmoothFor(i, p)'
    BY <2>1, <2>2, <2>3, <2>4 DEF SmoothFor, Prepared, Watching, Relays, Done
  <2> QED
    BY <1>1, <2>1, <2>5 DEF Watched
<1>4. CASE Await(p)
  <2>1. /\ pc[p] = "await" /\ pc'[p] = "consume" /\ pc'[c] = pc[c] /\ outcome' = outcome
        /\ ui[i] = "closed"
    BY <1>1, <1>4, GoesOn DEF Await, TypesOK
  <2>2. /\ session'[i].dir = session[i].dir /\ session'[i].child = session[i].child
        /\ session'[i].result = session[i].result
    BY <1>1, <1>4 DEF Await, TypesOK, HostTypeOK
  <2>3. ~Live(c)
    BY <2>1 DEF Hosted, UiFollows
  <2>4. Watching(i, p) /\ pc[c] # "crashed"
    BY <1>1, Owners DEF Smooth, Unhurt
  <2>5. pc[c] = "ended"
    BY <2>1, <2>3, <2>4 DEF Live, Watching
  <2>6. SmoothFor(i, p)'
    BY <2>1, <2>2, <2>4, <2>5 DEF SmoothFor, Prepared, Watching, Relays, Done
  <2> QED
    BY <2>1, <2>5, <2>6 DEF Watched, Live
<1> QED
  BY <1>2, <1>3, <1>4

LEMMA OwnerConcludes ==
  ASSUME TypesOK, NEW p \in Sessions, p \notin Children, RoleOf(p), TypeOK,
         OneRight(Inv(p)), Relaunched(Inv(p)), Windowed(Inv(p)), Smooth(Inv(p)),
         \A k : ~Fault(p, k),
         Consume(p) \/ Cleanup(p) \/ Unlock(p) \/ Load(p) \/ PublishChildFails(p)
  PROVE  SmoothFor(Inv(p), p)'
<1> DEFINE i == Inv(p)
           c == ChildOf(i)
<1>1. /\ i \in Invocations /\ p \in OwnersOf(i) /\ p \in Procs
      /\ c \in Procs /\ c # p /\ c \in ChildrenOf(i) /\ Step(p)
      /\ p \in Parents \/ p \in Boots
  BY Kin, Places, OwnersAreNotChildren, Owners DEF Step
<1>2. /\ pc'[p] \in {"cleanup", "ended", "unlock"} /\ pc'[c] = pc[c] /\ outcome'[c] = outcome[c]
      /\ ui' = ui /\ \A q \in Procs : q # p => pc'[q] = pc[q]
  BY <1>1, GoesOn DEF Consume, Cleanup, Unlock, Load, PublishChildFails, AfterUnlock, AfterError,
     TypesOK, FlowTypeOK, Reports, hosting
<1>3. Prepared(i, p)' /\ Watching(i, p)'
  BY <1>2 DEF Prepared, Watching
<1>4. CASE Consume(p)
  <2>1. /\ pc[p] = "consume" /\ pc'[p] = "cleanup" /\ session'[i].dir = session[i].dir
        /\ outcome'[p] = IF session[i].result = "none" THEN "error" ELSE session[i].result
    BY <1>1, <1>4, GoesOn DEF Consume, Reports, TypesOK, HostTypeOK, FlowTypeOK
  <2>2. session[i].dir /\ pc[c] = "ended" /\ session[i].result = outcome[c]
    BY <1>1, <2>1 DEF Smooth, Watching
  <2>3. outcome[c] # "none" /\ ui[i] # "none"
    BY <1>1, <2>2 DEF TypeOK, Windowed
  <2> QED
    BY <1>2, <1>3, <2>1, <2>2, <2>3 DEF SmoothFor, Relays
<1>5. CASE Cleanup(p)
  <2>1. pc[p] = "cleanup" /\ pc'[p] = "ended" /\ Relays(i, p)
    BY <1>1, <1>5, GoesOn DEF Cleanup, TypesOK, Smooth
  <2>2. CASE ui[i] = "none"
    BY <1>1, <1>2, <1>3, <2>1, <2>2, SettledOwner DEF SmoothFor, Relays, Done
  <2>3. CASE ui[i] # "none"
    <3>1. session[i].dir /\ outcome[p] = outcome[c] /\ pc[c] = "ended"
      BY <2>1, <2>3 DEF Relays, Done
    <3>2. outcome'[p] = outcome[p]
      BY <1>1, <1>5, <3>1 DEF Cleanup, Reports, TypesOK, FlowTypeOK
    <3> QED
      BY <1>2, <1>3, <2>1, <2>3, <3>1, <3>2 DEF SmoothFor, Relays
  <2> QED
    BY <2>2, <2>3
<1>6. CASE Unlock(p)
  <2>1. pc[p] = "unlock" /\ Relays(i, p)
    BY <1>1, <1>6 DEF Unlock, Smooth
  <2>2. ui[i] = "none" /\ Settled(i)
    BY <2>1 DEF Relays, Done
  <2> QED
    BY <1>1, <1>2, <1>3, <2>2, SettledOwner DEF SmoothFor, Relays
<1>7. CASE Load(p) \/ PublishChildFails(p)
  <2>1. /\ pc[p] \in {"load", "host"} /\ pc'[p] \in {"cleanup", "unlock"} /\ session' = session
    BY <1>1, <1>7, GoesOn DEF Load, PublishChildFails, AfterError, TypesOK, hosting
  <2>2. Right(p)
    BY <2>1 DEF Right, Entitled
  <2>3. NoChild(i)
    BY <1>1, <2>2 DEF OneRight, ParentAlone, BootAlone, OwnersOf
  <2>4. ui[i] = "none"
    BY <1>1, <2>3 DEF Windowed, NoChild
  <2>5. Settled(i)'
    BY <1>1, <1>2, <2>1, <2>2, SettlesNow DEF NoRecord, Entitled
  <2> QED
    BY <1>2, <1>3, <2>4, <2>5 DEF SmoothFor, Relays
<1> QED
  BY <1>4, <1>5, <1>6, <1>7

LEMMA OwnStepSmooth ==
  ASSUME IInv, TypesOK, NEW p \in Sessions, p \notin Children, RoleOf(p), Step(p),
         OneRight(Inv(p)), Relaunched(Inv(p)), Hosted(Inv(p)), Published(Inv(p)),
         Windowed(Inv(p)), Windowed(Inv(p))', Smooth(Inv(p)), \A k : ~Fault(p, k)
  PROVE  Smooth(Inv(p))'
<1> DEFINE i == Inv(p)
<1>1. /\ i \in Invocations /\ p \in OwnersOf(i) /\ p \in Procs /\ Frame(p)
      /\ p \in Parents \/ p \in Boots
  BY Kin, Places, OwnersAreNotChildren, StepFrame
<1>2. Unhurt(i)'
  BY <1>1, UnhurtStays DEF Smooth
<1>3. \A q \in OwnersOf(i) : q # p => SmoothFor(i, q)'
  BY OthersSmooth
<1>4. CASE PublishChild(p) \/ Spawn(p) \/ Await(p)
  <2>1. SmoothFor(i, p)' /\ Watched(i)'
    BY <1>4, OwnerHosts
  <2> QED
    BY <1>2, <1>3, <2>1 DEF Smooth, SmoothFor
<1>5. CASE Consume(p) \/ Cleanup(p) \/ Unlock(p) \/ Load(p) \/ PublishChildFails(p)
  <2>1. SmoothFor(i, p)'
    BY <1>5, OwnerConcludes DEF IInv
  <2>2. Watched(i)'
    BY <1>5, GoesOnSmoothly DEF Smooth, Consume, Cleanup, Unlock, Load, PublishChildFails
  <2> QED
    BY <1>2, <1>3, <2>1, <2>2 DEF Smooth, SmoothFor
<1>6. CASE \/ Preview(p) \/ ChooseUi(p) \/ Defer(p) \/ Abandon(p) \/ Claim(p)
           \/ Acquire(p) \/ Reload(p) \/ Sync(p)
  <2>1. /\ pc[p] \notin {"await", "spawn"}
        /\ \/ pc'[p] \in {"lock", "ui", "defer", "host", "preview", "reload", "sync", "load"}
           \/ pc'[p] = "ended" /\ outcome'[p] = "deferred"
    <3> USE <1>1 DEF Goes, Reports, TypesOK, FlowTypeOK
    <3>1. CASE Preview(p) \/ ChooseUi(p) \/ Abandon(p) \/ Claim(p)
      BY <3>1 DEF Preview, ChooseUi, Abandon, Claim
    <3>2. CASE Defer(p)
      <4>1. <<i, "boot">> \in Procs /\ p # <<i, "boot">>
        BY <3>2, Places, Family DEF Defer, BootsOf, Resumed
      <4> QED
        BY <3>2, <4>1 DEF Defer
    <3>3. CASE Acquire(p) \/ Reload(p) \/ Sync(p)
      BY <3>3 DEF Acquire, Reload, Sync
    <3> QED
      BY <1>6, <3>1, <3>2, <3>3
  <2>2. SmoothFor(i, p)'
    BY <2>1 DEF SmoothFor, Prepared, Watching, Relays, Done
  <2>3. Watched(i)'
    BY <2>1, GoesOnSmoothly DEF Smooth
  <2> QED
    BY <1>2, <1>3, <2>2, <2>3 DEF Smooth, SmoothFor
<1>7. ~ClaimFails(p)
  <2>1. SUFFICES ASSUME ClaimFails(p) PROVE FALSE
    OBVIOUS
  <2>2. p \in Boots /\ pc[p] = "claim" /\ ~session[i].boot
    BY <2>1 DEF ClaimFails, Record
  <2> QED
    BY <1>1, <2>2 DEF Smooth, Prepared
<1>8. ~(\/ Fails(p) \/ DeferFails(p) \/ PublishBootstrapFails(p) \/ SpawnFails(p) \/ AwaitFails(p)
        \/ ConsumeFails(p) \/ CleanupFails(p) \/ ExecutionFails(p) \/ PublishResult(p)
        \/ PublishResultFails(p))
  BY DEF Fails, DeferFails, PublishBootstrapFails, SpawnFails, AwaitFails, ConsumeFails,
     CleanupFails, ExecutionFails, PublishResult, PublishResultFails
<1> QED
  BY <1>4, <1>5, <1>6, <1>7, <1>8 DEF Step

-----------------------------------------------------------------------------
(* Smoothness: the steps of the child, while its owner watches it.           *)
LEMMA ChildAtWork ==
  ASSUME NEW p \in Sessions, p \in Children, Unhurt(Inv(p)), pc[p] # "off"
  PROVE  p = ChildOf(Inv(p))
BY Kin DEF ChildrenOf, ChildOf, Unhurt

LEMMA ChildStepSmooth ==
  ASSUME IInv, TypesOK, NEW p \in Children, RoleOf(p), Step(p), Hosted(Inv(p)),
         Windowed(Inv(p)), Smooth(Inv(p)), \A k : ~Fault(p, k)
  PROVE  Smooth(Inv(p))'
<1> DEFINE i == Inv(p)
<1>1. /\ i \in Invocations /\ p \in Procs /\ p \in Sessions /\ Frame(p) /\ ChildMoves(p, i)
      /\ p \notin Boots /\ p \notin Parents
  <2>1. p \in Sessions
    BY DEF Sessions
  <2> QED
    BY <2>1, Kin, Places, StepFrame, ChildStep
<1>2. p = ChildOf(i) /\ Live(p)
  BY <1>1, ChildAtWork DEF Frame, Smooth, Live
<1>3. \A q \in OwnersOf(i) : q # p /\ q \in Procs /\ pc'[q] = pc[q] /\ outcome'[q] = outcome[q]
  BY <1>1, <1>2, Owners DEF Frame, ChildMoves
<1>4. PICK w \in OwnersOf(i) : pc[w] = "await"
  BY <1>2 DEF Smooth, Watched
<1>5. \A q \in OwnersOf(i) : q # w => pc[q] \in {"off", "ended"}
  BY <1>1, <1>4, OneOwner DEF Hosted, Smooth
<1>6. /\ session[i].dir /\ session[i].result = "none" /\ (pc[p] = "claim" => session[i].child)
  BY <1>2, <1>4 DEF Smooth, Watching, Live
<1>7. Unhurt(i)' /\ Watched(i)'
  BY <1>1, <1>3, <1>4, UnhurtStays DEF Smooth, Watched
<1>8. /\ session'[i].dir /\ pc'[p] \notin {"off", "claim"}
      /\ session'[i].result = IF pc'[p] = "ended" THEN outcome'[p] ELSE "none"
  <2>1. CASE PublishResult(p)
    BY <1>1, <1>6, <2>1, GoesOn DEF PublishResult, TypesOK, HostTypeOK
  <2>2. CASE Claim(p)
    BY <1>1, <1>6, <2>2, GoesOn DEF Claim, TakeRecord, TypesOK, HostTypeOK
  <2>3. CASE Preview(p) \/ Acquire(p) \/ Reload(p) \/ Sync(p) \/ Load(p) \/ Unlock(p)
    <3>1. session' = session
      BY <2>3 DEF Preview, Acquire, Reload, Sync, Load, Unlock, hosting
    <3>2. pc'[p] \notin {"off", "claim", "ended"}
      BY <1>1, <2>3, GoesOn DEF Preview, Acquire, Reload, Sync, Load, Unlock, AfterUnlock, TypesOK
    <3> QED
      BY <1>6, <3>1, <3>2
  <2>4. ~ClaimFails(p) /\ ~PublishResultFails(p)
    BY <1>1, <1>6 DEF ClaimFails, Record, PublishResultFails
  <2>5. ~(\/ ChooseUi(p) \/ Defer(p) \/ DeferFails(p) \/ PublishBootstrapFails(p) \/ Abandon(p)
          \/ PublishChild(p) \/ PublishChildFails(p) \/ Spawn(p) \/ SpawnFails(p) \/ Await(p)
          \/ AwaitFails(p) \/ Consume(p) \/ ConsumeFails(p) \/ Cleanup(p) \/ CleanupFails(p))
    BY <1>1 DEF RoleOf, Hosting, Parting, ChooseUi, Defer, DeferFails, PublishBootstrapFails,
       Abandon, PublishChild, PublishChildFails, Spawn, SpawnFails, Await, AwaitFails, Consume,
       ConsumeFails, Cleanup, CleanupFails
  <2>6. ~Fails(p) /\ ~ExecutionFails(p)
    BY DEF Fails, ExecutionFails
  <2> QED
    BY <2>1, <2>2, <2>3, <2>4, <2>5, <2>6 DEF Step
<1>9. ui[i] # "none" /\ ui'[i] = ui[i]
  BY <1>1, <1>2 DEF Windowed, Live, ChildMoves
<1>10. ASSUME NEW q \in OwnersOf(i) PROVE SmoothFor(i, q)'
  <2>1. CASE q = w
    BY <1>2, <1>3, <1>4, <1>8, <2>1 DEF SmoothFor, Prepared, Watching, Relays, Done
  <2>2. CASE q # w
    <3>1. pc'[q] \in {"off", "ended"} /\ ~Done(q)
      BY <1>2, <1>3, <1>5, <1>9, <2>2 DEF Smooth, Relays, Live
    <3> QED
      BY <1>3, <3>1 DEF SmoothFor, Prepared, Watching, Relays, Done
  <2> QED
    BY <2>1, <2>2
<1> QED
  BY <1>7, <1>10 DEF Smooth, SmoothFor

-----------------------------------------------------------------------------
(* Nothing of this invocation moves, or only its window closes.              *)
SameReport(i) ==
  /\ \A q \in Mine(i) : pc'[q] = pc[q] /\ outcome'[q] = outcome[q]
  /\ session'[i] = session[i] /\ loads'[i] = loads[i]
  /\ ui'[i] = "none" <=> ui[i] = "none"

LEMMA SameReportKeeps ==
  ASSUME NEW i \in Invocations, SameReport(i), faulted \subseteq faulted', Reported(i)
  PROVE  Reported(i)'
<1>1. /\ \A q \in OwnersOf(i) : q \in Mine(i) /\ pc'[q] = pc[q] /\ outcome'[q] = outcome[q]
      /\ \A q \in ChildrenOf(i) : pc'[q] = pc[q] /\ outcome'[q] = outcome[q]
      /\ pc'[ChildOf(i)] = pc[ChildOf(i)] /\ outcome'[ChildOf(i)] = outcome[ChildOf(i)]
  BY Owners DEF SameReport, Mine, Resumed
<1>2. Published(i)' /\ Windowed(i)'
  BY <1>1 DEF Reported, Published, Windowed, SameReport
<1>3. Honest(i) => Honest(i)'
  BY <1>1 DEF Honest, FromChild, SameReport
<1>4. Doubtful(i) => Doubtful(i)'
  BY DEF Doubtful
<1>5. Hit(i)' = {} => Hit(i) = {}
  BY HitGrows
<1>6. ASSUME Smooth(i) PROVE Smooth(i)'
  <2>1. Unhurt(i)' /\ Watched(i)'
    BY <1>1, <1>6 DEF Smooth, Unhurt, Watched, Live, SameReport, Mine, Resumed, BootsOf, ChildrenOf
  <2>2. Settled(i) => Settled(i)'
    BY <1>1 DEF Settled, Right, BootRecord, SameReport, OwnersOf, BootsOf
  <2>3. ASSUME NEW q \in OwnersOf(i) PROVE Prepared(i, q)' /\ Watching(i, q)' /\ Relays(i, q)'
    BY <1>1, <1>6, <2>2 DEF Smooth, Prepared, Watching, Relays, Done, SameReport
  <2> QED
    BY <2>1, <2>3 DEF Smooth
<1> QED
  BY <1>2, <1>3, <1>4, <1>5, <1>6 DEF Reported

(* A step of another invocation or of another command.                       *)
LEMMA AsideReports ==
  ASSUME IInv, OInv, TypesOK, [Next]_vars, NEW i \in Invocations,
         ~\E p \in Sessions : Inv(p) = i /\ (Step(p) \/ Crash(p)),
         ~Invoke(i), ~UiCloses(i), ~\E role \in {"boot", "child"} : Relaunch(i, role)
  PROVE  SameReport(i)
<1>1. Aside(i)
  BY OtherInvocations
<1>2. \A q \in Mine(i) : q \in Procs /\ q \in Sessions /\ Inv(q) = i /\ q \notin Others
  BY Family, Strangers
<1>3. /\ \A q \in Mine(i) : outcome'[q] = outcome[q]
      /\ loads'[i] = loads[i]
  <2>1. ASSUME NEW p \in Procs, Step(p), p \in Sessions
        PROVE  loads'[i] = loads[i] /\ \A q \in Mine(i) : outcome'[q] = outcome[q]
    <3>1. Inv(p) # i /\ \A q \in Mine(i) : q # p
      BY <1>2, <2>1
    <3> QED
      BY <1>2, <2>1, <3>1, StepFrame, StepLoads DEF Frame, Load, TypesOK, LockTypeOK
  <2>2. ASSUME NEW p \in Procs, Step(p), p \notin Sessions
        PROVE  loads'[i] = loads[i] /\ \A q \in Mine(i) : outcome'[q] = outcome[q]
    <3>1. p \in Others /\ pc[p] # "load" /\ \A q \in Mine(i) : q # p
      BY <1>2, <2>2 DEF Procs, OInv, Roles, RoleOf
    <3>2. Reload(p) \/ Sync(p) \/ ExecutionFails(p) \/ Unlock(p)
      <4>1. p \notin Parents /\ p \notin Boots /\ p \notin Children
        BY <2>2 DEF Sessions
      <4> QED
        BY <2>2, <3>1, <4>1 DEF Step, Preview, Fails, ChooseUi, Defer, DeferFails,
           PublishBootstrapFails, Abandon, PublishChild, PublishChildFails, Spawn, SpawnFails,
           Await, AwaitFails, Consume, ConsumeFails, Cleanup, CleanupFails, Claim, ClaimFails,
           PublishResult, PublishResultFails, Acquire, Load
    <3>3. UNCHANGED loads /\ (outcome' = outcome \/ \E res : Reports(p, res))
      BY <3>2 DEF Reload, Sync, ExecutionFails, Unlock
    <3> QED
      BY <1>2, <3>1, <3>3 DEF Reports, TypesOK, FlowTypeOK
  <2>3. ASSUME NEW p \in Procs, Crash(p)
        PROVE  loads'[i] = loads[i] /\ \A q \in Mine(i) : outcome'[q] = outcome[q]
    BY <2>3 DEF Crash
  <2>4. ASSUME NEW j \in Invocations, NEW role \in {"boot", "child"},
               Invoke(j) \/ UiCloses(j) \/ Relaunch(j, role)
        PROVE  loads'[i] = loads[i] /\ \A q \in Mine(i) : outcome'[q] = outcome[q]
    BY <2>4 DEF Invoke, UiCloses, Relaunch, locking
  <2>5. ASSUME NEW o \in Others, TryAcquire(o)
        PROVE  loads'[i] = loads[i] /\ \A q \in Mine(i) : outcome'[q] = outcome[q]
    BY <1>2, <2>5 DEF TryAcquire, Reports, TypesOK, FlowTypeOK
  <2>6. CASE EditConfig \/ UNCHANGED vars
    BY <2>6 DEF EditConfig, vars, locking
  <2> QED
    BY <2>1, <2>2, <2>3, <2>4, <2>5, <2>6 DEF Next
<1> QED
  BY <1>1, <1>3 DEF Aside, SameReport

(* A process of this invocation crashes, or is started by hand.              *)
Disturbed(i) ==
  /\ \A q \in Mine(i) : /\ outcome'[q] = outcome[q]
                        /\ pc[q] = "ended" => pc'[q] = "ended"
                        /\ pc'[q] = pc[q] \/ pc'[q] = "crashed" \/ pc[q] = "off"
  /\ pc'[ChildOf(i)] = "off" <=> pc[ChildOf(i)] = "off"
  /\ session' = session /\ loads' = loads /\ ui' = ui

LEMMA DisturbedReports ==
  ASSUME IInv, NEW i \in Invocations, Disturbed(i), Published(i), Windowed(i)
  PROVE  Published(i)' /\ Windowed(i)' /\ (Honest(i) => Honest(i)')
<1>1. /\ ChildOf(i) \in Mine(i) /\ \A q \in OwnersOf(i) : q \in Mine(i) /\ q \in Procs
      /\ \A q \in ChildrenOf(i) : q \in Mine(i)
  BY Owners DEF Mine, Resumed
<1>2. \A q \in ChildrenOf(i) : pc[q] = "ended" => pc'[q] = "ended" /\ outcome'[q] = outcome[q]
  BY <1>1 DEF Disturbed
<1>3. Published(i)'
  BY <1>2, PublishedStays DEF Disturbed
<1>4. Windowed(i)'
  BY <1>1 DEF Windowed, Disturbed
<1>5. ASSUME Honest(i), NEW q \in OwnersOf(i), pc'[q] # "crashed", outcome'[q] \in Work
      PROVE  pc'[q] = "load" \/ (loads'[i] # 0 /\ ui'[i] = "none") \/ FromChild(i, q)'
  <2>1. outcome'[q] = outcome[q] /\ pc[q] # "off"
    BY <1>1, <1>5 DEF Disturbed, IInv, Unanswered, Early, Work
  <2>2. pc'[q] = pc[q]
    BY <1>1, <1>5, <2>1 DEF Disturbed
  <2>3. FromChild(i, q) => FromChild(i, q)'
    BY <1>2, <2>1, FromChildStays
  <2> QED
    BY <1>5, <2>1, <2>2, <2>3 DEF Honest, Disturbed
<1> QED
  BY <1>3, <1>4, <1>5 DEF Honest

LEMMA EnvironmentReports ==
  ASSUME IInv, TypesOK, NEW i \in Invocations, faulted \subseteq faulted', Reported(i), Relaunched(i),
         \/ \E role \in {"boot", "child"} : Relaunch(i, role)
         \/ \E p \in Sessions : Inv(p) = i /\ Crash(p)
  PROVE  Reported(i)'
<1>1. ChildOf(i) \in Procs /\ \A q \in Mine(i) : q \in Procs
  BY Family, Owners
<1>2. ASSUME NEW role \in {"boot", "child"}, Relaunch(i, role)
      PROVE  Disturbed(i) /\ Hit(i)' # {}
  <2> DEFINE again == <<i, IF role = "boot" THEN "boot again" ELSE "child again">>
  <2>1. /\ Goes(again, "claim") /\ pc[again] = "off" /\ session' = session /\ loads' = loads
        /\ ui' = ui /\ outcome' = outcome
    BY <1>2 DEF Relaunch, hosting, locking
  <2>2. again \in Mine(i) /\ again # ChildOf(i)
    BY DEF Mine, Resumed, BootsOf, ChildrenOf, ChildOf
  <2>3. <<i, role>> \in Sessions /\ Inv(<<i, role>>) = i
    BY Family DEF Mine, Resumed, BootsOf, ChildrenOf
  <2>4. "relaunch" \in Hit(i)'
    BY <1>2, <2>3, HitNow DEF Relaunch
  <2> HIDE DEF again
  <2>5. pc'[again] = "claim" /\ \A q \in Procs : q # again => pc'[q] = pc[q]
    BY <1>1, <2>1, <2>2, GoesOn DEF TypesOK
  <2> QED
    BY <1>1, <2>1, <2>2, <2>4, <2>5 DEF Disturbed
<1>3. ASSUME NEW p \in Sessions, Inv(p) = i, Crash(p)
      PROVE  Disturbed(i) /\ Hit(i)' # {}
  <2>1. pc'[p] = "crashed" /\ \A q \in Procs : q # p => pc'[q] = pc[q]
    BY <1>3, Places, GoesOn DEF Crash, TypesOK
  <2>2. "crash" \in Hit(i)'
    BY <1>3, HitNow DEF Crash
  <2> QED
    BY <1>1, <1>3, <2>1, <2>2 DEF Crash, Live, hosting, Disturbed
<1>4. Disturbed(i) /\ Hit(i)' # {}
  BY <1>2, <1>3
<1>5. Doubtful(i) => Doubtful(i)'
  BY DEF Doubtful
<1> QED
  BY <1>4, <1>5, DisturbedReports DEF Reported

LEMMA InvokeReports ==
  ASSUME IInv, TypesOK, NEW i \in Invocations, faulted \subseteq faulted', Reported(i),
         Doubtful(i) \/ OneRight(i), Misled(i) \/ Hosted(i), Relaunched(i), Invoke(i)
  PROVE  Reported(i)'
<1> DEFINE p == <<i, "parent">>
           c == ChildOf(i)
<1>1. /\ p \in OwnersOf(i) /\ p \in Procs /\ p \in Parents /\ c \in Procs /\ c # p
      /\ \A q \in Mine(i) : q \in Procs
      /\ \A q \in OwnersOf(i) : q \in Procs /\ q \in Mine(i)
      /\ \A q \in ChildrenOf(i) : q \in Procs /\ q # p
  BY Family, Owners DEF OwnersOf, Mine, Resumed
<1>2. /\ pc[p] = "off" /\ pc'[p] = "preview" /\ \A q \in Procs : q # p => pc'[q] = pc[q]
      /\ session' = session /\ ui' = ui /\ loads' = loads /\ outcome' = outcome
      /\ faulted' = faulted
  BY <1>1, GoesOn DEF Invoke, TypesOK, hosting, failing, locking
<1>3. Published(i)' /\ Windowed(i)' /\ (Honest(i) => Honest(i)')
  <2>1. Disturbed(i)
    BY <1>1, <1>2 DEF Disturbed
  <2> QED
    BY <2>1, DisturbedReports DEF Reported
<1>4. ASSUME Hit(i) = {} PROVE Smooth(i)'
  <2>1. Smooth(i) /\ OneRight(i) /\ Hosted(i)
    BY <1>4, DoubtMisleads DEF Reported, Misled
  <2>2. NoBoot(i) /\ NoChild(i)
    BY <1>1, <1>2, <2>1 DEF OneRight, ParentAlone, Right
  <2>3. pc'[c] = "off"
    BY <1>1, <1>2, <2>2, Owners DEF NoChild
  <2>4. \A q \in OwnersOf(i) : pc'[q] \in {"off", "preview"}
    BY <1>1, <1>2, <2>2 DEF NoBoot, OwnersOf
  <2>5. Unhurt(i)' /\ Watched(i)'
    BY <1>1, <1>2, <2>1, <2>3, Family DEF Smooth, Unhurt, Watched, Live, Mine, Resumed, BootsOf,
       ChildrenOf
  <2>6. \A q \in OwnersOf(i) : SmoothFor(i, q)'
    BY <2>4 DEF SmoothFor, Prepared, Watching, Relays, Done
  <2> QED
    BY <2>5, <2>6 DEF Smooth, SmoothFor
<1>5. Doubtful(i)' = Doubtful(i) /\ Hit(i)' = Hit(i)
  BY <1>2 DEF Doubtful, Hit
<1> QED
  BY <1>3, <1>4, <1>5 DEF Reported

LEMMA UiClosesReports ==
  ASSUME TypesOK, NEW i \in Invocations, Reported(i), UiCloses(i) PROVE Reported(i)'
<1>1. SameReport(i) /\ faulted' = faulted
  BY DEF UiCloses, SameReport, locking, failing, TypesOK, HostTypeOK
<1> QED
  BY <1>1, SameReportKeeps

LEMMA OwnStepReports ==
  ASSUME IInv, OInv, HInv, TypesOK, NEW p \in Sessions, Step(p), Reported(Inv(p)),
         faulted \subseteq faulted'
  PROVE  Reported(Inv(p))'
<1> DEFINE i == Inv(p)
<1>1. /\ i \in Invocations /\ p \in Procs /\ RoleOf(p) /\ Relaunched(i)
      /\ Doubtful(i) \/ OneRight(i)
  BY Kin, Places DEF OInv, Roles
<1>2. Published(i)' /\ Windowed(i)'
  BY ResultPublished DEF Reported
<1>3. Doubtful(i)' \/ Honest(i)'
  <2>1. CASE Doubtful(i)
    BY <2>1 DEF Doubtful
  <2>2. CASE ~Doubtful(i)
    BY <1>1, <2>2, OwnStepHonest DEF Reported
  <2> QED
    BY <2>1, <2>2
<1>4. ASSUME Hit(i)' = {} PROVE Smooth(i)'
  <2>1. Hit(i) = {} /\ \A k : ~Fault(p, k)
    BY <1>1, <1>4, HitGrows, NoFaultHere
  <2>2. Smooth(i) /\ OneRight(i) /\ Hosted(i)
    BY <1>1, <2>1, DoubtMisleads DEF Reported, Misled, HInv
  <2>3. CASE p \in Children
    BY <1>1, <2>1, <2>2, <2>3, ChildStepSmooth DEF Reported
  <2>4. CASE p \notin Children
    BY <1>1, <1>2, <2>1, <2>2, <2>4, OwnStepSmooth DEF Reported
  <2> QED
    BY <2>3, <2>4
<1> QED
  BY <1>2, <1>3, <1>4 DEF Reported

LEMMA PInvNext == IInv /\ OInv /\ HInv /\ PInv /\ [Next]_vars => PInv'
<1> SUFFICES ASSUME IInv, OInv, HInv, PInv, [Next]_vars, NEW i \in Invocations
             PROVE  Reported(i)'
  BY DEF PInv
<1>1. TypesOK /\ Reported(i) /\ faulted \subseteq faulted'
  BY TypeParts, FaultsStay DEF IInv, TypesOK, PInv
<1>2. (Doubtful(i) \/ OneRight(i)) /\ (Misled(i) \/ Hosted(i)) /\ Relaunched(i)
  BY DEF OInv, HInv
<1>3. ASSUME NEW p \in Sessions, Inv(p) = i, Step(p) PROVE Reported(i)'
  BY <1>1, <1>3, OwnStepReports
<1>4. CASE (\E role \in {"boot", "child"} : Relaunch(i, role)) \/ \E p \in Sessions : Inv(p) = i /\ Crash(p)
  BY <1>1, <1>2, <1>4, EnvironmentReports
<1>5. CASE Invoke(i)
  BY <1>1, <1>2, <1>5, InvokeReports
<1>6. CASE UiCloses(i)
  BY <1>1, <1>6, UiClosesReports
<1>7. CASE SameReport(i)
  BY <1>1, <1>7, SameReportKeeps
<1> QED
  BY <1>1, <1>3, <1>4, <1>5, <1>6, <1>7, AsideReports

LEMMA PInvInit == Init => PInv
<1> SUFFICES ASSUME Init, NEW i \in Invocations PROVE Reported(i)
  BY DEF PInv
<1>1. /\ \A q \in Mine(i) : pc[q] = "off" /\ outcome[q] = "none"
      /\ session[i] = NoSession /\ ui[i] = "none"
  BY Family DEF Init
<1>2. ChildOf(i) \in Mine(i) /\ \A q \in OwnersOf(i) : q \in Mine(i)
  BY Owners
<1>3. Published(i) /\ Windowed(i) /\ Honest(i)
  BY <1>1, <1>2 DEF Published, Windowed, Honest, NoSession, Work
<1>4. Unhurt(i) /\ Watched(i)
  BY <1>1, <1>2 DEF Unhurt, Watched, Live, Mine, Resumed, BootsOf, ChildrenOf
<1>5. \A q \in OwnersOf(i) : SmoothFor(i, q)
  BY <1>1, <1>2 DEF SmoothFor, Prepared, Watching, Relays, Done
<1> QED
  BY <1>3, <1>4, <1>5 DEF Reported, Smooth, SmoothFor

(* A process that hosted a child reports what the child reported: it reports *)
(* work only as the result of a child that has ended, waits for the result   *)
(* that is published before the window closes, and neither invents nor loses *)
(* one unless something failed (init_session.rs, consume_child_result).      *)
THEOREM HostRelaysItsChild == Spec => []HostReportsChild
<1>1. Init => IInv /\ OInv /\ HInv /\ PInv
  BY IInvInit, OInvInit, HInvInit, PInvInit
<1>2. IInv /\ OInv /\ HInv /\ PInv /\ [Next]_vars => (IInv /\ OInv /\ HInv /\ PInv)'
  BY IInvNext, OInvNext, HInvNext, PInvNext
<1>3. PInv => HostReportsChild
  <2> SUFFICES ASSUME PInv, NEW i \in Invocations, NEW p \in Parents \cup Boots,
                      Inv(p) = i, pc[p] = "ended", ui[i] # "none", ~Doubtful(i)
               PROVE  /\ outcome[p] \in {"ok", "failures"} =>
                           \E q \in Children : Inv(q) = i /\ outcome[q] = outcome[p]
                      /\ Hit(i) = {} /\ outcome[p] # "deferred" => outcome[p] = outcome[Child(p)]
    BY DEF HostReportsChild, Doubtful
  <2>1. p \in OwnersOf(i) /\ Child(p) = ChildOf(i)
    <3>1. p \in Sessions /\ p \notin Children
      BY Kin DEF Sessions
    <3> QED
      BY <3>1, OwnersAreNotChildren DEF Child, ChildOf
  <2>2. Honest(i) /\ (Hit(i) = {} => Smooth(i))
    BY DEF PInv, Reported
  <2>3. outcome[p] \in {"ok", "failures"} => FromChild(i, p)
    BY <2>1, <2>2 DEF Honest, Work
  <2>4. \A q \in ChildrenOf(i) : q \in Children /\ Inv(q) = i
    BY Family DEF Mine, Resumed
  <2>5. Hit(i) = {} /\ outcome[p] # "deferred" => outcome[p] = outcome[ChildOf(i)]
    BY <2>1, <2>2 DEF Smooth, Relays, Done
  <2> QED
    BY <2>1, <2>3, <2>4, <2>5 DEF FromChild
<1> QED
  BY <1>1, <1>2, <1>3, PTL DEF Spec
================================================================================
