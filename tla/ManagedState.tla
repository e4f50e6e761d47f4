---------------------------- MODULE ManagedState ----------------------------
(* What design.md promises of concurrent processes (4, Init Lock-Through-   *)
(* Load): one of them at a time owns the managed state, only the owner      *)
(* changes it, and ownership is given up before somebody else takes it.     *)
CONSTANTS Owners, Nobody, Versions
VARIABLES owner, version

Enter(p)  == owner = Nobody /\ owner' = p /\ version' = version
Change(p) == owner = p /\ owner' = p /\ version' \in Versions
Leave(p)  == owner = p /\ owner' = Nobody /\ version' = version

Init == owner = Nobody /\ version \in Versions
Next == \E p \in Owners : Enter(p) \/ Change(p) \/ Leave(p)
Spec == Init /\ [][Next]_<<owner, version>>
=============================================================================
