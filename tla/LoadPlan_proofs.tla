--------------------------- MODULE LoadPlan_proofs ---------------------------
(***************************************************************************)
(* What the reader of a load may rely on, for any documents, tmux files,   *)
(* predicates and scripts.  First the operators on sequences that the      *)
(* configuration and the plan are built with, then the inductive           *)
(* invariant, in parts: the configuration, the resolution, the process of  *)
(* a predicate, the commands that were run, and the shape of the plan.     *)
(***************************************************************************)
EXTENDS LoadPlan, FiniteSetTheorems, WellFoundedInduction, TLAPS

-----------------------------------------------------------------------------
(* Numbers in order.                                                        *)

LEMMA LeastOfNat ==
  ASSUME NEW T, T \subseteq Nat, T # {}
  PROVE  \E m \in T : \A x \in T : m <= x
<1>1. PICK m \in T : \A x \in T : ~(<<x, m>> \in OpToRel(<, Nat))
  BY NatLessThanWellFounded, WFMin
<1>2. OpToRel(<, Nat) = {z \in Nat \X Nat : z[1] < z[2]}
  BY Zenon DEF OpToRel
<1>3. \A x \in T : x \in Nat /\ m \in Nat /\ ~(x < m)
  <2>1. \A x \in T : x \in Nat /\ m \in Nat /\ (x < m => <<x, m>> \in OpToRel(<, Nat))
    BY <1>2
  <2> QED BY <1>1, <2>1, Zenon
<1>4. \A x \in T : m <= x
  BY <1>3
<1> QED BY <1>4

LEMMA LeastIn ==
  ASSUME NEW S, S \subseteq Nat, S # {}
  PROVE  Least(S) \in S
  BY LeastOfNat DEF Least

Below(S, x) == {y \in S : y < x}

LEMMA BelowFinite ==
  ASSUME NEW S, S \subseteq Nat, IsFiniteSet(S), NEW x
  PROVE  /\ IsFiniteSet(Below(S, x)) /\ Cardinality(Below(S, x)) \in Nat
         /\ Cardinality(S) \in Nat /\ Cardinality(Below(S, x)) <= Cardinality(S)
  BY FS_Subset, FS_CardinalityType DEF Below

(* Every place below the size of a set of numbers is the rank of one.       *)
LEMMA RankTaken ==
  ASSUME NEW S, S \subseteq Nat, IsFiniteSet(S)
  PROVE  \A k \in 1 .. Cardinality(S) : \E x \in S : Cardinality(Below(S, x)) = k - 1
<1> DEFINE T == {k \in 1 .. Cardinality(S) : ~\E x \in S : Cardinality(Below(S, x)) = k - 1}
<1> SUFFICES ASSUME T # {} PROVE FALSE
  OBVIOUS
<1>1. Cardinality(S) \in Nat /\ T \subseteq Nat
  BY FS_CardinalityType
<1>2. PICK k \in T : \A y \in T : k <= y
  <2> HIDE DEF T
  <2> QED BY <1>1, LeastOfNat
<1>3. k \in 1 .. Cardinality(S) /\ \A x \in S : Cardinality(Below(S, x)) # k - 1
  BY <1>2
<1>4. CASE k = 1
  <2>1. S # {}
    BY <1>3, <1>4, FS_EmptySet
  <2>2. PICK m \in S : \A y \in S : m <= y
    BY <2>1, LeastOfNat
  <2>3. \A y \in S : ~(y < m)
    BY <2>2
  <2>4. Below(S, m) = {}
    BY <2>3, Zenon DEF Below
  <2>5. Cardinality(Below(S, m)) = 0
    BY <2>4, FS_EmptySet, Zenon
  <2> QED BY <1>3, <1>4, <2>5
<1>5. CASE k # 1
  <2>1. k - 1 \in 1 .. Cardinality(S) /\ k - 1 \notin T
    BY <1>1, <1>2, <1>3, <1>5
  <2>2. PICK x \in S : Cardinality(Below(S, x)) = k - 2
    BY <2>1
  <2>3. IsFiniteSet(Below(S, x) \cup {x}) /\ Cardinality(Below(S, x) \cup {x}) = k - 1
    <3>1. x \notin Below(S, x)
      BY DEF Below
    <3>2. Cardinality(Below(S, x)) + 1 = k - 1
      BY <2>2, <1>1, <1>3, <1>5
    <3> QED BY <3>1, <3>2, BelowFinite, FS_AddElement
  <2>4. \E y \in S : y > x
    <3> SUFFICES ASSUME \A y \in S : ~(y > x) PROVE FALSE
      OBVIOUS
    <3>1. \A y \in S : y < x \/ y = x
      OBVIOUS
    <3>2. S = Below(S, x) \cup {x}
      BY <3>1, Zenon DEF Below
    <3>3. Cardinality(S) = k - 1
      BY <3>2, <2>3, Zenon
    <3> QED BY <3>3, <1>1, <1>3
  <2> DEFINE A == {y \in S : y > x}
  <2>5. PICK m \in A : \A y \in A : m <= y
    BY <2>4, LeastOfNat
  <2>6. \A y \in S : y < m <=> y < x \/ y = x
    <3>1. \A y \in S : y > x => m <= y
      BY <2>5
    <3>2. m \in Nat /\ x \in Nat /\ m > x
      BY <2>5
    <3> QED BY <3>1, <3>2
  <2>7. Below(S, m) = Below(S, x) \cup {x}
    BY <2>6, Zenon DEF Below
  <2>8. Cardinality(Below(S, m)) = k - 1
    BY <2>3, <2>7, Zenon
  <2> QED BY <1>3, <2>5, <2>8
<1> QED BY <1>4, <1>5

LEMMA SortedType ==
  ASSUME NEW S, S \subseteq Nat, IsFiniteSet(S)
  PROVE  Sorted(S) \in [1 .. Cardinality(S) -> S] /\ Cardinality(S) \in Nat
  BY RankTaken, FS_CardinalityType DEF Sorted, Below

(* The numbers of an interval are sorted by counting up.                    *)
LEMMA SortedInterval ==
  ASSUME NEW a \in Nat, NEW n \in Nat
  PROVE  /\ Cardinality(a + 1 .. a + n) = n
         /\ Sorted(a + 1 .. a + n) = [k \in 1 .. n |-> a + k]
<1> DEFINE S == a + 1 .. a + n
<1>1. IsFiniteSet(S) /\ Cardinality(S) = n
  BY FS_Interval
<1>2. \A x \in S : {y \in S : y < x} = a + 1 .. x - 1 /\ Cardinality({y \in S : y < x}) = x - 1 - a
  <2> TAKE x \in S
  <2>1. {y \in S : y < x} = a + 1 .. x - 1
    OBVIOUS
  <2>2. Cardinality(a + 1 .. x - 1) = x - 1 - a
    BY FS_Interval
  <2> QED BY <2>1, <2>2
<1>3. \A k \in 1 .. n : (CHOOSE x \in S : Cardinality({y \in S : y < x}) = k - 1) = a + k
  <2> TAKE k \in 1 .. n
  <2>1. a + k \in S /\ Cardinality({y \in S : y < a + k}) = k - 1
    BY <1>2
  <2>2. \A x \in S : Cardinality({y \in S : y < x}) = k - 1 => x = a + k
    BY <1>2
  <2> HIDE DEF S
  <2> QED BY <2>1, <2>2
<1> HIDE DEF S
<1>4. Sorted(S) = [k \in 1 .. n |-> a + k]
  BY <1>1, <1>3 DEF Sorted
<1> QED BY <1>1, <1>4 DEF S

LEMMA PlacesFinite ==
  ASSUME NEW X, NEW s \in Seq(X), NEW places, places \subseteq DOMAIN s
  PROVE  places \subseteq Nat /\ IsFiniteSet(places)
<1>1. DOMAIN s = 1 .. Len(s) /\ Len(s) \in Nat
  OBVIOUS
<1>2. IsFiniteSet(1 .. Len(s))
  BY <1>1, FS_Interval
<1> QED BY <1>1, <1>2, FS_Subset

(* What is picked from a sequence stood at one of the places.               *)
LEMMA PickedType ==
  ASSUME NEW X, NEW s \in Seq(X), NEW places, places \subseteq DOMAIN s
  PROVE  /\ Picked(s, places) \in Seq({s[k] : k \in places})
         /\ Picked(s, places) \in Seq(X)
         /\ Picked(s, places) # <<>> => Head(Picked(s, places)) \in X
<1>1. Sorted(places) \in [1 .. Cardinality(places) -> places] /\ Cardinality(places) \in Nat
  BY PlacesFinite, SortedType
<1>2. \A j \in 1 .. Cardinality(places) : s[Sorted(places)[j]] \in {s[k] : k \in places}
  BY <1>1
<1>3. {s[k] : k \in places} \subseteq X
  OBVIOUS
<1>4. Picked(s, places) \in [1 .. Cardinality(places) -> {s[k] : k \in places}]
  BY <1>2 DEF Picked
<1>5. Picked(s, places) \in Seq({s[k] : k \in places})
  BY <1>1, <1>4
<1>6. Picked(s, places) \in Seq(X)
  BY <1>3, <1>5
<1> QED BY <1>5, <1>6

(* The places of an interval pick the part of the sequence that is there.   *)
LEMMA PickedInterval ==
  ASSUME NEW s, NEW a \in Nat, NEW n \in Nat
  PROVE  Picked(s, a + 1 .. a + n) = [k \in 1 .. n |-> s[a + k]]
<1> DEFINE I == a + 1 .. a + n
<1>1. Cardinality(I) = n /\ Sorted(I) = [k \in 1 .. n |-> a + k]
  BY SortedInterval
<1>2. Picked(s, I) = [j \in 1 .. n |-> s[Sorted(I)[j]]]
  BY <1>1 DEF Picked
<1> QED BY <1>1, <1>2

-----------------------------------------------------------------------------
(* The parts of a flattened sequence, one after the other.                  *)

Joining(seqs, f, n) ==
  f = [i \in 1 .. n |-> IF i = 1 THEN seqs[i] ELSE f[i - 1] \o seqs[i]]

LEMMA JoinExists ==
  ASSUME NEW seqs, NEW n \in Nat
  PROVE  \E f : Joining(seqs, f, n)
<1> DEFINE T == {m \in Nat : ~\E f : Joining(seqs, f, m)}
<1> SUFFICES ASSUME T # {} PROVE FALSE
  OBVIOUS
<1>1. PICK m \in T : \A y \in T : m <= y
  BY LeastOfNat
<1>2. CASE m = 0
  <2>1. Joining(seqs, [i \in 1..0 |-> IF i = 1 THEN seqs[i] ELSE seqs[i]], 0)
    BY DEF Joining
  <2>2. QED BY <1>2, <2>1
<1>3. CASE m # 0
  <2>1. m - 1 \in Nat /\ m - 1 \notin T
    BY <1>1, <1>3
  <2>2. PICK f : Joining(seqs, f, m - 1)
    BY <2>1
  <2>3. \A i \in 1 .. m - 1 : f[i] = IF i = 1 THEN seqs[i] ELSE f[i - 1] \o seqs[i]
    BY <2>2 DEF Joining
  <2> DEFINE g == [i \in 1 .. m |-> IF i < m THEN f[i]
                                    ELSE IF i = 1 THEN seqs[i] ELSE f[i - 1] \o seqs[i]]
  <2>4. \A i \in 1 .. m : g[i] = IF i = 1 THEN seqs[i] ELSE g[i - 1] \o seqs[i]
    BY <1>1, <1>3, <2>3
  <2>5. g = [i \in 1 .. m |-> IF i = 1 THEN seqs[i] ELSE g[i - 1] \o seqs[i]]
    BY <2>4
  <2>6. QED BY <1>1, <2>5 DEF Joining
<1>4. QED BY <1>2, <1>3

LEMMA FlattenIs ==
  ASSUME NEW n \in Nat, n > 0, NEW seqs, DOMAIN seqs = 1 .. n, Len(seqs) = n
  PROVE  \E f : Joining(seqs, f, n) /\ FlattenSeq(seqs) = f[n]
<1> DEFINE fl[i \in 1..Len(seqs)] == IF i = 1 THEN seqs[i] ELSE fl[i-1] \o seqs[i]
<1>1. FlattenSeq(seqs) = fl[n]
  BY DEF FlattenSeq
<1>2. QED BY <1>1, JoinExists DEF Joining

(* The part of p in a whole: the places of an interval, and no other holds   *)
(* anything of p.                                                           *)
Located(all, part, p) ==
  \E off \in Nat :
    /\ off + Len(part) <= Len(all)
    /\ \A i \in 1 .. Len(part) : all[off + i] = part[i]
    /\ \A j \in 1 .. Len(all) : all[j].plugin = p <=> j \in off + 1 .. off + Len(part)

Placed(all, seqs, m, S) ==
  /\ all \in Seq(S)
  /\ \A j \in 1 .. Len(all) : all[j].plugin \in 1 .. m
  /\ \A p \in 1 .. m : Located(all, seqs[p], p)

Owned(seqs, n, S) ==
  /\ \A p \in 1 .. n : seqs[p] \in Seq(S)
  /\ \A p \in 1 .. n : \A i \in 1 .. Len(seqs[p]) : seqs[p][i].plugin = p

LEMMA PlacedFirst ==
  ASSUME NEW seqs, NEW n \in Nat, n > 0, NEW S, Owned(seqs, n, S)
  PROVE  Placed(seqs[1], seqs, 1, S)
<1>1. seqs[1] \in Seq(S) /\ \A i \in 1 .. Len(seqs[1]) : seqs[1][i].plugin = 1
  BY DEF Owned
<1>2. Located(seqs[1], seqs[1], 1)
  <2>1. Len(seqs[1]) \in Nat
    BY <1>1
  <2>2. /\ 0 \in Nat /\ 0 + Len(seqs[1]) <= Len(seqs[1])
        /\ \A i \in 1 .. Len(seqs[1]) : seqs[1][0 + i] = seqs[1][i]
        /\ \A j \in 1 .. Len(seqs[1]) : seqs[1][j].plugin = 1 <=> j \in 0 + 1 .. 0 + Len(seqs[1])
    BY <1>1, <2>1
  <2> QED BY <2>2 DEF Located
<1> QED BY <1>1, <1>2 DEF Placed

LEMMA PlacedNext ==
  ASSUME NEW seqs, NEW n \in Nat, NEW S, Owned(seqs, n, S),
         NEW m \in 1 .. n, m > 1, NEW all, Placed(all, seqs, m - 1, S)
  PROVE  Placed(all \o seqs[m], seqs, m, S)
<1> DEFINE more == seqs[m]
           whole == all \o more
<1>1. all \in Seq(S) /\ more \in Seq(S) /\ \A i \in 1 .. Len(more) : more[i].plugin = m
  BY DEF Owned, Placed
<1>2. /\ whole \in Seq(S) /\ Len(whole) = Len(all) + Len(more)
      /\ Len(all) \in Nat /\ Len(more) \in Nat
      /\ \A j \in 1 .. Len(all) : whole[j] = all[j]
      /\ \A j \in 1 .. Len(more) : whole[Len(all) + j] = more[j]
  BY <1>1
<1>3. \A j \in 1 .. Len(all) : all[j].plugin \in 1 .. m - 1
  BY DEF Placed
<1> HIDE DEF whole, more
<1>4. \A j \in 1 .. Len(whole) : j \notin 1 .. Len(all) => whole[j].plugin = m
  <2> SUFFICES ASSUME NEW j \in 1 .. Len(whole), j \notin 1 .. Len(all)
               PROVE  whole[j].plugin = m
    OBVIOUS
  <2>1. j - Len(all) \in 1 .. Len(more) /\ Len(all) + (j - Len(all)) = j
    BY <1>2
  <2> QED BY <1>1, <1>2, <2>1
<1>5. \A j \in 1 .. Len(whole) : whole[j].plugin \in 1 .. m
  BY <1>2, <1>3, <1>4
<1>6. Located(whole, more, m)
  <2>1. \A j \in 1 .. Len(whole) : whole[j].plugin = m <=> j \in Len(all) + 1 .. Len(all) + Len(more)
    <3> TAKE j \in 1 .. Len(whole)
    <3>1. CASE j \in 1 .. Len(all)
      BY <3>1, <1>2, <1>3
    <3>2. CASE j \notin 1 .. Len(all)
      BY <3>2, <1>2, <1>4
    <3> QED BY <3>1, <3>2
  <2>2. /\ Len(all) \in Nat /\ Len(all) + Len(more) <= Len(whole)
        /\ \A i \in 1 .. Len(more) : whole[Len(all) + i] = more[i]
    BY <1>2
  <2> QED BY <2>1, <2>2, Zenon DEF Located
<1>7. \A p \in 1 .. m - 1 : Located(whole, seqs[p], p)
  <2> TAKE p \in 1 .. m - 1
  <2>1. PICK off \in Nat :
          /\ off + Len(seqs[p]) <= Len(all)
          /\ \A i \in 1 .. Len(seqs[p]) : all[off + i] = seqs[p][i]
          /\ \A j \in 1 .. Len(all) : all[j].plugin = p <=> j \in off + 1 .. off + Len(seqs[p])
    BY DEF Placed, Located
  <2>2. Len(seqs[p]) \in Nat
    BY DEF Owned
  <2>3. \A i \in 1 .. Len(seqs[p]) : whole[off + i] = seqs[p][i]
    <3> TAKE i \in 1 .. Len(seqs[p])
    <3>1. off + i \in 1 .. Len(all)
      BY <1>2, <2>1, <2>2
    <3> QED BY <1>2, <2>1, <3>1
  <2>4. \A j \in 1 .. Len(whole) : whole[j].plugin = p <=> j \in off + 1 .. off + Len(seqs[p])
    <3> TAKE j \in 1 .. Len(whole)
    <3>1. CASE j \in 1 .. Len(all)
      BY <3>1, <1>2, <2>1
    <3>2. CASE j \notin 1 .. Len(all)
      BY <3>2, <1>2, <1>4, <2>1, <2>2
    <3> QED BY <3>1, <3>2
  <2>5. off + Len(seqs[p]) <= Len(whole)
    BY <1>2, <2>1, <2>2
  <2> QED BY <2>3, <2>4, <2>5, Zenon DEF Located
<1> QED BY <1>2, <1>5, <1>6, <1>7 DEF Placed, whole, more

LEMMA JoinedPlaced ==
  ASSUME NEW seqs, NEW n \in Nat, NEW S, Owned(seqs, n, S), NEW f, Joining(seqs, f, n)
  PROVE  \A m \in 1 .. n : Placed(f[m], seqs, m, S)
<1> DEFINE T == {m \in 1 .. n : ~Placed(f[m], seqs, m, S)}
<1> SUFFICES ASSUME T # {} PROVE FALSE
  OBVIOUS
<1>1. PICK m \in T : \A y \in T : m <= y
  <2>1. T \subseteq Nat
    OBVIOUS
  <2> HIDE DEF T
  <2> QED BY <2>1, LeastOfNat
<1>2. f[m] = IF m = 1 THEN seqs[m] ELSE f[m - 1] \o seqs[m]
  BY <1>1 DEF Joining
<1>3. CASE m = 1
  BY <1>1, <1>2, <1>3, PlacedFirst
<1>4. CASE m # 1
  <2>1. m - 1 \in 1 .. n /\ m - 1 \notin T /\ m > 1
    BY <1>1, <1>4
  <2>2. Placed(f[m - 1], seqs, m - 1, S)
    BY <2>1
  <2> QED BY <1>1, <1>2, <2>1, <2>2, PlacedNext
<1> QED BY <1>3, <1>4

LEMMA FlattenPlaced ==
  ASSUME NEW n \in Nat, NEW seqs, DOMAIN seqs = 1 .. n, Len(seqs) = n,
         seqs = [p \in 1 .. n |-> seqs[p]], NEW S, Owned(seqs, n, S)
  PROVE  Placed(FlattenSeq(seqs), seqs, n, S)
<1>1. CASE n = 0
  <2>1. FlattenSeq(seqs) = seqs /\ seqs = <<>>
    BY <1>1 DEF FlattenSeq
  <2>2. <<>> \in Seq(S) /\ Len(<<>>) = 0 /\ 1 .. 0 = {}
    OBVIOUS
  <2> QED BY <1>1, <2>1, <2>2, Zenon DEF Placed
<1>2. CASE n > 0
  <2>1. PICK f : Joining(seqs, f, n) /\ FlattenSeq(seqs) = f[n]
    BY <1>2, FlattenIs
  <2>2. Placed(f[n], seqs, n, S)
    BY <1>2, <2>1, JoinedPlaced
  <2> QED BY <2>1, <2>2
<1> QED BY <1>1, <1>2

-----------------------------------------------------------------------------
(* The inductive invariant.                                                 *)

Docs      == Documents \cup {<<>>, Template}
Lines     == ElementsOf(TmuxFiles)
Selectors ==
  {n.sel : n \in {m \in ElementsOf(Documents) : IsPlug(m)}}
    \cup {l.sel : l \in {m \in Lines : m.line = "plugin"}}
Stages    == ConfigStage \cup {"enabled", "cond", "if", "resolved", "failed"}
Runtimes  == Blocks \cup {<<>>}

SetupLine == {l \in Line : l.node = "setup"}
BindLine  == {l \in Line : l.node = "bind"}

Declared(n) ==   \* by a document of n nodes, or by a tmux file
  [id : Ids, remote : BOOLEAN, sel : Selectors, enabled : Conditions, cond : Conditions,
   runtime : Runtimes, place : 0 .. n]

(* The files are those of some user, and what was read of them has the shape *)
(* of a configuration.                                                      *)
CInv ==
  /\ intent \in Intents /\ mode \in {"pure", "mixed"} /\ tmup \in Files
  /\ \A f \in DOMAIN tmux : tmux[f] \in TmuxFiles
  /\ root \in {NoFile} \cup {Candidates[k] : k \in DOMAIN Candidates}
  /\ inputs \in Seq(Lines)
  /\ kdl \in Docs
  /\ declared \in Seq(Declared(Len(kdl)))
  /\ options \in BOOLEAN \X Nat

(* The resolution is about the plugins that were declared, and has not begun *)
(* as long as the configuration is read.                                    *)
RInv ==
  /\ stage \in Stages
  /\ failure \in {"none", "config", "spawn", "signal", "timeout", "monitor"}
  /\ stage = "failed" <=> failure # "none"
  /\ queue \subseteq Plugins /\ cur \in Plugins \cup {0}
  /\ enabled \subseteq Plugins /\ eligible \subseteq Plugins
  /\ todo \in Seq(ElementsOf(Blocks))
  /\ setup \in [DOMAIN setup -> Seq(SetupLine)] /\ bindings \in [DOMAIN setup -> Seq(BindLine)]
  /\ stage \in ConfigStage => cur = 0 /\ enabled = {} /\ eligible = {} /\ shell = Idle
  /\ stage \in {"enabled", "cond", "if", "resolved"} => DOMAIN setup = Plugins

(* Where the program is with the process of a predicate, and what it knows.  *)
PInv ==
  /\ shell \in [state : {"none", "running", "zero", "nonzero", "signal", "killed"},
                age : 0 .. Timeout, ended : 0 .. Timeout,
                step : {"poll", "sleep", "last", "kill"}]
  /\ asked \in Seq(Predicates) /\ answers \in [Predicates -> {"unasked", "zero", "nonzero"}]
  /\ shell.step = "sleep" => shell.age < Timeout
  /\ shell.step \in {"last", "kill"} => shell.age = Timeout
  /\ (shell.step = "kill" /\ shell.state \notin {"running", "killed"}) => shell.ended = Timeout
  /\ (stage # "failed" /\ shell.state # "none") => \E c \in Predicates : AtHand(c)
  /\ (stage = "failed" /\ failure # "monitor") => shell.state # "running"
  /\ failure = "timeout" => shell.step = "kill"

(* The session works on a plan once the conditions are resolved.             *)
Before   == step \in {"conditions", "plan", "global"} \/ outcome = "error"
Underway == step = "commands" \/ outcome \in {"ok", "failures"}

LInv ==
  /\ step \in {"conditions", "plan", "global", "commands", "ended"}
  /\ outcome \in {"none", "ok", "failures", "error"}
  /\ step = "ended" <=> outcome # "none"
  /\ excluded \subseteq Ids /\ unsynced \subseteq excluded /\ broken \subseteq Ids
  /\ plan \in Seq(Command) /\ next \in 1 .. Len(plan) + 1
  /\ failures \in Seq(1 .. Len(plan))
  /\ ran \in [DOMAIN plan -> {"no", "ok", "failed"}]
  /\ last \in [Names -> 0 .. Len(plan)]
  /\ step # "conditions" => stage = "resolved"
  /\ step \in {"conditions", "plan"} => plan = <<>>
  /\ Before => next = 1 /\ failures = <<>> /\ \A k \in DOMAIN plan : ran[k] = "no"
  /\ outcome \in {"ok", "failures"} => next > Len(plan)

(* Who is broken, and which commands were run.                               *)
JInv ==
  /\ \A k \in DOMAIN plan : ran[k] = "failed" <=> \E m \in DOMAIN failures : failures[m] = k
  /\ Underway =>
       /\ broken = excluded \cup {Owner(j) : j \in {i \in DOMAIN plan : ran[i] = "failed"}}
       /\ \A k \in DOMAIN plan : ran[k] # "no" <=> k < next /\ Ready(k)
  /\ outcome = "ok" => unsynced = {} /\ failures = <<>>

(* The plan: setup before scripts before bindings, and the setup of every    *)
(* eligible plugin in one piece and in its order.                           *)
Phased ==
  \A j, k \in DOMAIN plan : j < k =>
    /\ plan[k].kind = "setup" => plan[j].kind = "setup"
    /\ plan[j].kind = "bind" => plan[k].kind = "bind"

SetupOf(p) ==
  \E off \in 0 .. Len(plan) :
    /\ off + Len(setup[p]) <= Len(plan)
    /\ \A i \in 1 .. Len(setup[p]) : plan[off + i] = Commands(p, setup[p])[i]
    /\ \A j \in DOMAIN plan : plan[j].plugin = p /\ plan[j].kind = "setup"
                                 <=> j \in off + 1 .. off + Len(setup[p])

Named == \A k \in DOMAIN plan : plan[k].kind # "script" => plan[k].name \in Names

Planned == (step = "global" \/ Underway) => Phased /\ Named /\ \A p \in eligible : SetupOf(p)

Overridden ==
  Underway => \A k \in DOMAIN plan : (plan[k].kind = "bind" /\ ran[k] = "ok") =>
    /\ last[plan[k].name] >= k
    /\ plan[last[plan[k].name]].kind = "bind"

LoadInv == LInv /\ JInv /\ Planned /\ Overridden
IInv    == CInv /\ RInv /\ PInv /\ LoadInv /\ FirstStartUnseen

-----------------------------------------------------------------------------
(* The configuration.                                                       *)

LEMMA ElementIn ==
  ASSUME NEW S, NEW s \in S, NEW k \in DOMAIN s
  PROVE  s[k] \in ElementsOf(S)
  BY DEF ElementsOf

LEMMA FilesHold ==
  /\ {Absent, Cut, Whole(<<>>), Whole(Template)} \subseteq Files
  /\ \A doc \in Documents : Whole(doc) \in Files
  /\ \A file \in Files : file.doc \in Docs
<1>1. /\ {Absent, Cut, Whole(<<>>), Whole(Template)} \subseteq Files
      /\ \A doc \in Documents : Whole(doc) \in Files
  BY DEF Files
<1>2. Absent.doc = <<>> /\ Cut.doc = <<>>
  BY DEF Absent, Cut
<1>3. \A doc : Whole(doc).doc = doc
  BY DEF Whole
<1>4. \A file \in Files : file.doc \in Docs
  <2> SUFFICES ASSUME NEW file \in Files PROVE file.doc \in Docs
    OBVIOUS
  <2>1. CASE file \in {Absent, Cut}
    BY <1>2, <2>1 DEF Docs
  <2>2. CASE \E doc \in Docs : file = Whole(doc)
    BY <1>3, <2>2
  <2> QED BY <2>1, <2>2 DEF Files, Docs
<1> QED BY <1>1, <1>4

PlugNode(n) ==
  /\ n.id \in Ids /\ n.remote \in BOOLEAN /\ n.children \in Blocks /\ n.sel \in Selectors
  /\ n.enabled \in Conditions /\ n.cond \in Conditions

LEMMA DocShape ==
  ASSUME NEW doc \in Docs
  PROVE  /\ doc \in Seq({doc[k] : k \in DOMAIN doc})
         /\ DOMAIN doc = 1 .. Len(doc) /\ Len(doc) \in Nat
         /\ \A k \in DOMAIN doc : IsPlug(doc[k]) => PlugNode(doc[k])
         /\ \A k \in DOMAIN doc : IsOptions(doc[k]) => doc[k].value \in BOOLEAN \X Nat
<1>1. CASE doc \in Documents
  <2>1. doc \in Seq(ElementsOf(Documents))
    BY <1>1, ConfigurationAssumption
  <2>2. DOMAIN doc = 1 .. Len(doc) /\ Len(doc) \in Nat /\ doc \in Seq({doc[k] : k \in DOMAIN doc})
    BY <2>1
  <2>3. \A k \in DOMAIN doc : doc[k] \in ElementsOf(Documents)
    BY <1>1, ElementIn
  <2>4. \A n \in ElementsOf(Documents) : IsPlug(n) => PlugNode(n)
    BY ConfigurationAssumption DEF PlugNode, Selectors
  <2>5. \A n \in ElementsOf(Documents) : IsOptions(n) => n.value \in BOOLEAN \X Nat
    BY ConfigurationAssumption
  <2> QED BY <2>2, <2>3, <2>4, <2>5, Zenon
<1>2. CASE doc = <<>>
  BY <1>2
<1>3. CASE doc = Template
  <2> DEFINE node == [node |-> "options", value |-> <<TRUE, 16>>]
  <2>1. node.node = "options" /\ node.value = <<TRUE, 16>> /\ <<TRUE, 16>> \in BOOLEAN \X Nat
    <3>1. node.node = "options" /\ node.value = <<TRUE, 16>>
      BY Zenon
    <3> QED BY <3>1
  <2>2. doc = <<node>>
    BY <1>3 DEF Template
  <2> HIDE DEF node
  <2>3. DOMAIN doc = 1 .. Len(doc) /\ Len(doc) = 1 /\ doc[1] = node
    BY <2>2
  <2>4. doc \in Seq({doc[k] : k \in DOMAIN doc})
    BY <2>2, <2>3
  <2>5. \A k \in DOMAIN doc : ~IsPlug(doc[k]) /\ doc[k].value \in BOOLEAN \X Nat
    <3>1. \A k \in DOMAIN doc : doc[k] = node
      BY <2>3
    <3>2. ~IsPlug(node)
      BY <2>1 DEF IsPlug
    <3>3. node.value \in BOOLEAN \X Nat
      BY <2>1, Zenon
    <3> QED BY <3>1, <3>2, <3>3, Zenon
  <2> QED BY <2>3, <2>4, <2>5
<1> QED BY <1>1, <1>2, <1>3 DEF Docs

LEMMA DeclarationsType ==
  ASSUME NEW doc \in Docs
  PROVE  Declarations(doc) \in Seq(Declared(Len(doc)))
<1> DEFINE P == {k \in DOMAIN doc : IsPlug(doc[k])}
           places == Sorted(P)
<1>1. P \subseteq DOMAIN doc /\ P \subseteq Nat /\ IsFiniteSet(P)
  BY DocShape, PlacesFinite
<1>2. places \in [1 .. Cardinality(P) -> P] /\ Cardinality(P) \in Nat
  BY <1>1, SortedType
<1>3. \A k \in P : Declaration(doc, k) \in Declared(Len(doc))
  <2> TAKE k \in P
  <2>1. k \in DOMAIN doc /\ IsPlug(doc[k])
    OBVIOUS
  <2>2. PlugNode(doc[k]) /\ k \in 0 .. Len(doc)
    <3>1. PlugNode(doc[k])
      BY <2>1, DocShape, Zenon
    <3>2. DOMAIN doc = 1 .. Len(doc) /\ Len(doc) \in Nat
      BY DocShape
    <3> QED BY <2>1, <3>1, <3>2
  <2> QED BY <2>2 DEF Declaration, Declared, PlugNode, Runtimes
<1> HIDE DEF places, P
<1>4. [j \in DOMAIN places |-> Declaration(doc, places[j])] \in [1 .. Cardinality(P) -> Declared(Len(doc))]
  BY <1>2, <1>3
<1>5. [j \in DOMAIN places |-> Declaration(doc, places[j])] \in Seq(Declared(Len(doc)))
  BY <1>2, <1>4
<1> QED BY <1>5 DEF Declarations, places, P

PluginLines == {l \in Lines : l.line = "plugin"}

LEMMA ScannedType ==
  ASSUME inputs \in Seq(Lines)
  PROVE  Scanned \in Seq(PluginLines)
<1> DEFINE plugins == {k \in DOMAIN inputs : inputs[k].line = "plugin"}
           places  == {k \in plugins : \A j \in plugins : j < k => inputs[j].id # inputs[k].id}
<1>1. Picked(inputs, places) \in Seq({inputs[k] : k \in places})
  BY PickedType
<1>2. {inputs[k] : k \in places} \subseteq PluginLines
  BY DEF PluginLines
<1>3. Picked(inputs, places) \in Seq(PluginLines)
  BY <1>1, <1>2
<1> QED BY <1>3 DEF Scanned

LEMMA FromTpmType ==
  ASSUME NEW l \in PluginLines, NEW n \in Nat
  PROVE  FromTpm(l) \in Declared(n)
<1>1. l.id \in Ids
  BY ConfigurationAssumption DEF PluginLines, Lines
<1>2. l.sel \in Selectors /\ Always \in Conditions /\ <<>> \in Runtimes
  BY DEF PluginLines, Selectors, Conditions, Runtimes
<1> QED BY <1>1, <1>2 DEF FromTpm, Declared

LEMMA MergeType ==
  ASSUME NEW n \in Nat, NEW kdls \in Seq(Declared(n)), NEW tpms \in Seq(PluginLines)
  PROVE  Merge(kdls, tpms) \in Seq(Declared(n))
<1> DEFINE slot(l) == IF Matches(kdls, l) = {} THEN FromTpm(l)
                      ELSE kdls[CHOOSE k \in Matches(kdls, l) : TRUE]
           consumed == UNION {Matches(kdls, tpms[j]) : j \in DOMAIN tpms}
<1>1. \A l \in PluginLines : slot(l) \in Declared(n)
  <2> TAKE l \in PluginLines
  <2>1. CASE Matches(kdls, l) = {}
    BY <2>1, FromTpmType
  <2>2. CASE Matches(kdls, l) # {}
    <3>1. (CHOOSE k \in Matches(kdls, l) : TRUE) \in DOMAIN kdls
      BY <2>2 DEF Matches
    <3> QED BY <2>2, <3>1
  <2> QED BY <2>1, <2>2
<1>2. \A j \in DOMAIN tpms : tpms[j] \in PluginLines
  OBVIOUS
<1>3. Picked(kdls, DOMAIN kdls \ consumed) \in Seq(Declared(n))
  BY PickedType
<1>4. DOMAIN tpms = 1 .. Len(tpms) /\ Len(tpms) \in Nat
  OBVIOUS
<1> HIDE DEF slot
<1>5. [j \in DOMAIN tpms |-> slot(tpms[j])] \in [1 .. Len(tpms) -> Declared(n)]
  BY <1>1, <1>2, <1>4
<1>6. [j \in DOMAIN tpms |-> slot(tpms[j])] \in Seq(Declared(n))
  BY <1>4, <1>5
<1>7. Merge(kdls, tpms) = [j \in DOMAIN tpms |-> slot(tpms[j])] \o Picked(kdls, DOMAIN kdls \ consumed)
  BY DEF Merge, slot
<1> QED BY <1>3, <1>6, <1>7

LEMMA OptionsType ==
  ASSUME NEW doc \in Docs
  PROVE  OptionsOf(doc) \in BOOLEAN \X Nat
<1>1. CASE OptionNodes(doc) = {}
  BY <1>1 DEF OptionsOf, DefaultOptions
<1>2. CASE OptionNodes(doc) # {}
  <2>1. (CHOOSE k \in OptionNodes(doc) : TRUE) \in OptionNodes(doc)
    BY <1>2
  <2> QED BY <1>2, <2>1, DocShape DEF OptionsOf, OptionNodes
<1> QED BY <1>1, <1>2

LEMMA ExistingType ==
  ASSUME NEW places \in {Candidates, <<Head(Candidates)>>}, Existing(places) # <<>>
  PROVE  Head(Existing(places)) \in {Candidates[k] : k \in DOMAIN Candidates}
<1> DEFINE C == {Candidates[k] : k \in DOMAIN Candidates}
<1>1. Candidates \in Seq(C) /\ Candidates # <<>>
  <2>1. ElementsOf({Candidates}) = C
    BY DEF ElementsOf
  <2> QED BY <2>1, ConfigurationAssumption
<1>2. Head(Candidates) \in C
  BY <1>1
<1> HIDE DEF C
<1>3. places \in Seq(C)
  <2>1. <<Head(Candidates)>> \in Seq(C)
    BY <1>2
  <2> QED BY <1>1, <2>1
<1>4. Head(Picked(places, {k \in DOMAIN places : places[k] \in DOMAIN tmux})) \in C
  BY <1>3, PickedType DEF Existing
<1> QED BY <1>4 DEF Existing, C

LEMMA LoadsKeeps ==
  ASSUME CInv, NEW doc \in Docs, Loads(doc), UNCHANGED <<intent, mode, tmux>>
  PROVE  CInv'
<1>1. kdl' \in Docs /\ options' \in BOOLEAN \X Nat
  BY OptionsType DEF Loads
<1>2. Len(doc) \in Nat /\ Declarations(doc) \in Seq(Declared(Len(doc)))
  BY DocShape, DeclarationsType
<1>3. declared' \in Seq(Declared(Len(doc)))
  <2>1. Scanned \in Seq(PluginLines)
    BY ScannedType DEF CInv
  <2> QED BY <1>2, <2>1, MergeType DEF Loads
<1>4. declared' \in Seq(Declared(Len(kdl))')
  BY <1>3 DEF Loads, Declared, Selectors, Runtimes, Conditions, Lines
<1> QED BY <1>1, <1>4 DEF CInv, Loads, scan, Lines, Docs, Declared

LEMMA CInvInit == CondInit => CInv
<1> SUFFICES ASSUME CondInit PROVE CInv
  OBVIOUS
<1>1. \A f \in DOMAIN tmux : tmux[f] \in TmuxFiles
  BY DEF CondInit, ConfigInit, TmuxFiles
<1>2. DefaultOptions \in BOOLEAN \X Nat
  BY DEF DefaultOptions
<1>3. <<>> \in Seq(Lines) /\ <<>> \in Docs /\ <<>> \in Seq(Declared(Len(<<>>)))
  BY DEF Docs
<1> QED BY <1>1, <1>2, <1>3 DEF CondInit, ConfigInit, CInv

(* Every step of the command on its configuration, and of those around it.  *)
LEMMA ConfigKeeps ==
  ASSUME CInv, LoadConfig \/ LoadConfigFails \/ Around
  PROVE  CInv'
<1> USE FilesHold DEF CInv, scan, merged
<1>1. CASE Found
  BY <1>1 DEF Found, GoesTo
<1>2. CASE Create
  BY <1>2 DEF Create, GoesTo
<1>3. CASE WriteTemplate
  BY <1>3 DEF WriteTemplate, GoesTo, Written
<1>4. CASE Discover
  <2>1. root' \in {NoFile} \cup {Candidates[k] : k \in DOMAIN Candidates}
    BY <1>4, ExistingType DEF Discover
  <2> QED BY <1>4, <2>1 DEF Discover, GoesTo
<1>5. CASE ReadRoot
  <2>1. inputs' \in Seq(Lines)
    BY <1>5, ConfigurationAssumption DEF ReadRoot, Lines
  <2> QED BY <1>5, <2>1 DEF ReadRoot, GoesTo
<1>6. CASE Expand
  BY <1>6 DEF Expand, GoesTo
<1>7. CASE Open
  <2>1. tmux[Head(paths)] \in Seq(Lines)
    BY <1>7, ConfigurationAssumption DEF Open, Lines
  <2> QED BY <1>7, <2>1 DEF Open
<1>8. CASE OpenMissing
  BY <1>8 DEF OpenMissing
<1>9. CASE Opened
  BY <1>9 DEF Opened, GoesTo
<1>10. CASE ScanEnds
  BY <1>10 DEF ScanEnds, GoesTo
<1>11. CASE ReadKdl
  BY <1>11, LoadsKeeps DEF ReadKdl, GoesTo
<1>12. CASE UseDefault
  <2>1. Template \in Docs
    BY DEF Docs
  <2> QED BY <1>12, <2>1, LoadsKeeps DEF UseDefault, GoesTo
<1>13. CASE LoadConfigFails
  <2>1. /\ UNCHANGED <<intent, mode, tmux, root, inputs, kdl, declared, options>>
        /\ tmup' \in Files
    BY <1>13 DEF LoadConfigFails, CreateFails, WriteFails, ReadRootFails, ExpandFails, OpenFails, ScanFails,
                 ReadKdlFails, FailsToLoad, Written
  <2> QED BY <2>1
<1>14. CASE Around
  <2>1. UNCHANGED <<intent, mode, root, inputs, kdl, declared, options>>
    BY <1>14 DEF Around, UserWrites, UserRemoves, AnotherCreates, TmuxFileGoes, Meanwhile
  <2>2. tmup' \in Files
    BY <1>14 DEF Around, UserWrites, UserRemoves, AnotherCreates, TmuxFileGoes, Meanwhile
  <2>3. \A f \in DOMAIN tmux' : tmux'[f] \in TmuxFiles
    BY <1>14 DEF Around, UserWrites, UserRemoves, AnotherCreates, TmuxFileGoes, Meanwhile
  <2> QED BY <2>1, <2>2, <2>3
<1> QED BY <1>1, <1>2, <1>3, <1>4, <1>5, <1>6, <1>7, <1>8, <1>9, <1>10, <1>11, <1>12, <1>13, <1>14
        DEF LoadConfig

(* What a step on the configuration does to the rest.                       *)
LEMMA LoadConfigMoves ==
  ASSUME LoadConfig
  PROVE  /\ stage \in ConfigStage /\ stage' \in ConfigStage \cup {"enabled"} /\ failure' = failure
         /\ stage' # "enabled" => UNCHANGED merged
         /\ stage' = "enabled" => \E doc : Loads(doc) /\ doc \in {tmup.doc, Template}
<1> USE DEF ConfigStage, GoesTo, AfterCreation
<1>1. CASE Found
  BY <1>1 DEF Found
<1>2. CASE Create
  BY <1>2 DEF Create
<1>3. CASE WriteTemplate
  BY <1>3 DEF WriteTemplate
<1>4. CASE Discover
  BY <1>4 DEF Discover
<1>5. CASE ReadRoot
  BY <1>5 DEF ReadRoot
<1>6. CASE Expand
  BY <1>6 DEF Expand
<1>7. CASE Open
  BY <1>7 DEF Open
<1>8. CASE OpenMissing
  BY <1>8 DEF OpenMissing
<1>9. CASE Opened
  BY <1>9 DEF Opened
<1>10. CASE ScanEnds
  BY <1>10 DEF ScanEnds
<1>11. CASE ReadKdl
  BY <1>11 DEF ReadKdl
<1>12. CASE UseDefault
  BY <1>12 DEF UseDefault
<1> QED BY <1>1, <1>2, <1>3, <1>4, <1>5, <1>6, <1>7, <1>8, <1>9, <1>10, <1>11, <1>12 DEF LoadConfig

LEMMA LoadConfigStops ==
  ASSUME LoadConfigFails
  PROVE  stage \in ConfigStage /\ stage' = "failed" /\ failure' = "config" /\ UNCHANGED merged
  BY DEF LoadConfigFails, CreateFails, WriteFails, ReadRootFails, ExpandFails, OpenFails, ScanFails,
         ReadKdlFails, FailsToLoad, ConfigStage

LEMMA AroundMoves ==
  ASSUME Around
  PROVE  stage \in ConfigStage /\ UNCHANGED <<stage, failure, merged>>
  BY DEF Around, UserWrites, UserRemoves, AnotherCreates, TmuxFileGoes, Meanwhile

-----------------------------------------------------------------------------
(* The resolution.                                                          *)

LEMMA PluginFacts ==
  ASSUME CInv
  PROVE  /\ Plugins = 1 .. Len(declared) /\ Len(declared) \in Nat
         /\ Plugins \subseteq Nat /\ 0 \notin Plugins
         /\ \A p \in Plugins : /\ declared[p].id \in Ids /\ declared[p].place \in 0 .. Len(kdl)
                               /\ {declared[p].enabled, declared[p].cond} \subseteq Conditions
                               /\ declared[p].runtime \in Seq(ElementsOf(Blocks))
<1>1. declared \in Seq(Declared(Len(kdl)))
  BY DEF CInv
<1>2. \A p \in Plugins : declared[p] \in Declared(Len(kdl))
  BY <1>1 DEF Plugins
<1>3. Plugins = 1 .. Len(declared) /\ Len(declared) \in Nat
  BY <1>1 DEF Plugins
<1>4. Runtimes \subseteq Seq(ElementsOf(Blocks))
  <2>1. Blocks \subseteq Seq(ElementsOf(Blocks))
    BY ConfigurationAssumption
  <2>2. <<>> \in Seq(ElementsOf(Blocks))
    OBVIOUS
  <2> QED BY <2>1, <2>2, Zenon DEF Runtimes
<1>5. \A d \in Declared(Len(kdl)) :
        /\ d.id \in Ids /\ d.place \in 0 .. Len(kdl) /\ {d.enabled, d.cond} \subseteq Conditions
        /\ d.runtime \in Runtimes
  BY DEF Declared
<1> QED BY <1>2, <1>3, <1>4, <1>5


(* What a branch leaves to do consists of nodes, too.                       *)
LEMMA SelectedType ==
  ASSUME todo \in Seq(Nodes), Branch, NEW yes \in BOOLEAN
  PROVE  Selected(yes) \in Seq(Nodes)
<1>1. Blocks \subseteq Seq(Nodes) /\ <<>> \in Seq(Nodes)
  BY ConfigurationAssumption DEF Nodes
<1>2. \A n \in Nodes : IsBranch(n) => n.children \in Seq(Nodes)
  BY <1>1, ConfigurationAssumption DEF Nodes
<1>3. todo # <<>> /\ Head(todo) \in Nodes /\ IsBranch(Head(todo)) /\ Tail(todo) \in Seq(Nodes)
  BY DEF Branch, IsBranch
<1>4. AfterBranch(todo) \in Seq(Nodes)
  <2>1. CASE Len(todo) > 1
    <3>1. Tail(todo) # <<>> /\ Tail(Tail(todo)) \in Seq(Nodes)
      BY <1>3, <2>1
    <3> QED BY <1>3, <3>1 DEF AfterBranch
  <2>2. CASE ~(Len(todo) > 1)
    BY <1>3, <2>2 DEF AfterBranch
  <2> QED BY <2>1, <2>2
<1>5. ElseOf(todo) \in Seq(Nodes)
  <2>1. CASE Len(todo) > 1 /\ todo[2].node = "else"
    <3>1. todo[2] \in Nodes /\ IsBranch(todo[2])
      BY <2>1 DEF IsBranch
    <3> QED BY <1>2, <2>1, <3>1 DEF ElseOf
  <2>2. CASE ~(Len(todo) > 1 /\ todo[2].node = "else")
    BY <1>1, <2>2 DEF ElseOf
  <2> QED BY <2>1, <2>2
<1>6. Head(todo).children \in Seq(Nodes)
  BY <1>2, <1>3
<1> QED BY <1>4, <1>5, <1>6 DEF Selected

LEMMA RInvInit == Init => RInv
<1>1. /\ {} \subseteq Plugins /\ <<>> \in Seq(ElementsOf(Blocks)) 
      /\ <<>> \in [DOMAIN <<>> -> Seq(SetupLine)] /\ <<>> \in [DOMAIN <<>> -> Seq(BindLine)]
  OBVIOUS
<1> QED BY <1>1 DEF Init, CondInit, ConfigInit, RInv, Stages, ConfigStage

LEMMA AnsweredKeeps ==
  ASSUME CInv, RInv, NEW yes \in BOOLEAN, Answered(yes), cur # 0,
         stage \in {"enabled", "cond", "if"}, stage = "if" => Branch
  PROVE  RInv'
<1>1. UNCHANGED <<stage, failure, queue, setup, bindings, declared>>
  BY DEF Answered, loaded, selected, merged
<1>2. enabled' \subseteq Plugins /\ eligible' \subseteq Plugins /\ cur' \in Plugins \cup {0}
  BY DEF Answered, RInv
<1>3. todo' \in Seq(ElementsOf(Blocks))
  BY SelectedType DEF Answered, RInv, Nodes
<1>4. stage \notin ConfigStage
  BY DEF ConfigStage
<1> QED BY <1>1, <1>2, <1>3, <1>4 DEF RInv, Plugins

LEMMA FailsKeeps ==
  ASSUME CInv, RInv, stage \notin ConfigStage, stage # "failed",
         NEW reason \in {"spawn", "signal", "timeout", "monitor"}, Fails(reason)
  PROVE  RInv'
  BY DEF Fails, RInv, loaded, merged, verdict, selected, Plugins, Stages, ConfigStage

(* The steps of a resolution once the configuration is loaded.              *)
Resolving ==
  \/ Take \/ EndStage \/ Literal \/ Project \/ Projected
  \/ \E c \in Predicates : Spawn(c) \/ SpawnFails(c)
  \/ Poll \/ Wake \/ PollLast \/ Kill \/ MonitorFails
  \/ \E status \in {"zero", "nonzero", "signal"} : Exits(status)

LEMMA TakeKeeps == ASSUME CInv, RInv, Take PROVE RInv'
<1>1. cur' \in queue /\ cur' \in Plugins
  BY LeastIn, PluginFacts DEF Take, RInv
<1>2. todo' \in Seq(ElementsOf(Blocks))
  BY <1>1, PluginFacts DEF Take
<1>3. stage \notin ConfigStage
  BY DEF Take, ConfigStage
<1> QED BY <1>1, <1>2, <1>3 DEF Take, RInv, loaded, merged, verdict, selected, Plugins

LEMMA EndStageKeeps == ASSUME CInv, RInv, EndStage PROVE RInv'
<1>1. stage' \in {"cond", "if", "resolved"} /\ stage # "failed" /\ stage \notin ConfigStage
  BY DEF EndStage, NextStage, ConfigStage
<1>2. queue' \subseteq Plugins
  BY <1>1 DEF EndStage, RInv
<1>3. stage' \in Stages /\ stage' \notin ConfigStage
  BY <1>1 DEF Stages, ConfigStage
<1> QED BY <1>1, <1>2, <1>3 DEF EndStage, RInv, loaded, merged, verdict, selected, Plugins

LEMMA LiteralKeeps == ASSUME CInv, RInv, Literal PROVE RInv'
<1>1. PICK c \in {Always, Never} : AtHand(c) /\ Answered(c = Always)
  BY DEF Literal
<1>2. (c = Always) \in BOOLEAN /\ cur # 0 /\ stage \in {"enabled", "cond", "if"} /\ (stage = "if" => Branch)
  BY <1>1 DEF AtHand
<1> QED BY <1>1, <1>2, AnsweredKeeps

LEMMA ProjectKeeps == ASSUME CInv, RInv, Project PROVE RInv'
<1>1. todo \in Seq(ElementsOf(Blocks)) /\ todo # <<>> /\ stage = "if" /\ cur \in Plugins
  BY DEF Project, RInv
<1>2. Head(todo) \in ElementsOf(Blocks) /\ todo' \in Seq(ElementsOf(Blocks))
  BY <1>1 DEF Project
<1>3. /\ Head(todo).node = "setup" => Head(todo) \in SetupLine
      /\ Head(todo).node = "bind" => Head(todo) \in BindLine
  BY <1>2, LoadPlanAssumption DEF SetupLine, BindLine
<1>4. DOMAIN setup = Plugins /\ setup \in [Plugins -> Seq(SetupLine)] /\ bindings \in [Plugins -> Seq(BindLine)]
  BY <1>1 DEF RInv
<1>5. setup' \in [Plugins -> Seq(SetupLine)] /\ DOMAIN setup' = Plugins
  <2>1. CASE Head(todo).node = "setup"
    <3>1. Append(setup[cur], Head(todo)) \in Seq(SetupLine)
      BY <1>1, <1>3, <1>4, <2>1
    <3> QED BY <1>1, <1>4, <2>1, <3>1 DEF Project
  <2>2. CASE Head(todo).node # "setup"
    BY <1>4, <2>2 DEF Project
  <2> QED BY <2>1, <2>2
<1>6. bindings' \in [Plugins -> Seq(BindLine)]
  <2>1. CASE Head(todo).node = "bind"
    <3>1. Append(bindings[cur], Head(todo)) \in Seq(BindLine)
      BY <1>1, <1>3, <1>4, <2>1
    <3> QED BY <1>1, <1>4, <2>1, <3>1 DEF Project
  <2>2. CASE Head(todo).node # "bind"
    BY <1>4, <2>2 DEF Project
  <2> QED BY <2>1, <2>2
<1>7. UNCHANGED <<stage, failure, queue, cur, enabled, eligible, declared>>
  BY DEF Project, loaded, merged, verdict
<1> QED BY <1>1, <1>2, <1>5, <1>6, <1>7 DEF RInv, Plugins, ConfigStage

LEMMA SettlesKeeps == ASSUME CInv, RInv, PInv, stage # "failed", Settles PROVE RInv'
<1>1. shell.state # "none"
  BY DEF Settles
<1>2. PICK c \in Predicates : AtHand(c)
  BY <1>1 DEF PInv
<1>3. cur # 0 /\ stage \in {"enabled", "cond", "if"} /\ (stage = "if" => Branch)
  BY <1>2 DEF AtHand
<1>4. stage \notin ConfigStage
  BY <1>3 DEF ConfigStage
<1>5. CASE Fails("signal")
  BY <1>4, <1>5, FailsKeeps
<1>6. CASE Answered(shell.state = "zero")
  <2>1. (shell.state = "zero") \in BOOLEAN
    OBVIOUS
  <2> QED BY <1>3, <1>6, <2>1, AnsweredKeeps
<1> QED BY <1>5, <1>6 DEF Settles

LEMMA ShellKeeps ==   \* a step of the process, or of the program that watches it
  ASSUME CInv, RInv,
         UNCHANGED <<loaded, stage, queue, cur, todo, verdict, selected, failure>>,
         stage \in ConfigStage => shell' = shell
  PROVE  RInv'
  BY DEF RInv, loaded, merged, verdict, selected, Plugins

LEMMA ResolvingKeeps == ASSUME CInv, RInv, PInv, Resolving PROVE RInv'
<1>0. stage \in ConfigStage => shell.state = "none" /\ cur = 0
  BY DEF RInv, Idle
<1>1. CASE Take
  BY <1>1, TakeKeeps
<1>2. CASE EndStage
  BY <1>2, EndStageKeeps
<1>3. CASE Literal
  BY <1>3, LiteralKeeps
<1>4. CASE Project
  BY <1>4, ProjectKeeps
<1>5. CASE Projected
  BY <1>5 DEF Projected, RInv, loaded, merged, verdict, selected, Plugins, ConfigStage
<1>6. ASSUME NEW c \in Predicates, Spawn(c) PROVE RInv'
  BY <1>0, <1>6, ShellKeeps DEF Spawn, AtHand
<1>7. ASSUME NEW c \in Predicates, SpawnFails(c) PROVE RInv'
  <2>1. stage \notin ConfigStage /\ stage # "failed"
    BY <1>7 DEF SpawnFails, AtHand, ConfigStage
  <2> QED BY <1>7, <2>1, FailsKeeps DEF SpawnFails
<1>8. CASE Poll
  BY <1>0, <1>8, SettlesKeeps, ShellKeeps DEF Poll, Polling, Steps
<1>9. CASE Wake
  BY <1>0, <1>9, ShellKeeps DEF Wake, Polling
<1>10. CASE PollLast
  BY <1>0, <1>10, SettlesKeeps, ShellKeeps DEF PollLast, Polling, Steps
<1>11. CASE Kill
  BY <1>0, <1>11, FailsKeeps DEF Kill, Polling
<1>12. CASE MonitorFails
  BY <1>0, <1>12, FailsKeeps DEF MonitorFails, Polling
<1>13. ASSUME NEW status \in {"zero", "nonzero", "signal"}, Exits(status) PROVE RInv'
  BY <1>0, <1>13, ShellKeeps DEF Exits
<1> QED BY <1>1, <1>2, <1>3, <1>4, <1>5, <1>6, <1>7, <1>8, <1>9, <1>10, <1>11, <1>12, <1>13
        DEF Resolving

LEMMA ConfiguringKeeps ==
  ASSUME CInv, RInv, Configure \/ ConfigureFails \/ OthersWrite
  PROVE  RInv'
<1>0. stage \in ConfigStage => stage # "failed"
  BY DEF ConfigStage
<1>1. CASE Configure /\ stage' = "enabled"
  <2>1. stage \in ConfigStage /\ UNCHANGED failure
    BY <1>1, LoadConfigMoves DEF Configure
  <2>2. /\ queue' = Plugins' /\ setup' = [p \in Plugins' |-> <<>>] /\ bindings' = setup'
        /\ UNCHANGED <<cur, todo, enabled, eligible>>
    BY <1>1 DEF Configure, verdict
  <2>3. cur = 0 /\ enabled = {} /\ eligible = {}
    BY <2>1 DEF RInv
  <2>4. /\ setup' \in [Plugins' -> Seq(SetupLine)] /\ DOMAIN setup' = Plugins'
        /\ bindings' \in [Plugins' -> Seq(BindLine)]
    BY <2>2
  <2> QED BY <1>0, <1>1, <2>1, <2>2, <2>3, <2>4 DEF RInv, Stages, ConfigStage
<1>2. CASE Configure /\ stage' # "enabled"
  <2>1. stage \in ConfigStage /\ stage' \in ConfigStage /\ UNCHANGED <<failure, declared>>
    BY <1>2, LoadConfigMoves DEF Configure, merged
  <2>2. UNCHANGED <<queue, setup, bindings, cur, todo, enabled, eligible, shell>>
    BY <1>2 DEF Configure, verdict, selected
  <2> QED BY <1>0, <1>2, <2>1, <2>2 DEF RInv, Stages, Plugins, ConfigStage
<1>3. CASE ConfigureFails
  <2>1. stage \in ConfigStage /\ stage' = "failed" /\ failure' = "config" /\ UNCHANGED declared
    BY <1>3, LoadConfigStops DEF ConfigureFails, merged
  <2>2. UNCHANGED <<queue, setup, bindings, cur, todo, enabled, eligible, shell>>
    BY <1>3 DEF ConfigureFails, verdict, selected
  <2> QED BY <2>1, <2>2 DEF RInv, Stages, Plugins, ConfigStage
<1>4. CASE OthersWrite
  <2>1. UNCHANGED <<stage, failure, declared>>
    BY <1>4, AroundMoves DEF OthersWrite, merged
  <2>2. UNCHANGED <<queue, setup, bindings, cur, todo, enabled, eligible, shell>>
    BY <1>4 DEF OthersWrite, verdict, selected
  <2> QED BY <2>1, <2>2 DEF RInv, Plugins
<1> QED BY <1>1, <1>2, <1>3, <1>4

-----------------------------------------------------------------------------
(* The process of a predicate.                                              *)

LEMMA IdleShell ==
  /\ Idle.state = "none" /\ Idle.age = 0 /\ Idle.step = "poll" /\ Idle.ended = 0
  /\ Idle \in [state : {"none", "running", "zero", "nonzero", "signal", "killed"},
               age : 0 .. Timeout, ended : 0 .. Timeout,
               step : {"poll", "sleep", "last", "kill"}]
  BY ConditionsAssumption DEF Idle

(* With the process gone there is nothing to know about it.                  *)
LEMMA PInvIdle ==
  ASSUME PInv, shell' = Idle, asked' = asked,
         answers' \in [Predicates -> {"unasked", "zero", "nonzero"}], failure' # "timeout"
  PROVE  PInv'
  BY IdleShell DEF PInv

LEMMA PInvInit == Init => PInv
  BY IdleShell DEF Init, CondInit, ConfigInit, PInv

LEMMA AtHandSame ==
  ASSUME NEW c, AtHand(c), UNCHANGED <<stage, cur, todo, declared>>
  PROVE  AtHand(c)'
  BY DEF AtHand, Branch

(* Where nothing about the process changes.                                  *)
LEMMA PInvAside ==
  ASSUME PInv, UNCHANGED <<shell, asked, answers>>,
         failure' # "timeout" \/ UNCHANGED failure,
         stage' # "failed" => shell.state = "none",
         stage' = "failed" => shell.state = "none" \/ failure' = "monitor" \/ UNCHANGED <<stage, failure>>
  PROVE  PInv'
  BY DEF PInv

LEMMA SettlesPInv == ASSUME RInv, PInv, stage # "failed", Settles PROVE PInv'
<1>1. failure = "none"
  BY DEF RInv
<1>2. CASE Fails("signal") /\ shell.state = "signal" /\ UNCHANGED shell
  BY <1>2 DEF Fails, PInv, record
<1>3. CASE shell.state \in {"zero", "nonzero"} /\ shell' = Idle /\ Answered(shell.state = "zero")
             /\ answers' = [answers EXCEPT ![asked[Len(asked)]] = shell.state]
  <2>1. answers' \in [Predicates -> {"unasked", "zero", "nonzero"}]
    BY <1>3 DEF PInv
  <2> QED BY <1>1, <1>3, <2>1, PInvIdle DEF Answered
<1> QED BY <1>2, <1>3 DEF Settles

LEMMA StepsPInv ==
  ASSUME PInv, NEW to \in {"last", "sleep", "kill"}, Steps(to), stage # "failed", failure = "none",
         shell.state = "running",
         to = "sleep" => shell.age < Timeout, to # "sleep" => shell.age = Timeout
  PROVE  PInv'
<1>1. UNCHANGED <<stage, failure, cur, todo, declared, asked, answers>>
  BY DEF Steps, loaded, merged, record
<1>2. shell' = [shell EXCEPT !.step = to]
  BY DEF Steps
<1>3. \E c \in Predicates : AtHand(c)'
  BY <1>1, AtHandSame DEF PInv
<1> QED BY <1>1, <1>2, <1>3 DEF PInv

LEMMA ResolvingPInv == ASSUME CInv, RInv, PInv, Resolving PROVE PInv'
<1>0. Timeout \in Nat /\ shell.age \in 0 .. Timeout
  BY ConditionsAssumption DEF PInv
<1>01. stage # "failed" => failure = "none"
  BY DEF RInv
<1>02. cur = 0 => ~\E c \in Predicates : AtHand(c)
  BY DEF AtHand
<1>1. CASE Take
  BY <1>1, <1>01, <1>02, PInvAside DEF Take, record, PInv
<1>2. CASE EndStage
  BY <1>2, <1>01, <1>02, PInvAside DEF EndStage, NextStage, record, PInv
<1>3. CASE Literal
  <2>1. PICK c \in {Always, Never} : AtHand(c) /\ Answered(c = Always)
    BY <1>3 DEF Literal
  <2>2. stage # "failed" /\ UNCHANGED <<stage, failure, shell, asked, answers>>
    BY <1>3, <2>1 DEF Literal, Answered, AtHand
  <2>3. ~\E d \in Predicates : AtHand(d)
    BY <2>1, ConfigurationAssumption DEF AtHand
  <2> QED BY <1>01, <2>2, <2>3, PInvAside DEF PInv
<1>4. CASE Project
  <2>1. ~\E d \in Predicates : AtHand(d)
    BY <1>4 DEF Project, AtHand
  <2> QED BY <1>4, <1>01, <2>1, PInvAside DEF Project, record, PInv
<1>5. CASE Projected
  <2>1. ~\E d \in Predicates : AtHand(d)
    BY <1>5 DEF Projected, AtHand, Branch
  <2> QED BY <1>5, <1>01, <2>1, PInvAside DEF Projected, record, PInv
<1>6. ASSUME NEW c \in Predicates, Spawn(c) PROVE PInv'
  <2>1. UNCHANGED <<stage, failure, cur, todo, declared, answers>> /\ stage # "failed" /\ failure = "none"
    BY <1>6, <1>01 DEF Spawn, loaded, merged, AtHand
  <2>2. AtHand(c)'
    BY <1>6, <2>1, AtHandSame DEF Spawn
  <2>3. shell' = [Idle EXCEPT !.state = "running"] /\ asked' = Append(asked, c)
    BY <1>6 DEF Spawn
  <2>4. asked' \in Seq(Predicates)
    BY <2>3 DEF PInv
  <2> QED BY <2>1, <2>2, <2>3, <2>4, IdleShell DEF PInv
<1>7. ASSUME NEW c \in Predicates, SpawnFails(c) PROVE PInv'
  BY <1>7, PInvAside DEF SpawnFails, Fails, record
<1>8. CASE Poll
  <2>1. stage # "failed" /\ failure = "none"
    BY <1>8, <1>01 DEF Poll, Polling
  <2> QED BY <1>0, <1>8, <2>1, SettlesPInv, StepsPInv DEF Poll
<1>9. CASE Wake
  <2>1. UNCHANGED <<stage, failure, cur, todo, declared, asked, answers>> /\ stage # "failed" /\ failure = "none"
    BY <1>9, <1>01 DEF Wake, Polling, loaded, merged, record
  <2>2. shell' = [shell EXCEPT !.step = "poll", !.age = @ + 1] /\ shell.step = "sleep" /\ shell.state # "none"
    BY <1>9 DEF Wake, Polling
  <2>3. \E c \in Predicates : AtHand(c)'
    BY <2>1, <2>2, AtHandSame DEF PInv
  <2>4. shell.age + 1 \in 0 .. Timeout
    BY <1>0, <2>2 DEF PInv
  <2>5. /\ shell' \in [state : {"none", "running", "zero", "nonzero", "signal", "killed"},
                      age : 0 .. Timeout, ended : 0 .. Timeout,
                      step : {"poll", "sleep", "last", "kill"}]
        /\ shell'.step = "poll"
    BY <2>2, <2>4 DEF PInv
  <2> QED BY <2>1, <2>3, <2>5 DEF PInv
<1>10. CASE PollLast
  <2>1. stage # "failed" /\ failure = "none" /\ shell.step = "last"
    BY <1>10, <1>01 DEF PollLast, Polling
  <2>2. shell.age = Timeout
    BY <2>1 DEF PInv
  <2> QED BY <1>10, <2>1, <2>2, SettlesPInv, StepsPInv DEF PollLast
<1>11. CASE Kill
  <2>1. /\ stage' = "failed" /\ failure' = "timeout" /\ UNCHANGED <<asked, answers>>
        /\ shell.step = "kill" /\ shell.age = Timeout
        /\ shell' = [shell EXCEPT !.state = IF shell.state = "running" THEN "killed" ELSE shell.state]
    BY <1>11 DEF Kill, Polling, Fails, record, PInv
  <2> QED BY <2>1 DEF PInv
<1>12. CASE MonitorFails
  BY <1>12, PInvAside DEF MonitorFails, Fails, record
<1>13. ASSUME NEW status \in {"zero", "nonzero", "signal"}, Exits(status) PROVE PInv'
  <2>1. UNCHANGED <<stage, failure, cur, todo, declared, asked, answers>> /\ shell.state = "running"
    BY <1>13 DEF Exits, loaded, merged, record
  <2>2. shell' = [shell EXCEPT !.state = status, !.ended = shell.age]
    BY <1>13 DEF Exits
  <2>3. stage # "failed" => \E c \in Predicates : AtHand(c)'
    BY <2>1, AtHandSame DEF PInv
  <2> QED BY <1>0, <2>1, <2>2, <2>3 DEF PInv
<1> QED BY <1>1, <1>2, <1>3, <1>4, <1>5, <1>6, <1>7, <1>8, <1>9, <1>10, <1>11, <1>12, <1>13
        DEF Resolving

LEMMA ConfiguringPInv ==
  ASSUME RInv, PInv, Configure \/ ConfigureFails \/ OthersWrite
  PROVE  PInv'
<1>1. stage \in ConfigStage /\ (failure' = "config" \/ UNCHANGED failure)
  BY LoadConfigMoves, LoadConfigStops, AroundMoves DEF Configure, ConfigureFails, OthersWrite
<1>2. UNCHANGED <<shell, asked, answers>>
  BY DEF Configure, ConfigureFails, OthersWrite, record
<1>3. shell.state = "none"
  BY <1>1, IdleShell DEF RInv
<1> QED BY <1>1, <1>2, <1>3, PInvAside

-----------------------------------------------------------------------------
(* The plan.                                                                *)


(* A plugin's part of a phase: commands of that plugin and of that kind.     *)
Kind(kind)    == {c \in Command : c.kind = kind /\ (kind # "script" => c.name \in Names)}
Part(p, kind) == {c \in Kind(kind) : c.plugin = p}

LEMMA CommandsType ==
  ASSUME NEW p \in 1 .. Len(declared), NEW kind \in {"setup", "bind"},
         NEW lines \in Seq({l \in Line : l.node = kind})
  PROVE  Commands(p, lines) \in Seq(Part(p, kind)) /\ Len(Commands(p, lines)) = Len(lines)
<1>1. DOMAIN lines = 1 .. Len(lines) /\ Len(lines) \in Nat
  OBVIOUS
<1>2. \A k \in 1 .. Len(lines) : lines[k].node = kind /\ lines[k].name \in Names
  BY DEF Line
<1>3. \A k \in 1 .. Len(lines) :
        [plugin |-> p, kind |-> lines[k].node, name |-> lines[k].name] \in Part(p, kind)
  BY <1>2 DEF Part, Kind, Command
<1>4. Commands(p, lines) \in [1 .. Len(lines) -> Part(p, kind)]
  BY <1>1, <1>3 DEF Commands
<1> QED BY <1>1, <1>4

LEMMA ScriptsType ==
  ASSUME NEW p \in 1 .. Len(declared), NEW n \in Nat
  PROVE  Scripts(p, n) \in Seq(Part(p, "script"))
<1>1. [plugin |-> p, kind |-> "script", name |-> "script"] \in Part(p, "script")
  BY DEF Part, Kind, Command
<1>2. Scripts(p, n) \in [1 .. n -> Part(p, "script")]
  BY <1>1 DEF Scripts
<1> QED BY <1>2

OfEligible(part) == [p \in Plugins |-> IF p \in eligible THEN part[p] ELSE <<>>]

LEMMA PhasePlaced ==
  ASSUME CInv, NEW kind, NEW part, \A p \in Plugins : part[p] \in Seq(Part(p, kind))
  PROVE  Placed(InOrder(part), OfEligible(part), Len(declared), Kind(kind))
<1> DEFINE seqs == OfEligible(part)
           n == Len(declared)
<1>1. Plugins = 1 .. n /\ n \in Nat
  BY PluginFacts
<1>2. \A p \in 1 .. n : seqs[p] \in Seq(Part(p, kind))
  <2>1. \A p \in 1 .. n : <<>> \in Seq(Part(p, kind))
    OBVIOUS
  <2> QED BY <1>1, <2>1 DEF OfEligible
<1>3. DOMAIN seqs = 1 .. n /\ Len(seqs) = n /\ seqs = [p \in 1 .. n |-> seqs[p]]
  BY <1>1 DEF OfEligible
<1> HIDE DEF seqs, n
<1>4. Owned(seqs, n, Kind(kind))
  <2> SUFFICES ASSUME NEW p \in 1 .. n
               PROVE  /\ seqs[p] \in Seq(Kind(kind))
                      /\ \A i \in 1 .. Len(seqs[p]) : seqs[p][i].plugin = p
    BY DEF Owned
  <2>1. seqs[p] \in Seq(Part(p, kind))
    BY <1>2
  <2>2. Part(p, kind) \subseteq Kind(kind) /\ \A c \in Part(p, kind) : c.plugin = p
    BY DEF Part
  <2>3. \A i \in 1 .. Len(seqs[p]) : seqs[p][i] \in Part(p, kind)
    BY <2>1
  <2> QED BY <2>1, <2>2, <2>3
<1>5. Placed(FlattenSeq(seqs), seqs, n, Kind(kind))
  BY <1>1, <1>3, <1>4, FlattenPlaced
<1> QED BY <1>5 DEF seqs, n, InOrder, OfEligible

(* Three phases in a row.                                                    *)
InPhases(all, A, B, C) ==
  /\ all \in Seq(Command) /\ Len(all) = Len(A) + Len(B) + Len(C)
  /\ \A j \in 1 .. Len(A) : all[j] = A[j]
  /\ \A j \in 1 .. Len(all) :
       all[j] \in Kind(IF j <= Len(A) THEN "setup"
                       ELSE IF j <= Len(A) + Len(B) THEN "script" ELSE "bind")

LEMMA Joined ==
  ASSUME NEW S, NEW s \in Seq(S), NEW t \in Seq(S)
  PROVE  /\ s \o t \in Seq(S) /\ Len(s \o t) = Len(s) + Len(t)
         /\ \A j \in 1 .. Len(s) : (s \o t)[j] = s[j]
         /\ \A j \in 1 .. Len(t) : (s \o t)[Len(s) + j] = t[j]
  OBVIOUS

LEMMA PhasesInRow ==
  ASSUME NEW A \in Seq(Kind("setup")), NEW B \in Seq(Kind("script")), NEW C \in Seq(Kind("bind"))
  PROVE  InPhases(A \o B \o C, A, B, C) /\ Len(A) \in Nat /\ Len(B) \in Nat /\ Len(C) \in Nat
<1> DEFINE all == (A \o B) \o C
<1>1. \A kind : Kind(kind) \subseteq Command
  BY DEF Kind
<1>2. A \in Seq(Command) /\ B \in Seq(Command) /\ C \in Seq(Command)
  BY <1>1
<1>3. /\ \A j \in 1 .. Len(A) : A[j] \in Kind("setup")
      /\ \A j \in 1 .. Len(B) : B[j] \in Kind("script")
      /\ \A j \in 1 .. Len(C) : C[j] \in Kind("bind")
  OBVIOUS
<1>4. Len(A) \in Nat /\ Len(B) \in Nat /\ Len(C) \in Nat
  BY <1>2
<1>5. /\ A \o B \in Seq(Command) /\ Len(A \o B) = Len(A) + Len(B)
      /\ \A j \in 1 .. Len(A) : (A \o B)[j] = A[j]
      /\ \A j \in 1 .. Len(B) : (A \o B)[Len(A) + j] = B[j]
  BY <1>2, Joined
<1>6. /\ all \in Seq(Command) /\ Len(all) = Len(A) + Len(B) + Len(C)
      /\ \A j \in 1 .. Len(A) + Len(B) : all[j] = (A \o B)[j]
      /\ \A j \in 1 .. Len(C) : all[Len(A) + Len(B) + j] = C[j]
  <2> DEFINE ab == A \o B
  <2>1. ab \in Seq(Command) /\ Len(ab) = Len(A) + Len(B)
    BY <1>5
  <2> HIDE DEF ab
  <2>2. /\ ab \o C \in Seq(Command) /\ Len(ab \o C) = Len(ab) + Len(C)
        /\ \A j \in 1 .. Len(ab) : (ab \o C)[j] = ab[j]
        /\ \A j \in 1 .. Len(C) : (ab \o C)[Len(ab) + j] = C[j]
    <3>1. ab \in Seq(Command) /\ C \in Seq(Command)
      BY <1>2, <2>1
    <3> QED BY <3>1
  <2> QED BY <2>1, <2>2 DEF ab
<1> HIDE DEF all
<1>7. \A j \in 1 .. Len(A) : all[j] = A[j]
  BY <1>4, <1>5, <1>6
<1>8. \A j \in 1 .. Len(B) : all[Len(A) + j] = B[j]
  <2> TAKE j \in 1 .. Len(B)
  <2>1. Len(A) + j \in 1 .. Len(A) + Len(B)
    BY <1>4
  <2> QED BY <1>5, <1>6, <2>1
<1>9. \A j \in 1 .. Len(all) :
        all[j] \in Kind(IF j <= Len(A) THEN "setup"
                        ELSE IF j <= Len(A) + Len(B) THEN "script" ELSE "bind")
  <2> TAKE j \in 1 .. Len(all)
  <2>1. CASE j <= Len(A)
    BY <1>3, <1>4, <1>7, <2>1
  <2>2. CASE j > Len(A) /\ j <= Len(A) + Len(B)
    <3>1. j - Len(A) \in 1 .. Len(B) /\ Len(A) + (j - Len(A)) = j
      BY <1>4, <2>2
    <3>2. all[j] = B[j - Len(A)]
      BY <1>8, <3>1
    <3> QED BY <1>3, <1>4, <2>2, <3>1, <3>2
  <2>3. CASE j > Len(A) + Len(B)
    <3>1. j - (Len(A) + Len(B)) \in 1 .. Len(C) /\ Len(A) + Len(B) + (j - (Len(A) + Len(B))) = j
      BY <1>4, <1>6, <2>3
    <3>2. all[j] = C[j - (Len(A) + Len(B))]
      BY <1>6, <3>1
    <3> QED BY <1>3, <1>4, <2>3, <3>1, <3>2
  <2> QED BY <1>4, <2>1, <2>2, <2>3
<1> QED BY <1>4, <1>6, <1>7, <1>9 DEF InPhases, all

(* The plan that is built has its phases in order, and each plugin's setup   *)
(* in one piece.                                                            *)
LEMMA PlansShape ==
  ASSUME CInv, RInv, stage = "resolved", Plans
  PROVE  plan' \in Seq(Command) /\ Phased' /\ Named' /\ \A p \in eligible : SetupOf(p)'
<1>1. PICK count \in [Plugins -> 0 .. MaxScripts] : plan' = BuildPlan(count)
  BY DEF Plans
<1>2. Plugins = 1 .. Len(declared) /\ eligible \subseteq Plugins /\ MaxScripts \in Nat
  BY PluginFacts, LoadPlanAssumption DEF RInv
<1>3. setup \in [Plugins -> Seq(SetupLine)] /\ bindings \in [Plugins -> Seq(BindLine)]
  BY DEF RInv
<1> DEFINE setups  == [p \in Plugins |-> Commands(p, setup[p])]
           scripts == [p \in Plugins |-> Scripts(p, count[p])]
           binds   == [p \in Plugins |-> Commands(p, bindings[p])]
<1>4. \A p \in Plugins : setups[p] \in Seq(Part(p, "setup")) /\ Len(setups[p]) = Len(setup[p])
  <2> TAKE p \in Plugins
  <2>1. setup[p] \in Seq({l \in Line : l.node = "setup"})
    BY <1>3 DEF SetupLine
  <2> QED BY <1>2, <2>1, CommandsType
<1>5. \A p \in Plugins : scripts[p] \in Seq(Part(p, "script"))
  <2> TAKE p \in Plugins
  <2>1. count[p] \in Nat
    BY <1>2
  <2> QED BY <1>2, <2>1, ScriptsType
<1>6. \A p \in Plugins : binds[p] \in Seq(Part(p, "bind"))
  <2> TAKE p \in Plugins
  <2>1. bindings[p] \in Seq({l \in Line : l.node = "bind"})
    BY <1>3 DEF BindLine
  <2> QED BY <1>2, <2>1, CommandsType
<1>7. plan' = InOrder(setups) \o InOrder(scripts) \o InOrder(binds)
  BY <1>1 DEF BuildPlan
<1>8. \A p \in Plugins : setups[p] = Commands(p, setup[p])
  OBVIOUS
<1> HIDE DEF setups, scripts, binds
<1> DEFINE A == InOrder(setups)
           B == InOrder(scripts)
           C == InOrder(binds)
<1>9. /\ Placed(A, OfEligible(setups), Len(declared), Kind("setup"))
      /\ Placed(B, OfEligible(scripts), Len(declared), Kind("script"))
      /\ Placed(C, OfEligible(binds), Len(declared), Kind("bind"))
  BY <1>4, <1>5, <1>6, PhasePlaced
<1>10. A \in Seq(Kind("setup")) /\ B \in Seq(Kind("script")) /\ C \in Seq(Kind("bind"))
  BY <1>9 DEF Placed
<1>11. plan' = A \o B \o C
  BY <1>7
<1> HIDE DEF A, B, C
<1>12. InPhases(plan', A, B, C) /\ Len(A) \in Nat /\ Len(B) \in Nat /\ Len(C) \in Nat
  BY <1>10, <1>11, PhasesInRow
<1>13. DOMAIN plan' = 1 .. Len(plan') /\ Len(plan') = Len(A) + Len(B) + Len(C)
  BY <1>12 DEF InPhases
<1>131. \A j \in DOMAIN plan' :
          /\ plan'[j].kind = IF j <= Len(A) THEN "setup"
                             ELSE IF j <= Len(A) + Len(B) THEN "script" ELSE "bind"
          /\ plan'[j].kind # "script" => plan'[j].name \in Names
  BY <1>12, <1>13 DEF InPhases, Kind
<1>14. Phased' /\ Named'
  BY <1>12, <1>13, <1>131 DEF Phased, Named
<1>15. \A p \in eligible : SetupOf(p)'
  <2> TAKE p \in eligible
  <2>1. OfEligible(setups)[p] = setups[p] /\ p \in Plugins
    BY <1>2 DEF OfEligible
  <2>2. Located(A, setups[p], p)
    BY <1>2, <1>9, <2>1 DEF Placed
  <2>3. Len(setups[p]) = Len(setup[p]) /\ Len(setup[p]) \in Nat
    BY <1>3, <1>4, <2>1
  <2>4. PICK off \in Nat :
          /\ off + Len(setup[p]) <= Len(A)
          /\ \A i \in 1 .. Len(setup[p]) : A[off + i] = setups[p][i]
          /\ \A j \in 1 .. Len(A) : A[j].plugin = p <=> j \in off + 1 .. off + Len(setup[p])
    BY <2>2, <2>3 DEF Located
  <2>5. off \in 0 .. Len(plan') /\ off + Len(setup[p]) <= Len(plan')
    BY <1>12, <1>13, <2>3, <2>4
  <2>6. \A i \in 1 .. Len(setup[p]) : plan'[off + i] = Commands(p, setup[p])[i]
    <3> TAKE i \in 1 .. Len(setup[p])
    <3>1. off + i \in 1 .. Len(A)
      BY <1>12, <2>3, <2>4
    <3>2. plan'[off + i] = A[off + i]
      BY <1>12, <3>1 DEF InPhases
    <3> QED BY <1>8, <2>1, <2>4, <3>2
  <2>7. \A j \in DOMAIN plan' : plan'[j].plugin = p /\ plan'[j].kind = "setup"
                                   <=> j \in off + 1 .. off + Len(setup[p])
    <3> TAKE j \in DOMAIN plan'
    <3>1. CASE j <= Len(A)
      <4>1. j \in 1 .. Len(A) /\ plan'[j] = A[j] /\ plan'[j].kind = "setup"
        BY <1>12, <1>13, <1>131, <3>1 DEF InPhases
      <4> QED BY <2>4, <4>1
    <3>2. CASE j > Len(A)
      <4>1. plan'[j].kind # "setup"
        BY <1>12, <1>13, <1>131, <3>2
      <4>2. j \notin off + 1 .. off + Len(setup[p])
        BY <1>12, <1>13, <2>3, <2>4, <3>2
      <4> QED BY <4>1, <4>2
    <3> QED BY <1>12, <1>13, <3>1, <3>2
  <2>8. setup' = setup
    BY DEF Plans, condVars, selected
  <2> QED BY <2>5, <2>6, <2>7, <2>8 DEF SetupOf, Commands
<1> QED BY <1>12, <1>14, <1>15 DEF InPhases

-----------------------------------------------------------------------------
(* The load.                                                                *)

LEMMA LoadInvInit == Init => LoadInv
<1> SUFFICES ASSUME Init PROVE LoadInv
  OBVIOUS
<1>1. plan = <<>> /\ DOMAIN plan = {} /\ Len(plan) = 0 /\ ran = <<>> /\ failures = <<>>
  BY DEF Init
<1>2. step = "conditions" /\ outcome = "none" /\ next = 1 /\ excluded = {} /\ unsynced = {} /\ broken = {}
  BY DEF Init
<1>3. last \in [Names -> 0 .. 0]
  BY DEF Init
<1>4. LInv
  BY <1>1, <1>2, <1>3 DEF LInv
<1>5. JInv /\ Planned /\ Overridden
  BY <1>1, <1>2 DEF JInv, Planned, Overridden, Underway
<1> QED BY <1>4, <1>5 DEF LoadInv

LEMMA PlannedSame ==
  ASSUME Planned, UNCHANGED <<plan, setup, eligible>>,
         (step' = "global" \/ Underway') => (step = "global" \/ Underway)
  PROVE  Planned'
<1>1. \A p : SetupOf(p)' <=> SetupOf(p)
  BY DEF SetupOf, Commands
<1>2. Phased' <=> Phased
  BY DEF Phased
<1>3. Named' <=> Named
  BY DEF Named
<1>4. eligible' = eligible
  OBVIOUS
<1> HIDE DEF Phased, Named, SetupOf
<1> QED BY <1>1, <1>2, <1>3, <1>4 DEF Planned

(* Nothing is left to resolve once the session acts on what was resolved.   *)
LEMMA ResolvedRests ==
  ASSUME RInv, PInv, stage = "resolved"
  PROVE  ~(Resolving \/ Configure \/ ConfigureFails \/ OthersWrite)
<1>1. shell.state = "none"
  BY DEF PInv, AtHand
<1>2. ~(Configure \/ ConfigureFails \/ OthersWrite)
  BY LoadConfigMoves, LoadConfigStops, AroundMoves
     DEF Configure, ConfigureFails, OthersWrite, ConfigStage
<1>3. ~(Take \/ EndStage \/ Literal \/ Project \/ Projected)
  BY DEF Take, EndStage, Literal, Project, Projected, AtHand
<1>4. ~\E c \in Predicates : Spawn(c) \/ SpawnFails(c)
  BY DEF Spawn, SpawnFails, AtHand
<1>5. ~(Poll \/ Wake \/ PollLast \/ Kill \/ MonitorFails)
  BY <1>1 DEF Poll, Wake, PollLast, Kill, MonitorFails, Polling
<1>6. ~\E status \in {"zero", "nonzero", "signal"} : Exits(status)
  BY <1>1 DEF Exits
<1> QED BY <1>2, <1>3, <1>4, <1>5, <1>6 DEF Resolving

LEMMA ResolvingLoadInv ==
  ASSUME RInv, PInv, LoadInv, Resolving \/ Configure \/ ConfigureFails \/ OthersWrite,
         UNCHANGED loading
  PROVE  LoadInv'
<1>1. step = "conditions"
  BY ResolvedRests DEF LoadInv, LInv
<1>2. plan = <<>> /\ outcome = "none" /\ ~Underway /\ DOMAIN plan = {} /\ Len(plan) = 0
  BY <1>1 DEF LoadInv, LInv, Underway
<1>3. UNCHANGED <<step, excluded, unsynced, plan, next, broken, failures, ran, last, outcome>>
  BY DEF loading
<1>4. LInv'
  BY <1>1, <1>2, <1>3 DEF LoadInv, LInv, Before
<1>5. JInv' /\ Planned' /\ Overridden'
  BY <1>1, <1>2, <1>3 DEF LoadInv, JInv, Planned, Overridden, Underway
<1> QED BY <1>4, <1>5 DEF LoadInv

(* Before the first command.                                                 *)
LEMMA SyncKeeps == ASSUME CInv, RInv, LoadInv, Sync PROVE LoadInv'
<1>1. excluded' \subseteq Ids
  BY PluginFacts DEF Sync, RInv
<1>2. step = "conditions" /\ step' = "plan" /\ stage = "resolved" /\ outcome = "none"
  BY DEF Sync, Starts, LoadInv, LInv
<1>3. UNCHANGED <<stage, declared, plan, next, broken, failures, ran, last, outcome>>
  BY DEF Sync, loadedElse, merged
<1>4. plan = <<>> /\ DOMAIN plan = {} /\ Command' = Command
  BY <1>2, <1>3 DEF LoadInv, LInv, Command
<1>5. unsynced' \subseteq excluded'
  BY DEF Sync
<1>6. LInv'
  BY <1>1, <1>2, <1>3, <1>4, <1>5 DEF LoadInv, LInv, Before
<1>7. JInv' /\ Planned' /\ Overridden'
  BY <1>2, <1>3, <1>4 DEF LoadInv, JInv, Planned, Overridden, Underway
<1> QED BY <1>6, <1>7 DEF LoadInv

LEMMA SyncFailsKeeps == ASSUME RInv, LoadInv, SyncFails PROVE LoadInv'
<1>2. step = "conditions" /\ step' = "ended" /\ outcome' = "error" /\ stage = "resolved" /\ outcome = "none"
  BY DEF SyncFails, Starts, LoadInv, LInv
<1>3. UNCHANGED <<stage, declared, excluded, unsynced, plan, next, broken, failures, ran, last>>
  BY DEF SyncFails, loadedElse, merged
<1>4. plan = <<>> /\ DOMAIN plan = {} /\ Command' = Command
  BY <1>2, <1>3 DEF LoadInv, LInv, Command
<1>6. LInv'
  BY <1>2, <1>3, <1>4 DEF LoadInv, LInv, Before
<1>7. JInv' /\ Planned' /\ Overridden'
  BY <1>2, <1>3, <1>4 DEF LoadInv, JInv, Planned, Overridden, Underway
<1> QED BY <1>6, <1>7 DEF LoadInv

LEMMA PlansKeeps == ASSUME CInv, RInv, LoadInv, Plans PROVE LoadInv'
<1>1. stage = "resolved" /\ step = "plan" /\ step' = "global" /\ outcome = "none"
  BY DEF Plans, LoadInv, LInv
<1>2. plan' \in Seq(Command) /\ Phased' /\ Named' /\ \A p \in eligible : SetupOf(p)'
  BY <1>1, PlansShape
<1>3. UNCHANGED <<stage, declared, eligible, excluded, unsynced, next, broken, failures, last, outcome>>
  BY DEF Plans, condVars, configVars, merged, verdict
<1>4. ran' = [k \in DOMAIN plan' |-> "no"] /\ DOMAIN plan' = 1 .. Len(plan') /\ Len(plan') \in Nat
  BY <1>2 DEF Plans
<1>5. plan = <<>> /\ Len(plan) = 0 /\ next = 1 /\ failures = <<>> /\ Command' = Command
  BY <1>1, <1>3 DEF LoadInv, LInv, Before, Command
<1>6. last \in [Names -> 0 .. Len(plan')]
  BY <1>4, <1>5 DEF LoadInv, LInv
<1>7. LInv'
  BY <1>1, <1>2, <1>3, <1>4, <1>5, <1>6 DEF LoadInv, LInv, Before
<1>8. JInv' /\ Planned' /\ Overridden'
  BY <1>1, <1>2, <1>3, <1>4, <1>5 DEF JInv, Planned, Overridden, Underway
<1> QED BY <1>7, <1>8 DEF LoadInv

LEMMA GlobalSetupKeeps == ASSUME RInv, LoadInv, GlobalSetup PROVE LoadInv'
<1>1. step = "global" /\ step' = "commands" /\ outcome = "none" /\ broken' = excluded
  BY DEF GlobalSetup, LoadInv, LInv
<1>2. UNCHANGED <<stage, declared, setup, eligible, excluded, unsynced, plan, next, failures, ran, last, outcome>>
  BY DEF GlobalSetup, condVars, configVars, merged, verdict, selected
<1>3. next = 1 /\ \A k \in DOMAIN plan : ran[k] = "no"
  BY <1>1 DEF LoadInv, LInv, Before
<1>4. LInv'
  <2>1. excluded \subseteq Ids /\ Command' = Command
    BY <1>2 DEF LoadInv, LInv, Command
  <2> QED BY <1>1, <1>2, <2>1 DEF LoadInv, LInv, Before
<1>5. JInv'
  <2>1. {Owner(j) : j \in {i \in DOMAIN plan : ran[i] = "failed"}}' = {}
    BY <1>2, <1>3
  <2>2. \A k \in DOMAIN plan : ~(k < next)
    BY <1>3 DEF LoadInv, LInv
  <2> QED BY <1>1, <1>2, <1>3, <2>1, <2>2 DEF LoadInv, JInv, Underway
<1>6. Planned'
  BY <1>1, <1>2, PlannedSame DEF LoadInv
<1>7. Overridden'
  BY <1>2, <1>3 DEF Overridden
<1> QED BY <1>4, <1>5, <1>6, <1>7 DEF LoadInv

LEMMA GlobalSetupFailsKeeps == ASSUME RInv, LoadInv, GlobalSetupFails PROVE LoadInv'
<1>1. step = "global" /\ step' = "ended" /\ outcome = "none" /\ outcome' = "error"
  BY DEF GlobalSetupFails, LoadInv, LInv
<1>2. UNCHANGED <<stage, declared, excluded, unsynced, plan, next, broken, failures, ran, last>>
  BY DEF GlobalSetupFails, condVars, configVars, merged
<1>3. LInv'
  <2>1. Command' = Command
    BY <1>2 DEF Command
  <2> QED BY <1>1, <1>2, <2>1 DEF LoadInv, LInv, Before
<1>4. JInv' /\ Planned' /\ Overridden'
  BY <1>1, <1>2 DEF LoadInv, JInv, Planned, Overridden, Underway
<1> QED BY <1>3, <1>4 DEF LoadInv

-----------------------------------------------------------------------------
(* The commands.                                                             *)

LEMMA AtCommandFacts ==
  ASSUME CInv, LoadInv, AtCommand
  PROVE  /\ DOMAIN plan = 1 .. Len(plan) /\ Len(plan) \in Nat /\ next \in DOMAIN plan
         /\ outcome = "none" /\ step = "commands" /\ stage = "resolved" /\ Underway /\ ~Before
         /\ plan[next] \in Command /\ Owner(next) \in Ids
         /\ \A k \in DOMAIN plan : k >= next => ran[k] = "no"
<1>1. DOMAIN plan = 1 .. Len(plan) /\ Len(plan) \in Nat /\ next \in DOMAIN plan
  BY DEF LoadInv, LInv, AtCommand
<1>2. outcome = "none" /\ step = "commands" /\ stage = "resolved" /\ Underway /\ ~Before
  BY DEF LoadInv, LInv, AtCommand, Underway, Before
<1>3. plan[next] \in Command
  BY <1>1 DEF LoadInv, LInv
<1>4. Owner(next) \in Ids
  BY <1>3, PluginFacts DEF Owner, Command
<1>5. \A k \in DOMAIN plan : k >= next => ran[k] = "no"
  BY <1>1, <1>2 DEF LoadInv, JInv
<1> QED BY <1>1, <1>2, <1>3, <1>4, <1>5

(* Whether a command was ready does not change with what runs after it.      *)
LEMMA ReadySame ==
  ASSUME UNCHANGED <<declared, plan, excluded>>, DOMAIN plan = 1 .. Len(plan), Len(plan) \in Nat,
         NEW k \in DOMAIN plan, \A j \in 1 .. k - 1 : (ran'[j] = "failed") <=> (ran[j] = "failed")
  PROVE  Ready(k)' <=> Ready(k)
  BY DEF Ready, Owner

LEMMA SkipKeeps == ASSUME CInv, RInv, LoadInv, SkipCommand PROVE LoadInv'
<1>0. AtCommand /\ Owner(next) \in broken /\ next' = next + 1
  BY DEF SkipCommand
<1>1. UNCHANGED <<stage, declared, setup, eligible, step, excluded, unsynced, plan, broken, failures, ran, last, outcome>>
  BY DEF SkipCommand, condVars, configVars, merged, verdict, selected
<1>2. /\ DOMAIN plan = 1 .. Len(plan) /\ Len(plan) \in Nat /\ next \in DOMAIN plan
      /\ outcome = "none" /\ step = "commands" /\ stage = "resolved" /\ Underway /\ ~Before
      /\ \A k \in DOMAIN plan : k >= next => ran[k] = "no"
  BY <1>0, AtCommandFacts
<1>3. LInv'
  <2>1. Command' = Command /\ next' \in 1 .. Len(plan) + 1 /\ ~Before'
    BY <1>0, <1>1, <1>2 DEF Command, Before
  <2> QED BY <1>1, <1>2, <2>1 DEF LoadInv, LInv
<1>4. ~Ready(next)
  <2>1. CASE Owner(next) \in excluded
    BY <2>1 DEF Ready
  <2>2. CASE \E j \in DOMAIN plan : ran[j] = "failed" /\ Owner(j) = Owner(next)
    <3>1. PICK j \in DOMAIN plan : ran[j] = "failed" /\ Owner(j) = Owner(next)
      BY <2>2
    <3>2. j \in 1 .. next - 1
      BY <1>2, <3>1
    <3> QED BY <3>1, <3>2 DEF Ready
  <2> QED BY <1>0, <1>2, <2>1, <2>2 DEF LoadInv, JInv
<1>5. JInv'
  <2>1. \A k \in DOMAIN plan : Ready(k)' <=> Ready(k)
    BY <1>1, <1>2, ReadySame
  <2>2. \A k \in DOMAIN plan : ran[k] # "no" <=> k < next + 1 /\ Ready(k)
    BY <1>2, <1>4 DEF LoadInv, JInv
  <2> QED BY <1>0, <1>1, <1>2, <2>1, <2>2 DEF LoadInv, JInv, Underway, Owner
<1>6. Planned'
  BY <1>1, <1>2, PlannedSame DEF LoadInv
<1>7. Overridden'
  BY <1>1, <1>2 DEF LoadInv, Overridden, Underway
<1> QED BY <1>3, <1>5, <1>6, <1>7 DEF LoadInv

(* A command that is run.                                                    *)
LEMMA GoesLInv ==
  ASSUME CInv, RInv, LoadInv, AtCommand, NEW how \in {"ok", "failed"}, Goes(how),
         broken' \subseteq Ids, failures' \in Seq(1 .. Len(plan)), last' \in [Names -> 0 .. Len(plan)]
  PROVE  LInv'
<1>1. UNCHANGED <<stage, declared, step, excluded, unsynced, plan, outcome>> /\ next' = next + 1
      /\ ran' = [ran EXCEPT ![next] = how]
  BY DEF Goes, condVars, configVars, merged
<1>2. /\ DOMAIN plan = 1 .. Len(plan) /\ Len(plan) \in Nat /\ next \in DOMAIN plan
      /\ outcome = "none" /\ step = "commands" /\ stage = "resolved"
  BY AtCommandFacts
<1>3. Command' = Command /\ next' \in 1 .. Len(plan) + 1 /\ ~Before'
  BY <1>1, <1>2 DEF Command, Before
<1>4. ran' \in [DOMAIN plan -> {"no", "ok", "failed"}]
  BY <1>1 DEF LoadInv, LInv
<1> QED BY <1>1, <1>2, <1>3, <1>4 DEF LoadInv, LInv

LEMMA GoesReady ==
  ASSUME CInv, RInv, LoadInv, AtCommand, NEW how \in {"ok", "failed"}, Goes(how),
         Owner(next) \notin broken
  PROVE  \A k \in DOMAIN plan : ran'[k] # "no" <=> k < next' /\ Ready(k)'
<1>1. UNCHANGED <<declared, plan, excluded>> /\ next' = next + 1 /\ ran' = [ran EXCEPT ![next] = how]
  BY DEF Goes, condVars, configVars, merged
<1>2. /\ DOMAIN plan = 1 .. Len(plan) /\ Len(plan) \in Nat /\ next \in DOMAIN plan /\ Underway
      /\ \A k \in DOMAIN plan : k >= next => ran[k] = "no"
  BY AtCommandFacts
<1>3. \A k \in DOMAIN plan : ran'[k] = IF k = next THEN how ELSE ran[k]
  BY <1>1, <1>2 DEF LoadInv, LInv
<1>4. \A k \in DOMAIN plan : k <= next => (Ready(k)' <=> Ready(k))
  <2> SUFFICES ASSUME NEW k \in DOMAIN plan, k <= next PROVE Ready(k)' <=> Ready(k)
    OBVIOUS
  <2>1. \A j \in 1 .. k - 1 : ran'[j] = ran[j]
    BY <1>2, <1>3
  <2> QED BY <1>1, <1>2, <2>1, ReadySame
<1>5. Ready(next)
  <2>1. Owner(next) \notin excluded
    BY <1>2 DEF LoadInv, JInv
  <2>2. \A j \in DOMAIN plan : Owner(j) = Owner(next) => ran[j] # "failed"
    BY <1>2 DEF LoadInv, JInv
  <2> QED BY <1>2, <2>1, <2>2 DEF Ready
<1>6. \A k \in DOMAIN plan : ran[k] # "no" <=> k < next /\ Ready(k)
  BY <1>2 DEF LoadInv, JInv
<1> QED BY <1>1, <1>2, <1>3, <1>4, <1>5, <1>6

LEMMA GoesPlanned ==
  ASSUME CInv, RInv, LoadInv, AtCommand, NEW how \in {"ok", "failed"}, Goes(how)
  PROVE  Planned'
<1>1. UNCHANGED <<declared, setup, eligible, step, plan, outcome>>
  BY DEF Goes, condVars, configVars, merged, verdict, selected
<1> QED BY <1>1, PlannedSame DEF LoadInv, Underway

(* No script comes after a binding, so none undoes one.                      *)
LEMMA GoesOverridden ==
  ASSUME CInv, RInv, LoadInv, AtCommand, NEW how \in {"ok", "failed"}, Goes(how),
         NEW names \in SUBSET Names, Writes(names),
         plan[next].kind = "bind" => names \subseteq {plan[next].name},
         (plan[next].kind = "bind" /\ how = "ok") => names = {plan[next].name}
  PROVE  Overridden'
<1>1. UNCHANGED <<declared, plan, step, outcome>> /\ next' = next + 1 /\ ran' = [ran EXCEPT ![next] = how]
  BY DEF Goes, condVars, configVars, merged
<1>2. /\ DOMAIN plan = 1 .. Len(plan) /\ Len(plan) \in Nat /\ next \in DOMAIN plan /\ Underway
      /\ \A k \in DOMAIN plan : k >= next => ran[k] = "no"
  BY AtCommandFacts
<1>3. \A k \in DOMAIN plan : ran'[k] = IF k = next THEN how ELSE ran[k]
  BY <1>1, <1>2 DEF LoadInv, LInv
<1>4. \A k \in DOMAIN plan : plan[k].kind = "bind" => plan[k].name \in Names
  BY <1>2 DEF LoadInv, Planned, Named
<1> SUFFICES ASSUME NEW k \in DOMAIN plan, plan[k].kind = "bind", ran'[k] = "ok"
             PROVE  /\ last'[plan[k].name] >= k
                    /\ plan[last'[plan[k].name]].kind = "bind"
  BY <1>1 DEF Overridden
<1>5. k <= next
  BY <1>2, <1>3
<1>6. plan[next].kind = "bind"
  BY <1>2, <1>5 DEF LoadInv, Planned, Phased
<1>7. CASE plan[k].name \in names
  <2>1. last'[plan[k].name] = next
    BY <1>4, <1>7 DEF Writes
  <2> QED BY <1>2, <1>5, <1>6, <2>1
<1>8. CASE plan[k].name \notin names
  <2>1. k # next
    BY <1>3, <1>6, <1>8
  <2>2. ran[k] = "ok"
    BY <1>3, <2>1
  <2>3. last[plan[k].name] >= k /\ plan[last[plan[k].name]].kind = "bind"
    BY <1>2, <2>2 DEF LoadInv, Overridden
  <2>4. last'[plan[k].name] = last[plan[k].name]
    BY <1>4, <1>8 DEF Writes
  <2> QED BY <2>3, <2>4
<1> QED BY <1>7, <1>8

LEMMA ExecuteKeeps == ASSUME CInv, RInv, LoadInv, Execute PROVE LoadInv'
<1>0. AtCommand /\ Owner(next) \notin broken /\ Goes("ok") /\ UNCHANGED <<broken, failures>>
  BY DEF Execute
<1>1. PICK names \in Touched : Writes(names)
  BY DEF Execute
<1>2. /\ DOMAIN plan = 1 .. Len(plan) /\ Len(plan) \in Nat /\ next \in DOMAIN plan /\ Underway
      /\ \A k \in DOMAIN plan : k >= next => ran[k] = "no"
  BY <1>0, AtCommandFacts
<1>3. UNCHANGED <<declared, plan, excluded, unsynced, step, outcome>> /\ ran' = [ran EXCEPT ![next] = "ok"]
  BY <1>0 DEF Goes, condVars, configVars, merged
<1>4. names \subseteq Names /\ (plan[next].kind = "bind" => names = {plan[next].name})
  <2>1. plan[next].kind # "script" => plan[next].name \in Names
    BY <1>2 DEF LoadInv, Planned, Named
  <2> QED BY <1>1, <2>1 DEF Touched
<1>5. last' \in [Names -> 0 .. Len(plan)]
  BY <1>1, <1>2 DEF Writes, LoadInv, LInv
<1>6. LInv'
  BY <1>0, <1>5, GoesLInv DEF LoadInv, LInv
<1>7. JInv'
  <2>1. \A k \in DOMAIN plan : ran'[k] # "no" <=> k < next' /\ Ready(k)'
    BY <1>0, GoesReady
  <2>2. \A k \in DOMAIN plan : ran'[k] = "failed" <=> ran[k] = "failed"
    BY <1>2, <1>3 DEF LoadInv, LInv
  <2>3. {Owner(j) : j \in {i \in DOMAIN plan : ran[i] = "failed"}}'
          = {Owner(j) : j \in {i \in DOMAIN plan : ran[i] = "failed"}}
    BY <1>3, <2>2 DEF Owner
  <2> QED BY <1>0, <1>2, <1>3, <2>1, <2>2, <2>3 DEF LoadInv, JInv, Underway
<1>8. Planned' /\ Overridden'
  BY <1>0, <1>1, <1>4, GoesPlanned, GoesOverridden
<1> QED BY <1>6, <1>7, <1>8 DEF LoadInv

LEMMA ExecuteFailsKeeps == ASSUME CInv, RInv, LoadInv, ExecuteFails PROVE LoadInv'
<1>0. /\ AtCommand /\ Owner(next) \notin broken /\ Goes("failed")
      /\ broken' = broken \cup {Owner(next)} /\ failures' = Append(failures, next)
  BY DEF ExecuteFails
<1>1. PICK names \in IF plan[next].kind = "script" THEN Touched ELSE {{}} : Writes(names)
  BY DEF ExecuteFails
<1>2. /\ DOMAIN plan = 1 .. Len(plan) /\ Len(plan) \in Nat /\ next \in DOMAIN plan /\ Underway
      /\ Owner(next) \in Ids /\ outcome = "none"
      /\ \A k \in DOMAIN plan : k >= next => ran[k] = "no"
  BY <1>0, AtCommandFacts
<1>3. UNCHANGED <<declared, plan, excluded, unsynced, step, outcome>> /\ ran' = [ran EXCEPT ![next] = "failed"]
  BY <1>0 DEF Goes, condVars, configVars, merged
<1>4. names \subseteq Names /\ (plan[next].kind = "bind" => names = {})
  BY <1>1 DEF Touched
<1>5. last' \in [Names -> 0 .. Len(plan)]
  BY <1>1, <1>2 DEF Writes, LoadInv, LInv
<1>51. failures \in Seq(1 .. Len(plan)) /\ failures' \in Seq(1 .. Len(plan))
  BY <1>0, <1>2 DEF LoadInv, LInv
<1>52. broken' \subseteq Ids
  BY <1>0, <1>2 DEF LoadInv, LInv
<1>6. LInv'
  BY <1>0, <1>5, <1>51, <1>52, GoesLInv
<1>7. JInv'
  <2>1. \A k \in DOMAIN plan : ran'[k] # "no" <=> k < next' /\ Ready(k)'
    BY <1>0, GoesReady
  <2>2. \A k \in DOMAIN plan : ran'[k] = "failed" <=> ran[k] = "failed" \/ k = next
    BY <1>2, <1>3 DEF LoadInv, LInv
  <2>3. {Owner(j) : j \in {i \in DOMAIN plan : ran[i] = "failed"}}'
          = {Owner(j) : j \in {i \in DOMAIN plan : ran[i] = "failed"}} \cup {Owner(next)}
    BY <1>2, <1>3, <2>2 DEF Owner
  <2>4. \A k \in DOMAIN plan : (\E m \in DOMAIN failures' : failures'[m] = k)
                                  <=> (\E m \in DOMAIN failures : failures[m] = k) \/ k = next
    <3>1. /\ DOMAIN failures = 1 .. Len(failures) /\ Len(failures) \in Nat
          /\ DOMAIN failures' = 1 .. Len(failures) + 1
          /\ failures'[Len(failures) + 1] = next
          /\ \A m \in 1 .. Len(failures) : failures'[m] = failures[m]
      BY <1>0, <1>51
    <3> QED BY <3>1
  <2>5. \A k \in DOMAIN plan : ran[k] = "failed" <=> \E m \in DOMAIN failures : failures[m] = k
    BY DEF LoadInv, JInv
  <2>6. broken = excluded \cup {Owner(j) : j \in {i \in DOMAIN plan : ran[i] = "failed"}}
    BY <1>2 DEF LoadInv, JInv
  <2>7. broken' = excluded' \cup {Owner(j) : j \in {i \in DOMAIN plan : ran[i] = "failed"}}'
    BY <1>0, <1>3, <2>3, <2>6
  <2>8. \A k \in DOMAIN plan' : ran'[k] = "failed" <=> \E m \in DOMAIN failures' : failures'[m] = k
    BY <1>3, <2>2, <2>4, <2>5
  <2>9. \A k \in DOMAIN plan' : ran'[k] # "no" <=> k < next' /\ Ready(k)'
    BY <1>3, <2>1
  <2>10. outcome' = "none"
    BY <1>2, <1>3
  <2> QED BY <2>7, <2>8, <2>9, <2>10 DEF JInv
<1>8. Planned' /\ Overridden'
  BY <1>0, <1>1, <1>4, GoesPlanned, GoesOverridden
<1> QED BY <1>6, <1>7, <1>8 DEF LoadInv

LEMMA FinishKeeps == ASSUME CInv, RInv, LoadInv, Finish PROVE LoadInv'
<1>0. /\ step = "commands" /\ next > Len(plan) /\ step' = "ended"
      /\ outcome' = IF failures = <<>> /\ unsynced = {} THEN "ok" ELSE "failures"
  BY DEF Finish
<1>1. UNCHANGED <<stage, declared, setup, eligible, excluded, unsynced, plan, next, broken, failures, ran, last>>
  BY DEF Finish, condVars, configVars, merged, verdict, selected
<1>2. Underway /\ Underway' /\ ~Before' /\ outcome = "none" /\ stage = "resolved"
  BY <1>0 DEF LoadInv, LInv, Underway, Before
<1>3. LInv'
  <2>1. Command' = Command
    BY <1>1 DEF Command
  <2> QED BY <1>0, <1>1, <1>2, <2>1 DEF LoadInv, LInv
<1>4. JInv'
  <2>1. \A k \in DOMAIN plan : Ready(k)' <=> Ready(k)
    BY <1>1 DEF Ready, Owner
  <2>2. {Owner(j) : j \in {i \in DOMAIN plan : ran[i] = "failed"}}'
          = {Owner(j) : j \in {i \in DOMAIN plan : ran[i] = "failed"}}
    BY <1>1 DEF Owner
  <2> QED BY <1>0, <1>1, <1>2, <2>1, <2>2 DEF LoadInv, JInv
<1>5. Planned'
  BY <1>1, <1>2, PlannedSame DEF LoadInv
<1>6. Overridden'
  BY <1>1, <1>2 DEF LoadInv, Overridden
<1> QED BY <1>3, <1>4, <1>5, <1>6 DEF LoadInv

LEMMA LoadingKeeps ==
  ASSUME CInv, RInv, LoadInv, Load \/ LoadFails
  PROVE  LoadInv'
  BY SyncKeeps, SyncFailsKeeps, PlansKeeps, GlobalSetupKeeps, GlobalSetupFailsKeeps, SkipKeeps,
     ExecuteKeeps, ExecuteFailsKeeps, FinishKeeps DEF Load, LoadFails

(* A load changes nothing of what was resolved, but may create tmup.kdl.     *)
LEMMA LoadMoves ==
  ASSUME CInv, Load \/ LoadFails
  PROVE  UNCHANGED loadedElse /\ tmup' \in Files
<1>1. CASE Sync \/ SyncFails
  BY <1>1, FilesHold DEF Sync, SyncFails, CInv
<1>2. CASE ~(Sync \/ SyncFails)
  BY <1>2 DEF Load, LoadFails, Plans, GlobalSetup, GlobalSetupFails, SkipCommand, Execute, ExecuteFails,
              Finish, Goes, condVars, configVars, loadedElse, CInv
<1> QED BY <1>1, <1>2

-----------------------------------------------------------------------------
(* The first start.                                                         *)

LEMMA FirstStartInit == Init => FirstStartUnseen
  BY DEF Init, CondInit, ConfigInit, FirstStartUnseen, Loaded, ConfigStage

LEMMA NothingDeclared ==
  ASSUME NEW doc \in {<<>>, Template}
  PROVE  Declarations(doc) = <<>> /\ OptionsOf(doc) = <<TRUE, 16>>
<1> DEFINE node == [node |-> "options", value |-> <<TRUE, 16>>]
<1>1. node.node = "options" /\ node.value = <<TRUE, 16>>
  BY Zenon
<1>2. doc = <<>> \/ doc = <<node>>
  BY DEF Template
<1> HIDE DEF node
<1>3. \A k \in DOMAIN doc : doc[k] = node /\ k = 1
  BY <1>2
<1>4. {k \in DOMAIN doc : IsPlug(doc[k])} = {}
  BY <1>1, <1>3 DEF IsPlug
<1>5. Sorted({}) = <<>>
  BY FS_EmptySet DEF Sorted
<1>6. Declarations(doc) = <<>>
  <2>1. Declarations(doc) = [j \in DOMAIN Sorted({}) |-> Declaration(doc, Sorted({})[j])]
    BY <1>4, Zenon DEF Declarations
  <2> QED BY <1>5, <2>1
<1>7. OptionsOf(doc) = <<TRUE, 16>>
  <2>1. CASE OptionNodes(doc) = {}
    BY <2>1 DEF OptionsOf, DefaultOptions
  <2>2. CASE OptionNodes(doc) # {}
    <3>1. (CHOOSE k \in OptionNodes(doc) : TRUE) \in DOMAIN doc
      BY <2>2 DEF OptionNodes
    <3> QED BY <1>1, <1>3, <2>2, <3>1, Zenon DEF OptionsOf
  <2> QED BY <2>1, <2>2
<1> QED BY <1>6, <1>7

LEMMA LoadsUnseen ==
  ASSUME CInv, NEW doc \in {<<>>, Template}, Loads(doc)
  PROVE  options' = <<TRUE, 16>> /\ \A p \in DOMAIN declared' : declared'[p].place = 0
<1>1. Declarations(doc) = <<>> /\ OptionsOf(doc) = <<TRUE, 16>>
  BY NothingDeclared
<1>2. <<>> \in Seq(Declared(0))
  OBVIOUS
<1>3. Merge(<<>>, Scanned) \in Seq(Declared(0))
  BY <1>2, ScannedType, MergeType DEF CInv
<1>4. declared' \in Seq(Declared(0))
  BY <1>1, <1>2, <1>3 DEF Loads
<1>5. \A p \in DOMAIN declared' : declared'[p] \in Declared(0)
  BY <1>4
<1>6. \A d \in Declared(0) : d.place = 0
  BY DEF Declared
<1> QED BY <1>1, <1>5, <1>6 DEF Loads

LEMMA ResolvingLoaded ==
  ASSUME RInv, Resolving
  PROVE  (Loaded' => Loaded) /\ UNCHANGED <<kdl, options, declared>>
<1>1. stage \in ConfigStage => shell.state = "none" /\ cur = 0
  BY DEF RInv, Idle
<1>2. stage \notin ConfigStage
  BY <1>1 DEF Resolving, Take, EndStage, Literal, Project, Projected, AtHand, Spawn, SpawnFails,
              Poll, Wake, PollLast, Kill, MonitorFails, Polling, Exits, ConfigStage
<1>3. stage # "failed" \/ UNCHANGED failure
  BY DEF Resolving, Take, EndStage, Literal, Project, Projected, AtHand, Spawn, SpawnFails,
         Poll, Wake, PollLast, Kill, MonitorFails, Polling, Exits
<1>4. failure = "config" => failure' = "config"
  BY <1>3 DEF RInv
<1>5. UNCHANGED <<kdl, options, declared>>
  BY DEF Resolving, Take, EndStage, Literal, Project, Projected, Spawn, SpawnFails, Poll, Wake, PollLast,
         Kill, MonitorFails, Exits, Steps, Settles, Fails, Answered, loaded, merged
<1> QED BY <1>2, <1>4, <1>5 DEF Loaded

LEMMA FirstStartSame ==
  ASSUME FirstStartUnseen, UNCHANGED <<kdl, options, declared>>, Loaded' => Loaded
  PROVE  FirstStartUnseen'
  BY DEF FirstStartUnseen, Plugins

LEMMA ConfiguringUnseen ==
  ASSUME CInv, FirstStartUnseen, Configure \/ ConfigureFails \/ OthersWrite
  PROVE  FirstStartUnseen'
<1>1. CASE Configure /\ stage' = "enabled"
  <2>1. PICK doc \in {tmup.doc, Template} : Loads(doc)
    BY <1>1, LoadConfigMoves DEF Configure
  <2>2. doc \in Docs /\ kdl' = doc
    BY <2>1, FilesHold DEF CInv, Loads, Docs
  <2>3. doc \notin Documents => doc \in {<<>>, Template}
    BY <2>2 DEF Docs
  <2>4. Template[1].value = <<TRUE, 16>>
    <3> DEFINE node == [node |-> "options", value |-> <<TRUE, 16>>]
    <3>1. node.value = <<TRUE, 16>>
      BY Zenon
    <3>2. Template = <<node>>
      BY DEF Template
    <3> HIDE DEF node
    <3>3. Template[1] = node
      BY <3>2
    <3> QED BY <3>1, <3>3
  <2> QED BY <2>1, <2>2, <2>3, <2>4, LoadsUnseen DEF FirstStartUnseen, Plugins
<1>2. CASE Configure /\ stage' # "enabled"
  BY <1>2, LoadConfigMoves DEF Configure, FirstStartUnseen, Loaded
<1>3. CASE ConfigureFails
  BY <1>3, LoadConfigStops DEF ConfigureFails, FirstStartUnseen, Loaded
<1>4. CASE OthersWrite
  BY <1>4, AroundMoves, FirstStartSame DEF OthersWrite, Loaded, merged
<1> QED BY <1>1, <1>2, <1>3, <1>4

-----------------------------------------------------------------------------
(* The whole.                                                               *)

LEMMA InitInv == Init => IInv
  BY CInvInit, RInvInit, PInvInit, LoadInvInit, FirstStartInit DEF Init, IInv

(* Where the resolution rests, its part of the invariant does, too.          *)
LEMMA RestKeeps ==
  ASSUME CInv, RInv, PInv, FirstStartUnseen, UNCHANGED loadedElse, tmup' \in Files
  PROVE  CInv' /\ RInv' /\ PInv' /\ FirstStartUnseen'
<1>1. UNCHANGED <<intent, mode, tmux, root, inputs, kdl, declared, options, stage, failure, queue, cur,
                  todo, enabled, eligible, setup, bindings, shell, asked, answers>>
  BY DEF loadedElse, scan, merged, verdict, selected, record
<1>2. CInv'
  BY <1>1 DEF CInv
<1>3. RInv'
  BY <1>1 DEF RInv, Plugins
<1>4. PInv'
  <2>1. \A c : AtHand(c) => AtHand(c)'
    BY <1>1, AtHandSame
  <2> QED BY <1>1, <2>1 DEF PInv
<1>5. FirstStartUnseen'
  BY <1>1, FirstStartSame DEF Loaded
<1> QED BY <1>2, <1>3, <1>4, <1>5

LEMMA StepsOf ==
  ASSUME Next
  PROVE  \/ Load \/ LoadFails
         \/ (Resolving \/ Configure \/ ConfigureFails \/ OthersWrite) /\ UNCHANGED loading
  BY DEF Next, Program, Resolve, ResolveFails, Predicate, Resolving

LEMMA ResolvingCInv == ASSUME CInv, Resolving PROVE CInv'
<1>1. UNCHANGED loaded
  BY DEF Resolving, Take, EndStage, Literal, Project, Projected, Spawn, SpawnFails, Poll, Wake, PollLast,
         Kill, MonitorFails, Exits, Steps, Settles, Fails, Answered
<1> QED BY <1>1 DEF loaded, scan, merged, CInv

LEMMA NextInv == IInv /\ [Next]_vars => IInv'
<1> SUFFICES ASSUME IInv, [Next]_vars PROVE IInv'
  OBVIOUS
<1>0. CInv /\ RInv /\ PInv /\ LoadInv /\ FirstStartUnseen
  BY DEF IInv
<1>1. CASE Load \/ LoadFails
  BY <1>0, <1>1, LoadMoves, RestKeeps, LoadingKeeps DEF IInv
<1>2. CASE Resolving /\ UNCHANGED loading
  <2>1. CInv' /\ RInv' /\ PInv'
    BY <1>0, <1>2, ResolvingCInv, ResolvingKeeps, ResolvingPInv
  <2>2. FirstStartUnseen'
    BY <1>0, <1>2, ResolvingLoaded, FirstStartSame
  <2>3. LoadInv'
    BY <1>0, <1>2, ResolvingLoadInv
  <2> QED BY <2>1, <2>2, <2>3 DEF IInv
<1>3. CASE (Configure \/ ConfigureFails \/ OthersWrite) /\ UNCHANGED loading
  <2>1. CInv'
    BY <1>0, <1>3, ConfigKeeps DEF Configure, ConfigureFails, OthersWrite
  <2>2. RInv' /\ PInv'
    BY <1>0, <1>3, ConfiguringKeeps, ConfiguringPInv
  <2>3. FirstStartUnseen'
    BY <1>0, <1>3, ConfiguringUnseen
  <2>4. LoadInv'
    BY <1>0, <1>3, ResolvingLoadInv
  <2> QED BY <2>1, <2>2, <2>3, <2>4 DEF IInv
<1>4. CASE UNCHANGED vars
  <2>1. UNCHANGED loadedElse /\ UNCHANGED tmup /\ UNCHANGED loading
    BY <1>4 DEF vars, condVars, configVars, loadedElse
  <2>2. CInv' /\ RInv' /\ PInv' /\ FirstStartUnseen'
    BY <1>0, <2>1, RestKeeps DEF CInv
  <2>3. LInv'
    <3>1. Command' = Command
      BY <2>1 DEF Command, loadedElse, merged
    <3> QED BY <1>0, <2>1, <3>1 DEF loading, loadedElse, LoadInv, LInv, Before
  <2>4. JInv'
    <3>1. UNCHANGED <<declared, plan, ran, excluded, unsynced, broken, failures, outcome, next, step>>
      BY <2>1 DEF loading, loadedElse, merged
    <3>2. \A k : Owner(k)' = Owner(k)
      BY <3>1 DEF Owner
    <3>3. \A k : Ready(k)' <=> Ready(k)
      BY <3>1, <3>2 DEF Ready
    <3>4. {Owner(j) : j \in {i \in DOMAIN plan : ran[i] = "failed"}}'
            = {Owner(j) : j \in {i \in DOMAIN plan : ran[i] = "failed"}}
      BY <3>1 DEF Owner
    <3> QED BY <1>0, <3>1, <3>3, <3>4 DEF LoadInv, JInv, Underway
  <2>5. Planned' /\ Overridden'
    BY <1>0, <2>1, PlannedSame DEF LoadInv, Overridden, Underway, loading, loadedElse, verdict, selected
  <2> QED BY <2>2, <2>3, <2>4, <2>5 DEF IInv, LoadInv
<1> QED BY <1>1, <1>2, <1>3, <1>4, StepsOf

LEMMA Inductive == Spec => []IInv
<1>1. Init => IInv
  BY InitInv
<1>2. IInv /\ [Next]_vars => IInv'
  BY NextInv
<1> QED BY <1>1, <1>2, PTL DEF Spec

-----------------------------------------------------------------------------
(* The results.                                                             *)

LEMMA IInvType == IInv => TypeOK
<1> SUFFICES ASSUME IInv PROVE TypeOK
  OBVIOUS
<1>0. CInv /\ RInv /\ PInv /\ LInv
  BY DEF IInv, LoadInv
<1>1. /\ intent \in Intents /\ mode \in {"pure", "mixed"} /\ tmup \in Files
      /\ root \in {NoFile} \cup {Candidates[k] : k \in DOMAIN Candidates}
      /\ options \in BOOLEAN \X Nat
  BY <1>0 DEF CInv
<1>2. \A p \in Plugins : /\ declared[p].id \in Ids /\ declared[p].place \in 0 .. Len(kdl)
                         /\ {declared[p].enabled, declared[p].cond} \subseteq Conditions
  BY <1>0, PluginFacts
<1>3. /\ stage \in ConfigStage \cup {"enabled", "cond", "if", "resolved", "failed"}
      /\ queue \subseteq Plugins /\ cur \in Plugins \cup {0}
      /\ enabled \subseteq Plugins /\ eligible \subseteq Plugins
      /\ todo \in Seq(ElementsOf(Blocks))
      /\ failure \in {"none", "config", "spawn", "signal", "timeout", "monitor"}
  BY <1>0 DEF RInv, Stages
<1>4. setup \in [DOMAIN setup -> Seq(Line)] /\ bindings \in [DOMAIN setup -> Seq(Line)]
  <2>1. Seq(SetupLine) \subseteq Seq(Line) /\ Seq(BindLine) \subseteq Seq(Line)
    BY DEF SetupLine, BindLine
  <2>2. setup \in [DOMAIN setup -> Seq(SetupLine)] /\ bindings \in [DOMAIN setup -> Seq(BindLine)]
    BY <1>0 DEF RInv
  <2> QED BY <2>1, <2>2
<1>5. /\ shell \in [state : {"none", "running", "zero", "nonzero", "signal", "killed"},
                    age : 0 .. Timeout, ended : 0 .. Timeout,
                    step : {"poll", "sleep", "last", "kill"}]
      /\ asked \in Seq(Predicates) /\ answers \in [Predicates -> {"unasked", "zero", "nonzero"}]
  BY <1>0 DEF PInv
<1>6. /\ step \in {"conditions", "plan", "global", "commands", "ended"}
      /\ excluded \subseteq Ids /\ unsynced \subseteq excluded /\ broken \subseteq Ids
      /\ plan \in Seq(Command) /\ next \in 1 .. Len(plan) + 1
      /\ failures \in Seq(1 .. Len(plan))
      /\ ran \in [DOMAIN plan -> {"no", "ok", "failed"}]
      /\ last \in [Names -> 0 .. Len(plan)]
      /\ outcome \in {"none", "ok", "failures", "error"}
  BY <1>0 DEF LInv
<1> QED BY <1>1, <1>2, <1>3, <1>4, <1>5, <1>6, Zenon DEF TypeOK

(* Every variable keeps its type, for any documents, tmux files and scripts: *)
(* in particular what is left of a block is always a block of known nodes,   *)
(* and the deadline of a predicate is never passed by.                      *)
THEOREM TypeCorrect == Spec => []TypeOK
  BY Inductive, IInvType, PTL

(* A predicate that exits in time is never reported as timed out, and none   *)
(* is left running once the resolution has ended (config_mode/condition.rs,  *)
(* ShellConditionRunner::run).                                               *)
THEOREM PredicatesJudged == Spec => []PredicateJudged
<1>1. IInv => PredicateJudged
  <2> SUFFICES ASSUME IInv PROVE PredicateJudged
    OBVIOUS
  <2>1. RInv /\ PInv /\ Timeout \in Nat
    BY ConditionsAssumption DEF IInv
  <2>2. stage = "resolved" => shell.state = "none"
    BY <2>1 DEF PInv, AtHand
  <2>3. NoStrayProcess
    BY <2>1, <2>2 DEF PInv, NoStrayProcess
  <2>4. failure = "timeout" => stage = "failed" /\ shell.state # "running" /\ shell.step = "kill"
    BY <2>1 DEF RInv, PInv
  <2>5. NoFalseTimeout
    BY <2>1, <2>4 DEF PInv, NoFalseTimeout
  <2> QED BY <2>3, <2>5 DEF PredicateJudged
<1> QED BY <1>1, Inductive, PTL

(* A command has been run exactly if its plugin was neither left out by sync *)
(* nor had a command fail before; what is reported as failed did fail, and   *)
(* success is reported only if nothing failed (init_session.rs,             *)
(* execute_load_plan and execute_core).                                      *)
THEOREM FailedAreLeftAlone == Spec => []FailedLeftAlone
<1>1. IInv => FailedLeftAlone
  <2> SUFFICES ASSUME IInv PROVE FailedLeftAlone
    OBVIOUS
  <2>1. LInv /\ JInv
    BY DEF IInv, LoadInv
  <2>2. step = "commands" \/ outcome \in {"ok", "failures"} =>
          \A k \in DOMAIN plan : ran[k] # "no" <=> k < next /\ Ready(k)
    BY <2>1 DEF JInv, Underway
  <2>3. outcome \in {"ok", "failures"} => \A k \in DOMAIN plan : k < next
    BY <2>1 DEF LInv
  <2> QED BY <2>1, <2>2, <2>3 DEF JInv, FailedLeftAlone
<1> QED BY <1>1, Inductive, PTL

(* Once a command has run, one before it that is not of a broken plugin has  *)
(* run, too, and has not failed.                                            *)
LEMMA RanBefore ==
  ASSUME IInv, Underway, NEW k \in DOMAIN plan, k < next, Owner(k) \notin broken
  PROVE  ran[k] = "ok"
<1>1. LInv /\ JInv
  BY DEF IInv, LoadInv
<1>2. \A j \in DOMAIN plan : Owner(j) = Owner(k) => ran[j] # "failed"
  BY <1>1 DEF JInv
<1>3. Ready(k)
  <2>1. \A j \in 1 .. k - 1 : j \in DOMAIN plan
    BY <1>1 DEF LInv
  <2> QED BY <1>1, <1>2, <2>1 DEF JInv, Ready
<1> QED BY <1>1, <1>2, <1>3 DEF JInv, LInv

LEMMA SetupSeen == IInv => ScriptsSeeSetup
<1> SUFFICES ASSUME IInv, NEW k \in DOMAIN plan, plan[k].kind = "script", ran[k] # "no",
                    NEW p \in eligible, declared[p].id \notin broken
             PROVE  Picked(plan, {j \in 1 .. k - 1 : /\ ran[j] = "ok" /\ plan[j].plugin = p
                                                     /\ plan[j].kind = "setup"})
                      = Commands(p, setup[p])
  BY DEF ScriptsSeeSetup
<1>1. CInv /\ RInv /\ LInv /\ JInv /\ Planned
  BY DEF IInv, LoadInv
<1>2. Underway /\ k < next
  BY <1>1 DEF LInv, JInv, Underway, Before
<1>3. Phased /\ SetupOf(p)
  BY <1>1, <1>2 DEF Planned
<1>4. DOMAIN plan = 1 .. Len(plan) /\ Len(plan) \in Nat /\ p \in Plugins
  BY <1>1 DEF LInv, RInv
<1>5. Len(setup[p]) \in Nat /\ DOMAIN setup[p] = 1 .. Len(setup[p])
  <2>1. setup \in [Plugins -> Seq(SetupLine)]
    BY <1>1, <1>2 DEF RInv, LInv, Underway
  <2>2. setup[p] \in Seq(SetupLine)
    BY <1>4, <2>1
  <2> QED BY <2>2
<1>6. PICK off \in 0 .. Len(plan) :
        /\ off + Len(setup[p]) <= Len(plan)
        /\ \A i \in 1 .. Len(setup[p]) : plan[off + i] = Commands(p, setup[p])[i]
        /\ \A j \in DOMAIN plan : plan[j].plugin = p /\ plan[j].kind = "setup"
                                     <=> j \in off + 1 .. off + Len(setup[p])
  BY <1>3 DEF SetupOf
<1> DEFINE applied == {j \in 1 .. k - 1 : /\ ran[j] = "ok" /\ plan[j].plugin = p
                                          /\ plan[j].kind = "setup"}
<1>7. \A j \in off + 1 .. off + Len(setup[p]) : j \in 1 .. k - 1 /\ ran[j] = "ok"
  <2> TAKE j \in off + 1 .. off + Len(setup[p])
  <2>1. j \in DOMAIN plan
    BY <1>4, <1>5, <1>6
  <2>2. plan[j].plugin = p /\ plan[j].kind = "setup"
    BY <1>6, <2>1
  <2>3. ~(k < j) /\ k # j
    BY <1>3, <2>1, <2>2 DEF Phased
  <2>4. j < k /\ j < next
    BY <1>1, <1>2, <1>4, <2>1, <2>3 DEF LInv
  <2>5. Owner(j) \notin broken
    BY <2>2 DEF Owner
  <2>6. ran[j] = "ok"
    BY <1>2, <2>1, <2>4, <2>5, RanBefore
  <2> QED BY <1>4, <2>1, <2>4, <2>6
<1>8. applied = off + 1 .. off + Len(setup[p])
  <2>1. \A j \in applied : j \in off + 1 .. off + Len(setup[p])
    BY <1>4, <1>6
  <2>2. \A j \in off + 1 .. off + Len(setup[p]) : j \in applied
    <3> TAKE j \in off + 1 .. off + Len(setup[p])
    <3>1. j \in 1 .. k - 1 /\ ran[j] = "ok" /\ j \in DOMAIN plan
      BY <1>4, <1>7
    <3> QED BY <1>6, <3>1
  <2> HIDE DEF applied
  <2> QED BY <2>1, <2>2
<1> HIDE DEF applied
<1>9. Picked(plan, applied) = [i \in 1 .. Len(setup[p]) |-> plan[off + i]]
  BY <1>5, <1>6, <1>8, PickedInterval
<1>10. Commands(p, setup[p]) = [i \in 1 .. Len(setup[p]) |-> Commands(p, setup[p])[i]]
  BY <1>5 DEF Commands
<1>11. Picked(plan, applied) = Commands(p, setup[p])
  BY <1>6, <1>9, <1>10
<1> QED BY <1>11 DEF applied

(* Whatever the order of declaration, a script runs after all the options    *)
(* and variables of the plugins that have not failed, and an explicit        *)
(* binding has the last word on its key (loader.rs, build_load_plan).       *)
THEOREM PhasesAreKept == Spec => []PhasesInOrder
<1>1. IInv => BindingsWin
  <2> SUFFICES ASSUME IInv PROVE BindingsWin
    OBVIOUS
  <2>1. Overridden
    BY DEF IInv, LoadInv
  <2> QED BY <2>1 DEF Overridden, Underway, BindingsWin
<1>2. IInv => PhasesInOrder
  BY <1>1, SetupSeen DEF PhasesInOrder
<1> QED BY <1>2, Inductive, PTL

(* Until the user has written a tmup.kdl, every command that loads has the   *)
(* documented options and declares nothing natively, however far the         *)
(* creation of the default file has got (config_mode.rs,                     *)
(* create_default_tmup_config and load_tmup_config_or_default).              *)
THEOREM FirstStartIsUnseen == Spec => []FirstStartUnseen
<1>1. IInv => FirstStartUnseen
  BY DEF IInv
<1> QED BY <1>1, Inductive, PTL
=============================================================================
