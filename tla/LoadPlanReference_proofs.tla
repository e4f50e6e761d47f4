----------------------- MODULE LoadPlanReference_proofs -----------------------
(***************************************************************************)
(* What mixed mode makes of the files there are, whatever they hold.       *)
(* Scanning says how far the scan of the tmux configuration has got: the   *)
(* lines of the main file, followed by those of the files that each        *)
(* directive up to this one has named and that could be opened, with the   *)
(* directive (at) each of them stems from.  It leads to the order in which *)
(* the plugins were found (InRank), and MergedFrom, what a merge makes of  *)
(* such plugins and a document, to what the documentation promises.        *)
(*                                                                         *)
(* Then how the conditions are resolved.  The reference is defined by      *)
(* recursion over blocks, which has to be unfolded (FixedPoint) and led to *)
(* what is visited of any sequence of nodes (VisitedOf), since what is     *)
(* left of a block is no block.  Answering says of the predicates asked so *)
(* far that they and what is ahead are the order, for all who guess the    *)
(* answers still to come.                                                  *)
(***************************************************************************)
EXTENDS LoadPlanReference, LoadPlan_proofs, SequenceTheorems

-----------------------------------------------------------------------------
(* What is picked, in its order.                                            *)

LEMMA RankGrows ==
  ASSUME NEW S, S \subseteq Nat, IsFiniteSet(S), NEW x \in S, NEW y \in S, x < y
  PROVE  Cardinality(Below(S, x)) < Cardinality(Below(S, y))
<1>1. Below(S, x) \cup {x} \subseteq Below(S, y) /\ x \notin Below(S, x)
  <2>1. x \in Nat /\ y \in Nat /\ \A z \in S : z \in Nat /\ (z < x => z < y)
    OBVIOUS
  <2>2. ~(x < x)
    BY <2>1
  <2> QED BY <2>1, <2>2, Zenon DEF Below
<1>2. /\ IsFiniteSet(Below(S, x)) /\ IsFiniteSet(Below(S, y))
      /\ Cardinality(Below(S, x)) \in Nat /\ Cardinality(Below(S, y)) \in Nat
  BY BelowFinite
<1>3. /\ IsFiniteSet(Below(S, x) \cup {x})
      /\ Cardinality(Below(S, x) \cup {x}) = Cardinality(Below(S, x)) + 1
  BY <1>1, <1>2, FS_AddElement
<1>4. Cardinality(Below(S, x) \cup {x}) <= Cardinality(Below(S, y))
  BY <1>1, <1>2, FS_Subset
<1> QED BY <1>2, <1>3, <1>4

LEMMA SortedAscends ==
  ASSUME NEW S, S \subseteq Nat, IsFiniteSet(S)
  PROVE  /\ \A j, k \in 1 .. Cardinality(S) : j < k => Sorted(S)[j] < Sorted(S)[k]
         /\ \A x \in S : \E k \in 1 .. Cardinality(S) : Sorted(S)[k] = x
<1>1. Sorted(S) \in [1 .. Cardinality(S) -> S] /\ Cardinality(S) \in Nat
  BY SortedType
<1>2. \A k \in 1 .. Cardinality(S) : Cardinality(Below(S, Sorted(S)[k])) = k - 1
  BY RankTaken DEF Sorted, Below
<1>3. \A x, y \in S : Cardinality(Below(S, x)) \in Nat /\ (x < y => Cardinality(Below(S, x)) < Cardinality(Below(S, y)))
  BY RankGrows, BelowFinite
<1>4. ASSUME NEW x \in S, NEW y \in S, Cardinality(Below(S, x)) < Cardinality(Below(S, y))
      PROVE  x < y
  <2>1. x \in Nat /\ y \in Nat
    OBVIOUS
  <2>2. CASE x = y
    BY <1>3, <1>4, <2>2
  <2>3. CASE y < x
    <3>1. Cardinality(Below(S, y)) < Cardinality(Below(S, x))
      BY <1>3, <2>3
    <3> QED BY <1>3, <1>4, <3>1
  <2> QED BY <2>1, <2>2, <2>3
<1>5. \A j, k \in 1 .. Cardinality(S) : j < k => Sorted(S)[j] < Sorted(S)[k]
  <2> SUFFICES ASSUME NEW j \in 1 .. Cardinality(S), NEW k \in 1 .. Cardinality(S), j < k
               PROVE  Sorted(S)[j] < Sorted(S)[k]
    OBVIOUS
  <2>1. Sorted(S)[j] \in S /\ Sorted(S)[k] \in S
    BY <1>1
  <2>2. Cardinality(Below(S, Sorted(S)[j])) = j - 1 /\ Cardinality(Below(S, Sorted(S)[k])) = k - 1
    BY <1>2
  <2>3. Cardinality(Below(S, Sorted(S)[j])) < Cardinality(Below(S, Sorted(S)[k]))
    BY <1>1, <2>2
  <2> QED BY <1>4, <2>1, <2>3
<1>6. ASSUME NEW x \in S PROVE \E k \in 1 .. Cardinality(S) : Sorted(S)[k] = x
  <2> DEFINE k == Cardinality(Below(S, x)) + 1
  <2>1. Below(S, x) \subseteq S \ {x} /\ IsFiniteSet(S \ {x}) /\ Cardinality(S \ {x}) = Cardinality(S) - 1
    BY FS_RemoveElement DEF Below
  <2>2. Cardinality(Below(S, x)) <= Cardinality(S) - 1
    BY <2>1, FS_Subset
  <2>3. k \in 1 .. Cardinality(S)
    BY <1>1, <1>3, <2>2
  <2>4. Sorted(S)[k] \in S /\ Cardinality(Below(S, Sorted(S)[k])) = Cardinality(Below(S, x))
    BY <1>1, <1>2, <1>3, <2>3
  <2> HIDE DEF k
  <2>5. /\ x < Sorted(S)[k] => Cardinality(Below(S, x)) < Cardinality(Below(S, Sorted(S)[k]))
        /\ Sorted(S)[k] < x => Cardinality(Below(S, Sorted(S)[k])) < Cardinality(Below(S, x))
    BY <1>3, <2>4
  <2>6. Cardinality(Below(S, x)) \in Nat /\ x \in Nat /\ Sorted(S)[k] \in Nat
    BY <1>3, <2>4
  <2>7. Sorted(S)[k] = x
    BY <2>4, <2>5, <2>6
  <2> QED BY <2>3, <2>7
<1> QED BY <1>5, <1>6

(* s at the places given, taken by o in ascending order.                    *)
Takes(picked, s, places, o) ==
  /\ DOMAIN picked = 1 .. Len(picked) /\ Len(picked) \in Nat
  /\ o \in [1 .. Len(picked) -> places]
  /\ \A j \in 1 .. Len(picked) : picked[j] = s[o[j]]
  /\ \A j, k \in 1 .. Len(picked) : j < k => o[j] < o[k]
  /\ \A x \in places : \E j \in 1 .. Len(picked) : o[j] = x

LEMMA PickedTakes ==
  ASSUME NEW s, NEW places, places \subseteq Nat, IsFiniteSet(places)
  PROVE  Takes(Picked(s, places), s, places, Sorted(places))
<1>1. Sorted(places) \in [1 .. Cardinality(places) -> places] /\ Cardinality(places) \in Nat
  BY SortedType
<1>2. Picked(s, places) = [j \in 1 .. Cardinality(places) |-> s[Sorted(places)[j]]]
  BY DEF Picked
<1>3. Len(Picked(s, places)) = Cardinality(places) /\ DOMAIN Picked(s, places) = 1 .. Cardinality(places)
  BY <1>1, <1>2
<1> QED BY <1>1, <1>2, <1>3, SortedAscends DEF Takes

-----------------------------------------------------------------------------
(* Merging.                                                                 *)

Plugs(doc) == {k \in DOMAIN doc : IsPlug(doc[k])}

LEMMA DeclarationsTake ==
  ASSUME NEW doc \in Docs
  PROVE  /\ DOMAIN Declarations(doc) = 1 .. Len(Declarations(doc)) /\ Len(Declarations(doc)) \in Nat
         /\ \E o \in [DOMAIN Declarations(doc) -> Plugs(doc)] :
              /\ \A j \in DOMAIN Declarations(doc) : Declarations(doc)[j] = Declaration(doc, o[j])
              /\ \A j, k \in DOMAIN Declarations(doc) : j < k => o[j] < o[k]
              /\ \A x \in Plugs(doc) : \E j \in DOMAIN Declarations(doc) : o[j] = x
<1> DEFINE P == Plugs(doc)
           o == Sorted(P)
<1>1. P \subseteq Nat /\ IsFiniteSet(P)
  BY DocShape, PlacesFinite DEF Plugs
<1>2. o \in [1 .. Cardinality(P) -> P] /\ Cardinality(P) \in Nat
  BY <1>1, SortedType
<1>3. Declarations(doc) = [j \in DOMAIN o |-> Declaration(doc, o[j])]
  BY DEF Declarations, Plugs
<1>4. /\ \A j, k \in 1 .. Cardinality(P) : j < k => o[j] < o[k]
      /\ \A x \in P : \E k \in 1 .. Cardinality(P) : o[k] = x
  BY <1>1, SortedAscends
<1> HIDE DEF o
<1>5. DOMAIN Declarations(doc) = 1 .. Cardinality(P) /\ Len(Declarations(doc)) = Cardinality(P)
  BY <1>2, <1>3
<1> HIDE DEF P
<1>6. \A j \in DOMAIN Declarations(doc) : Declarations(doc)[j] = Declaration(doc, o[j])
  BY <1>2, <1>3, <1>5
<1> QED BY <1>2, <1>4, <1>5, <1>6 DEF P

(* What the merge of a document and of the lines of tmux files is: at the    *)
(* head what the lines declare, then the rest of the document.               *)
OfDoc(d, doc, k) == k \in Plugs(doc) /\ d = Declaration(doc, k)

MergedFrom(all, doc, tpms) ==
  /\ DOMAIN all = 1 .. Len(all) /\ Len(all) \in Nat /\ Len(tpms) \in Nat /\ Len(tpms) <= Len(all)
  /\ \A j \in 1 .. Len(tpms) :
       /\ all[j].id = tpms[j].id /\ all[j].remote
       /\ \/ /\ all[j] = FromTpm(tpms[j])
             /\ \A k \in Plugs(doc) : ~(doc[k].remote /\ doc[k].id = tpms[j].id)
          \/ \E k : OfDoc(all[j], doc, k)
  /\ \A j \in Len(tpms) + 1 .. Len(all) :
       /\ \E k : OfDoc(all[j], doc, k)
       /\ all[j].remote => \A i \in 1 .. Len(tpms) : tpms[i].id # all[j].id
  /\ \A j, k \in Len(tpms) + 1 .. Len(all) : j < k => all[j].place < all[k].place
  /\ \A k \in Plugs(doc) : \E j \in DOMAIN all : all[j] = Declaration(doc, k)

Distinct(tpms) == \A i, j \in 1 .. Len(tpms) : tpms[i].id = tpms[j].id => i = j

LEMMA DocDeclaration ==
  ASSUME NEW doc \in Docs, NEW k \in Plugs(doc)
  PROVE  /\ Declaration(doc, k).id = doc[k].id /\ Declaration(doc, k).remote = doc[k].remote
         /\ Declaration(doc, k).place = k /\ k \in Nat /\ k > 0 /\ doc[k].remote \in BOOLEAN
         /\ Declaration(doc, k).enabled = doc[k].enabled /\ Declaration(doc, k).cond = doc[k].cond
         /\ Declaration(doc, k).runtime = doc[k].children /\ PlugNode(doc[k])
<1>1. k \in DOMAIN doc /\ IsPlug(doc[k])
  BY DEF Plugs
<1>2. DOMAIN doc = 1 .. Len(doc) /\ Len(doc) \in Nat
  BY DocShape
<1>3. k \in Nat /\ k > 0
  BY <1>1, <1>2
<1>4. PlugNode(doc[k])
  BY <1>1, DocShape, Zenon
<1> QED BY <1>3, <1>4 DEF Declaration, PlugNode

LEMMA DocAlone ==   \* without tmux files
  ASSUME NEW doc \in Docs
  PROVE  MergedFrom(Declarations(doc), doc, <<>>)
<1> DEFINE D == Declarations(doc)
<1>1. DOMAIN D = 1 .. Len(D) /\ Len(D) \in Nat
  BY DeclarationsTake
<1>2. PICK o \in [DOMAIN D -> Plugs(doc)] :
              /\ \A j \in DOMAIN D : D[j] = Declaration(doc, o[j])
              /\ \A j, k \in DOMAIN D : j < k => o[j] < o[k]
              /\ \A x \in Plugs(doc) : \E j \in DOMAIN D : o[j] = x
  BY DeclarationsTake
<1> HIDE DEF D
<1>3. \A j \in DOMAIN D : D[j].place = o[j] /\ OfDoc(D[j], doc, o[j])
  BY <1>2, DocDeclaration DEF OfDoc
<1>4. \A k \in Plugs(doc) : \E j \in DOMAIN D : D[j] = Declaration(doc, k)
  BY <1>2
<1>5. Len(<<>>) = 0 /\ 1 .. 0 = {} /\ 0 + 1 .. Len(D) = DOMAIN D
  BY <1>1
<1>6. \A j, k \in 0 + 1 .. Len(D) : j < k => D[j].place < D[k].place
  BY <1>2, <1>3, <1>5
<1>7. \A j \in 0 + 1 .. Len(D) : \E k : OfDoc(D[j], doc, k)
  BY <1>3, <1>5
<1>8. MergedFrom(D, doc, <<>>)
  BY <1>1, <1>4, <1>5, <1>6, <1>7 DEF MergedFrom
<1> QED BY <1>8 DEF D

LEMMA MergeMerges ==
  ASSUME NEW doc \in Docs, ~RemoteTwice(doc), NEW tpms \in Seq(PluginLines), Distinct(tpms)
  PROVE  MergedFrom(Merge(Declarations(doc), tpms), doc, tpms)
<1> DEFINE D == Declarations(doc)
           n == Len(tpms)
           slot(l) == IF Matches(D, l) = {} THEN FromTpm(l) ELSE D[CHOOSE k \in Matches(D, l) : TRUE]
           consumed == UNION {Matches(D, tpms[j]) : j \in DOMAIN tpms}
           left == DOMAIN D \ consumed
           slots == [j \in DOMAIN tpms |-> slot(tpms[j])]
           rest == Picked(D, left)
           all == Merge(D, tpms)
<1>1. DOMAIN D = 1 .. Len(D) /\ Len(D) \in Nat
  BY DeclarationsTake
<1>2. PICK o \in [DOMAIN D -> Plugs(doc)] :
              /\ \A j \in DOMAIN D : D[j] = Declaration(doc, o[j])
              /\ \A j, k \in DOMAIN D : j < k => o[j] < o[k]
              /\ \A x \in Plugs(doc) : \E j \in DOMAIN D : o[j] = x
  BY DeclarationsTake
<1>3. n \in Nat /\ DOMAIN tpms = 1 .. n /\ \A j \in 1 .. n : tpms[j] \in PluginLines
  OBVIOUS
<1>4. all = slots \o rest
  BY DEF Merge
<1>5. Takes(rest, D, left, Sorted(left))
  <2>1. left \subseteq Nat /\ left \subseteq DOMAIN D
    BY <1>1
  <2>2. IsFiniteSet(left)
    <3>1. IsFiniteSet(1 .. Len(D))
      BY <1>1, FS_Interval
    <3> HIDE DEF left, D
    <3> QED BY <1>1, <2>1, <3>1, FS_Subset
  <2> HIDE DEF left, D
  <2> QED BY <2>1, <2>2, PickedTakes
<1> DEFINE p == Sorted(left)
<1>6. Len(slots) = n /\ DOMAIN slots = 1 .. n
  BY <1>3
<1>7. DOMAIN rest = 1 .. Len(rest) /\ Len(rest) \in Nat
  BY <1>5 DEF Takes
<1>8. /\ DOMAIN all = 1 .. Len(all) /\ Len(all) = n + Len(rest)
      /\ \A j \in 1 .. n : all[j] = slot(tpms[j])
      /\ \A j \in n + 1 .. Len(all) : all[j] = rest[j - n]
  <2>1. \A j \in 1 .. n : slots[j] = slot(tpms[j])
    BY <1>6
  <2> HIDE DEF slots, slot, rest, n
  <2> DEFINE V == {slots[i] : i \in DOMAIN slots} \cup {rest[i] : i \in DOMAIN rest}
  <2>2. slots \in Seq(V) /\ rest \in Seq(V)
    <3>1. slots \in [1 .. n -> V]
      <4>1. slots = [j \in 1 .. n |-> slots[j]]
        BY <1>3, Zenon DEF slots
      <4> QED BY <1>6, <4>1
    <3>2. rest = [j \in 1 .. Len(rest) |-> rest[j]]
      BY <1>5, <1>7, Zenon DEF Picked, rest
    <3>3. rest \in [1 .. Len(rest) -> V]
      BY <1>7, <3>2
    <3> HIDE DEF V
    <3> QED BY <1>3, <1>7, <3>1, <3>3
  <2> HIDE DEF V
  <2>3. /\ Len(slots \o rest) = n + Len(rest) /\ DOMAIN (slots \o rest) = 1 .. n + Len(rest)
        /\ \A j \in 1 .. n : (slots \o rest)[j] = slots[j]
        /\ \A j \in n + 1 .. n + Len(rest) : (slots \o rest)[j] = rest[j - n]
    <3> HIDE DEF n
    <3>1. /\ Len(slots \o rest) = n + Len(rest) /\ DOMAIN (slots \o rest) = 1 .. n + Len(rest)
          /\ \A j \in 1 .. n : (slots \o rest)[j] = slots[j]
      BY <1>3, <1>6, <1>7, <2>2
    <3>2. ASSUME NEW j \in n + 1 .. n + Len(rest) PROVE (slots \o rest)[j] = rest[j - n]
      <4>1. j \in 1 .. Len(slots) + Len(rest) /\ j > Len(slots) /\ j \in Nat
        BY <1>3, <1>6, <1>7
      <4> QED BY <1>6, <2>2, <4>1
    <3> QED BY <3>1, <3>2
  <2> QED BY <1>3, <1>4, <1>7, <2>1, <2>3
<1> HIDE DEF all, rest, slots, D
(* the declarations of a document *)
<1>9. \A k \in DOMAIN D : /\ OfDoc(D[k], doc, o[k]) /\ D[k].id = doc[o[k]].id /\ D[k].place = o[k]
                          /\ D[k].remote = doc[o[k]].remote /\ D[k].remote \in BOOLEAN
  BY <1>2, DocDeclaration DEF OfDoc
<1>10. ASSUME NEW j \in DOMAIN D, NEW k \in DOMAIN D, D[j].remote, D[k].remote, D[j].id = D[k].id
       PROVE  j = k
  <2>1. o[j] = o[k]
    <3>1. /\ o[j] \in DOMAIN doc /\ o[k] \in DOMAIN doc /\ IsPlug(doc[o[j]]) /\ IsPlug(doc[o[k]])
          /\ doc[o[j]].remote /\ doc[o[k]].remote /\ doc[o[j]].id = doc[o[k]].id
      BY <1>2, <1>9, <1>10 DEF Plugs
    <3>2. ~(o[j] < o[k]) /\ ~(o[k] < o[j])
      BY <3>1 DEF RemoteTwice
    <3>3. o[j] \in Nat /\ o[k] \in Nat
      BY <1>2, DocDeclaration
    <3> QED BY <3>2, <3>3
  <2>2. o[j] \in Nat
    BY <1>2, DocDeclaration
  <2>3. ~(j < k) /\ ~(k < j)
    BY <1>2, <2>1, <2>2
  <2> QED BY <1>1, <2>3
(* the slots *)
<1>11. ASSUME NEW j \in 1 .. n
       PROVE  /\ all[j].id = tpms[j].id /\ all[j].remote
              /\ \/ /\ all[j] = FromTpm(tpms[j])
                    /\ \A k \in Plugs(doc) : ~(doc[k].remote /\ doc[k].id = tpms[j].id)
                 \/ \E k : OfDoc(all[j], doc, k)
              /\ \A k \in Matches(D, tpms[j]) : all[j] = D[k]
  <2>1. all[j] = slot(tpms[j])
    BY <1>8
  <2>2. CASE Matches(D, tpms[j]) = {}
    <3>1. all[j] = FromTpm(tpms[j]) /\ all[j].id = tpms[j].id /\ all[j].remote
      BY <2>1, <2>2 DEF FromTpm
    <3>2. ASSUME NEW k \in Plugs(doc), doc[k].remote, doc[k].id = tpms[j].id PROVE FALSE
      <4>1. PICK i \in DOMAIN D : o[i] = k
        BY <1>2
      <4>2. i \in Matches(D, tpms[j])
        BY <1>9, <3>2, <4>1 DEF Matches
      <4> QED BY <2>2, <4>2
    <3> QED BY <2>2, <3>1, <3>2
  <2>3. CASE Matches(D, tpms[j]) # {}
    <3>1. PICK i \in Matches(D, tpms[j]) : all[j] = D[i]
      BY <2>1, <2>3
    <3>2. i \in DOMAIN D /\ D[i].remote /\ D[i].id = tpms[j].id
      BY DEF Matches
    <3>3. \A k \in Matches(D, tpms[j]) : k = i
      BY <1>10, <3>2 DEF Matches
    <3> QED BY <1>9, <3>1, <3>2, <3>3
  <2> QED BY <2>2, <2>3
(* the rest *)
<1>12. ASSUME NEW j \in n + 1 .. Len(all)
       PROVE  /\ j - n \in 1 .. Len(rest) /\ p[j - n] \in left /\ all[j] = D[p[j - n]]
  <2>1. j - n \in 1 .. Len(rest)
    BY <1>3, <1>7, <1>8
  <2> HIDE DEF p, left
  <2>2. p[j - n] \in left /\ rest[j - n] = D[p[j - n]]
    BY <1>5, <2>1 DEF Takes, p
  <2> QED BY <1>8, <2>1, <2>2
<1>13. \A j \in n + 1 .. Len(all) :
         /\ \E k : OfDoc(all[j], doc, k)
         /\ all[j].remote => \A i \in 1 .. n : tpms[i].id # all[j].id
  <2> SUFFICES ASSUME NEW j \in n + 1 .. Len(all)
               PROVE  /\ \E k : OfDoc(all[j], doc, k)
                      /\ all[j].remote => \A i \in 1 .. n : tpms[i].id # all[j].id
    OBVIOUS
  <2>1. p[j - n] \in DOMAIN D /\ p[j - n] \notin consumed /\ all[j] = D[p[j - n]]
    BY <1>12
  <2>2. \A i \in 1 .. n : p[j - n] \notin Matches(D, tpms[i])
    BY <1>3, <2>1
  <2> HIDE DEF p
  <2> QED BY <1>9, <2>1, <2>2 DEF Matches
<1>14. \A j, k \in n + 1 .. Len(all) : j < k => all[j].place < all[k].place
  <2> SUFFICES ASSUME NEW j \in n + 1 .. Len(all), NEW k \in n + 1 .. Len(all), j < k
               PROVE  all[j].place < all[k].place
    OBVIOUS
  <2>1. j - n < k - n
    BY <1>3, <1>7, <1>8
  <2>2. j - n \in 1 .. Len(rest) /\ k - n \in 1 .. Len(rest)
    BY <1>12
  <2>3. p[j - n] < p[k - n]
    BY <1>5, <2>1, <2>2, Zenon DEF Takes
  <2>4. p[j - n] \in DOMAIN D /\ p[k - n] \in DOMAIN D
    BY <1>12
  <2>5. all[j] = D[p[j - n]] /\ all[k] = D[p[k - n]]
    BY <1>12
  <2> HIDE DEF p
  <2> QED BY <1>2, <1>9, <2>3, <2>4, <2>5
<1>15. \A k \in Plugs(doc) : \E j \in DOMAIN all : all[j] = Declaration(doc, k)
  <2> SUFFICES ASSUME NEW k \in Plugs(doc) PROVE \E j \in DOMAIN all : all[j] = Declaration(doc, k)
    OBVIOUS
  <2>1. PICK i \in DOMAIN D : o[i] = k
    BY <1>2
  <2>2. CASE i \in consumed
    <3>1. PICK j \in 1 .. n : i \in Matches(D, tpms[j])
      BY <1>3, <2>2
    <3>2. all[j] = D[i] /\ j \in DOMAIN all
      BY <1>3, <1>7, <1>8, <1>11, <3>1
    <3> QED BY <1>2, <2>1, <3>2
  <2>3. CASE i \notin consumed
    <3>1. i \in left
      BY <2>3
    <3> HIDE DEF p, left
    <3>2. PICK j \in 1 .. Len(rest) : p[j] = i
      BY <1>5, <3>1 DEF Takes, p
    <3>3. n + j \in n + 1 .. Len(all) /\ n + j \in DOMAIN all /\ (n + j) - n = j
      BY <1>3, <1>7, <1>8
    <3>4. all[n + j] = D[i]
      BY <1>12, <3>2, <3>3
    <3> QED BY <1>2, <2>1, <3>3, <3>4
  <2> QED BY <2>2, <2>3
<1>16. n <= Len(all) /\ Len(all) \in Nat
  BY <1>3, <1>7, <1>8
<1> QED BY <1>3, <1>8, <1>11, <1>13, <1>14, <1>15, <1>16 DEF MergedFrom, all, D

(* A merge of what was found by scanning the files is what is documented.    *)
InRank(tpms) ==
  /\ {tpms[j].id : j \in 1 .. Len(tpms)} = ByTpm
  /\ \A i, j \in 1 .. Len(tpms) : i < j => Rank(tpms[i].id) <= Rank(tpms[j].id)

LEMMA MergeDocumented ==
  ASSUME kdl \in Docs, NEW tpms \in Seq(PluginLines), Distinct(tpms), InRank(tpms),
         MergedFrom(declared, kdl, tpms)
  PROVE  MergedAsDocumented
<1> DEFINE n == Len(tpms)
<1>1. n \in Nat /\ Len(declared) \in Nat /\ n <= Len(declared) /\ Plugins = 1 .. Len(declared)
  BY DEF MergedFrom, Plugins
<1>2. \A p \in Plugins : \A k : OfDoc(declared[p], kdl, k) =>
        /\ declared[p].place = k /\ k > 0 /\ k \in Nat /\ k \in InKdl
        /\ declared[p].id = kdl[k].id /\ declared[p].remote = kdl[k].remote
  BY DocDeclaration DEF OfDoc, InKdl, Plugs, IsPlug
<1>3. InKdl = Plugs(kdl)
  BY DEF InKdl, Plugs, IsPlug
<1>4. \A p \in 1 .. n :
        /\ declared[p].id = tpms[p].id /\ declared[p].remote
        /\ \/ /\ declared[p] = FromTpm(tpms[p])
              /\ \A k \in Plugs(kdl) : ~(kdl[k].remote /\ kdl[k].id = tpms[p].id)
           \/ \E k : OfDoc(declared[p], kdl, k)
  BY DEF MergedFrom
<1>5. \A p \in n + 1 .. Len(declared) :
        /\ \E k : OfDoc(declared[p], kdl, k)
        /\ declared[p].remote => \A i \in 1 .. n : tpms[i].id # declared[p].id
  BY DEF MergedFrom
<1>6. \A p, q \in n + 1 .. Len(declared) : p < q => declared[p].place < declared[q].place
  BY DEF MergedFrom
<1>7. \A k \in Plugs(kdl) : \E p \in Plugins : declared[p] = Declaration(kdl, k)
  BY DEF MergedFrom, Plugins
<1>8. \A p \in Plugins : p \in 1 .. n \/ p \in n + 1 .. Len(declared)
  BY <1>1
<1>9. \A p \in 1 .. n : p \in Plugins
  BY <1>1
<1>10. \A p \in Plugins : Tpm(p) <=> p \in 1 .. n
  <2> SUFFICES ASSUME NEW p \in Plugins PROVE Tpm(p) <=> p \in 1 .. n
    OBVIOUS
  <2>1. ASSUME p \in 1 .. n PROVE Tpm(p)
    BY <2>1, <1>4 DEF Tpm, InRank
  <2>2. ASSUME Tpm(p) PROVE p \in 1 .. n
    <3>1. PICK i \in 1 .. n : tpms[i].id = declared[p].id /\ declared[p].remote
      BY <2>2 DEF Tpm, InRank
    <3> HIDE DEF n
    <3> QED BY <1>5, <1>8, <3>1
  <2> QED BY <2>1, <2>2
<1>11. \A p \in Plugins : \/ \E k : OfDoc(declared[p], kdl, k)
                          \/ /\ p \in 1 .. n /\ declared[p] = FromTpm(tpms[p]) /\ declared[p].place = 0
                             /\ \A k \in Plugs(kdl) : ~(kdl[k].remote /\ kdl[k].id = tpms[p].id)
  BY <1>4, <1>5, <1>8 DEF FromTpm
<1>12. Places \ {0} = InKdl
  <2>1. ASSUME NEW x \in Places, x # 0 PROVE x \in InKdl
    <3>1. PICK p \in Plugins : x = declared[p].place
      BY DEF Places
    <3> QED BY <1>2, <1>11, <2>1, <3>1
  <2>2. ASSUME NEW k \in InKdl PROVE k \in Places /\ k # 0
    <3>1. PICK p \in Plugins : declared[p] = Declaration(kdl, k)
      BY <1>3, <1>7
    <3>2. OfDoc(declared[p], kdl, k)
      BY <1>3, <3>1 DEF OfDoc
    <3>3. declared[p].place = k /\ k # 0
      BY <1>2, <3>2
    <3> QED BY <3>3 DEF Places
  <2> QED BY <2>1, <2>2
<1>13. ASSUME NEW p \in Plugins, NEW q \in Plugins, p # q
       PROVE  declared[p].place # declared[q].place \/ declared[p].id # declared[q].id
  <2> SUFFICES ASSUME declared[p].place = declared[q].place, declared[p].id = declared[q].id
               PROVE  FALSE
    OBVIOUS
  <2>1. CASE p \in 1 .. n /\ q \in 1 .. n
    BY <1>4, <1>13, <2>1 DEF Distinct
  <2>2. ASSUME NEW r \in 1 .. n, NEW s \in n + 1 .. Len(declared),
               declared[r].place = declared[s].place, declared[r].id = declared[s].id
        PROVE  FALSE
    <3>1. r \in Plugins /\ s \in Plugins
      BY <1>1
    <3>2. PICK k : OfDoc(declared[s], kdl, k)
      BY <1>5
    <3>3. declared[s].place = k /\ k > 0 /\ k \in Nat /\ declared[s].remote = kdl[k].remote
      BY <1>2, <3>1, <3>2, Zenon
    <3>4. declared[r].place = k /\ k # 0
      BY <2>2, <3>3
    <3>5. PICK m : OfDoc(declared[r], kdl, m)
      BY <1>11, <3>1, <3>4, Zenon
    <3>6. m = k /\ declared[r].remote = kdl[m].remote
      BY <1>2, <3>1, <3>4, <3>5, Zenon
    <3>7. declared[s].remote
      BY <1>4, <3>3, <3>6, Zenon
    <3> QED BY <1>4, <1>5, <2>2, <3>7
  <2>3. CASE p \in n + 1 .. Len(declared) /\ q \in n + 1 .. Len(declared)
    <3>1. declared[p].place \in Nat /\ declared[q].place \in Nat
      <4>1. PICK k : OfDoc(declared[p], kdl, k)
        BY <1>5, <2>3
      <4>2. PICK m : OfDoc(declared[q], kdl, m)
        BY <1>5, <2>3
      <4> QED BY <1>2, <4>1, <4>2, Zenon
    <3>2. p < q \/ q < p
      BY <1>13, <1>1
    <3>3. declared[p].place < declared[q].place \/ declared[q].place < declared[p].place
      BY <1>6, <2>3, <3>2
    <3> QED BY <3>1, <3>3
  <2> QED BY <1>8, <2>1, <2>2, <2>3
<1>14. {declared[p].id : p \in {q \in Plugins : declared[q].place = 0}} = ByTpm \ KdlIds
  <2>1. ASSUME NEW p \in Plugins, declared[p].place = 0
        PROVE  declared[p].id \in ByTpm /\ declared[p].id \notin KdlIds
    <3>1. /\ p \in 1 .. n /\ declared[p] = FromTpm(tpms[p])
          /\ \A k \in Plugs(kdl) : ~(kdl[k].remote /\ kdl[k].id = tpms[p].id)
      <4>1. \A k : OfDoc(declared[p], kdl, k) => k > 0 /\ k \in Nat /\ declared[p].place = k
        BY <1>2, Zenon
      <4>2. ~\E k : OfDoc(declared[p], kdl, k)
        BY <2>1, <4>1
      <4> QED BY <1>11, <4>2, Zenon
    <3>2. declared[p].id = tpms[p].id
      BY <1>4, <3>1
    <3>3. declared[p].id \in ByTpm
      BY <3>1, <3>2 DEF InRank
    <3>4. declared[p].id \notin KdlIds
      BY <1>3, <3>1, <3>2 DEF KdlIds
    <3> QED BY <3>3, <3>4
  <2>2. ASSUME NEW x \in ByTpm, x \notin KdlIds
        PROVE  \E p \in Plugins : declared[p].place = 0 /\ declared[p].id = x
    <3>1. PICK p \in 1 .. n : tpms[p].id = x
      BY DEF InRank
    <3>2. declared[p].id = x /\ declared[p].remote /\ p \in Plugins
      BY <1>4, <1>9, <3>1
    <3>3. ~\E k : OfDoc(declared[p], kdl, k)
      <4> SUFFICES ASSUME NEW k, OfDoc(declared[p], kdl, k) PROVE FALSE
        OBVIOUS
      <4>1. k \in InKdl /\ kdl[k].id = x /\ kdl[k].remote
        BY <1>2, <3>2
      <4> QED BY <2>2, <4>1 DEF KdlIds
    <3> QED BY <1>11, <3>2, <3>3
  <2> QED BY <2>1, <2>2
<1>15. \A p, q \in Plugins : p < q =>
         /\ Tpm(q) => Tpm(p) /\ Rank(declared[p].id) <= Rank(declared[q].id)
         /\ ~Tpm(p) => declared[p].place < declared[q].place
  <2> SUFFICES ASSUME NEW p \in Plugins, NEW q \in Plugins, p < q
               PROVE  /\ Tpm(q) => Tpm(p) /\ Rank(declared[p].id) <= Rank(declared[q].id)
                      /\ ~Tpm(p) => declared[p].place < declared[q].place
    OBVIOUS
  <2>1. Tpm(q) => p \in 1 .. n /\ q \in 1 .. n
    BY <1>1, <1>10
  <2>2. Tpm(q) => Tpm(p)
    BY <1>10, <2>1
  <2>3. Tpm(q) => Rank(declared[p].id) <= Rank(declared[q].id)
    <3> SUFFICES ASSUME Tpm(q) PROVE Rank(declared[p].id) <= Rank(declared[q].id)
      OBVIOUS
    <3>1. declared[p].id = tpms[p].id /\ declared[q].id = tpms[q].id
      BY <1>4, <2>1
    <3>2. Rank(tpms[p].id) <= Rank(tpms[q].id)
      BY <2>1 DEF InRank
    <3> QED BY <3>1, <3>2, Zenon
  <2>4. ~Tpm(p) => p \in n + 1 .. Len(declared) /\ q \in n + 1 .. Len(declared)
    BY <1>1, <1>10
  <2> QED BY <1>6, <2>2, <2>3, <2>4
<1> QED BY <1>12, <1>13, <1>14, <1>15 DEF MergedAsDocumented

-----------------------------------------------------------------------------
(* The scan.                                                                *)

FilesOf(k) == {tmux[root][k].files[j] : j \in DOMAIN tmux[root][k].files}

(* Up to the e-th directive of the main file, what the opened files hold has *)
(* been appended to it: at is the directive that a line stems from.          *)
ScanAt(at, e) ==
  LET main == tmux[root]
  IN  /\ root \in DOMAIN tmux /\ Len(main) <= Len(inputs)
      /\ at \in [1 .. Len(inputs) -> Nat] /\ e \in 0 .. Cardinality(Directives)
      /\ \A i \in 1 .. Len(main) : inputs[i] = main[i]
      /\ \A i, j \in Len(main) + 1 .. Len(inputs) : i < j => at[i] <= at[j]
      /\ \A i \in Len(main) + 1 .. Len(inputs) :
           /\ \E j \in 1 .. e : at[i] = Sorted(Directives)[j]
           /\ \E f \in FilesOf(at[i]) \cap DOMAIN tmux : f \notin Range(paths) /\ inputs[i] \in LinesOf(f)
      /\ \A j \in 1 .. e : \A f \in FilesOf(Sorted(Directives)[j]) \cap DOMAIN tmux :
           f \notin Range(paths) => \A l \in LinesOf(f) :
             \E i \in Len(main) + 1 .. Len(inputs) : at[i] = Sorted(Directives)[j] /\ inputs[i] = l

LEMMA MainFile ==
  ASSUME CInv, root \in DOMAIN tmux
  PROVE  /\ tmux[root] \in Seq(Lines) /\ DOMAIN tmux[root] = 1 .. Len(tmux[root]) /\ Len(tmux[root]) \in Nat
         /\ Directives \subseteq Nat /\ IsFiniteSet(Directives) /\ Cardinality(Directives) \in Nat
         /\ Sorted(Directives) \in [1 .. Cardinality(Directives) -> Directives]
         /\ \A k \in Directives : k > 0 /\ k <= Len(tmux[root])
<1>1. tmux[root] \in Seq(Lines)
  BY ConfigurationAssumption DEF CInv, Lines
<1>2. DOMAIN tmux[root] = 1 .. Len(tmux[root]) /\ Len(tmux[root]) \in Nat
  BY <1>1
<1>3. Directives \subseteq DOMAIN tmux[root]
  BY DEF Directives
<1>4. Directives \subseteq Nat /\ IsFiniteSet(Directives)
  BY <1>1, <1>3, PlacesFinite
<1>5. \A k \in Directives : k > 0 /\ k <= Len(tmux[root])
  BY <1>2, <1>3
<1> QED BY <1>1, <1>2, <1>4, <1>5, SortedType

LEMMA FirstIs ==
  ASSUME NEW S, S \subseteq Nat, NEW k \in S, \A j \in S : k <= j
  PROVE  First(S) = k
<1>1. First(S) \in S /\ \A j \in S : First(S) <= j
  BY DEF First
<1>2. First(S) <= k /\ k <= First(S) /\ First(S) \in Nat /\ k \in Nat
  BY <1>1
<1> QED BY <1>2

FirstPlaces ==   \* of Scanned
  {k \in DOMAIN inputs :
     /\ inputs[k].line = "plugin"
     /\ \A j \in DOMAIN inputs : (inputs[j].line = "plugin" /\ j < k) => inputs[j].id # inputs[k].id}

LEMMA ScannedTakes ==
  ASSUME CInv
  PROVE  Takes(Scanned, inputs, FirstPlaces, Sorted(FirstPlaces)) /\ Distinct(Scanned)
<1>1. FirstPlaces \subseteq Nat /\ IsFiniteSet(FirstPlaces)
  BY PlacesFinite DEF CInv, FirstPlaces
<1>2. Scanned = Picked(inputs, FirstPlaces)
  <2> DEFINE plugins == {k \in DOMAIN inputs : inputs[k].line = "plugin"}
  <2>1. {k \in plugins : \A j \in plugins : j < k => inputs[j].id # inputs[k].id} = FirstPlaces
    BY DEF FirstPlaces
  <2> QED BY <2>1 DEF Scanned
<1>3. Takes(Scanned, inputs, FirstPlaces, Sorted(FirstPlaces))
  BY <1>1, <1>2, PickedTakes
<1> DEFINE o == Sorted(FirstPlaces)
<1>4. Distinct(Scanned)
  <2> SUFFICES ASSUME NEW i \in 1 .. Len(Scanned), NEW j \in 1 .. Len(Scanned),
                      Scanned[i].id = Scanned[j].id, i # j
               PROVE  FALSE
    BY DEF Distinct
  <2> HIDE DEF o
  <2>1. /\ o[i] \in FirstPlaces /\ o[j] \in FirstPlaces /\ inputs[o[i]].id = inputs[o[j]].id
        /\ i < j => o[i] < o[j]
        /\ j < i => o[j] < o[i]
    BY <1>3 DEF Takes, o
  <2>2. i < j \/ j < i
    BY <1>3 DEF Takes
  <2>3. ~(o[i] < o[j]) /\ ~(o[j] < o[i])
    BY <2>1 DEF FirstPlaces
  <2> QED BY <2>1, <2>2, <2>3
<1> QED BY <1>3, <1>4

(* When all directives are dealt with, plugins have been found in the order  *)
(* that is documented.                                                      *)
LEMMA ScanRanks ==
  ASSUME CInv, root # NoFile, paths = <<>>, NEW at, ScanAt(at, Cardinality(Directives))
  PROVE  InRank(Scanned)
<1> DEFINE main == tmux[root]
           m == Len(main)
           all == Len(inputs)
<1>1. /\ root \in DOMAIN tmux /\ m <= all /\ at \in [1 .. all -> Nat]
      /\ \A i \in 1 .. m : inputs[i] = main[i]
      /\ \A i, j \in m + 1 .. all : i < j => at[i] <= at[j]
  BY DEF ScanAt
<1>2. /\ DOMAIN main = 1 .. m /\ m \in Nat /\ Directives \subseteq Nat /\ IsFiniteSet(Directives)
      /\ \A k \in Directives : k > 0
      /\ \A k \in Directives : \E j \in 1 .. Cardinality(Directives) : Sorted(Directives)[j] = k
      /\ Sorted(Directives) \in [1 .. Cardinality(Directives) -> Directives]
  BY <1>1, MainFile, SortedAscends
<1>3. DOMAIN inputs = 1 .. all /\ all \in Nat
  BY DEF CInv
<1>4. Range(paths) = {}
  BY DEF Range
<1>5. ASSUME NEW i \in m + 1 .. all, inputs[i].line = "plugin"
      PROVE  at[i] \in Directives /\ inputs[i].id \in SourcedBy(at[i])
  <2>1. at[i] \in Directives
    <3>1. PICK j \in 1 .. Cardinality(Directives) : at[i] = Sorted(Directives)[j]
      BY DEF ScanAt
    <3> QED BY <1>2, <3>1
  <2>2. PICK f \in FilesOf(at[i]) \cap DOMAIN tmux : inputs[i] \in LinesOf(f)
    BY DEF ScanAt
  <2>3. inputs[i].id \in PluginsOf(f)
    BY <1>5, <2>2 DEF PluginsOf
  <2> QED BY <2>1, <2>2, <2>3 DEF SourcedBy, FilesOf
<1>6. ASSUME NEW k \in Directives, NEW id \in SourcedBy(k)
      PROVE  \E i \in m + 1 .. all : at[i] = k /\ inputs[i].line = "plugin" /\ inputs[i].id = id
  <2>1. PICK f \in FilesOf(k) \cap DOMAIN tmux : id \in PluginsOf(f)
    BY DEF SourcedBy, FilesOf
  <2>2. PICK l \in LinesOf(f) : l.line = "plugin" /\ l.id = id
    BY <2>1 DEF PluginsOf
  <2>3. PICK j \in 1 .. Cardinality(Directives) : Sorted(Directives)[j] = k
    BY <1>2
  <2>4. \E i \in m + 1 .. all : at[i] = k /\ inputs[i] = l
    <3>1. \A e \in 1 .. Cardinality(Directives) : \A g \in FilesOf(Sorted(Directives)[e]) \cap DOMAIN tmux :
            g \notin Range(paths) => \A x \in LinesOf(g) :
              \E i \in m + 1 .. all : at[i] = Sorted(Directives)[e] /\ inputs[i] = x
      BY DEF ScanAt
    <3> HIDE DEF m, all
    <3>2. f \in FilesOf(Sorted(Directives)[j]) \cap DOMAIN tmux /\ f \notin Range(paths)
      BY <1>4, <2>1, <2>3
    <3>3. \E i \in m + 1 .. all : at[i] = Sorted(Directives)[j] /\ inputs[i] = l
      BY <3>1, <3>2
    <3> QED BY <2>3, <3>3
  <2> QED BY <2>2, <2>4
<1>7. \A id : id \in PluginsOf(root) <=> \E i \in 1 .. m : inputs[i].line = "plugin" /\ inputs[i].id = id
  <2>1. LinesOf(root) = {inputs[i] : i \in 1 .. m}
    BY <1>1, <1>2 DEF LinesOf
  <2> QED BY <2>1 DEF PluginsOf
<1> HIDE DEF main, m, all
<1>8. \A id : id \in ByTpm <=> \E i \in 1 .. all : inputs[i].line = "plugin" /\ inputs[i].id = id
  <2> TAKE id
  <2>1. ASSUME id \in ByTpm PROVE \E i \in 1 .. all : inputs[i].line = "plugin" /\ inputs[i].id = id
    <3>1. id \in PluginsOf(root) \/ \E k \in Directives : id \in SourcedBy(k)
      BY <2>1 DEF ByTpm
    <3>2. \A i : i \in 1 .. m \/ i \in m + 1 .. all => i \in 1 .. all
      BY <1>1, <1>2, <1>3
    <3> QED BY <1>6, <1>7, <3>1, <3>2
  <2>2. ASSUME NEW i \in 1 .. all, inputs[i].line = "plugin", inputs[i].id = id PROVE id \in ByTpm
    <3>1. i \in 1 .. m \/ i \in m + 1 .. all
      BY <1>1, <1>2, <1>3
    <3>2. CASE i \in 1 .. m
      BY <1>7, <2>2, <3>2 DEF ByTpm
    <3>3. CASE i \in m + 1 .. all
      BY <1>5, <2>2, <3>3 DEF ByTpm
    <3> QED BY <3>1, <3>2, <3>3
  <2> QED BY <2>1, <2>2
<1> DEFINE o == Sorted(FirstPlaces)
           n == Len(Scanned)
<1>9. /\ n \in Nat /\ o \in [1 .. n -> FirstPlaces] /\ \A j \in 1 .. n : Scanned[j] = inputs[o[j]]
      /\ \A j, k \in 1 .. n : j < k => o[j] < o[k]
      /\ \A x \in FirstPlaces : \E j \in 1 .. n : o[j] = x
  BY ScannedTakes DEF Takes
<1> HIDE DEF o, n
<1>10. {Scanned[j].id : j \in 1 .. n} = ByTpm
  <2>1. ASSUME NEW j \in 1 .. n PROVE Scanned[j].id \in ByTpm
    <3>1. o[j] \in FirstPlaces /\ Scanned[j] = inputs[o[j]]
      BY <1>9
    <3> QED BY <1>3, <1>8, <3>1 DEF FirstPlaces
  <2>2. ASSUME NEW id \in ByTpm PROVE \E j \in 1 .. n : Scanned[j].id = id
    <3> DEFINE S == {i \in 1 .. all : inputs[i].line = "plugin" /\ inputs[i].id = id}
    <3>1. S \subseteq Nat /\ S # {}
      BY <1>3, <1>8
    <3>2. PICK i \in S : \A j \in S : i <= j
      BY <3>1, LeastOfNat
    <3>3. i \in FirstPlaces /\ inputs[i].id = id
      <4>1. \A j \in DOMAIN inputs : (inputs[j].line = "plugin" /\ j < i) => inputs[j].id # inputs[i].id
        <5> SUFFICES ASSUME NEW j \in DOMAIN inputs, inputs[j].line = "plugin", j < i,
                            inputs[j].id = inputs[i].id
                     PROVE  FALSE
          OBVIOUS
        <5>1. j \in S
          BY <1>3
        <5>2. i <= j /\ i \in Nat /\ j \in Nat
          BY <1>3, <3>2, <5>1
        <5> QED BY <5>2
      <4> QED BY <1>3, <4>1 DEF FirstPlaces
    <3>4. PICK j \in 1 .. n : o[j] = i
      BY <1>9, <3>3
    <3> QED BY <1>9, <3>3, <3>4
  <2> QED BY <2>1, <2>2
<1>11. ASSUME NEW i \in FirstPlaces
       PROVE  /\ i \in 1 .. m => Rank(inputs[i].id) = i
              /\ i \in m + 1 .. all => Rank(inputs[i].id) = m + at[i]
  <2> DEFINE id == inputs[i].id
  <2>1. /\ i \in 1 .. all /\ inputs[i].line = "plugin"
        /\ \A j \in 1 .. all : (inputs[j].line = "plugin" /\ j < i) => inputs[j].id # id
    BY <1>3 DEF FirstPlaces
  <2>2. ASSUME i \in 1 .. m PROVE Rank(id) = i
    <3> DEFINE S == {k \in DOMAIN main : main[k].line = "plugin" /\ main[k].id = id}
    <3>1. id \in PluginsOf(root)
      BY <1>7, <2>1, <2>2
    <3>2. Rank(id) = First(S)
      BY <3>1 DEF Rank, main
    <3>3. S \subseteq Nat /\ i \in S
      BY <1>1, <1>2, <2>1, <2>2
    <3>4. \A j \in S : i <= j
      <4> TAKE j \in S
      <4>1. j \in 1 .. m /\ inputs[j].line = "plugin" /\ inputs[j].id = id
        BY <1>1, <1>2
      <4>2. ~(j < i) /\ i \in Nat /\ j \in Nat
        BY <1>1, <1>2, <1>3, <2>1, <4>1
      <4> QED BY <4>2
    <3> HIDE DEF S
    <3> QED BY <3>2, <3>3, <3>4, FirstIs
  <2>3. ASSUME i \in m + 1 .. all PROVE Rank(id) = m + at[i]
    <3> DEFINE S == {k \in Directives : id \in SourcedBy(k)}
    <3>1. id \notin PluginsOf(root)
      <4> SUFFICES ASSUME id \in PluginsOf(root) PROVE FALSE
        OBVIOUS
      <4>1. PICK j \in 1 .. m : inputs[j].line = "plugin" /\ inputs[j].id = id
        BY <1>7
      <4>2. j \in 1 .. all /\ j < i
        BY <1>1, <1>2, <1>3, <2>3
      <4> QED BY <2>1, <4>1, <4>2
    <3>2. Rank(id) = m + First(S)
      BY <3>1 DEF Rank, main, m
    <3>3. at[i] \in S /\ S \subseteq Nat
      BY <1>2, <1>5, <2>1, <2>3
    <3>4. \A k \in S : at[i] <= k
      <4> TAKE k \in S
      <4>1. PICK j \in m + 1 .. all : at[j] = k /\ inputs[j].line = "plugin" /\ inputs[j].id = id
        BY <1>6
      <4>2. ~(j < i) /\ i \in Nat /\ j \in Nat
        BY <1>1, <1>2, <1>3, <2>1, <4>1
      <4>3. j = i \/ i < j
        BY <4>2
      <4>4. at[i] \in Nat
        BY <1>1, <2>1
      <4> QED BY <1>1, <2>3, <4>1, <4>3, <4>4
    <3> HIDE DEF S
    <3> QED BY <3>2, <3>3, <3>4, FirstIs
  <2> QED BY <2>2, <2>3
<1>12. ASSUME NEW i \in 1 .. n, NEW j \in 1 .. n, i < j
       PROVE  Rank(Scanned[i].id) <= Rank(Scanned[j].id)
  <2>1. /\ o[i] \in FirstPlaces /\ o[j] \in FirstPlaces /\ o[i] < o[j]
        /\ Scanned[i] = inputs[o[i]] /\ Scanned[j] = inputs[o[j]]
    BY <1>9, <1>12
  <2>2. o[i] \in 1 .. all /\ o[j] \in 1 .. all
    BY <1>3, <2>1 DEF FirstPlaces
  <2>3. CASE o[j] \in 1 .. m
    <3>1. o[i] \in 1 .. m
      BY <1>2, <1>3, <2>1, <2>2, <2>3
    <3> QED BY <1>11, <2>1, <2>3, <3>1
  <2>4. CASE o[j] \in m + 1 .. all /\ o[i] \in 1 .. m
    <3>1. Rank(Scanned[i].id) = o[i] /\ Rank(Scanned[j].id) = m + at[o[j]]
      BY <1>11, <2>1, <2>4
    <3>2. at[o[j]] \in Nat
      BY <1>1, <2>2
    <3> QED BY <1>2, <2>4, <3>1, <3>2
  <2>5. CASE o[j] \in m + 1 .. all /\ o[i] \in m + 1 .. all
    <3>1. Rank(Scanned[i].id) = m + at[o[i]] /\ Rank(Scanned[j].id) = m + at[o[j]]
      BY <1>11, <2>1, <2>5
    <3>2. at[o[j]] \in Nat /\ at[o[i]] \in Nat /\ at[o[i]] <= at[o[j]]
      BY <1>1, <2>1, <2>2, <2>5
    <3> QED BY <1>2, <3>1, <3>2
  <2> QED BY <1>1, <1>2, <1>3, <2>2, <2>3, <2>4, <2>5
<1> QED BY <1>10, <1>12 DEF InRank, n

(* The same of a tree t with the main file r, the lines ins and the files ps *)
(* that wait to be opened.                                                  *)
SourceLines(t, r) == {k \in DOMAIN t[r] : t[r][k].line = "source"}
FilesIn(t, r, k)  == {t[r][k].files[j] : j \in DOMAIN t[r][k].files}
LinesIn(t, f)     == {t[f][k] : k \in DOMAIN t[f]}

ScanOf(t, r, ins, ps, at, e) ==
  /\ r \in DOMAIN t /\ Len(t[r]) <= Len(ins)
  /\ at \in [1 .. Len(ins) -> Nat] /\ e \in 0 .. Cardinality(SourceLines(t, r))
  /\ \A i \in 1 .. Len(t[r]) : ins[i] = t[r][i]
  /\ \A i, j \in Len(t[r]) + 1 .. Len(ins) : i < j => at[i] <= at[j]
  /\ \A i \in Len(t[r]) + 1 .. Len(ins) :
       /\ \E j \in 1 .. e : at[i] = Sorted(SourceLines(t, r))[j]
       /\ \E f \in FilesIn(t, r, at[i]) \cap DOMAIN t : f \notin Range(ps) /\ ins[i] \in LinesIn(t, f)
  /\ \A j \in 1 .. e : \A f \in FilesIn(t, r, Sorted(SourceLines(t, r))[j]) \cap DOMAIN t :
       f \notin Range(ps) => \A l \in LinesIn(t, f) :
         \E i \in Len(t[r]) + 1 .. Len(ins) : at[i] = Sorted(SourceLines(t, r))[j] /\ ins[i] = l

LEMMA ScanIs ==
  /\ Directives = SourceLines(tmux, root)
  /\ \A k : FilesOf(k) = FilesIn(tmux, root, k)
  /\ \A f : LinesOf(f) = LinesIn(tmux, f)
  /\ \A at, e : ScanAt(at, e) <=> ScanOf(tmux, root, inputs, paths, at, e)
<1>1. /\ Directives = SourceLines(tmux, root)
      /\ \A k : FilesOf(k) = FilesIn(tmux, root, k)
      /\ \A f : LinesOf(f) = LinesIn(tmux, f)
  BY DEF Directives, SourceLines, FilesOf, FilesIn, LinesOf, LinesIn
<1>2. \A at, e : ScanAt(at, e) <=> ScanOf(tmux, root, inputs, paths, at, e)
  BY DEF ScanAt, ScanOf, Directives, SourceLines, FilesOf, FilesIn, LinesOf, LinesIn
<1> QED BY <1>1, <1>2

(* Where a scan is: before the next directive, or in the files of one.       *)
ScanningOf(t, r, ins, ps, srcs, st) ==
  /\ r # NoFile
  /\ \E d \in 0 .. Cardinality(SourceLines(t, r)), at \in [1 .. Len(ins) -> Nat] :
       /\ ScanOf(t, r, ins, ps, at, IF st = "open" THEN d + 1 ELSE d)
       /\ srcs = [j \in 1 .. Cardinality(SourceLines(t, r)) - d |-> t[r][Sorted(SourceLines(t, r))[d + j]]]
       /\ st = "expand" => ps = <<>>
       /\ st = "open" =>
            /\ ps \in Seq(FilesIn(t, r, Sorted(SourceLines(t, r))[d + 1]))
            /\ \A i, j \in DOMAIN ps : ps[i] = ps[j] => i = j

Scanning == ScanningOf(tmux, root, inputs, paths, sources, stage)

(* The files of two directives are different.                               *)
LEMMA FilesApart ==
  ASSUME CInv, SourcedOnce(tmux), root \in DOMAIN tmux, root # NoFile,
         NEW j \in 1 .. Cardinality(Directives), NEW f \in FilesOf(Sorted(Directives)[j])
  PROVE  /\ f # root
         /\ \A k \in 1 .. Cardinality(Directives) : f \in FilesOf(Sorted(Directives)[k]) => k = j
         /\ \A m, n \in DOMAIN tmux[root][Sorted(Directives)[j]].files :
              tmux[root][Sorted(Directives)[j]].files[m] = tmux[root][Sorted(Directives)[j]].files[n] => m = n
<1>1. /\ Directives \subseteq Nat /\ Cardinality(Directives) \in Nat
      /\ Sorted(Directives) \in [1 .. Cardinality(Directives) -> Directives]
      /\ \A i, k \in 1 .. Cardinality(Directives) : i < k => Sorted(Directives)[i] < Sorted(Directives)[k]
  BY MainFile, SortedAscends
<1>2. root \in DOMAIN tmux \cap Range(Candidates)
  BY DEF CInv, Range
<1>3. \A i \in 1 .. Cardinality(Directives) :
        /\ Sorted(Directives)[i] \in DOMAIN tmux[root]
        /\ tmux[root][Sorted(Directives)[i]].line = "source"
  BY <1>1 DEF Directives
<1>4. \A i, k \in 1 .. Cardinality(Directives) :
        \A m \in DOMAIN tmux[root][Sorted(Directives)[i]].files, n \in DOMAIN tmux[root][Sorted(Directives)[k]].files :
          /\ tmux[root][Sorted(Directives)[i]].files[m] # root
          /\ tmux[root][Sorted(Directives)[i]].files[m] = tmux[root][Sorted(Directives)[k]].files[n]
               => Sorted(Directives)[i] = Sorted(Directives)[k] /\ m = n
  <2> TAKE i, k \in 1 .. Cardinality(Directives)
  <2>1. /\ Sorted(Directives)[i] \in DOMAIN tmux[root] /\ tmux[root][Sorted(Directives)[i]].line = "source"
        /\ Sorted(Directives)[k] \in DOMAIN tmux[root] /\ tmux[root][Sorted(Directives)[k]].line = "source"
    BY <1>3
  <2> QED BY <1>2, <2>1 DEF SourcedOnce
<1>5. \A i, k \in 1 .. Cardinality(Directives) : Sorted(Directives)[i] = Sorted(Directives)[k] => i = k
  <2> TAKE i, k \in 1 .. Cardinality(Directives)
  <2>1. i < k \/ i = k \/ k < i
    BY <1>1
  <2>2. Sorted(Directives)[i] \in Nat /\ Sorted(Directives)[k] \in Nat
    BY <1>1
  <2> QED BY <1>1, <2>1, <2>2
<1>6. PICK m \in DOMAIN tmux[root][Sorted(Directives)[j]].files : f = tmux[root][Sorted(Directives)[j]].files[m]
  BY DEF FilesOf
<1>7. f # root
  BY <1>4, <1>6
<1>8. ASSUME NEW k \in 1 .. Cardinality(Directives), f \in FilesOf(Sorted(Directives)[k]) PROVE k = j
  <2>1. PICK n \in DOMAIN tmux[root][Sorted(Directives)[k]].files : f = tmux[root][Sorted(Directives)[k]].files[n]
    BY <1>8 DEF FilesOf
  <2>2. tmux[root][Sorted(Directives)[j]].files[m] = tmux[root][Sorted(Directives)[k]].files[n]
    BY <1>6, <2>1
  <2>3. m \in DOMAIN tmux[root][Sorted(Directives)[j]].files /\ n \in DOMAIN tmux[root][Sorted(Directives)[k]].files
    OBVIOUS
  <2>4. \A a \in DOMAIN tmux[root][Sorted(Directives)[j]].files, b \in DOMAIN tmux[root][Sorted(Directives)[k]].files :
          tmux[root][Sorted(Directives)[j]].files[a] = tmux[root][Sorted(Directives)[k]].files[b]
            => Sorted(Directives)[j] = Sorted(Directives)[k]
    BY <1>4
  <2>5. Sorted(Directives)[j] = Sorted(Directives)[k]
    BY <2>2, <2>3, <2>4, Zenon
  <2> QED BY <1>5, <2>5, Zenon
<1> QED BY <1>4, <1>7, <1>8

LEMMA ExistingOnce ==   \* of the files of a pattern
  ASSUME NEW files, files \in Seq(ElementsOf({files}))
  PROVE  /\ Existing(files) \in Seq({files[k] : k \in DOMAIN files} \cap DOMAIN tmux)
         /\ \A k \in DOMAIN files : files[k] \in DOMAIN tmux => \E j \in DOMAIN Existing(files) : Existing(files)[j] = files[k]
         /\ (\A m, n \in DOMAIN files : files[m] = files[n] => m = n)
              => \A i, j \in DOMAIN Existing(files) : Existing(files)[i] = Existing(files)[j] => i = j
<1> DEFINE P == {k \in DOMAIN files : files[k] \in DOMAIN tmux}
           E == Existing(files)
           o == Sorted(P)
<1>1. P \subseteq Nat /\ IsFiniteSet(P)
  BY PlacesFinite
<1>2. E = Picked(files, P)
  BY DEF Existing
<1>3. Takes(E, files, P, o)
  <2> HIDE DEF P
  <2> QED BY <1>1, <1>2, PickedTakes
<1> HIDE DEF E, o
<1>4. /\ DOMAIN E = 1 .. Len(E) /\ Len(E) \in Nat /\ o \in [1 .. Len(E) -> P]
      /\ \A j \in 1 .. Len(E) : E[j] = files[o[j]]
      /\ \A j, k \in 1 .. Len(E) : j < k => o[j] < o[k]
      /\ \A x \in P : \E j \in 1 .. Len(E) : o[j] = x
  BY <1>3 DEF Takes
<1>5. E \in Seq({files[k] : k \in P})
  BY <1>1, <1>2, PickedType
<1>6. {files[k] : k \in P} \subseteq {files[k] : k \in DOMAIN files} \cap DOMAIN tmux
  OBVIOUS
<1>7. E \in Seq({files[k] : k \in DOMAIN files} \cap DOMAIN tmux)
  BY <1>5, <1>6
<1>8. ASSUME \A m, n \in DOMAIN files : files[m] = files[n] => m = n,
             NEW i \in DOMAIN E, NEW j \in DOMAIN E, E[i] = E[j]
      PROVE  i = j
  <2>1. o[i] \in DOMAIN files /\ o[j] \in DOMAIN files /\ files[o[i]] = files[o[j]]
    BY <1>4, <1>8
  <2>2. o[i] = o[j] /\ o[i] \in Nat
    BY <1>1, <1>4, <1>8, <2>1
  <2>3. ~(i < j) /\ ~(j < i)
    BY <1>4, <2>2
  <2> QED BY <1>4, <2>3
<1>9. ASSUME NEW k \in DOMAIN files, files[k] \in DOMAIN tmux PROVE \E j \in DOMAIN E : E[j] = files[k]
  BY <1>4, <1>9
<1> QED BY <1>7, <1>8, <1>9 DEF E

(* The steps of a scan.                                                     *)
LEMMA ReadRootScans ==
  ASSUME CInv, SourcedOnce(tmux), paths = <<>>, root # NoFile, ReadRoot
  PROVE  Scanning'
<1>1. /\ root \in DOMAIN tmux /\ inputs' = tmux[root] /\ stage' = "expand"
      /\ UNCHANGED <<tmux, root, paths>>
      /\ sources' = Picked(inputs', {k \in DOMAIN inputs' : inputs'[k].line = "source"})
  BY DEF ReadRoot, GoesTo
<1>2. /\ Len(tmux[root]) \in Nat /\ Cardinality(SourceLines(tmux, root)) \in Nat
  BY <1>1, MainFile, ScanIs
<1>3. sources' = [j \in 1 .. Cardinality(SourceLines(tmux, root)) |-> tmux[root][Sorted(SourceLines(tmux, root))[j]]]
  BY <1>1 DEF Picked, SourceLines
<1> DEFINE at == [i \in 1 .. Len(tmux[root]) |-> 0]
<1>4. ScanOf(tmux, root, tmux[root], <<>>, at, 0)
  <2>1. Len(tmux[root]) + 1 .. Len(tmux[root]) = {} /\ 1 .. 0 = {} /\ 0 \in 0 .. Cardinality(SourceLines(tmux, root))
    BY <1>2
  <2>2. at \in [1 .. Len(tmux[root]) -> Nat]
    OBVIOUS
  <2> HIDE DEF at
  <2> QED BY <1>1, <1>2, <2>1, <2>2 DEF ScanOf
<1> HIDE DEF at
<1>5. sources' = [j \in 1 .. Cardinality(SourceLines(tmux, root)) - 0
                   |-> tmux[root][Sorted(SourceLines(tmux, root))[0 + j]]]
  BY <1>2, <1>3
<1>6. 0 \in 0 .. Cardinality(SourceLines(tmux, root))
  BY <1>2
<1>7. ScanningOf(tmux, root, tmux[root], <<>>, sources', "expand")
  <2>1. at \in [1 .. Len(tmux[root]) -> Nat]
    BY <1>4 DEF ScanOf
  <2> QED BY <1>4, <1>5, <1>6, <2>1 DEF ScanningOf
<1> QED BY <1>1, <1>7 DEF Scanning

LEMMA SourcesHead ==
  ASSUME NEW n \in Nat, NEW d \in 0 .. n, NEW s, NEW o, NEW src, src = [j \in 1 .. n - d |-> s[o[d + j]]],
         src # <<>>
  PROVE  d + 1 \in 1 .. n /\ Head(src) = s[o[d + 1]] /\ Tail(src) = [j \in 1 .. n - (d + 1) |-> s[o[d + 1 + j]]]
<1>1. n - d \in Nat /\ Len(src) = n - d /\ DOMAIN src = 1 .. n - d
  OBVIOUS
<1>4. src \in Seq({src[j] : j \in 1 .. n - d})
  <2> DEFINE R == {src[j] : j \in 1 .. n - d}
  <2>1. src \in [1 .. n - d -> R]
    OBVIOUS
  <2> HIDE DEF R
  <2>2. src \in Seq(R)
    BY <1>1, <2>1
  <2> QED BY <2>2 DEF R
<1>2. n - d # 0
  BY <1>1, <1>4
<1>3. d + 1 \in 1 .. n /\ Head(src) = s[o[d + 1]]
  BY <1>1, <1>2, <1>4
<1>5. /\ Tail(src) = [j \in 1 .. Len(src) - 1 |-> src[j + 1]]
  BY <1>1, <1>2, <1>4
<1>6. Tail(src) = [j \in 1 .. n - (d + 1) |-> s[o[d + 1 + j]]]
  BY <1>1, <1>3, <1>5
<1> QED BY <1>3, <1>6

LEMMA ExpandScans ==
  ASSUME CInv, SourcedOnce(tmux), Scanning, Expand
  PROVE  Scanning'
<1>1. /\ stage = "expand" /\ stage' = "open" /\ sources # <<>> /\ UNCHANGED <<tmux, root, inputs, sources>>
      /\ paths' = IF Existing(Head(sources).files) = <<>> THEN <<Head(Head(sources).files)>>
                  ELSE Existing(Head(sources).files)
  BY DEF Expand, GoesTo
<1>2. PICK d \in 0 .. Cardinality(Directives), at \in [1 .. Len(inputs) -> Nat] :
       /\ ScanAt(at, d)
       /\ sources = [j \in 1 .. Cardinality(Directives) - d |-> tmux[root][Sorted(Directives)[d + j]]]
       /\ paths = <<>> /\ root # NoFile
  <2>1. ScanningOf(tmux, root, inputs, paths, sources, "expand")
    BY <1>1 DEF Scanning
  <2>2. PICK d \in 0 .. Cardinality(SourceLines(tmux, root)), at \in [1 .. Len(inputs) -> Nat] :
         /\ ScanOf(tmux, root, inputs, paths, at, d)
         /\ sources = [j \in 1 .. Cardinality(SourceLines(tmux, root)) - d
                         |-> tmux[root][Sorted(SourceLines(tmux, root))[d + j]]]
         /\ paths = <<>> /\ root # NoFile
    BY <2>1 DEF ScanningOf
  <2> QED BY <2>2, ScanIs
<1>3. root \in DOMAIN tmux
  BY <1>2 DEF ScanAt
<1>4. /\ Cardinality(Directives) \in Nat /\ tmux[root] \in Seq(Lines)
      /\ Sorted(Directives) \in [1 .. Cardinality(Directives) -> Directives]
  BY <1>3, MainFile
<1>5. d + 1 \in 1 .. Cardinality(Directives) /\ Head(sources) = tmux[root][Sorted(Directives)[d + 1]]
  BY <1>1, <1>2, <1>4, SourcesHead
<1> DEFINE k == Sorted(Directives)[d + 1]
           files == tmux[root][k].files
<1>6. files \in Seq(ElementsOf({files})) /\ files # <<>>
  <2>1. k \in Directives
    BY <1>4, <1>5
  <2>2. tmux[root][k] \in Lines /\ tmux[root][k].line = "source"
    <3> HIDE DEF k
    <3> QED BY <1>4, <2>1 DEF Directives
  <2> HIDE DEF k
  <2> QED BY <2>2, ConfigurationAssumption DEF Lines
<1>7. paths' = IF Existing(files) = <<>> THEN <<Head(files)>> ELSE Existing(files)
  BY <1>1, <1>5
<1>8. FilesOf(k) = {files[j] : j \in DOMAIN files}
  BY DEF FilesOf
<1> HIDE DEF k
<1> HIDE DEF files
<1>9. \A m, n \in DOMAIN files : files[m] = files[n] => m = n
  <2> TAKE m, n \in DOMAIN files
  <2>1. files[m] \in FilesOf(Sorted(Directives)[d + 1])
    BY <1>8 DEF k
  <2> QED BY <1>2, <1>3, <1>5, <2>1, FilesApart DEF files, k
<1>10. /\ Existing(files) \in Seq(FilesOf(k) \cap DOMAIN tmux)
       /\ \A f \in FilesOf(k) \cap DOMAIN tmux : \E j \in DOMAIN Existing(files) : Existing(files)[j] = f
       /\ \A i, j \in DOMAIN Existing(files) : Existing(files)[i] = Existing(files)[j] => i = j
  <2>1. /\ Existing(files) \in Seq({files[j] : j \in DOMAIN files} \cap DOMAIN tmux)
        /\ \A j \in DOMAIN files : files[j] \in DOMAIN tmux
             => \E i \in DOMAIN Existing(files) : Existing(files)[i] = files[j]
        /\ \A i, j \in DOMAIN Existing(files) : Existing(files)[i] = Existing(files)[j] => i = j
    BY <1>6, <1>9, ExistingOnce
  <2>2. \A f \in FilesOf(k) \cap DOMAIN tmux : \E j \in DOMAIN files : f = files[j] /\ files[j] \in DOMAIN tmux
    BY <1>8
  <2>3. Existing(files) \in Seq(FilesOf(k) \cap DOMAIN tmux)
    BY <1>8, <2>1
  <2> QED BY <2>1, <2>2, <2>3
<1>11. paths' \in Seq(FilesOf(k)) /\ \A i, j \in DOMAIN paths' : paths'[i] = paths'[j] => i = j
  <2>1. Head(files) \in FilesOf(k)
    BY <1>6, <1>8
  <2>2. CASE Existing(files) = <<>>
    BY <1>7, <2>1, <2>2
  <2>3. CASE Existing(files) # <<>>
    BY <1>7, <1>10, <2>3
  <2> QED BY <2>2, <2>3
<1>12. \A f \in FilesOf(k) \cap DOMAIN tmux : f \in Range(paths')
  BY <1>7, <1>10 DEF Range
<1>13. Range(paths') \subseteq FilesOf(k)
  BY <1>11 DEF Range
<1>15. Range(paths) = {}
  BY <1>2 DEF Range
<1>16. \A j \in 1 .. d : \A f \in FilesOf(Sorted(Directives)[j]) : f \notin Range(paths')
  <2> SUFFICES ASSUME NEW j \in 1 .. d, NEW f \in FilesOf(Sorted(Directives)[j]), f \in Range(paths')
               PROVE  FALSE
    OBVIOUS
  <2>1. j \in 1 .. Cardinality(Directives) /\ j # d + 1
    BY <1>4, <1>5
  <2>2. f \in FilesOf(Sorted(Directives)[d + 1])
    BY <1>13 DEF k
  <2> QED BY <1>2, <1>3, <1>5, <2>1, <2>2, FilesApart
<1>17. ScanOf(tmux, root, inputs, paths', at, d + 1)
  <2> DEFINE m == Len(tmux[root])
             n == Len(inputs)
  <2>1. /\ m <= n /\ at \in [1 .. n -> Nat] /\ \A i \in 1 .. m : inputs[i] = tmux[root][i]
        /\ \A i, j \in m + 1 .. n : i < j => at[i] <= at[j]
        /\ \A i \in m + 1 .. n :
             /\ \E j \in 1 .. d : at[i] = Sorted(Directives)[j]
             /\ \E f \in FilesOf(at[i]) \cap DOMAIN tmux : f \notin Range(paths) /\ inputs[i] \in LinesOf(f)
        /\ \A j \in 1 .. d : \A f \in FilesOf(Sorted(Directives)[j]) \cap DOMAIN tmux :
             f \notin Range(paths) => \A l \in LinesOf(f) :
               \E i \in m + 1 .. n : at[i] = Sorted(Directives)[j] /\ inputs[i] = l
    BY <1>2 DEF ScanAt
  <2> HIDE DEF m, n
  <2>2. \A j \in 1 .. d : j \in 1 .. d + 1
    BY <1>4
  <2>3. ASSUME NEW i \in m + 1 .. n
        PROVE  /\ \E j \in 1 .. d + 1 : at[i] = Sorted(Directives)[j]
               /\ \E f \in FilesOf(at[i]) \cap DOMAIN tmux : f \notin Range(paths') /\ inputs[i] \in LinesOf(f)
    <3>1. PICK j \in 1 .. d : at[i] = Sorted(Directives)[j]
      BY <2>1
    <3>2. PICK f \in FilesOf(at[i]) \cap DOMAIN tmux : inputs[i] \in LinesOf(f)
      BY <2>1
    <3>3. f \notin Range(paths')
      BY <1>16, <3>1, <3>2
    <3> QED BY <2>2, <3>1, <3>2, <3>3
  <2>4. ASSUME NEW j \in 1 .. d + 1, NEW f \in FilesOf(Sorted(Directives)[j]) \cap DOMAIN tmux,
               f \notin Range(paths'), NEW l \in LinesOf(f)
        PROVE  \E i \in m + 1 .. n : at[i] = Sorted(Directives)[j] /\ inputs[i] = l
    <3>1. j # d + 1
      BY <1>12, <2>4 DEF k
    <3>2. j \in 1 .. d
      BY <1>4, <3>1
    <3> QED BY <1>15, <2>1, <2>4, <3>2
  <2>6. d + 1 \in 0 .. Cardinality(Directives)
    BY <1>4, <1>5
  <2>7. /\ \A i \in m + 1 .. n :
             /\ \E j \in 1 .. d + 1 : at[i] = Sorted(Directives)[j]
             /\ \E f \in FilesOf(at[i]) \cap DOMAIN tmux : f \notin Range(paths') /\ inputs[i] \in LinesOf(f)
        /\ \A j \in 1 .. d + 1 : \A f \in FilesOf(Sorted(Directives)[j]) \cap DOMAIN tmux :
             f \notin Range(paths') => \A l \in LinesOf(f) :
               \E i \in m + 1 .. n : at[i] = Sorted(Directives)[j] /\ inputs[i] = l
    BY <2>3, <2>4
  <2> QED BY <1>3, <2>1, <2>6, <2>7 DEF ScanOf, m, n, Directives, SourceLines, FilesOf, FilesIn, LinesOf, LinesIn
<1>18. sources' = [j \in 1 .. Cardinality(SourceLines(tmux, root)) - d
                    |-> tmux[root][Sorted(SourceLines(tmux, root))[d + j]]]
  BY <1>1, <1>2, ScanIs
<1>19. d \in 0 .. Cardinality(SourceLines(tmux, root))
  BY ScanIs
<1>20. paths' \in Seq(FilesIn(tmux, root, Sorted(SourceLines(tmux, root))[d + 1]))
  BY <1>11, ScanIs DEF k
<1>21. ScanningOf(tmux, root, inputs, paths', sources', "open")
  BY <1>2, <1>11, <1>17, <1>18, <1>19, <1>20 DEF ScanningOf
<1> QED BY <1>1, <1>21 DEF Scanning

LEMMA InFiles ==
  ASSUME CInv, Scanning, stage = "open"
  PROVE  /\ root # NoFile /\ root \in DOMAIN tmux
         /\ \E d \in Nat, at \in [1 .. Len(inputs) -> Nat] :
              /\ d + 1 \in 1 .. Cardinality(Directives) /\ ScanAt(at, d + 1)
              /\ sources = [j \in 1 .. Cardinality(Directives) - d |-> tmux[root][Sorted(Directives)[d + j]]]
              /\ paths \in Seq(FilesOf(Sorted(Directives)[d + 1]))
              /\ \A i, j \in DOMAIN paths : paths[i] = paths[j] => i = j
<1>1. ScanningOf(tmux, root, inputs, paths, sources, "open")
  BY DEF Scanning
<1>2. PICK d \in 0 .. Cardinality(SourceLines(tmux, root)), at \in [1 .. Len(inputs) -> Nat] :
       /\ ScanOf(tmux, root, inputs, paths, at, d + 1)
       /\ sources = [j \in 1 .. Cardinality(SourceLines(tmux, root)) - d
                       |-> tmux[root][Sorted(SourceLines(tmux, root))[d + j]]]
       /\ paths \in Seq(FilesIn(tmux, root, Sorted(SourceLines(tmux, root))[d + 1]))
       /\ \A i, j \in DOMAIN paths : paths[i] = paths[j] => i = j
  BY <1>1 DEF ScanningOf
<1>3. root # NoFile
  BY <1>1 DEF ScanningOf
<1>4. ScanAt(at, d + 1)
  BY <1>2, ScanIs
<1>5. root \in DOMAIN tmux /\ d + 1 \in 0 .. Cardinality(Directives)
  BY <1>4 DEF ScanAt
<1>6. Cardinality(Directives) \in Nat
  BY <1>5, MainFile
<1>7. d \in Nat /\ d + 1 \in 1 .. Cardinality(Directives)
  BY <1>5, <1>6, ScanIs
<1>8. /\ sources = [j \in 1 .. Cardinality(Directives) - d |-> tmux[root][Sorted(Directives)[d + j]]]
      /\ paths \in Seq(FilesOf(Sorted(Directives)[d + 1]))
      /\ \A i, j \in DOMAIN paths : paths[i] = paths[j] => i = j
  BY <1>2, ScanIs
<1> QED BY <1>3, <1>4, <1>5, <1>7, <1>8

LEMMA HeadAndTail ==
  ASSUME NEW S, NEW s \in Seq(S), s # <<>>
  PROVE  /\ Head(s) \in S /\ Tail(s) \in Seq(S) /\ Head(s) \in Range(s)
         /\ Range(s) = {Head(s)} \cup Range(Tail(s))
         /\ (\A i, j \in DOMAIN s : s[i] = s[j] => i = j) =>
              /\ Head(s) \notin Range(Tail(s))
              /\ \A i, j \in DOMAIN Tail(s) : Tail(s)[i] = Tail(s)[j] => i = j
<1>1. /\ Len(s) \in Nat /\ Len(s) > 0 /\ DOMAIN s = 1 .. Len(s) /\ Head(s) = s[1] /\ Head(s) \in S
      /\ Tail(s) \in Seq(S) /\ DOMAIN Tail(s) = 1 .. Len(s) - 1
      /\ \A j \in 1 .. Len(s) - 1 : Tail(s)[j] = s[j + 1] /\ j + 1 \in 1 .. Len(s)
  OBVIOUS
<1>2. \A i \in 1 .. Len(s) : i = 1 \/ (i - 1 \in 1 .. Len(s) - 1 /\ s[i] = Tail(s)[i - 1])
  BY <1>1
<1>3. Range(s) = {Head(s)} \cup Range(Tail(s))
  <2>1. \A x \in Range(s) : x \in {Head(s)} \cup Range(Tail(s))
    <3> TAKE x \in Range(s)
    <3>1. PICK i \in 1 .. Len(s) : x = s[i]
      BY <1>1 DEF Range
    <3>2. i = 1 \/ (i - 1 \in DOMAIN Tail(s) /\ x = Tail(s)[i - 1])
      BY <1>1, <1>2, <3>1
    <3> QED BY <1>1, <3>1, <3>2 DEF Range
  <2>2. Head(s) \in Range(s)
    BY <1>1 DEF Range
  <2>3. \A x \in Range(Tail(s)) : x \in Range(s)
    BY <1>1 DEF Range
  <2> QED BY <2>1, <2>2, <2>3
<1>4. ASSUME \A i, j \in DOMAIN s : s[i] = s[j] => i = j
      PROVE  /\ Head(s) \notin Range(Tail(s))
             /\ \A i, j \in DOMAIN Tail(s) : Tail(s)[i] = Tail(s)[j] => i = j
  <2>1. \A j \in 1 .. Len(s) - 1 : Tail(s)[j] # s[1]
    BY <1>1, <1>4
  <2>2. \A i, j \in 1 .. Len(s) - 1 : Tail(s)[i] = Tail(s)[j] => i + 1 = j + 1
    BY <1>1, <1>4
  <2> QED BY <1>1, <2>1, <2>2 DEF Range
<1> QED BY <1>1, <1>3, <1>4

LEMMA OpenedScans ==
  ASSUME CInv, Scanning, Opened
  PROVE  Scanning'
<1>1. /\ stage = "open" /\ stage' = "expand" /\ paths = <<>> /\ sources' = Tail(sources)
      /\ UNCHANGED <<tmux, root, inputs, paths>>
  BY DEF Opened, GoesTo
<1>2. /\ root # NoFile /\ root \in DOMAIN tmux
  BY <1>1, InFiles
<1>3. PICK d \in Nat, at \in [1 .. Len(inputs) -> Nat] :
        /\ d + 1 \in 1 .. Cardinality(Directives) /\ ScanAt(at, d + 1)
        /\ sources = [j \in 1 .. Cardinality(Directives) - d |-> tmux[root][Sorted(Directives)[d + j]]]
  BY <1>1, InFiles
<1>4. Cardinality(Directives) \in Nat
  BY <1>2, MainFile
<1>5. sources' = [j \in 1 .. Cardinality(Directives) - (d + 1) |-> tmux[root][Sorted(Directives)[d + 1 + j]]]
  <2>1. DOMAIN sources = 1 .. Cardinality(Directives) - d /\ 1 \in 1 .. Cardinality(Directives) - d
    BY <1>3, <1>4
  <2>2. sources # <<>>
    <3> SUFFICES ASSUME sources = <<>> PROVE FALSE
      OBVIOUS
    <3>1. DOMAIN sources = {}
      OBVIOUS
    <3> QED BY <2>1, <3>1
  <2>3. d \in 0 .. Cardinality(Directives)
    BY <1>3, <1>4
  <2>4. Tail(sources) = [j \in 1 .. Cardinality(Directives) - (d + 1) |-> tmux[root][Sorted(Directives)[d + 1 + j]]]
    <3> DEFINE N == Cardinality(Directives)
               o == Sorted(Directives)
               main == tmux[root]
    <3>1. N \in Nat /\ d \in 0 .. N /\ sources = [j \in 1 .. N - d |-> main[o[d + j]]]
      BY <1>3, <1>4, <2>3
    <3> HIDE DEF N, o, main
    <3>2. Tail(sources) = [j \in 1 .. N - (d + 1) |-> main[o[d + 1 + j]]]
      BY <2>2, <3>1, SourcesHead
    <3> QED BY <3>2 DEF N, o, main
  <2> QED BY <1>1, <2>4
<1>6. /\ d + 1 \in 0 .. Cardinality(SourceLines(tmux, root))
      /\ ScanOf(tmux, root, inputs, paths, at, d + 1)
      /\ sources' = [j \in 1 .. Cardinality(SourceLines(tmux, root)) - (d + 1)
                       |-> tmux[root][Sorted(SourceLines(tmux, root))[d + 1 + j]]]
  BY <1>3, <1>4, <1>5, ScanIs
<1>7. ScanningOf(tmux, root, inputs, paths, sources', "expand")
  BY <1>1, <1>2, <1>6 DEF ScanningOf
<1> QED BY <1>1, <1>7 DEF Scanning

(* Where a file that waits to be opened stems from.                         *)
LEMMA OpenMissingScans ==
  ASSUME CInv, Scanning, OpenMissing
  PROVE  Scanning'
<1>1. /\ stage = "open" /\ stage' = "open" /\ paths # <<>> /\ paths' = Tail(paths) /\ Head(paths) \notin DOMAIN tmux
      /\ UNCHANGED <<tmux, root, inputs, sources>>
  BY DEF OpenMissing
<1>2. /\ root # NoFile /\ root \in DOMAIN tmux
  BY <1>1, InFiles
<1>3. PICK d \in Nat, at \in [1 .. Len(inputs) -> Nat] :
        /\ d + 1 \in 1 .. Cardinality(Directives) /\ ScanAt(at, d + 1)
        /\ sources = [j \in 1 .. Cardinality(Directives) - d |-> tmux[root][Sorted(Directives)[d + j]]]
        /\ paths \in Seq(FilesOf(Sorted(Directives)[d + 1]))
        /\ \A i, j \in DOMAIN paths : paths[i] = paths[j] => i = j
  BY <1>1, InFiles
<1>4. Cardinality(Directives) \in Nat
  BY <1>2, MainFile
<1>5. /\ paths' \in Seq(FilesOf(Sorted(Directives)[d + 1]))
      /\ \A i, j \in DOMAIN paths' : paths'[i] = paths'[j] => i = j
      /\ \A f \in DOMAIN tmux : f \in Range(paths') <=> f \in Range(paths)
  BY <1>1, <1>3, HeadAndTail
<1>6. ScanOf(tmux, root, inputs, paths', at, d + 1)
  <2> DEFINE m == Len(tmux[root])
             n == Len(inputs)
  <2>1. /\ m <= n /\ at \in [1 .. n -> Nat] /\ d + 1 \in 0 .. Cardinality(Directives)
        /\ \A i \in 1 .. m : inputs[i] = tmux[root][i]
        /\ \A i, j \in m + 1 .. n : i < j => at[i] <= at[j]
        /\ \A i \in m + 1 .. n :
             /\ \E j \in 1 .. d + 1 : at[i] = Sorted(Directives)[j]
             /\ \E f \in FilesOf(at[i]) \cap DOMAIN tmux : f \notin Range(paths) /\ inputs[i] \in LinesOf(f)
        /\ \A j \in 1 .. d + 1 : \A f \in FilesOf(Sorted(Directives)[j]) \cap DOMAIN tmux :
             f \notin Range(paths) => \A l \in LinesOf(f) :
               \E i \in m + 1 .. n : at[i] = Sorted(Directives)[j] /\ inputs[i] = l
    BY <1>3 DEF ScanAt
  <2> HIDE DEF m, n
  <2>2. /\ \A i \in m + 1 .. n :
             \E f \in FilesOf(at[i]) \cap DOMAIN tmux : f \notin Range(paths') /\ inputs[i] \in LinesOf(f)
        /\ \A j \in 1 .. d + 1 : \A f \in FilesOf(Sorted(Directives)[j]) \cap DOMAIN tmux :
             f \notin Range(paths') => \A l \in LinesOf(f) :
               \E i \in m + 1 .. n : at[i] = Sorted(Directives)[j] /\ inputs[i] = l
    BY <1>5, <2>1
  <2> QED BY <1>2, <2>1, <2>2 DEF ScanOf, m, n, Directives, SourceLines, FilesOf, FilesIn, LinesOf, LinesIn
<1>7. /\ d \in 0 .. Cardinality(SourceLines(tmux, root))
      /\ sources' = [j \in 1 .. Cardinality(SourceLines(tmux, root)) - d
                       |-> tmux[root][Sorted(SourceLines(tmux, root))[d + j]]]
      /\ paths' \in Seq(FilesIn(tmux, root, Sorted(SourceLines(tmux, root))[d + 1]))
  BY <1>1, <1>3, <1>4, <1>5, ScanIs
<1>8. ScanningOf(tmux, root, inputs, paths', sources', "open")
  BY <1>1, <1>2, <1>5, <1>6, <1>7 DEF ScanningOf
<1> QED BY <1>1, <1>8 DEF Scanning

LEMMA OpenScans ==
  ASSUME CInv, SourcedOnce(tmux), Scanning, Open
  PROVE  Scanning'
<1> DEFINE g == Head(paths)
<1>1. /\ stage = "open" /\ stage' = "open" /\ paths # <<>> /\ paths' = Tail(paths) /\ g \in DOMAIN tmux
      /\ inputs' = inputs \o tmux[g] /\ UNCHANGED <<tmux, root, sources>>
  BY DEF Open
<1>2. /\ root # NoFile /\ root \in DOMAIN tmux
  BY <1>1, InFiles
<1>3. PICK d \in Nat, at \in [1 .. Len(inputs) -> Nat] :
        /\ d + 1 \in 1 .. Cardinality(Directives) /\ ScanAt(at, d + 1)
        /\ sources = [j \in 1 .. Cardinality(Directives) - d |-> tmux[root][Sorted(Directives)[d + j]]]
        /\ paths \in Seq(FilesOf(Sorted(Directives)[d + 1]))
        /\ \A i, j \in DOMAIN paths : paths[i] = paths[j] => i = j
  BY <1>1, InFiles
<1> DEFINE k == Sorted(Directives)[d + 1]
           m == Len(tmux[root])
           n == Len(inputs)
           e == Len(tmux[g])
           next_at == [i \in 1 .. n + e |-> IF i <= n THEN at[i] ELSE k]
<1>4. /\ Cardinality(Directives) \in Nat /\ m \in Nat /\ Directives \subseteq Nat
      /\ Sorted(Directives) \in [1 .. Cardinality(Directives) -> Directives]
      /\ \A i, j \in 1 .. Cardinality(Directives) : i < j => Sorted(Directives)[i] < Sorted(Directives)[j]
  BY <1>2, MainFile, SortedAscends
<1>5. /\ paths' \in Seq(FilesOf(k)) /\ g \in FilesOf(k) /\ g \notin Range(paths')
      /\ \A i, j \in DOMAIN paths' : paths'[i] = paths'[j] => i = j
      /\ Range(paths) = {g} \cup Range(paths')
  <2> HIDE DEF k
  <2>1. paths \in Seq(FilesOf(k))
    BY <1>3 DEF k
  <2> QED BY <1>1, <1>3, <2>1, HeadAndTail
<1>6. k \in Nat /\ \A j \in 1 .. d + 1 : Sorted(Directives)[j] <= k
  <2>1. \A j \in 1 .. d + 1 : j \in 1 .. Cardinality(Directives) /\ (j = d + 1 \/ j < d + 1)
    BY <1>3, <1>4
  <2>2. k \in Nat
    BY <1>3, <1>4
  <2>3. \A j \in 1 .. d + 1 : Sorted(Directives)[j] \in Nat
    BY <1>4, <2>1
  <2>4. \A j \in 1 .. d + 1 : j < d + 1 => Sorted(Directives)[j] < k
    BY <1>3, <1>4, <2>1
  <2> QED BY <2>1, <2>2, <2>3, <2>4
<1>7. /\ inputs \in Seq(Lines) /\ n \in Nat /\ DOMAIN inputs = 1 .. n
      /\ tmux[g] \in Seq(Lines) /\ e \in Nat /\ DOMAIN tmux[g] = 1 .. e
  BY <1>1, ConfigurationAssumption DEF CInv, Lines
<1>8. /\ Len(inputs') = n + e /\ \A i \in 1 .. n : inputs'[i] = inputs[i]
      /\ \A i \in 1 .. e : inputs'[n + i] = tmux[g][i]
  BY <1>1, <1>7
<1>9. /\ m <= n /\ at \in [1 .. n -> Nat] /\ d + 1 \in 0 .. Cardinality(Directives)
      /\ \A i \in 1 .. m : inputs[i] = tmux[root][i]
      /\ \A i, j \in m + 1 .. n : i < j => at[i] <= at[j]
      /\ \A i \in m + 1 .. n :
           /\ \E j \in 1 .. d + 1 : at[i] = Sorted(Directives)[j]
           /\ \E f \in FilesOf(at[i]) \cap DOMAIN tmux : f \notin Range(paths) /\ inputs[i] \in LinesOf(f)
      /\ \A j \in 1 .. d + 1 : \A f \in FilesOf(Sorted(Directives)[j]) \cap DOMAIN tmux :
           f \notin Range(paths) => \A l \in LinesOf(f) :
             \E i \in m + 1 .. n : at[i] = Sorted(Directives)[j] /\ inputs[i] = l
  BY <1>3 DEF ScanAt
<1>10. \A j \in 1 .. Cardinality(Directives) : g \in FilesOf(Sorted(Directives)[j]) => j = d + 1
  <2>1. g \in FilesOf(Sorted(Directives)[d + 1])
    BY <1>5
  <2> HIDE DEF g, k, m, n, e, next_at
  <2> QED BY <1>2, <1>3, <2>1, FilesApart
<1>11. k = Sorted(Directives)[d + 1]
  OBVIOUS
<1>12. /\ next_at \in [1 .. n + e -> Nat]
       /\ \A i \in 1 .. n : next_at[i] = at[i]
       /\ \A i \in n + 1 .. n + e : next_at[i] = k
  <2>1. \A i \in 1 .. n : i \in 1 .. n + e /\ i <= n
    BY <1>7
  <2>2. \A i \in n + 1 .. n + e : i \in 1 .. n + e /\ ~(i <= n)
    BY <1>7
  <2> HIDE DEF k, m, n, e
  <2> QED BY <1>6, <1>7, <1>9, <2>1, <2>2
<1> HIDE DEF g, k, m, n, e, next_at
<1>13. m <= n + e /\ \A i \in m + 1 .. n + e : i \in m + 1 .. n \/ i \in n + 1 .. n + e
  BY <1>4, <1>7, <1>9
<1>14. \A i \in m + 1 .. n : i \in 1 .. n /\ i \in m + 1 .. n + e
  BY <1>4, <1>7
<1>15. \A i \in 1 .. m : inputs'[i] = tmux[root][i]
  BY <1>4, <1>7, <1>8, <1>9
<1>16. \A i, j \in m + 1 .. n + e : i < j => next_at[i] <= next_at[j]
  <2> SUFFICES ASSUME NEW i \in m + 1 .. n + e, NEW j \in m + 1 .. n + e, i < j PROVE next_at[i] <= next_at[j]
    OBVIOUS
  <2>1. CASE i \in m + 1 .. n /\ j \in m + 1 .. n
    BY <1>9, <1>12, <1>14, <2>1
  <2>2. CASE i \in m + 1 .. n /\ j \in n + 1 .. n + e
    <3>1. PICK a \in 1 .. d + 1 : at[i] = Sorted(Directives)[a]
      BY <1>9, <2>2
    <3>2. next_at[i] = Sorted(Directives)[a] /\ next_at[j] = k
      BY <1>12, <1>14, <2>2, <3>1
    <3> QED BY <1>6, <3>2
  <2>3. CASE i \in n + 1 .. n + e /\ j \in n + 1 .. n + e
    BY <1>6, <1>12, <2>3
  <2>4. ~(i \in n + 1 .. n + e /\ j \in m + 1 .. n)
    BY <1>4, <1>7
  <2> QED BY <1>13, <2>1, <2>2, <2>3, <2>4
<1>17. ASSUME NEW i \in m + 1 .. n + e
       PROVE  /\ \E j \in 1 .. d + 1 : next_at[i] = Sorted(Directives)[j]
              /\ \E f \in FilesOf(next_at[i]) \cap DOMAIN tmux : f \notin Range(paths') /\ inputs'[i] \in LinesOf(f)
  <2>1. CASE i \in m + 1 .. n
    <3>1. next_at[i] = at[i] /\ inputs'[i] = inputs[i]
      BY <1>8, <1>12, <1>14, <2>1
    <3> QED BY <1>5, <1>9, <2>1, <3>1
  <2>2. CASE i \in n + 1 .. n + e
    <3>1. next_at[i] = k /\ d + 1 \in 1 .. d + 1
      BY <1>3, <1>12, <2>2
    <3>2. i - n \in 1 .. e /\ i = n + (i - n)
      BY <1>7, <2>2
    <3>3. inputs'[i] = tmux[g][i - n]
      BY <1>8, <3>2
    <3>4. inputs'[i] \in LinesOf(g)
      BY <1>7, <3>2, <3>3 DEF LinesOf
    <3> QED BY <1>1, <1>5, <1>11, <3>1, <3>4 DEF g
  <2> QED BY <1>13, <2>1, <2>2
<1>18. ASSUME NEW j \in 1 .. d + 1, NEW f \in FilesOf(Sorted(Directives)[j]) \cap DOMAIN tmux,
              f \notin Range(paths'), NEW l \in LinesOf(f)
       PROVE  \E i \in m + 1 .. n + e : next_at[i] = Sorted(Directives)[j] /\ inputs'[i] = l
  <2>1. CASE f = g
    <3>1. j \in 1 .. Cardinality(Directives)
      BY <1>3, <1>4
    <3>2. Sorted(Directives)[j] = k
      BY <1>10, <1>11, <2>1, <3>1
    <3>3. PICK i \in 1 .. e : l = tmux[g][i]
      BY <1>7, <2>1 DEF LinesOf
    <3>4. n + i \in n + 1 .. n + e /\ n + i \in m + 1 .. n + e
      BY <1>4, <1>7, <1>9
    <3>5. next_at[n + i] = k /\ inputs'[n + i] = l
      BY <1>8, <1>12, <3>3, <3>4
    <3> QED BY <3>2, <3>4, <3>5
  <2>2. CASE f # g
    <3>1. f \notin Range(paths)
      BY <1>5, <1>18, <2>2
    <3>2. PICK i \in m + 1 .. n : at[i] = Sorted(Directives)[j] /\ inputs[i] = l
      BY <1>9, <3>1
    <3> QED BY <1>8, <1>12, <1>14, <3>2
  <2> QED BY <2>1, <2>2
<1>19. ScanOf(tmux, root, inputs', paths', next_at, d + 1)
  <2>1. /\ \A i \in m + 1 .. n + e :
             /\ \E j \in 1 .. d + 1 : next_at[i] = Sorted(Directives)[j]
             /\ \E f \in FilesOf(next_at[i]) \cap DOMAIN tmux : f \notin Range(paths') /\ inputs'[i] \in LinesOf(f)
        /\ \A j \in 1 .. d + 1 : \A f \in FilesOf(Sorted(Directives)[j]) \cap DOMAIN tmux :
             f \notin Range(paths') => \A l \in LinesOf(f) :
               \E i \in m + 1 .. n + e : next_at[i] = Sorted(Directives)[j] /\ inputs'[i] = l
    BY <1>17, <1>18
  <2>2. Len(inputs') = n + e
    BY <1>8
  <2> DEFINE N == Len(inputs')
  <2>3. /\ m <= N /\ next_at \in [1 .. N -> Nat]
        /\ \A i, j \in m + 1 .. N : i < j => next_at[i] <= next_at[j]
        /\ \A i \in m + 1 .. N :
             /\ \E j \in 1 .. d + 1 : next_at[i] = Sorted(Directives)[j]
             /\ \E f \in FilesOf(next_at[i]) \cap DOMAIN tmux : f \notin Range(paths') /\ inputs'[i] \in LinesOf(f)
        /\ \A j \in 1 .. d + 1 : \A f \in FilesOf(Sorted(Directives)[j]) \cap DOMAIN tmux :
             f \notin Range(paths') => \A l \in LinesOf(f) :
               \E i \in m + 1 .. N : next_at[i] = Sorted(Directives)[j] /\ inputs'[i] = l
    <3>1. N = n + e
      BY <2>2
    <3> HIDE DEF N
    <3> QED BY <1>12, <1>13, <1>16, <2>1, <3>1
  <2>4. d + 1 \in 0 .. Cardinality(Directives) /\ \A i \in 1 .. m : inputs'[i] = tmux[root][i]
    BY <1>9, <1>15
  <2> QED BY <1>2, <2>3, <2>4 DEF ScanOf, m, Directives, SourceLines, FilesOf, FilesIn, LinesOf, LinesIn
<1>20. /\ d \in 0 .. Cardinality(SourceLines(tmux, root))
       /\ sources' = [j \in 1 .. Cardinality(SourceLines(tmux, root)) - d
                        |-> tmux[root][Sorted(SourceLines(tmux, root))[d + j]]]
       /\ paths' \in Seq(FilesIn(tmux, root, Sorted(SourceLines(tmux, root))[d + 1]))
  BY <1>1, <1>3, <1>4, <1>5, <1>11, ScanIs
<1>21. ScanningOf(tmux, root, inputs', paths', sources', "open")
  <2>1. next_at \in [1 .. Len(inputs') -> Nat]
    BY <1>19 DEF ScanOf
  <2> QED BY <1>1, <1>2, <1>5, <1>19, <1>20, <2>1 DEF ScanningOf
<1> QED BY <1>1, <1>21 DEF Scanning

LEMMA FileGoesScans ==
  ASSUME CInv, SourcedOnce(tmux), Scanning, stage \in {"expand", "open"}, TmuxFileGoes
  PROVE  Scanning'
<1>1. PICK g \in DOMAIN tmux : /\ stage = "open" /\ paths # <<>> /\ g = Head(paths)
                               /\ tmux' = [h \in DOMAIN tmux \ {g} |-> tmux[h]]
  BY DEF TmuxFileGoes
<1>2. UNCHANGED <<stage, root, inputs, sources, paths>>
  BY DEF TmuxFileGoes, Meanwhile, scan
<1>3. /\ root # NoFile /\ root \in DOMAIN tmux
  BY <1>1, InFiles
<1>4. PICK d \in Nat, at \in [1 .. Len(inputs) -> Nat] :
        /\ d + 1 \in 1 .. Cardinality(Directives) /\ ScanAt(at, d + 1)
        /\ sources = [j \in 1 .. Cardinality(Directives) - d |-> tmux[root][Sorted(Directives)[d + j]]]
        /\ paths \in Seq(FilesOf(Sorted(Directives)[d + 1]))
        /\ \A i, j \in DOMAIN paths : paths[i] = paths[j] => i = j
  BY <1>1, InFiles
<1>5. Cardinality(Directives) \in Nat
  BY <1>3, MainFile
<1>6. g \in FilesOf(Sorted(Directives)[d + 1]) /\ g \in Range(paths)
  BY <1>1, <1>4, HeadAndTail
<1>7. root # g
  BY <1>3, <1>4, <1>6, FilesApart
<1>8. /\ root \in DOMAIN tmux' /\ tmux'[root] = tmux[root]
      /\ \A f : f \in DOMAIN tmux' <=> f \in DOMAIN tmux /\ f # g
      /\ \A f \in DOMAIN tmux' : tmux'[f] = tmux[f]
  BY <1>1, <1>3, <1>7
<1>9. /\ SourceLines(tmux', root) = Directives
      /\ \A k : FilesIn(tmux', root, k) = FilesOf(k)
      /\ \A f \in DOMAIN tmux' : LinesIn(tmux', f) = LinesOf(f)
  BY <1>8 DEF SourceLines, Directives, FilesIn, FilesOf, LinesIn, LinesOf
<1>10. ScanOf(tmux', root, inputs, paths, at, d + 1)
  <2> DEFINE m == Len(tmux[root])
             n == Len(inputs)
  <2>1. /\ m <= n /\ at \in [1 .. n -> Nat] /\ d + 1 \in 0 .. Cardinality(Directives)
        /\ \A i \in 1 .. m : inputs[i] = tmux[root][i]
        /\ \A i, j \in m + 1 .. n : i < j => at[i] <= at[j]
        /\ \A i \in m + 1 .. n :
             /\ \E j \in 1 .. d + 1 : at[i] = Sorted(Directives)[j]
             /\ \E f \in FilesOf(at[i]) \cap DOMAIN tmux : f \notin Range(paths) /\ inputs[i] \in LinesOf(f)
        /\ \A j \in 1 .. d + 1 : \A f \in FilesOf(Sorted(Directives)[j]) \cap DOMAIN tmux :
             f \notin Range(paths) => \A l \in LinesOf(f) :
               \E i \in m + 1 .. n : at[i] = Sorted(Directives)[j] /\ inputs[i] = l
    BY <1>4 DEF ScanAt
  <2> HIDE DEF m, n
  <2>2. /\ \A i \in m + 1 .. n :
             \E f \in FilesIn(tmux', root, at[i]) \cap DOMAIN tmux' :
               f \notin Range(paths) /\ inputs[i] \in LinesIn(tmux', f)
        /\ \A j \in 1 .. d + 1 : \A f \in FilesIn(tmux', root, Sorted(Directives)[j]) \cap DOMAIN tmux' :
             f \notin Range(paths) => \A l \in LinesIn(tmux', f) :
               \E i \in m + 1 .. n : at[i] = Sorted(Directives)[j] /\ inputs[i] = l
    BY <1>6, <1>8, <1>9, <2>1
  <2>3. m = Len(tmux'[root])
    BY <1>8 DEF m
  <2> QED BY <1>8, <1>9, <2>1, <2>2, <2>3 DEF ScanOf, n
<1>11. /\ d \in 0 .. Cardinality(SourceLines(tmux', root))
       /\ sources = [j \in 1 .. Cardinality(SourceLines(tmux', root)) - d
                       |-> tmux'[root][Sorted(SourceLines(tmux', root))[d + j]]]
       /\ paths \in Seq(FilesIn(tmux', root, Sorted(SourceLines(tmux', root))[d + 1]))
  BY <1>4, <1>5, <1>8, <1>9
<1>12. ScanningOf(tmux', root, inputs, paths, sources, "open")
  BY <1>3, <1>4, <1>10, <1>11 DEF ScanningOf
<1> QED BY <1>1, <1>2, <1>12 DEF Scanning

LEMMA ScanDone ==
  ASSUME CInv, Scanning, ScanEnds
  PROVE  InRank(Scanned)
<1>1. stage = "expand" /\ sources = <<>>
  BY DEF ScanEnds
<1>2. ScanningOf(tmux, root, inputs, paths, sources, "expand")
  BY <1>1 DEF Scanning
<1>3. PICK d \in 0 .. Cardinality(SourceLines(tmux, root)), at \in [1 .. Len(inputs) -> Nat] :
        /\ ScanOf(tmux, root, inputs, paths, at, d)
        /\ sources = [j \in 1 .. Cardinality(SourceLines(tmux, root)) - d
                        |-> tmux[root][Sorted(SourceLines(tmux, root))[d + j]]]
        /\ paths = <<>> /\ root # NoFile
  BY <1>2 DEF ScanningOf
<1>4. ScanAt(at, d) /\ d \in 0 .. Cardinality(Directives)
  BY <1>3, ScanIs
<1>5. Cardinality(Directives) \in Nat
  BY <1>4, MainFile DEF ScanAt
<1>6. DOMAIN sources = 1 .. Cardinality(Directives) - d /\ DOMAIN sources = {}
  BY <1>1, <1>3, ScanIs
<1>7. d = Cardinality(Directives)
  <2> DEFINE N == Cardinality(Directives)
  <2>1. 1 \notin 1 .. N - d /\ N \in Nat /\ d \in 0 .. N
    BY <1>4, <1>5, <1>6
  <2> HIDE DEF N
  <2>2. d = N
    BY <2>1
  <2> QED BY <2>2 DEF N
<1> QED BY <1>3, <1>4, <1>7, ScanRanks

-----------------------------------------------------------------------------
(* The merge of what was read.                                              *)

(* What a document that was accepted does not contain.                      *)
Accepted(doc) ==
  /\ ~RemoteTwice(doc)
  /\ \A k \in DOMAIN doc : IsPlug(doc[k]) => ~Misplaced[doc[k].children]

DInv ==
  Loaded => /\ Accepted(kdl)
            /\ \E tpms \in Seq(PluginLines) : Distinct(tpms) /\ MergedFrom(declared, kdl, tpms)

LEMMA ReadAccepted ==
  /\ \A doc : ~Invalid(doc) => Accepted(doc)
  /\ Accepted(Template)
<1>1. \A doc : ~Invalid(doc) => Accepted(doc)
  BY DEF Invalid, Accepted
<1>2. \A k \in DOMAIN Template : ~IsPlug(Template[k])
  <2> DEFINE node == [node |-> "options", value |-> <<TRUE, 16>>]
  <2>1. node.node # "plug"
    BY SMT
  <2>2. Template = <<node>>
    BY DEF Template
  <2> HIDE DEF node
  <2>3. \A k \in DOMAIN Template : Template[k] = node
    BY <2>2
  <2> QED BY <2>1, <2>3 DEF IsPlug
<1>3. Accepted(Template)
  BY <1>2 DEF Accepted, RemoteTwice
<1> QED BY <1>1, <1>3

LEMMA LoadsMerged ==
  ASSUME CInv, NEW doc \in Docs, Accepted(doc), Loads(doc)
  PROVE  /\ root = NoFile => MergedFrom(declared', doc, <<>>)
         /\ root # NoFile => MergedFrom(declared', doc, Scanned)
         /\ Distinct(<<>>) /\ <<>> \in Seq(PluginLines)
         /\ Distinct(Scanned) /\ Scanned \in Seq(PluginLines)
<1>1. Distinct(Scanned) /\ Scanned \in Seq(PluginLines)
  BY ScannedTakes, ScannedType DEF CInv
<1>2. Distinct(<<>>) /\ <<>> \in Seq(PluginLines)
  BY DEF Distinct
<1>3. root = NoFile => declared' = Declarations(doc)
  BY DEF Loads
<1>4. root # NoFile => declared' = Merge(Declarations(doc), Scanned)
  BY DEF Loads
<1> QED BY <1>1, <1>2, <1>3, <1>4, DocAlone, MergeMerges DEF Accepted

LEMMA ConfiguringMerges ==
  ASSUME CInv, Configure \/ ConfigureFails \/ OthersWrite, DInv
  PROVE  DInv'
<1>1. CASE Configure /\ stage' = "enabled"
  <2>1. LoadConfig /\ stage' = "enabled"
    BY <1>1 DEF Configure
  <2>2. ReadKdl \/ UseDefault
    BY <2>1 DEF LoadConfig, Found, Create, WriteTemplate, Discover, ReadRoot, Expand, Open, OpenMissing,
                Opened, ScanEnds, GoesTo, AfterCreation
  <2>3. PICK doc \in Docs : Loads(doc) /\ Accepted(doc)
    BY <2>2, FilesHold, ReadAccepted DEF ReadKdl, UseDefault, CInv, Docs
  <2>4. kdl' = doc
    BY <2>3 DEF Loads
  <2>5. \E tpms \in Seq(PluginLines) : Distinct(tpms) /\ MergedFrom(declared', doc, tpms)
    BY <2>3, LoadsMerged
  <2> QED BY <2>3, <2>4, <2>5 DEF DInv
<1>2. CASE Configure /\ stage' # "enabled"
  BY <1>2, LoadConfigMoves DEF Configure, DInv, Loaded
<1>3. CASE ConfigureFails
  BY <1>3, LoadConfigStops DEF ConfigureFails, DInv, Loaded
<1>4. CASE OthersWrite
  BY <1>4, AroundMoves DEF OthersWrite, Loaded, merged, DInv
<1> QED BY <1>1, <1>2, <1>3, <1>4

LEMMA DInvSame ==
  ASSUME DInv, UNCHANGED <<kdl, declared>>, Loaded' => Loaded
  PROVE  DInv'
  BY DEF DInv

LEMMA NextMerges ==
  ASSUME IInv, DInv, [Next]_vars
  PROVE  DInv'
<1>0. CInv /\ RInv
  BY DEF IInv
<1>1. CASE Load \/ LoadFails
  BY <1>0, <1>1, LoadMoves, DInvSame DEF loadedElse, merged, Loaded
<1>2. CASE Resolving
  BY <1>0, <1>2, ResolvingLoaded, DInvSame
<1>3. CASE Configure \/ ConfigureFails \/ OthersWrite
  BY <1>0, <1>3, ConfiguringMerges
<1>4. CASE UNCHANGED vars
  BY <1>4, DInvSame DEF vars, condVars, configVars, merged, Loaded
<1> QED BY <1>1, <1>2, <1>3, <1>4, StepsOf

(* Where the files are as the documentation has it in mind.                  *)
SInv ==
  /\ SourcedOnce(tmux)
  /\ stage \in {"start", "write", "discover"} => root = NoFile
  /\ stage \in {"start", "write", "discover", "root"} => paths = <<>>
  /\ stage \in {"root", "expand", "open"} => root # NoFile
  /\ stage \in {"expand", "open"} => Scanning
  /\ stage = "kdl" /\ root # NoFile => InRank(Scanned)

LEMMA RankSame ==
  ASSUME UNCHANGED <<tmux, root, inputs>>
  PROVE  /\ ByTpm' = ByTpm /\ \A id : Rank(id)' = Rank(id)
         /\ \A tpms : InRank(tpms)' <=> InRank(tpms)
         /\ InRank(Scanned)' <=> InRank(Scanned)
<1>1. ByTpm' = ByTpm
  BY DEF ByTpm, PluginsOf, LinesOf, SourcedBy, Directives
<1>2. \A id : Rank(id)' = Rank(id)
  BY DEF Rank, PluginsOf, LinesOf, SourcedBy, Directives
<1>3. \A tpms : InRank(tpms)' <=> InRank(tpms)
  BY <1>1, <1>2 DEF InRank
<1>4. Scanned' = Scanned
  BY DEF Scanned
<1>5. InRank(Scanned)' <=> InRank(Scanned)
  BY <1>1, <1>2, <1>4 DEF InRank
<1> QED BY <1>1, <1>2, <1>3, <1>5

LEMMA ScanningSame ==
  ASSUME UNCHANGED <<tmux, root, inputs, paths, sources, stage>>
  PROVE  Scanning' <=> Scanning
  BY DEF Scanning

LEMMA SInvSame ==
  ASSUME SInv, UNCHANGED <<tmux, scan, stage>>
  PROVE  SInv'
<1>1. Scanning' <=> Scanning
  BY ScanningSame DEF scan
<1>2. InRank(Scanned)' <=> InRank(Scanned)
  BY RankSame DEF scan
<1> QED BY <1>1, <1>2 DEF SInv, scan

LEMMA SInvOut ==   \* once the configuration has been read
  ASSUME SInv, UNCHANGED tmux, stage' \notin ConfigStage
  PROVE  SInv'
  BY DEF SInv, ConfigStage

LEMMA LoadConfigScans ==
  ASSUME CInv, SInv, LoadConfig
  PROVE  SInv'
<1>0. SourcedOnce(tmux) /\ UNCHANGED tmux => SourcedOnce(tmux)'
  OBVIOUS
<1>1. CASE Found \/ Create \/ WriteTemplate
  <2>1. /\ UNCHANGED <<tmux, root, paths>> /\ stage \in {"start", "write"}
        /\ stage' \in {"write", "discover", "kdl"}
    BY <1>1 DEF Found, Create, WriteTemplate, GoesTo, AfterCreation, scan
  <2> QED BY <2>1 DEF SInv
<1>2. CASE Discover
  <2>1. /\ UNCHANGED <<tmux, paths>> /\ stage = "discover"
        /\ stage' = IF root' = NoFile THEN "kdl" ELSE "root"
    BY <1>2 DEF Discover, GoesTo
  <2> QED BY <2>1 DEF SInv
<1>3. CASE ReadRoot
  <2>1. UNCHANGED <<tmux, root>> /\ stage = "root" /\ stage' = "expand"
    BY <1>3 DEF ReadRoot, GoesTo
  <2>2. Scanning'
    BY <1>3, <2>1, ReadRootScans DEF SInv
  <2> QED BY <2>1, <2>2 DEF SInv
<1>4. CASE Expand
  <2>1. UNCHANGED <<tmux, root>> /\ stage = "expand" /\ stage' = "open"
    BY <1>4 DEF Expand, GoesTo
  <2>2. Scanning'
    BY <1>4, <2>1, ExpandScans DEF SInv
  <2> QED BY <2>1, <2>2 DEF SInv
<1>5. CASE Open
  <2>1. UNCHANGED <<tmux, root>> /\ stage = "open" /\ stage' = "open"
    BY <1>5 DEF Open
  <2>2. Scanning'
    BY <1>5, <2>1, OpenScans DEF SInv
  <2> QED BY <2>1, <2>2 DEF SInv
<1>6. CASE OpenMissing
  <2>1. UNCHANGED <<tmux, root>> /\ stage = "open" /\ stage' = "open"
    BY <1>6 DEF OpenMissing
  <2>2. Scanning'
    BY <1>6, <2>1, OpenMissingScans DEF SInv
  <2> QED BY <2>1, <2>2 DEF SInv
<1>7. CASE Opened
  <2>1. UNCHANGED <<tmux, root>> /\ stage = "open" /\ stage' = "expand"
    BY <1>7 DEF Opened, GoesTo
  <2>2. Scanning'
    BY <1>7, <2>1, OpenedScans DEF SInv
  <2> QED BY <2>1, <2>2 DEF SInv
<1>8. CASE ScanEnds
  <2>1. UNCHANGED <<tmux, root, inputs>> /\ stage = "expand" /\ stage' = "kdl"
    BY <1>8 DEF ScanEnds, GoesTo, scan
  <2>2. InRank(Scanned)'
    BY <1>8, <2>1, ScanDone, RankSame DEF SInv
  <2> QED BY <2>1, <2>2 DEF SInv
<1>9. CASE ReadKdl \/ UseDefault
  <2>1. UNCHANGED tmux /\ stage' \notin ConfigStage
    BY <1>9 DEF ReadKdl, UseDefault, GoesTo, ConfigStage
  <2> QED BY <2>1, SInvOut
<1> QED BY <1>1, <1>2, <1>3, <1>4, <1>5, <1>6, <1>7, <1>8, <1>9 DEF LoadConfig

LEMMA AroundScans ==
  ASSUME CInv, SInv, Around
  PROVE  SInv'
<1>1. UNCHANGED <<stage, scan>> /\ (UNCHANGED tmux \/ TmuxFileGoes)
  BY DEF Around, UserWrites, UserRemoves, AnotherCreates, TmuxFileGoes, Meanwhile
<1>2. CASE UNCHANGED tmux
  BY <1>1, <1>2, SInvSame
<1>3. CASE TmuxFileGoes
  <2>1. stage \in {"root", "open"} /\ UNCHANGED <<stage, root, paths>>
    BY <1>3 DEF TmuxFileGoes, Meanwhile, scan
  <2>2. stage = "open" => Scanning'
    BY <1>3, FileGoesScans DEF SInv
  <2>3. SourcedOnce(tmux')
    <3>1. DOMAIN tmux' \subseteq DOMAIN tmux /\ \A f \in DOMAIN tmux' : tmux'[f] = tmux[f]
      BY <1>3 DEF TmuxFileGoes
    <3>2. SourcedOnce(tmux)
      BY DEF SInv
    <3> QED BY <3>1, <3>2 DEF SourcedOnce
  <2> QED BY <2>1, <2>2, <2>3 DEF SInv
<1> QED BY <1>1, <1>2, <1>3

LEMMA ResolvingOut ==
  ASSUME RInv, Resolving
  PROVE  stage \notin ConfigStage /\ stage' \notin ConfigStage /\ UNCHANGED <<tmux, root, inputs>>
<1>1. stage \in ConfigStage => shell.state = "none" /\ cur = 0
  BY DEF RInv, Idle
<1>2. stage \notin ConfigStage
  BY <1>1 DEF Resolving, Take, EndStage, Literal, Project, Projected, AtHand, Spawn, SpawnFails,
              Poll, Wake, PollLast, Kill, MonitorFails, Polling, Exits, ConfigStage
<1>3. UNCHANGED loaded
  BY DEF Resolving, Take, EndStage, Literal, Project, Projected, Spawn, SpawnFails, Poll, Wake, PollLast,
         Kill, MonitorFails, Exits, Steps, Settles, Fails, Answered
<1>4. UNCHANGED stage \/ stage' \in {"failed", "cond", "if", "resolved"}
  BY DEF Resolving, Take, EndStage, Literal, Project, Projected, Spawn, SpawnFails, Poll, Wake, PollLast,
         Kill, MonitorFails, Exits, Steps, Settles, Fails, Answered, NextStage
<1> QED BY <1>2, <1>3, <1>4 DEF loaded, scan, ConfigStage

LEMMA NextScans ==
  ASSUME IInv, SInv, [Next]_vars
  PROVE  SInv'
<1>0. CInv /\ RInv
  BY DEF IInv
<1>1. CASE Load \/ LoadFails
  BY <1>0, <1>1, LoadMoves, SInvSame DEF loadedElse
<1>2. CASE Resolving
  BY <1>0, <1>2, ResolvingOut, SInvOut
<1>3. CASE Configure
  BY <1>0, <1>3, LoadConfigScans DEF Configure
<1>4. CASE ConfigureFails
  <2>1. stage' \notin ConfigStage
    BY <1>4, LoadConfigStops DEF ConfigureFails, ConfigStage
  <2>2. UNCHANGED tmux
    BY <1>4 DEF ConfigureFails, LoadConfigFails, CreateFails, WriteFails, ReadRootFails, ExpandFails, OpenFails, ScanFails,
                ReadKdlFails, FailsToLoad
  <2> QED BY <2>1, <2>2, SInvOut
<1>5. CASE OthersWrite
  BY <1>0, <1>5, AroundScans DEF OthersWrite
<1>6. CASE UNCHANGED vars
  BY <1>6, SInvSame DEF vars, condVars, configVars
<1> QED BY <1>1, <1>2, <1>3, <1>4, <1>5, <1>6, StepsOf

LEMMA MergedSame ==
  ASSUME MergedAsDocumented, UNCHANGED <<tmux, root, inputs, kdl, declared>>, Loaded' => Loaded
  PROVE  MergedAsDocumented'
<1>1. ByTpm' = ByTpm /\ \A id : Rank(id)' = Rank(id)
  BY RankSame
<1>2. UNCHANGED <<Plugins, InKdl, KdlIds, Places>>
  BY DEF Plugins, InKdl, KdlIds, Places
<1>3. \A p : Tpm(p)' <=> Tpm(p)
  BY <1>1 DEF Tpm
<1> QED BY <1>1, <1>2, <1>3 DEF MergedAsDocumented

MergesWell ==
  \A tpms \in Seq(PluginLines) :
    (kdl \in Docs /\ Distinct(tpms) /\ InRank(tpms) /\ MergedFrom(declared, kdl, tpms)) => MergedAsDocumented

LEMMA AlwaysWell == MergesWell /\ MergesWell'
<1>1. MergesWell
  BY MergeDocumented DEF MergesWell
<1> QED BY <1>1, PTL

LEMMA LoadsDocumented ==
  ASSUME CInv, SInv, Configure, stage' = "enabled"
  PROVE  MergedAsDocumented'
<1>1. LoadConfig /\ stage' = "enabled"
  BY DEF Configure
<1>2. ReadKdl \/ UseDefault
  BY <1>1 DEF LoadConfig, Found, Create, WriteTemplate, Discover, ReadRoot, Expand, Open, OpenMissing,
              Opened, ScanEnds, GoesTo, AfterCreation
<1>3. PICK doc \in Docs : Loads(doc) /\ Accepted(doc) /\ stage = "kdl"
  BY <1>2, FilesHold, ReadAccepted DEF ReadKdl, UseDefault, CInv, Docs
<1>4. UNCHANGED <<tmux, root, inputs>> /\ kdl' = doc
  BY <1>2, <1>3 DEF ReadKdl, UseDefault, GoesTo, Loads, scan
<1>5. root # NoFile => InRank(Scanned)
  BY <1>3 DEF SInv
<1>6. root = NoFile => InRank(<<>>)
  <2>1. 1 .. Len(<<>>) = {}
    OBVIOUS
  <2> QED BY <2>1 DEF InRank, ByTpm
<1>7. PICK tpms \in Seq(PluginLines) : Distinct(tpms) /\ MergedFrom(declared', doc, tpms) /\ InRank(tpms)
  BY <1>3, <1>5, <1>6, LoadsMerged
<1>8. InRank(tpms)'
  BY <1>4, <1>7, RankSame
<1>9. (kdl \in Docs /\ MergedFrom(declared, kdl, tpms))'
  BY <1>3, <1>4, <1>7 DEF Docs
<1>10. (kdl \in Docs /\ Distinct(tpms) /\ InRank(tpms) /\ MergedFrom(declared, kdl, tpms))'
         => MergedAsDocumented'
  BY <1>7, AlwaysWell DEF MergesWell, PluginLines, Lines
<1> QED BY <1>7, <1>8, <1>9, <1>10

LEMMA NextDocumented ==
  ASSUME IInv, SInv, MergedAsDocumented, [Next]_vars
  PROVE  MergedAsDocumented'
<1>0. CInv /\ RInv
  BY DEF IInv
<1>1. CASE Load \/ LoadFails
  BY <1>0, <1>1, LoadMoves, MergedSame DEF loadedElse, scan, merged, Loaded
<1>2. CASE Resolving
  BY <1>0, <1>2, ResolvingOut, ResolvingLoaded, MergedSame
<1>3. CASE Configure /\ stage' = "enabled"
  BY <1>0, <1>3, LoadsDocumented
<1>4. CASE (Configure /\ stage' # "enabled") \/ ConfigureFails \/ OthersWrite
  <2>1. ~Loaded'
    BY <1>0, <1>4, LoadConfigMoves, LoadConfigStops, AroundMoves
       DEF Configure, ConfigureFails, OthersWrite, Loaded
  <2> QED BY <2>1 DEF MergedAsDocumented
<1>5. CASE UNCHANGED vars
  BY <1>5, MergedSame DEF vars, condVars, configVars, scan, merged, Loaded
<1> QED BY <1>1, <1>2, <1>3, <1>4, <1>5, StepsOf

LEMMA InitScans == FilesOnce /\ Init => DInv /\ SInv /\ MergedAsDocumented
<1> SUFFICES ASSUME FilesOnce, Init PROVE DInv /\ SInv /\ MergedAsDocumented
  OBVIOUS
<1>1. stage = "start" /\ root = NoFile /\ paths = <<>> /\ ~Loaded
  BY DEF Init, CondInit, ConfigInit, Loaded, ConfigStage
<1>2. SourcedOnce(tmux)
  <2>1. tmux \in Trees \cup {<<>>}
    BY DEF Init, CondInit, ConfigInit
  <2>2. SourcedOnce(<<>>)
    BY DEF SourcedOnce
  <2> QED BY <2>1, <2>2 DEF FilesOnce
<1> QED BY <1>1, <1>2 DEF SInv, DInv, MergedAsDocumented

LEMMA MergeInductive == FilesOnce => (Spec => [](DInv /\ SInv /\ MergedAsDocumented))
<1>1. FilesOnce /\ Init => DInv /\ SInv /\ MergedAsDocumented
  BY InitScans
<1>2. IInv /\ (DInv /\ SInv /\ MergedAsDocumented) /\ [Next]_vars => (DInv /\ SInv /\ MergedAsDocumented)'
  BY NextMerges, NextScans, NextDocumented
<1> QED BY <1>1, <1>2, Inductive, PTL DEF Spec

(* In mixed mode every plugin of tmup.kdl and of the scanned tmux files is    *)
(* there once, a KDL declaration in the place of the TPM declaration that it  *)
(* replaces, the others in their order, also while files that are scanned     *)
(* go away (config_mode.rs, merge_mixed_specs; tpm.rs, load_config_from_path).   *)
(* Where a file is sourced twice, or sources itself, nothing is claimed.      *)
THEOREM MergeIsDocumented == FilesOnce => (Spec => []MergedAsDocumented)
  BY MergeInductive, PTL

-----------------------------------------------------------------------------
(* What is defined by recursion over blocks.  A step D that looks only at    *)
(* less deep blocks has a fixed point, and so the definition is satisfied.   *)

LEMMA BlockShape ==
  /\ \A b \in Blocks : DOMAIN b = 1 .. Len(b) /\ Len(b) \in Nat /\ \A k \in DOMAIN b : b[k] \in Nodes
  /\ \A n \in Nodes : IsBranch(n) => n.children \in Blocks
  /\ \A b \in Blocks : \A k \in DOMAIN b : IsBranch(b[k]) => Depth[b[k].children] < Depth[b]
  /\ \A b \in Blocks : Depth[b] \in Nat
  /\ Blocks \subseteq Seq(Nodes)
<1>1. Blocks \subseteq Seq(Nodes)
  BY ConfigurationAssumption DEF Nodes
<1>2. \A b \in Blocks : DOMAIN b = 1 .. Len(b) /\ Len(b) \in Nat /\ \A k \in DOMAIN b : b[k] \in Nodes
  BY <1>1
<1> QED BY <1>1, <1>2, ConfigurationAssumption DEF Nodes

Looks(D, R) ==   \* only at less deep blocks
  /\ D \in [[Blocks -> R] -> [Blocks -> R]]
  /\ \A f, g \in [Blocks -> R], b \in Blocks :
       (\A c \in Blocks : Depth[c] < Depth[b] => f[c] = g[c]) => D[f][b] = D[g][b]

UpTo(D, R, n, f) == f \in [Blocks -> R] /\ \A b \in Blocks : Depth[b] < n => D[f][b] = f[b]

LEMMA UpToExists ==
  ASSUME NEW R, NEW r \in R, NEW D, Looks(D, R), NEW n \in Nat
  PROVE  \E f : UpTo(D, R, n, f)
<1> DEFINE T == {m \in Nat : ~\E f : UpTo(D, R, m, f)}
<1> SUFFICES ASSUME T # {} PROVE FALSE
  OBVIOUS
<1>1. PICK m \in T : \A y \in T : m <= y
  BY LeastOfNat
<1>2. \A b \in Blocks : Depth[b] \in Nat
  BY BlockShape
<1>3. CASE m = 0
  <2>1. [b \in Blocks |-> r] \in [Blocks -> R]
    OBVIOUS
  <2>2. \A b \in Blocks : ~(Depth[b] < 0)
    BY <1>2
  <2>3. UpTo(D, R, 0, [b \in Blocks |-> r])
    BY <2>1, <2>2 DEF UpTo
  <2> QED BY <1>3, <2>3
<1>4. CASE m # 0
  <2>1. m - 1 \in Nat /\ m - 1 \notin T
    BY <1>1, <1>4
  <2>2. PICK f : UpTo(D, R, m - 1, f)
    BY <2>1
  <2>3. f \in [Blocks -> R] /\ D[f] \in [Blocks -> R]
    BY <2>2 DEF UpTo, Looks
  <2>4. ASSUME NEW b \in Blocks, Depth[b] < m PROVE D[D[f]][b] = D[f][b]
    <3>1. \A c \in Blocks : Depth[c] < Depth[b] => D[f][c] = f[c]
      <4>1. \A c \in Blocks : Depth[c] < Depth[b] => Depth[c] < m - 1
        BY <1>2, <2>1, <2>4
      <4> QED BY <2>2, <4>1 DEF UpTo
    <3> QED BY <2>3, <3>1 DEF Looks
  <2>5. UpTo(D, R, m, D[f])
    BY <2>3, <2>4 DEF UpTo
  <2> QED BY <2>5
<1> QED BY <1>3, <1>4

LEMMA UpToAgree ==
  ASSUME NEW R, NEW D, Looks(D, R), NEW n \in Nat, NEW m \in Nat,
         NEW f, NEW g, UpTo(D, R, n, f), UpTo(D, R, m, g)
  PROVE  \A b \in Blocks : Depth[b] < n /\ Depth[b] < m => f[b] = g[b]
<1> DEFINE Apart == {b \in Blocks : Depth[b] < n /\ Depth[b] < m /\ f[b] # g[b]}
           T == {Depth[b] : b \in Apart}
<1>1. \A b \in Blocks : Depth[b] \in Nat
  BY BlockShape
<1> SUFFICES ASSUME T # {} PROVE FALSE
  OBVIOUS
<1>2. T \subseteq Nat
  BY <1>1
<1>3. PICK d \in T : \A y \in T : d <= y
  BY <1>2, LeastOfNat
<1>4. PICK b \in Apart : Depth[b] = d
  BY <1>3
<1>5. \A c \in Blocks : Depth[c] < Depth[b] => f[c] = g[c]
  <2> SUFFICES ASSUME NEW c \in Blocks, Depth[c] < Depth[b], f[c] # g[c] PROVE FALSE
    OBVIOUS
  <2>1. c \in Apart
    BY <1>1, <1>4
  <2>2. d <= Depth[c]
    BY <1>3, <2>1
  <2> QED BY <1>1, <1>4, <2>2
<1>6. D[f][b] = D[g][b]
  BY <1>5 DEF Looks, UpTo
<1> QED BY <1>4, <1>6 DEF UpTo

LEMMA FixedPoint ==
  ASSUME NEW R, NEW r \in R, NEW D, Looks(D, R)
  PROVE  \E f \in [Blocks -> R] : D[f] = f
<1> DEFINE F == [n \in Nat |-> CHOOSE f : UpTo(D, R, n, f)]
           L == [b \in Blocks |-> F[Depth[b] + 1][b]]
<1>1. \A n \in Nat : UpTo(D, R, n, F[n])
  BY UpToExists
<1> HIDE DEF F
<1>2. \A b \in Blocks : Depth[b] \in Nat /\ Depth[b] + 1 \in Nat /\ Depth[b] < Depth[b] + 1
  BY BlockShape
<1>3. L \in [Blocks -> R]
  BY <1>1, <1>2 DEF UpTo
<1>4. ASSUME NEW b \in Blocks PROVE D[L][b] = L[b]
  <2> DEFINE f == F[Depth[b] + 1]
  <2>1. UpTo(D, R, Depth[b] + 1, f)
    BY <1>1, <1>2
  <2>2. ASSUME NEW c \in Blocks, Depth[c] < Depth[b] PROVE L[c] = f[c]
    <3>1. UpTo(D, R, Depth[c] + 1, F[Depth[c] + 1])
      BY <1>1, <1>2
    <3>2. Depth[c] < Depth[b] + 1
      BY <1>2, <2>2
    <3>3. F[Depth[c] + 1][c] = f[c]
      BY <1>2, <2>1, <3>1, <3>2, UpToAgree
    <3> QED BY <3>3
  <2>3. f \in [Blocks -> R] /\ D[f][b] = f[b]
    BY <1>2, <2>1 DEF UpTo
  <2>4. L[b] = f[b]
    OBVIOUS
  <2> HIDE DEF f, L
  <2>5. D[L][b] = D[f][b]
    BY <1>3, <2>2, <2>3 DEF Looks
  <2> QED BY <2>3, <2>4, <2>5
<1> HIDE DEF L
<1>5. D[L] \in [Blocks -> R]
  BY <1>3 DEF Looks
<1>6. D[L] = L
  BY <1>3, <1>4, <1>5
<1> QED BY <1>3, <1>6

(* What satisfies such a definition has its values in R.                     *)
LEMMA FixedTyped ==
  ASSUME NEW R, NEW v, DOMAIN v = Blocks,
         \A b \in Blocks : (\A c \in Blocks : Depth[c] < Depth[b] => v[c] \in R) => v[b] \in R
  PROVE  \A b \in Blocks : v[b] \in R
<1> DEFINE Apart == {b \in Blocks : v[b] \notin R}
           T == {Depth[b] : b \in Apart}
<1>1. \A b \in Blocks : Depth[b] \in Nat
  BY BlockShape
<1> SUFFICES ASSUME T # {} PROVE FALSE
  OBVIOUS
<1>2. T \subseteq Nat
  BY <1>1
<1>3. PICK d \in T : \A y \in T : d <= y
  BY <1>2, LeastOfNat
<1>4. PICK b \in Apart : Depth[b] = d
  BY <1>3
<1>5. \A c \in Blocks : Depth[c] < Depth[b] => v[c] \in R
  <2> SUFFICES ASSUME NEW c \in Blocks, Depth[c] < Depth[b], v[c] \notin R PROVE FALSE
    OBVIOUS
  <2>1. c \in Apart
    BY <1>1, <1>4
  <2>2. d <= Depth[c]
    BY <1>3, <2>1
  <2> QED BY <1>1, <1>4, <2>2
<1> QED BY <1>4, <1>5

-----------------------------------------------------------------------------
(* Parts one after the other.                                               *)

LEMMA Concat ==
  ASSUME NEW X, NEW s \in Seq(X), NEW t \in Seq(X), NEW u \in Seq(X)
  PROVE  /\ s \o t \in Seq(X) /\ Len(s \o t) = Len(s) + Len(t)
         /\ <<>> \o s = s /\ s \o <<>> = s
         /\ (s \o t) \o u = s \o (t \o u)
<1>1. s \o t \in Seq(X) /\ Len(s \o t) = Len(s) + Len(t)
  OBVIOUS
<1>2. <<>> \o s = s /\ s \o <<>> = s
  BY ConcatEmptySeq
<1>3. (s \o t) \o u = s \o (t \o u)
  BY ConcatAssociative
<1> QED BY <1>1, <1>2, <1>3

LEMMA FlattenNone ==
  ASSUME NEW seqs, DOMAIN seqs = {}, Len(seqs) = 0, seqs = [i \in {} |-> seqs[i]]
  PROVE  FlattenSeq(seqs) = <<>>
<1>1. FlattenSeq(seqs) = seqs
  BY DEF FlattenSeq
<1>2. <<>> = [i \in {} |-> seqs[i]]
  OBVIOUS
<1> QED BY <1>1, <1>2

LEMMA PartsShape ==
  ASSUME NEW X, NEW n \in Nat, NEW seqs \in [1 .. n -> Seq(X)]
  PROVE  DOMAIN seqs = 1 .. n /\ Len(seqs) = n /\ \A i \in 1 .. n : seqs[i] \in Seq(X)
  OBVIOUS

LEMMA JoiningAgree ==
  ASSUME NEW n \in Nat, NEW m \in Nat, NEW s, NEW t, NEW f, NEW g, Joining(s, f, n), Joining(t, g, m),
         m <= n, \A i \in 1 .. m : s[i] = t[i]
  PROVE  \A i \in 1 .. m : f[i] = g[i]
<1> DEFINE T == {i \in 1 .. m : f[i] # g[i]}
<1> SUFFICES ASSUME T # {} PROVE FALSE
  OBVIOUS
<1>0. T \subseteq Nat
  OBVIOUS
<1>1. PICK i \in T : \A y \in T : i <= y
  <2> HIDE DEF T
  <2> QED BY <1>0, LeastOfNat
<1>2. f[i] = (IF i = 1 THEN s[i] ELSE f[i - 1] \o s[i]) /\ g[i] = (IF i = 1 THEN t[i] ELSE g[i - 1] \o t[i])
  <2>1. i \in 1 .. m /\ i \in 1 .. n
    BY <1>1
  <2>2. \A j \in 1 .. n : f[j] = IF j = 1 THEN s[j] ELSE f[j - 1] \o s[j]
    BY Zenon DEF Joining
  <2>3. \A j \in 1 .. m : g[j] = IF j = 1 THEN t[j] ELSE g[j - 1] \o t[j]
    BY Zenon DEF Joining
  <2> QED BY <2>1, <2>2, <2>3, Zenon
<1>3. CASE i = 1
  BY <1>1, <1>2, <1>3
<1>4. CASE i # 1
  <2>1. i - 1 \in 1 .. m /\ i - 1 \notin T
    BY <1>1, <1>4
  <2> QED BY <1>1, <1>2, <1>4, <2>1
<1> QED BY <1>3, <1>4

LEMMA FlattenLast ==
  ASSUME NEW X, NEW n \in Nat, NEW seqs \in [1 .. n + 1 -> Seq(X)]
  PROVE  FlattenSeq(seqs) = FlattenSeq([i \in 1 .. n |-> seqs[i]]) \o seqs[n + 1]
<1> DEFINE init == [i \in 1 .. n |-> seqs[i]]
<1>1. DOMAIN seqs = 1 .. n + 1 /\ Len(seqs) = n + 1 /\ seqs[n + 1] \in Seq(X)
  BY PartsShape
<1>2. PICK f : Joining(seqs, f, n + 1) /\ FlattenSeq(seqs) = f[n + 1]
  BY <1>1, FlattenIs
<1>3. f[n + 1] = IF n + 1 = 1 THEN seqs[n + 1] ELSE f[n] \o seqs[n + 1]
  <2>1. \A j \in 1 .. n + 1 : f[j] = IF j = 1 THEN seqs[j] ELSE f[j - 1] \o seqs[j]
    BY <1>2, Zenon DEF Joining
  <2>2. n + 1 \in 1 .. n + 1 /\ (n + 1) - 1 = n
    OBVIOUS
  <2> QED BY <2>1, <2>2
<1>4. DOMAIN init = 1 .. n /\ Len(init) = n
  OBVIOUS
<1>5. CASE n = 0
  <2>1. FlattenSeq(init) = <<>>
    <3>1. DOMAIN init = {} /\ init = [i \in {} |-> init[i]] /\ Len(init) = 0
      BY <1>4, <1>5
    <3> HIDE DEF init
    <3> QED BY <3>1, FlattenNone
  <2>2. f[n + 1] = seqs[n + 1]
    BY <1>3, <1>5
  <2> QED BY <1>1, <1>2, <2>1, <2>2, Concat
<1>6. CASE n # 0
  <2>1. \A i \in 1 .. n : seqs[i] = init[i]
    OBVIOUS
  <2> HIDE DEF init
  <2>2. PICK g : Joining(init, g, n) /\ FlattenSeq(init) = g[n]
    BY <1>4, <1>6, FlattenIs
  <2>3. f[n] = g[n]
    BY <1>2, <1>6, <2>1, <2>2, JoiningAgree
  <2>4. f[n + 1] = f[n] \o seqs[n + 1]
    <3>1. n + 1 # 1
      BY <1>6
    <3> QED BY <1>3, <3>1, Zenon
  <2> QED BY <1>2, <2>2, <2>3, <2>4 DEF init
<1> QED BY <1>5, <1>6

LEMMA FlattenIn ==
  ASSUME NEW X, NEW n \in Nat, NEW seqs \in [1 .. n -> Seq(X)]
  PROVE  FlattenSeq(seqs) \in Seq(X)
<1> DEFINE T == {m \in Nat : \E s \in [1 .. m -> Seq(X)] : FlattenSeq(s) \notin Seq(X)}
<1> SUFFICES ASSUME T # {} PROVE FALSE
  OBVIOUS
<1>1. PICK m \in T : \A y \in T : m <= y
  BY LeastOfNat
<1>2. PICK s \in [1 .. m -> Seq(X)] : FlattenSeq(s) \notin Seq(X)
  BY <1>1
<1>3. CASE m = 0
  <2>1. DOMAIN s = {} /\ s = [i \in {} |-> s[i]] /\ Len(s) = 0
    BY <1>3
  <2> QED BY <1>2, <2>1, FlattenNone
<1>4. CASE m # 0
  <2> DEFINE init == [i \in 1 .. m - 1 |-> s[i]]
  <2>1. m - 1 \in Nat /\ m - 1 \notin T /\ m = (m - 1) + 1 /\ m \in 1 .. m
    BY <1>1, <1>4
  <2>2. init \in [1 .. m - 1 -> Seq(X)]
    BY <2>1
  <2>3. FlattenSeq(s) = FlattenSeq(init) \o s[m]
    BY <2>1, FlattenLast
  <2> HIDE DEF init
  <2>4. FlattenSeq(init) \in Seq(X)
    BY <2>1, <2>2
  <2> QED BY <1>2, <2>1, <2>3, <2>4
<1> QED BY <1>3, <1>4

LEMMA FlattenEmpty ==
  ASSUME NEW n \in Nat, NEW seqs, seqs = [i \in 1 .. n |-> <<>>]
  PROVE  FlattenSeq(seqs) = <<>>
<1> DEFINE T == {m \in Nat : FlattenSeq([i \in 1 .. m |-> <<>>]) # <<>>}
<1> SUFFICES ASSUME T # {} PROVE FALSE
  OBVIOUS
<1>1. PICK m \in T : \A y \in T : m <= y
  BY LeastOfNat
<1> DEFINE s == [i \in 1 .. m |-> <<>>]
<1>2. s \in [1 .. m -> Seq({})]
  OBVIOUS
<1>3. CASE m = 0
  <2>1. DOMAIN s = {} /\ s = [i \in {} |-> s[i]] /\ Len(s) = 0
    BY <1>3
  <2> HIDE DEF s
  <2>2. FlattenSeq(s) = <<>>
    BY <2>1, FlattenNone
  <2> QED BY <1>1, <2>2 DEF s
<1>4. CASE m # 0
  <2>1. m - 1 \in Nat /\ m - 1 \notin T /\ m = (m - 1) + 1 /\ m \in 1 .. m
    BY <1>1, <1>4
  <2>2. [i \in 1 .. m - 1 |-> s[i]] = [i \in 1 .. m - 1 |-> <<>>]
    BY <1>1
  <2>3. s[m] = <<>>
    BY <2>1
  <2> HIDE DEF s
  <2>4. FlattenSeq(s) = FlattenSeq([i \in 1 .. m - 1 |-> s[i]]) \o s[m]
    BY <1>2, <2>1, FlattenLast
  <2>5. FlattenSeq(s) = <<>> \o <<>>
    BY <2>1, <2>2, <2>3, <2>4
  <2>6. <<>> \o <<>> = <<>>
    OBVIOUS
  <2> QED BY <1>1, <2>5, <2>6 DEF s
<1> QED BY <1>3, <1>4

InARow(X, n, m, s, t, all) ==   \* the n parts s and the m parts t
  /\ n \in Nat /\ m \in Nat
  /\ s \in [1 .. n -> Seq(X)] /\ t \in [1 .. m -> Seq(X)] /\ all \in [1 .. n + m -> Seq(X)]
  /\ \A i \in 1 .. n : all[i] = s[i]
  /\ \A i \in 1 .. m : all[n + i] = t[i]

LEMMA FlattenConcat ==
  ASSUME NEW X, NEW n, NEW m, NEW s, NEW t, NEW all, InARow(X, n, m, s, t, all)
  PROVE  FlattenSeq(all) = FlattenSeq(s) \o FlattenSeq(t)
<1> USE DEF InARow
<1> DEFINE head(j) == [i \in 1 .. j |-> all[i]]
           part(j) == [i \in 1 .. j |-> t[i]]
           Good(j) == FlattenSeq(head(n + j)) = FlattenSeq(s) \o FlattenSeq(part(j))
           T == {j \in 0 .. m : ~Good(j)}
<1>0. \A j \in 0 .. m : head(n + j) \in [1 .. n + j -> Seq(X)] /\ part(j) \in [1 .. j -> Seq(X)]
  OBVIOUS
<1>1. \A j \in 0 .. m : Good(j)
  <2> HIDE DEF Good
  <2> SUFFICES ASSUME T # {} PROVE FALSE
    OBVIOUS
  <2>5. T \subseteq Nat
    OBVIOUS
  <2>1. PICK j \in T : \A y \in T : j <= y
    <3> HIDE DEF T
    <3> QED BY <2>5, LeastOfNat
  <2>2. j \in 0 .. m /\ ~Good(j)
    BY <2>1
  <2>0. j # 0 => /\ j - 1 \in Nat /\ j - 1 \in 0 .. m /\ Good(j - 1) /\ n + (j - 1) \in Nat
                 /\ n + j = (n + (j - 1)) + 1 /\ j = (j - 1) + 1 /\ n + j \in 1 .. n + j /\ j \in 1 .. m
    BY <2>1
  <2> HIDE DEF T
  <2>3. CASE j = 0
    <3>1. head(n + 0) = s
      OBVIOUS
    <3>2. part(0) = [i \in 1 .. 0 |-> <<>>]
      OBVIOUS
    <3>3. FlattenSeq(part(0)) = <<>>
      BY <3>2, FlattenEmpty
    <3>4. FlattenSeq(s) \in Seq(X)
      BY FlattenIn
    <3> HIDE DEF head, part
    <3>5. Good(0)
      BY <3>1, <3>3, <3>4, Concat DEF Good
    <3> QED BY <2>2, <2>3, <3>5
  <2>4. CASE j # 0
    <3>1. /\ j - 1 \in Nat /\ j - 1 \in 0 .. m /\ Good(j - 1) /\ n + (j - 1) \in Nat
          /\ n + j = (n + (j - 1)) + 1 /\ j = (j - 1) + 1 /\ n + j \in 1 .. n + j /\ j \in 1 .. m
      BY <2>0, <2>4
    <3>2. /\ [i \in 1 .. n + (j - 1) |-> head(n + j)[i]] = head(n + (j - 1))
          /\ [i \in 1 .. j - 1 |-> part(j)[i]] = part(j - 1)
      BY <2>2
    <3>3. head(n + j)[n + j] = t[j] /\ part(j)[j] = t[j] /\ t[j] \in Seq(X)
      BY <3>1
    <3>4. FlattenSeq(head(n + (j - 1))) = FlattenSeq(s) \o FlattenSeq(part(j - 1))
      BY <3>1 DEF Good
    <3>5. /\ head(n + j) \in [1 .. (n + (j - 1)) + 1 -> Seq(X)]
          /\ part(j) \in [1 .. (j - 1) + 1 -> Seq(X)]
          /\ part(j - 1) \in [1 .. j - 1 -> Seq(X)]
      BY <1>0, <2>2, <3>1
    <3> HIDE DEF head, part
    <3>6. FlattenSeq(head(n + j)) = FlattenSeq(head(n + (j - 1))) \o t[j]
      <4>1. FlattenSeq(head(n + j)) = FlattenSeq([i \in 1 .. n + (j - 1) |-> head(n + j)[i]])
                                        \o head(n + j)[(n + (j - 1)) + 1]
        BY <3>1, <3>5, FlattenLast
      <4> QED BY <3>1, <3>2, <3>3, <4>1
    <3>7. FlattenSeq(part(j)) = FlattenSeq(part(j - 1)) \o t[j]
      <4>1. FlattenSeq(part(j)) = FlattenSeq([i \in 1 .. j - 1 |-> part(j)[i]]) \o part(j)[(j - 1) + 1]
        BY <3>1, <3>5, FlattenLast
      <4> QED BY <3>1, <3>2, <3>3, <4>1
    <3>8. FlattenSeq(s) \in Seq(X) /\ FlattenSeq(part(j - 1)) \in Seq(X)
      BY <3>1, <3>5, FlattenIn
    <3>9. (FlattenSeq(s) \o FlattenSeq(part(j - 1))) \o t[j] = FlattenSeq(s) \o (FlattenSeq(part(j - 1)) \o t[j])
      <4> DEFINE F == FlattenSeq(s)
                 P == FlattenSeq(part(j - 1))
                 u == t[j]
      <4>1. F \in Seq(X) /\ P \in Seq(X) /\ u \in Seq(X)
        BY <3>3, <3>8
      <4> HIDE DEF F, P, u
      <4>2. (F \o P) \o u = F \o (P \o u)
        BY <4>1, Concat
      <4> QED BY <4>2 DEF F, P, u
    <3>10. Good(j)
      BY <3>4, <3>6, <3>7, <3>9 DEF Good
    <3> QED BY <2>2, <3>10
  <2> QED BY <2>3, <2>4
<1>2. m \in 0 .. m
  OBVIOUS
<1>3. head(n + m) = all /\ part(m) = t
  OBVIOUS
<1> HIDE DEF head, part
<1> QED BY <1>1, <1>2, <1>3

(* The first part that is not empty comes first.                            *)
Leads(X, n, seqs, m, others) ==   \* nothing comes before part m
  /\ n \in Nat /\ seqs \in [1 .. n -> Seq(X)] /\ m \in 1 .. n /\ \A i \in 1 .. m - 1 : seqs[i] = <<>>
  /\ others = [seqs EXCEPT ![m] = <<>>]

LEMMA FlattenFirst ==
  ASSUME NEW X, NEW n, NEW seqs, NEW m, NEW others, Leads(X, n, seqs, m, others)
  PROVE  FlattenSeq(seqs) = seqs[m] \o FlattenSeq(others)
<1> DEFINE s == [i \in 1 .. m |-> seqs[i]]
           o == [i \in 1 .. m |-> others[i]]
           r == n - m
           t == [i \in 1 .. r |-> seqs[m + i]]
<1> USE DEF Leads
<1>1. r \in Nat /\ m \in Nat /\ m - 1 \in Nat /\ n = m + r /\ m = (m - 1) + 1
  OBVIOUS
<1>2. <<>> \in Seq(X) /\ others \in [1 .. n -> Seq(X)]
  OBVIOUS
<1>3. s \in [1 .. m -> Seq(X)] /\ o \in [1 .. m -> Seq(X)] /\ t \in [1 .. r -> Seq(X)]
  BY <1>2
<1>4. /\ \A i \in 1 .. m : seqs[i] = s[i] /\ others[i] = o[i]
      /\ \A i \in 1 .. r : seqs[m + i] = t[i] /\ others[m + i] = t[i]
  OBVIOUS
<1>5. o = [i \in 1 .. m |-> <<>>] /\ [i \in 1 .. m - 1 |-> s[i]] = [i \in 1 .. m - 1 |-> <<>>]
      /\ s[m] = seqs[m] /\ seqs[m] \in Seq(X)
  OBVIOUS
<1>6. FlattenSeq(o) = <<>>
  BY <1>1, <1>5, FlattenEmpty
<1>7. FlattenSeq([i \in 1 .. m - 1 |-> <<>>]) = <<>>
  BY <1>1, FlattenEmpty
<1> HIDE DEF s, o, t, r
<1>8. FlattenSeq(s) = seqs[m]
  <2>1. FlattenSeq(s) = FlattenSeq([i \in 1 .. m - 1 |-> s[i]]) \o s[m]
    BY <1>1, <1>3, FlattenLast
  <2> QED BY <1>5, <1>7, <2>1, Concat
<1>9. FlattenSeq(seqs) = FlattenSeq(s) \o FlattenSeq(t)
  <2>1. seqs \in [1 .. m + r -> Seq(X)]
    BY <1>1
  <2>2. (\A i \in 1 .. m : seqs[i] = s[i]) /\ (\A i \in 1 .. r : seqs[m + i] = t[i])
    BY <1>4
  <2>3. m \in Nat /\ r \in Nat /\ s \in [1 .. m -> Seq(X)] /\ t \in [1 .. r -> Seq(X)]
    BY <1>1, <1>3
  <2>4. InARow(X, m, r, s, t, seqs)
    BY ONLY <2>1, <2>2, <2>3 DEF InARow
  <2> QED BY <2>4, FlattenConcat
<1>10. FlattenSeq(others) = FlattenSeq(o) \o FlattenSeq(t)
  <2>1. others \in [1 .. m + r -> Seq(X)]
    BY <1>1, <1>2
  <2>2. (\A i \in 1 .. m : others[i] = o[i]) /\ (\A i \in 1 .. r : others[m + i] = t[i])
    BY <1>4
  <2>3. m \in Nat /\ r \in Nat /\ o \in [1 .. m -> Seq(X)] /\ t \in [1 .. r -> Seq(X)]
    BY <1>1, <1>3
  <2>4. InARow(X, m, r, o, t, others)
    BY ONLY <2>1, <2>2, <2>3 DEF InARow
  <2> QED BY ONLY <2>4, FlattenConcat
<1>11. FlattenSeq(t) \in Seq(X)
  BY <1>1, <1>3, FlattenIn
<1>12. FlattenSeq(others) = FlattenSeq(t)
  BY <1>6, <1>10, <1>11, Concat
<1> QED BY <1>8, <1>9, <1>12

(* Nothing is there twice.                                                  *)
NoRepeat(s) == \A i, j \in DOMAIN s : s[i] = s[j] => i = j

LEMMA NoRepeatConcat ==
  ASSUME NEW V, NEW W, V \cap W = {}, NEW s \in Seq(V), NEW t \in Seq(W), NoRepeat(s), NoRepeat(t)
  PROVE  s \o t \in Seq(V \cup W) /\ NoRepeat(s \o t)
<1>1. s \in Seq(V \cup W) /\ t \in Seq(V \cup W)
  OBVIOUS
<1>2. s \o t \in Seq(V \cup W) /\ Len(s \o t) = Len(s) + Len(t)
  BY <1>1
<1>3. DOMAIN (s \o t) = 1 .. Len(s) + Len(t) /\ Len(s) \in Nat /\ Len(t) \in Nat
      /\ DOMAIN s = 1 .. Len(s) /\ DOMAIN t = 1 .. Len(t)
  BY <1>2
<1>4. /\ \A i \in 1 .. Len(s) : (s \o t)[i] = s[i] /\ s[i] \in V
      /\ \A i \in 1 .. Len(t) : (s \o t)[Len(s) + i] = t[i] /\ t[i] \in W
  BY <1>1, Joined
<1>5. \A i \in 1 .. Len(s) + Len(t) : i \in 1 .. Len(s) \/ (i - Len(s) \in 1 .. Len(t) /\ i = Len(s) + (i - Len(s)))
  BY <1>3
<1> DEFINE u == s \o t
<1>6. ASSUME NEW i \in DOMAIN u, NEW j \in DOMAIN u, u[i] = u[j] PROVE i = j
  <2>1. CASE i \in 1 .. Len(s) /\ j \in 1 .. Len(s)
    <3>1. s[i] = s[j] /\ i \in DOMAIN s /\ j \in DOMAIN s
      BY <1>3, <1>4, <1>6, <2>1
    <3> QED BY <3>1 DEF NoRepeat
  <2>2. CASE i \notin 1 .. Len(s) /\ j \notin 1 .. Len(s)
    <3> DEFINE k == i - Len(s)
               l == j - Len(s)
    <3>1. k \in 1 .. Len(t) /\ l \in 1 .. Len(t) /\ i = Len(s) + k /\ j = Len(s) + l
      BY <1>3, <1>5, <2>2
    <3> HIDE DEF k, l
    <3>2. t[k] = t[l]
      BY <1>4, <1>6, <3>1
    <3>3. k = l
      BY <1>3, <3>1, <3>2 DEF NoRepeat
    <3> QED BY <3>1, <3>3
  <2>3. CASE i \in 1 .. Len(s) /\ j \notin 1 .. Len(s)
    <3>1. u[i] \in V /\ u[j] \in W
      BY <1>3, <1>4, <1>5, <2>3
    <3> QED BY <1>6, <3>1
  <2>4. CASE i \notin 1 .. Len(s) /\ j \in 1 .. Len(s)
    <3>1. u[i] \in W /\ u[j] \in V
      BY <1>3, <1>4, <1>5, <2>4
    <3> QED BY <1>6, <3>1
  <2> QED BY <2>1, <2>2, <2>3, <2>4
<1> HIDE DEF u
<1>7. NoRepeat(u)
  BY <1>6 DEF NoRepeat
<1> QED BY <1>2, <1>7 DEF u

LEMMA FlattenNoRepeat ==
  ASSUME NEW X, NEW n \in Nat, NEW seqs \in [1 .. n -> Seq(X)], NEW W,
         \A i \in 1 .. n : W[i] \subseteq X /\ seqs[i] \in Seq(W[i]) /\ NoRepeat(seqs[i]),
         \A i, j \in 1 .. n : i # j => W[i] \cap W[j] = {}
  PROVE  FlattenSeq(seqs) \in Seq(UNION {W[i] : i \in 1 .. n}) /\ NoRepeat(FlattenSeq(seqs))
<1> DEFINE head(j) == [i \in 1 .. j |-> seqs[i]]
           U(j) == UNION {W[i] : i \in 1 .. j}
           Good(j) == FlattenSeq(head(j)) \in Seq(U(j)) /\ NoRepeat(FlattenSeq(head(j)))
           T == {j \in 0 .. n : ~Good(j)}
<1>0. \A j \in 0 .. n : head(j) \in [1 .. j -> Seq(X)]
  OBVIOUS
<1>1. \A j \in 0 .. n : Good(j)
  <2> HIDE DEF Good
  <2> SUFFICES ASSUME T # {} PROVE FALSE
    OBVIOUS
  <2>5. T \subseteq Nat
    OBVIOUS
  <2>1. PICK j \in T : \A y \in T : j <= y
    <3> HIDE DEF T
    <3> QED BY <2>5, LeastOfNat
  <2>2. j \in 0 .. n /\ ~Good(j)
    BY <2>1
  <2>0. j # 0 => j - 1 \in Nat /\ j - 1 \in 0 .. n /\ Good(j - 1) /\ j = (j - 1) + 1 /\ j \in 1 .. n
    BY <2>1
  <2> HIDE DEF T
  <2>3. CASE j = 0
    <3>1. head(0) = [i \in 1 .. 0 |-> <<>>]
      OBVIOUS
    <3>2. FlattenSeq(head(0)) = <<>>
      BY <3>1, FlattenEmpty
    <3>3. <<>> \in Seq(U(0)) /\ NoRepeat(<<>>)
      BY DEF NoRepeat
    <3> QED BY <2>2, <2>3, <3>2, <3>3 DEF Good
  <2>4. CASE j # 0
    <3>1. j - 1 \in Nat /\ j - 1 \in 0 .. n /\ Good(j - 1) /\ j = (j - 1) + 1 /\ j \in 1 .. n
      BY <2>0, <2>4
    <3>2. [i \in 1 .. j - 1 |-> head(j)[i]] = head(j - 1) /\ head(j)[j] = seqs[j]
      BY <2>2, <3>1
    <3>3. FlattenSeq(head(j - 1)) \in Seq(U(j - 1)) /\ NoRepeat(FlattenSeq(head(j - 1)))
      BY <3>1 DEF Good
    <3>4. head(j) \in [1 .. (j - 1) + 1 -> Seq(X)]
      BY <1>0, <2>2, <3>1
    <3>5. U(j) = U(j - 1) \cup W[j] /\ U(j - 1) \cap W[j] = {}
      <4>1. 1 .. j = (1 .. j - 1) \cup {j} /\ j \notin 1 .. j - 1 /\ 1 .. j - 1 \subseteq 1 .. n
        BY <3>1
      <4> QED BY <3>1, <4>1
    <3> HIDE DEF head, U
    <3>6. FlattenSeq(head(j)) = FlattenSeq(head(j - 1)) \o seqs[j]
      <4>1. FlattenSeq(head(j)) = FlattenSeq([i \in 1 .. j - 1 |-> head(j)[i]]) \o head(j)[(j - 1) + 1]
        BY <3>1, <3>4, FlattenLast
      <4> QED BY <3>1, <3>2, <4>1
    <3>7. seqs[j] \in Seq(W[j]) /\ NoRepeat(seqs[j])
      BY <3>1
    <3>8. /\ FlattenSeq(head(j - 1)) \o seqs[j] \in Seq(U(j - 1) \cup W[j])
          /\ NoRepeat(FlattenSeq(head(j - 1)) \o seqs[j])
      BY <3>3, <3>5, <3>7, NoRepeatConcat
    <3>9. Good(j)
      BY <3>5, <3>6, <3>8 DEF Good
    <3> QED BY <2>2, <3>9
  <2> QED BY <2>3, <2>4
<1>2. n \in 0 .. n
  OBVIOUS
<1>3. head(n) = seqs
  OBVIOUS
<1> HIDE DEF head
<1>4. Good(n)
  <2> HIDE DEF Good
  <2> QED BY <1>1, <1>2
<1> QED BY <1>3, <1>4

-----------------------------------------------------------------------------
(* Walking through a block.  VisitedOf is about any sequence of nodes, as    *)
(* what is left of a block is.                                              *)

Passed(v, a, own, s, k) ==
  own[s[k]] \o (IF IsBranch(s[k]) /\ Taken(a, s, k) THEN v[s[k].children] ELSE <<>>)

PartsOf(v, a, own, s) == [k \in DOMAIN s |-> Passed(v, a, own, s, k)]

VisitedOf(a, own, s) == FlattenSeq(PartsOf(Visited(a, own), a, own, s))

Walks(X, v, own, s) ==
  /\ own \in [Nodes -> Seq(X)] /\ s \in Seq(Nodes)
  /\ \A k \in DOMAIN s : IsBranch(s[k]) => v[s[k].children] \in Seq(X)

LEMMA PassedIn ==
  ASSUME NEW X, NEW a, NEW own, NEW s, NEW v, Walks(X, v, own, s)
  PROVE  /\ \A k \in DOMAIN s : Passed(v, a, own, s, k) \in Seq(X)
         /\ PartsOf(v, a, own, s) \in [1 .. Len(s) -> Seq(X)]
         /\ FlattenSeq(PartsOf(v, a, own, s)) \in Seq(X)
<1> USE DEF Walks
<1>1. ASSUME NEW k \in DOMAIN s PROVE Passed(v, a, own, s, k) \in Seq(X)
  <2>1. own[s[k]] \in Seq(X)
    OBVIOUS
  <2>2. (IF IsBranch(s[k]) /\ Taken(a, s, k) THEN v[s[k].children] ELSE <<>>) \in Seq(X)
    <3>1. <<>> \in Seq(X)
      OBVIOUS
    <3> QED BY <3>1
  <2> DEFINE r == IF IsBranch(s[k]) /\ Taken(a, s, k) THEN v[s[k].children] ELSE <<>>
  <2> HIDE DEF r
  <2>3. own[s[k]] \o r \in Seq(X)
    BY <2>1, <2>2, Concat DEF r
  <2> QED BY <2>3 DEF Passed, r
<1>2. DOMAIN s = 1 .. Len(s) /\ Len(s) \in Nat
  OBVIOUS
<1>3. PartsOf(v, a, own, s) \in [1 .. Len(s) -> Seq(X)]
  BY <1>1, <1>2 DEF PartsOf
<1> QED BY <1>1, <1>2, <1>3, FlattenIn

LEMMA VisitedIs ==
  ASSUME NEW X, NEW a, NEW own \in [Nodes -> Seq(X)]
  PROVE  \A b \in Blocks : Visited(a, own)[b] = VisitedOf(a, own, b) /\ Visited(a, own)[b] \in Seq(X)
<1> DEFINE R == Seq(X)
           Step(f, b) == FlattenSeq(PartsOf(f, a, own, b))
           D == [f \in [Blocks -> R] |-> [b \in Blocks |-> Step(f, b)]]
           v == Visited(a, own)
<1>1. ASSUME NEW f, NEW b \in Blocks,
             \A c \in Blocks : Depth[c] < Depth[b] => f[c] \in R
      PROVE  Step(f, b) \in R
  <2>1. b \in Seq(Nodes)
    BY BlockShape
  <2>2. \A k \in DOMAIN b : IsBranch(b[k]) => f[b[k].children] \in Seq(X)
    BY <1>1, BlockShape
  <2>3. Walks(X, f, own, b)
    BY <2>1, <2>2 DEF Walks
  <2> QED BY <2>3, PassedIn
<1>2. ASSUME NEW f, NEW g, NEW b \in Blocks, \A c \in Blocks : Depth[c] < Depth[b] => f[c] = g[c]
      PROVE  Step(f, b) = Step(g, b)
  <2>1. \A k \in DOMAIN b : IsBranch(b[k]) => f[b[k].children] = g[b[k].children]
    BY <1>2, BlockShape
  <2>2. \A k \in DOMAIN b : Passed(f, a, own, b, k) = Passed(g, a, own, b, k)
    BY <2>1 DEF Passed
  <2>3. PartsOf(f, a, own, b) = PartsOf(g, a, own, b)
    BY <2>2 DEF PartsOf
  <2> QED BY <2>3
<1> HIDE DEF Step
<1>3. Looks(D, R)
  <2>1. ASSUME NEW f \in [Blocks -> R], NEW b \in Blocks PROVE Step(f, b) \in R
    BY <1>1
  <2>2. D \in [[Blocks -> R] -> [Blocks -> R]]
    <3> HIDE DEF R
    <3> QED BY <2>1
  <2>3. ASSUME NEW f \in [Blocks -> R], NEW g \in [Blocks -> R], NEW b \in Blocks,
               \A c \in Blocks : Depth[c] < Depth[b] => f[c] = g[c]
        PROVE  D[f][b] = D[g][b]
    <3>1. Step(f, b) = Step(g, b)
      BY <1>2, <2>3
    <3> HIDE DEF R
    <3> QED BY <3>1
  <2> HIDE DEF D, R
  <2> QED BY <2>2, <2>3 DEF Looks
<1>4. PICK f \in [Blocks -> R] : D[f] = f
  <2>1. <<>> \in R
    OBVIOUS
  <2> HIDE DEF D, R
  <2> QED BY <1>3, <2>1, FixedPoint
<1>5. f = [b \in Blocks |-> Step(f, b)]
  <2> HIDE DEF R
  <2> QED BY <1>4
<1>6. v = [b \in Blocks |-> Step(v, b)]
  BY <1>5 DEF Visited, Step, PartsOf, Passed
<1>7. DOMAIN v = Blocks /\ \A b \in Blocks : v[b] = Step(v, b)
  <2> HIDE DEF v
  <2> QED BY <1>6
<1>8. \A b \in Blocks : v[b] \in R
  <2>1. ASSUME NEW b \in Blocks, \A c \in Blocks : Depth[c] < Depth[b] => v[c] \in R
        PROVE  v[b] \in R
    BY <1>1, <1>7, <2>1
  <2> HIDE DEF v, R
  <2> QED BY <1>7, <2>1, FixedTyped
<1> QED BY <1>7, <1>8 DEF VisitedOf, Step

Owns(X, own) == own \in [Nodes -> Seq(X)]

LEMMA VisitedIn ==
  ASSUME NEW X, NEW a, NEW own \in [Nodes -> Seq(X)], NEW s \in Seq(Nodes)
  PROVE  /\ Walks(X, Visited(a, own), own, s)
         /\ PartsOf(Visited(a, own), a, own, s) \in [1 .. Len(s) -> Seq(X)]
         /\ VisitedOf(a, own, s) \in Seq(X)
<1>1. \A b \in Blocks : Visited(a, own)[b] \in Seq(X)
  BY VisitedIs
<1>2. \A k \in DOMAIN s : IsBranch(s[k]) => s[k].children \in Blocks
  BY BlockShape
<1>3. Walks(X, Visited(a, own), own, s)
  BY <1>1, <1>2 DEF Walks
<1> QED BY <1>3, PassedIn DEF VisitedOf

LEMMA FlattenFew ==
  /\ \A X : \A seqs \in [1 .. 1 -> Seq(X)] : FlattenSeq(seqs) = seqs[1]
  /\ \A X : \A seqs \in [1 .. 2 -> Seq(X)] : FlattenSeq(seqs) = seqs[1] \o seqs[2]
<1>1. ASSUME NEW X, NEW seqs \in [1 .. 1 -> Seq(X)] PROVE FlattenSeq(seqs) = seqs[1]
  <2>1. seqs \in [1 .. 0 + 1 -> Seq(X)] /\ seqs[1] \in Seq(X)
    OBVIOUS
  <2>2. FlattenSeq(seqs) = FlattenSeq([i \in 1 .. 0 |-> seqs[i]]) \o seqs[0 + 1]
    BY <2>1, FlattenLast
  <2>3. [i \in 1 .. 0 |-> seqs[i]] = [i \in 1 .. 0 |-> <<>>]
    OBVIOUS
  <2>4. FlattenSeq([i \in 1 .. 0 |-> seqs[i]]) = <<>>
    BY <2>3, FlattenEmpty
  <2> QED BY <2>1, <2>2, <2>4, Concat
<1>2. ASSUME NEW X, NEW seqs \in [1 .. 2 -> Seq(X)] PROVE FlattenSeq(seqs) = seqs[1] \o seqs[2]
  <2>1. seqs \in [1 .. 1 + 1 -> Seq(X)]
    OBVIOUS
  <2>2. FlattenSeq(seqs) = FlattenSeq([i \in 1 .. 1 |-> seqs[i]]) \o seqs[1 + 1]
    BY <2>1, FlattenLast
  <2> DEFINE one == [i \in 1 .. 1 |-> seqs[i]]
  <2>3. one \in [1 .. 1 -> Seq(X)] /\ one[1] = seqs[1] /\ 1 + 1 = 2
    OBVIOUS
  <2>4. FlattenSeq(seqs) = FlattenSeq(one) \o seqs[2]
    BY <2>2, <2>3
  <2> HIDE DEF one
  <2>5. FlattenSeq(one) = seqs[1]
    BY <1>1, <2>3
  <2> QED BY <2>4, <2>5
<1> QED BY <1>1, <1>2

(* What a block that was accepted looks like, and what is left of it.        *)
Sound(s) ==
  /\ s \in Seq(Nodes)
  /\ \A k \in DOMAIN s :
       /\ s[k].node \in {"setup", "bind", "if", "else"}
       /\ s[k].node = "else" => k # 1 /\ s[k - 1].node = "if"
       /\ IsBranch(s[k]) => ~Misplaced[s[k].children]

LEMMA SoundBlock == \A b \in Blocks : ~Misplaced[b] => Sound(b)
<1> DEFINE Step(f, b) ==
             \E k \in DOMAIN b :
               \/ b[k].node \notin {"setup", "bind", "if", "else"}
               \/ b[k].node = "else" /\ (k = 1 \/ b[k - 1].node # "if")
               \/ IsBranch(b[k]) /\ f[b[k].children]
           D == [f \in [Blocks -> BOOLEAN] |-> [b \in Blocks |-> Step(f, b)]]
<1>1. ASSUME NEW f, NEW g, NEW b \in Blocks, \A c \in Blocks : Depth[c] < Depth[b] => f[c] = g[c]
      PROVE  Step(f, b) = Step(g, b)
  <2>1. \A k \in DOMAIN b : IsBranch(b[k]) => f[b[k].children] = g[b[k].children]
    BY <1>1, BlockShape
  <2> QED BY <2>1, Zenon
<1>2. \A f, b : Step(f, b) \in BOOLEAN
  BY Zenon
<1>3. Misplaced = CHOOSE f : f = [b \in Blocks |-> Step(f, b)]
  BY Zenon DEF Misplaced
<1> HIDE DEF Step
<1>4. Looks(D, BOOLEAN)
  <2>1. D \in [[Blocks -> BOOLEAN] -> [Blocks -> BOOLEAN]]
    BY <1>2
  <2>2. ASSUME NEW f \in [Blocks -> BOOLEAN], NEW g \in [Blocks -> BOOLEAN], NEW b \in Blocks,
               \A c \in Blocks : Depth[c] < Depth[b] => f[c] = g[c]
        PROVE  D[f][b] = D[g][b]
    <3>1. Step(f, b) = Step(g, b)
      BY <1>1, <2>2
    <3>2. D[f][b] = Step(f, b) /\ D[g][b] = Step(g, b)
      BY Zenon
    <3> QED BY <3>1, <3>2, Zenon
  <2> HIDE DEF D
  <2> QED BY <2>1, <2>2 DEF Looks
<1>5. PICK f \in [Blocks -> BOOLEAN] : D[f] = f
  <2>1. TRUE \in BOOLEAN
    OBVIOUS
  <2> HIDE DEF D
  <2> QED BY <1>4, <2>1, FixedPoint
<1>6. f = [b \in Blocks |-> Step(f, b)]
  BY <1>5, Zenon
<1>7. Misplaced = [b \in Blocks |-> Step(Misplaced, b)]
  BY <1>3, <1>6, Zenon
<1>8. \A b \in Blocks : Misplaced[b] = Step(Misplaced, b)
  BY <1>7, Zenon
<1> QED BY <1>8, BlockShape DEF Step, Sound

LEMMA SoundConcat ==
  ASSUME NEW x, NEW y, Sound(x), Sound(y)
  PROVE  Sound(x \o y) /\ x \o y \in Seq(Nodes)
<1>0. x \in Seq(Nodes) /\ y \in Seq(Nodes)
  BY DEF Sound
<1> USE <1>0
<1> DEFINE s == x \o y
<1>1. /\ s \in Seq(Nodes) /\ DOMAIN s = 1 .. Len(x) + Len(y)
      /\ \A k \in 1 .. Len(x) : s[k] = x[k]
      /\ \A k \in 1 .. Len(y) : s[Len(x) + k] = y[k]
  BY Joined
<1>2. DOMAIN x = 1 .. Len(x) /\ Len(x) \in Nat /\ DOMAIN y = 1 .. Len(y) /\ Len(y) \in Nat
  OBVIOUS
<1> HIDE DEF s
<1>3. ASSUME NEW k \in DOMAIN s
      PROVE /\ s[k].node \in {"setup", "bind", "if", "else"}
            /\ s[k].node = "else" => k # 1 /\ s[k - 1].node = "if"
            /\ IsBranch(s[k]) => ~Misplaced[s[k].children]
  <2>1. CASE k \in 1 .. Len(x)
    <3>1. s[k] = x[k] /\ k \in DOMAIN x /\ (k # 1 => s[k - 1] = x[k - 1])
      BY <1>1, <1>2, <2>1
    <3> QED BY <3>1 DEF Sound
  <2>2. CASE k \notin 1 .. Len(x)
    <3> DEFINE j == k - Len(x)
    <3>1. j \in 1 .. Len(y) /\ k = Len(x) + j /\ j \in Nat /\ j > 0
      BY <1>1, <1>2, <2>2
    <3>2. j # 1 => j - 1 \in 1 .. Len(y) /\ k - 1 = Len(x) + (j - 1) /\ k # 1
      BY <1>2, <3>1
    <3> HIDE DEF j
    <3>3. s[k] = y[j] /\ (j # 1 => k # 1 /\ s[k - 1] = y[j - 1]) /\ j \in DOMAIN y
      BY <1>1, <1>2, <3>1, <3>2, Zenon
    <3> QED BY <3>1, <3>3 DEF Sound
  <2> QED BY <2>1, <2>2
<1> QED BY <1>1, <1>3 DEF s, Sound

Meet(X, own, x, y) == Owns(X, own) /\ Sound(x) /\ Sound(y)

LEMMA VisitedConcat ==
  ASSUME NEW X, NEW a, NEW own, NEW x, NEW y, Meet(X, own, x, y)
  PROVE  VisitedOf(a, own, x \o y) = VisitedOf(a, own, x) \o VisitedOf(a, own, y)
<1>0. own \in [Nodes -> Seq(X)] /\ x \in Seq(Nodes) /\ y \in Seq(Nodes) /\ Sound(x) /\ Sound(y)
  BY DEF Owns, Sound, Meet
<1> USE <1>0
<1> DEFINE s == x \o y
           v == Visited(a, own)
<1>1. /\ s \in Seq(Nodes) /\ DOMAIN s = 1 .. Len(x) + Len(y) /\ Len(s) = Len(x) + Len(y)
      /\ \A k \in 1 .. Len(x) : s[k] = x[k]
      /\ \A k \in 1 .. Len(y) : s[Len(x) + k] = y[k]
  BY Joined
<1>2. DOMAIN x = 1 .. Len(x) /\ Len(x) \in Nat /\ DOMAIN y = 1 .. Len(y) /\ Len(y) \in Nat
  OBVIOUS
<1>3. /\ PartsOf(v, a, own, x) \in [1 .. Len(x) -> Seq(X)]
      /\ PartsOf(v, a, own, y) \in [1 .. Len(y) -> Seq(X)]
      /\ PartsOf(v, a, own, s) \in [1 .. Len(x) + Len(y) -> Seq(X)]
  <2> HIDE DEF s
  <2> QED BY <1>1, VisitedIn
<1> HIDE DEF s, v
<1>4. \A k \in 1 .. Len(x) : PartsOf(v, a, own, s)[k] = PartsOf(v, a, own, x)[k]
  <2> SUFFICES ASSUME NEW k \in 1 .. Len(x)
               PROVE  PartsOf(v, a, own, s)[k] = PartsOf(v, a, own, x)[k]
    OBVIOUS
  <2>1. s[k] = x[k] /\ k \in DOMAIN s /\ k \in DOMAIN x
    <3>1. k \in 1 .. Len(x) + Len(y)
      BY <1>2
    <3> QED BY <1>1, <1>2, <3>1, Zenon
  <2>2. k # 1 => s[k - 1] = x[k - 1]
    <3>1. k # 1 => k - 1 \in 1 .. Len(x)
      BY <1>2
    <3> QED BY <1>1, <3>1, Zenon
  <2>3. x[k].node = "else" => k # 1
    BY <2>1 DEF Sound
  <2>4. IsBranch(s[k]) => (Taken(a, s, k) <=> Taken(a, x, k))
    BY <2>1, <2>2, <2>3 DEF Taken, IsBranch
  <2>5. Passed(v, a, own, s, k) = Passed(v, a, own, x, k)
    BY <2>1, <2>4 DEF Passed
  <2> QED BY <2>1, <2>5 DEF PartsOf
<1>5. \A k \in 1 .. Len(y) : PartsOf(v, a, own, s)[Len(x) + k] = PartsOf(v, a, own, y)[k]
  <2> SUFFICES ASSUME NEW k \in 1 .. Len(y)
               PROVE  PartsOf(v, a, own, s)[Len(x) + k] = PartsOf(v, a, own, y)[k]
    OBVIOUS
  <2> DEFINE j == Len(x) + k
  <2>1. s[j] = y[k] /\ j \in DOMAIN s /\ k \in DOMAIN y
    <3>1. j \in 1 .. Len(x) + Len(y)
      BY <1>2
    <3> QED BY <1>1, <1>2, <3>1, Zenon
  <2>2. k # 1 => s[j - 1] = y[k - 1]
    <3>1. k # 1 => k - 1 \in 1 .. Len(y) /\ j - 1 = Len(x) + (k - 1)
      BY <1>2
    <3> QED BY <1>1, <3>1, Zenon
  <2> HIDE DEF j
  <2>3. y[k].node = "else" => k # 1
    BY <2>1 DEF Sound
  <2>4. IsBranch(s[j]) => (Taken(a, s, j) <=> Taken(a, y, k))
    BY <2>1, <2>2, <2>3 DEF Taken, IsBranch
  <2>5. Passed(v, a, own, s, j) = Passed(v, a, own, y, k)
    BY <2>1, <2>4 DEF Passed
  <2> QED BY <2>1, <2>5 DEF PartsOf, j
<1>6. InARow(X, Len(x), Len(y), PartsOf(v, a, own, x), PartsOf(v, a, own, y), PartsOf(v, a, own, s))
  BY <1>2, <1>3, <1>4, <1>5 DEF InARow
<1> QED BY <1>6, FlattenConcat DEF VisitedOf, s, v

(* A node that is no branch is passed, and the block goes on after it; at an *)
(* if it goes on with one of the branches.                                  *)
LEMMA OneNode ==
  ASSUME NEW X, NEW a, NEW own, Owns(X, own), NEW n \in Nodes,
         Sound(<<n>>)
  PROVE  VisitedOf(a, own, <<n>>) =
           own[n] \o (IF n.node = "if" /\ Holds(a, n.cond) THEN VisitedOf(a, own, n.children) ELSE <<>>)
<1>0. own \in [Nodes -> Seq(X)]
  BY DEF Owns
<1> USE <1>0
<1> DEFINE s == <<n>>
           v == Visited(a, own)
<1>1. s \in Seq(Nodes) /\ Len(s) = 1 /\ DOMAIN s = {1} /\ s[1] = n
  OBVIOUS
<1>2. n.node # "else"
  BY <1>1 DEF Sound
<1> HIDE DEF s
<1>3. PartsOf(v, a, own, s) \in [1 .. 1 -> Seq(X)]
  BY <1>1, VisitedIn
<1>4. IsBranch(n) => v[n.children] = VisitedOf(a, own, n.children)
  BY BlockShape, VisitedIs
<1> HIDE DEF v
<1>5. VisitedOf(a, own, s) = PartsOf(v, a, own, s)[1]
  BY <1>3, FlattenFew DEF VisitedOf, v
<1>6. PartsOf(v, a, own, s)[1] = Passed(v, a, own, s, 1)
  BY <1>1 DEF PartsOf
<1>7. Passed(v, a, own, s, 1) = own[n] \o (IF IsBranch(n) /\ Holds(a, n.cond) THEN v[n.children] ELSE <<>>)
  <2>1. IsBranch(n) => (Taken(a, s, 1) <=> Holds(a, n.cond))
    BY <1>1, <1>2 DEF Taken, IsBranch
  <2> QED BY <1>1, <2>1 DEF Passed
<1>8. IsBranch(n) <=> n.node = "if"
  BY <1>2 DEF IsBranch
<1> QED BY <1>4, <1>5, <1>6, <1>7, <1>8 DEF s

LEMMA TwoNodes ==
  ASSUME NEW X, NEW a, NEW own, Owns(X, own), NEW n \in Nodes, NEW e \in Nodes,
         n.node = "if", e.node = "else", own[e] = <<>>
  PROVE  VisitedOf(a, own, <<n, e>>) = own[n] \o VisitedOf(a, own, IF Holds(a, n.cond) THEN n.children ELSE e.children)
<1>0. own \in [Nodes -> Seq(X)]
  BY DEF Owns
<1> USE <1>0
<1> DEFINE s == <<n, e>>
           v == Visited(a, own)
<1>1. s \in Seq(Nodes) /\ Len(s) = 2 /\ DOMAIN s = {1, 2} /\ s[1] = n /\ s[2] = e
  OBVIOUS
<1> HIDE DEF s
<1>2. IsBranch(n) /\ IsBranch(e)
  BY DEF IsBranch
<1>3. PartsOf(v, a, own, s) \in [1 .. 2 -> Seq(X)]
  BY <1>1, VisitedIn
<1>4. /\ v[n.children] = VisitedOf(a, own, n.children) /\ v[n.children] \in Seq(X)
      /\ v[e.children] = VisitedOf(a, own, e.children) /\ v[e.children] \in Seq(X)
  <2>1. n.children \in Blocks /\ e.children \in Blocks
    BY <1>2, BlockShape
  <2>2. \A b \in Blocks : v[b] = VisitedOf(a, own, b) /\ v[b] \in Seq(X)
    BY VisitedIs
  <2> QED BY <2>1, <2>2, Zenon
<1> HIDE DEF v
<1>5. VisitedOf(a, own, s) = PartsOf(v, a, own, s)[1] \o PartsOf(v, a, own, s)[2]
  BY <1>3, FlattenFew DEF VisitedOf, v
<1>6. PartsOf(v, a, own, s)[1] = Passed(v, a, own, s, 1) /\ PartsOf(v, a, own, s)[2] = Passed(v, a, own, s, 2)
  BY <1>1 DEF PartsOf
<1>7. (Taken(a, s, 1) <=> Holds(a, n.cond)) /\ (Taken(a, s, 2) <=> ~Holds(a, n.cond))
  <2>1. Taken(a, s, 1) <=> Holds(a, n.cond)
    BY <1>1 DEF Taken
  <2>2. e.node # "if" /\ 2 - 1 = 1
    OBVIOUS
  <2>3. Taken(a, s, 2) <=> ~Holds(a, s[2 - 1].cond)
    BY <1>1, <2>2 DEF Taken
  <2> QED BY <1>1, <2>1, <2>2, <2>3
<1>8. CASE Holds(a, n.cond)
  <2>1. Passed(v, a, own, s, 1) = own[n] \o v[n.children] /\ Passed(v, a, own, s, 2) = <<>> \o <<>>
    BY <1>1, <1>2, <1>7, <1>8 DEF Passed
  <2>2. (own[n] \o v[n.children]) \o (<<>> \o <<>>) = own[n] \o v[n.children]
    <3>1. own[n] \in Seq(X) /\ <<>> \o <<>> = <<>>
      OBVIOUS
    <3>2. own[n] \o v[n.children] \in Seq(X)
      BY <1>4, <3>1, Concat
    <3> QED BY <3>1, <3>2, Concat
  <2> QED BY <1>4, <1>5, <1>6, <1>8, <2>1, <2>2 DEF s
<1>9. CASE ~Holds(a, n.cond)
  <2>1. Passed(v, a, own, s, 1) = own[n] \o <<>> /\ Passed(v, a, own, s, 2) = <<>> \o v[e.children]
    BY <1>1, <1>2, <1>7, <1>9 DEF Passed
  <2>2. own[n] \o <<>> = own[n] /\ <<>> \o v[e.children] = v[e.children]
    <3>1. own[n] \in Seq(X)
      OBVIOUS
    <3> QED BY <1>4, <3>1, Concat
  <2> QED BY <1>4, <1>5, <1>6, <1>9, <2>1, <2>2 DEF s
<1> QED BY <1>8, <1>9

LEMMA SoundTail ==
  ASSUME NEW s, s # <<>>, Sound(s), Len(s) > 1 => s[2].node # "else"
  PROVE  Sound(<<Head(s)>>) /\ Sound(Tail(s)) /\ Tail(s) \in Seq(Nodes) /\ s = <<Head(s)>> \o Tail(s)
         /\ Head(s) \in Nodes
<1>0. s \in Seq(Nodes)
  BY DEF Sound
<1> USE <1>0
<1>1. /\ Len(s) \in Nat /\ Len(s) > 0 /\ DOMAIN s = 1 .. Len(s) /\ Head(s) = s[1] /\ Head(s) \in Nodes
      /\ Tail(s) \in Seq(Nodes) /\ DOMAIN Tail(s) = 1 .. Len(s) - 1
      /\ \A j \in 1 .. Len(s) - 1 : Tail(s)[j] = s[j + 1] /\ j + 1 \in 1 .. Len(s)
  OBVIOUS
<1>2. Sound(<<Head(s)>>)
  <2>1. DOMAIN <<Head(s)>> = {1} /\ <<Head(s)>>[1] = s[1] /\ 1 \in DOMAIN s
    BY <1>1
  <2> QED BY <2>1 DEF Sound
<1>3. ASSUME NEW k \in DOMAIN Tail(s)
      PROVE /\ Tail(s)[k].node \in {"setup", "bind", "if", "else"}
            /\ Tail(s)[k].node = "else" => k # 1 /\ Tail(s)[k - 1].node = "if"
            /\ IsBranch(Tail(s)[k]) => ~Misplaced[Tail(s)[k].children]
  <2>1. Tail(s)[k] = s[k + 1] /\ k + 1 \in DOMAIN s /\ (k + 1) - 1 = k
    BY <1>1
  <2>2. k # 1 => Tail(s)[k - 1] = s[k]
    <3>1. k # 1 => k - 1 \in 1 .. Len(s) - 1 /\ (k - 1) + 1 = k
      BY <1>1
    <3> QED BY <1>1, <3>1, Zenon
  <2>3. k = 1 => Tail(s)[k].node # "else"
    BY <1>1, <2>1
  <2> QED BY <2>1, <2>2, <2>3 DEF Sound
<1>4. s = <<Head(s)>> \o Tail(s)
  OBVIOUS
<1> HIDE DEF Sound
<1>5. Sound(Tail(s))
  BY <1>3 DEF Sound
<1> QED BY <1>1, <1>2, <1>4, <1>5

Joint(x, s, y) == x = s \o y

LEMMA VisitedNode ==
  ASSUME NEW X, NEW a, NEW own, Owns(X, own),
         NEW s, s # <<>>, Sound(s), Head(s).node # "if"
  PROVE  /\ Joint(VisitedOf(a, own, s), own[Head(s)], VisitedOf(a, own, Tail(s)))
         /\ Sound(Tail(s)) /\ Head(s) \in Nodes /\ Head(s).node \in {"setup", "bind"}
<1>0. own \in [Nodes -> Seq(X)] /\ s \in Seq(Nodes)
  BY DEF Owns, Sound
<1> USE <1>0
<1>1. 1 \in DOMAIN s /\ Head(s) = s[1] /\ (Len(s) > 1 => 2 \in DOMAIN s /\ 2 - 1 = 1)
  OBVIOUS
<1>2. Len(s) > 1 => s[2].node # "else"
  BY <1>1 DEF Sound
<1>3. Sound(<<Head(s)>>) /\ Sound(Tail(s)) /\ Tail(s) \in Seq(Nodes) /\ s = <<Head(s)>> \o Tail(s)
      /\ Head(s) \in Nodes
  BY <1>2, SoundTail
<1>4. <<Head(s)>> \in Seq(Nodes)
  BY <1>3
<1>5. VisitedOf(a, own, <<Head(s)>> \o Tail(s)) = VisitedOf(a, own, <<Head(s)>>) \o VisitedOf(a, own, Tail(s))
  <2> DEFINE h == <<Head(s)>>
             t == Tail(s)
  <2>1. Meet(X, own, h, t)
    BY <1>3 DEF Meet
  <2> HIDE DEF h, t
  <2>2. VisitedOf(a, own, h \o t) = VisitedOf(a, own, h) \o VisitedOf(a, own, t)
    BY <2>1, VisitedConcat
  <2> QED BY <2>2 DEF h, t
<1>6. VisitedOf(a, own, <<Head(s)>>) = own[Head(s)] \o <<>>
  BY <1>3, OneNode
<1>7. own[Head(s)] \in Seq(X)
  BY <1>3
<1>8. own[Head(s)] \o <<>> = own[Head(s)]
  BY <1>7, Concat
<1>9. VisitedOf(a, own, s) = own[Head(s)] \o VisitedOf(a, own, Tail(s))
  BY <1>3, <1>5, <1>6, <1>8
<1>10. s[1].node \in {"setup", "bind", "if", "else"} /\ s[1].node # "else"
  BY <1>1 DEF Sound
<1> QED BY <1>1, <1>3, <1>9, <1>10 DEF Joint

LEMMA VisitedEmpty ==
  Sound(<<>>) /\ \A a, own : VisitedOf(a, own, <<>>) = <<>>
<1>1. Sound(<<>>)
  BY DEF Sound
<1>2. ASSUME NEW a, NEW own PROVE VisitedOf(a, own, <<>>) = <<>>
  <2> DEFINE parts == PartsOf(Visited(a, own), a, own, <<>>)
  <2>1. parts = [i \in 1 .. 0 |-> <<>>]
    BY DEF PartsOf
  <2> HIDE DEF parts
  <2>2. FlattenSeq(parts) = <<>>
    BY <2>1, FlattenEmpty
  <2> QED BY <2>2 DEF VisitedOf, parts
<1> QED BY <1>1, <1>2

LEMMA SoundPair ==
  ASSUME NEW s, Sound(s), Len(s) > 1, s[2].node = "else"
  PROVE  /\ Sound(<<s[1], s[2]>>) /\ Sound(Tail(Tail(s))) /\ s = <<s[1], s[2]>> \o Tail(Tail(s))
         /\ s[1] \in Nodes /\ s[2] \in Nodes /\ s[1].node = "if"
<1>0. s \in Seq(Nodes)
  BY DEF Sound
<1>1. /\ Len(s) \in Nat /\ DOMAIN s = 1 .. Len(s) /\ 1 \in DOMAIN s /\ 2 \in DOMAIN s /\ s # <<>>
      /\ Tail(s) \in Seq(Nodes) /\ Len(Tail(s)) = Len(s) - 1 /\ Tail(s) # <<>>
      /\ s[1] \in Nodes /\ s[2] \in Nodes
      /\ \A j \in 1 .. Len(s) - 1 : Tail(s)[j] = s[j + 1]
  BY <1>0
<1> DEFINE t == Tail(s)
           u == Tail(t)
<1> HIDE DEF t
<1>2. u \in Seq(Nodes) /\ DOMAIN u = 1 .. Len(t) - 1 /\ \A j \in 1 .. Len(t) - 1 : u[j] = t[j + 1]
  BY <1>1 DEF t
<1>3. DOMAIN u = 1 .. Len(s) - 2 /\ \A j \in 1 .. Len(s) - 2 : u[j] = s[j + 2] /\ j + 2 \in DOMAIN s
  BY <1>1, <1>2 DEF t
<1>4. s[1].node = "if"
  <2>1. 2 - 1 = 1 /\ 2 \in DOMAIN s
    BY <1>1
  <2> QED BY <2>1 DEF Sound
<1>5. s = <<s[1], s[2]>> \o u
  BY <1>0, <1>1 DEF t
<1> HIDE DEF u
<1>6. Sound(<<s[1], s[2]>>)
  <2> DEFINE p == <<s[1], s[2]>>
  <2>1. p \in Seq(Nodes) /\ DOMAIN p = {1, 2} /\ p[1] = s[1] /\ p[2] = s[2] /\ 2 - 1 = 1
    BY <1>1
  <2>2. s[1].node # "else"
    BY <1>4
  <2> HIDE DEF p
  <2> QED BY <1>1, <1>4, <2>1, <2>2 DEF Sound, p
<1>7. Sound(u)
  <2> SUFFICES ASSUME NEW k \in DOMAIN u
               PROVE /\ u[k].node \in {"setup", "bind", "if", "else"}
                     /\ u[k].node = "else" => k # 1 /\ u[k - 1].node = "if"
                     /\ IsBranch(u[k]) => ~Misplaced[u[k].children]
    BY <1>2 DEF Sound
  <2>1. u[k] = s[k + 2] /\ k + 2 \in DOMAIN s /\ (k + 2) - 1 = k + 1
    BY <1>1, <1>3
  <2>2. k # 1 => u[k - 1] = s[k + 1]
    <3>1. k # 1 => k - 1 \in 1 .. Len(s) - 2 /\ (k - 1) + 2 = k + 1
      BY <1>1, <1>3
    <3> QED BY <1>3, <3>1, Zenon
  <2>3. k = 1 => s[k + 1].node = "else"
    OBVIOUS
  <2>4. /\ s[k + 2].node \in {"setup", "bind", "if", "else"}
        /\ s[k + 2].node = "else" => s[k + 1].node = "if"
        /\ IsBranch(s[k + 2]) => ~Misplaced[s[k + 2].children]
    BY <2>1 DEF Sound
  <2> QED BY <2>1, <2>2, <2>3, <2>4
<1> QED BY <1>1, <1>4, <1>5, <1>6, <1>7 DEF t, u

GoesOn(s, yes) == (IF yes THEN Head(s).children ELSE ElseOf(s)) \o AfterBranch(s)

LEMMA VisitedVia ==   \* what is visited of s is that of its first node, and of B and R
  ASSUME NEW X, NEW a, NEW own, NEW n \in Nodes, NEW P, NEW B, NEW R,
         Meet(X, own, P, R), Sound(B), VisitedOf(a, own, P) = own[n] \o VisitedOf(a, own, B)
  PROVE  VisitedOf(a, own, P \o R) = own[n] \o VisitedOf(a, own, B \o R) /\ Sound(B \o R)
<1>1. Meet(X, own, B, R) /\ Sound(R) /\ own \in [Nodes -> Seq(X)]
  BY DEF Meet, Owns
<1>2. VisitedOf(a, own, P \o R) = VisitedOf(a, own, P) \o VisitedOf(a, own, R)
  BY ONLY Meet(X, own, P, R), VisitedConcat
<1>3. VisitedOf(a, own, B \o R) = VisitedOf(a, own, B) \o VisitedOf(a, own, R)
  BY <1>1, VisitedConcat
<1>4. Sound(B \o R)
  BY <1>1, SoundConcat
<1> DEFINE o == own[n]
           b == VisitedOf(a, own, B)
           r == VisitedOf(a, own, R)
<1>5. o \in Seq(X) /\ b \in Seq(X) /\ r \in Seq(X)
  <2>1. B \in Seq(Nodes) /\ R \in Seq(Nodes)
    BY <1>1 DEF Sound
  <2> QED BY <1>1, <2>1, VisitedIn
<1> HIDE DEF o, b, r
<1>6. (o \o b) \o r = o \o (b \o r)
  BY <1>5, Concat
<1> QED BY <1>2, <1>3, <1>4, <1>6 DEF o, b, r

Quiet(own) == \A e \in Nodes : e.node = "else" => own[e] = <<>>   \* nothing of an else itself

LEMMA VisitedBranch ==
  ASSUME NEW X, NEW a, NEW own, Owns(X, own), Quiet(own), NEW s, s # <<>>, Sound(s), Head(s).node = "if",
         NEW yes \in BOOLEAN, yes <=> Holds(a, Head(s).cond)
  PROVE  Joint(VisitedOf(a, own, s), own[Head(s)], VisitedOf(a, own, GoesOn(s, yes))) /\ Sound(GoesOn(s, yes))
<1>1. s \in Seq(Nodes) /\ own \in [Nodes -> Seq(X)]
  BY DEF Sound, Owns
<1>2. 1 \in DOMAIN s /\ Head(s) = s[1] /\ (Len(s) > 1 => 2 \in DOMAIN s) /\ Len(s) \in Nat /\ s[1] \in Nodes
  BY <1>1
<1> DEFINE n == s[1]
           e == s[2]
<1>3. IsBranch(n) /\ n.children \in Blocks /\ Sound(n.children)
  <2>1. IsBranch(n)
    BY <1>2 DEF IsBranch
  <2>2. n.children \in Blocks
    BY <1>2, <2>1, BlockShape
  <2>3. ~Misplaced[n.children]
    BY <1>2, <2>1 DEF Sound
  <2> QED BY <2>1, <2>2, <2>3, SoundBlock
<1>4. CASE Len(s) > 1 /\ e.node = "else"
  <2> DEFINE P == <<n, e>>
             R == Tail(Tail(s))
             B == IF Holds(a, n.cond) THEN n.children ELSE e.children
  <2>1. Sound(P) /\ Sound(R) /\ s = P \o R /\ e \in Nodes
    BY <1>4, SoundPair
  <2>2. Sound(e.children)
    <3>1. IsBranch(e)
      BY <1>4 DEF IsBranch
    <3>2. e.children \in Blocks
      BY <2>1, <3>1, BlockShape
    <3>3. ~Misplaced[e.children]
      BY <1>2, <1>4, <3>1 DEF Sound
    <3> QED BY <3>2, <3>3, SoundBlock
  <2>3. Sound(B)
    BY <1>3, <2>2
  <2>4. GoesOn(s, yes) = B \o R
    <3>1. ElseOf(s) = e.children /\ AfterBranch(s) = R
      BY <1>4 DEF ElseOf, AfterBranch
    <3> QED BY <1>2, <3>1 DEF GoesOn
  <2>5. VisitedOf(a, own, P) = own[n] \o VisitedOf(a, own, B)
    <3>1. own[e] = <<>>
      BY <1>4, <2>1 DEF Quiet
    <3>2. n \in Nodes /\ n.node = "if" /\ e.node = "else" /\ e \in Nodes
      BY <1>2, <1>4, <2>1
    <3> HIDE DEF n, e
    <3>3. VisitedOf(a, own, <<n, e>>) =
            own[n] \o VisitedOf(a, own, IF Holds(a, n.cond) THEN n.children ELSE e.children)
      BY <3>1, <3>2, TwoNodes
    <3> QED BY <3>3
  <2>6. Meet(X, own, P, R)
    BY <2>1 DEF Meet
  <2> HIDE DEF P, R, B, n, e
  <2>7. VisitedOf(a, own, P \o R) = own[n] \o VisitedOf(a, own, B \o R) /\ Sound(B \o R)
    BY <1>2, <2>3, <2>5, <2>6, VisitedVia DEF n
  <2> QED BY <1>2, <2>1, <2>4, <2>7 DEF n, Joint
<1>5. CASE ~(Len(s) > 1 /\ e.node = "else")
  <2> DEFINE P == <<n>>
             R == Tail(s)
             B == IF Holds(a, n.cond) THEN n.children ELSE <<>>
  <2>1. Sound(P) /\ Sound(R) /\ s = P \o R
    BY <1>2, <1>5, SoundTail
  <2>2. Sound(B)
    BY <1>3, VisitedEmpty
  <2>3. GoesOn(s, yes) = B \o R
    <3>1. ElseOf(s) = <<>> /\ AfterBranch(s) = R
      BY <1>5 DEF ElseOf, AfterBranch
    <3> QED BY <1>2, <3>1 DEF GoesOn
  <2>4. VisitedOf(a, own, P) = own[n] \o VisitedOf(a, own, B)
    <3>1. VisitedOf(a, own, <<n>>) =
           own[n] \o (IF n.node = "if" /\ Holds(a, n.cond) THEN VisitedOf(a, own, n.children) ELSE <<>>)
      <4>1. n \in Nodes /\ Sound(<<n>>)
        BY <1>2, <2>1
      <4> HIDE DEF n
      <4> QED BY ONLY <4>1, Owns(X, own), OneNode
    <3>2. VisitedOf(a, own, <<>>) = <<>> /\ n.node = "if"
      BY <1>2, VisitedEmpty
    <3> QED BY <3>1, <3>2
  <2>5. Meet(X, own, P, R)
    BY <2>1 DEF Meet
  <2> HIDE DEF P, R, B, n
  <2>6. VisitedOf(a, own, P \o R) = own[n] \o VisitedOf(a, own, B \o R) /\ Sound(B \o R)
    BY <1>2, <2>2, <2>4, <2>5, VisitedVia DEF n
  <2> QED BY <1>2, <2>1, <2>3, <2>6 DEF n, Joint
<1> QED BY <1>4, <1>5

-----------------------------------------------------------------------------
(* Nothing is asked twice, as predicates are told apart by their places.    *)

LEMMA AsksOnce ==
  \A c : Asks(c) \in Seq(Predicates) /\ Asks(c) \in Seq(Range(Asks(c))) /\ NoRepeat(Asks(c))
<1>1. \A c : c \in Predicates => <<c>> \in Seq(Predicates) /\ <<c>> \in Seq(Range(<<c>>)) /\ NoRepeat(<<c>>)
  BY DEF Range, NoRepeat
<1>2. <<>> \in Seq(Predicates) /\ <<>> \in Seq(Range(<<>>)) /\ NoRepeat(<<>>)
  BY DEF Range, NoRepeat
<1> QED BY <1>1, <1>2 DEF Asks

LEMMA OwnAsks ==
  /\ Owns(Predicates, ItsPredicate) /\ Quiet(ItsPredicate)
  /\ \A n \in Nodes : /\ ItsPredicate[n] \in Seq(Predicates) /\ NoRepeat(ItsPredicate[n])
                      /\ ItsPredicate[n] \in Seq(Range(ItsPredicate[n])) /\ Range(ItsPredicate[n]) \subseteq Predicates
<1>1. \A n \in Nodes : ItsPredicate[n] = IF n.node = "if" THEN Asks(n.cond) ELSE <<>>
  BY DEF ItsPredicate
<1>2. <<>> \in Seq(Predicates) /\ <<>> \in Seq(Range(<<>>)) /\ NoRepeat(<<>>)
  BY DEF Range, NoRepeat
<1>3. \A n \in Nodes : /\ ItsPredicate[n] \in Seq(Predicates) /\ NoRepeat(ItsPredicate[n])
                       /\ ItsPredicate[n] \in Seq(Range(ItsPredicate[n]))
  BY <1>1, <1>2, AsksOnce
<1>4. \A n \in Nodes : Range(ItsPredicate[n]) \subseteq Predicates
  <2>1. \A t \in Seq(Predicates) : Range(t) \subseteq Predicates
    BY DEF Range
  <2> QED BY <1>3, <2>1
<1>5. Owns(Predicates, ItsPredicate)
  BY <1>3 DEF Owns, ItsPredicate
<1>6. Quiet(ItsPredicate)
  BY <1>1 DEF Quiet
<1> QED BY <1>3, <1>4, <1>5, <1>6

LEMMA WrittenIs ==
  \A b \in Blocks : /\ WrittenIn[b] = UNION {Range(ItsPredicate[b[k]]) \cup Under(b[k]) : k \in DOMAIN b}
                    /\ WrittenIn[b] \subseteq Predicates
<1> DEFINE R == SUBSET Predicates
           Step(f, b) == UNION {Range(ItsPredicate[n]) \cup (IF IsBranch(n) THEN f[n.children] ELSE {}) : n \in Range(b)}
           D == [f \in [Blocks -> R] |-> [b \in Blocks |-> Step(f, b)]]
<1>1. ASSUME NEW f \in [Blocks -> R], NEW b \in Blocks PROVE Step(f, b) \in R
  <2>1. \A n \in Range(b) : n \in Nodes
    BY BlockShape DEF Range
  <2>2. \A n \in Range(b) : Range(ItsPredicate[n]) \subseteq Predicates
    BY <2>1, OwnAsks
  <2>3. \A n \in Range(b) : IsBranch(n) => f[n.children] \subseteq Predicates
    BY <2>1, BlockShape
  <2> QED BY <2>2, <2>3
<1>2. ASSUME NEW f, NEW g, NEW b \in Blocks, \A c \in Blocks : Depth[c] < Depth[b] => f[c] = g[c]
      PROVE  Step(f, b) = Step(g, b)
  <2>1. \A n \in Range(b) : IsBranch(n) => f[n.children] = g[n.children]
    BY <1>2, BlockShape DEF Range
  <2> QED BY <2>1
<1>3. WrittenIn = CHOOSE f : f = [b \in Blocks |-> Step(f, b)]
  BY DEF WrittenIn
<1> HIDE DEF Step
<1>4. Looks(D, R)
  <2>1. D \in [[Blocks -> R] -> [Blocks -> R]]
    <3> HIDE DEF R
    <3> QED BY <1>1
  <2>2. ASSUME NEW f \in [Blocks -> R], NEW g \in [Blocks -> R], NEW b \in Blocks,
               \A c \in Blocks : Depth[c] < Depth[b] => f[c] = g[c]
        PROVE  D[f][b] = D[g][b]
    <3>1. Step(f, b) = Step(g, b)
      BY <1>2, <2>2
    <3> HIDE DEF R
    <3> QED BY <3>1
  <2> HIDE DEF D, R
  <2> QED BY <2>1, <2>2 DEF Looks
<1>5. PICK f \in [Blocks -> R] : D[f] = f
  <2>1. {} \in R
    OBVIOUS
  <2> HIDE DEF D, R
  <2> QED BY <1>4, <2>1, FixedPoint
<1>6. f = [b \in Blocks |-> Step(f, b)]
  <2> HIDE DEF R
  <2> QED BY <1>5
<1>7. WrittenIn = [b \in Blocks |-> Step(WrittenIn, b)]
  BY <1>3, <1>6
<1>8. \A b \in Blocks : WrittenIn[b] = Step(WrittenIn, b)
  BY <1>7, Zenon
<1>9. ASSUME NEW b \in Blocks
      PROVE  Step(WrittenIn, b) = UNION {Range(ItsPredicate[b[k]]) \cup Under(b[k]) : k \in DOMAIN b}
  <2>1. Step(WrittenIn, b) = UNION {Range(ItsPredicate[n]) \cup Under(n) : n \in Range(b)}
    BY DEF Step, Under
  <2> QED BY <2>1 DEF Range
<1>10. ASSUME NEW g, NEW b \in Blocks, \A c \in Blocks : Depth[c] < Depth[b] => g[c] \in R
      PROVE  Step(g, b) \in R
  <2> DEFINE h == [c \in Blocks |-> IF Depth[c] < Depth[b] THEN g[c] ELSE {}]
  <2>1. h \in [Blocks -> R]
    BY <1>10
  <2>2. \A c \in Blocks : Depth[c] < Depth[b] => h[c] = g[c]
    OBVIOUS
  <2> HIDE DEF h, R
  <2>3. Step(h, b) \in R
    BY <1>1, <2>1
  <2>4. Step(h, b) = Step(g, b)
    BY <1>2, <2>2
  <2> QED BY <2>3, <2>4
<1>11. DOMAIN WrittenIn = Blocks
  BY <1>7
<1>12. \A b \in Blocks : (\A c \in Blocks : Depth[c] < Depth[b] => WrittenIn[c] \in R) => WrittenIn[b] \in R
  <2> HIDE DEF R
  <2> QED BY <1>8, <1>10
<1>13. \A b \in Blocks : WrittenIn[b] \in R
  <2> HIDE DEF R
  <2> QED BY <1>11, <1>12, FixedTyped
<1> QED BY <1>8, <1>9, <1>13

LEMMA VisitedOnce ==
  ASSUME NEW a
  PROVE  \A b \in Blocks : /\ VisitedOf(a, ItsPredicate, b) \in Seq(WrittenIn[b])
                           /\ NoRepeat(VisitedOf(a, ItsPredicate, b))
<1> DEFINE v == Visited(a, ItsPredicate)
           once == [b \in Blocks |-> v[b] \in Seq(WrittenIn[b]) /\ NoRepeat(v[b])]
<1>1. ItsPredicate \in [Nodes -> Seq(Predicates)]
  BY OwnAsks DEF Owns
<1>2. \A b \in Blocks : v[b] = VisitedOf(a, ItsPredicate, b) /\ v[b] \in Seq(Predicates)
  BY <1>1, VisitedIs
<1> HIDE DEF v
<1>3. ASSUME NEW b \in Blocks,
             \A c \in Blocks : Depth[c] < Depth[b] => v[c] \in Seq(WrittenIn[c]) /\ NoRepeat(v[c])
      PROVE  v[b] \in Seq(WrittenIn[b]) /\ NoRepeat(v[b])
  <2> DEFINE seqs == PartsOf(v, a, ItsPredicate, b)
             W == [k \in DOMAIN b |-> Range(ItsPredicate[b[k]]) \cup Under(b[k])]
  <2>1. b \in Seq(Nodes) /\ DOMAIN b = 1 .. Len(b) /\ Len(b) \in Nat
    BY BlockShape
  <2>2. seqs \in [1 .. Len(b) -> Seq(Predicates)] /\ v[b] = FlattenSeq(seqs)
    BY <1>1, <1>2, <2>1, VisitedIn DEF VisitedOf, v
  <2>3. ASSUME NEW k \in 1 .. Len(b)
        PROVE  W[k] \subseteq Predicates /\ seqs[k] \in Seq(W[k]) /\ NoRepeat(seqs[k])
    <3> DEFINE n == b[k]
               p == ItsPredicate[n]
               r == IF IsBranch(n) /\ Taken(a, b, k) THEN v[n.children] ELSE <<>>
    <3>1. n \in Nodes /\ k \in DOMAIN b
      BY <2>1
    <3>2. p \in Seq(Range(p)) /\ NoRepeat(p) /\ Range(p) \subseteq Predicates
      BY <3>1, OwnAsks
    <3>3. r \in Seq(Under(n)) /\ NoRepeat(r)
      <4>1. CASE IsBranch(n)
        <5>1. n.children \in Blocks /\ Depth[n.children] < Depth[b]
          BY <3>1, <4>1, BlockShape
        <5>2. v[n.children] \in Seq(WrittenIn[n.children]) /\ NoRepeat(v[n.children])
          BY <1>3, <5>1
        <5>3. <<>> \in Seq(WrittenIn[n.children]) /\ NoRepeat(<<>>)
          BY DEF NoRepeat
        <5>4. Under(n) = WrittenIn[n.children]
          BY <4>1 DEF Under
        <5> QED BY <5>2, <5>3, <5>4
      <4>2. CASE ~IsBranch(n)
        <5>1. r = <<>> /\ <<>> \in Seq(Under(n))
          BY <4>2
        <5>2. NoRepeat(<<>>)
          BY DEF NoRepeat
        <5> QED BY <5>1, <5>2
      <4> QED BY <4>1, <4>2
    <3>4. Range(p) \cap Under(n) = {}
      BY <3>1, PlacesAssumption
    <3>5. seqs[k] = p \o r
      BY <3>1 DEF PartsOf, Passed
    <3>6. W[k] = Range(p) \cup Under(n)
      BY <3>1
    <3>7. W[k] \subseteq Predicates
      <4>1. Under(n) \subseteq Predicates
        BY <3>1, BlockShape, WrittenIs DEF Under
      <4> QED BY <3>2, <3>6, <4>1
    <3> HIDE DEF p, r, n, seqs, W
    <3>8. p \o r \in Seq(Range(p) \cup Under(n)) /\ NoRepeat(p \o r)
      BY ONLY <3>2, <3>3, <3>4, NoRepeatConcat
    <3> QED BY <3>5, <3>6, <3>7, <3>8
  <2>4. \A i, j \in 1 .. Len(b) : i # j => W[i] \cap W[j] = {}
    BY <2>1, PlacesAssumption
  <2>5. UNION {W[i] : i \in 1 .. Len(b)} = WrittenIn[b]
    <3>1. UNION {W[i] : i \in 1 .. Len(b)} = UNION {Range(ItsPredicate[b[k]]) \cup Under(b[k]) : k \in DOMAIN b}
      BY <2>1
    <3> QED BY <3>1, WrittenIs
  <2> HIDE DEF seqs, W
  <2>6. \A i \in 1 .. Len(b) : W[i] \subseteq Predicates /\ seqs[i] \in Seq(W[i]) /\ NoRepeat(seqs[i])
    BY <2>3
  <2>7. /\ FlattenSeq(seqs) \in Seq(UNION {W[i] : i \in 1 .. Len(b)})
        /\ NoRepeat(FlattenSeq(seqs))
    <3>1. Len(b) \in Nat /\ seqs \in [1 .. Len(b) -> Seq(Predicates)]
      BY <2>1, <2>2
    <3> QED BY ONLY <3>1, <2>4, <2>6, FlattenNoRepeat
  <2> QED BY <2>2, <2>5, <2>7
<1>4. \A b \in Blocks : v[b] \in Seq(WrittenIn[b]) /\ NoRepeat(v[b])
  <2> DEFINE Apart == {b \in Blocks : ~(v[b] \in Seq(WrittenIn[b]) /\ NoRepeat(v[b]))}
             T == {Depth[b] : b \in Apart}
  <2>1. \A b \in Blocks : Depth[b] \in Nat
    BY BlockShape
  <2> SUFFICES ASSUME T # {} PROVE FALSE
    OBVIOUS
  <2>2. T \subseteq Nat
    BY <2>1
  <2>3. PICK d \in T : \A y \in T : d <= y
    BY <2>2, LeastOfNat
  <2>4. PICK b \in Apart : Depth[b] = d
    BY <2>3
  <2>5. \A c \in Blocks : Depth[c] < Depth[b] => v[c] \in Seq(WrittenIn[c]) /\ NoRepeat(v[c])
    <3> SUFFICES ASSUME NEW c \in Blocks, Depth[c] < Depth[b],
                        ~(v[c] \in Seq(WrittenIn[c]) /\ NoRepeat(v[c]))
                 PROVE  FALSE
      OBVIOUS
    <3>1. c \in Apart
      OBVIOUS
    <3>2. d <= Depth[c]
      BY <2>3, <3>1
    <3> QED BY <2>1, <2>4, <3>2
  <2> QED BY <1>3, <2>4, <2>5
<1> QED BY <1>2, <1>4

-----------------------------------------------------------------------------
(* The parts of some plugins, in their order.                               *)

Chosen(d, S, part) == [p \in DOMAIN d |-> IF p \in S THEN part[p] ELSE <<>>]
Turn(d, S, part)   == FlattenSeq(Chosen(d, S, part))

Parts(X, d, part) ==
  DOMAIN d = 1 .. Len(d) /\ Len(d) \in Nat /\ part \in [DOMAIN d -> Seq(X)]

LEMMA TurnIn ==
  ASSUME NEW X, NEW d, NEW S, NEW part, Parts(X, d, part)
  PROVE  /\ Chosen(d, S, part) \in [1 .. Len(d) -> Seq(X)]
         /\ Turn(d, S, part) \in Seq(X)
<1> DEFINE seqs == Chosen(d, S, part)
<1>1. Len(d) \in Nat /\ DOMAIN d = 1 .. Len(d) /\ \A p \in DOMAIN d : part[p] \in Seq(X)
  BY DEF Parts
<1>2. <<>> \in Seq(X)
  OBVIOUS
<1>3. seqs \in [1 .. Len(d) -> Seq(X)]
  BY <1>1, <1>2 DEF Chosen
<1> HIDE DEF seqs
<1>4. FlattenSeq(seqs) \in Seq(X)
  BY <1>1, <1>3, FlattenIn
<1> QED BY <1>3, <1>4 DEF Turn, seqs

LEMMA TurnNone ==
  ASSUME NEW d, NEW part, DOMAIN d = 1 .. Len(d), Len(d) \in Nat
  PROVE  Turn(d, {}, part) = <<>>
<1> DEFINE seqs == Chosen(d, {}, part)
<1>1. seqs = [p \in 1 .. Len(d) |-> <<>>]
  BY DEF Chosen
<1> HIDE DEF seqs
<1>2. FlattenSeq(seqs) = <<>>
  BY <1>1, FlattenEmpty
<1> QED BY <1>2 DEF Turn, seqs

FirstInTurn(d, S, part) ==
  /\ Least(S) \in S
  /\ Turn(d, S, part) = part[Least(S)] \o Turn(d, S \ {Least(S)}, part)

LEMMA TurnFirst ==
  ASSUME NEW X, NEW d, NEW S, NEW part, Parts(X, d, part), S \subseteq DOMAIN d, S # {}
  PROVE  FirstInTurn(d, S, part)
<1> DEFINE l == Least(S)
           n == Len(d)
           seqs == Chosen(d, S, part)
           others == Chosen(d, S \ {l}, part)
<1>1. n \in Nat /\ DOMAIN d = 1 .. n /\ S \subseteq Nat
  BY DEF Parts
<1>2. l \in S /\ \A q \in S : l <= q
  BY <1>1, LeastOfNat DEF Least
<1>3. seqs \in [1 .. n -> Seq(X)]
  BY ONLY Parts(X, d, part), TurnIn
<1>4. l \in 1 .. n /\ \A i \in 1 .. l - 1 : i \in 1 .. n /\ ~(l <= i)
  BY <1>1, <1>2
<1>5. \A i \in 1 .. l - 1 : seqs[i] = <<>>
  BY <1>1, <1>2, <1>4 DEF Chosen
<1>6. seqs[l] = part[l]
  BY <1>1, <1>2 DEF Chosen
<1>7. [seqs EXCEPT ![l] = <<>>] = others
  <2> HIDE DEF l
  <2>1. \A p \in DOMAIN d : (IF p = l THEN <<>> ELSE seqs[p]) = others[p]
    BY DEF Chosen
  <2> QED BY <2>1 DEF Chosen
<1> HIDE DEF seqs, others, l, n
<1>8. FlattenSeq(seqs) = seqs[l] \o FlattenSeq(others)
  <2>1. n \in Nat /\ l \in 1 .. n
    BY <1>1, <1>4
  <2>2. Leads(X, n, seqs, l, others)
    BY <2>1, <1>3, <1>5, <1>7 DEF Leads
  <2> QED BY ONLY <2>2, FlattenFirst
<1> QED BY <1>2, <1>6, <1>8 DEF FirstInTurn, Turn, seqs, others, l, n

LEMMA TurnOnce ==
  ASSUME NEW X, NEW d, NEW S, NEW part, NEW W, Parts(X, d, part),
         \A p \in DOMAIN d : W[p] \subseteq X /\ part[p] \in Seq(W[p]) /\ NoRepeat(part[p]),
         \A p, q \in DOMAIN d : p # q => W[p] \cap W[q] = {}
  PROVE  Turn(d, S, part) \in Seq(UNION {W[p] : p \in DOMAIN d}) /\ NoRepeat(Turn(d, S, part))
<1> DEFINE seqs == Chosen(d, S, part)
<1>1. Len(d) \in Nat /\ DOMAIN d = 1 .. Len(d)
  BY DEF Parts
<1>2. seqs \in [1 .. Len(d) -> Seq(X)]
  BY TurnIn
<1>3. \A Y : <<>> \in Seq(Y)
  OBVIOUS
<1>4. NoRepeat(<<>>)
  BY DEF NoRepeat
<1>5. \A i \in 1 .. Len(d) : W[i] \subseteq X /\ seqs[i] \in Seq(W[i]) /\ NoRepeat(seqs[i])
  BY <1>1, <1>3, <1>4 DEF Chosen
<1>6. \A i, j \in 1 .. Len(d) : i # j => W[i] \cap W[j] = {}
  BY <1>1
<1> HIDE DEF seqs
<1>7. FlattenSeq(seqs) \in Seq(UNION {W[i] : i \in 1 .. Len(d)}) /\ NoRepeat(FlattenSeq(seqs))
  <2>1. Len(d) \in Nat
    BY <1>1
  <2> QED BY ONLY <2>1, <1>2, <1>5, <1>6, FlattenNoRepeat
<1> QED BY <1>1, <1>7 DEF Turn, seqs

-----------------------------------------------------------------------------
(* What the documentation calls the order, in terms of the declarations.    *)

OnlyTpm(e) == e.place = 0 /\ e.runtime = <<>> /\ e.enabled = Always /\ e.cond = Always

LEMMA Origin ==
  ASSUME CInv, DInv, Loaded
  PROVE  /\ \A p \in Plugins : \/ OnlyTpm(declared[p])
                               \/ OfDoc(declared[p], kdl, declared[p].place) /\ declared[p].place # 0
         /\ \A p, q \in Plugins : (p # q /\ declared[p].place # 0) => declared[p].place # declared[q].place
<1>1. kdl \in Docs
  BY DEF CInv
<1>2. PICK tpms \in Seq(PluginLines) : Distinct(tpms) /\ MergedFrom(declared, kdl, tpms)
  BY DEF DInv
<1> DEFINE n == Len(tpms)
<1>3. n \in Nat /\ Len(declared) \in Nat /\ n <= Len(declared) /\ Plugins = 1 .. Len(declared)
  BY <1>2 DEF MergedFrom, Plugins
<1>4. \A p \in Plugins : \A k : OfDoc(declared[p], kdl, k) =>
        /\ declared[p].place = k /\ k # 0
        /\ declared[p].id = kdl[k].id /\ declared[p].remote = kdl[k].remote
  BY <1>1, DocDeclaration DEF OfDoc
<1>5. \A p \in 1 .. n :
        /\ declared[p].id = tpms[p].id /\ declared[p].remote
        /\ OnlyTpm(declared[p]) \/ \E k : OfDoc(declared[p], kdl, k)
  <2>1. \A l : OnlyTpm(FromTpm(l))
    BY DEF OnlyTpm, FromTpm
  <2>2. \A p \in 1 .. n :
          /\ declared[p].id = tpms[p].id /\ declared[p].remote
          /\ declared[p] = FromTpm(tpms[p]) \/ \E k : OfDoc(declared[p], kdl, k)
    BY <1>2 DEF MergedFrom
  <2> QED BY <2>1, <2>2
<1>6. \A p \in n + 1 .. Len(declared) :
        /\ \E k : OfDoc(declared[p], kdl, k)
        /\ declared[p].remote => \A i \in 1 .. n : tpms[i].id # declared[p].id
  BY <1>2 DEF MergedFrom
<1>7. \A p, q \in n + 1 .. Len(declared) : p < q => declared[p].place < declared[q].place
  BY <1>2 DEF MergedFrom
<1>8. \A i, j \in 1 .. n : tpms[i].id = tpms[j].id => i = j
  BY <1>2 DEF Distinct
<1> HIDE DEF n
<1>9. \A p \in Plugins : p \in 1 .. n \/ p \in n + 1 .. Len(declared)
  BY <1>3
<1>10. \A p \in Plugins : OnlyTpm(declared[p]) \/ (OfDoc(declared[p], kdl, declared[p].place) /\ declared[p].place # 0)
  <2>1. \A p \in Plugins : OnlyTpm(declared[p]) \/ \E k : OfDoc(declared[p], kdl, k)
    BY <1>5, <1>6, <1>9
  <2> QED BY <1>4, <2>1
<1>11. ASSUME NEW p \in Plugins, NEW q \in Plugins, p # q, declared[p].place # 0, declared[p].place = declared[q].place
       PROVE  FALSE
  <2> DEFINE k == declared[p].place
  <2>1. OfDoc(declared[p], kdl, k) /\ OfDoc(declared[q], kdl, k)
    BY <1>10, <1>11 DEF OnlyTpm
  <2>2. declared[p].id = declared[q].id /\ declared[p].remote = declared[q].remote
    BY <2>1 DEF OfDoc
  <2>3. CASE p \in 1 .. n /\ q \in 1 .. n
    BY <1>5, <1>8, <1>11, <2>2, <2>3
  <2>4. CASE p \in 1 .. n /\ q \in n + 1 .. Len(declared)
    BY <1>5, <1>6, <2>2, <2>4
  <2>5. CASE p \in n + 1 .. Len(declared) /\ q \in 1 .. n
    BY <1>5, <1>6, <2>2, <2>5
  <2>6. CASE p \in n + 1 .. Len(declared) /\ q \in n + 1 .. Len(declared)
    <3>1. p < q \/ q < p
      BY <1>3, <1>11, <2>6
    <3>2. declared[p].place \in Nat /\ declared[q].place \in Nat
      BY PluginFacts
    <3> QED BY <1>7, <1>11, <2>6, <3>1, <3>2
  <2> QED BY <1>9, <2>3, <2>4, <2>5, <2>6
<1> QED BY <1>10, <1>11

Shape(d) ==
  /\ DOMAIN d = 1 .. Len(d) /\ Len(d) \in Nat
  /\ \A p \in DOMAIN d : Sound(d[p].runtime) /\ {d[p].enabled, d[p].cond} \subseteq Conditions

LEMMA Shaped ==
  ASSUME CInv, DInv, Loaded
  PROVE  Shape(declared)
<1>1. Accepted(kdl) /\ kdl \in Docs
  BY DEF DInv, CInv
<1>2. ASSUME NEW p \in Plugins PROVE Sound(declared[p].runtime)
  <2>1. CASE OnlyTpm(declared[p])
    BY <2>1, VisitedEmpty DEF OnlyTpm
  <2>2. CASE OfDoc(declared[p], kdl, declared[p].place)
    <3> DEFINE k == declared[p].place
    <3>1. k \in Plugs(kdl) /\ declared[p] = Declaration(kdl, k)
      BY <2>2 DEF OfDoc
    <3>2. declared[p].runtime = kdl[k].children /\ PlugNode(kdl[k])
      BY <1>1, <3>1, DocDeclaration
    <3>3. ~Misplaced[kdl[k].children]
      BY <1>1, <3>1 DEF Accepted, Plugs
    <3> QED BY <3>2, <3>3, SoundBlock DEF PlugNode
  <2> QED BY <2>1, <2>2, Origin
<1> QED BY <1>2, PluginFacts DEF Shape, Plugins

AskOn(d)   == [p \in DOMAIN d |-> Asks(d[p].enabled)]
AskLoad(d) == [p \in DOMAIN d |-> Asks(d[p].cond)]
InBlock(own, a, d) == [p \in DOMAIN d |-> VisitedOf(a, own, d[p].runtime)]
On(d, a)     == {p \in DOMAIN d : Holds(a, d[p].enabled)}
ToLoad(d, a) == {p \in On(d, a) : Holds(a, d[p].cond)}

LoadAsks(d, i, a) == IF i # "managed" THEN Turn(d, On(d, a), AskLoad(d)) ELSE <<>>
IfAsks(d, i, a)   == IF i = "runtime" THEN Turn(d, ToLoad(d, a), InBlock(ItsPredicate, a, d)) ELSE <<>>
OrderOf(d, i, a)  == Turn(d, DOMAIN d, AskOn(d)) \o (LoadAsks(d, i, a) \o IfAsks(d, i, a))

LEMMA AsksIn ==
  ASSUME NEW d, NEW i, NEW a, Shape(d)
  PROVE  /\ Parts(Predicates, d, AskOn(d)) /\ Parts(Predicates, d, AskLoad(d))
         /\ Parts(Predicates, d, InBlock(ItsPredicate, a, d))
         /\ LoadAsks(d, i, a) \in Seq(Predicates) /\ IfAsks(d, i, a) \in Seq(Predicates)
         /\ OrderOf(d, i, a) \in Seq(Predicates)
<1>1. DOMAIN d = 1 .. Len(d) /\ Len(d) \in Nat /\ \A p \in DOMAIN d : d[p].runtime \in Seq(Nodes)
  BY DEF Shape, Sound
<1>2. Parts(Predicates, d, AskOn(d)) /\ Parts(Predicates, d, AskLoad(d))
  BY <1>1, AsksOnce DEF Parts, AskOn, AskLoad
<1>3. ItsPredicate \in [Nodes -> Seq(Predicates)]
  BY OwnAsks DEF Owns
<1>4. \A p \in DOMAIN d : VisitedOf(a, ItsPredicate, d[p].runtime) \in Seq(Predicates)
  BY <1>1, <1>3, VisitedIn
<1>5. Parts(Predicates, d, InBlock(ItsPredicate, a, d))
  BY <1>1, <1>4 DEF Parts, InBlock
<1>6. LoadAsks(d, i, a) \in Seq(Predicates)
  BY <1>2, TurnIn DEF LoadAsks
<1>7. IfAsks(d, i, a) \in Seq(Predicates)
  BY <1>5, TurnIn DEF IfAsks
<1>8. Turn(d, DOMAIN d, AskOn(d)) \in Seq(Predicates)
  BY <1>2, TurnIn
<1>9. OrderOf(d, i, a) \in Seq(Predicates)
  BY <1>6, <1>7, <1>8 DEF OrderOf
<1> QED BY <1>2, <1>5, <1>6, <1>7, <1>9

(* The order is that of the declarations, though stated of tmup.kdl.         *)
LEMMA OfIs ==
  ASSUME CInv, DInv, Loaded, NEW X, NEW own \in [Nodes -> Seq(X)], NEW a, NEW p \in Plugins
  PROVE  Of(own, a, p) = VisitedOf(a, own, declared[p].runtime)
<1>1. CASE declared[p].place = 0
  <2>1. ~OfDoc(declared[p], kdl, declared[p].place) \/ declared[p].place # 0 => OnlyTpm(declared[p])
    BY <1>1, Origin
  <2>2. OnlyTpm(declared[p])
    BY <1>1, Origin
  <2> QED BY <1>1, <2>2, VisitedEmpty DEF Of, OnlyTpm
<1>2. CASE declared[p].place # 0
  <2> DEFINE k == declared[p].place
  <2>1. k \in Plugs(kdl) /\ declared[p] = Declaration(kdl, k)
    BY <1>2, Origin DEF OfDoc, OnlyTpm
  <2>2. declared[p].runtime = kdl[k].children /\ kdl[k].children \in Blocks
    BY <2>1, DocDeclaration DEF CInv, PlugNode
  <2>3. Visited(a, own)[kdl[k].children] = VisitedOf(a, own, kdl[k].children)
    BY <2>2, VisitedIs
  <2> QED BY <1>2, <2>2, <2>3 DEF Of
<1> QED BY <1>1, <1>2

LEMMA OrderIs ==
  ASSUME CInv, DInv, Loaded, NEW a
  PROVE  /\ Order(a) = OrderOf(declared, intent, a)
         /\ Enabled(a) = On(declared, a) /\ Eligible(a) = ToLoad(declared, a)
<1>1. Enabled(a) = On(declared, a)
  BY DEF Enabled, On, Plugins
<1>2. Eligible(a) = ToLoad(declared, a)
  BY <1>1 DEF Eligible, ToLoad
<1>3. ItsPredicate \in [Nodes -> Seq(Predicates)]
  BY OwnAsks DEF Owns
<1>4. \A p \in Plugins : Of(ItsPredicate, a, p) = VisitedOf(a, ItsPredicate, declared[p].runtime)
  BY <1>3, OfIs
<1>5. [p \in Plugins |-> Of(ItsPredicate, a, p)] = InBlock(ItsPredicate, a, declared)
  BY <1>4 DEF InBlock, Plugins
<1>6. \A S, part : InTurn(S, part) = Turn(declared, S, part)
  BY DEF InTurn, Turn, Chosen, Plugins
<1>7. /\ [p \in Plugins |-> Asks(declared[p].enabled)] = AskOn(declared)
      /\ [p \in Plugins |-> Asks(declared[p].cond)] = AskLoad(declared)
  BY DEF AskOn, AskLoad, Plugins
<1> DEFINE A == Turn(declared, DOMAIN declared, AskOn(declared))
           B == LoadAsks(declared, intent, a)
           C == IfAsks(declared, intent, a)
<1>8. Order(a) = A \o B \o C
  BY <1>1, <1>2, <1>5, <1>6, <1>7 DEF Order, LoadAsks, IfAsks, Plugins
<1>9. A \in Seq(Predicates) /\ B \in Seq(Predicates) /\ C \in Seq(Predicates)
  BY Shaped, AsksIn, TurnIn
<1> HIDE DEF A, B, C
<1>10. A \o B \o C = A \o (B \o C)
  BY <1>9, Concat
<1> QED BY <1>1, <1>2, <1>8, <1>10 DEF OrderOf, A, B, C

LEMMA NoPlugs == \A doc \in {<<>>, Template} : \A k \in DOMAIN doc : ~IsPlug(doc[k])
<1> DEFINE node == [node |-> "options", value |-> <<TRUE, 16>>]
<1>1. node.node # "plug"
  BY SMT
<1>2. Template = <<node>>
  BY DEF Template
<1> HIDE DEF node
<1>3. \A k \in DOMAIN Template : Template[k] = node
  BY <1>2
<1> QED BY <1>1, <1>3 DEF IsPlug

(* Nothing is asked twice.                                                   *)
LEMMA OrderOnce ==
  ASSUME CInv, DInv, Loaded, NEW a
  PROVE  Order(a) \in Seq(Predicates) /\ NoRepeat(Order(a))
<1> DEFINE d == declared
           E == [p \in Plugins |-> Range(Asks(d[p].enabled))]
           C == [p \in Plugins |-> Range(Asks(d[p].cond))]
           B == [p \in Plugins |-> IF OnlyTpm(d[p]) THEN {} ELSE WrittenIn[d[p].runtime]]
           on == Turn(d, DOMAIN d, AskOn(d))
           load == LoadAsks(d, intent, a)
           ifs == IfAsks(d, intent, a)
<1>1. Shape(d) /\ DOMAIN d = Plugins
  BY Shaped DEF Plugins
<1>2. /\ Parts(Predicates, d, AskOn(d)) /\ Parts(Predicates, d, AskLoad(d))
      /\ Parts(Predicates, d, InBlock(ItsPredicate, a, d))
  BY <1>1, AsksIn
<1>3. ASSUME NEW p \in Plugins, ~OnlyTpm(d[p])
      PROVE  /\ d[p].runtime \in Blocks /\ d[p].place \in DOMAIN kdl /\ IsPlug(kdl[d[p].place])
             /\ kdl \in Documents /\ E[p] \cup C[p] \cup B[p] = WrittenAt(kdl[d[p].place])
             /\ E[p] \cap C[p] = {} /\ (E[p] \cup C[p]) \cap B[p] = {}
  <2> DEFINE k == d[p].place
  <2>1. k \in Plugs(kdl) /\ d[p] = Declaration(kdl, k) /\ kdl \in Docs
    BY <1>3, Origin DEF OfDoc, CInv
  <2>2. /\ k \in DOMAIN kdl /\ IsPlug(kdl[k]) /\ kdl[k].children \in Blocks
        /\ d[p].runtime = kdl[k].children /\ d[p].enabled = kdl[k].enabled /\ d[p].cond = kdl[k].cond
    BY <2>1, DocDeclaration DEF Plugs, PlugNode
  <2>3. kdl \in Documents
    BY <2>2, NoPlugs, <2>1 DEF Docs
  <2>4. /\ Range(Asks(kdl[k].enabled)) \cap Range(Asks(kdl[k].cond)) = {}
        /\ (Range(Asks(kdl[k].enabled)) \cup Range(Asks(kdl[k].cond))) \cap WrittenIn[kdl[k].children] = {}
    BY <2>2, <2>3, PlacesAssumption
  <2> HIDE DEF k
  <2>5. /\ E[p] = Range(Asks(kdl[k].enabled)) /\ C[p] = Range(Asks(kdl[k].cond))
        /\ B[p] = WrittenIn[kdl[k].children]
    BY <1>3, <2>2
  <2> QED BY <2>2, <2>3, <2>4, <2>5 DEF WrittenAt, k
<1>4. ASSUME NEW p \in Plugins, OnlyTpm(d[p]) PROVE E[p] = {} /\ C[p] = {} /\ B[p] = {}
  <2>1. Asks(Always) = <<>> /\ Range(<<>>) = {}
    BY ConfigurationAssumption DEF Asks, Range
  <2> QED BY <1>4, <2>1 DEF OnlyTpm
<1>5. \A p, q \in Plugins : p # q => (E[p] \cup C[p] \cup B[p]) \cap (E[q] \cup C[q] \cup B[q]) = {}
  <2> SUFFICES ASSUME NEW p \in Plugins, NEW q \in Plugins, p # q, ~OnlyTpm(d[p]), ~OnlyTpm(d[q])
               PROVE  (E[p] \cup C[p] \cup B[p]) \cap (E[q] \cup C[q] \cup B[q]) = {}
    BY <1>4
  <2>1. d[p].place # d[q].place
    BY Origin
  <2>2. WrittenAt(kdl[d[p].place]) \cap WrittenAt(kdl[d[q].place]) = {}
    BY <1>3, <2>1, PlacesAssumption
  <2> QED BY <1>3, <2>2
<1>6. \A p \in Plugins : E[p] \cap C[p] = {} /\ (E[p] \cup C[p]) \cap B[p] = {}
  BY <1>3, <1>4
<1>7. \A p \in Plugins : /\ E[p] \subseteq Predicates /\ AskOn(d)[p] \in Seq(E[p]) /\ NoRepeat(AskOn(d)[p])
                         /\ C[p] \subseteq Predicates /\ AskLoad(d)[p] \in Seq(C[p]) /\ NoRepeat(AskLoad(d)[p])
  <2>1. \A c : Asks(c) \in Seq(Predicates) /\ Asks(c) \in Seq(Range(Asks(c))) /\ NoRepeat(Asks(c))
    BY AsksOnce
  <2>2. \A c : Range(Asks(c)) \subseteq Predicates
    BY DEF Asks, Range
  <2> QED BY <1>1, <2>1, <2>2 DEF AskOn, AskLoad
<1>8. \A p \in Plugins : /\ B[p] \subseteq Predicates /\ InBlock(ItsPredicate, a, d)[p] \in Seq(B[p])
                         /\ NoRepeat(InBlock(ItsPredicate, a, d)[p])
  <2> SUFFICES ASSUME NEW p \in Plugins
               PROVE  /\ B[p] \subseteq Predicates /\ VisitedOf(a, ItsPredicate, d[p].runtime) \in Seq(B[p])
                      /\ NoRepeat(VisitedOf(a, ItsPredicate, d[p].runtime))
    BY <1>1 DEF InBlock
  <2>1. CASE OnlyTpm(d[p])
    <3>1. VisitedOf(a, ItsPredicate, d[p].runtime) = <<>>
      BY <2>1, VisitedEmpty DEF OnlyTpm
    <3>2. NoRepeat(<<>>) /\ <<>> \in Seq({})
      BY DEF NoRepeat
    <3> QED BY <1>4, <2>1, <3>1, <3>2
  <2>2. CASE ~OnlyTpm(d[p])
    <3>1. d[p].runtime \in Blocks /\ B[p] = WrittenIn[d[p].runtime]
      BY <1>3, <2>2
    <3> QED BY <3>1, VisitedOnce, WrittenIs
  <2> QED BY <2>1, <2>2
<1> DEFINE UE == UNION {E[p] : p \in DOMAIN d}
           UC == UNION {C[p] : p \in DOMAIN d}
           UB == UNION {B[p] : p \in DOMAIN d}
<1>9. UE \cap UC = {} /\ UE \cap UB = {} /\ UC \cap UB = {}
  <2> HIDE DEF E, C, B, d
  <2>1. \A p, q \in Plugins : E[p] \cap C[q] = {} /\ E[p] \cap B[q] = {} /\ C[p] \cap B[q] = {}
    BY <1>5, <1>6
  <2> QED BY <1>1, <2>1
<1> HIDE DEF E, C, B, d
<1>10. on \in Seq(UE) /\ NoRepeat(on)
  <2>1. \A p \in DOMAIN d : E[p] \subseteq Predicates /\ AskOn(d)[p] \in Seq(E[p]) /\ NoRepeat(AskOn(d)[p])
    BY <1>1, <1>7
  <2>2. \A p, q \in DOMAIN d : p # q => E[p] \cap E[q] = {}
    BY <1>1, <1>5
  <2> QED BY ONLY <1>2, <2>1, <2>2, TurnOnce
<1>11. load \in Seq(UC) /\ NoRepeat(load)
  <2>1. \A p \in DOMAIN d : C[p] \subseteq Predicates /\ AskLoad(d)[p] \in Seq(C[p]) /\ NoRepeat(AskLoad(d)[p])
    BY <1>1, <1>7
  <2>2. \A p, q \in DOMAIN d : p # q => C[p] \cap C[q] = {}
    BY <1>1, <1>5
  <2>3. Turn(d, On(d, a), AskLoad(d)) \in Seq(UC) /\ NoRepeat(Turn(d, On(d, a), AskLoad(d)))
    BY ONLY <1>2, <2>1, <2>2, TurnOnce
  <2>4. NoRepeat(<<>>) /\ <<>> \in Seq(UC)
    BY DEF NoRepeat
  <2> QED BY <2>3, <2>4 DEF LoadAsks
<1>12. ifs \in Seq(UB) /\ NoRepeat(ifs)
  <2> DEFINE part == InBlock(ItsPredicate, a, d)
  <2>1. \A p \in DOMAIN d : B[p] \subseteq Predicates /\ part[p] \in Seq(B[p]) /\ NoRepeat(part[p])
    BY <1>1, <1>8
  <2>2. \A p, q \in DOMAIN d : p # q => B[p] \cap B[q] = {}
    BY <1>1, <1>5
  <2>3. Turn(d, ToLoad(d, a), part) \in Seq(UB) /\ NoRepeat(Turn(d, ToLoad(d, a), part))
    <3> HIDE DEF part
    <3>1. Parts(Predicates, d, part)
      BY <1>2 DEF part
    <3> QED BY ONLY <3>1, <2>1, <2>2, TurnOnce
  <2>4. NoRepeat(<<>>) /\ <<>> \in Seq(UB)
    BY DEF NoRepeat
  <2> QED BY <2>3, <2>4 DEF IfAsks
<1> HIDE DEF UE, UC, UB, on, load, ifs
<1>13. load \o ifs \in Seq(UC \cup UB) /\ NoRepeat(load \o ifs)
  BY ONLY <1>9, <1>11, <1>12, NoRepeatConcat
<1>14. NoRepeat(on \o (load \o ifs))
  <2>1. UE \cap (UC \cup UB) = {}
    BY <1>9
  <2> QED BY ONLY <2>1, <1>10, <1>13, NoRepeatConcat
<1>15. Order(a) = on \o (load \o ifs)
  BY OrderIs DEF OrderOf, on, load, ifs, d
<1>16. Order(a) \in Seq(Predicates)
  BY OrderIs, AsksIn, Shaped
<1> QED BY <1>14, <1>15, <1>16

-----------------------------------------------------------------------------
(* A resolution under way, for those who know the answers: the predicates    *)
(* ahead of it, the plugins it has decided on, what it has yet to project.   *)

Said    == [Predicates -> {"unasked", "zero", "nonzero"}]
Fits(a) == \A c \in Predicates : answers[c] # "unasked" => a[c] = answers[c]

Here(d, st, c, t, a) ==
  IF c = 0 THEN <<>> ELSE IF st = "enabled" THEN Asks(d[c].enabled)
  ELSE IF st = "cond" THEN Asks(d[c].cond) ELSE VisitedOf(a, ItsPredicate, t)

Later(d, i, st, q, a) ==
  IF st = "enabled" THEN Turn(d, q, AskOn(d)) \o (LoadAsks(d, i, a) \o IfAsks(d, i, a))
  ELSE IF st = "cond" THEN Turn(d, q, AskLoad(d)) \o IfAsks(d, i, a)
  ELSE IF st = "if" THEN Turn(d, q, InBlock(ItsPredicate, a, d)) ELSE <<>>

Ahead(a) == Here(declared, stage, cur, todo, a) \o Later(declared, intent, stage, queue, a)

Undecided == queue \cup ({cur} \ {0})   \* not decided yet

Judged(a) ==
  /\ stage = "enabled" => enabled = On(declared, a) \ Undecided
  /\ stage \in {"cond", "if", "resolved"} => enabled = On(declared, a)
  /\ stage = "cond" => eligible = ToLoad(declared, a) \ Undecided
  /\ stage = "if" \/ (stage = "resolved" /\ intent # "managed") => eligible = ToLoad(declared, a)

Left(own, d, q, c, t, a, p) ==
  IF p \in q THEN VisitedOf(a, own, d[p].runtime)
  ELSE IF p = c THEN VisitedOf(a, own, t) ELSE <<>>

All(own, d, e, a, p) == IF p \in e THEN VisitedOf(a, own, d[p].runtime) ELSE <<>>

Projects(own, got, a) ==
  \A p \in Plugins : got[p] \o Left(own, declared, queue, cur, todo, a, p) = All(own, declared, eligible, a, p)

Knows(a) ==
  /\ Judged(a)
  /\ stage \in {"if", "resolved"} /\ intent = "runtime" =>
       Projects(Itself("setup"), setup, a) /\ Projects(Itself("bind"), bindings, a)

Begun == stage \in {"enabled", "cond", "if", "resolved"}

Where ==
  Begun =>
    /\ cur \notin queue
    /\ stage = "cond" => intent # "managed" /\ Undecided \subseteq enabled
    /\ stage = "if" => intent = "runtime" /\ Undecided \subseteq eligible /\ (cur # 0 => Sound(todo))
    /\ stage = "resolved" => queue = {} /\ cur = 0
    /\ stage = "enabled" => eligible = {}
    /\ stage \in {"enabled", "cond"} => \A p \in Plugins : setup[p] = <<>> /\ bindings[p] = <<>>

Base == CInv /\ RInv /\ PInv /\ DInv /\ Where

Items == Nodes \cup Line

LEMMA OwnItself ==
  \A kind \in {"setup", "bind"} :
    /\ Owns(Items, Itself(kind)) /\ Quiet(Itself(kind))
    /\ \A n \in Nodes : Itself(kind)[n] = IF n.node = kind THEN <<n>> ELSE <<>>
<1>1. ASSUME NEW kind \in {"setup", "bind"}
      PROVE  \A n \in Nodes : Itself(kind)[n] = IF n.node = kind THEN <<n>> ELSE <<>>
  BY DEF Itself
<1>2. ASSUME NEW kind \in {"setup", "bind"} PROVE Owns(Items, Itself(kind))
  <2>1. \A n \in Nodes : <<n>> \in Seq(Items) /\ <<>> \in Seq(Items)
    BY DEF Items
  <2> QED BY <2>1 DEF Owns, Itself
<1>3. ASSUME NEW kind \in {"setup", "bind"} PROVE Quiet(Itself(kind))
  BY <1>1, <1>3 DEF Quiet
<1> QED BY <1>1, <1>2, <1>3

LEMMA BegunFacts ==
  ASSUME Base, Begun
  PROVE  /\ Loaded /\ Shape(declared) /\ Plugins = DOMAIN declared
         /\ Plugins \subseteq Nat /\ 0 \notin Plugins /\ queue \subseteq Plugins /\ cur \in Plugins \cup {0}
         /\ DOMAIN setup = Plugins /\ DOMAIN bindings = Plugins
         /\ \A p \in Plugins : setup[p] \in Seq(Items) /\ bindings[p] \in Seq(Items)
         /\ enabled \subseteq Plugins /\ eligible \subseteq Plugins
         /\ stage # "failed" /\ failure = "none"
<1>0. CInv /\ RInv /\ DInv
  BY DEF Base
<1>1. stage # "failed" /\ failure = "none" /\ Loaded
  BY <1>0 DEF RInv, Begun, Loaded, ConfigStage
<1>2. /\ Plugins = DOMAIN declared /\ Plugins \subseteq Nat /\ 0 \notin Plugins
  BY <1>0, PluginFacts DEF Plugins
<1>3. DOMAIN setup = Plugins /\ setup \in [DOMAIN setup -> Seq(SetupLine)] /\ bindings \in [DOMAIN setup -> Seq(BindLine)]
  BY <1>0 DEF RInv, Begun
<1>4. Seq(SetupLine) \subseteq Seq(Items) /\ Seq(BindLine) \subseteq Seq(Items)
  <2>1. SetupLine \subseteq Items /\ BindLine \subseteq Items
    BY DEF SetupLine, BindLine, Items
  <2> HIDE DEF SetupLine, BindLine, Items
  <2> QED BY <2>1
<1>5. \A p \in Plugins : setup[p] \in Seq(Items) /\ bindings[p] \in Seq(Items)
  BY <1>3, <1>4
<1> QED BY <1>0, <1>1, <1>2, <1>3, <1>5, Shaped DEF RInv

LEMMA LaterIn ==
  ASSUME NEW d, NEW i, NEW st, NEW q, NEW a, Shape(d)
  PROVE  Later(d, i, st, q, a) \in Seq(Predicates) /\ Here(d, st, 0, <<>>, a) = <<>>
<1>1. /\ Parts(Predicates, d, AskOn(d)) /\ Parts(Predicates, d, AskLoad(d))
      /\ Parts(Predicates, d, InBlock(ItsPredicate, a, d))
      /\ LoadAsks(d, i, a) \in Seq(Predicates) /\ IfAsks(d, i, a) \in Seq(Predicates)
  BY AsksIn
<1>2. /\ Turn(d, q, AskOn(d)) \in Seq(Predicates) /\ Turn(d, q, AskLoad(d)) \in Seq(Predicates)
      /\ Turn(d, q, InBlock(ItsPredicate, a, d)) \in Seq(Predicates)
  BY <1>1, TurnIn
<1>3. <<>> \in Seq(Predicates)
  OBVIOUS
<1> QED BY <1>1, <1>2, <1>3, Concat DEF Later, Here

LEMMA AheadIn ==
  ASSUME Base, Begun, NEW a
  PROVE  /\ Here(declared, stage, cur, todo, a) \in Seq(Predicates)
         /\ Later(declared, intent, stage, queue, a) \in Seq(Predicates)
         /\ Ahead(a) \in Seq(Predicates)
<1>1. Shape(declared)
  BY BegunFacts
<1>2. Here(declared, stage, cur, todo, a) \in Seq(Predicates)
  <2>1. \A c : Asks(c) \in Seq(Predicates)
    BY AsksOnce
  <2>2. <<>> \in Seq(Predicates)
    OBVIOUS
  <2>3. stage \notin {"enabled", "cond"} /\ cur # 0 => Sound(todo)
    BY DEF Base, Where, Begun
  <2>4. Sound(todo) => VisitedOf(a, ItsPredicate, todo) \in Seq(Predicates)
    BY OwnAsks, VisitedIn DEF Owns, Sound
  <2> QED BY <2>1, <2>2, <2>3, <2>4 DEF Here
<1>3. Later(declared, intent, stage, queue, a) \in Seq(Predicates)
  BY <1>1, LaterIn
<1> QED BY <1>2, <1>3, Concat DEF Ahead

LEMMA TakeGoes ==
  ASSUME Base, Take, NEW a, Knows(a)
  PROVE  Ahead(a)' = Ahead(a) /\ Knows(a)'
<1> DEFINE d == declared
           l == Least(queue)
           q == queue \ {l}
<1>1. /\ stage \in {"enabled", "cond", "if"} /\ cur = 0 /\ queue # {} /\ cur' = l /\ queue' = q
      /\ todo' = (IF stage = "if" THEN d[l].runtime ELSE <<>>)
      /\ UNCHANGED <<intent, declared, stage, enabled, eligible, setup, bindings>>
  BY DEF Take, loaded, merged, verdict, selected
<1>2. Begun /\ Shape(d) /\ queue \subseteq DOMAIN d /\ 0 \notin DOMAIN d /\ Plugins = DOMAIN d
  <2>1. Begun
    BY <1>1 DEF Begun
  <2> QED BY <2>1, BegunFacts
<1>3. ASSUME NEW X, NEW part, Parts(X, d, part)
      PROVE  l \in queue /\ Turn(d, queue, part) = part[l] \o Turn(d, q, part)
  <2>1. queue \subseteq DOMAIN d /\ queue # {}
    BY <1>1, <1>2
  <2>2. FirstInTurn(d, queue, part)
    BY <1>3, <2>1, TurnFirst
  <2> QED BY <2>2 DEF FirstInTurn
<1>4. /\ Parts(Predicates, d, AskOn(d)) /\ Parts(Predicates, d, AskLoad(d))
      /\ Parts(Predicates, d, InBlock(ItsPredicate, a, d))
      /\ LoadAsks(d, intent, a) \in Seq(Predicates) /\ IfAsks(d, intent, a) \in Seq(Predicates)
  BY <1>2, AsksIn
<1> HIDE DEF d, l, q
<1>5. l \in queue /\ l \in DOMAIN d /\ l # 0
  BY <1>2, <1>3, <1>4
<1>6. Here(declared, stage, cur, todo, a) = <<>> /\ Ahead(a) = Later(declared, intent, stage, queue, a)
  <2>1. Here(declared, stage, cur, todo, a) = <<>>
    BY <1>1 DEF Here
  <2> QED BY <1>2, <2>1, AheadIn, Concat DEF Ahead
<1>7. Ahead(a)' = Here(d, stage, l, todo', a) \o Later(d, intent, stage, q, a)
  BY <1>1 DEF Ahead, d
<1>8. ASSUME NEW part, Parts(Predicates, d, part), NEW R \in Seq(Predicates)
      PROVE  Turn(d, queue, part) \o R = part[l] \o (Turn(d, q, part) \o R)
  <2>1. part[l] \in Seq(Predicates)
    BY <1>5, <1>8 DEF Parts
  <2>2. Turn(d, q, part) \in Seq(Predicates)
    BY <1>8, TurnIn
  <2>3. Turn(d, queue, part) = part[l] \o Turn(d, q, part)
    BY <1>3, <1>8
  <2> DEFINE u == part[l]
             v == Turn(d, q, part)
  <2>4. u \in Seq(Predicates) /\ v \in Seq(Predicates) /\ R \in Seq(Predicates)
    BY <1>8, <2>1, <2>2
  <2>5. Turn(d, queue, part) = u \o v
    BY <2>3
  <2> HIDE DEF u, v
  <2>6. (u \o v) \o R = u \o (v \o R)
    BY ONLY <2>4, Concat
  <2> QED BY <2>5, <2>6 DEF u, v
<1>9. Ahead(a)' = Ahead(a)
  <2>1. CASE stage = "enabled"
    <3> DEFINE R == LoadAsks(d, intent, a) \o IfAsks(d, intent, a)
    <3>1. R \in Seq(Predicates)
      BY <1>4, Concat
    <3>2. AskOn(d)[l] = Asks(d[l].enabled)
      BY <1>5 DEF AskOn
    <3>3. Here(d, stage, l, todo', a) = AskOn(d)[l]
      BY <1>5, <2>1, <3>2 DEF Here
    <3>4. Later(d, intent, stage, q, a) = Turn(d, q, AskOn(d)) \o R /\ Later(d, intent, stage, queue, a) = Turn(d, queue, AskOn(d)) \o R
      BY <2>1 DEF Later
    <3>5. Turn(d, queue, AskOn(d)) \o R = AskOn(d)[l] \o (Turn(d, q, AskOn(d)) \o R)
      BY <1>4, <1>8, <3>1
    <3> QED BY <1>6, <1>7, <3>3, <3>4, <3>5 DEF d
  <2>2. CASE stage = "cond"
    <3> DEFINE R == IfAsks(d, intent, a)
    <3>1. R \in Seq(Predicates)
      BY <1>4
    <3>2. AskLoad(d)[l] = Asks(d[l].cond)
      BY <1>5 DEF AskLoad
    <3>3. Here(d, stage, l, todo', a) = AskLoad(d)[l]
      BY <1>5, <2>2, <3>2 DEF Here
    <3>4. Later(d, intent, stage, q, a) = Turn(d, q, AskLoad(d)) \o R /\ Later(d, intent, stage, queue, a) = Turn(d, queue, AskLoad(d)) \o R
      BY <2>2 DEF Later
    <3>5. Turn(d, queue, AskLoad(d)) \o R = AskLoad(d)[l] \o (Turn(d, q, AskLoad(d)) \o R)
      BY <1>4, <1>8, <3>1
    <3> QED BY <1>6, <1>7, <3>3, <3>4, <3>5 DEF d
  <2>3. CASE stage = "if"
    <3> DEFINE part == InBlock(ItsPredicate, a, d)
    <3>1. part[l] = VisitedOf(a, ItsPredicate, d[l].runtime)
      BY <1>5 DEF InBlock
    <3>2. Here(d, stage, l, todo', a) = part[l]
      BY <1>1, <1>5, <2>3, <3>1 DEF Here
    <3>3. Later(d, intent, stage, q, a) = Turn(d, q, part) /\ Later(d, intent, stage, queue, a) = Turn(d, queue, part)
      BY <2>3 DEF Later
    <3>4. Turn(d, queue, part) = part[l] \o Turn(d, q, part)
      BY <1>3, <1>4
    <3> QED BY <1>6, <1>7, <3>2, <3>3, <3>4 DEF d
  <2> QED BY <1>1, <2>1, <2>2, <2>3
<1>10. Undecided' = Undecided
  BY <1>1, <1>5 DEF Undecided, q
<1>11. Judged(a)'
  <2>1. Judged(a)
    BY DEF Knows
  <2> QED BY <1>1, <1>10, <2>1 DEF Judged
<1>12. ASSUME NEW own, NEW got, stage = "if", Projects(own, got, a), NEW p \in Plugins
       PROVE  got[p] \o Left(own, d, q, l, todo', a, p) = All(own, d, eligible, a, p)
  <2>1. got[p] \o Left(own, declared, queue, cur, todo, a, p) = All(own, d, eligible, a, p)
    BY <1>12 DEF Projects, d
  <2>2. p # cur
    BY <1>1, <1>2, <1>12
  <2>3. todo' = d[l].runtime
    BY <1>1, <1>12
  <2>4. Left(own, d, q, l, todo', a, p) = Left(own, declared, queue, cur, todo, a, p)
    BY <1>5, <2>2, <2>3 DEF Left, q, d
  <2> QED BY <2>1, <2>4
<1>13. ASSUME stage = "if", intent = "runtime"
       PROVE  Projects(Itself("setup"), setup, a)' /\ Projects(Itself("bind"), bindings, a)'
  <2>1. Projects(Itself("setup"), setup, a) /\ Projects(Itself("bind"), bindings, a)
    BY <1>13 DEF Knows
  <2>2. /\ \A p \in Plugins : setup[p] \o Left(Itself("setup"), d, q, l, todo', a, p) = All(Itself("setup"), d, eligible, a, p)
        /\ \A p \in Plugins : bindings[p] \o Left(Itself("bind"), d, q, l, todo', a, p) = All(Itself("bind"), d, eligible, a, p)
    BY <1>12, <1>13, <2>1
  <2> QED BY <1>1, <2>2 DEF Projects, Plugins, d
<1>14. Knows(a)'
  BY <1>1, <1>11, <1>13 DEF Knows
<1> QED BY <1>9, <1>14

LEMMA EndStageGoes ==
  ASSUME Base, EndStage, NEW a, Knows(a)
  PROVE  Ahead(a)' = Ahead(a) /\ Knows(a)'
<1> DEFINE d == declared
<1>1. /\ stage \in {"enabled", "cond", "if"} /\ cur = 0 /\ queue = {} /\ stage' = NextStage(stage)
      /\ queue' = CASE stage' = "cond" -> enabled [] stage' = "if" -> eligible [] OTHER -> {}
      /\ UNCHANGED <<intent, declared, cur, todo, enabled, eligible, setup, bindings>>
  BY DEF EndStage, loaded, merged, verdict, selected
<1>2. Begun
  BY <1>1 DEF Begun
<1>3. /\ Shape(d) /\ 0 \notin DOMAIN d /\ Plugins = DOMAIN d
      /\ \A p \in Plugins : setup[p] \in Seq(Items) /\ bindings[p] \in Seq(Items)
      /\ DOMAIN d = 1 .. Len(d) /\ Len(d) \in Nat
  BY <1>2, BegunFacts DEF Shape
<1>4. Undecided = {}
  BY <1>1 DEF Undecided
<1>5. Judged(a)
  BY DEF Knows
<1>6. /\ stage = "enabled" => enabled = On(d, a)
      /\ stage \in {"cond", "if"} => enabled = On(d, a)
      /\ stage = "cond" => eligible = ToLoad(d, a)
      /\ stage = "if" => eligible = ToLoad(d, a)
  BY <1>4, <1>5 DEF Judged
<1>7. Where
  BY DEF Base
<1> HIDE DEF d
<1>8. Ahead(a) = Later(d, intent, stage, {}, a)
  <2>1. Here(declared, stage, cur, todo, a) = <<>>
    BY <1>1 DEF Here
  <2> QED BY <1>1, <1>2, <2>1, AheadIn, Concat DEF Ahead, d
<1>9. Ahead(a)' = Later(d, intent, stage', queue', a)
  <2>1. Here(d, stage', 0, todo, a) = <<>>
    BY DEF Here
  <2>2. Later(d, intent, stage', queue', a) \in Seq(Predicates)
    BY <1>3, LaterIn
  <2>3. Ahead(a)' = Here(d, stage', 0, todo, a) \o Later(d, intent, stage', queue', a)
    BY <1>1 DEF Ahead, d
  <2> QED BY <2>1, <2>2, <2>3, Concat
<1>10. \A part : Turn(d, {}, part) = <<>>
  BY <1>3, TurnNone
<1>11. LoadAsks(d, intent, a) \in Seq(Predicates) /\ IfAsks(d, intent, a) \in Seq(Predicates)
  BY <1>3, AsksIn
<1>12. CASE stage = "enabled" /\ intent # "managed"
  <2>1. stage' = "cond" /\ queue' = On(d, a)
    BY <1>1, <1>6, <1>12 DEF NextStage
  <2>2. Later(d, intent, stage, {}, a) = LoadAsks(d, intent, a) \o IfAsks(d, intent, a)
    <3> DEFINE R == LoadAsks(d, intent, a) \o IfAsks(d, intent, a)
    <3>1. R \in Seq(Predicates)
      BY <1>11, Concat
    <3>2. Later(d, intent, stage, {}, a) = Turn(d, {}, AskOn(d)) \o R
      BY <1>12 DEF Later
    <3> HIDE DEF R
    <3>3. <<>> \o R = R
      BY <3>1, Concat
    <3>4. Turn(d, {}, AskOn(d)) = <<>>
      BY <1>10
    <3> QED BY <3>2, <3>3, <3>4 DEF R
  <2>3. Ahead(a)' = Ahead(a)
    BY <1>8, <1>9, <1>12, <2>1, <2>2 DEF Later, LoadAsks
  <2>4. Judged(a)'
    <3>1. enabled' = On(d, a) /\ queue' = On(d, a)
      BY <1>1, <1>6, <1>12, <2>1
    <3>2. eligible' = {}
      BY <1>1, <1>2, <1>7, <1>12 DEF Where
    <3>3. eligible' = ToLoad(d, a) \ Undecided'
      BY <3>1, <3>2 DEF ToLoad, Undecided
    <3> QED BY <1>1, <2>1, <3>1, <3>3 DEF Judged, d
  <2> QED BY <2>1, <2>3, <2>4 DEF Knows
<1>13. CASE stage = "enabled" /\ intent = "managed"
  <2>1. stage' = "resolved" /\ queue' = {}
    BY <1>1, <1>13 DEF NextStage
  <2>2. Later(d, intent, stage, {}, a) = <<>>
    <3>1. LoadAsks(d, intent, a) = <<>> /\ IfAsks(d, intent, a) = <<>>
      BY <1>13 DEF LoadAsks, IfAsks
    <3>2. Turn(d, {}, AskOn(d)) = <<>>
      BY <1>10
    <3>3. Later(d, intent, stage, {}, a) = <<>> \o (<<>> \o <<>>)
      BY <1>13, <3>1, <3>2 DEF Later
    <3>4. <<>> \o <<>> = <<>>
      BY ConcatEmptySeq
    <3> QED BY <3>3, <3>4
  <2>3. Ahead(a)' = Ahead(a)
    BY <1>8, <1>9, <2>1, <2>2 DEF Later
  <2>4. Judged(a)'
    BY <1>1, <1>6, <1>13, <2>1 DEF Judged, d
  <2> QED BY <1>1, <1>13, <2>3, <2>4 DEF Knows
<1>14. CASE stage = "cond" /\ intent = "runtime"
  <2>1. stage' = "if" /\ queue' = ToLoad(d, a)
    BY <1>1, <1>6, <1>14 DEF NextStage
  <2>2. Later(d, intent, stage, {}, a) = IfAsks(d, intent, a)
    <3>1. Turn(d, {}, AskLoad(d)) = <<>>
      BY <1>10
    <3> QED BY <1>11, <1>14, <3>1, Concat DEF Later
  <2>3. Ahead(a)' = Ahead(a)
    BY <1>8, <1>9, <1>14, <2>1, <2>2 DEF Later, IfAsks
  <2>4. Judged(a)'
    BY <1>1, <1>6, <1>14, <2>1 DEF Judged, d
  <2>5. ASSUME NEW kind \in {"setup", "bind"}, NEW got, NEW p \in Plugins, got[p] = <<>>
        PROVE  got[p] \o Left(Itself(kind), d, queue', 0, todo, a, p) = All(Itself(kind), d, eligible, a, p)
    <3>1. p # 0
      BY <1>3
    <3>2. eligible = queue'
      BY <1>6, <1>14, <2>1
    <3>3. Left(Itself(kind), d, queue', 0, todo, a, p) = All(Itself(kind), d, eligible, a, p)
      BY <3>1, <3>2 DEF Left, All
    <3>4. All(Itself(kind), d, eligible, a, p) \in Seq(Items)
      <4>1. d[p].runtime \in Seq(Nodes)
        BY <1>3 DEF Shape, Sound
      <4>2. Itself(kind) \in [Nodes -> Seq(Items)]
        BY OwnItself DEF Owns
      <4>3. VisitedOf(a, Itself(kind), d[p].runtime) \in Seq(Items)
        BY <4>1, <4>2, VisitedIn
      <4>4. <<>> \in Seq(Items)
        OBVIOUS
      <4> QED BY <4>3, <4>4 DEF All
    <3> QED BY <2>5, <3>3, <3>4, Concat
  <2>6. \A p \in Plugins : setup[p] = <<>> /\ bindings[p] = <<>>
    BY <1>2, <1>7, <1>14 DEF Where
  <2>7. /\ \A p \in Plugins : setup[p] \o Left(Itself("setup"), d, queue', 0, todo, a, p) = All(Itself("setup"), d, eligible, a, p)
        /\ \A p \in Plugins : bindings[p] \o Left(Itself("bind"), d, queue', 0, todo, a, p) = All(Itself("bind"), d, eligible, a, p)
    BY <2>5, <2>6
  <2>8. Projects(Itself("setup"), setup, a)' /\ Projects(Itself("bind"), bindings, a)'
    BY <1>1, <2>7 DEF Projects, Plugins, d
  <2> QED BY <2>3, <2>4, <2>8 DEF Knows
<1>15. CASE stage = "cond" /\ intent # "runtime"
  <2>1. stage' = "resolved" /\ queue' = {}
    BY <1>1, <1>15 DEF NextStage
  <2>2. Later(d, intent, stage, {}, a) = <<>>
    <3>1. IfAsks(d, intent, a) = <<>>
      BY <1>15 DEF IfAsks
    <3>2. Turn(d, {}, AskLoad(d)) = <<>>
      BY <1>10
    <3>3. Later(d, intent, stage, {}, a) = <<>> \o <<>>
      BY <1>15, <3>1, <3>2 DEF Later
    <3> QED BY <3>3, ConcatEmptySeq
  <2>3. Ahead(a)' = Ahead(a)
    BY <1>8, <1>9, <2>1, <2>2 DEF Later
  <2>4. Judged(a)'
    BY <1>1, <1>6, <1>15, <2>1 DEF Judged, d
  <2> QED BY <1>1, <1>15, <2>3, <2>4 DEF Knows
<1>16. CASE stage = "if"
  <2>1. stage' = "resolved" /\ queue' = {}
    BY <1>1, <1>16 DEF NextStage
  <2>2. Later(d, intent, stage, {}, a) = <<>>
    BY <1>10, <1>16 DEF Later
  <2>3. Ahead(a)' = Ahead(a)
    BY <1>8, <1>9, <2>1, <2>2 DEF Later
  <2>4. Judged(a)'
    BY <1>1, <1>6, <1>16, <2>1 DEF Judged, d
  <2>5. intent = "runtime" /\ Projects(Itself("setup"), setup, a) /\ Projects(Itself("bind"), bindings, a)
    BY <1>2, <1>7, <1>16 DEF Where, Knows
  <2>6. queue' = queue
    BY <1>1, <2>1
  <2>7. Projects(Itself("setup"), setup, a)' /\ Projects(Itself("bind"), bindings, a)'
    BY <1>1, <2>5, <2>6 DEF Projects, Plugins
  <2> QED BY <2>3, <2>4, <2>7 DEF Knows
<1> QED BY <1>1, <1>12, <1>13, <1>14, <1>15, <1>16

LEMMA AnswerGoes ==
  ASSUME Base, NEW c, AtHand(c), NEW yes \in BOOLEAN, Answered(yes), NEW a, yes <=> Holds(a, c), Knows(a)
  PROVE  Joint(Ahead(a), Asks(c), Ahead(a)') /\ Ahead(a)' \in Seq(Predicates) /\ Knows(a)'
<1> DEFINE d == declared
           later == Later(d, intent, stage, queue, a)
<1>1. /\ cur # 0 /\ stage \in {"enabled", "cond", "if"}
      /\ stage = "enabled" => c = d[cur].enabled
      /\ stage = "cond" => c = d[cur].cond
      /\ stage = "if" => Branch /\ c = Head(todo).cond
      /\ UNCHANGED <<intent, declared, stage, queue, setup, bindings>>
      /\ enabled' = IF stage = "enabled" /\ yes THEN enabled \cup {cur} ELSE enabled
      /\ eligible' = IF stage = "cond" /\ yes THEN eligible \cup {cur} ELSE eligible
      /\ todo' = IF stage = "if" THEN Selected(yes) ELSE todo
      /\ cur' = IF stage = "if" THEN cur ELSE 0
  BY DEF AtHand, Answered, loaded, merged, selected
<1>2. Begun
  BY <1>1 DEF Begun
<1>3. /\ Shape(d) /\ Plugins = DOMAIN d /\ cur \in DOMAIN d /\ 0 \notin DOMAIN d /\ queue \subseteq DOMAIN d
  BY <1>1, <1>2, BegunFacts
<1>4. cur \notin queue /\ Where /\ Judged(a)
  BY <1>2 DEF Base, Where, Knows
<1>5. later \in Seq(Predicates) /\ Asks(c) \in Seq(Predicates)
  BY <1>3, LaterIn, AsksOnce
<1>6. Ahead(a) = Here(d, stage, cur, todo, a) \o later
  BY DEF Ahead
<1>7. Ahead(a)' = Here(d, stage, cur', todo', a) \o later
  BY <1>1 DEF Ahead
<1> HIDE DEF d, later
<1>8. CASE stage \in {"enabled", "cond"}
  <2>1. Here(d, stage, cur, todo, a) = Asks(c)
    BY <1>1, <1>8 DEF Here
  <2>2. Here(d, stage, cur', todo', a) = <<>>
    BY <1>1, <1>8 DEF Here
  <2>3. Ahead(a)' = later
    BY <1>5, <1>7, <2>2, Concat
  <2>4. Joint(Ahead(a), Asks(c), Ahead(a)') /\ Ahead(a)' \in Seq(Predicates)
    BY <1>5, <1>6, <2>1, <2>3 DEF Joint
  <2>5. Undecided = queue \cup {cur} /\ Undecided' = queue
    BY <1>1, <1>8 DEF Undecided
  <2>6. CASE stage = "enabled"
    <3>1. enabled = On(d, a) \ (queue \cup {cur})
      BY <1>4, <2>5, <2>6 DEF Judged, d
    <3>2. cur \in On(d, a) <=> yes
      BY <1>1, <1>3, <2>6 DEF On
    <3>3. enabled' = On(d, a) \ queue
      BY <1>1, <1>4, <2>6, <3>1, <3>2
    <3>4. Judged(a)'
      BY <1>1, <2>5, <2>6, <3>3 DEF Judged, d
    <3> QED BY <1>1, <2>4, <2>6, <3>4 DEF Knows
  <2>7. CASE stage = "cond"
    <3>1. enabled = On(d, a) /\ eligible = ToLoad(d, a) \ (queue \cup {cur})
      BY <1>4, <2>5, <2>7 DEF Judged, d
    <3>2. cur \in On(d, a)
      BY <1>2, <1>4, <2>5, <2>7, <3>1 DEF Where
    <3>3. cur \in ToLoad(d, a) <=> yes
      BY <1>1, <2>7, <3>2 DEF ToLoad
    <3>4. eligible' = ToLoad(d, a) \ queue
      BY <1>1, <1>4, <2>7, <3>1, <3>3
    <3>5. Judged(a)'
      BY <1>1, <2>5, <2>7, <3>1, <3>4 DEF Judged, d
    <3> QED BY <1>1, <2>4, <2>7, <3>5 DEF Knows
  <2> QED BY <1>8, <2>6, <2>7
<1>9. CASE stage = "if"
  <2>1. /\ Sound(todo) /\ todo # <<>> /\ Head(todo).node = "if" /\ c = Head(todo).cond /\ Head(todo) \in Nodes
        /\ intent = "runtime"
    <3>1. Sound(todo) /\ intent = "runtime"
      BY <1>1, <1>2, <1>4, <1>9 DEF Where
    <3>2. todo \in Seq(Nodes)
      BY <3>1 DEF Sound
    <3> QED BY <1>1, <1>9, <3>1, <3>2 DEF Branch
  <2>2. todo' = GoesOn(todo, yes) /\ cur' = cur
    BY <1>1, <1>9 DEF Selected, GoesOn
  <2>3. ASSUME NEW X, NEW own, Owns(X, own), Quiet(own)
        PROVE  VisitedOf(a, own, todo) = own[Head(todo)] \o VisitedOf(a, own, todo') /\ Sound(todo')
               /\ VisitedOf(a, own, todo') \in Seq(X)
    <3>1. yes <=> Holds(a, Head(todo).cond)
      BY <2>1
    <3>2. /\ Joint(VisitedOf(a, own, todo), own[Head(todo)], VisitedOf(a, own, GoesOn(todo, yes)))
          /\ Sound(GoesOn(todo, yes))
      BY <2>1, <2>3, <3>1, VisitedBranch
    <3>3. own \in [Nodes -> Seq(X)]
      BY <2>3 DEF Owns
    <3>4. VisitedOf(a, own, GoesOn(todo, yes)) \in Seq(X)
      BY <3>2, <3>3, VisitedIn DEF Sound
    <3> QED BY <2>2, <3>2, <3>4 DEF Joint
  <2>4. Joint(Ahead(a), Asks(c), Ahead(a)') /\ Ahead(a)' \in Seq(Predicates)
    <3> DEFINE u == VisitedOf(a, ItsPredicate, todo')
    <3>1. VisitedOf(a, ItsPredicate, todo) = ItsPredicate[Head(todo)] \o u /\ u \in Seq(Predicates)
      BY <2>3, OwnAsks
    <3>2. ItsPredicate[Head(todo)] = Asks(c)
      BY <2>1 DEF ItsPredicate
    <3>3. Here(d, stage, cur, todo, a) = Asks(c) \o u
      BY <1>1, <1>9, <3>1, <3>2 DEF Here
    <3>4. Here(d, stage, cur', todo', a) = u
      BY <1>1, <1>9, <2>2 DEF Here
    <3> HIDE DEF u
    <3>5. (Asks(c) \o u) \o later = Asks(c) \o (u \o later)
      BY <1>5, <3>1, Concat
    <3>6. u \o later \in Seq(Predicates)
      BY <1>5, <3>1, Concat
    <3> QED BY <1>6, <1>7, <3>3, <3>4, <3>5, <3>6 DEF Joint
  <2>5. Judged(a)'
    <3>1. Undecided' = Undecided
      BY <1>1, <2>2 DEF Undecided
    <3> QED BY <1>1, <1>4, <1>9, <3>1 DEF Judged, d
  <2>6. ASSUME NEW kind \in {"setup", "bind"}
        PROVE  VisitedOf(a, Itself(kind), todo') = VisitedOf(a, Itself(kind), todo)
    <3>1. Itself(kind)[Head(todo)] = <<>>
      BY <2>1, OwnItself
    <3>2. /\ VisitedOf(a, Itself(kind), todo) = Itself(kind)[Head(todo)] \o VisitedOf(a, Itself(kind), todo')
          /\ VisitedOf(a, Itself(kind), todo') \in Seq(Items)
      BY <2>3, OwnItself
    <3> QED BY <3>1, <3>2, Concat
  <2>7. \A p : /\ Left(Itself("setup"), d, queue, cur, todo', a, p) = Left(Itself("setup"), d, queue, cur, todo, a, p)
               /\ Left(Itself("bind"), d, queue, cur, todo', a, p) = Left(Itself("bind"), d, queue, cur, todo, a, p)
    BY <2>6 DEF Left
  <2>8. Projects(Itself("setup"), setup, a) /\ Projects(Itself("bind"), bindings, a)
    BY <1>9, <2>1 DEF Knows
  <2>9. Projects(Itself("setup"), setup, a)' /\ Projects(Itself("bind"), bindings, a)'
    <3>1. eligible' = eligible
      BY <1>1, <1>9
    <3> QED BY <1>1, <2>2, <2>7, <2>8, <3>1 DEF Projects, Plugins, d
  <2> QED BY <2>4, <2>5, <2>9 DEF Knows
<1> QED BY <1>1, <1>8, <1>9

LEMMA ProjectGoes ==
  ASSUME Base, Project, NEW a, Knows(a)
  PROVE  Ahead(a)' = Ahead(a) /\ Knows(a)'
<1> DEFINE d == declared
           h == Head(todo)
<1>1. /\ cur # 0 /\ stage = "if" /\ todo # <<>> /\ h.node # "if" /\ todo' = Tail(todo)
      /\ setup' = (IF h.node = "setup" THEN [setup EXCEPT ![cur] = Append(@, h)] ELSE setup)
      /\ bindings' = (IF h.node = "bind" THEN [bindings EXCEPT ![cur] = Append(@, h)] ELSE bindings)
      /\ UNCHANGED <<intent, declared, stage, queue, cur, enabled, eligible>>
  BY DEF Project, Branch, loaded, merged, verdict
<1>2. Begun
  BY <1>1 DEF Begun
<1>3. /\ Plugins = DOMAIN d /\ cur \in Plugins /\ cur \notin queue /\ Sound(todo) /\ intent = "runtime"
      /\ DOMAIN setup = Plugins /\ DOMAIN bindings = Plugins
      /\ \A p \in Plugins : setup[p] \in Seq(Items) /\ bindings[p] \in Seq(Items)
  BY <1>1, <1>2, BegunFacts DEF Base, Where
<1>4. \A X, own : Owns(X, own) =>
        /\ Joint(VisitedOf(a, own, todo), own[h], VisitedOf(a, own, todo'))
        /\ Sound(todo') /\ h \in Nodes /\ h.node \in {"setup", "bind"}
  BY <1>1, <1>3, VisitedNode
<1>5. Sound(todo') /\ h \in Nodes /\ h.node \in {"setup", "bind"}
  BY <1>4, OwnAsks
<1>6. ASSUME NEW X, NEW own, Owns(X, own)
      PROVE  /\ VisitedOf(a, own, todo) = own[h] \o VisitedOf(a, own, todo')
             /\ VisitedOf(a, own, todo') \in Seq(X)
  <2>1. own \in [Nodes -> Seq(X)] /\ todo' \in Seq(Nodes)
    BY <1>5, <1>6 DEF Owns, Sound
  <2>2. VisitedOf(a, own, todo') \in Seq(X)
    BY <2>1, VisitedIn
  <2> QED BY <1>4, <1>6, <2>2 DEF Joint
<1> HIDE DEF h, d
<1>7. Ahead(a)' = Ahead(a)
  <2>1. ItsPredicate[h] = <<>>
    BY <1>1, <1>5 DEF ItsPredicate
  <2>2. VisitedOf(a, ItsPredicate, todo) = VisitedOf(a, ItsPredicate, todo')
    BY <1>6, <2>1, OwnAsks, Concat
  <2> QED BY <1>1, <2>2 DEF Ahead, Here
<1>8. Judged(a)'
  <2>1. Judged(a)
    BY DEF Knows
  <2> QED BY <1>1, <2>1 DEF Judged, Undecided
<1>9. ASSUME NEW kind \in {"setup", "bind"}, NEW got, Projects(Itself(kind), got, a),
             DOMAIN got = Plugins, \A p \in Plugins : got[p] \in Seq(Items), NEW p \in Plugins
      PROVE  (IF h.node = kind THEN [got EXCEPT ![cur] = Append(@, h)] ELSE got)[p]
               \o Left(Itself(kind), d, queue, cur, todo', a, p) = All(Itself(kind), d, eligible, a, p)
  <2>1. got[p] \o Left(Itself(kind), d, queue, cur, todo, a, p) = All(Itself(kind), d, eligible, a, p)
    BY <1>9 DEF Projects, d
  <2>2. CASE p # cur
    <3>1. Left(Itself(kind), d, queue, cur, todo', a, p) = Left(Itself(kind), d, queue, cur, todo, a, p)
      BY <2>2 DEF Left
    <3>2. (IF h.node = kind THEN [got EXCEPT ![cur] = Append(@, h)] ELSE got)[p] = got[p]
      BY <1>9, <2>2
    <3> QED BY <2>1, <3>1, <3>2
  <2>3. CASE p = cur
    <3> DEFINE u == VisitedOf(a, Itself(kind), todo')
               g == got[cur]
    <3>1. VisitedOf(a, Itself(kind), todo) = Itself(kind)[h] \o u /\ u \in Seq(Items)
      BY <1>6, <1>9, OwnItself
    <3>2. /\ Left(Itself(kind), d, queue, cur, todo', a, p) = u
          /\ Left(Itself(kind), d, queue, cur, todo, a, p) = Itself(kind)[h] \o u
      BY <1>3, <2>3, <3>1 DEF Left
    <3>3. g \in Seq(Items) /\ h \in Items
      BY <1>3, <1>5, <1>9 DEF Items
    <3> HIDE DEF u
    <3>4. CASE h.node = kind
      <4>1. Itself(kind)[h] = <<h>>
        BY <1>5, <3>4, OwnItself
      <4>2. [got EXCEPT ![cur] = Append(@, h)][p] = Append(g, h)
        BY <1>3, <1>9, <2>3
      <4>3. Append(g, h) \o u = g \o (<<h>> \o u)
        <5> HIDE DEF g
        <5>1. Append(g, h) = g \o <<h>> /\ <<h>> \in Seq(Items)
          BY <3>3, AppendIsConcat
        <5> QED BY <3>1, <3>3, <5>1, Concat
      <4> QED BY <2>1, <2>3, <3>2, <3>4, <4>1, <4>2, <4>3
    <3>5. CASE h.node # kind
      <4>1. Itself(kind)[h] = <<>>
        BY <1>5, <3>5, OwnItself
      <4>2. Itself(kind)[h] \o u = u
        BY <3>1, <4>1, Concat
      <4> QED BY <2>1, <2>3, <3>2, <3>5, <4>2
    <3> QED BY <3>4, <3>5
  <2> QED BY <2>2, <2>3
<1>10. Projects(Itself("setup"), setup, a)' /\ Projects(Itself("bind"), bindings, a)'
  <2>1. Projects(Itself("setup"), setup, a) /\ Projects(Itself("bind"), bindings, a)
    BY <1>1, <1>3 DEF Knows
  <2>2. /\ \A p \in Plugins : setup'[p] \o Left(Itself("setup"), d, queue, cur, todo', a, p)
                                = All(Itself("setup"), d, eligible, a, p)
        /\ \A p \in Plugins : bindings'[p] \o Left(Itself("bind"), d, queue, cur, todo', a, p)
                                = All(Itself("bind"), d, eligible, a, p)
    BY <1>1, <1>3, <1>9, <2>1
  <2> QED BY <1>1, <2>2 DEF Projects, Plugins, d
<1> QED BY <1>7, <1>8, <1>10 DEF Knows

LEMMA ProjectedGoes ==
  ASSUME Base, Projected, NEW a, Knows(a)
  PROVE  Ahead(a)' = Ahead(a) /\ Knows(a)'
<1> DEFINE d == declared
<1>1. /\ cur # 0 /\ cur' = 0 /\ stage = "if" /\ todo = <<>>
      /\ UNCHANGED <<intent, declared, stage, queue, todo, enabled, eligible, setup, bindings>>
  BY DEF Projected, loaded, merged, verdict, selected
<1>2. Begun
  BY <1>1 DEF Begun
<1>3. Plugins = DOMAIN d /\ 0 \notin Plugins
  BY <1>2, BegunFacts
<1>4. \A own : VisitedOf(a, own, todo) = <<>>
  BY <1>1, VisitedEmpty
<1> HIDE DEF d
<1>5. Ahead(a)' = Ahead(a)
  <2>1. Here(declared, stage, cur, todo, a) = <<>> /\ Here(declared, stage, 0, todo, a) = <<>>
    BY <1>1, <1>4 DEF Here
  <2> QED BY <1>1, <2>1 DEF Ahead
<1>6. Judged(a)'
  <2>1. Judged(a)
    BY DEF Knows
  <2> QED BY <1>1, <2>1 DEF Judged
<1>7. \A own : \A p \in Plugins : Left(own, d, queue, 0, todo, a, p) = Left(own, d, queue, cur, todo, a, p)
  BY <1>3, <1>4 DEF Left
<1>8. ASSUME intent = "runtime"
      PROVE  Projects(Itself("setup"), setup, a)' /\ Projects(Itself("bind"), bindings, a)'
  <2>1. Projects(Itself("setup"), setup, a) /\ Projects(Itself("bind"), bindings, a)
    BY <1>1, <1>8 DEF Knows
  <2> QED BY <1>1, <1>7, <2>1 DEF Projects, Plugins, d
<1> QED BY <1>1, <1>5, <1>6, <1>8 DEF Knows

-----------------------------------------------------------------------------
(* Where the resolution is.                                                  *)

LEMMA AnswerWhere ==
  ASSUME Base, NEW c, AtHand(c), NEW yes \in BOOLEAN, Answered(yes), NEW a, yes <=> Holds(a, c)
  PROVE  Where'
<1>1. /\ cur # 0 /\ stage \in {"enabled", "cond", "if"}
      /\ stage = "if" => Branch /\ c = Head(todo).cond
      /\ UNCHANGED <<intent, declared, stage, queue, setup, bindings>>
      /\ enabled' = IF stage = "enabled" /\ yes THEN enabled \cup {cur} ELSE enabled
      /\ eligible' = IF stage = "cond" /\ yes THEN eligible \cup {cur} ELSE eligible
      /\ todo' = IF stage = "if" THEN GoesOn(todo, yes) ELSE todo
      /\ cur' = IF stage = "if" THEN cur ELSE 0
  BY DEF AtHand, Answered, loaded, merged, selected, Selected, GoesOn
<1>2. Begun /\ Begun' /\ Plugins' = Plugins
  BY <1>1 DEF Begun, Plugins
<1>3. Where /\ queue \subseteq Plugins /\ 0 \notin Plugins
  BY <1>2, BegunFacts DEF Base
<1>4. stage = "if" => Sound(todo')
  <2> SUFFICES ASSUME stage = "if" PROVE Sound(todo')
    OBVIOUS
  <2>1. Sound(todo) /\ todo # <<>> /\ Head(todo).node = "if" /\ (yes <=> Holds(a, Head(todo).cond))
    BY <1>1, <1>2, <1>3 DEF Where, Branch
  <2>2. Sound(GoesOn(todo, yes))
    BY <2>1, OwnAsks, VisitedBranch
  <2> QED BY <1>1, <2>2
<1>5. Undecided' \subseteq Undecided /\ cur' \notin queue' /\ Undecided = queue \cup {cur}
  BY <1>1, <1>2, <1>3 DEF Undecided, Where
<1>6. CASE stage = "enabled"
  BY <1>1, <1>2, <1>3, <1>5, <1>6 DEF Where
<1>7. CASE stage = "cond"
  BY <1>1, <1>2, <1>3, <1>5, <1>7 DEF Where
<1>8. CASE stage = "if"
  BY <1>1, <1>2, <1>3, <1>4, <1>5, <1>8 DEF Where
<1> QED BY <1>1, <1>6, <1>7, <1>8

LEMMA TakeWhere == ASSUME Base, Take PROVE Where'
<1> DEFINE l == Least(queue)
<1>1. /\ stage \in {"enabled", "cond", "if"} /\ cur = 0 /\ queue # {} /\ cur' = l /\ queue' = queue \ {l}
      /\ todo' = (IF stage = "if" THEN declared[l].runtime ELSE <<>>)
      /\ UNCHANGED <<intent, declared, stage, enabled, eligible, setup, bindings>>
  BY DEF Take, loaded, merged, verdict, selected
<1>2. Begun /\ Begun' /\ Plugins' = Plugins
  BY <1>1 DEF Begun, Plugins
<1>3. Where /\ queue \subseteq Plugins /\ Plugins \subseteq Nat /\ 0 \notin Plugins /\ Shape(declared) /\ Plugins = DOMAIN declared
  BY <1>2, BegunFacts DEF Base
<1>4. l \in queue
  BY <1>1, <1>3, LeastOfNat DEF Least
<1> HIDE DEF l
<1>5. Undecided' = Undecided
  BY <1>1, <1>3, <1>4 DEF Undecided
<1>6. stage = "if" => Sound(todo')
  BY <1>1, <1>3, <1>4 DEF Shape
<1> QED BY <1>1, <1>2, <1>3, <1>5, <1>6 DEF Where

LEMMA EndStageWhere == ASSUME Base, EndStage PROVE Where'
<1>1. /\ stage \in {"enabled", "cond", "if"} /\ cur = 0 /\ queue = {} /\ stage' = NextStage(stage)
      /\ queue' = CASE stage' = "cond" -> enabled [] stage' = "if" -> eligible [] OTHER -> {}
      /\ UNCHANGED <<intent, declared, cur, todo, enabled, eligible, setup, bindings>>
  BY DEF EndStage, loaded, merged, verdict, selected
<1>2. Begun /\ Plugins' = Plugins
  BY <1>1 DEF Begun, Plugins
<1>3. Where /\ enabled \subseteq Plugins /\ eligible \subseteq Plugins /\ 0 \notin Plugins
  BY <1>2, BegunFacts DEF Base
<1>4. CASE stage' = "cond"
  <2>1. stage = "enabled" /\ intent # "managed" /\ queue' = enabled /\ Undecided' = enabled
    BY <1>1, <1>4 DEF NextStage, Undecided
  <2> QED BY <1>1, <1>2, <1>3, <1>4, <2>1 DEF Where
<1>5. CASE stage' = "if"
  <2>1. stage = "cond" /\ intent = "runtime" /\ queue' = eligible /\ Undecided' = eligible
    BY <1>1, <1>5 DEF NextStage, Undecided
  <2> QED BY <1>1, <1>2, <1>3, <1>5, <2>1 DEF Where
<1>6. CASE stage' = "resolved"
  BY <1>1, <1>2, <1>3, <1>6 DEF Where
<1> QED BY <1>1, <1>4, <1>5, <1>6 DEF NextStage

LEMMA ProjectWhere == ASSUME Base, Project PROVE Where'
<1>1. /\ cur # 0 /\ stage = "if" /\ todo # <<>> /\ Head(todo).node # "if" /\ todo' = Tail(todo)
      /\ UNCHANGED <<intent, declared, stage, queue, cur, enabled, eligible>>
  BY DEF Project, Branch, loaded, merged, verdict
<1>2. Begun /\ Begun' /\ Where
  BY <1>1 DEF Begun, Base
<1>3. Sound(todo)
  BY <1>1, <1>2 DEF Where
<1>4. Sound(todo')
  BY <1>1, <1>3, OwnAsks, VisitedNode
<1> QED BY <1>1, <1>2, <1>4 DEF Where, Undecided

LEMMA ProjectedWhere == ASSUME Base, Projected PROVE Where'
<1>1. /\ cur' = 0 /\ stage = "if"
      /\ UNCHANGED <<intent, declared, stage, queue, todo, enabled, eligible, setup, bindings>>
  BY DEF Projected, loaded, merged, verdict, selected
<1>2. Begun /\ Begun' /\ Where
  BY <1>1 DEF Begun, Base
<1>3. queue \subseteq Plugins /\ 0 \notin Plugins
  BY <1>2, BegunFacts
<1> QED BY <1>1, <1>2, <1>3 DEF Where, Undecided

-----------------------------------------------------------------------------
(* What has been asked, and what follows for those who know the answers:     *)
(* what was asked before the predicate at hand and what is ahead are the     *)
(* order, whatever the predicates that have not answered yet will say.       *)

Foretold(before, a) == Joint(OrderOf(declared, intent, a), before, Ahead(a)) /\ Knows(a)

Pending(before) ==
  \/ shell.state = "none" /\ asked = before
  \/ shell.state # "none" /\ \E c \in Predicates : AtHand(c) /\ asked = Append(before, c)

Answering(before) ==
  /\ before \in Seq(Predicates) /\ Pending(before)
  /\ \A c \in Predicates : answers[c] # "unasked" => \E i \in DOMAIN before : before[i] = c
  /\ \A a \in Said : Fits(a) => Foretold(before, a)

Asking == Begun => \E before : Answering(before)

Unbegun ==
  /\ stage \in ConfigStage \/ failure = "config" => asked = <<>> /\ declared = <<>>
  /\ stage \in ConfigStage => \A c \in Predicates : answers[c] = "unasked"

Broke ==
  stage = "failed" /\ failure # "config" => IsPrefix(asked, OrderOf(declared, intent, answers))

HInv == DInv /\ Where /\ Unbegun /\ Broke /\ Asking

LEMMA AheadStarts ==   \* the condition at hand is asked next
  ASSUME Base, NEW c, AtHand(c), NEW a
  PROVE  \E rest \in Seq(Predicates) : Joint(Ahead(a), Asks(c), rest)
<1> DEFINE d == declared
           later == Later(d, intent, stage, queue, a)
<1>1. /\ cur # 0 /\ stage \in {"enabled", "cond", "if"}
      /\ stage = "enabled" => c = d[cur].enabled
      /\ stage = "cond" => c = d[cur].cond
      /\ stage = "if" => Branch /\ c = Head(todo).cond
  BY DEF AtHand
<1>2. Begun
  BY <1>1 DEF Begun
<1>3. later \in Seq(Predicates) /\ Asks(c) \in Seq(Predicates)
  BY <1>2, BegunFacts, LaterIn, AsksOnce
<1>4. Ahead(a) = Here(d, stage, cur, todo, a) \o later
  BY DEF Ahead
<1>5. CASE stage \in {"enabled", "cond"}
  <2>1. Here(d, stage, cur, todo, a) = Asks(c)
    BY <1>1, <1>5 DEF Here
  <2> QED BY <1>3, <1>4, <2>1 DEF Joint
<1>6. CASE stage = "if"
  <2> DEFINE yes == Holds(a, c)
             u == VisitedOf(a, ItsPredicate, GoesOn(todo, yes))
  <2>1. Sound(todo) /\ todo # <<>> /\ Head(todo).node = "if" /\ c = Head(todo).cond
    BY <1>1, <1>2, <1>6 DEF Base, Where, Branch
  <2>2. Head(todo) \in Nodes
    BY <2>1 DEF Sound
  <2>3. yes \in BOOLEAN /\ (yes <=> Holds(a, Head(todo).cond))
    BY <2>1 DEF Holds
  <2>4. /\ Joint(VisitedOf(a, ItsPredicate, todo), ItsPredicate[Head(todo)], u)
        /\ Sound(GoesOn(todo, yes))
    <3> HIDE DEF yes
    <3> QED BY <2>1, <2>3, OwnAsks, VisitedBranch
  <2>5. ItsPredicate[Head(todo)] = Asks(c)
    BY <2>1, <2>2 DEF ItsPredicate
  <2>6. u \in Seq(Predicates)
    <3> HIDE DEF yes
    <3> QED BY <2>4, OwnAsks, VisitedIn DEF Owns, Sound
  <2>7. Here(d, stage, cur, todo, a) = Asks(c) \o u
    BY <1>1, <1>6, <2>4, <2>5 DEF Here, Joint
  <2> HIDE DEF u, later
  <2>8. (Asks(c) \o u) \o later = Asks(c) \o (u \o later)
    BY <1>3, <2>6, Concat
  <2>9. u \o later \in Seq(Predicates)
    BY <1>3, <2>6, Concat
  <2> QED BY <1>4, <2>7, <2>8, <2>9 DEF Joint
<1> QED BY <1>1, <1>5, <1>6

LEMMA PrefixOf ==
  ASSUME NEW X, NEW s \in Seq(X), NEW t \in Seq(X)
  PROVE  IsPrefix(s, s \o t)
<1>1. /\ s \o t \in Seq(X) /\ DOMAIN (s \o t) = 1 .. Len(s) + Len(t) /\ Len(s \o t) = Len(s) + Len(t)
      /\ \A k \in 1 .. Len(s) : (s \o t)[k] = s[k]
  BY Joined
<1>2. Len(s) \in Nat /\ Len(t) \in Nat
  OBVIOUS
<1> DEFINE all == s \o t
<1> HIDE DEF all
<1>3. SubSeq(all, 1, Len(s)) = SubSeq(s, 1, Len(s)) /\ Len(s) <= Len(all)
  BY <1>1, <1>2 DEF all
<1> QED BY <1>3 DEF IsPrefix, all

(* A run of predicates that breaks off has followed the order.               *)
LEMMA AskedPrefix ==
  ASSUME Base, Begun, Asking
  PROVE  IsPrefix(asked, OrderOf(declared, intent, answers))
<1>1. PICK before : Answering(before)
  BY DEF Asking
<1>2. answers \in Said /\ Fits(answers)
  BY DEF Base, PInv, Said, Fits
<1>3. OrderOf(declared, intent, answers) = before \o Ahead(answers) /\ before \in Seq(Predicates)
  BY <1>1, <1>2 DEF Answering, Foretold, Joint
<1>4. CASE asked = before
  BY <1>3, <1>4, AheadIn, PrefixOf
<1>5. ASSUME NEW c \in Predicates, AtHand(c), asked = Append(before, c)
      PROVE  IsPrefix(asked, OrderOf(declared, intent, answers))
  <2>1. PICK rest \in Seq(Predicates) : Ahead(answers) = Asks(c) \o rest
    BY <1>5, AheadStarts DEF Joint
  <2>2. Asks(c) = <<c>> /\ <<c>> \in Seq(Predicates)
    BY DEF Asks
  <2>3. asked = before \o <<c>>
    BY <1>3, <1>5, AppendIsConcat
  <2>4. before \o (<<c>> \o rest) = (before \o <<c>>) \o rest
    BY <1>3, <2>1, <2>2, Concat
  <2>5. before \o <<c>> \in Seq(Predicates)
    BY <1>3, <2>2, Concat
  <2> QED BY <1>3, <2>1, <2>2, <2>3, <2>4, <2>5, PrefixOf
<1> QED BY <1>1, <1>4, <1>5 DEF Answering, Pending

(* The predicate at hand has not been asked before.                          *)
LEMMA Unanswered ==
  ASSUME Base, NEW before, Answering(before), NEW c \in Predicates, AtHand(c)
  PROVE  answers[c] = "unasked"
<1>1. Begun
  BY DEF AtHand, Begun
<1>2. Loaded
  BY <1>1, BegunFacts
<1>3. answers \in Said /\ Fits(answers)
  BY DEF Base, PInv, Said, Fits
<1>4. OrderOf(declared, intent, answers) = before \o Ahead(answers) /\ before \in Seq(Predicates)
  BY <1>3 DEF Answering, Foretold, Joint
<1>5. NoRepeat(OrderOf(declared, intent, answers))
  BY <1>2, OrderOnce, OrderIs DEF Base
<1>6. PICK rest \in Seq(Predicates) : Ahead(answers) = Asks(c) \o rest
  BY AheadStarts DEF Joint
<1>7. Asks(c) = <<c>>
  BY DEF Asks
<1> SUFFICES ASSUME NEW i \in DOMAIN before, before[i] = c PROVE FALSE
  BY DEF Answering
<1>8. Ahead(answers) \in Seq(Predicates)
  BY <1>1, AheadIn
<1> DEFINE ahead == Ahead(answers)
           all == before \o ahead
           j == Len(before) + 1
<1>9. ahead[1] = c /\ Len(ahead) >= 1 /\ Len(ahead) \in Nat
  BY <1>6, <1>7, <1>8
<1>10. /\ DOMAIN all = 1 .. Len(before) + Len(ahead)
       /\ \A k \in 1 .. Len(before) : all[k] = before[k]
       /\ \A k \in 1 .. Len(ahead) : all[Len(before) + k] = ahead[k]
  <2> HIDE DEF ahead
  <2>1. ahead \in Seq(Predicates)
    BY <1>8 DEF ahead
  <2> QED BY <1>4, <2>1, Joined
<1> HIDE DEF all, ahead
<1>11. all[i] = c /\ i \in DOMAIN all /\ i # j /\ i \in 1 .. Len(before)
  BY <1>4, <1>9, <1>10
<1>12. all[j] = c /\ j \in DOMAIN all
  BY <1>4, <1>9, <1>10
<1>13. NoRepeat(all)
  BY <1>4, <1>5 DEF all, ahead
<1> QED BY <1>11, <1>12, <1>13 DEF NoRepeat

-----------------------------------------------------------------------------
(* How a step goes on with it.                                               *)

LEMMA QuietKeeps ==   \* nothing is asked, no answer is got
  ASSUME NEW before, Answering(before), shell.state = "none",
         UNCHANGED <<intent, declared, shell, asked, answers>>,
         \A a : Knows(a) => Ahead(a)' = Ahead(a) /\ Knows(a)'
  PROVE  Answering(before)'
<1>1. Pending(before)'
  BY DEF Answering, Pending
<1>2. \A a \in Said : Fits(a)' => Foretold(before, a)'
  <2> SUFFICES ASSUME NEW a \in Said, Fits(a)' PROVE Foretold(before, a)'
    OBVIOUS
  <2>1. Fits(a)
    BY DEF Fits
  <2>2. Foretold(before, a)
    BY <2>1 DEF Answering
  <2> QED BY <2>2 DEF Foretold, Joint
<1> QED BY <1>1, <1>2 DEF Answering

LEMMA SpawnKeeps ==
  ASSUME NEW before, Answering(before), NEW c \in Predicates, Spawn(c)
  PROVE  Answering(before)'
<1>1. /\ AtHand(c) /\ shell.state = "none" /\ shell'.state = "running" /\ asked' = Append(asked, c)
      /\ UNCHANGED <<intent, declared, stage, queue, cur, todo, enabled, eligible, setup, bindings, answers>>
  BY IdleShell DEF Spawn, loaded, merged, verdict, selected, Idle
<1>2. Pending(before)'
  <2>1. AtHand(c)'
    BY <1>1, AtHandSame
  <2> QED BY <1>1, <2>1 DEF Answering, Pending
<1>3. \A a \in Said : Fits(a)' => Foretold(before, a)'
  <2> SUFFICES ASSUME NEW a \in Said, Fits(a)' PROVE Foretold(before, a)'
    OBVIOUS
  <2>1. Foretold(before, a)
    BY <1>1 DEF Answering, Fits
  <2> QED BY <1>1, <2>1 DEF Foretold, Joint, Ahead, Knows, Judged, Projects, Undecided, Plugins
<1> QED BY <1>1, <1>2, <1>3 DEF Answering

LEMMA RunningKeeps ==   \* the process runs, or exits, or is waited for
  ASSUME NEW before, Answering(before), shell.state # "none", shell'.state # "none",
         UNCHANGED <<loaded, stage, queue, cur, todo, verdict, selected, asked, answers>>
  PROVE  Answering(before)'
<1>1. UNCHANGED <<intent, declared, enabled, eligible, setup, bindings>>
  BY DEF loaded, merged, verdict, selected
<1>2. Pending(before)'
  <2>1. \A c : AtHand(c) => AtHand(c)'
    BY <1>1, AtHandSame
  <2> QED BY <2>1 DEF Answering, Pending
<1>3. \A a \in Said : Fits(a)' => Foretold(before, a)'
  <2> SUFFICES ASSUME NEW a \in Said, Fits(a)' PROVE Foretold(before, a)'
    OBVIOUS
  <2>1. Foretold(before, a)
    BY DEF Answering, Fits
  <2> QED BY <1>1, <2>1 DEF Foretold, Joint, Ahead, Knows, Judged, Projects, Undecided, Plugins
<1> QED BY <1>2, <1>3 DEF Answering

(* An answer: whoever guessed it right has foretold what comes after it, too. *)
LEMMA AnswerKeeps ==
  ASSUME Base, NEW before, Answering(before), NEW now, now = asked, shell.state \in {"zero", "nonzero"}, shell' = Idle,
         answers' = [answers EXCEPT ![asked[Len(asked)]] = shell.state], Answered(shell.state = "zero")
  PROVE  Answering(now)' /\ Where'
<1> DEFINE yes == shell.state = "zero"
<1>1. PICK c \in Predicates : AtHand(c) /\ asked = Append(before, c)
  BY DEF Answering, Pending
<1>2. before \in Seq(Predicates) /\ answers \in Said /\ Begun
  BY <1>1 DEF Answering, Base, PInv, Said, AtHand, Begun
<1>3. /\ asked \in Seq(Predicates) /\ asked = before \o <<c>> /\ asked[Len(asked)] = c
      /\ \A i \in DOMAIN before : i \in DOMAIN asked /\ asked[i] = before[i]
      /\ Len(asked) \in DOMAIN asked
  <2>1. asked = before \o <<c>>
    BY <1>1, <1>2, AppendIsConcat
  <2> QED BY <1>1, <1>2, <2>1
<1>4. answers' = [answers EXCEPT ![c] = shell.state] /\ answers'[c] = shell.state /\ answers[c] = "unasked"
  <2>1. answers[c] = "unasked"
    BY <1>1, Unanswered
  <2> QED BY <1>2, <1>3, <2>1 DEF Said
<1>5. UNCHANGED <<intent, declared, asked>> /\ yes \in BOOLEAN /\ shell'.state = "none"
  BY IdleShell DEF Answered, loaded, merged
<1>6. \A a : (a[c] = shell.state) => (yes <=> Holds(a, c))
  <2>1. c # Always
    BY ConfigurationAssumption
  <2> QED BY <2>1 DEF Holds
<1> HIDE DEF yes
<1>7. Answered(yes)
  BY DEF yes
<1>8. Pending(now)'
  BY <1>5 DEF Pending
<1>9. \A x \in Predicates : answers'[x] # "unasked" => \E i \in DOMAIN now : now[i] = x
  <2> SUFFICES ASSUME NEW x \in Predicates, answers'[x] # "unasked"
               PROVE  \E i \in DOMAIN now : now[i] = x
    OBVIOUS
  <2>1. CASE x = c
    BY <1>3, <2>1
  <2>2. CASE x # c
    <3>1. answers[x] # "unasked"
      BY <1>2, <1>4, <2>2 DEF Said
    <3>2. PICK i \in DOMAIN before : before[i] = x
      BY <3>1 DEF Answering
    <3> QED BY <1>3, <3>2
  <2> QED BY <2>1, <2>2
<1>10. ASSUME NEW a \in Said, Fits(a)' PROVE Foretold(now, a)'
  <2>1. a[c] = shell.state
    BY <1>4, <1>10 DEF Fits
  <2>2. Fits(a)
    <3> SUFFICES ASSUME NEW x \in Predicates, answers[x] # "unasked" PROVE a[x] = answers[x]
      BY DEF Fits
    <3>1. x # c
      BY <1>4
    <3>2. answers'[x] = answers[x]
      BY <1>2, <1>4, <3>1 DEF Said
    <3> QED BY <1>10, <3>2 DEF Fits
  <2>3. OrderOf(declared, intent, a) = before \o Ahead(a) /\ Knows(a)
    BY <2>2 DEF Answering, Foretold, Joint
  <2>4. Joint(Ahead(a), Asks(c), Ahead(a)') /\ Ahead(a)' \in Seq(Predicates) /\ Knows(a)'
    BY <1>1, <1>5, <1>6, <1>7, <2>1, <2>3, AnswerGoes
  <2>5. Ahead(a) = <<c>> \o Ahead(a)'
    BY <2>4 DEF Joint, Asks
  <2> DEFINE new == Ahead(a)'
  <2>6. before \o (<<c>> \o new) = (before \o <<c>>) \o new
    <3>1. <<c>> \in Seq(Predicates) /\ new \in Seq(Predicates)
      BY <2>4
    <3> HIDE DEF new
    <3> QED BY <1>2, <3>1, Concat
  <2>7. OrderOf(declared, intent, a) = asked \o new
    BY <1>3, <2>3, <2>5, <2>6
  <2>8. Joint(OrderOf(declared, intent, a), now, Ahead(a))'
    BY <1>5, <2>7 DEF Joint
  <2> QED BY <2>4, <2>8 DEF Foretold
<1>11. Where'
  <2>1. [x \in Predicates |-> shell.state][c] = shell.state
    OBVIOUS
  <2>2. yes <=> Holds([x \in Predicates |-> shell.state], c)
    BY <1>6, <2>1
  <2> QED BY <1>1, <1>5, <1>7, <2>2, AnswerWhere
<1> QED BY <1>3, <1>5, <1>8, <1>9, <1>10, <1>11 DEF Answering

LEMMA GoesAsking ==
  ASSUME DInv', Where', Begun', failure' # "config", NEW before, Answering(before)'
  PROVE  HInv'
<1>1. stage' # "failed" /\ stage' \notin ConfigStage
  BY DEF Begun, ConfigStage
<1> QED BY <1>1 DEF HInv, Unbegun, Broke, Asking

LEMMA BreaksOff ==
  ASSUME Base, Asking, Begun, DInv', stage' = "failed", failure' # "config",
         UNCHANGED <<intent, declared, asked, answers>>
  PROVE  HInv'
<1>1. ~Begun' /\ stage' \notin ConfigStage
  BY DEF Begun, ConfigStage
<1>2. IsPrefix(asked, OrderOf(declared, intent, answers))
  BY AskedPrefix
<1>3. Broke'
  BY <1>2 DEF Broke
<1> QED BY <1>1, <1>3 DEF HInv, Where, Unbegun, Asking

LEMMA StandsStill ==   \* where nothing of the resolution changes
  ASSUME HInv, DInv',
         UNCHANGED <<intent, declared, stage, failure, queue, cur, todo, enabled, eligible, setup, bindings,
                     shell, asked, answers>>
  PROVE  HInv'
<1>1. Where' /\ Unbegun' /\ Broke'
  BY DEF HInv, Where, Unbegun, Broke, Begun, Undecided, Plugins
<1>2. Asking'
  <2> SUFFICES ASSUME Begun, NEW before, Answering(before) PROVE Answering(before)'
    BY DEF HInv, Asking, Begun
  <2>1. Pending(before)'
    <3>1. \A c : AtHand(c) => AtHand(c)'
      BY AtHandSame
    <3> QED BY <3>1 DEF Answering, Pending
  <2>2. \A a \in Said : Fits(a)' => Foretold(before, a)'
    <3> SUFFICES ASSUME NEW a \in Said, Fits(a)' PROVE Foretold(before, a)'
      OBVIOUS
    <3>1. Foretold(before, a)
      BY DEF Answering, Fits
    <3> QED BY <3>1 DEF Foretold, Joint, Ahead, Knows, Judged, Projects, Undecided, Plugins
  <2> QED BY <2>1, <2>2 DEF Answering
<1> QED BY <1>1, <1>2 DEF HInv

LEMMA SettlesGoes ==
  ASSUME Base, NEW before, Answering(before), Begun, stage # "failed", Settles, DInv'
  PROVE  HInv'
<1>1. Loaded /\ failure = "none"
  BY BegunFacts
<1>2. CASE shell.state = "signal" /\ Fails("signal") /\ UNCHANGED shell
  <2>1. stage' = "failed" /\ failure' # "config" /\ UNCHANGED <<intent, declared, asked, answers>>
    BY <1>2 DEF Fails, loaded, merged, record
  <2> QED BY <2>1, BreaksOff DEF Asking
<1>3. CASE /\ shell.state \in {"zero", "nonzero"} /\ shell' = Idle /\ Answered(shell.state = "zero")
           /\ answers' = [answers EXCEPT ![asked[Len(asked)]] = shell.state]
  <2>1. PICK now : now = asked
    OBVIOUS
  <2>2. Answering(now)' /\ Where'
    BY <1>3, <2>1, AnswerKeeps
  <2>3. Begun' /\ failure' = "none"
    BY <1>1, <1>3 DEF Answered, Begun
  <2> QED BY <2>2, <2>3, GoesAsking
<1> QED BY <1>2, <1>3 DEF Settles

LEMMA QuietShell ==
  ASSUME PInv, Take \/ EndStage \/ Literal \/ Project \/ Projected
  PROVE  /\ shell.state = "none" /\ Begun /\ Begun'
         /\ UNCHANGED <<intent, declared, failure, shell, asked, answers>>
<1>1. \A c, x : AtHand(c) /\ AtHand(x) => c = x
  BY DEF AtHand
<1>2. \A c \in {Always, Never} : c \notin Predicates
  BY ConfigurationAssumption
<1>3. ~\E c \in Predicates : AtHand(c)
  <2>1. CASE Take \/ EndStage
    BY <2>1 DEF Take, EndStage, AtHand
  <2>2. CASE Literal
    BY <1>1, <1>2, <2>2 DEF Literal
  <2>3. CASE Project \/ Projected
    BY <2>3 DEF Project, Projected, AtHand, Branch
  <2> QED BY <2>1, <2>2, <2>3
<1>4. stage \in {"enabled", "cond", "if"}
  BY DEF Take, EndStage, Literal, Project, Projected, AtHand
<1>5. shell.state = "none"
  BY <1>3, <1>4 DEF PInv
<1>6. stage' = stage \/ stage' \in {"cond", "if", "resolved"}
  BY DEF Take, EndStage, Literal, Project, Projected, NextStage, Answered
<1>7. UNCHANGED <<intent, declared, failure, shell, asked, answers>>
  BY DEF Take, EndStage, Literal, Project, Projected, Answered, loaded, merged, record
<1> QED BY <1>4, <1>5, <1>6, <1>7 DEF Begun

LEMMA QuietGoes ==
  ASSUME Base, Take \/ EndStage \/ Literal \/ Project \/ Projected
  PROVE  Where' /\ \A a : Knows(a) => Ahead(a)' = Ahead(a) /\ Knows(a)'
<1>1. CASE Take
  BY <1>1, TakeGoes, TakeWhere
<1>2. CASE EndStage
  BY <1>2, EndStageGoes, EndStageWhere
<1>3. CASE Project
  BY <1>3, ProjectGoes, ProjectWhere
<1>4. CASE Projected
  BY <1>4, ProjectedGoes, ProjectedWhere
<1>5. CASE Literal
  <2>1. PICK c \in {Always, Never} : AtHand(c) /\ Answered(c = Always)
    BY <1>5 DEF Literal
  <2> DEFINE yes == c = Always
  <2>2. yes \in BOOLEAN /\ (\A a : yes <=> Holds(a, c)) /\ Asks(c) = <<>>
    <3>1. c \notin Predicates
      BY ConfigurationAssumption
    <3> QED BY <3>1 DEF Holds, Asks
  <2> HIDE DEF yes
  <2>3. Answered(yes)
    BY <2>1 DEF yes
  <2>4. Where'
    BY <2>1, <2>2, <2>3, AnswerWhere
  <2>5. ASSUME NEW a, Knows(a) PROVE Ahead(a)' = Ahead(a) /\ Knows(a)'
    <3>1. Joint(Ahead(a), Asks(c), Ahead(a)') /\ Ahead(a)' \in Seq(Predicates) /\ Knows(a)'
      BY <2>1, <2>2, <2>3, <2>5, AnswerGoes
    <3> DEFINE new == Ahead(a)'
    <3>2. new \in Seq(Predicates) /\ Ahead(a) = <<>> \o new
      BY <2>2, <3>1 DEF Joint
    <3> HIDE DEF new
    <3>3. <<>> \o new = new
      BY <3>2, Concat
    <3> QED BY <3>1, <3>2, <3>3 DEF new
  <2> QED BY <2>4, <2>5
<1> QED BY <1>1, <1>2, <1>3, <1>4, <1>5

LEMMA ResolvingGoes ==
  ASSUME IInv, HInv, Resolving
  PROVE  HInv'
<1>0. Base /\ CInv /\ RInv /\ PInv /\ Asking
  BY DEF IInv, HInv, Base
<1>1. DInv'
  BY <1>0, ResolvingLoaded, DInvSame DEF Base
<1>2. stage \notin ConfigStage
  BY <1>0, ResolvingOut
<1>3. CASE stage = "failed"
  <2>1. /\ \E status \in {"zero", "nonzero", "signal"} : Exits(status)
    BY <1>3 DEF Resolving, Take, EndStage, Literal, Project, Projected, AtHand, Spawn, SpawnFails,
                Poll, Wake, PollLast, Kill, MonitorFails, Polling
  <2>2. UNCHANGED <<intent, declared, stage, failure, asked, answers>>
    BY <2>1 DEF Exits, loaded, merged, record
  <2>3. ~Begun' /\ stage' \notin ConfigStage
    BY <1>3, <2>2 DEF Begun, ConfigStage
  <2>4. Unbegun' /\ Broke'
    BY <2>2 DEF HInv, Unbegun, Broke
  <2> QED BY <1>1, <2>3, <2>4 DEF HInv, Where, Asking
<1>4. CASE Begun
  <2>1. stage # "failed" /\ failure = "none"
    BY <1>0, <1>4, BegunFacts
  <2>2. PICK before : Answering(before)
    BY <1>0, <1>4 DEF Asking
  <2>3. CASE Take \/ EndStage \/ Literal \/ Project \/ Projected
    <3>1. /\ shell.state = "none" /\ Begun'
          /\ UNCHANGED <<intent, declared, failure, shell, asked, answers>>
      BY <1>0, <2>3, QuietShell
    <3>2. Where' /\ \A a : Knows(a) => Ahead(a)' = Ahead(a) /\ Knows(a)'
      BY <1>0, <2>3, QuietGoes
    <3>3. Answering(before)'
      BY <2>2, <3>1, <3>2, QuietKeeps
    <3> QED BY <1>1, <2>1, <3>1, <3>2, <3>3, GoesAsking
  <2>4. ASSUME NEW c \in Predicates, Spawn(c) PROVE HInv'
    <3>1. Answering(before)'
      BY <2>2, <2>4, SpawnKeeps
    <3>2. /\ UNCHANGED <<declared, intent, stage, queue, cur, todo, enabled, eligible, setup, bindings, failure>>
          /\ Begun'
      BY <1>4, <2>4 DEF Spawn, loaded, merged, verdict, selected, Begun
    <3>3. Where'
      BY <3>2 DEF HInv, Where, Begun, Undecided, Plugins
    <3> QED BY <1>1, <2>1, <3>1, <3>2, <3>3, GoesAsking
  <2>5. ASSUME NEW reason \in {"spawn", "signal", "timeout", "monitor"}, Fails(reason) PROVE HInv'
    <3>1. stage' = "failed" /\ failure' # "config" /\ UNCHANGED <<intent, declared, asked, answers>>
      BY <2>5 DEF Fails, loaded, merged, record
    <3> QED BY <1>0, <1>1, <1>4, <3>1, BreaksOff
  <2>6. CASE /\ shell.state # "none" /\ shell'.state # "none"
             /\ UNCHANGED <<loaded, stage, queue, cur, todo, verdict, selected, asked, answers, failure>>
    <3>1. Answering(before)'
      BY <2>2, <2>6, RunningKeeps
    <3>2. /\ UNCHANGED <<declared, intent, stage, queue, cur, todo, enabled, eligible, setup, bindings, failure>>
          /\ Begun'
      BY <1>4, <2>6 DEF loaded, merged, verdict, selected, Begun
    <3>3. Where'
      BY <3>2 DEF HInv, Where, Begun, Undecided, Plugins
    <3> QED BY <1>1, <2>1, <3>1, <3>2, <3>3, GoesAsking
  <2>7. CASE Settles
    BY <1>0, <1>1, <1>4, <2>1, <2>2, <2>7, SettlesGoes
  <2>8. shell \in [state : {"none", "running", "zero", "nonzero", "signal", "killed"},
                   age : 0 .. Timeout, ended : 0 .. Timeout, step : {"poll", "sleep", "last", "kill"}]
    BY <1>0 DEF PInv
  <2>9. ASSUME NEW to, Steps(to), shell.state # "none" PROVE HInv'
    <3>1. shell'.state = shell.state
      BY <2>8, <2>9 DEF Steps
    <3> QED BY <2>6, <2>9, <3>1 DEF Steps, record
  <2>10. CASE Wake
    <3>1. shell'.state = shell.state /\ shell.state # "none"
      BY <2>8, <2>10 DEF Wake, Polling
    <3> QED BY <2>6, <2>10, <3>1 DEF Wake, record
  <2>11. ASSUME NEW status \in {"zero", "nonzero", "signal"}, Exits(status) PROVE HInv'
    <3>1. shell'.state = status /\ shell.state # "none"
      BY <2>8, <2>11 DEF Exits
    <3> QED BY <2>6, <2>11, <3>1 DEF Exits, record
  <2>12. CASE Poll \/ PollLast
    BY <2>7, <2>9, <2>12 DEF Poll, PollLast, Polling
  <2>13. CASE Kill \/ MonitorFails \/ \E c \in Predicates : SpawnFails(c)
    BY <2>5, <2>13 DEF Kill, MonitorFails, SpawnFails
  <2> QED BY <2>3, <2>4, <2>10, <2>11, <2>12, <2>13 DEF Resolving
<1> QED BY <1>0, <1>2, <1>3, <1>4 DEF RInv, Stages, Begun

HasShape == CInv /\ DInv /\ Loaded => Shape(declared)

LEMMA AlwaysShaped == HasShape /\ HasShape'
<1>1. HasShape
  BY Shaped DEF HasShape
<1> QED BY <1>1, PTL

(* At the beginning everything is ahead.                                     *)
LEMMA EnabledGoes ==
  ASSUME IInv, HInv, CInv', DInv', Configure, stage' = "enabled"
  PROVE  HInv'
<1> DEFINE d == declared'
           i == intent'
<1>1. /\ stage \in ConfigStage /\ failure' = failure /\ cur' = 0 /\ shell' = Idle /\ failure = "none"
      /\ queue' = DOMAIN d /\ enabled' = {} /\ eligible' = {} /\ asked' = <<>> /\ answers' = answers
      /\ \A p \in DOMAIN d : setup'[p] = <<>> /\ bindings'[p] = <<>>
  <2>1. stage \in ConfigStage /\ UNCHANGED failure
    BY LoadConfigMoves DEF Configure
  <2>2. /\ queue' = Plugins' /\ setup' = [p \in Plugins' |-> <<>>] /\ bindings' = setup'
        /\ UNCHANGED <<cur, enabled, eligible, shell, asked, answers>>
    BY DEF Configure, verdict, record
  <2>3. cur = 0 /\ enabled = {} /\ eligible = {} /\ shell = Idle /\ failure = "none"
    BY <2>1 DEF IInv, RInv, ConfigStage
  <2>4. asked = <<>>
    BY <2>1 DEF HInv, Unbegun
  <2> QED BY <2>1, <2>2, <2>3, <2>4 DEF Plugins
<1>2. Begun' /\ Loaded'
  BY <1>1 DEF Begun, Loaded, ConfigStage
<1>3. Shape(d)
  BY <1>2, AlwaysShaped DEF HasShape
<1>4. DOMAIN d = 1 .. Len(d) /\ Len(d) \in Nat
  BY <1>3 DEF Shape
<1> HIDE DEF d, i
<1>5. 0 \notin DOMAIN d
  BY <1>4
<1>6. Where'
  BY <1>1, <1>5 DEF Where, Undecided, Plugins, d
<1>7. Pending(<<>>)'
  BY <1>1, IdleShell DEF Pending
<1>8. \A c \in Predicates : answers'[c] = "unasked"
  BY <1>1 DEF HInv, Unbegun
<1>9. ASSUME NEW a PROVE Foretold(<<>>, a)'
  <2>1. Ahead(a)' = Here(d, "enabled", 0, todo', a) \o Later(d, i, "enabled", DOMAIN d, a)
    BY <1>1 DEF Ahead, d, i
  <2>2. Here(d, "enabled", 0, todo', a) = <<>>
    BY DEF Here
  <2>3. Later(d, i, "enabled", DOMAIN d, a) = OrderOf(d, i, a)
    BY DEF Later, OrderOf
  <2> DEFINE all == OrderOf(d, i, a)
  <2>4. all \in Seq(Predicates)
    BY <1>3, AsksIn
  <2> HIDE DEF all
  <2>5. <<>> \o all = all /\ <<>> \o (<<>> \o all) = all
    BY <2>4, Concat
  <2>6. Joint(OrderOf(declared, intent, a), <<>>, Ahead(a))'
    BY <2>1, <2>2, <2>3, <2>5 DEF Joint, all, d, i
  <2>7. Undecided' = DOMAIN d
    BY <1>1 DEF Undecided
  <2>8. On(d, a) \ DOMAIN d = {}
    BY DEF On
  <2>9. Knows(a)'
    BY <1>1, <2>7, <2>8 DEF Knows, Judged, d
  <2> QED BY <2>6, <2>9 DEF Foretold
<1>10. Answering(<<>>)'
  BY <1>7, <1>8, <1>9 DEF Answering
<1> QED BY <1>1, <1>2, <1>6, <1>10, GoesAsking

LEMMA ConfiguringGoes ==
  ASSUME IInv, HInv, CInv', DInv', Configure \/ ConfigureFails \/ OthersWrite
  PROVE  HInv'
<1>1. CASE Configure /\ stage' = "enabled"
  BY <1>1, EnabledGoes
<1>2. CASE ConfigureFails \/ OthersWrite \/ (Configure /\ stage' # "enabled")
  <2>1. /\ stage \in ConfigStage /\ stage' \in ConfigStage \cup {"failed"}
        /\ UNCHANGED <<declared, asked, answers>>
        /\ stage' = "failed" => failure' = "config"
    <3>1. "failed" \notin ConfigStage
      BY DEF ConfigStage
    <3>2. CASE ConfigureFails
      BY <3>2, LoadConfigStops DEF ConfigureFails, merged, record
    <3>3. CASE OthersWrite
      BY <3>1, <3>3, AroundMoves DEF OthersWrite, merged, record
    <3>4. CASE Configure /\ stage' # "enabled"
      BY <3>1, <3>4, LoadConfigMoves DEF Configure, merged, record
    <3> QED BY <1>2, <3>2, <3>3, <3>4
  <2>2. ~Begun'
    BY <2>1 DEF Begun, ConfigStage
  <2>3. Unbegun'
    BY <2>1 DEF HInv, Unbegun
  <2>4. Broke'
    <3>1. stage' = "failed" => failure' = "config"
      BY <2>1
    <3> QED BY <3>1 DEF Broke
  <2> QED BY <2>2, <2>3, <2>4 DEF HInv, Where, Asking
<1> QED BY <1>1, <1>2

LEMMA NextGoes ==
  ASSUME IInv, IInv', HInv, [Next]_vars
  PROVE  HInv'
<1>0. CInv /\ CInv' /\ DInv
  BY DEF IInv, HInv
<1>1. DInv'
  BY <1>0, NextMerges
<1>2. CASE Load \/ LoadFails
  <2>1. UNCHANGED loadedElse
    BY <1>0, <1>2, LoadMoves
  <2> QED BY <1>1, <2>1, StandsStill DEF loadedElse, merged, verdict, selected, record
<1>3. CASE Resolving
  BY <1>3, ResolvingGoes
<1>4. CASE Configure \/ ConfigureFails \/ OthersWrite
  BY <1>0, <1>1, <1>4, ConfiguringGoes
<1>5. CASE UNCHANGED vars
  BY <1>1, <1>5, StandsStill DEF vars, condVars, configVars, merged, verdict, selected, record
<1> QED BY <1>2, <1>3, <1>4, <1>5, StepsOf

LEMMA InitGoes == Init => HInv
<1> SUFFICES ASSUME Init PROVE HInv
  OBVIOUS
<1>1. stage = "start" /\ declared = <<>> /\ asked = <<>> /\ answers = [c \in Predicates |-> "unasked"]
  BY DEF Init, CondInit, ConfigInit
<1> QED BY <1>1 DEF HInv, DInv, Where, Unbegun, Broke, Asking, Begun, Loaded, ConfigStage

(* The answers that were got are a guess, too.                               *)
LEMMA Documented ==
  ASSUME IInv, HInv
  PROVE  ResolvedAsDocumented
<1>0. Base /\ CInv /\ DInv /\ RInv /\ PInv /\ Asking
  BY DEF IInv, HInv, Base
<1>1. AskedInOrder
  <2>1. CASE stage \in ConfigStage \/ failure = "config"
    <3>1. asked = <<>>
      BY <2>1 DEF HInv, Unbegun
    <3>2. IsPrefix(<<>>, Order(answers))
      <4>1. declared = <<>>
        BY <2>1 DEF HInv, Unbegun
      <4>2. Plugins = {}
        BY <4>1 DEF Plugins
      <4>3. \A S, part : InTurn(S, part) = <<>>
        <5> SUFFICES ASSUME NEW S, NEW part PROVE InTurn(S, part) = <<>>
          OBVIOUS
        <5> DEFINE seqs == [p \in Plugins |-> IF p \in S THEN part[p] ELSE <<>>]
        <5>1. seqs = [k \in 1 .. 0 |-> <<>>]
          BY <4>2
        <5> HIDE DEF seqs
        <5>2. FlattenSeq(seqs) = <<>>
          BY <5>1, FlattenEmpty
        <5> QED BY <5>2 DEF InTurn, seqs
      <4>4. Order(answers) = <<>> \o <<>> \o <<>>
        BY <4>3 DEF Order
      <4>5. <<>> \o <<>> \o <<>> = <<>>
        BY ConcatEmptySeq
      <4>6. IsPrefix(<<>>, <<>>)
        BY DEF IsPrefix
      <4> QED BY <4>4, <4>5, <4>6
    <3>3. stage # "resolved"
      BY <1>0, <2>1 DEF RInv, ConfigStage
    <3> QED BY <3>1, <3>2, <3>3 DEF AskedInOrder
  <2>2. CASE stage \notin ConfigStage /\ failure # "config"
    <3>1. Order(answers) = OrderOf(declared, intent, answers)
      BY <1>0, <2>2, OrderIs DEF Loaded
    <3>2. CASE stage = "failed"
      BY <2>2, <3>1, <3>2 DEF HInv, Broke, AskedInOrder
    <3>3. CASE Begun
      <4>1. IsPrefix(asked, OrderOf(declared, intent, answers))
        BY <1>0, <3>3, AskedPrefix
      <4>2. ASSUME stage = "resolved" PROVE asked = OrderOf(declared, intent, answers)
        <5>1. PICK before : Answering(before)
          BY <1>0, <3>3 DEF Asking
        <5>2. answers \in Said /\ Fits(answers)
          BY <1>0 DEF PInv, Said, Fits
        <5>3. OrderOf(declared, intent, answers) = before \o Ahead(answers) /\ before \in Seq(Predicates)
          BY <5>1, <5>2 DEF Answering, Foretold, Joint
        <5>4. Ahead(answers) = <<>>
          <6>1. cur = 0
            BY <1>0, <3>3, <4>2 DEF Base, Where
          <6>2. Ahead(answers) = <<>> \o <<>>
            BY <4>2, <6>1 DEF Ahead, Here, Later
          <6> QED BY <6>2, ConcatEmptySeq
        <5>5. asked = before
          BY <4>2, <5>1 DEF Answering, Pending, AtHand
        <5> QED BY <5>3, <5>4, <5>5, Concat
      <4> QED BY <3>1, <4>1, <4>2 DEF AskedInOrder
    <3> QED BY <1>0, <2>2, <3>2, <3>3 DEF RInv, Stages, Begun
  <2> QED BY <2>1, <2>2
<1>2. ResolvedAsAnswered
  <2> SUFFICES ASSUME stage = "resolved" PROVE ResolvedAsAnswered
    BY DEF ResolvedAsAnswered
  <2>1. Begun
    BY DEF Begun
  <2>2. Loaded /\ queue = {} /\ cur = 0 /\ Plugins = DOMAIN declared /\ 0 \notin Plugins
    BY <1>0, <2>1, BegunFacts DEF Base, Where
  <2>3. \A p \in Plugins : setup[p] \in Seq(Items) /\ bindings[p] \in Seq(Items)
    BY <1>0, <2>1, BegunFacts
  <2>4. Enabled(answers) = On(declared, answers) /\ Eligible(answers) = ToLoad(declared, answers)
    BY <1>0, <2>2, OrderIs
  <2>5. Knows(answers)
    <3>1. PICK before : Answering(before)
      BY <1>0, <2>1 DEF Asking
    <3>2. answers \in Said /\ Fits(answers)
      BY <1>0 DEF PInv, Said, Fits
    <3> QED BY <3>1, <3>2 DEF Answering, Foretold
  <2>6. enabled = Enabled(answers) /\ (intent # "managed" => eligible = Eligible(answers))
    BY <2>4, <2>5 DEF Knows, Judged
  <2>7. ASSUME NEW kind \in {"setup", "bind"}, NEW got, Projects(Itself(kind), got, answers), NEW p \in Plugins,
               got[p] \in Seq(Items)
        PROVE  got[p] = IF p \in eligible THEN Of(Itself(kind), answers, p) ELSE <<>>
    <3>1. got[p] \o Left(Itself(kind), declared, queue, cur, todo, answers, p)
            = All(Itself(kind), declared, eligible, answers, p)
      BY <2>7 DEF Projects
    <3>2. Left(Itself(kind), declared, queue, cur, todo, answers, p) = <<>>
      BY <2>2 DEF Left
    <3>3. got[p] = All(Itself(kind), declared, eligible, answers, p)
      BY <2>7, <3>1, <3>2, Concat
    <3>4. Itself(kind) \in [Nodes -> Seq(Items)]
      BY OwnItself DEF Owns
    <3>5. Of(Itself(kind), answers, p) = VisitedOf(answers, Itself(kind), declared[p].runtime)
      BY <1>0, <2>2, <3>4, OfIs
    <3> QED BY <3>3, <3>5 DEF All
  <2>8. ASSUME intent = "runtime", NEW p \in Plugins
        PROVE  /\ setup[p] = IF p \in eligible THEN Of(Itself("setup"), answers, p) ELSE <<>>
               /\ bindings[p] = IF p \in eligible THEN Of(Itself("bind"), answers, p) ELSE <<>>
    <3>1. Projects(Itself("setup"), setup, answers) /\ Projects(Itself("bind"), bindings, answers)
      BY <2>5, <2>8 DEF Knows
    <3> QED BY <2>3, <2>7, <2>8, <3>1
  <2> QED BY <2>6, <2>8 DEF ResolvedAsAnswered
<1> QED BY <1>1, <1>2 DEF ResolvedAsDocumented

(* Every predicate that matters is run once and in the documented order, and  *)
(* none that does not; what is selected follows from the answers, whatever    *)
(* blocks there are and however the processes and the clock go (condition.rs, *)
(* resolve_plugins_with_runner, project_runtime_declarations).                *)
THEOREM ResolutionAsDocumented == Spec => []ResolvedAsDocumented
<1>1. Init => HInv
  BY InitGoes
<1>2. IInv /\ IInv' /\ HInv /\ [Next]_vars => HInv'
  BY NextGoes
<1>3. IInv /\ HInv => ResolvedAsDocumented
  BY Documented
<1> QED BY <1>1, <1>2, <1>3, Inductive, PTL DEF Spec
==============================================================================
