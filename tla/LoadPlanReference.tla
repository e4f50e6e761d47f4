-------------------------- MODULE LoadPlanReference --------------------------
(* What configuration.md and ADRs 0001 and 0002 say of mixed mode, and what  *)
(* an Init Session selects and in which order it asks, as functions of the   *)
(* files and the answers.                                                    *)
EXTENDS LoadPlan

Holds(a, c) == c = Always \/ (c \in Predicates /\ a[c] = "zero")   \* with answers a
Asks(c)     == IF c \in Predicates THEN <<c>> ELSE <<>>

(* What a reader collects who walks through a block in source order and      *)
(* goes into the branches that the answers say, where an else belongs to     *)
(* the if right before it: of every node passed what own says of it.         *)
Taken(a, b, k) == IF b[k].node = "if" THEN Holds(a, b[k].cond) ELSE ~Holds(a, b[k - 1].cond)

Visited(a, own) ==
  LET visited[b \in Blocks] ==
        FlattenSeq([k \in DOMAIN b |->
          own[b[k]] \o (IF IsBranch(b[k]) /\ Taken(a, b, k) THEN visited[b[k].children] ELSE <<>>)])
  IN  visited

ItsPredicate == [n \in Nodes |-> IF n.node = "if" THEN Asks(n.cond) ELSE <<>>]
Itself(kind) == [n \in Nodes |-> IF n.node = kind THEN <<n>> ELSE <<>>]

(* The predicates written in a block and those inside it.                    *)
WrittenIn[b \in Blocks] ==
  UNION {Range(ItsPredicate[n]) \cup (IF IsBranch(n) THEN WrittenIn[n.children] ELSE {}) : n \in Range(b)}

Under(n) == IF IsBranch(n) THEN WrittenIn[n.children] ELSE {}
WrittenAt(n) == Range(Asks(n.enabled)) \cup Range(Asks(n.cond)) \cup WrittenIn[n.children]

(* Predicates are told apart by the place they are written at.               *)
ASSUME PlacesAssumption ==
  /\ \A b \in Blocks : \A k \in DOMAIN b :
       /\ Range(ItsPredicate[b[k]]) \cap Under(b[k]) = {}
       /\ \A j \in DOMAIN b : j # k =>
            (Range(ItsPredicate[b[j]]) \cup Under(b[j])) \cap (Range(ItsPredicate[b[k]]) \cup Under(b[k])) = {}
  /\ \A doc \in Documents : \A k \in DOMAIN doc : IsPlug(doc[k]) =>
       /\ Range(Asks(doc[k].enabled)) \cap Range(Asks(doc[k].cond)) = {}
       /\ (Range(Asks(doc[k].enabled)) \cup Range(Asks(doc[k].cond))) \cap WrittenIn[doc[k].children] = {}
       /\ \A j \in DOMAIN doc : (IsPlug(doc[j]) /\ j # k) => WrittenAt(doc[j]) \cap WrittenAt(doc[k]) = {}

Enabled(a)  == {p \in Plugins : Holds(a, declared[p].enabled)}
Eligible(a) == {p \in Enabled(a) : Holds(a, declared[p].cond)}

Of(own, a, p) ==   \* what is collected in the block of a plugin
  IF declared[p].place = 0 THEN <<>> ELSE Visited(a, own)[kdl[declared[p].place].children]

InTurn(S, part) == FlattenSeq([p \in Plugins |-> IF p \in S THEN part[p] ELSE <<>>])

Order(a) ==
  InTurn(Plugins, [p \in Plugins |-> Asks(declared[p].enabled)])
    \o (IF intent # "managed" THEN InTurn(Enabled(a), [p \in Plugins |-> Asks(declared[p].cond)]) ELSE <<>>)
    \o (IF intent = "runtime" THEN InTurn(Eligible(a), [p \in Plugins |-> Of(ItsPredicate, a, p)]) ELSE <<>>)

(* Predicates are run in the documented order, each once, and only those     *)
(* that matter: no load condition of a disabled plugin, no branch of an      *)
(* ineligible one or of an outer branch that was not taken.                  *)
AskedInOrder ==
  /\ IsPrefix(asked, Order(answers))
  /\ stage = "resolved" => asked = Order(answers)

(* A resolution that succeeds selects what the answers say, and nothing of a *)
(* plugin that is disabled or not to be loaded.                              *)
ResolvedAsAnswered ==
  stage = "resolved" =>
    /\ enabled = Enabled(answers)
    /\ intent # "managed" => eligible = Eligible(answers)
    /\ intent = "runtime" => \A p \in Plugins :
         /\ setup[p] = IF p \in eligible THEN Of(Itself("setup"), answers, p) ELSE <<>>
         /\ bindings[p] = IF p \in eligible THEN Of(Itself("bind"), answers, p) ELSE <<>>

(* Conditions are resolved as documented: what is asked, and what follows    *)
(* from the answers.                                                         *)
ResolvedAsDocumented == AskedInOrder /\ ResolvedAsAnswered

-----------------------------------------------------------------------------
(* Mixed mode.                                                               *)

LinesOf(f) == {tmux[f][k] : k \in DOMAIN tmux[f]}
PluginsOf(f) == {l.id : l \in {m \in LinesOf(f) : m.line = "plugin"}}

Directives == {k \in DOMAIN tmux[root] : tmux[root][k].line = "source"}
SourcedBy(k) ==
  UNION {PluginsOf(f) : f \in {g \in DOMAIN tmux : \E j \in DOMAIN tmux[root][k].files :
                                                     tmux[root][k].files[j] = g}}
ByTpm == IF root = NoFile THEN {} ELSE PluginsOf(root) \cup UNION {SourcedBy(k) : k \in Directives}

First(S) == CHOOSE k \in S : \A j \in S : k <= j

Rank(id) ==   \* the main file first, then what it sources, in turn
  IF id \in PluginsOf(root)
  THEN First({k \in DOMAIN tmux[root] : tmux[root][k].line = "plugin" /\ tmux[root][k].id = id})
  ELSE Len(tmux[root]) + First({k \in Directives : id \in SourcedBy(k)})

InKdl    == {k \in DOMAIN kdl : kdl[k].node = "plug"}
KdlIds   == {kdl[k].id : k \in {j \in InKdl : kdl[j].remote}}
Places   == {declared[p].place : p \in Plugins}
Tpm(p)   == declared[p].remote /\ declared[p].id \in ByTpm

(* In the trees that follow, a tmux configuration sources no file twice, and *)
(* not itself: what was scanned can then be told from the files there are.   *)
SourcedOnce(tree) ==
  \A r \in DOMAIN tree \cap Range(Candidates) : \A j, k \in DOMAIN tree[r] :
    (tree[r][j].line = "source" /\ tree[r][k].line = "source") =>
      \A m \in DOMAIN tree[r][j].files, n \in DOMAIN tree[r][k].files :
        /\ tree[r][j].files[m] # r
        /\ tree[r][j].files[m] = tree[r][k].files[n] => j = k /\ m = n

FilesOnce == \A tree \in Trees : SourcedOnce(tree)

(* The merged configuration holds every declaration of tmup.kdl once, and    *)
(* every plugin that only the tmux configuration declares, and no other: a   *)
(* KDL declaration replaces the one of the same id, also when it is          *)
(* disabled, in the place of the latter.  Those of the tmux configuration    *)
(* come first: those of the main file in their order, then those it sources, *)
(* directive by directive (the files of one directive are not told apart);   *)
(* then come the others, in the order of tmup.kdl (configuration.md, Mixed   *)
(* TPM mode; ADR 0001).                                                      *)
MergedAsDocumented ==
  Loaded =>
    /\ Places \ {0} = InKdl
    /\ \A p, q \in Plugins : p # q => \/ declared[p].place # declared[q].place
                                      \/ declared[p].id # declared[q].id
    /\ {declared[p].id : p \in {q \in Plugins : declared[q].place = 0}} = ByTpm \ KdlIds
    /\ \A p, q \in Plugins : p < q =>
         /\ Tpm(q) => Tpm(p) /\ Rank(declared[p].id) <= Rank(declared[q].id)
         /\ ~Tpm(p) => declared[p].place < declared[q].place
=============================================================================
