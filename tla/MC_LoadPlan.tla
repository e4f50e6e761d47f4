----------------------------- MODULE MC_LoadPlan -----------------------------
(* Small configurations for TLC.  tmup.kdl: a managed plugin with nested     *)
(* branches, a local one that is not always enabled, a managed one that is   *)
(* disabled, a second entry for the local directory that shares its names;   *)
(* and documents that must be rejected.                                      *)
EXTENDS LoadPlanReference

Opt(name)          == [node |-> "setup", name |-> name]
Bind(name)         == [node |-> "bind", name |-> name]
If(c, nodes)       == [node |-> "if", cond |-> c, children |-> nodes]
Else(nodes)        == [node |-> "else", children |-> nodes]
Options(a, n)      == [node |-> "options", value |-> <<a, n>>]
Plug(id, remote, on, cond, nodes) ==
  [node |-> "plug", id |-> id, remote |-> remote, sel |-> "kdl", enabled |-> on,
   cond |-> cond, children |-> nodes]

Nested ==
  << Opt("a"),
     If("outer", <<Bind("k"), If("inner", <<Opt("a")>>), If("never", <<Bind("k")>>),
                   Else(<<Opt("a")>>)>>),
     Else(<<Opt("a")>>) >>

MCDocument ==
  << Plug("x", TRUE, "always", "cond", Nested),
     Options(FALSE, 2),
     Plug("y", FALSE, "enabled", "always", <<Bind("k")>>),
     Plug("z", TRUE, "never", "always", <<Opt("a")>>),
     Plug("y", FALSE, "always", "always", <<Opt("a"), Bind("k")>>) >>

MCInvalid ==
  { <<Plug("x", TRUE, "always", "always", <<Opt("a"), Else(<<>>)>>)>>,
    <<Plug("x", TRUE, "always", "always", <<>>), Plug("x", TRUE, "never", "always", <<>>)>>,
    <<Options(TRUE, 1), Options(TRUE, 1)>>,
    <<[node |-> "plugin"]>> }

MCDocuments == {MCDocument} \cup MCInvalid

RECURSIVE Inside(_), Nesting(_)
Inner(b)   == {b[k].children : k \in {i \in DOMAIN b : IsBranch(b[i])}}
Inside(b)  == {b} \cup UNION {Inside(c) : c \in Inner(b)}
Nesting(b) == IF Inner(b) = {} THEN 0 ELSE 1 + Max({Nesting(c) : c \in Inner(b)})

MCBlocks == UNION {Inside(n.children) : n \in {m \in ElementsOf(MCDocuments) : IsPlug(m)}}
MCDepth  == [b \in MCBlocks |-> Nesting(b)]

Line0(id, sel)       == [line |-> "plugin", id |-> id, sel |-> sel]
Source(files, quiet) == [line |-> "source", files |-> files, quiet |-> quiet]

MCCandidates == <<"xdg", "config", "home">>

None0 == [f \in {} |-> <<>>]

Migrating ==   \* the main file, a pattern, a file that may be missing, a nested one
  [config |-> <<Line0("z", "default"), Source(<<"extra", "more">>, FALSE),
                Source(<<"gone">>, TRUE), [line |-> "other"]>>,
   home   |-> <<Line0("y", "default")>>,
   extra  |-> <<Line0("w", "b1"), Source(<<"nested">>, FALSE), Line0("z", "b2")>>,
   more   |-> <<Line0("x", "default"), Line0("w", "b2")>>,
   nested |-> <<Line0("v", "default")>>]

Strict  == [xdg |-> <<Source(<<"gone">>, FALSE)>>]
Broken0 == [xdg |-> <<[line |-> "malformed"]>>]

MCTrees == {None0, Migrating, Strict, Broken0}

ASSUME FilesOnce   \* as the theorem on the merge wants it
=============================================================================
