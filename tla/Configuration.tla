---------------------------- MODULE Configuration ----------------------------
(***************************************************************************)
(* How one command comes by its declarations: it may create a default      *)
(* tmup.kdl, in mixed mode it finds the tmux configuration and scans it    *)
(* with the files it sources, it parses tmup.kdl and merges the two.  The  *)
(* user and, for a command without the operation lock, another tmup write  *)
(* or remove these files meanwhile.                                        *)
(***************************************************************************)
EXTENDS Naturals, Sequences, FiniteSets

CONSTANTS
  Ids,          \* canonical remote ids and local paths
  Predicates,   \* the shell predicates, one for each place they are written at
  Always, Never,
  Documents,    \* what a user may have in tmup.kdl: sequences of nodes
  Blocks,       \* the blocks of nodes in them, also those inside others
  Depth,        \* how deep each of these is nested at most
  Candidates,   \* where a tmux configuration is looked for, in this order
  Trees         \* the tmux files a user may have: file name -> lines

Conditions == Predicates \cup {Always, Never}
Intents    == {"managed", "eligibility", "runtime"}
NoFile     == "no file"

(* A node of tmup.kdl; options are the pair auto-install, concurrency.      *)
OtherDefaults  == <<FALSE, 16>>   \* faulty: not those of the template
DefaultOptions == <<TRUE, 16>>

Template == <<[node |-> "options", value |-> <<TRUE, 16>>]>>

ElementsOf(S) == UNION {{s[k] : k \in DOMAIN s} : s \in S}   \* of the sequences in S
Nodes         == ElementsOf(Blocks)
TmuxFiles     == UNION {{tree[f] : f \in DOMAIN tree} : tree \in Trees}

IsOptions(n) == n.node = "options"
IsPlug(n)    == n.node = "plug"
IsBranch(n)  == n.node \in {"if", "else"}

ASSUME ConfigurationAssumption ==
  /\ Always # Never /\ {Always, Never} \cap Predicates = {}
  /\ {<<>>, Template} \cap Documents = {}
  /\ Documents \subseteq Seq(ElementsOf(Documents)) /\ Blocks \subseteq Seq(ElementsOf(Blocks))
  /\ \A n \in ElementsOf(Documents) :
       /\ IsOptions(n) => n.value \in BOOLEAN \X Nat
       /\ IsPlug(n) => /\ n.id \in Ids /\ n.remote \in BOOLEAN /\ n.children \in Blocks
                       /\ {n.enabled, n.cond} \subseteq Conditions
  /\ \A n \in ElementsOf(Blocks) :
       /\ IsBranch(n) => n.children \in Blocks
       /\ n.node = "if" => n.cond \in Conditions
  /\ Depth \in [Blocks -> Nat]
  /\ \A b \in Blocks : \A k \in DOMAIN b : IsBranch(b[k]) => Depth[b[k].children] < Depth[b]
  /\ Candidates \in Seq(ElementsOf({Candidates})) /\ Candidates # <<>>
  /\ TmuxFiles \subseteq Seq(ElementsOf(TmuxFiles))
  /\ \A l \in ElementsOf(TmuxFiles) :
       /\ l.line \in {"plugin", "malformed", "source", "other"}
       /\ l.line = "plugin" => l.id \in Ids
       /\ l.line = "source" => l.files \in Seq(ElementsOf({l.files})) /\ l.files # <<>>

Absent     == [is |-> "absent", doc |-> <<>>]
Whole(doc) == [is |-> "whole", doc |-> doc]
Cut        == [is |-> "cut", doc |-> <<>>]    \* the template, written in part
Files      == {Absent, Cut} \cup {Whole(doc) : doc \in Documents \cup {<<>>, Template}}

VARIABLES
  intent, mode,       \* what the caller needs resolved; pure or mixed
  tmup, tmux,         \* tmup.kdl; the tmux files there are
  stage,              \* where the command is
  root,               \* the tmux configuration that was found
  inputs,             \* the lines that are scanned
  sources, paths,     \* source directives not expanded; files not opened
  kdl,                \* the document read from tmup.kdl
  declared, options,  \* the merged declarations and the options
  failure             \* why the command failed

scan       == <<root, inputs, sources, paths>>
merged     == <<kdl, declared, options>>
configVars == <<intent, mode, tmup, tmux, stage, scan, merged, failure>>

Plugins     == DOMAIN declared
ConfigStage == {"start", "write", "discover", "root", "expand", "open", "kdl"}

-----------------------------------------------------------------------------
(* Numbers in ascending order, and the elements of a sequence at such       *)
(* places: SelectSeq, with the places instead of a test.                    *)

Sorted(S) ==
  [k \in 1 .. Cardinality(S) |-> CHOOSE x \in S : Cardinality({y \in S : y < x}) = k - 1]

Picked(s, places) == [j \in 1 .. Cardinality(places) |-> s[Sorted(places)[j]]]

-----------------------------------------------------------------------------
(* parse_config_document.  A block stays the sequence of nodes it is.       *)

OptionNodes(doc) == {k \in DOMAIN doc : IsOptions(doc[k])}

ElseOfAny(nodes) ==   \* faulty: takes the else of a later if
  IF \E k \in DOMAIN nodes : nodes[k].node = "else"
  THEN nodes[CHOOSE k \in DOMAIN nodes : nodes[k].node = "else"].children ELSE <<>>

ElseOf(nodes) ==      \* of the if at the head: only the node right after it
  IF Len(nodes) > 1 /\ nodes[2].node = "else" THEN nodes[2].children ELSE <<>>

AfterBranch(nodes) == \* what follows the if at the head and its else
  IF Len(nodes) > 1 /\ nodes[2].node = "else" THEN Tail(Tail(nodes)) ELSE Tail(nodes)

Misplaced[b \in Blocks] ==   \* an else that follows no if, or a node that is not known
  \E k \in DOMAIN b :
    \/ b[k].node \notin {"setup", "bind", "if", "else"}
    \/ b[k].node = "else" /\ (k = 1 \/ b[k - 1].node # "if")
    \/ IsBranch(b[k]) /\ Misplaced[b[k].children]

Declaration(doc, k) ==
  [id |-> doc[k].id, remote |-> doc[k].remote, sel |-> doc[k].sel,
   enabled |-> doc[k].enabled, cond |-> doc[k].cond,
   runtime |-> doc[k].children, place |-> k]

Declarations(doc) ==
  LET places == Sorted({k \in DOMAIN doc : IsPlug(doc[k])})
  IN  [j \in DOMAIN places |-> Declaration(doc, places[j])]

RemoteTwice(doc) ==   \* validate_unique_ids
  \E j, k \in DOMAIN doc :
    j < k /\ IsPlug(doc[j]) /\ IsPlug(doc[k]) /\ doc[j].remote /\ doc[k].remote
      /\ doc[j].id = doc[k].id

Invalid(doc) ==
  \/ \E k \in DOMAIN doc : ~IsOptions(doc[k]) /\ ~IsPlug(doc[k])
  \/ Cardinality(OptionNodes(doc)) > 1
  \/ \E k \in DOMAIN doc : IsPlug(doc[k]) /\ Misplaced[doc[k].children]
  \/ RemoteTwice(doc)

OptionsOf(doc) ==
  IF OptionNodes(doc) = {} THEN DefaultOptions
  ELSE doc[CHOOSE k \in OptionNodes(doc) : TRUE].value

-----------------------------------------------------------------------------
(* The scan of the tmux configuration, and the merge.                       *)

Scanned ==            \* load_config_from_path: the first declaration of an id
  LET plugins == {k \in DOMAIN inputs : inputs[k].line = "plugin"}
  IN  Picked(inputs, {k \in plugins : \A j \in plugins : j < k => inputs[j].id # inputs[k].id})

FromTpm(l) ==
  [id |-> l.id, remote |-> TRUE, sel |-> l.sel, enabled |-> Always, cond |-> Always,
   runtime |-> <<>>, place |-> 0]

Matches(kdls, l) == {k \in DOMAIN kdls : kdls[k].remote /\ kdls[k].id = l.id}

MergeKeepingTpm(kdls, tpms) ==   \* faulty: a disabled declaration does not count
  LET live == Picked(kdls, {k \in DOMAIN kdls : kdls[k].enabled # Never})
      new  == Picked(tpms, {k \in DOMAIN tpms : Matches(live, tpms[k]) = {}})
  IN  [k \in DOMAIN new |-> FromTpm(new[k])] \o live

Merge(kdls, tpms) ==
  LET slot(l) == IF Matches(kdls, l) = {} THEN FromTpm(l)
                 ELSE kdls[CHOOSE k \in Matches(kdls, l) : TRUE]
      consumed == UNION {Matches(kdls, tpms[j]) : j \in DOMAIN tpms}
  IN  [j \in DOMAIN tpms |-> slot(tpms[j])] \o Picked(kdls, DOMAIN kdls \ consumed)

-----------------------------------------------------------------------------
(* load_with_request.                                                       *)

FailsToLoad ==
  /\ stage' = "failed" /\ failure' = "config"
  /\ UNCHANGED <<intent, mode, tmux, scan, merged>>

GoesTo(to) == stage' = to /\ UNCHANGED <<intent, mode, tmux, failure>>

AfterCreation == IF mode = "mixed" THEN "discover" ELSE "kdl"

Found ==              \* list and init load a default without creating it
  /\ stage = "start" /\ (intent # "managed" \/ tmup # Absent)
  /\ GoesTo(AfterCreation) /\ UNCHANGED <<tmup, scan, merged>>

Create ==             \* create_new: fails if there is a file by now
  /\ stage = "start" /\ intent = "managed" /\ tmup = Absent
  /\ tmup' = Whole(<<>>)
  /\ GoesTo("write") /\ UNCHANGED <<scan, merged>>

CreateFails ==
  /\ stage = "start" /\ intent = "managed" /\ tmup = Absent
  /\ FailsToLoad /\ UNCHANGED tmup

Written(content) ==   \* into the file that was created, if it is still there
  tmup' = IF tmup = Whole(<<>>) THEN content ELSE tmup

WriteTemplate ==
  /\ stage = "write" /\ Written(Whole(Template))
  /\ GoesTo(AfterCreation) /\ UNCHANGED <<scan, merged>>

WriteFails ==
  /\ stage = "write" /\ FailsToLoad
  /\ \E content \in {Whole(<<>>), Cut} : Written(content)

Existing(files) == Picked(files, {k \in DOMAIN files : files[k] \in DOMAIN tmux})

Discover ==           \* without HOME only the first place is looked at
  /\ stage = "discover"
  /\ \E places \in {Candidates, <<Head(Candidates)>>} :
       root' = IF Existing(places) = <<>> THEN NoFile ELSE Head(Existing(places))
  /\ GoesTo(IF root' = NoFile THEN "kdl" ELSE "root")
  /\ UNCHANGED <<tmup, inputs, sources, paths, merged>>

ReadRoot ==
  /\ stage = "root" /\ root \in DOMAIN tmux
  /\ inputs' = tmux[root]
  /\ sources' = Picked(inputs', {k \in DOMAIN inputs' : inputs'[k].line = "source"})
  /\ GoesTo("expand") /\ UNCHANGED <<tmup, root, paths, merged>>

ReadRootFails == stage = "root" /\ FailsToLoad /\ UNCHANGED tmup

Expand ==             \* a pattern without a match stands for itself
  /\ stage = "expand" /\ sources # <<>>
  /\ paths' = LET found == Existing(Head(sources).files)
              IN IF found = <<>> THEN <<Head(Head(sources).files)>> ELSE found
  /\ GoesTo("open") /\ UNCHANGED <<tmup, root, inputs, sources, merged>>

Open ==
  /\ stage = "open" /\ paths # <<>> /\ Head(paths) \in DOMAIN tmux
  /\ inputs' = inputs \o tmux[Head(paths)]
  /\ paths' = Tail(paths)
  /\ UNCHANGED <<intent, mode, tmup, tmux, stage, root, sources, merged, failure>>

OpenMissing ==        \* source -q
  /\ stage = "open" /\ paths # <<>> /\ Head(paths) \notin DOMAIN tmux
  /\ Head(sources).quiet /\ paths' = Tail(paths)
  /\ UNCHANGED <<intent, mode, tmup, tmux, stage, root, inputs, sources, merged, failure>>

ExpandFails ==        \* an unknown variable or an invalid pattern, quiet or not
  stage = "expand" /\ sources # <<>> /\ FailsToLoad /\ UNCHANGED tmup

OpenFails ==
  /\ stage = "open" /\ paths # <<>>
  /\ Head(paths) \in DOMAIN tmux \/ ~Head(sources).quiet
  /\ FailsToLoad /\ UNCHANGED tmup

Opened ==
  /\ stage = "open" /\ paths = <<>> /\ sources' = Tail(sources)
  /\ GoesTo("expand") /\ UNCHANGED <<tmup, root, inputs, paths, merged>>

Malformed == \E k \in DOMAIN inputs : inputs[k].line = "malformed"

ScanEnds ==
  /\ stage = "expand" /\ sources = <<>> /\ ~Malformed
  /\ GoesTo("kdl") /\ UNCHANGED <<tmup, scan, merged>>

ScanFails ==
  /\ stage = "expand" /\ sources = <<>> /\ Malformed
  /\ FailsToLoad /\ UNCHANGED tmup

Loads(doc) ==
  /\ kdl' = doc /\ options' = OptionsOf(doc)
  /\ declared' = IF root = NoFile THEN Declarations(doc)
                 ELSE Merge(Declarations(doc), Scanned)
  /\ UNCHANGED <<tmup, scan>>

ReadKdl ==            \* some beginnings of the template parse: they declare nothing
  /\ stage = "kdl" /\ tmup # Absent /\ ~Invalid(tmup.doc)
  /\ Loads(tmup.doc) /\ GoesTo("enabled")

MustExist == mode = "pure" /\ intent = "managed"

UseDefault ==
  /\ stage = "kdl" /\ tmup = Absent /\ ~MustExist
  /\ Loads(Template) /\ GoesTo("enabled")

ReadKdlFails ==       \* or the file cannot be read
  /\ stage = "kdl" /\ (tmup # Absent \/ MustExist)
  /\ FailsToLoad /\ UNCHANGED tmup

-----------------------------------------------------------------------------
(* Around the command, as long as it reads its configuration.               *)

Meanwhile ==
  /\ stage \in ConfigStage
  /\ UNCHANGED <<intent, mode, stage, scan, merged, failure>>

UserWrites ==
  /\ Meanwhile /\ tmup = Absent /\ UNCHANGED tmux
  /\ \E doc \in Documents : tmup' = Whole(doc)

UserRemoves == Meanwhile /\ tmup # Absent /\ tmup' = Absent /\ UNCHANGED tmux

AnotherCreates ==     \* a command that holds the operation lock
  /\ Meanwhile /\ intent = "eligibility" /\ UNCHANGED tmux
  /\ \/ tmup = Absent /\ tmup' = Whole(<<>>)
     \/ tmup = Whole(<<>>) /\ tmup' \in {Cut, Whole(Template)}

TmuxFileGoes ==       \* a file that was seen is gone when it is opened
  /\ Meanwhile /\ UNCHANGED tmup
  /\ \E f \in DOMAIN tmux :
       /\ \/ stage = "root" /\ f = root
          \/ stage = "open" /\ paths # <<>> /\ f = Head(paths)
       /\ tmux' = [g \in DOMAIN tmux \ {f} |-> tmux[g]]

-----------------------------------------------------------------------------
ConfigInit ==
  /\ intent \in Intents /\ mode \in {"pure", "mixed"}
  /\ tmup \in Files /\ tmux \in IF mode = "mixed" THEN Trees ELSE {<<>>}
  /\ stage = "start" /\ root = NoFile /\ inputs = <<>> /\ sources = <<>> /\ paths = <<>>
  /\ kdl = <<>> /\ declared = <<>> /\ options = DefaultOptions /\ failure = "none"

LoadConfig ==
  \/ Found \/ Create \/ WriteTemplate \/ Discover \/ ReadRoot \/ Expand \/ Open
  \/ OpenMissing \/ Opened \/ ScanEnds \/ ReadKdl \/ UseDefault

LoadConfigFails ==
  \/ CreateFails \/ WriteFails \/ ReadRootFails \/ ExpandFails \/ OpenFails \/ ScanFails
  \/ ReadKdlFails

Around == UserWrites \/ UserRemoves \/ AnotherCreates \/ TmuxFileGoes

-----------------------------------------------------------------------------
Loaded == stage \notin ConfigStage /\ failure # "config"

(* As long as the user has written no tmup.kdl, every command that loads     *)
(* does so with the same options and without a native declaration, however   *)
(* far the creation of the default file has got in this command, in another  *)
(* one or in one that crashed (configuration.md:17).                         *)
FirstStartUnseen ==
  (Loaded /\ kdl \notin Documents) =>
    /\ options = Template[1].value
    /\ \A p \in Plugins : declared[p].place = 0
=============================================================================
