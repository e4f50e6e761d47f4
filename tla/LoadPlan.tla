------------------------------ MODULE LoadPlan ------------------------------
(***************************************************************************)
(* What an Init Session does to tmux: it resolves its conditions, sync     *)
(* tells it which plugins to leave out, build_load_plan orders the         *)
(* commands of the others in global phases, and execute_load_plan runs     *)
(* them, leaving a plugin alone once one of its commands has failed.       *)
(***************************************************************************)
EXTENDS Conditions, SequencesExt

CONSTANTS
  Names,       \* options, environment variables and keys
  MaxScripts   \* bound on the *.tmux scripts of a plugin

Line == [node : {"setup", "bind"}, name : Names]

ASSUME LoadPlanAssumption ==
  /\ MaxScripts \in Nat
  /\ \A n \in ElementsOf(Blocks) : n.node \in {"setup", "bind"} => n \in Line

VARIABLES
  step,                \* where the session is
  excluded, unsynced,  \* ids that sync left out, those of them that it reports
  plan, next,          \* the load plan and the next command of it
  broken,              \* failed_plugin_ids
  failures,            \* the commands that failed, in order
  ran,                 \* history: how every command went
  last,                \* tmux: the command that wrote every name last, 0 for none
  outcome

loading == <<step, excluded, unsynced, plan, next, broken, failures, ran, last, outcome>>
vars    == <<condVars, loading>>

loadedElse == <<intent, mode, tmux, stage, scan, merged, failure, queue, cur, todo,
                verdict, selected, shell, record>>

Command == [plugin : 1 .. Len(declared), kind : {"setup", "script", "bind"}, name : Names \cup {"script"}]

-----------------------------------------------------------------------------
(* build_load_plan.                                                         *)

Commands(p, declarations) ==
  [k \in DOMAIN declarations |->
     [plugin |-> p, kind |-> declarations[k].node, name |-> declarations[k].name]]

Scripts(p, count) == [k \in 1 .. count |-> [plugin |-> p, kind |-> "script", name |-> "script"]]

InOrder(part) ==   \* the parts of the eligible plugins, in declaration order
  FlattenSeq([p \in Plugins |-> IF p \in eligible THEN part[p] ELSE <<>>])

PlanByPlugin(count) ==   \* faulty: every plugin goes through its phases on its own
  InOrder([p \in Plugins |-> Commands(p, setup[p]) \o Scripts(p, count[p])
                               \o Commands(p, bindings[p])])

BuildPlan(count) ==
  InOrder([p \in Plugins |-> Commands(p, setup[p])])
    \o InOrder([p \in Plugins |-> Scripts(p, count[p])])
    \o InOrder([p \in Plugins |-> Commands(p, bindings[p])])

-----------------------------------------------------------------------------
(* Sync, as the load sees it: some managed plugins fail, some are skipped   *)
(* as known failures, or the whole operation fails.                         *)

Starts ==          \* execute_core, with the operation lock
  step = "conditions" /\ stage = "resolved" /\ intent = "runtime"

Sync ==
  /\ Starts /\ step' = "plan"
  /\ tmup' = IF tmup = Absent THEN Whole(Template) ELSE tmup
  /\ excluded' \in SUBSET {declared[p].id : p \in {q \in enabled : declared[q].remote}}
  /\ unsynced' \in SUBSET excluded'
  /\ UNCHANGED <<loadedElse, plan, next, broken, failures, ran, last, outcome>>

SyncFails ==       \* also when tmup.kdl cannot be created, or not written
  /\ Starts /\ step' = "ended" /\ outcome' = "error"
  /\ tmup' \in IF tmup = Absent THEN {Absent, Cut, Whole(<<>>), Whole(Template)} ELSE {tmup}
  /\ UNCHANGED <<loadedElse, excluded, unsynced, plan, next, broken, failures, ran, last>>

Plans ==            \* the scripts are those found on disk after the sync
  /\ step = "plan" /\ step' = "global"
  /\ \E count \in [Plugins -> 0 .. MaxScripts] : plan' = BuildPlan(count)
  /\ ran' = [k \in DOMAIN plan' |-> "no"]
  /\ UNCHANGED <<condVars, excluded, unsynced, next, broken, failures, last, outcome>>

GlobalSetup ==      \* set-environment TMUX_PLUGIN_MANAGER_PATH
  /\ step = "global" /\ step' = "commands" /\ broken' = excluded
  /\ UNCHANGED <<condVars, excluded, unsynced, plan, next, failures, ran, last, outcome>>

GlobalSetupFails == \* not attributable to a plugin
  /\ step = "global" /\ step' = "ended" /\ outcome' = "error"
  /\ UNCHANGED <<condVars, excluded, unsynced, plan, next, broken, failures, ran, last>>

-----------------------------------------------------------------------------
(* execute_load_plan.                                                       *)

AtCommand == step = "commands" /\ next <= Len(plan)
Owner(k)  == declared[plan[k].plugin].id

Goes(how) ==
  /\ ran' = [ran EXCEPT ![next] = how] /\ next' = next + 1
  /\ UNCHANGED <<condVars, step, excluded, unsynced, plan, outcome>>

Writes(names) == last' = [n \in Names |-> IF n \in names THEN next ELSE last[n]]

Touched ==          \* what a command may write: a script, whatever it likes
  IF plan[next].kind = "script" THEN SUBSET Names ELSE {{plan[next].name}}

SkipCommand ==
  /\ AtCommand /\ Owner(next) \in broken /\ next' = next + 1
  /\ UNCHANGED <<condVars, step, excluded, unsynced, plan, broken, failures, ran, last, outcome>>

ExecuteAnything ==  \* faulty: runs the commands of excluded and failed plugins too
  /\ AtCommand /\ Goes("ok")
  /\ \E names \in Touched : Writes(names)
  /\ UNCHANGED <<broken, failures>>

Execute ==
  /\ AtCommand /\ Owner(next) \notin broken /\ Goes("ok")
  /\ \E names \in Touched : Writes(names)
  /\ UNCHANGED <<broken, failures>>

FailsAlone ==       \* faulty: the plugin's later commands are still run
  /\ AtCommand /\ Owner(next) \notin broken /\ Goes("failed")
  /\ failures' = Append(failures, next)
  /\ UNCHANGED <<broken, last>>

ExecuteFails ==     \* a script may have done something before it failed
  /\ AtCommand /\ Owner(next) \notin broken /\ Goes("failed")
  /\ broken' = broken \cup {Owner(next)}
  /\ failures' = Append(failures, next)
  /\ \E names \in IF plan[next].kind = "script" THEN Touched ELSE {{}} : Writes(names)

Finish ==
  /\ step = "commands" /\ next > Len(plan) /\ step' = "ended"
  /\ outcome' = IF failures = <<>> /\ unsynced = {} THEN "ok" ELSE "failures"
  /\ UNCHANGED <<condVars, excluded, unsynced, plan, next, broken, failures, ran, last>>

-----------------------------------------------------------------------------
Init ==
  /\ CondInit
  /\ step = "conditions" /\ excluded = {} /\ unsynced = {}
  /\ plan = <<>> /\ next = 1 /\ broken = {} /\ failures = <<>> /\ ran = <<>>
  /\ last = [n \in Names |-> 0] /\ outcome = "none"

Load      == Sync \/ Plans \/ GlobalSetup \/ SkipCommand \/ Execute \/ Finish
LoadFails == SyncFails \/ GlobalSetupFails \/ ExecuteFails

Program ==   \* nothing has to fail, but for files that cannot be used
  Load \/ ((Resolve \/ ConfigureFails) /\ UNCHANGED loading)

Next ==
  \/ Program \/ LoadFails
  \/ (ResolveFails \/ Predicate \/ OthersWrite) /\ UNCHANGED loading

Spec     == Init /\ [][Next]_vars
FairSpec == Spec /\ WF_vars(Program)

-----------------------------------------------------------------------------
(* Properties.                                                              *)

(* Every variable has its type.                                             *)
TypeOK ==
  /\ intent \in Intents /\ mode \in {"pure", "mixed"} /\ tmup \in Files
  /\ stage \in ConfigStage \cup {"enabled", "cond", "if", "resolved", "failed"}
  /\ root \in {NoFile} \cup {Candidates[k] : k \in DOMAIN Candidates}
  /\ \A p \in Plugins : /\ declared[p].id \in Ids /\ declared[p].place \in 0 .. Len(kdl)
                        /\ {declared[p].enabled, declared[p].cond} \subseteq Conditions
  /\ options \in BOOLEAN \X Nat
  /\ queue \subseteq Plugins /\ cur \in Plugins \cup {0}
  /\ enabled \subseteq Plugins /\ eligible \subseteq Plugins
  /\ todo \in Seq(ElementsOf(Blocks))
  /\ setup \in [DOMAIN setup -> Seq(Line)] /\ bindings \in [DOMAIN setup -> Seq(Line)]
  /\ shell \in [state : {"none", "running", "zero", "nonzero", "signal", "killed"},
                age : 0 .. Timeout, ended : 0 .. Timeout,
                step : {"poll", "sleep", "last", "kill"}]
  /\ asked \in Seq(Predicates) /\ answers \in [Predicates -> {"unasked", "zero", "nonzero"}]
  /\ failure \in {"none", "config", "spawn", "signal", "timeout", "monitor"}
  /\ step \in {"conditions", "plan", "global", "commands", "ended"}
  /\ excluded \subseteq Ids /\ unsynced \subseteq excluded /\ broken \subseteq Ids
  /\ plan \in Seq(Command) /\ next \in 1 .. Len(plan) + 1
  /\ failures \in Seq(1 .. Len(plan))
  /\ ran \in [DOMAIN plan -> {"no", "ok", "failed"}]
  /\ last \in [Names -> 0 .. Len(plan)]
  /\ outcome \in {"none", "ok", "failures", "error"}

(* A predicate that exits before its time is up is answered by its exit     *)
(* status and never reported as timed out (condition.rs, run).              *)
NoFalseTimeout ==
  (failure = "timeout" /\ shell.state # "killed") => shell.ended >= Timeout

(* No predicate keeps running after the resolution has ended, unless the    *)
(* system refused to let it be watched or killed.                           *)
NoStrayProcess ==
  (stage \in {"resolved", "failed"} /\ failure # "monitor") => shell.state # "running"

(* A predicate is judged by what it did, and not left behind.               *)
PredicateJudged == NoFalseTimeout /\ NoStrayProcess

(* A resolution ends, also when a predicate never exits, and so does the    *)
(* load that follows it.                                                    *)
InitEnds == <>(stage = "failed" \/ step = "ended" \/ (stage = "resolved" /\ intent # "runtime"))

(* A command has been run exactly if its plugin was neither left out by     *)
(* sync nor had a command fail before, in this phase or an earlier one; the *)
(* failures reported are those of the commands that failed, and success is  *)
(* reported only if neither sync nor any command failed.                    *)
Ready(k) ==
  /\ Owner(k) \notin excluded
  /\ \A j \in 1 .. k - 1 : Owner(j) = Owner(k) => ran[j] # "failed"

FailedLeftAlone ==
  /\ step = "commands" =>
       \A k \in DOMAIN plan : ran[k] # "no" <=> k < next /\ Ready(k)
  /\ outcome \in {"ok", "failures"} =>
       \A k \in DOMAIN plan : ran[k] # "no" <=> Ready(k)
  /\ \A k \in DOMAIN plan : ran[k] = "failed" <=> \E m \in DOMAIN failures : failures[m] = k
  /\ outcome = "ok" => unsynced = {} /\ failures = <<>>

(* When a script runs, every plugin that is loaded and has not failed has    *)
(* applied all the options and variables selected for it.                    *)
ScriptsSeeSetup ==
  \A k \in DOMAIN plan : (plan[k].kind = "script" /\ ran[k] # "no") =>
    \A p \in eligible : declared[p].id \notin broken =>
      LET applied == Picked(plan, {j \in 1 .. k - 1 : /\ ran[j] = "ok" /\ plan[j].plugin = p
                                                      /\ plan[j].kind = "setup"})
      IN applied = Commands(p, setup[p])

(* Once everything has been run, a binding overrides what scripts and earlier *)
(* bindings did to its key.                                                 *)
BindingsWin ==
  outcome \in {"ok", "failures"} => \A k \in DOMAIN plan :
    (plan[k].kind = "bind" /\ ran[k] = "ok") =>
      /\ last[plan[k].name] >= k
      /\ plan[last[plan[k].name]].kind = "bind"

(* Scripts see the options and variables of every plugin, and an explicit    *)
(* binding overrides whatever any plugin's script did to its key, whatever   *)
(* the order of declaration (design.md, TPM Compatibility Contract).         *)
PhasesInOrder == ScriptsSeeSetup /\ BindingsWin
=============================================================================
