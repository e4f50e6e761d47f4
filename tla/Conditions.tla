----------------------------- MODULE Conditions -----------------------------
(***************************************************************************)
(* How one command resolves the conditions of its configuration: every     *)
(* enable condition, then the load conditions of the enabled plugins, then *)
(* the runtime branches of the eligible ones.  A shell predicate runs in a *)
(* process of its own that is polled until it exits or times out.          *)
(***************************************************************************)
EXTENDS Configuration

CONSTANT Timeout       \* CONDITION_TIMEOUT, in poll intervals
ASSUME ConditionsAssumption == Timeout \in Nat

VARIABLES
  queue, cur,         \* the plugins left for this kind of condition; the one at hand
  todo,               \* declarations of cur not yet projected
  enabled, eligible,  \* the plugins whose conditions hold
  setup, bindings,    \* the projection of every plugin
  shell,              \* the process of the predicate at hand
  asked, answers      \* history: predicates in the order they were run; what they said

verdict  == <<enabled, eligible>>
selected == <<setup, bindings>>
record   == <<asked, answers>>
loaded   == <<intent, mode, tmup, tmux, scan, merged>>
condVars == <<configVars, queue, cur, todo, verdict, selected, shell, record>>

Idle == [state |-> "none", age |-> 0, step |-> "poll", ended |-> 0]

-----------------------------------------------------------------------------
(* The plugin and the condition at hand.                                    *)

Least(S) == CHOOSE p \in S : \A q \in S : p <= q

Take ==
  /\ stage \in {"enabled", "cond", "if"} /\ cur = 0 /\ queue # {}
  /\ cur' = Least(queue) /\ queue' = queue \ {cur'}
  /\ todo' = IF stage = "if" THEN declared[cur'].runtime ELSE <<>>
  /\ UNCHANGED <<loaded, stage, verdict, selected, shell, record, failure>>

EndsLoadFirst(s) ==   \* faulty: branches are resolved before the load conditions
  IF s = "enabled" /\ intent = "runtime" THEN "if" ELSE "resolved"

NextStage(s) ==
  IF s = "enabled" /\ intent # "managed" THEN "cond"
  ELSE IF s = "cond" /\ intent = "runtime" THEN "if" ELSE "resolved"

EndStage ==
  /\ stage \in {"enabled", "cond", "if"} /\ cur = 0 /\ queue = {}
  /\ stage' = NextStage(stage)
  /\ queue' = CASE stage' = "cond" -> enabled
                [] stage' = "if"   -> eligible
                [] OTHER           -> {}
  /\ UNCHANGED <<loaded, cur, todo, verdict, selected, shell, record, failure>>

Branch == todo # <<>> /\ Head(todo).node = "if"

AtHand(c) ==   \* c is the condition to be evaluated next
  /\ cur # 0
  /\ \/ stage = "enabled" /\ c = declared[cur].enabled
     \/ stage = "cond" /\ c = declared[cur].cond
     \/ stage = "if" /\ Branch /\ c = Head(todo).cond

BothBranches(yes) ==   \* faulty: goes on with the declarations of both branches
  Head(todo).children \o ElseOf(todo) \o AfterBranch(todo)

Selected(yes) ==
  (IF yes THEN Head(todo).children ELSE ElseOf(todo)) \o AfterBranch(todo)

Answered(yes) ==
  /\ enabled' = IF stage = "enabled" /\ yes THEN enabled \cup {cur} ELSE enabled
  /\ eligible' = IF stage = "cond" /\ yes THEN eligible \cup {cur} ELSE eligible
  /\ todo' = IF stage = "if" THEN Selected(yes) ELSE todo
  /\ cur' = IF stage = "if" THEN cur ELSE 0
  /\ UNCHANGED <<loaded, stage, queue, selected, asked, failure>>

Literal ==
  /\ \E c \in {Always, Never} : AtHand(c) /\ Answered(c = Always)
  /\ UNCHANGED <<shell, answers>>

Project ==   \* an option, an environment operation or a binding
  /\ stage = "if" /\ cur # 0 /\ todo # <<>> /\ ~Branch
  /\ setup' = IF Head(todo).node = "setup"
              THEN [setup EXCEPT ![cur] = Append(@, Head(todo))] ELSE setup
  /\ bindings' = IF Head(todo).node = "bind"
                 THEN [bindings EXCEPT ![cur] = Append(@, Head(todo))] ELSE bindings
  /\ todo' = Tail(todo)
  /\ UNCHANGED <<loaded, stage, queue, cur, verdict, shell, record, failure>>

Projected ==
  /\ stage = "if" /\ cur # 0 /\ todo = <<>> /\ cur' = 0
  /\ UNCHANGED <<loaded, stage, queue, todo, verdict, selected, shell, record, failure>>

-----------------------------------------------------------------------------
(* One predicate: ShellConditionRunner::run.                                *)

Fails(reason) ==
  /\ stage' = "failed" /\ failure' = reason
  /\ UNCHANGED <<loaded, queue, cur, todo, verdict, selected, record>>

Spawn(c) ==
  /\ c \in Predicates /\ AtHand(c) /\ shell.state = "none"
  /\ shell' = [Idle EXCEPT !.state = "running"]
  /\ asked' = Append(asked, c)
  /\ UNCHANGED <<loaded, stage, queue, cur, todo, verdict, selected, answers, failure>>

SpawnFails(c) ==
  /\ c \in Predicates /\ AtHand(c) /\ shell.state = "none"
  /\ Fails("spawn") /\ UNCHANGED shell

Polling(step) == stage # "failed" /\ shell.state # "none" /\ shell.step = step

Settles ==             \* try_wait has found an exit status
  \/ shell.state = "signal" /\ Fails("signal") /\ UNCHANGED shell
  \/ /\ shell.state \in {"zero", "nonzero"} /\ shell' = Idle
     /\ answers' = [answers EXCEPT ![asked[Len(asked)]] = shell.state]
     /\ Answered(shell.state = "zero")

Steps(step) ==
  /\ shell' = [shell EXCEPT !.step = step]
  /\ UNCHANGED <<loaded, stage, queue, cur, todo, verdict, selected, record, failure>>

PollLonger ==          \* faulty: gives up one interval late
  /\ Polling("poll")
  /\ \/ shell.state # "running" /\ Settles
     \/ shell.state = "running" /\ shell.age > Timeout /\ Steps("last")
     \/ shell.state = "running" /\ shell.age <= Timeout /\ Steps("sleep")

PollDeadlineFirst ==   \* faulty: looks at the clock before it looks at the process
  /\ Polling("poll")
  /\ \/ shell.age >= Timeout /\ Steps("kill")
     \/ shell.age < Timeout /\ shell.state # "running" /\ Settles
     \/ shell.age < Timeout /\ shell.state = "running" /\ Steps("sleep")

Poll ==
  /\ Polling("poll")
  /\ \/ shell.state # "running" /\ Settles
     \/ shell.state = "running" /\ shell.age >= Timeout /\ Steps("last")
     \/ shell.state = "running" /\ shell.age < Timeout /\ Steps("sleep")

WakeAnew ==            \* faulty: the clock is started anew at every poll
  Polling("sleep") /\ Steps("poll")

Wake ==
  /\ Polling("sleep")
  /\ shell' = [shell EXCEPT !.step = "poll", !.age = @ + 1]
  /\ UNCHANGED <<loaded, stage, queue, cur, todo, verdict, selected, record, failure>>

PollLast ==            \* it may have exited since the clock was read
  /\ Polling("last")
  /\ \/ shell.state # "running" /\ Settles
     \/ shell.state = "running" /\ Steps("kill")

KillNothing ==         \* faulty: reports the timeout and leaves the process running
  Polling("kill") /\ Fails("timeout") /\ UNCHANGED shell

Kill ==                \* SIGKILL to the process group, then wait
  /\ Polling("kill") /\ Fails("timeout")
  /\ shell' = [shell EXCEPT !.state = IF @ = "running" THEN "killed" ELSE @]

MonitorFails ==        \* try_wait, kill or wait fails: the process is left alone
  /\ Polling("poll") \/ Polling("last") \/ Polling("kill")
  /\ Fails("monitor") /\ UNCHANGED shell

Exits(status) ==       \* the process
  /\ shell.state = "running"
  /\ shell' = [shell EXCEPT !.state = status, !.ended = shell.age]
  /\ UNCHANGED <<loaded, stage, queue, cur, todo, verdict, selected, record, failure>>

-----------------------------------------------------------------------------
CondInit ==
  /\ ConfigInit
  /\ queue = {} /\ cur = 0 /\ todo = <<>> /\ enabled = {} /\ eligible = {}
  /\ setup = <<>> /\ bindings = <<>> /\ shell = Idle
  /\ asked = <<>> /\ answers = [c \in Predicates |-> "unasked"]

Configure ==
  /\ LoadConfig
  /\ IF stage' = "enabled"
     THEN /\ queue' = Plugins'
          /\ setup' = [p \in Plugins' |-> <<>>] /\ bindings' = setup'
     ELSE UNCHANGED <<queue, selected>>
  /\ UNCHANGED <<cur, todo, verdict, shell, record>>

ConfigureFails ==
  LoadConfigFails /\ UNCHANGED <<queue, cur, todo, verdict, selected, shell, record>>

OthersWrite ==
  Around /\ UNCHANGED <<queue, cur, todo, verdict, selected, shell, record>>

Resolve ==
  \/ Configure \/ Take \/ EndStage \/ Literal \/ Project \/ Projected
  \/ \E c \in Predicates : Spawn(c)
  \/ Poll \/ Wake \/ PollLast \/ Kill

ResolveFails == MonitorFails \/ \E c \in Predicates : SpawnFails(c)

Predicate == \E status \in {"zero", "nonzero", "signal"} : Exits(status)
=============================================================================
