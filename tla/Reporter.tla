------------------------------ MODULE Reporter ------------------------------
(***************************************************************************)
(* The reporter of one command: every event is handled under its mutex, so *)
(* a report is one step.  It keeps a snapshot of the operation and its     *)
(* plugins, a detail log that is opened by the first failure, and a sink:  *)
(* a frame of fixed rows on a terminal, or a transcript.                   *)
(***************************************************************************)
EXTENDS Naturals, Sequences, FiniteSets

CONSTANTS
  Plugins,     \* what events are about, numbered in declaration order
  Operation,   \* the operation itself
  Output,      \* the log's name for its own writes to the terminal
  Height       \* rows of the terminal

ASSUME ReporterAssumption ==
  /\ Plugins \subseteq Nat /\ IsFiniteSet(Plugins)
  /\ Operation \notin Plugins /\ Output \notin Plugins
  /\ Operation # Output /\ Height \in Nat \ {0}

VARIABLES
  rep,        \* ReporterState
  terminal,   \* whether writes to stderr succeed
  logs        \* whether the log directory can be written

To(r, Handles(_)) ==   \* Handles(r); TLC computes r once, in ENABLED too
  CHOOSE after \in {Handles(before) : before \in {r}} : TRUE

Subjects == Plugins \cup {Operation}

Working  == {"WaitingForLock", "Syncing", "ApplyingWrites", "LoadingTmux",
             "Fetching", "Resolving", "CheckingOut", "Building"}
Outcomes == {"Installed", "Updated", "Synced", "Restored", "Reconciled", "Checked", "Skipped"}
Labels   == Working \cup Outcomes \cup {"none", "Status", "Pending", "Failed", "Finished"}
Row      == [of : Subjects, label : Labels]
Texts    == Row \cup [of : {Output}, label : {"Details", "Warning", "foreign"}]
IoActions == {"hide_cursor", "row_update", "show_cursor", "flush"}

-----------------------------------------------------------------------------
(* Events, and the line each is rendered to.                                *)

Stage(what)          == [kind |-> "operationStage", of |-> Operation, what |-> what]
PluginStage(p, what) == [kind |-> "pluginStage", of |-> p, what |-> what]
PluginDone(p, what)  == [kind |-> "pluginFinished", of |-> p, what |-> what]
PluginFailed(p, at)  == [kind |-> "pluginFailed", of |-> p, what |-> at]
OperationFailed      == [kind |-> "operationFailed", of |-> Operation, what |-> "Failed"]
End(cmd, success) ==
  [kind |-> "operationEnd", of |-> Operation,
   what |-> IF cmd = "init" /\ success THEN "Finished" ELSE "none"]

HasLine(e) ==   \* Applying has a line only if it runs a build command
  /\ e.kind # "operationFailed"
  /\ e.kind = "pluginStage" => e.what # "Applying"

Line(e) ==
  [of |-> e.of, label |-> IF e.kind = "pluginFailed" THEN "Failed" ELSE e.what]

-----------------------------------------------------------------------------
(* The reducer.                                                             *)

Terminal(s) == s \in {"finished", "failed"}

Refuses(s, e) ==
  IF e.kind = "pluginFailed"
  THEN s = "failed" \/ (s = "finished" /\ e.what # "Loading")
  ELSE Terminal(s)

Display(e) ==
  CASE e.kind = "pluginStage"    -> "running"
    [] e.kind = "pluginFinished" -> "finished"
    [] OTHER                     -> "failed"

Reduced(r, e) ==
  CASE e.kind = "operationStage"  -> [r EXCEPT !.stage = e.what]
    [] e.kind = "operationFailed" -> [r EXCEPT !.failed = TRUE]
    [] OTHER -> IF Refuses(r.state[e.of], e) THEN r
                ELSE [r EXCEPT !.state[e.of] = Display(e)]

EnsureSlot(r, e) ==
  IF e.of = Operation \/ \E k \in DOMAIN r.order : r.order[k] = e.of
  THEN r ELSE [r EXCEPT !.order = Append(@, e.of)]

RowOf(r, s) ==
  IF s = Operation THEN 1 ELSE 1 + CHOOSE k \in DOMAIN r.order : r.order[k] = s

-----------------------------------------------------------------------------
(* The detail log.  Only the first failure to write it is remembered.       *)

LoggedQuietly(r, s) ==   \* faulty: a log that cannot be opened is not mentioned
  IF logs = "ok" THEN [r EXCEPT !.file = TRUE, !.logged = @ \cup {s}] ELSE r

LoggedEachTime(r, s) ==   \* faulty: one warning for every failure to log
  IF logs = "ok" THEN [r EXCEPT !.file = TRUE, !.logged = @ \cup {s}]
  ELSE [r EXCEPT !.warned = TRUE, !.deferred = @ + 1]

Logged(r, s) ==
  CASE logs = "ok" -> [r EXCEPT !.file = TRUE, !.logged = @ \cup {s}]
    [] logs # "ok" /\ r.warned -> r
    [] OTHER -> [r EXCEPT !.warned = TRUE, !.deferred = @ + 1]

Drain(r) ==   \* every kind of output failure is logged once
  LET quiet == [r EXCEPT !.io = {}, !.recorded = @ \cup r.io]
  IN  IF r.io \subseteq r.recorded THEN quiet ELSE Logged(quiet, Output)

Drained(r) == To(r, Drain)

-----------------------------------------------------------------------------
(* The terminal.  The cursor rests on the line below the last one written;  *)
(* a frame of n rows fills the n lines above it.                            *)

Writes(r, actions, ok) ==
  IF terminal = "ok" THEN ok ELSE [r EXCEPT !.io = @ \cup actions]

Placeholder(r, k) ==
  IF k = 1 THEN [of |-> Operation, label |-> "Status"]
           ELSE [of |-> r.order[k - 1], label |-> "Pending"]

Bootstrap(r) ==
  LET have  == Len(r.frame)
      rows  == [k \in 1 .. Len(r.order) + 1 - have |-> Placeholder(r, k + have)]
      added == [r EXCEPT !.frame = @ \o rows]
      fresh == {rows[k].of : k \in DOMAIN rows}
  IN  Writes(added,
             {"flush"} \cup (IF rows = <<>> THEN {} ELSE {"row_update"})
                       \cup (IF have = 0 THEN {"hide_cursor"} ELSE {}),
             [added EXCEPT !.lines  = @ \o rows, !.hidden = @ \/ have = 0,
                           !.shown  = [s \in Subjects |->
                              IF s \notin fresh THEN r.shown[s]
                              ELSE IF s = Operation THEN "Status" ELSE "Pending"]])

Reached(r, up) ==   \* MoveUp stops at the first visible line
  LET cursor == Len(r.lines) + 1
  IN  IF up < Height THEN cursor - up ELSE cursor + 1 - Height

WriteRowShort(r, k, line) ==   \* faulty: counts from the last row, not from the cursor
  LET framed == [r EXCEPT !.frame[k] = line]
      up     == Len(r.frame) - k
  IN  Writes(framed, {"row_update", "flush"},
             [framed EXCEPT !.shown[line.of] = line.label, !.lines =
                IF up = 0 THEN @ ELSE [@ EXCEPT ![Reached(r, up)] = line]])

WriteRow(r, k, line) ==
  LET framed == [r EXCEPT !.frame[k] = line]
  IN  Writes(framed, {"row_update", "flush"},
             [framed EXCEPT !.shown[line.of] = line.label,
                            !.lines[Reached(r, Len(r.frame) + 1 - k)] = line])

-----------------------------------------------------------------------------
(* The sinks.  Of a transcript the model keeps the last line about every    *)
(* subject, and what the end adds.                                          *)

Transcribe(r, line) ==
  Writes(r, {"row_update"}, [r EXCEPT !.shown[line.of] = line.label])

ShowLine(r, line) ==
  IF r.sink = "live" THEN WriteRow(r, RowOf(r, line.of), line) ELSE Transcribe(r, line)

Applied(r, e) ==   \* apply_snapshot_update
  To(To(Reduced(r, e), LAMBDA reduced : IF r.sink = "live" THEN Bootstrap(reduced) ELSE reduced),
     LAMBDA framed : IF HasLine(e) THEN ShowLine(framed, Line(e)) ELSE framed)

EndLines(r) ==   \* the path of the log, then what could not be written to it
  (IF r.file THEN <<"Details">> ELSE <<>>) \o [k \in 1 .. r.deferred |-> "Warning"]

PrintTail(r) ==
  Writes(r, IF EndLines(r) = <<>> THEN {} ELSE {"row_update"},
         [r EXCEPT !.tail  = @ \o EndLines(r),
                   !.lines = IF r.sink = "live"
                             THEN @ \o [k \in DOMAIN EndLines(r) |->
                                          [of |-> Output, label |-> EndLines(r)[k]]]
                             ELSE @])

ShowCursor(r) ==
  IF r.sink = "transcript" THEN r
  ELSE Writes(r, {"flush"} \cup (IF r.frame = <<>> THEN {} ELSE {"show_cursor"}),
              [r EXCEPT !.hidden = FALSE])

Finish(r, what) ==
  LET Framed(q) == IF q.frame = <<>> THEN q ELSE Bootstrap(q)
      Titled(q) == IF what = "Finished"
                   THEN ShowLine(q, [of |-> Operation, label |-> "Finished"]) ELSE q
      Started   == Drained([r EXCEPT !.finished = TRUE])
  IN  IF r.finished THEN r
      ELSE Drained(To(To(To(To(Started, Framed), Titled), PrintTail), ShowCursor))

Dropped(r) == Finish(r, "dropped")

-----------------------------------------------------------------------------
(* The handler of an event.                                                 *)

Reported(r, e) ==
  IF r.finished THEN r
  ELSE Drained(
    CASE e.kind = "operationEnd"    -> Finish(r, e.what)
      [] e.kind = "operationFailed" ->
           To(Logged(Applied(r, e), Operation), LAMBDA logged : ShowLine(logged, Line(e)))
      [] e.kind = "pluginFailed"    -> Logged(Applied(EnsureSlot(r, e), e), e.of)
      [] OTHER                      -> Applied(EnsureSlot(r, e), e))

NewReporter(sink, catalog) ==
  [sink |-> sink, order |-> catalog, state |-> [p \in Plugins |-> "pending"],
   stage |-> "none", failed |-> FALSE, finished |-> FALSE,
   frame |-> <<>>, lines |-> <<>>, tail |-> <<>>, hidden |-> FALSE,
   shown |-> [s \in Subjects |-> "none"], io |-> {}, recorded |-> {},
   file |-> FALSE, logged |-> {}, warned |-> FALSE, deferred |-> 0, disturbed |-> FALSE]

Foreign(r) ==   \* someone else writes a line where the cursor is
  IF r.sink = "live" /\ terminal = "ok"
  THEN [r EXCEPT !.lines = Append(@, [of |-> Output, label |-> "foreign"]),
                 !.disturbed = TRUE]   \* history
  ELSE r
=============================================================================
