--------------------------- MODULE Progress_proofs ---------------------------
(***************************************************************************)
(* What the reader of a command's progress may rely on, for any number of  *)
(* plugins, any limit and any height of the terminal.  First the reporter: *)
(* Sound says that the frame is one row for the operation and one for every *)
(* plugin of a prefix of the order, and that, while stderr can be written, *)
(* it is what the terminal shows; every function of Reporter keeps it and  *)
(* leaves the rest alone, up to the handler of an event (Spoken) and to    *)
(* the end of the reports (Closes).  Then JInv, about the jobs: each       *)
(* plugin to apply has exactly one, and sorting the results puts every one *)
(* at the place of its plugin.  And VInv: what the reporter shows as       *)
(* failed or as going on is what the command counts as failed or has at    *)
(* hand.                                                                   *)
(***************************************************************************)
EXTENDS Progress, SequenceTheorems, FiniteSetTheorems, WellFoundedInduction, TLAPS

-----------------------------------------------------------------------------
(* The reporter.                                                             *)
States == {"pending", "running", "finished", "failed"}
Recs ==
  [sink : {"live", "transcript"}, order : Seq(Plugins), state : [Plugins -> States],
   stage : Working \cup {"none"}, failed : BOOLEAN, finished : BOOLEAN,
   frame : Seq(Row), lines : Seq(Texts), tail : Seq({"Details", "Warning"}), hidden : BOOLEAN,
   shown : [Subjects -> Labels], io : SUBSET IoActions, recorded : SUBSET IoActions,
   file : BOOLEAN, logged : SUBSET (Subjects \cup {Output}), warned : BOOLEAN,
   deferred : 0 .. 1, disturbed : BOOLEAN]

(* The row of a frame is that of the operation or of the next plugin.        *)
Owner(r, k)  == IF k = 1 THEN Operation ELSE r.order[k - 1]
InFrame(r, s) == \E k \in DOMAIN r.frame : r.frame[k].of = s
Distinct(r)  == \A i, j \in DOMAIN r.order : r.order[i] = r.order[j] => i = j
Framed(r) ==
  /\ \A k \in DOMAIN r.frame : r.frame[k].of = Owner(r, k)
  /\ Len(r.frame) <= Len(r.order) + 1
  /\ r.sink = "transcript" => r.frame = <<>>
  /\ r.frame = <<>> => ~r.hidden

(* While stderr can be written, what is not in the frame is not shown, and   *)
(* the frame is what the terminal shows, until the tail is printed.          *)
Mirrored(r) ==
  terminal = "ok" =>
    /\ r.io = {}
    /\ r.sink = "live" =>
         /\ \A s \in Subjects : r.shown[s] # "none" => InFrame(r, s)
         /\ ~r.disturbed /\ Len(r.frame) < Height =>
              /\ r.tail = <<>> => r.lines = r.frame
              /\ IsPrefix(r.frame, r.lines)
Warned(r) == r.deferred = IF r.warned THEN 1 ELSE 0

Sound(r) == r \in Recs /\ Distinct(r) /\ Framed(r) /\ Mirrored(r) /\ Warned(r)

(* What the other fields are, whatever is written to the terminal.           *)
Kept(r, q) ==
  /\ q.sink = r.sink /\ q.state = r.state /\ q.failed = r.failed /\ q.finished = r.finished
  /\ q.disturbed = r.disturbed
SameLog(r, q) == q.file = r.file /\ q.logged = r.logged /\ q.warned = r.warned
Heard(r, q, s) ==
  q.shown[s] = r.shown[s] \/ (r.shown[s] = "none" /\ q.shown[s] \in {"Status", "Pending"})

LEMMA LoggedSound ==
  ASSUME NEW r, Sound(r), NEW s \in Subjects \cup {Output}
  PROVE  LET q == Logged(r, s) IN
         /\ Sound(q) /\ Kept(r, q) /\ q.shown = r.shown /\ q.tail = r.tail /\ q.hidden = r.hidden
         /\ q.order = r.order /\ q.frame = r.frame /\ q.io = r.io
         /\ r.logged \subseteq q.logged /\ (r.warned => q.warned) /\ (s \in q.logged \/ q.warned)
         /\ r.file => q.file
<1> DEFINE q == Logged(r, s)
<1>0. r \in Recs
  BY DEF Sound
<1>1. CASE logs = "ok"
  <2>1. q = [r EXCEPT !.file = TRUE, !.logged = @ \cup {s}]
    BY <1>1 DEF Logged
  <2>2. [r EXCEPT !.file = TRUE, !.logged = @ \cup {s}] \in Recs
    BY <1>0 DEF Recs
  <2> QED BY <2>1, <2>2 DEF Sound, Recs, Distinct, Framed, Mirrored, Warned, Owner, InFrame, Kept
<1>2. CASE logs # "ok" /\ r.warned
  BY <1>2 DEF Logged, Kept
<1>3. CASE logs # "ok" /\ ~r.warned
  <2>1. q = [r EXCEPT !.warned = TRUE, !.deferred = @ + 1]
    BY <1>3 DEF Logged
  <2>2. r.deferred = 0 /\ r.deferred + 1 \in 0 .. 1
    BY <1>3 DEF Sound, Warned
  <2>3. [r EXCEPT !.warned = TRUE, !.deferred = @ + 1] \in Recs
    BY <1>0, <2>2 DEF Recs
  <2> QED BY <2>1, <2>2, <2>3 DEF Sound, Recs, Distinct, Framed, Mirrored, Warned, Owner, InFrame, Kept
<1> QED BY <1>1, <1>2, <1>3

LEMMA Chosen == ASSUME NEW x PROVE (CHOOSE y \in {x} : TRUE) = x
<1>1. \E y : y \in {x} /\ TRUE
  OBVIOUS
<1>2. (CHOOSE y : y \in {x} /\ TRUE) \in {x}
  BY <1>1, Zenon
<1> QED BY <1>2

LEMMA DrainedIs == ASSUME NEW r PROVE Drained(r) = Drain(r)
<1>1. {Drain(before) : before \in {r}} = {Drain(r)}
  BY Zenon
<1>2. Drained(r) = CHOOSE after \in {Drain(before) : before \in {r}} : TRUE
  BY Zenon DEF Drained, To
<1> QED BY <1>1, <1>2, Chosen, Zenon

LEMMA DrainedSound ==
  ASSUME NEW r, Sound(r)
  PROVE  LET q == Drained(r) IN
         /\ Sound(q) /\ Kept(r, q) /\ q.shown = r.shown /\ q.tail = r.tail /\ q.hidden = r.hidden
         /\ q.order = r.order /\ q.frame = r.frame
         /\ r.logged \subseteq q.logged /\ (r.warned => q.warned)
         /\ terminal = "ok" => SameLog(r, q)
<1> DEFINE quiet == [r EXCEPT !.io = {}, !.recorded = @ \cup r.io]
<1>1. r \in Recs
  BY DEF Sound
<1>2. quiet \in Recs
  BY <1>1 DEF Recs
<1>3. Sound(quiet) /\ Kept(r, quiet) /\ SameLog(r, quiet) /\ quiet.shown = r.shown /\ quiet.tail = r.tail
      /\ quiet.hidden = r.hidden /\ quiet.order = r.order /\ quiet.frame = r.frame
  BY <1>1, <1>2
  DEF Sound, Recs, Distinct, Framed, Mirrored, Warned, Owner, InFrame, Kept, SameLog
<1>4. CASE r.io \subseteq r.recorded
  <2>1. Drained(r) = quiet
    BY <1>4, DrainedIs DEF Drain
  <2> HIDE DEF quiet
  <2> QED BY <1>3, <2>1 DEF SameLog
<1>5. CASE ~(r.io \subseteq r.recorded)
  <2>1. Drained(r) = Logged(quiet, Output)
    BY <1>5, DrainedIs DEF Drain
  <2>2. terminal # "ok"
    BY <1>1, <1>5 DEF Sound, Mirrored, Recs
  <2> HIDE DEF quiet
  <2> QED BY <1>3, <2>1, <2>2, LoggedSound DEF Kept, SameLog
<1> QED BY <1>4, <1>5

LEMMA PrefixOfItself == ASSUME NEW S, NEW s \in Seq(S) PROVE IsPrefix(s, s)
  BY DEF IsPrefix

LEMMA FunctionSeq ==
  ASSUME NEW n \in Nat, NEW S, NEW f \in [1 .. n -> S]
  PROVE  f \in Seq(S) /\ Len(f) = n /\ DOMAIN f = 1 .. n
  OBVIOUS

LEMMA Joined ==
  ASSUME NEW S, NEW s \in Seq(S), NEW t \in Seq(S)
  PROVE  /\ s \o t \in Seq(S) /\ Len(s \o t) = Len(s) + Len(t)
         /\ DOMAIN (s \o t) = 1 .. Len(s) + Len(t) /\ DOMAIN s = 1 .. Len(s) /\ DOMAIN t = 1 .. Len(t)
         /\ Len(s) \in Nat /\ Len(t) \in Nat
         /\ \A k \in 1 .. Len(s) : (s \o t)[k] = s[k]
         /\ \A k \in 1 .. Len(t) : (s \o t)[Len(s) + k] = t[k]
  OBVIOUS

LEMMA PlaceholderIs ==
  ASSUME NEW r \in Recs, NEW k \in 1 .. Len(r.order) + 1
  PROVE  LET p == Placeholder(r, k) IN p \in Row /\ p.of = Owner(r, k)
<1>1. CASE k = 1
  BY <1>1 DEF Placeholder, Row, Subjects, Labels, Owner
<1>2. CASE k # 1
  <2>1. r.order \in Seq(Plugins)
    BY DEF Recs
  <2>2. k - 1 \in 1 .. Len(r.order)
    BY <1>2, <2>1
  <2>3. r.order[k - 1] \in Plugins
    BY <2>1, <2>2
  <2> QED BY <1>2, <2>3 DEF Placeholder, Row, Subjects, Labels, Owner
<1> QED BY <1>1, <1>2

LEMMA OwnerDistinct ==
  ASSUME NEW r, Sound(r), NEW i \in 1 .. Len(r.order) + 1, NEW j \in 1 .. Len(r.order) + 1,
         Owner(r, i) = Owner(r, j)
  PROVE  i = j
<1>1. r.order \in Seq(Plugins) /\ Distinct(r)
  BY DEF Sound, Recs
<1>2. Len(r.order) \in Nat /\ \A k \in 1 .. Len(r.order) : r.order[k] \in Plugins
  BY <1>1
<1>3. \A k \in {i, j} : k # 1 => k - 1 \in 1 .. Len(r.order) /\ Owner(r, k) \in Plugins
  BY <1>2 DEF Owner
<1>4. i = 1 <=> j = 1
  BY <1>3, ReporterAssumption DEF Owner
<1>5. i # 1 => i - 1 = j - 1
  BY <1>1, <1>3, <1>4 DEF Owner, Distinct
<1> QED BY <1>2, <1>4, <1>5

LEMMA BootstrapSound ==
  ASSUME NEW r, Sound(r), r.sink = "live", r.tail = <<>>
  PROVE  LET q == Bootstrap(r) IN
         /\ Sound(q) /\ Kept(r, q) /\ SameLog(r, q) /\ q.tail = r.tail /\ q.order = r.order
         /\ Len(q.frame) = Len(q.order) + 1
         /\ \A s \in Subjects : Heard(r, q, s)
         /\ terminal # "ok" => q.shown = r.shown
<1> DEFINE have  == Len(r.frame)
           rows  == [k \in 1 .. Len(r.order) + 1 - have |-> Placeholder(r, k + have)]
           added == [r EXCEPT !.frame = @ \o rows]
           fresh == {rows[k].of : k \in DOMAIN rows}
           news  == [s \in Subjects |->
                       IF s \notin fresh THEN r.shown[s]
                       ELSE IF s = Operation THEN "Status" ELSE "Pending"]
           actions == {"flush"} \cup (IF rows = <<>> THEN {} ELSE {"row_update"})
                        \cup (IF have = 0 THEN {"hide_cursor"} ELSE {})
           q == Bootstrap(r)
<1>1. r \in Recs /\ r.frame \in Seq(Row) /\ r.order \in Seq(Plugins) /\ r.lines \in Seq(Texts)
  BY DEF Sound, Recs
<1>2. have \in Nat /\ Len(r.order) \in Nat /\ have <= Len(r.order) + 1 /\ DOMAIN r.frame = 1 .. have
      /\ DOMAIN r.order = 1 .. Len(r.order)
  BY <1>1 DEF Sound, Framed
<1> HIDE DEF have
<1> DEFINE size == Len(r.order) + 1 - have
<1>3. \A k \in 1 .. size : rows[k] \in Row /\ rows[k].of = Owner(r, k + have) /\ rows[k] \in Texts
  <2> SUFFICES ASSUME NEW k \in 1 .. size
               PROVE  LET p == Placeholder(r, k + have) IN p \in Row /\ p.of = Owner(r, k + have)
    BY DEF Texts
  <2>1. k + have \in 1 .. Len(r.order) + 1
    BY <1>2
  <2> QED BY <1>1, <2>1, PlaceholderIs
<1>4. rows \in Seq(Row) /\ Len(rows) = size /\ rows \in Seq(Texts) /\ DOMAIN rows = 1 .. size
  <2>1. size \in Nat
    BY <1>2
  <2>2. rows \in [1 .. size -> Row] /\ rows \in [1 .. size -> Texts]
    BY <1>3
  <2> HIDE DEF rows, size
  <2> QED BY <2>1, <2>2, FunctionSeq
<1> HIDE DEF rows
<1> DEFINE all == r.frame \o rows
<1>5. /\ all \in Seq(Row) /\ Len(all) = Len(r.order) + 1 /\ DOMAIN all = 1 .. Len(r.order) + 1
      /\ \A k \in 1 .. have : all[k] = r.frame[k]
      /\ \A k \in 1 .. size : all[have + k] = rows[k]
  BY <1>1, <1>2, <1>4, Joined DEF have
<1>6. r.lines \o rows \in Seq(Texts)
  BY <1>1, <1>4, Joined
<1> HIDE DEF all
<1>7. \A k \in 1 .. Len(r.order) + 1 : all[k].of = Owner(r, k)
  <2> SUFFICES ASSUME NEW k \in 1 .. Len(r.order) + 1 PROVE all[k].of = Owner(r, k)
    OBVIOUS
  <2>1. CASE k \in 1 .. have
    <3>1. r.frame[k].of = Owner(r, k)
      BY <1>2, <2>1 DEF Sound, Framed
    <3> QED BY <1>5, <2>1, <3>1
  <2>2. CASE k > have
    <3>1. k - have \in 1 .. size /\ k - have + have = k /\ have + (k - have) = k
      BY <1>2, <2>2
    <3>2. all[k] = rows[k - have]
      BY <1>5, <3>1
    <3> QED BY <1>3, <3>1, <3>2
  <2> QED BY <1>2, <2>1, <2>2
<1>8. news \in [Subjects -> Labels] /\ \A s \in Subjects : s \notin fresh => news[s] = r.shown[s]
  <2> HIDE DEF fresh
  <2>1. \A s \in Subjects : r.shown[s] \in Labels
    BY <1>1 DEF Recs
  <2>2. \A s \in Subjects : s \notin fresh => news[s] = r.shown[s]
    OBVIOUS
  <2>3. \A s \in Subjects : s \in fresh => news[s] \in {"Status", "Pending"}
    OBVIOUS
  <2>4. \A s \in Subjects : news[s] \in Labels
    BY <2>1, <2>2, <2>3 DEF Labels
  <2> QED BY <2>2, <2>4
<1>9. terminal = "ok" => \A s \in fresh : s \in Subjects => r.shown[s] = "none"
  <2> SUFFICES ASSUME terminal = "ok", NEW k \in 1 .. size,
                      rows[k].of \in Subjects, InFrame(r, rows[k].of)
               PROVE  FALSE
    BY <1>4 DEF Sound, Mirrored
  <2>1. PICK j \in 1 .. have : r.frame[j].of = rows[k].of
    BY <1>2 DEF InFrame
  <2>2. Owner(r, j) = Owner(r, k + have)
    BY <1>2, <1>3, <2>1 DEF Sound, Framed
  <2>3. j \in 1 .. Len(r.order) + 1 /\ k + have \in 1 .. Len(r.order) + 1 /\ j # k + have
    BY <1>2
  <2> QED BY <2>2, <2>3, OwnerDistinct
<1>10. \A s \in fresh : s \in Subjects => news[s] = IF s = Operation THEN "Status" ELSE "Pending"
  OBVIOUS
<1> HIDE DEF news
<1>11. added \in Recs
  BY <1>1, <1>5 DEF Recs, all
<1>12. CASE terminal = "ok"
  <2>1. q = [added EXCEPT !.lines = @ \o rows, !.hidden = @ \/ have = 0, !.shown = news]
    BY <1>12 DEF Bootstrap, Writes, have, rows, news
  <2> DEFINE v == [r EXCEPT !.frame = all, !.lines = r.lines \o rows,
                            !.hidden = (r.hidden \/ have = 0), !.shown = news]
  <2>2. v \in Recs
    BY <1>1, <1>5, <1>6, <1>8 DEF Recs
  <2>3. q = v
    BY <1>1, <2>1 DEF Recs, all
  <2>4. /\ v.frame = all /\ v.lines = r.lines \o rows /\ v.shown = news /\ v.order = r.order
        /\ Kept(r, v) /\ SameLog(r, v) /\ v.tail = r.tail /\ v.deferred = r.deferred /\ v.io = r.io
    BY <1>1 DEF Recs, Kept, SameLog
  <2> HIDE DEF v, fresh, size
  <2>5. \A s \in Subjects : Heard(r, v, s)
    BY <1>8, <1>9, <1>10, <1>12, <2>4 DEF Heard
  <2>6. Distinct(v) /\ Warned(v)
    BY <2>4 DEF Sound, Distinct, Warned, SameLog
  <2>7. v.frame # <<>>
    BY <1>2, <1>5, <2>4
  <2>8. Framed(v)
    <3>1. \A k \in DOMAIN v.frame : v.frame[k].of = Owner(v, k)
      BY <1>5, <1>7, <2>4 DEF Owner
    <3>2. v.sink = "live" /\ Len(v.frame) <= Len(v.order) + 1
      BY <1>2, <1>5, <2>4 DEF Kept
    <3> QED BY <2>7, <3>1, <3>2 DEF Framed
  <2>9. \A s \in Subjects : v.shown[s] # "none" => InFrame(v, s)
    <3> SUFFICES ASSUME NEW s \in Subjects, v.shown[s] # "none" PROVE InFrame(v, s)
      OBVIOUS
    <3>1. CASE s \in fresh
      <4>1. PICK k \in 1 .. size : s = rows[k].of
        BY <1>4, <3>1 DEF fresh
      <4>2. k + have \in 1 .. Len(r.order) + 1 /\ s = Owner(r, k + have)
        BY <1>2, <1>3, <4>1 DEF size
      <4> QED BY <1>5, <1>7, <2>4, <4>2 DEF InFrame
    <3>2. CASE s \notin fresh
      <4>1. InFrame(r, s)
        BY <1>8, <1>12, <2>4, <3>2 DEF Sound, Mirrored
      <4>2. PICK j \in 1 .. have : r.frame[j].of = s
        BY <1>2, <4>1 DEF InFrame
      <4>3. j \in DOMAIN v.frame /\ v.frame[j] = r.frame[j]
        BY <1>2, <1>5, <2>4, <4>2
      <4> QED BY <4>2, <4>3 DEF InFrame
    <3> QED BY <3>1, <3>2
  <2>10. ~r.disturbed /\ Len(v.frame) < Height => v.lines = v.frame
    <3>1. Len(v.frame) < Height => Len(r.frame) < Height
      BY <1>2, <1>5, <2>4, ReporterAssumption DEF have
    <3> QED BY <1>12, <2>4, <3>1 DEF Sound, Mirrored, all
  <2>11. Mirrored(v)
    BY <1>5, <1>12, <2>4, <2>9, <2>10, PrefixOfItself DEF Mirrored, Sound, Kept
  <2> QED BY <1>5, <1>12, <2>2, <2>3, <2>4, <2>5, <2>6, <2>8, <2>11 DEF Sound
<1>13. CASE terminal # "ok"
  <2>1. q = [added EXCEPT !.io = @ \cup actions]
    BY <1>13 DEF Bootstrap, Writes, have, rows
  <2> DEFINE v == [r EXCEPT !.frame = all, !.io = r.io \cup actions]
  <2>2. v \in Recs
    BY <1>1, <1>5 DEF Recs, IoActions
  <2>3. q = v
    BY <1>1, <2>1 DEF Recs, all
  <2>4. /\ v.frame = all /\ v.shown = r.shown /\ v.order = r.order /\ v.hidden = r.hidden
        /\ Kept(r, v) /\ SameLog(r, v) /\ v.tail = r.tail /\ v.deferred = r.deferred
    BY <1>1 DEF Recs, Kept, SameLog
  <2> HIDE DEF v, fresh, size
  <2>5. v.frame # <<>>
    BY <1>2, <1>5, <2>4
  <2>6. Framed(v)
    BY <1>5, <1>7, <2>4, <2>5 DEF Framed, Owner, Kept
  <2>7. Sound(v)
    BY <1>13, <2>2, <2>4, <2>6 DEF Sound, Distinct, Warned, Mirrored, SameLog
  <2> QED BY <1>5, <2>3, <2>4, <2>7 DEF Heard
<1> QED BY <1>12, <1>13

HasRow(r, s) == s = Operation \/ \E k \in DOMAIN r.order : r.order[k] = s
Shows(r, q, line) ==
  q.shown = IF terminal = "ok" THEN [r.shown EXCEPT ![line.of] = line.label] ELSE r.shown

LEMMA Replaced ==
  ASSUME NEW S, NEW s \in Seq(S), NEW k \in 1 .. Len(s), NEW x \in S
  PROVE  LET t == [s EXCEPT ![k] = x] IN
         t \in Seq(S) /\ Len(t) = Len(s) /\ DOMAIN t = DOMAIN s /\ t[k] = x
         /\ \A i \in DOMAIN s : i # k => t[i] = s[i]
  OBVIOUS

LEMMA ReplacedAnywhere ==
  ASSUME NEW S, NEW s \in Seq(S), NEW k, NEW x \in S
  PROVE  [s EXCEPT ![k] = x] \in Seq(S)
<1>1. CASE k \in DOMAIN s
  BY <1>1
<1>2. CASE k \notin DOMAIN s
  <2>1. [s EXCEPT ![k] = x] = s
    BY <1>2
  <2> QED BY <2>1
<1> QED BY <1>1, <1>2

LEMMA RowIs ==
  ASSUME NEW r, Sound(r), NEW s, HasRow(r, s), Len(r.frame) = Len(r.order) + 1
  PROVE  RowOf(r, s) \in 1 .. Len(r.frame) /\ r.frame[RowOf(r, s)].of = s
<1>1. r.order \in Seq(Plugins) /\ r.frame \in Seq(Row)
  BY DEF Sound, Recs
<1>2. Len(r.order) \in Nat /\ DOMAIN r.order = 1 .. Len(r.order) /\ DOMAIN r.frame = 1 .. Len(r.order) + 1
  BY <1>1
<1>3. \A k \in 1 .. Len(r.frame) : r.frame[k].of = Owner(r, k)
  BY <1>2 DEF Sound, Framed
<1>4. CASE s = Operation
  BY <1>2, <1>3, <1>4 DEF RowOf, Owner
<1>5. CASE s # Operation
  <2> DEFINE j == CHOOSE k \in DOMAIN r.order : r.order[k] = s
  <2>1. j \in 1 .. Len(r.order) /\ r.order[j] = s
    BY <1>2, <1>5 DEF HasRow
  <2>2. RowOf(r, s) = 1 + j
    BY <1>5 DEF RowOf
  <2> HIDE DEF j
  <2>3. 1 + j \in 1 .. Len(r.frame) /\ 1 + j # 1 /\ 1 + j - 1 = j
    BY <1>2, <2>1
  <2> QED BY <1>3, <2>1, <2>2, <2>3 DEF Owner
<1> QED BY <1>4, <1>5

LEMMA TranscribeSound ==
  ASSUME NEW r, Sound(r), r.sink = "transcript", NEW line \in Row
  PROVE  LET q == Transcribe(r, line) IN
         /\ Sound(q) /\ Kept(r, q) /\ SameLog(r, q) /\ q.tail = r.tail /\ q.order = r.order
         /\ q.frame = r.frame /\ q.hidden = r.hidden /\ Shows(r, q, line)
<1> DEFINE q == Transcribe(r, line)
<1>1. r \in Recs /\ line.of \in Subjects /\ line.label \in Labels
  BY DEF Sound, Row
<1>2. CASE terminal = "ok"
  <2> DEFINE v == [r EXCEPT !.shown = [r.shown EXCEPT ![line.of] = line.label]]
  <2>1. q = v
    BY <1>1, <1>2 DEF Transcribe, Writes
  <2>2. v \in Recs
    BY <1>1 DEF Recs
  <2>3. v.frame = r.frame /\ v.order = r.order /\ v.tail = r.tail /\ v.hidden = r.hidden
        /\ v.deferred = r.deferred /\ v.io = r.io /\ v.shown = [r.shown EXCEPT ![line.of] = line.label] /\ Kept(r, v) /\ SameLog(r, v)
    BY <1>1 DEF Recs, Kept, SameLog
  <2> HIDE DEF v
  <2>4. Distinct(v) /\ Warned(v) /\ Framed(v) /\ Mirrored(v)
    BY <1>2, <2>3 DEF Sound, Distinct, Warned, Framed, Owner, Kept, SameLog, Mirrored
  <2> QED BY <1>2, <2>1, <2>2, <2>3, <2>4 DEF Sound, Shows
<1>3. CASE terminal # "ok"
  <2> DEFINE v == [r EXCEPT !.io = r.io \cup {"row_update"}]
  <2>1. q = v
    BY <1>1, <1>3 DEF Transcribe, Writes
  <2>2. v \in Recs
    BY <1>1 DEF Recs, IoActions
  <2>3. v.frame = r.frame /\ v.order = r.order /\ v.tail = r.tail /\ v.hidden = r.hidden
        /\ v.deferred = r.deferred /\ v.shown = r.shown /\ Kept(r, v) /\ SameLog(r, v)
    BY <1>1 DEF Recs, Kept, SameLog
  <2> HIDE DEF v
  <2>4. Distinct(v) /\ Warned(v) /\ Framed(v) /\ Mirrored(v)
    BY <1>3, <2>3 DEF Sound, Distinct, Warned, Framed, Owner, Kept, SameLog, Mirrored
  <2> QED BY <1>3, <2>1, <2>2, <2>3, <2>4 DEF Sound, Shows
<1> QED BY <1>2, <1>3

LEMMA WriteRowSound ==
  ASSUME NEW r, Sound(r), r.sink = "live", r.tail = <<>>, NEW line \in Row,
         NEW k \in 1 .. Len(r.frame), r.frame[k].of = line.of
  PROVE  LET q == WriteRow(r, k, line) IN
         /\ Sound(q) /\ Kept(r, q) /\ SameLog(r, q) /\ q.tail = r.tail /\ q.order = r.order
         /\ Len(q.frame) = Len(r.frame) /\ q.hidden = r.hidden /\ Shows(r, q, line)
<1> DEFINE q  == WriteRow(r, k, line)
           fr == [r.frame EXCEPT ![k] = line]
           at == Reached(r, Len(r.frame) + 1 - k)
           li == [r.lines EXCEPT ![at] = line]
           sh == [r.shown EXCEPT ![line.of] = line.label]
           framed == [r EXCEPT !.frame = fr]
<1>1. /\ r \in Recs /\ line.of \in Subjects /\ line.label \in Labels /\ line \in Texts
      /\ r.frame \in Seq(Row) /\ r.lines \in Seq(Texts) /\ r.order \in Seq(Plugins)
  BY DEF Sound, Row, Recs, Texts
<1>2. fr \in Seq(Row) /\ Len(fr) = Len(r.frame) /\ DOMAIN fr = DOMAIN r.frame /\ fr[k] = line
      /\ \A i \in DOMAIN r.frame : i # k => fr[i] = r.frame[i]
  BY <1>1, Replaced
<1>3. \A i \in DOMAIN fr : fr[i].of = r.frame[i].of
  BY <1>2
<1> HIDE DEF at
<1>4. li \in Seq(Texts)
  BY <1>1, ReplacedAnywhere
<1>5. Len(r.frame) \in Nat /\ fr # <<>>
  BY <1>1, <1>2
<1> HIDE DEF fr
<1>6. [r EXCEPT !.frame[k] = line] = framed
  BY <1>1 DEF fr
<1>7. CASE terminal = "ok"
  <2> DEFINE v == [r EXCEPT !.frame = fr, !.shown = sh, !.lines = li]
  <2>1. q = [framed EXCEPT !.shown[line.of] = line.label, !.lines[at] = line]
    BY <1>6, <1>7 DEF WriteRow, Writes, at
  <2>2. framed.shown = r.shown /\ framed.lines = r.lines
    BY <1>1 DEF Recs
  <2>3. q = v
    BY <1>1, <2>1, <2>2 DEF Recs
  <2>4. sh \in [Subjects -> Labels]
    BY <1>1 DEF Recs
  <2> HIDE DEF sh
  <2>5. v \in Recs
    BY <1>1, <1>2, <1>4, <2>4 DEF Recs
  <2>6. v.frame = fr /\ v.shown = sh /\ v.lines = li /\ v.order = r.order /\ v.tail = r.tail /\ v.hidden = r.hidden
        /\ v.io = r.io /\ v.deferred = r.deferred /\ Kept(r, v) /\ SameLog(r, v)
    BY <1>1 DEF Recs, Kept, SameLog
  <2>7. Shows(r, v, line)
    BY <1>7, <2>6 DEF Shows, sh
  <2> HIDE DEF v
  <2>8. Distinct(v) /\ Warned(v) /\ Framed(v)
    BY <1>2, <1>3, <1>5, <2>6 DEF Sound, Distinct, Warned, Framed, Owner, Kept, SameLog
  <2>9. \A s \in Subjects : v.shown[s] # "none" => InFrame(v, s)
    <3> SUFFICES ASSUME NEW s \in Subjects, v.shown[s] # "none" PROVE InFrame(v, s)
      OBVIOUS
    <3>1. InFrame(r, s)
      <4>1. CASE s = line.of
        BY <1>1, <4>1 DEF InFrame
      <4>2. CASE s # line.of
        BY <1>1, <1>7, <2>6, <4>2 DEF Sound, Mirrored, sh, Recs
      <4> QED BY <4>1, <4>2
    <3> QED BY <1>2, <1>3, <2>6, <3>1 DEF InFrame
  <2>10. ~r.disturbed /\ Len(v.frame) < Height => v.lines = v.frame
    <3> SUFFICES ASSUME ~r.disturbed, Len(v.frame) < Height PROVE v.lines = v.frame
      OBVIOUS
    <3>1. r.lines = r.frame
      BY <1>2, <1>7, <2>6 DEF Sound, Mirrored
    <3>2. at = k
      BY <1>2, <1>5, <2>6, <3>1, ReporterAssumption DEF at, Reached
    <3> QED BY <2>6, <3>1, <3>2 DEF fr
  <2>11. Mirrored(v)
    BY <1>2, <1>7, <2>6, <2>9, <2>10, PrefixOfItself DEF Mirrored, Sound, Kept
  <2> QED BY <1>2, <2>3, <2>5, <2>6, <2>7, <2>8, <2>11 DEF Sound
<1>8. CASE terminal # "ok"
  <2> DEFINE v == [r EXCEPT !.frame = fr, !.io = r.io \cup {"row_update", "flush"}]
  <2>1. q = [framed EXCEPT !.io = @ \cup {"row_update", "flush"}]
    BY <1>6, <1>8 DEF WriteRow, Writes
  <2>2. q = v
    BY <1>1, <2>1 DEF Recs
  <2>3. v \in Recs
    BY <1>1, <1>2 DEF Recs, IoActions
  <2>4. v.frame = fr /\ v.shown = r.shown /\ v.order = r.order /\ v.tail = r.tail /\ v.hidden = r.hidden
        /\ v.deferred = r.deferred /\ Kept(r, v) /\ SameLog(r, v)
    BY <1>1 DEF Recs, Kept, SameLog
  <2> HIDE DEF v
  <2>5. Distinct(v) /\ Warned(v) /\ Framed(v) /\ Mirrored(v)
    BY <1>2, <1>3, <1>5, <1>8, <2>4 DEF Sound, Distinct, Warned, Framed, Owner, Kept, SameLog, Mirrored
  <2> QED BY <1>2, <1>8, <2>2, <2>3, <2>4, <2>5 DEF Sound, Shows
<1> QED BY <1>7, <1>8

LEMMA ShowLineSound ==
  ASSUME NEW r, Sound(r), r.tail = <<>>, NEW line \in Row, HasRow(r, line.of),
         r.sink = "live" => Len(r.frame) = Len(r.order) + 1
  PROVE  LET q == ShowLine(r, line) IN
         /\ Sound(q) /\ Kept(r, q) /\ SameLog(r, q) /\ q.tail = r.tail /\ q.order = r.order
         /\ Len(q.frame) = Len(r.frame) /\ q.hidden = r.hidden /\ Shows(r, q, line)
<1>1. CASE r.sink = "live"
  BY <1>1, RowIs, WriteRowSound DEF ShowLine
<1>2. CASE r.sink # "live"
  <2>1. r.sink = "transcript" /\ ShowLine(r, line) = Transcribe(r, line)
    BY <1>2 DEF ShowLine, Sound, Recs
  <2> QED BY <2>1, TranscribeSound
<1> QED BY <1>1, <1>2

-----------------------------------------------------------------------------
(* Events.                                                                   *)
OperationStages == {"WaitingForLock", "Syncing", "ApplyingWrites", "LoadingTmux"}
PluginStages    == {"Fetching", "Resolving", "CheckingOut", "Building", "Applying"}
Places          == {"Preparing", "Applying", "Loading"}
StageEvents     == {Stage(what) : what \in OperationStages}
WorkEvents      == {PluginStage(p, what) : p \in Plugins, what \in PluginStages}
DoneEvents      == {PluginDone(p, what) : p \in Plugins, what \in Outcomes}
FailEvents      == {PluginFailed(p, at) : p \in Plugins, at \in Places}
Events          == StageEvents \cup WorkEvents \cup DoneEvents \cup FailEvents

LEMMA EventIs ==
  ASSUME NEW e \in Events
  PROVE  /\ e.of \in Subjects
         /\ e.kind \in {"operationStage", "pluginStage", "pluginFinished", "pluginFailed"}
         /\ e.kind = "operationStage" <=> e.of = Operation
         /\ e.kind = "operationStage" => e.what \in Working
         /\ HasLine(e) => Line(e) \in Row /\ Line(e).of = e.of /\ Line(e).label \notin {"none", "Status", "Pending"}
         /\ HasLine(e) => (Line(e).label = "Failed" <=> e \in FailEvents)
         /\ HasLine(e) => (e.of # Operation /\ Line(e).label \in Working => e \in WorkEvents)
         /\ HasLine(e) \/ e \in WorkEvents
<1>0. \A f \in FailEvents : f.kind = "pluginFailed"
  BY DEF FailEvents, PluginFailed
<1>1. CASE e \in StageEvents
  <2>1. PICK what \in OperationStages : e = [kind |-> "operationStage", of |-> Operation, what |-> what]
    BY <1>1 DEF StageEvents, Stage
  <2>2. e \notin FailEvents
    BY <1>0, <2>1
  <2> QED BY <2>1, <2>2 DEF HasLine, Line, Row, Subjects, Labels, OperationStages, Working
<1>2. CASE e \in WorkEvents
  <2>1. PICK p \in Plugins, what \in PluginStages : e = [kind |-> "pluginStage", of |-> p, what |-> what]
    BY <1>2 DEF WorkEvents, PluginStage
  <2>2. e \notin FailEvents /\ p # Operation
    BY <1>0, <2>1, ReporterAssumption
  <2>3. HasLine(e) => what \in Working /\ what # "Failed"
    BY <2>1 DEF HasLine, Working, PluginStages
  <2>4. Line(e) = [of |-> p, label |-> what]
    BY <2>1 DEF Line
  <2> QED BY <1>2, <2>1, <2>2, <2>3, <2>4 DEF Row, Subjects, Labels, Working
<1>3. CASE e \in DoneEvents
  <2>1. PICK p \in Plugins, what \in Outcomes : e = [kind |-> "pluginFinished", of |-> p, what |-> what]
    BY <1>3 DEF DoneEvents, PluginDone
  <2>2. e \notin FailEvents /\ p # Operation
    BY <1>0, <2>1, ReporterAssumption
  <2>3. Line(e) = [of |-> p, label |-> what] /\ HasLine(e) /\ what \notin Working
    BY <2>1 DEF Line, HasLine, Working, Outcomes
  <2> QED BY <2>1, <2>2, <2>3 DEF Row, Subjects, Labels, Outcomes
<1>4. CASE e \in FailEvents
  <2>1. PICK p \in Plugins, at \in Places : e = [kind |-> "pluginFailed", of |-> p, what |-> at]
    BY <1>4 DEF FailEvents, PluginFailed
  <2>2. p # Operation
    BY ReporterAssumption
  <2>3. Line(e) = [of |-> p, label |-> "Failed"] /\ HasLine(e)
    BY <2>1 DEF Line, HasLine
  <2> QED BY <1>4, <2>1, <2>2, <2>3 DEF Row, Subjects, Labels, Working
<1> QED BY <1>1, <1>2, <1>3, <1>4 DEF Events

LEMMA EnsureSlotSound ==
  ASSUME NEW r, Sound(r), NEW e, e.of \in Subjects
  PROVE  LET q == EnsureSlot(r, e) IN
         /\ Sound(q) /\ Kept(r, q) /\ SameLog(r, q) /\ q.tail = r.tail /\ q.shown = r.shown
         /\ q.frame = r.frame /\ HasRow(q, e.of)
<1> DEFINE q == EnsureSlot(r, e)
<1>1. r \in Recs /\ r.order \in Seq(Plugins) /\ r.frame \in Seq(Row)
  BY DEF Sound, Recs
<1>2. CASE HasRow(r, e.of)
  <2>1. q = r
    BY <1>2 DEF EnsureSlot, HasRow
  <2> QED BY <1>2, <2>1 DEF Kept, SameLog
<1>3. CASE ~HasRow(r, e.of)
  <2> DEFINE order == Append(r.order, e.of)
             v     == [r EXCEPT !.order = order]
             n     == Len(r.order)
  <2>1. q = v /\ e.of \in Plugins
    BY <1>1, <1>3 DEF EnsureSlot, HasRow, Subjects
  <2>2. /\ order \in Seq(Plugins) /\ Len(order) = n + 1 /\ DOMAIN order = 1 .. n + 1 /\ n \in Nat
        /\ order[n + 1] = e.of /\ DOMAIN r.order = 1 .. n
        /\ \A k \in 1 .. n : order[k] = r.order[k]
    BY <1>1, <2>1, AppendProperties
  <2> HIDE DEF order
  <2>3. v \in Recs
    BY <1>1, <2>2 DEF Recs
  <2>4. v.order = order /\ v.frame = r.frame /\ v.tail = r.tail /\ v.shown = r.shown /\ v.hidden = r.hidden
        /\ v.deferred = r.deferred /\ v.io = r.io /\ v.lines = r.lines /\ Kept(r, v) /\ SameLog(r, v)
    BY <1>1 DEF Recs, Kept, SameLog
  <2> HIDE DEF v, n
  <2>5. Distinct(v)
    <3>1. \A k \in 1 .. n : r.order[k] # e.of
      BY <1>3, <2>2 DEF HasRow
    <3>2. \A k \in 1 .. n + 1 : k = n + 1 \/ k \in 1 .. n
      BY <2>2
    <3>3. \A i, j \in 1 .. n : r.order[i] = r.order[j] => i = j
      BY <2>2 DEF Sound, Distinct
    <3> QED BY <2>2, <2>4, <3>1, <3>2, <3>3 DEF Distinct
  <2>6. Framed(v)
    <3>1. DOMAIN r.frame = 1 .. Len(r.frame) /\ Len(r.frame) \in Nat /\ Len(r.frame) <= n + 1
      BY <1>1 DEF Sound, Framed, n
    <3>2. \A k \in DOMAIN v.frame : v.frame[k].of = Owner(v, k)
      <4> SUFFICES ASSUME NEW k \in DOMAIN r.frame PROVE r.frame[k].of = Owner(v, k)
        BY <2>4
      <4>1. r.frame[k].of = Owner(r, k)
        BY DEF Sound, Framed
      <4>2. k # 1 => k - 1 \in 1 .. n
        BY <2>2, <3>1
      <4> QED BY <2>2, <2>4, <4>1, <4>2 DEF Owner
    <3> QED BY <2>2, <2>4, <3>1, <3>2 DEF Framed, Sound, Kept
  <2>7. Mirrored(v) /\ Warned(v)
    BY <2>4 DEF Mirrored, Warned, Sound, Kept, SameLog, InFrame
  <2>8. HasRow(v, e.of)
    BY <2>2, <2>4 DEF HasRow
  <2> QED BY <2>1, <2>3, <2>4, <2>5, <2>6, <2>7, <2>8 DEF Sound
<1> QED BY <1>2, <1>3

LEMMA ReducedSound ==
  ASSUME NEW r, Sound(r), NEW e \in Events \cup {OperationFailed}
  PROVE  LET q == Reduced(r, e) IN
         /\ Sound(q) /\ SameLog(r, q) /\ q.tail = r.tail /\ q.shown = r.shown
         /\ q.frame = r.frame /\ q.order = r.order /\ q.sink = r.sink
         /\ q.finished = r.finished /\ q.disturbed = r.disturbed
         /\ q.failed = (r.failed \/ e = OperationFailed)
         /\ q.state = IF e.of = Operation \/ Refuses(r.state[e.of], e) THEN r.state
                      ELSE [r.state EXCEPT ![e.of] = Display(e)]
<1> DEFINE q == Reduced(r, e)
           Rest(v) == /\ SameLog(r, v) /\ v.tail = r.tail /\ v.shown = r.shown
                      /\ v.frame = r.frame /\ v.order = r.order /\ v.sink = r.sink
                      /\ v.finished = r.finished /\ v.disturbed = r.disturbed
                      /\ v.lines = r.lines /\ v.io = r.io /\ v.hidden = r.hidden /\ v.deferred = r.deferred
<1>1. r \in Recs /\ r.failed \in BOOLEAN
  BY DEF Sound, Recs
<1>2. ASSUME NEW v \in Recs, Rest(v) PROVE Sound(v)
  BY <1>2 DEF Sound, Distinct, Framed, Mirrored, Warned, Owner, InFrame, SameLog
<1>3. CASE e = OperationFailed
  <2> DEFINE v == [r EXCEPT !.failed = TRUE]
  <2>1. q = v /\ e.of = Operation
    BY <1>3 DEF Reduced, OperationFailed
  <2>2. v \in Recs
    BY <1>1 DEF Recs
  <2>3. Rest(v) /\ v.failed = TRUE /\ v.state = r.state
    BY <1>1 DEF Recs, SameLog
  <2> HIDE DEF v
  <2> QED BY <1>2, <1>3, <2>1, <2>2, <2>3
<1>4. CASE e \in Events /\ e.kind = "operationStage"
  <2>1. e # OperationFailed /\ e.of = Operation /\ e.what \in Working
    BY <1>4, EventIs DEF OperationFailed
  <2> DEFINE v == [r EXCEPT !.stage = e.what]
  <2>2. q = v
    BY <1>4 DEF Reduced
  <2>3. v \in Recs
    BY <1>1, <2>1 DEF Recs
  <2>4. Rest(v) /\ v.failed = r.failed /\ v.state = r.state
    BY <1>1 DEF Recs, SameLog
  <2> HIDE DEF v
  <2>5. Sound(v)
    BY <1>2, <2>3, <2>4
  <2> QED BY <1>1, <2>1, <2>2, <2>4, <2>5
<1>5. CASE e \in Events /\ e.kind # "operationStage"
  <2>1. e # OperationFailed /\ e.of # Operation /\ e.of \in Plugins /\ e.kind # "operationFailed"
    BY <1>5, EventIs DEF OperationFailed, Subjects
  <2>2. CASE Refuses(r.state[e.of], e)
    <3>1. q = r
      BY <1>5, <2>1, <2>2 DEF Reduced
    <3> QED BY <2>1, <2>2, <3>1, <1>1 DEF SameLog, Recs
  <2>3. CASE ~Refuses(r.state[e.of], e)
    <3> DEFINE new == [r.state EXCEPT ![e.of] = Display(e)]
               v   == [r EXCEPT !.state = new]
    <3>1. q = v
      BY <1>1, <1>5, <2>1, <2>3 DEF Reduced
    <3>2. new \in [Plugins -> States]
      BY <1>1, <2>1 DEF Recs, States, Display
    <3> HIDE DEF new
    <3>3. v \in Recs
      BY <1>1, <3>2 DEF Recs
    <3>4. Rest(v) /\ v.failed = r.failed /\ v.state = new
      BY <1>1 DEF Recs, SameLog
    <3> HIDE DEF v
    <3>5. Sound(v)
      BY <1>2, <3>3, <3>4
    <3> QED BY <1>1, <2>1, <2>3, <3>1, <3>4, <3>5 DEF new
  <2> QED BY <2>2, <2>3
<1> QED BY <1>3, <1>4, <1>5

(* What the reader sees of an event.                                         *)
Sees(r, q, e) ==
  IF terminal = "ok"
  THEN \A s \in Subjects :
         IF HasLine(e) /\ s = e.of THEN q.shown[s] = Line(e).label ELSE Heard(r, q, s)
  ELSE q.shown = r.shown

LEMMA AppliedIs ==
  ASSUME NEW r, NEW e
  PROVE  LET reduced == Reduced(r, e)
             framed  == IF r.sink = "live" THEN Bootstrap(reduced) ELSE reduced
         IN  Applied(r, e) = IF HasLine(e) THEN ShowLine(framed, Line(e)) ELSE framed
<1> DEFINE reduced == Reduced(r, e)
           F(x) == IF r.sink = "live" THEN Bootstrap(x) ELSE x
           G(x) == IF HasLine(e) THEN ShowLine(x, Line(e)) ELSE x
<1>1. To(reduced, LAMBDA x : IF r.sink = "live" THEN Bootstrap(x) ELSE x) = F(reduced)
  <2>1. {F(x) : x \in {reduced}} = {F(reduced)}
    BY Zenon
  <2>2. To(reduced, LAMBDA x : IF r.sink = "live" THEN Bootstrap(x) ELSE x)
          = CHOOSE after \in {F(x) : x \in {reduced}} : TRUE
    BY Zenon DEF To
  <2> QED BY <2>1, <2>2, Chosen, Zenon
<1>2. To(F(reduced), LAMBDA x : IF HasLine(e) THEN ShowLine(x, Line(e)) ELSE x) = G(F(reduced))
  <2>1. {G(x) : x \in {F(reduced)}} = {G(F(reduced))}
    BY Zenon
  <2>2. To(F(reduced), LAMBDA x : IF HasLine(e) THEN ShowLine(x, Line(e)) ELSE x)
          = CHOOSE after \in {G(x) : x \in {F(reduced)}} : TRUE
    BY Zenon DEF To
  <2> QED BY <2>1, <2>2, Chosen, Zenon
<1> QED BY <1>1, <1>2, Zenon DEF Applied

StateAfter(r, e) ==
  IF e.of = Operation \/ Refuses(r.state[e.of], e) THEN r.state
  ELSE [r.state EXCEPT ![e.of] = Display(e)]
Framing(q) == q.sink = "live" => q.frame # <<>> /\ Len(q.frame) = Len(q.order) + 1

LEMMA AppliedSound ==
  ASSUME NEW r, Sound(r), r.tail = <<>>, NEW e \in Events \cup {OperationFailed}, HasRow(r, e.of)
  PROVE  LET q == Applied(r, e) IN
         /\ Sound(q) /\ SameLog(r, q) /\ q.tail = r.tail /\ q.order = r.order /\ q.sink = r.sink
         /\ q.finished = r.finished /\ q.disturbed = r.disturbed
         /\ q.failed = (r.failed \/ e = OperationFailed) /\ q.state = StateAfter(r, e)
         /\ Framing(q) /\ Sees(r, q, e)
<1> DEFINE d == Reduced(r, e)
           f == IF r.sink = "live" THEN Bootstrap(d) ELSE d
           q == Applied(r, e)
<1>1. /\ Sound(d) /\ SameLog(r, d) /\ d.tail = r.tail /\ d.shown = r.shown
      /\ d.frame = r.frame /\ d.order = r.order /\ d.sink = r.sink
      /\ d.finished = r.finished /\ d.disturbed = r.disturbed
      /\ d.failed = (r.failed \/ e = OperationFailed) /\ d.state = StateAfter(r, e)
  BY ReducedSound DEF StateAfter
<1>2. q = IF HasLine(e) THEN ShowLine(f, Line(e)) ELSE f
  BY AppliedIs
<1> HIDE DEF d, q
<1>3. /\ Sound(f) /\ Kept(d, f) /\ SameLog(d, f) /\ f.tail = d.tail /\ f.order = d.order
      /\ d.sink = "live" => Len(f.frame) = Len(f.order) + 1
      /\ \A s \in Subjects : Heard(d, f, s)
      /\ terminal # "ok" => f.shown = d.shown
  <2>1. CASE r.sink = "live"
    BY <1>1, <2>1, BootstrapSound
  <2>2. CASE r.sink # "live"
    BY <1>1, <2>2 DEF Kept, SameLog, Heard
  <2> QED BY <2>1, <2>2
<1> HIDE DEF f
<1>4. f.shown \in [Subjects -> Labels] /\ f.order \in Seq(Plugins)
  BY <1>3 DEF Sound, Recs
<1>5. CASE HasLine(e)
  <2>1. e \in Events
    BY <1>5 DEF HasLine, OperationFailed
  <2>2. Line(e) \in Row /\ Line(e).of = e.of /\ e.of \in Subjects
    BY <1>5, <2>1, EventIs
  <2>3. HasRow(f, Line(e).of)
    BY <1>1, <1>3, <2>2 DEF HasRow
  <2>4. LET v == ShowLine(f, Line(e)) IN
         /\ Sound(v) /\ Kept(f, v) /\ SameLog(f, v) /\ v.tail = f.tail /\ v.order = f.order
         /\ Len(v.frame) = Len(f.frame) /\ Shows(f, v, Line(e))
    BY <1>1, <1>3, <2>2, <2>3, ShowLineSound DEF Kept
  <2>5. Sees(r, q, e)
    BY <1>1, <1>2, <1>3, <1>4, <1>5, <2>2, <2>4 DEF Sees, Shows, Heard
  <2>6. Framing(q)
    <3>1. q.sink = "live" => Len(q.frame) = Len(q.order) + 1 /\ Len(q.order) \in Nat
      BY <1>1, <1>2, <1>3, <1>4, <1>5, <2>4 DEF Kept
    <3> QED BY <3>1 DEF Framing
  <2>7. Sound(q) /\ SameLog(r, q) /\ q.tail = r.tail /\ q.order = r.order
    BY <1>1, <1>2, <1>3, <1>5, <2>4 DEF SameLog
  <2>8. /\ q.sink = d.sink /\ q.finished = d.finished /\ q.disturbed = d.disturbed
        /\ q.failed = d.failed /\ q.state = d.state
    BY <1>2, <1>3, <1>5, <2>4 DEF Kept
  <2>9. q.failed = (r.failed \/ e = OperationFailed)
    BY <1>1, <2>8
  <2>10. q.state = StateAfter(r, e)
    BY <1>1, <2>8
  <2> QED BY <1>1, <2>5, <2>6, <2>7, <2>8, <2>9, <2>10 DEF q
<1>6. CASE ~HasLine(e)
  <2>1. q = f
    BY <1>2, <1>6
  <2>2. Sees(r, q, e)
    BY <1>1, <1>3, <1>6, <2>1 DEF Sees, Heard
  <2>3. Framing(q)
    <3>1. q.sink = "live" => Len(q.frame) = Len(q.order) + 1 /\ Len(q.order) \in Nat
      BY <1>1, <1>3, <1>4, <2>1 DEF Kept
    <3> QED BY <3>1 DEF Framing
  <2>7. Sound(q) /\ SameLog(r, q) /\ q.tail = r.tail /\ q.order = r.order
    BY <1>1, <1>3, <2>1 DEF SameLog
  <2>8. /\ q.sink = d.sink /\ q.finished = d.finished /\ q.disturbed = d.disturbed
        /\ q.failed = d.failed /\ q.state = d.state
    BY <1>3, <2>1 DEF Kept
  <2>9. q.failed = (r.failed \/ e = OperationFailed)
    BY <1>1, <2>8
  <2>10. q.state = StateAfter(r, e)
    BY <1>1, <2>8
  <2> QED BY <1>1, <2>2, <2>3, <2>7, <2>8, <2>9, <2>10 DEF q
<1> QED BY <1>5, <1>6 DEF q

Grows(r, q) == r.logged \subseteq q.logged /\ (r.warned => q.warned)

LEMMA ReportedSound ==
  ASSUME NEW r, Sound(r), r.tail = <<>>, ~r.finished, NEW e \in Events
  PROVE  LET q == Reported(r, e) IN
         /\ Sound(q) /\ q.tail = <<>> /\ ~q.finished /\ q.sink = r.sink /\ q.disturbed = r.disturbed
         /\ q.failed = r.failed /\ q.state = StateAfter(r, e)
         /\ Framing(q) /\ Sees(r, q, e) /\ Grows(r, q)
         /\ e \in FailEvents => e.of \in q.logged \/ q.warned
<1> DEFINE s == EnsureSlot(r, e)
           a == Applied(s, e)
           l == IF e.kind = "pluginFailed" THEN Logged(a, e.of) ELSE a
           q == Reported(r, e)
<1>1. e.of \in Subjects /\ e.kind \in {"operationStage", "pluginStage", "pluginFinished", "pluginFailed"}
  BY EventIs
<1>2. q = Drained(l)
  <2>1. ~r.finished /\ e.kind # "operationEnd" /\ e.kind # "operationFailed"
    BY <1>1
  <2>2. CASE e.kind = "pluginFailed"
    BY <2>1, <2>2 DEF Reported
  <2>3. CASE e.kind # "pluginFailed"
    BY <2>1, <2>3 DEF Reported
  <2> QED BY <2>2, <2>3
<1>3. e \in FailEvents => e.kind = "pluginFailed"
  BY DEF FailEvents, PluginFailed
<1>4. /\ Sound(s) /\ Kept(r, s) /\ SameLog(r, s) /\ s.tail = r.tail /\ s.shown = r.shown
      /\ s.frame = r.frame /\ HasRow(s, e.of)
  BY <1>1, EnsureSlotSound
<1> HIDE DEF s, q
<1>5. /\ Sound(a) /\ SameLog(s, a) /\ a.tail = s.tail /\ a.order = s.order /\ a.sink = s.sink
      /\ a.finished = s.finished /\ a.disturbed = s.disturbed
      /\ a.failed = (s.failed \/ e = OperationFailed) /\ a.state = StateAfter(s, e)
      /\ Framing(a) /\ Sees(s, a, e)
  BY <1>4, AppliedSound
<1>6. e # OperationFailed /\ s.failed \in BOOLEAN
  BY <1>1, <1>4 DEF OperationFailed, Sound, Recs
<1> HIDE DEF a
<1>7. /\ Sound(l) /\ Kept(a, l) /\ l.shown = a.shown /\ l.tail = a.tail
      /\ l.order = a.order /\ l.frame = a.frame /\ Grows(a, l)
      /\ e \in FailEvents => e.of \in l.logged \/ l.warned
  <2>1. CASE e.kind = "pluginFailed"
    BY <1>1, <1>5, <2>1, LoggedSound DEF Grows
  <2>2. CASE e.kind # "pluginFailed"
    BY <1>3, <1>5, <2>2 DEF Kept, Grows
  <2> QED BY <2>1, <2>2
<1> HIDE DEF l
<1>8. /\ Sound(q) /\ Kept(l, q) /\ q.shown = l.shown /\ q.tail = l.tail
      /\ q.order = l.order /\ q.frame = l.frame /\ Grows(l, q)
  BY <1>2, <1>7, DrainedSound DEF Grows
<1>9. q.failed = r.failed /\ q.state = StateAfter(r, e) /\ ~q.finished /\ q.sink = r.sink /\ q.disturbed = r.disturbed
      /\ q.tail = <<>>
  BY <1>4, <1>5, <1>6, <1>7, <1>8 DEF Kept, StateAfter
<1>10. Framing(q) /\ Sees(r, q, e)
  BY <1>4, <1>5, <1>7, <1>8 DEF Kept, Framing, Sees, Heard
<1>11. Grows(r, q) /\ (e \in FailEvents => e.of \in q.logged \/ q.warned)
  BY <1>4, <1>5, <1>7, <1>8 DEF Grows, SameLog
<1> QED BY <1>8, <1>9, <1>10, <1>11 DEF q

-----------------------------------------------------------------------------
(* The operation fails, and the end of the reports.                          *)
LEMMA OperationFailedSound ==
  ASSUME NEW r, Sound(r), r.tail = <<>>, ~r.finished
  PROVE  LET q == Reported(r, OperationFailed) IN
         /\ Sound(q) /\ q.tail = <<>> /\ ~q.finished /\ q.sink = r.sink /\ q.disturbed = r.disturbed
         /\ q.failed /\ q.state = r.state /\ Framing(q) /\ Grows(r, q)
         /\ Operation \in q.logged \/ q.warned
         /\ terminal # "ok" => q.shown = r.shown
         /\ terminal = "ok" =>
              /\ q.shown[Operation] = "Failed"
              /\ \A s \in Plugins : Heard(r, q, s)
<1> DEFINE e == OperationFailed
           a == Applied(r, e)
           l == Logged(a, Operation)
           w == ShowLine(l, Line(e))
           q == Reported(r, e)
<1>1. /\ e.of = Operation /\ ~HasLine(e) /\ e.kind = "operationFailed"
      /\ Line(e) = [of |-> Operation, label |-> "Failed"]
  BY DEF OperationFailed, HasLine, Line
<1>2. q = Drained(w)
  <2>1. To(l, LAMBDA x : ShowLine(x, Line(e))) = w
    <3> DEFINE G(x) == ShowLine(x, Line(e))
    <3>1. {G(x) : x \in {l}} = {G(l)}
      BY Zenon
    <3>2. To(l, LAMBDA x : ShowLine(x, Line(e))) = CHOOSE after \in {G(x) : x \in {l}} : TRUE
      BY Zenon DEF To
    <3> QED BY <3>1, <3>2, Chosen, Zenon
  <2>2. q = Drained(To(l, LAMBDA x : ShowLine(x, Line(e))))
    BY <1>1 DEF Reported
  <2> QED BY <2>1, <2>2
<1>3. HasRow(r, e.of) /\ e \in Events \cup {OperationFailed} /\ Line(e) \in Row
  BY <1>1 DEF HasRow, Row, Subjects, Labels
<1> HIDE DEF q
<1>4. /\ Sound(a) /\ SameLog(r, a) /\ a.tail = r.tail /\ a.order = r.order /\ a.sink = r.sink
      /\ a.finished = r.finished /\ a.disturbed = r.disturbed
      /\ a.failed = TRUE /\ a.state = r.state
      /\ Framing(a) /\ Sees(r, a, e)
  BY <1>1, <1>3, AppliedSound DEF StateAfter
<1> HIDE DEF a
<1>5. /\ Sound(l) /\ Kept(a, l) /\ l.shown = a.shown /\ l.tail = a.tail
      /\ l.order = a.order /\ l.frame = a.frame /\ Grows(a, l)
      /\ Operation \in l.logged \/ l.warned
  BY <1>4, LoggedSound DEF Grows, Subjects
<1> HIDE DEF l
<1>6. /\ Sound(w) /\ Kept(l, w) /\ SameLog(l, w) /\ w.tail = l.tail /\ w.order = l.order
      /\ Len(w.frame) = Len(l.frame) /\ Shows(l, w, Line(e))
  BY <1>1, <1>3, <1>4, <1>5, ShowLineSound DEF Kept, Framing, HasRow
<1> HIDE DEF w
<1>7. /\ Sound(q) /\ Kept(w, q) /\ q.shown = w.shown /\ q.tail = w.tail
      /\ q.order = w.order /\ q.frame = w.frame /\ Grows(w, q)
  BY <1>2, <1>6, DrainedSound DEF Grows
<1>8. q.failed = TRUE /\ q.state = r.state /\ ~q.finished /\ q.sink = r.sink /\ q.disturbed = r.disturbed
      /\ q.tail = <<>>
  BY <1>4, <1>5, <1>6, <1>7 DEF Kept
<1>9. Framing(q)
  <2>1. q.sink = "live" => Len(q.frame) = Len(q.order) + 1 /\ q.order \in Seq(Plugins)
    BY <1>4, <1>5, <1>6, <1>7 DEF Kept, Framing, Sound, Recs
  <2>2. q.sink = "live" => q.frame # <<>>
    BY <2>1
  <2> QED BY <2>1, <2>2 DEF Framing
<1>10. Grows(r, q) /\ (Operation \in q.logged \/ q.warned)
  BY <1>4, <1>5, <1>6, <1>7 DEF Grows, SameLog
<1>11. terminal # "ok" => q.shown = r.shown
  BY <1>4, <1>5, <1>6, <1>7 DEF Sees, Shows
<1>12. ASSUME terminal = "ok" PROVE q.shown[Operation] = "Failed" /\ \A s \in Plugins : Heard(r, q, s)
  <2>1. q.shown = [a.shown EXCEPT ![Operation] = "Failed"]
    BY <1>1, <1>5, <1>6, <1>7, <1>12 DEF Shows
  <2>2. a.shown \in [Subjects -> Labels] /\ Operation \in Subjects
    BY <1>4 DEF Sound, Recs, Subjects
  <2>3. \A s \in Plugins : s \in Subjects /\ s # Operation /\ Heard(r, a, s)
    BY <1>1, <1>4, <1>12, ReporterAssumption DEF Sees, Subjects
  <2> QED BY <2>1, <2>2, <2>3 DEF Heard
<1> QED BY <1>7, <1>8, <1>9, <1>10, <1>11, <1>12 DEF q

LEMMA EndLinesAre ==
  ASSUME NEW r, Sound(r)
  PROVE  LET t == EndLines(r) IN
         /\ t \in Seq({"Details", "Warning"})
         /\ r.file => Contains(t, "Details")
         /\ r.warned => Contains(t, "Warning")
<1> DEFINE a == IF r.file THEN <<"Details">> ELSE <<>>
           b == [k \in 1 .. r.deferred |-> "Warning"]
           t == EndLines(r)
           S == {"Details", "Warning"}
<1>1. r.deferred \in Nat /\ r.warned \in BOOLEAN /\ r.deferred = IF r.warned THEN 1 ELSE 0
  BY DEF Sound, Recs, Warned
<1>2. a \in Seq(S)
  <2>1. r.file => a = <<"Details">>
    OBVIOUS
  <2>2. ~r.file => a = <<>>
    OBVIOUS
  <2>3. <<"Details">> \in Seq(S) /\ <<>> \in Seq(S)
    OBVIOUS
  <2> HIDE DEF a, S
  <2> QED BY <2>1, <2>2, <2>3
<1>3. b \in Seq(S) /\ Len(b) = r.deferred /\ DOMAIN b = 1 .. r.deferred
  <2>1. b \in [1 .. r.deferred -> S]
    OBVIOUS
  <2> HIDE DEF b, S
  <2> QED BY <1>1, <2>1, FunctionSeq
<1>4. r.warned => b[1] = "Warning" /\ 1 \in 1 .. Len(b)
  BY <1>1, <1>3
<1>5. r.file => a[1] = "Details" /\ 1 \in 1 .. Len(a)
  OBVIOUS
<1> HIDE DEF a, b, S
<1>6. /\ a \o b \in Seq(S) /\ Len(a \o b) = Len(a) + Len(b) /\ Len(a) \in Nat /\ Len(b) \in Nat
      /\ \A k \in 1 .. Len(a) : (a \o b)[k] = a[k]
      /\ \A k \in 1 .. Len(b) : (a \o b)[Len(a) + k] = b[k]
  <2>1. b \in Seq(S)
    BY <1>3
  <2> QED BY <1>2, <2>1, Joined
<1>7. t = a \o b
  BY DEF EndLines, a, b
<1> HIDE DEF t
<1>8. r.file => Contains(t, "Details")
  BY <1>5, <1>6, <1>7 DEF Contains
<1>9. r.warned => Contains(t, "Warning")
  <2> SUFFICES ASSUME r.warned PROVE \E i \in 1 .. Len(t) : t[i] = "Warning"
    BY DEF Contains
  <2>1. Len(a) + 1 \in 1 .. Len(t) /\ t[Len(a) + 1] = "Warning"
    BY <1>4, <1>6, <1>7
  <2> QED BY <2>1
<1> QED BY <1>6, <1>7, <1>8, <1>9 DEF t, S

LEMMA PrefixExtends ==
  ASSUME NEW S, NEW s \in Seq(S), NEW t \in Seq(S)
  PROVE  IsPrefix(s, s \o t)
  BY DEF IsPrefix

LEMMA PrintTailSound ==
  ASSUME NEW r, Sound(r), r.tail = <<>>
  PROVE  LET q == PrintTail(r) IN
         /\ Sound(q) /\ Kept(r, q) /\ SameLog(r, q) /\ q.order = r.order
         /\ q.frame = r.frame /\ q.shown = r.shown /\ q.hidden = r.hidden
         /\ terminal = "ok" =>
              /\ r.file => Contains(q.tail, "Details")
              /\ r.warned => Contains(q.tail, "Warning")
<1> DEFINE q == PrintTail(r)
           e == EndLines(r)
           rows == [k \in DOMAIN e |-> [of |-> Output, label |-> e[k]]]
           li == IF r.sink = "live" THEN r.lines \o rows ELSE r.lines
           actions == IF e = <<>> THEN {} ELSE {"row_update"}
<1>1. r \in Recs /\ r.lines \in Seq(Texts)
  BY DEF Sound, Recs
<1>2. e \in Seq({"Details", "Warning"}) /\ (r.file => Contains(e, "Details"))
      /\ (r.warned => Contains(e, "Warning"))
  BY EndLinesAre
<1> HIDE DEF e
<1>3. DOMAIN e = 1 .. Len(e) /\ Len(e) \in Nat
  BY <1>2
<1>4. rows \in Seq(Texts)
  <2>1. rows \in [1 .. Len(e) -> Texts]
    BY <1>2, <1>3 DEF Texts
  <2> HIDE DEF rows
  <2> QED BY <1>3, <2>1, FunctionSeq
<1> HIDE DEF rows
<1>5. li \in Seq(Texts)
  BY <1>1, <1>4, Joined
<1>6. CASE terminal = "ok"
  <2> DEFINE v == [r EXCEPT !.tail = e, !.lines = li]
  <2>1. q = v
    <3>1. r.tail \o e = e
      BY <1>2
    <3> QED BY <1>1, <1>6, <3>1 DEF PrintTail, Writes, e, rows, Recs
  <2> HIDE DEF li
  <2>2. v \in Recs
    BY <1>1, <1>2, <1>5 DEF Recs
  <2>3. /\ v.tail = e /\ v.lines = li /\ v.frame = r.frame /\ v.order = r.order /\ v.hidden = r.hidden
        /\ v.shown = r.shown /\ v.io = r.io /\ v.deferred = r.deferred /\ Kept(r, v) /\ SameLog(r, v)
    BY <1>1 DEF Recs, Kept, SameLog
  <2> HIDE DEF v
  <2>4. Distinct(v) /\ Framed(v) /\ Warned(v)
    BY <2>3 DEF Sound, Distinct, Framed, Warned, Owner, Kept, SameLog
  <2>5. r.sink = "live" /\ ~r.disturbed /\ Len(r.frame) < Height =>
          /\ e = <<>> => li = r.frame
          /\ IsPrefix(r.frame, li)
    <3> SUFFICES ASSUME r.sink = "live", ~r.disturbed, Len(r.frame) < Height
                 PROVE  (e = <<>> => li = r.frame) /\ IsPrefix(r.frame, li)
      OBVIOUS
    <3>1. r.lines = r.frame /\ li = r.frame \o rows
      BY <1>6 DEF Sound, Mirrored, li
    <3>2. IsPrefix(r.frame, li)
      BY <1>1, <1>4, <3>1, PrefixExtends
    <3>3. e = <<>> => rows = <<>>
      BY DEF rows
    <3> QED BY <1>1, <3>1, <3>2, <3>3
  <2>6. Mirrored(v)
    BY <1>6, <2>3, <2>5 DEF Sound, Mirrored, Kept, InFrame
  <2> QED BY <1>2, <2>1, <2>2, <2>3, <2>4, <2>6 DEF Sound
<1>7. CASE terminal # "ok"
  <2> DEFINE v == [r EXCEPT !.io = r.io \cup actions]
  <2>1. q = v
    BY <1>7 DEF PrintTail, Writes, e
  <2>2. v \in Recs
    BY <1>1 DEF Recs, IoActions
  <2>3. /\ v.tail = r.tail /\ v.frame = r.frame /\ v.order = r.order /\ v.hidden = r.hidden
        /\ v.shown = r.shown /\ v.deferred = r.deferred /\ Kept(r, v) /\ SameLog(r, v)
    BY <1>1 DEF Recs, Kept, SameLog
  <2> HIDE DEF v
  <2>4. Sound(v)
    BY <1>7, <2>2, <2>3 DEF Sound, Distinct, Framed, Warned, Owner, Kept, SameLog, Mirrored
  <2> QED BY <1>7, <2>1, <2>3, <2>4
<1> QED BY <1>6, <1>7

LEMMA ShowCursorSound ==
  ASSUME NEW r, Sound(r)
  PROVE  LET q == ShowCursor(r) IN
         /\ Sound(q) /\ Kept(r, q) /\ SameLog(r, q) /\ q.order = r.order /\ q.tail = r.tail
         /\ q.frame = r.frame /\ q.shown = r.shown
         /\ terminal = "ok" => ~q.hidden
<1> DEFINE q == ShowCursor(r)
           actions == {"flush"} \cup (IF r.frame = <<>> THEN {} ELSE {"show_cursor"})
<1>1. r \in Recs
  BY DEF Sound
<1>2. CASE r.sink = "transcript"
  BY <1>1, <1>2 DEF ShowCursor, Kept, SameLog, Sound, Framed
<1>3. CASE r.sink # "transcript" /\ terminal = "ok"
  <2> DEFINE v == [r EXCEPT !.hidden = FALSE]
  <2>1. q = v
    BY <1>3 DEF ShowCursor, Writes
  <2>2. v \in Recs
    BY <1>1 DEF Recs
  <2>3. /\ v.tail = r.tail /\ v.frame = r.frame /\ v.order = r.order /\ ~v.hidden /\ v.lines = r.lines
        /\ v.io = r.io /\ v.shown = r.shown /\ v.deferred = r.deferred /\ Kept(r, v) /\ SameLog(r, v)
    BY <1>1 DEF Recs, Kept, SameLog
  <2> HIDE DEF v
  <2>4. Sound(v)
    BY <2>2, <2>3 DEF Sound, Distinct, Framed, Warned, Owner, Kept, SameLog, Mirrored, InFrame
  <2> QED BY <2>1, <2>3, <2>4
<1>4. CASE r.sink # "transcript" /\ terminal # "ok"
  <2> DEFINE v == [r EXCEPT !.io = r.io \cup actions]
  <2>1. q = v
    BY <1>4 DEF ShowCursor, Writes
  <2>2. v \in Recs
    BY <1>1 DEF Recs, IoActions
  <2>3. /\ v.tail = r.tail /\ v.frame = r.frame /\ v.order = r.order /\ v.hidden = r.hidden
        /\ v.shown = r.shown /\ v.deferred = r.deferred /\ Kept(r, v) /\ SameLog(r, v)
    BY <1>1 DEF Recs, Kept, SameLog
  <2> HIDE DEF v
  <2>4. Sound(v)
    BY <1>4, <2>2, <2>3 DEF Sound, Distinct, Framed, Warned, Owner, Kept, SameLog, Mirrored
  <2> QED BY <1>4, <2>1, <2>3, <2>4
<1> QED BY <1>2, <1>3, <1>4

LEMMA FinishIs ==
  ASSUME NEW r, NEW what, ~r.finished
  PROVE  LET started == Drained([r EXCEPT !.finished = TRUE])
             framed  == IF started.frame = <<>> THEN started ELSE Bootstrap(started)
             titled  == IF what = "Finished"
                        THEN ShowLine(framed, [of |-> Operation, label |-> "Finished"]) ELSE framed
         IN  Finish(r, what) = Drained(ShowCursor(PrintTail(titled)))
<1> DEFINE started == Drained([r EXCEPT !.finished = TRUE])
           F(x) == IF x.frame = <<>> THEN x ELSE Bootstrap(x)
           G(x) == IF what = "Finished"
                   THEN ShowLine(x, [of |-> Operation, label |-> "Finished"]) ELSE x
<1>1. (CHOOSE after \in {F(x) : x \in {started}} : TRUE) = F(started)
  <2>1. {F(x) : x \in {started}} = {F(started)}
    BY Zenon
  <2> QED BY <2>1, Chosen, Zenon
<1> DEFINE framed == F(started)
<1>2. (CHOOSE after \in {G(x) : x \in {framed}} : TRUE) = G(framed)
  <2>1. {G(x) : x \in {framed}} = {G(framed)}
    BY Zenon
  <2> QED BY <2>1, Chosen, Zenon
<1> DEFINE titled == G(framed)
<1>3. (CHOOSE after \in {PrintTail(x) : x \in {titled}} : TRUE) = PrintTail(titled)
  <2>1. {PrintTail(x) : x \in {titled}} = {PrintTail(titled)}
    BY Zenon
  <2> QED BY <2>1, Chosen, Zenon
<1> DEFINE printed == PrintTail(titled)
<1>4. (CHOOSE after \in {ShowCursor(x) : x \in {printed}} : TRUE) = ShowCursor(printed)
  <2>1. {ShowCursor(x) : x \in {printed}} = {ShowCursor(printed)}
    BY Zenon
  <2> QED BY <2>1, Chosen, Zenon
<1>5. Finish(r, what) = Drained(
        CHOOSE d \in {ShowCursor(x) : x \in {
          CHOOSE c \in {PrintTail(x) : x \in {
            CHOOSE b \in {G(x) : x \in {
              CHOOSE a \in {F(x) : x \in {started}} : TRUE}} : TRUE}} : TRUE}} : TRUE)
  BY Zenon DEF Finish, To
<1> HIDE DEF F, G, started
<1> QED BY <1>1, <1>2, <1>3, <1>4, <1>5, Zenon DEF F, G, started

(* What the reader is told at the end.                                       *)
Told(q) ==
  terminal = "ok" =>
    /\ ~q.hidden
    /\ q.file => Contains(q.tail, "Details")
    /\ q.warned => Contains(q.tail, "Warning")

LEMMA DrainedTold ==
  ASSUME NEW r, Sound(r), Told(r)
  PROVE  Told(Drained(r))
  BY DrainedSound DEF Told, SameLog

LEMMA FinishSound ==
  ASSUME NEW r, Sound(r), r.tail = <<>>, ~r.finished, NEW what,
         what = "Finished" /\ r.sink = "live" => r.frame # <<>>
  PROVE  LET q == Finish(r, what) IN
         /\ Sound(q) /\ q.finished /\ q.sink = r.sink /\ q.disturbed = r.disturbed
         /\ q.failed = r.failed /\ q.state = r.state /\ Grows(r, q) /\ Told(q)
         /\ terminal # "ok" => q.shown = r.shown
         /\ terminal = "ok" => \A s \in Subjects :
              IF what = "Finished" /\ s = Operation THEN q.shown[s] = "Finished" ELSE Heard(r, q, s)
<1> DEFINE line    == [of |-> Operation, label |-> "Finished"]
           over    == [r EXCEPT !.finished = TRUE]
           started == Drained(over)
           framed  == IF started.frame = <<>> THEN started ELSE Bootstrap(started)
           titled  == IF what = "Finished" THEN ShowLine(framed, line) ELSE framed
           printed == PrintTail(titled)
           shut    == ShowCursor(printed)
           q == Finish(r, what)
<1>1. q = Drained(shut)
  BY FinishIs
<1>2. /\ Sound(over) /\ over.finished = TRUE /\ over.sink = r.sink /\ over.disturbed = r.disturbed
      /\ over.failed = r.failed /\ over.state = r.state /\ over.tail = r.tail
      /\ over.frame = r.frame /\ over.shown = r.shown /\ SameLog(r, over)
  <2>1. r \in Recs
    BY DEF Sound
  <2>2. over \in Recs
    BY <2>1 DEF Recs
  <2>3. /\ over.finished = TRUE /\ over.sink = r.sink /\ over.disturbed = r.disturbed
        /\ over.failed = r.failed /\ over.state = r.state /\ over.tail = r.tail
        /\ over.frame = r.frame /\ over.shown = r.shown /\ SameLog(r, over) /\ over.order = r.order
        /\ over.hidden = r.hidden /\ over.io = r.io /\ over.lines = r.lines /\ over.deferred = r.deferred
    BY <2>1 DEF Recs, SameLog
  <2> HIDE DEF over
  <2>4. Sound(over)
    BY <2>2, <2>3 DEF Sound, Distinct, Framed, Warned, Owner, SameLog, Mirrored, InFrame
  <2> QED BY <2>3, <2>4
<1> HIDE DEF q, over
<1>3. /\ Sound(started) /\ Kept(over, started) /\ started.shown = over.shown /\ started.tail = over.tail
      /\ started.frame = over.frame /\ Grows(over, started)
  BY <1>2, DrainedSound DEF Grows
<1> HIDE DEF started
<1>4. /\ Sound(framed) /\ Kept(started, framed) /\ SameLog(started, framed) /\ framed.tail = started.tail
      /\ started.frame # <<>> => Len(framed.frame) = Len(framed.order) + 1
      /\ \A s \in Subjects : Heard(started, framed, s)
      /\ terminal # "ok" => framed.shown = started.shown
  <2>1. CASE started.frame = <<>>
    BY <1>3, <2>1 DEF Kept, SameLog, Heard
  <2>2. CASE started.frame # <<>>
    <3>1. started.sink = "live"
      BY <1>3, <2>2 DEF Sound, Framed, Recs
    <3> QED BY <1>2, <1>3, <2>2, <3>1, BootstrapSound
  <2> QED BY <2>1, <2>2
<1> HIDE DEF framed
<1>5. /\ Sound(titled) /\ Kept(framed, titled) /\ SameLog(framed, titled) /\ titled.tail = framed.tail
      /\ IF what = "Finished" THEN Shows(framed, titled, line) ELSE titled.shown = framed.shown
  <2>1. CASE what = "Finished"
    <3>1. line \in Row /\ HasRow(framed, line.of)
      BY DEF Row, Subjects, Labels, HasRow
    <3>2. framed.sink = "live" => Len(framed.frame) = Len(framed.order) + 1
      BY <1>2, <1>3, <1>4, <2>1 DEF Kept
    <3>3. framed.tail = <<>>
      BY <1>2, <1>3, <1>4
    <3> HIDE DEF line
    <3> QED BY <1>4, <2>1, <3>1, <3>2, <3>3, ShowLineSound
  <2>2. CASE what # "Finished"
    BY <1>4, <2>2 DEF Kept, SameLog
  <2> QED BY <2>1, <2>2
<1> HIDE DEF titled
<1>6. /\ Sound(printed) /\ Kept(titled, printed) /\ SameLog(titled, printed)
      /\ printed.shown = titled.shown
      /\ terminal = "ok" =>
           /\ titled.file => Contains(printed.tail, "Details")
           /\ titled.warned => Contains(printed.tail, "Warning")
  BY <1>2, <1>3, <1>4, <1>5, PrintTailSound
<1> HIDE DEF printed
<1>7. /\ Sound(shut) /\ Kept(printed, shut) /\ SameLog(printed, shut) /\ shut.tail = printed.tail
      /\ shut.shown = printed.shown
      /\ terminal = "ok" => ~shut.hidden
  BY <1>6, ShowCursorSound
<1> HIDE DEF shut
<1>8. Told(shut)
  BY <1>6, <1>7 DEF Told, SameLog
<1>9. /\ Sound(q) /\ Kept(shut, q) /\ q.shown = shut.shown /\ Grows(shut, q) /\ Told(q)
  BY <1>1, <1>7, <1>8, DrainedSound, DrainedTold DEF Grows
<1>10. /\ q.finished /\ q.sink = r.sink /\ q.disturbed = r.disturbed
       /\ q.failed = r.failed /\ q.state = r.state
  BY <1>2, <1>3, <1>4, <1>5, <1>6, <1>7, <1>9 DEF Kept
<1>11. Grows(r, q)
  BY <1>2, <1>3, <1>4, <1>5, <1>6, <1>7, <1>9 DEF SameLog, Grows
<1>12. terminal # "ok" => q.shown = r.shown
  BY <1>2, <1>3, <1>4, <1>5, <1>6, <1>7, <1>9 DEF Shows
<1>13. terminal = "ok" => \A s \in Subjects :
         IF what = "Finished" /\ s = Operation THEN q.shown[s] = "Finished" ELSE Heard(r, q, s)
  <2>1. \A s \in Subjects : Heard(r, framed, s)
    BY <1>2, <1>3, <1>4 DEF Heard
  <2>2. q.shown = titled.shown
    BY <1>6, <1>7, <1>9
  <2>3. framed.shown \in [Subjects -> Labels]
    BY <1>4 DEF Sound, Recs
  <2> QED BY <1>5, <2>1, <2>2, <2>3 DEF Shows, Heard
<1> QED BY <1>9, <1>10, <1>11, <1>12, <1>13 DEF q

LEMMA ToDropped ==
  ASSUME NEW r
  PROVE  To(r, Dropped) = Finish(r, "dropped")
<1>1. {Dropped(x) : x \in {r}} = {Dropped(r)}
  BY Zenon
<1>2. To(r, Dropped) = CHOOSE after \in {Dropped(x) : x \in {r}} : TRUE
  BY Zenon DEF To
<1> QED BY <1>1, <1>2, Chosen, Zenon DEF Dropped

(* Reports that end: how and with which title.                               *)
Closes(r, q, what) ==
  /\ Sound(q) /\ q.finished /\ q.sink = r.sink /\ q.disturbed = r.disturbed
  /\ q.failed = r.failed /\ q.state = r.state /\ Grows(r, q) /\ Told(q)
  /\ terminal # "ok" => q.shown = r.shown
  /\ terminal = "ok" => \A s \in Subjects :
       IF what = "Finished" /\ s = Operation THEN q.shown[s] = "Finished" ELSE Heard(r, q, s)

LEMMA EndedSound ==
  ASSUME NEW r, Sound(r), r.tail = <<>>, ~r.finished, r.sink = "live" => r.frame # <<>>,
         NEW c, NEW success
  PROVE  Closes(r, To(Reported(r, End(c, success)), Dropped), End(c, success).what)
<1> DEFINE e == End(c, success)
           f == Finish(r, e.what)
           d == Drained(f)
           q == To(Reported(r, e), Dropped)
<1>1. e.kind = "operationEnd"
  BY DEF End
<1>2. Reported(r, e) = d
  BY <1>1 DEF Reported
<1>3. q = Finish(d, "dropped")
  BY <1>2, ToDropped
<1> HIDE DEF q, e
<1>4. Closes(r, f, e.what)
  BY FinishSound DEF Closes
<1> HIDE DEF f
<1>5. /\ Sound(d) /\ Kept(f, d) /\ d.shown = f.shown /\ Grows(f, d) /\ Told(d)
  BY <1>4, DrainedSound, DrainedTold DEF Grows, Closes
<1> HIDE DEF d
<1>6. d.finished
  BY <1>4, <1>5 DEF Closes, Kept
<1>7. q = d
  BY <1>3, <1>6 DEF Finish
<1>8. Grows(r, d)
  BY <1>4, <1>5 DEF Closes, Grows
<1>9. d.sink = r.sink /\ d.disturbed = r.disturbed /\ d.failed = r.failed /\ d.state = r.state
  BY <1>4, <1>5 DEF Closes, Kept
<1>10. Closes(r, d, e.what)
  BY <1>4, <1>5, <1>6, <1>8, <1>9 DEF Closes, Heard
<1> QED BY <1>7, <1>10 DEF q, e

LEMMA DroppedSound ==
  ASSUME NEW r, Sound(r), r.tail = <<>>, ~r.finished
  PROVE  Closes(r, Dropped(r), "dropped")
  BY FinishSound DEF Closes, Dropped

(* Someone else writes to the terminal.                                     *)
LEMMA ForeignSound ==
  ASSUME NEW r, Sound(r)
  PROVE  LET q == Foreign(r) IN
         /\ Sound(q) /\ q.sink = r.sink /\ q.state = r.state /\ q.failed = r.failed
         /\ q.finished = r.finished /\ SameLog(r, q) /\ q.tail = r.tail /\ q.shown = r.shown
         /\ q.frame = r.frame /\ q.order = r.order
<1> DEFINE q == Foreign(r)
           text == [of |-> Output, label |-> "foreign"]
           v == [r EXCEPT !.lines = Append(@, text), !.disturbed = TRUE]
<1>1. r \in Recs
  BY DEF Sound
<1>2. CASE r.sink = "live" /\ terminal = "ok"
  <2>1. q = v
    BY <1>2 DEF Foreign
  <2>2. Append(r.lines, text) \in Seq(Texts)
    <3>1. text \in Texts /\ r.lines \in Seq(Texts)
      BY <1>1 DEF Texts, Recs
    <3> QED BY <3>1, AppendProperties
  <2>3. v \in Recs
    BY <1>1, <2>2 DEF Recs
  <2>4. /\ v.sink = r.sink /\ v.state = r.state /\ v.failed = r.failed
        /\ v.finished = r.finished /\ SameLog(r, v) /\ v.tail = r.tail /\ v.shown = r.shown
        /\ v.frame = r.frame /\ v.order = r.order /\ v.hidden = r.hidden /\ v.io = r.io
        /\ v.deferred = r.deferred /\ v.disturbed = TRUE
    BY <1>1 DEF Recs, SameLog
  <2> HIDE DEF v
  <2>5. Sound(v)
    BY <2>3, <2>4 DEF Sound, Distinct, Framed, Warned, Owner, SameLog, Mirrored, InFrame
  <2> QED BY <2>1, <2>4, <2>5
<1>3. CASE ~(r.sink = "live" /\ terminal = "ok")
  BY <1>3 DEF Foreign, SameLog
<1> QED BY <1>2, <1>3

(* What the report of an event does, of the plugin it is about and of the    *)
(* others.                                                                   *)
Labelled(q, e) ==
  LET label == q.shown[e.of]
  IN  /\ label \notin {"none", "Status", "Pending"}
      /\ label = "Failed" <=> e \in FailEvents
      /\ e.of # Operation /\ label \in Working => e \in WorkEvents

Spoken(r, q, e) ==
  /\ Sound(q) /\ q.tail = <<>> /\ ~q.finished /\ q.failed = r.failed /\ Framing(q)
  /\ Grows(r, q) /\ (e \in FailEvents => e.of \in q.logged \/ q.warned)
  /\ \A p \in Plugins :
       q.state[p] = r.state[p] \/ (p = e.of /\ e \in WorkEvents)
         \/ q.state[p] # "running"
  /\ e \in DoneEvents \cup FailEvents => q.state[e.of] # "running"
  /\ IF terminal = "ok"
     THEN /\ \A s \in Subjects : Heard(r, q, s) \/ (s = e.of /\ Labelled(q, e))
          /\ e \in DoneEvents \cup FailEvents => Labelled(q, e)
     ELSE q.shown = r.shown

LEMMA EventOf ==
  ASSUME NEW e \in Events
  PROVE  /\ e.of \in Subjects
         /\ e \in StageEvents <=> e.of = Operation
         /\ e \in WorkEvents \cup DoneEvents \cup FailEvents => e.of \in Plugins
         /\ e \in DoneEvents \cup FailEvents =>
              e.kind \in {"pluginFinished", "pluginFailed"} /\ HasLine(e)
<1>1. e \in StageEvents => e.of = Operation
  BY DEF StageEvents, Stage
<1>2. e \in WorkEvents \cup DoneEvents \cup FailEvents => e.of \in Plugins
  BY DEF WorkEvents, DoneEvents, FailEvents, PluginStage, PluginDone, PluginFailed
<1>3. e \in DoneEvents \cup FailEvents =>
        e.kind \in {"pluginFinished", "pluginFailed"} /\ HasLine(e)
  BY DEF DoneEvents, FailEvents, PluginDone, PluginFailed, HasLine
<1> QED BY <1>1, <1>2, <1>3, ReporterAssumption DEF Events, Subjects

LEMMA ReportedSpeaks ==
  ASSUME NEW r, Sound(r), r.tail = <<>>, ~r.finished, NEW e \in Events
  PROVE  Spoken(r, Reported(r, e), e)
<1> DEFINE q == Reported(r, e)
<1>1. /\ Sound(q) /\ q.tail = <<>> /\ ~q.finished /\ q.failed = r.failed
      /\ q.state = StateAfter(r, e)
      /\ Framing(q) /\ Sees(r, q, e) /\ Grows(r, q)
      /\ e \in FailEvents => e.of \in q.logged \/ q.warned
  BY ReportedSound
<1> HIDE DEF q
<1>2. r.state \in [Plugins -> States]
  BY DEF Sound, Recs
<1>3. e \in DoneEvents \cup FailEvents =>
        Display(e) # "running" /\ (Refuses(r.state[e.of], e) => r.state[e.of] # "running")
  BY EventOf DEF Display, Refuses, Terminal
<1>4. e \in DoneEvents \cup FailEvents => q.state[e.of] # "running"
  BY <1>1, <1>2, <1>3, EventOf, ReporterAssumption DEF StateAfter
<1>5. \A p \in Plugins : p # e.of => q.state[p] = r.state[p]
  BY <1>1, <1>2 DEF StateAfter
<1>6. \A p \in Plugins :
        q.state[p] = r.state[p] \/ (p = e.of /\ e \in WorkEvents) \/ q.state[p] # "running"
  BY <1>4, <1>5, EventOf, ReporterAssumption DEF Events
<1>7. terminal = "ok" /\ HasLine(e) => Labelled(q, e)
  BY <1>1, EventIs DEF Sees, Labelled
<1>8. IF terminal = "ok"
      THEN /\ \A s \in Subjects : Heard(r, q, s) \/ (s = e.of /\ Labelled(q, e))
           /\ e \in DoneEvents \cup FailEvents => Labelled(q, e)
      ELSE q.shown = r.shown
  BY <1>1, <1>7, EventOf DEF Sees
<1> QED BY <1>1, <1>4, <1>6, <1>8 DEF Spoken, q

LEMMA SpokenTwice ==
  ASSUME NEW r, NEW e \in WorkEvents, NEW f \in WorkEvents, e.of = f.of,
         Sound(r), r.tail = <<>>, ~r.finished
  PROVE  Spoken(r, Reported(Reported(r, e), f), f)
<1> DEFINE m == Reported(r, e)
           q == Reported(m, f)
<1>1. e \in Events /\ f \in Events
  BY DEF Events
<1>2. Spoken(r, m, e)
  BY <1>1, ReportedSpeaks
<1> HIDE DEF m
<1>3. Spoken(m, q, f)
  BY <1>1, <1>2, ReportedSpeaks DEF Spoken
<1> HIDE DEF q
<1>4. f \notin FailEvents \cup DoneEvents /\ e \notin FailEvents \cup DoneEvents
  BY DEF WorkEvents, FailEvents, DoneEvents, PluginStage, PluginFailed, PluginDone
<1>5. Grows(r, q) /\ q.failed = r.failed
  BY <1>2, <1>3 DEF Spoken, Grows
<1>6. \A p \in Plugins :
        q.state[p] = r.state[p] \/ (p = f.of /\ f \in WorkEvents) \/ q.state[p] # "running"
  BY <1>2, <1>3 DEF Spoken
<1>7. terminal = "ok" => \A s \in Subjects : Heard(r, q, s) \/ (s = f.of /\ Labelled(q, f))
  BY <1>2, <1>3, <1>4 DEF Spoken, Heard, Labelled
<1>8. terminal # "ok" => q.shown = r.shown
  BY <1>2, <1>3 DEF Spoken
<1> QED BY <1>3, <1>4, <1>5, <1>6, <1>7, <1>8 DEF Spoken, m, q


-----------------------------------------------------------------------------
(* Numbers in order.                                                         *)
Ascending(s) == \A i, j \in DOMAIN s : i < j => s[i] < s[j]
Lists(s, S) == s \in Seq(S) /\ Ascending(s) /\ \A x \in S : \E k \in DOMAIN s : s[k] = x

LEMMA LeastOfNat ==
  ASSUME NEW T, T \subseteq Nat, T # {}
  PROVE  \E m \in T : \A x \in T : m <= x
<1>1. PICK m \in T : \A x \in T : ~(<<x, m>> \in OpToRel(<, Nat))
  BY NatLessThanWellFounded, WFMin
<1>2. OpToRel(<, Nat) = {z \in Nat \X Nat : z[1] < z[2]}
  BY Zenon DEF OpToRel
<1>3. \A x \in T : x \in Nat /\ m \in Nat /\ ~(x < m)
  <2>1. \A x \in T : x \in Nat /\ m \in Nat /\ (x < m => <<x, m>> \in OpToRel(<, Nat))
    BY <1>2
  <2> QED BY <1>1, <2>1, Zenon
<1>4. \A x \in T : m <= x
  BY <1>3
<1> QED BY <1>4

LEMMA LeastIsLeast ==
  ASSUME NEW T, T \subseteq Nat, T # {}
  PROVE  Least(T) \in T /\ \A x \in T : Least(T) <= x
  BY LeastOfNat DEF Least

LEMMA AscendingIdentity ==
  ASSUME NEW n \in Nat, NEW f \in [1 .. n -> 1 .. n], Ascending(f)
  PROVE  \A k \in 1 .. n : f[k] = k
<1>1. \A i, j \in 1 .. n : i < j => f[i] < f[j]
  BY DEF Ascending
<1>2. \A k \in 1 .. n : f[k] >= k
  <2> DEFINE T == {k \in 1 .. n : f[k] < k}
  <2> SUFFICES ASSUME T # {} PROVE FALSE
    OBVIOUS
  <2>1. T \subseteq Nat
    OBVIOUS
  <2>2. PICK m \in T : \A x \in T : m <= x
    <3> HIDE DEF T
    <3> QED BY <2>1, LeastOfNat
  <2>3. m \in 1 .. n /\ f[m] \in 1 .. n /\ f[m] < m
    BY <2>2
  <2>4. f[m] \in T
    BY <2>3, <1>1
  <2> QED BY <2>2, <2>3, <2>4
<1>3. \A k \in 1 .. n : f[k] <= k
  <2> SUFFICES ASSUME NEW x \in 1 .. n, f[x] > x PROVE FALSE
    OBVIOUS
  <2> DEFINE T == {d \in 0 .. n : f[n - d] > n - d /\ n - d \in 1 .. n}
  <2>1. n - x \in T /\ T \subseteq Nat
    OBVIOUS
  <2>2. PICK d \in T : \A y \in T : d <= y
    <3> HIDE DEF T
    <3> QED BY <2>1, LeastOfNat
  <2> DEFINE k == n - d
  <2>3. k \in 1 .. n /\ f[k] > k /\ f[k] \in 1 .. n /\ d = n - k
    BY <2>2
  <2>4. f[f[k]] > f[k] /\ n - (n - f[k]) = f[k] /\ n - f[k] \in 0 .. n
    BY <2>3, <1>1
  <2>5. n - f[k] \in T
    BY <2>3, <2>4
  <2> QED BY <2>2, <2>3, <2>5
<1> QED BY <1>2, <1>3

(* Two sequences of one length, one of them with elements of the other.      *)
Rises(s, n)     == \A i \in 1 .. n : s[i] \in Nat /\ \A j \in 1 .. n : i < j => s[i] < s[j]
Within(t, s, n) == \A k \in 1 .. n : \E j \in 1 .. n : t[k] = s[j]
Agree(t, s, n)  == \A k \in 1 .. n : t[k] = s[k]

LEMMA AscendingUnique ==
  ASSUME NEW n \in Nat, NEW s, NEW t, Rises(s, n), Rises(t, n), Within(t, s, n)
  PROVE  Agree(t, s, n)
<1> DEFINE f == [k \in 1 .. n |-> CHOOSE j \in 1 .. n : t[k] = s[j]]
<1>1. \A k \in 1 .. n : f[k] \in 1 .. n /\ s[f[k]] = t[k]
  BY DEF Within
<1>2. f \in [1 .. n -> 1 .. n]
  BY <1>1
<1>3. ASSUME NEW i \in 1 .. n, NEW j \in 1 .. n, i < j PROVE f[i] < f[j]
  <2>1. t[i] < t[j] /\ t[i] \in Nat /\ t[j] \in Nat
    BY <1>3 DEF Rises
  <2>2. f[i] = f[j] \/ f[j] < f[i] => ~(s[f[i]] < s[f[j]])
    BY <1>1, <2>1 DEF Rises
  <2> QED BY <1>1, <2>1, <2>2
<1> HIDE DEF f
<1>4. Ascending(f)
  BY <1>2, <1>3 DEF Ascending
<1>5. \A k \in 1 .. n : f[k] = k
  BY <1>2, <1>4, AscendingIdentity
<1> QED BY <1>1, <1>5 DEF Agree

LEMMA DeclarationLists ==
  ASSUME NEW S, S \subseteq Nat, NEW s, Lists(s, S)
  PROVE  Lists(Declaration(S), S)
<1> DEFINE n == Len(s)
<1>1. n \in Nat /\ s \in [1 .. n -> S] /\ Ascending(s) /\ \A x \in S : \E k \in 1 .. n : s[k] = x
  BY DEF Lists
<1> HIDE DEF n
<1>2. \A i, j \in 1 .. n : s[i] = s[j] => i = j
  <2>1. \A i, j \in 1 .. n : i < j => s[i] < s[j]
    BY <1>1 DEF Ascending
  <2>2. \A i \in 1 .. n : s[i] \in Nat
    BY <1>1
  <2> QED BY <1>1, <2>1, <2>2
<1>3. s \in Bijection(1 .. n, S)
  BY <1>1, <1>2 DEF Bijection, Injection, Surjection, IsInjective
<1>4. Cardinality(S) = n
  BY <1>1, <1>3, FS_CountingElements DEF ExistsBijection
<1> DEFINE d == Declaration(S)
<1>5. d \in [1 .. n -> S] /\ Ascending(d)
  BY <1>1, <1>4 DEF Declaration, Ascending
<1> HIDE DEF d
<1>6. Rises(s, n) /\ Rises(d, n) /\ Within(d, s, n)
  BY <1>1, <1>5 DEF Rises, Within, Ascending
<1>7. Agree(d, s, n)
  BY <1>1, <1>6, AscendingUnique
<1>8. d = s
  BY <1>1, <1>5, <1>7 DEF Agree
<1> QED BY <1>8 DEF d

-----------------------------------------------------------------------------
(* The command and its jobs.                                                 *)
Phases == {"begin", "lock", "locked", "select", "prepare", "apply", "publish",
           "load", "loaded", "done"}
Serial == {"apply", "publish"}
Named  == {apply[k] : k \in DOMAIN apply}
Came   == {ended[k].of : k \in DOMAIN ended}

CommandType ==
  /\ cmd \in Commands /\ limit \in Limits /\ scope \subseteq Remote
  /\ phase \in {"sync", "follow"} /\ pc \in Phases
  /\ todo \subseteq Plugins /\ (pc = "select" => todo \subseteq scope)
  /\ outcome \in {"none", "ok", "failures", "error"}

JobType ==
  /\ queue \subseteq scope /\ job \in [Plugins -> Steps] /\ ended \in Seq(Results)
  /\ apply \in Seq(scope) /\ results \in Seq(Results)
  /\ failures \subseteq Plugins /\ excluded \subseteq Plugins
  /\ used \in [Plugins -> SUBSET Plugins]

(* What is selected comes in declaration order.                              *)
Selecting ==
  pc = "select" =>
    (\E s : Lists(s, queue)) /\ \A q \in queue, t \in todo : q < t

(* Every plugin to apply has one job: queued, running or ended.              *)
Preparing ==
  IF pc = "prepare"
  THEN /\ Named = queue \cup Running \cup Came
       /\ queue \cap Running = {} /\ (queue \cup Running) \cap Came = {}
       /\ \A i, j \in DOMAIN ended : ended[i].of = ended[j].of => i = j
       /\ \A p \in Running : p \in Remote
  ELSE /\ Running = {} /\ ended = <<>>
       /\ pc \notin {"select", "done"} => queue = {}

Applying ==
  /\ pc \in {"prepare"} \cup Serial => Ascending(apply)
  /\ pc \in Serial =>
       DOMAIN results = DOMAIN apply /\ \A k \in DOMAIN apply : results[k].of = apply[k]
  /\ pc = "publish" => apply # <<>>

JInv == CommandType /\ JobType /\ Selecting /\ Preparing /\ Applying /\ OwnCheckout

USE DEF Phases, Serial

LEMMA RemoteType == Remote \subseteq Plugins /\ Plugins \subseteq Nat
  BY ReporterAssumption DEF Remote

LEMMA JInvInit == Init => JInv
  BY RemoteType DEF Init, JInv, CommandType, JobType, Selecting, Preparing, Applying, OwnCheckout,
     Running, Steps

(* Steps that leave the jobs alone.                                          *)
LEMMA JobsRest ==
  ASSUME JInv, UNCHANGED <<setting, batch, applying, used>>, CommandType',
         failures' \subseteq Plugins, excluded' \subseteq Plugins,
         pc # "done", pc = "prepare" <=> pc' = "prepare",
         pc' = "select" => pc = "select" /\ todo' \subseteq todo,
         pc = "select" => pc' \in {"select", "done"},
         pc' \in Serial => pc \in Serial,
         pc' = "publish" => apply # <<>>
  PROVE  JInv'
  BY DEF JInv, JobType, Selecting, Preparing, Applying, OwnCheckout, Running, Came, Named,
     setting, batch, applying

LEMMA ListsNone == Lists(<<>>, {})
  BY DEF Lists, Ascending

LEMMA SelectsJobs ==
  ASSUME JInv, Selects, UNCHANGED <<setting, used>>, CommandType',
         failures' \subseteq Plugins, excluded' \subseteq Plugins
  PROVE  JInv'
<1>1. JobType'
  BY DEF JInv, JobType, Selects, setting, Steps
<1>2. Selecting'
  BY ListsNone DEF Selecting, Selects
<1>3. Preparing' /\ Applying' /\ OwnCheckout'
  BY DEF JInv, Preparing, Applying, OwnCheckout, Running, Selects
<1> QED BY <1>1, <1>2, <1>3 DEF JInv

LEMMA Listed ==
  ASSUME NEW S, S \subseteq Nat, NEW s, Lists(s, S), NEW p \in Nat, \A q \in S : q < p
  PROVE  Lists(Append(s, p), S \cup {p})
<1> DEFINE n == Len(s)  t == Append(s, p)
<1>1. n \in Nat /\ s \in [1 .. n -> S] /\ Ascending(s) /\ \A x \in S : \E k \in 1 .. n : s[k] = x
  BY DEF Lists
<1>2. t \in Seq(S \cup {p}) /\ DOMAIN t = 1 .. n + 1
  BY <1>1, AppendProperties DEF Lists
<1>3. t[n + 1] = p /\ \A k \in 1 .. n : t[k] = s[k]
  BY <1>1, AppendProperties DEF Lists
<1> HIDE DEF n, t
<1>4. \A k \in 1 .. n : t[k] \in S /\ t[k] < p
  BY <1>1, <1>3
<1>5. \A i, j \in 1 .. n : i < j => t[i] < t[j]
  BY <1>1, <1>3 DEF Ascending
<1>6. \A i, j \in 1 .. n + 1 : i < j => i \in 1 .. n /\ (j = n + 1 \/ j \in 1 .. n)
  BY <1>1
<1>7. Ascending(t)
  BY <1>2, <1>3, <1>4, <1>5, <1>6 DEF Ascending
<1>8. \A x \in S \cup {p} : \E k \in 1 .. n + 1 : t[k] = x
  BY <1>1, <1>3
<1> QED BY <1>2, <1>7, <1>8 DEF Lists, t

LEMMA SelectedJobs ==
  ASSUME JInv, NEW p \in Plugins, Selected(p)
  PROVE  JInv'
<1> USE DEF Selected, Looks
<1>1. todo \subseteq Nat /\ queue \subseteq Nat /\ todo \subseteq scope
  BY RemoteType DEF JInv, CommandType, JobType, Remote
<1>2. p \in todo /\ \A t \in todo : p <= t
  BY <1>1, LeastIsLeast
<1>3. CommandType' /\ JobType'
  BY <1>1, <1>2 DEF JInv, CommandType, JobType, setting, tally, applying
<1>4. PICK s : Lists(s, queue)
  BY DEF JInv, Selecting
<1>5. Lists(Append(s, p), queue \cup {p})
  BY <1>1, <1>2, <1>4, Listed DEF JInv, Selecting
<1>6. \A q \in queue', t \in todo' : q < t
  BY <1>1, <1>2 DEF JInv, Selecting
<1>7. Selecting'
  BY <1>5, <1>6 DEF Selecting
<1>8. Preparing' /\ Applying' /\ OwnCheckout'
  BY DEF JInv, Preparing, Applying, OwnCheckout, Running, applying
<1> QED BY <1>3, <1>7, <1>8 DEF JInv

LEMMA ScheduleJobs ==
  ASSUME JInv, Schedule
  PROVE  JInv'
<1> USE DEF Schedule
<1>1. queue \subseteq scope /\ queue \subseteq Nat /\ queue \subseteq Remote
  BY RemoteType DEF JInv, CommandType, JobType
<1>2. Lists(apply', queue)
  BY <1>1, DeclarationLists DEF JInv, Selecting
<1>3. apply' \in Seq(queue) /\ Ascending(apply') /\ \A x \in queue : \E k \in DOMAIN apply' : apply'[k] = x
  BY <1>2 DEF Lists
<1>4. Named' = queue /\ apply' \in Seq(scope)
  <2>1. \A k \in DOMAIN apply' : apply'[k] \in queue
    BY <1>3
  <2>2. Named' = queue
    BY <1>3, <2>1 DEF Named
  <2>3. Len(apply') \in Nat /\ apply' = [k \in 1 .. Len(apply') |-> apply'[k]]
          /\ \A k \in 1 .. Len(apply') : apply'[k] \in scope
    BY <1>1, <1>3
  <2>4. apply' \in Seq(scope)
    BY <2>3
  <2> QED BY <2>2, <2>4
<1>5. CommandType' /\ JobType'
  BY <1>4 DEF JInv, CommandType, JobType, setting, tally, batch
<1>6. Preparing'
  BY <1>4 DEF JInv, Preparing, Running, Came, batch
<1>7. Selecting' /\ Applying' /\ OwnCheckout'
  BY <1>3 DEF JInv, Selecting, Applying, OwnCheckout
<1> QED BY <1>5, <1>6, <1>7 DEF JInv

LEMMA StartJobJobs ==
  ASSUME JInv, NEW p \in Plugins, StartJob(p)
  PROVE  JInv'
<1> USE DEF StartJob
<1>1. p \in queue /\ queue \subseteq scope /\ queue \subseteq Remote
  BY RemoteType, LeastIsLeast DEF JInv, JobType, CommandType
<1>2. Running' = Running \cup {p} /\ Came' = Came /\ Named' = Named
  BY <1>1 DEF JInv, JobType, Running, Came, Named, applying
<1>3. CommandType' /\ JobType'
  BY <1>1 DEF JInv, CommandType, JobType, setting, tally, applying, Steps
<1>4. Preparing'
  BY <1>1, <1>2 DEF JInv, Preparing
<1>5. Selecting' /\ Applying' /\ OwnCheckout'
  BY DEF JInv, Selecting, Applying, OwnCheckout, applying
<1> QED BY <1>3, <1>4, <1>5 DEF JInv

LEMMA GoesJobs ==
  ASSUME JInv, NEW p \in Plugins, NEW from \in Steps \ {"none"}, NEW to \in Steps \ {"none"},
         Goes(p, from, to)
  PROVE  JInv'
<1> USE DEF Goes
<1>1. Running' = Running /\ Came' = Came /\ Named' = Named
  BY DEF JInv, JobType, Running, Came, Named, applying
<1>2. CommandType' /\ JobType'
  BY DEF JInv, CommandType, JobType, setting, tally, applying, Steps
<1>3. Preparing'
  BY <1>1 DEF JInv, Preparing
<1>4. Selecting' /\ Applying' /\ OwnCheckout'
  BY DEF JInv, Selecting, Applying, OwnCheckout, applying
<1> QED BY <1>2, <1>3, <1>4 DEF JInv

LEMMA JobEndsJobs ==
  ASSUME JInv, NEW p \in Plugins, NEW how \in {"ok", "failed"}, job[p] # "none", JobEnds(p, how)
  PROVE  JInv'
<1> USE DEF JobEnds
<1> DEFINE res == [of |-> p, how |-> how]
<1>1. p \in Running /\ p \in Remote /\ res \in Results
  BY DEF JInv, Preparing, Running, Results
<1>2. Running' = Running \ {p} /\ Named' = Named
  BY DEF JInv, JobType, Running, Named, applying
<1>3. ended \in Seq(Results)
  BY DEF JInv, JobType
<1>4. /\ ended' \in Seq(Results) /\ DOMAIN ended = 1 .. Len(ended)
      /\ DOMAIN ended' = 1 .. Len(ended) + 1 /\ Len(ended) \in Nat
      /\ ended'[Len(ended) + 1] = res
      /\ \A k \in DOMAIN ended : ended'[k] = ended[k]
  BY <1>1, <1>3, AppendProperties
<1>5. Came' = Came \cup {p}
  BY <1>4 DEF Came
<1>6. \A k \in DOMAIN ended : ended[k].of \in Came
  BY DEF Came
<1>7. p \notin Came
  BY <1>1 DEF JInv, Preparing
<1>8. \A i, j \in DOMAIN ended' : ended'[i].of = ended'[j].of => i = j
  <2>1. \A i \in DOMAIN ended' : i = Len(ended) + 1 \/ i \in DOMAIN ended
    BY <1>4
  <2>2. \A i, j \in DOMAIN ended : ended[i].of = ended[j].of => i = j
    BY DEF JInv, Preparing
  <2> QED BY <1>4, <1>6, <1>7, <2>1, <2>2
<1>9. CommandType' /\ JobType'
  BY <1>4 DEF JInv, CommandType, JobType, setting, tally, applying, Steps
<1>10. Preparing'
  BY <1>1, <1>2, <1>5, <1>8 DEF JInv, Preparing
<1>11. Selecting' /\ Applying' /\ OwnCheckout'
  BY DEF JInv, Selecting, Applying, OwnCheckout, applying
<1> QED BY <1>9, <1>10, <1>11 DEF JInv

(* The results, sorted, are those of the plugins to apply, one by one.       *)
LEMMA Sorted ==
  ASSUME NEW a \in Seq(Nat), Ascending(a), NEW done \in Seq([of : Nat, how : {"ok", "failed"}]),
         {done[k].of : k \in DOMAIN done} = {a[k] : k \in DOMAIN a},
         \A i, j \in DOMAIN done : done[i].of = done[j].of => i = j
  PROVE  /\ InOrder(done) \in [DOMAIN a -> Range(done)]
         /\ \A k \in DOMAIN a : InOrder(done)[k].of = a[k]
         /\ \A k \in DOMAIN a : \E j \in DOMAIN done : InOrder(done)[k] = done[j]
<1> DEFINE n == Len(a)  S == {a[k] : k \in 1 .. n}
<1>1. n \in Nat /\ DOMAIN a = 1 .. n /\ a \in [1 .. n -> Nat] /\ Len(done) \in Nat
      /\ DOMAIN done = 1 .. Len(done) /\ S = {done[k].of : k \in 1 .. Len(done)}
  <2>1. n \in Nat /\ DOMAIN a = 1 .. n /\ a \in [1 .. n -> Nat]
    OBVIOUS
  <2>2. Len(done) \in Nat /\ DOMAIN done = 1 .. Len(done)
    OBVIOUS
  <2> HIDE DEF n
  <2>3. S = {done[k].of : k \in 1 .. Len(done)}
    BY <2>1, <2>2
  <2> QED BY <2>1, <2>2, <2>3
<1>2. a \in [1 .. n -> S] /\ S \subseteq Nat /\ \A x \in S : \E k \in 1 .. n : a[k] = x
  BY <1>1
<1>3. \A i, j \in 1 .. n : i < j => a[i] < a[j]
  BY <1>1 DEF Ascending
<1> DEFINE w == [k \in 1 .. n |-> CHOOSE r \in Range(done) : r.of = a[k]]
           keys == [k \in 1 .. Len(done) |-> done[k].of]
<1>4. Range(done) = {done[k] : k \in 1 .. Len(done)}
  BY <1>1 DEF Range
<1>5. \A k \in 1 .. n : \E r \in Range(done) : r.of = a[k]
  <2> SUFFICES ASSUME NEW k \in 1 .. n PROVE \E r \in Range(done) : r.of = a[k]
    OBVIOUS
  <2>1. a[k] \in S
    OBVIOUS
  <2>2. PICK j \in 1 .. Len(done) : done[j].of = a[k]
    <3> HIDE DEF n, S
    <3> QED BY <1>1, <2>1
  <2> QED BY <1>4, <2>2
<1>6. \A k \in 1 .. n : w[k] \in Range(done) /\ w[k].of = a[k]
  BY <1>5
<1>7. n = Len(done)
  <2>1. a \in Bijection(1 .. n, S)
    <3>1. \A i, j \in 1 .. n : a[i] = a[j] => i = j
      BY <1>1, <1>3
    <3> QED BY <1>2, <3>1 DEF Bijection, Injection, Surjection, IsInjective
  <2>2. keys \in Bijection(1 .. Len(done), S)
    <3>1. \A i \in 1 .. Len(done) : keys[i] \in S
      BY <1>1
    <3>2. \A i, j \in 1 .. Len(done) : keys[i] = keys[j] => i = j
      BY <1>1
    <3>3. \A x \in S : \E i \in 1 .. Len(done) : keys[i] = x
      BY <1>1
    <3>4. keys \in [1 .. Len(done) -> S]
      BY <3>1
    <3> HIDE DEF keys, S
    <3> QED BY <3>2, <3>3, <3>4 DEF Bijection, Injection, Surjection, IsInjective
  <2> HIDE DEF S, keys, n
  <2>3. Cardinality(S) = n /\ Cardinality(S) = Len(done)
    BY <1>1, <2>1, <2>2, FS_CountingElements DEF ExistsBijection
  <2> QED BY <2>3
<1>8. \E s \in [DOMAIN done -> Range(done)] : \A i, j \in DOMAIN s : i < j => s[i].of < s[j].of
  <2>1. w \in [1 .. n -> Range(done)]
    BY <1>6
  <2>2. \A i, j \in 1 .. n : i < j => w[i].of < w[j].of
    BY <1>3, <1>6
  <2> HIDE DEF w, n
  <2> QED BY <1>1, <1>7, <2>1, <2>2
<1> DEFINE t == InOrder(done)  tk == [k \in 1 .. n |-> t[k].of]
<1>9. t \in [1 .. n -> Range(done)] /\ \A i, j \in 1 .. n : i < j => t[i].of < t[j].of
  <2>1. t \in [DOMAIN done -> Range(done)] /\ \A i, j \in DOMAIN t : i < j => t[i].of < t[j].of
    BY <1>8 DEF InOrder
  <2> HIDE DEF t, n
  <2> QED BY <1>1, <1>7, <2>1
<1> HIDE DEF t
<1>10. \A k \in 1 .. n : \E j \in 1 .. Len(done) : t[k] = done[j]
  BY <1>4, <1>9
<1>11. \A k \in 1 .. n : \E j \in 1 .. n : tk[k] = a[j]
  <2> SUFFICES ASSUME NEW k \in 1 .. n PROVE \E j \in 1 .. n : tk[k] = a[j]
    OBVIOUS
  <2>1. tk[k] \in {done[j].of : j \in 1 .. Len(done)}
    BY <1>10
  <2>2. tk[k] \in S
    BY <1>1, <2>1
  <2> QED BY <2>2
<1>12. n \in Nat /\ Rises(a, n) /\ Rises(tk, n) /\ Within(tk, a, n)
  <2>1. \A i \in 1 .. n : a[i] \in Nat
    BY <1>1
  <2>2. \A i, j \in 1 .. n : i < j => tk[i] < tk[j]
    BY <1>9
  <2>3. n \in Nat
    BY <1>1
  <2> HIDE DEF tk, n
  <2> QED BY <1>3, <1>11, <2>1, <2>2, <2>3 DEF Rises, Within
<1>13. \A k \in 1 .. n : tk[k] = a[k]
  <2> HIDE DEF tk, n
  <2>1. Agree(tk, a, n)
    BY <1>12, AscendingUnique
  <2> QED BY <2>1 DEF Agree
<1>14. \A k \in 1 .. n : t[k].of = a[k]
  BY <1>13
<1> QED
  <2> HIDE DEF n
  <2> QED BY <1>1, <1>9, <1>10, <1>14 DEF t

LEMMA SeqWidens ==
  ASSUME NEW S, NEW T, S \subseteq T, NEW s \in Seq(S)
  PROVE  s \in Seq(T)
  OBVIOUS

LEMMA CollectJobs ==
  ASSUME JInv, Collect
  PROVE  JInv'
<1> USE DEF Collect
<1>1. /\ apply \in Seq(scope) /\ ended \in Seq(Results) /\ scope \subseteq Remote
      /\ Ascending(apply) /\ Named = Came
      /\ \A i, j \in DOMAIN ended : ended[i].of = ended[j].of => i = j
  BY DEF JInv, CommandType, JobType, Preparing, Applying
<1>2. apply \in Seq(Nat) /\ ended \in Seq([of : Nat, how : {"ok", "failed"}])
  <2>1. Results \subseteq [of : Nat, how : {"ok", "failed"}]
    BY RemoteType DEF Results
  <2>2. scope \subseteq Nat
    BY <1>1, RemoteType
  <2> QED BY <1>1, <2>1, <2>2, SeqWidens
<1>3. {ended[k].of : k \in DOMAIN ended} = {apply[k] : k \in DOMAIN apply}
  BY <1>1, Zenon DEF Named, Came
<1>4. /\ results' \in [DOMAIN apply -> Range(ended)]
      /\ \A k \in DOMAIN apply : results'[k].of = apply[k]
      /\ \A k \in DOMAIN apply : \E j \in DOMAIN ended : results'[k] = ended[j]
  <2>1. /\ InOrder(ended) \in [DOMAIN apply -> Range(ended)]
        /\ \A k \in DOMAIN apply : InOrder(ended)[k].of = apply[k]
        /\ \A k \in DOMAIN apply : \E j \in DOMAIN ended : InOrder(ended)[k] = ended[j]
    <3> HIDE DEF Collect
    <3> QED BY <1>1, <1>2, <1>3, Sorted, Zenon
  <2> QED BY <2>1
<1>5. results' \in Seq(Results)
  <2>1. DOMAIN apply = 1 .. Len(apply) /\ Len(apply) \in Nat
    BY <1>1
  <2>2. \A k \in DOMAIN apply : results'[k] \in Results
    BY <1>1, <1>4
  <2> QED BY <1>4, <2>1, <2>2
<1>6. CommandType' /\ JobType'
  <2>1. CommandType'
    BY DEF JInv, CommandType, setting, tally
  <2> QED BY <1>5, <2>1 DEF JInv, JobType, setting, tally
<1>7. Preparing'
  BY DEF Preparing, Running
<1>8. Selecting' /\ Applying' /\ OwnCheckout'
  BY <1>4 DEF JInv, Selecting, Applying, OwnCheckout
<1> QED BY <1>6, <1>7, <1>8 DEF JInv

LEMMA AtHandIs ==
  ASSUME JInv, pc \in Serial, apply # <<>>
  PROVE  /\ Current \in scope /\ Current \in Named /\ results # <<>>
         /\ Result \in Results /\ Result.of = Current
<1>1. apply \in Seq(scope) /\ results \in Seq(Results) /\ DOMAIN results = DOMAIN apply
      /\ \A k \in DOMAIN apply : results[k].of = apply[k]
  BY DEF JInv, JobType, Applying
<1>2. 1 \in DOMAIN apply /\ 1 \in DOMAIN results
  BY <1>1
<1>3. Current = apply[1] /\ Result = results[1] /\ results # <<>>
  BY <1>1, <1>2 DEF Current, Result
<1> QED BY <1>1, <1>2, <1>3 DEF Named

LEMMA Shorter ==
  ASSUME NEW S, NEW s \in Seq(S), s # <<>>
  PROVE  /\ Tail(s) \in Seq(S) /\ DOMAIN Tail(s) = 1 .. Len(s) - 1
         /\ DOMAIN s = 1 .. Len(s) /\ Len(s) \in Nat
         /\ \A k \in 1 .. Len(s) - 1 : Tail(s)[k] = s[k + 1] /\ k + 1 \in 1 .. Len(s)
  BY HeadTailProperties

LEMMA MovesJobs ==
  ASSUME JInv, pc \in Serial, apply # <<>>, MovesOn, UNCHANGED <<setting, phase, todo, batch, outcome>>,
         failures' \subseteq Plugins, excluded' \subseteq Plugins,
         used' \in [Plugins -> SUBSET Plugins], OwnCheckout'
  PROVE  JInv' /\ Named' \subseteq Named \ {Current}
<1> USE DEF MovesOn
<1>1. apply \in Seq(scope) /\ results \in Seq(Results) /\ DOMAIN results = DOMAIN apply
      /\ (\A k \in DOMAIN apply : results[k].of = apply[k]) /\ scope \subseteq Nat
  BY RemoteType DEF JInv, JobType, Applying, CommandType
<1>2. results # <<>> /\ Current = apply[1]
  BY AtHandIs DEF Current
<1>3. Len(results) = Len(apply)
  BY <1>1
<1>4. /\ apply' \in Seq(scope) /\ results' \in Seq(Results) /\ DOMAIN apply' = 1 .. Len(apply) - 1
      /\ DOMAIN results' = 1 .. Len(apply) - 1 /\ DOMAIN apply = 1 .. Len(apply) /\ Len(apply) \in Nat
      /\ \A k \in 1 .. Len(apply) - 1 : apply'[k] = apply[k + 1] /\ results'[k] = results[k + 1]
                                        /\ k + 1 \in DOMAIN apply
  BY <1>1, <1>2, <1>3, Shorter
<1>5. \A i, j \in DOMAIN apply : i < j => apply[i] < apply[j]
  BY DEF JInv, Applying, Ascending
<1>6. Ascending(apply')
  BY <1>4, <1>5 DEF Ascending
<1>7. \A k \in DOMAIN apply' : results'[k].of = apply'[k]
  BY <1>1, <1>4
<1>8. \A k \in DOMAIN apply' : apply'[k] # Current /\ apply'[k] \in Named
  <2> SUFFICES ASSUME NEW k \in DOMAIN apply' PROVE apply'[k] # Current /\ apply'[k] \in Named
    OBVIOUS
  <2>1. k + 1 \in DOMAIN apply /\ 1 \in DOMAIN apply /\ 1 < k + 1 /\ apply'[k] = apply[k + 1]
    BY <1>4
  <2>2. apply[1] < apply[k + 1]
    BY <1>5, <2>1
  <2>3. \A m \in DOMAIN apply : apply[m] \in Nat
    <3>1. apply \in Seq(Nat)
      BY <1>1, SeqWidens
    <3> HIDE DEF MovesOn
    <3> QED BY <3>1, ElementOfSeq
  <2>4. apply[1] \in Nat /\ apply[k + 1] \in Nat
    BY <2>1, <2>3
  <2> QED BY <1>2, <2>1, <2>2, <2>4 DEF Named
<1>9. CommandType'
  BY DEF JInv, CommandType, setting
<1>10. JobType'
  BY <1>4 DEF JInv, JobType, setting, batch
<1>11. Preparing'
  BY DEF JInv, Preparing, Running, batch
<1>12. Selecting' /\ Applying'
  BY <1>4, <1>6, <1>7 DEF Selecting, Applying
<1> QED BY <1>8, <1>9, <1>10, <1>11, <1>12 DEF JInv, Named

LEMMA ConcludesJobs ==
  ASSUME JInv, pc \in Serial, apply # <<>>, NEW what, Concludes(what),
         used' = used \/ used' = [used EXCEPT ![Current] = @ \cup {Result.of}],
         excluded' = excluded \/ excluded' = excluded \cup {Current}
  PROVE  JInv' /\ Named' \subseteq Named \ {Current}
<1>1. Current \in Plugins /\ Result.of = Current
  BY AtHandIs, RemoteType DEF JInv, CommandType
<1>2. used' \in [Plugins -> SUBSET Plugins] /\ OwnCheckout'
  BY <1>1 DEF JInv, JobType, OwnCheckout
<1>3. failures' \subseteq Plugins /\ excluded' \subseteq Plugins
  BY <1>1 DEF Concludes, JInv, JobType
<1> QED BY <1>2, <1>3, MovesJobs DEF Concludes

LEMMA FailsJobs ==
  ASSUME JInv, pc \in Serial, apply # <<>>, NEW at, FailsAt(at)
  PROVE  JInv' /\ Named' \subseteq Named \ {Current}
<1>1. Current \in Plugins
  BY AtHandIs, RemoteType DEF JInv, CommandType
<1>2. failures' \subseteq Plugins /\ excluded' \subseteq Plugins
  BY <1>1 DEF FailsAt, JInv, JobType
<1> QED BY <1>2, MovesJobs DEF FailsAt, JInv, JobType, OwnCheckout

LEMMA RestsInSelect ==
  ASSUME JInv, UNCHANGED <<setting, phase, pc, batch, applying, tally, used>>,
         pc = "select", todo' \subseteq todo
  PROVE  JInv'
<1>1. CommandType'
  BY DEF JInv, CommandType, setting, tally
<1> QED BY <1>1, JobsRest DEF tally, JInv, JobType

LEMMA EndsJobs ==
  ASSUME JInv, NEW res \in {"ok", "failures", "error"}, NEW r, Ends(res, r), pc \notin {"prepare", "done"},
         UNCHANGED <<env, setting, phase, todo, batch, applying, failures, excluded, used>>
  PROVE  JInv'
<1>1. CommandType'
  BY DEF JInv, CommandType, setting, Ends
<1> QED BY <1>1, JobsRest DEF Ends, JInv, JobType

LEMMA JInvNext == JInv /\ [Next]_vars => JInv'
<1> SUFFICES ASSUME JInv, [Next]_vars PROVE JInv'
  OBVIOUS
<1>1. CASE UNCHANGED vars
  <2>1. CommandType' /\ JobType'
    BY <1>1 DEF JInv, vars, setting, batch, applying, tally, CommandType, JobType
  <2> QED BY <1>1, <2>1 DEF JInv, vars, setting, batch, applying, tally, Selecting, Preparing, Applying,
                      OwnCheckout, Running, Named, Came
<1>2. ASSUME Begin \/ SyncsInit \/ Follow PROVE JInv'
  <2>1. CommandType'
    BY <1>2 DEF JInv, CommandType, Begin, SyncsInit, Follow, Selects, setting, tally, Remote
  <2> QED BY <1>2, <2>1, SelectsJobs DEF Begin, SyncsInit, Follow, tally, JInv, JobType
<1>3. ASSUME Wait \/ Locked \/ LockFails \/ LoadTmux \/ BeginPublish \/ Loads PROVE JInv'
  <2>1. CommandType'
    BY <1>3, ProgressAssumption
    DEF JInv, CommandType, Wait, Locked, LockFails, LoadTmux, BeginPublish, Loads, setting, tally, Remote
  <2>2. UNCHANGED <<setting, batch, applying, used>> /\ failures' \subseteq Plugins /\ excluded' \subseteq Plugins
    BY <1>3 DEF Wait, Locked, LockFails, LoadTmux, BeginPublish, Loads, tally, JInv, JobType
  <2> QED BY <1>3, <2>1, <2>2, JobsRest
        DEF Wait, Locked, LockFails, LoadTmux, BeginPublish, Loads, PhaseDone, AtHand
<1>4. ASSUME NEW p \in Plugins, Selected(p) PROVE JInv'
  BY <1>4, SelectedJobs
<1>5. ASSUME NEW p \in Plugins, Passed(p) \/ LeftAlone(p) PROVE JInv'
  BY <1>5, RestsInSelect DEF Passed, LeftAlone, Looks
<1>6. CASE Schedule
  BY <1>6, ScheduleJobs
<1>7. ASSUME NEW p \in Plugins, Job(p) PROVE JInv'
  <2>1. CASE StartJob(p)
    BY <2>1, StartJobJobs
  <2>2. CASE Materialize(p)
    BY <2>2, JobEndsJobs DEF Materialize
  <2>3. CASE JobFails(p)
    BY <2>3, JobEndsJobs DEF JobFails
  <2>4. CASE FetchTracking(p) \/ EnsureCache(p) \/ FetchLocked(p) \/ ResolveTracking(p)
    <3>1. \E from, to \in Steps \ {"none"} : Goes(p, from, to)
      BY <2>4 DEF FetchTracking, EnsureCache, FetchLocked, ResolveTracking, ChecksOut, Steps
    <3> QED BY <3>1, GoesJobs
  <2> QED BY <1>7, <2>1, <2>2, <2>3, <2>4 DEF Job
<1>8. CASE Collect
  BY <1>8, CollectJobs
<1>9. CASE ApplyUnprepared \/ PublishFails \/ AdoptFails
  <2>1. pc \in Serial /\ apply # <<>>
    BY <1>9 DEF ApplyUnprepared, PublishFails, AdoptFails, AtHand, JInv, Applying
  <2> QED BY <1>9, <2>1, FailsJobs DEF ApplyUnprepared, PublishFails, AdoptFails
<1>10. CASE ApplyKept \/ SkipKnownFailure \/ Publish
  <2>1. pc \in Serial /\ apply # <<>>
    BY <1>10 DEF ApplyKept, SkipKnownFailure, Publish, AtHand, JInv, Applying
  <2> QED BY <1>10, <2>1, ConcludesJobs DEF ApplyKept, SkipKnownFailure, Publish
<1>11. CASE OperationFails \/ Stop \/ FinishInit
  BY <1>11, EndsJobs DEF OperationFails, Stop, FinishInit, PhaseDone, AtHand
<1>12. CASE ReportLoad
  <2>1. CommandType'
    BY <1>12 DEF JInv, CommandType, ReportLoad, setting
  <2> QED BY <1>12, <2>1, JobsRest DEF ReportLoad, JInv, JobType, CommandType
<1>13. CASE StderrGone \/ LogsChange
  <2>1. CommandType'
    BY <1>13 DEF JInv, CommandType, StderrGone, LogsChange, Fault, setting, tally
  <2> QED BY <1>13, <2>1, JobsRest DEF StderrGone, LogsChange, Fault, tally, JInv, JobType, Applying
<1> QED BY <1>1, <1>2, <1>3, <1>4, <1>5, <1>6, <1>7, <1>8, <1>9, <1>10, <1>11, <1>12, <1>13
        DEF Next, Program

(* A checkout is published only as the plugin it was prepared for.           *)
THEOREM PublishedAsItself == Spec => []OwnCheckout
<1>1. JInv => OwnCheckout
  BY DEF JInv
<1> QED BY <1>1, JInvInit, JInvNext, PTL DEF Spec

-----------------------------------------------------------------------------
(* A reporter at the start: its catalog comes in declaration order.          *)
LEMMA BoundedAbove ==
  ASSUME NEW S, S \subseteq Nat, IsFiniteSet(S)
  PROVE  \E u \in Nat : \A x \in S : x < u
<1>1. PICK n \in Nat : ExistsBijection(1 .. n, S)
  BY FS_NatBijection
<1>2. PICK f : f \in [1 .. n -> S] /\ \A x \in S : \E i \in 1 .. n : f[i] = x
  BY <1>1 DEF ExistsBijection, Bijection, Injection, Surjection
<1>0. \A i \in 1 .. n : f[i] \in Nat
  BY <1>2
<1> DEFINE Above(u, k) == \A i \in 1 .. k : f[i] < u
           T == {k \in 0 .. n : \A u \in Nat : ~Above(u, k)}
<1>3. ASSUME T # {} PROVE FALSE
  <2>1. T \subseteq Nat
    OBVIOUS
  <2>2. PICK k \in T : \A x \in T : k <= x
    <3> HIDE DEF T
    <3> QED BY <1>3, <2>1, LeastOfNat
  <2>3. k \in 0 .. n /\ \A u \in Nat : ~Above(u, k)
    OBVIOUS
  <2>4. k - 1 \in 0 .. n => \E u \in Nat : Above(u, k - 1)
    <3>1. ASSUME k - 1 \in 0 .. n, \A u \in Nat : ~Above(u, k - 1) PROVE FALSE
      <4>1. k - 1 \in T
        BY <3>1
      <4> HIDE DEF T
      <4> QED BY <2>2, <2>3, <4>1
    <3> QED BY <3>1
  <2> HIDE DEF T
  <2>5. k # 0
    <3>1. Above(0, 0)
      OBVIOUS
    <3> HIDE DEF Above
    <3> QED BY <2>3, <3>1
  <2>6. k \in 1 .. n /\ k - 1 \in 0 .. n
    BY <2>3, <2>5
  <2>7. PICK u \in Nat : Above(u, k - 1)
    BY <2>4, <2>6
  <2>8. f[k] \in Nat
    BY <1>2, <2>6
  <2> DEFINE w == IF f[k] < u THEN u ELSE f[k] + 1
  <2>9. w \in Nat /\ f[k] < w /\ u <= w
    BY <2>8
  <2>10. \A i \in 1 .. k : i = k \/ i \in 1 .. k - 1
    BY <2>6
  <2>11. \A i \in 1 .. k - 1 : f[i] \in Nat
    BY <1>0, <2>6
  <2> HIDE DEF w
  <2>12. Above(w, k)
    BY <2>7, <2>9, <2>10, <2>11
  <2> QED BY <2>3, <2>9, <2>12
<1>4. \E u \in Nat : Above(u, n)
  <2>1. n \in 0 .. n
    OBVIOUS
  <2> QED BY <1>3, <2>1
<1>5. PICK u \in Nat : Above(u, n)
  BY <1>4
<1> QED BY <1>2, <1>5

LEMMA SetListed ==
  ASSUME NEW S, S \subseteq Nat, IsFiniteSet(S)
  PROVE  \E s : Lists(s, S)
<1>1. PICK u \in Nat : \A x \in S : x < u
  BY BoundedAbove
<1>0. \A x \in S : x \in Nat
  OBVIOUS
<1> DEFINE Below(k) == {x \in S : x < k}
           T == {k \in Nat : \A s : ~Lists(s, Below(k))}
<1>2. ASSUME T # {} PROVE FALSE
  <2>1. T \subseteq Nat
    OBVIOUS
  <2>2. PICK k \in T : \A x \in T : k <= x
    <3> HIDE DEF T
    <3> QED BY <1>2, <2>1, LeastOfNat
  <2>3. k \in Nat /\ \A s : ~Lists(s, Below(k))
    OBVIOUS
  <2>4. k - 1 \in Nat => \E s : Lists(s, Below(k - 1))
    <3> HIDE DEF Below
    <3>1. ASSUME k - 1 \in Nat, \A s : ~Lists(s, Below(k - 1)) PROVE FALSE
      <4>1. k - 1 \in T
        BY <3>1
      <4> HIDE DEF T
      <4> QED BY <2>2, <2>3, <4>1
    <3> QED BY <3>1
  <2> HIDE DEF T
  <2>5. k # 0
    <3>1. Below(0) = {}
      <4>1. \A x \in S : ~(x < 0)
        BY <1>0
      <4> QED BY <4>1
    <3> HIDE DEF Below
    <3> QED BY <2>3, <3>1, ListsNone
  <2>6. k - 1 \in Nat
    BY <2>3, <2>5
  <2>7. PICK s : Lists(s, Below(k - 1))
    BY <2>4, <2>6
  <2>8. CASE k - 1 \in S
    <3>1. Below(k) = Below(k - 1) \cup {k - 1}
      <4>1. \A x \in S : x < k <=> x < k - 1 \/ x = k - 1
        BY <1>0, <2>3
      <4> QED BY <2>8, <4>1
    <3>2. Below(k - 1) \subseteq Nat /\ \A q \in Below(k - 1) : q < k - 1
      OBVIOUS
    <3> HIDE DEF Below
    <3>3. Lists(Append(s, k - 1), Below(k))
      BY <2>6, <2>7, <3>1, <3>2, Listed
    <3> QED BY <2>3, <3>3
  <2>9. CASE k - 1 \notin S
    <3>1. Below(k) = Below(k - 1)
      <4>1. \A x \in S : x < k <=> x < k - 1
        BY <1>0, <2>3, <2>9
      <4> QED BY <4>1
    <3> HIDE DEF Below
    <3> QED BY <2>3, <2>7, <3>1
  <2> QED BY <2>8, <2>9
<1>3. Below(u) = S
  BY <1>1
<1>4. u \in Nat => \E s : Lists(s, Below(u))
  <2> HIDE DEF Below
  <2>1. ASSUME u \in Nat, \A s : ~Lists(s, Below(u)) PROVE FALSE
    <3>1. u \in T
      BY <2>1
    <3> HIDE DEF T
    <3> QED BY <1>2, <3>1
  <2> QED BY <2>1
<1> QED BY <1>1, <1>3, <1>4

LEMMA NewSound ==
  ASSUME NEW sink \in {"live", "transcript"}, NEW catalog, catalog \subseteq Remote
  PROVE  Sound(NewReporter(sink, Declaration(catalog)))
<1> DEFINE d == Declaration(catalog)
           r == NewReporter(sink, d)
<1>1. catalog \subseteq Plugins /\ catalog \subseteq Nat /\ IsFiniteSet(catalog)
  BY RemoteType, ReporterAssumption, FS_Subset
<1>2. Lists(d, catalog)
  BY <1>1, SetListed, DeclarationLists
<1> HIDE DEF d
<1>3. d \in Seq(Plugins)
  BY <1>1, <1>2, SeqWidens DEF Lists
<1>4. r \in Recs
  <2>1. [p \in Plugins |-> "pending"] \in [Plugins -> States] /\ [s \in Subjects |-> "none"] \in [Subjects -> Labels]
    BY DEF States, Labels
  <2>2. <<>> \in Seq(Row) /\ <<>> \in Seq(Texts) /\ <<>> \in Seq({"Details", "Warning"})
    OBVIOUS
  <2> QED BY <1>3, <2>1, <2>2 DEF Recs, NewReporter
<1>5. Distinct(r)
  <2>1. d \in Seq(Nat)
    BY <1>1, <1>2, SeqWidens DEF Lists
  <2>4. DOMAIN d \subseteq Nat /\ \A i \in DOMAIN d : d[i] \in Nat
    BY <2>1
  <2>2. \A i, j \in DOMAIN d : i < j => d[i] < d[j]
    BY <1>2 DEF Lists, Ascending
  <2>3. \A i, j \in DOMAIN d : d[i] = d[j] => i = j
    BY <2>2, <2>4
  <2> QED BY <2>3 DEF Distinct, NewReporter
<1>6. Framed(r)
  BY <1>3 DEF Framed, NewReporter
<1>7. Mirrored(r)
  <2>1. r.io = {} /\ r.lines = <<>> /\ r.frame = <<>> /\ \A s \in Subjects : r.shown[s] = "none"
    BY DEF NewReporter
  <2>2. IsPrefix(<<>>, <<>>)
    BY DEF IsPrefix
  <2> QED BY <2>1, <2>2 DEF Mirrored
<1>8. Warned(r)
  BY DEF Warned, NewReporter
<1> QED BY <1>4, <1>5, <1>6, <1>7, <1>8 DEF Sound, d

-----------------------------------------------------------------------------
(* What the reader sees of the command.                                      *)
Active(p) == pc \in {"prepare"} \cup Serial /\ p \in Named
AtWork(p) == rep.state[p] = "running" \/ (terminal = "ok" /\ rep.shown[p] \in Working)

Attached ==
  /\ rep.finished <=> pc = "done"
  /\ pc # "done" => ~rep.failed /\ rep.tail = <<>> /\ outcome = "none"
  /\ pc \notin {"begin", "done"} => Framing(rep)
  /\ outcome = "ok" => failures = {}

Counted ==
  /\ pc \in {"begin", "lock", "locked", "select", "prepare"} => failures = {}
  /\ pc \in Serial => failures \cap Named = {}

Worked    == \A p \in Plugins : AtWork(p) => Active(p) \/ outcome = "error"
Displayed ==
  terminal = "ok" =>
    /\ \A p \in Plugins : rep.shown[p] = "Failed" <=> p \in failures
    /\ rep.failed <=> rep.shown[Operation] = "Failed"
Traced    == Failed \subseteq rep.logged \/ rep.warned
EndTold   == pc = "done" => Told(rep)
Around    == terminal \in {"ok", "gone"} /\ logs \in {"ok", "unwritable"} /\ faults \in 0 .. MaxFaults

VInv ==
  Around /\ Sound(rep) /\ Attached /\ Counted /\ Worked /\ Displayed /\ Traced /\ EndTold

Unheard == {"silent", "pending"}
Tells(r, q) ==
  \A s \in Subjects :
    LET old == Category(r.shown[s])  new == Category(q.shown[s])
    IN  /\ old = "failed" => new = "failed"
        /\ old = "pending" => new # "silent"
        /\ old \notin Unheard => new \notin Unheard

LEMMA CategoryIs ==
  ASSUME NEW label \in Labels
  PROVE  /\ Category(label) \in {"silent", "pending", "working", "done", "failed"}
         /\ Category(label) = "failed" <=> label = "Failed"
         /\ Category(label) = "silent" <=> label = "none"
         /\ Category(label) = "pending" <=> label \in {"Status", "Pending"}
<1>1. CASE label = "none"
  BY <1>1 DEF Category, Working, Outcomes
<1>2. CASE label \in {"Status", "Pending"}
  BY <1>2 DEF Category, Working, Outcomes
<1>3. CASE label \in Working
  BY <1>3 DEF Category, Working, Outcomes
<1>4. CASE label \in Outcomes \cup {"Finished"}
  BY <1>4 DEF Category, Working, Outcomes
<1>5. CASE label = "Failed"
  BY <1>5 DEF Category, Working, Outcomes
<1> QED BY <1>1, <1>2, <1>3, <1>4, <1>5 DEF Labels

LEMMA SoundStays ==
  ASSUME NEW r, Sound(r), rep' = r, terminal' = terminal
  PROVE  Sound(rep)'
  BY DEF Sound, Recs, Distinct, Framed, Mirrored, Warned, Owner, InFrame

LEMMA TellsHeard ==
  ASSUME NEW r \in Recs, NEW q \in Recs,
         \A s \in Subjects : \/ Heard(r, q, s)
                             \/ /\ q.shown[s] \notin {"none", "Status", "Pending"}
                                /\ r.shown[s] = "Failed" => q.shown[s] = "Failed"
  PROVE  Tells(r, q)
<1> SUFFICES ASSUME NEW s \in Subjects
             PROVE  LET old == Category(r.shown[s])  new == Category(q.shown[s])
                    IN  /\ old = "failed" => new = "failed"
                        /\ old = "pending" => new # "silent"
                        /\ old \notin Unheard => new \notin Unheard
  BY DEF Tells
<1>1. r.shown[s] \in Labels /\ q.shown[s] \in Labels
  BY DEF Recs
<1> QED BY <1>1, CategoryIs DEF Heard, Unheard

LEMMA ReportKeeps ==
  ASSUME VInv, NEW e \in Events, Spoken(rep, rep', e), UNCHANGED env, UNCHANGED outcome,
         pc # "done", pc' # "done", Counted',
         failures' = failures \cup {p \in Plugins : e \in FailEvents /\ e.of = p},
         e \notin FailEvents => e.of \notin failures,
         \A p \in Plugins : p # e.of /\ Active(p) => Active(p)',
         e \in WorkEvents => Active(e.of)'
  PROVE  VInv' /\ Tells(rep, rep')
<1>1. Sound(rep) /\ ~rep.finished /\ ~rep.failed /\ outcome = "none"
  BY DEF VInv, Attached
<1>2. terminal' = terminal /\ logs' = logs /\ faults' = faults /\ outcome' = "none"
  BY <1>1 DEF env
<1>3. Sound(rep)' /\ rep \in Recs /\ rep' \in Recs
  BY <1>1, <1>2, SoundStays DEF Spoken, Sound
<1>4. Around' /\ Attached'
  BY <1>1, <1>2 DEF VInv, Around, Attached, Framing, Spoken
<1>5. \A s \in Subjects : rep'.shown[s] = rep.shown[s] \/ rep'.shown[s] \in {"Status", "Pending"}
                          \/ (s = e.of /\ Labelled(rep', e) /\ terminal = "ok")
  BY DEF Spoken, Heard
<1>6. Worked'
  <2> SUFFICES ASSUME NEW p \in Plugins, AtWork(p)' PROVE Active(p)'
    BY DEF Worked
  <2>1. p \in Subjects /\ p # Operation
    BY ReporterAssumption DEF Subjects
  <2>2. CASE p = e.of /\ e \in WorkEvents
    BY <2>2
  <2>3. CASE p = e.of /\ e \notin WorkEvents
    <3>1. e \in DoneEvents \cup FailEvents
      BY <2>1, <2>3, EventOf DEF Events
    <3> QED BY <1>2, <2>1, <2>3, <3>1 DEF AtWork, Spoken, Labelled
  <2>4. CASE p # e.of
    <3>1. AtWork(p)
      BY <1>2, <1>5, <2>1, <2>4 DEF AtWork, Spoken, Working
    <3> QED BY <1>1, <2>4, <3>1 DEF VInv, Worked
  <2> QED BY <2>2, <2>3, <2>4
<1>7. Displayed'
  <2> SUFFICES ASSUME terminal = "ok"
               PROVE  /\ \A p \in Plugins : rep'.shown[p] = "Failed" <=> p \in failures'
                      /\ rep'.failed <=> rep'.shown[Operation] = "Failed"
    BY <1>2 DEF Displayed
  <2>1. \A s \in Subjects : \/ rep'.shown[s] = "Failed" <=> rep.shown[s] = "Failed"
                            \/ s = e.of /\ Labelled(rep', e)
    BY DEF Spoken, Heard
  <2>2. (\A p \in Plugins : rep.shown[p] = "Failed" <=> p \in failures) /\ rep.shown[Operation] # "Failed"
    BY <1>1 DEF VInv, Displayed
  <2>3. ASSUME NEW p \in Plugins PROVE rep'.shown[p] = "Failed" <=> p \in failures'
    <3>1. CASE e \in FailEvents /\ p = e.of
      BY <3>1 DEF Spoken, Labelled
    <3>2. CASE ~(e \in FailEvents /\ p = e.of)
      BY <2>1, <2>2, <3>2 DEF Labelled, Subjects
    <3> QED BY <3>1, <3>2
  <2>4. rep'.shown[Operation] # "Failed"
    <3>1. Operation \in Subjects /\ (Operation = e.of => e \notin FailEvents)
      BY EventOf, ReporterAssumption DEF Subjects
    <3> QED BY <2>1, <2>2, <3>1 DEF Labelled
  <2> QED BY <1>1, <2>3, <2>4 DEF Spoken
<1>8. Traced'
  BY <1>1, EventOf DEF VInv, Traced, Failed, Spoken, Grows
<1>9. EndTold'
  BY DEF EndTold
<1>10. Tells(rep, rep')
  <2> SUFFICES ASSUME NEW s \in Subjects
               PROVE  \/ Heard(rep, rep', s)
                      \/ /\ rep'.shown[s] \notin {"none", "Status", "Pending"}
                         /\ rep.shown[s] = "Failed" => rep'.shown[s] = "Failed"
    BY <1>3, TellsHeard
  <2>1. CASE terminal = "ok" /\ s = e.of /\ Labelled(rep', e)
    <3>1. rep.shown[s] = "Failed" => e \in FailEvents
      BY <1>1, <2>1 DEF VInv, Displayed, Subjects
    <3> QED BY <2>1, <3>1 DEF Labelled
  <2>2. CASE ~(terminal = "ok" /\ s = e.of /\ Labelled(rep', e))
    BY <2>2 DEF Spoken, Heard
  <2> QED BY <2>1, <2>2
<1> QED BY <1>3, <1>4, <1>6, <1>7, <1>8, <1>9, <1>10 DEF VInv

(* Steps that report nothing.                                                *)
LEMMA SilentKeeps ==
  ASSUME VInv, UNCHANGED <<rep, env, outcome, failures>>, pc # "done", pc' # "done", Counted',
         pc = "begin" => pc' = "begin",
         \A p \in Plugins : Active(p) => Active(p)'
  PROVE  VInv'
<1>1. Sound(rep)' /\ Around'
  BY SoundStays DEF VInv, Around, env
<1>2. Attached' /\ Displayed' /\ Traced' /\ EndTold'
  BY DEF VInv, Attached, Displayed, Traced, Failed, EndTold, env, Framing
<1>3. Worked'
  BY DEF VInv, Worked, AtWork, env
<1> QED BY <1>1, <1>2, <1>3 DEF VInv

(* The end: the reporter is closed, and nothing is going on.                 *)
LEMMA CloseKeeps ==
  ASSUME VInv, NEW what, what \in {"Finished", "none", "dropped"}, Closes(rep, rep', what), UNCHANGED <<env, failures>>,
         pc # "done", pc' = "done", outcome' \in {"ok", "failures", "error"},
         outcome' = "ok" => failures = {},
         outcome' = "error" \/ \A p \in Plugins : ~Active(p)
  PROVE  VInv' /\ Tells(rep, rep')
<1>1. Sound(rep) /\ ~rep.failed /\ outcome = "none"
  BY DEF VInv, Attached
<1>2. terminal' = terminal /\ logs' = logs /\ faults' = faults
  BY DEF env
<1>3. Sound(rep)' /\ rep \in Recs /\ rep' \in Recs
  BY <1>1, <1>2, SoundStays DEF Closes, Sound
<1>4. Around' /\ Attached' /\ Counted'
  BY <1>2 DEF VInv, Around, Attached, Counted, Closes
<1>5. \A s \in Subjects : \/ Heard(rep, rep', s)
                          \/ s = Operation /\ rep'.shown[s] = "Finished" /\ terminal = "ok"
  BY DEF Closes, Heard
<1>6. Worked'
  <2> SUFFICES ASSUME NEW p \in Plugins, AtWork(p)' PROVE outcome' = "error"
    BY DEF Worked
  <2>1. Heard(rep, rep', p)
    BY <1>5, ReporterAssumption DEF Subjects
  <2>2. AtWork(p)
    BY <1>2, <2>1 DEF AtWork, Closes, Heard, Working
  <2> QED BY <1>1, <2>2 DEF VInv, Worked
<1>7. Displayed'
  <2>1. \A s \in Subjects : rep'.shown[s] = "Failed" <=> (rep.shown[s] = "Failed" /\ ~(s = Operation /\ rep'.shown[s] = "Finished"))
    BY <1>5 DEF Heard
  <2>2. terminal = "ok" => rep.shown[Operation] # "Failed"
    BY <1>1 DEF VInv, Displayed
  <2>3. rep'.failed = rep.failed
    BY DEF Closes
  <2>4. \A p \in Plugins : p \in Subjects /\ p # Operation
    BY ReporterAssumption DEF Subjects
  <2> QED BY <1>1, <1>2, <2>1, <2>2, <2>3, <2>4 DEF VInv, Displayed, Subjects
<1>8. Traced' /\ EndTold'
  BY <1>1, <1>2 DEF VInv, Traced, Failed, EndTold, Closes, Told, Grows
<1>9. Tells(rep, rep')
  <2>1. terminal = "ok" => rep.shown[Operation] # "Failed"
    BY <1>1 DEF VInv, Displayed
  <2> QED BY <1>3, <1>5, <2>1, TellsHeard
<1> QED BY <1>3, <1>4, <1>6, <1>7, <1>8, <1>9 DEF VInv

(* Every step keeps the invariant, and what it shows keeps the promises.     *)
StepTells == rep' = rep \/ (~rep.finished /\ Tells(rep, rep'))

LEMMA VInvInit == Init => VInv
<1> SUFFICES ASSUME Init PROVE VInv
  OBVIOUS
<1>1. PICK sink \in {"live", "transcript"}, catalog \in SUBSET Remote :
        rep = NewReporter(sink, Declaration(catalog))
  BY DEF Init
<1>2. Sound(rep)
  BY <1>1, NewSound
<1>3. /\ ~rep.finished /\ ~rep.failed /\ rep.tail = <<>> /\ rep.state = [p \in Plugins |-> "pending"]
      /\ rep.shown = [s \in Subjects |-> "none"]
  BY <1>1 DEF NewReporter
<1>4. Around
  BY ProgressAssumption DEF Init, Around
<1>5. Attached /\ Counted /\ EndTold
  BY <1>3 DEF Init, Attached, Counted, EndTold
<1>6. \A s \in Subjects : rep.shown[s] = "none"
  BY <1>3
<1>7. Worked
  BY <1>3, <1>6 DEF Worked, AtWork, Working, Subjects
<1>8. Displayed /\ Traced
  BY <1>3, <1>6 DEF Init, Displayed, Traced, Failed, Subjects
<1> QED BY <1>2, <1>4, <1>5, <1>7, <1>8 DEF VInv

LEMMA Speaking ==
  ASSUME VInv, NEW e \in Events, Report(e), pc # "done"
  PROVE  Spoken(rep, rep', e)
  BY ReportedSpeaks DEF VInv, Attached, Report

LEMMA FailureFree ==
  ASSUME JInv
  PROVE  failures \subseteq Plugins /\ Operation \notin failures
  BY ReporterAssumption DEF JInv, JobType

LEMMA Kinds ==
  /\ \A e \in StageEvents : e.kind = "operationStage"
  /\ \A e \in WorkEvents : e.kind = "pluginStage"
  /\ \A e \in DoneEvents : e.kind = "pluginFinished"
  /\ \A e \in FailEvents : e.kind = "pluginFailed"
<1>1. \A e \in StageEvents : e.kind = "operationStage"
  BY DEF StageEvents, Stage
<1>2. \A e \in WorkEvents : e.kind = "pluginStage"
  BY DEF WorkEvents, PluginStage
<1>3. \A e \in DoneEvents : e.kind = "pluginFinished"
  BY DEF DoneEvents, PluginDone
<1>4. \A e \in FailEvents : e.kind = "pluginFailed"
  BY DEF FailEvents, PluginFailed
<1> QED BY <1>1, <1>2, <1>3, <1>4

LEMMA AnnounceKeeps ==
  ASSUME JInv, VInv, NEW what \in OperationStages, Report(Stage(what)), UNCHANGED <<env, outcome, failures>>,
         pc # "done", pc' # "done", Counted', \A p \in Plugins : ~Active(p)
  PROVE  VInv' /\ Tells(rep, rep')
<1> DEFINE e == Stage(what)
<1>1. e \in StageEvents /\ e.of = Operation
  BY DEF StageEvents, Stage
<1>2. Spoken(rep, rep', e)
  BY <1>1, Speaking DEF Events
<1> HIDE DEF e
<1>3. e \in Events /\ e \notin FailEvents /\ e \notin WorkEvents
  BY <1>1, Kinds DEF Events
<1> QED BY <1>1, <1>2, <1>3, FailureFree, ReportKeeps

LEMMA WorkKeeps ==
  ASSUME JInv, VInv, NEW e \in WorkEvents, Spoken(rep, rep', e), UNCHANGED <<env, outcome, failures>>,
         pc # "done", pc' # "done", Counted', Active(e.of)', e.of \notin failures,
         \A p \in Plugins : Active(p) => Active(p)'
  PROVE  VInv' /\ Tells(rep, rep')
<1>1. e \in Events /\ e \notin FailEvents
  BY Kinds DEF Events
<1> QED BY <1>1, ReportKeeps

LEMMA DoneKeeps ==
  ASSUME JInv, VInv, NEW p \in Plugins, NEW what \in Outcomes, Report(PluginDone(p, what)),
         UNCHANGED <<env, outcome, failures>>, p \notin failures,
         pc # "done", pc' # "done", Counted',
         \A q \in Plugins : q # p /\ Active(q) => Active(q)'
  PROVE  VInv' /\ Tells(rep, rep')
<1> DEFINE e == PluginDone(p, what)
<1>1. e \in DoneEvents /\ e.of = p
  BY DEF DoneEvents, PluginDone
<1>2. Spoken(rep, rep', e)
  BY <1>1, Speaking DEF Events
<1> HIDE DEF e
<1>3. e \in Events /\ e \notin FailEvents /\ e \notin WorkEvents
  BY <1>1, Kinds DEF Events
<1> QED BY <1>1, <1>2, <1>3, ReportKeeps

LEMMA FailKeeps ==
  ASSUME JInv, VInv, NEW p \in Plugins, NEW at \in Places, Report(PluginFailed(p, at)),
         UNCHANGED <<env, outcome>>, failures' = failures \cup {p},
         pc # "done", pc' # "done", Counted',
         \A q \in Plugins : q # p /\ Active(q) => Active(q)'
  PROVE  VInv' /\ Tells(rep, rep')
<1> DEFINE e == PluginFailed(p, at)
<1>1. e \in FailEvents /\ e.of = p
  BY DEF FailEvents, PluginFailed
<1>2. Spoken(rep, rep', e)
  BY <1>1, Speaking DEF Events
<1> HIDE DEF e
<1>3. e \in Events /\ e \notin WorkEvents
  BY <1>1, Kinds DEF Events
<1> QED BY <1>1, <1>2, <1>3, ReportKeeps

-----------------------------------------------------------------------------
LEMMA SelectsShown ==
  ASSUME JInv, VInv, Begin \/ SyncsInit \/ Follow
  PROVE  VInv' /\ StepTells
<1>1. /\ pc # "done" /\ pc' = "select" /\ UNCHANGED <<env, outcome, failures>> /\ failures = {}
      /\ \E what \in OperationStages : Report(Stage(what))
  BY DEF Begin, SyncsInit, Follow, PhaseDone, Stops, Selects, tally, OperationStages, VInv, Counted
<1>2. \A p \in Plugins : ~Active(p)
  BY DEF Begin, SyncsInit, Follow, PhaseDone, Active, Named
<1>3. Counted'
  BY <1>1 DEF Counted
<1> QED BY <1>1, <1>2, <1>3, AnnounceKeeps DEF StepTells, VInv, Attached

LEMMA WaitsShown ==
  ASSUME JInv, VInv, Wait \/ LoadTmux
  PROVE  VInv' /\ StepTells
<1>1. /\ pc # "done" /\ pc' \in {"lock", "load"} /\ UNCHANGED <<env, outcome, failures>>
      /\ \E what \in OperationStages : Report(Stage(what))
  BY DEF Wait, LoadTmux, PhaseDone, tally, OperationStages
<1>2. \A p \in Plugins : ~Active(p)
  BY DEF Wait, LoadTmux, PhaseDone, Active, Named
<1>3. Counted'
  BY DEF Wait, LoadTmux, VInv, Counted, tally
<1> QED BY <1>1, <1>2, <1>3, AnnounceKeeps DEF StepTells, VInv, Attached

LEMMA LockedShown ==
  ASSUME JInv, VInv, Locked
  PROVE  VInv' /\ StepTells
<1>1. /\ pc = "lock" /\ pc' = "locked" /\ UNCHANGED <<env, outcome, failures>>
      /\ terminal' = terminal /\ rep' \in {rep, Foreign(rep)}
  BY DEF Locked, tally, env
<1>2. /\ Sound(rep') /\ rep'.sink = rep.sink /\ rep'.state = rep.state /\ rep'.failed = rep.failed
      /\ rep'.finished = rep.finished /\ SameLog(rep, rep') /\ rep'.tail = rep.tail /\ rep'.shown = rep.shown
      /\ rep'.frame = rep.frame /\ rep'.order = rep.order
  BY <1>1, ForeignSound DEF VInv, SameLog
<1>3. Sound(rep)' /\ rep \in Recs /\ rep' \in Recs
  BY <1>1, <1>2, SoundStays DEF VInv, Sound
<1>4. Around' /\ Attached' /\ Counted'
  BY <1>1, <1>2 DEF VInv, Around, Attached, Counted, Framing, env
<1>5. Worked' /\ Displayed' /\ Traced' /\ EndTold'
  BY <1>1, <1>2 DEF VInv, Worked, AtWork, Active, Displayed, Traced, Failed, EndTold, SameLog
<1>6. Tells(rep, rep')
  BY <1>2, <1>3, TellsHeard DEF Heard
<1>7. ~rep.finished
  BY <1>1 DEF VInv, Attached
<1> QED BY <1>3, <1>4, <1>5, <1>6, <1>7 DEF VInv, StepTells

LEMMA SilentShown ==
  ASSUME JInv, VInv, JInv', NEW p,
         Selected(p) \/ Passed(p) \/ Schedule \/ Materialize(p) \/ JobFails(p) \/ FetchTracking(p)
           \/ Collect \/ Loads
  PROVE  VInv' /\ StepTells
<1>1. rep' = rep /\ UNCHANGED <<env, outcome, failures>> /\ pc # "done" /\ pc' # "done" /\ pc # "begin"
  BY DEF Selected, Passed, Looks, Schedule, Materialize, JobFails, JobEnds, FetchTracking, Goes, Collect, Loads, tally
<1>2. Counted'
  <2>1. CASE Selected(p) \/ Passed(p) \/ Schedule \/ Materialize(p) \/ JobFails(p) \/ FetchTracking(p) \/ Collect
    <3>1. pc \in {"select", "prepare"}
      BY <2>1 DEF Selected, Passed, Looks, Schedule, Materialize, JobFails, JobEnds, FetchTracking, Goes, Collect
    <3>2. failures' = {}
      BY <1>1, <3>1 DEF VInv, Counted
    <3> QED BY <3>2 DEF Counted
  <2>2. CASE Loads
    BY <2>2 DEF Counted, Loads
  <2> QED BY <2>1, <2>2
<1>3. \A q \in Plugins : Active(q) => Active(q)'
  <2>1. CASE Selected(p) \/ Passed(p) \/ Schedule \/ Loads
    BY <2>1 DEF Active, Selected, Passed, Looks, Schedule, Loads
  <2>2. CASE Materialize(p) \/ JobFails(p) \/ FetchTracking(p) \/ Collect
    BY <2>2 DEF Active, Named, Materialize, JobFails, JobEnds, FetchTracking, Goes, Collect, applying
  <2> QED BY <2>1, <2>2
<1> QED BY <1>1, <1>2, <1>3, SilentKeeps DEF StepTells

LEMMA LeftAloneShown ==
  ASSUME JInv, VInv, NEW p \in Plugins, LeftAlone(p)
  PROVE  VInv' /\ StepTells
<1>1. /\ pc = "select" /\ pc' = "select" /\ UNCHANGED <<env, outcome, failures>> /\ failures = {}
      /\ \E what \in Outcomes : Report(PluginDone(p, what))
  BY DEF LeftAlone, Looks, tally, VInv, Counted, Outcomes
<1>2. Counted' /\ \A q \in Plugins : ~Active(q)
  BY <1>1 DEF Counted, Active
<1> QED BY <1>1, <1>2, DoneKeeps DEF StepTells, VInv, Attached

LEMMA JobShown ==
  ASSUME JInv, VInv, JInv', NEW p \in Plugins, NEW e \in WorkEvents, e.of = p, Spoken(rep, rep', e),
         pc = "prepare", pc' = "prepare", p \in Running', UNCHANGED <<env, applying, tally>>
  PROVE  VInv' /\ StepTells
<1>1. Named' = Named /\ p \in Named'
  BY DEF JInv, Preparing, Named, applying
<1>2. failures = {} /\ failures' = {} /\ outcome' = outcome
  BY DEF VInv, Counted, tally
<1>3. Counted' /\ Active(p)' /\ \A q \in Plugins : Active(q) => Active(q)'
  BY <1>1, <1>2 DEF Counted, Active
<1> QED BY <1>2, <1>3, WorkKeeps DEF StepTells, VInv, Attached

LEMMA WorkEvent ==
  ASSUME NEW p \in Plugins, NEW what \in PluginStages
  PROVE  PluginStage(p, what) \in WorkEvents /\ PluginStage(p, what).of = p /\ PluginStage(p, what) \in Events
  BY DEF Events, WorkEvents, PluginStage

LEMMA JobsShown ==
  ASSUME JInv, VInv, JInv', NEW p \in Plugins,
         StartJob(p) \/ EnsureCache(p) \/ FetchLocked(p) \/ ResolveTracking(p)
  PROVE  VInv' /\ StepTells
<1>0. job \in [Plugins -> Steps]
  BY DEF JInv, JobType
<1>1. CASE StartJob(p)
  <2>1. p \in Running'
    BY <1>0, <1>1 DEF StartJob, Running
  <2>2. Spoken(rep, rep', PluginStage(p, "Fetching"))
    BY <1>1, WorkEvent, Speaking DEF StartJob, PluginStages
  <2> QED BY <1>1, <2>1, <2>2, WorkEvent, JobShown DEF StartJob, PluginStages
<1>2. ASSUME NEW from \in Steps, ChecksOut(p, from) PROVE VInv' /\ StepTells
  <2>1. p \in Running' /\ pc = "prepare" /\ pc' = "prepare" /\ UNCHANGED <<env, applying, tally>>
    BY <1>0, <1>2 DEF ChecksOut, Goes, Running
  <2>2. Spoken(rep, rep', PluginStage(p, "CheckingOut"))
    BY <1>2, <2>1, WorkEvent, Speaking DEF ChecksOut, PluginStages
  <2> QED BY <2>1, <2>2, WorkEvent, JobShown DEF PluginStages
<1>3. ASSUME NEW to, Goes(p, "cache", to), UNCHANGED rep PROVE VInv' /\ StepTells
  <2>1. pc = "prepare" /\ pc' = "prepare" /\ UNCHANGED <<env, applying, tally>>
    BY <1>3 DEF Goes
  <2>2. failures = {} /\ failures' = {} /\ outcome' = outcome /\ Named' = Named
    BY <2>1 DEF VInv, Counted, tally, Named, applying
  <2>3. Counted' /\ \A q \in Plugins : Active(q) => Active(q)'
    BY <2>1, <2>2 DEF Counted, Active
  <2> QED BY <1>3, <2>1, <2>2, <2>3, SilentKeeps DEF StepTells
<1>4. CASE ResolveTracking(p)
  <2> DEFINE e == PluginStage(p, "Resolving")
             f == PluginStage(p, "CheckingOut")
  <2>1. p \in Running' /\ pc = "prepare" /\ pc' = "prepare" /\ UNCHANGED <<env, applying, tally>>
    BY <1>0, <1>4 DEF ResolveTracking, Goes, Running
  <2>2. rep' = Reported(Reported(rep, e), f)
    <3>1. {Reported(x, f) : x \in {Reported(rep, e)}} = {Reported(Reported(rep, e), f)}
      BY Zenon
    <3>2. rep' = CHOOSE after \in {Reported(x, f) : x \in {Reported(rep, e)}} : TRUE
      BY <1>4, Zenon DEF ResolveTracking, ReportBoth, To
    <3> QED BY <3>1, <3>2, Chosen, Zenon
  <2>3. e \in WorkEvents /\ f \in WorkEvents /\ e.of = p /\ f.of = p
    BY WorkEvent DEF PluginStages
  <2> HIDE DEF e, f
  <2>4. Spoken(rep, rep', f)
    BY <2>1, <2>2, <2>3, SpokenTwice DEF VInv, Attached
  <2> QED BY <2>1, <2>3, <2>4, JobShown
<1>5. "cache" \in Steps /\ "fetchLocked" \in Steps
  BY DEF Steps
<1> QED BY <1>1, <1>2, <1>3, <1>4, <1>5 DEF EnsureCache, FetchLocked

LEMMA BeginPublishShown ==
  ASSUME JInv, VInv, BeginPublish
  PROVE  VInv' /\ StepTells
<1>1. /\ pc = "apply" /\ pc' = "publish" /\ apply # <<>> /\ UNCHANGED <<env, applying, tally>>
  BY DEF BeginPublish, AtHand
<1>2. PICK p \in Plugins : p = Current /\ p \in Named
  BY <1>1, AtHandIs, RemoteType DEF JInv, CommandType
<1>3. PICK what \in PluginStages : Report(PluginStage(p, what))
  BY <1>2 DEF BeginPublish, PluginStages
<1> DEFINE e == PluginStage(p, what)
<1>4. e \in WorkEvents /\ e.of = p /\ e \in Events
  BY WorkEvent
<1>5. Spoken(rep, rep', e)
  BY <1>1, <1>3, <1>4, Speaking
<1> HIDE DEF e
<1>6. Named' = Named /\ failures' = failures /\ outcome' = outcome
  BY <1>1 DEF Named, applying, tally
<1>7. Counted' /\ p \notin failures
  BY <1>1, <1>2, <1>6 DEF VInv, Counted
<1>8. Active(e.of)' /\ \A q \in Plugins : Active(q) => Active(q)'
  BY <1>1, <1>2, <1>4, <1>6 DEF Active
<1> QED BY <1>1, <1>4, <1>5, <1>6, <1>7, <1>8, WorkKeeps DEF StepTells, VInv, Attached

LEMMA OthersNamed ==
  ASSUME JInv, apply # <<>>, MovesOn
  PROVE  \A q \in Named : q # Current => q \in Named'
<1>1. apply \in Seq(scope) /\ apply' = Tail(apply)
  BY DEF JInv, JobType, MovesOn
<1>2. /\ DOMAIN apply' = 1 .. Len(apply) - 1 /\ DOMAIN apply = 1 .. Len(apply) /\ Len(apply) \in Nat
      /\ \A k \in 1 .. Len(apply) - 1 : apply'[k] = apply[k + 1]
  BY <1>1, Shorter
<1>3. ASSUME NEW k \in DOMAIN apply, apply[k] # Current PROVE apply[k] \in Named'
  <2>1. k # 1
    BY <1>3 DEF Current
  <2>2. k - 1 \in 1 .. Len(apply) - 1 /\ k - 1 + 1 = k
    BY <1>2, <2>1
  <2>3. apply'[k - 1] = apply[k] /\ k - 1 \in DOMAIN apply'
    BY <1>2, <2>2
  <2> QED BY <2>3 DEF Named
<1> QED BY <1>3 DEF Named

LEMMA AppliesShown ==
  ASSUME JInv, VInv, ApplyUnprepared \/ PublishFails \/ AdoptFails \/ ApplyKept \/ SkipKnownFailure \/ Publish
  PROVE  VInv' /\ StepTells
<1>1. pc \in Serial /\ apply # <<>>
  BY DEF ApplyUnprepared, PublishFails, AdoptFails, ApplyKept, SkipKnownFailure, Publish, AtHand, JInv, Applying
<1>2. Current \in Plugins /\ Current \in Named /\ Current \notin failures
  BY <1>1, AtHandIs, RemoteType DEF JInv, CommandType, VInv, Counted
<1>3. MovesOn => \A q \in Plugins : q # Current /\ Active(q) => Active(q)'
  BY <1>1, OthersNamed DEF Active, MovesOn
<1>4. ASSUME NEW at \in Places, FailsAt(at) PROVE VInv' /\ StepTells
  <2>1. Named' \subseteq Named \ {Current}
    BY <1>1, <1>4, FailsJobs
  <2>2. pc' = "apply" /\ UNCHANGED <<env, outcome>> /\ MovesOn
        /\ failures' = failures \cup {Current} /\ Report(PluginFailed(Current, at))
    BY <1>4 DEF FailsAt, MovesOn
  <2>3. Counted'
    BY <1>1, <2>1, <2>2 DEF VInv, Counted
  <2> QED BY <1>1, <1>2, <1>3, <2>2, <2>3, FailKeeps DEF StepTells, VInv, Attached
<1>5. ASSUME NEW what \in Outcomes, Concludes(what),
             used' = used \/ used' = [used EXCEPT ![Current] = @ \cup {Result.of}],
             excluded' = excluded \/ excluded' = excluded \cup {Current}
      PROVE  VInv' /\ StepTells
  <2>1. Named' \subseteq Named \ {Current}
    BY <1>1, <1>5, ConcludesJobs
  <2>2. pc' = "apply" /\ UNCHANGED <<env, outcome, failures>> /\ MovesOn
        /\ Report(PluginDone(Current, what))
    BY <1>5 DEF Concludes, MovesOn
  <2>3. Counted'
    BY <1>1, <2>1, <2>2 DEF VInv, Counted
  <2> QED BY <1>1, <1>2, <1>3, <2>2, <2>3, DoneKeeps DEF StepTells, VInv, Attached
<1>6. CASE ApplyUnprepared \/ PublishFails \/ AdoptFails
  BY <1>4, <1>6 DEF ApplyUnprepared, PublishFails, AdoptFails, Places
<1>7. CASE ApplyKept \/ SkipKnownFailure
  BY <1>5, <1>7 DEF ApplyKept, SkipKnownFailure, Outcomes
<1>8. CASE Publish
  <2>1. Published \subseteq Outcomes
    BY DEF Published, Outcomes
  <2> QED BY <1>5, <1>8, <2>1 DEF Publish
<1> QED BY <1>6, <1>7, <1>8

LEMMA ReportLoadShown ==
  ASSUME JInv, VInv, ReportLoad
  PROVE  VInv' /\ StepTells
<1>1. PICK p \in Plugins : Report(PluginFailed(p, "Loading")) /\ failures' = failures \cup {p}
  BY DEF ReportLoad, JInv, CommandType
<1>2. pc = "loaded" /\ pc' = "loaded" /\ UNCHANGED <<env, outcome>>
  BY DEF ReportLoad
<1>3. Counted' /\ \A q \in Plugins : ~Active(q)
  BY <1>2 DEF Counted, Active
<1> QED BY <1>1, <1>2, <1>3, FailKeeps DEF StepTells, VInv, Attached, Places

-----------------------------------------------------------------------------
(* The ends.                                                                 *)
LEMMA AroundShown ==
  ASSUME JInv, VInv, StderrGone \/ LogsChange
  PROVE  VInv' /\ StepTells
<1>1. /\ UNCHANGED <<rep, pc, apply, failures, outcome>> /\ pc # "done"
      /\ terminal' = terminal \/ terminal' = "gone"
      /\ logs' \in {"ok", "unwritable"} /\ faults < MaxFaults /\ faults' = faults + 1
  BY DEF StderrGone, LogsChange, Fault, applying, tally, VInv, Around
<1>2. Around'
  BY <1>1, ProgressAssumption DEF VInv, Around
<1>3. Sound(rep)'
  <2>1. CASE terminal' = terminal
    BY <1>1, <2>1, SoundStays DEF VInv
  <2>2. CASE terminal' = "gone"
    BY <1>1, <2>2 DEF VInv, Sound, Recs, Distinct, Framed, Mirrored, Warned, Owner
  <2> QED BY <1>1, <2>1, <2>2
<1>4. Attached' /\ Counted' /\ Traced' /\ EndTold'
  BY <1>1 DEF VInv, Attached, Counted, Traced, Failed, EndTold, Framing, Named
<1>5. Worked' /\ Displayed'
  BY <1>1 DEF VInv, Worked, AtWork, Active, Named, Displayed
<1> QED BY <1>1, <1>2, <1>3, <1>4, <1>5 DEF VInv, StepTells

LEMMA EndWhat == \A c, success : End(c, success).what \in {"Finished", "none"}
  BY DEF End

LEMMA Alive ==
  ASSUME VInv, pc \notin {"begin", "done"}
  PROVE  /\ Sound(rep) /\ rep.tail = <<>> /\ ~rep.finished /\ outcome = "none"
         /\ rep.sink = "live" => rep.frame # <<>>
  BY DEF VInv, Attached, Framing

LEMMA EndsShown ==
  ASSUME JInv, VInv, Stop \/ FinishInit \/ LockFails
  PROVE  VInv' /\ StepTells
<1>1. /\ pc \notin {"begin", "done"} /\ pc' = "done" /\ UNCHANGED <<env, failures>>
      /\ outcome' \in {"ok", "failures", "error"} /\ (outcome' = "ok" => failures = {})
  BY DEF Stop, FinishInit, LockFails, PhaseDone, Ends
<1>2. outcome' = "error" \/ \A p \in Plugins : ~Active(p)
  BY DEF Stop, FinishInit, LockFails, PhaseDone, Active, Named
<1>3. \E what \in {"Finished", "none", "dropped"} : Closes(rep, rep', what)
  <2>1. CASE Stop \/ FinishInit
    <3>1. \E success : rep' = To(Reported(rep, End(cmd, success)), Dropped)
      BY <2>1 DEF Stop, FinishInit, Ends
    <3> QED BY <1>1, <3>1, Alive, EndedSound, EndWhat
  <2>2. CASE LockFails
    BY <1>1, <2>2, Alive, DroppedSound DEF LockFails
  <2> QED BY <2>1, <2>2
<1>4. PICK what \in {"Finished", "none", "dropped"} : Closes(rep, rep', what)
  BY <1>3
<1> QED BY <1>1, <1>2, <1>4, Alive, CloseKeeps DEF StepTells

(* The operation fails: it is reported as failed, and then closed.           *)
LEMMA OperationFailsShown ==
  ASSUME JInv, VInv, OperationFails
  PROVE  VInv' /\ StepTells
<1> DEFINE m == Reported(rep, OperationFailed)
           e == End(cmd, FALSE)
<1>1. /\ pc \notin {"begin", "done"} /\ pc' = "done" /\ UNCHANGED <<env, failures>>
      /\ outcome' = "error" /\ rep' = To(Reported(m, e), Dropped)
  BY DEF OperationFails, AtHand, Ends
<1>2. Sound(rep) /\ rep.tail = <<>> /\ ~rep.finished /\ terminal' = terminal
  BY <1>1, Alive DEF env
<1>3. /\ Sound(m) /\ m.tail = <<>> /\ ~m.finished /\ m.failed /\ m.state = rep.state /\ Framing(m)
      /\ Grows(rep, m) /\ (Operation \in m.logged \/ m.warned)
      /\ terminal # "ok" => m.shown = rep.shown
      /\ terminal = "ok" => /\ m.shown[Operation] = "Failed"
                            /\ \A s \in Plugins : Heard(rep, m, s)
  BY <1>2, OperationFailedSound
<1>4. e.what = "none"
  BY DEF End
<1> HIDE DEF m
<1>5. Closes(m, rep', "none")
  BY <1>1, <1>3, <1>4, EndedSound DEF Framing
<1>6. /\ Sound(rep') /\ rep'.finished /\ rep'.failed /\ Grows(rep, rep') /\ Told(rep')
      /\ Operation \in rep'.logged \/ rep'.warned
      /\ terminal # "ok" => rep'.shown = rep.shown
      /\ terminal = "ok" => /\ rep'.shown[Operation] = "Failed"
                            /\ \A s \in Plugins : Heard(rep, rep', s)
  BY <1>3, <1>5 DEF Closes, Grows, Heard, Subjects
<1>7. Sound(rep)' /\ rep \in Recs /\ rep' \in Recs
  BY <1>2, <1>6, SoundStays DEF Sound
<1>8. Around' /\ Attached' /\ Counted' /\ Worked'
  BY <1>1, <1>6 DEF VInv, Around, Attached, Counted, Worked, env
<1>9. Displayed'
  BY <1>1, <1>2, <1>6 DEF VInv, Displayed, Heard
<1>10. Traced'
  BY <1>1, <1>6 DEF VInv, Traced, Failed, Grows
<1>11. EndTold'
  BY <1>2, <1>6 DEF EndTold, Told
<1>12. Tells(rep, rep')
  <2>1. \A s \in Subjects : Heard(rep, rep', s) \/ (s = Operation /\ rep'.shown[s] = "Failed")
    BY <1>6 DEF Heard, Subjects
  <2> QED BY <1>7, <2>1, TellsHeard
<1> QED BY <1>2, <1>7, <1>8, <1>9, <1>10, <1>11, <1>12 DEF VInv, StepTells

LEMMA VInvNext == JInv /\ VInv /\ [Next]_vars => VInv' /\ StepTells
<1> SUFFICES ASSUME JInv, VInv, [Next]_vars PROVE VInv' /\ StepTells
  OBVIOUS
<1>1. JInv'
  BY JInvNext
<1>2. CASE UNCHANGED vars
  <2>1. Sound(rep)'
    BY <1>2, SoundStays DEF vars, env, VInv
  <2>2. /\ Around' /\ Attached' /\ Counted' /\ Worked' /\ Displayed' /\ Traced' /\ EndTold'
    BY <1>2 DEF vars, env, applying, tally, VInv, Around, Attached, Counted, Worked, AtWork, Active, Named,
       Displayed, Traced, Failed, EndTold, Told, Framing
  <2> QED BY <1>2, <2>1, <2>2 DEF VInv, StepTells, vars
<1>3. ASSUME NEW p \in Plugins, Selected(p) \/ Passed(p) \/ Job(p) \/ LeftAlone(p)
      PROVE  VInv' /\ StepTells
  BY <1>1, <1>3, SilentShown, JobsShown, LeftAloneShown DEF Job
<1>4. CASE Schedule \/ Collect \/ Loads
  BY <1>1, <1>4, SilentShown
<1>5. CASE Locked \/ Begin \/ SyncsInit \/ Follow \/ Wait \/ LoadTmux
  BY <1>5, LockedShown, SelectsShown, WaitsShown
<1>6. CASE BeginPublish \/ ApplyUnprepared \/ PublishFails \/ AdoptFails \/ ApplyKept
             \/ SkipKnownFailure \/ Publish
  BY <1>6, BeginPublishShown, AppliesShown
<1>7. CASE ReportLoad \/ Stop \/ FinishInit \/ LockFails \/ OperationFails \/ StderrGone \/ LogsChange
  BY <1>7, ReportLoadShown, EndsShown, OperationFailsShown, AroundShown
<1> QED BY <1>2, <1>3, <1>4, <1>5, <1>6, <1>7 DEF Next, Program

-----------------------------------------------------------------------------
LEMMA Inductive == Spec => [](JInv /\ VInv)
<1>1. Init => JInv /\ VInv
  BY JInvInit, VInvInit
<1>2. JInv /\ VInv /\ [Next]_vars => (JInv /\ VInv)'
  BY JInvNext, VInvNext
<1> QED BY <1>1, <1>2, PTL DEF Spec

(* Every variable has its type, for any number of plugins.                   *)
THEOREM TypeCorrect == Spec => []TypeOK
<1>1. JInv /\ VInv => TypeOK
  <2> SUFFICES ASSUME JInv, VInv PROVE TypeOK
    OBVIOUS
  <2>1. rep \in Recs
    BY DEF VInv, Sound
  <2> QED BY <2>1 DEF TypeOK, JInv, CommandType, JobType, VInv, Around, Recs, States
<1> QED BY <1>1, Inductive, PTL

(* Every row of the live frame is on the terminal at its place.              *)
THEOREM RowsOnTerminal == Spec => []RowsInPlace
<1>1. VInv => RowsInPlace
  BY DEF VInv, Sound, Mirrored, RowsInPlace
<1> QED BY <1>1, Inductive, PTL

(* What is displayed at the end is what the command returns.                 *)
THEOREM DisplayMatchesOutcome == Spec => []OutcomeShown
<1>1. JInv /\ VInv => OutcomeShown
  <2> SUFFICES ASSUME JInv, VInv PROVE OutcomeShown
    OBVIOUS
  <2>1. ASSUME outcome \in {"ok", "failures"}, NEW p \in Plugins
        PROVE  rep.state[p] # "running" /\ (terminal = "ok" => rep.shown[p] \notin Working)
    <3>1. pc = "done" /\ ~Active(p)
      BY <2>1 DEF VInv, Attached, Active
    <3> QED BY <2>1, <3>1 DEF VInv, Worked, AtWork
  <2>2. Settled
    BY <2>1 DEF Settled
  <2>3. ASSUME pc = "done", terminal = "ok"
        PROVE  /\ failures = {p \in Plugins : rep.shown[p] = "Failed"}
               /\ outcome = "ok" => failures = {}
               /\ rep.failed <=> rep.shown[Operation] = "Failed"
               /\ ~rep.hidden
    <3>1. failures \subseteq Plugins
      BY FailureFree
    <3> QED BY <2>3, <3>1 DEF VInv, Displayed, Attached, EndTold, Told
  <2> QED BY <2>2, <2>3 DEF OutcomeShown
<1> QED BY <1>1, Inductive, PTL

(* Every failure is in the log whose path is shown, or a warning is.         *)
THEOREM FailuresExplained == Spec => []FailuresTraceable
<1>1. VInv => FailuresTraceable
  BY DEF VInv, FailuresTraceable, Attached, Traced, EndTold, Told
<1> QED BY <1>1, Inductive, PTL

-----------------------------------------------------------------------------
(* The display keeps the promises made to its reader.                        *)
Statuses == [s \in Subjects |-> Category(rep.shown[s])]

LEMMA ReaderStarts == Init => Reader!Init
<1> SUFFICES ASSUME Init PROVE Reader!Init
  OBVIOUS
<1>1. rep.shown = [s \in Subjects |-> "none"] /\ rep.finished = FALSE
  BY DEF Init, NewReporter
<1>2. Category("none") = "silent"
  BY CategoryIs DEF Labels
<1> QED BY <1>1, <1>2 DEF Reader!Init

LEMMA ReaderSteps ==
  ASSUME JInv, VInv, [Next]_vars
  PROVE  [Reader!Show]_<<Statuses, rep.finished>>
<1>1. VInv' /\ StepTells
  BY VInvNext
<1>2. CASE rep' = rep
  BY <1>2 DEF Statuses
<1>3. CASE ~rep.finished /\ Tells(rep, rep')
  <2>1. rep \in Recs /\ rep' \in Recs
    BY <1>1 DEF VInv, Sound, Recs
  <2>2. rep'.finished \in BOOLEAN /\ \A s \in Subjects : rep.shown[s] \in Labels /\ rep'.shown[s] \in Labels
    BY <2>1 DEF Recs
  <2>3. Statuses' = [s \in Subjects |-> Category(rep'.shown[s])]
    BY DEF Statuses
  <2>4. Statuses' \in [Subjects -> Reader!Statuses]
    BY <2>2, <2>3, CategoryIs DEF Reader!Statuses
  <2>5. \A s \in Subjects : Reader!Keeps(s, Statuses'[s])
    BY <1>3, <2>3 DEF Tells, Reader!Keeps, Reader!Unheard, Unheard
  <2> QED BY <1>3, <2>2, <2>3, <2>4, <2>5 DEF Reader!Show, Statuses
<1> QED BY <1>1, <1>2, <1>3 DEF StepTells

(* Every step of a command shows its reader what Display allows, or nothing: *)
(* nobody falls silent, a failure stays shown, nothing follows the end.      *)
THEOREM PromisesKept == Spec => ReaderSeesPromise
<1>1. JInv /\ VInv /\ [Next]_vars => [Reader!Show]_<<Statuses, rep.finished>>
  BY ReaderSteps
<1> QED BY <1>1, ReaderStarts, Inductive, PTL DEF Spec, ReaderSeesPromise, Reader!Spec, Statuses
=============================================================================
