----------------------------- MODULE ReaderWindows -----------------------------
(***************************************************************************)
(* The windows a format reader fills and the engine runs.  Each stream     *)
(* format has a reader of its own, a loop over lines, characters or        *)
(* packets; all of them drive the same operations of window.rs,            *)
(* run_rules/window.rs and reflow.rs.  Here those operations are functions *)
(* on one record r, the reader's local variables together with the         *)
(* document, so that one step of a reader is one expression.               *)
(*                                                                         *)
(* r.win keeps every window ever made, under its number; the live ones are *)
(* those in r.prev, r.cur and r.next.  A cohort stands for the input items *)
(* it was read from (ids), what delimiters it matches (kinds), the text    *)
(* that follows it and whether its readings carry the <<< tag.  The first  *)
(* cohort of window w is its >>> cohort, with the id -w.                   *)
(***************************************************************************)
EXTENDS Integers, SequencesExt

CONSTANTS NumWindows,    \* --num-windows: the windows kept before and after
          SoftLimit,     \* --soft-limit
          HardLimit      \* --hard-limit

ASSUME LimitsAssumption ==
  /\ NumWindows \in Nat \ {0}
  /\ SoftLimit \in Nat
  /\ HardLimit \in Nat

NoWin == 0
NoVar == 0

NoCohort ==
  [id |-> 0, ids |-> <<>>, kinds |-> {}, text |-> <<>>, ended |-> FALSE]

CohortOf(n, kinds) == [NoCohort EXCEPT !.id = n, !.ids = <<n>>, !.kinds = kinds]

\* The locals at the start; passes tells whether the reader hands its output
\* strategy to the engine with every window it runs.
Fresh(passes) ==
  [passes |-> passes, cgPrinted |-> {},
   prev |-> <<>>, cur |-> NoWin, next |-> <<>>, win |-> <<>>,
   cSw |-> NoWin, lSw |-> NoWin, cCoh |-> NoCohort, lCoh |-> 0,
   lookback |-> FALSE, blank |-> <<>>, set |-> NoVar, rem |-> FALSE,
   globals |-> NoVar, ignoring |-> FALSE, out |-> <<>>]

Buffered(r) ==
  r.prev \o (IF r.cur = NoWin THEN <<>> ELSE <<r.cur>>) \o r.next

LiveWindows(r) == {Buffered(r)[i] : i \in DOMAIN Buffered(r)}

Count(r, w) == Len(r.win[w].cohorts)

-----------------------------------------------------------------------------
\* alloc_append_single_window and init_empty_single_window: a new last window
\* that holds its >>> cohort.
Opened(r) ==
  LET w == Len(r.win) + 1 IN
  [r EXCEPT
     !.win = Append(@, [cohorts |-> <<[NoCohort EXCEPT !.id = -w]>>,
                        text |-> <<>>, flush |-> <<>>, set |-> NoVar,
                        rem |-> FALSE, runs |-> 0, ranWith |-> 0,
                        saw |-> NoVar]),
     !.next = Append(@, w), !.cSw = w, !.lSw = w]

\* What print_single_window writes for window w, as the items it came from.
WindowItems(r, w) ==
  r.win[w].text
    \o FlattenSeq([k \in DOMAIN r.win[w].cohorts |->
                     r.win[w].cohorts[k].ids \o r.win[w].cohorts[k].text])
    \o r.win[w].flush

\* The oldest previous windows are printed and freed until n are left.
PrintedDownTo(r, n) ==
  LET k == IF Len(r.prev) > n THEN Len(r.prev) - n ELSE 0 IN
  [r EXCEPT !.out = @ \o FlattenSeq([i \in 1 .. k |-> WindowItems(r, r.prev[i])]),
            !.prev = SubSeq(@, k + 1, Len(@))]

\* A run first prints the windows that no longer serve as context, with the
\* strategy the reader passed with the window or, where it passes none, with
\* the native one.
Retired(r) ==
  LET gone == {r.prev[i] : i \in 1..(Len(r.prev) - NumWindows)} IN
  [PrintedDownTo(r, NumWindows) EXCEPT
     !.cgPrinted = IF r.passes THEN @ ELSE @ \cup gone]

\* shuffle_windows_down.
ShuffledDown(r) ==
  [r EXCEPT !.prev = IF r.cur = NoWin THEN @ ELSE Append(@, r.cur),
            !.cur = IF r.next = <<>> THEN NoWin ELSE Head(r.next),
            !.next = IF @ = <<>> THEN @ ELSE Tail(@)]

\* run_grammar_on_window: the window's variable changes become global, the
\* windows before its context are printed and freed, and the rules run on it.
RunCurrent(r) ==
  LET w == r.win[r.cur]
      vars == IF w.rem THEN NoVar ELSE IF w.set # NoVar THEN w.set ELSE r.globals
  IN  [Retired(r) EXCEPT
         !.globals = vars,
         !.win[r.cur] = [w EXCEPT !.runs = @ + 1, !.ranWith = Len(w.cohorts),
                                  !.saw = vars]]

\* "Drain a window if enough have queued up."
Drained(r) ==
  IF Len(r.next) > NumWindows THEN RunCurrent(ShuffledDown(r)) ELSE r

\* while rotate_next() { run }.
RanAll(r) ==
  LET ran[i \in 0 .. Len(r.next)] ==
        IF i = 0 THEN r ELSE RunCurrent(ShuffledDown(ran[i - 1]))
  IN  ran[Len(r.next)]

\* shuffle_windows_down, then every previous window is printed and freed.
PrintedAll(r) == PrintedDownTo(ShuffledDown(r), 0)

-----------------------------------------------------------------------------
\* append_cohort.
Appended(r, w, c) == [r EXCEPT !.win[w].cohorts = Append(@, c)]

\* The <<< tag on every reading of the last cohort of w.
EndedLast(r, w) ==
  [r EXCEPT !.win[w].cohorts[Count(r, w)].ended = TRUE]

\* delimit_at(w, k-th cohort) for a window still waiting: that cohort gets
\* <<<, and the cohorts after it move to a new window right behind w.
DelimitedAt(r, w, k) ==
  LET tail == Len(r.win) + 1
      rec == r.win[w]
      at == CHOOSE i \in DOMAIN r.next : r.next[i] = w
      begin == <<[NoCohort EXCEPT !.id = -tail]>>
      kept == SubSeq(rec.cohorts, 1, k)
      moved == SubSeq(rec.cohorts, k + 1, Len(rec.cohorts))
  IN  [r EXCEPT
         !.win = Append([@ EXCEPT ![w] =
                           [rec EXCEPT !.cohorts = [kept EXCEPT ![k].ended = TRUE],
                                       !.flush = <<>>]],
                        [rec EXCEPT !.cohorts = begin \o moved, !.text = <<>>,
                                    !.set = NoVar, !.rem = FALSE]),
         !.next = InsertAt(@, at + 1, tail),
         !.cSw = tail, !.lookback = FALSE]

\* The soft-limit lookback: a window that reached the soft limit is split
\* after its last soft delimiter; if there is none, this is not tried again
\* for this window.
LookedBack(r) ==
  LET w == r.cSw
      softs == {k \in DOMAIN r.win[w].cohorts : "soft" \in r.win[w].cohorts[k].kinds}
      last == CHOOSE k \in softs : \A j \in softs : j <= k
  IN  CASE w = NoWin -> r
        [] w # NoWin /\ (r.lookback \/ Count(r, w) < SoftLimit) -> r
        [] OTHER -> IF softs = {} THEN [r EXCEPT !.lookback = TRUE]
                    ELSE DelimitedAt(r, w, last)

-----------------------------------------------------------------------------
\* Text after the cohort with this id, pending or in a live window.
TextAfter(r, id, t) ==
  LET Has(w) == \E k \in DOMAIN r.win[w].cohorts : r.win[w].cohorts[k].id = id
      holders == {w \in LiveWindows(r) : Has(w)}
      w == CHOOSE x \in holders : TRUE
      k == CHOOSE j \in DOMAIN r.win[w].cohorts : r.win[w].cohorts[j].id = id
  IN  CASE r.cCoh.id = id -> [r EXCEPT !.cCoh.text = @ \o t]
        [] r.cCoh.id # id /\ holders # {} ->
             [r EXCEPT !.win[w].cohorts[k].text = @ \o t]
        [] OTHER -> r

TextBefore(r, w, t) ==
  IF w \in LiveWindows(r) THEN [r EXCEPT !.win[w].text = @ \o t] ELSE r

\* Where a line that is no cohort goes: after the last cohort, before the
\* last window, or straight to the output.
PlacedText(r, t) ==
  CASE r.lCoh # 0 -> TextAfter(r, r.lCoh, t)
    [] r.lCoh = 0 /\ r.lSw # NoWin -> TextBefore(r, r.lSw, t)
    [] OTHER -> [r EXCEPT !.out = @ \o t]

=============================================================================
