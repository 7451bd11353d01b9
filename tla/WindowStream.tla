---------------------------- MODULE WindowStream ----------------------------
(***************************************************************************)
(* The document stream of the engine: the windows already run (previous),  *)
(* the one being run (current), the ones still to be run (next), and the   *)
(* sibling links each window keeps.  This is window.rs (WindowStream), the *)
(* window part of single_window.rs and the stream part of delimit_at in    *)
(* grammar_applicator/reflow.rs.                                           *)
(*                                                                         *)
(* A window handle is a generational arena id, so a handle of a freed      *)
(* window never names another one (arena.rs): here a handle is the window  *)
(* number, which is never reused, and a handle is stale when it is not in  *)
(* DOMAIN win.  The >>> cohort that opens every window is implicit: it is  *)
(* counted by CohortCount and never stored.                                *)
(***************************************************************************)
EXTENDS Integers, SequencesExt

VARIABLES
  previous,       \* windows that have been run, oldest first
  current,        \* the window the rules run on, or NoWin
  next,           \* windows not yet run, in document order
  win,            \* the live windows: handle -> window
  window_counter  \* the number given to the last window

stream == <<previous, current, next, win, window_counter>>

NoWin == 0

\* A window as the allocator leaves it (SingleWindow::default).
FreshWindow ==
  [cohorts |-> <<>>, text |-> <<>>, text_post |-> <<>>, flush_after |-> 0,
   variables |-> {}, prv |-> NoWin, nxt |-> NoWin]

Live(w) == w \in DOMAIN win

\* cohorts.len(): the stored cohorts and the >>> cohort before them.
CohortCount(w) == Len(win[w].cohorts) + 1

\* WindowStream::back: the last window of the document.
Back ==
  IF next # <<>> THEN Last(next)
  ELSE IF current # NoWin THEN current
  ELSE IF previous # <<>> THEN Last(previous)
  ELSE NoWin

\* The windows in document order.
Running == IF current = NoWin THEN <<>> ELSE <<current>>
Document == previous \o Running \o next

Extended(f, w, rec) == [x \in DOMAIN f \cup {w} |-> IF x = w THEN rec ELSE f[x]]

\* rebuild_single_window_links: every link follows the document order.
Relinked(f, order) ==
  [x \in DOMAIN f |->
     IF \E i \in DOMAIN order : order[i] = x
     THEN LET i == CHOOSE j \in DOMAIN order : order[j] = x IN
          [f[x] EXCEPT !.prv = IF i = 1 THEN NoWin ELSE order[i - 1],
                       !.nxt = IF i = Len(order) THEN NoWin ELSE order[i + 1]]
     ELSE f[x]]

-----------------------------------------------------------------------------
InitStream ==
  /\ previous = <<>>
  /\ current = NoWin
  /\ next = <<>>
  /\ win = [x \in {} |-> FreshWindow]
  /\ window_counter = 0

\* MUTANT of AllocAppend: the window counter is not advanced.
AllocAppendUncounted(rec) ==
  LET id == window_counter + 1
      prv == IF next = <<>> THEN NoWin ELSE Last(next)
      linked == IF next = <<>> THEN win ELSE [win EXCEPT ![prv].nxt = id]
  IN  /\ win' = Extended(linked, id, [rec EXCEPT !.prv = prv])
      /\ next' = Append(next, id)
      /\ UNCHANGED <<previous, current, window_counter>>

\* alloc_append_single_window: a new last window.  It is linked to the window
\* before it only when that one is in next.
AllocAppend(rec) ==
  LET id == window_counter + 1
      prv == IF next = <<>> THEN NoWin ELSE Last(next)
      linked == IF next = <<>> THEN win ELSE [win EXCEPT ![prv].nxt = id]
  IN  /\ window_counter' = id
      /\ win' = Extended(linked, id, [rec EXCEPT !.prv = prv])
      /\ next' = Append(next, id)
      /\ UNCHANGED <<previous, current>>

\* shuffle_windows_down, with the snapshot of the global variables that the
\* engine takes first.
ShuffleDown(snapshot) ==
  /\ previous' = previous \o Running
  /\ win' = IF current = NoWin THEN win
            ELSE [win EXCEPT ![current].variables = snapshot]
  /\ current' = IF next = <<>> THEN NoWin ELSE Head(next)
  /\ next' = IF next = <<>> THEN next ELSE Tail(next)
  /\ UNCHANGED window_counter

\* MUTANT of FreeFirst: the window leaves the list but not the arena.
FreeFirstLeaks ==
  /\ previous' = Tail(previous)
  /\ UNCHANGED <<current, next, win, window_counter>>

\* free_swindow on the oldest window: it leaves the sibling chain and its
\* handle goes stale.
FreeFirst ==
  LET w == Head(previous)
      p == win[w].prv
      n == win[w].nxt
      others == [x \in DOMAIN win \ {w} |-> win[x]]
  IN  /\ win' = [x \in DOMAIN others |->
                   IF x = n THEN [others[x] EXCEPT !.prv = p]
                   ELSE IF x = p THEN [others[x] EXCEPT !.nxt = n]
                   ELSE others[x]]
      /\ previous' = Tail(previous)
      /\ UNCHANGED <<current, next, window_counter>>

-----------------------------------------------------------------------------
(* delimit_at(w, cohort): the cohorts after the k-th move to a new window   *)
(* that follows w and takes what trails a window (text_post, flush_after).  *)

Tailing(w, k) ==
  [FreshWindow EXCEPT
     !.cohorts = SubSeq(win[w].cohorts, k + 1, Len(win[w].cohorts)),
     !.text_post = win[w].text_post,
     !.flush_after = win[w].flush_after]

Truncated(w, k) ==
  [win[w] EXCEPT !.cohorts = SubSeq(@, 1, k), !.text_post = <<>>,
                 !.flush_after = 0]

\* MUTANT of DelimitCurrent: the tail is queued behind every waiting window.
DelimitCurrentLast(k) ==
  LET id == window_counter + 1
      order == Append(next, id)
      cut == Extended([win EXCEPT ![current] = Truncated(current, k)], id,
                      Tailing(current, k))
  IN  /\ window_counter' = id
      /\ win' = Relinked(cut, previous \o Running \o order)
      /\ next' = order
      /\ UNCHANGED <<previous, current>>

\* The running window: alloc_push_single_window puts the new one first in next.
DelimitCurrent(k) ==
  LET id == window_counter + 1
      front == IF next = <<>> THEN NoWin ELSE Head(next)
      cut == [win EXCEPT ![current] = [Truncated(current, k) EXCEPT !.nxt = id]]
      linked == IF next = <<>> THEN cut ELSE [cut EXCEPT ![front].prv = id]
  IN  /\ window_counter' = id
      /\ win' = Extended(linked, id, [Tailing(current, k) EXCEPT
                                        !.prv = current, !.nxt = front])
      /\ next' = <<id>> \o next
      /\ UNCHANGED <<previous, current>>

\* MUTANT of DelimitNext: the links are not rebuilt.
DelimitNextUnlinked(w, k) ==
  \E pos \in DOMAIN next :
    LET id == window_counter + 1 IN
    /\ next[pos] = w
    /\ window_counter' = id
    /\ next' = InsertAt(next, pos + 1, id)
    /\ win' = Extended([win EXCEPT ![w] = Truncated(w, k)], id, Tailing(w, k))
    /\ UNCHANGED <<previous, current>>

\* A window still in next: the new one is put after it, then all links are
\* rebuilt.
DelimitNext(w, k) ==
  \E pos \in DOMAIN next :
    LET id == window_counter + 1
        order == InsertAt(next, pos + 1, id)
        cut == Extended([win EXCEPT ![w] = Truncated(w, k)], id, Tailing(w, k))
    IN  /\ next[pos] = w
        /\ window_counter' = id
        /\ next' = order
        /\ win' = Relinked(cut, previous \o Running \o order)
        /\ UNCHANGED <<previous, current>>

-----------------------------------------------------------------------------
(* What print_single_window writes for a window: leading text, each cohort *)
(* followed by its own text, trailing text, the FLUSH command.             *)
CohortOutput(cohorts) ==
  FlattenSeq([i \in DOMAIN cohorts |-> <<cohorts[i].id>> \o cohorts[i].text])

WindowOutput(rec) ==
  rec.text \o CohortOutput(rec.cohorts) \o rec.text_post
    \o (IF rec.flush_after = 0 THEN <<>> ELSE <<rec.flush_after>>)

=============================================================================
