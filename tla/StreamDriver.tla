---------------------------- MODULE StreamDriver ----------------------------
(***************************************************************************)
(* run_grammar_on_text (grammar_applicator/run_grammar.rs): the loop that  *)
(* reads the CG text format line by line, gathers cohorts into windows,    *)
(* runs the grammar on a window once enough windows follow it, and prints  *)
(* a window once enough windows precede the running one.                   *)
(*                                                                         *)
(* Handling one line is a run of steps (pc); no other line is read before  *)
(* it ends, so the steps are those of one sequential program.  Cohorts,    *)
(* text lines and FLUSH lines are numbered in input order: that number is  *)
(* all that is kept of their content.  What a grammar does to the cohorts  *)
(* of a window is not modelled here, except DELIMIT, which changes the     *)
(* stream.  One stream variable stands for all of them.  IGNORE only turns *)
(* lines into text lines, which are accepted anywhere.                     *)
(***************************************************************************)
EXTENDS WindowStream

CONSTANTS
  NumWindows,      \* cfg.num_windows: context windows on each side
  SoftLimit,       \* cfg.soft_limit
  HardLimit,       \* cfg.hard_limit
  SoftDelimiters,  \* the grammar has SOFT-DELIMITERS
  DepDelimit,      \* cfg.dep_delimit is set
  BinaryOutput,    \* cfg.fmt_output is the binary stream format
  Delimiting,      \* the grammar has DELIMIT rules
  LineKinds,       \* the kinds of line the input may hold
  CohortKinds,     \* which delimiter sets a cohort may match
  MaxPass,         \* passes over one window before the endless-loop bail
  MaxItems         \* bound on the numbered items of the input

ASSUME DriverAssumption ==
  /\ NumWindows \in Nat
  /\ SoftLimit \in Nat /\ HardLimit \in Nat /\ MaxPass \in Nat
  /\ MaxItems \in Nat
  /\ {SoftDelimiters, DepDelimit, BinaryOutput, Delimiting} \subseteq BOOLEAN
  /\ LineKinds \subseteq
       {"cohort", "text", "delimiter", "FLUSH", "SETVAR", "SETVARLIST",
        "REMVAR", "EXIT"}
  /\ CohortKinds \subseteq {"plain", "soft", "hard"}

VARIABLES
  pc,                 \* the step of the line handler
  caller,             \* where a window run returns to
  c_swindow,          \* the window being filled (cSWindow)
  l_swindow,          \* the last window (lSWindow)
  c_cohort,           \* the cohort being read, not yet in a window (cCohort)
  kind,               \* the delimiter set the arriving cohort matches
  did_soft_lookback,
  pass,               \* passes over the running window
  pending_var,        \* variables_set / variables_rem of the driver
  variable,           \* doc.variables: whether the variable is set
  dep_seen,           \* dep_highest_seen # 0
  bare_flush,         \* a FLUSH that found no window to mark
  received,           \* items read so far
  out,                \* items written
  streamvar,          \* history: the variable as the input read so far sets it
  due                 \* history: per window, the value its rules must see

driver == <<pc, caller, c_swindow, l_swindow, c_cohort, kind,
            did_soft_lookback, pass, pending_var, variable, dep_seen,
            bare_flush, received, out, streamvar, due>>
vars == <<stream, driver>>

NoCohort == [id |-> 0, kind |-> "none", text |-> <<>>]
\* What SETVAR and REMVAR lines leave for a window: variables_set holds the
\* variable ("set"), and variables_rem does ("rem").
Deltas == SUBSET {"set", "rem"}
Snapshot == IF variable THEN {"set"} ELSE {}

\* MUTANT of Applied: variables_rem is not applied.
AppliedSetOnly(delta, v) == v \/ "set" \in delta

\* A window's deltas applied to the variable: variables_set, then variables_rem.
Applied(delta, v) == (v \/ "set" \in delta) /\ "rem" \notin delta

\* append_cohort on the window being filled; an item that carries
\* dependencies also raises dep_highest_seen.
Appended(f, w) == [f EXCEPT ![w].cohorts = Append(@, c_cohort)]

\* A window just allocated is both the one being filled and the last one.
NewSWindow ==
  c_swindow' = window_counter + 1 /\ l_swindow' = window_counter + 1

OverSoft == CohortCount(c_swindow) >= SoftLimit

OverHard == CohortCount(c_swindow) >= HardLimit

Goto(step) == pc' = step
History == <<streamvar, due>>
Variables == <<pending_var, variable>>

-----------------------------------------------------------------------------
Init ==
  /\ InitStream
  /\ pc = IF BinaryOutput THEN "binary" ELSE "read"
  /\ caller = "newcohort"
  /\ c_swindow = NoWin /\ l_swindow = NoWin
  /\ c_cohort = NoCohort /\ kind = "none"
  /\ did_soft_lookback = FALSE
  /\ pass = 0
  /\ pending_var = {} /\ variable = FALSE /\ streamvar = FALSE
  /\ dep_seen = FALSE /\ bare_flush = FALSE
  /\ received = 0 /\ out = <<>>
  /\ due = <<>>

\* binary_maybe_window: binary output opens a window before any line is read.
BinaryWindow ==
  /\ pc = "binary"
  /\ AllocAppend(FreshWindow)
  /\ NewSWindow
  /\ due' = Append(due, streamvar)
  /\ Goto("read")
  /\ UNCHANGED <<caller, c_cohort, kind, did_soft_lookback, pass, Variables,
                 dep_seen, bare_flush, received, out, streamvar>>

-----------------------------------------------------------------------------
(* A cohort line.                                                          *)

CohortLine ==
  /\ pc = "read" /\ "cohort" \in LineKinds /\ received < MaxItems
  /\ kind' \in CohortKinds
  /\ Goto("lookback")
  /\ UNCHANGED <<stream, caller, c_swindow, l_swindow, c_cohort,
                 did_soft_lookback, pass, Variables, dep_seen, bare_flush,
                 received, out, History>>

\* (a) The window is over the soft limit: split it after its last cohort that
\* matches SOFT-DELIMITERS, and go on filling the second half.
LookbackDue ==
  /\ c_swindow # NoWin
  /\ OverSoft /\ SoftDelimiters /\ ~did_soft_lookback

SoftCohorts ==
  {i \in DOMAIN win[c_swindow].cohorts : win[c_swindow].cohorts[i].kind = "soft"}

SoftLookback ==
  /\ pc = "lookback" /\ (c_swindow = NoWin \/ Live(c_swindow))
  /\ IF LookbackDue /\ SoftCohorts # {}
     THEN \E k \in SoftCohorts :
            /\ \A i \in SoftCohorts : i <= k
            /\ DelimitNext(c_swindow, k)
            /\ c_swindow' = window_counter + 1
            /\ due' = Append(due, due[c_swindow])
            /\ dep_seen' = (\/ dep_seen
                            \/ DepDelimit /\ k < Len(win[c_swindow].cohorts))
            /\ UNCHANGED did_soft_lookback
     ELSE /\ did_soft_lookback' = (did_soft_lookback \/ LookbackDue)
          /\ UNCHANGED <<stream, c_swindow, due, dep_seen>>
  /\ Goto("soft")
  /\ UNCHANGED <<caller, l_swindow, c_cohort, kind, pass, Variables,
                 bare_flush, received, out, streamvar>>

\* The read cohort ends the window being filled.
CloseWindow ==
  /\ win' = Appended(win, c_swindow)
  /\ dep_seen' = (dep_seen \/ DepDelimit)
  /\ l_swindow' = c_swindow
  /\ c_swindow' = NoWin
  /\ c_cohort' = NoCohort
  /\ did_soft_lookback' = FALSE
  /\ UNCHANGED <<previous, current, next, window_counter>>

\* (b) Over the soft limit and the read cohort is itself a soft delimiter.
SoftBreak ==
  /\ pc = "soft" /\ (c_swindow = NoWin \/ Live(c_swindow))
  /\ IF /\ c_cohort # NoCohort /\ c_swindow # NoWin
        /\ OverSoft /\ SoftDelimiters /\ c_cohort.kind = "soft"
     THEN CloseWindow
     ELSE UNCHANGED <<stream, dep_seen, l_swindow, c_swindow, c_cohort,
                      did_soft_lookback>>
  /\ Goto("hard")
  /\ UNCHANGED <<caller, kind, pass, Variables, bare_flush, received, out,
                 History>>

\* (c) Over the hard limit, or the read cohort matches DELIMITERS.
HardBreak ==
  /\ pc = "hard" /\ (c_cohort = NoCohort \/ Live(c_swindow))
  /\ IF /\ c_cohort # NoCohort
        /\ OverHard \/ (~DepDelimit /\ c_cohort.kind = "hard")
     THEN CloseWindow
     ELSE UNCHANGED <<stream, dep_seen, l_swindow, c_swindow, c_cohort,
                      did_soft_lookback>>
  /\ Goto("open")
  /\ UNCHANGED <<caller, kind, pass, Variables, bare_flush, received, out,
                 History>>

OpenWindow ==
  /\ pc = "open"
  /\ IF c_swindow = NoWin
     THEN /\ AllocAppend(FreshWindow)
          /\ NewSWindow
          /\ c_cohort' = NoCohort
          /\ did_soft_lookback' = FALSE
          /\ due' = Append(due, streamvar)
     ELSE UNCHANGED <<stream, c_swindow, l_swindow, c_cohort,
                      did_soft_lookback, due>>
  /\ Goto("attach")
  /\ UNCHANGED <<caller, kind, pass, Variables, dep_seen, bare_flush, received,
                 out, streamvar>>

\* MUTANT of EnoughWaiting: a window is run one window early.
EnoughWaitingEarly == Len(next) > NumWindows

EnoughWaiting == Len(next) > NumWindows + 1

\* The read cohort joins the window; then a window is run if more than
\* NumWindows + 1 are waiting.
AttachCohort ==
  /\ pc = "attach" /\ (c_cohort = NoCohort \/ Live(c_swindow))
  /\ IF c_cohort # NoCohort
     THEN /\ win' = Appended(win, c_swindow)
          /\ dep_seen' = (dep_seen \/ DepDelimit)
     ELSE UNCHANGED <<win, dep_seen>>
  /\ c_cohort' = NoCohort
  /\ Goto(IF EnoughWaiting THEN "drain" ELSE "newcohort")
  /\ UNCHANGED <<previous, current, next, window_counter, caller, c_swindow,
                 l_swindow, kind, did_soft_lookback, pass, Variables,
                 bare_flush, received, out, History>>

DrainOne ==
  /\ pc = "drain"
  /\ ShuffleDown(Snapshot)
  /\ caller' = "newcohort"
  /\ Goto("run")
  /\ UNCHANGED <<c_swindow, l_swindow, c_cohort, kind, did_soft_lookback, pass,
                 Variables, dep_seen, bare_flush, received, out, History>>

\* The first cohort of a window gives it the pending variables
\* (adopt_variables); the new cohort is kept aside until the next line.
NewCohort ==
  /\ pc = "newcohort" /\ Live(c_swindow)
  /\ IF CohortCount(c_swindow) = 1
     THEN /\ win' = [win EXCEPT ![c_swindow].variables = @ \cup pending_var]
          /\ pending_var' = {}
          /\ due' = [due EXCEPT ![c_swindow] = streamvar]
     ELSE UNCHANGED <<win, pending_var, due>>
  /\ received' = received + 1
  /\ c_cohort' = [id |-> received', kind |-> kind, text |-> <<>>]
  /\ kind' = "none"
  /\ Goto("read")
  /\ UNCHANGED <<previous, current, next, window_counter, caller, c_swindow,
                 l_swindow, did_soft_lookback, pass, variable, dep_seen,
                 bare_flush, out, streamvar>>

-----------------------------------------------------------------------------
(* run_grammar_on_window.                                                  *)

\* The variable deltas of the window become the global ones.
RunWindow ==
  /\ pc = "run"
  /\ variable' = Applied(win[current].variables, variable)
  /\ pass' = 0
  /\ Goto("retire")
  /\ UNCHANGED <<stream, caller, c_swindow, l_swindow, c_cohort, kind,
                 did_soft_lookback, pending_var, dep_seen, bare_flush,
                 received, out, History>>

\* Each pass first prints and frees the windows beyond the left context.
RetireWindow ==
  /\ pc = "retire" /\ Len(previous) > NumWindows
  /\ out' = out \o WindowOutput(win[Head(previous)])
  /\ FreeFirst
  /\ UNCHANGED <<pc, caller, c_swindow, l_swindow, c_cohort, kind,
                 did_soft_lookback, pass, Variables, dep_seen, bare_flush,
                 received, History>>

StartPass ==
  /\ pc = "retire" /\ Len(previous) <= NumWindows /\ pass < MaxPass
  /\ pass' = pass + 1
  /\ Goto("rules")
  /\ UNCHANGED <<stream, caller, c_swindow, l_swindow, c_cohort, kind,
                 did_soft_lookback, Variables, dep_seen, bare_flush, received,
                 out, History>>

\* A DELIMIT rule fires on a cohort that is not the last of the window: the
\* tail becomes the next window, and the window is run again.
DelimitRule ==
  /\ pc = "rules" /\ Delimiting
  /\ \E k \in 1 .. Len(win[current].cohorts) - 1 : DelimitCurrent(k)
  /\ due' = Append(due, due[current])
  /\ dep_seen' = (dep_seen \/ DepDelimit)
  /\ Goto("retire")
  /\ UNCHANGED <<caller, c_swindow, l_swindow, c_cohort, kind,
                 did_soft_lookback, pass, Variables, bare_flush, received, out,
                 streamvar>>

\* The rules are done with the window, or it was passed over MaxPass times.
EndRun ==
  /\ \/ pc = "rules"
     \/ pc = "retire" /\ Len(previous) <= NumWindows /\ pass = MaxPass
  /\ Goto(caller)
  /\ caller' = "newcohort" /\ pass' = 0
  /\ UNCHANGED <<stream, c_swindow, l_swindow, c_cohort, kind,
                 did_soft_lookback, Variables, dep_seen, bare_flush, received,
                 out, History>>

-----------------------------------------------------------------------------
(* Reading lines.  Only the --dep-delimit break changes the stream: the     *)
(* dependency number of the read cohort falls or jumps, so a new window     *)
(* opens and the cohort will be its first.                                  *)

DepBreak ==
  /\ pc = "read" /\ DepDelimit /\ dep_seen /\ c_cohort # NoCohort
  /\ c_swindow = NoWin \/ Live(c_swindow)
  /\ AllocAppend([FreshWindow EXCEPT !.variables = pending_var])
  /\ NewSWindow
  /\ pending_var' = {}
  /\ did_soft_lookback' = FALSE
  /\ dep_seen' = FALSE
  /\ due' = Append(due, streamvar)
  /\ UNCHANGED <<pc, caller, c_cohort, kind, pass, variable, bare_flush,
                 received, out, streamvar>>

-----------------------------------------------------------------------------
(* Text lines and stream commands.                                         *)

NextItem(line) ==
  /\ pc = "read" /\ line \in LineKinds /\ received < MaxItems
  /\ received' = received + 1

\* A line that is neither a command nor a text delimiter goes with the read
\* cohort, else with the last window, else straight to the output.
AttachText ==
  /\ UNCHANGED <<previous, current, next, window_counter, c_swindow,
                 l_swindow, did_soft_lookback, dep_seen>>
  /\ \/ /\ c_cohort # NoCohort
        /\ c_cohort' = [c_cohort EXCEPT !.text = Append(@, received')]
        /\ UNCHANGED <<win, out>>
     \/ /\ c_cohort = NoCohort /\ Live(l_swindow)
        /\ win' = IF win[l_swindow].text_post # <<>>
                  THEN [win EXCEPT ![l_swindow].text_post = Append(@, received')]
                  ELSE [win EXCEPT ![l_swindow].text = Append(@, received')]
        /\ UNCHANGED <<c_cohort, out>>
     \/ /\ c_cohort = NoCohort /\ l_swindow = NoWin
        /\ out' = Append(out, received')
        /\ UNCHANGED <<win, c_cohort>>

TextLine ==
  /\ NextItem("text")
  /\ AttachText
  /\ UNCHANGED <<pc, caller, kind, pass, Variables, bare_flush, History>>

\* A text-delimiter line ends the window that is being filled.
DelimiterLine ==
  /\ NextItem("delimiter")
  /\ IF l_swindow # NoWin /\ c_cohort # NoCohort
     THEN /\ Live(l_swindow) /\ Live(c_swindow)
          /\ win' = Appended([win EXCEPT ![l_swindow].text_post =
                                Append(@, received')], c_swindow)
          /\ dep_seen' = (dep_seen \/ DepDelimit)
          /\ l_swindow' = c_swindow
          /\ c_swindow' = NoWin
          /\ c_cohort' = NoCohort
          /\ did_soft_lookback' = FALSE
          /\ UNCHANGED <<previous, current, next, window_counter, out>>
     ELSE AttachText
  /\ UNCHANGED <<pc, caller, kind, pass, Variables, bare_flush, History>>

\* SETVAR waits for the next window and withdraws a REMVAR that waits; a bare
\* one read while no window is being filled also sets the global variable at once.
SetvarLine ==
  /\ pc = "read" /\ "SETVAR" \in LineKinds
  /\ pending_var' = {"set"}
  /\ variable' = (variable \/ c_swindow = NoWin)
  /\ streamvar' = TRUE
  /\ UNCHANGED <<stream, pc, caller, c_swindow, l_swindow, c_cohort, kind,
                 did_soft_lookback, pass, dep_seen, bare_flush, received, out,
                 due>>

\* A SETVAR with a value or with a list of variables always waits for the window.
SetvarListLine ==
  /\ pc = "read" /\ "SETVARLIST" \in LineKinds
  /\ pending_var' = {"set"}
  /\ streamvar' = TRUE
  /\ UNCHANGED <<stream, pc, caller, c_swindow, l_swindow, c_cohort, kind,
                 did_soft_lookback, pass, variable, dep_seen, bare_flush,
                 received, out, due>>

RemvarLine ==
  /\ pc = "read" /\ "REMVAR" \in LineKinds
  /\ pending_var' = {"rem"}
  /\ streamvar' = FALSE
  /\ UNCHANGED <<stream, pc, caller, c_swindow, l_swindow, c_cohort, kind,
                 did_soft_lookback, pass, variable, dep_seen, bare_flush,
                 received, out, due>>

\* MUTANT of FinishCohort: the window being filled is not forgotten.
FinishCohortOpen(f) ==
  /\ c_cohort = NoCohort \/ c_swindow = NoWin \/ Live(c_swindow)
  /\ IF c_cohort # NoCohort /\ c_swindow # NoWin
     THEN /\ win' = Appended(f, c_swindow)
          /\ dep_seen' = (dep_seen \/ DepDelimit)
          /\ c_cohort' = NoCohort
     ELSE win' = f /\ UNCHANGED <<dep_seen, c_cohort>>
  /\ UNCHANGED <<previous, current, next, window_counter, c_swindow, l_swindow>>

\* The read cohort joins its window, at a FLUSH or at the end of the input.
FinishCohort(f) ==
  /\ c_cohort = NoCohort \/ c_swindow = NoWin \/ Live(c_swindow)
  /\ IF c_cohort # NoCohort /\ c_swindow # NoWin
     THEN /\ win' = Appended(f, c_swindow)
          /\ dep_seen' = (dep_seen \/ DepDelimit)
          /\ c_cohort' = NoCohort
          /\ c_swindow' = NoWin /\ l_swindow' = NoWin
     ELSE win' = f /\ UNCHANGED <<dep_seen, c_cohort, c_swindow, l_swindow>>
  /\ UNCHANGED <<previous, current, next, window_counter>>

FlushLine ==
  /\ NextItem("FLUSH")
  /\ bare_flush' = (Back = NoWin)
  /\ FinishCohort(IF Back = NoWin THEN win
                  ELSE [win EXCEPT ![Back].flush_after = received'])
  /\ Goto("flush")
  /\ UNCHANGED <<caller, kind, did_soft_lookback, pass, Variables, out, History>>

ExitLine ==
  /\ pc = "read" /\ "EXIT" \in LineKinds
  /\ Goto("eof")
  /\ UNCHANGED <<stream, caller, c_swindow, l_swindow, c_cohort, kind,
                 did_soft_lookback, pass, Variables, dep_seen, bare_flush,
                 received, out, History>>

-----------------------------------------------------------------------------
(* Draining: every waiting window is run, then every window is printed.    *)

DrainAll(step, printing) ==
  /\ pc = step
  /\ ShuffleDown(Snapshot)
  /\ IF next # <<>> THEN caller' = step /\ Goto("run")
                    ELSE caller' = caller /\ Goto(printing)
  /\ UNCHANGED <<c_swindow, l_swindow, c_cohort, kind, did_soft_lookback, pass,
                 Variables, dep_seen, bare_flush, received, out, History>>

\* MUTANT of PrintFirst: the last window is never printed.
PrintFirstKeepsOne(step) ==
  /\ pc = step /\ Len(previous) > 1
  /\ out' = out \o WindowOutput(win[Head(previous)])
  /\ FreeFirst
  /\ UNCHANGED <<pc, caller, c_swindow, l_swindow, c_cohort, kind,
                 did_soft_lookback, pass, Variables, dep_seen, bare_flush,
                 received, History>>

PrintFirst(step) ==
  /\ pc = step /\ previous # <<>>
  /\ out' = out \o WindowOutput(win[Head(previous)])
  /\ FreeFirst
  /\ UNCHANGED <<pc, caller, c_swindow, l_swindow, c_cohort, kind,
                 did_soft_lookback, pass, Variables, dep_seen, bare_flush,
                 received, History>>

\* Every window is out: the FLUSH itself is written if no window carried it,
\* and the variables are forgotten.
EndFlush ==
  /\ pc = "flushprint" /\ previous = <<>>
  /\ out' = IF bare_flush THEN Append(out, received) ELSE out
  /\ variable' = FALSE
  /\ streamvar' = (streamvar /\ pending_var # {})
  /\ bare_flush' = FALSE
  /\ Goto("read")
  /\ UNCHANGED <<stream, caller, c_swindow, l_swindow, c_cohort, kind,
                 did_soft_lookback, pass, pending_var, dep_seen, received, due>>

EndOfFile ==
  /\ pc = "read"
  /\ Goto("eof")
  /\ UNCHANGED <<stream, caller, c_swindow, l_swindow, c_cohort, kind,
                 did_soft_lookback, pass, Variables, dep_seen, bare_flush,
                 received, out, History>>

FinishInput ==
  /\ pc = "eof"
  /\ FinishCohort(win)
  /\ Goto("eofvariables")
  /\ UNCHANGED <<caller, kind, did_soft_lookback, pass, Variables, bare_flush,
                 received, out, History>>

\* Binary output gives variables that no window took a window of their own.
LastVariables ==
  /\ pc = "eofvariables"
  /\ IF BinaryOutput /\ pending_var # {}
     THEN /\ AllocAppend([FreshWindow EXCEPT !.variables = pending_var])
          /\ c_swindow' = window_counter + 1
          /\ pending_var' = {}
          /\ due' = Append(due, streamvar)
     ELSE UNCHANGED <<stream, c_swindow, pending_var, due>>
  /\ Goto("eofdrain")
  /\ UNCHANGED <<caller, l_swindow, c_cohort, kind, did_soft_lookback, pass,
                 variable, dep_seen, bare_flush, received, out, streamvar>>

EndOutput ==
  /\ pc = "eofprint" /\ previous = <<>>
  /\ Goto("done")
  /\ UNCHANGED <<stream, caller, c_swindow, l_swindow, c_cohort, kind,
                 did_soft_lookback, pass, Variables, dep_seen, bare_flush,
                 received, out, History>>

-----------------------------------------------------------------------------
\* GenArena::check: a step is about to use the handle of a freed window.
Stale(w) == w # NoWin /\ ~Live(w)

\* The handles that the next step, or the handler of the next line, reads.
Used ==
  IF pc \in {"lookback", "soft", "newcohort"} THEN {c_swindow}
  ELSE IF pc \in {"hard", "attach", "eof"} /\ c_cohort # NoCohort THEN {c_swindow}
  ELSE IF pc = "read" /\ received < MaxItems /\ c_cohort # NoCohort
    THEN {c_swindow} \cup (IF "delimiter" \in LineKinds THEN {l_swindow} ELSE {})
  ELSE IF pc = "read" /\ received < MaxItems
    THEN (IF {"text", "delimiter"} \cap LineKinds # {} THEN {l_swindow} ELSE {})
  ELSE {}

Panic ==
  /\ \E w \in Used : Stale(w)
  /\ Goto("panic")
  /\ UNCHANGED <<stream, caller, c_swindow, l_swindow, c_cohort, kind,
                 did_soft_lookback, pass, Variables, dep_seen, bare_flush,
                 received, out, History>>

ReadLine ==
  \/ CohortLine \/ DepBreak \/ TextLine \/ DelimiterLine
  \/ SetvarLine \/ SetvarListLine \/ RemvarLine
  \/ FlushLine \/ ExitLine \/ EndOfFile

HandleLine ==
  \/ BinaryWindow
  \/ SoftLookback \/ SoftBreak \/ HardBreak \/ OpenWindow
  \/ AttachCohort \/ DrainOne \/ NewCohort
  \/ RunWindow \/ RetireWindow \/ StartPass \/ DelimitRule \/ EndRun
  \/ DrainAll("flush", "flushprint") \/ PrintFirst("flushprint") \/ EndFlush
  \/ FinishInput \/ LastVariables
  \/ DrainAll("eofdrain", "eofprint") \/ PrintFirst("eofprint") \/ EndOutput

Next == ReadLine \/ HandleLine \/ Panic

Spec == Init /\ [][Next]_vars

\* The driver is one thread: it goes on as long as it has something to do, and
\* it is not interrupted within a line.  The input is finite.
FairSpec ==
  Spec /\ WF_vars(HandleLine) /\ WF_vars(EndOfFile) /\ WF_vars(pc # "read" /\ Panic)

-----------------------------------------------------------------------------
(* Properties.                                                             *)

Steps ==
  {"binary", "read", "lookback", "soft", "hard", "open", "attach", "drain",
   "newcohort", "run", "retire", "rules", "flush", "flushprint", "eof",
   "eofvariables", "eofdrain", "eofprint", "done", "panic"}
Items == 1 .. received
Handles == 1 .. window_counter
Cohort == [id : Items, kind : {"plain", "soft", "hard", "none"}, text : Seq(Items)]
Window ==
  [cohorts : Seq(Cohort), text : Seq(Items), text_post : Seq(Items),
   flush_after : 0 .. received, variables : Deltas,
   prv : 0 .. window_counter, nxt : 0 .. window_counter]

\* The state of the driver has the types the code declares, and names only
\* windows that were allocated and items that were read (what is written is
\* the subject of EchoesInput).
TypeOK ==
  /\ pc \in Steps
  /\ window_counter \in Nat /\ received \in Nat
  /\ previous \in Seq(Handles) /\ next \in Seq(Handles)
  /\ {current, c_swindow, l_swindow} \subseteq 0 .. window_counter
  /\ win \in [DOMAIN win -> Window] /\ DOMAIN win \subseteq Handles
  /\ c_cohort \in Cohort \cup {NoCohort}
  /\ kind \in {"plain", "soft", "hard", "none"}
  /\ pending_var \in Deltas
  /\ {did_soft_lookback, variable, dep_seen, bare_flush, streamvar}
       \subseteq BOOLEAN
  /\ pass \in 0 .. MaxPass
  /\ caller \in {"newcohort", "flush", "eofdrain"}
  /\ due \in [Handles -> BOOLEAN]

\* No step uses the handle of a window that was printed and freed: the
\* assertion of GenArena::check ("stale id") never fires.
NoStaleHandle == pc # "panic"

\* The sibling links, which contextual tests follow across windows, are the
\* document order (WindowStream::rebuild_cohort_links relies on it).
LinksFollowDocument ==
  \A i \in DOMAIN Document :
    /\ win[Document[i]].prv = (IF i = 1 THEN NoWin ELSE Document[i - 1])
    /\ win[Document[i]].nxt =
         (IF i = Len(Document) THEN NoWin ELSE Document[i + 1])

\* The live windows are those of the document, each once: none leaks and none
\* is freed while it is still to be run or printed.
NoLeak ==
  /\ IsInjective(Document)
  /\ DOMAIN win = ToSet(Document)

\* The rules of a window see the variable as the input set it before the first
\* cohort of that window, however far ahead the driver has read.
VariableOnTime == pc \in {"retire", "rules"} => variable = due[current]

\* While the input lasts, the rules of a window see NumWindows following
\* windows, and never more than NumWindows preceding ones.
ContextSpan ==
  pc = "rules" =>
    /\ Len(previous) <= NumWindows
    /\ caller = "newcohort" => Len(next) > NumWindows

\* Once the input ends, the driver has printed everything in the order it was
\* read, and stops.  A line that uses the handle a FLUSH left behind ends the run
\* instead: by then every window and every line before it is printed.
Termination ==
  <>( /\ Document = <<>>
      /\ \/ pc = "done" /\ out = [i \in 1..received |-> i]
         \/ /\ pc = "panic"
            /\ out = [i \in 1..Len(out) |-> i] /\ Len(out) >= received - 1)

\* The driver implements the in-order echo.
Serving ==
  \/ pc \in {"flush", "flushprint", "eof", "eofvariables", "eofdrain",
             "eofprint", "done"}
  \/ pc \in {"run", "retire", "rules"} /\ caller \in {"flush", "eofdrain"}

Echo == INSTANCE EchoStream WITH emitted <- out, flushing <- Serving,
                                 closed <- (pc = "done")
EchoesInput == Echo!Spec
=============================================================================
