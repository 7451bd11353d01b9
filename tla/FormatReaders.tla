----------------------------- MODULE FormatReaders -----------------------------
(***************************************************************************)
(* The readers of the stream formats other than the native one: niceline,  *)
(* plain text, FST, Matxin, JSON lines, Apertium and the binary stream.    *)
(* Each is the main loop of <format>_applicator.rs.  An action is one      *)
(* round of that loop, on one line, lexical unit or packet; the items of   *)
(* the input are numbered as they are read.  What an item holds is         *)
(* abstracted to what the loop asks of it: whether a cohort matches the    *)
(* delimiters or the soft delimiters, and the variable a command sets.     *)
(* The grammar has delimiters and soft delimiters, and dep_delimit is 0.   *)
(***************************************************************************)
EXTENDS ReaderWindows, FiniteSets

CONSTANTS Formats,       \* the readers of an instance
          MaxItems       \* bound on the items of an input

FormatNames ==
  {"niceline", "plaintext", "fst", "matxin", "jsonl", "apertium", "binary"}

ASSUME FormatsAssumption ==
  Formats \subseteq FormatNames /\ MaxItems \in Nat

VARIABLES
  format,      \* which reader runs
  d,           \* its locals and the document (ReaderWindows)
  fed,         \* the items that must come out, in the order they must
  varsRead,    \* the variable as the commands read so far leave it
  due,         \* window -> the values of the variable its rules may see
  read,        \* the number of items read
  phase        \* "reading", then "ended" or "left" (EXIT, malformed input)

vars == <<format, d, fed, varsRead, due, read, phase>>

Kinds == {{}, {"soft"}, {"hard"}}

Is(c, k) == c.id # 0 /\ k \in c.kinds

Reached(x, limit) == Count(x, x.cSw) >= limit

\* The pending cohort closes its window: <<< on its readings, and appended.
PendingEnds(x) == Appended(x, x.cSw, [x.cCoh EXCEPT !.ended = TRUE])

\* An item that is printed at its place in the stream.
Keep(n) == fed' = Append(fed, n)

\* Every window made in this step is due the variable read before it.
DueFrom(x) ==
  due' = [w \in DOMAIN x.win |-> IF w \in DOMAIN due THEN due[w] ELSE {varsRead}]

-----------------------------------------------------------------------------
(* niceline_applicator.rs: a cohort is pending until the next token line.  *)

NicelineClosed(x) ==
  [PendingEnds(x) EXCEPT !.lSw = x.cSw, !.cSw = NoWin, !.cCoh = NoCohort,
                         !.lookback = FALSE]

\* The soft break, then the hard one, on the pending cohort.
NicelineBreaks(x) ==
  IF x.cCoh.id # 0 /\ x.cSw # NoWin
     /\ \/ Reached(x, SoftLimit) /\ Is(x.cCoh, "soft")
        \/ Reached(x, HardLimit)
        \/ Is(x.cCoh, "hard")
  THEN NicelineClosed(x) ELSE x

NicelineWindow(x) ==
  IF x.cSw = NoWin
  THEN [Opened(x) EXCEPT !.cCoh = NoCohort, !.lookback = FALSE] ELSE x

PendingAppended(x) ==
  IF x.cCoh.id = 0 THEN x ELSE Appended(x, x.cSw, x.cCoh)

\* A line with a tab or without blanks: the cohort before it finds its window,
\* a waiting window may run, and the cohort of this line is pending.
NicelineToken(n, kinds) ==
  LET placed == PendingAppended(NicelineWindow(NicelineBreaks(LookedBack(d)))) IN
  /\ d' = [Drained(placed) EXCEPT !.cCoh = CohortOf(n, kinds), !.lCoh = n]
  /\ DueFrom(d')

\* End of input: the pending cohort ends the last window.
NicelineEnd(x) ==
  IF x.cCoh.id # 0 /\ x.cSw # NoWin
  THEN [PendingEnds(x) EXCEPT !.cCoh = NoCohort] ELSE x

-----------------------------------------------------------------------------
(* plaintext_applicator.rs: the words of a line are appended as they are   *)
(* made, so nothing is ever pending and only the lookback splits windows.  *)

PlaintextWindow(x) ==
  IF x.cSw = NoWin
  THEN LET new == Opened(x) IN
       [new EXCEPT !.lCoh = -new.cSw, !.lookback = FALSE]
  ELSE x

\* One word of a line: the cohort, numbered as it is made, and its magic reading.
PlaintextWord(x, n, item, kinds) ==
  [Appended(x, x.cSw, [CohortOf(n, kinds) EXCEPT !.ids = <<item>>]) EXCEPT !.lCoh = n]

\* A line, cut into words and punctuation marks; the marks that end a word are
\* cut off from the last to the first and follow the word in that order.
PlaintextCut(n) == {<<n>>, <<n, n + 1>>, <<n, n + 2, n + 1>>}

\* A line of one to three words; its first word starts the round.
PlaintextLine(n, words, kinds) ==
  LET start == Drained(PlaintextWindow(LookedBack(d)))
      first == PlaintextWord(start, n, words[1], kinds[1])
      second == PlaintextWord(first, n + 1, words[2], kinds[2])
      third == PlaintextWord(second, n + 2, words[3], kinds[3])
  IN  /\ d' = CASE Len(words) = 1 -> first
                 [] Len(words) = 2 -> second
                 [] Len(words) = 3 -> third
      /\ DueFrom(d')

-----------------------------------------------------------------------------
(* fst_applicator.rs: analysis lines of one cohort follow each other; any  *)
(* other line, a blank one above all, ends the cohort.                     *)

\* An analysis line starts a cohort or, with one pending, adds a reading to
\* it (whatever its wordform).
FstLine(n, kinds) ==
  LET open == IF d.cSw = NoWin
              THEN [Opened(d) EXCEPT !.lookback = FALSE] ELSE d IN
  /\ d' = IF d.cCoh.id # 0
          THEN [d EXCEPT !.cCoh.ids = Append(@, n), !.cCoh.kinds = @ \cup kinds]
          ELSE [open EXCEPT !.cCoh = CohortOf(n, kinds), !.lCoh = n]
  /\ DueFrom(d')

\* The soft break, then the hard one; the cohort stays the last one read.
FstBreaks(x) ==
  IF x.cCoh.id # 0 /\ x.cSw # NoWin
     /\ \/ Reached(x, SoftLimit) /\ Is(x.cCoh, "soft")
        \/ Reached(x, HardLimit)
        \/ Is(x.cCoh, "hard")
  THEN [PendingEnds(x) EXCEPT !.lSw = x.cSw, !.lCoh = x.cCoh.id,
                              !.cSw = NoWin, !.lookback = FALSE]
  ELSE x

\* MUTANT of FstWindow: the cohort that closed the window before stays pending.
FstWindowKeepsPending(x) ==
  IF x.cSw = NoWin
  THEN LET new == Opened(x) IN
       [new EXCEPT !.lCoh = -new.cSw, !.lookback = FALSE]
  ELSE x

FstWindow(x) ==
  IF x.cSw = NoWin
  THEN LET new == Opened(x) IN
       [new EXCEPT !.lCoh = -new.cSw, !.cCoh = NoCohort, !.lookback = FALSE]
  ELSE x

\* istext: what every line that is no analysis does before its text is kept.
FstIsText(x) ==
  LET open == FstWindow(FstBreaks(LookedBack(x)))
      placed == IF open.cCoh.id = 0 THEN open
                ELSE [Appended(open, open.cSw, open.cCoh)
                        EXCEPT !.lCoh = open.cCoh.id]
  IN  [Drained(placed) EXCEPT !.cCoh = NoCohort]

-----------------------------------------------------------------------------
(* matxin_applicator.rs: a cohort is pending until the next ^.             *)

MatxinClosed(x) ==
  [PendingEnds(x) EXCEPT !.lSw = x.cSw, !.cSw = NoWin, !.cCoh = NoCohort]

MatxinBreaks(x) ==
  IF x.cCoh.id # 0 /\ x.cSw # NoWin
     /\ \/ Reached(x, SoftLimit) /\ Is(x.cCoh, "soft")
        \/ Reached(x, HardLimit)
        \/ Is(x.cCoh, "hard")
  THEN MatxinClosed(x) ELSE x

\* The first window takes the blanks read before any cohort.
MatxinWindow(x) ==
  IF x.cSw = NoWin
  THEN LET new == Opened(x) IN
       [new EXCEPT !.win[new.cSw].text = x.blank, !.blank = <<>>,
                   !.cCoh = NoCohort]
  ELSE x

\* A lexical unit.
MatxinUnit(n, kinds) ==
  LET placed == PendingAppended(MatxinWindow(MatxinBreaks(d))) IN
  /\ d' = [Drained(placed) EXCEPT !.cCoh = CohortOf(n, kinds)]
  /\ DueFrom(d')

MatxinBlank(n) ==
  d' = CASE d.cCoh.id # 0 -> [d EXCEPT !.cCoh.text = Append(@, n)]
         [] d.cCoh.id = 0 /\ d.lSw # NoWin -> TextBefore(d, d.lSw, <<n>>)
         [] OTHER -> [d EXCEPT !.blank = Append(@, n)]

\* End of input: the blanks that found no window, then the pending cohort.
MatxinEnd(x) ==
  LET blank == [x EXCEPT !.out = @ \o x.blank, !.blank = <<>>] IN
  IF x.cCoh.id # 0 /\ x.cSw # NoWin
  THEN [PendingEnds(blank) EXCEPT !.cCoh = NoCohort] ELSE blank

-----------------------------------------------------------------------------
(* jsonl_applicator.rs: a cohort is appended at once, and a delimiter runs *)
(* the window without waiting for the ones after it.                       *)

\* A window takes the variable changes read since the window before it.
WithVariables(x) ==
  [x EXCEPT !.win[x.cSw].set = x.set, !.win[x.cSw].rem = x.rem,
            !.set = NoVar, !.rem = FALSE]

JsonlWindow(x) ==
  IF x.cSw = NoWin THEN WithVariables(Opened(x)) ELSE x

\* The cohort just appended breaks the window, softly or hard.
LastBreaks(x) ==
  LET c == Last(x.win[x.cSw].cohorts) IN
  \/ Reached(x, SoftLimit) /\ Is(c, "soft")
  \/ Reached(x, HardLimit)
  \/ Is(c, "hard")

JsonlCohort(n, kinds) ==
  LET open == JsonlWindow(d)
      has == [Appended(open, open.cSw, CohortOf(n, kinds)) EXCEPT !.lCoh = n]
      closed == IF LastBreaks(has)
                THEN [EndedLast(has, has.cSw) EXCEPT !.cSw = NoWin] ELSE has
  IN  /\ d' = IF closed.cSw = NoWin \/ Len(closed.next) > NumWindows
              THEN RunCurrent(ShuffledDown(closed)) ELSE closed
      /\ DueFrom(d')

\* WindowStream::back.
Back(x) == IF Buffered(x) = <<>> THEN NoWin ELSE Last(Buffered(x))

Marked(x, n) ==
  IF Back(x) = NoWin THEN x ELSE [x EXCEPT !.win[Back(x)].flush = <<n>>]

CommandItself(x, before, n) ==
  IF Back(before) = NoWin THEN [x EXCEPT !.out = Append(@, n)] ELSE x

\* FLUSH: everything buffered is run and written, the command after it.  The
\* changes read since the last window stay for the next one.
JsonlFlush(n) ==
  LET ends == IF d.cSw # NoWin /\ Last(d.win[d.cSw].cohorts).id = d.lCoh
              THEN EndedLast(Marked(d, n), d.cSw) ELSE Marked(d, n)
      left == [ends EXCEPT !.lCoh = 0, !.cSw = NoWin, !.lSw = NoWin]
  IN  d' = [CommandItself(PrintedAll(RanAll(left)), d, n) EXCEPT !.globals = NoVar]

\* SETVAR and REMVAR of one variable: each takes back the other.
JsonlSetvar(n) == d' = [d EXCEPT !.set = n, !.rem = FALSE]
JsonlRemvar == d' = [d EXCEPT !.set = NoVar, !.rem = TRUE]

\* MUTANT of JsonlEnd: the windows that still wait are not run.
JsonlEndRunsCurrent(x) ==
  LET ended == IF x.cSw # NoWin THEN EndedLast(x, x.cSw) ELSE x
  IN  IF ended.cur # NoWin THEN RunCurrent(ended) ELSE ended

\* End of input; the last window is run once more while it is current.
JsonlEnd(x) ==
  LET ended == IF x.cSw # NoWin THEN EndedLast(x, x.cSw) ELSE x
      ran == RanAll(ended)
  IN  IF ran.cur # NoWin THEN RunCurrent(ran) ELSE ran

-----------------------------------------------------------------------------
(* apertium_applicator.rs: blanks pile up until the next lexical unit, and *)
(* a unit is appended at once.                                             *)

\* The blank before a unit: after the last cohort, before the last window, or
\* into the window this unit opens.
ApertiumBlankPlaced(x) ==
  IF x.lCoh = 0 /\ x.lSw = NoWin THEN x
  ELSE [PlacedText(x, x.blank) EXCEPT !.blank = <<>>]

\* ensure_endtag.
EndEnsured(x) == IF x.lSw = NoWin THEN x ELSE EndedLast(x, x.lSw)

ApertiumWindow(x) ==
  IF x.cSw = NoWin
  THEN LET new == WithVariables(Opened(EndEnsured(x))) IN
       [new EXCEPT !.win[new.cSw].text = x.blank, !.blank = <<>>]
  ELSE x

\* A lexical unit ^...$.
ApertiumUnit(n, kinds) ==
  LET open == ApertiumWindow(ApertiumBlankPlaced(d))
      has == [Appended(open, open.cSw, CohortOf(n, kinds)) EXCEPT !.lCoh = n]
      closed == IF LastBreaks(has)
                THEN [EndedLast(has, has.cSw) EXCEPT !.lSw = has.cSw, !.cSw = NoWin]
                ELSE has
  IN  /\ d' = IF closed.cSw = NoWin THEN Drained(closed) ELSE closed
      /\ DueFrom(d')

\* MUTANT of ApertiumFlush: the pending variables survive.
ApertiumFlushKeepsChanges(x, n) ==
  LET marked == IF n = <<>> THEN EndEnsured(x) ELSE Marked(EndEnsured(x), n[1])
      placed == [PlacedText(marked, x.blank) EXCEPT !.blank = <<>>]
      printed == PrintedAll(RanAll(placed))
      said == IF n = <<>> THEN printed ELSE CommandItself(printed, x, n[1])
  IN  [said EXCEPT !.lSw = NoWin, !.lCoh = 0, !.cSw = NoWin, !.globals = NoVar]

\* flush(n): at a NUL in the input (n holds its item) and at the end (n empty).
ApertiumFlush(x, n) ==
  LET marked == IF n = <<>> THEN EndEnsured(x) ELSE Marked(EndEnsured(x), n[1])
      placed == [PlacedText(marked, x.blank) EXCEPT !.blank = <<>>]
      printed == PrintedAll(RanAll(placed))
      said == IF n = <<>> THEN printed ELSE CommandItself(printed, x, n[1])
  IN  [said EXCEPT !.lSw = NoWin, !.lCoh = 0, !.cSw = NoWin, !.set = NoVar,
                   !.rem = FALSE, !.globals = NoVar]

\* A [<STREAMCMD:SETVAR:v>] (bare) or [<STREAMCMD:SETVAR:v=x>] blank.  A value
\* already pending stays, and the bare form, read while no window is open, is
\* global at once.  A command that follows another blank is text (ReadText).
ApertiumSetvar(n, bare) ==
  /\ d.blank = <<>>
  /\ d' = [d EXCEPT !.set = IF @ = NoVar THEN n ELSE @, !.rem = FALSE,
                    !.blank = Append(@, n),
                    !.globals = IF bare /\ d.cSw = NoWin /\ @ = NoVar
                                THEN n ELSE @]

\* The windows that wait with no change of the variable in them or before them
\* see what became global at once.
DueAtOnce(n) ==
  LET Unchanged(w) == \A v \in 1..w : d.win[v].runs = 0 =>
                        d.win[v].set = NoVar /\ ~d.win[v].rem
  IN  due' = IF d.globals = d'.globals THEN due
             ELSE [w \in DOMAIN due |->
                     IF d.win[w].runs = 0 /\ Unchanged(w) THEN due[w] \cup {n}
                     ELSE due[w]]

ApertiumRemvar(n) ==
  /\ d.blank = <<>>
  /\ d' = [d EXCEPT !.set = NoVar, !.rem = TRUE, !.blank = Append(@, n)]

-----------------------------------------------------------------------------
(* binary_applicator.rs: a packet holds a whole window.                    *)

\* read_window, which takes the cohorts of the packet as they are and looks at
\* no delimiter or limit; then a waiting window may run.
BinaryWindow(n, kinds, changes) ==
  LET new == Opened(d)
      w == new.cSw
      one == Appended(new, w, CohortOf(n, kinds[1]))
      two == Appended(one, w, CohortOf(n + 1, kinds[2]))
      has == CASE Len(kinds) = 0 -> new
               [] Len(kinds) = 1 -> EndedLast(one, w)
               [] Len(kinds) = 2 -> EndedLast(two, w)
      told == [has EXCEPT !.win[w].set = IF changes = "set" THEN n ELSE NoVar,
                          !.win[w].rem = changes = "rem",
                          !.cSw = NoWin, !.lSw = NoWin]
  IN  d' = Drained(told)

\* flush(flush_after): a FLUSH packet clears no variable.
BinaryFlush(x, n) ==
  IF n = <<>> THEN PrintedAll(RanAll(x))
  ELSE CommandItself(PrintedAll(RanAll(Marked(x, n[1]))), x, n[1])

-----------------------------------------------------------------------------
Init ==
  /\ format \in Formats
  /\ d = Fresh(format # "matxin")
  /\ fed = <<>>
  /\ varsRead = NoVar
  /\ due = <<>>
  /\ read = 0
  /\ phase = "reading"

\* A further item for one of these readers.
Item(formats) ==
  /\ phase = "reading"
  /\ format \in formats
  /\ read < MaxItems
  /\ read' = read + 1
  /\ UNCHANGED <<format, phase>>

New == read + 1

\* A cohort, for the readers that take one per line or unit.
ReadCohort ==
  /\ Item(FormatNames \ {"binary", "plaintext"})
  /\ ~d.ignoring
  /\ \E kinds \in Kinds :
       \/ format = "niceline" /\ NicelineToken(New, kinds)
       \/ format = "fst" /\ FstLine(New, kinds)
       \/ format = "matxin" /\ MatxinUnit(New, kinds)
       \/ format = "jsonl" /\ JsonlCohort(New, kinds)
       \/ format = "apertium" /\ ApertiumUnit(New, kinds)
  /\ Keep(New)
  /\ UNCHANGED varsRead

\* A line of plain text, of at most three words.
ReadWords ==
  /\ phase = "reading" /\ format = "plaintext"
  /\ \E words \in PlaintextCut(New) : \E kinds \in [1..Len(words) -> Kinds] :
       /\ read + Len(words) <= MaxItems
       /\ PlaintextLine(New, words, kinds)
       /\ read' = read + Len(words)
       /\ fed' = fed \o words
  /\ UNCHANGED <<format, phase, varsRead>>

\* Text that is no cohort.  A text packet of the binary stream is printed at
\* once: it comes out before the windows that still wait.
ReadText ==
  /\ Item(FormatNames)
  /\ ~d.ignoring
  /\ \/ format \in {"niceline", "plaintext", "jsonl"} /\ d' = PlacedText(d, <<New>>)
     \/ format = "fst" /\ d' = PlacedText(FstIsText(d), <<New>>)
     \/ format = "matxin" /\ MatxinBlank(New)
     \/ format = "apertium" /\ d' = [d EXCEPT !.blank = Append(@, New)]
     \/ format = "binary" /\ d' = [d EXCEPT !.out = Append(@, New)]
  /\ IF format = "binary" THEN fed' = InsertAt(fed, Len(d.out) + 1, New)
     ELSE Keep(New)
  /\ DueFrom(d')
  /\ UNCHANGED varsRead

\* The blank line that ends an FST cohort.
ReadBlankLine ==
  /\ Item({"fst"})
  /\ d' = FstIsText(d)
  /\ DueFrom(d')
  /\ UNCHANGED <<fed, varsRead>>

\* A window packet of at most two cohorts, which may change the variable; a
\* packet without cohorts takes a number all the same.
ReadPacket ==
  /\ phase = "reading" /\ format = "binary"
  /\ \E size \in 0..2, changes \in {"none", "set", "rem"} :
     \E kinds \in [1..size -> Kinds] :
       /\ read' = read + (IF size = 2 THEN 2 ELSE 1) /\ read' <= MaxItems
       /\ BinaryWindow(New, kinds, changes)
       /\ fed' = fed \o [k \in 1..size |-> read + k]
       /\ varsRead' = CASE changes = "none" -> varsRead
                        [] changes = "set" -> New
                        [] changes = "rem" -> NoVar
  /\ due' = Append(due, {varsRead'})
  /\ UNCHANGED <<format, phase>>

ReadSetvar ==
  /\ Item({"jsonl", "apertium"})
  /\ \/ /\ format = "jsonl" /\ JsonlSetvar(New)
        /\ varsRead' = New /\ UNCHANGED <<fed, due>>
     \/ /\ format = "apertium" /\ \E bare \in BOOLEAN : ApertiumSetvar(New, bare)
        /\ varsRead' = IF d.set = NoVar THEN New ELSE varsRead
        /\ Keep(New) /\ DueAtOnce(New)

ReadRemvar ==
  /\ Item({"jsonl", "apertium"})
  /\ \/ format = "jsonl" /\ JsonlRemvar /\ UNCHANGED fed
     \/ format = "apertium" /\ ApertiumRemvar(New) /\ Keep(New)
  /\ varsRead' = NoVar
  /\ UNCHANGED due

\* FLUSH, or the NUL that stands for it.
ReadFlush ==
  /\ Item({"jsonl", "apertium", "binary"})
  /\ \/ format = "jsonl" /\ JsonlFlush(New) /\ varsRead' = d.set
     \/ format = "apertium" /\ d' = ApertiumFlush(d, <<New>>) /\ varsRead' = NoVar
     \/ format = "binary" /\ d' = BinaryFlush(d, <<New>>) /\ UNCHANGED varsRead
  /\ Keep(New)
  /\ UNCHANGED due

\* IGNORE and RESUME; what comes in between is echoed or dropped at once.
ReadIgnore ==
  /\ Item({"jsonl"})
  /\ d' = [d EXCEPT !.ignoring = ~@]
  /\ UNCHANGED <<fed, varsRead, due>>

\* EXIT, or a $ without its ^: the reader returns, and what it buffered stays.
ReadExit ==
  /\ phase = "reading"
  /\ format \in {"jsonl", "binary", "apertium"}
  /\ phase' = "left"
  /\ UNCHANGED <<format, d, fed, varsRead, due, read>>

\* The end of the input.
End ==
  /\ phase = "reading"
  /\ phase' = "ended"
  /\ d' = CASE format = "niceline" -> PrintedAll(RanAll(NicelineEnd(d)))
            [] format = "plaintext" -> PrintedAll(RanAll(d))
            [] format = "fst" -> PrintedAll(RanAll(FstIsText(d)))
            [] format = "matxin" -> PrintedAll(RanAll(MatxinEnd(d)))
            [] format = "jsonl" -> PrintedAll(JsonlEnd(d))
            [] format = "apertium" -> ApertiumFlush(d, <<>>)
            [] format = "binary" -> BinaryFlush(d, <<>>)
  /\ DueFrom(d')
  /\ UNCHANGED <<format, fed, varsRead, read>>

Finished == phase # "reading" /\ UNCHANGED vars

Next ==
  \/ ReadCohort \/ ReadWords \/ ReadText \/ ReadBlankLine \/ ReadPacket
  \/ ReadSetvar \/ ReadRemvar \/ ReadFlush \/ ReadIgnore \/ ReadExit
  \/ End \/ Finished

Spec == Init /\ [][Next]_vars

-----------------------------------------------------------------------------
\* At any moment, what was written, followed by what the windows, the pending
\* cohort and the pending blanks hold, is the input in the order it has to come
\* out: no reader loses, doubles or reorders a cohort, a text or a flush, and
\* none writes into a window that was already printed.  That order is the order
\* of the input, with two exceptions: the punctuation marks that end a word of
\* plain text come out from the last to the first, and a text packet of the
\* binary stream before every window that has not been printed yet.
InputInOrder ==
  d.out \o FlattenSeq([i \in DOMAIN Buffered(d) |-> WindowItems(d, Buffered(d)[i])])
    \o d.cCoh.ids \o d.cCoh.text \o d.blank = fed

\* Within a window only its last cohort matches the delimiters or, past the
\* soft limit, the soft delimiters, and no window outgrows the hard limit.
\* (The plain text reader only splits at soft delimiters it looks back for, and
\* the binary reader takes the windows as they come.)
EndsAtDelimiters(w) ==
  format \notin {"plaintext", "binary"} =>
    /\ Count(d, w) <= HardLimit + 1
    /\ \A k \in 1..(Count(d, w) - 1) :
         ~Is(d.win[w].cohorts[k], "hard") /\ (k > SoftLimit => ~Is(d.win[w].cohorts[k], "soft"))

\* The last cohort of a closed window carries <<<, and no other one does; at
\* the end of the input the window being filled is closed too, except that
\* the plain text and FST readers leave it without the tag.  A packet without
\* cohorts has none to carry it.
EndIsMarked(w) ==
  /\ \A k \in 1..(Count(d, w) - 1) : ~d.win[w].cohorts[k].ended
  /\ \/ w # d.cSw
     \/ phase = "ended" /\ format \notin {"plaintext", "fst"}
     => \/ d.win[w].cohorts[Count(d, w)].ended
        \/ format = "binary" /\ Count(d, w) = 1

\* The input is cut into windows where it should be, and the rules run once on
\* every window, when all its cohorts are in it and not before.  (The JSON
\* lines reader runs the last window of its input twice.)
RunOnceWhole ==
  \A w \in DOMAIN d.win :
    /\ EndsAtDelimiters(w) /\ EndIsMarked(w)
    /\ IF \E i \in DOMAIN d.next : d.next[i] = w THEN d.win[w].runs = 0
       ELSE /\ d.win[w].runs \in
                 (IF format = "jsonl" /\ phase = "ended" /\ w = Len(d.win)
                  THEN {1, 2} ELSE {1})
            /\ d.win[w].ranWith = Len(d.win[w].cohorts)

\* The rules of a window see the variable as the commands before the window
\* left it, however long the window waits for its turn.  Two exceptions, both
\* of Apertium input: of several SETVARs before a window the first one counts,
\* and a bare SETVAR between two windows may reach windows before it that wait
\* (DueAtOnce).
VariablesOnTime ==
  \A w \in DOMAIN d.win : d.win[w].runs > 0 => d.win[w].saw \in due[w]

=============================================================================
