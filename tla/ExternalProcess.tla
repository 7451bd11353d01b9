-------------------------- MODULE ExternalProcess --------------------------
(***************************************************************************)
(* EXTERNAL rules: a window is written to a child process over a pipe, the *)
(* child answers over another one, and the answer is applied to the window *)
(* the rules go on with (dispatch.rs, core.rs pipe_out_*, pipe_in_*,       *)
(* process.rs).  Both pipes hold Capacity fields, the child may die        *)
(* between any two of them, and a read past the end of its output gives    *)
(* zeroes.                                                                 *)
(*                                                                         *)
(* A field is a number: a count, a number of a cohort or window, flags, or *)
(* a text, of which 0 is the empty one.  Lengths are counted in fields.    *)
(***************************************************************************)
EXTENDS Integers, Sequences, SequencesExt

CONSTANTS
  Document,    \* the windows: [num, cohorts]
  DepTags,     \* the texts that are dependency tags
  HasDep,      \* doc.deps.has_dep
  Rounds,      \* the passes the rules make over a window
  Once,        \* the rule is EXTERNAL ONCE
  Capacity,    \* the fields a pipe holds
  Answers,     \* the kinds of answers the child gives
  MayDie       \* the child may die

ASSUME CapacityAssumption == Capacity \in Nat \ {0}
ASSUME RoundsAssumption == Rounds \in Nat \ {0}

NoParent == -1                    \* dep_parent None
DepNoParent == 94                 \* DEP_NO_PARENT (u32::MAX), which says so on the wire
Protocol == 7226                  \* CG3_EXTERNAL_PROTOCOL
Nothing  == 0                     \* an empty text, an absent baseform
NewTag   == 90                    \* what an answer adds
NewWord  == 91
NewBase  == 92
NewText  == 93

VARIABLES
  wins,        \* the windows
  cur,         \* the window the rules are on
  round,       \* the pass over it
  hit,         \* the windows whose hit_external holds the rule
  pc,          \* what the engine does
  sent,        \* the window as it was written
  out,         \* fields still to write
  got,         \* fields read of the answer
  toChild, fromChild,   \* the pipes
  child,       \* [life, heard, say]
  said         \* what the child meant by its answer to each window

engineVars == <<wins, cur, round, hit, pc, sent, out, got>>
vars == <<engineVars, toChild, fromChild, child, said>>

Bit(flags, b) == (flags \div b) % 2 = 1
Modified == 1   \* of a reading           Text == 1 of a cohort
NoPrint  == 2   \*                        Parent == 2
Deleted  == 4
HasBase  == 8

Flag(cond, b) == IF cond THEN b ELSE 0
Optional(cond, x) == IF cond THEN <<x>> ELSE << >>
Sized(s) == <<Len(s)>> \o s

(***************************************************************************)
(* What is written.                                                        *)
(***************************************************************************)
SentTags(c, r) == SelectSeq(r.tags, LAMBDA t :
  t # r.base /\ t # c.word /\ ~(HasDep /\ t \in DepTags))

PipeOutReading(c, r) ==
  Sized(<<Flag(r.noprint, NoPrint) + Flag(r.deleted, Deleted) + Flag(r.base # Nothing, HasBase)>>
        \o Optional(r.base # Nothing, r.base)
        \o Sized(SentTags(c, r)))

PipeOutCohort(c) ==
  LET parent == HasDep /\ c.parent # NoParent
  IN Sized(<<c.num, Flag(c.text # Nothing, 1) + Flag(parent, 2)>>
           \o Optional(parent, c.parent)
           \o <<c.word, Len(c.readings)>>
           \o FlattenSeq([i \in DOMAIN c.readings |-> PipeOutReading(c, c.readings[i])])
           \o Optional(c.text # Nothing, c.text))

PipeOutSingleWindow(w) ==
  Sized(<<w.num, Len(w.cohorts)>>
        \o FlattenSeq([i \in DOMAIN w.cohorts |-> PipeOutCohort(w.cohorts[i])]))

(***************************************************************************)
(* What is read: the fields of an answer, a field past its end being 0.    *)
(* Reading stops at a number that is not the expected one (RunError), and  *)
(* `end' is the last field looked at.                                      *)
(***************************************************************************)
FieldAt(in, p) == IF p \in DOMAIN in THEN in[p] ELSE 0

WireReading(in, p) ==
  LET size    == FieldAt(in, p)
      At(k)   == IF k < size THEN FieldAt(in, p + 1 + k) ELSE 0
      based   == Bit(At(0), HasBase)
      start   == IF based THEN 2 ELSE 1
  IN [flags |-> At(0), base |-> IF based THEN At(1) ELSE Nothing,
      tags |-> [k \in 1 .. At(start) |-> At(start + k)], end |-> p + size]

WireReadings(in, p, n) ==
  LET starts[k \in 1 .. n + 1] ==       \* the last one is where the list has ended
        IF k = 1 THEN p ELSE LET q == starts[k - 1] IN q + FieldAt(in, q) + 1
  IN [list |-> [k \in 1 .. n |-> WireReading(in, starts[k])], end |-> starts[n + 1] - 1]

WireCohort(in, p, num) ==
  IF FieldAt(in, p + 1) # num THEN [ok |-> FALSE, end |-> p + 1]
  ELSE LET flags  == FieldAt(in, p + 2)
           q      == IF Bit(flags, 2) THEN p + 4 ELSE p + 3
           list   == WireReadings(in, q + 2, FieldAt(in, q + 1))
           texted == Bit(flags, 1)
       IN [ok |-> TRUE, num |-> num, flags |-> flags,
           parent |-> IF Bit(flags, 2) THEN FieldAt(in, p + 3) ELSE 0,
           word |-> FieldAt(in, q), readings |-> list.list,
           text |-> IF texted THEN FieldAt(in, list.end + 1) ELSE Nothing,
           end |-> IF texted THEN list.end + 1 ELSE list.end]

WireNext(before, in, num) ==
  IF ~before.ok THEN before
  ELSE LET c == WireCohort(in, before.end + 1, num)
       IN [ok |-> c.ok, end |-> c.end,
           cohorts |-> IF c.ok THEN Append(before.cohorts, c) ELSE before.cohorts]

WireWindow(in, w) ==
  LET upto[i \in Nat] ==    \* a set of one: TLC then evaluates what is read before once
        IF i = 0 THEN {[ok |-> TRUE, cohorts |-> << >>, end |-> 3]}
        ELSE {WireNext(before, in, w.cohorts[i].num) : before \in upto[i - 1]}
  IN IF FieldAt(in, 1) = 0 THEN [ok |-> TRUE, cohorts |-> << >>, end |-> 1]
     ELSE IF FieldAt(in, 2) # w.num THEN [ok |-> FALSE, cohorts |-> << >>, end |-> 2]
     ELSE CHOOSE s \in upto[FieldAt(in, 3)] : TRUE

(***************************************************************************)
(* An answer applied.  A reading is replaced when it is marked as modified *)
(* or when its cohort has another wordform now; reflow_reading rebuilds    *)
(* the rest of it from its tags.                                           *)
(***************************************************************************)
\* MUTANT of PipeInReading: a new wordform is not forced on the readings.
ForceForgotten(word, r, wr, force) ==
  IF ~Bit(wr.flags, Modified) THEN r
  ELSE [r EXCEPT !.noprint = Bit(wr.flags, NoPrint), !.deleted = Bit(wr.flags, Deleted),
                 !.base = wr.base,
                 !.tags = <<word>> \o Optional(wr.base # Nothing, wr.base) \o wr.tags]

PipeInReading(word, r, wr, force) ==
  IF ~force /\ ~Bit(wr.flags, Modified) THEN r
  ELSE [r EXCEPT !.noprint = Bit(wr.flags, NoPrint), !.deleted = Bit(wr.flags, Deleted),
                 !.base = wr.base,
                 !.tags = <<word>> \o Optional(wr.base # Nothing, wr.base) \o wr.tags]

PipeInCohort(c, wc) ==
  [c EXCEPT !.parent = IF ~Bit(wc.flags, 2) THEN @
                       ELSE IF wc.parent = DepNoParent THEN NoParent ELSE wc.parent,
            !.word = wc.word,
            !.readings = [j \in DOMAIN @ |->
                IF j \in DOMAIN wc.readings
                THEN PipeInReading(wc.word, @[j], wc.readings[j], wc.word # c.word)
                ELSE @[j]],
            !.text = IF Bit(wc.flags, 1) THEN wc.text ELSE @]

PipeInSingleWindow(w, in) ==
  LET cs == WireWindow(in, w).cohorts
  IN [w EXCEPT !.cohorts = [i \in DOMAIN @ |->
        IF i \in DOMAIN cs THEN PipeInCohort(@[i], cs[i]) ELSE @[i]]]

(***************************************************************************)
(* The child, which is not part of the program: it reads a whole window,   *)
(* decodes it, changes what it wants to, and answers.                      *)
(***************************************************************************)
WroteReading(wr) ==
  Sized(<<wr.flags>> \o Optional(Bit(wr.flags, HasBase), wr.base) \o Sized(wr.tags))

WroteCohort(wc) ==
  Sized(<<wc.num, wc.flags>> \o Optional(Bit(wc.flags, 2), wc.parent)
        \o <<wc.word, Len(wc.readings)>>
        \o FlattenSeq([j \in DOMAIN wc.readings |-> WroteReading(wc.readings[j])])
        \o Optional(Bit(wc.flags, 1), wc.text))

WroteWindow(num, wcs) ==
  Sized(<<num, Len(wcs)>> \o FlattenSeq([i \in DOMAIN wcs |-> WroteCohort(wcs[i])]))

With(flags, b) == IF Bit(flags, b) THEN flags ELSE flags + b
Without(flags, b) == IF Bit(flags, b) THEN flags - b ELSE flags

\* Every reading is sent back; the first one of the first cohort is the one
\* that is changed.
EditedReading(wr, kind) ==
  LET m == [wr EXCEPT !.flags = With(@, Modified)]
  IN CASE kind = "tag"    -> [m EXCEPT !.tags = Append(@, NewTag), !.flags = With(@, NoPrint)]
       [] kind = "debase" -> [m EXCEPT !.flags = Without(@, HasBase)]
       [] kind = "rebase" -> [m EXCEPT !.flags = With(@, HasBase), !.base = NewBase]
       [] OTHER -> wr

EditedCohort(wc, kind) ==
  CASE kind = "rename"   -> [wc EXCEPT !.word = NewWord]
    [] kind = "reparent" -> [wc EXCEPT !.flags = With(With(@, 2), 1), !.parent = 0,
                                       !.text = NewText]
    [] kind = "orphan"   -> [wc EXCEPT !.flags = With(@, 2), !.parent = DepNoParent]
    [] kind = "wrong"    -> [wc EXCEPT !.num = @ + 1]
    [] OTHER -> [wc EXCEPT !.readings[1] = EditedReading(@, kind)]

ChildAnswer(heard, w, kind) ==
  LET wcs  == WireWindow(heard, w).cohorts
      full == WroteWindow(w.num, [wcs EXCEPT ![1] = EditedCohort(@, kind)])
  IN CASE kind = "null"   -> <<0>>
       [] kind = "fewer"  -> WroteWindow(w.num, Front(wcs))
       [] kind = "other"  -> WroteWindow(w.num + 1, wcs)
       [] kind = "chatty" -> full \o <<0>>
       [] OTHER -> full

(***************************************************************************)
(* The system.                                                             *)
(***************************************************************************)
Idle == [life |-> "none", heard |-> << >>, say |-> << >>]

Init ==
  /\ wins = Document /\ cur = 1 /\ round = 1 /\ hit = {}
  /\ pc = "ready" /\ sent = Document[1] /\ out = << >> /\ got = << >>
  /\ toChild = << >> /\ fromChild = << >>
  /\ child = Idle /\ said = [w \in 1 .. Len(Document) |-> "none"]

\* The rules are done with this pass over the window: what the next one is.
NextRound ==
  IF round < Rounds
  THEN round' = round + 1 /\ UNCHANGED cur /\ pc' = "ready"
  ELSE /\ round' = 1
       /\ cur' = IF cur < Len(wins) THEN cur + 1 ELSE cur
       /\ pc' = IF cur < Len(wins) THEN "ready" ELSE "finished"

\* EXTERNAL ONCE was already run on this window.
Skip ==
  /\ pc = "ready" /\ Once /\ cur \in hit
  /\ NextRound
  /\ UNCHANGED <<wins, hit, sent, out, got, toChild, fromChild, child, said>>

\* The first time, the child is started and told the protocol.
Start ==
  /\ pc = "ready" /\ child.life = "none"
  /\ \/ child' = [child EXCEPT !.life = "alive"] /\ toChild' = <<Protocol>> /\ UNCHANGED pc
     \/ MayDie /\ pc' = "stopped" /\ UNCHANGED <<child, toChild>>
  /\ UNCHANGED <<wins, cur, round, hit, sent, out, got, fromChild, said>>

Send ==
  /\ pc = "ready" /\ child.life # "none" /\ ~(Once /\ cur \in hit)
  /\ hit' = IF Once THEN hit \union {cur} ELSE hit
  /\ sent' = wins[cur] /\ out' = PipeOutSingleWindow(wins[cur]) /\ pc' = "writing"
  /\ UNCHANGED <<wins, cur, round, got, toChild, fromChild, child, said>>

\* The result of the write is dropped: a child that is gone is not noticed.
Write ==
  /\ pc = "writing"
  /\ \/ /\ child.life = "alive" /\ Len(toChild) < Capacity
        /\ toChild' = Append(toChild, Head(out)) /\ out' = Tail(out)
     \/ /\ child.life = "dead"
        /\ out' = << >> /\ UNCHANGED toChild
  /\ pc' = IF out' = << >> THEN "reading" ELSE pc
  /\ UNCHANGED <<wins, cur, round, hit, sent, got, fromChild, child, said>>

Fetch ==
  /\ pc = "reading" /\ fromChild # << >>
  /\ WireWindow(got, wins[cur]).end > Len(got)
  /\ got' = Append(got, Head(fromChild)) /\ fromChild' = Tail(fromChild)
  /\ UNCHANGED <<wins, cur, round, hit, pc, sent, out, toChild, child, said>>

Whole(answer, w) == WireWindow(answer, w).end <= Len(answer)

\* What is read is all there, or the pipe is closed and the rest of it is 0.
\* MUTANT of Answered: the end of the output is not taken for an answer.
WaitsForAll == Whole(got, wins[cur])

Answered == \/ Whole(got, wins[cur])
            \/ child.life = "dead" /\ fromChild = << >>

Take ==
  /\ pc = "reading" /\ Answered
  /\ got' = << >>
  /\ IF WireWindow(got, wins[cur]).ok
     THEN wins' = [wins EXCEPT ![cur] = PipeInSingleWindow(@, got)] /\ NextRound
     ELSE pc' = "stopped" /\ UNCHANGED <<wins, cur, round>>
  /\ UNCHANGED <<hit, sent, out, toChild, fromChild, child, said>>

ChildReads ==
  /\ child.life = "alive" /\ toChild # << >> /\ child.say = << >>
  /\ child' = [child EXCEPT !.heard = IF Head(toChild) = Protocol THEN @
                                      ELSE Append(@, Head(toChild))]
  /\ toChild' = Tail(toChild)
  /\ UNCHANGED <<engineVars, fromChild, said>>

ChildAnswers ==
  /\ child.life = "alive" /\ child.say = << >>
  /\ child.heard # << >> /\ Len(child.heard) = 1 + child.heard[1]
  /\ \E kind \in Answers, w \in DOMAIN Document :
       /\ Document[w].num = child.heard[2]
       /\ kind = "fewer" => Len(Document[w].cohorts) > 1
       /\ child' = [child EXCEPT !.heard = << >>,
                                 !.say = ChildAnswer(child.heard, Document[w], kind)]
       /\ said' = [said EXCEPT ![w] = kind]
  /\ UNCHANGED <<engineVars, toChild, fromChild>>

ChildWrites ==
  /\ child.life = "alive" /\ child.say # << >> /\ Len(fromChild) < Capacity
  /\ fromChild' = Append(fromChild, Head(child.say))
  /\ child' = [child EXCEPT !.say = Tail(@)]
  /\ UNCHANGED <<engineVars, toChild, said>>

ChildDies ==
  /\ MayDie /\ child.life = "alive" /\ pc \notin {"stopped", "finished"}
  /\ child' = [life |-> "dead", heard |-> << >>, say |-> << >>] /\ toChild' = << >>
  /\ UNCHANGED <<engineVars, fromChild, said>>

EngineStep == Skip \/ Start \/ Send \/ Write \/ Fetch \/ Take
ChildStep == ChildReads \/ ChildAnswers \/ ChildWrites
Stopped == pc \in {"stopped", "finished"} /\ ~ENABLED ChildStep /\ UNCHANGED vars

Next == EngineStep \/ ChildStep \/ ChildDies \/ Stopped

\* Both are processes of their own, which the system runs.
Spec == Init /\ [][Next]_vars /\ WF_vars(EngineStep) /\ WF_vars(ChildStep)

(***************************************************************************)
(* Properties.                                                             *)
(***************************************************************************)
\* What the child means by an answer, said of the window it was sent.
Meant(w, kind) ==
  LET Visible(c, r) == SentTags(c, r)
      Changed(c, word, r, k) ==
        LET base == IF k = "debase" THEN Nothing ELSE IF k = "rebase" THEN NewBase ELSE r.base
        IN [r EXCEPT !.base = base, !.noprint = @ \/ k = "tag",
                     !.tags = <<word>> \o Optional(base # Nothing, base) \o Visible(c, r)
                              \o Optional(k = "tag", NewTag)]
      first == w.cohorts[1]
      edited == CASE kind = "rename" ->
                       [first EXCEPT !.word = NewWord, !.readings =
                          [j \in DOMAIN @ |-> Changed(first, NewWord, @[j], kind)]]
                  [] kind = "reparent" -> [first EXCEPT !.parent = 0, !.text = NewText]
                  [] kind = "orphan"   -> [first EXCEPT !.parent = NoParent]
                  [] kind \in {"tag", "debase", "rebase"} ->
                       [first EXCEPT !.readings[1] = Changed(first, first.word, @, kind)]
                  [] OTHER -> first
  IN [w EXCEPT !.cohorts[1] = edited]

\* (core.rs 1244-1450) After an answer that came whole, the window is the one
\* that was sent with what the child meant to change and nothing else, whatever
\* the child answered to the windows before and however the fields lay in the
\* pipes; or it is still the one that was sent, when the answer is empty.
AnswerTaken ==
  [][(pc = "reading" /\ pc' # "reading" /\ Whole(got, wins[cur]) /\ pc' # "stopped")
     => wins'[cur] \in {sent, Meant(sent, said[cur])}
        /\ (Len(got) > 1 => wins'[cur] = Meant(sent, said[cur]))]_vars

\* (dispatch.rs 330-350) A window that is given to the child is got back, or
\* the run ends, however late the child answers, whichever pipe is full and
\* whenever the child dies.  It is promised of a child that reads a whole window
\* before it answers, as this one does, and that answers no more than it was
\* asked: one that writes while the engine still does may have both pipes full,
\* each waiting for the other.
Served == (pc = "writing" /\ \A w \in DOMAIN said : said[w] # "chatty")
          ~> (pc \in {"ready", "stopped", "finished"})
=============================================================================
