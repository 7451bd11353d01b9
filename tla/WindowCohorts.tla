---------------------------- MODULE WindowCohorts ----------------------------
(* The cohorts of one window while run_grammar_on_window runs the grammar on *)
(* it: enclosures are wrapped out of sight and unpacked one level per pass,  *)
(* rules restructure what is visible, ignored cohorts come back at the end.  *)
(* A cohort is a number; what it says is abstracted to whether its tags      *)
(* open or close a parenthesis pair.  DELIMIT cuts the window in two, and    *)
(* the model goes on with either half.                                      *)
EXTENDS Naturals, FiniteSets, SequencesExt

CONSTANTS
  Cases,            \* the grammars and the windows to run them on
  BeforeBegin,      \* whether a context may attach a COPYCOHORT BEFORE, a
                    \* MOVE REVERSE or a MERGECOHORTS to the >>> cohort
  EnclosedModulus,  \* `enclosed` is unsigned: 2^32 in the code
  MaxPass,          \* the endless-loop limit: 1000 in the code
  MaxEdits          \* bound: restructuring rules that fire on a window

Marks == {"word", "left", "right"}

ASSUME CohortsAssumption ==
  /\ \A case \in Cases :
       /\ case.shapes \subseteq Seq(Marks)
       /\ case.tracing \subseteq BOOLEAN /\ case.tracing # {}
       /\ case.subtree \in Nat \ {0}
  /\ BeforeBegin \in BOOLEAN
  /\ EnclosedModulus \in Nat \ {0, 1}
  /\ {MaxPass, MaxEdits} \subseteq Nat

VARIABLES
  all_cohorts,          \* every cohort of the window, in document order
  cohorts,              \* the visible ones, the list rules work on
  co,                   \* [type, enclosed, local_number, mark] of each cohort
  begin,                \* the initial >>> cohort
  has_enclosures,
  did_final_enclosure,
  par,                  \* scratch.par_left_tag .. par_right_pos
  pass,                 \* passes begun
  tracerule,            \* the rules ended with RV_TRACERULE
  sweep,                \* where rr_unpack_enclosures looks for an enclosure from
  pc,                   \* where run_grammar_on_window is
  edits,                \* restructuring rules fired so far
  grammar               \* the case at hand: the types of its restructuring
                        \* rules, whether tracing may end the rules, and a
                        \* bound on the cohorts a rule takes with its target

window == <<all_cohorts, cohorts, co>>
control == <<begin, has_enclosures, did_final_enclosure, par, pass, tracerule,
             sweep, pc>>
vars == <<window, control, edits, grammar>>

-----------------------------------------------------------------------------
(* Lists and flags.                                                        *)

NewRecord(mark) ==
  [type |-> {}, enclosed |-> 0, local_number |-> 0, mark |-> mark]

NoPar == [left_tag |-> FALSE, right_tag |-> FALSE, left_pos |-> 0, right_pos |-> 0]

PlaceIn(s, c) == CHOOSE i \in DOMAIN s : s[i] = c
\* Flagged CT_ENCLOSED, CT_REMOVED or CT_IGNORED.
Flagged(c) == co[c].type # {}
\* The place of a cohort in `cohorts`, as its local_number has it.
Local(c) == co[c].local_number + 1
FirstOf(S) == CHOOSE c \in S : \A d \in S : Local(c) <= Local(d)
LastOf(S) == CHOOSE c \in S : \A d \in S : Local(c) >= Local(d)

\* `s` without the elements at the positions P.
Without(s, P) ==
  LET kept[i \in 0 .. Len(s)] ==
        IF i = 0 THEN <<>> ELSE IF i \in P THEN kept[i - 1] ELSE Append(kept[i - 1], s[i])
  IN  kept[Len(s)]

\* The elements of `s` that are in S, and those that are not.
Only(s, S) == Without(s, {i \in DOMAIN s : s[i] \notin S})
Less(s, S) == Without(s, {i \in DOMAIN s : s[i] \in S})

\* `block` put into `s` before position i.
Inserted(s, i, block) == SubSeq(s, 1, i - 1) \o block \o SubSeq(s, i, Len(s))

\* local_number set to the place in `cs`, from position `from` on.
Renumbered(f, cs, from) ==
  [c \in DOMAIN f |->
     IF \E i \in from .. Len(cs) : cs[i] = c
     THEN [f[c] EXCEPT !.local_number =
             (CHOOSE i \in from .. Len(cs) :
                cs[i] = c /\ \A j \in i + 1 .. Len(cs) : cs[j] # c) - 1]
     ELSE f[c]]

WithFlag(f, S, flag) ==
  [c \in DOMAIN f |->
     IF c \in S THEN [f[c] EXCEPT !.type = @ \cup {flag}] ELSE f[c]]

Restricted(f, S) == [c \in S |-> f[c]]

Added(f, S, mark) ==
  [c \in DOMAIN f \cup S |-> IF c \in S THEN NewRecord(mark) ELSE f[c]]

Fresh == 1 + Max(DOMAIN co)

-----------------------------------------------------------------------------
Init ==
  \E case \in Cases : \E shape \in case.shapes :
    LET ids == 1 .. Len(shape) + 1 IN
    /\ all_cohorts = [i \in ids |-> i]
    /\ cohorts = all_cohorts
    /\ co = [i \in ids |->
               [NewRecord(IF i = 1 THEN "word" ELSE shape[i - 1])
                  EXCEPT !.local_number = i - 1]]
    /\ begin = 1
    /\ has_enclosures = FALSE /\ did_final_enclosure = FALSE
    /\ par = NoPar /\ pass = 0 /\ tracerule = FALSE /\ sweep = 1
    /\ pc = "wrap" /\ edits = 0
    /\ grammar = [rules |-> case.rules, tracing |-> case.tracing,
                   subtree |-> case.subtree]

-----------------------------------------------------------------------------
(* Wrapping.                                                               *)

Closing(l) == {r \in l .. Len(cohorts) : co[cohorts[r]].mark = "right"}
Openings ==
  {l \in DOMAIN cohorts : co[cohorts[l]].mark = "left" /\ Closing(l) # {}}

Deeper(span) ==
  [c \in DOMAIN co |->
     IF c \in span
     THEN [co[c] EXCEPT !.type = @ \cup {"enclosed"},
                        !.enclosed = (@ + 1) % EnclosedModulus]
     ELSE co[c]]

\* rr_wrap_one_enclosure: the last parenthesis that is closed leaves `cohorts`
\* with all it encloses; every cohort of all_cohorts in between gets deeper.
WrapEnclosure ==
  /\ pc = "wrap" /\ Openings # {}
  /\ LET l == Max(Openings)
         r == Min(Closing(l))
         first == PlaceIn(all_cohorts, cohorts[l])
         last == PlaceIn(all_cohorts, cohorts[r])
     IN  /\ cohorts' = Without(cohorts, l .. r)
         /\ co' = Renumbered(Deeper({all_cohorts[i] : i \in first .. last}),
                             cohorts', l)
  /\ has_enclosures' = TRUE
  /\ UNCHANGED <<all_cohorts, begin, did_final_enclosure, par, pass, tracerule,
                 sweep, pc, edits>>

Wrapped ==
  /\ pc = "wrap" /\ Openings = {}
  /\ par' = NoPar /\ pass' = 0
  /\ pc' = "pass"
  /\ UNCHANGED <<window, begin, has_enclosures, did_final_enclosure, tracerule,
                 sweep, edits>>

\* The head of rr_window_pass.
StartPass ==
  /\ pc = "pass"
  /\ pass' = pass + 1
  /\ pc' = IF pass' > MaxPass THEN "done" ELSE "rules"
  /\ UNCHANGED <<window, begin, has_enclosures, did_final_enclosure, par,
                 tracerule, sweep, edits>>

-----------------------------------------------------------------------------
(* Rules.  A rule has a target; contextual tests may attach it to any       *)
(* visible cohort.                                                         *)

\* run_single_rule skips the other cohorts.
Targets == {c \in ToSet(cohorts) : co[c].local_number # 0 /\ ~Flagged(c)}

\* collect_subtree: a head and some of its visible descendants.
Subtrees(head) ==
  LET others == (ToSet(cohorts) \ {begin}) \cup {head} IN
  {{head} \cup {f[i] : i \in 1 .. grammar.subtree - 1} :
     f \in [1 .. grammar.subtree - 1 -> others]}

Fires(rule) ==
  /\ pc = "rules" /\ rule \in grammar.rules /\ edits < MaxEdits
  /\ edits' = edits + 1

Rewritten == UNCHANGED control

\* rr_rem_cohort.
RemCohort ==
  /\ Fires("REMCOHORT")
  /\ \E c \in Targets :
       /\ cohorts' = Without(cohorts, {Local(c)})
       /\ co' = Renumbered(WithFlag(co, {c}, "removed"), cohorts', 1)
  /\ UNCHANGED all_cohorts /\ Rewritten

\* REMCOHORT IGNORED: rr_ignore_cohort on a subtree, then rr_reindex.
IgnoreSubtree ==
  /\ Fires("IGNORE")
  /\ \E c \in Targets : \E S \in Subtrees(c) :
       /\ cohorts' = Without(cohorts, {Local(d) : d \in S})
       /\ co' = Renumbered(WithFlag(co, S, "ignored"), cohorts', 1)
  /\ UNCHANGED all_cohorts /\ Rewritten

\* MUTANT of PutBefore: in all_cohorts the block goes after the anchor.
PutBeforeLate(S, block) ==
  /\ cohorts' = Inserted(cohorts, Local(FirstOf(S)), block)
  /\ all_cohorts' =
       Inserted(all_cohorts, PlaceIn(all_cohorts, FirstOf(S)) + 1, block)

\* New cohorts placed before the first or after the last cohort of S.
PutBefore(S, block) ==
  /\ cohorts' = Inserted(cohorts, Local(FirstOf(S)), block)
  /\ all_cohorts' = Inserted(all_cohorts, PlaceIn(all_cohorts, FirstOf(S)), block)

PutAfter(S, block) ==
  /\ cohorts' = Inserted(cohorts, Local(LastOf(S)) + 1, block)
  /\ all_cohorts' =
       Inserted(all_cohorts, PlaceIn(all_cohorts, LastOf(S)) + 1, block)

\* rr_addcohort.
AddCohort ==
  /\ Fires("ADDCOHORT")
  /\ \E c \in Targets : \E S \in Subtrees(c) :
       PutBefore(S, <<Fresh>>) \/ PutAfter(S, <<Fresh>>)
  /\ co' = Renumbered(Added(co, {Fresh}, "word"), cohorts', 1)
  /\ Rewritten

\* rr_copycohort: the copy goes next to the attached cohort, or, with REVERSE,
\* is one of the attached cohort and goes next to the target.
CopyCohort ==
  /\ Fires("COPYCOHORT")
  /\ \E c \in Targets : \E a \in ToSet(cohorts) \ {c} :
       \E from \in {c, a} : \E S \in Subtrees(IF from = c THEN a ELSE c) :
         /\ \/ /\ FirstOf(S) = begin => BeforeBegin
               /\ PutBefore(S, <<Fresh>>)
            \/ PutAfter(S, <<Fresh>>)
         /\ co' = Renumbered(Added(co, {Fresh}, co[from].mark), cohorts', 1)
  /\ Rewritten

\* The cohorts merged with c are those its contexts attach to.
Withs(c) ==
  Subtrees(c) \cup (IF BeforeBegin THEN {S \cup {begin} : S \in Subtrees(c)} ELSE {})

\* rr_mergecohorts: one cohort in place of several, put after the subtree of
\* one of the visible cohorts.
MergeCohorts ==
  /\ Fires("MERGECOHORTS")
  /\ \E c \in Targets : \E withs \in Withs(c) :
       \E at \in ToSet(cohorts) : \E S \in Subtrees(at) :
         LET more == Inserted(cohorts, Local(LastOf(S)) + 1, <<Fresh>>) IN
         /\ cohorts' = Less(more, withs)
         /\ all_cohorts' =
              Inserted(all_cohorts, PlaceIn(all_cohorts, LastOf(S)) + 1, <<Fresh>>)
         /\ co' = Renumbered(Added(WithFlag(co, withs, "removed"), {Fresh}, "word"),
                             cohorts', 1)
  /\ Rewritten

\* rr_splitcohort: n new cohorts in place of the target.
SplitCohort ==
  /\ Fires("SPLITCOHORT")
  /\ \E c \in Targets : \E n \in 1 .. 2 :
       LET block == [i \in 1 .. n |-> Fresh + i - 1] IN
       /\ cohorts' = Less(Inserted(cohorts, Local(c) + 1, block), {c})
       /\ all_cohorts' =
            Inserted(all_cohorts, PlaceIn(all_cohorts, c) + 1, block)
       /\ co' = Renumbered(Added(WithFlag(co, {c}, "removed"), ToSet(block), "word"),
                           cohorts', 1)
  /\ Rewritten

\* The position before the first cohort of `edges`, but never before >>>.
SpotBefore(rest, edges) ==
  IF PlaceIn(rest, FirstOf(edges)) = 1 THEN 2 ELSE PlaceIn(rest, FirstOf(edges))

\* The subtree S is taken out and put before position `spot` of what is left;
\* in all_cohorts, before the cohort it is put before, or at the very end.
MovedTo(S, rest, spot) ==
  LET block == Only(cohorts, S)
      others == Less(all_cohorts, S)
  IN  /\ cohorts' = Inserted(rest, spot, block)
      /\ all_cohorts' =
           Inserted(others,
                    IF spot <= Len(rest) THEN PlaceIn(others, rest[spot])
                    ELSE Len(others) + 1,
                    block)

\* MOVE: the subtree of the target goes before or after that of the attached
\* cohort; REVERSE exchanges the two.  Of two subtrees one of which holds the
\* other, the larger gives the cohorts of the smaller up: they are disjoint.
MoveCohort ==
  /\ Fires("MOVE")
  /\ \E c \in Targets : \E a \in ToSet(cohorts) \ {c} : \E mover \in {c, a} :
       \E S \in Subtrees(mover) :
         \E edges \in Subtrees(IF mover = c THEN a ELSE c) :
           LET rest == Without(cohorts, {Local(d) : d \in S}) IN
               /\ S \cap edges = {}
               /\ begin \in S => BeforeBegin
               /\ \/ MovedTo(S, rest, SpotBefore(rest, edges))
                  \/ MovedTo(S, rest, PlaceIn(rest, LastOf(edges)) + 1)
  /\ co' = Renumbered(co, cohorts', 1)
  /\ Rewritten

\* SWITCH: two cohorts change places.
Exchanged(s, c, a) ==
  [i \in DOMAIN s |-> IF s[i] = c THEN a ELSE IF s[i] = a THEN c ELSE s[i]]

SwitchCohorts ==
  /\ Fires("SWITCH")
  /\ \E c \in Targets : \E a \in ToSet(cohorts) \ {c} :
       /\ co[a].local_number # 0
       /\ cohorts' = Exchanged(cohorts, c, a)
       /\ all_cohorts' = Exchanged(all_cohorts, c, a)
  /\ co' = Renumbered(co, cohorts', 1)
  /\ Rewritten

\* delimit_at, seen from the first half: it starts another pass.
DelimitHead ==
  /\ Fires("DELIMIT")
  /\ \E c \in Targets :
       /\ Len(cohorts) > Local(c)
       /\ cohorts' = SubSeq(cohorts, 1, Local(c))
       /\ all_cohorts' = SubSeq(all_cohorts, 1, PlaceIn(all_cohorts, c))
  /\ co' = Restricted(co, ToSet(all_cohorts'))
  /\ pc' = "pass"
  /\ UNCHANGED <<begin, has_enclosures, did_final_enclosure, par, pass, tracerule,
                 sweep>>

\* The cohorts of the second half that append_cohort makes visible there.
Appended(tail) == Only(tail, {d \in DOMAIN co : ~Flagged(d)})

\* delimit_at, seen from the second half: it gets a >>> of its own, has the
\* hidden cohorts in all_cohorts only, and is run from the start later.
DelimitTail ==
  /\ Fires("DELIMIT")
  /\ \E c \in Targets :
       LET tail == SubSeq(all_cohorts, PlaceIn(all_cohorts, c) + 1, Len(all_cohorts))
       IN  /\ Len(cohorts) > Local(c)
           /\ all_cohorts' = <<Fresh>> \o tail
           /\ cohorts' = <<Fresh>> \o Appended(tail)
           /\ co' = Renumbered(Restricted(Added(co, {Fresh}, "word"),
                                          ToSet(all_cohorts')), cohorts', 1)
  /\ begin' = Fresh
  /\ did_final_enclosure' = FALSE /\ par' = NoPar /\ pass' = 0
  /\ pc' = "wrap"
  /\ UNCHANGED <<has_enclosures, tracerule, sweep>>

\* The sections ran to their end, or a rule under --trace ended them.
EndRules ==
  /\ pc = "rules"
  /\ tracerule' \in grammar.tracing
  /\ sweep' = 1
  /\ pc' = "unpack"
  /\ UNCHANGED <<window, begin, has_enclosures, did_final_enclosure, par, pass,
                 edits>>

-----------------------------------------------------------------------------
(* Unpacking.                                                              *)

\* What the scan for the next enclosure to show still finds.
Outermost ==
  {i \in sweep .. Len(all_cohorts) : co[all_cohorts[i]].enclosed = 1}

\* After an unpacking step another pass begins.  Under RV_TRACERULE there is no
\* pass: the scan of all_cohorts goes on from position `from`.
Again(from) ==
  /\ pc' = IF tracerule THEN "unpack" ELSE "pass"
  /\ sweep' = IF tracerule THEN from ELSE sweep

Level(c) == (co[c].enclosed + EnclosedModulus - 1) % EnclosedModulus

Shallower(run) ==
  [c \in DOMAIN co |->
     IF c \in run
     THEN [co[c] EXCEPT !.enclosed = Level(c),
                        !.type = IF Level(c) = 0 THEN @ \ {"enclosed"} ELSE @]
     ELSE co[c]]

\* MUTANT of EdgeTags: the left tag is taken from the visible cohort.
EdgeTagsOutside(la, ra) ==
  [left |-> co[all_cohorts[la]].mark = "left",
   right |-> co[all_cohorts[ra]].mark = "right"]

\* par_left_tag and par_right_tag: what the cohort after the visible one and
\* the last of the run say.
EdgeTags(la, ra) ==
  [left |-> co[all_cohorts[la + 1]].mark = "left",
   right |-> co[all_cohorts[ra]].mark = "right"]

\* The first enclosure that is one level deep, with all flagged cohorts that
\* follow it directly: each gets one level less deep, and those that are no
\* longer enclosed become visible after the visible cohort on their left.
ShowEnclosure ==
  /\ pc = "unpack" /\ has_enclosures /\ Outermost # {}
  /\ LET i == Min(Outermost)
         n == Len(all_cohorts)
         left == {k \in 1 .. i - 1 : ~Flagged(all_cohorts[k])}
         la == IF left = {} THEN 1 ELSE Max(left)
         stops == {k \in i .. n : ~Flagged(all_cohorts[k])}
         ra == IF stops = {} THEN n ELSE Min(stops) - 1
         shown == Only(SubSeq(all_cohorts, i, ra), {c \in DOMAIN co : Level(c) = 0})
         ni == co[all_cohorts[la]].local_number
     IN  /\ cohorts' = Inserted(cohorts, ni + 2, shown)
         /\ co' = Renumbered(Shallower({all_cohorts[k] : k \in i .. ra}),
                             cohorts', ni + 2)
         /\ par' = [left_tag |-> EdgeTags(la, ra).left,
                    right_tag |-> EdgeTags(la, ra).right,
                    left_pos |-> ni + 1,
                    right_pos |-> ni + Len(shown)]
         /\ Again(ra + 1)
  /\ UNCHANGED <<all_cohorts, begin, has_enclosures, did_final_enclosure, pass,
                 tracerule, edits>>

\* MUTANT of FinalPass: the pass is not remembered.
FinalPassForgotten ==
  /\ pc = "unpack" /\ has_enclosures /\ Outermost = {} /\ ~did_final_enclosure
  /\ par' = NoPar
  /\ Again(1)
  /\ UNCHANGED <<window, begin, has_enclosures, did_final_enclosure, pass,
                 tracerule, edits>>

\* One more pass for the ENCL_FINAL rules.
FinalPass ==
  /\ pc = "unpack" /\ has_enclosures /\ Outermost = {} /\ ~did_final_enclosure
  /\ par' = NoPar
  /\ did_final_enclosure' = TRUE
  /\ Again(1)
  /\ UNCHANGED <<window, begin, has_enclosures, pass, tracerule, edits>>

\* The end of rr_window_pass: from the back, each ignored cohort is put after
\* the nearest visible cohort on its left.
AnchorsOf(i) == {k \in 1 .. i - 1 : ~Flagged(all_cohorts[k])}

\* MUTANT of Restorable: the scan stops before the second cohort.
RestorableShort ==
  {i \in 3 .. Len(all_cohorts) :
     "ignored" \in co[all_cohorts[i]].type /\ AnchorsOf(i) # {}}

Restorable ==
  {i \in DOMAIN all_cohorts :
     "ignored" \in co[all_cohorts[i]].type /\ AnchorsOf(i) # {}}

RestoreIgnored ==
  /\ pc = "unpack"
  /\ ~has_enclosures \/ (Outermost = {} /\ did_final_enclosure)
  /\ LET back == {all_cohorts[i] : i \in Restorable}
         n == Len(all_cohorts)
         putBack[i \in 1 .. n + 1] ==
           IF i = n + 1 THEN cohorts
           ELSE IF i \in Restorable
           THEN Inserted(putBack[i + 1], Local(all_cohorts[Max(AnchorsOf(i))]) + 1,
                         <<all_cohorts[i]>>)
           ELSE putBack[i + 1]
         unflagged == [c \in DOMAIN co |->
                         IF c \in back
                         THEN [co[c] EXCEPT !.type = @ \ {"ignored"}] ELSE co[c]]
     IN  /\ cohorts' = putBack[1]
         /\ co' = IF back = {} THEN co ELSE Renumbered(unflagged, cohorts', 1)
  /\ pc' = "done"
  /\ UNCHANGED <<all_cohorts, begin, has_enclosures, did_final_enclosure, par,
                 pass, tracerule, sweep, edits>>

Rule ==
  \/ RemCohort \/ IgnoreSubtree \/ AddCohort \/ CopyCohort \/ MergeCohorts
  \/ SplitCohort \/ MoveCohort \/ SwitchCohorts \/ DelimitHead \/ DelimitTail

Proceed ==
  \/ WrapEnclosure \/ Wrapped \/ StartPass \/ EndRules
  \/ ShowEnclosure \/ FinalPass \/ RestoreIgnored

Next ==
  /\ Rule \/ Proceed
  /\ UNCHANGED grammar

Spec == Init /\ [][Next]_vars

\* One thread runs the window; rules fire as long as they find something to do
\* and the sections are left then.
FairSpec == Spec /\ WF_vars(Proceed /\ UNCHANGED grammar)

-----------------------------------------------------------------------------
(* Properties.                                                             *)

\* The two lists agree: what rules see is what is not flagged, in the order it
\* is printed in, whatever was hidden, shown, moved or added in between.
VisibleInOrder == cohorts = Only(all_cohorts, {c \in DOMAIN co : ~Flagged(c)})

\* When an enclosure is shown, _LEFT_ and _RIGHT_ match its parentheses: the
\* tags remembered are those of the cohorts at the positions remembered.
\* A run of hidden cohorts that holds removed ones may end in one of them.
NoneTakenOut == \A c \in DOMAIN co : co[c].type \subseteq {"enclosed"}

EdgesRemembered ==
  /\ par.left_tag /\ co[cohorts[par.left_pos + 1]].mark = "left"
  /\ par.right_tag /\ co[cohorts[par.right_pos + 1]].mark = "right"

ParTagsOfEdge ==
  [][pc = "unpack" /\ pc' # "done" /\ par'.left_pos # 0 /\ NoneTakenOut =>
       EdgesRemembered']_vars

\* The run of a window comes to an end: unpacking and the passes it asks for
\* do not go on for ever.
RunEnds == <>(pc = "done")

\* Running the grammar keeps the promise of CohortDocument.
Surviving == SelectSeq(all_cohorts, LAMBDA c : "removed" \notin co[c].type)

Document == INSTANCE CohortDocument WITH
  text <- Surviving,
  hidden <- ToSet(Surviving) \ ToSet(cohorts),
  status <- IF pc # "done" THEN "running"
            ELSE IF pass > MaxPass THEN "gaveup" ELSE "finished"

KeepsDocument == Document!DocSpec
=============================================================================
