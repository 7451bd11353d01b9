---------------------------- MODULE RuleSchedule ----------------------------
(* Which rule meets which cohort, and when: the sections of the grammar, the *)
(* cursor through the rules of a section while its own rules make further    *)
(* rules valid, and the loop of a rule over its set of cohorts while the     *)
(* rule, or the rules nested in it by WITH, change that set.                 *)
(* What a rule does is abstracted to its kind: what it does to the cohorts,  *)
(* to the sets of cohorts and to the cursors.                                *)
EXTENDS Naturals, FiniteSets, SequencesExt

CONSTANTS
  Grammars,         \* the grammars to run: sequences of rules (see Rule)
  Cohorts,          \* bound: the cohorts there can be, numbers from 1
  WindowSize,       \* how many of them the window starts with
  SectionMaxCount,  \* --sections-max-count, 0 for none
  MaxPass,          \* the endless-loop limit: 1000 in the code
  HitFactor,        \* rule_hits allowed per cohort: 100 in the code
  MaxFires,         \* bound: rules that match
  MaxContexts       \* bound: cohorts the tests of a WITH rule remember

\* kind: what the rule does.  section: 1 and 2 are sections, 0 BEFORE-SECTIONS,
\* 3 AFTER-SECTIONS, 9 is the body of a WITH.  teaches: the rules that look for
\* a tag this one adds (rules_by_tag).  subs: the rules of a WITH.  dest: where
\* a JUMP goes.  starts: whether the cohorts as read can be its target.
Kinds == {"change", "tag", "remcohort", "remtree", "addcohort", "jump", "delimit",
          "move", "with", "external", "wordform", "ignore"}
Rule == [kind : Kinds, section : {0, 1, 2, 3, 9}, flags : SUBSET {"repeat", "noiterate", "traced"},
         teaches : SUBSET Nat, subs : Seq(Nat), dest : Nat, starts : BOOLEAN]

ASSUME ScheduleAssumption ==
  /\ Grammars \subseteq Seq(Rule)
  /\ \A g \in Grammars : \A r \in DOMAIN g :
       /\ g[r].teaches \subseteq DOMAIN g
       /\ \A i \in DOMAIN g[r].subs : g[r].subs[i] \in 1 .. r - 1
  /\ Cohorts = 1 .. Cardinality(Cohorts) /\ WindowSize \in Cohorts
  /\ {SectionMaxCount, MaxFires, MaxContexts} \subseteq Nat
  /\ {MaxPass, HitFactor} \subseteq Nat \ {0}

VARIABLES
  grammar,
  cohorts,     \* the cohorts of the window after >>>
  number,      \* local_number, also of the cohorts removed
  possible,    \* for each rule the cohorts whose possible_sets have its target
  index,       \* [sets: rule_to_cohorts, valid: valid_rules, intersects]
  frames,      \* the loops running, the innermost last: cohortsets and rocits
  nested,      \* nested_rule_to_cohorts
  loop,        \* [finish_cohort_loop, reset_cohorts_for_loop, in_nested]
  st,          \* the rest of RRState
  at,          \* [section, pass, counter, something, result]
  cur,         \* the rule run at top level
  rule_hits,
  fires,
  ran,         \* history: the rules that had their turn in this pass
  late,        \* history: those that became valid behind the cursor
  jumped,      \* history: a JUMP was taken in this pass
  pc

vars == <<grammar, cohorts, number, possible, index, frames, nested, loop, st, at,
          cur, rule_hits, fires, ran, late, jumped, pc>>

Numbers == DOMAIN grammar
Visible == ToSet(cohorts)
SmallestOf(S) == CHOOSE n \in S : \A m \in S : n <= m
Top == Last(frames)
TheRule == grammar[Top.rule]

-----------------------------------------------------------------------------
(* Sets of cohorts.                                                        *)

\* cs_lower_bound_slice, which halves the set whether or not it is ascending.
LowerBound(nums, s, c) ==
  LET Search[lo \in 0 .. Len(s), hi \in 0 .. Len(s)] ==
        IF lo >= hi THEN lo
        ELSE LET mid == (lo + hi) \div 2
             IN  IF nums[s[mid + 1]] < nums[c] THEN Search[mid + 1, hi] ELSE Search[lo, mid]
  IN  Search[0, Len(s)]

\* cs_find_n_slice: the place of what compares equal to c, or the end.
FindN(s, c) ==
  LET lb == LowerBound(number, s, c)
  IN  IF lb < Len(s) /\ number[s[lb + 1]] = number[c] THEN lb ELSE Len(s)

InsertIn(s, c) ==
  LET lb == LowerBound(number, s, c)
  IN  IF lb < Len(s) /\ s[lb + 1] = c THEN s ELSE InsertAt(s, lb + 1, c)

EraseFrom(s, c) == IF FindN(s, c) < Len(s) THEN RemoveAt(s, FindN(s, c) + 1) ELSE s

SetOf(f) == IF f.nested THEN nested ELSE index.sets[f.rule]

\* The cursor of a frame over a set something is inserted in.
Moved(f, old, new, full) ==
  IF f.rocit >= Len(old) THEN [f EXCEPT !.rocit = Len(new)]
  ELSE IF full /\ old # new THEN [f EXCEPT !.rocit = FindN(new, old[f.rocit + 1])]
  ELSE f

\* update_rule_to_cohorts of the cohort c, for each of the rules.
Joined(c, rules) ==
  [r \in Numbers |-> IF r \in rules THEN InsertIn(index.sets[r], c) ELSE index.sets[r]]

\* update_valid_rules: the rules that look for a tag the running rule adds.  `full`
\* says that the vectors have no room left and are moved by an insertion.
Taught(c, full) ==
  LET rules == TheRule.teaches \cap Numbers
      sets == Joined(c, rules)
  IN  [index |-> [sets |-> sets, valid |-> index.valid \cup rules,
                  intersects |-> index.intersects \cup ((rules \ index.valid) \cap st.rules)],
       frames |-> [i \in DOMAIN frames |->
                     IF ~frames[i].nested /\ frames[i].rule \in rules
                     THEN Moved(frames[i], index.sets[frames[i].rule], sets[frames[i].rule], full)
                     ELSE frames[i]]]

\* index_single_window: every set anew, and every rule that has a cohort valid.
Reindexed(cs, can) ==
  LET sets == [r \in Numbers |-> SelectSeq(cs, LAMBDA c : c \in can[r])]
  IN  [index |-> [index EXCEPT !.sets = sets, !.valid = {r \in Numbers : sets[r] # <<>>}],
       frames |-> [i \in DOMAIN frames |->
                     IF frames[i].nested \/ sets[frames[i].rule] = <<>> THEN frames[i]
                     ELSE [frames[i] EXCEPT !.rocit = Len(sets[frames[i].rule])]]]

Renumbered(cs) ==
  [c \in DOMAIN number |-> IF \E i \in DOMAIN cs : cs[i] = c
                           THEN CHOOSE i \in DOMAIN cs : cs[i] = c ELSE number[c]]

\* rr_erase_from_all_cohortsets of each of the cohorts, the last first.
Erased(gone) ==
  [index EXCEPT !.sets =
     [r \in Numbers |-> FoldRight(LAMBDA c, s : EraseFrom(s, c), gone, index.sets[r])]]

\* The set of the rules in a WITH: its cohort, and those its tests remember.
NestedSet(c, contexts) ==
  FoldLeft(LAMBDA s, d : InsertIn(s, d), <<c>>, SetToSeq(contexts))

-----------------------------------------------------------------------------
(* Sections.                                                               *)

RuleState(rules) ==
  [rules |-> rules, iter_val |-> 0, readings_changed |-> FALSE, should_repeat |-> FALSE,
   should_bail |-> FALSE, delimited |-> FALSE, do_sort |-> FALSE]

\* runsections: a section runs the rules of the sections before it as well.
SectionRules(s) ==
  {r \in Numbers : grammar[r].section = s
                   \/ (s \in 1 .. 2 /\ grammar[r].section \in 1 .. s)}

Init ==
  /\ grammar \in Grammars
  /\ cohorts = [i \in 1 .. WindowSize |-> i]
  /\ number = [c \in Cohorts |-> c]
  /\ possible = [r \in Numbers |-> IF grammar[r].starts THEN 1 .. WindowSize ELSE {}]
  /\ index = [sets |-> [r \in Numbers |-> IF grammar[r].starts THEN cohorts ELSE <<>>],
              valid |-> {r \in Numbers : grammar[r].starts}, intersects |-> {}]
  /\ frames = <<>> /\ nested = <<>>
  /\ loop = [finish |-> TRUE, reset |-> FALSE, in_nested |-> FALSE]
  /\ st = RuleState({})
  /\ at = [section |-> 0, pass |-> 0, counter |-> [s \in 1 .. 2 |-> 0], something |-> FALSE,
           result |-> "none"]
  /\ cur = 0 /\ rule_hits = [r \in Numbers |-> 0] /\ fires = 0
  /\ ran = {} /\ late = {} /\ jumped = FALSE /\ pc = "section"

UNCHANGED_window == UNCHANGED <<grammar, cohorts, number, possible, nested>>

\* MUTANT of NextAfter: the lower bound instead of the upper one.
NextAfterSame(n, rules) == {r \in rules : r >= n}
\* MUTANT of NextAfter: the cursor is moved on twice.
NextAfterTwice(n, rules) == {r \in rules : \E m \in rules : n < m /\ m < r}
NextAfter(n, rules) == {r \in rules : r > n}

Turn(rules) ==
  IF rules = {} THEN pc' = "passed" /\ cur' = 0
  ELSE pc' = "rule" /\ cur' = SmallestOf(rules)

BeginPass ==
  /\ pc = "section" /\ at.section \in 0 .. 3
  /\ ~(at.section \in 1 .. 2 /\ SectionMaxCount # 0
       /\ at.counter[at.section] >= SectionMaxCount)
  /\ LET rules == SectionRules(at.section)
     IN  /\ st' = RuleState(rules)
         /\ index' = [index EXCEPT !.intersects = index.valid \cap rules]
         /\ Turn(index.valid \cap rules)
  /\ at' = [at EXCEPT !.something = FALSE]
  /\ ran' = {} /\ late' = {} /\ jumped' = FALSE
  /\ UNCHANGED_window
  /\ UNCHANGED <<frames, loop, rule_hits, fires>>

NextSection(x) == [x EXCEPT !.section = @ + 1, !.pass = 0]

SectionUsedUp ==
  /\ pc = "section" /\ at.section \in 1 .. 2 /\ SectionMaxCount # 0
  /\ at.counter[at.section] >= SectionMaxCount
  /\ at' = NextSection(at)
  /\ UNCHANGED_window
  /\ UNCHANGED <<index, frames, loop, st, cur, rule_hits, fires, ran, late, jumped, pc>>

\* A section is run again for as long as it does something; the endless-loop
\* limit ends all of them.
AfterPass ==
  IF at.section \in 1 .. 2
  THEN LET counted == [at EXCEPT !.counter[at.section] = @ + 1]
       IN  IF ~at.something THEN NextSection(counted)
           ELSE IF at.pass + 1 < MaxPass THEN [counted EXCEPT !.pass = @ + 1]
           ELSE [counted EXCEPT !.section = 3, !.pass = 0]
  ELSE NextSection(at)

EndPass ==
  /\ pc = "passed"
  /\ IF st.delimited \/ at.result = "traced"
     THEN pc' = "done" /\ at' = [at EXCEPT !.result = IF st.delimited THEN "delimited" ELSE @]
     ELSE pc' = "section" /\ at' = AfterPass
  /\ UNCHANGED_window
  /\ UNCHANGED <<index, frames, loop, st, cur, rule_hits, fires, ran, late, jumped>>

EndSections ==
  /\ pc = "section" /\ at.section > 3
  /\ pc' = "done"
  /\ UNCHANGED_window
  /\ UNCHANGED <<index, frames, loop, st, at, cur, rule_hits, fires, ran, late, jumped>>

-----------------------------------------------------------------------------
(* One rule.                                                               *)

Frame(r, isNested, set) ==
  [rule |-> r, nested |-> isNested, rocit |-> 0, subs |-> 0, any |-> FALSE, at |-> 0,
   seen |-> {}, whole |-> ToSet(set)]

\* IGNORE, and the types --no-mappings and --no-corrections leave out.
SkipRule ==
  /\ pc = "rule" /\ grammar[cur].kind = "ignore"
  /\ Turn(NextAfter(cur, index.intersects))
  /\ ran' = ran \cup {cur}
  /\ UNCHANGED_window
  /\ UNCHANGED <<index, frames, loop, st, at, rule_hits, fires, late, jumped>>

StartRule ==
  /\ pc = "rule" /\ grammar[cur].kind # "ignore"
  /\ st' = [st EXCEPT !.iter_val = cur, !.readings_changed = FALSE,
                      !.should_repeat = FALSE, !.should_bail = FALSE]
  /\ frames' = <<Frame(cur, loop.in_nested, index.sets[cur])>>
  /\ loop' = [loop EXCEPT !.finish = TRUE]
  /\ ran' = ran \cup {cur} /\ pc' = "cohort"
  /\ UNCHANGED_window
  /\ UNCHANGED <<index, at, cur, rule_hits, fires, late, jumped>>

\* MUTANT of SortedSets: the flag is forgotten.
SortedSetsNever == index

\* The sorter: every set by local_number, once the rule is through.
SortedSets ==
  IF st.do_sort
  THEN [index EXCEPT !.sets =
          [r \in Numbers |-> SortSeq(index.sets[r], LAMBDA c, d : number[c] < number[d])]]
  ELSE index

EndRule ==
  /\ pc = "cohort" /\ frames = <<>>
  /\ LET changed == st.readings_changed
         flags == grammar[cur].flags
         traced == \/ at.result = "traced"
                   \/ /\ ~st.should_bail /\ ~st.should_repeat
                      /\ changed /\ "traced" \in flags
         did == \/ at.something
                \/ changed /\ ~("noiterate" \in flags /\ SectionMaxCount # 1)
         goes == IF changed /\ ~st.should_bail THEN cur ELSE st.iter_val
     IN  /\ at' = [at EXCEPT !.something = did, !.result = IF traced THEN "traced" ELSE @]
         /\ rule_hits' = IF st.should_bail THEN [rule_hits EXCEPT ![cur] = 0] ELSE rule_hits
         /\ \/ /\ ~st.should_bail /\ st.should_repeat
               /\ pc' = "rule" /\ cur' = st.iter_val /\ UNCHANGED <<index, st>>
            \/ /\ ~st.should_bail /\ ~st.should_repeat /\ ~st.delimited
               /\ changed /\ "repeat" \in flags
               /\ pc' = "rule" /\ UNCHANGED <<index, st, cur>>
            \/ /\ \/ st.should_bail
                  \/ /\ ~st.should_repeat
                     /\ st.delimited \/ ~changed \/ "repeat" \notin flags
               /\ index' = SortedSets /\ st' = [st EXCEPT !.do_sort = FALSE, !.iter_val = goes]
               /\ IF (~st.should_bail /\ st.delimited) \/ traced THEN pc' = "passed" /\ cur' = 0
                  ELSE Turn(NextAfter(goes, index.intersects))
  /\ UNCHANGED_window
  /\ UNCHANGED <<frames, loop, fires, ran, late, jumped>>

-----------------------------------------------------------------------------
(* The loop over the cohorts of a rule.                                    *)

Looping == pc = "cohort" /\ frames # <<>> /\ Top.subs = 0
Ready == Looping /\ Top.rocit < Len(SetOf(Top))
TheCohort == SetOf(Top)[Top.rocit + 1]
Stepped == [frames EXCEPT ![Len(frames)].rocit = @ + 1,
                          ![Len(frames)].seen = @ \cup {TheCohort},
                          ![Len(frames)].at = TheCohort]
quiet == <<grammar, cohorts, number, possible, at, cur, rule_hits, fires, ran, jumped>>

\* Removed cohorts, and those the tests of the rule or its kind leave alone.
PassOver ==
  /\ Ready /\ frames' = Stepped
  /\ UNCHANGED <<quiet, index, nested, loop, st, late, pc>>

\* No reading is a target: the cohort leaves the set, until a tag brings it back.
Drop ==
  /\ Ready /\ TheCohort \in Visible
  /\ frames' = [Stepped EXCEPT ![Len(frames)].rocit = Top.rocit]
  /\ IF Top.nested
     THEN nested' = RemoveAt(nested, Top.rocit + 1) /\ UNCHANGED index
     ELSE index' = [index EXCEPT !.sets[Top.rule] = RemoveAt(@, Top.rocit + 1)]
          /\ UNCHANGED nested
  /\ UNCHANGED <<quiet, loop, st, late, pc>>

Fires(kind) ==
  /\ Ready /\ TheCohort \in Visible /\ TheRule.kind = kind /\ fires < MaxFires
  /\ fires' = fires + 1 /\ UNCHANGED <<grammar, at, cur, ran>>

Behind(new) == late \cup {r \in new.intersects \ index.intersects : r <= cur}

\* The cohort loop goes on as it was.
Goes(fs) == frames' = fs /\ UNCHANGED nested /\ loop' = [loop EXCEPT !.reset = FALSE]

\* MUTANT of Past: the cohort is stepped over even if it is gone.
PastAlways(set, nums, cs, here) ==
  LowerBound(nums, set, IF nums[here] <= Len(cs) THEN cs[nums[here]] ELSE here) + 1

\* rr_reset_cohorts: the cursor is put past the cohort of the rule, or where the
\* cohort now stands that has the local_number of one that is gone.
Past(set, nums, cs, here) ==
  LET place == LowerBound(nums, set, IF nums[here] <= Len(cs) THEN cs[nums[here]] ELSE here)
  IN  IF here \in ToSet(cs) /\ place < Len(set) THEN place + 1 ELSE place

Reseat(fs, idx, cs, nums, here) ==
  \E contexts \in SUBSET ToSet(cs) :
    /\ Cardinality(contexts) <= IF loop.in_nested THEN MaxContexts ELSE 0
    /\ LET set == IF loop.in_nested THEN NestedSet(here, contexts)
                  ELSE idx.sets[Last(fs).rule]
       IN  /\ nested' = IF loop.in_nested THEN set ELSE nested
           /\ frames' = [fs EXCEPT ![Len(fs)].nested = loop.in_nested,
                                   ![Len(fs)].rocit = Past(set, nums, cs, here)]
    /\ loop' = [loop EXCEPT !.reset = TRUE]

FireChange ==
  /\ Fires("change") /\ Goes(Stepped)
  /\ st' = [st EXCEPT !.readings_changed = TRUE]
  /\ UNCHANGED <<cohorts, number, possible, index, rule_hits, late, jumped, pc>>

FireTag ==
  /\ Fires("tag")
  /\ \E full \in BOOLEAN :
       LET x == Taught(TheCohort, full) IN
       /\ index' = x.index /\ late' = Behind(x.index)
       /\ Goes([x.frames EXCEPT ![Len(frames)].rocit = @ + 1,
                                ![Len(frames)].seen = @ \cup {TheCohort},
                                ![Len(frames)].at = TheCohort])
       /\ st' = [st EXCEPT !.readings_changed = TRUE,
                           !.iter_val = IF x.index.intersects = index.intersects THEN @
                                        ELSE Top.rule]
  /\ possible' = [r \in Numbers |-> IF r \in TheRule.teaches THEN possible[r] \cup {TheCohort}
                                    ELSE possible[r]]
  /\ UNCHANGED <<cohorts, number, rule_hits, jumped, pc>>

\* The cohorts S leave the window; a subtree is ignored and then renumbered.
TakeOut(S) ==
  LET rest == SelectSeq(cohorts, LAMBDA c : c \notin S)
      gone == SelectSeq(cohorts, LAMBDA c : c \in S)
      idx == Erased(gone)
      nums == Renumbered(rest)
  IN  /\ cohorts' = rest /\ index' = idx /\ number' = nums
      /\ Reseat(Stepped, idx, rest, nums, TheCohort)
      /\ st' = [st EXCEPT !.readings_changed = TRUE]
      /\ UNCHANGED <<possible, rule_hits, late, jumped, pc>>

FireRemCohort == Fires("remcohort") /\ TakeOut({TheCohort})
\* REMCOHORT IGNORED WITHCHILD.
FireRemTree ==
  Fires("remtree") /\ \E child \in Visible : TakeOut({TheCohort, child})

\* A cohort more before or after this one; the window is indexed anew.
FireAddCohort ==
  /\ Fires("addcohort")
  /\ \E c \in Cohorts \ {d \in Cohorts : d <= WindowSize} : c \notin Visible /\
     \E place \in {number[TheCohort], number[TheCohort] + 1} :
       LET cs == InsertAt(cohorts, place, c)
           can == [r \in Numbers |->
                     IF grammar[r].starts THEN possible[r] \cup {c} ELSE possible[r] \ {c}]
           x == Reindexed(cs, can)
           nums == Renumbered(cs)
       IN  /\ cohorts' = cs /\ possible' = can /\ index' = x.index /\ number' = nums
           /\ Reseat([x.frames EXCEPT ![Len(frames)].at = TheCohort,
                                      ![Len(frames)].seen = @ \cup {TheCohort}],
                     x.index, cs, nums, TheCohort)
  /\ st' = [st EXCEPT !.readings_changed = TRUE]
  /\ UNCHANGED <<rule_hits, late, jumped, pc>>

\* EXTERNAL: what comes back is indexed, and the rules of the section found anew.
FireExternal ==
  /\ Fires("external")
  /\ LET x == Reindexed(cohorts, possible)
         idx == [x.index EXCEPT !.intersects = x.index.valid \cap st.rules]
     IN  /\ index' = idx /\ late' = Behind(idx)
         /\ st' = [st EXCEPT !.readings_changed = TRUE,
                             !.iter_val = IF Top.rule \in idx.intersects THEN Top.rule ELSE @]
         /\ Reseat([x.frames EXCEPT ![Len(frames)].at = TheCohort,
                                    ![Len(frames)].seen = @ \cup {TheCohort}],
                   idx, cohorts, number, TheCohort)
  /\ UNCHANGED <<cohorts, number, possible, rule_hits, jumped, pc>>

\* A loop returns before its set is through.
Leave(fs) == frames' = Front(fs) /\ loop' = [loop EXCEPT !.finish = FALSE, !.reset = FALSE]

\* JUMP: lower_bound of the anchor in the rules valid now.
FireJump ==
  /\ Fires("jump") /\ Leave(frames)
  /\ LET ahead == {r \in index.intersects : r >= TheRule.dest}
     IN  st' = [st EXCEPT !.should_repeat = TRUE,
                          !.iter_val = IF ahead = {} THEN @ ELSE SmallestOf(ahead)]
  /\ jumped' = TRUE
  /\ UNCHANGED <<cohorts, number, possible, index, nested, rule_hits, late, pc>>

FireDelimit ==
  /\ Fires("delimit") /\ TheCohort # Last(cohorts)
  /\ Goes(Stepped)
  /\ cohorts' = SubSeq(cohorts, 1, number[TheCohort])
  /\ st' = [st EXCEPT !.delimited = TRUE, !.readings_changed = TRUE]
  /\ UNCHANGED <<number, possible, index, rule_hits, late, jumped, pc>>

\* SWITCH or MOVE: the window is in another order, the sets are not.
FireMove ==
  /\ Fires("move")
  /\ \E other \in Visible \ {TheCohort} :
       LET cs == [i \in DOMAIN cohorts |->
                    IF cohorts[i] = other THEN TheCohort
                    ELSE IF cohorts[i] = TheCohort THEN other ELSE cohorts[i]]
       IN  cohorts' = cs /\ number' = Renumbered(cs)
  /\ rule_hits' = [rule_hits EXCEPT ![Top.rule] = @ + 1]
  /\ IF rule_hits[Top.rule] + 1 > HitFactor * (Len(cohorts) + 1)
     THEN Leave(frames) /\ st' = [st EXCEPT !.should_bail = TRUE] /\ UNCHANGED nested
     ELSE Goes(Stepped) /\ st' = [st EXCEPT !.readings_changed = TRUE, !.do_sort = TRUE]
  /\ UNCHANGED <<possible, index, late, jumped, pc>>

\* SUBSTITUTE of a wordform: the rules that ask for one (here those taught) get
\* the cohort, whichever section they belong to; the others lose it, the
\* running rule with them.
FireWordform ==
  /\ Fires("wordform")
  /\ LET idx == [index EXCEPT
                   !.sets = [r \in Numbers |->
                               IF r \in TheRule.teaches THEN InsertIn(@[r], TheCohort)
                               ELSE IF r = Top.rule THEN EraseFrom(@[r], TheCohort) ELSE @[r]],
                   !.intersects = @ \cup TheRule.teaches]
     IN  index' = idx /\ late' = Behind(idx)
  /\ st' = [st EXCEPT !.readings_changed = TRUE, !.iter_val = Top.rule]
  /\ Goes(Stepped)
  /\ UNCHANGED <<cohorts, number, possible, rule_hits, jumped, pc>>

-----------------------------------------------------------------------------
(* WITH.                                                                   *)

Calls(fs, r, contexts) ==
  /\ nested' = IF loop'.in_nested THEN NestedSet(Last(fs).at, contexts) ELSE nested
  /\ frames' = Append(fs, Frame(r, loop'.in_nested,
                                IF loop'.in_nested THEN nested' ELSE index.sets[r]))

SomeContexts == {S \in SUBSET Visible : Cardinality(S) <= MaxContexts}

FireWith ==
  /\ Fires("with") /\ TheRule.subs # <<>>
  /\ loop' = [loop EXCEPT !.in_nested = TRUE, !.finish = TRUE, !.reset = FALSE]
  /\ st' = [st EXCEPT !.readings_changed = FALSE]
  /\ \E contexts \in SomeContexts :
       Calls([Stepped EXCEPT ![Len(frames)].subs = 1, ![Len(frames)].any = FALSE],
             TheRule.subs[1], contexts)
  /\ UNCHANGED <<cohorts, number, possible, index, rule_hits, late, jumped, pc>>

\* The set is through.
Pop ==
  /\ Looping /\ Top.rocit >= Len(SetOf(Top))
  /\ frames' = Front(frames)
  /\ UNCHANGED <<quiet, index, nested, loop, st, late, pc>>

\* A rule of a WITH is through: again, if it says REPEAT and did something, or
\* the next one.
NextSub ==
  /\ pc = "cohort" /\ frames # <<>> /\ Top.subs # 0
  /\ LET again == st.readings_changed /\ "repeat" \in grammar[TheRule.subs[Top.subs]].flags
         next == IF again THEN Top.subs ELSE Top.subs + 1
     IN  /\ next <= Len(TheRule.subs)
         /\ loop' = [loop EXCEPT !.finish = TRUE]
         /\ \E contexts \in SomeContexts :
              Calls([frames EXCEPT ![Len(frames)].subs = next,
                                   ![Len(frames)].any = @ \/ st.readings_changed],
                    TheRule.subs[next], contexts)
  /\ st' = [st EXCEPT !.readings_changed = FALSE]
  /\ UNCHANGED <<quiet, index, late, pc>>

\* The last one is: the flags its rules left say how the loop around goes on.
EndWith ==
  /\ pc = "cohort" /\ frames # <<>> /\ Top.subs = Len(TheRule.subs) /\ Top.subs # 0
  /\ ~(st.readings_changed /\ "repeat" \in grammar[TheRule.subs[Top.subs]].flags)
  /\ st' = [st EXCEPT !.readings_changed = Top.any \/ @]
  /\ LET fs == [frames EXCEPT ![Len(frames)].subs = 0]
         outer == [loop EXCEPT !.in_nested = FALSE, !.reset = FALSE]
     IN  /\ loop' = outer
         /\ IF ~loop.finish THEN frames' = Front(frames)
            ELSE IF loop.reset
            THEN frames' = [fs EXCEPT ![Len(fs)].nested = FALSE,
                                      ![Len(fs)].rocit =
                                         Past(index.sets[Top.rule], number, cohorts, Top.at)]
            ELSE frames' = fs
  /\ UNCHANGED <<quiet, index, nested, late, pc>>

Done == pc = "done" /\ UNCHANGED vars

Next ==
  \/ BeginPass \/ SectionUsedUp \/ EndPass \/ EndSections
  \/ SkipRule \/ StartRule \/ EndRule
  \/ PassOver \/ Drop \/ Pop
  \/ FireChange \/ FireTag \/ FireRemCohort \/ FireRemTree \/ FireAddCohort
  \/ FireExternal \/ FireJump \/ FireDelimit \/ FireMove \/ FireWordform
  \/ FireWith \/ NextSub \/ EndWith
  \/ Done

Spec == Init /\ [][Next]_vars /\ WF_vars(Next)

-----------------------------------------------------------------------------
(* Properties.                                                             *)

\* A pass over a section gives every rule that is valid its turn, however much
\* the rules before it made valid or invalid: only a JUMP passes over rules, and
\* only those that become valid behind the cursor wait for the next pass.
PassCoversRules ==
  pc = "passed" /\ ~st.delimited /\ at.result # "traced" /\ ~jumped
    => index.intersects \subseteq ran \cup late

\* Rules whose loop passes over a cohort: REMCOHORT IGNORED WITHCHILD,
\* where the cursor is found by the number of the cohort of the rule, which the
\* cohorts gone before it leave too high; SUBSTITUTE of the wordform, which takes
\* the cohort out of the set without stepping the cursor back; and a WITH that
\* goes on after a rule of it removed the cohort, which forgets that one did.
LosesPlace(r) ==
  \/ grammar[r].kind \in {"remtree", "wordform"}
  \/ \E i \in DOMAIN grammar[r].subs :
       i < Len(grammar[r].subs) /\ grammar[grammar[r].subs[i]].kind \in {"remcohort", "addcohort", "external", "move"}

\* A rule meets every cohort of its set: whatever the rule, or the rules nested
\* in it, add to the set, take out of it or reorder, a cohort that was there at
\* the start and still is, and has not had its turn, lies ahead of the cursor.
\* Left out are the grammars with a rule that is known not to.
NoCohortSkipped ==
  Looping /\ (\A r \in Numbers : ~LosesPlace(r)) =>
    \A c \in Top.whole \cap Visible \cap ToSet(SetOf(Top)) :
      \/ c \in Top.seen
      \/ \E i \in Top.rocit + 1 .. Len(SetOf(Top)) : SetOf(Top)[i] = c

\* A WITH one of whose rules moves cohorts: the sets are sorted when the WITH is
\* through, and the rules after the one that moved search them unsorted.
MovesWithin(r) == \E i \in DOMAIN grammar[r].subs : grammar[grammar[r].subs[i]].kind = "move"

\* Between two rules every set lists cohorts of the window, each once, in the
\* order of the window: what every search in it trusts.
SetsInOrder ==
  pc = "rule" /\ ~st.do_sort /\ ~st.delimited /\ (\A r \in Numbers : ~MovesWithin(r)) =>
    \A r \in Numbers :
      /\ ToSet(index.sets[r]) \subseteq Visible
      /\ \A i \in 2 .. Len(index.sets[r]) :
           number[index.sets[r][i - 1]] < number[index.sets[r][i]]

\* The grammar gets through the window once its rules stop matching.
RulesEnd == <>(pc = "done")
=============================================================================
