------------------------------- MODULE SetMatching -------------------------------
(* Does a reading match a set?  Lists by their tries, components by their        *)
(* operators, $$ and && sets by what they matched first under the same rule, and *)
(* the two caches of answers (does_set_match_reading of match_set.rs).  Every    *)
(* question a rule asks is a step, over the grammar that was read and indexed.   *)
EXTENDS GrammarSets

CONSTANT
  Words,      \* the tags a reading can have
  MaxAsks     \* a bound on the questions of a behaviour

VARIABLES
  memo,       \* index_reading_set_yes, _no, unif_tags and unif_sets of the context
  asked,      \* the questions so far and their answers, in the rule at work
  asks        \* how many there were

\* A reading is the set of its tags.
Readings == SUBSET Words
NoMemo == [yes |-> {}, no |-> {}, tags |-> [n \in {} |-> None], chosen |-> [n \in {} |-> {}]]

TagMatches(reading, t) ==
  CASE Failfast(t) -> -t \in reading
    [] t \in Patterns -> Covers[t] \intersect reading # {}
    [] OTHER -> t \in reading

\* The paths of a trie a reading goes to the end of, in the order of the walk.
HashLess(a, b) ==
  \/ Before(a, b)
  \/ \E i \in DOMAIN a \intersect DOMAIN b : SubSeq(a, 1, i - 1) = SubSeq(b, 1, i - 1) /\ a[i] < b[i]
PathMatches(reading, path) == \A i \in DOMAIN path : ~Failfast(path[i]) /\ TagMatches(reading, path[i])
TrieMatches(trie, reading) ==
  SetToSortSeq({p \in trie.ends : PathMatches(reading, p) /\ ~\E q \in trie.ends : Before(q, p)}, HashLess)

\* MUTANT of MatchTags: what is held is replaced by what matches now.
MatchTagsAnew(m, reading, n, unify) ==
  LET s == g.sets[n]
      paths == TrieMatches(s.trie, reading) \o TrieMatches(s.special, reading)
      stopped == \E t \in s.ff : TagMatches(reading, t)
  IN  CASE stopped \/ paths = <<>> -> [yes |-> FALSE, memo |-> m]
        [] ~stopped /\ paths # <<>> /\ ~unify -> [yes |-> TRUE, memo |-> m]
        [] OTHER -> [yes |-> TRUE, memo |-> [m EXCEPT !.tags = Put(@, n, paths[1])]]
\* does_set_match_reading_tags.  In unification the first path is held to.
MatchTags(m, reading, n, unify) ==
  LET s == g.sets[n]
      paths == TrieMatches(s.trie, reading) \o TrieMatches(s.special, reading)
      stopped == \E t \in s.ff : TagMatches(reading, t)
  IN  CASE stopped \/ paths = <<>> -> [yes |-> FALSE, memo |-> m]
        [] ~stopped /\ paths # <<>> /\ ~unify -> [yes |-> TRUE, memo |-> m]
        [] OTHER -> IF n \in DOMAIN m.tags THEN [yes |-> Contains(paths, m.tags[n]), memo |-> m]
                    ELSE [yes |-> TRUE, memo |-> [m EXCEPT !.tags = Put(@, n, paths[1])]]

\* MUTANT of Remember: the answer no is kept in unification too.
RememberAlways(m, reading, n, yes, unify) ==
  IF yes THEN [m EXCEPT !.yes = @ \union {<<n, reading>>}] ELSE [m EXCEPT !.no = @ \union {<<n, reading>>}]
Remember(m, reading, n, yes, unify) ==
  IF yes THEN [m EXCEPT !.yes = @ \union {<<n, reading>>}]
  ELSE IF "TAG_UNIFY" \notin g.sets[n].flags /\ ~unify THEN [m EXCEPT !.no = @ \union {<<n, reading>>}]
  ELSE m

\* A tag one component is held to holds for all of them.
Shared(m, n) ==
  LET held == SelectSeq(g.sets[n].sets, LAMBDA c : c \in DOMAIN m.tags)
  IN  IF held = <<>> THEN m
      ELSE [m EXCEPT !.tags = [c \in ToSet(g.sets[n].sets) |-> @[held[1]]] @@ @]

RECURSIVE Matches(_, _, _, _, _)
\* The operators from component i on; those other than OR bind tighter.
RECURSIVE Operators(_, _, _, _, _, _)
\* The run of operators after component i, with the answer m so far.
RECURSIVE Tighter(_, _, _, _, _, _, _)
Tighter(a, failed, reading, n, i, bypass, unify) ==
  LET s == g.sets[n]
      next == Matches(a.memo, reading, s.sets[i + 1], bypass, unify)
      asksNext == s.ops[i] = "FAILFAST" \/ a.yes
      go(yes, with, f) == Tighter([yes |-> yes, memo |-> with], f, reading, n, i + 1, bypass, unify)
  IN  IF i = Len(s.sets) \/ s.ops[i] = "OR" THEN [yes |-> a.yes, memo |-> a.memo, failed |-> failed, at |-> i]
      ELSE CASE ~asksNext -> go(a.yes, a.memo, failed)
             [] asksNext /\ s.ops[i] = "PLUS" -> go(next.yes, next.memo, failed)
             [] asksNext /\ s.ops[i] = "MINUS" -> go(~next.yes, next.memo, failed)
             [] OTHER -> go(a.yes /\ ~next.yes, next.memo, failed \/ next.yes)
Operators(m, reading, n, i, bypass, unify) ==
  LET first == Matches(m, reading, g.sets[n].sets[i], bypass, unify)
      run == Tighter(first, FALSE, reading, n, i, bypass, unify)
  IN  IF run.yes THEN [yes |-> TRUE, memo |-> run.memo]
      ELSE IF run.failed \/ run.at = Len(g.sets[n].sets) THEN [yes |-> FALSE, memo |-> run.memo]
      ELSE Operators(run.memo, reading, n, run.at + 1, bypass, unify)

\* A && set: the first time the sets that match are gathered, after that one of
\* them has to.
SetUnified(m, reading, n, bypass, unify, tagunif) ==
  LET parts == g.sets[g.sets[n].sets[1]].sets
      stored == IF n \in DOMAIN m.chosen THEN m.chosen[n] ELSE {}
      each(numbers, mode) ==
        FoldLeft(LAMBDA r, c : LET a == Matches(r.memo, reading, c, bypass, mode)
                               IN  [memo |-> a.memo, hits |-> IF a.yes THEN r.hits \union {c} ELSE r.hits],
                 [memo |-> m, hits |-> {}], numbers)
      first == each(parts, tagunif \/ unify)
      again == each(Ascending(stored), unify)
  IN  IF stored = {}
      THEN [yes |-> first.hits # {},
            memo |-> IF first.hits = {} THEN first.memo ELSE [first.memo EXCEPT !.chosen = Put(@, n, first.hits)]]
      ELSE [yes |-> again.hits # {}, memo |-> again.memo]

Matches(m, reading, n, bypass, unify) ==
  LET s == g.sets[n]
      tagunif == "TAG_UNIFY" \in s.flags
      a == CASE "ANY" \in s.flags -> [yes |-> TRUE, memo |-> m]
             [] "ANY" \notin s.flags /\ s.sets = <<>> -> MatchTags(m, reading, n, tagunif \/ unify)
             [] "ANY" \notin s.flags /\ s.sets # <<>> /\ "SET_UNIFY" \in s.flags ->
                  SetUnified(m, reading, n, bypass, unify, tagunif)
             [] OTHER -> LET o == Operators(m, reading, n, 1, bypass, tagunif \/ unify)
                         IN  IF unify \/ tagunif THEN [o EXCEPT !.memo = Shared(@, n)] ELSE o
      cached == ~bypass /\ ~unify
  IN  CASE cached /\ <<n, reading>> \in m.no -> [yes |-> FALSE, memo |-> m]
        [] cached /\ <<n, reading>> \notin m.no /\ <<n, reading>> \in m.yes -> [yes |-> TRUE, memo |-> m]
        [] OTHER -> [yes |-> a.yes, memo |-> Remember(a.memo, reading, n, a.yes, unify)]

\* does_set_match_cohort_helper asks anew what context can change.
Bypass(n) == g.sets[n].flags \intersect {"CHILD_UNIFY", "SPECIAL"} # {}
Answer(m, reading, n) == Matches(m, reading, n, Bypass(n), FALSE)

--------------------------------------------------------------------------------
vars == <<file, line, g, phase, memo, asked, asks>>
Init ==
  /\ GrammarInit
  /\ memo = NoMemo
  /\ asked = <<>>
  /\ asks = 0

\* A test that fails has unified nothing.
Rollback(m, was, n, yes) ==
  IF yes \/ "CHILD_UNIFY" \notin g.sets[n].flags THEN m
  ELSE [m EXCEPT !.tags = was.tags,
                 !.chosen = IF Cardinality(DOMAIN @) # Cardinality(DOMAIN was.chosen) THEN was.chosen ELSE @]

\* A rule looks at a reading: with its target, and when that matches with its
\* tests.
Ask ==
  /\ phase = "indexed" /\ asks < MaxAsks
  /\ asked = <<>> \/ (asked # <<>> /\ asked[1].yes)
  /\ \E r \in file.asks, reading \in file.readings :
       LET n == g.rules[r]
           a == Answer(memo, reading, n)
       IN  /\ memo' = IF asked = <<>> THEN a.memo ELSE Rollback(a.memo, memo, n, a.yes)
           /\ asked' = Append(asked, [rule |-> r, reading |-> reading, yes |-> a.yes,
                                      anew |-> Answer([memo EXCEPT !.yes = {}, !.no = {}], reading, n).yes])
  /\ asks' = asks + 1
  /\ UNCHANGED <<file, line, g, phase>>

\* The next reading or the next rule: what was unified is forgotten.
NextRule ==
  /\ asked # <<>>
  /\ memo' = [memo EXCEPT !.tags = NoMemo.tags, !.chosen = NoMemo.chosen]
  /\ asked' = <<>>
  /\ UNCHANGED <<file, line, g, phase, asks>>

Next ==
  \/ Parse /\ UNCHANGED <<memo, asked, asks>>
  \/ IndexGrammar /\ UNCHANGED <<memo, asked, asks>>
  \/ Ask
  \/ NextRule
  \/ (asks = MaxAsks \/ g.error # "none" \/ (phase = "indexed" /\ file.asks = {})) /\ UNCHANGED vars
Spec == Init /\ [][Next]_vars
================================================================================
