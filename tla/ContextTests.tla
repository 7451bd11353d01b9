------------------------------ MODULE ContextTests ------------------------------
(* Contextual tests: what a rule's (1* X BARRIER Y LINK ...) finds in the         *)
(* document.  The document is still while a test runs, so an iterator over it is  *)
(* the sequence of the cohorts it will yield; what the test itself carries along  *)
(* (mark, attachment, the template stack, the nodes a deep test has seen) is      *)
(* threaded through every call.  A reading is the set of the sets it matches.     *)
(* Left out: subreading offsets, the marks on readings that a rule has matched,   *)
(* unification, regular expression captures, T/t and jT, jC.                      *)
EXTENDS Integers, FiniteSets, SequencesExt

CONSTANTS
  Documents,  \* the documents with the tests run in them: see DocumentFields
  AlwaysSpan, \* --always-span
  NoPassOrigin, \* --no-pass-origin
  MaxTries    \* bound: cohorts a rule is tried on

None == 0     \* no cohort, no test
AnySet == "(*)"
Lists == {"readings", "deleted", "delayed", "ignored"}
\* windows: the number of windows.  window, prev/next: cohorts are numbered in
\* document order; the first of a window is its >>>.  lists, wread: the readings of
\* a cohort.  parent: dep_parent, Root for 0 and None for none.  relations: pairs
\* of a name and a cohort.  bag: bag_of_tags.  par: par_left_pos, par_right_pos.
\* tests: contexts_arena.  rule: its tests, its flags and the window it runs on.
DocumentFields == {"windows", "window", "enclosed", "removed", "lists", "wread", "parent", "children",
                   "root", "relations", "bag", "par", "tests", "rule"}

ASSUME TestsAssumption ==
  /\ \A d \in Documents : DOMAIN d = DocumentFields
  /\ AlwaysSpan \in BOOLEAN /\ NoPassOrigin \in BOOLEAN /\ MaxTries \in Nat

Orphan == -1  \* DEP_NO_PARENT
Ids(d) == DOMAIN d.window
Visible(d, w) == SelectSeq([c \in Ids(d) |-> c], LAMBDA c : d.window[c] = w /\ c \notin d.enclosed)
Local(d, c) == Cardinality({e \in Ids(d) : e < c /\ d.window[e] = d.window[c] /\ e \notin d.enclosed})
Has(t, flags) == t.pos \cap flags # {}
Scans == {"SCANFIRST", "SCANALL"}
Spans == {"SPAN_BOTH", "SPAN_LEFT", "SPAN_RIGHT"}
Sides == {"LEFT", "RIGHT", "LEFTMOST", "RIGHTMOST"}
SpansTo(t, side) == Has(t, {"SPAN_BOTH", side})

\* less_cohort: by the number in the window, and only then by the window.
LessCohort(d, a, b) ==
  IF Local(d, a) = Local(d, b) THEN d.window[a] < d.window[b] ELSE Local(d, a) < Local(d, b)
Ordered(d, S) == SetToSortSeq(S, LAMBDA a, b : LessCohort(d, a, b))

-----------------------------------------------------------------------------
(* Iterators: the cohorts a test will look at, from cohort c.                   *)

RECURSIVE Leftward(_, _, _), Rightward(_, _, _)

\* TopologyLeftIter: stops before a cohort of another window; enclosed ones are
\* stepped over.
Leftward(d, t, c) ==
  LET rest == {e \in 1 .. c - 1 : e \notin d.enclosed}
      stop == c > 1 /\ d.window[c - 1] # d.window[c] /\ ~SpansTo(t, "SPAN_LEFT") /\ ~AlwaysSpan
  IN  <<c>> \o IF stop \/ rest = {} THEN <<>> ELSE Leftward(d, t, Max(rest))

\* MUTANT of Rightward: the edge of the window is not looked at.
RECURSIVE RightwardOver(_, _, _)
RightwardOver(d, t, c) ==
  LET rest == {e \in Ids(d) : e > c /\ e \notin d.enclosed}
  IN  <<c>> \o IF rest = {} THEN <<>> ELSE RightwardOver(d, t, Min(rest))

Rightward(d, t, c) ==
  LET rest == {e \in Ids(d) : e > c /\ e \notin d.enclosed}
      stop == c + 1 \in Ids(d) /\ d.window[c + 1] # d.window[c] /\ ~SpansTo(t, "SPAN_RIGHT") /\ ~AlwaysSpan
  IN  <<c>> \o IF stop \/ rest = {} THEN <<>> ELSE Rightward(d, t, Min(rest))

\* dep_parent through cohort_map, None when there is none.
ParentOf(d, c) ==
  CASE d.parent[c] = Orphan -> None [] d.parent[c] = 0 -> d.root [] OTHER -> d.parent[c]

\* span_good: whether e may be used by a test that started in the window of c.
SpanGood(d, t, c, e) ==
  /\ d.window[e] < d.window[c] => SpansTo(t, "SPAN_LEFT")
  /\ d.window[e] > d.window[c] => SpansTo(t, "SPAN_RIGHT")

\* DepParentIter: one step up after another, never to a cohort already left.
RECURSIVE Upward(_, _, _, _)
Upward(d, t, c, seen) ==
  LET p == ParentOf(d, c)
  IN  IF p = None \/ p \in d.removed \/ p \in seen \/ ~(AlwaysSpan \/ SpanGood(d, t, c, p)) THEN <<>>
      ELSE <<p>> \o Upward(d, t, p, seen \union {c})

\* The ends of DepAncestorIter::reset and DepDescendentIter::reset.
Placed(d, t, c, S) ==
  LET left == IF Has(t, {"LEFT"}) THEN {e \in S : LessCohort(d, e, c)} ELSE S
      right == IF Has(t, {"RIGHT"}) THEN {e \in left : ~LessCohort(d, e, c)} ELSE left
      own == IF Has(t, {"SELF"}) THEN right \union {c} ELSE right
  IN  IF Has(t, {"RIGHTMOST"}) THEN Reverse(Ordered(d, own)) ELSE Ordered(d, own)

\* The climb ends at the top or where it has been; cohorts in windows out of reach
\* are climbed through.
RECURSIVE Ancestors(_, _, _, _, _)
Ancestors(d, t, c, e, found) ==
  LET p == ParentOf(d, e)
      good == p # None /\ SpanGood(d, t, c, p)
  IN  IF p = None \/ (good /\ p \in found) THEN found
      ELSE Ancestors(d, t, c, p, IF good THEN found \union {p} ELSE found)

RECURSIVE Descendents(_, _, _, _, _)
Descendents(d, t, c, found, seen) ==
  LET more == {e \in UNION {d.children[f] : f \in found \ seen} : SpanGood(d, t, c, e)}
  IN  IF more = {} THEN found ELSE Descendents(d, t, c, found \union more, seen \union found)

\* The iterator run_contextual_test picks for a test, or "none".
IteratorOf(t) ==
  CASE Has(t, {"DEP_PARENT"}) /\ Has(t, {"DEP_GLOB"}) -> "ancestors"
    [] Has(t, {"DEP_PARENT"}) /\ ~Has(t, {"DEP_GLOB"}) -> "parents"
    [] Has(t, {"DEP_GLOB"}) /\ ~Has(t, {"DEP_PARENT"}) -> "descendents"
    [] OTHER -> IF Has(t, {"DEP_CHILD", "DEP_SIBLING", "LEFT_PAR", "RIGHT_PAR", "RELATION", "BAG_OF_TAGS"})
                   \/ (t.offset = 0 /\ Has(t, Scans)) THEN "none"
                ELSE IF t.offset < 0 THEN "left" ELSE IF t.offset > 0 THEN "right" ELSE "plain"

Yields(d, t, c) ==
  CASE IteratorOf(t) = "ancestors" -> Placed(d, t, c, Ancestors(d, t, c, c, {}))
    [] IteratorOf(t) = "parents" -> Upward(d, t, c, {})
    [] IteratorOf(t) = "descendents" ->
         Placed(d, t, c, Descendents(d, t, c, {e \in d.children[c] : SpanGood(d, t, c, e)}, {c}))
    [] IteratorOf(t) = "left" -> Leftward(d, t, c)
    [] IteratorOf(t) = "right" -> Rightward(d, t, c)
    [] OTHER -> <<c>>

\* get_cohort_in_window: the cohort at an offset, one window further at most.
CohortAt(d, w, t, position) ==
  LET side == IF w > 1 /\ Has(t, {"SPAN_LEFT"}) THEN w - 1
              ELSE IF w < d.windows /\ Has(t, {"SPAN_RIGHT"}) THEN w + 1 ELSE 0
      v == IF Has(t, {"ABSOLUTE"}) /\ Has(t, {"SPAN_LEFT", "SPAN_RIGHT"}) THEN side ELSE w
      len(u) == Len(Visible(d, u))
      p == IF ~Has(t, {"ABSOLUTE"}) THEN position + t.offset
           ELSE IF t.offset < 0 THEN len(v) + t.offset ELSE t.offset
      place == IF p >= len(v) /\ SpansTo(t, "SPAN_RIGHT") /\ v < d.windows THEN [w |-> v + 1, p |-> 0]
               ELSE IF p < 0 /\ SpansTo(t, "SPAN_LEFT") /\ v > 1 THEN [w |-> v - 1, p |-> len(v - 1) - 1]
               ELSE [w |-> v, p |-> p]
      nowhere == [w |-> w, p |-> position + t.offset, at |-> None]
  IN  IF v = 0 THEN nowhere
      ELSE place @@ [at |-> IF place.p \in 0 .. len(place.w) - 1 THEN Visible(d, place.w)[place.p + 1] ELSE None]

-----------------------------------------------------------------------------
(* Matching a cohort.  x is [ok, stop, s, ctx]: the outcome so far, whether the   *)
(* loop over the readings is over, the state of the test and CohortMatchContext.  *)

RECURSIVE RunContextualTest(_, _, _, _, _, _), RunSingleTest(_, _, _, _, _, _),
          RunTmpl(_, _, _, _, _, _, _), RunDependencyTest(_, _, _, _, _, _), TestLinked(_, _, _)

NoContext == [test |-> None, origin |-> None, pos |-> {}, did |-> FALSE, target |-> FALSE,
              tests |-> FALSE, barrier |-> FALSE]

\* What a cohort makes of its LINK, where r is what the test of the link gave.
Linked(x, link, reset, popped, r) ==
  LET ran == link # None /\ ~x.ctx.did
      ok == IF ran THEN r.at # None ELSE link = None \/ x.ctx.tests
      after == IF ran THEN r.s ELSE popped
      pushed == IF reset THEN [after EXCEPT !.links = Append(@, link)] ELSE after
  IN  [x EXCEPT !.ok = ok,
         !.s = IF ok THEN pushed
               ELSE [pushed EXCEPT !.min = IF reset THEN x.s.min ELSE None,
                                   !.max = IF reset THEN x.s.max ELSE None],
         !.ctx.tests = IF ran THEN ok ELSE @, !.ctx.did = @ \/ ran]

\* does_set_match_cohort_test_linked: the LINK of the test, or that of the
\* innermost template it stands in, once for the cohort.
TestLinked(d, c, x) ==
  LET own == IF x.ctx.test = None THEN None ELSE d.tests[x.ctx.test].linked
      reset == own = None /\ x.s.links # <<>>
      link == IF reset THEN Last(x.s.links) ELSE own
      popped == IF reset THEN [x.s EXCEPT !.links = Front(@)] ELSE x.s
      from == IF "NO_PASS_ORIGIN" \in d.tests[link].pos THEN c ELSE x.ctx.origin
  IN  Linked(x, link, reset, popped,
             RunContextualTest(d, popped, d.window[c], Local(d, c), link, from))

\* ATTACHTO takes the cohort whose test and link hold.
Attached(c, z) == IF z.ok /\ "ATTACH_TO" \in z.ctx.pos THEN [z EXCEPT !.s.attach = c] ELSE z

\* does_set_match_cohort_helper for one reading.
Helper(d, c, reading, set, x) ==
  LET m == set = AnySet \/ set \in reading
      y == [x EXCEPT !.ctx.target = @ \/ m, !.ok = m /\ "NOT" \notin x.ctx.pos]
  IN  IF ~y.ok \/ x.ctx.barrier THEN y ELSE Attached(c, TestLinked(d, c, y))

\* The readings a test looks at, in their order.
Gathered(d, c, pos) ==
  d.lists[c].readings \o (IF "LOOK_DELETED" \in pos THEN d.lists[c].deleted ELSE <<>>)
    \o (IF "LOOK_DELAYED" \in pos THEN d.lists[c].delayed ELSE <<>>)
    \o (IF "LOOK_IGNORED" \in pos THEN d.lists[c].ignored ELSE <<>>)

\* Nothing matched: a test with NOT goes on to its LINK.
Negated(d, c, x) ==
  IF ~x.stop /\ ~x.ctx.target /\ "NOT" \in x.ctx.pos THEN TestLinked(d, c, x) ELSE x

\* Any reading, when the static one did not decide.
AnyReading(d, c, set, static) ==
  LET linked == static.ctx.test # None /\ d.tests[static.ctx.test].linked # None
      Also(y, h) == LET ok == y.ok \/ h.ok IN [h EXCEPT !.ok = ok, !.stop = ok /\ (~linked \/ h.ctx.did)]
  IN  IF static.ok /\ static.ctx.did THEN static
      ELSE Negated(d, c, FoldLeft(LAMBDA y, reading : IF y.stop THEN y ELSE Also(y, Helper(d, c, reading, set, y)),
                                  [static EXCEPT !.stop = FALSE], Gathered(d, c, static.ctx.pos)))

\* does_set_match_cohort_normal: any reading, the static one first.  possible_sets
\* rules out only sets that no reading matches.
Normal(d, c, set, x) ==
  AnyReading(d, c, set, IF d.wread[c] = <<>> \/ x.ctx.barrier THEN [x EXCEPT !.ok = FALSE]
                        ELSE Helper(d, c, d.wread[c][1], set, x))

\* does_set_match_cohort_careful: every reading, up to the first that does not.
Careful(d, c, set, x) ==
  LET UpTo(h) == [h EXCEPT !.stop = ~h.ok]
      Open(end) == [end EXCEPT !.stop = FALSE]
  IN  Negated(d, c, Open(FoldLeft(LAMBDA y, reading : IF y.stop THEN y ELSE UpTo(Helper(d, c, reading, set, y)),
                                  [x EXCEPT !.ok = FALSE, !.stop = FALSE], Gathered(d, c, x.ctx.pos))))

\* The barrier of a test, and its careful barrier, with the rest of its flags: also
\* with NOT, under which it is met where the set does not match.
Blocks(d, c, t, s) ==
  LET ctx == [NoContext EXCEPT !.pos = t.pos \ {"CAREFUL"}, !.barrier = TRUE]
      x == [ok |-> FALSE, stop |-> FALSE, s |-> s, ctx |-> ctx]
  IN  \/ t.barrier # "" /\ Normal(d, c, t.barrier, x).ok
      \/ t.cbarrier # "" /\ Careful(d, c, t.cbarrier, [x EXCEPT !.ctx.pos = t.pos \union {"CAREFUL"}]).ok

\* A scan or an offset is back at the origin of the test.
Looped(d, c, t, origin) ==
  (t.offset # 0 \/ Has(t, Scans)) /\ origin = c /\ Local(d, c) # 0

\* The target of the test, with C first carefully and then, for a scan, anyhow.
TargetMatches(d, c, t, x) ==
  LET Relaxed(careful, again) == IF ~careful.ctx.target /\ Has(t, {"SCANFIRST"})
                                 THEN [again EXCEPT !.ok = careful.ok] ELSE careful
      Again(careful) == Relaxed(careful, Normal(d, c, t.target, [careful EXCEPT !.ctx.did = TRUE]))
  IN  IF Has(t, {"CAREFUL"}) THEN Again(Careful(d, c, t.target, x)) ELSE Normal(d, c, t.target, x)

\* What the outcome x says of the cohort and of the search.
Judged(d, c, t, rvs, looped, x) ==
  LET over == IF x.ctx.target /\ Has(t, {"SCANFIRST"}) THEN {"BREAK"}
              ELSE IF Has(t, Scans \union {"DEP_DEEP", "DEP_GLOB"}) THEN {} ELSE {"BREAK", "DEFAULT"}
      rvs1 == rvs \union over \union IF looped THEN {"BREAK"} ELSE {}
      blocks == ~looped /\ Blocks(d, c, t, x.s)
      rvs2 == IF blocks THEN (rvs1 \union {"BREAK", "BARRIER"}) \ {"DEFAULT"} ELSE rvs1
      rvs3 == IF x.ctx.target /\ x.ok THEN rvs2 \union {"BREAK"} ELSE rvs2
      free == "BREAK" \notin rvs1 /\ "BARRIER" \in rvs3 /\ {"SELF", "NO_BARRIER"} \subseteq t.pos
  IN  [at |-> IF looped THEN None ELSE c, ok |-> x.ok,
       rvs |-> IF free THEN rvs3 \ {"BREAK", "BARRIER"} ELSE rvs3,
       s |-> IF blocks THEN [x.s EXCEPT !.barrier = TRUE] ELSE x.s]

\* run_single_test: does this cohort do, and is the search over?  rvs is a set of
\* BREAK, DEFAULT (a test of one place ends after it) and BARRIER.
RunSingleTest(d, s, c, i, rvs, origin) ==
  LET t == d.tests[i]
      s1 == [s EXCEPT !.deep = c, !.mark = IF Has(t, {"MARK_SET"}) THEN c ELSE @,
                      !.with = IF Has(t, {"WITH"}) THEN c ELSE @]
      x0 == [ok |-> FALSE, stop |-> FALSE, s |-> s1,
             ctx |-> [NoContext EXCEPT !.test = i, !.origin = origin, !.pos = t.pos]]
  IN  Judged(d, c, t, rvs, Looped(d, c, t, origin), TargetMatches(d, c, t, x0))

RunSingleTestAt(d, s, w, p, i, origin) ==
  IF p \in 0 .. Len(Visible(d, w)) - 1
  THEN RunSingleTest(d, s, Visible(d, w)[p + 1], i, {}, origin)
  ELSE [at |-> None, ok |-> FALSE, rvs |-> {"BREAK"}, s |-> s]

-----------------------------------------------------------------------------
(* The ways a test goes through the document.  They return the cohort found, or   *)
(* None, in at.                                                                   *)

\* run_iter: the cohorts of the iterator one after another, with S the cohort at
\* the given position first.
IterSelf(fresh, self) ==
  LET rvs == IF ~self.ok /\ "DEFAULT" \in self.rvs THEN self.rvs \ {"BREAK", "DEFAULT"} ELSE self.rvs
  IN  [fresh EXCEPT !.at = self.at, !.ok = self.ok, !.rvs = rvs, !.s = self.s, !.seen = TRUE,
                    !.stop = "BREAK" \in rvs]

IterTested(t, e, r) ==
  LET out == (Has(t, {"ALL"}) /\ ~r.ok) \/ (Has(t, {"NONE"}) /\ r.ok)
  IN  [at |-> IF out THEN None ELSE r.at, ok |-> r.ok, rvs |-> r.rvs, s |-> r.s, seen |-> TRUE,
       from |-> e, stop |-> out \/ "BREAK" \in r.rvs]

IterOver(t, c, end) ==
  LET ok == end.ok /\ end.seen
  IN  IF ~ok /\ Has(t, {"NONE"}) THEN [at |-> c, ok |-> TRUE, s |-> end.s]
      ELSE [at |-> end.at, ok |-> ok, s |-> end.s]

RunIter(d, s, w, position, c, i, origin) ==
  LET t == d.tests[i]
      fresh == [at |-> None, ok |-> TRUE, rvs |-> {}, s |-> s, seen |-> FALSE, from |-> c, stop |-> FALSE]
      own == Has(t, {"SELF"}) /\ (~Has(t, Sides) \/ IteratorOf(t) = "parents")
      Turned(y, e) == \/ Has(t, {"LEFT"}) /\ LessCohort(d, y.from, e)
                      \/ Has(t, {"RIGHT"}) /\ ~LessCohort(d, y.from, e)
  IN  IterOver(t, c, FoldLeft(
        LAMBDA y, e : CASE y.stop -> y
                        [] ~y.stop /\ Turned(y, e) -> [y EXCEPT !.at = None, !.ok = FALSE, !.seen = TRUE, !.stop = TRUE]
                        [] OTHER -> IterTested(t, e, RunSingleTest(d, y.s, e, i, y.rvs, origin)),
        IF own THEN IterSelf(fresh, RunSingleTest(d, s, Visible(d, w)[position + 1], i, {}, origin)) ELSE fresh,
        Yields(d, t, c)))

\* run_scan: *0, at distance n first to the left and then to the right.
ScannedLeft(d, y, n, t, r) ==
  LET z == [y EXCEPT !.at = r.at, !.ok = r.ok, !.s = r.s]
      further == SpansTo(t, "SPAN_LEFT") \/ AlwaysSpan
  IN  CASE y.stop \/ y.left = 0 -> y
        [] ~(y.stop \/ y.left = 0) /\ "BREAK" \in r.rvs ->
             [z EXCEPT !.stop = r.ok, !.left = 0, !.right = IF Has(t, {"NOT"}) THEN 0 ELSE @]
        [] OTHER ->
             IF y.lpos # n THEN z
             ELSE IF ~further \/ y.left = 1 THEN [z EXCEPT !.left = 0]
             ELSE [z EXCEPT !.left = @ - 1, !.lpos = n + Len(Visible(d, y.left - 1))]

ScanLeft(d, y, n, i, origin) ==
  ScannedLeft(d, y, n, d.tests[i], RunSingleTestAt(d, y.s, y.left, y.lpos - n, i, origin))

ScannedRight(d, y, n, t, r) ==
  LET z == [y EXCEPT !.at = r.at, !.ok = r.ok, !.s = r.s]
      further == SpansTo(t, "SPAN_RIGHT") \/ AlwaysSpan
  IN  CASE y.stop \/ y.right = 0 -> y
        [] ~(y.stop \/ y.right = 0) /\ "BREAK" \in r.rvs ->
             [z EXCEPT !.stop = r.ok, !.right = 0, !.left = IF Has(t, {"NOT"}) THEN 0 ELSE @]
        [] OTHER ->
             IF y.rpos + n # Len(Visible(d, y.right)) - 1 THEN z
             ELSE IF ~further \/ y.right = d.windows THEN [z EXCEPT !.right = 0]
             ELSE [z EXCEPT !.right = @ + 1, !.rpos = -n - 1]

ScanRight(d, y, n, i, origin) ==
  ScannedRight(d, y, n, d.tests[i], RunSingleTestAt(d, y.s, y.right, y.rpos + n, i, origin))

RECURSIVE ScanFrom(_, _, _, _, _)
ScanFrom(d, y, n, i, origin) ==
  IF y.stop \/ (y.left = 0 /\ y.right = 0) THEN y
  ELSE ScanFrom(d, ScanRight(d, ScanLeft(d, y, n, i, origin), n, i, origin), n + 1, i, origin)

RunScan(d, s, w, c, pos, i, origin) ==
  LET start == [left |-> w, right |-> w, lpos |-> pos, rpos |-> pos, at |-> c, ok |-> TRUE, s |-> s,
                stop |-> FALSE]
      Probed(self) == [start EXCEPT !.at = self.at, !.ok = self.ok, !.s = self.s,
                                    !.stop = self.ok /\ "BREAK" \in self.rvs]
  IN  ScanFrom(d, IF Has(d.tests[i], {"SELF"}) THEN Probed(RunSingleTest(d, s, c, i, {}, origin)) ELSE start,
               1, i, origin)

\* The cohorts run_dependency_test walks: children or siblings, by number.
Dependents(d, t, c) ==
  LET top == Visible(d, d.window[c])[1]
      S == IF Has(t, {"DEP_CHILD"}) THEN d.children[c]
           ELSE IF d.parent[c] = 0 THEN d.children[top]
           ELSE IF ParentOf(d, c) = None THEN {} ELSE d.children[ParentOf(d, c)]
      side == IF Has(t, {"LEFT"}) THEN {e \in S : LessCohort(d, e, c)}
              ELSE IF Has(t, {"RIGHT"}) THEN {e \in S : LessCohort(d, c, e)} ELSE S
      some == Has(t, {"DEP_CHILD"}) \/ d.parent[c] = 0 \/ S # {}
      all == IF some /\ Has(t, Sides) /\ Has(t, {"SELF"}) THEN side \union {c} ELSE side
      up == SetToSortSeq(all, <)
  IN  IF Has(t, {"RIGHTMOST"}) THEN Reverse(up) ELSE up

\* A cohort that was tested decides, or a deep test goes on below it.
DepTested(d, t, y, e, i, origin, first, r) ==
  LET down == RunDependencyTest(d, r.s, e, i, origin, first)
  IN  IF Has(t, {"ALL"}) THEN [at |-> IF r.ok THEN e ELSE None, stop |-> ~r.ok, s |-> r.s]
      ELSE IF r.ok THEN [at |-> e, stop |-> TRUE, s |-> r.s]
      ELSE IF Has(t, {"DEP_DEEP"}) /\ "BARRIER" \notin r.rvs
      THEN [at |-> IF down.at = None THEN y.at ELSE down.at, stop |-> down.at # None, s |-> down.s]
      ELSE [y EXCEPT !.s = r.s]

\* The children or siblings of c one after another.
DependentsFrom(d, t, s, c, i, origin, first) ==
  LET Passed(y, e) == y.stop \/ e \in d.removed \/ (e = c /\ ~Has(t, {"SELF"}))
      Missed(y) == [at |-> None, ok |-> FALSE, rvs |-> {}, s |-> y.s]
  IN  FoldLeft(LAMBDA y, e : IF Passed(y, e) THEN y
                             ELSE DepTested(d, t, y, e, i, origin, first,
                                            IF SpanGood(d, t, c, e) THEN RunSingleTest(d, y.s, e, i, {}, origin)
                                            ELSE Missed(y)),
               [at |-> None, stop |-> FALSE, s |-> s], Dependents(d, t, c))

\* run_dependency_test: c, s and their * and S.  A deep test visits a node once.
RunDependencyTest(d, s, c, i, origin, self) ==
  LET t == d.tests[i]
      first == IF self = None THEN c ELSE self
      deep == Has(t, {"DEP_DEEP"})
      s1 == IF deep THEN [s EXCEPT !.seen = @ \union {<<i, c>>}] ELSE s
      probes == Has(t, {"SELF"}) /\ ~Has(t, Sides)
      Found(r) == [at |-> r.at, s |-> r.s]
      After(own) == IF probes /\ (own.ok \/ "BARRIER" \in own.rvs)
                    THEN [at |-> IF own.ok THEN own.at ELSE None, s |-> own.s]
                    ELSE Found(DependentsFrom(d, t, IF probes THEN own.s ELSE s1, c, i, origin, first))
  IN  IF self = c \/ (deep /\ <<i, c>> \in s.seen) THEN [at |-> None, s |-> s]
      ELSE After(RunSingleTest(d, s1, c, i, {}, origin))

\* run_parenthesis_test: L and R, the ends of the enclosure shown last.
RunParenthesisTest(d, s, w, c, i, origin) ==
  LET edge == Visible(d, w)[(IF Has(d.tests[i], {"LEFT_PAR"}) THEN d.par[1] ELSE d.par[2]) + 1]
      r == RunSingleTest(d, s, edge, i, {}, origin)
  IN  IF Local(d, c) \notin d.par[1] .. d.par[2] THEN [at |-> None, s |-> s]
      ELSE [at |-> IF r.ok THEN edge ELSE None, s |-> r.s]

\* run_relation_test: r:name.
RunRelationTest(d, s, c, i, origin) ==
  LET t == d.tests[i]
      S == {p[2] : p \in {q \in d.relations[c] : t.relation \in {AnySet, q[1]}}}
      left == IF Has(t, {"LEFT"}) THEN {e \in S : LessCohort(d, e, c)} ELSE S
      right == IF Has(t, {"RIGHT"}) THEN {e \in left : ~LessCohort(d, e, c)} ELSE left
      all == Ordered(d, IF Has(t, {"SELF"}) THEN right \union {c} ELSE right)
      picked == IF all = <<>> THEN all ELSE IF Has(t, {"LEFTMOST"}) THEN <<Head(all)>>
                ELSE IF Has(t, {"RIGHTMOST"}) THEN <<Last(all)>> ELSE all
      Tested(e, r) == [at |-> IF r.ok THEN e ELSE None, stop |-> r.ok # Has(t, {"ALL"}), s |-> r.s]
      Found(end) == [at |-> end.at, s |-> end.s]
  IN  IF d.relations[c] = {} THEN [at |-> None, s |-> s]
      ELSE Found(FoldLeft(LAMBDA y, e : IF y.stop THEN y ELSE Tested(e, RunSingleTest(d, y.s, e, i, {}, origin)),
                          [at |-> None, stop |-> FALSE, s |-> s], picked))

\* B: the tags of a window, and with a span those of its neighbours, the right one
\* asked after the left one.
RECURSIVE BagAround(_, _, _, _)
BagAround(d, t, left, right) ==
  LET l == left > 0 /\ Has(t, {"SPAN_BOTH", "SPAN_LEFT"})
      r == right <= d.windows /\ Has(t, {"SPAN_BOTH", "SPAN_RIGHT"})
      m == IF r THEN t.target \in d.bag[right] ELSE l /\ t.target \in d.bag[left]
  IN  (l \/ r) /\ (m \/ BagAround(d, t, IF l THEN left - 1 ELSE 0, IF r THEN right + 1 ELSE d.windows + 1))

InBag(d, t, w) == t.target \in d.bag[w] \/ BagAround(d, t, w - 1, w + 1)

-----------------------------------------------------------------------------
(* Templates and the test as a whole.                                           *)

\* tmpl_cntx.min and max: the first and the last cohort a template has touched.
Extended(d, s, c) ==
  LET Before(a, b) == <<d.window[a], Local(d, a)>> # <<d.window[b], Local(d, b)>> /\
                      (d.window[a] < d.window[b] \/ (d.window[a] = d.window[b] /\ Local(d, a) < Local(d, b)))
  IN  [s EXCEPT !.min = IF @ = None \/ Before(c, @) THEN c ELSE @,
                !.max = IF @ = None \/ Before(@, c) THEN c ELSE @]

\* pos_output_helper: whether what an overridden template found lies where the
\* overriding test asks for it.
PosOutputHelper(d, s, w, position, t, at) ==
  LET S == {at, s.deep} \union ({s.min, s.max} \ {None})
      first == Local(d, Head(Ordered(d, S)))
      last == Local(d, Last(Ordered(d, S)))
  IN  /\ \/ Has(t, Scans \union {"ABSOLUTE"})
         \/ t.offset > 0 /\ first - position = t.offset
         \/ t.offset < 0 /\ last - position = t.offset
      /\ Has(t, Spans) \/ d.window[s.deep] = w
      /\ ~Has(t, {"PASS_ORIGIN"}) =>
           ~((t.offset < 0 /\ last > position) \/ (t.offset > 0 /\ first < position))

\* The template k with the place and the barriers of the test i put over its own.
Overridden(t, k) ==
  [k EXCEPT !.pos = (t.pos \ {"NEGATE", "NOT", "JUMP"}) \union
                      IF t.offset # 0 /\ ~Has(t, Scans \union {"ABSOLUTE"}) THEN {"SCANALL"} ELSE {},
            !.offset = t.offset, !.barrier = IF t.barrier = "" THEN @ ELSE t.barrier,
            !.cbarrier = IF t.cbarrier = "" THEN @ ELSE t.cbarrier]

RunTmpl(d, s, w, position, i, k, origin) ==
  LET t == d.tests[i]
      over == Has(t, {"TMPL_OVERRIDE"})
      e == IF over THEN [d EXCEPT !.tests[k] = Overridden(t, @)] ELSE d
      s1 == [s EXCEPT !.inside = TRUE, !.links = IF t.linked = None THEN @ ELSE Append(@, t.linked)]
      r == RunContextualTest(e, s1, w, position, k, origin)
      good == r.at # None /\ (over /\ r.s.deep # None /\ t.offset # 0 =>
                                PosOutputHelper(d, r.s, w, position, t, r.at))
      s2 == IF t.linked = None THEN r.s ELSE [r.s EXCEPT !.links = Front(@)]
  IN  IF good THEN [at |-> r.at, s |-> s2]
      ELSE [at |-> None, s |-> [s2 EXCEPT !.min = s.min, !.max = s.max, !.inside = s.inside]]

\* MUTANT of Finalize: NOT without a cohort stays a failure.
FinalizeStrict(d, w, t, at, ok) ==
  LET held == at # None /\ ok
      result == IF Has(t, {"NEGATE"}) THEN ~held ELSE held
  IN  IF ~result THEN None ELSE IF at = None THEN Visible(d, w)[1] ELSE at

\* finalize_got_a_cohort: NOT and NEGATE; what holds without a cohort yields the
\* first one of the window.
Finalize(d, w, t, at, ok) ==
  LET held == (at # None /\ ok) \/ (at = None /\ Has(t, {"NOT"}) /\ t.linked = None)
      result == IF Has(t, {"NEGATE"}) THEN ~held ELSE held
  IN  IF ~result THEN None ELSE IF at = None THEN Visible(d, w)[1] ELSE at

\* The part of run_contextual_test for a cohort c found at the place of the test.
RunFrom(d, s, w0, position, p, i, origin0) ==
  LET t == d.tests[i]
      c == p.at
      origin == IF Has(t, {"PASS_ORIGIN"}) THEN Visible(d, p.w)[1] ELSE origin0
      s0 == [s EXCEPT !.deep = c]
      s1 == IF s.inside THEN Extended(d, s0, c) ELSE s0
      link == RunContextualTest(d, s1, p.w, position, t.linked, origin)
      bag == InBag(d, t, p.w) # Has(t, {"NOT"})
      Going(r, none) == [at |-> IF r.at = None THEN c ELSE r.at, ok |-> (r.at # None) # none, s |-> r.s,
                         w |-> IF r.at = None THEN p.w ELSE d.window[r.at]]
      Here(r) == [at |-> r.at, ok |-> r.ok, s |-> r.s, w |-> p.w]
  IN  IF IteratorOf(t) # "none" THEN Here(RunIter(d, s1, w0, position, c, i, origin))
      ELSE IF Has(t, {"DEP_CHILD", "DEP_SIBLING"}) THEN Going(RunDependencyTest(d, s1, c, i, origin, None), Has(t, {"NONE"}))
      ELSE IF Has(t, {"LEFT_PAR", "RIGHT_PAR"}) THEN Going(RunParenthesisTest(d, s1, p.w, c, i, origin), FALSE)
      ELSE IF Has(t, {"RELATION"}) THEN Going(RunRelationTest(d, s1, c, i, origin), Has(t, {"NONE"}))
      ELSE IF Has(t, {"BAG_OF_TAGS"})
      THEN [at |-> IF bag /\ t.linked # None THEN link.at ELSE c, ok |-> bag, w |-> p.w,
            s |-> IF bag /\ t.linked # None THEN link.s ELSE s1]
      ELSE Here(RunScan(d, s1, p.w, c, p.p, i, origin))

RunContextualTest(d, s, w0, position0, i, origin) ==
  LET t == d.tests[i]
      jumps == Has(t, {"JUMP"})
      target == IF t.jump = "mark" THEN s.mark ELSE s.attach
      w == IF jumps THEN d.window[target] ELSE w0
      position == IF jumps THEN Local(d, target) ELSE position0
      bare == [s EXCEPT !.deep = None]
      tmpl == IF t.tmpl # None THEN RunTmpl(d, bare, w, position, i, t.tmpl, origin)
              ELSE FoldLeft(LAMBDA y, k : IF y.at # None THEN y
                              ELSE RunTmpl(d, [y.s EXCEPT !.seen = {}], w, position, i, k, origin),
                            [at |-> None, s |-> bare], t.ors)
      p == CohortAt(d, w, t, position)
      Ended(r) == [at |-> Finalize(d, r.w, t, r.at, r.ok), s |-> r.s]
  IN  IF jumps /\ target = None THEN [at |-> Finalize(d, w0, t, None, FALSE), s |-> s]
      ELSE IF t.tmpl # None \/ t.ors # <<>>
      THEN [at |-> Finalize(d, w, t, tmpl.at, tmpl.at # None), s |-> tmpl.s]
      ELSE IF p.at = None THEN [at |-> Finalize(d, p.w, t, None, FALSE), s |-> s]
      ELSE Ended(RunFrom(d, s, w0, position, p, i, origin))

-----------------------------------------------------------------------------
(* The rule: its tests on one reading of a cohort after another.                *)

VARIABLES
  doc,    \* the document, with the grammar
  order,  \* rule.tests: the tests in the order they are tried
  place,  \* [cohort, reading]: the place in the window of the cohort tried next
  frame,  \* [mark, attach]: RuleContext
  last,   \* history: [cohort, ok, found, order] of the last try, or NoTry
  tries

vars == <<doc, order, place, frame, last, tries>>

NoTry == [cohort |-> None, ok |-> FALSE, found |-> <<>>, order |-> <<>>]
RuleCohorts == Tail(Visible(doc, doc.rule.window))


\* One test of the rule, with the state of the tests before it.
TestOne(d, c, i, f) ==
  LET t == d.tests[i]
      resets == "RESETX" \in d.rule.flags \/ "REMEMBERX" \notin d.rule.flags
      s == [mark |-> IF resets THEN c ELSE f.mark, attach |-> f.attach, with |-> None, deep |-> None,
            seen |-> {}, min |-> None, max |-> None, links |-> <<>>, inside |-> FALSE, barrier |-> FALSE]
      kept == ~Has(t, {"PASS_ORIGIN"}) /\ (NoPassOrigin \/ Has(t, {"NO_PASS_ORIGIN"}))
  IN  RunContextualTest(d, s, d.window[c], Local(d, c), i, IF kept THEN c ELSE None)

\* The tests of the rule in an order, up to the first that fails.
RunTests(d, c, tests, f) ==
  LET And(y, r) == [ok |-> r.at # None, found |-> Append(y.found, r.at),
                    frame |-> [mark |-> r.s.mark, attach |-> r.s.attach]]
  IN  FoldLeft(LAMBDA y, i : IF ~y.ok THEN y ELSE And(y, TestOne(d, c, i, y.frame)),
               [ok |-> TRUE, found |-> <<>>, frame |-> f], tests)

\* A test that fails is tried first from now on.
Reordered(d, tests, n) ==
  IF "KEEPORDER" \in d.rule.flags THEN tests ELSE <<tests[n]>> \o RemoveAt(tests, n)

Init ==
  /\ doc \in Documents /\ order = doc.rule.tests
  /\ place = [cohort |-> 1, reading |-> 1]
  /\ frame = [mark |-> None, attach |-> None] /\ last = NoTry /\ tries = 0

\* What the rule keeps of a try on c, where r is what its tests gave.
Recorded(c, r) ==
  LET more == place.reading < Len(doc.lists[c].readings)
  IN  /\ last' = [cohort |-> c, ok |-> r.ok, found |-> r.found, order |-> order]
      /\ order' = IF r.ok THEN order ELSE Reordered(doc, order, Len(r.found))
      /\ frame' = r.frame
      /\ place' = IF more THEN [place EXCEPT !.reading = @ + 1]
                  ELSE [cohort |-> 1 + (place.cohort % Len(RuleCohorts)), reading |-> 1]

\* The rule on the next reading.  The frame lasts for the readings of a cohort.
Try ==
  LET c == RuleCohorts[place.cohort]
      f == [mark |-> c, attach |-> IF place.reading = 1 THEN None ELSE frame.attach]
  IN  /\ tries < MaxTries /\ tries' = tries + 1
      /\ Recorded(c, RunTests(doc, c, order, f))
      /\ UNCHANGED doc

Finished == tries = MaxTries /\ UNCHANGED vars

Next == Try \/ Finished
Spec == Init /\ [][Next]_vars
=============================================================================
