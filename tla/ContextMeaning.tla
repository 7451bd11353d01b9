----------------------------- MODULE ContextMeaning -----------------------------
(* What contextual tests are to mean, without iterators, flags that end a loop or  *)
(* a state that is handed on: the cohorts a test ranges over, which of them         *)
(* decides, and what must hold there.  For tests without marks, attachments and     *)
(* overridden templates, and for NOT without a barrier.                           *)
EXTENDS ContextTests

Readings(d, c, t) ==
  ToSet(Gathered(d, c, t.pos)) \union IF Has(t, {"CAREFUL"}) THEN {} ELSE ToSet(d.wread[c])
In(set, reading) == set = AnySet \/ set \in reading
SomeMatch(d, c, t) == \E r \in Readings(d, c, t) : In(t.target, r)
Matches(d, c, t) ==
  IF Has(t, {"CAREFUL"}) THEN \A r \in Readings(d, c, t) : In(t.target, r) ELSE SomeMatch(d, c, t)
Barred(d, c, t) ==
  \/ t.barrier # "" /\ \E r \in ToSet(d.lists[c].readings) : In(t.barrier, r)
  \/ t.cbarrier # "" /\ \A r \in ToSet(d.lists[c].readings) : In(t.cbarrier, r)

Shown(d) == Ids(d) \ d.enclosed

\* The cohorts to the right of c from the n-th on (to the left for n < 0), as far as
\* the test may go; without * only the first of them.
Reach(d, t, c, n) ==
  LET right == n > 0
      len == Len(Visible(d, d.window[c]))
      at == IF ~Has(t, {"ABSOLUTE"}) THEN Local(d, c) + n ELSE IF n < 0 THEN len + n ELSE n
      nth == {e \in Shown(d) : d.window[e] = d.window[c] /\ Local(d, e) = at}
      beyond == {e \in Shown(d) : IF right THEN d.window[e] = d.window[c] + 1 ELSE d.window[e] = d.window[c] - 1}
      far == {e \in beyond : SpanGood(d, t, c, e)}
      start == IF nth # {} THEN CHOOSE e \in nth : TRUE
               ELSE IF far = {} THEN None ELSE IF right THEN Min(far) ELSE Max(far)
      side == {e \in Shown(d) : IF right THEN e >= start ELSE e <= start}
  IN  IF start = None THEN <<>>
      ELSE IF ~Has(t, Scans) THEN <<start>>
      ELSE LET S == {e \in side : SpanGood(d, t, start, e)}
           IN  IF right THEN SetToSortSeq(S, <) ELSE SetToSortSeq(S, >)

RECURSIVE Parents(_, _)
Parents(d, c) == LET p == ParentOf(d, c) IN IF p = None THEN <<>> ELSE <<p>> \o Parents(d, p)

\* What a test without * or a window of its own ranges over.
Range1(d, t, c) ==
  CASE Has(t, {"DEP_PARENT"}) /\ Has(t, Scans) -> Parents(d, c)
    [] Has(t, {"DEP_PARENT"}) /\ ~Has(t, Scans) ->
         IF ParentOf(d, c) = None THEN <<>> ELSE <<ParentOf(d, c)>>
    [] OTHER -> IF t.offset = 0 THEN <<c>> ELSE Reach(d, t, c, t.offset)

UpTo(s, origin) == IF origin \in ToSet(s) THEN SubSeq(s, 1, (CHOOSE n \in DOMAIN s : s[n] = origin) - 1) ELSE s

RECURSIVE Holds(_, _, _, _, _)

\* The LINK of a test at cohort e, or what waits outside of the template.
Goes(d, t, e, origin, k) ==
  IF t.linked # None
  THEN Holds(d, t.linked, e, IF "NO_PASS_ORIGIN" \in d.tests[t.linked].pos THEN e ELSE origin, k)
  ELSE IF k # <<>> THEN Holds(d, Last(k), e, origin, Front(k)) ELSE TRUE

Good(d, t, e, origin, k) == Matches(d, e, t) /\ Goes(d, t, e, origin, k)

\* The first cohort that matches (with * and without LINK being asked) or that bars
\* the way decides.
Decided(d, t, s, origin, k) ==
  LET stops == {n \in DOMAIN s : \/ Barred(d, s[n], t)
                                 \/ IF Has(t, {"SCANFIRST"}) THEN SomeMatch(d, s[n], t)
                                    ELSE Good(d, t, s[n], origin, k)}
  IN  stops # {} /\ Good(d, t, s[Min(stops)], origin, k)

\* Below c, not further down than what bars the way.
RECURSIVE Deep(_, _, _, _, _)
Deep(d, t, S, origin, k) ==
  \/ \E e \in S : Good(d, t, e, origin, k)
  \/ LET next == UNION {d.children[e] : e \in {f \in S : ~Barred(d, f, t)}}
     IN  next # {} /\ Deep(d, t, next, origin, k)

Related(d, t, c) ==
  LET kin == IF Has(t, {"RELATION"}) THEN {p[2] : p \in {q \in d.relations[c] : t.relation \in {AnySet, q[1]}}}
             ELSE IF Has(t, {"DEP_CHILD"}) THEN d.children[c]
             ELSE {e \in Ids(d) : d.parent[e] = d.parent[c] /\ d.parent[c] # Orphan /\ e # c}
  IN  {e \in kin : (Has(t, {"LEFT"}) => e < c) /\ (Has(t, {"RIGHT"}) => e > c)}
        \union IF Has(t, {"SELF"}) THEN {c} ELSE {}

\* NOT: nothing in reach matches, and the LINK holds from where the test stands.
Absent(d, t, s, origin, k) ==
  /\ \A n \in DOMAIN s : ~SomeMatch(d, s[n], t)
  /\ t.linked # None => s # <<>> /\ Goes(d, t, s[1], origin, k)

Plainly(d, i, c, origin0, k) ==
  LET t == d.tests[i]
      origin == IF Has(t, {"PASS_ORIGIN"}) THEN None ELSE origin0
      kin == Related(d, t, c)
      there == Range1(d, t, c)
      own == IF Has(t, {"SELF"}) /\ (there # <<>> \/ t.offset = 0) THEN <<c>> ELSE <<>>
      s == UpTo(own \o there, origin)
  IN  CASE t.tmpl # None ->
             Holds(d, t.tmpl, c, origin0, IF t.linked = None THEN k ELSE Append(k, t.linked))
        [] t.ors # <<>> ->
             \E j \in ToSet(t.ors) : Holds(d, j, c, origin0, IF t.linked = None THEN k ELSE Append(k, t.linked))
        [] Has(t, {"DEP_CHILD", "DEP_SIBLING", "RELATION"}) ->
             IF Has(t, {"ALL"}) THEN kin # {} /\ \A e \in kin : Good(d, t, e, origin, k)
             ELSE (IF Has(t, {"DEP_DEEP"}) THEN Deep(d, t, kin, origin, k)
                   ELSE \E e \in kin : Good(d, t, e, origin, k)) # Has(t, {"NONE"})
        [] Has(t, {"DEP_GLOB"}) ->
             \E e \in IF Has(t, {"DEP_PARENT"}) THEN ToSet(Parents(d, c)) ELSE Descendents(d, t, c, d.children[c], {c}) :
               Good(d, t, e, origin, k)
        [] Has(t, {"LEFT_PAR", "RIGHT_PAR"}) ->
             /\ Local(d, c) \in d.par[1] .. d.par[2]
             /\ LET edge == Visible(d, d.window[c])[(IF Has(t, {"LEFT_PAR"}) THEN d.par[1] ELSE d.par[2]) + 1]
                IN  Good(d, t, edge, origin, k)
        [] Has(t, {"BAG_OF_TAGS"}) ->
             (t.target \in d.bag[d.window[c]]) # Has(t, {"NOT"}) /\ Goes(d, t, c, origin, k)
        [] OTHER ->
             IF Has(t, {"NOT"}) THEN Absent(d, t, s, origin, k)
             ELSE IF t.offset = 0 /\ Has(t, Scans) /\ ~Has(t, {"DEP_PARENT"})
             THEN \E n \in {-1, 1} : Decided(d, t, UpTo(Reach(d, t, c, n), origin), origin, k)
             ELSE Decided(d, t, s, origin, k)

\* Whether test i holds from cohort c, with the origin it must not pass and the
\* LINKs of the templates around it.
Holds(d, i, c, origin, k) == Plainly(d, i, c, origin, k) # Has(d.tests[i], {"NEGATE"})

OriginFor(d, i, c) ==
  IF ~Has(d.tests[i], {"PASS_ORIGIN"}) /\ (NoPassOrigin \/ Has(d.tests[i], {"NO_PASS_ORIGIN"})) THEN c ELSE None

Meant(d, c) == \A i \in ToSet(d.rule.tests) : Holds(d, i, c, OriginFor(d, i, c), <<>>)

-----------------------------------------------------------------------------
(* Properties.                                                                  *)

Tried == last # NoTry

\* The tests a test leads to.
RECURSIVE Chain(_, _)
Chain(d, i) ==
  LET t == d.tests[i]
  IN  {i} \union UNION {Chain(d, j) : j \in ({t.linked, t.tmpl} \ {None}) \union ToSet(t.ors)}

\* Nothing the meaning above leaves out.
Simple(d) ==
  \A i \in UNION {Chain(d, j) : j \in ToSet(d.rule.tests)} :
    ~Has(d.tests[i], {"JUMP", "MARK_SET", "ATTACH_TO", "WITH", "TMPL_OVERRIDE"})

\* A rule's tests succeed on a reading exactly when each of them holds: the nearest
\* cohort that matches or bars the way decides, no scan goes past its origin, a
\* LINK is asked from the cohort found, through templates too
\* (run_contextual_test, run_single_test, run_iter, run_scan, run_dependency_test).
MeaningKept == Tried /\ Simple(doc) => (last.ok <=> Meant(doc, last.cohort))

\* A test jumps to the cohort that a test, the same or another, attaches to.
JumpsToAttachment(d) ==
  LET all == UNION {Chain(d, j) : j \in ToSet(d.rule.tests)}
  IN  /\ \E i \in all : Has(d.tests[i], {"ATTACH_TO"})
      /\ \E i \in all : Has(d.tests[i], {"JUMP"}) /\ d.tests[i].jump = "attach"


=============================================================================
