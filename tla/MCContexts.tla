------------------------------- MODULE MCContexts -------------------------------
(* Small documents and the tests that are run in them.                        *)
EXTENDS ContextMeaning

At(offset, target) ==
  [pos |-> {}, offset |-> offset, target |-> target, barrier |-> "", cbarrier |-> "", linked |-> None,
   tmpl |-> None, ors |-> <<>>, jump |-> "", relation |-> ""]
With(t, flags) == [t EXCEPT !.pos = @ \union flags]
First(n, target) == With(At(n, target), {"SCANFIRST"})
All(n, target) == With(At(n, target), {"SCANALL"})
Barrier(t, set) == [t EXCEPT !.barrier = set]
CBarrier(t, set) == [t EXCEPT !.cbarrier = set]
Careful_(t) == With(t, {"CAREFUL"})
Not(t) == With(t, {"NOT"})
Negate(t) == With(t, {"NEGATE"})
Dep(flag, target) == With(At(0, target), {flag})
Rel(name, target) == [Dep("RELATION", target) EXCEPT !.relation = name]
Link(t, i) == [t EXCEPT !.linked = i]
Tmpl(t, i) == [t EXCEPT !.tmpl = i]
Ors(t, s) == [t EXCEPT !.ors = s]
Jump(t, to) == [With(t, {"JUMP"}) EXCEPT !.jump = to]

\* A cohort: its readings, each the sets it is in.
Lists_(rs) == [l \in Lists |-> IF l = "readings" THEN rs ELSE <<>>]
\* Two windows, >>> before each; the rule runs on the first or the second.
Text(ws, w) ==
  LET begin == <<{"begin"}>>
      flat == FlattenSeq([n \in DOMAIN ws |-> <<begin>> \o ws[n]])
      of == FlattenSeq([n \in DOMAIN ws |-> [m \in 1 .. Len(ws[n]) + 1 |-> n]])
      ids == DOMAIN flat
  IN  [windows |-> Len(ws), window |-> of, enclosed |-> {}, removed |-> {},
       lists |-> [c \in ids |-> Lists_(flat[c])], wread |-> [c \in ids |-> <<>>],
       parent |-> [c \in ids |-> Orphan], children |-> [c \in ids |-> {}], root |-> 1,
       relations |-> [c \in ids |-> {}],
       bag |-> [n \in DOMAIN ws |-> UNION {UNION ToSet(ws[n][m]) : m \in DOMAIN ws[n]}],
       par |-> <<0, 0>>, tests |-> <<>>, rule |-> [tests |-> <<>>, flags |-> {}, window |-> w]]
Tree(d, p) ==
  [d EXCEPT !.parent = p, !.children = [c \in Ids(d) |-> {e \in Ids(d) : p[e] = c \/ (p[e] = 0 /\ c = d.root)}]]
\* d with tests ts, of which the rule has those numbered rs.
Rule(d, ts, rs) == [d EXCEPT !.tests = ts, !.rule.tests = rs]
Grammar(D, G) == {Rule(d, g[1], g[2]) : d \in D, g \in G}

T == <<{"T"}>>      B == <<{"B"}>>      N == <<{"N"}>>
TN == <<{"T"}, {"N"}>>      NT == <<{"N"}, {"T"}>>      U == <<{"U"}>>      TB == <<{"T", "B"}>>

Words == {T, B, N, TN, NT, U}
Lines == {Text(<<<<N, a, b, c>>>>, 1) : a \in {N, T, U}, b \in Words, c \in {B, T, NT, U}}
Pairs == {Text(<<<<a, N, b>>, <<c, U>>>>, w) : a \in {T, U}, b \in {N, B}, c \in {T, NT, B}, w \in {1, 2}}

\* One test or two, on a line.
OneTests ==
  {<<At(1, "T")>>, <<At(-1, "T")>>, <<First(1, "T")>>, <<First(-1, "T")>>, <<First(0, "T")>>,
   <<Careful_(First(1, "T"))>>, <<Careful_(All(1, "T"))>>, <<Careful_(At(1, "T"))>>,
   <<Barrier(First(1, "T"), "B")>>, <<Barrier(All(-1, "T"), "U")>>, <<CBarrier(First(1, "U"), "T")>>,
   <<Barrier(First(0, "T"), "B")>>, <<Barrier(Careful_(First(-1, "T")), "N")>>,
   <<Not(At(1, "T"))>>, <<Not(First(1, "T"))>>, <<Not(First(-1, "U"))>>,
   <<Negate(First(1, "T"))>>, <<Negate(Careful_(First(-1, "T")))>>, <<With(First(1, "T"), {"SELF"})>>}
LinkedTests ==
  {<<Link(First(1, "T"), 2), At(1, "U")>>, <<Link(All(1, "T"), 2), At(1, "U")>>,
   <<Link(First(-1, "N"), 2), First(1, "T")>>, <<Link(First(-1, "N"), 2), With(First(1, "T"), {"NO_PASS_ORIGIN"})>>,
   <<Link(First(1, "U"), 2), With(Not(First(-1, "T")), {"PASS_ORIGIN"})>>,
   <<Link(First(1, "U"), 2), Barrier(First(-1, "T"), "B")>>,
   <<Link(Not(At(1, "T")), 2), First(-1, "U")>>, <<Link(Careful_(First(1, "T")), 2), Negate(First(1, "U"))>>,
   <<Tmpl(Link(At(0, AnySet), 3), 2), First(1, "T"), At(1, "U")>>,
   <<Ors(Link(At(0, AnySet), 4), <<2, 3>>), At(1, "T"), First(-1, "T"), Not(At(1, "B"))>>,
   <<Tmpl(Negate(At(0, AnySet)), 2), Link(First(1, "T"), 3), First(-1, "U")>>}
Singly(G) == {<<g, <<1>>>> : g \in G}
TwoTests == {<<<<First(1, "T"), At(-1, "U")>>, <<1, 2>>>>, <<<<Not(At(1, "T")), First(-1, "T"), At(0, "U")>>, <<1, 2, 3>>>>}

OnLines == Grammar(Lines, Singly(OneTests \union LinkedTests) \union TwoTests)

\* Tests that look across the edge of the window, or must not.
SpanTests ==
  {<<First(1, "T")>>, <<First(-1, "T")>>, <<First(0, "T")>>, <<At(2, "T")>>,
   <<With(First(1, "T"), {"SPAN_RIGHT"})>>, <<With(First(-1, "T"), {"SPAN_LEFT"})>>,
   <<With(First(-1, "T"), {"SPAN_BOTH"})>>,
   <<With(At(1, "begin"), {"SPAN_BOTH"})>>, <<With(At(-1, "T"), {"SPAN_LEFT"})>>,
   <<Barrier(With(First(1, "T"), {"SPAN_RIGHT"}), "B")>>,
   <<With(At(1, "T"), {"ABSOLUTE"})>>, <<With(At(-1, "T"), {"ABSOLUTE"})>>,
   <<Link(With(First(1, "T"), {"SPAN_RIGHT"}), 2), With(First(-1, "U"), {"SPAN_BOTH"})>>,
   <<With(At(0, "T"), {"BAG_OF_TAGS"})>>, <<Not(With(At(0, "B"), {"BAG_OF_TAGS"}))>>,
   <<Link(With(At(0, "B"), {"BAG_OF_TAGS"}), 2), First(1, "T")>>}
OnPairs == Grammar(Pairs, Singly(SpanTests))

\* Trees over >>> and four cohorts.
Forests == {<<Orphan, 0, 2, 3, 2>>, <<Orphan, 4, 2, 0, 3>>, <<Orphan, 0, 0, 3, Orphan>>}
Trees == {Tree(Text(<<<<a, b, NT, c>>>>, 1), p) : a \in {N, T}, b \in {T, B}, c \in {U, T}, p \in Forests}
TreeTests ==
  {<<Dep("DEP_CHILD", "T")>>, <<Dep("DEP_PARENT", "T")>>, <<Dep("DEP_SIBLING", "T")>>,
   <<With(Dep("DEP_PARENT", "T"), {"SCANFIRST"})>>, <<Barrier(With(Dep("DEP_PARENT", "N"), {"SCANFIRST"}), "B")>>,
   <<With(Dep("DEP_PARENT", "N"), {"DEP_GLOB"})>>, <<With(Dep("DEP_CHILD", "T"), {"DEP_DEEP", "SCANFIRST"})>>,
   <<Barrier(With(Dep("DEP_CHILD", "T"), {"DEP_DEEP", "SCANFIRST"}), "B")>>, <<Dep("DEP_GLOB", "U")>>,
   <<With(Dep("DEP_CHILD", "T"), {"ALL"})>>, <<With(Dep("DEP_CHILD", "T"), {"NONE"})>>,
   <<With(Dep("DEP_SIBLING", "T"), {"NONE"})>>, <<Negate(Dep("DEP_PARENT", "T"))>>,
   <<With(Dep("DEP_CHILD", "T"), {"LEFT"})>>, <<With(Dep("DEP_CHILD", "T"), {"RIGHT"})>>,
   <<With(Dep("DEP_CHILD", "T"), {"SELF"})>>, <<Careful_(Dep("DEP_CHILD", "T"))>>,
   <<Link(Dep("DEP_PARENT", AnySet), 2), Dep("DEP_CHILD", "U")>>,
   <<Link(Dep("DEP_CHILD", AnySet), 2), At(1, "T")>>,
   <<Link(First(1, "N"), 2), With(Dep("DEP_PARENT", "T"), {"SCANFIRST"})>>}
OnTrees == Grammar(Trees, Singly(TreeTests))

\* Relations, and an enclosure: a cohort that is not shown, and one shown now.
Webs ==
  {[Text(<<<<a, T, b, N>>>>, 1) EXCEPT !.relations = r, !.enclosed = e, !.par = <<1, 3>>] :
     a \in {N, T}, b \in {U, T}, e \in {{}, {3}},
     r \in {[c \in 1 .. 5 |-> IF c = 2 THEN {<<"R", 4>>, <<"S", 5>>} ELSE {}],
            [c \in 1 .. 5 |-> IF c = 4 THEN {<<"R", 2>>, <<"R", 5>>} ELSE {}]}}
WebTests ==
  {<<Rel("R", "T")>>, <<Rel(AnySet, "N")>>, <<With(Rel("R", "T"), {"ALL"})>>, <<Negate(Rel("R", "U"))>>,
   <<Link(Rel("R", AnySet), 2), At(-1, "T")>>, <<Dep("LEFT_PAR", "T")>>, <<Dep("RIGHT_PAR", "U")>>,
   <<First(1, "N")>>, <<Link(First(-1, "T"), 2), First(1, "N")>>}
OnWebs == Grammar(Webs, Singly(WebTests))

\* Marks and attachments.  The parser sets KEEPORDER and REMEMBERX where a test of the
\* rule jumps to a mark, not where a LINK does or where a test jumps to an attachment.
Bound(D, G, flags) == {[Rule(d, g[1], g[2]) EXCEPT !.rule.flags = flags] : d \in D, g \in G}
MarkTests ==
  {<<<<Link(With(First(1, "T"), {"MARK_SET"}), 2), At(1, AnySet), Jump(At(1, "U"), "mark")>>, <<1, 3>>>>,
   <<<<With(First(-1, "T"), {"MARK_SET"}), Jump(First(1, "B"), "mark")>>, <<1, 2>>>>}
LinkedMarkTests ==
  {<<<<With(First(-1, "T"), {"MARK_SET"}), Link(First(1, "U"), 3), Jump(At(1, "T"), "mark")>>, <<1, 2>>>>,
   <<<<With(First(1, "T"), {"MARK_SET"}), Link(At(0, AnySet), 3), Not(Jump(At(-1, "N"), "mark")), At(-1, "U")>>,
     <<1, 2, 4>>>>}
AttachTests ==
  {<<<<With(First(-1, "T"), {"ATTACH_TO"}), At(1, "U")>>, <<1, 2>>>>,
   <<<<With(At(1, "T"), {"ATTACH_TO"}), Jump(At(1, "U"), "attach"), At(-1, "N")>>, <<1, 2, 3>>>>}
TmplTests == {<<<<Tmpl(With(At(1, AnySet), {"TMPL_OVERRIDE"}), 2), First(1, "T")>>, <<1>>>>}
Marked == Bound(Lines, MarkTests, {"KEEPORDER", "REMEMBERX"})
          \union Bound(Lines, LinkedMarkTests \union AttachTests \union TmplTests, {})

Ordinary == OnLines \union OnPairs \union OnTrees \union OnWebs \union Marked

=============================================================================
