-------------------------------- MODULE MCGrammar --------------------------------
(* Small grammar files: tags 1 to 3, pattern 9 for 1 or 2, -t for ^t, 0 for *.    *)
EXTENDS GrammarMeaning

SmallWords == 1 .. 3
OnePattern == {9}
OneCovers == 9 :> {1, 2}

List(name, entries) == [kind |-> "LIST", name |-> name, entries |-> entries, ordered |-> FALSE, append |-> FALSE,
                        components |-> <<>>]
Plus(name, entries) == [List(name, entries) EXCEPT !.append = TRUE]
SetOf(name, cs) == [List(name, <<>>) EXCEPT !.kind = "SET", !.components = cs]
Rule(cs) == [List("", <<>>) EXCEPT !.kind = "RULE", !.components = cs]

Of(name) == [op |-> "OR", kind |-> "name", name |-> <<"", name>>, tags |-> <<>>]
Inline(tags) == [op |-> "OR", kind |-> "tags", name |-> <<"", "">>, tags |-> tags]
Unifying(prefix, name) == [Of(name) EXCEPT !.name = <<prefix, name>>]
By(op, c) == [c EXCEPT !.op = op]

A == List("A", <<<<1>>, <<2>>>>)
B == List("B", <<<<2>>, <<3>>>>)
C == List("C", <<<<1, 2>>, <<3>>>>)
D == List("D", <<<<3>>>>)
F == List("F", <<<<1>>, <<-2>>>>)
P == List("P", <<<<9>>, <<2, 3>>>>)

\* A file of statements, and what its rules ask.
File(lines, rs, readings) == [lines |-> lines, asks |-> rs, readings |-> readings]
Sets(lines) == File(lines, {}, {})

Operators_ == {"OR", "PLUS", "MINUS", "FAILFAST"}
Composites ==
  {Sets(<<A, B, C, SetOf("X", <<Of(a), By(o, Of(b)), By(p, Inline(t))>>), Rule(<<Of("X")>>), Rule(<<Of(a), By(p, Of("X"))>>)>>) :
     a \in {"A", "C"}, b \in {"B", "C"}, o \in Operators_, p \in Operators_, t \in {<<3>>, <<3, 1>>}}
Folds_ ==
  {Sets(<<D, List("E", <<e>>), SetOf("X", <<Of("D"), By("OR", Of("E"))>>), SetOf("Y", <<Of("X")>>),
          Rule(<<Of("Y")>>), Rule(<<Of("X"), By(o, Inline(t))>>)>>) :
     e \in {<<1, 2>>, <<9>>, <<3>>, <<9, 1>>}, o \in Operators_, t \in {<<2>>, <<9>>}}
Split_ ==
  {Sets(<<F, D, SetOf("X", <<Of("D"), By(o, Of("F"))>>), Plus("F", <<t>>), Rule(<<Of("F")>>), Rule(<<Of("X")>>)>>) :
     o \in Operators_, t \in {<<3>>, <<-3>>, <<2, 3>>, <<9>>}}
Appended ==
  {Sets(<<A, B, first, SetOf("X", <<Of("A"), By(o, Of("B"))>>), Plus("A", <<t, <<3>>>>), Plus("X", <<t>>),
          Rule(<<Of("A")>>), Rule(<<Of("X")>>), Rule(<<Of("A"), By(o, Of("X"))>>)>>) :
     o \in {"OR", "PLUS", "MINUS"}, t \in {<<1>>, <<2, 3>>, <<-1>>, <<9>>}, first \in {D, List("D", <<<<1>>, <<2>>>>)}}
EagerSets ==
  {Sets(<<A, B, P, D, SetOf("X", <<Of(a), By(o, Of(b)), By(p, Of("D"))>>), Rule(<<Of("X")>>)>>) :
     a \in {"A", "B"}, b \in {"A", "B", "D"}, o \in Eager, p \in Eager \union {"OR", "PLUS"}}
UnifyLines(o, u) ==
  <<A, B, SetOf("X", <<Of("A"), By(o, Of("B"))>>), Rule(<<Unifying(u, "X")>>), Rule(<<Of("A")>>),
    Rule(<<Unifying("$$", "A")>>), Rule(<<Of("B"), By("MINUS", Unifying("$$", "A"))>>)>>
Unifications ==
  {File(UnifyLines(o, u), rs, {{1}, {2}, {3}, {1, 2}, {2, 3}}) : o \in {"OR", "PLUS"}, u \in {"$$", "&&"}, rs \in {{1, 2}, {2, 3, 4}}}
Ordinary == Composites \union Folds_ \union Split_ \union Appended \union EagerSets \union Unifications

================================================================================
