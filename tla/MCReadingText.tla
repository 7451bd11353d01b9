---------------------------- MODULE MCReadingText ----------------------------
(* An instance of ReadingText: two cohorts and what rules may leave of them. *)
EXTENDS ReadingText

P(base, tags) == [base |-> base, tags |-> tags]
R(chain) == [chain |-> chain, noprint |-> FALSE]
Word(word, readings) == [NoCohort EXCEPT !.word = word, !.readings = readings]

\* As REMOVE, MAP, ADD and SELECT leave them: one reading or more, chains of two
\* and three, one mapping on each of several copies, removed readings.
ManyShapes ==
  {Word("w", <<R(<<P("a", <<"N">>)>>)>>),
   Word("w", <<R(<<P("a", <<"N", "@x">>), P("b", <<"V">>)>>),
               R(<<P("a", <<"N", "@y">>), P("b", <<"V">>)>>)>>),
   Word("w", <<R(<<P("a", <<"N", "@x">>), P("b", <<>>), P("c", <<"V", "N">>)>>),
               R(<<P("c", <<"V">>)>>)>>),
   Word("w", <<R(<<P("a", <<>>), P("b", <<"V">>)>>), R(<<P("a", <<"N">>), P("b", <<>>)>>)>>),
   Word("w", <<R(<<P("a", <<"@y", "N">>)>>), R(<<P("a", <<"@x", "N">>)>>),
               R(<<P("a", <<"V", "@x">>), P("c", <<"N">>)>>)>>),
   [Word("w", <<R(<<P("b", <<"N", "@x">>)>>)>>)
      EXCEPT !.static = <<"S">>, !.text = <<"t1">>,
             !.hidden = <<<<P("a", <<"V", "@y">>), P("b", <<"N">>)>>>>],
   WithMagic([Word("w", <<>>) EXCEPT !.text = <<"t1", "t2">>,
                                     !.hidden = <<<<P("c", <<"N">>)>>>>]),
   [Word("w", <<R(<<P("a", <<"N">>)>>)>>) EXCEPT !.removed = TRUE, !.text = <<"t3">>],
   [Word("w", <<R(<<P("a", <<"N">>)>>)>>) EXCEPT !.removed = TRUE]}

\* Where REMCOHORT took the last cohort, the <<< tag went to the one before.
EndedAt(cohorts, k) ==
  [cohorts EXCEPT ![k].readings =
     [i \in DOMAIN @ |-> [@[i] EXCEPT !.chain[1].tags = Append(@, End)]]]

LastVisible(cohorts) ==
  CHOOSE k \in DOMAIN cohorts :
    /\ ~cohorts[k].removed
    /\ \A j \in k + 1 .. Len(cohorts) : cohorts[j].removed

ManyDocuments ==
  {[text |-> t, cohorts |-> EndedAt(cs, LastVisible(cs))] :
     t \in {<<>>, <<"t0">>},
     cs \in {s \in [1 .. 3 -> ManyShapes] : \E k \in 1 .. 3 : ~s[k].removed}}
=============================================================================
