--------------------------- MODULE MCDependencies ---------------------------
(* Small documents and grammars for Dependencies.                            *)
EXTENDS Dependencies

E(self, parent, sentence) ==
  [self |-> self, parent |-> parent, sentence |-> sentence, closes |-> FALSE, id |-> 0, rel |-> 0]
Closes(e) == [e EXCEPT !.closes = TRUE]
Related(id, rel) == [E(0, 0, 0) EXCEPT !.id = id, !.rel = rel]

\* Sentences whose parents come before and after their children, with roots and
\* with ids that start again.
Forth == <<E(1, 2, 1), E(2, 0, 1), Closes(E(3, 2, 1)), E(1, 2, 2), E(2, 0, 2)>>
Singles == <<E(1, 0, 1), Closes(E(2, 1, 1)), Closes(E(1, 1, 2)), Closes(E(1, 0, 3)), E(1, 0, 4)>>
\* Relations before and after their ends, and an id used again when its first use
\* has left.
Across == <<Related(21, 22), Closes(Related(22, 0)), Closes(Related(0, 22)), Related(23, 21)>>
Again == <<Closes(Related(21, 0)), Closes(Related(0, 21)), Closes(Related(0, 0)), Closes(Related(0, 0)),
           Closes(Related(21, 0)), Related(0, 21)>>
\* Ids that are also the numbers of cohorts: 1 and 4 are >>>.
Numbered == <<Related(3, 0), Closes(Related(2, 5)), Related(5, 3), Related(0, 2)>>
Late == <<Closes(Related(0, 4)), Closes(Related(0, 0)), Closes(Related(4, 0)), Related(0, 0)>>

Setup(d, types, limit) ==
  [doc |-> d, rules |-> {[type |-> t, flags |-> {}] : t \in types}, dep_delimit |-> limit]
Ordinary ==
  {Setup(Forth, {"setparent", "setchild", "remcohort"}, 0),
   Setup(Singles, {"setparent", "remcohort"}, 0),
   Setup(Forth, {"setparent", "remparent", "switchparent"}, 3),
   Setup(Singles, {"setparent", "switchparent"}, 3),
   Setup(Forth, {"remignored"}, 0),
   Setup(Across, {"addrelation"}, 0), Setup(Across, {"setrelation", "remrelation"}, 0),
   Setup(Again, {"remrelation"}, 0),
   Setup(Numbered, {"addrelation", "remrelation"}, 0),
   Setup(Late, {"addrelation", "remrelation"}, 0), Setup(Numbered, {"setrelation"}, 0)}
===============================================================================
