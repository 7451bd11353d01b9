------------------------------- MODULE MCReadings -------------------------------
(* Small cohorts and grammars for ReadingRules.                                 *)
EXTENDS ReadingRules

In(tags, maps) == [base |-> "b", tags |-> tags, maps |-> maps, deleted |-> FALSE]
Aside(in) == [in EXCEPT !.deleted = TRUE]

\* Two readings and one set aside, a reading with two mapping tags beside one with
\* another, two that differ in their mapping, one alone, and no reading at all.
Cohorts ==
  {<<In({"x"}, <<>>), In({"y"}, <<>>), Aside(In({"z"}, <<"@a">>))>>,
   <<In({"x"}, <<"@a", "@b">>), In({}, <<"@b">>)>>,
   <<In({"x"}, <<>>), In({"y"}, <<"@a">>), In({"x", "y"}, <<>>)>>,
   <<In({"x"}, <<>>)>>, <<>>}
\* A cohort of two readings and one of four: more than a rule can have collected
\* in the first.
Pair == <<<<In({"x"}, <<>>), In({"y"}, <<>>)>>,
          <<In({"x"}, <<"@a", "@b", "@c">>), In({"y"}, <<>>)>>>>

R(type) == [type |-> type, flags |-> {}, tags |-> {}, maps |-> <<>>, sub |-> {},
            wordform |-> None, special |-> FALSE]
Flagged(f, ru) == [ru EXCEPT !.flags = {f}]
Tags(t, ru) == [ru EXCEPT !.tags = t]
MapsTo(m, ru) == [ru EXCEPT !.maps = m]
Sub(t, ru) == [ru EXCEPT !.sub = t]
Worded(w, ru) == [ru EXCEPT !.wordform = w]
Special(ru) == [ru EXCEPT !.special = TRUE]

Choosing == {R("select"), R("remove"), R("iff"), Flagged("delayed", Special(R("remove"))),
             Flagged("ignored", R("select")),
             R("restore"), Flagged("delayed", R("restore"))}
Guarding == {R("protect"), R("unprotect"), R("select"), R("remove"), R("unmap"),
             Tags({"t"}, R("add")), Sub({"x", "@a"}, Tags({"t"}, R("substitute"))),
             Flagged("nomapped", R("remove"))}
\* What else a rule can do to a cohort with a protected reading.
Reshaping == {R("protect"), R("iff"), R("restore"), Tags({"x"}, MapsTo(<<"@a">>, R("append"))),
              MapsTo(<<"@c", "@d">>, R("map")), Sub({"y"}, MapsTo(<<"@a">>, R("replace"))),
              Tags({"t"}, MapsTo(<<"@c">>, R("copy"))),
              Worded("<b>", Sub({"<a>", "x"}, R("substitute"))), Flagged("ignored", R("remove"))}
Mapping == {MapsTo(<<"@c", "@d">>, R("map")), Tags({"t"}, MapsTo(<<"@c">>, R("add"))),
            Flagged("safe", R("unmap")), Sub({"@a", "x"}, MapsTo(<<"@c">>, R("substitute"))),
            Sub({"y"}, MapsTo(<<"@a">>, R("replace"))), Tags({"t"}, MapsTo(<<"@c">>, R("copy"))),
            Tags({"x"}, MapsTo(<<"@a">>, R("append"))),
            [R("remove") EXCEPT !.flags = {"unmaplast", "unsafe"}]}
\* Rules that collect, on the pair.
Handing == {R("iff"), R("select"), Flagged("delayed", R("remove")), R("restore"), R("protect")}

Small == [grammar : {Choosing, Guarding, Reshaping, Mapping}, window : {<<c>> : c \in Cohorts}]
         \cup {[grammar |-> Handing, window |-> Pair]}
===============================================================================
