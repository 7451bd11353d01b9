-------------------------- MODULE MCWindowCohorts --------------------------
(* Instances of WindowCohorts for TLC.                                      *)
EXTENDS WindowCohorts

\* Every window of two cohorts, and longer ones with nested, adjacent and
\* unbalanced parentheses.
SmallShapes ==
  [1 .. 2 -> Marks] \cup
  {<<"left", "word", "right">>, <<"word", "left", "right">>,
   <<"left", "right", "word">>, <<"left", "left", "right">>,
   <<"left", "left", "right", "right">>, <<"left", "right", "left", "right">>,
   <<"word", "left", "right", "word">>}

NestedShapes ==
  {<<"word", "left", "left", "word", "right", "right">>,
   <<"left", "right", "word", "left", "right">>,
   <<"left", "word", "left", "right", "right">>,
   <<"left", "left", "right", "word", "left">>}

EditRules ==
  {"REMCOHORT", "IGNORE", "ADDCOHORT", "COPYCOHORT", "MERGECOHORTS",
   "SPLITCOHORT", "MOVE", "SWITCH"}
GrowingRules == {"ADDCOHORT", "COPYCOHORT", "MOVE", "SWITCH", "DELIMIT"}
CuttingRules == {"REMCOHORT", "IGNORE", "ADDCOHORT", "MOVE", "DELIMIT"}

\* Any restructuring of a small window; rules that both delimit a window and
\* take cohorts out of it, without parentheses; and rules that add, move and delimit
\* around nested enclosures, with and without tracing.
EditsAndGrowth ==
  {[rules |-> EditRules, shapes |-> SmallShapes, tracing |-> {FALSE},
    subtree |-> 2],
   [rules |-> CuttingRules, shapes |-> {[i \in 1 .. 3 |-> "word"]},
    tracing |-> {FALSE}, subtree |-> 2],
   [rules |-> GrowingRules, shapes |-> NestedShapes, tracing |-> BOOLEAN,
    subtree |-> 1]}
=============================================================================
