------------------------------ MODULE MCSchedule ------------------------------
(* Small grammars for RuleSchedule: each brings together the rules whose      *)
(* effects on the loops around them meet.                                     *)
EXTENDS RuleSchedule

R(kind, section) ==
  [kind |-> kind, section |-> section, flags |-> {}, teaches |-> {}, subs |-> <<>>,
   dest |-> 0, starts |-> TRUE]
Late(r) == [r EXCEPT !.starts = FALSE]
With(subs, r) == [r EXCEPT !.subs = subs]
Adds(S, r) == [r EXCEPT !.teaches = S]
Flag(f, r) == [r EXCEPT !.flags = @ \cup {f}]
To(n, r) == [r EXCEPT !.dest = n]

\* Rules that make rules valid ahead, behind and at the cursor.
Growing == <<Adds({2, 3}, R("tag", 1)), Late(R("change", 1)), Adds({1, 2}, Late(R("tag", 1)))>>
\* Cohorts come and go, in a section and before it.
Rebuilding == <<R("remcohort", 1), R("addcohort", 1), R("change", 0)>>
\* REPEAT, a jump over a rule, NOITERATE and a rule made valid behind the cursor.
Jumping == <<Flag("repeat", R("change", 1)), To(4, R("jump", 1)), Flag("noiterate", R("change", 2)),
             Adds({1, 3}, R("tag", 1))>>
Ordering == <<R("move", 1), R("delimit", 1), R("ignore", 3)>>
Outside == <<R("external", 1), Flag("traced", Adds({3}, R("tag", 1))), Late(R("change", 1))>>
Nesting == <<Flag("repeat", Adds({3, 4}, R("tag", 9))), R("change", 9),
             With(<<1, 2>>, R("with", 1)), Late(R("remcohort", 2))>>
Sure == {Growing, Rebuilding, Jumping, Ordering, Outside, Nesting}

\* A whole subtree goes; the wordform of the target changes; a rule of a WITH
\* removes the target before another runs; a rule of a WITH jumps.
Subtree == <<R("remtree", 1)>>
Rewording == <<Adds({2}, R("wordform", 1)), Late(R("change", 3))>>
Removing == <<R("remcohort", 9), R("change", 9), With(<<1, 2>>, R("with", 1))>>
JumpOut == <<To(1, R("jump", 9)), Adds({4}, R("tag", 9)), With(<<1, 2>>, R("with", 1)),
             Late(R("change", 1))>>
Unsure == {Subtree, Rewording, Removing, JumpOut}
\* Every two rules in a WITH, the second of which repeats, before a rule that
\* waits for the tag they may bring.
SubKinds == {"change", "tag", "remcohort", "addcohort", "jump", "delimit", "move", "external"}
Sub(kind) == Adds({3, 4}, To(1, R(kind, 9)))
Pairs == {<<Sub(a), Flag("repeat", Sub(b)), With(<<1, 2>>, R("with", 1)), Late(R("change", 2))>> :
            a \in SubKinds, b \in SubKinds}
All == Sure \cup Unsure \cup Pairs
C3 == 1 .. 3
===============================================================================
