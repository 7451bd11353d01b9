----------------------------- MODULE MCExternal -----------------------------
EXTENDS ExternalProcess

Rd(base, tags) == [base |-> base, tags |-> tags, noprint |-> FALSE, deleted |-> FALSE]
Co(num, word, parent, text, readings) ==
  [num |-> num, word |-> word, parent |-> parent, text |-> text, readings |-> readings]

\* Texts: words from 20, baseforms from 30, tags from 40, of which 49 is a
\* dependency tag.
Small == <<[num |-> 1, cohorts |-> <<Co(1, 20, 2, 0, <<Rd(30, <<20, 30, 49, 40>>), Rd(31, <<20, 31>>)>>),
                                     Co(2, 21, NoParent, 60, <<Rd(32, <<21, 32>>)>>)>>],
           [num |-> 2, cohorts |-> <<Co(4, 22, 0, 0, <<Rd(33, <<22, 33, 41>>)>>)>>],
           [num |-> 3, cohorts |-> <<Co(6, 23, NoParent, 61, <<Rd(34, <<23, 34>>)>>)>>]>>
=============================================================================
