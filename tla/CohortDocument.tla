--------------------------- MODULE CohortDocument ---------------------------
(* What running a grammar on a window promises about its cohorts: rules add, *)
(* remove and move cohorts; enclosures and IGNORE only hide them for a time, *)
(* and when the run is over none is hidden.                                  *)
EXTENDS Naturals, SequencesExt

VARIABLES
  text,     \* the cohorts that were not removed, in order
  hidden,   \* those of them that rules cannot see for the moment
  status    \* "running", "finished" or "gaveup" (the endless-loop bail-out)

docvars == <<text, hidden, status>>

Common(s, t) == SelectSeq(s, LAMBDA c : c \in ToSet(t))

DocInit ==
  /\ text \in Seq(Nat) /\ text # <<>>
  /\ hidden = {}
  /\ status = "running"

\* Cohorts come and go; those that stay keep their order and stay as visible
\* as they were.
Replace ==
  /\ status = "running" /\ UNCHANGED status
  /\ Common(text, text') = Common(text', text)
  /\ hidden' = hidden \cap ToSet(text')

\* Cohorts change places.
Permute ==
  /\ status = "running" /\ UNCHANGED <<hidden, status>>
  /\ IsInjective(text') /\ ToSet(text') = ToSet(text)

\* An enclosure or an ignored subtree is hidden, or an enclosure is shown.
HideOrShow ==
  /\ status = "running" /\ UNCHANGED <<text, status>>
  /\ hidden' \subseteq ToSet(text)

Finish ==
  /\ status = "running" /\ status' = "finished"
  /\ hidden' = {} /\ UNCHANGED text

GiveUp ==
  /\ status = "running" /\ status' = "gaveup"
  /\ UNCHANGED <<text, hidden>>

DocNext == Replace \/ Permute \/ HideOrShow \/ Finish \/ GiveUp

DocSpec == DocInit /\ [][DocNext]_docvars
=============================================================================
