--------------------------- MODULE MCStreamDriver ---------------------------
(* Instances of StreamDriver for TLC; each .cfg picks the kinds of line.    *)
EXTENDS StreamDriver

\* Windows broken by limits, soft delimiters and DELIMIT, and the commands.
LimitLines == {"cohort", "text", "FLUSH", "SETVAR", "SETVARLIST", "REMVAR"}
\* Windows broken by text-delimiter lines, and a FLUSH after one.
DelimitedLines == {"cohort", "text", "delimiter", "FLUSH", "SETVARLIST", "EXIT"}

AllKinds == {"plain", "soft", "hard"}
PlainHard == {"plain", "hard"}
=============================================================================
