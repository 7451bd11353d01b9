------------------------------- MODULE MCFormats -------------------------------
(* Instances of FormatReaders for TLC: the readers, and limits so small that *)
(* an input of a few items fills windows, breaks them and lets them go.      *)
EXTENDS FormatReaders

AllFormats == FormatNames

=============================================================================
