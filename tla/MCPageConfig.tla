---------------------------- MODULE MCPageConfig ----------------------------
(***************************************************************************)
(* An instance of PageConfig for TLC.                                      *)
(***************************************************************************)
EXTENDS PageConfig

\* One range more than the form shows, with half a degree and an open end;
\* as many as the form shows; one too few.
SomeRanges == {<<5, 650, 10000>>, <<-655, 650>>, <<500>>}
\* A zero, a temperature, and one no form should be given.
SomeInputs == {0, 650, 12345}
=============================================================================
