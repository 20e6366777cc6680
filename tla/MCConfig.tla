------------------------------- MODULE MCConfig -------------------------------
(***************************************************************************)
(* Config with integers of 16 bits.                                        *)
(***************************************************************************)
EXTENDS Config

\* In range, below zero, beyond int, beyond unsigned int.
EditedNumbers == {0, 7, -1, 40000, 70000}

=============================================================================
