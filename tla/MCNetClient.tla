----------------------------- MODULE MCNetClient -----------------------------
(***************************************************************************)
(* NetClient with three connections, which are interchangeable.            *)
(***************************************************************************)
EXTENDS NetClient, TLC

Symmetry == Permutations(Conn)

=============================================================================
