-------------------------- MODULE MCSessionRegistry --------------------------
(* SessionRegistry on a few servers and sessions. *)
EXTENDS SessionRegistry, TLC

CONSTANTS i1, i2, s1, s2

\* Servers and sessions are interchangeable.
Symmetry == Permutations(Server) \cup Permutations(Session)
=============================================================================
