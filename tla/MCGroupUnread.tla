---------------------------- MODULE MCGroupUnread ----------------------------
(* GroupUnread with a few requests that overlap and one or two hot shards. *)
EXTENDS GroupUnread, TLC

\* Requests are interchangeable.
Symmetry == Permutations(Client)
=============================================================================
