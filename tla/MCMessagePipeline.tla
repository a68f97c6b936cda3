-------------------------- MODULE MCMessagePipeline --------------------------
(* MessagePipeline on small sets of messages, requests and threads. *)
EXTENDS MessagePipeline, TLC

CONSTANTS m1, m2, c1, c2, c3

\* Messages, requests and threads are interchangeable.
Symmetry == Permutations(Message) \cup Permutations(Caller \ Unparsable)
            \cup Permutations(Publisher) \cup Permutations(Writer)
=============================================================================
