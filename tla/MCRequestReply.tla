--------------------------- MODULE MCRequestReply ---------------------------
(* RequestReply for TLC. *)
EXTENDS RequestReply, TLC

CONSTANTS c1, c2, c3, off, on

AllOff == [f \in Setting |-> off]
AllOn == [f \in Setting |-> on]
AllOnEverywhere == [h \in Host |-> AllOn]

Interchangeable == Permutations({c1, c2, c3})
=============================================================================
