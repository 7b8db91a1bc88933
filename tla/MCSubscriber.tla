---------------------------- MODULE MCSubscriber ----------------------------
(* Subscriber for TLC. *)
EXTENDS Subscriber, TLC

CONSTANTS c1, c2

H == "HydrophoneData"
T == "TargetData"

\* One socket, with callbacks of its type: a pool that works on one stream.
OneSocket == <<H>>
TwoOfOneType == c1 :> H @@ c2 :> H

Interchangeable == Permutations({c1, c2})

\* Two types, a socket and a callback each.
TwoSockets == <<H, T>>
TwoTypes == c1 :> H @@ c2 :> T

\* A type that is listed twice, and another: three sockets, two on one port.
ThreeSockets == <<H, T, H>>
=============================================================================
