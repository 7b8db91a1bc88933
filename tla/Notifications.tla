--------------------------- MODULE Notifications ---------------------------
(***************************************************************************)
(* What a Subscriber (src/include/farsounder/subscriber.hpp) promises to an *)
(* application: the messages of each socket are received in order, and each *)
(* is passed on to the callbacks registered for its type, one after the     *)
(* other in the order of registration, once to each, to all those at least  *)
(* that were registered when it was received; a message can be overtaken by  *)
(* later ones, but it is not passed on while Capacity earlier ones are not   *)
(* done.  After stop at most one more message comes from each socket, and    *)
(* when stop has returned nothing is left to be passed on.                   *)
(*                                                                         *)
(* Subscriber.tla implements this specification.                            *)
(***************************************************************************)
EXTENDS Naturals, Sequences, FiniteSets

CONSTANTS
  Subscribe,     \* the message type of each socket
  MessageType,   \* the types of message
  Message,       \* the messages, numbered in the order of their publication
  Callback,      \* the callbacks that can be registered, each once
  CallbackType,  \* the message type each callback takes
  Capacity       \* how many messages can be passed on together

VARIABLES
  state,       \* "down", "up", "stopping", "destroying" or "gone"
  registered,  \* the callbacks of each type, in the order of registration
  received,    \* the socket and the message of each job, in the order of
               \* reception, and how many callbacks its type had then
  heard,       \* the jobs that each callback has been called with, in order
  done,        \* the jobs that are passed on to the end
  closed       \* the sockets that nothing more is received from

serviceVars == <<state, registered, received, heard, done, closed>>

Socket == DOMAIN Subscribe
Job == DOMAIN received
Vector(n) == registered[Subscribe[received[n].socket]]
Hears(c, n) == \E i \in DOMAIN heard[c] : heard[c][i] = n

Init ==
  /\ state = "down"
  /\ registered = [t \in MessageType |-> <<>>]
  /\ received = <<>>
  /\ heard = [c \in Callback |-> <<>>]
  /\ done = {} /\ closed = {}

-----------------------------------------------------------------------------

Start ==
  /\ state = "down"
  /\ state' = "up"
  /\ UNCHANGED <<registered, received, heard, done, closed>>

\* stop, or the destructor, has been called.
Stop ==
  /\ state = "up"
  /\ state' \in {"stopping", "destroying"}
  /\ UNCHANGED <<registered, received, heard, done, closed>>

\* stop or the destructor returns: at once, if there is nothing to wait for.
End ==
  /\ done = Job
  /\ \/ state \in {"up", "stopping"} /\ state' = "down"
     \/ state \in {"down", "up", "destroying"} /\ state' = "gone"
  /\ closed' = {}
  /\ UNCHANGED <<registered, received, heard, done>>

Register(c) ==
  /\ state # "gone"
  /\ \A i \in DOMAIN registered[CallbackType[c]] : registered[CallbackType[c]][i] # c
  /\ registered' = [registered EXCEPT ![CallbackType[c]] = Append(@, c)]
  /\ UNCHANGED <<state, received, heard, done, closed>>

\* Messages may be lost: m need not be the next one of its socket.
Receive(s, m) ==
  /\ state \in {"up", "stopping", "destroying"} /\ s \notin closed
  /\ \A n \in Job : received[n].socket = s => received[n].message < m
  /\ received' = Append(received, [socket |-> s, message |-> m,
                                   audience |-> Len(registered[Subscribe[s]])])
  /\ closed' = IF state = "up" THEN closed ELSE closed \cup {s}
  /\ UNCHANGED <<state, registered, heard, done>>

\* A socket may be closed without a message: what came did not parse.
Close(s) ==
  /\ state \in {"stopping", "destroying"}
  /\ closed' = closed \cup {s}
  /\ UNCHANGED <<state, registered, received, heard, done>>

\* Job n is passed on to the i-th callback of its vector.
Notify(n, i) ==
  /\ n \notin done
  /\ ~Hears(Vector(n)[i], n)
  /\ \A j \in 1..(i - 1) : Hears(Vector(n)[j], n)
  /\ Cardinality({m \in Job \ done : m < n}) < Capacity
  /\ heard' = [heard EXCEPT ![Vector(n)[i]] = Append(@, n)]
  /\ UNCHANGED <<state, registered, received, done, closed>>

Done(n) ==
  /\ n \notin done
  /\ \A i \in 1..received[n].audience : Hears(Vector(n)[i], n)
  /\ done' = done \cup {n}
  /\ UNCHANGED <<state, registered, received, heard, closed>>

-----------------------------------------------------------------------------

Next ==
  \/ Start \/ Stop \/ End
  \/ \E c \in Callback : Register(c)
  \/ \E s \in Socket : Close(s) \/ \E m \in Message : Receive(s, m)
  \/ \E n \in Job : Done(n) \/ \E i \in DOMAIN Vector(n) : Notify(n, i)

SafeSpec == Init /\ [][Next]_serviceVars
=============================================================================
