---------------------------- MODULE BasicClient ----------------------------
(***************************************************************************)
(* The example client (examples/basic_client.cpp), from the start of main   *)
(* to its end, with the receive thread of its subscriber and the SIGINT of  *)
(* Ctrl+C, which the system delivers to any thread that does not block it.  *)
(* Subscriber.tla has what the receive thread does in a round, and          *)
(* Lifecycle.tla has start and stop in full.                                *)
(***************************************************************************)
EXTENDS Naturals

CONSTANT MaxPresses  \* how often Ctrl+C is pressed

ASSUME PressesAssumption == MaxPresses \in Nat

Requests == {"settings", "vessel", "history"}

VARIABLES
  main,      \* what main does next
  answers,   \* what became of the three requests
  handled,   \* whether SIGINT has its handler
  g_running, \* the flag of the handler
  running,   \* Impl::running
  receiver,  \* the receive thread: "none", "connects", "tests" running, "polls",
             \* "receives" or "exited"
  process,   \* "runs", "returned" from main or "terminated"
  presses    \* of Ctrl+C so far

vars == <<main, answers, handled, g_running, running, receiver, process, presses>>

Init ==
  /\ main = "arguments"
  /\ answers = [r \in Requests |-> "none"]
  /\ handled = FALSE /\ g_running = TRUE
  /\ running = FALSE /\ receiver = "none"
  /\ process = "runs" /\ presses = 0

-----------------------------------------------------------------------------
(* main.                                                                   *)

\* A usage message, or the host from the arguments.
Arguments ==
  /\ main = "arguments"
  /\ \/ process' = "returned" /\ UNCHANGED main
     \/ main' = "signal" /\ UNCHANGED process
  /\ UNCHANGED <<answers, handled, g_running, running, receiver, presses>>

Signal ==
  /\ main = "signal"
  /\ handled' = TRUE /\ main' = "register"
  /\ UNCHANGED <<answers, g_running, running, receiver, process, presses>>

\* build_config with two messages, a pool and ten seconds, subscribe, and on for
\* each of the two; the callbacks print and return.
Register ==
  /\ main = "register" /\ main' = "settings"
  /\ UNCHANGED <<answers, handled, g_running, running, receiver, process, presses>>

\* A request, in a try block of its own: an answer, with a code where it has one,
\* or an exception, that of a timeout or of an interrupted call among them.
Ask(r, next) ==
  /\ main = r /\ main' = next
  /\ \E a \in {"success", "failed"} \cup IF r = "history" THEN {} ELSE {"refused"} :
       answers' = [answers EXCEPT ![r] = a]
  /\ UNCHANGED <<handled, g_running, running, receiver, process, presses>>

\* sub.start(), outside of any try block; making the thread can fail.
Start ==
  /\ main = "start" /\ running' = TRUE
  /\ \/ receiver' = "connects" /\ main' = "wait" /\ UNCHANGED process
     \/ process' = "terminated" /\ UNCHANGED <<receiver, main>>
  /\ UNCHANGED <<answers, handled, g_running, presses>>

\* The loop of 200 ms of sleep, which a signal does not cut short.
Wait ==
  /\ main = "wait" /\ ~g_running
  /\ main' = "stop"
  /\ UNCHANGED <<answers, handled, g_running, running, receiver, process, presses>>

\* A faulty variant: stop leaves running as it is.
StopForgets ==
  /\ main = "stop" /\ main' = "join"
  /\ UNCHANGED <<answers, handled, g_running, running, receiver, process, presses>>

\* sub.stop() clears running, joins, and main returns.
Stop ==
  /\ main = "stop" /\ main' = "join"
  /\ running' = FALSE
  /\ UNCHANGED <<answers, handled, g_running, receiver, process, presses>>

Join ==
  /\ main = "join" /\ receiver = "exited"
  /\ process' = "returned"
  /\ UNCHANGED <<main, answers, handled, g_running, running, receiver, presses>>

Main ==
  /\ process = "runs"
  /\ \/ Arguments \/ Signal \/ Register
     \/ Ask("settings", "vessel") \/ Ask("vessel", "history") \/ Ask("history", "start")
     \/ Start \/ Wait \/ Stop \/ Join

-----------------------------------------------------------------------------
(* The receive thread, out of which no exception is caught.                *)

Goto(next) ==
  /\ receiver' = next
  /\ UNCHANGED <<main, answers, handled, g_running, running, process, presses>>
Uncaught ==
  /\ process' = "terminated"
  /\ UNCHANGED <<main, answers, handled, g_running, running, receiver, presses>>

\* connect throws for a host that is no address.
Connect == receiver = "connects" /\ (Goto("tests") \/ Uncaught)
Test == receiver = "tests" /\ Goto(IF running THEN "polls" ELSE "exited")
\* poll returns with messages or after 100 ms, and the messages are dispatched.
Poll == receiver = "polls" /\ Goto("receives")
Receive == receiver = "receives" /\ Goto("tests")

Receiver == process = "runs" /\ (Connect \/ Test \/ Poll \/ Receive)

-----------------------------------------------------------------------------
(* Ctrl+C.                                                                 *)

handle_sigint == g_running' = FALSE

\* Without the handler it ends the process.  A poll that it interrupts in the
\* receive thread throws, and one in main makes a request fail, as in Ask.
CtrlC ==
  /\ process = "runs" /\ presses < MaxPresses
  /\ presses' = presses + 1
  /\ \/ ~handled /\ process' = "terminated" /\ UNCHANGED g_running
     \/ handled /\ handle_sigint /\ UNCHANGED process
     \/ handled /\ receiver = "polls" /\ handle_sigint /\ process' = "terminated"
  /\ UNCHANGED <<main, answers, handled, running, receiver>>

Next == Main \/ Receiver \/ CtrlC

\* The system runs threads that can run, and no call of theirs waits for ever:
\* requests and polls have timeouts.  Nobody has to press Ctrl+C.
Spec == Init /\ [][Next]_vars /\ WF_vars(Main) /\ WF_vars(Receiver)

-----------------------------------------------------------------------------
\* Once Ctrl+C has been pressed, whenever that is and whatever the requests and
\* the receive thread are doing, the process ends.  If main returns, no receive
\* thread is left behind, and it has run only if Ctrl+C has been pressed.
CtrlCEnds ==
  /\ presses > 0 ~> process # "runs"
  /\ [](process = "returned" => receiver \in {"none", "exited"})
  /\ [](process = "returned" /\ receiver = "exited" => presses > 0)

=============================================================================
