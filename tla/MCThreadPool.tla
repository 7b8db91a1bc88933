---------------------------- MODULE MCThreadPool ----------------------------
(* ThreadPool for TLC: the two workers that run_loop asks for. *)
EXTENDS ThreadPool

=============================================================================
