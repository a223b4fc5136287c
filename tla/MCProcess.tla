------------------------------ MODULE MCProcess ------------------------------
(***************************************************************************)
(* An instance of the processes: init and two more, with four numbers.     *)
(***************************************************************************)
EXTENDS Process

ThreeSignals == {SIGHUP, SIGKILL, SIGCHLD}

(* A handler that runs with SIGCHLD masked. *)
OneHandler == {[handler |-> "user", mask |-> {SIGCHLD}, oneshot |-> TRUE,
                nomask |-> FALSE]}

TwoMasks == {{}, {SIGKILL, SIGCHLD}}

(* A group, anybody, one's own group, a process. *)
Numbers == {-2, -1, 0, 2}
=============================================================================
