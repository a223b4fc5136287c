---------------------------- MODULE MCWaitQueue ----------------------------
(* Three tasks, an ordinary queue and one of interruptible_sleep_on(). *)
EXTENDS WaitQueue

CONSTANTS a, b, c, q1, q2

ThreeTasks == {a, b, c}
TwoQueues == {q1, q2}
OnlySecond == {q2}
=============================================================================
