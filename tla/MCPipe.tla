------------------------------- MODULE MCPipe -------------------------------
(* Three tasks with two descriptors each, three files, and a ring of three  *)
(* bytes that holds two.                                                    *)
EXTENDS Pipe, TLC

CONSTANTS t1, t2, t3
Tasks == {t1, t2, t3}
Children == Permutations({t2, t3})
=============================================================================
