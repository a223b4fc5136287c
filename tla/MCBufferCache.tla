---------------------------- MODULE MCBufferCache ----------------------------
(***************************************************************************)
(* Instances of the buffer cache: a few tasks, buffers and blocks.         *)
(***************************************************************************)
EXTENDS BufferCache, TLC

CONSTANTS
  p1, p2  \* tasks

TwoTasks == {p1, p2}
Symmetric == Permutations({p1, p2})

ThreeBlocks == 1..3
OneDevice == [k \in ThreeBlocks |-> 1]
TwoDevices == [k \in ThreeBlocks |-> IF k = 3 THEN 2 ELSE 1]

Bit == {0, 1}
Nothing == {}
OnlyReads == {READ}

FileOps == {"file_read", "file_write"}
DeviceOps == {"block_read", "block_write", "block_write_full", "sync"}
=============================================================================
