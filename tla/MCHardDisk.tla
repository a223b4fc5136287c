----------------------------- MODULE MCHardDisk -----------------------------
(* Five blocks on two partitions, the last one beyond the second: the first *)
(* has an odd number of sectors, the second ends with block 4.              *)
EXTENDS HardDisk, TLC

Sectors == 1..5
TwoMinors == [s \in Sectors |-> IF s <= 3 THEN 1 ELSE 2]
Partitions == 1 :> 9 @@ 2 :> 10
=============================================================================
