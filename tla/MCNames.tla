------------------------------ MODULE MCNames -------------------------------
(* Two tasks on small disks with blocks of four entries.  On the first the  *)
(* root directory has a full block, with the directory d and the file a; on *)
(* the second b is another name of a, and d has a file.                     *)
EXTENDS Names, TLC

CONSTANTS t1, t2, s1, s2, s3, s4
Tasks == {t1, t2}
Slots == {s1, s2, s3, s4}
Symmetric == Permutations(Tasks) \cup Permutations(Slots)

D(nlinks, zones, size) ==
  [kind |-> "dir", nlinks |-> nlinks, zones |-> zones, size |-> size]
F(nlinks, zones) ==
  [kind |-> "reg", nlinks |-> nlinks, zones |-> zones, size |-> Len(zones)]
NoInode == [kind |-> "none", nlinks |-> 0, zones |-> <<>>, size |-> 0]

Dots12 == <<Entry(".", 2), Entry("..", 1), Free, Free>>

FullRoot ==
  [inodes |-> <<D(3, <<1>>, 4), D(2, <<2>>, 2), F(1, <<3>>), NoInode>>,
   blocks |-> <<<<Entry(".", 1), Entry("..", 1), Entry("d", 2), Entry("a", 3)>>,
                Dots12, NoEntries, NoEntries, NoEntries>>,
   open |-> None]

TwoNames ==
  [inodes |-> <<D(3, <<1, 4>>, 5), D(2, <<2>>, 3), F(2, <<3>>), F(1, <<>>)>>,
   blocks |-> <<<<Entry(".", 1), Entry("..", 1), Entry("d", 2), Entry("a", 3)>>,
                [Dots12 EXCEPT ![3] = Entry("a", 4)], NoEntries,
                [NoEntries EXCEPT ![1] = Entry("b", 3)], NoEntries>>,
   open |-> None]

OneBlockLeft ==
  [inodes |-> <<D(3, <<1>>, 4), D(2, <<2, 3, 4>>, 9), F(1, <<>>), NoInode>>,
   blocks |-> <<<<Entry(".", 1), Entry("..", 1), Entry("d", 2), Entry("a", 3)>>,
                Dots12, NoEntries, NoEntries, NoEntries>>,
   open |-> 3]

TheDisks == {FullRoot, TwoNames, OneBlockLeft}
ThePaths == {<<"a">>, <<"b">>, <<"d">>, <<"d", "a">>}
=============================================================================
