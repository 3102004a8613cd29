---------------------------- MODULE MCQueueFile ----------------------------
(* Lists of length zero, one and two: texts of three lengths, two of one.  *)
EXTENDS QueueFile, TLC
MCLists == {<<>>, <<1>>, <<2>>, <<1, 2>>}
MCSymmetry == Permutations(Inodes) \cup Permutations(Writers)
=============================================================================
