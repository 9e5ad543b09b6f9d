------------------------------- MODULE MCSfs -------------------------------
(* Small instances of Sfs for TLC.                                         *)
EXTENDS Sfs, TLC

OneOrThreeBytes == {<<Zero>>, <<Zero, Zero, Zero>>}
ToTheStart == {0}
ReadLengths == {1}
(* The answer of the last call bears on nothing that follows. *)
WithoutAnswers == <<disk, sb, freemap, fdtable, broken>>
NamesAlike == Permutations(DirNames) \cup Permutations(FileNames)
=============================================================================
