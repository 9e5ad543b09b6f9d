----------------------------- MODULE MCSfsFiles -----------------------------
(* A small instance of SfsFiles for TLC.                                   *)
EXTENDS SfsFiles, TLC

CONSTANTS x0, y0

ShortAndLong == {<<x0>>, <<y0, x0, y0, x0, y0>>}
NothingOrThree == {0, 3}
ToTheStart == {0}
(* No call looks at the last answer, and every call that changes the rest  *)
(* changes the files its caller sees.                                      *)
WithoutAnswers == <<disk, sb, freemap, fdtable, broken>>
DirsAlike == Permutations(DirNames)
=============================================================================
