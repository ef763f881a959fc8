----------------------------- MODULE MCLiveData -----------------------------
(***************************************************************************)
(* TLC instances of LiveData.                                              *)
(***************************************************************************)
EXTENDS LiveData, TLC

\* Ids are interchangeable: no property and no action tells one from another.
IdSymmetry == Permutations(Id)
=============================================================================
