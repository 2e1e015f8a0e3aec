------------------------------ MODULE MCLoadControl ------------------------------
(* Instances of LoadControl for TLC.                                             *)
EXTENDS LoadControl, TLC

CONSTANTS th1, th2, th3

(* Threads other than the first are interchangeable.                            *)
ThreadSymmetry == Permutations(Threads \ {Main})
================================================================================
