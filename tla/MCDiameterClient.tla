----------------------------- MODULE MCDiameterClient -----------------------------
(* Instances of DiameterClient for TLC.                                          *)
EXTENDS DiameterClient, TLC

CONSTANTS c1, c2, c3, t1, t2, th1, th2, p1, p2, s1, s2, s3

(* One task with two threads: the second is the extra thread of -thread.         *)
OneTaskOf == [c \in Calls |-> t1]
OneThreadTask == [t \in Threads |-> t1]

(* Peers, session ids and the calls charged online are only told apart by the    *)
(* state: a sound symmetry, as all calls are of one task.                        *)
ClientSymmetry == Permutations(Peers) \cup Permutations(Sids)
                  \cup Permutations(Calls \ NoContext)
================================================================================
