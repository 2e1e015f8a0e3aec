------------------------------ MODULE MCCamelServer ------------------------------
(* Instances of CamelServer for TLC.                                             *)
EXTENDS CamelServer, TLC

CONSTANTS c1, c2, c3, t1, th1, th2, k1, k2, s1, s2

OneTaskOf == [c \in Calls |-> t1]
OneThreadTask == [t \in Threads |-> t1]

(* Every connection has a port of its own.                                       *)
OwnAddress == [k \in Conns |-> k]

(* With these, connections are interchangeable, and senders are.                 *)
ServerSymmetry == Permutations(Conns) \cup Permutations(Senders)
================================================================================
