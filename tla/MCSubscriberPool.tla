----------------------------- MODULE MCSubscriberPool -----------------------------
(* Instances of SubscriberPool for TLC.                                          *)
EXTENDS SubscriberPool, TLC

CONSTANTS th1, th2
================================================================================
