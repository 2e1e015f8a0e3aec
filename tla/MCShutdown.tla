-------------------------------- MODULE MCShutdown --------------------------------
(* Instances of Shutdown for TLC.                                                *)
EXTENDS Shutdown

Option(d, b, l, c, f, i, v) ==
    [daemon |-> d, brt |-> b, brtlist |-> l, camel |-> c, tofile |-> f, influx |-> i,
     version |-> v]

(* Diameter and files, with reports to version 2; the same reports over both      *)
(* kinds of response for a task that is CAMEL's only; a task of both, without      *)
(* reports; files alone; a daemon without CAMEL, which starts no threads.          *)
SomeOptions == {Option(FALSE, TRUE, {1}, FALSE, TRUE, TRUE, 2),
                Option(FALSE, TRUE, {}, TRUE, FALSE, TRUE, 2),
                Option(FALSE, TRUE, {1}, TRUE, FALSE, FALSE, 0),
                Option(FALSE, FALSE, {}, FALSE, TRUE, FALSE, 0),
                Option(TRUE, TRUE, {}, FALSE, FALSE, FALSE, 0)}

(* Another generator meets the first one in its file only, and a process takes no  *)
(* more than the file over from one before: these options are enough for it.       *)
NoReports == {o \in SomeOptions : ~o.influx}
================================================================================
