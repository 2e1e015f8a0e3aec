------------------------------- MODULE RecTypeChoice -------------------------------
(* How a call gets its record type: InitVariables lays the configured rates out  *)
(* as consecutive intervals of 0 .. 100, and RandomRecType returns the interval  *)
(* a random number of 0 .. 99 falls into, which CDRRecTypeCount counts.          *)
(*                                                                               *)
(* The hundred numbers are equally likely, so one sweep over them, in any order, *)
(* gives the percentage of every type.  Types are numbered from 1 here.          *)
EXTENDS Naturals, Sequences

CONSTANT Configs  \* the sequences of rates a task may be configured with

ASSUME ConfigsAssumption == Configs \subseteq (Seq(Nat) \ {<<>>})

VARIABLES rates,        \* the rates of the task's record types
          c,            \* the number rand.Intn(100) returns next in the sweep
          recTypeCount  \* recTypeCount[i]: CDRRecTypeCount of type i

vars == <<rates, c, recTypeCount>>

Types == 1 .. Len(rates)

(* The upper bounds of the intervals; an interval begins where the last ends.   *)
RangeMax == LET max[i \in Types] == IF i = 1 THEN rates[1] ELSE rates[i] + max[i - 1]
            IN  max

RangeMin(i) == IF i = 1 THEN 0 ELSE RangeMax[i - 1]

(* Both bounds are strict.                                                      *)
InRange(i, n) == RangeMin(i) < n /\ n < RangeMax[i]

(* The first interval that holds n, and the first type if none does.            *)
RandomRecType(n) ==
    IF \E i \in Types : InRange(i, n)
    THEN CHOOSE i \in Types : InRange(i, n) /\ \A j \in 1 .. i - 1 : ~InRange(j, n)
    ELSE 1

Init == /\ rates \in Configs
        /\ c = 0
        /\ recTypeCount = [i \in Types |-> 0]

Draw == /\ c < 100
        /\ c' = c + 1
        /\ recTypeCount' = [recTypeCount EXCEPT ![RandomRecType(c)] = @ + 1]
        /\ UNCHANGED rates

Spec == Init /\ [][Draw]_vars

-----------------------------------------------------------------------------
(* The share every type has in place of its rate, which the configuration guide  *)
(* calls its percentage: with rates that add up to 100 the strict bounds take    *)
(* one percent from every type but the first and give it to the first, whatever  *)
(* the intervals, and a type of rate 1 is never generated.                       *)
SharesButOnePercent ==
    c = 100 /\ RangeMax[Len(rates)] = 100 /\ (\A i \in Types : rates[i] > 0) =>
        \A i \in Types : recTypeCount[i] = IF i = 1 THEN rates[1] + Len(rates) - 1
                                           ELSE rates[i] - 1
================================================================================
