------------------------------ MODULE OfflineLedger ------------------------------
(* What the generator promises about offline CDRs, without channels, caches,     *)
(* connections or goroutines.  A call is charged online: it is "asked" until the *)
(* BRT answers.  An answer 4011, 4522 or 4012 makes the generator owe one CDR    *)
(* for that call; any other answer closes it.  A call that cannot be asked       *)
(* online (no Service-Context-Id) owes its CDR at once.  A CDR that is owed is   *)
(* recorded at most once, or dropped when the disk refuses the line.             *)
EXTENDS Naturals

CONSTANT Calls

VARIABLES status,  \* status[c]: where call c stands
          cdr      \* cdr[c]: CDR lines written for call c

lvars == <<status, cdr>>

Statuses == {"new", "asked", "owed", "closed"}

LInit == /\ status = [c \in Calls |-> "new"]
         /\ cdr = [c \in Calls |-> 0]

Move(c, from, to) == /\ status[c] = from
                     /\ status' = [status EXCEPT ![c] = to]

Ask(c) == Move(c, "new", "asked") /\ UNCHANGED cdr

OweAtOnce(c) == Move(c, "new", "owed") /\ UNCHANGED cdr

AnswerOffline(c) == Move(c, "asked", "owed") /\ UNCHANGED cdr

AnswerCharged(c) == Move(c, "asked", "closed") /\ UNCHANGED cdr

Record(c) == /\ Move(c, "owed", "closed")
             /\ cdr' = [cdr EXCEPT ![c] = @ + 1]

Drop(c) == Move(c, "owed", "closed") /\ UNCHANGED cdr

CallStep(c) == \/ Ask(c)
               \/ OweAtOnce(c)
               \/ AnswerOffline(c)
               \/ AnswerCharged(c)
               \/ Record(c)
               \/ Drop(c)

LNext == \E c \in Calls : CallStep(c)

LSpec == LInit /\ [][LNext]_lvars
================================================================================
