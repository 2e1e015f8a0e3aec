------------------------------ MODULE MessageStream ------------------------------
(* What the CAMEL server relies on when it reads a connection: the messages the  *)
(* peer sent are handled once each, in the order they were sent.                 *)
EXTENDS Naturals, Sequences

CONSTANT Messages

VARIABLES sent,     \* the messages sent so far
          handled   \* the messages given to CamelResponse so far

svars == <<sent, handled>>

SInit == sent = <<>> /\ handled = <<>>

Send == /\ \E m \in Messages : sent' = Append(sent, m)
        /\ UNCHANGED handled

Handle == /\ Len(handled) < Len(sent)
          /\ handled' = Append(handled, sent[Len(handled) + 1])
          /\ UNCHANGED sent

SSpec == SInit /\ [][Send \/ Handle]_svars
================================================================================
