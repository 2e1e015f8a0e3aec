-------------------------------- MODULE TlvFraming --------------------------------
(* readNetConn and DecoderBuffer: the CAMEL server cuts the byte stream of a     *)
(* connection into messages.  TCP delivers the stream in chunks of any size, so  *)
(* a read may end inside a message or inside its header, or bring several        *)
(* messages.  What is left over waits in buffer_tmp for the next read; a read    *)
(* that meets its deadline changes nothing.                                      *)
(*                                                                               *)
(* Abstracted: a byte is its offset in the stream, so the buffer is the interval *)
(* pos .. got - 1; a message is its sequence number and its length.  The peer    *)
(* writes whole messages whose length field counts the header.                   *)
EXTENDS Naturals, Sequences

CONSTANTS Lengths,     \* the values of the length field
          BuffSize,    \* the bytes a Read takes at most: 16048
          MaxMessages  \* bound: the messages sent in a behaviour

(* Length, type and sequence number: DecoderBuffer's 8.                         *)
Header == 8

ASSUME FramingAssumption == /\ Lengths \subseteq {n \in Nat : n >= Header}
                            /\ BuffSize \in Nat \ {0}
                            /\ MaxMessages \in Nat

VARIABLES sent,     \* the messages the peer has written
          start,    \* start[k]: the offset of message k in the stream
          written,  \* the bytes the peer has written
          got,      \* the bytes read
          pos,      \* the offset buffer_tmp begins at
          hpc,      \* the handler: in "read" or in the "decode" loop
          handled   \* the messages given to CamelResponse

peerVars == <<sent, start, written>>
vars == <<peerVars, got, pos, hpc, handled>>

Messages == [seq : 1 .. MaxMessages, len : Lengths]

TypeOK == /\ sent \in Seq(Messages)
          /\ start \in Seq(Nat)
          /\ Len(start) = Len(sent)
          /\ written \in Nat /\ got \in Nat /\ pos \in Nat
          /\ pos <= got /\ got <= written
          /\ hpc \in {"read", "decode"}
          /\ handled \in Seq(Messages)

Init == /\ sent = <<>> /\ start = <<>> /\ written = 0
        /\ got = 0 /\ pos = 0
        /\ hpc = "read"
        /\ handled = <<>>

-----------------------------------------------------------------------------
(* The peer (external) writes a message.                                        *)
PeerWrites == /\ Len(sent) < MaxMessages
              /\ \E n \in Lengths :
                    /\ sent' = Append(sent, [seq |-> Len(sent) + 1, len |-> n])
                    /\ start' = Append(start, written)
                    /\ written' = written + n
              /\ UNCHANGED <<got, pos, hpc, handled>>

(* conn.Read returns some of the bytes under way; they are appended.            *)
ReadChunk == /\ hpc = "read"
             /\ \E n \in 1 .. BuffSize : got + n <= written /\ got' = got + n
             /\ hpc' = "decode"
             /\ UNCHANGED <<peerVars, pos, handled>>

-----------------------------------------------------------------------------
(* DecoderBuffer looks at the first len(r) = Held bytes; the message it finds   *)
(* there is the one that begins at pos (that there is one, see BufferInStep).   *)
Held == got - pos

AtFront(k) == k \in 1 .. Len(sent) /\ start[k] = pos

(* Mutant of AwaitMore: a message is awaited together with the next one.        *)
AwaitNext == /\ hpc = "decode"
             /\ Held < Header \/ \E k \in 1 .. Len(sent) : AtFront(k) /\ Held <= sent[k].len
             /\ hpc' = "read"
             /\ UNCHANGED <<peerVars, got, pos, handled>>

(* cont = -1: the header or the message is not complete.                        *)
AwaitMore == /\ hpc = "decode"
             /\ Held < Header \/ \E k \in 1 .. Len(sent) : AtFront(k) /\ Held < sent[k].len
             /\ hpc' = "read"
             /\ UNCHANGED <<peerVars, got, pos, handled>>

(* Mutants of CutFirst: the length is taken without the header; the loop ends   *)
(* after one message.                                                           *)
CutWithoutHeader(k) == /\ hpc = "decode"
                       /\ AtFront(k)
                       /\ Held >= Header /\ Held > sent[k].len
                       /\ pos' = pos + sent[k].len - Header
                       /\ handled' = Append(handled, sent[k])
                       /\ UNCHANGED <<peerVars, got, hpc>>

CutFirstAndRead(k) == /\ hpc = "decode"
                      /\ AtFront(k)
                      /\ Held >= Header /\ Held > sent[k].len
                      /\ pos' = pos + sent[k].len
                      /\ handled' = Append(handled, sent[k])
                      /\ hpc' = "read"
                      /\ UNCHANGED <<peerVars, got>>

(* cont = 1: there is more in the buffer than the first message.  The message   *)
(* is handled at once, and the loop goes on with the rest.                      *)
CutFirst(k) == /\ hpc = "decode"
               /\ AtFront(k)
               /\ Held >= Header /\ Held > sent[k].len
               /\ pos' = pos + sent[k].len
               /\ handled' = Append(handled, sent[k])
               /\ UNCHANGED <<peerVars, got, hpc>>

(* Mutant of CutLast: the buffer is kept.                                       *)
CutLastAndKeep(k) == /\ hpc = "decode"
                     /\ AtFront(k)
                     /\ Held >= Header /\ Held = sent[k].len
                     /\ handled' = Append(handled, sent[k])
                     /\ hpc' = "read"
                     /\ UNCHANGED <<peerVars, got, pos>>

(* cont = 0: the buffer is exactly one message, and is empty after it.          *)
CutLast(k) == /\ hpc = "decode"
              /\ AtFront(k)
              /\ Held >= Header /\ Held = sent[k].len
              /\ pos' = got
              /\ handled' = Append(handled, sent[k])
              /\ hpc' = "read"
              /\ UNCHANGED <<peerVars, got>>

Decode == AwaitMore \/ \E k \in 1 .. Len(sent) : CutFirst(k) \/ CutLast(k)

Next == PeerWrites \/ ReadChunk \/ Decode

Spec == Init /\ [][Next]_vars

(* The network delivers what was written while the connection is open, and the  *)
(* handler's loop reads again after each deadline.                              *)
FairSpec == Spec /\ WF_vars(ReadChunk) /\ WF_vars(Decode)

-----------------------------------------------------------------------------
EndOf(k) == start[k] + sent[k].len

(* The buffer always begins with a message, and with the first that was not     *)
(* handled: however the chunks fall, the next two bytes are a length.           *)
BufferInStep == pos = IF Len(handled) = Len(sent) THEN written
                      ELSE start[Len(handled) + 1]

(* When the handler goes back to read, it has handled exactly the messages that *)
(* have arrived in full: none is held back until the next one comes, and none   *)
(* is handled before its last byte (readNetConn).                               *)
HandledWhatArrived ==
    /\ Len(handled) <= Len(sent)
    /\ \A k \in 1 .. Len(sent) :
          /\ k <= Len(handled) => EndOf(k) <= got
          /\ hpc = "read" /\ EndOf(k) <= got => k <= Len(handled)

(* Each message is handled once and in order, whatever the chunks.              *)
Stream == INSTANCE MessageStream

ImplementsStream == Stream!SSpec

(* A message that was written is handled.                                       *)
EveryMessageHandled ==
    \A k \in 1 .. MaxMessages : Len(sent) >= k ~> Len(handled) >= k
================================================================================
