-------------------------------- MODULE CamelFrames --------------------------------
(* What the handlers read of a message: readNetConn makes one Camel_tcp for a     *)
(* read, DecoderChunk puts the parameters of every message the read completes     *)
(* into its one Frame, and the parameters of the messages before stay there.      *)
(*                                                                                *)
(* On the stream of TlvFraming; a parameter is told by the message it came with.  *)
EXTENDS TlvFraming

VARIABLES kind,   \* kind[k]: what message k is
          frame,  \* frame[tag]: the message that brought the parameter, 0 if none did
          seen    \* seen[k]: the parameters read when message k was handled

framesVars == <<vars, kind, frame, seen>>

BRTId == \h50
SessionID == \h2C
Charge == \h40
Tags == {BRTId, SessionID, Charge}

(* What a BRT sends (external): the parameters of each kind, and its length:      *)
(* eight bytes, four before every parameter, and the parameters'.                 *)
Kinds == {[name |-> "STARTUP_REQ", tags |-> {BRTId}, len |-> 8 + 4 + 1],
          [name |-> "KEEPALIVE_REQ", tags |-> {}, len |-> 8],
          [name |-> "AUTHORIZE_CONFIRM", tags |-> {SessionID, Charge}, len |-> 8 + 4 + 16 + 4 + 1],
          [name |-> "AUTHORIZE_REJECT", tags |-> {SessionID}, len |-> 8 + 4 + 16],
          [name |-> "END_RESP", tags |-> {SessionID}, len |-> 8 + 4 + 16]}

(* What the two CamelResponse look up for each.                                   *)
Reads == [STARTUP_REQ |-> {BRTId}, KEEPALIVE_REQ |-> {},
          AUTHORIZE_CONFIRM |-> {SessionID, Charge}, AUTHORIZE_REJECT |-> {SessionID},
          END_RESP |-> {SessionID}]

FramesInit == /\ Init
              /\ kind = <<>>
              /\ frame = [tag \in Tags |-> 0]
              /\ seen = <<>>

PeerWritesKind == /\ PeerWrites
                  /\ \E x \in Kinds : /\ x.len = sent'[Len(sent')].len
                                      /\ kind' = Append(kind, x)
                  /\ UNCHANGED <<frame, seen>>

(* NewCamelTCP: an empty map for what this read completes.                        *)
ReadFresh == /\ ReadChunk
             /\ frame' = [tag \in Tags |-> 0]
             /\ UNCHANGED <<kind, seen>>

Await == AwaitMore /\ UNCHANGED <<kind, frame, seen>>

(* Mutant of DecoderChunk: a parameter that is there is not overwritten.          *)
ChunkKeeps(k) == frame' = [tag \in Tags |-> IF frame[tag] = 0 /\ tag \in kind[k].tags
                                            THEN k ELSE frame[tag]]

(* DecoderChunk walks the parameters of the message.                              *)
DecoderChunk(k) == frame' = [tag \in Tags |-> IF tag \in kind[k].tags THEN k ELSE frame[tag]]

(* A message that is complete is decoded, and handled before the next one is.     *)
HandleNext == /\ \E k \in 1 .. Len(sent) :
                    /\ CutFirst(k) \/ CutLast(k)
                    /\ DecoderChunk(k)
                    /\ seen' = Append(seen, [tag \in Reads[kind[k].name] |-> frame'[tag]])
              /\ UNCHANGED kind

FramesNext == PeerWritesKind \/ ReadFresh \/ Await \/ HandleNext

FramesSpec == /\ FramesInit /\ [][FramesNext]_framesVars
              /\ WF_framesVars(ReadFresh) /\ WF_framesVars(Await \/ HandleNext)

-----------------------------------------------------------------------------
(* A handler reads the parameters of its own message, though the frame may hold   *)
(* those of every message the read has brought: a CONFIRM is never taken with the *)
(* charge, or the session, of the message before.                                 *)
ReadsOwnParameters ==
    \A k \in 1 .. Len(seen) : \A tag \in DOMAIN seen[k] : seen[k][tag] = k
================================================================================
