-------------------------------- MODULE CamelCodec --------------------------------
(* The CAMEL messages: the table of parameters, the requests the generator        *)
(* composes, Encoder and LenghtTCP, and the session id.                           *)
(*                                                                                *)
(* Abstracted: the bytes of a parameter, to how many there are; those a property  *)
(* is about, the session id and the location, are kept beside the frame.  The     *)
(* encoder walks a Go map, in no certain order: the bytes on the wire are a set   *)
(* of tag-length-value units, at most one for a tag.                              *)
EXTENDS Naturals, SequencesExt

(* The types of messages.                                                         *)
AUTHORIZEVOICE_REQ == \h1001
AUTHORIZEVOICE_CONFIRM == \h1003
AUTHORIZEVOICE_REJECT == \h1004
ENDVOICE_REQ == \h1005
ENDVOICE_RESP == \h1006
AUTHORIZESMS_REQ == \h3001
AUTHORIZESMS_CONFIRM == \h3002
AUTHORIZESMS_REJECT == \h3003
ENDSMS_REQ == \h3004
ENDSMS_RESP == \h3005

(* camel_params_desc: the tags of every type.                                     *)
TagsOf ==
    [integer |-> {\h04, \h05, \h0F, \h13, \h1C, \h26, \h27, \h28, \h2A, \h2B, \h31,
                  \h52, \h53, \h65},
     boolean |-> {\h12, \h40, \h41},
     byte    |-> {\h0C, \h14, \h15, \h16, \h2F, \h32, \h3A, \h3B, \h3D, \h3E, \h3F,
                  \h42, \h45, \h50, \h51, \h61},
     string  |-> {\h01, \h02, \h07, \h08, \h0A, \h0E, \h10, \h17, \h1A, \h1E, \h20,
                  \h22, \h23, \h24, \h29, \h2C, \h2E, \h34, \h37, \h44, \h62, \h64,
                  \h66},
     buffer  |-> {\h03, \h06, \h09, \h0B, \h0D, \h11, \h18, \h19, \h1B, \h1D, \h1F,
                  \h21, \h25, \h2D, \h30, \h33, \h35, \h36, \h38, \h39, \h3C, \h60,
                  \h63, \h67},
     Short   |-> {\h43}]

(* camel_type: the types that have a length of their own.  "Short" is not the     *)
(* table's "short", so a CUGIndex has none of them.                               *)
StaticLen == [integer |-> 4, boolean |-> 1, byte |-> 1, short |-> 2]
DynamicTypes == {"string", "buffer"}

TypeOf(tag) == CHOOSE type \in DOMAIN TagsOf : tag \in TagsOf[type]

(* MaxLen of a parameter, as far as a message is composed with it.                *)
MaxLenOf(tag) == IF tag \in {\h52, \h53} THEN 1 ELSE StaticLen[TypeOf(tag)]

-----------------------------------------------------------------------------
(* A frame is the set of its parameters: tag, LengthParams and the number of      *)
(* bytes of Param.  It is a map in the code; no request sets a tag twice.         *)
Sized(tag, n) == {[tag |-> tag, length |-> n, size |-> n]}

(* A parameter whose LengthParams is the MaxLen of tag "of" in the table.         *)
Fixed(tag, of, n) == {[tag |-> tag, length |-> MaxLenOf(of), size |-> n]}

(* msisdn, imsi, dst and smsc are numbers of digits, location one of bytes.       *)
Subscriber(x) == Sized(\h17, x.imsi) \cup Sized(\h20, x.msisdn) \cup Sized(\h0A, x.msisdn)
                 \cup Sized(\h0B, 3)

(* The time is sixteen digits, two in a byte.                                     *)
TimeAndTimezone == Sized(\h30, 8)

AuthorizeSMS_req(x) ==
    Sized(\h2C, 16) \cup Fixed(\h2B, \h2B, 4) \cup Fixed(\h42, \h42, 1) \cup Fixed(\h15, \h15, 1)
    \cup (IF x.smsc # 0 THEN Sized(\h2E, x.smsc) \cup Sized(\h2D, 2) ELSE {})
    \cup Sized(\h19, x.location) \cup TimeAndTimezone \cup Subscriber(x)
    \cup Sized(\h10, x.dst) \cup Sized(\h11, 2)

AuthorizeVoice_req(x) ==
    Sized(\h2C, 16) \cup Fixed(\h2B, \h2B, 4) \cup Fixed(\h42, \h42, 1) \cup Subscriber(x)
    \cup Fixed(\h2A, \h2A, 4) \cup Fixed(\h3F, \h3F, 1) \cup Sized(\h08, x.dst) \cup Sized(\h09, 3)
    \cup TimeAndTimezone \cup Sized(\h1A, 0) \cup Fixed(\h14, \h14, 1) \cup Sized(\h18, x.location)

(* The end requests return the session id of the answer, all of it; the bytes     *)
(* EndReason and SMSStatus get the LengthParams of the integer ServiceKey.        *)
EndSMS_req == Sized(\h2C, 16) \cup Fixed(\h3A, \h2B, 1) \cup Fixed(\h2F, \h2B, 1)

EndVoice_req == Sized(\h2C, 16) \cup Fixed(\h3A, \h2B, 1) \cup Fixed(\h26, \h26, 4)
                \cup Fixed(\h04, \h04, 4) \cup Fixed(\h05, \h05, 4) \cup Sized(\h0E, 19)

-----------------------------------------------------------------------------
IsStatic(tag) == TypeOf(tag) \in DOMAIN StaticLen

(* LenghtTCP: eight bytes of header, four before every parameter; uint16.         *)
LenghtTCP(frame) ==
    (8 + MapThenSumSet(LAMBDA p : 4 + IF IsStatic(p.tag) THEN StaticLen[TypeOf(p.tag)]
                                      ELSE p.size,
                       frame)) % 65536

(* Mutant of Declared: the parameter's own length is written for a byte, too.     *)
DeclaredAsComposed(p) == p.length

(* The length Encoder writes before a parameter.                                  *)
Declared(p) == IF IsStatic(p.tag) THEN StaticLen[TypeOf(p.tag)] ELSE p.length

(* Encoder writes the parameters of the types it knows.                           *)
Encoder(frame) ==
    [length |-> LenghtTCP(frame),
     units  |-> {[tag |-> p.tag, declared |-> Declared(p), size |-> p.size] :
                    p \in {q \in frame : IsStatic(q.tag) \/ TypeOf(q.tag) \in DynamicTypes}}]

(* A reader finds every parameter, and the next message behind this one, whatever *)
(* the order of the units, when each declares the bytes it has and the message    *)
(* declares them all.                                                             *)
InStep(wire) ==
    /\ \A u \in wire.units : u.declared = u.size
    /\ wire.length = 8 + MapThenSumSet(LAMBDA u : 4 + u.size, wire.units)

-----------------------------------------------------------------------------
(* Stringtobytereverse: two digits in a byte, the last byte padded.               *)
BytesOf(digits) == (digits + 1) \div 2

(* NewCamelSessionID: eight bytes with the number's digits, four random ones, the *)
(* SCP's id, the place of the BRT's id (0 until it is known) and two zeros.       *)
SessionBytes == 0 .. 15

NewCamelSessionID(msisdn, random, scp) ==
    [i \in SessionBytes |-> CASE i < 8 -> <<"msisdn", msisdn>>
                              [] i \in 8 .. 11 -> <<"random", random>>
                              [] i = 12 -> <<"scp", scp>>
                              [] OTHER -> <<"zero">>]

(* Stringtobyte: two digits in a byte; the last digit of an odd number is lost.   *)
Stringtobyte(digits) ==
    [i \in 1 .. BytesOf(Len(digits)) |->
        IF 2 * i <= Len(digits) THEN 16 * digits[2 * i - 1] + digits[2 * i] ELSE 0]

(* Param[0:12], the key of the cache.                                             *)
KeyBytes == 0 .. 11
SessionKey(sid) == [i \in KeyBytes |-> sid[i]]

-----------------------------------------------------------------------------
(* Go's append to a byte slice of length s.len and capacity s.cap: when the bytes *)
(* do not fit, an array of twice the capacity, or as large as is needed, rounded  *)
(* up to a size class of the allocator.                                           *)
SizeClasses == {8, 16, 24, 32, 48, 64, 80, 96, 112, 128}
RoundUp(n) == Min({k \in SizeClasses : k >= n})
AppendBytes(s, n) ==
    [len |-> s.len + n,
     cap |-> IF s.len + n <= s.cap THEN s.cap ELSE RoundUp(Max({s.len + n, 2 * s.cap}))]

(* InitMSC appends the constant part of the location: 0xa5 and its length, 0x81   *)
(* and its, 0x91, the VLR's number, four bytes of CellIDorLAI, the codes of the   *)
(* country and of the operator.  What is left of the capacity is the spare part.  *)
LocationMSCbase(xvlr, country, operator) ==
    FoldLeft(AppendBytes, [len |-> 0, cap |-> 0],
             <<1, 1, 1, 1, 1, BytesOf(xvlr), 1, 1, 1, 1, BytesOf(country), BytesOf(operator)>>)

SpareBytes(base) == base.cap - base.len
================================================================================
