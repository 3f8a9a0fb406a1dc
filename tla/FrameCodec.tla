------------------------------ MODULE FrameCodec ------------------------------
(***************************************************************************)
(* The length-prefixed frame format of infra/network/rpc.go, as pure      *)
(* operators over byte sequences.  A request frame is                     *)
(*   TotalLen | MethodNameLen | MethodName | PayloadLen | Payload         *)
(* and a response frame has the same layout with the error string in      *)
(* place of the method name; every length is an int32 in big-endian       *)
(* two's complement.  Call and handleConnection build and parse both      *)
(* frames with the same sequence of binary.Write/binary.Read/io.ReadFull   *)
(* calls, so one encoder and one decoder serve both directions.            *)
(***************************************************************************)
EXTENDS Integers, Sequences, SequencesExt

(* Faulty variant of Int32BE: the length is written little-endian. *)
Int32BELittle(n) == [i \in 1..4 |-> (n \div 256^(i - 1)) % 256]

(* binary.Write(w, binary.BigEndian, int32(n)) for a length n: written   *)
(* most significant byte first.  int32(n) wraps only for n >= 2^31, a     *)
(* slice of 2 GiB that no bounded input reaches.                          *)
Int32BE(n) == [i \in 1..4 |-> (n \div 256^(4 - i)) % 256]

(* binary.Read(r, binary.BigEndian, &x) for an int32 x: the first four    *)
(* bytes, read as a signed value.                                          *)
ReadInt32BE(s) ==
  (IF s[1] >= 128 THEN s[1] - 256 ELSE s[1]) * 256^3
    + s[2] * 256^2 + s[3] * 256 + s[4]

(* The request (or response) buffer: each field preceded by its length,  *)
(* then the total length of that buffer sent first.                       *)
EncodeFrame(a, b) ==
  LET body == Int32BE(Len(a)) \o a \o Int32BE(Len(b)) \o b
  IN Int32BE(Len(body)) \o body

(* A decoding that stopped at an error. *)
Fail(st) == [status |-> st, first |-> <<>>, second |-> <<>>, rest |-> <<>>]

(* Faulty variant of DecodeFrame: the frame is read with a single Read   *)
(* instead of io.ReadFull, so a frame cut short is parsed as if complete. *)
DecodeFrameReadingAvailable(s) ==
  LET total == ReadInt32BE(s)
      frame == SubSeq(s, 5, IF total < Len(s) - 4 THEN 4 + total ELSE Len(s))
      alen  == ReadInt32BE(frame)
      r1    == SubSeq(frame, 5 + alen, Len(frame))
      blen  == ReadInt32BE(r1)
  IN IF Len(s) < 4 THEN Fail("eof")
     ELSE IF total <= 0 THEN Fail("invalid")
     ELSE IF Len(frame) < 4 THEN Fail("short")
     ELSE IF alen < 0 THEN Fail("panic")
     ELSE IF Len(frame) - 4 < alen THEN Fail("short")
     ELSE IF Len(r1) < 4 THEN Fail("short")
     ELSE IF blen < 0 THEN Fail("panic")
     ELSE IF Len(r1) - 4 < blen THEN Fail("short")
     ELSE [status |-> "ok",
           first  |-> SubSeq(frame, 5, 4 + alen),
           second |-> SubSeq(r1, 5, 4 + blen),
           rest   |-> SubSeq(s, 5 + total, Len(s))]

(* Reading one frame from the bytes s that the peer sent before closing.  *)
(* The outcomes, in the order the code meets them:                         *)
(*   "eof"     fewer than 4 bytes, or fewer than TotalLen after them:      *)
(*             binary.Read / io.ReadFull fail with (Unexpected)EOF;        *)
(*   "invalid" TotalLen <= 0;                                              *)
(*   "short"   a length or field runs past the end of the frame;           *)
(*   "panic"   an inner length is negative: make([]byte, n) panics;        *)
(*   "ok"      both fields, and the bytes after the frame.                 *)
(* Bytes of the frame after the second field are ignored.                 *)
DecodeFrame(s) ==
  LET total == ReadInt32BE(s)
      frame == SubSeq(s, 5, 4 + total)
      alen  == ReadInt32BE(frame)
      r1    == SubSeq(frame, 5 + alen, Len(frame))
      blen  == ReadInt32BE(r1)
  IN IF Len(s) < 4 THEN Fail("eof")
     ELSE IF total <= 0 THEN Fail("invalid")
     ELSE IF Len(s) - 4 < total THEN Fail("eof")
     ELSE IF Len(frame) < 4 THEN Fail("short")
     ELSE IF alen < 0 THEN Fail("panic")
     ELSE IF Len(frame) - 4 < alen THEN Fail("short")
     ELSE IF Len(r1) < 4 THEN Fail("short")
     ELSE IF blen < 0 THEN Fail("panic")
     ELSE IF Len(r1) - 4 < blen THEN Fail("short")
     ELSE [status |-> "ok",
           first  |-> SubSeq(frame, 5, 4 + alen),
           second |-> SubSeq(r1, 5, 4 + blen),
           rest   |-> SubSeq(s, 5 + total, Len(s))]

(* The frames a reader takes off a byte stream: handleConnection's loop,  *)
(* or successive Calls on a pooled connection, which parse a response with *)
(* the same steps as DecodeFrame (rpc.go 456-501).  The result is the      *)
(* <<first, second>> field pairs in order, and how the stream ended ("ok" *)
(* at a frame boundary, else the status of the frame that did not decode). *)
RECURSIVE DecodeStream(_)
DecodeStream(s) ==
  IF s = <<>> THEN [frames |-> <<>>, end |-> "ok"]
  ELSE LET d == DecodeFrame(s) IN
       IF d.status = "ok"
       THEN LET r == DecodeStream(d.rest)
            IN [r EXCEPT !.frames = <<<<d.first, d.second>>>> \o @]
       ELSE [frames |-> <<>>, end |-> d.status]
==============================================================================
