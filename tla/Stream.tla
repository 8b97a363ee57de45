------------------------------- MODULE Stream -------------------------------
(***************************************************************************)
(* Octets and what read.go and write.go put together without recursion:    *)
(* numbers, strings, and the frames as records.  A string is a sequence of *)
(* octets, a number the octets that hold it, highest first, as             *)
(* binary.BigEndian puts them: a conversion to fewer bits keeps the last   *)
(* ones.  A time is the eight octets of Unix() and a last one for what     *)
(* lies below the second.                                                  *)
(*                                                                         *)
(* To write returns [err, out], to read returns [err, v, rest] with what is *)
(* left of the stream.                                                     *)
(***************************************************************************)
EXTENDS Integers, Sequences

Octet == 0 .. 255

\* The weight of the last octet, of the one before it, and so on.
Weight == <<1, 256, 65536, 16777216>>

Octets(n, width) ==
  [i \in 1 .. width |-> IF width - i > 3 THEN 0 ELSE (n \div Weight[width - i + 1]) % 256]

\* A length from 2^31 on is longer than any stream: MaxInt stands for it.
MaxInt == 2147483647
Number(o) ==
  LET high     == Len(o) - 4
      Share(k) == IF k <= Len(o) THEN Weight[k] * o[Len(o) + 1 - k] ELSE 0
  IN  IF (\E i \in 1 .. high : o[i] # 0) \/ (high >= 0 /\ o[high + 1] > 127) THEN MaxInt
      ELSE Share(1) + Share(2) + Share(3) + Share(4)

-----------------------------------------------------------------------------
(***************************************************************************)
(* Writing.                                                                *)
(***************************************************************************)
Out(octets) == [err |-> "nil", out |-> octets]
Refused(e)  == [err |-> e, out |-> <<>>]

\* The length is cut to eight bits, and the string with it.
writeShortstr(s) == LET length == Len(s) % 256 IN Out(<<length>> \o SubSeq(s, 1, length))
writeLongstr(s)  == Out(Octets(Len(s), 4) \o s)

-----------------------------------------------------------------------------
(***************************************************************************)
(* Reading.                                                                *)
(***************************************************************************)
Got(v, rest)    == [err |-> "nil", v |-> v, rest |-> rest]
Failed(e, rest) == [err |-> e, v |-> <<>>, rest |-> rest]

\* What then does with the result of a read, unless that failed.
Then(r, next(_, _)) == IF r.err = "nil" THEN next(r.v, r.rest) ELSE r

\* io.ReadFull and binary.Read: io.EOF only when there was nothing left.
readFull(s, n) ==
  IF Len(s) >= n THEN Got(SubSeq(s, 1, n), SubSeq(s, n + 1, Len(s)))
  ELSE Failed(IF s = <<>> THEN "EOF" ELSE "UnexpectedEOF", <<>>)

readShortstr(s) == Then(readFull(s, 1), LAMBDA length, rest : readFull(rest, length[1]))

\* A length that no slice can have is taken for an empty string.
readLongstr(s) ==
  Then(readFull(s, 4), LAMBDA length, rest :
    IF length[1] > 127 THEN Got(<<>>, rest) ELSE readFull(rest, Number(length)))

\* A negative length makes make([]byte, len) panic.
readBytes(s) ==
  Then(readFull(s, 4), LAMBDA length, rest :
    IF length[1] > 127 THEN Failed("panic", rest) ELSE readFull(rest, Number(length)))

readDecimal(s) ==
  Then(readFull(s, 1), LAMBDA scale, r : Then(readFull(r, 4), LAMBDA v, rest : Got(scale \o v, rest)))

readTimestamp(s) == Then(readFull(s, 8), LAMBDA sec, rest : Got(Append(sec, 0), rest))

-----------------------------------------------------------------------------
(***************************************************************************)
(* Frames.                                                                 *)
(***************************************************************************)
frameMethod    == 1
frameHeader    == 2
frameBody      == 3
frameHeartbeat == 8
frameEnd       == 206

methodFrame(c, m, args)      == [type |-> frameMethod, channel |-> c, name |-> m, args |-> args]
headerFrame(c, cl, size, ps) == [type |-> frameHeader, channel |-> c, class |-> cl, size |-> size, props |-> ps]
bodyFrame(c, body)           == [type |-> frameBody, channel |-> c, body |-> body]
heartbeatFrame(c)            == [type |-> frameHeartbeat, channel |-> c]

parseBodyFrame(c, size, s) == Then(readFull(s, size), LAMBDA body, rest : Got(bodyFrame(c, body), rest))

parseHeartbeatFrame(c, size, s) ==
  IF size > 0 THEN Failed("errHeartbeatPayload", s) ELSE Got(heartbeatFrame(c), s)
=============================================================================
