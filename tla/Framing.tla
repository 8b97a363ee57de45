------------------------------ MODULE Framing -------------------------------
(***************************************************************************)
(* The frame around its payload, writeFrame and ReadFrame, whatever reads  *)
(* the payload of methods and headers.                                     *)
(***************************************************************************)
EXTENDS Encode

CONSTANTS ParseMethod(_, _),  \* read a method frame of a channel from a stream
          ParseHeader(_, _),  \* read a header frame of a channel from a stream
          KeptArgs(_, _),     \* what is left of the arguments of a method when they are read
          KeptProps(_)        \* what is left of properties

payload(f) ==
  CASE f.type = frameMethod    -> methodPayload(f)
    [] f.type = frameHeader    -> headerPayload(f)
    [] f.type = frameBody      -> Out(f.body)
    [] f.type = frameHeartbeat -> Out(<<>>)

\* (Mutated form: the channel's low octet first.)
writeFrameLowFirst(f) ==
  LET p == payload(f)
  IN  IF p.err # "nil" THEN p
      ELSE Out(<<f.type>> \o Reverse(Octets(f.channel, 2)) \o Octets(Len(p.out), 4) \o p.out \o <<frameEnd>>)

writeFrame(f) ==
  LET p == payload(f)
  IN  IF p.err # "nil" THEN p
      ELSE Out(<<f.type>> \o Octets(f.channel, 2) \o Octets(Len(p.out), 4) \o p.out \o <<frameEnd>>)

\* The size counts for a body only: methods and headers end where their last field does.
parseFrame(type, c, size, s) ==
  CASE type = frameMethod    -> ParseMethod(c, s)
    [] type = frameHeader    -> ParseHeader(c, s)
    [] type = frameBody      -> parseBodyFrame(c, size, s)
    [] type = frameHeartbeat -> parseHeartbeatFrame(c, size, s)
    [] OTHER                 -> Failed("ErrFrame", s)

ReadFrame(s) ==
  Then(readFull(s, 7), LAMBDA scratch, r1 :
    Then(parseFrame(scratch[1], Number(SubSeq(scratch, 2, 3)), Number(SubSeq(scratch, 4, 7)), r1),
         LAMBDA f, r2 : Then(readFull(r2, 1), LAMBDA end, rest :
           IF end[1] = frameEnd THEN Got(f, rest) ELSE Failed("ErrFrame", rest))))

-----------------------------------------------------------------------------
\* What the reader makes of a frame.
KeptFrame(f) ==
  CASE f.type = frameMethod -> [f EXCEPT !.args = KeptArgs(f.name, f.args)]
    [] f.type = frameHeader -> [f EXCEPT !.props = KeptProps(f.props)]
    [] OTHER -> f

\* What a frame needs of its codec, whatever rest of the stream follows: if its payload can
\* be written at all, it is octets which are read to the last one and no further, and of
\* which no smaller part is a payload.
ReadsBack(f, Rests) ==
  LET p == payload(f)
      Parse(s) == parseFrame(f.type, f.channel, Len(p.out), s)
  IN  p.err = "nil" =>
        /\ p.out \in Seq(Octet)
        /\ \A rest \in Rests : Parse(p.out \o rest) = Got(KeptFrame(f), rest)
        /\ \A n \in 0 .. Len(p.out) - 1 : Parse(SubSeq(p.out, 1, n)).err # "nil"
=============================================================================
