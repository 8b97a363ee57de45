----------------------------- MODULE MCTransfer -----------------------------
(***************************************************************************)
(* Transfer for TLC: every method with every one of its bits, properties   *)
(* one by one and all together, values of every type a Table may hold,     *)
(* strings and keys too long for a shortstr, tables that Validate has to   *)
(* refuse, contents next to each other on two channels, and frames of one  *)
(* channel in every order.                                                 *)
(***************************************************************************)
EXTENDS Transfer, Decode

V(t, v) == [t |-> t, v |-> v]
E(k, v) == [key |-> k, val |-> v]
Long(n) == [i \in 1 .. n |-> 97]

Samples ==
  <<V("bool", <<1>>), V("byte", <<200>>), V("int8", <<255>>), V("int16", <<128, 0>>),
    V("int", <<0, 0, 0, 1, 255, 0, 0, 2>>), V("int32", <<127, 1, 2, 3>>), V("int64", <<1, 2, 3, 4, 5, 6, 7, 8>>),
    V("float32", <<63, 128, 0, 0>>), V("float64", <<63, 240, 0, 0, 0, 0, 0, 0>>), V("Decimal", <<2, 0, 0, 48, 57>>),
    V("string", <<104, 105>>), V("time", <<0, 0, 0, 0, 96, 1, 2, 3, 1>>), V("bytes", <<0, 206>>), V("nil", <<>>)>>

Rich == [i \in 1 .. 14 |-> E(<<64 + i>>, Samples[i])]
        \o <<E(<<>>, V("array", Samples)), E(<<120>>, V("Table", <<E(<<97>>, V("array", <<>>)), E(<<98>>, V("bool", <<0>>))>>))>>
Clash == <<E(Long(256), V("nil", <<>>)), E(Long(257), V("nil", <<>>)), E(Long(512), V("string", <<>>))>>
Unsupported == V("uint", <<>>)

Sample(type) ==
  CASE type = "uint8"    -> <<9>>
    [] type = "uint16"   -> <<1, 206>>
    [] type = "uint32"   -> <<0, 1, 255, 3>>
    [] type = "uint64"   -> <<0, 0, 0, 1, 0, 0, 0, 7>>
    [] type = "shortstr" -> <<113, 206>>
    [] type = "longstr"  -> <<0, 206, 1>>
    [] type = "timestamp" -> <<0, 0, 0, 0, 96, 1, 2, 3, 1>>
    [] type = "table"    -> Rich

\* The arguments of m with the bits in on set.
Args(m, on) ==
  [a \in Arguments(m) |->
     IF \E i \in DOMAIN m.fields : m.fields[i].name = a
     THEN Sample((CHOOSE f \in Range(m.fields) : f.name = a).type) ELSE a \in on]
BitsOf(m) == UNION {Range(f.bits) : f \in Range(m.fields)}

Message(m, on) == [name |-> m.name, args |-> Args(m, on)]
Content(m, props, body) == [name |-> m.name, args |-> Args(m, {}), props |-> props, body |-> body]
With(names) == [p \in DOMAIN NoProperties |->
                  IF p \in names THEN Sample((CHOOSE f \in Range(Properties) : f.name = p).type) ELSE NoProperties[p]]
Public13 == DOMAIN NoProperties \ {"reserved1"}

Script(i0, i1, i2, n, c) == [items |-> [l \in Lines |-> IF l = 0 THEN i0 ELSE IF l = 1 THEN i1 ELSE i2],
                             beats |-> n, cut |-> c]
On(m, item, c) == IF m.class = 10 THEN Script(<<item>>, <<>>, <<>>, 0, c) ELSE Script(<<>>, <<item>>, <<>>, 0, c)

EveryMethod ==
  UNION {{On(m, Message(m, on), on = {}) : on \in {{}} \cup {{b} : b \in BitsOf(m)}} : m \in {m \in All : ~m.content}}

EveryProperty ==
  {Script(<<>>, <<Content(basicDeliver, With(ps), <<1, 2, 3>>)>>, <<>>, 0, FALSE) : ps \in {{p} : p \in Public13}}
  \cup {Script(<<>>, <<Content(m, With(Public13), body)>>, <<>>, 0, body = <<7>>) :
          m \in {basicPublish, basicReturn, basicDeliver, basicGetOk}, body \in {<<>>, <<7>>, <<1, 2>>, <<1, 2, 3, 4, 5>>}}

Publishing(headers, type) ==
  Content(basicPublish, [NoProperties EXCEPT !.Headers = headers, !.Type = type], <<5>>)
Unfit == {<<E(<<97>>, Unsupported)>>, <<E(<<97>>, V("array", <<V("nil", <<>>), Unsupported>>))>>,
          <<E(<<97>>, V("array", <<V("Table", <<E(<<98>>, Unsupported)>>)>>))>>}
Odd ==
  {Script(<<>>, <<Publishing(h, Long(n)), Message(basicAck, {})>>, <<>>, 0, FALSE) :
     n \in {0, 255, 256, 300}, h \in {<<>>, Clash} \cup Unfit}
  \cup {Script(<<>>, <<[name |-> m.name, args |-> [Args(m, {}) EXCEPT !["Arguments"] = h]], Message(basicAck, {})>>,
               <<>>, 0, FALSE) : m \in {m \in All : "Arguments" \in Arguments(m)}, h \in Unfit}

Busy == {Script(<<>>, <<Content(basicDeliver, With({"AppId"}), <<1, 2, 3>>), Message(basicAck, {})>>,
                <<Content(basicReturn, With({"ReplyTo"}), <<4, 5, 6>>)>>, 1, FALSE)}

Alphabet == {methodFrame(1, "basicAck", Args(basicAck, {})), methodFrame(1, "basicDeliver", Args(basicDeliver, {})),
             headerFrame(1, 60, 0, NoProperties), headerFrame(1, 60, 2, With({"Type"})),
             bodyFrame(1, <<1>>), bodyFrame(1, <<2, 3>>)}
Disorder == {Script(<<>>, s, <<>>, 0, FALSE) : s \in [1 .. 4 -> Alphabet]}

MCScripts == EveryMethod \cup EveryProperty \cup Odd \cup Busy \cup Disorder

\* What the theorems about Transfer suppose of the scripts, and of the codec for some rests of
\* a stream.
ASSUME TablesAssumption == TablesFit
ASSUME RoundTripAssumption == RoundTrip({<<>>, <<206>>, <<0, 0, 0, 0>>, <<1, 0, 1, 0, 0, 0, 4>>})
=============================================================================
