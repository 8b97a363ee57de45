------------------------------- MODULE Encode -------------------------------
(***************************************************************************)
(* write.go and the write of the methods in spec091.go: the payload of     *)
(* methods and content headers.                                            *)
(*                                                                         *)
(* A value in a Table has a Go type t.  A Table is the sequence of its     *)
(* entries in the order in which range visits them.                        *)
(***************************************************************************)
EXTENDS Methods, Stream

CONSTANT Depth  \* how deep arrays and Tables are nested

ASSUME DepthAssumption == Depth \in Nat

Scalars == [t : STRING \ {"array", "Table"}, v : Seq(Octet)]
Entries(V) == [key : Seq(Octet), val : V]
Nest(V) == Scalars \cup [t : {"array"}, v : Seq(V)] \cup [t : {"Table"}, v : Seq(Entries(V))]
Nested[n \in 0 .. Depth] == IF n = 0 THEN Scalars ELSE Nest(Nested[n - 1])
Values == Nested[Depth]
Tables == Seq(Entries(Values))

\* One after the other, up to the first error.  Everything but writeFrame writes to
\* a buffer that is dropped then.
InTurn(ws) ==
  LET bad == {i \in DOMAIN ws : ws[i].err # "nil"}
  IN  IF bad = {} THEN Out(FlattenSeq([i \in DOMAIN ws |-> ws[i].out]))
      ELSE Refused(ws[CHOOSE i \in bad : \A j \in bad : i <= j].err)

After(octets, w) == InTurn(<<Out(octets), w>>)

\* The octet in front of a value: its type on the wire ('t', 'B', ...).
Tag == [bool |-> 116, byte |-> 66, int8 |-> 98, int16 |-> 115, int |-> 73, int32 |-> 73, int64 |-> 108,
        float32 |-> 102, float64 |-> 100, Decimal |-> 68, string |-> 83, array |-> 65, time |-> 84,
        Table |-> 70, bytes |-> 120, nil |-> 86]

\* The entries of a table, with w[f] for a value f.
tableWith(w, table) ==
  LET buf == InTurn([i \in DOMAIN table |-> InTurn(<<writeShortstr(table[i].key), w[table[i].val]>>)])
  IN  IF buf.err = "nil" THEN writeLongstr(buf.out) ELSE buf

\* An int goes out as an int32, a time without its fraction of a second.
writeField(w, f) ==
  CASE f.t \notin DOMAIN Tag -> Refused("ErrFieldType")
    [] f.t = "int"   -> Out(<<Tag[f.t]>> \o SubSeq(f.v, 5, 8))
    [] f.t = "time"  -> Out(<<Tag[f.t]>> \o SubSeq(f.v, 1, 8))
    [] f.t = "Table" -> After(<<Tag[f.t]>>, tableWith(w, f.v))
    [] f.t = "array" -> LET sec == InTurn([i \in DOMAIN f.v |-> w[f.v[i]]])
                        IN  After(<<Tag[f.t]>> \o Octets(Len(sec.out), 4), sec)
    [] f.t \in {"string", "bytes"} -> Out(<<Tag[f.t]>> \o Octets(Len(f.v), 4) \o f.v)
    [] OTHER -> Out(<<Tag[f.t]>> \o f.v)

fieldOctets[f \in Values] == writeField(fieldOctets, f)

writeTable(table) == tableWith(fieldOctets, table)

\* Table.Validate.  (Mutated form: it does not look into arrays.)
Simple == {"nil", "bool", "byte", "int8", "int", "int16", "int32", "int64", "float32", "float64",
           "string", "bytes", "Decimal", "time"}

validateFieldShallow(valid, f) ==
  \/ f.t \in Simple \cup {"array"}
  \/ f.t = "Table" /\ \A i \in DOMAIN f.v : valid[f.v[i].val]

validateField(valid, f) ==
  \/ f.t \in Simple
  \/ f.t = "array" /\ \A i \in DOMAIN f.v : valid[f.v[i]]
  \/ f.t = "Table" /\ \A i \in DOMAIN f.v : valid[f.v[i].val]

validated[f \in Values] == validateField(validated, f)

Validate(table) == \A i \in DOMAIN table : validated[table[i].val]

\* One argument or property.
writeBits(bits) ==
  <<FoldLeft(LAMBDA n, i : n + (IF bits[i] THEN 2 ^ (i - 1) ELSE 0), 0, [i \in DOMAIN bits |-> i])>>

writeValue(type, v) ==
  CASE type = "shortstr"  -> writeShortstr(v)
    [] type = "longstr"   -> writeLongstr(v)
    [] type = "table"     -> writeTable(v)
    [] type = "timestamp" -> Out(SubSeq(v, 1, 8))
    [] OTHER              -> Out(v)

writeFields(fields, args) ==
  InTurn([i \in DOMAIN fields |->
    LET f == fields[i]
    IN  IF f.type = "bits" THEN Out(writeBits([b \in DOMAIN f.bits |-> args[f.bits[b]]]))
        ELSE writeValue(f.type, args[f.name])])

-----------------------------------------------------------------------------
(***************************************************************************)
(* Content properties, in the order of their flags: bit 15 is the first.   *)
(***************************************************************************)
Properties ==
  <<F("ContentType", "shortstr"), F("ContentEncoding", "shortstr"), F("Headers", "table"),
    F("DeliveryMode", "uint8"), F("Priority", "uint8"), F("CorrelationId", "shortstr"),
    F("ReplyTo", "shortstr"), F("Expiration", "shortstr"), F("MessageId", "shortstr"),
    F("Timestamp", "timestamp"), F("Type", "shortstr"), F("UserId", "shortstr"), F("AppId", "shortstr"),
    F("reserved1", "shortstr")>>

Flag(i) == 2 ^ (16 - i)

hasProperty(mask, i) == (mask \div Flag(i)) % 2 = 1

\* Year 1, which IsZero() is about.
ZeroTime == <<255, 255, 255, 241, 136, 110, 9, 0, 0>>
Zero(type) == CASE type = "uint8" -> <<0>> [] type = "timestamp" -> ZeroTime [] OTHER -> <<>>
NoProperties == [p \in {Properties[i].name : i \in DOMAIN Properties} |->
                   Zero((CHOOSE f \in Range(Properties) : f.name = p).type)]

\* The first pass of headerFrame.write.  reserved1 is never written.
Mask(props) ==
  FoldLeft(LAMBDA n, i : n + IF props[Properties[i].name] # Zero(Properties[i].type) THEN Flag(i) ELSE 0,
           0, [i \in 1 .. 13 |-> i])

\* The properties whose flag is set.
Flagged(mask) == FlattenSeq([i \in DOMAIN Properties |->
                               IF hasProperty(mask, i) THEN <<Properties[i]>> ELSE <<>>])

methodPayload(f) ==
  LET m == Named(f.name)
  IN  After(Octets(m.class, 2) \o Octets(m.method, 2), writeFields(m.fields, f.args))

headerPayload(f) ==
  LET mask == Mask(f.props)
  IN  After(Octets(f.class, 2) \o Octets(0, 2) \o Octets(f.size, 8) \o Octets(mask, 2),
            writeFields(Flagged(mask), f.props))
=============================================================================
