------------------------------- MODULE Decode -------------------------------
(***************************************************************************)
(* read.go and the read of the methods in spec091.go: the payload of       *)
(* methods and content headers.  A Table that was read is a function of    *)
(* its keys.                                                               *)
(***************************************************************************)
EXTENDS Encode

RECURSIVE readField(_), readTable(_), readEntries(_, _), readArray(_), readElements(_, _),
          kept(_), keptTable(_)

Width == [byte |-> 1, int8 |-> 1, int16 |-> 2, int32 |-> 4, int64 |-> 8, float32 |-> 4, float64 |-> 8,
          uint8 |-> 1, uint16 |-> 2, uint32 |-> 4, uint64 |-> 8]

\* The Go type of what is read under a tag: 'I' gives an int32.
TypeOf(tag) == CHOOSE t \in DOMAIN Tag \ {"int"} : Tag[t] = tag

readField(s) ==
  Then(readFull(s, 1), LAMBDA typ, rest :
    IF \A t \in DOMAIN Tag : Tag[t] # typ[1] THEN Failed("ErrSyntax", rest)
    ELSE LET t == TypeOf(typ[1])
         IN  Then(CASE t = "bool"   -> Then(readFull(rest, 1), LAMBDA b, r : Got(<<IF b[1] # 0 THEN 1 ELSE 0>>, r))
                    [] t = "Decimal" -> readDecimal(rest)
                    [] t = "string" -> readLongstr(rest)
                    [] t = "array"  -> readArray(rest)
                    [] t = "time"   -> readTimestamp(rest)
                    [] t = "Table"  -> readTable(rest)
                    [] t = "bytes"  -> readBytes(rest)
                    [] t = "nil"    -> Got(<<>>, rest)
                    [] OTHER        -> readFull(rest, Width[t]),
                  LAMBDA v, r : Got([t |-> t, v |-> v], r)))

\* The table is read from a buffer of its own: its errors leave the stream behind it.
readTable(s) ==
  Then(readLongstr(s), LAMBDA nested, rest : [readEntries(nested, <<>>) EXCEPT !.rest = rest])

readEntries(nested, table) ==
  IF nested = <<>> THEN Got(table, <<>>)
  ELSE Then(readShortstr(nested), LAMBDA key, r :
         Then(readField(r), LAMBDA val, left : readEntries(left, (key :> val) @@ table)))

\* The array ends where a read finds nothing left of its size, or of the stream.
readArray(s) ==
  Then(readFull(s, 4), LAMBDA size, rest :
    LET n   == IF Number(size) < Len(rest) THEN Number(size) ELSE Len(rest)
        arr == readElements(SubSeq(rest, 1, n), <<>>)
    IN  [arr EXCEPT !.rest = @ \o SubSeq(rest, n + 1, Len(rest))])

readElements(lim, arr) ==
  LET field == readField(lim)
  IN  CASE field.err = "nil" -> readElements(field.rest, Append(arr, field.v))
        [] field.err = "EOF" -> Got(arr, field.rest)
        [] OTHER             -> field

readValue(type, s) ==
  CASE type = "shortstr"  -> readShortstr(s)
    [] type = "longstr"   -> readLongstr(s)
    [] type = "table"     -> readTable(s)
    [] type = "timestamp" -> readTimestamp(s)
    [] OTHER              -> readFull(s, Width[type])

readBits(names, s) ==
  Then(readFull(s, 1), LAMBDA bits, rest :
    Got([b \in Range(names) |->
           \E i \in DOMAIN names : names[i] = b /\ (bits[1] \div 2 ^ (i - 1)) % 2 = 1], rest))

\* The arguments of a method, or the properties that are there, into args.
readFields(fields, args, s) ==
  FoldLeft(LAMBDA r, f :
             Then(r, LAMBDA got, rest :
               IF f.type = "bits"
               THEN Then(readBits(f.bits, rest), LAMBDA v, left : Got(v @@ got, left))
               ELSE Then(readValue(f.type, rest), LAMBDA v, left : Got((f.name :> v) @@ got, left))),
           Got(args, s), fields)

-----------------------------------------------------------------------------
parseMethod(c, s) ==
  Then(readFull(s, 2), LAMBDA class, r1 : Then(readFull(r1, 2), LAMBDA method, r2 :
    LET cl == Number(class)
        id == Number(method)
    IN  IF cl \notin DOMAIN parseMethodFrame THEN Failed("unknown class", r2)
        ELSE IF id \notin DOMAIN parseMethodFrame[cl] THEN Failed("unknown method", r2)
        ELSE LET m == parseMethodFrame[cl][id]
             IN  Then(readFields(m.fields, <<>>, r2), LAMBDA args, rest :
                        Got(methodFrame(c, m.name, args), rest))))

parseHeaderFrame(c, s) ==
  LET fixed == <<F("class", "uint16"), F("weight", "uint16"), F("size", "uint64"), F("flags", "uint16")>>
  IN  Then(readFields(fixed, <<>>, s), LAMBDA h, r :
        Then(readFields(Flagged(Number(h.flags)), NoProperties, r), LAMBDA props, rest :
          Got(headerFrame(c, Number(h.class), Number(h.size), props), rest)))

-----------------------------------------------------------------------------
(***************************************************************************)
(* What the format keeps of a value: strings in a shortstr up to 255       *)
(* octets (longer ones modulo 256), of an int its low 32 bits, of a time   *)
(* its seconds; keys that become equal leave one entry.                    *)
(***************************************************************************)
Short(s) == SubSeq(s, 1, Len(s) % 256)

kept(f) ==
  CASE f.t = "int"   -> [t |-> "int32", v |-> SubSeq(f.v, 5, 8)]
    [] f.t = "time"  -> [f EXCEPT !.v[9] = 0]
    [] f.t = "array" -> [f EXCEPT !.v = [i \in DOMAIN f.v |-> kept(f.v[i])]]
    [] f.t = "Table" -> [f EXCEPT !.v = keptTable(f.v)]
    [] OTHER         -> f

keptTable(table) ==
  [k \in {Short(table[i].key) : i \in DOMAIN table} |->
     LET last == CHOOSE i \in DOMAIN table : /\ Short(table[i].key) = k
                                             /\ \A j \in DOMAIN table : Short(table[j].key) = k => j <= i
     IN  kept(table[last].val)]

keptAs(type, v) ==
  CASE type = "shortstr"  -> Short(v)
    [] type = "table"     -> keptTable(v)
    [] type = "timestamp" -> [v EXCEPT ![9] = 0]
    [] OTHER              -> v

keptFields(fields, args) ==
  [a \in DOMAIN args |->
     IF \E i \in DOMAIN fields : fields[i].name = a
     THEN keptAs((CHOOSE f \in Range(fields) : f.name = a).type, args[a]) ELSE args[a]]

keptArgs(name, args) == keptFields(Named(name).fields, args)
keptProps(props)     == keptFields(Properties, props)
=============================================================================
