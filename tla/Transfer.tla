----------------------------- MODULE Transfer -------------------------------
(***************************************************************************)
(* What two ends of a connection make of each other: one writes messages   *)
(* on several channels (PublishWithDeferredConfirm, sendOpen, the frames   *)
(* of Framing), the stream may end after any octet, the other one reads    *)
(* frames and puts the messages of every channel together again (demux,    *)
(* recvMethod, recvHeader, recvContent).  Client and server speak the same *)
(* format, as they do in client_test.go.                                   *)
(***************************************************************************)
EXTENDS Framing

CONSTANTS Channels,   \* open channels, numbers from 1
          FrameSize,  \* c.Config.FrameSize
          Scripts,    \* what is sent: [items, beats, cut]: items[c] on channel c, a number of
                      \* heartbeats, and whether the stream may end early
          MaxCuts     \* bound: the stream ends within the last MaxCuts octets written

ASSUME ChannelsAssumption == \A c \in Channels : c \in Nat \ {0} /\ c <= 65535
ASSUME FrameSizeAssumption == FrameSize \in Nat /\ (FrameSize = 0 \/ FrameSize > 8)

Lines == Channels \cup {0}   \* channel 0 is the connection

IsBody(body) == body \in Seq(Octet) /\ Len(body) <= MaxInt

\* A frame, or a message with the parts that sendOpen looks at.
IsFrame(c, f) ==
  CASE f.type = frameMethod -> f = methodFrame(c, f.name, f.args)
    [] f.type = frameHeader -> f = headerFrame(c, f.class, f.size, f.props) /\ f.size \in Nat
    [] f.type = frameBody   -> f = bodyFrame(c, f.body) /\ IsBody(f.body)
    [] OTHER -> FALSE

IsMessage(msg) ==
  IF Named(msg.name).content
  THEN msg = [name |-> msg.name, args |-> msg.args, props |-> msg.props, body |-> msg.body] /\ IsBody(msg.body)
  ELSE msg = [name |-> msg.name, args |-> msg.args]

IsScript(s) ==
  /\ s.beats \in Nat /\ DOMAIN s.items = Lines
  /\ \A c \in Lines :
       /\ s.items[c] \in Seq(Range(s.items[c]))
       /\ \A i \in DOMAIN s.items[c] :
            LET item == s.items[c][i]
            IN  IF "type" \in DOMAIN item THEN IsFrame(c, item) ELSE IsMessage(item)

ASSUME ScriptsAssumption == \A s \in Scripts : IsScript(s)

VARIABLES
  script,     \* the script
  items,      \* items[c]: what is still to be sent
  out,        \* out[c]: frames of the message under way
  beats,      \* heartbeats still to come
  result,     \* result[c]: what the operations on c returned so far
  written,    \* frames handed to the stream
  wire,       \* octets that have not been read
  down,       \* the stream has ended
  read, rerr, \* frames read, and the error that ended the reader
  chan        \* chan[c]: recv, message, header and body of the channel, and what it dispatched

wVars == <<script, items, out, beats, result, written>>
rVars == <<read, rerr, chan>>
vars  == <<wVars, wire, down, rVars>>

Fresh == [recv |-> "method", message |-> <<>>, header |-> <<>>, body |-> <<>>, log |-> <<>>]

Init ==
  /\ script \in Scripts
  /\ items = script.items /\ beats = script.beats
  /\ out = [c \in Lines |-> <<>>] /\ result = [c \in Lines |-> <<>>]
  /\ written = <<>> /\ wire = <<>> /\ down = FALSE
  /\ read = <<>> /\ rerr = "nil" /\ chan = [c \in Channels |-> Fresh]

-----------------------------------------------------------------------------
(***************************************************************************)
(* Writing.                                                                *)
(***************************************************************************)
\* The frames of sendOpen.
pieces(body) ==
  LET size  == IF FrameSize > 0 THEN FrameSize - 8 ELSE Len(body)
      count == IF body = <<>> THEN 0 ELSE (Len(body) + size - 1) \div size
  IN  [i \in 1 .. count |->
         SubSeq(body, (i - 1) * size + 1, IF i * size > Len(body) THEN Len(body) ELSE i * size)]

sendOpen(c, msg) ==
  IF Named(msg.name).content
  THEN << methodFrame(c, msg.name, msg.args),
          headerFrame(c, Named(msg.name).class, Len(msg.body), msg.props) >>
       \o [i \in DOMAIN pieces(msg.body) |-> bodyFrame(c, pieces(msg.body)[i])]
  ELSE << methodFrame(c, msg.name, msg.args) >>

FramesOf(c, item) == IF "type" \in DOMAIN item THEN <<item>> ELSE sendOpen(c, item)

\* The table that a function of Channel is given, which it validates first: the headers of
\* a publishing, the arguments of a queue, an exchange, a binding or a consumer.
Checked(item) ==
  IF "type" \in DOMAIN item THEN {}
  ELSE IF item.name = "basicPublish" THEN {item.props.Headers}
  ELSE IF "Arguments" \in DOMAIN item.args THEN {item.args.Arguments} ELSE {}

\* A message without unsupported types in such a table, or a frame out of order.
Send(c) ==
  /\ out[c] = <<>> /\ items[c] # <<>>
  /\ LET item == Head(items[c])
     IN  IF \E table \in Checked(item) : ~Validate(table)
         THEN result' = [result EXCEPT ![c] = Append(@, "invalid")] /\ UNCHANGED out
         ELSE out' = [out EXCEPT ![c] = FramesOf(c, item)] /\ UNCHANGED result
  /\ items' = [items EXCEPT ![c] = Tail(@)]
  /\ UNCHANGED <<script, beats, written, wire, down, rVars>>

WriteFrame(c) ==
  /\ out[c] # <<>> /\ ~down
  /\ LET f == Head(out[c])
         w == writeFrame(f)
     IN  IF w.err = "nil"
         THEN /\ wire' = wire \o w.out /\ written' = Append(written, f)
              /\ out' = [out EXCEPT ![c] = Tail(@)]
              /\ result' = IF Len(out[c]) = 1 THEN [result EXCEPT ![c] = Append(@, "nil")] ELSE result
         ELSE /\ out' = [out EXCEPT ![c] = <<>>] /\ result' = [result EXCEPT ![c] = Append(@, w.err)]
              /\ UNCHANGED <<wire, written>>
  /\ UNCHANGED <<script, items, beats, down, rVars>>

\* The heartbeater, on channel 0, between any two frames.
Heartbeat ==
  /\ beats > 0 /\ beats' = beats - 1 /\ ~down
  /\ wire' = wire \o writeFrame(heartbeatFrame(0)).out /\ written' = Append(written, heartbeatFrame(0))
  /\ UNCHANGED <<script, items, out, result, down, rVars>>

\* The stream ends: some of the last octets do not arrive.
Cut ==
  /\ script.cut /\ ~down /\ down' = TRUE
  /\ \E n \in 0 .. Len(wire) : /\ Len(wire) - n <= MaxCuts
                               /\ wire' = SubSeq(wire, 1, n)
  /\ UNCHANGED <<wVars, rVars>>

-----------------------------------------------------------------------------
(***************************************************************************)
(* Reading: a channel with its frame.                                      *)
(***************************************************************************)
\* What the application gets of a delivery or a return: newDelivery, newReturn.
\* Other messages go to whoever waits for them.
Public(props) == [p \in DOMAIN props \ {"reserved1"} |-> props[p]]
newDelivery(msg) == msg.args @@ Public(msg.props) @@ ("Body" :> msg.body)
newReturn(msg)   == msg.args @@ Public(msg.props) @@ ("Body" :> msg.body)

dispatch(msg) ==
  CASE msg.name \in {"basicDeliver", "basicGetOk"} -> newDelivery(msg)
    [] msg.name = "basicReturn" -> newReturn(msg)
    [] OTHER -> msg

Complete(ch) ==
  LET msg == [name |-> ch.message.name, args |-> ch.message.args, props |-> ch.header.props, body |-> ch.body]
  IN  [ch EXCEPT !.recv = "method", !.log = Append(@, dispatch(msg))]

\* A method that is a message, and one that a content follows.
Lone(f)    == f.type = frameMethod /\ ~Named(f.name).content
Carries(f) == f.type = frameMethod /\ Named(f.name).content

recvMethod(ch, f) ==
  CASE Carries(f) -> [ch EXCEPT !.recv = "header", !.message = f, !.body = <<>>]
    [] Lone(f)    -> [ch EXCEPT !.recv = "method", !.log = Append(@, dispatch([name |-> f.name, args |-> f.args]))]
    [] OTHER      -> [ch EXCEPT !.recv = "method"]

recvHeader(ch, f) ==
  CASE f.type = frameMethod -> recvMethod(ch, f)
    [] f.type = frameHeader -> IF f.size = 0 THEN Complete([ch EXCEPT !.header = f])
                               ELSE [ch EXCEPT !.header = f, !.recv = "content"]
    [] f.type = frameBody   -> [ch EXCEPT !.recv = "method"]

\* (Mutated form: a header keeps the content going.)
recvContentGoesOn(ch, f) ==
  CASE f.type = frameMethod -> recvMethod(ch, f)
    [] f.type = frameHeader -> ch
    [] f.type = frameBody   ->
         LET grown == [ch EXCEPT !.body = @ \o f.body]
         IN  IF Len(grown.body) >= ch.header.size THEN Complete(grown) ELSE grown

recvContent(ch, f) ==
  CASE f.type = frameMethod -> recvMethod(ch, f)
    [] f.type = frameHeader -> [ch EXCEPT !.recv = "method"]
    [] f.type = frameBody   ->
         LET grown == [ch EXCEPT !.body = @ \o f.body]
         IN  IF Len(grown.body) >= ch.header.size THEN Complete(grown) ELSE grown

recv(ch, f) ==
  CASE ch.recv = "method"  -> recvMethod(ch, f)
    [] ch.recv = "header"  -> recvHeader(ch, f)
    [] ch.recv = "content" -> recvContent(ch, f)

\* reader, demux and dispatchN.  Channel 0 is Connection's.
reader ==
  /\ rerr = "nil" /\ (wire # <<>> \/ down)
  /\ LET r == ReadFrame(wire)
     IN  /\ wire' = r.rest
         /\ IF r.err = "nil"
            THEN /\ read' = Append(read, r.v) /\ UNCHANGED rerr
                 /\ chan' = IF r.v.channel \in Channels
                            THEN [chan EXCEPT ![r.v.channel] = recv(@, r.v)] ELSE chan
            ELSE rerr' = r.err /\ UNCHANGED <<read, chan>>
  /\ UNCHANGED <<wVars, down>>

Next == \/ Heartbeat \/ Cut \/ reader
        \/ \E c \in Lines : Send(c) \/ WriteFrame(c)

Spec == Init /\ [][Next]_vars

-----------------------------------------------------------------------------
(***************************************************************************)
(* What should arrive: the messages in frames of one channel, said without *)
(* the state machine of the recv functions.  They are a method without     *)
(* content, or a method, its header, and the bodies right behind it up to  *)
(* the first that fills its size.                                          *)
(***************************************************************************)
\* The frames of channel c.
Of(c, fs) == FlattenSeq([i \in DOMAIN fs |-> IF fs[i].channel = c THEN <<fs[i]>> ELSE <<>>])

\* The octets in the frames behind i up to j.
Filled(fs, i, j) == FlattenSeq([k \in 1 .. j - i |-> fs[i + k].body])

\* The frames from i to j may belong to one message.
InContent(fs, i, j) ==
  /\ Carries(fs[i]) /\ fs[i + 1].type = frameHeader
  /\ \A k \in i + 2 .. j : fs[k].type = frameBody

\* None of the frames up to j fills the content that begins at i.
Unfilled(fs, i, j) ==
  /\ InContent(fs, i, j)
  /\ \A k \in i + 1 .. j : Len(Filled(fs, i + 1, k)) < fs[i + 1].size

\* Frame j is the one that does.
Whole(fs, i, j) ==
  /\ InContent(fs, i, j)
  /\ \A k \in i + 1 .. j - 1 : Len(Filled(fs, i + 1, k)) < fs[i + 1].size
  /\ Len(Filled(fs, i + 1, j)) >= fs[i + 1].size

\* The message that ends with frame j, if one does.
MessageAt(fs, j) ==
  IF Lone(fs[j]) THEN <<[name |-> fs[j].name, args |-> fs[j].args]>>
  ELSE IF \E i \in 1 .. j - 1 : Whole(fs, i, j)
       THEN LET i == CHOOSE i \in 1 .. j - 1 : Whole(fs, i, j)
            IN  <<[name |-> fs[i].name, args |-> fs[i].args, props |-> fs[i + 1].props,
                   body |-> Filled(fs, i + 1, j)]>>
       ELSE <<>>

Messages(fs) == FlattenSeq([j \in DOMAIN fs |-> MessageAt(fs, j)])

\* The codec reads back what the scripts send, in front of any of Rests.
RoundTrip(Rests) ==
  \A s \in Scripts : \A c \in Lines : \A i \in DOMAIN s.items[c] :
    LET fs == FramesOf(c, s.items[c][i])
    IN  \A k \in DOMAIN fs : fs[k].type \in {frameMethod, frameHeader} => ReadsBack(fs[k], Rests)

\* The tables in a frame.
TablesIn(f) ==
  CASE f.type = frameMethod -> LET fields == Named(f.name).fields
                               IN  {f.args[fields[i].name] : i \in {i \in DOMAIN fields : fields[i].type = "table"}}
    [] f.type = frameHeader -> {f.props.Headers}
    [] f.type = frameBody   -> {}

\* The scripts send methods of spec091.go and tables of Go values; the tables that no function
\* of Channel checks (Config.Properties, those of the server) hold supported types only.
TablesFit ==
  \A s \in Scripts : \A c \in Lines : \A i \in DOMAIN s.items[c] :
    LET item == s.items[c][i]
        fs   == FramesOf(c, item)
    IN  \A k \in DOMAIN fs :
          /\ fs[k].type = frameMethod => Named(fs[k].name).fields \in Seq(Range(Named(fs[k].name).fields))
          /\ \A table \in TablesIn(fs[k]) : table \in Tables /\ (table \in Checked(item) \/ Validate(table))

\* What is left of a message.
KeptMessage(msg) ==
  IF Named(msg.name).content
  THEN [msg EXCEPT !.args = KeptArgs(msg.name, @), !.props = KeptProps(@)]
  ELSE [msg EXCEPT !.args = KeptArgs(msg.name, @)]

-----------------------------------------------------------------------------
(***************************************************************************)
(* Properties.                                                             *)
(***************************************************************************)
\* The reader gets the frames that were written, in order, each with what the format
\* keeps; of a stream that ends early it gets the whole frames and then an error, and
\* never a frame that was not written (writeFrame, ReadFrame, the codecs of all methods).
FramesReadBack ==
  /\ Len(read) <= Len(written)
  /\ \A i \in DOMAIN read : read[i] = KeptFrame(written[i])
  /\ rerr # "nil" => down
  /\ ~down /\ wire = <<>> => Len(read) = Len(written)

\* Every channel dispatches the messages that were sent on it, whole, in order and
\* with their own properties and body, whatever frames of others come in between; what
\* is out of order is dropped, and takes along only the content that it breaks
\* (sendOpen, recvMethod, recvHeader, recvContent, newDelivery, newReturn).
Orderly(c) == \A i \in DOMAIN script.items[c] : "type" \notin DOMAIN script.items[c][i]
Accepted(c) ==
  LET n == Len(result[c])
  IN  FlattenSeq([i \in 1 .. n |-> IF result[c][i] = "nil" THEN <<dispatch(KeptMessage(script.items[c][i]))>>
                                   ELSE <<>>])

MessagesArrive ==
  \A c \in Channels :
    LET expected == Messages(Of(c, read))
    IN  /\ chan[c].log = [i \in DOMAIN expected |-> dispatch(expected[i])]
        /\ Orderly(c) => /\ IsPrefix(chan[c].log, Accepted(c))
                         /\ ~down /\ wire = <<>> => chan[c].log = Accepted(c)

\* "Functions taking a table will immediately fail when the table contains a value of
\* an unsupported type": what Validate accepts can be written, so that no publishing fails
\* with its method already on the wire (PublishWithDeferredConfirm, validateField, writeField).
NoHalfPublishing == \A c \in Lines : \A i \in DOMAIN result[c] : result[c][i] # "ErrFieldType"
=============================================================================
