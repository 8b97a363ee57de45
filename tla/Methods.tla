------------------------------ MODULE Methods -------------------------------
(***************************************************************************)
(* The methods of spec091.go, which gen.go writes: for each of them its    *)
(* ids, the base of its wait(), whether it carries content, and its        *)
(* arguments in the order of write and read.  A run of bits shares one     *)
(* octet, the first bit lowest.                                            *)
(***************************************************************************)
EXTENDS Integers, Sequences, SequencesExt, TLC

F(name, type) == [name |-> name, type |-> type, bits |-> <<>>]
Bits(names)   == [name |-> "bits", type |-> "bits", bits |-> names]
M(name, class, method, wait, content, fields) ==
  [name |-> name, class |-> class, method |-> method, wait |-> wait, content |-> content,
   fields |-> fields]

connectionStart == M("connectionStart", 10, 10, TRUE, FALSE,
  <<F("VersionMajor", "uint8"), F("VersionMinor", "uint8"), F("ServerProperties", "table"),
    F("Mechanisms", "longstr"), F("Locales", "longstr")>>)
connectionStartOk == M("connectionStartOk", 10, 11, TRUE, FALSE,
  <<F("ClientProperties", "table"), F("Mechanism", "shortstr"), F("Response", "longstr"),
    F("Locale", "shortstr")>>)
connectionSecure == M("connectionSecure", 10, 20, TRUE, FALSE, <<F("Challenge", "longstr")>>)
connectionSecureOk == M("connectionSecureOk", 10, 21, TRUE, FALSE, <<F("Response", "longstr")>>)
connectionTune == M("connectionTune", 10, 30, TRUE, FALSE,
  <<F("ChannelMax", "uint16"), F("FrameMax", "uint32"), F("Heartbeat", "uint16")>>)
connectionTuneOk == M("connectionTuneOk", 10, 31, TRUE, FALSE,
  <<F("ChannelMax", "uint16"), F("FrameMax", "uint32"), F("Heartbeat", "uint16")>>)
connectionOpen == M("connectionOpen", 10, 40, TRUE, FALSE,
  <<F("VirtualHost", "shortstr"), F("reserved1", "shortstr"), Bits(<<"reserved2">>)>>)
connectionOpenOk == M("connectionOpenOk", 10, 41, TRUE, FALSE, <<F("reserved1", "shortstr")>>)
connectionClose == M("connectionClose", 10, 50, TRUE, FALSE,
  <<F("ReplyCode", "uint16"), F("ReplyText", "shortstr"), F("ClassId", "uint16"), F("MethodId", "uint16")>>)
connectionCloseOk == M("connectionCloseOk", 10, 51, TRUE, FALSE, <<>>)
connectionBlocked == M("connectionBlocked", 10, 60, FALSE, FALSE, <<F("Reason", "shortstr")>>)
connectionUnblocked == M("connectionUnblocked", 10, 61, FALSE, FALSE, <<>>)
connectionUpdateSecret == M("connectionUpdateSecret", 10, 70, TRUE, FALSE,
  <<F("NewSecret", "longstr"), F("Reason", "shortstr")>>)
connectionUpdateSecretOk == M("connectionUpdateSecretOk", 10, 71, TRUE, FALSE, <<>>)

channelOpen == M("channelOpen", 20, 10, TRUE, FALSE, <<F("reserved1", "shortstr")>>)
channelOpenOk == M("channelOpenOk", 20, 11, TRUE, FALSE, <<F("reserved1", "longstr")>>)
channelFlow == M("channelFlow", 20, 20, TRUE, FALSE, <<Bits(<<"Active">>)>>)
channelFlowOk == M("channelFlowOk", 20, 21, FALSE, FALSE, <<Bits(<<"Active">>)>>)
channelClose == M("channelClose", 20, 40, TRUE, FALSE,
  <<F("ReplyCode", "uint16"), F("ReplyText", "shortstr"), F("ClassId", "uint16"), F("MethodId", "uint16")>>)
channelCloseOk == M("channelCloseOk", 20, 41, TRUE, FALSE, <<>>)

exchangeDeclare == M("exchangeDeclare", 40, 10, TRUE, FALSE,
  <<F("reserved1", "uint16"), F("Exchange", "shortstr"), F("Type", "shortstr"),
    Bits(<<"Passive", "Durable", "AutoDelete", "Internal", "NoWait">>), F("Arguments", "table")>>)
exchangeDeclareOk == M("exchangeDeclareOk", 40, 11, TRUE, FALSE, <<>>)
exchangeDelete == M("exchangeDelete", 40, 20, TRUE, FALSE,
  <<F("reserved1", "uint16"), F("Exchange", "shortstr"), Bits(<<"IfUnused", "NoWait">>)>>)
exchangeDeleteOk == M("exchangeDeleteOk", 40, 21, TRUE, FALSE, <<>>)
exchangeBind == M("exchangeBind", 40, 30, TRUE, FALSE,
  <<F("reserved1", "uint16"), F("Destination", "shortstr"), F("Source", "shortstr"),
    F("RoutingKey", "shortstr"), Bits(<<"NoWait">>), F("Arguments", "table")>>)
exchangeBindOk == M("exchangeBindOk", 40, 31, TRUE, FALSE, <<>>)
exchangeUnbind == M("exchangeUnbind", 40, 40, TRUE, FALSE,
  <<F("reserved1", "uint16"), F("Destination", "shortstr"), F("Source", "shortstr"),
    F("RoutingKey", "shortstr"), Bits(<<"NoWait">>), F("Arguments", "table")>>)
exchangeUnbindOk == M("exchangeUnbindOk", 40, 51, TRUE, FALSE, <<>>)

queueDeclare == M("queueDeclare", 50, 10, TRUE, FALSE,
  <<F("reserved1", "uint16"), F("Queue", "shortstr"),
    Bits(<<"Passive", "Durable", "Exclusive", "AutoDelete", "NoWait">>), F("Arguments", "table")>>)
queueDeclareOk == M("queueDeclareOk", 50, 11, TRUE, FALSE,
  <<F("Queue", "shortstr"), F("MessageCount", "uint32"), F("ConsumerCount", "uint32")>>)
queueBind == M("queueBind", 50, 20, TRUE, FALSE,
  <<F("reserved1", "uint16"), F("Queue", "shortstr"), F("Exchange", "shortstr"), F("RoutingKey", "shortstr"),
    Bits(<<"NoWait">>), F("Arguments", "table")>>)
queueBindOk == M("queueBindOk", 50, 21, TRUE, FALSE, <<>>)
queueUnbind == M("queueUnbind", 50, 50, TRUE, FALSE,
  <<F("reserved1", "uint16"), F("Queue", "shortstr"), F("Exchange", "shortstr"), F("RoutingKey", "shortstr"),
    F("Arguments", "table")>>)
queueUnbindOk == M("queueUnbindOk", 50, 51, TRUE, FALSE, <<>>)
queuePurge == M("queuePurge", 50, 30, TRUE, FALSE,
  <<F("reserved1", "uint16"), F("Queue", "shortstr"), Bits(<<"NoWait">>)>>)
queuePurgeOk == M("queuePurgeOk", 50, 31, TRUE, FALSE, <<F("MessageCount", "uint32")>>)
queueDelete == M("queueDelete", 50, 40, TRUE, FALSE,
  <<F("reserved1", "uint16"), F("Queue", "shortstr"), Bits(<<"IfUnused", "IfEmpty", "NoWait">>)>>)
queueDeleteOk == M("queueDeleteOk", 50, 41, TRUE, FALSE, <<F("MessageCount", "uint32")>>)

basicQos == M("basicQos", 60, 10, TRUE, FALSE,
  <<F("PrefetchSize", "uint32"), F("PrefetchCount", "uint16"), Bits(<<"Global">>)>>)
basicQosOk == M("basicQosOk", 60, 11, TRUE, FALSE, <<>>)
basicConsume == M("basicConsume", 60, 20, TRUE, FALSE,
  <<F("reserved1", "uint16"), F("Queue", "shortstr"), F("ConsumerTag", "shortstr"),
    Bits(<<"NoLocal", "NoAck", "Exclusive", "NoWait">>), F("Arguments", "table")>>)
basicConsumeOk == M("basicConsumeOk", 60, 21, TRUE, FALSE, <<F("ConsumerTag", "shortstr")>>)
basicCancel == M("basicCancel", 60, 30, TRUE, FALSE, <<F("ConsumerTag", "shortstr"), Bits(<<"NoWait">>)>>)
basicCancelOk == M("basicCancelOk", 60, 31, TRUE, FALSE, <<F("ConsumerTag", "shortstr")>>)
basicPublish == M("basicPublish", 60, 40, FALSE, TRUE,
  <<F("reserved1", "uint16"), F("Exchange", "shortstr"), F("RoutingKey", "shortstr"),
    Bits(<<"Mandatory", "Immediate">>)>>)
basicReturn == M("basicReturn", 60, 50, FALSE, TRUE,
  <<F("ReplyCode", "uint16"), F("ReplyText", "shortstr"), F("Exchange", "shortstr"),
    F("RoutingKey", "shortstr")>>)
basicDeliver == M("basicDeliver", 60, 60, FALSE, TRUE,
  <<F("ConsumerTag", "shortstr"), F("DeliveryTag", "uint64"), Bits(<<"Redelivered">>),
    F("Exchange", "shortstr"), F("RoutingKey", "shortstr")>>)
basicGet == M("basicGet", 60, 70, TRUE, FALSE,
  <<F("reserved1", "uint16"), F("Queue", "shortstr"), Bits(<<"NoAck">>)>>)
basicGetOk == M("basicGetOk", 60, 71, TRUE, TRUE,
  <<F("DeliveryTag", "uint64"), Bits(<<"Redelivered">>), F("Exchange", "shortstr"),
    F("RoutingKey", "shortstr"), F("MessageCount", "uint32")>>)
basicGetEmpty == M("basicGetEmpty", 60, 72, TRUE, FALSE, <<F("reserved1", "shortstr")>>)
basicAck == M("basicAck", 60, 80, FALSE, FALSE, <<F("DeliveryTag", "uint64"), Bits(<<"Multiple">>)>>)
basicReject == M("basicReject", 60, 90, FALSE, FALSE, <<F("DeliveryTag", "uint64"), Bits(<<"Requeue">>)>>)
basicRecoverAsync == M("basicRecoverAsync", 60, 100, FALSE, FALSE, <<Bits(<<"Requeue">>)>>)
basicRecover == M("basicRecover", 60, 110, TRUE, FALSE, <<Bits(<<"Requeue">>)>>)
basicRecoverOk == M("basicRecoverOk", 60, 111, TRUE, FALSE, <<>>)
basicNack == M("basicNack", 60, 120, FALSE, FALSE,
  <<F("DeliveryTag", "uint64"), Bits(<<"Multiple", "Requeue">>)>>)

txSelect == M("txSelect", 90, 10, TRUE, FALSE, <<>>)
txSelectOk == M("txSelectOk", 90, 11, TRUE, FALSE, <<>>)
txCommit == M("txCommit", 90, 20, TRUE, FALSE, <<>>)
txCommitOk == M("txCommitOk", 90, 21, TRUE, FALSE, <<>>)
txRollback == M("txRollback", 90, 30, TRUE, FALSE, <<>>)
txRollbackOk == M("txRollbackOk", 90, 31, TRUE, FALSE, <<>>)

confirmSelect == M("confirmSelect", 85, 10, TRUE, FALSE, <<Bits(<<"Nowait">>)>>)
confirmSelectOk == M("confirmSelectOk", 85, 11, TRUE, FALSE, <<>>)

-----------------------------------------------------------------------------
(***************************************************************************)
(* The switch of parseMethodFrame: class, then method.                     *)
(***************************************************************************)
connectionMethods == 10 :> connectionStart @@ 11 :> connectionStartOk @@ 20 :> connectionSecure @@
  21 :> connectionSecureOk @@ 30 :> connectionTune @@ 31 :> connectionTuneOk @@ 40 :> connectionOpen @@
  41 :> connectionOpenOk @@ 50 :> connectionClose @@ 51 :> connectionCloseOk @@
  60 :> connectionBlocked @@ 61 :> connectionUnblocked @@ 70 :> connectionUpdateSecret @@
  71 :> connectionUpdateSecretOk
channelMethods == 10 :> channelOpen @@ 11 :> channelOpenOk @@ 20 :> channelFlow @@
  21 :> channelFlowOk @@ 40 :> channelClose @@ 41 :> channelCloseOk
exchangeMethods == 10 :> exchangeDeclare @@ 11 :> exchangeDeclareOk @@ 20 :> exchangeDelete @@
  21 :> exchangeDeleteOk @@ 30 :> exchangeBind @@ 31 :> exchangeBindOk @@ 40 :> exchangeUnbind @@
  51 :> exchangeUnbindOk
queueMethods == 10 :> queueDeclare @@ 11 :> queueDeclareOk @@ 20 :> queueBind @@ 21 :> queueBindOk @@
  50 :> queueUnbind @@ 51 :> queueUnbindOk @@ 30 :> queuePurge @@ 31 :> queuePurgeOk @@
  40 :> queueDelete @@ 41 :> queueDeleteOk
basicMethods == 10 :> basicQos @@ 11 :> basicQosOk @@ 20 :> basicConsume @@ 21 :> basicConsumeOk @@
  30 :> basicCancel @@ 31 :> basicCancelOk @@ 40 :> basicPublish @@ 50 :> basicReturn @@
  60 :> basicDeliver @@ 70 :> basicGet @@ 71 :> basicGetOk @@ 72 :> basicGetEmpty @@ 80 :> basicAck @@
  90 :> basicReject @@ 100 :> basicRecoverAsync @@ 110 :> basicRecover @@ 111 :> basicRecoverOk @@
  120 :> basicNack
txMethods == 10 :> txSelect @@ 11 :> txSelectOk @@ 20 :> txCommit @@ 21 :> txCommitOk @@
  30 :> txRollback @@ 31 :> txRollbackOk
confirmMethods == 10 :> confirmSelect @@ 11 :> confirmSelectOk

parseMethodFrame ==
  10 :> connectionMethods @@ 20 :> channelMethods @@ 40 :> exchangeMethods @@ 50 :> queueMethods @@
  60 :> basicMethods @@ 90 :> txMethods @@ 85 :> confirmMethods

All == UNION {Range(parseMethodFrame[c]) : c \in DOMAIN parseMethodFrame}
Named(name) == CHOOSE m \in All : m.name = name

\* The names of the arguments of m, the bits among them.
Arguments(m) ==
  UNION {IF f.type = "bits" THEN Range(f.bits) ELSE {f.name} : f \in Range(m.fields)}

\* wait(): gen.go makes it depend on an argument named NoWait, where there is one.
\* Confirm.select has one named Nowait.
waits(m, noWait) == m.wait /\ ~("NoWait" \in Arguments(m) /\ noWait)
=============================================================================
