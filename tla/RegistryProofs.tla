--------------------------- MODULE RegistryProofs ----------------------------
(***************************************************************************)
(* Channels and their ids, for any number of goroutines, ids, Channels and *)
(* channel exceptions.  The invariant says of every goroutine what it has  *)
(* made sure of when it is about to release an id: either the Channel is   *)
(* shut down, so that nobody publishes on it any more, or it has never     *)
(* been handed to the application.                                         *)
(***************************************************************************)
EXTENDS ChannelRegistry, TLAPS

PCs == {"idle", "openCheck", "openWrite", "openWait", "own", "closeCheck", "closeWrite", "closeWait",
        "shutdown", "body", "join", "release", "sendCloseOk", "writeCloseOk", "deliver"}
Opening   == {"openCheck", "openWrite", "openWait"}
ReaderPCs == {"idle", "sendCloseOk", "writeCloseOk", "deliver", "shutdown", "body", "join", "release"}
ConnPCs   == {"idle", "shutdown", "body", "join"}
Frame     == [id : Ids, m : {"open", "openOk", "close", "closeOk"}]

Made == 1 .. made

TypeInv ==
  /\ pool \in SUBSET Ids /\ made \in 0 .. MaxOpen
  /\ channels \in [Ids -> Channels \cup {None}]
  /\ id \in [Channels -> Ids \cup {None}]
  /\ closed \in [Channels -> BOOLEAN] /\ once \in [Channels -> {"no", "running", "done"}]
  /\ opened \in SUBSET Channels
  /\ pc \in [Threads -> PCs] /\ pc["reader"] \in ReaderPCs /\ pc["conn"] \in ConnPCs
  /\ obj \in [Threads -> Channels \cup {None}]
  /\ ppc \in [Publishers -> {"idle", "locked", "write"}]
  /\ pobj \in [Publishers -> Channels \cup {None}]
  /\ chM \in [Channels -> Publishers \cup {"none", "reader"}]
  /\ conn \in {"up", "broken", "closed", "locked", "done"}
  /\ out \in Seq(Frame) /\ in \in Seq(Frame)

\* Only Channels that newChannel has made are about, and these have their id.
MadeInv ==
  /\ \A o \in Made : id[o] \in Ids
  /\ \A n \in Ids : channels[n] # None => channels[n] \in Made
  /\ opened \subseteq Made
  /\ \A t \in Threads : obj[t] # None => obj[t] \in Made
  /\ \A t \in Threads : pc[t] # "idle" => obj[t] # None

Safe(o) == closed[o] \/ conn = "done" \/ channels[id[o]] = o

\* A Channel is opened and closed by one goroutine.
OwnerInv ==
  /\ \A a, b \in Apps : pc[a] # "idle" /\ pc[b] # "idle" /\ obj[a] = obj[b] => a = b
  /\ \A a \in Apps : pc[a] \in Opening => obj[a] \notin opened /\ Safe(obj[a])
  /\ \A o \in opened : Safe(o)

EndInv ==
  /\ \A o \in Channels : once[o] # "no" => closed[o]
  /\ \A t \in Threads : pc[t] \in {"body", "join"} => closed[obj[t]]
  /\ \A t \in Threads : pc[t] = "release" =>
       once[obj[t]] = "done" \/ (t \in Apps /\ obj[t] \notin opened)

\* Channel.m is held by one goroutine at a time.
MutexInv == pc["reader"] = "writeCloseOk" => chM[obj["reader"]] = "reader"

PublishInv ==
  /\ MutexInv
  /\ \A p \in Publishers :
       /\ ppc[p] # "idle" => pobj[p] \in opened /\ chM[pobj[p]] = p
       /\ ppc[p] = "write" => once[pobj[p]] # "done" /\ (conn = "done" \/ channels[id[pobj[p]]] = pobj[p])

RegInv == TypeInv /\ MadeInv /\ RegistryMatchesPool /\ OwnerInv /\ EndInv /\ PublishInv

LEMMA InitReg == Init => RegInv
  <1> USE RangeAssumption, BoundAssumption, NameAssumption
  <1> SUFFICES ASSUME Init PROVE RegInv
    OBVIOUS
  <1>1. TypeInv
    BY DEF Init, TypeInv, Alloc!newAllocator, Threads, PCs, ReaderPCs, ConnPCs, None, Channels
  <1>2. MadeInv /\ OwnerInv
    BY DEF Init, MadeInv, OwnerInv, Made, Threads, Opening, None
  <1>3. RegistryMatchesPool
    BY DEF Init, RegistryMatchesPool, Alloc!newAllocator
  <1>4. EndInv /\ PublishInv
    BY DEF Init, EndInv, PublishInv, MutexInv, Threads
  <1> QED
    BY <1>1, <1>2, <1>3, <1>4 DEF RegInv

LEMMA MutexKept ==
  ASSUME RegInv, chM' = chM, NEW t \in Threads, NEW w \in PCs, pc' = [pc EXCEPT ![t] = w],
         w # "writeCloseOk", t # "reader" => obj'["reader"] = obj["reader"]
  PROVE  MutexInv'
  BY DEF RegInv, TypeInv, PublishInv, MutexInv, Threads

(***************************************************************************)
(* A goroutine t goes on to w and changes nothing else that matters.       *)
(***************************************************************************)
LEMMA MoveStep ==
  ASSUME RegInv, NEW t \in Threads, NEW w \in PCs,
         pc' = [pc EXCEPT ![t] = w], pc[t] # "idle", w # "writeCloseOk",
         UNCHANGED <<allocVars, channels, chanVars, obj, pubVars, connVars>>,
         out' \in Seq(Frame), in' \in Seq(Frame),
         t = "reader" => w \in ReaderPCs, t = "conn" => w \in ConnPCs,
         w \in Opening => pc[t] \in Opening,
         w \in {"body", "join"} => closed[obj[t]],
         w = "release" => once[obj[t]] = "done" \/ (t \in Apps /\ obj[t] \notin opened)
  PROVE  RegInv'
  <1> USE DEF allocVars, chanVars, pubVars, connVars
  <1>1. TypeInv'
    BY DEF RegInv, TypeInv
  <1>2. MadeInv'
    BY DEF RegInv, TypeInv, MadeInv, Made
  <1>3. RegistryMatchesPool'
    BY DEF RegInv, RegistryMatchesPool
  <1>4. OwnerInv'
    BY DEF RegInv, TypeInv, OwnerInv, Safe, Threads
  <1>5. EndInv'
    BY DEF RegInv, TypeInv, EndInv
  <1>6. PublishInv'
    BY MutexKept DEF RegInv, PublishInv
  <1> QED
    BY <1>1, <1>2, <1>3, <1>4, <1>5, <1>6 DEF RegInv

\* Nothing that matters changes, but for the network and for conn, which does not end.
LEMMA IdleStep ==
  ASSUME RegInv,
         UNCHANGED <<pool, channels, chanVars, pc, obj, pubVars>>,
         out' \in Seq(Frame), in' \in Seq(Frame),
         conn' \in {"up", "broken", "closed", "locked", "done"}, conn' = "done" <=> conn = "done"
  PROVE  RegInv'
  <1> USE DEF chanVars, pubVars
  <1>1. TypeInv' /\ MadeInv'
    BY DEF RegInv, TypeInv, MadeInv, Made
  <1>2. RegistryMatchesPool' /\ OwnerInv'
    BY DEF RegInv, RegistryMatchesPool, OwnerInv, Safe
  <1>3. EndInv' /\ PublishInv'
    BY DEF RegInv, EndInv, PublishInv, MutexInv
  <1> QED
    BY <1>1, <1>2, <1>3 DEF RegInv

LEMMA SeqFacts ==
  ASSUME NEW S, NEW q \in Seq(S)
  PROVE  /\ \A e \in S : Append(q, e) \in Seq(S)
         /\ q # <<>> => Head(q) \in S /\ Tail(q) \in Seq(S)
  OBVIOUS

\* What is sent is a frame of an id.
LEMMA SendTyped ==
  ASSUME RegInv, NEW n \in Ids, NEW x \in {"open", "openOk", "close", "closeOk"}, send(n, x)
  PROVE  out' \in Seq(Frame)
  <1>1. [id |-> n, m |-> x] \in Frame
    BY DEF Frame
  <1> QED
    BY <1>1 DEF send, RegInv, TypeInv

LEMMA ObjMade ==
  ASSUME RegInv, NEW t \in Threads, pc[t] # "idle"
  PROVE  obj[t] \in Channels /\ obj[t] \in Made /\ id[obj[t]] \in Ids
  BY DEF RegInv, TypeInv, MadeInv, None

-----------------------------------------------------------------------------
LEMMA AllocateStep ==
  ASSUME RegInv, NEW a \in Apps, allocateChannel(a)
  PROVE  RegInv'
  <1> USE BoundAssumption, NameAssumption
  <1>1. CASE UNCHANGED <<made, id, channels, obj, pc>> /\ pool' = pool
    <2>1. /\ UNCHANGED <<pool, channels, chanVars, pc, obj, pubVars, conn, out, in>>
      BY <1>1 DEF allocateChannel, chanVars, connVars, netVars
    <2> QED
      BY <2>1, IdleStep DEF RegInv, TypeInv
  <1>2. ASSUME NEW n \in Ids, Alloc!NextOk(n), made < MaxOpen, ~ConnIsClosed,
               made' = made + 1, id' = [id EXCEPT ![made'] = n],
               channels' = [channels EXCEPT ![n] = made'], obj' = [obj EXCEPT ![a] = made'],
               pc[a] = "idle", pc' = [pc EXCEPT ![a] = "openCheck"],
               UNCHANGED <<closed, once, opened, pubVars, connVars, netVars>>
        PROVE  RegInv'
    <2> USE <1>2 DEF pubVars, connVars, netVars
    <2>1. n \notin pool /\ pool' = pool \cup {n}
      BY DEF Alloc!NextOk, Alloc!reserved
    <2>2. conn \in {"up", "broken"} /\ channels[n] = None
      BY <2>1 DEF ConnIsClosed, RegInv, RegistryMatchesPool
    <2>3. made' \in Channels /\ made' \notin Made /\ made' # None /\ Made' = Made \cup {made'}
      BY DEF RegInv, TypeInv, Channels, Made, None
    <2>4. a \in Threads /\ a # "reader" /\ a # "conn"
      BY DEF Threads
    <2>5. TypeInv'
      BY <2>1, <2>3, <2>4 DEF RegInv, TypeInv, Channels, PCs
    <2>6. MadeInv'
      BY <2>3, <2>4 DEF RegInv, TypeInv, MadeInv
    <2>7. RegistryMatchesPool'
      <3>1. pool' = {k \in Ids : channels'[k] # None}
        BY <2>1, <2>2, <2>3 DEF RegInv, TypeInv, RegistryMatchesPool
      <3>2. ASSUME NEW k \in pool' PROVE id'[channels'[k]] = k
        BY <2>1, <2>2, <2>3, <3>2 DEF RegInv, TypeInv, MadeInv, RegistryMatchesPool
      <3> QED
        BY <3>1, <3>2 DEF RegistryMatchesPool
    <2>8. \A o \in Made : id'[o] = id[o] /\ (channels[id[o]] = o => channels'[id'[o]] = o)
      <3> SUFFICES ASSUME NEW o \in Made
                   PROVE  id'[o] = id[o] /\ (channels[id[o]] = o => channels'[id[o]] = o)
        OBVIOUS
      <3>1. o # None /\ o \in Channels /\ o # made' /\ id[o] \in Ids
        BY <2>3 DEF RegInv, TypeInv, MadeInv, Made, Channels, None
      <3>2. id'[o] = id[o]
        BY <3>1 DEF RegInv, TypeInv
      <3>3. channels[id[o]] = o => id[o] # n
        BY <2>2, <3>1
      <3> QED
        BY <3>1, <3>2, <3>3 DEF RegInv, TypeInv
    <2>9. OwnerInv'
      <3>1. \A b \in Apps : pc'[b] # "idle" => b = a \/ (pc'[b] = pc[b] /\ obj'[b] = obj[b] /\ obj[b] \in Made)
        BY <2>4 DEF RegInv, TypeInv, MadeInv, Threads
      <3>2. obj'[a] = made' /\ channels'[id'[made']] = made'
        BY <2>3, <2>4 DEF RegInv, TypeInv
      <3>3. \A b, c \in Apps : pc'[b] # "idle" /\ pc'[c] # "idle" /\ obj'[b] = obj'[c] => b = c
        BY <2>3, <3>1, <3>2 DEF RegInv, OwnerInv
      <3>4. ASSUME NEW b \in Apps, pc'[b] \in Opening
            PROVE  /\ obj'[b] \notin opened'
                   /\ closed'[obj'[b]] \/ conn' = "done" \/ channels'[id'[obj'[b]]] = obj'[b]
        <4>1. CASE b = a
          BY <2>3, <3>2, <4>1 DEF RegInv, MadeInv
        <4>2. CASE b # a
          <5>1. pc'[b] = pc[b] /\ obj'[b] = obj[b] /\ obj[b] \in Made
            BY <3>1, <3>4, <4>2 DEF Opening
          <5>2. obj[b] \notin opened /\ (closed[obj[b]] \/ conn = "done" \/ channels[id[obj[b]]] = obj[b])
            BY <3>4, <5>1 DEF RegInv, OwnerInv, Safe
          <5> QED
            BY <5>1, <5>2, <2>8
        <4> QED
          BY <4>1, <4>2
      <3>5. ASSUME NEW o \in opened
            PROVE  closed'[o] \/ conn' = "done" \/ channels'[id'[o]] = o
        BY <2>8 DEF RegInv, MadeInv, OwnerInv, Safe
      <3> QED
        BY <3>3, <3>4, <3>5 DEF OwnerInv, Safe
    <2>10. EndInv'
      BY <2>4 DEF RegInv, TypeInv, EndInv
    <2>11. PublishInv'
      <3>0. MutexInv'
        BY <2>4, MutexKept DEF RegInv, TypeInv, PCs, Threads
      <3> SUFFICES ASSUME NEW p \in Publishers
                   PROVE  /\ ppc[p] # "idle" => pobj[p] \in opened /\ chM[pobj[p]] = p
                          /\ ppc[p] = "write" => /\ once[pobj[p]] # "done"
                                                 /\ conn = "done" \/ channels'[id'[pobj[p]]] = pobj[p]
        BY <3>0 DEF PublishInv
      <3>1. ppc[p] = "write" => pobj[p] \in Made /\ channels[id[pobj[p]]] = pobj[p]
        BY <2>2 DEF RegInv, PublishInv, MadeInv
      <3>2. ppc[p] = "write" => channels'[id'[pobj[p]]] = pobj[p]
        BY <2>8, <3>1
      <3> QED
        BY <3>2 DEF RegInv, PublishInv
    <2> QED
      BY <2>5, <2>6, <2>7, <2>9, <2>10, <2>11 DEF RegInv
  <1> QED
    BY <1>1, <1>2 DEF allocateChannel, Go, allocVars, Alloc!NextFail

LEMMA CallStep ==
  ASSUME RegInv, NEW a \in Apps, open(a) \/ Close(a) \/ close(a)
  PROVE  RegInv'
  <1>1. a \in Threads /\ a # "reader" /\ a # "conn"
    BY NameAssumption DEF Threads
  <1>2. out \in Seq(Frame) /\ in \in Seq(Frame)
    BY DEF RegInv, TypeInv
  <1>3. pc[a] \in Opening => obj[a] \notin opened
    BY DEF RegInv, OwnerInv
  <1>4. ASSUME pc[a] # "idle",
               NEW x \in {"open", "close"}, send(id[obj[a]], x)
        PROVE  out' \in Seq(Frame)
    BY <1>1, <1>4, ObjMade, SendTyped
  <1>5. CASE CallCheck(a, "openCheck", "openWrite", "release")
    BY <1>1, <1>2, <1>3, <1>5, MoveStep DEF CallCheck, Go, PCs, Opening, netVars
  <1>6. CASE CallWrite(a, "openWrite", "open", "openWait", "release")
    BY <1>1, <1>2, <1>3, <1>4, <1>6, MoveStep DEF CallWrite, Go, PCs, Opening
  <1>7. CASE CallFails(a, "openWait", "release")
    BY <1>1, <1>2, <1>3, <1>7, MoveStep DEF CallFails, Go, PCs, Opening, netVars
  <1>8. CASE Close(a)
    BY <1>1, <1>2, <1>8, MoveStep DEF Close, Go, PCs, Opening, netVars
  <1>9. CASE CallCheck(a, "closeCheck", "closeWrite", "shutdown")
    BY <1>1, <1>2, <1>9, MoveStep DEF CallCheck, Go, PCs, Opening, netVars
  <1>10. CASE CallWrite(a, "closeWrite", "close", "closeWait", "shutdown")
    BY <1>1, <1>2, <1>4, <1>10, MoveStep DEF CallWrite, Go, PCs, Opening
  <1>11. CASE CallFails(a, "closeWait", "shutdown")
    BY <1>1, <1>2, <1>11, MoveStep DEF CallFails, Go, PCs, Opening, netVars
  <1> QED
    BY <1>5, <1>6, <1>7, <1>8, <1>9, <1>10, <1>11 DEF open, close

LEMMA ShutdownStep ==
  ASSUME RegInv, NEW t \in Threads, shutdown(t)
  PROVE  RegInv'
  <1> USE DEF shutdown, Go, pubVars, connVars, netVars, allocVars
  <1> DEFINE o == obj[t]
  <1>1. o \in Channels
    BY ObjMade
  <1>2. closed' = [closed EXCEPT ![o] = TRUE] /\ \A q \in Channels : closed[q] => closed'[q]
    BY <1>1 DEF RegInv, TypeInv
  <1>3. once' \in [Channels -> {"no", "running", "done"}]
        /\ \A q \in Channels : (once'[q] # "no" => once[q] # "no" \/ q = o)
                               /\ (once'[q] = "done" <=> once[q] = "done")
    BY <1>1 DEF RegInv, TypeInv
  <1>4. PICK w \in {"body", "join"} : pc' = [pc EXCEPT ![t] = w]
    OBVIOUS
  <1>5. closed'[o]
    BY <1>1, <1>2 DEF RegInv, TypeInv
  <1>6. UNCHANGED <<pool, channels, made, id, opened, obj, ppc, pobj, chM, conn, out, in>>
    OBVIOUS
  <1>7. closed' \in [Channels -> BOOLEAN]
    BY <1>2 DEF RegInv, TypeInv
  <1>8. pc[t] = "shutdown"
    OBVIOUS
  <1> HIDE DEF shutdown, o
  <1>9. TypeInv'
    BY <1>3, <1>4, <1>6, <1>7 DEF RegInv, TypeInv, PCs, ReaderPCs, ConnPCs
  <1>10. MadeInv'
    BY <1>4, <1>6, <1>8 DEF RegInv, TypeInv, MadeInv, Made
  <1>11. RegistryMatchesPool'
    BY <1>6 DEF RegInv, RegistryMatchesPool
  <1>12. OwnerInv'
    <2>1. \A q \in Channels : Safe(q) => closed'[q] \/ conn' = "done" \/ channels'[id'[q]] = q
      BY <1>2, <1>6 DEF Safe
    <2>2. \A b \in Apps : /\ pc'[b] # "idle" => pc[b] # "idle"
                          /\ pc'[b] \in Opening => pc[b] \in Opening /\ obj[b] \in Channels
      BY <1>4, <1>8, ObjMade DEF RegInv, TypeInv, Threads, Opening
    <2> QED
      BY <1>6, <2>1, <2>2 DEF RegInv, TypeInv, OwnerInv, Safe
  <1>13. EndInv'
    <2>1. \A q \in Channels : once'[q] # "no" => closed'[q]
      BY <1>2, <1>3, <1>5 DEF RegInv, EndInv
    <2>2. ASSUME NEW u \in Threads, pc'[u] \in {"body", "join"} PROVE closed'[obj'[u]]
      <3>1. CASE u = t
        BY <1>5, <1>6, <3>1 DEF o
      <3>2. CASE u # t
        <4>1. pc[u] = pc'[u]
          BY <1>4, <3>2 DEF RegInv, TypeInv
        <4>2. obj[u] \in Channels /\ closed[obj[u]]
          BY <2>2, <4>1, ObjMade DEF RegInv, EndInv
        <4> QED
          BY <1>2, <1>6, <4>2
      <3> QED
        BY <3>1, <3>2
    <2>3. ASSUME NEW u \in Threads, pc'[u] = "release"
          PROVE  once'[obj'[u]] = "done" \/ (u \in Apps /\ obj'[u] \notin opened')
      <3>1. pc[u] = "release"
        BY <1>4, <2>3 DEF RegInv, TypeInv
      <3>2. obj[u] \in Channels
        BY <3>1, ObjMade
      <3> QED
        BY <1>3, <1>6, <3>1, <3>2 DEF RegInv, EndInv
    <2> QED
      BY <2>1, <2>2, <2>3 DEF EndInv
  <1>14. PublishInv'
    <2>1. opened \subseteq Channels
      BY DEF RegInv, TypeInv
    <2>2. MutexInv'
      BY <1>4, <1>6, MutexKept DEF PCs
    <2> QED
      BY <1>3, <1>6, <2>1, <2>2 DEF RegInv, PublishInv
  <1> QED
    BY <1>9, <1>10, <1>11, <1>12, <1>13, <1>14 DEF RegInv

LEMMA BodyStep ==
  ASSUME RegInv, NEW t \in Threads, shutdownBody(t)
  PROVE  RegInv'
  <1> DEFINE o == obj[t]
  <1>1. o \in Channels /\ pc[t] = "body" /\ chM[o] = "none"
    BY ObjMade DEF shutdownBody
  <1>2. once' = [once EXCEPT ![o] = "done"] /\ pc' = [pc EXCEPT ![t] = After(t)]
    BY DEF shutdownBody, Go
  <1>3. UNCHANGED <<pool, channels, made, id, closed, opened, obj, ppc, pobj, chM, conn, out, in>>
    BY DEF shutdownBody, pubVars, connVars, netVars, allocVars
  <1>4. closed[o]
    BY <1>1 DEF RegInv, EndInv
  <1>5. After(t) \in {"idle", "release"} /\ (t = "conn" <=> After(t) = "idle")
    BY DEF After
  <1> HIDE DEF o
  <1>6. TypeInv'
    BY <1>1, <1>2, <1>3, <1>5 DEF RegInv, TypeInv, PCs, ReaderPCs, ConnPCs
  <1>7. MadeInv'
    BY <1>1, <1>2, <1>3 DEF RegInv, TypeInv, MadeInv, Made
  <1>8. RegistryMatchesPool'
    BY <1>3 DEF RegInv, RegistryMatchesPool
  <1>9. OwnerInv'
    <2>1. \A b \in Apps : /\ pc'[b] # "idle" => pc[b] # "idle"
                          /\ pc'[b] \in Opening => pc[b] \in Opening
      BY <1>1, <1>2, <1>5 DEF RegInv, TypeInv, Threads, Opening
    <2> QED
      BY <1>3, <2>1 DEF RegInv, OwnerInv, Safe
  <1>10. EndInv'
    <2>1. \A q \in Channels : (once'[q] # "no" => once[q] # "no" \/ q = o) /\ (once[q] = "done" => once'[q] = "done")
      BY <1>1, <1>2 DEF RegInv, TypeInv
    <2>2. once'[o] = "done"
      BY <1>1, <1>2 DEF RegInv, TypeInv
    <2>3. \A u \in Threads : u # t => pc'[u] = pc[u]
      BY <1>2 DEF RegInv, TypeInv
    <2>4. pc'[t] \in {"idle", "release"}
      BY <1>2, <1>5 DEF RegInv, TypeInv
    <2>5. \A u \in Threads : pc[u] # "idle" => obj[u] \in Channels
      BY ObjMade
    <2> QED
      BY <1>3, <1>4, <2>1, <2>2, <2>3, <2>4, <2>5 DEF RegInv, EndInv, o
  <1>11. PublishInv'
    <2>1. \A p \in Publishers : ppc[p] # "idle" => pobj[p] # o
      BY <1>1, NameAssumption DEF RegInv, PublishInv
    <2>2. \A q \in Channels \ {o} : once'[q] = once[q]
      BY <1>1, <1>2 DEF RegInv, TypeInv
    <2>3. opened \subseteq Channels
      BY DEF RegInv, TypeInv
    <2>4. MutexInv'
      BY <1>2, <1>3, <1>5, MutexKept DEF PCs
    <2> QED
      BY <1>3, <2>1, <2>2, <2>3, <2>4 DEF RegInv, PublishInv
  <1> QED
    BY <1>6, <1>7, <1>8, <1>9, <1>10, <1>11 DEF RegInv

LEMMA JoinStep ==
  ASSUME RegInv, NEW t \in Threads, shutdownJoin(t)
  PROVE  RegInv'
  <1>1. out \in Seq(Frame) /\ in \in Seq(Frame)
    BY DEF RegInv, TypeInv
  <1>2. After(t) \in {"idle", "release"} /\ (t = "conn" => After(t) = "idle")
    BY DEF After
  <1>3. After(t) \in PCs /\ After(t) \in ReaderPCs /\ (t = "conn" => After(t) \in ConnPCs)
        /\ After(t) \notin Opening /\ After(t) \notin {"body", "join", "writeCloseOk"}
    BY <1>2 DEF PCs, ReaderPCs, ConnPCs, Opening
  <1>4. /\ pc' = [pc EXCEPT ![t] = After(t)] /\ pc[t] # "idle" /\ once[obj[t]] = "done"
        /\ UNCHANGED <<allocVars, channels, chanVars, obj, pubVars, connVars, out, in>>
    BY DEF shutdownJoin, Go, netVars
  <1> QED
    BY <1>1, <1>3, <1>4, MoveStep

LEMMA ReleaseStep ==
  ASSUME RegInv, NEW t \in Threads, releaseChannel(t)
  PROVE  RegInv'
  <1> DEFINE o == obj[t]
  <1>1. o \in Channels /\ o \in Made /\ id[o] \in Ids /\ pc[t] = "release"
    BY ObjMade DEF releaseChannel
  <1>2. pc' = [pc EXCEPT ![t] = "idle"]
    BY DEF releaseChannel, Go
  <1>3. UNCHANGED <<made, id, closed, once, opened, obj, ppc, pobj, chM, conn, out, in>>
    BY DEF releaseChannel, chanVars, pubVars, connVars, netVars
  <1>4. once[o] = "done" \/ (t \in Apps /\ o \notin opened)
    BY <1>1 DEF RegInv, EndInv
  <1>5. CASE UNCHANGED <<channels, allocVars>>
    <2>1. "idle" \in PCs /\ "idle" \in ReaderPCs /\ "idle" \in ConnPCs /\ "idle" \notin Opening
      BY DEF PCs, ReaderPCs, ConnPCs, Opening
    <2>2. out' \in Seq(Frame) /\ in' \in Seq(Frame)
      BY <1>3 DEF RegInv, TypeInv
    <2>3. UNCHANGED <<allocVars, channels, chanVars, obj, pubVars, connVars>>
      BY <1>5 DEF releaseChannel
    <2> QED
      BY <1>1, <1>2, <2>1, <2>2, <2>3, MoveStep
  <1>6. CASE /\ channels' = [channels EXCEPT ![id[o]] = None] /\ Alloc!Release(id[o])
             /\ channels[id[o]] = o /\ ~ConnIsClosed
    <2>1. pool' = pool \ {id[o]}
      BY <1>6 DEF Alloc!Release
    <2>2. \A n \in Ids : n # id[o] => channels'[n] = channels[n]
      BY <1>1, <1>6 DEF RegInv, TypeInv
    <2>3. channels'[id[o]] = None
      BY <1>1, <1>6 DEF RegInv, TypeInv
    <2>4. \A q \in Made : q # o /\ channels[id[q]] = q => channels'[id[q]] = q
      BY <1>6, <2>2 DEF RegInv, MadeInv
    <2>5. \A u \in Threads : u # t => pc'[u] = pc[u]
      BY <1>2 DEF RegInv, TypeInv
    <2>6. pc'[t] = "idle"
      BY <1>2 DEF RegInv, TypeInv
    <2>7. channels' \in [Ids -> Channels \cup {None}]
      BY <1>1, <1>6 DEF RegInv, TypeInv
    <2>8. conn # "done"
      BY <1>6 DEF ConnIsClosed
    <2> HIDE DEF o
    <2>9. TypeInv'
      BY <1>2, <1>3, <2>1, <2>7 DEF RegInv, TypeInv, PCs, ReaderPCs, ConnPCs
    <2>10. MadeInv'
      <3>1. \A n \in Ids : channels'[n] # None => channels'[n] = channels[n]
        BY <2>2, <2>3
      <3> QED
        BY <1>3, <2>5, <2>6, <3>1 DEF RegInv, MadeInv, Made
    <2>11. RegistryMatchesPool'
      <3>1. pool' = {n \in Ids : channels'[n] # None}
        BY <1>1, <2>1, <2>2, <2>3, <2>8 DEF RegInv, RegistryMatchesPool
      <3>2. \A n \in pool' : id[channels'[n]] = n
        BY <1>1, <2>1, <2>2, <2>8 DEF RegInv, TypeInv, RegistryMatchesPool
      <3> QED
        BY <1>3, <3>1, <3>2 DEF RegistryMatchesPool
    <2>12. OwnerInv'
      <3>1. \A b \in Apps : pc'[b] # "idle" => pc[b] = pc'[b] /\ b \in Threads /\ b # t
        BY <2>5, <2>6 DEF Threads
      <3>2. \A q \in Made : Safe(q) /\ (closed[o] \/ q # o)
                             => closed'[q] \/ conn' = "done" \/ channels'[id'[q]] = q
        BY <1>3, <2>4 DEF Safe
      <3>3. once[o] = "done" => closed[o]
        BY <1>1 DEF RegInv, EndInv
      <3>4. \A q \in opened : q \in Made /\ Safe(q)
        BY DEF RegInv, MadeInv, OwnerInv
      <3>5. \A q \in opened : closed'[q] \/ conn' = "done" \/ channels'[id'[q]] = q
        BY <1>4, <3>2, <3>3, <3>4
      <3>6. ASSUME NEW b \in Apps, pc'[b] \in Opening
            PROVE  obj[b] \notin opened
                   /\ (closed'[obj[b]] \/ conn' = "done" \/ channels'[id'[obj[b]]] = obj[b])
        <4>1. pc[b] \in Opening /\ pc[b] # "idle" /\ b \in Threads /\ b # t
          BY <3>1, <3>6 DEF Opening
        <4>2. obj[b] \notin opened /\ Safe(obj[b]) /\ obj[b] \in Made
          BY <4>1, ObjMade DEF RegInv, OwnerInv
        <4>3. t \in Apps => obj[b] # o
          BY <1>1, <4>1 DEF RegInv, OwnerInv, o
        <4> QED
          BY <1>4, <3>2, <3>3, <4>2, <4>3
      <3> QED
        BY <1>3, <3>1, <3>5, <3>6 DEF RegInv, OwnerInv, Safe
    <2>13. EndInv'
      BY <1>3, <2>5, <2>6 DEF RegInv, EndInv
    <2>14. PublishInv'
      <3>1. \A p \in Publishers : ppc[p] = "write" => pobj[p] # o /\ pobj[p] \in Made
        BY <1>4 DEF RegInv, PublishInv, MadeInv
      <3>2. MutexInv'
        BY <1>2, <1>3, MutexKept DEF PCs
      <3> QED
        BY <1>3, <2>4, <3>1, <3>2 DEF RegInv, PublishInv
    <2> QED
      BY <2>9, <2>10, <2>11, <2>12, <2>13, <2>14 DEF RegInv
  <1> QED
    BY <1>5, <1>6 DEF releaseChannel

-----------------------------------------------------------------------------
\* The reader, or the goroutine in Connection.shutdown, takes up a Channel.
LEMMA TakeUpStep ==
  ASSUME RegInv, NEW s \in {"reader", "conn"}, NEW o \in Channels, o \in Made,
         NEW w \in {"sendCloseOk", "deliver", "shutdown"}, s = "conn" => w = "shutdown",
         pc[s] = "idle", pc' = [pc EXCEPT ![s] = w], obj' = [obj EXCEPT ![s] = o],
         closed' = closed \/ closed' = [closed EXCEPT ![o] = TRUE], in' \in Seq(Frame),
         UNCHANGED <<pool, channels, made, id, once, opened, ppc, pobj, chM, conn, out>>
  PROVE  RegInv'
  <1>1. closed' \in [Channels -> BOOLEAN] /\ \A q \in Channels : closed[q] => closed'[q]
    BY DEF RegInv, TypeInv
  <1>2. s \in Threads /\ s \notin Apps
    BY NameAssumption DEF Threads
  <1>3. pc' \in [Threads -> PCs] /\ pc'["reader"] \in ReaderPCs /\ pc'["conn"] \in ConnPCs
        /\ pc'[s] = w /\ \A u \in Threads : u # s => pc'[u] = pc[u]
    BY <1>2 DEF RegInv, TypeInv, PCs, ReaderPCs, ConnPCs, Threads
  <1>4. obj' \in [Threads -> Channels \cup {None}]
        /\ obj'[s] = o /\ \A u \in Threads : u # s => obj'[u] = obj[u]
    BY <1>2 DEF RegInv, TypeInv
  <1>5. TypeInv'
    BY <1>1, <1>3, <1>4 DEF RegInv, TypeInv
  <1>6. o # None
    BY DEF Channels, None
  <1>7. MadeInv'
    BY <1>3, <1>4, <1>6 DEF RegInv, MadeInv, Made
  <1>8. RegistryMatchesPool'
    BY DEF RegInv, RegistryMatchesPool
  <1>9. \A b \in Apps : b \in Threads /\ pc'[b] = pc[b] /\ obj'[b] = obj[b]
    BY <1>2, <1>3, <1>4 DEF Threads
  <1>10. OwnerInv'
    <2>1. \A b \in Apps : pc[b] \in Opening => obj[b] \in Channels
      BY <1>9, ObjMade DEF Opening
    <2>2. opened \subseteq Channels
      BY DEF RegInv, TypeInv
    <2>3. \A q \in Channels : Safe(q) => closed'[q] \/ conn' = "done" \/ channels'[id'[q]] = q
      BY <1>1 DEF Safe
    <2> QED
      BY <1>9, <2>1, <2>2, <2>3 DEF RegInv, OwnerInv, Safe
  <1>11. EndInv'
    <2>1. \A u \in Threads : pc'[u] \in {"body", "join", "release"} =>
            pc'[u] = pc[u] /\ obj'[u] = obj[u] /\ obj[u] \in Channels
      BY <1>3, <1>4, ObjMade
    <2> QED
      BY <1>1, <2>1 DEF RegInv, EndInv
  <1>12. PublishInv'
    BY DEF RegInv, PublishInv, MutexInv
  <1> QED
    BY <1>5, <1>7, <1>8, <1>10, <1>11, <1>12 DEF RegInv

LEMMA ReplyStep ==
  ASSUME RegInv, NEW a \in Apps, dispatchReply(a)
  PROVE  RegInv'
  <1>1. a \in Threads /\ "reader" \in Threads /\ "reader" \notin Apps /\ a # "reader" /\ a # "conn"
    BY NameAssumption DEF Threads
  <1>2. pc["reader"] = "deliver" /\ pc[a] \in {"openWait", "closeWait"} /\ obj[a] \in Channels /\ obj[a] \in Made
    BY <1>1, ObjMade DEF dispatchReply
  <1>3. UNCHANGED <<pool, channels, made, id, closed, once, obj, ppc, pobj, chM, conn, out, in>>
    BY DEF dispatchReply, allocVars, pubVars, connVars, netVars
  <1>4. PICK w \in {"own", "shutdown", "release"} :
          /\ pc' = [pc EXCEPT ![a] = w, !["reader"] = "idle"]
          /\ opened' = IF w = "own" THEN opened \cup {obj[a]} ELSE opened
          /\ w \in {"own", "release"} => pc[a] = "openWait"
    BY DEF dispatchReply
  <1>5. pc' \in [Threads -> PCs] /\ pc'["reader"] = "idle" /\ pc'[a] = w
        /\ \A u \in Threads : u # a /\ u # "reader" => pc'[u] = pc[u]
    BY <1>1, <1>4 DEF RegInv, TypeInv, PCs
  <1>6. pc'["conn"] \in ConnPCs
    BY <1>1, <1>5 DEF RegInv, TypeInv, Threads
  <1>7. opened \subseteq opened' /\ opened' \subseteq opened \cup {obj[a]} /\ opened' \in SUBSET Channels
    BY <1>2, <1>4 DEF RegInv, TypeInv
  <1>8. TypeInv'
    BY <1>3, <1>5, <1>6, <1>7 DEF RegInv, TypeInv, ReaderPCs
  <1>9. MadeInv'
    <2>1. \A u \in Threads : pc'[u] # "idle" => pc[u] # "idle"
      BY <1>2, <1>5
    <2> QED
      BY <1>2, <1>3, <1>7, <2>1 DEF RegInv, MadeInv, Made
  <1>10. RegistryMatchesPool'
    BY <1>3 DEF RegInv, RegistryMatchesPool
  <1>11. \A b \in Apps : b # a => pc'[b] = pc[b] /\ (pc[b] # "idle" => obj[b] # obj[a])
    BY <1>1, <1>2, <1>5 DEF RegInv, OwnerInv, Threads
  <1>12. opened' # opened => pc[a] = "openWait" /\ Safe(obj[a])
    BY <1>4 DEF RegInv, OwnerInv, Opening
  <1>13. OwnerInv'
    <2>1. \A b, c \in Apps : pc'[b] # "idle" /\ pc'[c] # "idle" /\ obj[b] = obj[c] => b = c
      BY <1>2, <1>11 DEF RegInv, OwnerInv
    <2>2. \A b \in Apps : pc'[b] \in Opening => obj[b] \notin opened' /\ Safe(obj[b])
      BY <1>5, <1>7, <1>11 DEF RegInv, OwnerInv, Opening
    <2>3. \A q \in opened' : Safe(q)
      BY <1>7, <1>12 DEF RegInv, OwnerInv
    <2> QED
      BY <1>3, <2>1, <2>2, <2>3 DEF OwnerInv, Safe
  <1>14. EndInv'
    <2>1. \A u \in Threads : pc'[u] \in {"body", "join"} => pc'[u] = pc[u]
      BY <1>4, <1>5
    <2>2. ASSUME NEW u \in Threads, pc'[u] = "release"
          PROVE  once[obj[u]] = "done" \/ (u \in Apps /\ obj[u] \notin opened')
      <3>1. CASE u = a
        BY <1>4, <1>5, <2>2, <3>1 DEF RegInv, OwnerInv, Opening
      <3>2. CASE u # a
        <4>1. pc[u] = "release"
          BY <1>5, <2>2, <3>2
        <4> QED
          BY <1>7, <1>11, <3>2, <4>1 DEF RegInv, EndInv
      <3> QED
        BY <3>1, <3>2
    <2> QED
      BY <1>3, <2>1, <2>2 DEF RegInv, EndInv
  <1>15. PublishInv'
    <2>1. MutexInv'
      BY <1>5 DEF MutexInv
    <2> QED
      BY <1>3, <1>7, <2>1 DEF RegInv, PublishInv
  <1> QED
    BY <1>8, <1>9, <1>10, <1>13, <1>14, <1>15 DEF RegInv

\* The reader takes Channel.m for its close-ok, and gives it back.
LEMMA CloseOkStep ==
  ASSUME RegInv, dispatchClose \/ dispatchCloseSent
  PROVE  RegInv'
  <1> DEFINE o == obj["reader"]
  <1>1. "reader" \in Threads /\ "reader" # "conn" /\ "reader" \notin Apps
    BY NameAssumption DEF Threads
  <1>2. /\ pc["reader"] # "idle"
        /\ UNCHANGED <<pool, channels, made, id, closed, once, opened, obj, ppc, pobj, conn, in>>
    BY DEF dispatchClose, dispatchCloseSent, allocVars, chanVars, connVars, netVars
  <1>3. o \in Channels
    BY <1>1, <1>2, ObjMade
  <1>4. PICK w \in {"writeCloseOk", "shutdown"}, h \in {"none", "reader"} :
          /\ pc' = [pc EXCEPT !["reader"] = w] /\ chM' = [chM EXCEPT ![o] = h]
          /\ w = "writeCloseOk" => h = "reader"
          /\ chM[o] = "none" \/ pc["reader"] = "writeCloseOk"
    BY DEF dispatchClose, dispatchCloseSent, Go
  <1>5. out' \in Seq(Frame)
    <2>1. out' = out \/ send(id[o], "closeOk")
      BY DEF dispatchClose, dispatchCloseSent, netVars
    <2> QED
      BY <1>1, <1>2, <2>1, ObjMade, SendTyped DEF RegInv, TypeInv
  <1>6. /\ pc' \in [Threads -> PCs] /\ pc'["reader"] = w
        /\ \A u \in Threads : u # "reader" => pc'[u] = pc[u]
    BY <1>1, <1>4 DEF RegInv, TypeInv, PCs
  <1>7. pc'["conn"] \in ConnPCs
    BY <1>6 DEF RegInv, TypeInv, Threads
  <1>8. chM' \in [Channels -> Publishers \cup {"none", "reader"}]
    BY <1>3, <1>4 DEF RegInv, TypeInv
  <1> HIDE DEF o
  <1>9. TypeInv'
    BY <1>2, <1>5, <1>6, <1>7, <1>8 DEF RegInv, TypeInv, ReaderPCs
  <1>10. MadeInv' /\ RegistryMatchesPool'
    BY <1>2, <1>6 DEF RegInv, MadeInv, Made, RegistryMatchesPool
  <1>11. OwnerInv' /\ EndInv'
    <2>1. \A b \in Apps : pc'[b] = pc[b]
      BY <1>1, <1>6 DEF Threads
    <2>2. \A u \in Threads : pc'[u] \in {"body", "join", "release"} => pc'[u] = pc[u]
      BY <1>6
    <2> QED
      BY <1>2, <2>1, <2>2 DEF RegInv, OwnerInv, Safe, EndInv
  <1>12. PublishInv'
    <2>1. chM[o] \notin Publishers
      BY <1>4, NameAssumption DEF RegInv, PublishInv, MutexInv, o
    <2>2. MutexInv'
      BY <1>2, <1>3, <1>4, <1>6 DEF RegInv, TypeInv, MutexInv, o
    <2>3. ASSUME NEW p \in Publishers, ppc[p] # "idle" PROVE chM'[pobj[p]] = p
      <3>1. pobj[p] # o /\ pobj[p] \in Channels /\ chM[pobj[p]] = p
        BY <2>1, <2>3 DEF RegInv, TypeInv, PublishInv
      <3> QED
        BY <1>4, <3>1 DEF RegInv, TypeInv
    <2> QED
      BY <1>2, <2>2, <2>3 DEF RegInv, PublishInv
  <1> QED
    BY <1>9, <1>10, <1>11, <1>12 DEF RegInv

LEMMA ReaderStep ==
  ASSUME RegInv, Reader
  PROVE  RegInv'
  <1>1. out \in Seq(Frame) /\ in \in Seq(Frame) /\ "reader" \in Threads
        /\ conn \in {"up", "broken", "closed", "locked", "done"}
    BY DEF RegInv, TypeInv, Threads
  <1>2. Take => in' \in Seq(Frame) /\ Head(in) \in Frame /\ Head(in).id \in Ids
    <2>1. Take => in' \in Seq(Frame) /\ Head(in) \in Frame
      BY <1>1, SeqFacts DEF Take
    <2> QED
      BY <2>1 DEF Frame
  <1>3. CASE dispatchN
    <2>1. channels[Head(in).id] \in Channels /\ channels[Head(in).id] \in Made
      BY <1>2, <1>3 DEF dispatchN, RegInv, TypeInv, MadeInv
    <2> QED
      BY <1>2, <1>3, <2>1, TakeUpStep DEF dispatchN, Take, Go, allocVars, pubVars, connVars
  <1>4. CASE dispatchClose \/ dispatchCloseSent
    BY <1>4, CloseOkStep
  <1>5. CASE dispatchClosed
    <2>1. out' \in Seq(Frame)
      BY <1>1, <1>2, <1>5, SendTyped DEF dispatchClosed
    <2> QED
      BY <1>1, <1>2, <1>5, <2>1, IdleStep DEF dispatchClosed, callVars, allocVars
  <1>6. CASE dropReply
    BY <1>1, <1>6, MoveStep DEF dropReply, Go, PCs, ReaderPCs, Opening, netVars
  <1> QED
    BY <1>3, <1>4, <1>5, <1>6, ReplyStep DEF Reader

-----------------------------------------------------------------------------
LEMMA ShutterStep ==
  ASSUME RegInv, connClosed \/ Break \/ Shutter
  PROVE  RegInv'
  <1>1. out \in Seq(Frame) /\ in \in Seq(Frame)
    BY DEF RegInv, TypeInv
  <1>2. CASE connClosed \/ Break \/ connLock
    BY <1>1, <1>2, IdleStep DEF connClosed, Break, connLock, callVars, allocVars, netVars
  <1>3. CASE connShutdownNext
    <2>1. PICK o \in Registered : obj' = [obj EXCEPT !["conn"] = o]
      BY <1>3 DEF connShutdownNext
    <2>2. o \in Channels /\ o \in Made
      BY <2>1 DEF Registered, RegInv, TypeInv, MadeInv
    <2> QED
      BY <1>1, <1>3, <2>1, <2>2, TakeUpStep
      DEF connShutdownNext, Go, allocVars, chanVars, pubVars, connVars, netVars
  <1>4. CASE connShutdownEnd
    <2>1. conn' = "done" /\ channels' = [n \in Ids |-> None]
          /\ UNCHANGED <<pool, made, id, closed, once, opened, pc, obj, ppc, pobj, chM, out, in>>
      BY <1>4 DEF connShutdownEnd, allocVars, chanVars, callVars, pubVars, netVars
    <2>2. TypeInv' /\ MadeInv'
      BY <2>1 DEF RegInv, TypeInv, MadeInv, Made
    <2>3. RegistryMatchesPool' /\ OwnerInv'
      BY <2>1 DEF RegInv, RegistryMatchesPool, OwnerInv, Safe
    <2>4. EndInv' /\ PublishInv'
      BY <2>1 DEF RegInv, EndInv, PublishInv, MutexInv
    <2> QED
      BY <2>2, <2>3, <2>4 DEF RegInv
  <1> QED
    BY <1>2, <1>3, <1>4 DEF Shutter

LEMMA PublishStep ==
  ASSUME RegInv, NEW p \in Publishers,
         \/ \E o \in Channels : PublishLock(p, o)
         \/ PublishCheck(p) \/ PublishUnlock(p)
  PROVE  RegInv'
  <1>1. UNCHANGED <<pool, channels, made, id, closed, once, opened, pc, obj, conn, out, in>>
    BY DEF PublishLock, PublishCheck, PublishUnlock, allocVars, chanVars, callVars, connVars, netVars
  <1>2. MadeInv' /\ RegistryMatchesPool'
    BY <1>1 DEF RegInv, MadeInv, Made, RegistryMatchesPool
  <1>3. OwnerInv' /\ EndInv'
    BY <1>1 DEF RegInv, OwnerInv, Safe, EndInv
  <1>4. opened \subseteq Channels
    BY DEF RegInv, TypeInv
  <1>5. ASSUME NEW o \in Channels, PublishLock(p, o)
        PROVE  TypeInv' /\ PublishInv'
    <2>1. ppc' = [ppc EXCEPT ![p] = "locked"] /\ pobj' = [pobj EXCEPT ![p] = o]
          /\ chM' = [chM EXCEPT ![o] = p] /\ o \in opened /\ chM[o] = "none"
      BY <1>5 DEF PublishLock
    <2>2. TypeInv'
      BY <1>1, <2>1 DEF RegInv, TypeInv
    <2>3. PublishInv'
      <3>1. ppc'[p] = "locked" /\ pobj'[p] = o /\ chM'[o] = p
        BY <2>1 DEF RegInv, TypeInv
      <3>2. ASSUME NEW q \in Publishers, q # p, ppc[q] # "idle"
            PROVE  ppc'[q] = ppc[q] /\ pobj'[q] = pobj[q] /\ chM'[pobj[q]] = chM[pobj[q]]
        <4>1. pobj[q] # o /\ pobj[q] \in Channels
          BY <1>4, <2>1, <3>2, NameAssumption DEF RegInv, PublishInv
        <4> QED
          BY <2>1, <3>2, <4>1 DEF RegInv, TypeInv
      <3>3. \A q \in Publishers : q # p => ppc'[q] = ppc[q]
        BY <2>1 DEF RegInv, TypeInv
      <3> QED
        BY <1>1, <2>1, <3>1, <3>2, <3>3 DEF RegInv, PublishInv, MutexInv
    <2> QED
      BY <2>2, <2>3
  <1>6. CASE PublishCheck(p)
    <2>1. ppc' = [ppc EXCEPT ![p] = "write"] /\ ppc[p] = "locked" /\ ~closed[pobj[p]]
          /\ UNCHANGED <<pobj, chM>>
      BY <1>6 DEF PublishCheck
    <2>2. TypeInv'
      BY <1>1, <2>1 DEF RegInv, TypeInv
    <2>3. pobj[p] \in opened /\ once[pobj[p]] # "done"
          /\ (conn = "done" \/ channels[id[pobj[p]]] = pobj[p])
      BY <1>4, <2>1 DEF RegInv, PublishInv, EndInv, OwnerInv, Safe
    <2>4. ppc'[p] = "write" /\ \A q \in Publishers : q # p => ppc'[q] = ppc[q]
      BY <2>1 DEF RegInv, TypeInv
    <2>5. PublishInv'
      BY <1>1, <2>1, <2>3, <2>4 DEF RegInv, PublishInv, MutexInv
    <2> QED
      BY <2>2, <2>5, <1>2, <1>3 DEF RegInv
  <1>7. CASE PublishUnlock(p)
    <2>1. ppc' = [ppc EXCEPT ![p] = "idle"] /\ chM' = [chM EXCEPT ![pobj[p]] = "none"]
          /\ ppc[p] # "idle" /\ UNCHANGED pobj
      BY <1>7 DEF PublishUnlock
    <2>2. TypeInv'
      BY <1>1, <2>1 DEF RegInv, TypeInv
    <2>3. PublishInv'
      <3>1. ppc'[p] = "idle" /\ \A q \in Publishers : q # p => ppc'[q] = ppc[q]
        BY <2>1 DEF RegInv, TypeInv
      <3>2. ASSUME NEW q \in Publishers, q # p, ppc[q] # "idle"
            PROVE  chM'[pobj[q]] = chM[pobj[q]]
        <4>1. pobj[q] # pobj[p] /\ pobj[q] \in Channels
          BY <1>4, <2>1, <3>2 DEF RegInv, PublishInv
        <4> QED
          BY <2>1, <4>1 DEF RegInv, TypeInv
      <3>3. MutexInv'
        <4> SUFFICES ASSUME pc["reader"] = "writeCloseOk" PROVE chM'[obj["reader"]] = "reader"
          BY <1>1 DEF MutexInv
        <4>1. chM[obj["reader"]] = "reader" /\ obj["reader"] \in Channels
          BY ObjMade DEF RegInv, PublishInv, MutexInv, Threads
        <4>2. obj["reader"] # pobj[p]
          BY <2>1, <4>1, NameAssumption DEF RegInv, PublishInv
        <4> QED
          BY <2>1, <4>1, <4>2 DEF RegInv, TypeInv
      <3> QED
        BY <1>1, <2>1, <3>1, <3>2, <3>3 DEF RegInv, PublishInv
    <2> QED
      BY <2>2, <2>3, <1>2, <1>3 DEF RegInv
  <1> QED
    BY <1>2, <1>3, <1>5, <1>6, <1>7 DEF RegInv

LEMMA ServerStep ==
  ASSUME RegInv, Serve \/ \E n \in Ids : Exception(n)
  PROVE  RegInv'
  <1>1. out \in Seq(Frame) /\ in \in Seq(Frame)
        /\ conn \in {"up", "broken", "closed", "locked", "done"}
    BY DEF RegInv, TypeInv
  <1>2. UNCHANGED <<pool, channels, chanVars, pc, obj, pubVars, conn>>
    BY DEF Serve, Exception, allocVars, callVars, connVars
  <1>3. out' \in Seq(Frame)
    BY <1>1, SeqFacts DEF Serve, Exception
  <1>4. in' \in Seq(Frame)
    <2>1. CASE Serve
      <3>1. Head(out) \in Frame
        BY <1>1, <2>1, SeqFacts DEF Serve
      <3>2. PICK x \in {"openOk", "closeOk"} : in' = in \/ in' = Append(in, [id |-> Head(out).id, m |-> x])
        BY <2>1 DEF Serve
      <3>3. [id |-> Head(out).id, m |-> x] \in Frame
        BY <3>1 DEF Frame
      <3> QED
        BY <1>1, <3>2, <3>3, SeqFacts
    <2>2. ASSUME NEW n \in Ids, Exception(n) PROVE in' \in Seq(Frame)
      <3>1. [id |-> n, m |-> "close"] \in Frame
        BY DEF Frame
      <3> QED
        BY <1>1, <2>2, <3>1, SeqFacts DEF Exception
    <2> QED
      BY <2>1, <2>2
  <1> QED
    BY <1>1, <1>2, <1>3, <1>4, IdleStep

LEMMA StepReg == RegInv /\ [Next]_vars => RegInv'
  <1> SUFFICES ASSUME RegInv, [Next]_vars PROVE RegInv'
    OBVIOUS
  <1>1. CASE UNCHANGED vars
    BY <1>1, IdleStep DEF vars, allocVars, callVars, netVars, connVars, RegInv, TypeInv
  <1>2. ASSUME NEW t \in Threads, closeChannel(t) PROVE RegInv'
    BY <1>2, ShutdownStep, BodyStep, JoinStep, ReleaseStep DEF closeChannel
  <1> QED
    BY <1>1, <1>2, AllocateStep, CallStep, ReaderStep, ShutterStep, PublishStep, ServerStep DEF Next

LEMMA RegInvHolds == Spec => []RegInv
  BY InitReg, StepReg, PTL DEF Spec

-----------------------------------------------------------------------------
(***************************************************************************)
(* No id leaks and none is given out twice: as long as the connection      *)
(* lives, the allocator's ids in use are those of the registered Channels, *)
(* on all of the paths that lead to releaseChannel.                        *)
(***************************************************************************)
THEOREM PoolIsRegistry == Spec => []RegistryMatchesPool
  <1>1. RegInv => RegistryMatchesPool
    BY DEF RegInv
  <1> QED
    BY <1>1, RegInvHolds, PTL

(***************************************************************************)
(* A Channel the application has got and that is not closed keeps its      *)
(* registration, whoever releases earlier Channels that had its id.        *)
(***************************************************************************)
THEOREM OpenStaysRegistered == Spec => []OpenIsRegistered
  <1>1. RegInv => OpenIsRegistered
    BY DEF RegInv, OwnerInv, Safe, OpenIsRegistered
  <1> QED
    BY <1>1, RegInvHolds, PTL

(***************************************************************************)
(* Publish writes on an id that belongs to its Channel: shutdown waits for *)
(* Channel.m, and closeChannel releases the id only after shutdown.        *)
(***************************************************************************)
THEOREM PublishersOwnIds == Spec => []PublishOwnsId
  <1>1. RegInv => PublishOwnsId
    BY DEF RegInv, PublishInv, PublishOwnsId
  <1> QED
    BY <1>1, RegInvHolds, PTL
=============================================================================
