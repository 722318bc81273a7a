------------------------ MODULE TcpConnection_proofs ------------------------
(* Proofs about TcpConnection, for every choice of its constants. *)
EXTENDS TcpConnection, SequenceTheorems, TLAPS

\* A write splits the data it is given into what the kernel took and the rest.
LEMMA SplitFacts ==
  ASSUME NEW S, NEW d \in Seq(S), NEW n \in 0..Len(d)
  PROVE  /\ SubSeq(d, 1, n) \in Seq(S)
         /\ SubSeq(d, n + 1, Len(d)) \in Seq(S)
         /\ SubSeq(d, 1, n) \o SubSeq(d, n + 1, Len(d)) = d
<1>1. SubSeq(d, 1, n) \in Seq(S) /\ SubSeq(d, n + 1, Len(d)) \in Seq(S)
  OBVIOUS
<1>2. SubSeq(d, 1, n) \o SubSeq(d, n + 1, Len(d)) = SubSeq(d, 1, Len(d))
  <2>1. /\ 1 \in 1..(Len(d) + 1)
        /\ n \in (1 - 1)..Len(d)
        /\ Len(d) \in n..Len(d)
    OBVIOUS
  <2> QED
    BY <2>1, ConcatAdjacentSubSeq, Zenon
<1>3. SubSeq(d, 1, Len(d)) = d
  OBVIOUS
<1> QED
  BY <1>1, <1>2, <1>3

\* Concatenation is associative.
LEMMA ConcatAssoc ==
  ASSUME NEW S, NEW a \in Seq(S), NEW b \in Seq(S), NEW c \in Seq(S)
  PROVE  (a \o b) \o c = a \o (b \o c)
  OBVIOUS

\* What write() leaves and what it took add up to the data.
LEMMA WriteFacts ==
  ASSUME NEW S, NEW d \in Seq(S), NEW rest,
         sent \in Seq(S), room \in 0..SndBuf, SndBuf \in Nat,
         Write(d, rest)
  PROVE  /\ rest \in Seq(S)
         /\ sent' \in Seq(S)
         /\ room' \in 0..SndBuf
         /\ sent' \o rest = sent \o d
<1>1. PICK n \in Written(Len(d)) : /\ sent' = sent \o SubSeq(d, 1, n)
                                   /\ rest = SubSeq(d, n + 1, Len(d))
                                   /\ room' = room - n
  BY DEF Write
<1>2. n \in 0..Len(d) /\ n <= room
  BY <1>1 DEF Written
<1>3. PICK a \in Seq(S) : /\ sent' = sent \o a
                          /\ rest \in Seq(S)
                          /\ a \o rest = d
  BY <1>1, <1>2, SplitFacts
<1>5. (sent \o a) \o rest = sent \o (a \o rest)
  <2>1. sent \in Seq(S) /\ a \in Seq(S) /\ rest \in Seq(S)
    BY <1>3
  <2> QED
    BY ONLY <2>1, ConcatAssoc
<1>6. sent \o a \in Seq(S)
  BY <1>3, ConcatProperties, Zenon
<1>7. room' \in 0..SndBuf
  BY <1>1, <1>2
<1> QED
  BY <1>3, <1>5, <1>6, <1>7

\* The connection and its byte stream: what sendInLoop, handleWrite and
\* handleClose work on.
ConnType ==
  /\ state \in {"kConnected", "kDisconnecting", "kDisconnected"}
  /\ events \subseteq {"in", "out"}
  /\ output \in Seq(Units)
  /\ inTable \in BOOLEAN
  /\ room \in 0..SndBuf
  /\ accepted \in Seq(Units)
  /\ sent \in Seq(Units)
  /\ closes \in Nat

Core == ConnType /\ ClosedInv /\ CloseOnce /\ StreamIntegrity /\ WriteInterest

\* The rest of the state: socket, loop thread, queue and other threads.
RestType ==
  /\ wrShut \in BOOLEAN
  /\ inbox \in 0..MaxInbox
  /\ eof \in BOOLEAN
  /\ rst \in BOOLEAN
  /\ rdErr \in BOOLEAN
  /\ phase \in {"poll", "batch", "event", "message", "run"}
  /\ revents \subseteq {"in", "out"}
  /\ pend \in Seq(Functors)
  /\ batch \in Seq(Functors)
  /\ held \in BOOLEAN
  /\ holders \subseteq Threads
  /\ todo \subseteq Msgs

\* What a message contributes to the stream: a non-empty sequence of units.
LEMMA MessageFacts ==
  ASSUME ConnAssumption, NEW m \in Msgs
  PROVE  /\ MessageUnits(m) \in Seq(Units)
         /\ MessageUnits(m) # << >>
<1>1. /\ MessageUnits(m) \in Seq(Units)
      /\ Len(MessageUnits(m)) = MsgLen
  BY DEF ConnAssumption, MessageUnits, Units
<1> QED
  BY <1>1 DEF ConnAssumption

\* sendInLoop keeps the connection's invariant in each of its three cases.
LEMMA SendKeepsCore ==
  ASSUME ConnAssumption, Core, NEW m \in Msgs, SendInLoop(m),
         UNCHANGED <<state, inTable, closes>>
  PROVE  Core'
<1> DEFINE u == MessageUnits(m)
<1>0. u \in Seq(Units) /\ u # << >>
  BY MessageFacts
<1> HIDE DEF u
<1>1. CASE UNCHANGED <<events, stream>>
  BY <1>1 DEF Core, ConnType, ClosedInv, CloseOnce, StreamIntegrity,
              WriteInterest, stream
<1>2. CASE /\ state # "kDisconnected"
           /\ output = << >>
           /\ Write(u, output')
           /\ events' = IF output' = << >> THEN events ELSE events \cup {"out"}
           /\ accepted' = accepted \o u
  <2>1. /\ output' \in Seq(Units)
        /\ sent' \in Seq(Units)
        /\ room' \in 0..SndBuf
        /\ sent' \o output' = sent \o u
    BY <1>0, <1>2, WriteFacts DEF Core, ConnType, ConnAssumption
  <2>2. accepted' \in Seq(Units)
    BY <1>0, <1>2, ConcatProperties, Zenon DEF Core, ConnType
  <2>3. sent = accepted
    <3>1. sent \o << >> = sent
      BY ConcatEmptySeq, Zenon DEF Core, ConnType
    <3> QED
      BY <1>2, <3>1 DEF Core, StreamIntegrity
  <2>4. ConnType'
    BY <1>2, <2>1, <2>2 DEF Core, ConnType
  <2>5. ClosedInv' /\ CloseOnce' /\ WriteInterest'
    BY <1>2 DEF Core, ConnType, ClosedInv, CloseOnce, WriteInterest
  <2>6. StreamIntegrity'
    BY <1>2, <2>1, <2>3 DEF StreamIntegrity
  <2> QED
    BY <2>4, <2>5, <2>6 DEF Core
<1>3. CASE /\ state # "kDisconnected"
           /\ output # << >>
           /\ output' = output \o u
           /\ events' = events \cup {"out"}
           /\ accepted' = accepted \o u
           /\ UNCHANGED <<room, sent>>
  <2>0. sent \in Seq(Units) /\ output \in Seq(Units)
    BY DEF Core, ConnType
  <2>1. output' \in Seq(Units) /\ accepted' \in Seq(Units)
    BY <1>0, <1>3, ConcatProperties, Zenon DEF Core, ConnType
  <2>2. output' # << >>
    BY <1>0, <1>3, <2>0
  <2>3. (sent \o output) \o u = sent \o (output \o u)
    BY <1>0, <2>0
  <2>4. ConnType'
    BY <1>3, <2>1 DEF Core, ConnType
  <2>5. ClosedInv' /\ CloseOnce' /\ WriteInterest'
    BY <1>3, <2>2 DEF Core, ConnType, ClosedInv, CloseOnce, WriteInterest
  <2>6. StreamIntegrity'
    BY <1>3, <2>3 DEF Core, StreamIntegrity
  <2> QED
    BY <2>4, <2>5, <2>6 DEF Core
<1> QED
  BY <1>1, <1>2, <1>3 DEF SendInLoop, DirectSend, BufferSend, u, stream

\* handleWrite keeps it.
LEMMA FlushKeepsCore ==
  ASSUME ConnAssumption, Core, state # "kDisconnected", Flush,
         UNCHANGED <<state, inTable, closes>>
  PROVE  Core'
<1>1. CASE UNCHANGED <<events, stream>>
  BY <1>1 DEF Core, ConnType, ClosedInv, CloseOnce, StreamIntegrity,
              WriteInterest, stream
<1>2. CASE /\ Write(output, output')
           /\ events' = IF output' = << >> THEN events \ {"out"} ELSE events
           /\ UNCHANGED accepted
  <2>1. /\ output' \in Seq(Units)
        /\ sent' \in Seq(Units)
        /\ room' \in 0..SndBuf
        /\ sent' \o output' = sent \o output
    BY <1>2, WriteFacts DEF Core, ConnType, ConnAssumption
  <2>2. output' # << >> => output # << >>
    BY <1>2 DEF Write, Core, ConnType
  <2>3. ConnType'
    BY <1>2, <2>1 DEF Core, ConnType
  <2>4. ClosedInv' /\ CloseOnce' /\ WriteInterest'
    BY <1>2, <2>2 DEF Core, ConnType, ClosedInv, CloseOnce, WriteInterest
  <2>5. StreamIntegrity'
    BY <1>2, <2>1 DEF Core, StreamIntegrity
  <2> QED
    BY <2>3, <2>4, <2>5 DEF Core
<1> QED
  BY <1>1, <1>2 DEF Flush

\* handleClose keeps it.
LEMMA CloseKeepsCore ==
  ASSUME Core, UNCHANGED stream, HandleClose
  PROVE  Core'
<1>1. CASE UNCHANGED conn
  BY <1>1 DEF Core, ConnType, ClosedInv, CloseOnce, StreamIntegrity,
              WriteInterest, stream, conn
<1>2. CASE /\ state # "kDisconnected"
           /\ state' = "kDisconnected"
           /\ events' = {}
           /\ closes' = closes + 1
           /\ inTable' = FALSE
  <2>1. closes = 0
    BY <1>2 DEF Core, CloseOnce
  <2>2. inTable' \in BOOLEAN /\ ~inTable'
    BY <1>2
  <2>3. ConnType'
    BY <1>2, <2>1, <2>2 DEF Core, ConnType, stream
  <2>4. CloseOnce' /\ StreamIntegrity' /\ WriteInterest'
    BY <1>2, <2>1 DEF Core, CloseOnce, StreamIntegrity, WriteInterest, stream
  <2>5. ClosedInv'
    BY <1>2, <2>2 DEF ClosedInv
  <2> QED
    BY <2>3, <2>4, <2>5 DEF Core
<1> QED
  BY <1>1, <1>2 DEF HandleClose

\* forceCloseInLoop keeps it.
LEMMA ForceCloseKeepsCore ==
  ASSUME Core, RestType, UNCHANGED stream, ForceCloseInLoop
  PROVE  Core' /\ pend' \in Seq(Functors)
<1>1. CASE /\ state = "kConnected"
           /\ state' = "kDisconnecting"
           /\ pend' = Append(pend, [op |-> "forceClose"])
           /\ UNCHANGED <<events, closes, inTable>>
  <2>1. [op |-> "forceClose"] \in Functors
    BY DEF Functors
  <2>2. pend' \in Seq(Functors)
    BY <1>1, <2>1 DEF RestType
  <2>3. Core'
    BY <1>1 DEF Core, ConnType, ClosedInv, CloseOnce, StreamIntegrity,
                WriteInterest, stream
  <2> QED
    BY <2>2, <2>3
<1>2. CASE HandleClose /\ UNCHANGED pend
  BY <1>2, CloseKeepsCore DEF RestType
<1>3. CASE UNCHANGED <<conn, pend>>
  BY <1>3 DEF Core, ConnType, ClosedInv, CloseOnce, StreamIntegrity,
              WriteInterest, stream, conn, RestType
<1> QED
  BY <1>1, <1>2, <1>3 DEF ForceCloseInLoop

-----------------------------------------------------------------------------
IInv == Core /\ RestType

\* Steps that touch neither the connection nor its stream.
LEMMA CoreUnchanged == Core /\ UNCHANGED <<conn, stream>> => Core'
  BY DEF Core, ConnType, ClosedInv, CloseOnce, StreamIntegrity, WriteInterest,
         stream, conn

\* Steps that touch nothing but the connection and its stream.
LEMMA RestUnchanged ==
  RestType /\ UNCHANGED <<wrShut, recv, loop, queue, holders, todo>> => RestType'
  BY DEF RestType, recv, loop, queue

\* Steps of the peer and its kernel.
LEMMA PeerStep == ASSUME ConnAssumption, IInv, Peer PROVE IInv'
<1>1. CASE PeerReads
  <2>1. RestType'
    BY <1>1, RestUnchanged DEF PeerReads, IInv
  <2>2. Core'
    BY <1>1 DEF PeerReads, IInv, Core, ConnType, ClosedInv, CloseOnce,
                StreamIntegrity, WriteInterest, conn, ConnAssumption
  <2> QED
    BY <2>1, <2>2 DEF IInv
<1>2. CASE PeerSends \/ PeerCloses \/ PeerResets
  <2>1. Core'
    BY <1>2, CoreUnchanged DEF PeerSends, PeerCloses, PeerResets, IInv
  <2>2. RestType'
    <3>1. CASE PeerSends
      BY <3>1 DEF PeerSends, IInv, RestType, loop, queue, ConnAssumption
    <3>2. CASE PeerCloses
      BY <3>2 DEF PeerCloses, IInv, RestType, loop, queue
    <3>3. CASE PeerResets
      BY <3>3 DEF PeerResets, IInv, RestType, loop, queue, ConnAssumption
    <3> QED
      BY <1>2, <3>1, <3>2, <3>3
  <2> QED
    BY <2>1, <2>2 DEF IInv
<1> QED
  BY <1>1, <1>2 DEF Peer

\* Calls on the loop thread.
LEMMA CallStep == ASSUME ConnAssumption, IInv, Calls PROVE IInv'
<1>1. ASSUME NEW m \in Msgs, CallSend(m)
      PROVE  IInv'
  <2>1. Core'
    BY <1>1, SendKeepsCore DEF CallSend, IInv
  <2>2. RestType'
    BY <1>1 DEF CallSend, IInv, RestType, recv, loop, queue
  <2> QED
    BY <2>1, <2>2 DEF IInv
<1>2. CASE CallShutdown
  <2>1. Core'
    BY <1>2, CoreUnchanged DEF CallShutdown, IInv
  <2>2. RestType'
    BY <1>2 DEF CallShutdown, IInv, RestType, recv, loop, queue
  <2> QED
    BY <2>1, <2>2 DEF IInv
<1>3. CASE CallForceClose
  <2>1. Core' /\ pend' \in Seq(Functors)
    BY <1>3, ForceCloseKeepsCore DEF CallForceClose, IInv
  <2>2. RestType'
    BY <1>3, <2>1 DEF CallForceClose, IInv, RestType, recv, loop
  <2> QED
    BY <2>1, <2>2 DEF IInv
<1> QED
  BY <1>1, <1>2, <1>3 DEF Calls

\* The steps of doPendingFunctors.
LEMMA FunctorStep ==
  ASSUME ConnAssumption, IInv,
         RunSend \/ RunShutdown \/ RunForceClose \/ RunCloseNow
  PROVE  IInv'
<1>0. batch # << >> => Head(batch) \in Functors /\ Tail(batch) \in Seq(Functors)
  BY DEF IInv, RestType
<1>1. CASE RunSend
  <2>1. Head(batch).msg \in Msgs
    BY <1>0, <1>1 DEF RunSend, Running, Functors
  <2>2. Core'
    BY <1>1, <2>1, SendKeepsCore DEF RunSend, IInv
  <2>3. RestType'
    BY <1>0, <1>1 DEF RunSend, Running, IInv, RestType, recv, loop
  <2> QED
    BY <2>2, <2>3 DEF IInv
<1>2. CASE RunShutdown
  <2>1. Core'
    BY <1>2, CoreUnchanged DEF RunShutdown, IInv
  <2>2. RestType'
    BY <1>0, <1>2 DEF RunShutdown, Running, IInv, RestType, recv, loop
  <2> QED
    BY <2>1, <2>2 DEF IInv
<1>3. CASE RunForceClose
  <2>1. Core' /\ pend' \in Seq(Functors)
    BY <1>3, ForceCloseKeepsCore DEF RunForceClose, IInv
  <2>2. RestType'
    BY <1>0, <1>3, <2>1 DEF RunForceClose, Running, IInv, RestType, recv, loop
  <2> QED
    BY <2>1, <2>2 DEF IInv
<1>4. CASE RunCloseNow
  <2>1. Core'
    BY <1>4, CloseKeepsCore DEF RunCloseNow, IInv
  <2>2. RestType'
    BY <1>0, <1>4 DEF RunCloseNow, Running, IInv, RestType, recv, loop
  <2> QED
    BY <2>1, <2>2 DEF IInv
<1> QED
  BY <1>1, <1>2, <1>3, <1>4

\* The other steps of the loop thread.
LEMMA DispatchStep ==
  ASSUME ConnAssumption, IInv,
         \/ EpollReturn \/ HandleEvent \/ HandleReadData \/ MessageReturns
         \/ HandleReadError \/ HandleReadEof \/ HandleWrite \/ EventReturns
         \/ SwapPending \/ EndPending
  PROVE  IInv'
<1>1. CASE HandleReadEof
  <2>1. Core'
    BY <1>1, CloseKeepsCore DEF HandleReadEof, IInv
  <2>2. RestType'
    BY <1>1 DEF HandleReadEof, Reading, IInv, RestType, recv, queue
  <2> QED
    BY <2>1, <2>2 DEF IInv
<1>2. CASE HandleWrite
  <2>1. Core'
    <3>1. CASE state = "kDisconnected" /\ UNCHANGED <<events, stream>>
      BY <1>2, <3>1, CoreUnchanged DEF HandleWrite, IInv, conn
    <3>2. CASE state # "kDisconnected" /\ Flush
      BY <1>2, <3>2, FlushKeepsCore DEF HandleWrite, IInv
    <3> QED
      BY <1>2, <3>1, <3>2 DEF HandleWrite
  <2>2. RestType'
    BY <1>2 DEF HandleWrite, IInv, RestType, recv, queue
  <2> QED
    BY <2>1, <2>2 DEF IInv
<1>3. CASE EpollReturn \/ HandleEvent \/ HandleReadData \/ MessageReturns
  <2>1. Core'
    BY <1>3, CoreUnchanged DEF EpollReturn, HandleEvent, HandleReadData,
                               MessageReturns, IInv
  <2>2. CASE EpollReturn
    <3>1. RestType'
      BY <2>2 DEF EpollReturn, Ready, IInv, RestType, recv, queue, Core,
                  ConnType
    <3> QED
      BY <2>1, <3>1 DEF IInv
  <2>3. CASE HandleEvent \/ MessageReturns
    <3>1. RestType'
      BY <2>3 DEF HandleEvent, MessageReturns, IInv, RestType, recv, queue
    <3> QED
      BY <2>1, <3>1 DEF IInv
  <2>4. CASE HandleReadData
    <3>1. RestType'
      BY <2>4 DEF HandleReadData, Reading, IInv, RestType, queue,
                  ConnAssumption
    <3> QED
      BY <2>1, <3>1 DEF IInv
  <2> QED
    BY <1>3, <2>2, <2>3, <2>4
<1>4. CASE HandleReadError \/ EventReturns \/ SwapPending \/ EndPending
  <2>1. Core'
    BY <1>4, CoreUnchanged DEF HandleReadError, EventReturns, SwapPending,
                               EndPending, IInv
  <2>2. RestType'
    <3>1. CASE HandleReadError
      BY <3>1 DEF HandleReadError, Reading, IInv, RestType, queue
    <3>2. CASE EventReturns
      BY <3>2 DEF EventReturns, IInv, RestType, recv, queue
    <3>3. CASE SwapPending
      <4>1. held' \in BOOLEAN
        BY <3>3, Zenon DEF SwapPending
      <4> QED
        BY <3>3, <4>1 DEF SwapPending, IInv, RestType, recv
    <3>4. CASE EndPending
      BY <3>4 DEF EndPending, IInv, RestType, recv
    <3> QED
      BY <1>4, <3>1, <3>2, <3>3, <3>4
  <2> QED
    BY <2>1, <2>2 DEF IInv
<1> QED
  BY <1>1, <1>2, <1>3, <1>4

\* Steps of the other threads.
LEMMA OtherStep == ASSUME IInv, NEW th \in Threads, Other(th) PROVE IInv'
<1>1. Core'
  BY CoreUnchanged DEF Other, Snapshot, Release, Post, IInv
<1>2. RestType'
  <2>1. CASE Snapshot(th) \/ Release(th)
    BY <2>1 DEF Snapshot, Release, IInv, RestType, recv, loop, queue
  <2>2. ASSUME NEW f \in Functors, Post(th, f)
        PROVE  RestType'
    BY <2>2 DEF Post, IInv, RestType, recv, loop
  <2> QED
    BY <2>1, <2>2 DEF Other
<1> QED
  BY <1>1, <1>2 DEF IInv

\* The inductive invariant of the connection.
THEOREM Invariant == Spec => []IInv
<1> USE ConnAssumption
<1>1. Init => IInv
  <2> SUFFICES ASSUME Init
               PROVE  IInv
    OBVIOUS
  <2>1. << >> \in Seq(Units) /\ << >> \in Seq(Functors)
    OBVIOUS
  <2>2. ConnType
    BY <2>1 DEF Init, ConnType, ConnAssumption
  <2>3. RestType
    <3>1. /\ wrShut \in BOOLEAN /\ eof \in BOOLEAN /\ rst \in BOOLEAN
          /\ rdErr \in BOOLEAN /\ held \in BOOLEAN
      BY DEF Init
    <3>2. inbox \in 0..MaxInbox /\ phase = "run"
      BY DEF Init, ConnAssumption
    <3>3. revents = {} /\ holders = {} /\ todo = Msgs
      BY DEF Init
    <3>4. pend \in Seq(Functors) /\ batch \in Seq(Functors)
      BY <2>1 DEF Init
    <3> QED
      BY <3>1, <3>2, <3>3, <3>4 DEF RestType
  <2>4. ClosedInv /\ CloseOnce /\ WriteInterest
    BY DEF Init, ClosedInv, CloseOnce, WriteInterest
  <2>5. StreamIntegrity
    BY DEF Init, StreamIntegrity
  <2> QED
    BY <2>2, <2>3, <2>4, <2>5 DEF IInv, Core
<1>2. IInv /\ [Next]_vars => IInv'
  <2>1. IInv /\ UNCHANGED vars => IInv'
    BY CoreUnchanged, RestUnchanged DEF IInv, vars
  <2> QED
    BY <2>1, PeerStep, CallStep, FunctorStep, DispatchStep, OtherStep
       DEF Next, Loop
<1> QED
  BY <1>1, <1>2, PTL DEF Spec

\* The bytes the kernel gets are exactly those sendInLoop took over, in order,
\* whatever the mix of direct writes, buffered data and partial writes.
THEOREM StreamNeverCorrupted == Spec => []StreamIntegrity
<1>1. IInv => StreamIntegrity
  BY DEF IInv, Core
<1> QED
  BY <1>1, Invariant, PTL

\* EPOLLOUT is subscribed exactly while data is buffered.
THEOREM WriteInterestHolds == Spec => []WriteInterest
<1>1. IInv => WriteInterest
  BY DEF IInv, Core
<1> QED
  BY <1>1, Invariant, PTL

-----------------------------------------------------------------------------
\* How the callbacks queued in a vector change.
LEMMA QueuedFacts ==
  ASSUME NEW fs \in Seq(Functors)
  PROVE  /\ \A f \in Functors : CloseQueued(fs) => CloseQueued(Append(fs, f))
         /\ CloseQueued(Append(fs, [op |-> "forceClose"]))
         /\ fs # << >> /\ Head(fs).op # "forceClose" /\ CloseQueued(fs)
              => CloseQueued(Tail(fs))
         /\ ~CloseQueued(<< >>)
<1>1. ASSUME NEW f \in Functors, CloseQueued(fs) PROVE CloseQueued(Append(fs, f))
  BY <1>1 DEF CloseQueued
<1>2. CloseQueued(Append(fs, [op |-> "forceClose"]))
  <2>1. [op |-> "forceClose"] \in Functors
    BY DEF Functors
  <2>2. PICK g \in Functors : g = [op |-> "forceClose"] /\ g.op = "forceClose"
    BY <2>1
  <2>3. Len(Append(fs, g)) \in 1..Len(Append(fs, g)) /\ Append(fs, g)[Len(Append(fs, g))] = g
    BY <2>2
  <2> QED
    BY <2>2, <2>3 DEF CloseQueued
<1>3. ASSUME fs # << >>, Head(fs).op # "forceClose", CloseQueued(fs)
      PROVE  CloseQueued(Tail(fs))
  <2>1. PICK i \in 1..Len(fs) : fs[i].op = "forceClose"
    BY <1>3 DEF CloseQueued
  <2>2. i # 1
    BY <1>3, <2>1
  <2>3. i - 1 \in 1..Len(Tail(fs)) /\ Tail(fs)[i - 1] = fs[i]
    BY <1>3, <2>2
  <2> QED
    BY <2>1, <2>3 DEF CloseQueued
<1>4. ~CloseQueued(<< >>)
  BY DEF CloseQueued
<1> QED
  BY <1>1, <1>2, <1>3, <1>4

\* Every step keeps the order of a turn.
LEMMA TurnStep ==
  ASSUME IInv, TurnInv, [Next]_vars
  PROVE  TurnInv'
<1>1. /\ pend \in Seq(Functors) /\ batch \in Seq(Functors)
      /\ state \in {"kConnected", "kDisconnecting", "kDisconnected"}
      /\ state = "kDisconnected" => events = {}
  BY DEF IInv, Core, ConnType, RestType, ClosedInv
<1>2. CASE UNCHANGED <<state, phase, revents, pend, batch>>
  BY <1>2 DEF TurnInv, CloseQueued
<1>3. CASE EpollReturn
  BY <1>1, <1>3 DEF EpollReturn, Ready, TurnInv, CloseQueued, conn, queue
<1>4. CASE HandleEvent \/ HandleReadData \/ MessageReturns \/ HandleReadError \/ EventReturns
  BY <1>4 DEF HandleEvent, HandleReadData, MessageReturns, HandleReadError, EventReturns,
              Reading, TurnInv, CloseQueued, conn, queue
<1>5. CASE HandleReadEof
  BY <1>5 DEF HandleReadEof, Reading, HandleClose, TurnInv, CloseQueued, conn, queue
<1>6. CASE HandleWrite
  BY <1>6 DEF HandleWrite, TurnInv, CloseQueued, queue
<1>7. CASE SwapPending
  BY <1>1, <1>7, QueuedFacts DEF SwapPending, TurnInv, conn
<1>8. CASE EndPending
  BY <1>8 DEF EndPending, TurnInv, CloseQueued, conn
<1>9. ASSUME ForceCloseInLoop, UNCHANGED loop,
             \/ UNCHANGED batch
             \/ phase = "run" /\ batch # << >> /\ batch' = Tail(batch)
                  /\ Head(batch).op = "forceClose"
      PROVE  TurnInv'
  <2>1. CASE /\ state = "kConnected" /\ state' = "kDisconnecting"
             /\ pend' = Append(pend, [op |-> "forceClose"])
    <3>1. CloseQueued(pend')
      BY <1>1, <2>1, QueuedFacts
    <3> QED
      BY <1>9, <2>1, <3>1 DEF TurnInv, loop
  <2>2. CASE state = "kDisconnecting" /\ HandleClose /\ UNCHANGED pend
    <3>1. state' = "kDisconnected"
      BY <2>2 DEF HandleClose
    <3>2. phase # "run" => CloseQueued(pend)
      BY <1>1, <2>2, QueuedFacts DEF TurnInv
    <3> QED
      BY <1>9, <2>2, <3>1, <3>2 DEF TurnInv, loop, CloseQueued
  <2>3. CASE state = "kDisconnected" /\ UNCHANGED <<conn, pend>>
    BY <1>9, <2>3 DEF TurnInv, loop, conn, CloseQueued
  <2> QED
    BY <1>9, <2>1, <2>2, <2>3 DEF ForceCloseInLoop
<1>10. CASE CallForceClose \/ RunForceClose
  BY <1>9, <1>10 DEF CallForceClose, RunForceClose, Running
<1>11. CASE RunSend \/ RunShutdown
  <2>1. /\ phase = "run" /\ batch # << >> /\ Head(batch).op # "forceClose"
        /\ batch' = Tail(batch) /\ UNCHANGED <<loop, state, pend>>
    BY <1>11 DEF RunSend, RunShutdown, Running, conn
  <2>2. CloseQueued(batch) => CloseQueued(batch')
    BY <1>1, <2>1, QueuedFacts
  <2> QED
    BY <2>1, <2>2 DEF TurnInv, loop, CloseQueued
<1>12. CASE RunCloseNow
  BY <1>12 DEF RunCloseNow, Running, HandleClose, TurnInv, loop, conn, CloseQueued
<1>13. ASSUME NEW th \in Threads, NEW f \in Functors, Post(th, f)
       PROVE  TurnInv'
  <2>1. CloseQueued(pend) => CloseQueued(pend')
    BY <1>1, <1>13, QueuedFacts DEF Post
  <2> QED
    BY <1>13, <2>1 DEF Post, TurnInv, conn, loop, CloseQueued
<1>14. CASE Peer \/ CallShutdown \/ (\E m \in Msgs : CallSend(m))
            \/ (\E th \in Threads : Snapshot(th) \/ Release(th)) \/ UNCHANGED vars
  BY <1>2, <1>14 DEF Peer, PeerReads, PeerSends, PeerCloses, PeerResets, CallShutdown, CallSend,
                     Snapshot, Release, vars, conn, loop, queue
<1> QED
  BY <1>3, <1>4, <1>5, <1>6, <1>7, <1>8, <1>10, <1>11, <1>12, <1>13, <1>14
     DEF Next, Calls, Loop, Other

\* The turns of the loop, for any traffic and any callbacks.
THEOREM TurnsInOrder == Spec => []TurnInv
<1>1. Init => TurnInv
  BY DEF Init, TurnInv, CloseQueued
<1>2. IInv /\ TurnInv /\ [Next]_vars => TurnInv'
  BY TurnStep
<1> QED
  BY <1>1, <1>2, Invariant, PTL DEF Spec

\* Types, one close callback per connection, its erase with the close, and the
\* order of a turn.
THEOREM ClosesOnce == Spec => []ConnInv
<1>1. IInv /\ TurnInv => ConnInv
  BY DEF IInv, Core, ConnInv, TypeOK, ConnType, RestType
<1> QED
  BY <1>1, Invariant, TurnsInOrder, PTL

\* An action property: handleRead hands no data to messageCallback_ after
\* closeCallback_, whatever is posted, read or reset in between, except in the
\* turn in which a second forceClose() overtook the queued stage of the first.
THEOREM MessagesStopAtClose == Spec => NoMessageAfterClose
<1>1. TurnInv /\ [Next]_vars =>
        [phase # "message" /\ phase' = "message" =>
           \/ state # "kDisconnected"
           \/ CloseQueued(pend)]_vars
  <2> SUFFICES ASSUME TurnInv, Next, phase # "message", phase' = "message"
               PROVE  state # "kDisconnected" \/ CloseQueued(pend)
    OBVIOUS
  <2>1. HandleReadData
    BY DEF Next, Peer, PeerReads, PeerSends, PeerCloses, PeerResets, Calls, CallShutdown,
           CallForceClose, CallSend, Loop, EpollReturn, HandleEvent, MessageReturns,
           HandleReadError, HandleReadEof, HandleWrite, EventReturns, SwapPending, RunSend,
           RunShutdown, RunForceClose, RunCloseNow, Running, EndPending, Other, Snapshot,
           Release, Post, loop
  <2> QED
    BY <2>1 DEF HandleReadData, Reading, TurnInv
<1> QED
  BY <1>1, TurnsInOrder, PTL DEF Spec, NoMessageAfterClose

\* ~TcpConnection never finds a subscribed event, so ~Channel never touches
\* the EventLoop of a connection that lost its last shared_ptr.
THEOREM DestroyedUnsubscribed == Spec => []NoneEventAtDestruction
<1>1. IInv => NoneEventAtDestruction
  BY DEF IInv, Core, ClosedInv, NoneEventAtDestruction, Alive
<1> QED
  BY <1>1, Invariant, PTL
=============================================================================
