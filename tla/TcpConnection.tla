--------------------------- MODULE TcpConnection ---------------------------
(***************************************************************************)
(* reactor/TcpConnection with its Channel, its entry in Server's table, the *)
(* kernel socket below it and the loop thread that dispatches its events   *)
(* and callbacks.  Other threads reach it through a shared_ptr from        *)
(* getAllConnections() and only post callbacks.                            *)
(*                                                                         *)
(* Data is a sequence of units <<m, i>>, the i-th part of message m.  The  *)
(* kernel's send buffer is its free room.  What the rest of the loop does  *)
(* is reduced to the moments at which it may call this connection.         *)
(***************************************************************************)
EXTENDS Integers, Sequences, FiniteSets

CONSTANTS
  Msgs,                   \* messages; each is handed to send() at most once
  MsgLen,                 \* units per message
  SndBuf,                 \* units the kernel's send buffer can hold
  Threads,                \* threads other than the loop's
  LoopCalls,              \* what handlers and callbacks on the loop thread
                          \* call: a subset of {"send","shutdown","forceClose"}
  MaxPend,                \* bound: callbacks of this connection in the queue
  MaxInbox                \* bound: reads' worth of received data

ASSUME ConnAssumption ==
  /\ MsgLen \in Nat \ {0}
  /\ SndBuf \in Nat \ {0}
  /\ LoopCalls \subseteq {"send", "shutdown", "forceClose"}
  /\ MaxPend \in Nat /\ MaxInbox \in Nat

VARIABLES
  \* TcpConnection and Channel
  state,                  \* state_
  events,                 \* Channel::events_, "in" and "out"
  output,                 \* output_buffer_: units not yet written
  inTable,                \* Server::connections_ holds a shared_ptr
  \* kernel socket and peer
  room,                   \* free units in the send buffer
  wrShut,                 \* shutdown(SHUT_WR) was called
  inbox,                  \* reads' worth of data not yet read
  eof,                    \* the peer has closed: read() returns 0 after inbox
  rst,                    \* the peer has reset: writes fail
  rdErr,                  \* the next read() reports the reset
  \* loop thread
  phase,                  \* "poll", "batch": other handlers of this epoll
                          \* batch, "event": in Channel::handleEvent,
                          \* "message": in messageCallback_, "run": in
                          \* doPendingFunctors
  revents,                \* Channel::revents_ still to handle
  pend,                   \* this connection's callbacks in pendingFunctors_
  batch,                  \* its callbacks still to run in the current batch
  held,                   \* the batch vector holds a shared_ptr
  \* other threads
  holders,                \* threads holding a shared_ptr
  \* history
  todo,                   \* messages not yet handed to send()
  accepted,               \* units sendInLoop took over
  sent,                   \* units the kernel took over
  closes                  \* calls of closeCallback_

conn == <<state, events, inTable, closes>>
stream == <<output, room, accepted, sent>>
recv == <<inbox, eof, rst, rdErr>>
loop == <<phase, revents>>
queue == <<pend, batch, held>>
vars == <<conn, stream, wrShut, recv, loop, queue, holders, todo>>

Units == Msgs \X (1..MsgLen)
Functors == [op : {"send"}, msg : Msgs]
              \cup [op : {"shutdown", "forceClose", "closeNow"}]

TypeOK ==
  /\ state \in {"kConnected", "kDisconnecting", "kDisconnected"}
  /\ events \subseteq {"in", "out"}
  /\ output \in Seq(Units)
  /\ inTable \in BOOLEAN
  /\ room \in 0..SndBuf
  /\ wrShut \in BOOLEAN
  /\ inbox \in 0..MaxInbox
  /\ eof \in BOOLEAN
  /\ rst \in BOOLEAN
  /\ rdErr \in BOOLEAN
  /\ phase \in {"poll", "batch", "event", "message", "run"}
  /\ revents \subseteq {"in", "out"}
  /\ pend \in Seq(Functors)
  /\ batch \in Seq(Functors)
  /\ held \in BOOLEAN
  /\ holders \subseteq Threads
  /\ todo \subseteq Msgs
  /\ accepted \in Seq(Units)
  /\ sent \in Seq(Units)
  /\ closes \in Nat

\* A connection as onNewConnection leaves it: registered for reading, in the
\* table, its connection callback still to come (the current callback batch).
Init ==
  /\ state = "kConnected"
  /\ events = {"in"}
  /\ output = << >>
  /\ inTable = TRUE
  /\ room = SndBuf
  /\ wrShut = FALSE
  /\ inbox = 0
  /\ eof = FALSE
  /\ rst = FALSE
  /\ rdErr = FALSE
  /\ phase = "run"
  /\ revents = {}
  /\ pend = << >>
  /\ batch = << >>
  /\ held = FALSE
  /\ holders = {}
  /\ todo = Msgs
  /\ accepted = << >>
  /\ sent = << >>
  /\ closes = 0

\* Some shared_ptr to the connection exists; otherwise it is destroyed.
Alive == inTable \/ held \/ holders # {} \/ pend # << >>

-----------------------------------------------------------------------------
\* The kernel below and the peer.

PeerReads ==
  /\ ~rst
  /\ room < SndBuf
  /\ room' = room + 1
  /\ UNCHANGED <<conn, output, accepted, sent, wrShut, recv, loop, queue,
                 holders, todo>>

PeerSends ==
  /\ ~eof
  /\ inbox < MaxInbox
  /\ inbox' = inbox + 1
  /\ UNCHANGED <<conn, stream, wrShut, eof, rst, rdErr, loop, queue, holders,
                 todo>>

PeerCloses ==
  /\ ~eof
  /\ eof' = TRUE
  /\ UNCHANGED <<conn, stream, wrShut, inbox, rst, rdErr, loop, queue, holders,
                 todo>>

\* A reset discards what was received; the next read fails, later ones see
\* the end of the stream.
PeerResets ==
  /\ ~rst
  /\ rst' = TRUE
  /\ eof' = TRUE
  /\ rdErr' = TRUE
  /\ inbox' = 0
  /\ UNCHANGED <<conn, stream, wrShut, loop, queue, holders, todo>>

\* What epoll reports for the subscribed events.
Ready == {e \in events : \/ e = "in" /\ (inbox > 0 \/ eof)
                         \/ e = "out" /\ (room > 0 \/ wrShut \/ rst)}

\* write() fails, or takes some of n units.
WriteFails == wrShut \/ rst
Written(n) ==
  IF room = 0 \/ n = 0 THEN {0} ELSE 1..(IF n < room THEN n ELSE room)

\* write(connfd_, data): the kernel takes a prefix, the rest is what remains.
Write(data, rest) ==
  \E n \in Written(Len(data)) :
    /\ sent' = sent \o SubSeq(data, 1, n)
    /\ rest = SubSeq(data, n + 1, Len(data))
    /\ room' = room - n

-----------------------------------------------------------------------------
\* The member functions that run on the loop thread.

MessageUnits(m) == [i \in 1..MsgLen |-> <<m, i>>]

\* Data is already buffered: queue behind it.
BufferSend(m) ==
  /\ output' = output \o MessageUnits(m)
  /\ events' = events \cup {"out"}
  /\ accepted' = accepted \o MessageUnits(m)
  /\ UNCHANGED <<room, sent>>

\* Nothing is buffered: write, buffer what remains, subscribe EPOLLOUT for it.
\* A message whose write fails is dropped.
DirectSend(m) ==
  IF WriteFails
    THEN UNCHANGED <<events, stream>>
    ELSE /\ Write(MessageUnits(m), output')
         /\ events' = IF output' = << >> THEN events ELSE events \cup {"out"}
         /\ accepted' = accepted \o MessageUnits(m)

MutantSendAfterClose(m) ==
  IF output = << >> THEN DirectSend(m) ELSE BufferSend(m)

MutantSendOvertakes(m) ==
  IF state = "kDisconnected" THEN UNCHANGED <<events, stream>>
                             ELSE DirectSend(m)

\* sendInLoop refuses data once the connection is closed.
SendInLoop(m) ==
  \/ state = "kDisconnected" /\ UNCHANGED <<events, stream>>
  \/ state # "kDisconnected" /\ output = << >> /\ DirectSend(m)
  \/ state # "kDisconnected" /\ output # << >> /\ BufferSend(m)

MutantHandleCloseAgain ==
  /\ state' = "kDisconnected"
  /\ events' = {}
  /\ closes' = closes + 1
  /\ inTable' = FALSE

MutantHandleCloseStaysSubscribed ==
  \/ state = "kDisconnected" /\ UNCHANGED conn
  \/ /\ state # "kDisconnected"
     /\ state' = "kDisconnected"
     /\ closes' = closes + 1
     /\ inTable' = FALSE
     /\ UNCHANGED events

\* handleClose: idempotent; disableAll, then closeCallback_, which is
\* Server::onCloseConnection: the application's callback, then the erase.
HandleClose ==
  \/ state = "kDisconnected" /\ UNCHANGED conn
  \/ /\ state # "kDisconnected"
     /\ state' = "kDisconnected"
     /\ events' = {}
     /\ closes' = closes + 1
     /\ inTable' = FALSE

MutantForceCloseForgets ==
  \/ /\ state = "kConnected"
     /\ state' = "kDisconnecting"
     /\ UNCHANGED <<events, closes, inTable, pend>>
  \/ state # "kConnected" /\ HandleClose /\ UNCHANGED pend

\* forceCloseInLoop: mark and queue a second call, which closes.
ForceCloseInLoop ==
  \/ /\ state = "kConnected"
     /\ state' = "kDisconnecting"
     /\ pend' = Append(pend, [op |-> "forceClose"])
     /\ UNCHANGED <<events, closes, inTable>>
  \/ state = "kDisconnecting" /\ HandleClose /\ UNCHANGED pend
  \/ state = "kDisconnected" /\ UNCHANGED <<conn, pend>>

-----------------------------------------------------------------------------
\* Calls from handlers and callbacks on the loop thread: those of other
\* connections, which find this one in the table, and its own messageCallback_.
OnLoop(op) ==
  /\ phase = "message" \/ (phase \in {"batch", "run"} /\ inTable)
  /\ op \in LoopCalls

CallSend(m) ==
  /\ OnLoop("send")
  /\ m \in todo
  /\ SendInLoop(m)
  /\ todo' = todo \ {m}
  /\ UNCHANGED <<state, inTable, closes, wrShut, recv, loop, queue, holders>>

CallShutdown ==
  /\ OnLoop("shutdown")
  /\ wrShut' = TRUE
  /\ UNCHANGED <<conn, stream, recv, loop, queue, holders, todo>>

CallForceClose ==
  /\ OnLoop("forceClose")
  /\ Len(pend) < MaxPend
  /\ ForceCloseInLoop
  /\ UNCHANGED <<stream, wrShut, recv, loop, batch, held, holders, todo>>

-----------------------------------------------------------------------------
\* The loop thread.

\* epoll_wait returns, for this connection and/or for others.
EpollReturn ==
  /\ phase = "poll"
  /\ phase' = "batch"
  /\ revents' = Ready
  /\ UNCHANGED <<conn, stream, wrShut, recv, queue, holders, todo>>

\* Channel::handleEvent of this connection; an error event is only logged.
HandleEvent ==
  /\ phase = "batch"
  /\ revents # {}
  /\ phase' = "event"
  /\ UNCHANGED <<conn, stream, wrShut, recv, revents, queue, holders, todo>>

\* handleEvent calls readCallback_.
Reading ==
  /\ phase = "event"
  /\ "in" \in revents
  /\ revents' = revents \ {"in"}

\* handleRead with data: messageCallback_ is called.  One readv need not
\* take everything.
HandleReadData ==
  /\ Reading
  /\ inbox > 0
  /\ inbox' \in 0..(inbox - 1)
  /\ phase' = "message"
  /\ UNCHANGED <<conn, stream, wrShut, eof, rst, rdErr, queue, holders, todo>>

MessageReturns ==
  /\ phase = "message"
  /\ phase' = "event"
  /\ UNCHANGED <<conn, stream, wrShut, recv, revents, queue, holders, todo>>

\* handleRead on an error: handleError only logs.
HandleReadError ==
  /\ Reading
  /\ rdErr
  /\ rdErr' = FALSE
  /\ UNCHANGED <<conn, stream, wrShut, inbox, eof, rst, phase, queue, holders,
                 todo>>

\* handleRead at the end of the stream: handleClose inside handleEvent.
HandleReadEof ==
  /\ Reading
  /\ inbox = 0
  /\ ~rdErr
  /\ HandleClose
  /\ UNCHANGED <<stream, wrShut, recv, phase, queue, holders, todo>>

MutantFlushKeepsWatching ==
  /\ Write(output, output')
  /\ UNCHANGED <<events, accepted>>

MutantFlushOnce ==
  /\ Write(output, output')
  /\ events' = events \ {"out"}
  /\ UNCHANGED accepted

\* handleWrite on an open connection: EPOLLOUT is unsubscribed once nothing
\* is left; an error is only logged.
Flush ==
  IF WriteFails
    THEN UNCHANGED <<events, stream>>
    ELSE /\ Write(output, output')
         /\ events' = IF output' = << >> THEN events \ {"out"} ELSE events
         /\ UNCHANGED accepted

\* handleWrite, called by handleEvent after the read callback.
HandleWrite ==
  /\ phase = "event"
  /\ revents = {"out"}
  /\ Alive
  /\ revents' = {}
  /\ \/ state = "kDisconnected" /\ UNCHANGED <<events, stream>>
     \/ state # "kDisconnected" /\ Flush
  /\ UNCHANGED <<state, inTable, closes, wrShut, recv, phase, queue, holders,
                 todo>>

\* handleEvent returns (past a destroyed Channel too: see NoStackDestruction).
EventReturns ==
  /\ phase = "event"
  /\ revents = {} \/ ~Alive
  /\ phase' = "batch"
  /\ revents' = {}
  /\ UNCHANGED <<conn, stream, wrShut, recv, queue, holders, todo>>

\* End of the dispatch; doPendingFunctors swaps the queue.
SwapPending ==
  /\ phase = "batch"
  /\ revents = {}
  /\ phase' = "run"
  /\ batch' = pend
  /\ held' = (pend # << >>)
  /\ pend' = << >>
  /\ UNCHANGED <<conn, stream, wrShut, recv, revents, holders, todo>>

\* The next callback of the batch is one posted by op.
Running(op) ==
  /\ phase = "run"
  /\ batch # << >>
  /\ Head(batch).op = op
  /\ batch' = Tail(batch)
  /\ UNCHANGED <<recv, loop, held, holders, todo>>

RunSend ==
  /\ Running("send")
  /\ SendInLoop(Head(batch).msg)
  /\ UNCHANGED <<state, inTable, closes, wrShut, pend>>

RunShutdown ==
  /\ Running("shutdown")
  /\ wrShut' = TRUE
  /\ UNCHANGED <<conn, stream, pend>>

RunForceClose ==
  /\ Running("forceClose")
  /\ ForceCloseInLoop
  /\ UNCHANGED <<stream, wrShut>>

RunCloseNow ==
  /\ Running("closeNow")
  /\ HandleClose
  /\ UNCHANGED <<stream, wrShut, pend>>

\* doPendingFunctors returns and destroys the batch vector.
EndPending ==
  /\ phase = "run"
  /\ batch = << >>
  /\ held' = FALSE
  /\ phase' = "poll"
  /\ UNCHANGED <<conn, stream, wrShut, recv, revents, pend, batch, holders,
                 todo>>

-----------------------------------------------------------------------------
\* Other threads.

\* getAllConnections() under connectionsMutex_.
Snapshot(th) ==
  /\ inTable
  /\ holders' = holders \cup {th}
  /\ UNCHANGED <<conn, stream, wrShut, recv, loop, queue, todo>>

\* send(), shutdown(), forceClose() or closeNow() off the loop thread.
Post(th, f) ==
  /\ th \in holders
  /\ Len(pend) < MaxPend
  /\ f.op = "send" => f.msg \in todo
  /\ pend' = Append(pend, f)
  /\ todo' = IF f.op = "send" THEN todo \ {f.msg} ELSE todo
  /\ UNCHANGED <<conn, stream, wrShut, recv, loop, batch, held, holders>>

\* The snapshot goes out of scope.
Release(th) ==
  /\ th \in holders
  /\ holders' = holders \ {th}
  /\ UNCHANGED <<conn, stream, wrShut, recv, loop, queue, todo>>

-----------------------------------------------------------------------------
Peer == PeerReads \/ PeerSends \/ PeerCloses \/ PeerResets

Calls == CallShutdown \/ CallForceClose \/ \E m \in Msgs : CallSend(m)

Loop ==
  \/ EpollReturn
  \/ HandleEvent
  \/ HandleReadData
  \/ MessageReturns
  \/ HandleReadError
  \/ HandleReadEof
  \/ HandleWrite
  \/ EventReturns
  \/ SwapPending
  \/ RunSend
  \/ RunShutdown
  \/ RunForceClose
  \/ RunCloseNow
  \/ EndPending

Other(th) == Snapshot(th) \/ Release(th) \/ \E f \in Functors : Post(th, f)

Next == Peer \/ Calls \/ Loop \/ \E th \in Threads : Other(th)

Spec == Init /\ [][Next]_vars

\* The loop keeps turning.  DrainingPeer adds that the peer's kernel keeps
\* acknowledging what it was sent.
Fairness == WF_vars(Loop)
DrainingPeer == WF_vars(PeerReads)

FairSpec == Spec /\ Fairness /\ DrainingPeer

-----------------------------------------------------------------------------
\* No unit that sendInLoop took over is lost, duplicated or reordered between
\* the direct write, the output buffer and handleWrite.
StreamIntegrity == sent \o output = accepted

\* EPOLLOUT is subscribed exactly while data is buffered: otherwise the level-
\* triggered loop spins, or the buffered data is never written.
WriteInterest ==
  state # "kDisconnected" => ("out" \in events <=> output # << >>)

\* The close callback (and with it the erase of connections_[fd], a key that
\* may belong to another connection by then) happens once, with the close.
CloseOnce == closes = (IF state = "kDisconnected" THEN 1 ELSE 0)

\* "The key invariant" of ~TcpConnection: a destroyed connection has no
\* subscribed event, so that ~Channel does not touch the EventLoop.
NoneEventAtDestruction == ~Alive => events = {}

\* A connection leaves the table only when it is closed, and no closed
\* connection keeps an event subscribed.
ClosedInv == (state = "kDisconnected" <=> ~inTable)
             /\ (state = "kDisconnected" => events = {})

\* A second stage of forceClose is among these callbacks.
CloseQueued(fs) == \E i \in 1..Len(fs) : fs[i].op = "forceClose"

\* A turn of the loop: events and callbacks are left over from no earlier turn,
\* a marked connection has its second stage queued, and a closed one has a read
\* event to come only if that stage was overtaken.
TurnInv ==
  /\ phase # "run" => batch = << >>
  /\ phase \in {"poll", "run"} => revents = {}
  /\ phase = "message" => "in" \notin revents
  /\ state = "kDisconnecting" => CloseQueued(pend) \/ CloseQueued(batch)
  /\ state = "kDisconnected" /\ "in" \in revents => CloseQueued(pend)

\* The inductive invariant behind NoneEventAtDestruction, CloseOnce and
\* NoMessageAfterClose.
ConnInv == TypeOK /\ ClosedInv /\ CloseOnce /\ TurnInv

\* messageCallback_ is not called once closeCallback_ was, unless a second
\* forceClose() from a handler overtook the queued second stage of the first
\* while an event of this turn was still to be dispatched.
NoMessageAfterClose ==
  [][phase # "message" /\ phase' = "message" =>
       \/ state # "kDisconnected"
       \/ CloseQueued(pend)]_vars

\* A force-closed connection is closed by the loop.
ForceCloseCompletes == state = "kDisconnecting" ~> state = "kDisconnected"

\* Buffered data reaches the kernel unless the connection is closed, reset or
\* shut down first.
BufferedIsSent ==
  output # << >> ~> (output = << >> \/ WriteFails \/ state = "kDisconnected")

-----------------------------------------------------------------------------
\* What the documents say and the code does not do.

\* README.md: "no dangling and no destruction inside the stack".
NoStackDestruction == phase \in {"event", "message"} => Alive
=============================================================================
