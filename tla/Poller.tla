------------------------------- MODULE Poller -------------------------------
(* The poller half of an EventLoop: updateChannel, removeChannel and the      *)
(* dispatch of epoll events, with the users of the loop it depends on: the    *)
(* eventfd's and the timerfd's channel, the Acceptor, and the connections of  *)
(* a server without sub reactors (threadNum_ = 0), which live on the loop     *)
(* that accepts them.  channels_ is the loop's own record of what it has      *)
(* registered; it is keyed by descriptor, the kernel closes a registration    *)
(* with its descriptor and hands the lowest free descriptor out again.        *)
EXTENDS Integers, FiniteSets, FiniteSetsExt

CONSTANTS
  Conns,                  \* addresses of TcpConnection objects
  MaxFd,                  \* the process may open the descriptors 1..MaxFd
  InitEvents,             \* kInitEventListSize
  MaxBacklog,             \* bound: clients waiting to be accepted
  Null                    \* no channel, no registration

Fds == 1..MaxFd
Channels == {"wakeup", "timer", "acceptor"} \cup Conns
Registration == Channels \X SUBSET {"in", "out"}

\* Three descriptors are the loop's and the acceptor's own.
ASSUME PollerAssumption ==
  /\ MaxFd \in Nat /\ MaxFd > 3
  /\ Cardinality(Conns) >= MaxFd - 3
  /\ InitEvents \in Nat \ {0}
  /\ MaxBacklog \in Nat
  /\ Conns \cap {"wakeup", "timer", "acceptor"} = {}
  /\ Null \notin Channels /\ Null \notin Registration

VARIABLES
  place,                  \* where the loop's thread is
  fdOf,                   \* Channel::fd_, 0 for an object that does not exist
  events,                 \* Channel::events_
  channels,               \* EventLoop::channels_
  interest,               \* kernel: the interest list of epfd_
  batch,                  \* what epoll_wait returned and is not yet dispatched
  full,                   \* nfds == events_.size()
  capacity,               \* events_.size()
  state,                  \* TcpConnection::state_, "none" without an object
  input,                  \* kernel: what a connection's socket holds to read
  handling,               \* the connection whose event is handled, and revents_
  queue,                  \* connections with a queued second forceClose stage
  todo,                   \* those doPendingFunctors has still to call
  listening,              \* Acceptor::listening_
  backlog,                \* kernel: clients waiting to be accepted
  others,                 \* descriptors other threads have open
  refused                 \* history: listen() or an EPOLL_CTL_ADD has failed

tables == <<events, channels, interest, refused>>
turn == <<batch, full, capacity>>
conns == <<fdOf, state, input>>
net == <<listening, backlog, others>>
vars == <<place, tables, turn, conns, handling, queue, todo, net>>

Idle == <<Null, {}>>

\* Every descriptor in use, and the one the kernel hands out next.
Open == {fdOf[ch] : ch \in Channels} \cup others
Free == Fds \ Open
NextFd == Min(Free)

-----------------------------------------------------------------------------
TypeOK ==
  /\ place \in {"start", "poll", "dispatch", "event", "message", "accept",
                "heartbeat", "pending", "close", "acceptor", "timer", "wakeup", "gone"}
  /\ fdOf \in [Channels -> 0..MaxFd]
  /\ events \in [Channels -> SUBSET {"in", "out"}]
  /\ channels \in [Fds -> Channels \cup {Null}]
  /\ interest \in [Fds -> Registration \cup {Null}]
  /\ batch \subseteq Channels \X {"in", "out"}
  /\ capacity \in Nat
  /\ state \in [Conns -> {"none", "kConnected", "kDisconnecting", "kDisconnected"}]
  /\ input \in [Conns -> {"none", "data", "eof"}]
  /\ handling \in (Conns \cup {Null}) \X SUBSET {"in", "out"}
  /\ todo \subseteq queue /\ queue \subseteq Conns
  /\ backlog \in 0..MaxBacklog
  /\ others \subseteq Fds
  /\ {full, listening, refused} \subseteq BOOLEAN

-----------------------------------------------------------------------------
MutantUpdated(ch, fd, E) ==
  IF channels[fd] = Null
  THEN {[channels |-> [channels EXCEPT ![fd] = ch],
         interest |-> [interest EXCEPT ![fd] = <<ch, E>>], refused |-> refused]}
  ELSE {[channels |-> channels,
         interest |-> [interest EXCEPT ![fd] = IF E = {} THEN Null ELSE <<ch, E>>],
         refused |-> refused]}

\* updateChannel(ch) with fd_ = fd and events_ = E: every outcome, as the new channels_,
\* interest list and whether the kernel has refused something.  MOD and DEL of
\* a descriptor that is not registered fail; so may any ADD.
Updated(ch, fd, E) ==
  LET Outcome(map, list, no) ==
        [channels |-> map, interest |-> list, refused |-> no]
  IN  IF channels[fd] = Null
      THEN {Outcome(channels, interest, TRUE)}
           \cup (IF interest[fd] # Null THEN {}
                 ELSE {Outcome([channels EXCEPT ![fd] = ch],
                               [interest EXCEPT ![fd] = <<ch, E>>], refused)})
      ELSE IF E = {}
      THEN {Outcome([channels EXCEPT ![fd] = Null],
                    [interest EXCEPT ![fd] = Null], refused)}
      ELSE {Outcome(channels,
                    IF interest[fd] = Null THEN interest
                    ELSE [interest EXCEPT ![fd] = <<ch, E>>], refused)}

\* removeChannel: DEL and erase, if channels_ has an entry.
Removed(new, fd) ==
  IF new.channels[fd] = Null THEN new
  ELSE [new EXCEPT !.channels[fd] = Null, !.interest[fd] = Null]

\* Channel::enable..., disable...: events_ and update().
Update(ch, fd, E) ==
  /\ events' = [events EXCEPT ![ch] = E]
  /\ \E new \in Updated(ch, fd, E) :
       /\ channels' = new.channels
       /\ interest' = new.interest
       /\ refused' = new.refused

\* update() followed by close(fd).
UpdateAndClose(ch, E) ==
  /\ events' = [events EXCEPT ![ch] = E]
  /\ \E new \in Updated(ch, fdOf[ch], E) :
       /\ channels' = new.channels
       /\ interest' = [new.interest EXCEPT ![fdOf[ch]] = Null]
       /\ refused' = new.refused

-----------------------------------------------------------------------------
\* The objects after the constructors of EventLoop (with its TimerQueue) and
\* Server (with its Acceptor, whose channel is not registered yet).
Init ==
  /\ place = "start"
  /\ fdOf = [ch \in Channels |-> CASE ch = "wakeup" -> 1 [] ch = "timer" -> 2
                                   [] ch = "acceptor" -> 3 [] OTHER -> 0]
  /\ events = [ch \in Channels |-> IF ch \in {"wakeup", "timer"} THEN {"in"} ELSE {}]
  /\ channels = [fd \in Fds |-> CASE fd = 1 -> "wakeup" [] fd = 2 -> "timer"
                                  [] OTHER -> Null]
  /\ interest = [fd \in Fds |-> IF channels[fd] = Null THEN Null
                                ELSE <<channels[fd], {"in"}>>]
  /\ batch = {}
  /\ full = FALSE
  /\ capacity = InitEvents
  /\ state = [c \in Conns |-> "none"]
  /\ input = [c \in Conns |-> "none"]
  /\ handling = Idle
  /\ queue = {} /\ todo = {}
  /\ listening = FALSE
  /\ backlog = 0
  /\ others = {}
  /\ refused = FALSE

\* Acceptor::listen() in Server::start(), and loop() is entered.
Listen ==
  /\ place = "start"
  /\ place' = "poll"
  /\ \/ listening' = TRUE /\ Update("acceptor", fdOf["acceptor"], {"in"})
     \/ refused' = TRUE /\ UNCHANGED <<listening, events, channels, interest>>
  /\ UNCHANGED <<turn, conns, handling, queue, todo, backlog, others>>

-----------------------------------------------------------------------------
\* What epoll_wait reports, as pairs of a registered channel and an event.
\* Sockets with something to read and waiting clients are certain; whether a
\* socket has room to send and the timer has expired is a choice.  The eventfd
\* is left out: its handler changes nothing here (see EventLoop).
Watched == {w \in Channels \X {"in", "out"} :
              \E fd \in Fds : /\ interest[fd] # Null
                              /\ w[1] = interest[fd][1] /\ w[2] \in interest[fd][2]}

Certain == {w \in Watched :
              /\ w[2] = "in"
              /\ \/ w[1] = "acceptor" /\ backlog > 0
                 \/ w[1] \in Conns /\ input[w[1]] # "none"}

Possible == {w \in Watched : w[2] = "out" \/ w[1] = "timer"}

\* epoll_wait returns the events of every ready channel, or of events_.size()
\* of them.
EpollWait ==
  /\ place = "poll"
  /\ \E more \in SUBSET Possible :
       LET reported == Certain \cup more
           ready == {w[1] : w \in reported}
       IN  /\ ready # {}
           /\ \E got \in SUBSET ready :
                /\ Cardinality(got) = Min({capacity, Cardinality(ready)})
                /\ batch' = {w \in reported : w[1] \in got}
                /\ full' = (Cardinality(got) = capacity)
  /\ place' = "dispatch"
  /\ UNCHANGED <<tables, capacity, conns, handling, queue, todo, net>>

\* Channel::setRevents for the next event of the batch.
Revents(ch) == {e \in {"in", "out"} : <<ch, e>> \in batch}

Take(ch) ==
  /\ place = "dispatch"
  /\ Revents(ch) # {}
  /\ batch' = {w \in batch : w[1] # ch}

\* handleEvent of the timerfd's channel: checkHeartbeats().
DispatchTimer ==
  /\ Take("timer")
  /\ place' = "heartbeat"
  /\ UNCHANGED <<tables, full, capacity, conns, handling, queue, todo, net>>

\* handleEvent of the acceptor's channel: handleRead().
DispatchAcceptor ==
  /\ Take("acceptor")
  /\ place' = "accept"
  /\ UNCHANGED <<tables, full, capacity, conns, handling, queue, todo, net>>

\* handleEvent of a connection's channel.
DispatchConn(c) ==
  /\ Take(c)
  /\ place' = "event"
  /\ handling' = <<c, Revents(c)>>
  /\ UNCHANGED <<tables, full, capacity, conns, queue, todo, net>>

MutantEndDispatch ==
  /\ place = "dispatch"
  /\ batch = {}
  /\ place' = "pending"
  /\ todo' = queue
  /\ full' = FALSE
  /\ UNCHANGED <<tables, batch, capacity, conns, handling, queue, net>>

\* All events are dispatched: events_ is doubled if it was filled, and
\* doPendingFunctors takes the queue.
EndDispatch ==
  /\ place = "dispatch"
  /\ batch = {}
  /\ place' = "pending"
  /\ todo' = queue
  /\ capacity' = IF full THEN 2 * capacity ELSE capacity
  /\ full' = FALSE
  /\ UNCHANGED <<tables, batch, conns, handling, queue, net>>

-----------------------------------------------------------------------------
\* TcpConnection.  InTable: Server::connections_ holds it.
InTable(c) == state[c] \in {"kConnected", "kDisconnecting"}

\* ~TcpConnection, for connections nobody owns any more: close(fd), then
\* ~Channel, which has nothing to do when no event is subscribed.
Destroy(C) ==
  /\ fdOf' = [ch \in Channels |-> IF ch \in C THEN 0 ELSE fdOf[ch]]
  /\ state' = [c \in Conns |-> IF c \in C THEN "none" ELSE state[c]]
  /\ input' = [c \in Conns |-> IF c \in C THEN "none" ELSE input[c]]

\* handleClose(): disableAll, then the close callback erases the table's
\* shared_ptr, and with it the object unless somebody else holds one.
HandleClose(c, owned) ==
  /\ state[c] # "kDisconnected"
  /\ IF owned
     THEN /\ Update(c, fdOf[c], {})
          /\ state' = [state EXCEPT ![c] = "kDisconnected"]
          /\ UNCHANGED <<fdOf, input>>
     ELSE UpdateAndClose(c, {}) /\ Destroy({c})

\* handleRead with data: messageCallback_ is called.
HandleReadData ==
  LET c == handling[1]
  IN  /\ place = "event" /\ "in" \in handling[2] /\ input[c] = "data"
      /\ input' = [input EXCEPT ![c] = "none"]
      /\ handling' = <<c, handling[2] \ {"in"}>>
      /\ place' = "message"
      /\ UNCHANGED <<tables, turn, fdOf, state, queue, todo, net>>

\* handleRead at end of stream.  What handleEvent goes on to do with a channel
\* destroyed here is the subject of TcpConnection.
HandleReadEof ==
  LET c == handling[1]
  IN  /\ place = "event" /\ "in" \in handling[2] /\ input[c] = "eof"
      /\ HandleClose(c, c \in queue)
      /\ handling' = Idle
      /\ place' = "dispatch"
      /\ UNCHANGED <<turn, queue, todo, net>>

\* A send in the message callback, to this or to another connection of the
\* table, that leaves data in the output buffer.
Send(c) ==
  /\ place = "message"
  /\ InTable(c)
  /\ Update(c, fdOf[c], events[c] \cup {"out"})
  /\ UNCHANGED <<place, turn, conns, handling, queue, todo, net>>

MessageReturns ==
  /\ place = "message"
  /\ place' = "event"
  /\ UNCHANGED <<tables, turn, conns, handling, queue, todo, net>>

\* handleWrite: the output buffer is written in part, or in full.
HandleWrite ==
  LET c == handling[1]
  IN  /\ place = "event" /\ handling[2] = {"out"}
      /\ IF state[c] = "kDisconnected" THEN UNCHANGED tables
         ELSE UNCHANGED tables \/ Update(c, fdOf[c], events[c] \ {"out"})
      /\ handling' = <<c, {}>>
      /\ UNCHANGED <<place, turn, conns, queue, todo, net>>

EventReturns ==
  /\ place = "event" /\ handling[2] = {}
  /\ handling' = Idle
  /\ place' = "dispatch"
  /\ UNCHANGED <<tables, turn, conns, queue, todo, net>>

MutantForceClose(c) ==
  /\ place = "heartbeat"
  /\ InTable(c)
  /\ HandleClose(c, FALSE)
  /\ UNCHANGED <<place, turn, handling, queue, todo, net>>

\* forceClose() of an idle connection in checkHeartbeats(), which visits every
\* connection once: the second stage is queued.  It runs in the same turn, so
\* no connection is found kDisconnecting here.
ForceClose(c) ==
  /\ place = "heartbeat"
  /\ state[c] = "kConnected"
  /\ state' = [state EXCEPT ![c] = "kDisconnecting"]
  /\ queue' = queue \cup {c}
  /\ UNCHANGED <<place, tables, turn, fdOf, input, handling, todo, net>>

HeartbeatReturns ==
  /\ place = "heartbeat"
  /\ place' = "dispatch"
  /\ UNCHANGED <<tables, turn, conns, handling, queue, todo, net>>

\* The second stage: closes, unless the end of stream was faster.  The vector
\* of doPendingFunctors still holds the connection.
RunForceClose(c) ==
  /\ place = "pending"
  /\ c \in todo
  /\ todo' = todo \ {c}
  /\ \/ state[c] = "kDisconnecting" /\ HandleClose(c, TRUE)
     \/ state[c] = "kDisconnected" /\ UNCHANGED <<tables, conns>>
  /\ UNCHANGED <<place, turn, handling, queue, net>>

\* doPendingFunctors returns and its vector is destroyed; loop() goes on, or
\* returns because of quit_.
EndPending ==
  /\ place = "pending"
  /\ todo = {}
  /\ queue' = {}
  /\ Destroy({c \in queue : state[c] = "kDisconnected"})
  /\ interest' = [fd \in Fds |->
                    IF \E c \in queue : state[c] = "kDisconnected" /\ fdOf[c] = fd
                    THEN Null ELSE interest[fd]]
  /\ place' \in {"poll", "close"}
  /\ UNCHANGED <<events, channels, refused, turn, handling, todo, net>>

-----------------------------------------------------------------------------
\* Acceptor::handleRead, one accept4 per step.

\* accept4 succeeds, and Server::onNewConnection constructs a connection on
\* this loop: enableReading.
Accept(c) ==
  /\ place = "accept"
  /\ backlog > 0 /\ Free # {} /\ state[c] = "none"
  /\ backlog' = backlog - 1
  /\ fdOf' = [fdOf EXCEPT ![c] = NextFd]
  /\ state' = [state EXCEPT ![c] = "kConnected"]
  /\ Update(c, NextFd, {"in"})
  /\ UNCHANGED <<place, turn, input, handling, queue, todo, listening, others>>

MutantAcceptFails ==
  /\ place = "accept"
  /\ backlog > 0 /\ Free = {}
  /\ Update("acceptor", fdOf["acceptor"], {})
  /\ place' = "dispatch"
  /\ UNCHANGED <<turn, conns, handling, queue, todo, net>>

\* accept4 fails and the while loop is left: EMFILE, which leaves the client in
\* the backlog, or the client has gone.
AcceptFails ==
  /\ place = "accept"
  /\ backlog > 0
  /\ \/ Free = {} /\ UNCHANGED backlog
     \/ Free # {} /\ backlog' = backlog - 1
  /\ place' = "dispatch"
  /\ UNCHANGED <<tables, turn, conns, handling, queue, todo, listening, others>>

\* EAGAIN.
AcceptDone ==
  /\ place = "accept"
  /\ backlog = 0
  /\ place' = "dispatch"
  /\ UNCHANGED <<tables, turn, conns, handling, queue, todo, net>>

-----------------------------------------------------------------------------
\* Destruction, on the thread of the loop after loop() has returned.

\* ~Server: closeNow() of a connection of the snapshot, which keeps it alive.
CloseNow(c) ==
  /\ place = "close"
  /\ InTable(c)
  /\ HandleClose(c, TRUE)
  /\ UNCHANGED <<place, turn, handling, queue, todo, net>>

\* The snapshot goes out of scope.
CloseDone ==
  /\ place = "close"
  /\ ~\E c \in Conns : InTable(c)
  /\ Destroy(Conns)
  /\ interest' = [fd \in Fds |-> IF \E c \in Conns : fdOf[c] = fd THEN Null
                                 ELSE interest[fd]]
  /\ place' = "acceptor"
  /\ UNCHANGED <<events, channels, refused, turn, handling, queue, todo, net>>

\* ~Acceptor: disableAll and close.
DestroyAcceptor ==
  /\ place = "acceptor"
  /\ UpdateAndClose("acceptor", {})
  /\ fdOf' = [fdOf EXCEPT !["acceptor"] = 0]
  /\ listening' = FALSE /\ backlog' = 0
  /\ place' = "timer"
  /\ UNCHANGED <<turn, state, input, handling, queue, todo, others>>

\* ~EventLoop: ~TimerQueue does the same for the timerfd,
DestroyTimer ==
  /\ place = "timer"
  /\ UpdateAndClose("timer", {})
  /\ fdOf' = [fdOf EXCEPT !["timer"] = 0]
  /\ place' = "wakeup"
  /\ UNCHANGED <<turn, state, input, handling, queue, todo, net>>

\* then the eventfd's channel: disableAll, removeChannel, close.
DestroyWakeup ==
  /\ place = "wakeup"
  /\ events' = [events EXCEPT !["wakeup"] = {}]
  /\ \E new \in {Removed(u, fdOf["wakeup"]) : u \in Updated("wakeup", fdOf["wakeup"], {})} :
       /\ channels' = new.channels
       /\ interest' = [new.interest EXCEPT ![fdOf["wakeup"]] = Null]
       /\ refused' = new.refused
  /\ fdOf' = [fdOf EXCEPT !["wakeup"] = 0]
  /\ place' = "gone"
  /\ UNCHANGED <<turn, state, input, handling, queue, todo, net>>

-----------------------------------------------------------------------------
\* The world outside the loop's thread.

ClientConnects ==
  /\ listening
  /\ backlog < MaxBacklog
  /\ backlog' = backlog + 1
  /\ UNCHANGED <<place, tables, turn, conns, handling, queue, todo, listening, others>>

\* The peer sends or closes.
PeerActs(c) ==
  /\ state[c] # "none"
  /\ input[c] = "none"
  /\ \E i \in {"data", "eof"} : input' = [input EXCEPT ![c] = i]
  /\ UNCHANGED <<place, tables, turn, fdOf, state, handling, queue, todo, net>>

\* Other threads of the process open and close descriptors.
OtherOpens ==
  /\ Free # {}
  /\ others' = others \cup {NextFd}
  /\ UNCHANGED <<place, tables, turn, conns, handling, queue, todo, listening, backlog>>

OtherCloses(fd) ==
  /\ fd \in others
  /\ others' = others \ {fd}
  /\ UNCHANGED <<place, tables, turn, conns, handling, queue, todo, listening, backlog>>

-----------------------------------------------------------------------------
Loop ==
  \/ Listen \/ EpollWait
  \/ DispatchTimer \/ DispatchAcceptor
  \/ \E c \in Conns : DispatchConn(c)
  \/ HandleReadData \/ HandleReadEof \/ MessageReturns \/ HandleWrite
  \/ EventReturns \/ HeartbeatReturns
  \/ \E c \in Conns : Accept(c)
  \/ AcceptFails \/ AcceptDone
  \/ EndDispatch
  \/ \E c \in Conns : RunForceClose(c)
  \/ EndPending

Callbacks == \E c \in Conns : Send(c) \/ ForceClose(c)

Destructors ==
  \/ \E c \in Conns : CloseNow(c)
  \/ CloseDone \/ DestroyAcceptor \/ DestroyTimer \/ DestroyWakeup

World ==
  \/ ClientConnects
  \/ \E c \in Conns : PeerActs(c)
  \/ OtherOpens
  \/ \E fd \in Fds : OtherCloses(fd)

Next == Loop \/ Callbacks \/ Destructors \/ World

Spec == Init /\ [][Next]_vars

\* The loop's thread is scheduled, callbacks return, and epoll_wait returns
\* when something is ready.
FairSpec == Spec /\ WF_vars(Loop)

-----------------------------------------------------------------------------
Stopped == place \in {"close", "acceptor", "timer", "wakeup", "gone"}

\* No two objects, and no object and another thread, think they own the same
\* descriptor; an object exists exactly while it owns one.
Ownership ==
  /\ \A x, y \in Channels : fdOf[x] = fdOf[y] /\ fdOf[x] # 0 => x = y
  /\ \A x \in Channels : fdOf[x] \notin others
  /\ \A c \in Conns : state[c] = "none" <=> fdOf[c] = 0

\* Whatever the kernel has refused: a registration belongs to the object that
\* owns the descriptor, and an event that epoll_wait returned is never
\* dispatched to an object destroyed by a handler of the same turn (the batch
\* holds bare Channel pointers).
EventsReachOwner ==
  /\ \A fd \in Fds : interest[fd] # Null => fdOf[interest[fd][1]] = fd
  /\ \A w \in batch : fdOf[w[1]] # 0

\* Which objects exist where, and when events wait to be dispatched: none of
\* them is for the connection whose event is being handled.
PlaceInv ==
  /\ place \notin {"timer", "wakeup", "gone"} => fdOf["acceptor"] # 0
  /\ place \notin {"wakeup", "gone"} => fdOf["timer"] # 0
  /\ place # "gone" => fdOf["wakeup"] # 0
  /\ batch # {} => place \in {"dispatch", "event", "message", "accept", "heartbeat"}
  /\ place \in {"event", "message"} =>
       /\ handling[1] \in Conns /\ state[handling[1]] # "none"
       /\ \A w \in batch : w[1] # handling[1]

\* What a channel subscribes to: a connection reads until it is closed and
\* then nothing; a new channel is never registered for nothing.
SubscriptionInv ==
  /\ \A c \in Conns : /\ InTable(c) => "in" \in events[c]
                      /\ state[c] = "kDisconnected" => events[c] = {}
  /\ \A ch \in {"wakeup", "timer"} : fdOf[ch] # 0 => "in" \in events[ch]
  /\ fdOf["acceptor"] # 0 =>
       IF place = "start" THEN events["acceptor"] = {}
                          ELSE refused \/ "in" \in events["acceptor"]

\* The inductive invariant: EventsReachOwner with what it rests on.
PollerInv == TypeOK /\ PlaceInv /\ Ownership /\ EventsReachOwner /\ SubscriptionInv

\* As long as the kernel has refused nothing, channels_ and the interest list
\* agree with each other and with the events_ of every channel, over every
\* close and reuse of a descriptor: no entry is left of a destroyed channel.
Registered ==
  ~refused =>
    /\ \A fd \in Fds : channels[fd] # Null => fdOf[channels[fd]] = fd
    /\ \A ch \in Channels :
         fdOf[ch] # 0 => IF events[ch] = {}
                         THEN channels[fdOf[ch]] = Null /\ interest[fdOf[ch]] = Null
                         ELSE /\ channels[fdOf[ch]] = ch
                              /\ interest[fdOf[ch]] = <<ch, events[ch]>>
    /\ \A fd \in Fds : channels[fd] = Null <=> interest[fd] = Null

\* Data that arrives is read, however many channels are ready in each turn:
\* the kernel may choose which of them fit into events_, but a filled events_
\* is doubled.
InputServed ==
  \A c \in Conns :
    (state[c] = "kConnected" /\ input[c] = "data")
      ~> (input[c] # "data" \/ state[c] = "none" \/ refused \/ Stopped)

\* A client left in the backlog by EMFILE is accepted once descriptors are
\* free again, without another client arriving: the listening descriptor is
\* level-triggered and stays subscribed.
BacklogServed ==
  <>[](Free # {}) => (backlog > 0 ~> (backlog = 0 \/ refused \/ Stopped))
=============================================================================
