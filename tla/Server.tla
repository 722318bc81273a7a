------------------------------- MODULE Server -------------------------------
(***************************************************************************)
(* reactor/Server with its Acceptor and EventLoopThreadPool: the main loop *)
(* accepts and hands descriptors to the sub loops, connections live on the *)
(* sub loops, every thread broadcasts through the table, the heartbeat     *)
(* scans it, and the destructor takes everything down.                     *)
(*                                                                         *)
(* A sub loop is what EventLoop was shown to be: callbacks run in the      *)
(* order they were queued, in batches.  A connection is its descriptor,    *)
(* loop and state; what it does with bytes is TcpConnection's subject.     *)
(* threadNum_ is positive.                                                 *)
(***************************************************************************)
EXTENDS Integers, Sequences, FiniteSets

CONSTANTS
  ThreadNum,              \* threadNum_
  Fds,                    \* descriptors free for connections
  MaxConns,               \* bound: clients that connect
  Quiet,                  \* bound: the connections that may be idle
  MaxPending,             \* bound: callbacks queued on a loop when a scan begins
  MaxCasts                \* bound: broadcasts

ASSUME ServerAssumption ==
  /\ ThreadNum \in Nat \ {0}
  /\ Fds \subseteq Nat
  /\ MaxConns \in Nat /\ MaxPending \in Nat /\ MaxCasts \in Nat

Loops == 1..ThreadNum
Conns == 1..MaxConns      \* conn_count numbers the connections

VARIABLES
  \* the main thread
  main,                   \* where it is
  held,                   \* its snapshot of the table
  visit,                  \* the part of it still to visit
  stopped,                \* sub threads destroyed so far
  next,                   \* next_ + 1
  callbacks,              \* the application's callbacks still set
  \* Server
  table,                  \* connections_: descriptor -> connection
  \* sub loops
  phase,                  \* "io": handling events, "run": executing a batch,
                          \* "drain", "last": before and in the final batch,
                          \* "gone": the EventLoop is destroyed
  quit,                   \* quit_
  pending,                \* pendingFunctors_
  batch,                  \* the batch being executed
  at,                     \* how many of it have been executed
  work,                   \* what the thread is doing in a Server callback
  \* connections
  conn,                   \* the connections created
  idle,                   \* those that received nothing for heartbeatTimeout_
  \* kernel
  clients,                \* clients accepted so far
  open,                   \* descriptors in use
  \* history
  casts,                  \* broadcasts so far
  marked,                 \* the destructor's snapshot
  crashed                 \* undefined behaviour ended the process

mainVars == <<main, held, visit, stopped, next, callbacks, marked>>
loopVars == <<phase, quit, pending, batch, at, work>>
connVars == <<conn, idle, table>>
vars == <<mainVars, loopVars, connVars, clients, open, casts, crashed>>

\* Callbacks queued on a loop: the creation of a connection, or an operation
\* that holds a shared_ptr to one.
Task == ({"new"} \X Fds) \cup ({"send", "forceClose", "closeNow"} \X Conns)

Idle == [op |-> "none", cast |-> FALSE, c |-> 0, snap |-> {}, todo |-> {}]
Work ==
  [op : {"none", "connection", "message", "close"}, cast : BOOLEAN,
   c : 0..MaxConns, snap : SUBSET Conns, todo : SUBSET Conns]

TypeOK ==
  /\ main \in {"serve", "scan", "clear", "collect", "close", "stop", "join",
               "members", "gone"}
  /\ held \subseteq Conns
  /\ visit \subseteq Conns
  /\ stopped \in 0..ThreadNum
  /\ next \in Loops
  /\ callbacks \in Seq({"message", "connection", "close"})
  /\ DOMAIN table \subseteq Fds
  /\ \A f \in DOMAIN table : table[f] \in Conns
  /\ phase \in [Loops -> {"io", "run", "drain", "last", "gone"}]
  /\ quit \in [Loops -> BOOLEAN]
  /\ pending \in [Loops -> Seq(Task)]
  /\ batch \in [Loops -> Seq(Task)]
  /\ at \in [Loops -> Nat]
  /\ work \in [Loops -> Work]
  /\ DOMAIN conn \subseteq Conns
  /\ \A c \in DOMAIN conn :
       conn[c] \in [fd : Fds, loop : Loops,
                    state : {"connected", "disconnecting", "disconnected"}]
  /\ idle \subseteq Conns
  /\ clients \in 0..MaxConns
  /\ open \subseteq Fds
  /\ casts \in 0..MaxCasts
  /\ marked \subseteq Conns
  /\ crashed \in BOOLEAN

Init ==
  /\ main = "serve"
  /\ held = {}
  /\ visit = {}
  /\ stopped = 0
  /\ next = 1
  /\ callbacks = <<"message", "connection", "close">>
  /\ table = << >>
  /\ phase = [l \in Loops |-> "io"]
  /\ quit = [l \in Loops |-> FALSE]
  /\ pending = [l \in Loops |-> << >>]
  /\ batch = [l \in Loops |-> << >>]
  /\ at = [l \in Loops |-> 0]
  /\ work = [l \in Loops |-> Idle]
  /\ conn = << >>
  /\ idle = {}
  /\ clients = 0
  /\ open = {}
  /\ casts = 0
  /\ marked = {}
  /\ crashed = FALSE

-----------------------------------------------------------------------------
\* Who holds a shared_ptr.

InTasks(s) == {s[i][2] : i \in {j \in 1..Len(s) : s[j][1] # "new"}}
InTable == {table[f] : f \in DOMAIN table}

\* The table, queued callbacks, the batch vector, snapshots, and the local
\* pointer of the callback that creates a connection.
Owned ==
  InTable \cup held
    \cup (UNION {InTasks(pending[l]) \cup InTasks(batch[l]) : l \in Loops})
    \cup (UNION {work[l].snap : l \in Loops})
    \cup {work[l].c : l \in {k \in Loops : work[k].op = "connection"}}

\* Channel: registered with its loop until handleClose.
Subscribed(c) == conn[c].state # "disconnected"

\* ~TcpConnection closes the descriptor when the last pointer goes.
CloseUnowned ==
  open' = open \ {conn[c].fd : c \in (DOMAIN conn \cap Owned) \ Owned'}

\* connections_ is ordered by descriptor, so is a snapshot.
First(S) == CHOOSE c \in S : \A d \in S : conn[c].fd <= conn[d].fd

-----------------------------------------------------------------------------
\* queueInLoop on another thread's loop.  A destroyed loop is undefined
\* behaviour: the process may die, or the callback is lost.
Post(l, task) ==
  IF phase[l] = "gone"
    THEN crashed' \in BOOLEAN /\ UNCHANGED pending
    ELSE /\ pending' = [pending EXCEPT ![l] = Append(@, task)]
         /\ UNCHANGED crashed

\* Time passes without data from c.
GoIdle(c) ==
  /\ ~crashed
  /\ c \in (Quiet \cap DOMAIN conn) \ idle
  /\ Subscribed(c)
  /\ idle' = idle \cup {c}
  /\ UNCHANGED <<mainVars, loopVars, conn, table, clients, open, casts, crashed>>

-----------------------------------------------------------------------------
\* The main thread: Acceptor, heartbeat, destructor.

Main(p) == main = p /\ ~crashed

GetNextLoop == next' = IF next + 1 > ThreadNum THEN 1 ELSE next + 1

\* One round of Acceptor::handleRead and onNewConnection.  Without a free
\* descriptor accept4 fails and the client stays in the backlog.
Accept ==
  /\ Main("serve")
  /\ clients < MaxConns
  /\ Fds \ open # {}
  /\ LET fd == CHOOSE f \in Fds \ open : \A g \in Fds \ open : f <= g IN
       /\ open' = open \cup {fd}
       /\ Post(next, <<"new", fd>>)
  /\ GetNextLoop
  /\ clients' = clients + 1
  /\ UNCHANGED <<main, held, visit, stopped, callbacks, marked, phase, quit, batch,
                 at, work, connVars, casts>>

GetAllConnections == held' = InTable /\ visit' = InTable

\* checkHeartbeats takes its snapshot ...
CheckHeartbeats ==
  /\ Main("serve")
  /\ \A l \in Loops : Len(pending[l]) <= MaxPending
  /\ GetAllConnections
  /\ main' = "scan"
  /\ UNCHANGED <<stopped, next, callbacks, marked, loopVars, connVars, clients, open,
                 casts, crashed>>

\* ... and forces the idle ones to close, one by one.
CheckNext ==
  /\ Main("scan")
  /\ visit # {}
  /\ LET c == First(visit) IN
       /\ visit' = visit \ {c}
       /\ IF c \in idle THEN Post(conn[c].loop, <<"forceClose", c>>)
                        ELSE UNCHANGED <<pending, crashed>>
  /\ UNCHANGED <<main, held, stopped, next, callbacks, marked, phase, quit, batch, at,
                 work, connVars, clients, open, casts>>

CheckDone ==
  /\ Main("scan")
  /\ visit = {}
  /\ held' = {}
  /\ main' = "serve"
  /\ UNCHANGED <<visit, stopped, next, callbacks, marked, loopVars, connVars, clients,
                 casts, crashed>>
  /\ CloseUnowned

\* A signal ends the main loop and ~Server begins.
QuitMain ==
  /\ Main("serve")
  /\ main' = "clear"
  /\ UNCHANGED <<held, visit, stopped, next, callbacks, marked, loopVars, connVars,
                 clients, open, casts, crashed>>

\* The callbacks are set to null one after the other.  A sub thread that is
\* about to call or is calling the function object races with it.
ClearCallback ==
  /\ Main("clear")
  /\ callbacks # << >>
  /\ callbacks' = Tail(callbacks)
  /\ crashed' \in
       IF \E l \in Loops : work[l].op = Head(callbacks) THEN BOOLEAN ELSE {FALSE}
  /\ UNCHANGED <<main, held, visit, stopped, next, marked, loopVars, connVars, clients,
                 open, casts>>

\* The loop over getAllConnections() takes its snapshot ...
Collect ==
  /\ Main("clear")
  /\ callbacks = << >>
  /\ GetAllConnections
  /\ marked' = InTable
  /\ main' = "close"
  /\ UNCHANGED <<stopped, next, callbacks, loopVars, connVars, clients, open, casts,
                 crashed>>

\* ... and posts closeNow to each of them.
CloseNext ==
  /\ Main("close")
  /\ visit # {}
  /\ LET c == First(visit) IN
       /\ visit' = visit \ {c}
       /\ Post(conn[c].loop, <<"closeNow", c>>)
  /\ UNCHANGED <<main, held, stopped, next, callbacks, marked, phase, quit, batch, at,
                 work, connVars, clients, open, casts>>

MutantCloseKeepsSnapshot ==
  /\ Main("close")
  /\ visit = {}
  /\ main' = "stop"
  /\ UNCHANGED <<held, visit, stopped, next, callbacks, marked, loopVars, connVars,
                 clients, casts, crashed>>
  /\ CloseUnowned

CloseDone ==
  /\ Main("close")
  /\ visit = {}
  /\ held' = {}
  /\ main' = "stop"
  /\ UNCHANGED <<visit, stopped, next, callbacks, marked, loopVars, connVars, clients,
                 casts, crashed>>
  /\ CloseUnowned

MutantStopWithoutQuit ==
  /\ Main("stop")
  /\ stopped < ThreadNum
  /\ main' = "join"
  /\ UNCHANGED <<held, visit, stopped, next, callbacks, marked, loopVars, connVars,
                 clients, open, casts, crashed>>

\* threads_.clear() destroys the threads in turn: quit, then join.
StopThread ==
  /\ Main("stop")
  /\ stopped < ThreadNum
  /\ quit' = [quit EXCEPT ![stopped + 1] = TRUE]
  /\ main' = "join"
  /\ UNCHANGED <<held, visit, stopped, next, callbacks, marked, phase, pending, batch,
                 at, work, connVars, clients, open, casts, crashed>>

JoinThread ==
  /\ Main("join")
  /\ phase[stopped + 1] = "gone"
  /\ stopped' = stopped + 1
  /\ main' = "stop"
  /\ UNCHANGED <<held, visit, next, callbacks, marked, loopVars, connVars, clients,
                 open, casts, crashed>>

StopReturns ==
  /\ Main("stop")
  /\ stopped = ThreadNum
  /\ main' = "members"
  /\ UNCHANGED <<held, visit, stopped, next, callbacks, marked, loopVars, connVars,
                 clients, open, casts, crashed>>

\* The members are destroyed: a connection still subscribed makes its Channel
\* call a destroyed loop.
DestroyMembers ==
  /\ Main("members")
  /\ table' = << >>
  /\ crashed' \in IF \E c \in InTable : Subscribed(c) THEN BOOLEAN ELSE {FALSE}
  /\ main' = "gone"
  /\ UNCHANGED <<held, visit, stopped, next, callbacks, marked, loopVars, conn, idle,
                 clients, casts>>
  /\ CloseUnowned

-----------------------------------------------------------------------------
\* A sub loop: the turn of EventLoop::loop().

Free(l) == ~crashed /\ work[l] = Idle

\* doPendingFunctors begins: after the events, or for the last time.
SwapPending(l) ==
  /\ \/ phase[l] = "io" /\ pending[l] # << >>
     \/ phase[l] = "drain"
  /\ Free(l)
  /\ phase' = [phase EXCEPT ![l] = IF @ = "io" THEN "run" ELSE "last"]
  /\ batch' = [batch EXCEPT ![l] = pending[l]]
  /\ pending' = [pending EXCEPT ![l] = << >>]
  /\ UNCHANGED <<mainVars, quit, at, work, connVars, clients, open, casts, crashed>>

\* while (!quit_) with nothing to run before.
SeeQuit(l) ==
  /\ phase[l] = "io"
  /\ Free(l)
  /\ quit[l]
  /\ phase' = [phase EXCEPT ![l] = "drain"]
  /\ UNCHANGED <<mainVars, quit, pending, batch, at, work, connVars, clients, open,
                 casts, crashed>>

MutantEndNoDrain(l) ==
  /\ phase[l] \in {"run", "last"}
  /\ Free(l)
  /\ at[l] = Len(batch[l])
  /\ batch' = [batch EXCEPT ![l] = << >>]
  /\ at' = [at EXCEPT ![l] = 0]
  /\ IF phase[l] = "last" \/ quit[l]
       THEN /\ phase' = [phase EXCEPT ![l] = "gone"]
            /\ pending' = [pending EXCEPT ![l] = << >>]
       ELSE /\ phase' = [phase EXCEPT ![l] = "io"]
            /\ UNCHANGED pending
  /\ UNCHANGED <<mainVars, quit, work, connVars, clients, casts, crashed>>
  /\ CloseUnowned

\* The batch is over; while (!quit_), and after the final batch the EventLoop
\* is destroyed with whatever is still queued.
EndPending(l) ==
  /\ phase[l] \in {"run", "last"}
  /\ Free(l)
  /\ at[l] = Len(batch[l])
  /\ batch' = [batch EXCEPT ![l] = << >>]
  /\ at' = [at EXCEPT ![l] = 0]
  /\ IF phase[l] = "last"
       THEN /\ phase' = [phase EXCEPT ![l] = "gone"]
            /\ pending' = [pending EXCEPT ![l] = << >>]
       ELSE /\ phase' = [phase EXCEPT ![l] = IF quit[l] THEN "drain" ELSE "io"]
            /\ UNCHANGED pending
  /\ UNCHANGED <<mainVars, quit, work, connVars, clients, casts, crashed>>
  /\ CloseUnowned

\* The next callback of the batch is of kind op.
Running(l, op) ==
  /\ phase[l] \in {"run", "last"}
  /\ Free(l)
  /\ at[l] < Len(batch[l])
  /\ batch[l][at[l] + 1][1] = op
  /\ at' = [at EXCEPT ![l] = @ + 1]

Arg(l) == batch[l][at[l] + 1][2]

\* if (messageCallback_), and its like: the thread goes on to call it.
Set(op) == \E i \in 1..Len(callbacks) : callbacks[i] = op
Call(l, op, c) == work' = [work EXCEPT ![l] = [Idle EXCEPT !.op = op, !.c = c]]

Erase(fd) == table' = [f \in DOMAIN table \ {fd} |-> table[f]]

\* handleClose: disableAll, then onCloseConnection, which notifies the
\* application before it erases the descriptor's entry.
HandleClose(l, c) ==
  /\ conn' = [conn EXCEPT ![c].state = "disconnected"]
  /\ IF Set("close") THEN Call(l, "close", c) /\ UNCHANGED table
                     ELSE Erase(conn[c].fd) /\ UNCHANGED work

\* onNewConnection's callback: the connection is created, subscribed and
\* entered in the table.
RunNew(l) ==
  /\ Running(l, "new")
  /\ LET c == Cardinality(DOMAIN conn) + 1
         fd == Arg(l) IN
       /\ conn' = [d \in DOMAIN conn \cup {c} |->
                     IF d = c THEN [fd |-> fd, loop |-> l, state |-> "connected"]
                              ELSE conn[d]]
       /\ table' = [f \in DOMAIN table \cup {fd} |-> IF f = fd THEN c ELSE table[f]]
       /\ IF Set("connection") THEN Call(l, "connection", c) ELSE UNCHANGED work
  /\ UNCHANGED <<mainVars, phase, quit, pending, batch, idle, clients, open, casts,
                 crashed>>

\* sendInLoop: bytes only.
RunSend(l) ==
  /\ Running(l, "send")
  /\ UNCHANGED <<mainVars, phase, quit, pending, batch, work, connVars, clients, open,
                 casts, crashed>>

MutantForceCloseOnce(l) ==
  /\ Running(l, "forceClose")
  /\ LET c == Arg(l) IN
       IF conn[c].state = "connected"
         THEN /\ conn' = [conn EXCEPT ![c].state = "disconnecting"]
              /\ UNCHANGED <<table, work>>
         ELSE UNCHANGED <<conn, table, work>>
  /\ UNCHANGED <<mainVars, phase, quit, pending, batch, idle, clients, casts, crashed>>
  /\ CloseUnowned

\* forceCloseInLoop, first and second stage.
RunForceClose(l) ==
  /\ Running(l, "forceClose")
  /\ LET c == Arg(l) IN
       \/ /\ conn[c].state = "connected"
          /\ conn' = [conn EXCEPT ![c].state = "disconnecting"]
          /\ pending' = [pending EXCEPT ![l] = Append(@, <<"forceClose", c>>)]
          /\ UNCHANGED <<table, work>>
       \/ /\ conn[c].state = "disconnecting"
          /\ HandleClose(l, c)
          /\ UNCHANGED pending
       \/ /\ conn[c].state = "disconnected"
          /\ UNCHANGED <<conn, pending, table, work>>
  /\ UNCHANGED <<mainVars, phase, quit, batch, idle, clients, casts, crashed>>
  /\ CloseUnowned

RunCloseNow(l) ==
  /\ Running(l, "closeNow")
  /\ LET c == Arg(l) IN
       IF conn[c].state # "disconnected" THEN HandleClose(l, c)
                                         ELSE UNCHANGED <<conn, table, work>>
  /\ UNCHANGED <<mainVars, phase, quit, pending, batch, idle, clients, casts, crashed>>
  /\ CloseUnowned

\* An event of a connection of this loop.
Event(l, c) ==
  /\ phase[l] = "io"
  /\ Free(l)
  /\ c \in DOMAIN conn
  /\ conn[c].loop = l
  /\ Subscribed(c)

\* handleRead with data: last_active_, then messageCallback_.
Message(l, c) ==
  /\ Event(l, c)
  /\ idle' = idle \ {c}
  /\ IF Set("message") THEN Call(l, "message", c) ELSE UNCHANGED work
  /\ UNCHANGED <<mainVars, phase, quit, pending, batch, at, conn, table, clients, open,
                 casts, crashed>>

\* handleRead at end of stream.
Eof(l, c) ==
  /\ Event(l, c)
  /\ HandleClose(l, c)
  /\ UNCHANGED <<mainVars, phase, quit, pending, batch, at, idle, clients, casts,
                 crashed>>
  /\ CloseUnowned

-----------------------------------------------------------------------------
\* The application's callbacks on a sub thread.

Busy(l) == ~crashed /\ work[l].op # "none"

\* broadcast() over a snapshot of the table.
Broadcast(l) ==
  /\ Busy(l)
  /\ ~work[l].cast
  /\ casts < MaxCasts
  /\ casts' = casts + 1
  /\ work' = [work EXCEPT ![l].cast = TRUE, ![l].snap = InTable, ![l].todo = InTable]
  /\ UNCHANGED <<mainVars, phase, quit, pending, batch, at, connVars, clients, open,
                 crashed>>

\* send() writes on its own loop and posts to another.
BroadcastNext(l) ==
  /\ Busy(l)
  /\ work[l].todo # {}
  /\ LET c == First(work[l].todo) IN
       /\ work' = [work EXCEPT ![l].todo = @ \ {c}]
       /\ IF conn[c].loop = l THEN UNCHANGED <<pending, crashed>>
                              ELSE Post(conn[c].loop, <<"send", c>>)
  /\ UNCHANGED <<mainVars, phase, quit, batch, at, connVars, clients, open, casts>>

MutantReturnKeepsEntry(l) ==
  /\ Busy(l)
  /\ work[l].todo = {}
  /\ work' = [work EXCEPT ![l] = Idle]
  /\ UNCHANGED <<mainVars, phase, quit, pending, batch, at, connVars, clients, casts,
                 crashed>>
  /\ CloseUnowned

\* The callback returns; onCloseConnection goes on.
Return(l) ==
  /\ Busy(l)
  /\ work[l].todo = {}
  /\ IF work[l].op = "close" THEN Erase(conn[work[l].c].fd) ELSE UNCHANGED table
  /\ work' = [work EXCEPT ![l] = Idle]
  /\ UNCHANGED <<mainVars, phase, quit, pending, batch, at, conn, idle, clients, casts,
                 crashed>>
  /\ CloseUnowned

-----------------------------------------------------------------------------
Heartbeat == CheckHeartbeats \/ CheckNext \/ CheckDone
Destructor ==
  \/ ClearCallback
  \/ Collect
  \/ CloseNext
  \/ CloseDone
  \/ StopThread
  \/ JoinThread
  \/ StopReturns
  \/ DestroyMembers

SubLoop(l) ==
  \/ SwapPending(l)
  \/ SeeQuit(l)
  \/ EndPending(l)
  \/ RunNew(l)
  \/ RunSend(l)
  \/ RunForceClose(l)
  \/ RunCloseNow(l)
  \/ Broadcast(l)
  \/ BroadcastNext(l)
  \/ Return(l)

Next ==
  \/ Accept
  \/ \E c \in Conns : GoIdle(c)
  \/ Heartbeat
  \/ QuitMain
  \/ Destructor
  \/ \E l \in Loops : SubLoop(l) \/ \E c \in Conns : Message(l, c) \/ Eof(l, c)

Spec == Init /\ [][Next]_vars

\* The threads are scheduled, the heartbeat timer fires, and a loop handles
\* only finitely many events before it turns to its queue and to quit_.
\* Nobody has to connect, to send or to stop the server.
FairSpec ==
  /\ Spec
  /\ WF_vars(Heartbeat)
  /\ WF_vars(Destructor)
  /\ \A l \in Loops : WF_vars(SubLoop(l)) /\ SF_vars(SwapPending(l) \/ SeeQuit(l))

-----------------------------------------------------------------------------
\* The table is exact although descriptors are reused and entries are erased
\* by descriptor: an entry is the connection with that descriptor, and a
\* connection stays in the table from its creation until it is closed.
TableInv ==
  /\ \A f \in DOMAIN table :
       /\ table[f] \in DOMAIN conn
       /\ conn[table[f]].fd = f
       /\ \/ Subscribed(table[f])
          \/ \E l \in Loops : work[l].op = "close" /\ work[l].c = table[f]
  /\ \A c \in DOMAIN conn :
       Subscribed(c) /\ main # "gone"
         => conn[c].fd \in DOMAIN table /\ table[conn[c].fd] = c

\* The descriptors of the connections still to be created by the callbacks of
\* s from position from on, and by those queued on a loop.
NewIn(s, from) == {s[i][2] : i \in {j \in from..Len(s) : s[j][1] = "new"}}
Fresh(l) == NewIn(pending[l], 1) \cup NewIn(batch[l], at[l] + 1)
NewFds == UNION {Fresh(l) : l \in Loops}

\* Every open descriptor belongs to one live connection, or is on its way to
\* the loop that will create one.
DescriptorInv ==
  /\ open = {conn[c].fd : c \in Owned} \cup NewFds
  /\ \A c, d \in Owned : c # d => conn[c].fd # conn[d].fd

\* No descriptor is in two of those callbacks.
UniqueIn(s, from) ==
  \A i, j \in from..Len(s) : s[i][1] = "new" /\ s[i] = s[j] => i = j

\* A descriptor on its way is in one callback only and belongs to nobody yet,
\* and the clients accepted are numbered as they become connections.
ArrivalInv ==
  /\ \A c \in Owned : conn[c].fd \notin NewFds
  /\ \A l, k \in Loops : l # k => Fresh(l) \cap Fresh(k) = {}
  /\ \A l \in Loops :
       /\ NewIn(pending[l], 1) \cap NewIn(batch[l], at[l] + 1) = {}
       /\ UniqueIn(pending[l], 1) /\ UniqueIn(batch[l], at[l] + 1)
  /\ DOMAIN conn = 1..Cardinality(DOMAIN conn)
  /\ IsFiniteSet(NewFds)
  /\ Cardinality(DOMAIN conn) + Cardinality(NewFds) <= clients

\* Callbacks hold connections of the loop they are queued on.
TaskInv(s, l) ==
  \A i \in 1..Len(s) :
    s[i][1] # "new" => s[i][2] \in DOMAIN conn /\ conn[s[i][2]].loop = l

\* What a thread inside a callback of Server works on; one that is closing a
\* connection still finds it in the table.
WorkInv(l) ==
  LET w == work[l] IN
  /\ w.snap \subseteq DOMAIN conn /\ w.todo \subseteq w.snap
  /\ ~w.cast => w.snap = {}
  /\ w.op = "none" => w = Idle
  /\ w.op # "none" => w.c \in DOMAIN conn /\ conn[w.c].loop = l
  /\ w.op = "close" => /\ ~Subscribed(w.c)
                       /\ conn[w.c].fd \in DOMAIN table
                       /\ table[conn[w.c].fd] = w.c

PointerInv ==
  /\ held \subseteq DOMAIN conn /\ visit \subseteq held
  /\ marked \subseteq DOMAIN conn
  /\ \A l \in Loops : TaskInv(pending[l], l) /\ TaskInv(batch[l], l) /\ WorkInv(l)

\* Where the main thread is and how far the sub loops are.
PlaceInv ==
  /\ main \notin {"scan", "close"} => held = {}
  /\ main \in {"serve", "scan", "clear"} => marked = {}
  /\ main = "join" => stopped < ThreadNum
  /\ main \in {"members", "gone"} => stopped = ThreadNum
  /\ main = "gone" => DOMAIN table = {}
  /\ \A l \in Loops :
       /\ phase[l] \in {"drain", "last", "gone"} => quit[l]
       /\ quit[l] => /\ main \in {"stop", "join", "members", "gone"}
                     /\ l <= stopped \/ (main = "join" /\ l = stopped + 1)
       /\ l <= stopped => phase[l] = "gone"
       /\ at[l] <= Len(batch[l])
       /\ phase[l] \in {"io", "drain", "gone"} => batch[l] = << >> /\ at[l] = 0
       /\ phase[l] \in {"drain", "gone"} => work[l] = Idle
       /\ phase[l] = "last" => NewIn(pending[l], 1) = {}
       /\ phase[l] = "gone" => pending[l] = << >>

\* A connection of the destructor's snapshot that is still subscribed will
\* meet its closeNow: it is not posted yet, queued where the loop still swaps,
\* or ahead in the batch.
ClosingInv ==
  \A c \in marked : Subscribed(c) =>
    LET l == conn[c].loop IN
    \/ main = "close" /\ c \in visit
    \/ /\ phase[l] # "last"
       /\ \E i \in 1..Len(pending[l]) : pending[l][i] = <<"closeNow", c>>
    \/ \E i \in (at[l] + 1)..Len(batch[l]) : batch[l][i] = <<"closeNow", c>>

\* The inductive invariant: the table and the descriptors are exact through
\* every interleaving of accepting, closing, broadcasting and shutting down.
ServerInv ==
  /\ TypeOK
  /\ PlaceInv
  /\ PointerInv
  /\ TableInv
  /\ DescriptorInv
  /\ ArrivalInv
  /\ ClosingInv

\* ~Server: every connection of the destructor's snapshot has been closed by
\* its own loop before that loop is destroyed.
SnapshotIsClosed ==
  \A c \in marked : phase[conn[c].loop] = "gone" => ~Subscribed(c)

\* A server that is gone has left no descriptor open.
NoDescriptorLeak == main = "gone" /\ ~crashed => open = {}

\* The heartbeat: a connection that stays idle is closed.
IdleIsClosed ==
  \A c \in Quiet :
    (c \in idle /\ Subscribed(c))
      ~> (c \notin idle \/ ~Subscribed(c) \/ main \notin {"serve", "scan"} \/ crashed)

\* The destructor returns: closing, stopping and joining wait for nobody who
\* waits for them.
ShutdownCompletes == main = "clear" ~> (main = "gone" \/ crashed)

-----------------------------------------------------------------------------
\* What the comments say and the code does not do.

\* Server.cpp, ~Server: when connections_ is destroyed its channels have no
\* event left, and the destruction touches no loop.
MembersTouchNoLoop == main = "members" => \A c \in InTable : ~Subscribed(c)
=============================================================================
