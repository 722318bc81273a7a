-------------------------------- MODULE Chat --------------------------------
(* The chat server's message callback (reactor/server.cpp) over the parts it  *)
(* uses on the connection's thread: handleRead fills the input buffer, the    *)
(* callback takes everything out of it, logs it without its line end and      *)
(* sends it on.  Of the broadcast only the sender's own copy is followed, and *)
(* the fixed text put in front of it is left out.  A write that fails with an *)
(* error drops data on purpose; that case belongs to TcpConnection.  Between  *)
(* messages the thread executes other log statements.                         *)
EXTENDS Buffer, Logger

CONSTANTS
  Statements,             \* operands of other log statements
  Errnos,                 \* values of errno
  MaxReceived             \* bound: bytes received

ASSUME ChatAssumption ==
  /\ BufferAssumption /\ Bytes \subseteq Nat
  /\ Statements # {} /\ Statements \subseteq Seq(Operand)
  /\ Errnos \subseteq Int
  /\ MaxReceived \in Nat

VARIABLES
  place,                  \* "poll", "callback" or "send"
  msg,                    \* msg of the callback
  obuf, osize, oread, owrite,     \* the connection's output_buffer_
  received,               \* history: bytes the socket delivered
  wire                    \* history: bytes written to the socket

output == <<obuf, osize, oread, owrite>>
chatVars == <<vars, output, stream, logger, place, msg, received, wire>>

\* The variables of Buffer are the connection's input_buffer_.
Out == INSTANCE Buffer WITH buf <- obuf, size <- osize, readIndex <- oread,
                            writeIndex <- owrite

ChatInit ==
  /\ Init /\ Out!Init /\ LoggerInit
  /\ place = "poll"
  /\ msg = << >> /\ received = << >> /\ wire = << >>

\* The thread is between two handlers and statements.
AtRest == place = "poll" /\ level = None /\ ~aborted

\* TcpConnection::handleRead: readFd, then messageCallback_.
HandleRead(d) ==
  /\ AtRest
  /\ Len(received) + Len(d) <= MaxReceived
  /\ ReadFd(d)
  /\ received' = received \o d
  /\ place' = "callback"
  /\ UNCHANGED <<output, stream, logger, msg, wire>>

\* The message without the line ends at its end.
Stripped(m) == SubSeq(m, 1, SelectLastInSeq(m, LAMBDA c : c \notin {10, 13}))

\* retrieveAllAsString, and the LOG_INFO statement.
OnMessage ==
  /\ place = "callback"
  /\ msg' = Content
  /\ RetrieveAll
  /\ Construct(2, 0, <<Text(2), Text(1), Text(2),
                       [kind |-> "text", chars |-> Stripped(Content)]>>)
  /\ place' = "send"
  /\ UNCHANGED <<output, received, wire>>

\* broadcast: sendInLoop writes what the socket takes, unless older data is
\* buffered, and appends the rest to output_buffer_.
SendInLoop ==
  /\ place = "send" /\ level = None
  /\ \E n \in 0..Len(msg) :
       /\ Out!ReadableBytes > 0 => n = 0
       /\ wire' = wire \o SubSeq(msg, 1, n)
       /\ IF n < Len(msg) THEN Out!Append_(SubSeq(msg, n + 1, Len(msg)))
                          ELSE UNCHANGED output
  /\ msg' = << >>
  /\ place' = "poll"
  /\ UNCHANGED <<vars, stream, logger, received>>

\* handleWrite: the socket takes part of output_buffer_, or all of it.
HandleWrite ==
  /\ AtRest
  /\ \E n \in 1..Out!ReadableBytes :
       /\ wire' = wire \o SubSeq(Out!Content, 1, n)
       /\ Out!Retrieve(n)
  /\ UNCHANGED <<vars, stream, logger, place, msg, received>>

\* Any other log statement of the thread.
OtherStatement(lv, errno, xs) ==
  /\ AtRest
  /\ Construct(lv, errno, xs)
  /\ UNCHANGED <<vars, output, place, msg, received, wire>>

LogStep ==
  /\ InsertNext \/ Output \/ Finish
  /\ UNCHANGED <<vars, output, place, msg, received, wire>>

ChatNext ==
  \/ \E d \in Chunks : HandleRead(d)
  \/ OnMessage
  \/ SendInLoop
  \/ HandleWrite
  \/ \E lv \in Levels, errno \in Errnos, xs \in Statements : OtherStatement(lv, errno, xs)
  \/ LogStep

ChatSpec == ChatInit /\ [][ChatNext]_chatVars

-----------------------------------------------------------------------------
\* The indices of both buffers stay in order and inside their vectors, and a
\* byte is in the input buffer or in msg only while the handler that put it
\* there has not passed it on.
BuffersInv ==
  /\ BufferInv /\ Out!BufferInv
  /\ place \in {"poll", "callback", "send"}
  /\ msg \in Seq(Bytes) /\ wire \in Seq(Bytes)
  /\ place # "callback" => ReadableBytes = 0
  /\ place # "send" => msg = << >>

\* Every byte the socket delivered is written back exactly once and in order,
\* or is on its way in one of the two buffers, however the reads fall into the
\* vector, fill it exactly or spill over into the extra buffer, and however
\* the writes are cut.
MessageIntact == wire \o Out!Content \o msg \o Content = received
=============================================================================
