---------------------------- MODULE AsyncLogging ----------------------------
(***************************************************************************)
(* reactor/AsyncLogging: any thread appends log lines to a front buffer,   *)
(* one back-end thread swaps the buffers out and writes them to the file.  *)
(*                                                                         *)
(* A buffer is the sequence of lines in it.  append() is one step, being   *)
(* one critical section; so is every critical section of the back end.     *)
(***************************************************************************)
EXTENDS Integers, Sequences

CONSTANTS
  Lines,                  \* log lines, each appended at most once
  NullPtr,                \* a unique_ptr that was moved from
  BufLines,               \* lines that fit into a buffer
  MaxBuffers,             \* kMaxBuffers
  RollSize                \* rollSize_, in lines

ASSUME LoggingAssumption ==
  /\ NullPtr \notin Seq(Lines)
  /\ BufLines \in Nat \ {0}
  /\ MaxBuffers \in Nat /\ MaxBuffers >= 2
  /\ RollSize \in Nat

VARIABLES
  \* under mutex_
  current,                \* currentBuffer_
  next,                   \* nextBuffer_
  buffers,                \* buffers_
  \* back end
  running,                \* running_
  pc,                     \* where threadFunc is
  new1, new2,             \* newBuffer1, newBuffer2
  toWrite,                \* buffersToWrite
  wi,                     \* how many of them are written
  fileOpen,               \* file_ # nullptr
  bytes,                  \* writtenBytes_
  \* the thread that calls start() and stop()
  control,
  crashed,                \* append() dereferenced a null currentBuffer_
  \* history
  appended,               \* lines handed over, in order
  written,                \* lines written, in order
  dropped,                \* lines erased because of kMaxBuffers
  lost                    \* lines written to no file: fopen failed

front == <<current, next, buffers>>
file == <<fileOpen, bytes, written, lost>>
back == <<new1, new2, toWrite, wi>>
vars == <<front, file, back, running, pc, control, crashed, appended, dropped>>

Buffer == Seq(Lines)
BufferPtr == Buffer \cup {NullPtr}

TypeOK ==
  /\ current \in BufferPtr
  /\ next \in BufferPtr
  /\ buffers \in Seq(Buffer)
  /\ running \in BOOLEAN
  /\ pc \in {"none", "while", "lock", "waiting", "drop", "write", "recycle",
             "final", "drain", "close", "exited"}
  /\ new1 \in BufferPtr
  /\ new2 \in BufferPtr
  /\ toWrite \in Seq(Buffer)
  /\ wi \in 0..Len(toWrite)
  /\ fileOpen \in BOOLEAN
  /\ bytes \in Nat
  /\ control \in {"created", "started", "join", "stopped"}
  /\ crashed \in BOOLEAN
  /\ appended \in Seq(Lines)
  /\ written \in Seq(Lines)
  /\ dropped \subseteq Lines
  /\ lost \subseteq Lines

Init ==
  /\ current = << >>
  /\ next = << >>
  /\ buffers = << >>
  /\ running = FALSE
  /\ pc = "none"
  /\ new1 = NullPtr
  /\ new2 = NullPtr
  /\ toWrite = << >>
  /\ wi = 0
  /\ fileOpen = FALSE
  /\ bytes = 0
  /\ control = "created"
  /\ crashed = FALSE
  /\ appended = << >>
  /\ written = << >>
  /\ dropped = {}
  /\ lost = {}

Elems(s) == {s[i] : i \in 1..Len(s)}
LinesOf(bufs) == UNION {Elems(bufs[i]) : i \in 1..Len(bufs)}

-----------------------------------------------------------------------------
\* The front end.

\* append(): into currentBuffer_, or, when that is full, into the spare one
\* (a new one if there is none), handing the full one over.
AppendLine(l) ==
  /\ ~crashed
  /\ current # NullPtr
  /\ l \notin Elems(appended)
  /\ appended' = Append(appended, l)
  /\ IF Len(current) < BufLines
       THEN /\ current' = Append(current, l)
            /\ UNCHANGED <<next, buffers>>
       ELSE /\ buffers' = Append(buffers, current)
            /\ current' = IF next # NullPtr THEN Append(next, l) ELSE <<l>>
            /\ next' = NullPtr
  /\ UNCHANGED <<file, back, running, pc, control, crashed, dropped>>

\* append() after the back end's last swap.
AppendCrashes ==
  /\ ~crashed
  /\ current = NullPtr
  /\ crashed' = TRUE
  /\ UNCHANGED <<front, file, back, running, pc, control, appended, dropped>>

-----------------------------------------------------------------------------
\* start() and stop().

\* openFile may fail; the back end writes nothing then.
Start ==
  /\ ~crashed
  /\ control = "created"
  /\ control' = "started"
  /\ running' = TRUE
  /\ fileOpen' \in BOOLEAN
  /\ new1' = << >>
  /\ new2' = << >>
  /\ pc' = "while"
  /\ UNCHANGED <<front, bytes, written, lost, toWrite, wi, crashed, appended,
                 dropped>>

\* stop(): running_ is cleared; the notification only shortens the wait.
Stop ==
  /\ ~crashed
  /\ control = "started"
  /\ control' = "join"
  /\ running' = FALSE
  /\ UNCHANGED <<front, file, back, pc, crashed, appended, dropped>>

Join ==
  /\ ~crashed
  /\ control = "join"
  /\ pc = "exited"
  /\ control' = "stopped"
  /\ UNCHANGED <<front, file, back, running, pc, crashed, appended, dropped>>

-----------------------------------------------------------------------------
\* The back end: threadFunc.

At(p) == pc = p /\ ~crashed

While ==
  /\ At("while")
  /\ pc' = IF running THEN "lock" ELSE "final"
  /\ UNCHANGED <<front, file, back, running, control, crashed, appended,
                 dropped>>

\* Nothing is full: wait_for, which a notification, the timeout or a spurious
\* wake-up ends.
Wait ==
  /\ At("lock")
  /\ buffers = << >>
  /\ pc' = "waiting"
  /\ UNCHANGED <<front, file, back, running, control, crashed, appended,
                 dropped>>

MutantTakeForgetsCurrent ==
  /\ At("waiting") \/ (At("lock") /\ buffers # << >>)
  /\ toWrite' = buffers
  /\ buffers' = toWrite
  /\ current' = new1
  /\ new1' = NullPtr
  /\ IF next = NullPtr THEN next' = new2 /\ new2' = NullPtr
                       ELSE UNCHANGED <<next, new2>>
  /\ wi' = 0
  /\ pc' = "drop"
  /\ UNCHANGED <<file, running, control, crashed, appended, dropped>>

MutantTakeCurrentFirst ==
  /\ At("waiting") \/ (At("lock") /\ buffers # << >>)
  /\ toWrite' = <<current>> \o buffers
  /\ buffers' = toWrite
  /\ current' = new1
  /\ new1' = NullPtr
  /\ IF next = NullPtr THEN next' = new2 /\ new2' = NullPtr
                       ELSE UNCHANGED <<next, new2>>
  /\ wi' = 0
  /\ pc' = "drop"
  /\ UNCHANGED <<file, running, control, crashed, appended, dropped>>

MutantTakeWaitsForFull ==
  /\ (At("waiting") \/ At("lock")) /\ buffers # << >>
  /\ toWrite' = Append(buffers, current)
  /\ buffers' = toWrite
  /\ current' = new1
  /\ new1' = NullPtr
  /\ IF next = NullPtr THEN next' = new2 /\ new2' = NullPtr
                       ELSE UNCHANGED <<next, new2>>
  /\ wi' = 0
  /\ pc' = "drop"
  /\ UNCHANGED <<file, running, control, crashed, appended, dropped>>

\* The swap: the full buffers and the current one go to the back end, an empty
\* one takes its place, and what was left in buffersToWrite goes to buffers_.
Take ==
  /\ At("waiting") \/ (At("lock") /\ buffers # << >>)
  /\ toWrite' = Append(buffers, current)
  /\ buffers' = toWrite
  /\ current' = new1
  /\ new1' = NullPtr
  /\ IF next = NullPtr THEN next' = new2 /\ new2' = NullPtr
                       ELSE UNCHANGED <<next, new2>>
  /\ wi' = 0
  /\ pc' = "drop"
  /\ UNCHANGED <<file, running, control, crashed, appended, dropped>>

\* More than kMaxBuffers: only the last two are kept.
Drop ==
  /\ At("drop")
  /\ LET n == Len(toWrite)
         kept == SubSeq(toWrite, n - 1, n) IN
       IF n > MaxBuffers
         THEN /\ toWrite' = kept
              /\ dropped' = dropped \cup ((LinesOf(toWrite) \ LinesOf(kept))
                                            \ Elems(written))
         ELSE UNCHANGED <<toWrite, dropped>>
  /\ pc' = "write"
  /\ UNCHANGED <<front, file, new1, new2, wi, running, control, crashed,
                 appended>>

\* writeToFile: nothing without a file; past rollSize_ a new file is opened,
\* which may fail.
WriteToFile(buf) ==
  IF fileOpen
    THEN /\ written' = written \o buf
         /\ IF bytes + Len(buf) > RollSize
              THEN bytes' = 0 /\ fileOpen' \in BOOLEAN
              ELSE bytes' = bytes + Len(buf) /\ UNCHANGED fileOpen
         /\ UNCHANGED lost
    ELSE /\ lost' = lost \cup (Elems(buf) \ Elems(written))
         /\ UNCHANGED <<written, bytes, fileOpen>>

\* The next buffer of the batch, in the loop or after it.
Write ==
  /\ At("write") \/ At("drain")
  /\ wi < Len(toWrite)
  /\ WriteToFile(toWrite[wi + 1])
  /\ wi' = wi + 1
  /\ UNCHANGED <<front, new1, new2, toWrite, running, pc, control, crashed,
                 appended, dropped>>

Written ==
  /\ At("write") \/ At("drain")
  /\ wi = Len(toWrite)
  /\ pc' = IF pc = "write" THEN "recycle" ELSE "close"
  /\ UNCHANGED <<front, file, back, running, control, crashed, appended,
                 dropped>>

\* The last two buffers are reset and kept for the next swap; any others stay
\* in buffersToWrite.
Recycle ==
  /\ At("recycle")
  /\ LET n == Len(toWrite) IN
       toWrite' = SubSeq(toWrite, 1, IF n > 1 THEN n - 2 ELSE 0)
  /\ new1' = << >>
  /\ new2' = << >>
  /\ wi' = 0
  /\ pc' = "while"
  /\ UNCHANGED <<front, file, running, control, crashed, appended, dropped>>

MutantFinalTakeFullOnly ==
  /\ At("final")
  /\ toWrite' = buffers
  /\ buffers' = toWrite
  /\ current' = NullPtr
  /\ wi' = 0
  /\ pc' = "drain"
  /\ UNCHANGED <<next, file, new1, new2, running, control, crashed, appended,
                 dropped>>

\* running_ is false: the last swap leaves no current buffer behind.
FinalTake ==
  /\ At("final")
  /\ toWrite' = Append(buffers, current)
  /\ buffers' = toWrite
  /\ current' = NullPtr
  /\ wi' = 0
  /\ pc' = "drain"
  /\ UNCHANGED <<next, file, new1, new2, running, control, crashed, appended,
                 dropped>>

Close ==
  /\ At("close")
  /\ fileOpen' = FALSE
  /\ pc' = "exited"
  /\ UNCHANGED <<front, bytes, written, lost, back, running, control, crashed,
                 appended, dropped>>

-----------------------------------------------------------------------------
Back ==
  \/ While
  \/ Wait
  \/ Take
  \/ Drop
  \/ Write
  \/ Written
  \/ Recycle
  \/ FinalTake
  \/ Close

Next == Start \/ Stop \/ Join \/ Back \/ AppendCrashes
          \/ \E l \in Lines : AppendLine(l)

Spec == Init /\ [][Next]_vars

\* The back end is scheduled and wait_for times out; nobody has to log or to
\* call stop().
FairSpec == Spec /\ WF_vars(Back) /\ WF_vars(Join)

-----------------------------------------------------------------------------
\* A line the logger is done with.
Done == Elems(written) \cup dropped \cup lost

PtrLines(b) == IF b = NullPtr THEN {} ELSE Elems(b)

\* The lines on their way: in the front buffers or in the unwritten rest of
\* the batch.
InFlight ==
  PtrLines(current) \cup LinesOf(buffers)
    \cup UNION {Elems(toWrite[i]) : i \in (wi + 1)..Len(toWrite)}

\* No line falls between the buffers while they are swapped, recycled and
\* written, whatever the threads append in between.
NoLineLost == \A l \in Elems(appended) : l \in Done \cup InFlight

\* Where the back end may hold null buffers, and how far the batch is written.
BackInv ==
  /\ current = NullPtr <=> pc \in {"drain", "close", "exited"}
  /\ pc \in {"while", "lock", "waiting", "final"} => new1 = << >> /\ new2 = << >>
  /\ next \in {NullPtr, << >>}
  /\ pc \in {"recycle", "close", "exited"} => wi = Len(toWrite)
  /\ pc \in {"none", "while", "lock", "waiting", "drop", "final"} => wi = 0
  /\ pc \in {"drop", "write", "recycle"} => toWrite # << >>

\* What the back end leaves in buffersToWrite, and later in buffers_, when it
\* recycles only two buffers, is already done with.
LeftoverInv ==
  /\ \A i \in 1..wi : Elems(toWrite[i]) \subseteq Done
  /\ pc \in {"none", "while", "lock", "waiting", "final"}
       => LinesOf(toWrite) \subseteq Done
  /\ pc \in {"drain", "close", "exited"} => LinesOf(buffers) \subseteq Done

\* The lines of the front buffer are new: a recycled buffer brings none back.
FreshInv ==
  /\ Done \cup LinesOf(buffers) \cup LinesOf(toWrite) \cup PtrLines(current)
       \subseteq Elems(appended)
  /\ PtrLines(current)
       \cap (Done \cup LinesOf(buffers) \cup LinesOf(toWrite)) = {}

\* start() comes first, and only stop() ends the thread.
ControlInv ==
  /\ pc = "none" <=> control = "created"
  /\ pc = "none" => lost = {}
  /\ running <=> control = "started"
  /\ pc \in {"final", "drain", "close", "exited"} => control \in {"join", "stopped"}
  /\ control = "stopped" => pc = "exited"

\* append() meets a null buffer only once stop() has been called, and a line
\* misses the file only when a file could not be opened.
CrashInv ==
  /\ crashed => control \in {"join", "stopped"}
  /\ lost # {} => ~fileOpen

\* What the buffers hold, inductive by itself.
BufferInv ==
  /\ TypeOK
  /\ BackInv
  /\ LeftoverInv
  /\ FreshInv
  /\ ControlInv
  /\ CrashInv
  /\ NoLineLost

\* The order of the log: of two lines, of the lines in a buffer, of the lines
\* in two sets that are not done with, and of the lines in a row of buffers.
Precedes(log, x, y) == \E i, j \in 1..Len(log) : i < j /\ log[i] = x /\ log[j] = y
InOrder(log, buf) == \A m, n \in 1..Len(buf) : m < n => Precedes(log, buf[m], buf[n])
Ahead(log, done, S, T) == \A x \in S \ done : \A y \in T \ done : Precedes(log, x, y)
Sorted(log, done, bufs) ==
  \A k \in 1..Len(bufs) :
    /\ InOrder(log, bufs[k])
    /\ \A n \in 1..Len(bufs) : k < n => Ahead(log, done, Elems(bufs[k]), Elems(bufs[n]))

\* The lines done with are the oldest ones.
OldestDone(log, done) ==
  \A i, j \in 1..Len(log) : i < j /\ log[j] \in done => log[i] \in done

\* They are, and the rest passes through the batch, buffers_ and
\* currentBuffer_ in the order of append().
OrderInv ==
  /\ \A i, j \in 1..Len(appended) : appended[i] = appended[j] => i = j
  /\ OldestDone(appended, Done)
  /\ Sorted(appended, Done, toWrite)
  /\ Sorted(appended, Done, buffers)
  /\ current # NullPtr => InOrder(appended, current)
  /\ Ahead(appended, Done, LinesOf(buffers), PtrLines(current))
  /\ Ahead(appended, Done, LinesOf(toWrite), LinesOf(buffers) \cup PtrLines(current))

\* The inductive invariant.
LogInv == BufferInv /\ OrderInv

\* stop() waits until the log is complete: every line appended before is in
\* the file, unless it was dropped or there was no file.
StopCompletesLog ==
  control = "stopped" => \A l \in Elems(appended) : l \in Done

\* x stands in the file before any y.
Leads(w, x, y) == \E p \in 1..Len(w) : w[p] = x /\ \A q \in 1..p : w[q] # y

\* A line is written before the lines that were appended after it, however
\* the batches are cut (repetitions apart), or it was dropped.
FirstWritesInOrder ==
  \A i, j \in 1..Len(appended) :
    i < j /\ appended[j] \in Elems(written)
      => \/ appended[i] \in dropped
         \/ Leads(written, appended[i], appended[j])

\* A buffer that goes back to the front end brings no old line with it.
RecycledIsEmpty == PtrLines(current) \cap Done = {}

\* The periodic flush: every line reaches the file in the end.
AppendedIsWritten ==
  \A l \in Lines :
    (l \in Elems(appended) /\ pc # "none") ~> (l \in Done \/ crashed)

-----------------------------------------------------------------------------
\* What the comments say and the code does not do.

\* AsyncLogging.cpp, threadFunc: buffers are reset before they are reused so
\* that no line is logged twice.
WrittenOnce ==
  \A p, q \in 1..Len(written) : p # q => written[p] # written[q]
=============================================================================
