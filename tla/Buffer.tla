------------------------------- MODULE Buffer -------------------------------
(***************************************************************************)
(* reactor/Buffer: a vector with a read and a write index.  buf is the     *)
(* vector as a function on 0..size-1; what lies outside the indices is     *)
(* kept, as it is in memory.                                               *)
(***************************************************************************)
EXTENDS Integers, Sequences

CONSTANTS
  Bytes,
  Zero,                   \* what resize() fills new elements with
  InitialSize,            \* initial_size
  ExtraBuf,               \* sizeof(extrabuf)
  Chunks,                 \* data that is appended or received
  Lengths                 \* lengths passed to retrieve()

BufferAssumption ==
  /\ Zero \in Bytes
  /\ InitialSize \in Nat
  /\ ExtraBuf \in Nat
  /\ Chunks \subseteq Seq(Bytes)
  /\ Lengths \subseteq Nat

VARIABLES
  buf, size,              \* buf_ and buf_.size()
  readIndex,              \* read_index_
  writeIndex              \* write_index_

vars == <<buf, size, readIndex, writeIndex>>

ReadableBytes == writeIndex - readIndex
WritableBytes == size - writeIndex

Init ==
  /\ size = InitialSize
  /\ buf = [i \in 0..(InitialSize - 1) |-> Zero]
  /\ readIndex = 0
  /\ writeIndex = 0

\* The vector b, resized to n, with d copied to position at.
Stored(b, n, at, d) ==
  [i \in 0..(n - 1) |->
     IF at <= i /\ i < at + Len(d) THEN d[i - at + 1]
     ELSE IF i \in DOMAIN b THEN b[i] ELSE Zero]

MutantAppendAt(b, at, d) ==
  /\ size' = size
  /\ buf' = Stored(b, size, at, d)
  /\ writeIndex' = at + Len(d)
  /\ UNCHANGED readIndex

\* ensureWritableBytes and append, on vector b with write index at.
AppendAt(b, at, d) ==
  /\ size' = IF size - at < Len(d) THEN at + Len(d) ELSE size
  /\ buf' = Stored(b, size', at, d)
  /\ writeIndex' = at + Len(d)
  /\ UNCHANGED readIndex

Append_(d) == AppendAt(buf, writeIndex, d)

MutantReadFd(d) ==
  /\ Len(d) <= WritableBytes + ExtraBuf
  /\ LET first == IF Len(d) <= WritableBytes THEN Len(d) ELSE WritableBytes IN
       AppendAt(Stored(buf, size, writeIndex, SubSeq(d, 1, first)), writeIndex + first,
                SubSeq(d, 1, Len(d) - first))

\* readFd: readv fills the writable part first and extrabuf with the rest,
\* which is appended.
ReadFd(d) ==
  /\ Len(d) <= WritableBytes + ExtraBuf
  /\ LET first == IF Len(d) < WritableBytes THEN Len(d) ELSE WritableBytes IN
       AppendAt(Stored(buf, size, writeIndex, SubSeq(d, 1, first)), writeIndex + first,
                SubSeq(d, first + 1, Len(d)))

RetrieveAll ==
  /\ readIndex' = 0
  /\ writeIndex' = 0
  /\ UNCHANGED <<buf, size>>

\* retrieve, and retrieveAsString behind it.
Retrieve(len) ==
  IF len < ReadableBytes
    THEN readIndex' = readIndex + len /\ UNCHANGED <<buf, size, writeIndex>>
    ELSE RetrieveAll

Next ==
  \/ \E d \in Chunks : Append_(d) \/ ReadFd(d)
  \/ \E len \in Lengths : Retrieve(len)

Spec == Init /\ [][Next]_vars

-----------------------------------------------------------------------------
\* The indices stay in order and inside the vector.
BufferInv ==
  /\ size \in Nat
  /\ buf \in [0..(size - 1) -> Bytes]
  /\ readIndex \in Nat
  /\ writeIndex \in Nat
  /\ readIndex <= writeIndex
  /\ writeIndex <= size

\* What can be read.
Content == [i \in 1..ReadableBytes |-> buf[readIndex + i - 1]]

\* Whatever is appended, received in two parts and consumed in pieces, the
\* buffer is a queue of bytes.
Q == INSTANCE ByteQueue WITH content <- Content
QueueSpec == Q!Spec
=============================================================================
