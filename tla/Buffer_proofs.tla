--------------------------- MODULE Buffer_proofs ---------------------------
(* Proofs about Buffer, for every choice of its constants. *)
EXTENDS Buffer, SequenceTheorems, TLAPS

\* Copying into a vector: the result is a vector
LEMMA StoredIsVector ==
  ASSUME Zero \in Bytes, NEW m \in Nat, NEW b \in [0..(m - 1) -> Bytes], NEW n \in Nat,
         NEW at \in Nat, NEW d \in Seq(Bytes), at <= m, at + Len(d) <= n
  PROVE  Stored(b, n, at, d) \in [0..(n - 1) -> Bytes]
<1>1. Len(d) \in Nat /\ DOMAIN b = 0..(m - 1)
  OBVIOUS
<1> DEFINE elem(i) == IF at <= i /\ i < at + Len(d) THEN d[i - at + 1]
                      ELSE IF i \in DOMAIN b THEN b[i] ELSE Zero
<1>2. ASSUME NEW i \in 0..(n - 1) PROVE elem(i) \in Bytes
  <2>1. CASE at <= i /\ i < at + Len(d)
    <3>1. i - at + 1 \in 1..Len(d)
      BY <1>1, <2>1
    <3>2. d[i - at + 1] \in Bytes
      BY <3>1
    <3> QED
      BY <2>1, <3>2
  <2>2. CASE ~(at <= i /\ i < at + Len(d))
    BY <1>1, <2>2
  <2> QED
    BY <2>1, <2>2
<1>3. Stored(b, n, at, d) = [i \in 0..(n - 1) |-> elem(i)]
  BY DEF Stored
<1> HIDE DEF elem
<1> QED
  BY <1>2, <1>3

\* and holds the data at its place.
LEMMA StoredHolds ==
  ASSUME Zero \in Bytes, NEW m \in Nat, NEW b \in [0..(m - 1) -> Bytes], NEW n \in Nat,
         NEW at \in Nat, NEW d \in Seq(Bytes), at <= m, at + Len(d) <= n,
         NEW j \in 1..Len(d)
  PROVE  Stored(b, n, at, d)[at + j - 1] = d[j]
<1>1. Len(d) \in Nat
  OBVIOUS
<1>2. at + j - 1 \in 0..(n - 1) /\ at <= at + j - 1 /\ at + j - 1 < at + Len(d)
      /\ (at + j - 1) - at + 1 = j
  BY <1>1
<1> QED
  BY <1>2 DEF Stored

\* ensureWritableBytes and the copy keep the indices inside the vector and
\* move no readable byte.
LEMMA AppendAtFacts ==
  ASSUME BufferAssumption, BufferInv, NEW b \in [0..(size - 1) -> Bytes], NEW at \in Nat,
         writeIndex <= at, at <= size, NEW d \in Seq(Bytes), AppendAt(b, at, d)
  PROVE  /\ BufferInv'
         /\ readIndex' = readIndex
         /\ writeIndex' = at + Len(d)
         /\ \A i \in 0..(at - 1) : buf'[i] = b[i]
         /\ \A j \in 1..Len(d) : buf'[at + j - 1] = d[j]
<1>1. Len(d) \in Nat /\ size \in Nat
  BY DEF BufferInv
<1>2. size' \in Nat /\ at + Len(d) <= size'
  BY <1>1 DEF AppendAt
<1>3. buf' = Stored(b, size', at, d) /\ writeIndex' = at + Len(d) /\ readIndex' = readIndex
  BY DEF AppendAt
<1>4. ASSUME NEW n \in Nat, at + Len(d) <= n
      PROVE  /\ Stored(b, n, at, d) \in [0..(n - 1) -> Bytes]
             /\ \A i \in 0..(at - 1) : Stored(b, n, at, d)[i] = b[i]
             /\ \A j \in 1..Len(d) : Stored(b, n, at, d)[at + j - 1] = d[j]
  <2>1. Zero \in Bytes
    BY DEF BufferAssumption
  <2>2. PICK m \in Nat : m = size
    BY <1>1
  <2>3. b \in [0..(m - 1) -> Bytes] /\ at <= m
    BY <2>2
  <2>4. Stored(b, n, at, d) \in [0..(n - 1) -> Bytes]
    BY <1>4, <2>1, <2>3, StoredIsVector
  <2>5. ASSUME NEW i \in 0..(at - 1) PROVE Stored(b, n, at, d)[i] = b[i]
    <3>1. i \in 0..(n - 1) /\ ~(at <= i) /\ i \in DOMAIN b
      BY <1>1, <1>4, <2>2, <2>3
    <3> QED
      BY <3>1 DEF Stored
  <2>6. ASSUME NEW j \in 1..Len(d) PROVE Stored(b, n, at, d)[at + j - 1] = d[j]
    BY <1>4, <2>1, <2>3, StoredHolds
  <2> QED
    BY <2>4, <2>5, <2>6
<1>5. /\ buf' \in [0..(size' - 1) -> Bytes]
      /\ \A i \in 0..(at - 1) : buf'[i] = b[i]
      /\ \A j \in 1..Len(d) : buf'[at + j - 1] = d[j]
  BY <1>2, <1>3, <1>4
<1>6. readIndex \in Nat /\ writeIndex \in Nat /\ readIndex <= writeIndex
  BY DEF BufferInv
<1>7. BufferInv'
  <2>1. writeIndex' \in Nat /\ readIndex' \in Nat /\ readIndex' <= writeIndex' /\ writeIndex' <= size'
    BY <1>1, <1>2, <1>3, <1>6
  <2> QED
    BY <1>2, <1>5, <2>1, Zenon DEF BufferInv
<1> QED
  BY <1>3, <1>5, <1>7

\* The content is the sequence of the readable bytes.
LEMMA ContentFacts ==
  ASSUME BufferInv
  PROVE  /\ ReadableBytes \in Nat
         /\ Content \in Seq(Bytes)
         /\ Len(Content) = ReadableBytes
         /\ \A i \in 1..ReadableBytes : Content[i] = buf[readIndex + i - 1]
<1> DEFINE n == ReadableBytes
<1>1. n \in Nat /\ readIndex \in Nat /\ writeIndex = readIndex + n
  BY DEF BufferInv, ReadableBytes
<1>2. \A i \in 1..n : buf[readIndex + i - 1] \in Bytes
  <2>1. \A i \in 1..n : readIndex + i - 1 \in 0..(size - 1)
    BY <1>1 DEF BufferInv
  <2> QED
    BY <2>1 DEF BufferInv
<1>3. Content = [i \in 1..n |-> buf[readIndex + i - 1]]
  BY DEF Content
<1> HIDE DEF n
<1>4. Content \in Seq(Bytes) /\ Len(Content) = n
      /\ \A i \in 1..n : Content[i] = buf[readIndex + i - 1]
  BY <1>1, <1>2, <1>3
<1> QED
  BY <1>1, <1>4 DEF n

\* When the readable bytes stay where they are and the bytes of d follow them,
\* the content is extended by d.
LEMMA ContentExtended ==
  ASSUME BufferInv, NEW d \in Seq(Bytes),
         readIndex' = readIndex, writeIndex' = writeIndex + Len(d),
         \A i \in 0..(writeIndex - 1) : buf'[i] = buf[i],
         \A j \in 1..Len(d) : buf'[writeIndex + j - 1] = d[j]
  PROVE  Content' = Content \o d
<1> DEFINE n == ReadableBytes
<1>1. n \in Nat /\ Len(d) \in Nat /\ readIndex \in Nat /\ writeIndex = readIndex + n
  BY DEF BufferInv, ReadableBytes
<1>2. ReadableBytes' = n + Len(d)
  BY <1>1 DEF ReadableBytes
<1>3. Content \in Seq(Bytes) /\ Len(Content) = n
      /\ \A i \in 1..n : Content[i] = buf[readIndex + i - 1]
  BY ContentFacts
<1>4. Content' = [i \in 1..(n + Len(d)) |-> buf'[readIndex + i - 1]]
  BY <1>2 DEF Content
<1> HIDE DEF n
<1>5. ASSUME NEW i \in 1..(n + Len(d))
      PROVE  buf'[readIndex + i - 1] = (Content \o d)[i]
  <2>1. CASE i <= n
    <3>1. i \in 1..n /\ readIndex + i - 1 \in 0..(writeIndex - 1)
      BY <1>1, <2>1
    <3>2. (Content \o d)[i] = Content[i]
      BY <1>3, <3>1
    <3>3. buf'[readIndex + i - 1] = buf[readIndex + i - 1]
      BY <3>1
    <3> QED
      BY <1>3, <3>1, <3>2, <3>3
  <2>2. CASE ~(i <= n)
    <3>1. i - n \in 1..Len(d) /\ writeIndex + (i - n) - 1 = readIndex + i - 1
      BY <1>1, <2>2
    <3>2. (Content \o d)[i] = d[i - n]
      BY <1>1, <1>3, <2>2
    <3>3. buf'[writeIndex + (i - n) - 1] = d[i - n]
      BY <3>1
    <3> QED
      BY <3>1, <3>2, <3>3
  <2> QED
    BY <2>1, <2>2
<1>6. Content \o d = [i \in 1..(n + Len(d)) |-> (Content \o d)[i]]
  <2>1. Content \o d \in Seq(Bytes) /\ Len(Content \o d) = n + Len(d)
    BY <1>3, ConcatProperties
  <2> DEFINE e == Content \o d
  <2> HIDE DEF e
  <2>2. e \in Seq(Bytes) => e = [i \in 1..Len(e) |-> e[i]]
    OBVIOUS
  <2> QED
    BY <2>1, <2>2 DEF e
<1> QED
  BY <1>4, <1>5, <1>6

\* The writes of append and readFd extend the content.
LEMMA WriteStep ==
  ASSUME BufferAssumption, BufferInv, NEW d \in Seq(Bytes), Append_(d) \/ ReadFd(d)
  PROVE  BufferInv' /\ Content' = Content \o d
<1>1. Len(d) \in Nat /\ Zero \in Bytes
  BY DEF BufferAssumption
<1>2. /\ size \in Nat /\ buf \in [0..(size - 1) -> Bytes]
      /\ writeIndex \in Nat /\ writeIndex <= size
  BY DEF BufferInv
<1>3. CASE Append_(d)
  <2>1. AppendAt(buf, writeIndex, d)
    BY <1>3 DEF Append_
  <2>2. writeIndex <= writeIndex
    BY <1>2
  <2>3. /\ BufferInv'
        /\ readIndex' = readIndex
        /\ writeIndex' = writeIndex + Len(d)
        /\ \A i \in 0..(writeIndex - 1) : buf'[i] = buf[i]
        /\ \A j \in 1..Len(d) : buf'[writeIndex + j - 1] = d[j]
    BY <1>1, <1>2, <2>1, <2>2, AppendAtFacts
  <2> QED
    BY <1>1, <2>3, ContentExtended
<1>4. CASE ReadFd(d)
  <2> DEFINE f == IF Len(d) < WritableBytes THEN Len(d) ELSE WritableBytes
             b == Stored(buf, size, writeIndex, SubSeq(d, 1, f))
             e == SubSeq(d, f + 1, Len(d))
  <2>1. AppendAt(b, writeIndex + f, e)
    BY <1>4 DEF ReadFd
  <2>2. f \in 0..Len(d) /\ writeIndex + f <= size
    BY <1>1, <1>2 DEF WritableBytes
  <2> HIDE DEF f
  <2> DEFINE p == SubSeq(d, 1, f)
             at == writeIndex + f
  <2>3. f \in Nat /\ f <= Len(d) /\ at \in Nat /\ at <= size /\ writeIndex <= at
    BY <1>1, <1>2, <2>2
  <2>4. p \in Seq(Bytes) /\ Len(p) = f /\ \A j \in 1..f : p[j] = d[j]
    BY <1>1, <2>3
  <2>5. e \in Seq(Bytes) /\ Len(e) = Len(d) - f /\ \A j \in 1..(Len(d) - f) : e[j] = d[f + j]
    BY <1>1, <2>3
  <2>6. b = Stored(buf, size, writeIndex, p)
    OBVIOUS
  <2> HIDE DEF p, e, b, at
  <2>7. /\ b \in [0..(size - 1) -> Bytes]
        /\ \A j \in 1..f : b[writeIndex + j - 1] = d[j]
    <3>1. PICK m \in Nat : m = size
      BY <1>2
    <3>2. PICK w \in Nat : w = writeIndex
      BY <1>2
    <3>3. buf \in [0..(m - 1) -> Bytes] /\ w <= m /\ w + Len(p) <= m /\ b = Stored(buf, m, w, p)
      BY <1>2, <2>3, <2>4, <2>6, <3>1, <3>2 DEF at
    <3>4. b \in [0..(m - 1) -> Bytes]
      BY <1>1, <2>4, <3>3, StoredIsVector
    <3>5. ASSUME NEW j \in 1..Len(p) PROVE b[w + j - 1] = p[j]
      <4>1. Stored(buf, m, w, p)[w + j - 1] = p[j]
        BY <1>1, <2>4, <3>3, StoredHolds, Zenon
      <4> QED
        BY <3>3, <4>1, Zenon
    <3> QED
      BY <2>4, <3>1, <3>2, <3>4, <3>5
  <2>8. ASSUME NEW i \in 0..(writeIndex - 1) PROVE b[i] = buf[i]
    <3>1. i \in 0..(size - 1) /\ ~(writeIndex <= i) /\ i \in DOMAIN buf
      BY <1>2
    <3> QED
      BY <2>6, <3>1 DEF Stored
  <2>9. /\ BufferInv'
        /\ readIndex' = readIndex
        /\ writeIndex' = at + Len(e)
        /\ \A i \in 0..(at - 1) : buf'[i] = b[i]
        /\ \A j \in 1..Len(e) : buf'[at + j - 1] = e[j]
    <3>1. AppendAt(b, at, e)
      BY <2>1 DEF at
    <3> QED
      BY <2>3, <2>5, <2>7, <3>1, AppendAtFacts
  <2>10. writeIndex' = writeIndex + Len(d)
    BY <1>1, <1>2, <2>3, <2>5, <2>9 DEF at
  <2>11. ASSUME NEW i \in 0..(writeIndex - 1) PROVE buf'[i] = buf[i]
    <3>1. i \in 0..(at - 1)
      BY <1>2, <2>3
    <3> QED
      BY <2>8, <2>9, <3>1
  <2>12. ASSUME NEW j \in 1..Len(d) PROVE buf'[writeIndex + j - 1] = d[j]
    <3>1. CASE j <= f
      <4>1. j \in 1..f /\ writeIndex + j - 1 \in 0..(at - 1)
        BY <1>1, <1>2, <2>3, <3>1 DEF at
      <4> QED
        BY <2>7, <2>9, <4>1
    <3>2. CASE ~(j <= f)
      <4>1. /\ j - f \in 1..(Len(d) - f) /\ at + (j - f) - 1 = writeIndex + j - 1
            /\ f + (j - f) = j
        BY <1>1, <1>2, <2>3, <3>2 DEF at
      <4>2. buf'[at + (j - f) - 1] = e[j - f] /\ e[j - f] = d[f + (j - f)]
        BY <2>5, <2>9, <4>1
      <4> QED
        BY <4>1, <4>2
    <3> QED
      BY <3>1, <3>2
  <2> QED
    BY <1>1, <2>9, <2>10, <2>11, <2>12, ContentExtended
<1> QED
  BY <1>3, <1>4

\* retrieve drops the first bytes.
LEMMA RetrieveStep ==
  ASSUME BufferInv, NEW len \in Nat, Retrieve(len)
  PROVE  /\ BufferInv'
         /\ len <= Len(Content) => Content' = SubSeq(Content, len + 1, Len(Content))
         /\ \E n \in 0..Len(Content) : Content' = SubSeq(Content, n + 1, Len(Content))
<1> DEFINE r == ReadableBytes
<1>1. len \in Nat
  OBVIOUS
<1>2. /\ r \in Nat /\ Content \in Seq(Bytes) /\ Len(Content) = r
      /\ \A i \in 1..r : Content[i] = buf[readIndex + i - 1]
  BY ContentFacts
<1>3. readIndex \in Nat /\ writeIndex \in Nat /\ writeIndex = readIndex + r
  BY DEF BufferInv, ReadableBytes
<1>4. CASE len < r
  <2>1. readIndex' = readIndex + len /\ UNCHANGED <<buf, size, writeIndex>>
    BY <1>4 DEF Retrieve
  <2>2. BufferInv'
    BY <1>1, <1>2, <1>3, <1>4, <2>1 DEF BufferInv
  <2>3. ReadableBytes' = r - len
    BY <1>1, <1>2, <1>3, <2>1 DEF ReadableBytes
  <2>4. Content' = [i \in 1..(r - len) |-> buf[readIndex + len + i - 1]]
    BY <2>1, <2>3 DEF Content
  <2> HIDE DEF r
  <2>5. \A i \in 1..(r - len) : /\ i + len \in 1..r
                                /\ Content[i + len] = buf[readIndex + len + i - 1]
    <3>1. \A i \in 1..(r - len) : i + len \in 1..r /\ readIndex + (i + len) - 1 = readIndex + len + i - 1
      BY <1>1, <1>2, <1>3, <1>4
    <3> QED
      BY <1>2, <3>1
  <2>6. Content' = [i \in 1..(r - len) |-> Content[i + len]]
    BY <2>4, <2>5
  <2> DEFINE c == Content
             t == SubSeq(Content, len + 1, r)
  <2>7. t \in Seq(Bytes) /\ Len(t) = r - len /\ \A i \in 1..(r - len) : t[i] = Content[i + len]
    <3>1. c \in Seq(Bytes) /\ Len(c) = r
      BY <1>2
    <3> HIDE DEF c
    <3>2. SubSeq(c, len + 1, r) \in Seq(Bytes) /\ Len(SubSeq(c, len + 1, r)) = r - len
          /\ \A i \in 1..(r - len) : SubSeq(c, len + 1, r)[i] = c[i + len]
      BY <1>1, <1>2, <1>4, <3>1
    <3> QED
      BY <3>2 DEF c
  <2> HIDE DEF t
  <2>8. t = [i \in 1..(r - len) |-> t[i]]
    BY <2>7
  <2>9. Content' = t
    BY <2>6, <2>7, <2>8
  <2>10. len \in 0..Len(Content) /\ Content' = SubSeq(Content, len + 1, Len(Content))
    BY <1>1, <1>2, <1>4, <2>9 DEF t
  <2> QED
    BY <2>2, <2>10
<1>5. CASE ~(len < r)
  <2>1. readIndex' = 0 /\ writeIndex' = 0 /\ UNCHANGED <<buf, size>>
    BY <1>5 DEF Retrieve, RetrieveAll
  <2>2. BufferInv'
    BY <2>1 DEF BufferInv
  <2>3. ReadableBytes' = 0
    BY <2>1 DEF ReadableBytes
  <2>4. Content' = << >>
    BY <2>3 DEF Content
  <2> HIDE DEF r
  <2>5. SubSeq(Content, r + 1, r) = << >>
    BY <1>2, SubSeqEmpty
  <2>6. r \in 0..Len(Content) /\ (len <= Len(Content) => len = r)
    BY <1>2, <1>5
  <2> QED
    BY <1>2, <2>2, <2>4, <2>5, <2>6
<1> QED
  BY <1>4, <1>5

\* retrieveAll leaves nothing to read.
LEMMA RetrieveAllStep ==
  ASSUME BufferInv, RetrieveAll
  PROVE  BufferInv' /\ ReadableBytes' = 0
  BY DEF BufferInv, RetrieveAll, ReadableBytes

\* Buffer.h: read_index_ <= write_index_ <= buf_.size() after every call, so
\* readableBytes() and writableBytes() never wrap around and peek() and the
\* copies stay inside the vector.
THEOREM BufferIndicesOrdered ==
  ASSUME BufferAssumption
  PROVE  Spec => []BufferInv
<1>1. Init => BufferInv
  BY DEF BufferAssumption, Init, BufferInv
<1>2. BufferInv /\ [Next]_vars => BufferInv'
  <2>1. CASE UNCHANGED vars
    BY <2>1 DEF vars, BufferInv
  <2>2. CASE Next
    BY <2>2, WriteStep, RetrieveStep DEF Next, BufferAssumption
  <2> QED
    BY <2>1, <2>2
<1> QED
  BY <1>1, <1>2, PTL DEF Spec

\* The buffer implements the queue of bytes: append and readFd, whose data may
\* arrive half in the vector and half in extrabuf, put bytes at the end in
\* order; retrieve takes them from the front; growth loses none.
THEOREM ImplementsByteQueue ==
  ASSUME BufferAssumption
  PROVE  Spec => QueueSpec
<1>1. Init => Q!Init
  <2>1. Init => ReadableBytes = 0
    BY DEF Init, ReadableBytes
  <2> QED
    BY <2>1 DEF Content, Q!Init
<1>2. BufferInv /\ [Next]_vars => [Q!Next]_Content
  <2>1. CASE UNCHANGED vars
    BY <2>1 DEF vars, Content, ReadableBytes
  <2>2. ASSUME BufferInv, NEW d \in Chunks, Append_(d) \/ ReadFd(d) PROVE Q!Next
    <3>1. d \in Seq(Bytes)
      BY DEF BufferAssumption
    <3>2. Content' = Content \o d
      BY <2>2, <3>1, WriteStep
    <3> QED
      BY <3>1, <3>2 DEF Q!Next, Q!Put
  <2>3. ASSUME BufferInv, NEW len \in Lengths, Retrieve(len) PROVE Q!Next
    BY <2>3, RetrieveStep DEF BufferAssumption, Q!Next, Q!Take
  <2> QED
    BY <2>1, <2>2, <2>3 DEF Next
<1> QED
  BY <1>1, <1>2, BufferIndicesOrdered, PTL DEF Spec, QueueSpec, Q!Spec
=============================================================================
