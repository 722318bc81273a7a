----------------------------- MODULE Chat_proofs -----------------------------
(* Proofs about Chat, for every choice of its constants. *)
EXTENDS Chat, Buffer_proofs, NaturalsInduction, WellFoundedInduction

\* What is proved of a Buffer, for the output buffer.
O == INSTANCE Buffer_proofs WITH buf <- obuf, size <- osize, readIndex <- oread,
                                 writeIndex <- owrite

\* append of the output buffer.
LEMMA OutAppend ==
  ASSUME BufferAssumption, Out!BufferInv, NEW d \in Seq(Bytes), Out!Append_(d)
  PROVE  Out!BufferInv' /\ Out!Content' = Out!Content \o d
<1>1. O!BufferAssumption /\ O!BufferInv /\ O!Append_(d)
  BY DEF O!BufferAssumption, BufferAssumption, O!BufferInv, Out!BufferInv, O!Append_,
         Out!Append_, O!AppendAt, Out!AppendAt, O!Stored, Out!Stored
<1>2. O!BufferInv' /\ O!Content' = O!Content \o d
  BY <1>1, O!WriteStep
<1> QED
  BY <1>2 DEF O!BufferInv, Out!BufferInv, O!Content, Out!Content, O!ReadableBytes,
              Out!ReadableBytes

\* retrieve of the output buffer.
LEMMA OutRetrieve ==
  ASSUME Out!BufferInv, NEW n \in Nat, n <= Len(Out!Content), Out!Retrieve(n)
  PROVE  Out!BufferInv' /\ Out!Content' = SubSeq(Out!Content, n + 1, Len(Out!Content))
<1>1. O!BufferInv /\ O!Retrieve(n) /\ n <= Len(O!Content)
  BY DEF O!BufferInv, Out!BufferInv, O!Retrieve, Out!Retrieve, O!RetrieveAll,
         Out!RetrieveAll, O!ReadableBytes, Out!ReadableBytes, O!Content, Out!Content
<1>2. O!BufferInv' /\ O!Content' = SubSeq(O!Content, n + 1, Len(O!Content))
  BY <1>1, O!RetrieveStep
<1> QED
  BY <1>2 DEF O!BufferInv, Out!BufferInv, O!Content, Out!Content, O!ReadableBytes,
              Out!ReadableBytes

\* What can be read from the output buffer.
LEMMA OutContent ==
  ASSUME Out!BufferInv
  PROVE  /\ Out!Content \in Seq(Bytes)
         /\ Len(Out!Content) = Out!ReadableBytes
         /\ Out!ReadableBytes \in Nat
<1>1. O!BufferInv
  BY DEF O!BufferInv, Out!BufferInv
<1>2. O!Content \in Seq(Bytes) /\ Len(O!Content) = O!ReadableBytes /\ O!ReadableBytes \in Nat
  BY <1>1, O!ContentFacts
<1> QED
  BY <1>2 DEF O!Content, Out!Content, O!ReadableBytes, Out!ReadableBytes

\* The output buffer when nobody touches it.
LEMMA OutSame ==
  ASSUME UNCHANGED output
  PROVE  Out!Content' = Out!Content /\ (Out!BufferInv => Out!BufferInv')
  BY DEF output, Out!BufferInv, Out!Content, Out!ReadableBytes

\* The same of the input buffer.
LEMMA InSame ==
  ASSUME UNCHANGED vars
  PROVE  /\ Content' = Content /\ ReadableBytes' = ReadableBytes
         /\ BufferInv => BufferInv'
  BY DEF vars, BufferInv, Content, ReadableBytes

\* An empty input buffer.
LEMMA NothingToRead ==
  ASSUME ReadableBytes = 0
  PROVE  Content = << >>
  BY DEF Content

-----------------------------------------------------------------------------
\* Concatenation as an operator, so that the provers see equations and not
\* elements.
Cat(x, y) == x \o y

\* Sequences of bytes can be regrouped.
LEMMA Regroup ==
  ASSUME NEW x \in Seq(Bytes), NEW y \in Seq(Bytes), NEW z \in Seq(Bytes)
  PROVE  Cat(x, y) \in Seq(Bytes) /\ Cat(Cat(x, y), z) = Cat(x, Cat(y, z))
<1>1. (x \o y) \o z = x \o (y \o z)
  OBVIOUS
<1>2. x \o y \in Seq(Bytes)
  OBVIOUS
<1> QED
  BY <1>1, <1>2 DEF Cat

\* What sendInLoop writes and what it buffers is the message, behind what was
\* buffered before.
LEMMA SendInOrder ==
  ASSUME NEW w \in Seq(Bytes), NEW c \in Seq(Bytes), NEW m \in Seq(Bytes),
         NEW n \in 0..Len(m), c # << >> => n = 0
  PROVE  (w \o SubSeq(m, 1, n)) \o (c \o SubSeq(m, n + 1, Len(m))) = (w \o c) \o m
<1> DEFINE h == SubSeq(m, 1, n)
           t == SubSeq(m, n + 1, Len(m))
<1>1. Len(m) \in Nat /\ 1 \in 1..(Len(m) + 1) /\ n \in (1 - 1)..Len(m) /\ Len(m) \in n..Len(m)
  OBVIOUS
<1>2. h \o t = m
  <2>1. SubSeq(m, 1, n) \o SubSeq(m, n + 1, Len(m)) = SubSeq(m, 1, Len(m))
    BY <1>1, ConcatAdjacentSubSeq
  <2> QED
    BY <2>1, SubSeqFull
<1>3. h \in Seq(Bytes) /\ t \in Seq(Bytes)
  OBVIOUS
<1>4. c # << >> => h = << >>
  BY <1>1
<1> HIDE DEF h, t
<1>5. h \o (c \o t) = c \o m
  <2>1. CASE c = << >>
    BY <1>2, <1>3, <2>1, ConcatEmptySeq
  <2>2. CASE c # << >>
    <3>1. h = << >> /\ t = m
      BY <1>2, <1>3, <1>4, <2>2, ConcatEmptySeq
    <3>2. c \o m \in Seq(Bytes)
      BY ConcatProperties
    <3> QED
      BY <3>1, <3>2, ConcatEmptySeq
  <2> QED
    BY <2>1, <2>2
<1>6. Cat(h, Cat(c, t)) = Cat(c, m)
  BY <1>5 DEF Cat
<1>7. Cat(Cat(w, h), Cat(c, t)) = Cat(w, Cat(h, Cat(c, t)))
  <2>1. Cat(c, t) \in Seq(Bytes)
    BY <1>3, Regroup
  <2> QED
    BY <1>3, <2>1, Regroup
<1>8. Cat(Cat(w, c), m) = Cat(w, Cat(c, m))
  BY Regroup
<1>9. Cat(Cat(w, h), Cat(c, t)) = Cat(Cat(w, c), m)
  BY <1>6, <1>7, <1>8
<1> QED
  BY <1>9 DEF h, t, Cat

\* The part handleWrite takes out of the buffer follows what is on the wire.
LEMMA WriteInOrder ==
  ASSUME NEW w \in Seq(Bytes), NEW c \in Seq(Bytes), NEW n \in 0..Len(c)
  PROVE  (w \o SubSeq(c, 1, n)) \o SubSeq(c, n + 1, Len(c)) = w \o c
<1> DEFINE h == SubSeq(c, 1, n)
           t == SubSeq(c, n + 1, Len(c))
<1>1. Len(c) \in Nat /\ 1 \in 1..(Len(c) + 1) /\ n \in (1 - 1)..Len(c) /\ Len(c) \in n..Len(c)
  OBVIOUS
<1>2. h \o t = c
  BY <1>1, ConcatAdjacentSubSeq, SubSeqFull
<1>3. h \in Seq(Bytes) /\ t \in Seq(Bytes)
  OBVIOUS
<1> HIDE DEF h, t
<1>4. Cat(Cat(w, h), t) = Cat(w, Cat(h, t))
  BY <1>3, Regroup
<1>5. Cat(h, t) = c
  BY <1>2 DEF Cat
<1>6. Cat(Cat(w, h), t) = Cat(w, c)
  BY <1>4, <1>5
<1> QED
  BY <1>6 DEF h, t, Cat

-----------------------------------------------------------------------------
\* What each step does to the bytes under way: receiving adds some, ...
LEMMA ReadPasses ==
  ASSUME BufferAssumption, BuffersInv, NEW d \in Chunks, HandleRead(d)
  PROVE  BuffersInv' /\ (MessageIntact => MessageIntact')
<1>1. d \in Seq(Bytes)
  BY DEF BufferAssumption
<1>2. /\ place = "poll" /\ place' = "callback" /\ ReadFd(d) /\ received' = received \o d
      /\ UNCHANGED <<output, msg, wire>>
  BY DEF HandleRead, AtRest
<1>3. BufferInv' /\ Content' = Content \o d
  BY <1>1, <1>2, WriteStep DEF BuffersInv
<1>4. Out!Content' = Out!Content /\ Out!BufferInv'
  BY <1>2, OutSame DEF BuffersInv
<1>5. Content = << >> /\ msg = << >> /\ wire \in Seq(Bytes) /\ Out!Content \in Seq(Bytes)
  BY <1>2, NothingToRead, OutContent DEF BuffersInv
<1>6. BuffersInv'
  BY <1>2, <1>3, <1>4, <1>5 DEF BuffersInv
<1>7. ASSUME MessageIntact PROVE MessageIntact'
  <2> DEFINE a == (wire \o Out!Content) \o msg
  <2>1. a \in Seq(Bytes)
    BY <1>5, ConcatProperties, ConcatEmptySeq
  <2>2. Content' = d /\ a \o Content = a
    BY <1>1, <1>3, <1>5, <2>1, ConcatEmptySeq
  <2>3. received = a
    BY <1>7, <2>2 DEF MessageIntact
  <2> QED
    BY <1>2, <1>4, <2>2, <2>3 DEF MessageIntact
<1> QED
  BY <1>6, <1>7

\* ... the callback takes all of them out of the input buffer, ...
LEMMA MessagePasses ==
  ASSUME BufferAssumption, BuffersInv, OnMessage
  PROVE  BuffersInv' /\ (MessageIntact => MessageIntact')
<1>1. /\ place = "callback" /\ place' = "send" /\ RetrieveAll /\ msg' = Content
      /\ UNCHANGED <<output, received, wire>>
  BY DEF OnMessage
<1>2. BufferInv' /\ ReadableBytes' = 0
  BY <1>1, RetrieveAllStep DEF BuffersInv
<1>3. Content' = << >>
  BY <1>2 DEF Content
<1>4. Out!Content' = Out!Content /\ Out!BufferInv'
  BY <1>1, OutSame DEF BuffersInv
<1>5. /\ msg = << >> /\ Content \in Seq(Bytes) /\ wire \in Seq(Bytes)
      /\ Out!Content \in Seq(Bytes)
  BY <1>1, ContentFacts, OutContent DEF BuffersInv
<1>6. BuffersInv'
  BY <1>1, <1>2, <1>4, <1>5 DEF BuffersInv
<1>7. ASSUME MessageIntact PROVE MessageIntact'
  <2> DEFINE a == wire \o Out!Content
  <2>1. a \in Seq(Bytes)
    BY <1>5, ConcatProperties
  <2> HIDE DEF a
  <2>2. a \o msg = a
    BY <1>5, <2>1, ConcatEmptySeq
  <2>3. received = a \o Content
    BY <1>7, <2>2 DEF MessageIntact, a
  <2>4. (a \o Content) \o << >> = a \o Content
    BY <1>5, <2>1, ConcatProperties, ConcatEmptySeq
  <2> QED
    BY <1>1, <1>3, <1>4, <2>3, <2>4 DEF MessageIntact, a
<1> QED
  BY <1>6, <1>7

\* ... sendInLoop passes them on to the socket and to the output buffer, ...
LEMMA SendPasses ==
  ASSUME BufferAssumption, BuffersInv, SendInLoop
  PROVE  BuffersInv' /\ (MessageIntact => MessageIntact')
<1>1. /\ place = "send" /\ place' = "poll" /\ msg' = << >>
      /\ UNCHANGED vars /\ received' = received
  BY DEF SendInLoop
<1>2. /\ msg \in Seq(Bytes) /\ wire \in Seq(Bytes) /\ Out!Content \in Seq(Bytes)
      /\ Out!ReadableBytes = Len(Out!Content) /\ Content = << >>
      /\ Out!BufferInv
  BY <1>1, OutContent, NothingToRead DEF BuffersInv
<1>3. PICK n \in 0..Len(msg) :
        /\ Out!ReadableBytes > 0 => n = 0
        /\ wire' = wire \o SubSeq(msg, 1, n)
        /\ IF n < Len(msg) THEN Out!Append_(SubSeq(msg, n + 1, Len(msg)))
                           ELSE UNCHANGED output
  BY DEF SendInLoop
<1> DEFINE t == SubSeq(msg, n + 1, Len(msg))
<1>4. t \in Seq(Bytes) /\ SubSeq(msg, 1, n) \in Seq(Bytes)
  BY <1>2
<1>5. Out!BufferInv' /\ Out!Content' = Out!Content \o t
  <2>1. CASE n < Len(msg)
    BY <1>2, <1>3, <1>4, <2>1, OutAppend
  <2>2. CASE ~(n < Len(msg))
    <3>1. t = << >>
      BY <1>2, <1>3, <2>2
    <3> QED
      BY <1>2, <1>3, <2>2, <3>1, OutSame, ConcatEmptySeq
  <2> QED
    BY <2>1, <2>2
<1>6. wire' \in Seq(Bytes)
  BY <1>2, <1>3, <1>4, ConcatProperties
<1>7. BuffersInv'
  BY <1>1, <1>5, <1>6, InSame DEF BuffersInv
<1>8. ASSUME MessageIntact PROVE MessageIntact'
  <2>1. Out!Content # << >> => n = 0
    <3>1. Out!Content # << >> => Len(Out!Content) > 0
      BY <1>2
    <3> QED
      BY <1>2, <1>3, <3>1
  <2>2. wire' \o Out!Content' = (wire \o Out!Content) \o msg
    <3>1. (wire \o SubSeq(msg, 1, n)) \o (Out!Content \o t) = (wire \o Out!Content) \o msg
      BY <1>2, <2>1, SendInOrder
    <3> QED
      BY <1>3, <1>5, <3>1
  <2> DEFINE a == (wire \o Out!Content) \o msg
  <2>3. a \in Seq(Bytes)
    BY <1>2, ConcatProperties
  <2>4. Content' = << >>
    BY <1>1, <1>2, InSame
  <2> HIDE DEF a
  <2>5. (a \o << >>) \o << >> = a /\ a \o << >> = a
    BY <2>3, ConcatEmptySeq
  <2>6. received = a
    BY <1>2, <1>8, <2>5 DEF MessageIntact, a
  <2> QED
    BY <1>1, <2>2, <2>4, <2>5, <2>6 DEF MessageIntact, a
<1> QED
  BY <1>7, <1>8

\* ... and handleWrite empties that.
LEMMA WritePasses ==
  ASSUME BufferAssumption, BuffersInv, HandleWrite
  PROVE  BuffersInv' /\ (MessageIntact => MessageIntact')
<1>1. UNCHANGED <<vars, place, msg, received>>
  BY DEF HandleWrite
<1>2. /\ wire \in Seq(Bytes) /\ Out!Content \in Seq(Bytes) /\ Out!BufferInv
      /\ Out!ReadableBytes = Len(Out!Content) /\ Len(Out!Content) \in Nat
  BY OutContent DEF BuffersInv
<1>3. PICK n \in 1..Out!ReadableBytes :
        wire' = wire \o SubSeq(Out!Content, 1, n) /\ Out!Retrieve(n)
  BY DEF HandleWrite
<1>4. n \in Nat /\ n <= Len(Out!Content) /\ n \in 0..Len(Out!Content)
  BY <1>2
<1>5. Out!BufferInv' /\ Out!Content' = SubSeq(Out!Content, n + 1, Len(Out!Content))
  BY <1>2, <1>3, <1>4, OutRetrieve
<1>6. wire' \in Seq(Bytes)
  <2> DEFINE c == Out!Content
  <2>1. c \in Seq(Bytes)
    BY <1>2
  <2> HIDE DEF c
  <2>2. n <= Len(c) => SubSeq(c, 1, n) \in Seq(Bytes)
    BY <1>4, <2>1
  <2> QED
    BY <1>2, <1>3, <1>4, <2>2, ConcatProperties DEF c
<1>7. BuffersInv'
  BY <1>1, <1>5, <1>6, InSame DEF BuffersInv
<1>8. wire' \o Out!Content' = wire \o Out!Content
  BY <1>2, <1>3, <1>4, <1>5, WriteInOrder
<1>9. MessageIntact => MessageIntact'
  BY <1>1, <1>8, InSame DEF MessageIntact
<1> QED
  BY <1>7, <1>9

\* Logging moves no byte.
LEMMA LoggingPasses ==
  ASSUME BuffersInv, UNCHANGED <<vars, output, place, msg, received, wire>>
  PROVE  BuffersInv' /\ (MessageIntact => MessageIntact')
<1>1. /\ Content' = Content /\ ReadableBytes' = ReadableBytes /\ BufferInv'
      /\ Out!Content' = Out!Content /\ Out!BufferInv'
  BY InSame, OutSame DEF BuffersInv
<1> QED
  BY <1>1 DEF BuffersInv, MessageIntact

\* One step of the connection's thread.
LEMMA ChatStep ==
  ASSUME BuffersInv, [ChatNext]_chatVars
  PROVE  BuffersInv' /\ (MessageIntact => MessageIntact')
<1>1. BufferAssumption
  BY ChatAssumption
<1>2. CASE \E d \in Chunks : HandleRead(d)
  BY <1>1, <1>2, ReadPasses
<1>3. CASE OnMessage
  BY <1>1, <1>3, MessagePasses
<1>4. CASE SendInLoop
  BY <1>1, <1>4, SendPasses
<1>5. CASE HandleWrite
  BY <1>1, <1>5, WritePasses
<1>6. CASE \E lv \in Levels, errno \in Errnos, xs \in Statements : OtherStatement(lv, errno, xs)
  <2>1. UNCHANGED <<vars, output, place, msg, received, wire>>
    BY <1>6 DEF OtherStatement
  <2> QED
    BY <2>1, LoggingPasses
<1>7. CASE LogStep
  BY <1>7, LoggingPasses DEF LogStep
<1>8. CASE UNCHANGED chatVars
  BY <1>8, LoggingPasses DEF chatVars
<1> QED
  BY <1>2, <1>3, <1>4, <1>5, <1>6, <1>7, <1>8 DEF ChatNext

\* The connection starts with empty buffers.
LEMMA ChatStarts ==
  ASSUME ChatInit
  PROVE  BuffersInv /\ MessageIntact
<1>1. BufferAssumption
  BY ChatAssumption
<1>2. BufferInv /\ ReadableBytes = 0
  BY <1>1 DEF ChatInit, Init, BufferInv, ReadableBytes, BufferAssumption
<1>3. Out!BufferInv /\ Out!ReadableBytes = 0
  BY <1>1 DEF ChatInit, Out!Init, Out!BufferInv, Out!ReadableBytes, BufferAssumption
<1>4. Content = << >> /\ Out!Content = << >>
  BY <1>2, <1>3 DEF Content, Out!Content
<1>5. place = "poll" /\ msg = << >> /\ received = << >> /\ wire = << >>
  BY DEF ChatInit
<1>6. BuffersInv
  BY <1>2, <1>3, <1>5 DEF BuffersInv
<1> QED
  BY <1>4, <1>5, <1>6 DEF MessageIntact

-----------------------------------------------------------------------------
\* The indices of the input and the output buffer of the connection are in
\* order in every reachable state, and no handler leaves a byte behind in the
\* input buffer or in msg.
THEOREM BuffersStayOrdered == ChatSpec => []BuffersInv
<1>1. ChatInit => BuffersInv
  BY ChatStarts
<1>2. BuffersInv /\ [ChatNext]_chatVars => BuffersInv'
  BY ChatStep
<1> QED
  BY <1>1, <1>2, PTL DEF ChatSpec

\* Every byte received goes back to the socket once and in order, whatever
\* readFd puts into extrabuf, however the vectors grow and however the writes
\* of sendInLoop and handleWrite are cut.
THEOREM MessagesArriveIntact == ChatSpec => []MessageIntact
<1>1. ChatInit => MessageIntact
  BY ChatStarts
<1>2. BuffersInv /\ MessageIntact /\ [ChatNext]_chatVars => MessageIntact'
  BY ChatStep
<1> QED
  BY <1>1, <1>2, BuffersStayOrdered, PTL DEF ChatSpec

-----------------------------------------------------------------------------
\* A non-empty set of naturals has a least element.  Where a lemma needs
\* induction it takes the least counterexample of it.
LEMMA LeastNumber ==
  ASSUME NEW T, T \subseteq Nat, T # {}
  PROVE  \E x \in T : \A y \in T : x <= y
<1> DEFINE R == OpToRel(<, Nat)
<1>1. \E x \in T : \A y \in T : ~(<<y, x>> \in R)
  <2>1. IsWellFoundedOn(R, Nat)
    BY NatLessThanWellFounded
  <2> HIDE DEF R
  <2> QED
    BY <2>1, WFMin
<1>2. R = {ss \in Nat \X Nat : ss[1] < ss[2]}
  BY Zenon DEF OpToRel
<1>3. PICK x \in T : \A y \in T : ~(<<y, x>> \in R)
  BY <1>1
<1>4. ASSUME NEW y \in T PROVE x <= y
  <2> HIDE DEF R
  <2>1. x \in Nat /\ y \in Nat /\ ~(<<y, x>> \in R)
    BY <1>3
  <2> QED
    BY <2>1, <1>2
<1> QED
  BY <1>4

\* A recursion over D: what is defined at d from the value at pred[d], which has
\* a lower rank, by step[d], and at rank zero by base[d].  f obeys it up to rank n.
Follows(f, D, rank, pred, base, step, n) ==
  \A d \in D : rank[d] <= n =>
    f[d] = IF rank[d] = 0 THEN base[d] ELSE step[d][f[pred[d]]]

\* The recursion goes down.
Descends(D, rank, pred) == \A d \in D : rank[d] # 0 => rank[pred[d]] < rank[d]

\* Two functions are the same up to the lower of two ranks.
Agree(f, g, D, rank, m, n) ==
  \A d \in D : rank[d] <= m /\ rank[d] <= n => f[d] = g[d]

\* Two functions that obey the recursion agree as far as both do: at the lowest
\* rank where they do not, they agree on the predecessor.
LEMMA FollowsUnique ==
  ASSUME NEW D, NEW R, NEW rank \in [D -> Nat], NEW pred \in [D -> D],
         NEW base, NEW step,
         Descends(D, rank, pred),
         NEW f \in [D -> R], NEW g \in [D -> R], NEW m \in Nat, NEW n \in Nat,
         Follows(f, D, rank, pred, base, step, m),
         Follows(g, D, rank, pred, base, step, n)
  PROVE  Agree(f, g, D, rank, m, n)
<1> DEFINE T == {rank[e] : e \in {e \in D : rank[e] <= m /\ rank[e] <= n /\ f[e] # g[e]}}
<1>1. SUFFICES ASSUME NEW d \in D, rank[d] <= m, rank[d] <= n, f[d] # g[d] PROVE FALSE
  BY DEF Agree
<1>2. T \subseteq Nat /\ T # {}
  BY <1>1
<1>3. PICK x \in T : \A y \in T : x <= y
  BY <1>2, LeastNumber
<1>4. PICK e \in D : rank[e] = x /\ rank[e] <= m /\ rank[e] <= n /\ f[e] # g[e]
  BY <1>3
<1>5. rank[e] # 0
  BY <1>4 DEF Follows
<1>6. /\ f[e] = step[e][f[pred[e]]] /\ g[e] = step[e][g[pred[e]]]
  BY <1>4, <1>5 DEF Follows
<1>7. f[pred[e]] # g[pred[e]]
  BY <1>4, <1>6
<1>8. pred[e] \in D /\ rank[pred[e]] < rank[e] /\ rank[pred[e]] \in Nat /\ rank[e] \in Nat
  BY <1>5 DEF Descends
<1>9. rank[pred[e]] \in T
  BY <1>4, <1>7, <1>8
<1> HIDE DEF T
<1> QED
  BY <1>3, <1>4, <1>8, <1>9

\* Some function obeys it up to any rank: if one does up to n - 1, it can be
\* changed at rank n.
LEMMA FollowsFurther ==
  ASSUME NEW D, NEW R, NEW rank \in [D -> Nat], NEW pred \in [D -> D],
         NEW base \in [D -> R], NEW step \in [D -> [R -> R]],
         Descends(D, rank, pred), NEW n \in Nat
  PROVE  \E f \in [D -> R] : Follows(f, D, rank, pred, base, step, n)
<1> DEFINE Good(f, k) == f \in [D -> R] /\ Follows(f, D, rank, pred, base, step, k)
           T == {k \in Nat : ~ \E f \in [D -> R] : Good(f, k)}
<1>1. SUFFICES ASSUME T # {} PROVE FALSE
  OBVIOUS
<1>2. PICK x \in T : \A y \in T : x <= y
  BY <1>1, LeastNumber
<1>3. Good(base, 0)
  BY DEF Follows
<1>4. x \in Nat /\ x # 0
  BY <1>2, <1>3
<1>5. x - 1 \in Nat /\ x - 1 \notin T
  BY <1>2, <1>4
<1>6. PICK f \in [D -> R] : Good(f, x - 1)
  BY <1>5
<1> DEFINE g == [d \in D |-> IF rank[d] = x THEN step[d][f[pred[d]]] ELSE f[d]]
<1>7. g \in [D -> R]
  OBVIOUS
<1>8. ASSUME NEW d \in D, rank[d] <= x
      PROVE  g[d] = IF rank[d] = 0 THEN base[d] ELSE step[d][g[pred[d]]]
  <2>1. rank[d] \in Nat /\ pred[d] \in D /\ rank[pred[d]] \in Nat
    OBVIOUS
  <2>2. rank[d] # 0 => rank[pred[d]] < rank[d]
    BY DEF Descends
  <2>3. rank[d] # 0 => g[pred[d]] = f[pred[d]]
    BY <1>4, <1>8, <2>1, <2>2
  <2>4. CASE rank[d] = x
    BY <1>4, <2>3, <2>4
  <2>5. CASE rank[d] # x
    <3>1. rank[d] <= x - 1
      <4> DEFINE r == rank[d]
      <4>1. r \in Nat /\ x \in Nat /\ r <= x /\ r # x
        BY <1>4, <1>8, <2>1, <2>5
      <4> HIDE DEF T, g, Good, r
      <4>2. r <= x - 1
        BY <4>1
      <4> QED
        BY <4>2 DEF r
    <3>2. f[d] = IF rank[d] = 0 THEN base[d] ELSE step[d][f[pred[d]]]
      BY <1>6, <3>1 DEF Follows
    <3>3. g[d] = f[d]
      BY <2>5
    <3> HIDE DEF g
    <3>4. CASE rank[d] = 0
      BY <3>2, <3>3, <3>4
    <3>5. CASE rank[d] # 0
      BY <2>3, <3>2, <3>3, <3>5
    <3> QED
      BY <3>4, <3>5
  <2> QED
    BY <2>4, <2>5
<1>9. Good(g, x)
  BY <1>7, <1>8 DEF Follows
<1> QED
  BY <1>2, <1>7, <1>9

\* The hypotheses of a recursion, and its conclusion.
Recursion(D, R, rank, pred, base, step) ==
  /\ rank \in [D -> Nat] /\ pred \in [D -> D]
  /\ base \in [D -> R] /\ step \in [D -> [R -> R]]
  /\ Descends(D, rank, pred)

Solvable(D, R, rank, pred, base, step) ==
  \E f \in [D -> R] : \A d \in D :
    f[d] = IF rank[d] = 0 THEN base[d] ELSE step[d][f[pred[d]]]

\* A recursion that goes down has a solution: take at each point one that obeys
\* it up to there.  A recursive function is a CHOOSE, and satisfies its equation
\* only because of this.
LEMMA RankRecursion ==
  ASSUME NEW D, NEW R, NEW rank, NEW pred, NEW base, NEW step,
         Recursion(D, R, rank, pred, base, step)
  PROVE  Solvable(D, R, rank, pred, base, step)
<1> DEFINE Good(f, k) == Follows(f, D, rank, pred, base, step, k)
           upTo == [k \in Nat |-> CHOOSE f \in [D -> R] : Good(f, k)]
           F == [d \in D |-> upTo[rank[d]][d]]
<1>0. /\ rank \in [D -> Nat] /\ pred \in [D -> D]
      /\ base \in [D -> R] /\ step \in [D -> [R -> R]]
      /\ Descends(D, rank, pred)
  BY DEF Recursion
<1>1. ASSUME NEW k \in Nat PROVE upTo[k] \in [D -> R] /\ Good(upTo[k], k)
  <2>1. \E f \in [D -> R] : Good(f, k)
    BY <1>0, FollowsFurther
  <2> HIDE DEF Good
  <2> QED
    BY <2>1
<1> HIDE DEF upTo
<1>2. F \in [D -> R]
  BY <1>0, <1>1
<1>3. ASSUME NEW d \in D
      PROVE  F[d] = IF rank[d] = 0 THEN base[d] ELSE step[d][F[pred[d]]]
  <2> DEFINE p == pred[d]
  <2>1. p \in D /\ rank[d] \in Nat /\ rank[p] \in Nat
    BY <1>0
  <2>2. F[d] = upTo[rank[d]][d] /\ F[p] = upTo[rank[p]][p]
    BY <1>0
  <2>3. upTo[rank[d]][d] = IF rank[d] = 0 THEN base[d] ELSE step[d][upTo[rank[d]][p]]
    BY <1>1, <2>1 DEF Follows
  <2>4. ASSUME rank[d] # 0 PROVE upTo[rank[d]][p] = upTo[rank[p]][p]
    <3>1. rank[p] < rank[d]
      BY <1>0, <2>4 DEF Descends
    <3>2. rank[p] <= rank[d] /\ rank[p] <= rank[p]
      BY <2>1, <3>1
    <3>3. /\ upTo[rank[d]] \in [D -> R] /\ upTo[rank[p]] \in [D -> R]
          /\ Follows(upTo[rank[d]], D, rank, pred, base, step, rank[d])
          /\ Follows(upTo[rank[p]], D, rank, pred, base, step, rank[p])
      BY <1>1, <2>1
    <3>4. Agree(upTo[rank[d]], upTo[rank[p]], D, rank, rank[d], rank[p])
      BY <1>0, <2>1, <3>3, FollowsUnique
    <3> QED
      BY <2>1, <3>2, <3>4 DEF Agree
  <2> HIDE DEF F
  <2> QED
    BY <2>2, <2>3, <2>4
<1> QED
  BY <1>2, <1>3 DEF Solvable

-----------------------------------------------------------------------------
\* formatInteger: the loop ends, because u / 10 is less than u, so that Digits
\* satisfies its equation.
LEMMA DigitsEquation ==
  ASSUME NEW u \in Nat
  PROVE  Digits[u] = IF u \div 10 = 0 THEN <<DigitZero + (u % 10)>>
                        ELSE Append(Digits[u \div 10], DigitZero + (u % 10))
<1> DEFINE rank == [n \in Nat |-> IF n \div 10 = 0 THEN 0 ELSE n]
           pred == [n \in Nat |-> n \div 10]
           base == [n \in Nat |-> <<DigitZero + (n % 10)>>]
           step == [n \in Nat |-> [s \in Seq(Nat) |-> Append(s, DigitZero + (n % 10))]]
           Rec(f) == [n \in Nat |-> IF n \div 10 = 0 THEN <<DigitZero + (n % 10)>>
                                   ELSE Append(f[n \div 10], DigitZero + (n % 10))]
<1>1. ASSUME NEW n \in Nat
      PROVE  /\ n \div 10 \in Nat /\ DigitZero + (n % 10) \in Nat
             /\ n \div 10 # 0 => n # 0 /\ n \div 10 < n
  BY DEF DigitZero
<1>2. rank \in [Nat -> Nat] /\ pred \in [Nat -> Nat]
  BY <1>1
<1>3. base \in [Nat -> Seq(Nat)]
  BY <1>1
<1>4. step \in [Nat -> [Seq(Nat) -> Seq(Nat)]]
  <2>1. ASSUME NEW n \in Nat, NEW s \in Seq(Nat) PROVE Append(s, DigitZero + (n % 10)) \in Seq(Nat)
    BY <1>1
  <2> QED
    BY <2>1
<1>5. Descends(Nat, rank, pred)
  BY <1>1 DEF Descends
<1>6. Recursion(Nat, Seq(Nat), rank, pred, base, step)
  <2> HIDE DEF rank, pred, base, step
  <2> QED
    BY <1>2, <1>3, <1>4, <1>5 DEF Recursion
<1>7. PICK f \in [Nat -> Seq(Nat)] : \A n \in Nat :
        f[n] = IF rank[n] = 0 THEN base[n] ELSE step[n][f[pred[n]]]
  <2> HIDE DEF rank, pred, base, step
  <2>1. Solvable(Nat, Seq(Nat), rank, pred, base, step)
    BY <1>6, RankRecursion
  <2> QED
    BY <2>1 DEF Solvable
<1>8. ASSUME NEW n \in Nat
      PROVE  f[n] = IF n \div 10 = 0 THEN <<DigitZero + (n % 10)>>
                    ELSE Append(f[n \div 10], DigitZero + (n % 10))
  <2>1. CASE n \div 10 = 0
    BY <1>7, <2>1
  <2>2. CASE n \div 10 # 0
    <3>1. rank[n] # 0 /\ pred[n] = n \div 10 /\ f[n \div 10] \in Seq(Nat)
      BY <1>1, <2>2
    <3>2. f[n] = step[n][f[n \div 10]]
      <4> HIDE DEF rank, pred, base, step
      <4> QED
        BY <1>7, <3>1
    <3> QED
      BY <2>2, <3>1, <3>2
  <2> QED
    BY <2>1, <2>2
<1>9. f = Rec(f)
  BY <1>8
<1>10. Digits = Rec(Digits)
  <2>1. Digits = CHOOSE g : g = Rec(g)
    BY DEF Digits
  <2> HIDE DEF Rec
  <2> QED
    BY <1>9, <2>1, Zenon
<1> QED
  BY <1>10

\* Reading a decimal number, likewise.
LEMMA DecimalEquation ==
  ASSUME NEW d \in Seq(Nat)
  PROVE  Decimal[d] = IF d = << >> THEN 0
                      ELSE 10 * Decimal[SubSeq(d, 1, Len(d) - 1)] + (d[Len(d)] - DigitZero)
<1> DEFINE last(s) == s[Len(s)] - DigitZero
           front(s) == SubSeq(s, 1, Len(s) - 1)
           rank == [s \in Seq(Nat) |-> Len(s)]
           pred == [s \in Seq(Nat) |-> IF s = << >> THEN s ELSE front(s)]
           base == [s \in Seq(Nat) |-> 0]
           step == [s \in Seq(Nat) |->
                      [v \in Int |-> 10 * v + (IF s = << >> THEN 0 ELSE last(s))]]
           Rec(f) == [s \in Seq(Nat) |-> IF s = << >> THEN 0 ELSE 10 * f[front(s)] + last(s)]
<1>1. ASSUME NEW s \in Seq(Nat)
      PROVE  /\ Len(s) \in Nat /\ (Len(s) = 0 <=> s = << >>)
             /\ s # << >> => /\ last(s) \in Int /\ front(s) \in Seq(Nat)
                             /\ Len(front(s)) < Len(s)
  BY DEF DigitZero
<1> HIDE DEF last, front
<1>2. rank \in [Seq(Nat) -> Nat] /\ pred \in [Seq(Nat) -> Seq(Nat)]
  BY <1>1
<1>3. base \in [Seq(Nat) -> Int]
  OBVIOUS
<1>4. step \in [Seq(Nat) -> [Int -> Int]]
  <2>1. ASSUME NEW s \in Seq(Nat), NEW v \in Int
        PROVE  10 * v + (IF s = << >> THEN 0 ELSE last(s)) \in Int
    BY <1>1
  <2> QED
    BY <2>1
<1>5. Descends(Seq(Nat), rank, pred)
  BY <1>1 DEF Descends
<1>6. Recursion(Seq(Nat), Int, rank, pred, base, step)
  <2> HIDE DEF rank, pred, base, step
  <2> QED
    BY <1>2, <1>3, <1>4, <1>5 DEF Recursion
<1>7. PICK f \in [Seq(Nat) -> Int] : \A s \in Seq(Nat) :
        f[s] = IF rank[s] = 0 THEN base[s] ELSE step[s][f[pred[s]]]
  <2> HIDE DEF rank, pred, base, step
  <2>1. Solvable(Seq(Nat), Int, rank, pred, base, step)
    BY <1>6, RankRecursion
  <2> QED
    BY <2>1 DEF Solvable
<1>8. ASSUME NEW s \in Seq(Nat)
      PROVE  f[s] = IF s = << >> THEN 0 ELSE 10 * f[front(s)] + last(s)
  <2>1. CASE s = << >>
    BY <1>1, <1>7, <2>1
  <2>2. CASE s # << >>
    <3>1. rank[s] # 0 /\ pred[s] = front(s) /\ f[front(s)] \in Int
      BY <1>1, <2>2
    <3>2. f[s] = step[s][f[front(s)]]
      <4> HIDE DEF rank, pred, base, step
      <4> QED
        BY <1>7, <3>1
    <3> QED
      BY <2>2, <3>1, <3>2
  <2> QED
    BY <2>1, <2>2
<1>9. f = Rec(f)
  BY <1>8
<1>10. Decimal = Rec(Decimal)
  <2>1. Decimal = CHOOSE g : g = Rec(g)
    BY DEF Decimal, last, front
  <2> HIDE DEF Rec
  <2> QED
    BY <1>9, <2>1, Zenon
<1> QED
  BY <1>10 DEF last, front

\* Digits only.
IsDigits(s) == \A i \in 1..Len(s) : s[i] \in DigitZero..(DigitZero + 9)

\* The text s writes the unsigned integer u.
Writes(s, u) ==
  /\ s \in Seq(Nat) /\ s # << >> /\ IsDigits(s)
  /\ Decimal[s] = u
  /\ u # 0 => s[1] # DigitZero
  /\ u = 0 => Len(s) = 1

\* One more digit at the end of a text multiplies what it says by ten.
LEMMA DecimalAppend ==
  ASSUME NEW s \in Seq(Nat), NEW c \in Nat
  PROVE  Decimal[Append(s, c)] = 10 * Decimal[s] + (c - DigitZero)
<1> DEFINE a == Append(s, c)
<1>1. a \in Seq(Nat) /\ a # << >> /\ a[Len(a)] = c
  OBVIOUS
<1>2. SubSeq(a, 1, Len(a) - 1) = s
  OBVIOUS
<1> HIDE DEF a
<1>3. Decimal[a] = 10 * Decimal[s] + (c - DigitZero)
  BY <1>1, <1>2, DecimalEquation
<1> QED
  BY <1>3 DEF a

\* The digits of an unsigned integer read back as it, and do not begin with
\* a zero unless it is zero.
LEMMA DigitsWrite ==
  ASSUME NEW u \in Nat
  PROVE  Writes(Digits[u], u)
<1> DEFINE T == {n \in Nat : ~Writes(Digits[n], n)}
<1>1. SUFFICES ASSUME T # {} PROVE FALSE
  OBVIOUS
<1>2. PICK n \in T : \A m \in T : n <= m
  BY <1>1, LeastNumber
<1>3. n \in Nat /\ ~Writes(Digits[n], n)
  OBVIOUS
<1> DEFINE q == n \div 10
           c == DigitZero + (n % 10)
<1>4. /\ q \in Nat /\ c \in Nat /\ c \in DigitZero..(DigitZero + 9)
      /\ n = 10 * q + (c - DigitZero) /\ (q # 0 => q < n)
  BY <1>3 DEF DigitZero
<1>5. Digits[n] = IF q = 0 THEN <<c>> ELSE Append(Digits[q], c)
  BY <1>3, DigitsEquation
<1> DEFINE e == << >>
<1>6. e \in Seq(Nat) /\ e = << >>
  OBVIOUS
<1> HIDE DEF q, c, e
<1>7. Decimal[e] = 0
  BY <1>6, DecimalEquation
<1>8. CASE q = 0
  <2>1. Digits[n] = <<c>> /\ <<c>> = Append(e, c)
    BY <1>4, <1>5, <1>6, <1>8
  <2>2. Decimal[<<c>>] = n
    <3>1. Decimal[Append(e, c)] = 10 * Decimal[e] + (c - DigitZero)
      BY <1>4, <1>6, DecimalAppend
    <3>2. Decimal[<<c>>] = Decimal[Append(e, c)]
      BY <2>1
    <3> QED
      BY <1>4, <1>8, <1>7, <3>1, <3>2 DEF DigitZero
  <2>3. <<c>> \in Seq(Nat) /\ <<c>> # << >> /\ IsDigits(<<c>>) /\ Len(<<c>>) = 1 /\ <<c>>[1] = c
    BY <1>4 DEF IsDigits
  <2>4. n # 0 => c # DigitZero
    BY <1>4, <1>8 DEF DigitZero
  <2> QED
    BY <1>3, <2>1, <2>2, <2>3, <2>4 DEF Writes
<1>9. CASE q # 0
  <2> DEFINE s == Digits[q]
  <2>1. Writes(s, q)
    BY <1>2, <1>3, <1>4, <1>9
  <2>2. Digits[n] = Append(s, c)
    BY <1>5, <1>9
  <2> HIDE DEF s
  <2>3. s \in Seq(Nat) /\ s # << >> /\ IsDigits(s) /\ Decimal[s] = q /\ s[1] # DigitZero
    BY <1>9, <2>1 DEF Writes
  <2>4. Decimal[Append(s, c)] = n
    BY <1>4, <2>3, DecimalAppend
  <2>5. /\ Append(s, c) \in Seq(Nat) /\ Append(s, c) # << >> /\ Append(s, c)[1] = s[1]
        /\ IsDigits(Append(s, c))
    BY <1>4, <2>3 DEF IsDigits
  <2>6. n # 0
    BY <1>3, <1>4, <1>9
  <2> QED
    BY <1>3, <2>2, <2>3, <2>4, <2>5, <2>6 DEF Writes
<1> QED
  BY <1>8, <1>9

\* What IntegersReadBack says of one integer.
Readable(x) ==
  /\ x.chars # << >>
  /\ ReadBack(x.chars) = x.value
  /\ \A i \in 1..(Len(x.chars) - 1) :
       (i = 1 \/ (x.chars[1] = Minus /\ i = 2)) => x.chars[i] # DigitZero

\* The digits of an integer, whatever its sign, are characters.
LEMMA FormatIntegerTyped ==
  ASSUME NEW v \in Int
  PROVE  FormatInteger(v) \in Seq(Nat) /\ FormatInteger(v) # << >>
<1> DEFINE u == v % Modulus
           m == (0 - u) % Modulus
<1>1. u \in Nat /\ m \in Nat
  BY StreamAssumption
<1>2. /\ Digits[u] \in Seq(Nat) /\ Digits[u] # << >>
      /\ Digits[m] \in Seq(Nat)
  <2> HIDE DEF u, m
  <2>1. Writes(Digits[u], u) /\ Writes(Digits[m], m)
    BY <1>1, DigitsWrite
  <2> QED
    BY <2>1 DEF Writes
<1>3. FormatInteger(v) = IF v < 0 THEN <<Minus>> \o Digits[m] ELSE Digits[u]
  BY DEF FormatInteger
<1> HIDE DEF u, m
<1>4. <<Minus>> \in Seq(Nat) /\ <<Minus>> \o Digits[m] \in Seq(Nat) /\ <<Minus>> \o Digits[m] # << >>
  BY <1>2 DEF Minus
<1> QED
  BY <1>2, <1>3, <1>4

\* formatInteger converts to the unsigned type and negates there: the magnitude
\* is exact for every value of the type, the least one included.
LEMMA NegateModulo ==
  ASSUME NEW v \in (1 - Modulus)..(Modulus - 1)
  PROVE  /\ v >= 0 => v % Modulus = v
         /\ v < 0 => (0 - (v % Modulus)) % Modulus = -v
<1>1. Modulus \in Nat /\ Modulus # 0 /\ v \in Int /\ -Modulus < v /\ v < Modulus
  BY StreamAssumption
<1> QED
  BY <1>1

\* An integer of the type, signed or unsigned, is written so that it reads back
\* as itself, without leading zeros.
LEMMA NumberReadable ==
  ASSUME NEW v \in (1 - Modulus)..(Modulus - 1)
  PROVE  Readable(Number(v))
<1>1. v \in Int
  BY StreamAssumption
<1>2. Number(v).chars = FormatInteger(v) /\ Number(v).value = v
  BY DEF Number
<1>3. CASE v >= 0
  <2> DEFINE s == Digits[v]
  <2>1. FormatInteger(v) = s
    BY <1>1, <1>3, NegateModulo DEF FormatInteger
  <2>2. v \in Nat
    BY <1>1, <1>3
  <2>3. Writes(s, v)
    BY <2>2, DigitsWrite
  <2> HIDE DEF s
  <2>4. /\ s \in Seq(Nat) /\ s # << >> /\ Len(s) \in Nat /\ Len(s) # 0
        /\ Decimal[s] = v /\ (v # 0 => s[1] # DigitZero) /\ (v = 0 => Len(s) = 1)
        /\ s[1] \in DigitZero..(DigitZero + 9)
    BY <2>3 DEF Writes, IsDigits
  <2>5. s[1] # Minus
    BY <2>4 DEF DigitZero, Minus
  <2>6. ReadBack(s) = v
    BY <2>4, <2>5 DEF ReadBack
  <2>7. ASSUME NEW i \in 1..(Len(s) - 1), i = 1 \/ (s[1] = Minus /\ i = 2)
        PROVE  s[i] # DigitZero
    <3>1. i = 1
      BY <2>5, <2>7, Zenon
    <3> DEFINE n == Len(s)
    <3>2. n \in Nat /\ i \in 1..(n - 1)
      BY <2>4
    <3>3. n # 1
      <4> HIDE DEF n
      <4> QED
        BY <3>2
    <3> QED
      BY <2>4, <3>1, <3>3
  <2> QED
    BY <1>2, <2>1, <2>4, <2>6, <2>7 DEF Readable
<1>4. CASE v < 0
  <2> DEFINE s == Digits[-v]
             t == <<Minus>> \o s
  <2>1. FormatInteger(v) = t
    BY <1>1, <1>4, NegateModulo DEF FormatInteger
  <2>2. -v \in Nat /\ -v # 0
    BY <1>1, <1>4
  <2>3. Writes(s, -v)
    BY <2>2, DigitsWrite
  <2> HIDE DEF s
  <2>4. s \in Seq(Nat) /\ s # << >> /\ Decimal[s] = -v /\ s[1] # DigitZero
    BY <2>2, <2>3 DEF Writes
  <2>5. /\ t \in Seq(Nat) /\ t # << >> /\ t[1] = Minus /\ t[2] = s[1] /\ Tail(t) = s
    BY <2>4 DEF Minus
  <2> HIDE DEF t
  <2>6. ReadBack(t) = v
    <3>1. Decimal[Tail(t)] = -v
      BY <2>4, <2>5, Zenon
    <3>2. ReadBack(t) = -Decimal[Tail(t)]
      BY <2>5, Zenon DEF ReadBack
    <3> QED
      BY <1>1, <3>1, <3>2
  <2>7. Minus # DigitZero
    BY DEF Minus, DigitZero
  <2> QED
    BY <1>2, <2>1, <2>4, <2>5, <2>6, <2>7 DEF Readable
<1> QED
  BY <1>1, <1>3, <1>4

-----------------------------------------------------------------------------
\* What << accepts: characters, exactly one of them for a character.
Piece(x) == x.chars \in Seq(Nat) /\ (x.kind = "char" => Len(x.chars) = 1)

\* The stream t against the unbounded one w: inside the array, and the same as
\* long as that fits.
Fits(t, w) ==
  /\ t \in Seq(Nat) /\ w \in Seq(Nat)
  /\ Len(t) < Size
  /\ Len(w) < Size => t = w

\* One << keeps the stream inside the array and complete while it fits.
LEMMA PutFits ==
  ASSUME NEW t, NEW w, Fits(t, w), NEW x, Piece(x)
  PROVE  Fits(Put(t, x), Unbounded(w, x))
<1> DEFINE c == x.chars
           u == w \o c
<1>1. /\ t \in Seq(Nat) /\ w \in Seq(Nat) /\ c \in Seq(Nat)
      /\ Len(t) < Size /\ (Len(w) < Size => t = w)
      /\ Len(t) \in Nat /\ Len(w) \in Nat /\ Len(c) \in Nat /\ Size \in Nat
  BY StreamAssumption DEF Fits, Piece
<1>2. u \in Seq(Nat) /\ Len(u) = Len(w) + Len(c) /\ u = Unbounded(w, x)
  BY <1>1 DEF Unbounded
<1>3. t \o c \in Seq(Nat) /\ Len(t \o c) = Len(t) + Len(c)
  BY <1>1
<1>4. t = w => t \o c = u
  OBVIOUS
<1> DEFINE put == IF Size - Len(t) > Len(c) THEN t \o c ELSE t
<1>5. Put(t, x) = put
  <2>1. CASE x.kind = "char"
    <3>1. Len(c) = 1
      BY <2>1 DEF Piece
    <3>2. Append(t, c[1]) = t \o c
      <4> HIDE DEF c
      <4>1. c \in Seq(Nat) /\ Len(c) = 1
        BY <1>1, <3>1
      <4>2. c = <<c[1]>> /\ c[1] \in Nat
        BY <4>1
      <4> QED
        BY <1>1, <4>2, AppendIsConcat
    <3>3. Put(t, x) = IF Size - Len(t) > 1 THEN Append(t, c[1]) ELSE t
      BY <2>1 DEF Put, AddTo, Avail
    <3> HIDE DEF c
    <3> QED
      BY <3>1, <3>2, <3>3
  <2>2. CASE x.kind # "char"
    BY <2>2 DEF Put, AppendTo, Avail
  <2> QED
    BY <2>1, <2>2
<1> HIDE DEF c, u
<1>6. put \in Seq(Nat) /\ Len(put) < Size
  BY <1>1, <1>3
<1>7. Len(u) < Size => put = u
  <2>1. ASSUME Len(u) < Size PROVE Len(w) < Size /\ Size - Len(w) > Len(c)
    BY <1>1, <1>2, <2>1
  <2>2. ASSUME Len(u) < Size PROVE t = w
    BY <1>1, <2>1, <2>2
  <2>3. ASSUME Len(u) < Size PROVE put = t \o c
    BY <2>1, <2>2, <2>3
  <2> QED
    BY <1>4, <2>2, <2>3
<1> HIDE DEF put
<1> QED
  BY <1>2, <1>5, <1>6, <1>7 DEF Fits

\* The operands the header is made of, ...
LEMMA HeaderPieces ==
  /\ \A n \in Nat : Piece(Text(n)) /\ Text(n) \in Operand
  /\ \A c \in Nat : Piece(Char(c))
  /\ \A v \in Int : Piece(Number(v))
<1>1. ASSUME NEW n \in Nat PROVE Piece(Text(n)) /\ Text(n) \in Operand
  <2>1. [i \in 1..n |-> 97] \in Seq(Nat)
    OBVIOUS
  <2> QED
    BY <2>1 DEF Piece, Text, Operand
<1>2. ASSUME NEW c \in Nat PROVE Piece(Char(c))
  BY DEF Piece, Char
<1>3. ASSUME NEW v \in Int PROVE Piece(Number(v))
  BY FormatIntegerTyped DEF Piece, Number
<1> QED
  BY <1>1, <1>2, <1>3

\* ... and those of a statement.
LEMMA OperandPieces ==
  ASSUME NEW x \in Operand
  PROVE  Piece(x) /\ (x.kind = "int" => Readable(x))
<1>1. CASE x \in [kind : {"text"}, chars : Seq(Nat)]
  BY <1>1 DEF Piece
<1>2. CASE x \in [kind : {"char"}, chars : [1..1 -> Nat]]
  <2>1. x.chars \in [1..1 -> Nat] /\ x.kind = "char"
    BY <1>2
  <2> DEFINE c == x.chars
  <2> HIDE DEF c
  <2>2. c \in [1..1 -> Nat] => c \in Seq(Nat) /\ Len(c) = 1
    <3>1. 1 \in Nat
      OBVIOUS
    <3>2. c \in [1..1 -> Nat] => c \in Seq(Nat)
      BY <3>1, SeqDef
    <3> QED
      BY <3>2
  <2> QED
    BY <2>1, <2>2 DEF Piece, c
<1>3. CASE x \in {Number(v) : v \in (1 - Modulus)..(Modulus - 1)}
  <2>1. PICK v \in (1 - Modulus)..(Modulus - 1) : x = Number(v)
    BY <1>3
  <2>2. v \in Int
    BY StreamAssumption
  <2> QED
    BY <2>1, <2>2, HeaderPieces, NumberReadable
<1> QED
  BY <1>1, <1>2, <1>3 DEF Operand

\* The two streams the header is written to.
LEMMA WriteFits ==
  ASSUME NEW t, NEW w, Fits(t, w), NEW x, Piece(x)
  PROVE  Fits(Write(TRUE, t, x), Write(FALSE, w, x))
  BY PutFits DEF Write

\* The header, however long it is.
LEMMA HeaderFits ==
  ASSUME NEW lv, NEW errno \in Int
  PROVE  Fits(Header(TRUE, lv, errno), Header(FALSE, lv, errno))
<1> DEFINE a == Text(1)
           b == Char(32)
           c == Char(58)
           n == Number(LineNo)
           e == Number(errno)
<1>1. Piece(a) /\ Piece(b) /\ Piece(c) /\ Piece(n) /\ Piece(e)
  <2>1. LineNo \in Int
    BY LoggerAssumption
  <2> QED
    BY <2>1, HeaderPieces
<1> DEFINE t0 == << >>
           t1 == Write(TRUE, t0, a)
           t2 == Write(TRUE, Write(TRUE, t1, a), b)
           t3 == Write(TRUE, Write(TRUE, t2, a), b)
           t4 == Write(TRUE, Write(TRUE, Write(TRUE, Write(TRUE, t3, a), c), n), a)
           t5 == Write(TRUE, Write(TRUE, Write(TRUE, t4, a), e), a)
           w1 == Write(FALSE, t0, a)
           w2 == Write(FALSE, Write(FALSE, w1, a), b)
           w3 == Write(FALSE, Write(FALSE, w2, a), b)
           w4 == Write(FALSE, Write(FALSE, Write(FALSE, Write(FALSE, w3, a), c), n), a)
           w5 == Write(FALSE, Write(FALSE, Write(FALSE, w4, a), e), a)
<1>2. /\ Header(TRUE, lv, errno) = IF errno # 0 /\ lv >= ERROR THEN t5 ELSE t4
      /\ Header(FALSE, lv, errno) = IF errno # 0 /\ lv >= ERROR THEN w5 ELSE w4
  BY DEF Header
<1>3. Fits(t0, t0)
  BY StreamAssumption DEF Fits
<1> HIDE DEF a, b, c, n, e, t0
<1>4. Fits(t1, w1)
  BY <1>1, <1>3, WriteFits
<1> HIDE DEF t1, w1
<1>5. Fits(t2, w2)
  BY <1>1, <1>4, WriteFits
<1> HIDE DEF t2, w2
<1>6. Fits(t3, w3)
  BY <1>1, <1>5, WriteFits
<1> HIDE DEF t3, w3
<1>7. Fits(t4, w4)
  <2>1. Fits(Write(TRUE, Write(TRUE, t3, a), c), Write(FALSE, Write(FALSE, w3, a), c))
    BY <1>1, <1>6, WriteFits
  <2> QED
    BY <1>1, <2>1, WriteFits
<1> HIDE DEF t4, w4
<1>8. Fits(t5, w5)
  <2>1. Fits(Write(TRUE, Write(TRUE, t4, a), e), Write(FALSE, Write(FALSE, w4, a), e))
    BY <1>1, <1>7, WriteFits
  <2> QED
    BY <1>1, <2>1, WriteFits
<1> HIDE DEF t5, w5
<1> QED
  BY <1>2, <1>7, <1>8

-----------------------------------------------------------------------------
\* The inductive invariant of the logger: what is still to be inserted can be
\* inserted, and the history is one of characters.
LoggerInv ==
  /\ LineInv /\ IntegersReadBack
  /\ wanted \in Seq(Nat)
  /\ operands \in Seq(Operand)

\* Logger's constructor.
LEMMA ConstructStep ==
  ASSUME LoggerInv, NEW lv \in Levels, NEW errno \in Int, NEW xs \in Seq(Operand),
         Construct(lv, errno, xs)
  PROVE  LoggerInv'
<1>1. /\ level' = lv /\ text' = Header(TRUE, lv, errno) /\ discard' = (Threshold > lv)
      /\ operands' = xs /\ wanted' = Header(FALSE, lv, errno)
      /\ UNCHANGED <<line, aborted, number>>
  BY DEF Construct
<1>2. Fits(text', wanted')
  BY <1>1, HeaderFits
<1>3. LoggerTypeOK'
  <2>1. discard' \in BOOLEAN
    BY <1>1
  <2> QED
    BY <1>1, <1>2, <2>1 DEF LoggerInv, LineInv, LoggerTypeOK, Fits
<1>4. LineInv'
  BY <1>1, <1>2, <1>3 DEF LoggerInv, LineInv, Fits
<1>5. IntegersReadBack'
  BY <1>1 DEF LoggerInv, IntegersReadBack
<1> QED
  BY <1>1, <1>2, <1>4, <1>5 DEF LoggerInv, Fits

\* One << of a statement.
LEMMA InsertStep ==
  ASSUME LoggerInv, InsertNext
  PROVE  LoggerInv'
<1> DEFINE x == Head(operands)
<1>1. /\ operands # << >> /\ operands' = Tail(operands)
      /\ text' = IF discard THEN text ELSE Put(text, x)
      /\ wanted' = IF discard THEN wanted ELSE Unbounded(wanted, x)
      /\ number' = IF x.kind = "int" THEN x ELSE number
      /\ UNCHANGED <<discard, level, line, aborted>>
  BY DEF InsertNext, Insert
<1>2. x \in Operand /\ operands' \in Seq(Operand)
  BY <1>1 DEF LoggerInv
<1> HIDE DEF x
<1>3. Piece(x) /\ (x.kind = "int" => Readable(x))
  BY <1>2, OperandPieces
<1>4. ~discard => Fits(text', wanted')
  <2>1. ~discard => Fits(text, wanted)
    BY DEF LoggerInv, LineInv, LoggerTypeOK, Fits
  <2> QED
    BY <1>1, <1>3, <2>1, PutFits
<1>5. discard => UNCHANGED <<text, wanted>>
  BY <1>1
<1>6. /\ text' \in Seq(Nat) /\ Len(text') < Size /\ wanted' \in Seq(Nat)
      /\ ~discard' /\ Len(wanted') < Size => text' = wanted'
  BY <1>1, <1>4, <1>5 DEF LoggerInv, LineInv, LoggerTypeOK, Fits
<1>7. LineInv'
  BY <1>1, <1>6 DEF LoggerInv, LineInv, LoggerTypeOK
<1>8. IntegersReadBack'
  <2>1. CASE x.kind = "int"
    BY <1>1, <1>3, <2>1 DEF IntegersReadBack, Readable
  <2>2. CASE x.kind # "int"
    BY <1>1, <2>2 DEF LoggerInv, IntegersReadBack
  <2> QED
    BY <2>1, <2>2
<1> QED
  BY <1>2, <1>6, <1>7, <1>8 DEF LoggerInv

\* ~Logger writes the newline and hands the line on.
LEMMA OutputStep ==
  ASSUME LoggerInv, Output
  PROVE  LoggerInv'
<1> DEFINE x == Char(Newline)
<1>1. /\ ~discard /\ UNCHANGED <<discard, level, operands, aborted, number>>
      /\ text' = Put(text, x) /\ line' = text'
      /\ wanted' = Append(wanted, Newline)
  BY DEF Output, Insert
<1>2. Newline \in Nat /\ Piece(x)
  BY HeaderPieces DEF Newline
<1>3. /\ text \in Seq(Nat) /\ wanted \in Seq(Nat) /\ Len(text) < Size /\ Size \in Nat
      /\ Len(text) \in Nat
  BY StreamAssumption DEF LoggerInv, LineInv, LoggerTypeOK
<1>4. Unbounded(wanted, x) = wanted'
  <2>1. Append(wanted, Newline) = wanted \o <<Newline>>
    BY <1>2, <1>3, AppendIsConcat
  <2> QED
    BY <1>1, <2>1 DEF Unbounded, Char
<1>5. Fits(text', wanted')
  <2>1. Fits(text, wanted)
    BY <1>1 DEF LoggerInv, LineInv, LoggerTypeOK, Fits
  <2>2. Fits(Put(text, x), Unbounded(wanted, x))
    BY <1>2, <2>1, PutFits
  <2> QED
    BY <1>1, <1>4, <2>2
<1>6. text' = IF Size - Len(text) > 1 THEN Append(text, Newline) ELSE text
  BY <1>1 DEF Put, AddTo, Avail, Char
<1>7. line'[Len(line')] = Newline \/ Len(line') = Size - 1
  <2>1. CASE Size - Len(text) > 1
    BY <1>1, <1>2, <1>3, <1>6, <2>1, AppendProperties
  <2>2. CASE ~(Size - Len(text) > 1)
    BY <1>1, <1>3, <1>6, <2>2
  <2> QED
    BY <2>1, <2>2
<1> HIDE DEF x
<1>8. LineInv'
  BY <1>1, <1>5, <1>7 DEF LoggerInv, LineInv, LoggerTypeOK, Fits
<1>9. IntegersReadBack'
  BY <1>1 DEF LoggerInv, IntegersReadBack
<1> QED
  BY <1>1, <1>5, <1>8, <1>9 DEF LoggerInv, Fits

\* The zero the history starts with.
LEMMA ZeroReadable == Readable(NoNumber)
  BY NumberReadable, StreamAssumption DEF NoNumber

\* The end of a statement leaves an empty stream.
LEMMA FinishStep ==
  ASSUME LoggerInv, Finish
  PROVE  LoggerInv'
<1>1. /\ aborted' = (level = FATAL) /\ level' = None /\ text' = << >> /\ discard' = FALSE
      /\ line' = << >> /\ wanted' = << >> /\ number' = NoNumber /\ UNCHANGED operands
  BY DEF Finish
<1>2. Size \in Nat /\ Size > 0 /\ << >> \in Seq(Nat) /\ Len(<< >>) = 0
  BY StreamAssumption
<1>3. aborted' \in BOOLEAN
  BY <1>1
<1>4. LineInv'
  BY <1>1, <1>2, <1>3 DEF LineInv, LoggerTypeOK
<1>5. IntegersReadBack'
  BY <1>1, ZeroReadable DEF IntegersReadBack, Readable
<1> QED
  BY <1>1, <1>2, <1>4, <1>5 DEF LoggerInv

\* A step that logs nothing.
LEMMA NoLogStep ==
  ASSUME LoggerInv, UNCHANGED <<stream, logger>>
  PROVE  LoggerInv'
  BY DEF LoggerInv, LineInv, LoggerTypeOK, IntegersReadBack, stream, logger

\* The message without its line end is a text.
LEMMA StrippedIsText ==
  ASSUME NEW m \in Seq(Bytes)
  PROVE  [kind |-> "text", chars |-> Stripped(m)] \in Operand
<1> DEFINE I == {i \in 1..Len(m) : m[i] \notin {10, 13}}
           k == IF I # {} THEN Max(I) ELSE 0
<1>1. Bytes \subseteq Nat /\ Len(m) \in Nat
  BY ChatAssumption
<1>2. m \in Seq(Nat)
  BY <1>1, SeqMonotonic
<1>3. k \in 0..Len(m)
  <2>1. CASE I = {}
    BY <1>1, <2>1
  <2>2. CASE I # {}
    <3> DEFINE T == {Len(m) - i : i \in I}
    <3>1. T \subseteq Nat /\ T # {}
      BY <1>1, <2>2
    <3>2. PICK t \in T : \A s \in T : t <= s
      BY <3>1, LeastNumber
    <3>3. PICK j \in I : t = Len(m) - j
      BY <3>2
    <3>4. ASSUME NEW i \in I PROVE j >= i
      <4>1. Len(m) - i \in T
        OBVIOUS
      <4>2. i \in Int /\ j \in Int
        OBVIOUS
      <4>3. Len(m) - j <= Len(m) - i
        BY <3>2, <3>3, <4>1
      <4> HIDE DEF I, T
      <4> QED
        BY <1>1, <4>2, <4>3
    <3>5. Max(I) \in I
      <4> HIDE DEF I, T
      <4> QED
        BY <3>4 DEF Max
    <3> QED
      BY <1>1, <2>2, <3>5
  <2> QED
    BY <2>1, <2>2
<1>4. Stripped(m) = SubSeq(m, 1, k)
  BY DEF Stripped, SelectLastInSeq
<1> HIDE DEF k
<1>5. SubSeq(m, 1, k) \in Seq(Nat)
  BY <1>1, <1>2, <1>3
<1> QED
  BY <1>4, <1>5 DEF Operand

\* One step of the connection's thread.
LEMMA LoggerInvStep ==
  ASSUME BuffersInv, LoggerInv, [ChatNext]_chatVars
  PROVE  LoggerInv'
<1>1. ASSUME NEW d \in Chunks, HandleRead(d) PROVE LoggerInv'
  BY <1>1, NoLogStep DEF HandleRead
<1>2. CASE OnMessage
  <2> DEFINE t1 == Text(1)
             t2 == Text(2)
             t3 == [kind |-> "text", chars |-> Stripped(Content)]
             xs == <<t2, t1, t2, t3>>
  <2>1. Content \in Seq(Bytes)
    BY ContentFacts DEF BuffersInv
  <2>2. t1 \in Operand /\ t2 \in Operand /\ t3 \in Operand
    BY <2>1, HeaderPieces, StrippedIsText
  <2>3. Construct(2, 0, xs)
    BY <1>2 DEF OnMessage
  <2> HIDE DEF t1, t2, t3
  <2>4. xs \in Seq(Operand)
    BY <2>2
  <2>5. 2 \in Levels
    BY DEF Levels, FATAL
  <2> HIDE DEF xs
  <2> QED
    BY <2>3, <2>4, <2>5, ConstructStep
<1>3. CASE SendInLoop
  BY <1>3, NoLogStep DEF SendInLoop
<1>4. CASE HandleWrite
  BY <1>4, NoLogStep DEF HandleWrite
<1>5. ASSUME NEW lv \in Levels, NEW errno \in Errnos, NEW xs \in Statements,
             OtherStatement(lv, errno, xs)
      PROVE  LoggerInv'
  <2>1. errno \in Int /\ xs \in Seq(Operand)
    BY ChatAssumption
  <2>2. Construct(lv, errno, xs)
    BY <1>5 DEF OtherStatement
  <2> QED
    BY <2>1, <2>2, ConstructStep
<1>6. CASE LogStep
  BY <1>6, InsertStep, OutputStep, FinishStep DEF LogStep
<1>7. CASE UNCHANGED chatVars
  BY <1>7, NoLogStep DEF chatVars
<1> QED
  BY <1>1, <1>2, <1>3, <1>4, <1>5, <1>6, <1>7 DEF ChatNext

\* No Logger is alive at the start.
LEMMA LogStarts ==
  ASSUME ChatInit
  PROVE  LoggerInv
<1>1. LoggerInit
  BY DEF ChatInit
<1>2. Size \in Nat /\ Size > 0 /\ << >> \in Seq(Nat) /\ Len(<< >>) = 0
  BY StreamAssumption
<1>3. discard \in BOOLEAN /\ aborted \in BOOLEAN /\ level \in Levels \cup {None}
  BY <1>1, Zenon DEF LoggerInit
<1>4. LineInv
  BY <1>1, <1>2, <1>3 DEF LoggerInit, LineInv, LoggerTypeOK
<1>5. IntegersReadBack
  BY <1>1, ZeroReadable DEF LoggerInit, IntegersReadBack, Readable
<1> QED
  BY <1>1, <1>4, <1>5 DEF LoggerInv, LoggerInit

\* The inductive invariant of the logger holds.
LEMMA LoggerInvariant == ChatSpec => []LoggerInv
<1>1. ChatInit => LoggerInv
  BY LogStarts
<1>2. BuffersInv /\ LoggerInv /\ [ChatNext]_chatVars => LoggerInv'
  BY LoggerInvStep
<1> QED
  BY <1>1, <1>2, BuffersStayOrdered, PTL DEF ChatSpec

\* For every size of the line buffer, every header and every sequence of <<: the
\* cursor of FixedBuffer stays inside the array, a line that fits is complete,
\* and one that does not lacks its newline only if it fills the array.
THEOREM LinesStayInside == ChatSpec => []LineInv
<1>1. LoggerInv => LineInv
  BY DEF LoggerInv
<1> QED
  BY <1>1, LoggerInvariant, PTL

\* For every width of the integer type: formatInteger writes what reads back as
\* the value, for the least one too, and without leading zeros.
THEOREM IntegersAreExact == ChatSpec => []IntegersReadBack
<1>1. LoggerInv => IntegersReadBack
  BY DEF LoggerInv
<1> QED
  BY <1>1, LoggerInvariant, PTL
=============================================================================
