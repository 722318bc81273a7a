------------------------- MODULE AsyncLogging_proofs -------------------------
(* Proofs about AsyncLogging, for every choice of its constants. *)
EXTENDS AsyncLogging, TLAPS

\* The elements of a sequence with one more element.
LEMMA ElemsAppend ==
  ASSUME NEW S, NEW s \in Seq(S), NEW x \in S
  PROVE  Elems(Append(s, x)) = Elems(s) \cup {x}
<1>1. Len(Append(s, x)) = Len(s) + 1 /\ Len(s) \in Nat
  OBVIOUS
<1>2. Append(s, x)[Len(s) + 1] = x
  OBVIOUS
<1>3. \A i \in 1..Len(s) : Append(s, x)[i] = s[i]
  OBVIOUS
<1>4. 1..(Len(s) + 1) = (1..Len(s)) \cup {Len(s) + 1}
  BY <1>1
<1> QED
  BY <1>1, <1>2, <1>3, <1>4, Zenon DEF Elems

\* The elements of a concatenation.
LEMMA ElemsConcat ==
  ASSUME NEW S, NEW s \in Seq(S), NEW t \in Seq(S)
  PROVE  Elems(s \o t) = Elems(s) \cup Elems(t)
<1>1. /\ Len(s \o t) = Len(s) + Len(t)
      /\ \A i \in 1..Len(s) : (s \o t)[i] = s[i]
      /\ \A i \in 1..Len(t) : (s \o t)[Len(s) + i] = t[i]
  OBVIOUS
<1>2. Len(s) \in Nat /\ Len(t) \in Nat
  OBVIOUS
<1>3. ASSUME NEW i \in 1..(Len(s) + Len(t))
      PROVE  i \in 1..Len(s) \/ (i - Len(s) \in 1..Len(t) /\ Len(s) + (i - Len(s)) = i)
  BY <1>2
<1>4. Elems(s \o t) \subseteq Elems(s) \cup Elems(t)
  BY <1>1, <1>3 DEF Elems
<1>5. Elems(s) \subseteq Elems(s \o t)
  BY <1>1, <1>2 DEF Elems
<1>6. Elems(t) \subseteq Elems(s \o t)
  <2>1. \A i \in 1..Len(t) : Len(s) + i \in 1..Len(s \o t)
    BY <1>1, <1>2
  <2> QED
    BY <1>1, <2>1 DEF Elems
<1> QED
  BY <1>4, <1>5, <1>6

\* The lines of a sequence of buffers with one more buffer.
LEMMA LinesAppend ==
  ASSUME NEW bs \in Seq(Buffer), NEW b \in Buffer
  PROVE  LinesOf(Append(bs, b)) = LinesOf(bs) \cup Elems(b)
<1>1. Len(Append(bs, b)) = Len(bs) + 1 /\ Len(bs) \in Nat
  OBVIOUS
<1>2. Append(bs, b)[Len(bs) + 1] = b
  OBVIOUS
<1>3. \A i \in 1..Len(bs) : Append(bs, b)[i] = bs[i]
  OBVIOUS
<1>4. 1..(Len(bs) + 1) = (1..Len(bs)) \cup {Len(bs) + 1}
  BY <1>1
<1>5. LinesOf(Append(bs, b)) =
        UNION {Elems(Append(bs, b)[i]) : i \in (1..Len(bs)) \cup {Len(bs) + 1}}
  BY <1>1, <1>4 DEF LinesOf
<1> QED
  BY <1>2, <1>3, <1>5, Zenon DEF LinesOf

\* Part of a sequence of buffers has part of its lines.
LEMMA LinesSub ==
  ASSUME NEW bs \in Seq(Buffer), NEW m \in Int, NEW n \in Int,
         1 <= m, n <= Len(bs)
  PROVE  /\ SubSeq(bs, m, n) \in Seq(Buffer)
         /\ LinesOf(SubSeq(bs, m, n)) \subseteq LinesOf(bs)
         /\ \A l \in LinesOf(SubSeq(bs, m, n)) : \E i \in m..n : l \in Elems(bs[i])
<1> DEFINE t == SubSeq(bs, m, n)
<1>1. t \in Seq(Buffer)
  OBVIOUS
<1>2. \A i \in 1..Len(t) : t[i] = bs[m + i - 1] /\ m + i - 1 \in m..n
                           /\ m + i - 1 \in 1..Len(bs)
  OBVIOUS
<1> HIDE DEF t
<1>3. ASSUME NEW l \in LinesOf(t) PROVE \E i \in m..n : l \in Elems(bs[i])
  BY <1>2, <1>3 DEF LinesOf
<1>4. ASSUME NEW l \in LinesOf(t) PROVE l \in LinesOf(bs)
  BY <1>2, <1>4 DEF LinesOf
<1> QED
  BY <1>1, <1>3, <1>4 DEF t

-----------------------------------------------------------------------------
\* append() keeps the invariant.
LEMMA AppendKeepsInv ==
  ASSUME LoggingAssumption, BufferInv, NEW l \in Lines, AppendLine(l)
  PROVE  BufferInv'
<1> USE DEF BufferInv, TypeOK, Buffer, BufferPtr
<1>1. current \in Seq(Lines) /\ current # NullPtr
  BY DEF AppendLine
<1>2. UNCHANGED <<new1, new2, toWrite, wi, fileOpen, bytes, written, lost, running,
                  pc, control, crashed, dropped>>
  BY DEF AppendLine, file, back
<1>3. appended' \in Seq(Lines) /\ Elems(appended') = Elems(appended) \cup {l}
      /\ l \notin Elems(appended)
  BY ElemsAppend DEF AppendLine
<1>4. /\ current' \in Seq(Lines)
      /\ buffers' \in Seq(Buffer)
      /\ next' \in {NullPtr, << >>}
      /\ PtrLines(current') \cup LinesOf(buffers')
           = PtrLines(current) \cup LinesOf(buffers) \cup {l}
      /\ l \in PtrLines(current')
      /\ PtrLines(current') \cap LinesOf(buffers') \subseteq
           PtrLines(current) \cap LinesOf(buffers)
      /\ PtrLines(current') \subseteq PtrLines(current) \cup {l}
  <2>1. CASE Len(current) < BufLines
    <3>1. current' = Append(current, l) /\ next' = next /\ buffers' = buffers
      BY <2>1 DEF AppendLine
    <3>2. Elems(current') = Elems(current) \cup {l} /\ current' \in Seq(Lines)
      BY <1>1, <3>1, ElemsAppend
    <3>3. current' # NullPtr
      BY <3>2 DEF LoggingAssumption
    <3>4. l \notin LinesOf(buffers)
      BY <1>3 DEF FreshInv
    <3>5. PtrLines(current) = Elems(current) /\ PtrLines(current') = Elems(current')
      BY <1>1, <3>3 DEF PtrLines
    <3> QED
      BY <3>1, <3>2, <3>4, <3>5 DEF BackInv
  <2>2. CASE ~(Len(current) < BufLines)
    <3>1. buffers' = Append(buffers, current) /\ next' = NullPtr
          /\ current' = (IF next # NullPtr THEN Append(next, l) ELSE <<l>>)
      BY <2>2 DEF AppendLine
    <3>2. current' = Append(<< >>, l)
      <4>1. <<l>> = Append(<< >>, l)
        OBVIOUS
      <4>2. next \in {NullPtr, << >>}
        BY DEF BackInv
      <4> QED
        BY <3>1, <4>1, <4>2, Zenon
    <3>3. Elems(current') = {l} /\ current' \in Seq(Lines)
      <4>1. << >> \in Seq(Lines) /\ Elems(<< >>) = {}
        BY DEF Elems
      <4>2. Append(<< >>, l) \in Seq(Lines)
        BY <4>1
      <4>3. Elems(Append(<< >>, l)) = Elems(<< >>) \cup {l}
        BY <4>1, ElemsAppend
      <4> QED
        BY <3>2, <4>1, <4>2, <4>3
    <3>4. current' # NullPtr
      BY <3>3 DEF LoggingAssumption
    <3>5. LinesOf(buffers') = LinesOf(buffers) \cup Elems(current)
          /\ buffers' \in Seq(Buffer)
      BY <1>1, <3>1, LinesAppend
    <3>6. PtrLines(current) = Elems(current) /\ PtrLines(current') = {l}
      BY <1>1, <3>3, <3>4 DEF PtrLines
    <3>7. l \notin LinesOf(buffers) \cup Elems(current)
      BY <1>3, <3>6 DEF FreshInv
    <3>8. PtrLines(current') \cup LinesOf(buffers')
            = PtrLines(current) \cup LinesOf(buffers) \cup {l}
      BY <3>5, <3>6, Zenon
    <3>9. PtrLines(current') \cap LinesOf(buffers') = {}
      BY <3>5, <3>6, <3>7, Zenon
    <3>10. l \in PtrLines(current') /\ PtrLines(current') \subseteq PtrLines(current) \cup {l}
      BY <3>6, Zenon
    <3>11. next' \in {NullPtr, << >>}
      BY <3>1, Zenon
    <3> QED
      BY <3>3, <3>5, <3>8, <3>9, <3>10, <3>11, Zenon
  <2> QED
    BY <2>1, <2>2
<1>5. current' # NullPtr
  BY <1>4 DEF LoggingAssumption
<1>6. TypeOK'
  <2>1. running' \in BOOLEAN /\ fileOpen' \in BOOLEAN /\ crashed' \in BOOLEAN
    BY <1>2, Zenon
  <2>2. << >> \in Seq(Lines)
    OBVIOUS
  <2>3. next' \in BufferPtr /\ current' \in BufferPtr
    BY <1>4, <2>2
  <2>4. wi' \in 0..Len(toWrite') /\ toWrite' \in Seq(Buffer)
    BY <1>2
  <2> QED
    BY <1>2, <1>3, <1>4, <2>1, <2>3, <2>4
<1>7. BackInv'
  BY <1>1, <1>2, <1>4, <1>5 DEF BackInv
<1>8. Done' = Done
  BY <1>2 DEF Done
<1>9. LeftoverInv'
  BY <1>1, <1>2, <1>8 DEF LeftoverInv, BackInv
<1>10. FreshInv'
  <2>1. toWrite' = toWrite
    BY <1>2
  <2> QED
    BY <1>3, <1>4, <1>8, <2>1 DEF FreshInv
<1>11. ControlInv' /\ CrashInv'
  BY <1>2 DEF ControlInv, CrashInv
<1>12. NoLineLost'
  <2>1. InFlight' = InFlight \cup {l}
    BY <1>2, <1>4 DEF InFlight
  <2> QED
    BY <1>3, <1>8, <2>1 DEF NoLineLost
<1> QED
  BY <1>6, <1>7, <1>9, <1>10, <1>11, <1>12

\* The swap keeps it: the old front buffers become the batch, the leftover of
\* the previous batch goes to the front.
LEMMA TakeKeepsInv ==
  ASSUME LoggingAssumption, BufferInv, Take \/ FinalTake
  PROVE  BufferInv'
<1> USE DEF BufferInv, TypeOK, Buffer, BufferPtr
<1>0. pc \in {"lock", "waiting", "final"}
  BY DEF Take, FinalTake, At
<1>1. current \in Seq(Lines) /\ current # NullPtr /\ wi = 0
      /\ new1 = << >> /\ new2 = << >> /\ << >> \in Seq(Lines)
  BY <1>0 DEF BackInv
<1>2. UNCHANGED <<fileOpen, bytes, written, lost, running, control, crashed,
                  appended, dropped>>
  BY DEF Take, FinalTake, file
<1>3. toWrite' = Append(buffers, current) /\ buffers' = toWrite /\ wi' = 0
  BY DEF Take, FinalTake
<1>4. /\ toWrite' \in Seq(Buffer)
      /\ Len(toWrite') \in Nat
      /\ toWrite' # << >>
      /\ LinesOf(toWrite') = LinesOf(buffers) \cup Elems(current)
  <2>1. buffers \in Seq(Buffer) /\ current \in Buffer
    BY <1>1
  <2>2. LinesOf(Append(buffers, current)) = LinesOf(buffers) \cup Elems(current)
    BY <2>1, LinesAppend
  <2>3. toWrite' \in Seq(Buffer) /\ Len(toWrite') = Len(buffers) + 1
        /\ Len(buffers) \in Nat
    BY <1>3, <2>1
  <2>4. toWrite' # << >>
    <3>1. Len(<< >>) = 0
      OBVIOUS
    <3> QED
      BY <2>3, <3>1
  <2>5. LinesOf(toWrite') = LinesOf(Append(buffers, current))
    BY <1>3
  <2>6. Len(toWrite') \in Nat
    BY <2>3
  <2> QED
    BY <2>2, <2>3, <2>4, <2>5, <2>6
<1>5. \/ /\ Take
         /\ current' = << >> /\ new1' = NullPtr /\ new2' \in BufferPtr
         /\ next' \in {NullPtr, << >>} /\ pc' = "drop"
      \/ /\ FinalTake
         /\ current' = NullPtr /\ new1' = new1 /\ new2' = new2
         /\ next' = next /\ pc' = "drain" /\ pc = "final"
  <2>1. CASE Take
    <3>1. next' \in {NullPtr, << >>} /\ new2' \in {NullPtr, << >>}
      BY <1>1, <2>1 DEF Take, BackInv
    <3> QED
      BY <1>1, <2>1, <3>1 DEF Take
  <2>2. CASE FinalTake
    BY <2>2 DEF FinalTake, At
  <2> QED
    BY <2>1, <2>2
<1>6. << >> # NullPtr
  BY <1>1 DEF LoggingAssumption
<1>7. PtrLines(current) = Elems(current) /\ PtrLines(current') = {}
  <2>1. Elems(<< >>) = {}
    BY DEF Elems
  <2> QED
    BY <1>1, <1>5, <2>1 DEF PtrLines
<1>8. TypeOK'
  <2>1. running' \in BOOLEAN /\ fileOpen' \in BOOLEAN /\ crashed' \in BOOLEAN
    BY <1>2, Zenon
  <2>2. wi' \in 0..Len(toWrite')
    BY <1>3, <1>4
  <2>3. next' \in BufferPtr /\ current' \in BufferPtr /\ new1' \in BufferPtr
        /\ new2' \in BufferPtr
    BY <1>1, <1>5
  <2> QED
    BY <1>2, <1>3, <1>4, <1>5, <2>1, <2>2, <2>3
<1>9. BackInv'
  BY <1>3, <1>4, <1>5, <1>6 DEF BackInv
<1>10. Done' = Done
  BY <1>2 DEF Done
<1>11. LeftoverInv'
  <2>1. LinesOf(toWrite) \subseteq Done
    BY <1>0 DEF LeftoverInv
  <2> QED
    BY <1>3, <1>5, <1>10, <2>1 DEF LeftoverInv
<1>12. FreshInv'
  <2>1. LinesOf(buffers') = LinesOf(toWrite) /\ Elems(appended') = Elems(appended)
    BY <1>2, <1>3
  <2> QED
    BY <1>4, <1>7, <1>10, <2>1 DEF FreshInv
<1>13. ControlInv' /\ CrashInv'
  BY <1>0, <1>2, <1>5 DEF ControlInv, CrashInv
<1>14. NoLineLost'
  <2>1. UNION {Elems(toWrite'[i]) : i \in (wi' + 1)..Len(toWrite')} = LinesOf(toWrite')
    BY <1>3 DEF LinesOf
  <2>2. UNION {Elems(toWrite[i]) : i \in (wi + 1)..Len(toWrite)} = LinesOf(toWrite)
    BY <1>1 DEF LinesOf
  <2>3. InFlight = PtrLines(current) \cup LinesOf(buffers) \cup LinesOf(toWrite)
    BY <2>2 DEF InFlight
  <2>4. InFlight' = PtrLines(current') \cup LinesOf(buffers') \cup LinesOf(toWrite')
    BY <2>1 DEF InFlight
  <2>5. LinesOf(buffers') = LinesOf(toWrite)
    BY <1>3
  <2>6. InFlight \subseteq InFlight'
    BY <1>4, <1>7, <2>3, <2>4, <2>5
  <2> QED
    BY <1>2, <1>10, <2>6 DEF NoLineLost
<1> QED
  BY <1>8, <1>9, <1>11, <1>12, <1>13, <1>14

\* Writing the next buffer keeps it: its lines are done with afterwards.
LEMMA WriteKeepsInv ==
  ASSUME LoggingAssumption, BufferInv, Write
  PROVE  BufferInv'
<1> USE DEF BufferInv, TypeOK, Buffer, BufferPtr
<1> DEFINE b == toWrite[wi + 1]
<1>1. /\ pc \in {"write", "drain"}
      /\ wi < Len(toWrite) /\ wi \in Nat /\ Len(toWrite) \in Nat
      /\ b \in Seq(Lines) /\ wi' = wi + 1 /\ WriteToFile(b)
  BY DEF Write, At
<1>2. UNCHANGED <<current, next, buffers, new1, new2, toWrite, running, pc, control,
                  crashed, appended, dropped>>
  BY DEF Write, front
<1>3. Elems(b) \subseteq LinesOf(toWrite)
  <2>1. wi + 1 \in 1..Len(toWrite)
    BY <1>1
  <2> QED
    BY <2>1 DEF LinesOf
<1> HIDE DEF b
<1>4. /\ written' \in Seq(Lines)
      /\ bytes' \in Nat
      /\ lost' \subseteq Lines
      /\ Done' = Done \cup Elems(b)
      /\ fileOpen' \in BOOLEAN
      /\ lost' # {} => ~fileOpen'
  <2>1. CASE fileOpen
    <3>1. written' = written \o b /\ lost' = lost /\ lost = {}
      BY <1>1, <2>1 DEF WriteToFile, CrashInv
    <3>2. written' \in Seq(Lines) /\ Elems(written') = Elems(written) \cup Elems(b)
      BY <1>1, <3>1, ElemsConcat
    <3>3. bytes' \in Nat
      <4>1. Len(b) \in Nat /\ bytes + Len(b) \in Nat
        BY <1>1
      <4>2. bytes' = 0 \/ bytes' = bytes + Len(b)
        BY <1>1, <2>1 DEF WriteToFile
      <4> QED
        BY <4>1, <4>2
    <3>4. fileOpen' \in BOOLEAN
      <4>1. fileOpen' \in BOOLEAN \/ fileOpen' = fileOpen
        BY <1>1, <2>1 DEF WriteToFile
      <4> QED
        BY <4>1, Zenon
    <3>5. Done' = Done \cup Elems(b)
      BY <1>2, <3>1, <3>2 DEF Done
    <3> QED
      BY <3>1, <3>2, <3>3, <3>4, <3>5
  <2>2. CASE ~fileOpen
    <3>1. lost' = lost \cup (Elems(b) \ Elems(written))
          /\ written' = written /\ bytes' = bytes /\ fileOpen' = fileOpen
      BY <1>1, <2>2 DEF WriteToFile
    <3>2. Elems(b) \subseteq Lines
      BY <1>1 DEF Elems
    <3>3. fileOpen' \in BOOLEAN
      BY <3>1, Zenon
    <3>4. Done' = Done \cup Elems(b)
      BY <1>2, <3>1 DEF Done
    <3> QED
      BY <2>2, <3>1, <3>2, <3>3, <3>4
  <2> QED
    BY <2>1, <2>2
<1>5. TypeOK'
  <2>1. running' \in BOOLEAN /\ crashed' \in BOOLEAN
    BY <1>2, Zenon
  <2>2. wi' \in 0..Len(toWrite')
    BY <1>1, <1>2
  <2> QED
    BY <1>2, <1>4, <2>1, <2>2
<1>6. BackInv'
  BY <1>1, <1>2 DEF BackInv
<1>7. LeftoverInv'
  <2>1. \A i \in 1..wi' : Elems(toWrite'[i]) \subseteq Done'
    <3>1. ASSUME NEW i \in 1..wi' PROVE Elems(toWrite[i]) \subseteq Done'
      <4>1. i \in 1..wi \/ i = wi + 1
        BY <1>1
      <4> QED
        BY <1>4, <4>1 DEF LeftoverInv, b
    <3> QED
      BY <1>2, <3>1
  <2> QED
    BY <1>1, <1>2, <1>4, <2>1 DEF LeftoverInv
<1>8. FreshInv'
  BY <1>2, <1>3, <1>4 DEF FreshInv
<1>9. ControlInv' /\ CrashInv'
  BY <1>1, <1>2, <1>4 DEF ControlInv, CrashInv
<1>10. NoLineLost'
  <2>1. ASSUME NEW l \in InFlight PROVE l \in InFlight' \/ l \in Elems(b)
    <3>1. CASE \E i \in (wi + 1)..Len(toWrite) : l \in Elems(toWrite[i])
      <4>1. PICK i \in (wi + 1)..Len(toWrite) : l \in Elems(toWrite[i])
        BY <3>1
      <4>2. i = wi + 1 \/ i \in (wi' + 1)..Len(toWrite')
        BY <1>1, <1>2
      <4> QED
        BY <1>2, <4>1, <4>2 DEF InFlight, b
    <3>2. CASE l \in PtrLines(current) \cup LinesOf(buffers)
      BY <1>2, <3>2 DEF InFlight
    <3> QED
      BY <2>1, <3>1, <3>2 DEF InFlight
  <2> QED
    BY <1>2, <1>4, <2>1 DEF NoLineLost
<1> QED
  BY <1>5, <1>6, <1>7, <1>8, <1>9, <1>10

\* Dropping the oldest buffers keeps it: their lines count as dropped.
LEMMA DropKeepsInv ==
  ASSUME LoggingAssumption, BufferInv, Drop
  PROVE  BufferInv'
<1> USE DEF BufferInv, TypeOK, Buffer, BufferPtr
<1>1. pc = "drop" /\ pc' = "write" /\ wi = 0 /\ wi' = 0
      /\ Len(toWrite) \in Nat /\ current # NullPtr
  BY DEF Drop, At, BackInv
<1>2. UNCHANGED <<current, next, buffers, fileOpen, bytes, written, lost, new1, new2,
                  running, control, crashed, appended>>
  BY DEF Drop, front, file
<1>3. /\ toWrite' \in Seq(Buffer)
      /\ toWrite' # << >>
      /\ LinesOf(toWrite') \subseteq LinesOf(toWrite)
      /\ dropped \subseteq dropped'
      /\ dropped' \subseteq dropped \cup LinesOf(toWrite)
      /\ LinesOf(toWrite) \subseteq LinesOf(toWrite') \cup dropped' \cup Elems(written)
  <2>1. CASE Len(toWrite) > MaxBuffers
    <3> DEFINE n == Len(toWrite)
               kept == SubSeq(toWrite, n - 1, n)
    <3>1. toWrite' = kept
          /\ dropped' = dropped \cup ((LinesOf(toWrite) \ LinesOf(kept)) \ Elems(written))
      BY <2>1 DEF Drop
    <3>2. n \in Int /\ n - 1 \in Int /\ 1 <= n - 1 /\ n <= Len(toWrite)
      BY <1>1, <2>1 DEF LoggingAssumption
    <3>3. kept \in Seq(Buffer) /\ LinesOf(kept) \subseteq LinesOf(toWrite)
      BY <3>2, LinesSub
    <3>4. Len(kept) = 2
      BY <3>2
    <3>5. kept # << >>
      <4>1. Len(<< >>) # 2
        OBVIOUS
      <4> QED
        BY <3>4, <4>1
    <3> HIDE DEF kept
    <3> QED
      BY <3>1, <3>3, <3>5
  <2>2. CASE ~(Len(toWrite) > MaxBuffers)
    BY <1>1, <2>2 DEF Drop, BackInv
  <2> QED
    BY <2>1, <2>2
<1>4. LinesOf(toWrite) \subseteq Lines
  <2>1. ASSUME NEW i \in 1..Len(toWrite) PROVE Elems(toWrite[i]) \subseteq Lines
    BY DEF Elems
  <2> QED
    BY <2>1 DEF LinesOf
<1>5. TypeOK'
  <2>1. running' \in BOOLEAN /\ fileOpen' \in BOOLEAN /\ crashed' \in BOOLEAN
    BY <1>2, Zenon
  <2>2. wi' \in 0..Len(toWrite')
    BY <1>1, <1>3
  <2>3. dropped' \subseteq Lines
    BY <1>3, <1>4
  <2> QED
    BY <1>1, <1>2, <1>3, <2>1, <2>2, <2>3
<1>6. BackInv'
  BY <1>1, <1>2, <1>3 DEF BackInv
<1>7. Done \subseteq Done' /\ Done' \subseteq Done \cup LinesOf(toWrite)
      /\ LinesOf(toWrite) \subseteq LinesOf(toWrite') \cup Done'
  BY <1>2, <1>3 DEF Done
<1>8. LeftoverInv'
  BY <1>1 DEF LeftoverInv
<1>9. FreshInv'
  BY <1>2, <1>3, <1>7 DEF FreshInv
<1>10. ControlInv' /\ CrashInv'
  BY <1>1, <1>2 DEF ControlInv, CrashInv
<1>11. NoLineLost'
  <2>1. InFlight = PtrLines(current) \cup LinesOf(buffers) \cup LinesOf(toWrite)
    BY <1>1 DEF InFlight, LinesOf
  <2>2. InFlight' = PtrLines(current') \cup LinesOf(buffers') \cup LinesOf(toWrite')
    BY <1>1 DEF InFlight, LinesOf
  <2>3. PtrLines(current') = PtrLines(current) /\ LinesOf(buffers') = LinesOf(buffers)
    BY <1>2
  <2> QED
    BY <1>2, <1>7, <2>1, <2>2, <2>3 DEF NoLineLost
<1> QED
  BY <1>5, <1>6, <1>8, <1>9, <1>10, <1>11

\* Recycling keeps it: the whole batch is written by then.
LEMMA RecycleKeepsInv ==
  ASSUME LoggingAssumption, BufferInv, Recycle
  PROVE  BufferInv'
<1> USE DEF BufferInv, TypeOK, Buffer, BufferPtr
<1>1. pc = "recycle" /\ pc' = "while" /\ wi = Len(toWrite) /\ wi' = 0
      /\ new1' = << >> /\ new2' = << >> /\ Len(toWrite) \in Nat
      /\ current # NullPtr /\ << >> \in Seq(Lines)
  BY DEF Recycle, At, BackInv
<1>2. UNCHANGED <<current, next, buffers, fileOpen, bytes, written, lost, running,
                  control, crashed, appended, dropped>>
  BY DEF Recycle, front, file
<1>3. LinesOf(toWrite) \subseteq Done
  BY <1>1 DEF LeftoverInv, LinesOf
<1>4. toWrite' \in Seq(Buffer) /\ LinesOf(toWrite') \subseteq LinesOf(toWrite)
  <2> DEFINE m == IF Len(toWrite) > 1 THEN Len(toWrite) - 2 ELSE 0
  <2>1. toWrite' = SubSeq(toWrite, 1, m)
    BY DEF Recycle
  <2>2. m \in Int /\ m <= Len(toWrite) /\ 1 \in Int /\ 1 <= 1
    BY <1>1
  <2> HIDE DEF m
  <2>3. toWrite \in Seq(Buffer)
    OBVIOUS
  <2> QED
    BY <2>1, <2>2, <2>3, LinesSub
<1>5. TypeOK'
  <2>1. running' \in BOOLEAN /\ fileOpen' \in BOOLEAN /\ crashed' \in BOOLEAN
    BY <1>2, Zenon
  <2>2. wi' \in 0..Len(toWrite')
    BY <1>1, <1>4
  <2> QED
    BY <1>1, <1>2, <1>4, <2>1, <2>2
<1>6. BackInv'
  BY <1>1, <1>2 DEF BackInv
<1>7. Done' = Done
  BY <1>2 DEF Done
<1>8. LeftoverInv'
  BY <1>1, <1>3, <1>4, <1>7 DEF LeftoverInv
<1>9. FreshInv'
  BY <1>2, <1>4, <1>7 DEF FreshInv
<1>10. ControlInv' /\ CrashInv'
  BY <1>1, <1>2 DEF ControlInv, CrashInv
<1>11. NoLineLost'
  <2>1. InFlight = PtrLines(current) \cup LinesOf(buffers)
    <3>1. (wi + 1)..Len(toWrite) = {}
      BY <1>1
    <3> QED
      BY <3>1 DEF InFlight
  <2>2. PtrLines(current') \cup LinesOf(buffers') \subseteq InFlight'
    BY DEF InFlight
  <2>3. PtrLines(current') = PtrLines(current) /\ LinesOf(buffers') = LinesOf(buffers)
    BY <1>2
  <2> QED
    BY <1>2, <1>7, <2>1, <2>2, <2>3 DEF NoLineLost
<1> QED
  BY <1>5, <1>6, <1>8, <1>9, <1>10, <1>11

\* The steps that move no line.
Silent ==
  \/ UNCHANGED vars
  \/ Start
  \/ Stop
  \/ Join
  \/ While
  \/ Wait
  \/ Written
  \/ Close
  \/ AppendCrashes

\* They keep it: the buffers and the lines done with stay as they are.
LEMMA SilentKeepsInv ==
  ASSUME LoggingAssumption, BufferInv, Silent
  PROVE  BufferInv'
<1> USE DEF BufferInv, TypeOK, Buffer, BufferPtr
<1>1. UNCHANGED <<current, next, buffers, toWrite, wi, bytes, written, lost, appended,
                  dropped>>
  BY DEF Silent, vars, Start, Stop, Join, While, Wait, Written, Close, AppendCrashes,
         front, file, back
<1>2. running' \in BOOLEAN /\ fileOpen' \in BOOLEAN /\ crashed' \in BOOLEAN
  <2>1. running' = running \/ running' \in BOOLEAN
    BY DEF Silent, vars, Start, Stop, Join, While, Wait, Written, Close, AppendCrashes
  <2>2. fileOpen' = fileOpen \/ fileOpen' \in BOOLEAN
    BY DEF Silent, vars, Start, Stop, Join, While, Wait, Written, Close, AppendCrashes,
           file
  <2>3. crashed' = crashed \/ crashed' \in BOOLEAN
    BY DEF Silent, vars, Start, Stop, Join, While, Wait, Written, Close, AppendCrashes
  <2> QED
    BY <2>1, <2>2, <2>3, Zenon
<1>3. (new1' = new1 /\ new2' = new2) \/ (new1' = << >> /\ new2' = << >>)
  BY DEF Silent, vars, Start, Stop, Join, While, Wait, Written, Close, AppendCrashes,
         back
<1>4. pc' = pc \/ (pc = "none" /\ pc' = "while" /\ new1' = << >> /\ new2' = << >>)
      \/ (pc \in {"while", "lock", "waiting", "final"}
          /\ pc' \in {"lock", "waiting", "final"})
      \/ (pc = "write" /\ pc' = "recycle" /\ wi = Len(toWrite))
      \/ (pc = "drain" /\ pc' = "close" /\ wi = Len(toWrite))
      \/ (pc = "close" /\ pc' = "exited")
  BY DEF Silent, vars, Start, Stop, Join, While, Wait, Written, Close, AppendCrashes, At,
         ControlInv
<1>5. Done' = Done /\ InFlight' = InFlight
  BY <1>1 DEF Done, InFlight
<1>6. TypeOK'
  <2>1. << >> \in Seq(Lines)
    OBVIOUS
  <2>2. new1' \in BufferPtr /\ new2' \in BufferPtr
    BY <1>3, <2>1
  <2>3. control' \in {"created", "started", "join", "stopped"}
    BY DEF Silent, vars, Start, Stop, Join, While, Wait, Written, Close, AppendCrashes
  <2>4. pc' \in {"none", "while", "lock", "waiting", "drop", "write", "recycle",
                "final", "drain", "close", "exited"}
    BY <1>4
  <2> QED
    BY <1>1, <1>2, <2>2, <2>3, <2>4
<1>7. BackInv'
  BY <1>1, <1>3, <1>4 DEF BackInv
<1>8. LeftoverInv'
  BY <1>1, <1>4, <1>5 DEF LeftoverInv
<1>9. FreshInv'
  BY <1>1, <1>5 DEF FreshInv
<1>10. ControlInv' /\ CrashInv'
  <2>1. CASE UNCHANGED vars
    BY <2>1 DEF vars, file, ControlInv, CrashInv
  <2>2. CASE Start
    BY <2>2 DEF Start, ControlInv, CrashInv
  <2>3. CASE Stop
    BY <2>3 DEF Stop, file, ControlInv, CrashInv
  <2>4. CASE Join
    BY <2>4 DEF Join, file, ControlInv, CrashInv
  <2>5. CASE While
    BY <2>5 DEF While, At, file, ControlInv, CrashInv
  <2>6. CASE Wait
    BY <2>6 DEF Wait, At, file, ControlInv, CrashInv
  <2>7. CASE Written
    BY <2>7 DEF Written, At, file, ControlInv, CrashInv
  <2>8. CASE Close
    BY <2>8 DEF Close, At, ControlInv, CrashInv
  <2>9. CASE AppendCrashes
    BY <2>9 DEF AppendCrashes, BackInv, file, ControlInv, CrashInv
  <2> QED
    BY <2>1, <2>2, <2>3, <2>4, <2>5, <2>6, <2>7, <2>8, <2>9 DEF Silent
<1>11. NoLineLost'
  BY <1>1, <1>5 DEF NoLineLost
<1> QED
  BY <1>6, <1>7, <1>8, <1>9, <1>10, <1>11

\* The logger starts with empty buffers.
LEMMA InitInv ==
  ASSUME LoggingAssumption, Init
  PROVE  BufferInv
<1> USE DEF Init
<1>1. << >> \in Seq(Lines) /\ << >> \in Seq(Seq(Lines)) /\ Len(<< >>) = 0
  OBVIOUS
<1>2. << >> # NullPtr
  BY <1>1 DEF LoggingAssumption
<1>3. Elems(<< >>) = {} /\ LinesOf(<< >>) = {}
  BY DEF Elems, LinesOf
<1>4. TypeOK
  <2>1. running \in BOOLEAN /\ fileOpen \in BOOLEAN /\ crashed \in BOOLEAN
    BY Zenon
  <2>2. wi \in 0..Len(toWrite) /\ bytes \in Nat
    BY <1>1
  <2>3. buffers \in Seq(Seq(Lines)) /\ toWrite \in Seq(Seq(Lines))
    BY <1>1
  <2> QED
    BY <1>1, <2>1, <2>2, <2>3 DEF TypeOK, Buffer, BufferPtr
<1>5. Done = {} /\ PtrLines(current) = {}
  BY <1>3 DEF Done, PtrLines
<1>6. BackInv /\ ControlInv /\ CrashInv
  BY <1>2 DEF BackInv, ControlInv, CrashInv
<1>7. LeftoverInv /\ FreshInv /\ NoLineLost
  BY <1>3, <1>5 DEF LeftoverInv, FreshInv, NoLineLost
<1> QED
  BY <1>4, <1>6, <1>7 DEF BufferInv

-----------------------------------------------------------------------------
\* In every reachable state no line has fallen between the buffers that
\* append() and threadFunc pass to each other, and the leftovers the back end
\* hands back are done with.
THEOREM NoLineFallsBetween == Spec => []BufferInv
<1>1. Init => BufferInv
  BY LoggingAssumption, InitInv
<1>2. BufferInv /\ [Next]_vars => BufferInv'
  <2> SUFFICES ASSUME BufferInv, [Next]_vars PROVE BufferInv'
    OBVIOUS
  <2>1. CASE Take \/ FinalTake
    BY <2>1, LoggingAssumption, TakeKeepsInv
  <2>2. CASE Write
    BY <2>2, LoggingAssumption, WriteKeepsInv
  <2>3. CASE Drop
    BY <2>3, LoggingAssumption, DropKeepsInv
  <2>4. CASE Recycle
    BY <2>4, LoggingAssumption, RecycleKeepsInv
  <2>5. CASE \E l \in Lines : AppendLine(l)
    BY <2>5, LoggingAssumption, AppendKeepsInv
  <2>6. CASE Silent
    BY <2>6, LoggingAssumption, SilentKeepsInv
  <2> QED
    BY <2>1, <2>2, <2>3, <2>4, <2>5, <2>6 DEF Next, Back, Silent
<1> QED
  BY <1>1, <1>2, PTL DEF Spec

\* stop() returns with the log complete: joining the back end is enough to know
\* that no line is left in a buffer.
THEOREM StopMeansComplete ==
  Spec => []StopCompletesLog
<1>1. BufferInv => StopCompletesLog
  <2> SUFFICES ASSUME BufferInv, control = "stopped"
               PROVE  \A l \in Elems(appended) : l \in Done
    BY DEF StopCompletesLog
  <2>1. pc = "exited"
    BY DEF BufferInv, ControlInv
  <2>2. current = NullPtr /\ wi = Len(toWrite) /\ LinesOf(buffers) \subseteq Done
    BY <2>1 DEF BufferInv, BackInv, LeftoverInv
  <2>3. (wi + 1)..Len(toWrite) = {}
    BY <2>2 DEF BufferInv, TypeOK
  <2>4. InFlight \subseteq Done
    BY <2>2, <2>3 DEF InFlight, PtrLines
  <2> QED
    BY <2>4 DEF BufferInv, NoLineLost
<1> QED
  BY <1>1, NoLineFallsBetween, PTL

\* A recycled buffer never brings an old line back to the front end.
THEOREM RecycledBuffersAreEmpty ==
  Spec => []RecycledIsEmpty
<1>1. BufferInv => RecycledIsEmpty
  BY DEF BufferInv, FreshInv, RecycledIsEmpty
<1> QED
  BY <1>1, NoLineFallsBetween, PTL

-----------------------------------------------------------------------------
\* A sorted row stays sorted when more lines are done with.
LEMMA SortedLess ==
  ASSUME NEW log, NEW done, NEW more, done \subseteq more, NEW bs, Sorted(log, done, bs)
  PROVE  Sorted(log, more, bs)
  BY DEF Sorted, Ahead

\* A buffer put at the end of a row whose lines are ahead of its own.
LEMMA SortedAppend ==
  ASSUME NEW log, NEW done, NEW bs \in Seq(Buffer), NEW b \in Buffer,
         Sorted(log, done, bs), InOrder(log, b), Ahead(log, done, LinesOf(bs), Elems(b))
  PROVE  Sorted(log, done, Append(bs, b))
<1> DEFINE t == Append(bs, b)
<1>1. /\ Len(bs) \in Nat /\ Len(t) = Len(bs) + 1 /\ t[Len(bs) + 1] = b
      /\ \A i \in 1..Len(bs) : t[i] = bs[i]
  OBVIOUS
<1> HIDE DEF t
<1>2. ASSUME NEW k \in 1..Len(t) PROVE InOrder(log, t[k])
  <2>1. k \in 1..Len(bs) \/ k = Len(bs) + 1
    BY <1>1
  <2> QED
    BY <1>1, <2>1 DEF Sorted
<1>3. ASSUME NEW k \in 1..Len(t), NEW n \in 1..Len(t), k < n
      PROVE  Ahead(log, done, Elems(t[k]), Elems(t[n]))
  <2>1. k \in 1..Len(bs) /\ (n \in 1..Len(bs) \/ n = Len(bs) + 1)
    BY <1>1, <1>3
  <2>2. CASE n \in 1..Len(bs)
    BY <1>1, <1>3, <2>1, <2>2 DEF Sorted
  <2>3. CASE n = Len(bs) + 1
    <3>1. Elems(t[k]) \subseteq LinesOf(bs) /\ t[n] = b
      BY <1>1, <2>1, <2>3 DEF LinesOf
    <3> QED
      BY <3>1 DEF Ahead
  <2> QED
    BY <2>1, <2>2, <2>3
<1> QED
  BY <1>2, <1>3 DEF Sorted, t

\* Part of a sorted row is sorted.
LEMMA SortedSub ==
  ASSUME NEW log, NEW done, NEW bs \in Seq(Buffer), NEW m \in Int, NEW n \in Int,
         1 <= m, n <= Len(bs), Sorted(log, done, bs)
  PROVE  Sorted(log, done, SubSeq(bs, m, n))
<1> DEFINE t == SubSeq(bs, m, n)
<1>1. /\ t \in Seq(Buffer) /\ Len(t) \in Nat
      /\ \A i \in 1..Len(t) : t[i] = bs[m + i - 1] /\ m + i - 1 \in 1..Len(bs)
  OBVIOUS
<1> HIDE DEF t
<1>2. ASSUME NEW k \in 1..Len(t) PROVE InOrder(log, t[k])
  BY <1>1 DEF Sorted
<1>3. ASSUME NEW k \in 1..Len(t), NEW j \in 1..Len(t), k < j
      PROVE  Ahead(log, done, Elems(t[k]), Elems(t[j]))
  <2>1. m + k - 1 < m + j - 1
    BY <1>3
  <2> QED
    BY <1>1, <2>1 DEF Sorted
<1> QED
  BY <1>2, <1>3 DEF Sorted, t

\* An append keeps the order of the lines before it, and comes after them.
LEMMA OrderGrows ==
  ASSUME NEW log \in Seq(Lines), NEW l \in Lines
  PROVE  /\ \A x, y : Precedes(log, x, y) => Precedes(Append(log, l), x, y)
         /\ \A x \in Elems(log) : Precedes(Append(log, l), x, l)
<1> DEFINE new == Append(log, l)
<1>1. /\ Len(log) \in Nat /\ Len(new) = Len(log) + 1
      /\ \A i \in 1..Len(log) : new[i] = log[i]
      /\ new[Len(log) + 1] = l
  OBVIOUS
<1> HIDE DEF new
<1>2. ASSUME NEW x, NEW y, Precedes(log, x, y) PROVE Precedes(new, x, y)
  <2>1. PICK i, j \in 1..Len(log) : i < j /\ log[i] = x /\ log[j] = y
    BY <1>2 DEF Precedes
  <2>2. i \in 1..Len(new) /\ j \in 1..Len(new) /\ new[i] = x /\ new[j] = y
    BY <1>1, <2>1
  <2> QED
    BY <2>1, <2>2 DEF Precedes
<1>3. ASSUME NEW x \in Elems(log) PROVE Precedes(new, x, l)
  <2>1. PICK i \in 1..Len(log) : log[i] = x
    BY DEF Elems
  <2>2. /\ i \in 1..Len(new) /\ Len(log) + 1 \in 1..Len(new)
        /\ i < Len(log) + 1 /\ new[i] = x
    BY <1>1, <2>1
  <2> QED
    BY <1>1, <2>2 DEF Precedes
<1> QED
  BY <1>2, <1>3 DEF new

\* Then buffers and rows stay sorted.
LEMMA SortedGrows ==
  ASSUME NEW log, NEW new, \A x, y : Precedes(log, x, y) => Precedes(new, x, y)
  PROVE  /\ \A b : InOrder(log, b) => InOrder(new, b)
         /\ \A done, S, T : Ahead(log, done, S, T) => Ahead(new, done, S, T)
         /\ \A done, bs : Sorted(log, done, bs) => Sorted(new, done, bs)
<1>1. \A b : InOrder(log, b) => InOrder(new, b)
  BY DEF InOrder
<1>2. \A done, S, T : Ahead(log, done, S, T) => Ahead(new, done, S, T)
  BY DEF Ahead
<1> QED
  BY <1>1, <1>2 DEF Sorted

\* In a log without repetitions the order of two lines is that of their places.
LEMMA OrderStrict ==
  ASSUME NEW log \in Seq(Lines), \A i, j \in 1..Len(log) : log[i] = log[j] => i = j,
         NEW i \in 1..Len(log), NEW j \in 1..Len(log), Precedes(log, log[i], log[j])
  PROVE  i < j
<1>1. PICK m, n \in 1..Len(log) : m < n /\ log[m] = log[i] /\ log[n] = log[j]
  BY DEF Precedes
<1>2. m = i /\ n = j
  BY <1>1
<1> QED
  BY <1>1, <1>2

\* The lines done with stay the oldest ones when the lines that become done
\* are ahead of all that remain.
LEMMA OldestStay ==
  ASSUME NEW log \in Seq(Lines), \A i, j \in 1..Len(log) : log[i] = log[j] => i = j,
         NEW done, NEW D, OldestDone(log, done),
         \A x \in D \ done : \A y \in Elems(log) \ (done \cup D) : Precedes(log, x, y)
  PROVE  OldestDone(log, done \cup D)
<1> SUFFICES ASSUME NEW i \in 1..Len(log), NEW j \in 1..Len(log), i < j,
                    log[j] \in done \cup D, log[i] \notin done \cup D
             PROVE  FALSE
  BY DEF OldestDone
<1>1. log[j] \in D \ done
  BY DEF OldestDone
<1>2. log[i] \in Elems(log) \ (done \cup D)
  BY DEF Elems
<1>3. Precedes(log, log[j], log[i])
  BY <1>1, <1>2
<1>4. j < i
  BY <1>3, OrderStrict
<1> QED
  BY <1>4

\* append() keeps the order.
LEMMA AppendKeepsOrder ==
  ASSUME LoggingAssumption, BufferInv, OrderInv, NEW l \in Lines, AppendLine(l)
  PROVE  OrderInv'
<1>1. /\ appended \in Seq(Lines) /\ appended' = Append(appended, l) /\ l \notin Elems(appended)
      /\ current \in Buffer /\ current # NullPtr /\ PtrLines(current) = Elems(current)
      /\ buffers \in Seq(Buffer) /\ toWrite \in Seq(Buffer)
      /\ toWrite' = toWrite /\ Done' = Done
  BY DEF AppendLine, BufferInv, TypeOK, BufferPtr, Buffer, back, file, Done, PtrLines
<1>2. /\ \A x, y : Precedes(appended, x, y) => Precedes(appended', x, y)
      /\ \A x \in Elems(appended) : Precedes(appended', x, l)
  BY <1>1, OrderGrows
<1>3. /\ \A b : InOrder(appended, b) => InOrder(appended', b)
      /\ \A done, S, T : Ahead(appended, done, S, T) => Ahead(appended', done, S, T)
      /\ \A done, bs : Sorted(appended, done, bs) => Sorted(appended', done, bs)
  BY <1>2, SortedGrows
<1>4. /\ Done \subseteq Elems(appended) /\ LinesOf(buffers) \subseteq Elems(appended)
      /\ LinesOf(toWrite) \subseteq Elems(appended) /\ Elems(current) \subseteq Elems(appended)
  BY <1>1 DEF BufferInv, FreshInv
<1>5. ASSUME NEW S, S \subseteq Elems(appended), NEW T, Ahead(appended, Done, S, T)
      PROVE  Ahead(appended', Done, S, T \cup {l})
  BY <1>2, <1>5 DEF Ahead
<1>6. \A i, j \in 1..Len(appended') : appended'[i] = appended'[j] => i = j
  <2>1. /\ Len(appended) \in Nat /\ Len(appended') = Len(appended) + 1
        /\ \A i \in 1..Len(appended) : appended'[i] = appended[i] /\ appended[i] # l
        /\ appended'[Len(appended) + 1] = l
    BY <1>1 DEF Elems
  <2> QED
    BY <2>1 DEF OrderInv
<1>7. OldestDone(appended', Done)
  <2>1. /\ Len(appended) \in Nat /\ Len(appended') = Len(appended) + 1
        /\ \A i \in 1..Len(appended) : appended'[i] = appended[i]
        /\ appended'[Len(appended) + 1] \notin Done
    BY <1>1, <1>4
  <2> QED
    BY <2>1 DEF OrderInv, OldestDone
<1>8. /\ InOrder(appended', current')
      /\ Sorted(appended', Done, buffers')
      /\ Ahead(appended', Done, LinesOf(buffers'), PtrLines(current'))
      /\ LinesOf(buffers') \cup PtrLines(current') = (LinesOf(buffers) \cup Elems(current)) \cup {l}
  <2>1. CASE Len(current) < BufLines
    <3>1. current' = Append(current, l) /\ buffers' = buffers
      BY <2>1 DEF AppendLine
    <3>2. current' \in Seq(Lines) /\ Elems(current') = Elems(current) \cup {l}
      BY <1>1, <3>1, ElemsAppend DEF Buffer
    <3>3. PtrLines(current') = Elems(current) \cup {l}
      BY <3>2 DEF LoggingAssumption, PtrLines
    <3>4. InOrder(appended', current')
      <4>1. /\ Len(current) \in Nat /\ Len(current') = Len(current) + 1
            /\ current'[Len(current) + 1] = l
            /\ \A i \in 1..Len(current) : current'[i] = current[i] /\ current[i] \in Elems(current)
        BY <1>1, <3>1 DEF Buffer, Elems
      <4>2. InOrder(appended', current)
        BY <1>1, <1>3 DEF OrderInv
      <4>3. ASSUME NEW m \in 1..Len(current'), NEW n \in 1..Len(current'), m < n
            PROVE  Precedes(appended', current'[m], current'[n])
        <5>1. m \in 1..Len(current) /\ (n \in 1..Len(current) \/ n = Len(current) + 1)
          BY <4>1, <4>3
        <5>2. CASE n \in 1..Len(current)
          BY <4>1, <4>2, <4>3, <5>1, <5>2 DEF InOrder
        <5>3. CASE n = Len(current) + 1
          BY <1>2, <1>4, <4>1, <5>1, <5>3
        <5> QED
          BY <5>1, <5>2, <5>3
      <4> QED
        BY <4>3 DEF InOrder
    <3>5. Ahead(appended', Done, LinesOf(buffers), Elems(current) \cup {l})
      BY <1>1, <1>4, <1>5 DEF OrderInv
    <3> QED
      BY <1>3, <3>1, <3>3, <3>4, <3>5 DEF OrderInv
  <2>2. CASE ~(Len(current) < BufLines)
    <3>1. buffers' = Append(buffers, current)
          /\ current' = (IF next # NullPtr THEN Append(next, l) ELSE <<l>>)
      BY <2>2 DEF AppendLine
    <3>2. current' = <<l>>
      <4>1. Append(<< >>, l) = <<l>>
        OBVIOUS
      <4>2. next \in {NullPtr, << >>}
        BY DEF BufferInv, BackInv
      <4> QED
        BY <3>1, <4>1, <4>2, Zenon
    <3>3. current' \in Seq(Lines) /\ Len(current') = 1 /\ current'[1] = l
      BY <3>2
    <3>4. PtrLines(current') = {l}
      <4>1. current' # NullPtr
        BY <3>3 DEF LoggingAssumption
      <4>2. Elems(current') = {l}
        BY <3>3 DEF Elems
      <4> QED
        BY <4>1, <4>2 DEF PtrLines
    <3>5. InOrder(appended', current')
      BY <3>3 DEF InOrder
    <3>6. LinesOf(buffers') = LinesOf(buffers) \cup Elems(current)
      BY <1>1, <3>1, LinesAppend
    <3>7. Sorted(appended, Done, Append(buffers, current))
      BY <1>1, SortedAppend DEF OrderInv
    <3>8. Ahead(appended', Done, LinesOf(buffers'), {l})
      BY <1>2, <1>4, <3>6 DEF Ahead
    <3> QED
      BY <1>3, <3>1, <3>4, <3>5, <3>6, <3>7, <3>8
  <2> QED
    BY <2>1, <2>2
<1>9. Ahead(appended', Done, LinesOf(toWrite), LinesOf(buffers') \cup PtrLines(current'))
  <2>1. Ahead(appended, Done, LinesOf(toWrite), LinesOf(buffers) \cup Elems(current))
    BY <1>1 DEF OrderInv
  <2>2. Ahead(appended', Done, LinesOf(toWrite), (LinesOf(buffers) \cup Elems(current)) \cup {l})
    BY <1>4, <1>5, <2>1
  <2> QED
    BY <1>8, <2>2
<1>10. Sorted(appended', Done, toWrite)
  BY <1>3 DEF OrderInv
<1> QED
  BY <1>1, <1>6, <1>7, <1>8, <1>9, <1>10 DEF OrderInv

\* The swap keeps it: the front buffers become the batch in their order, and
\* what comes back to the front is done with.
LEMMA TakeKeepsOrder ==
  ASSUME LoggingAssumption, BufferInv, OrderInv, Take \/ FinalTake
  PROVE  OrderInv'
<1>1. pc \in {"lock", "waiting", "final"}
  BY DEF Take, FinalTake, At
<1>2. /\ current \in Buffer /\ current # NullPtr /\ PtrLines(current) = Elems(current)
      /\ buffers \in Seq(Buffer) /\ new1 = << >> /\ LinesOf(toWrite) \subseteq Done
  BY <1>1 DEF BufferInv, TypeOK, BufferPtr, BackInv, LeftoverInv, PtrLines
<1>3. /\ toWrite' = Append(buffers, current) /\ buffers' = toWrite
      /\ appended' = appended /\ Done' = Done /\ current' \in {<< >>, NullPtr}
  BY <1>2 DEF Take, FinalTake, file, Done
<1>4. PtrLines(current') = {} /\ InOrder(appended', << >>)
  BY <1>3 DEF PtrLines, Elems, InOrder
<1>5. Sorted(appended, Done, Append(buffers, current))
  BY <1>2, SortedAppend DEF OrderInv
<1>6. /\ Ahead(appended, Done, LinesOf(toWrite), {})
      /\ Ahead(appended, Done, LinesOf(Append(buffers, current)), LinesOf(toWrite) \cup {})
  BY <1>2 DEF Ahead
<1> QED
  BY <1>3, <1>4, <1>5, <1>6 DEF OrderInv

\* A line that is not done with is ahead of the ones in the buffers behind it.
LEMMA BatchAhead ==
  ASSUME BufferInv, OrderInv, NEW k \in 1..Len(toWrite), NEW x \in Elems(toWrite[k]) \ Done,
         NEW y \in Elems(appended) \ Done
  PROVE  \/ \E n \in (wi + 1)..Len(toWrite) : n <= k /\ y \in Elems(toWrite[n])
         \/ Precedes(appended, x, y)
<1>1. x \in LinesOf(toWrite)
  BY DEF LinesOf
<1>2. y \in InFlight
  BY DEF BufferInv, NoLineLost
<1>3. CASE y \in LinesOf(buffers) \cup PtrLines(current)
  BY <1>1, <1>3 DEF OrderInv, Ahead
<1>4. CASE \E n \in (wi + 1)..Len(toWrite) : y \in Elems(toWrite[n])
  <2>1. PICK n \in (wi + 1)..Len(toWrite) : y \in Elems(toWrite[n])
    BY <1>4
  <2>2. wi \in Nat /\ Len(toWrite) \in Nat
    BY DEF BufferInv, TypeOK
  <2>3. n \in 1..Len(toWrite) /\ (n <= k \/ k < n)
    BY <2>2
  <2>4. k < n => Precedes(appended, x, y)
    BY <2>1, <2>3 DEF OrderInv, Sorted, Ahead
  <2> QED
    BY <2>1, <2>3, <2>4
<1> QED
  BY <1>2, <1>3, <1>4 DEF InFlight

\* Dropping the oldest buffers keeps it.
LEMMA DropKeepsOrder ==
  ASSUME LoggingAssumption, BufferInv, OrderInv, Drop
  PROVE  OrderInv'
<1>1. /\ wi = 0 /\ Len(toWrite) \in Nat /\ toWrite \in Seq(Buffer)
      /\ appended' = appended /\ current' = current /\ buffers' = buffers
      /\ written' = written /\ lost' = lost /\ appended \in Seq(Lines)
  BY DEF Drop, At, BufferInv, BackInv, TypeOK, front, file
<1>2. CASE ~(Len(toWrite) > MaxBuffers)
  <2>1. toWrite' = toWrite /\ Done' = Done
    BY <1>1, <1>2 DEF Drop, Done
  <2> QED
    BY <1>1, <2>1 DEF OrderInv
<1>3. CASE Len(toWrite) > MaxBuffers
  <2> DEFINE n == Len(toWrite)
             kept == SubSeq(toWrite, n - 1, n)
             D == LinesOf(toWrite) \ LinesOf(kept)
  <2>1. toWrite' = kept
        /\ dropped' = dropped \cup (D \ Elems(written))
    BY <1>3 DEF Drop
  <2>2. n \in Int /\ n - 1 \in Int /\ 1 <= n - 1 /\ n <= Len(toWrite)
    BY <1>1, <1>3 DEF LoggingAssumption
  <2>3. /\ Sorted(appended, Done, kept)
        /\ LinesOf(kept) \subseteq LinesOf(toWrite)
    BY <1>1, <2>2, LinesSub, SortedSub DEF OrderInv
  <2>4. /\ Len(kept) = 2 /\ kept[1] = toWrite[n - 1] /\ kept[2] = toWrite[n]
    BY <1>1, <2>2
  <2>5. Elems(toWrite[n - 1]) \subseteq LinesOf(kept) /\ Elems(toWrite[n]) \subseteq LinesOf(kept)
    <3>1. 1 \in 1..Len(kept) /\ 2 \in 1..Len(kept)
      BY <2>4
    <3>2. Elems(kept[1]) \subseteq LinesOf(kept) /\ Elems(kept[2]) \subseteq LinesOf(kept)
      BY <3>1 DEF LinesOf
    <3> QED
      BY <2>4, <3>2
  <2> HIDE DEF kept
  <2>6. Done' = Done \cup D
    BY <1>1, <2>1 DEF Done
  <2>7. ASSUME NEW x \in D \ Done, NEW y \in Elems(appended) \ (Done \cup D)
        PROVE  Precedes(appended, x, y)
    <3>1. PICK k \in 1..n : x \in Elems(toWrite[k])
      BY DEF LinesOf
    <3>2. k < n - 1
      <4>1. k # n - 1 /\ k # n
        BY <2>5, <3>1
      <4> QED
        BY <1>1, <2>2, <4>1
    <3>3. CASE \E m \in (wi + 1)..n : m <= k /\ y \in Elems(toWrite[m])
      <4>1. y \in LinesOf(toWrite)
        BY <1>1, <3>3 DEF LinesOf
      <4>2. y \in LinesOf(kept)
        BY <4>1
      <4>3. \E m \in (n - 1)..n : y \in Elems(toWrite[m])
        BY <1>1, <2>2, <4>2, LinesSub DEF kept
      <4>4. PICK m \in (n - 1)..n : y \in Elems(toWrite[m])
        BY <4>3
      <4>5. m \in 1..n /\ k < m
        BY <1>1, <2>2, <3>2
      <4>6. Ahead(appended, Done, Elems(toWrite[k]), Elems(toWrite[m]))
        BY <3>1, <4>5 DEF OrderInv, Sorted
      <4> QED
        BY <3>1, <4>4, <4>6 DEF Ahead
    <3>4. \/ \E m \in (wi + 1)..n : m <= k /\ y \in Elems(toWrite[m])
          \/ Precedes(appended, x, y)
      BY <3>1, BatchAhead
    <3> QED
      BY <3>3, <3>4
  <2> HIDE DEF D
  <2>8. OldestDone(appended, Done \cup D)
    BY <1>1, <2>7, OldestStay DEF OrderInv
  <2>9. /\ Sorted(appended, Done \cup D, kept)
        /\ Sorted(appended, Done \cup D, buffers)
    BY <2>3, SortedLess DEF OrderInv
  <2>10. /\ Ahead(appended, Done \cup D, LinesOf(buffers), PtrLines(current))
         /\ Ahead(appended, Done \cup D, LinesOf(kept), LinesOf(buffers) \cup PtrLines(current))
    BY <2>3 DEF OrderInv, Ahead
  <2> QED
    BY <1>1, <2>1, <2>6, <2>8, <2>9, <2>10 DEF OrderInv
<1> QED
  BY <1>2, <1>3

\* What writing a buffer does to the file and to the lines done with.
LEMMA WriteFacts ==
  ASSUME BufferInv, Write
  PROVE  /\ wi \in Nat /\ wi + 1 \in 1..Len(toWrite) /\ toWrite[wi + 1] \in Seq(Lines)
         /\ UNCHANGED <<current, buffers, toWrite, appended, dropped>>
         /\ Done' = Done \cup Elems(toWrite[wi + 1])
         /\ \/ written' = written
            \/ written' = written \o toWrite[wi + 1] /\ lost = {}
<1>1. /\ wi \in Nat /\ wi + 1 \in 1..Len(toWrite) /\ toWrite[wi + 1] \in Seq(Lines)
      /\ UNCHANGED <<current, buffers, toWrite, appended, dropped>>
      /\ WriteToFile(toWrite[wi + 1]) /\ written \in Seq(Lines)
  BY DEF Write, BufferInv, TypeOK, Buffer, front
<1>2. CASE fileOpen
  <2>1. written' = written \o toWrite[wi + 1] /\ lost = {} /\ lost' = lost
    BY <1>1, <1>2 DEF WriteToFile, BufferInv, CrashInv
  <2>2. Elems(written') = Elems(written) \cup Elems(toWrite[wi + 1])
    BY <1>1, <2>1, ElemsConcat
  <2> QED
    BY <1>1, <2>1, <2>2 DEF Done
<1>3. CASE ~fileOpen
  <2>1. written' = written /\ lost' = lost \cup (Elems(toWrite[wi + 1]) \ Elems(written))
    BY <1>1, <1>3 DEF WriteToFile
  <2> QED
    BY <1>1, <2>1 DEF Done
<1> QED
  BY <1>2, <1>3

\* Writing keeps it: the buffer that is written holds the oldest lines.
LEMMA WriteKeepsOrder ==
  ASSUME LoggingAssumption, BufferInv, OrderInv, Write
  PROVE  OrderInv'
<1> DEFINE D == Elems(toWrite[wi + 1])
<1>1. /\ wi \in Nat /\ wi + 1 \in 1..Len(toWrite)
      /\ UNCHANGED <<current, buffers, toWrite, appended>> /\ Done' = Done \cup D
      /\ appended \in Seq(Lines)
  BY WriteFacts DEF BufferInv, TypeOK
<1>2. ASSUME NEW x \in D \ Done, NEW y \in Elems(appended) \ (Done \cup D)
      PROVE  Precedes(appended, x, y)
  <2>1. \/ \E m \in (wi + 1)..Len(toWrite) : m <= wi + 1 /\ y \in Elems(toWrite[m])
        \/ Precedes(appended, x, y)
    BY <1>1, BatchAhead
  <2>2. ASSUME NEW m \in (wi + 1)..Len(toWrite), m <= wi + 1 PROVE m = wi + 1
    BY <1>1, <2>2
  <2> QED
    BY <2>1, <2>2
<1> HIDE DEF D
<1>3. OldestDone(appended, Done \cup D)
  BY <1>1, <1>2, OldestStay DEF OrderInv
<1>4. /\ Sorted(appended, Done \cup D, toWrite)
      /\ Sorted(appended, Done \cup D, buffers)
  BY SortedLess DEF OrderInv
<1>5. /\ Ahead(appended, Done \cup D, LinesOf(buffers), PtrLines(current))
      /\ Ahead(appended, Done \cup D, LinesOf(toWrite), LinesOf(buffers) \cup PtrLines(current))
  BY DEF OrderInv, Ahead
<1> QED
  BY <1>1, <1>3, <1>4, <1>5 DEF OrderInv

\* So does recycling, ...
LEMMA RecycleKeepsOrder ==
  ASSUME LoggingAssumption, BufferInv, OrderInv, Recycle
  PROVE  OrderInv'
<1> DEFINE m == IF Len(toWrite) > 1 THEN Len(toWrite) - 2 ELSE 0
<1>1. /\ toWrite \in Seq(Buffer) /\ toWrite' = SubSeq(toWrite, 1, m)
      /\ appended' = appended /\ current' = current /\ buffers' = buffers /\ Done' = Done
  BY DEF Recycle, front, file, Done, BufferInv, TypeOK
<1>2. m \in Int /\ m <= Len(toWrite) /\ 1 \in Int /\ 1 <= 1
  BY <1>1
<1> HIDE DEF m
<1>3. /\ Sorted(appended, Done, SubSeq(toWrite, 1, m))
      /\ LinesOf(SubSeq(toWrite, 1, m)) \subseteq LinesOf(toWrite)
  BY <1>1, <1>2, LinesSub, SortedSub DEF OrderInv
<1>4. Ahead(appended, Done, LinesOf(SubSeq(toWrite, 1, m)), LinesOf(buffers) \cup PtrLines(current))
  BY <1>3 DEF OrderInv, Ahead
<1> QED
  BY <1>1, <1>3, <1>4 DEF OrderInv

\* ... and every step that moves no line.
LEMMA SilentKeepsOrder ==
  ASSUME OrderInv, Silent
  PROVE  OrderInv' /\ UNCHANGED <<appended, written, dropped>>
<1>1. UNCHANGED <<current, buffers, toWrite, written, lost, appended, dropped>>
  BY DEF Silent, vars, Start, Stop, Join, While, Wait, Written, Close, AppendCrashes,
         front, file, back
<1>2. Done' = Done
  BY <1>1 DEF Done
<1> QED
  BY <1>1, <1>2 DEF OrderInv

\* A line of the file stays there, and what stands before it too.
LEMMA FileGrows ==
  ASSUME NEW w \in Seq(Lines), NEW b \in Seq(Lines), NEW x, NEW y,
         Leads(w, x, y) \/ (y \notin Elems(w) /\ (x \in Elems(w) \/ Leads(b, x, y)))
  PROVE  Leads(w \o b, x, y)
<1> DEFINE t == w \o b
<1>1. /\ Len(t) = Len(w) + Len(b) /\ Len(w) \in Nat /\ Len(b) \in Nat
      /\ \A i \in 1..Len(w) : t[i] = w[i]
      /\ \A i \in 1..Len(b) : t[Len(w) + i] = b[i]
  OBVIOUS
<1> HIDE DEF t
<1>2. ASSUME NEW p \in 1..Len(w), w[p] = x, \A q \in 1..p : w[q] # y
      PROVE  Leads(t, x, y)
  <2>1. p \in 1..Len(t) /\ t[p] = x /\ \A q \in 1..p : q \in 1..Len(w)
    BY <1>1, <1>2
  <2>2. \A q \in 1..p : t[q] # y
    BY <1>1, <1>2, <2>1
  <2> QED
    BY <2>1, <2>2 DEF Leads
<1>3. ASSUME y \notin Elems(w), x \in Elems(w)
      PROVE  Leads(t, x, y)
  <2>1. PICK p \in 1..Len(w) : w[p] = x
    BY <1>3 DEF Elems
  <2>2. \A q \in 1..p : w[q] # y
    <3>1. \A q \in 1..p : q \in 1..Len(w)
      BY <1>1, <2>1
    <3> QED
      BY <1>3, <3>1 DEF Elems
  <2> QED
    BY <1>2, <2>1, <2>2
<1>4. ASSUME y \notin Elems(w), NEW m \in 1..Len(b), b[m] = x, \A n \in 1..m : b[n] # y
      PROVE  Leads(t, x, y)
  <2>1. Len(w) + m \in 1..Len(t) /\ t[Len(w) + m] = x
    BY <1>1, <1>4
  <2>2. ASSUME NEW q \in 1..(Len(w) + m) PROVE t[q] # y
    <3>1. CASE q \in 1..Len(w)
      BY <1>1, <1>4, <3>1 DEF Elems
    <3>2. CASE q \notin 1..Len(w)
      <4>1. q - Len(w) \in 1..m /\ q - Len(w) \in 1..Len(b) /\ Len(w) + (q - Len(w)) = q
        BY <1>1, <3>2
      <4>2. t[Len(w) + (q - Len(w))] = b[q - Len(w)]
        BY <1>1, <4>1
      <4> QED
        BY <1>4, <4>1, <4>2
    <3> QED
      BY <3>1, <3>2
  <2> QED
    BY <2>1, <2>2 DEF Leads
<1> QED
  BY <1>2, <1>3, <1>4 DEF t, Leads

\* A buffer goes to the file behind everything that is older: an older line is
\* dropped, in the file, or earlier in the same buffer.
LEMMA WriteKeepsFirst ==
  ASSUME LoggingAssumption, LogInv, LogInv', FirstWritesInOrder, Write
  PROVE  FirstWritesInOrder'
<1> DEFINE b == toWrite[wi + 1]
<1>1. /\ b \in Seq(Lines) /\ wi + 1 \in 1..Len(toWrite)
      /\ UNCHANGED <<appended, dropped>> /\ Done' = Done \cup Elems(b)
      /\ written' = written \/ (written' = written \o b /\ lost = {})
      /\ written \in Seq(Lines) /\ appended \in Seq(Lines)
  BY WriteFacts DEF LogInv, BufferInv, TypeOK
<1>2. InOrder(appended, b)
  BY <1>1 DEF LogInv, OrderInv, Sorted
<1> HIDE DEF b
<1>3. CASE written' = written
  BY <1>1, <1>3 DEF FirstWritesInOrder
<1>4. CASE written' = written \o b /\ lost = {}
  <2> SUFFICES ASSUME NEW i \in 1..Len(appended), NEW j \in 1..Len(appended), i < j,
                      appended[j] \in Elems(written \o b), appended[i] \notin dropped
               PROVE  Leads(written \o b, appended[i], appended[j])
    BY <1>1, <1>4 DEF FirstWritesInOrder
  <2>1. Elems(written \o b) = Elems(written) \cup Elems(b)
    BY <1>1, ElemsConcat
  <2>2. CASE appended[j] \in Elems(written)
    <3>1. Leads(written, appended[i], appended[j])
      BY <2>2 DEF FirstWritesInOrder
    <3> QED
      BY <1>1, <3>1, FileGrows
  <2>3. CASE appended[j] \notin Elems(written)
    <3>1. appended[i] \in Done \cup Elems(b)
      <4>1. OldestDone(appended, Done \cup Elems(b))
        BY <1>1 DEF LogInv, OrderInv
      <4> QED
        BY <2>1, <2>3, <4>1 DEF OldestDone
    <3>2. CASE appended[i] \in Elems(written)
      BY <1>1, <2>3, <3>2, FileGrows
    <3>3. CASE appended[i] \notin Elems(written)
      <4>1. appended[i] \in Elems(b)
        BY <1>4, <3>1, <3>3 DEF Done
      <4>2. PICK m \in 1..Len(b) : b[m] = appended[i]
        BY <4>1 DEF Elems
      <4>3. ASSUME NEW n \in 1..m, b[n] = appended[j] PROVE FALSE
        <5>1. Len(b) \in Nat /\ n \in 1..Len(b) /\ (n < m \/ n = m)
          BY <1>1, <4>2
        <5>2. n # m
          BY <4>2, <4>3 DEF LogInv, OrderInv
        <5>3. Precedes(appended, appended[j], appended[i])
          BY <1>2, <4>2, <4>3, <5>1, <5>2 DEF InOrder
        <5>4. j < i
          BY <1>1, <5>3, OrderStrict DEF LogInv, OrderInv
        <5> QED
          BY <5>4
      <4>4. Leads(b, appended[i], appended[j])
        BY <4>2, <4>3 DEF Leads
      <4> QED
        BY <1>1, <2>3, <4>4, FileGrows
    <3> QED
      BY <3>2, <3>3
  <2> QED
    BY <2>2, <2>3
<1> QED
  BY <1>1, <1>3, <1>4

\* The line appended last is in no file yet.
LEMMA AppendKeepsFirst ==
  ASSUME LogInv, FirstWritesInOrder, NEW l \in Lines, AppendLine(l)
  PROVE  FirstWritesInOrder'
<1>1. /\ appended \in Seq(Lines) /\ appended' = Append(appended, l) /\ l \notin Elems(appended)
      /\ UNCHANGED <<written, dropped>>
  BY DEF AppendLine, LogInv, BufferInv, TypeOK, file
<1>2. l \notin Elems(written)
  BY <1>1 DEF LogInv, BufferInv, FreshInv, Done
<1>3. /\ Len(appended) \in Nat /\ Len(appended') = Len(appended) + 1
      /\ \A i \in 1..Len(appended) : appended'[i] = appended[i]
      /\ appended'[Len(appended) + 1] = l
  BY <1>1
<1> SUFFICES ASSUME NEW i \in 1..Len(appended'), NEW j \in 1..Len(appended'), i < j,
                    appended'[j] \in Elems(written)
             PROVE  appended'[i] \in dropped \/ Leads(written, appended'[i], appended'[j])
  BY <1>1 DEF FirstWritesInOrder
<1>4. j \in 1..Len(appended)
  BY <1>2, <1>3
<1>5. i \in 1..Len(appended)
  BY <1>3, <1>4
<1> QED
  BY <1>3, <1>4, <1>5 DEF FirstWritesInOrder

-----------------------------------------------------------------------------
\* In every reachable state the lines done with are the oldest ones, and the
\* others wait in the batch, in buffers_ and in currentBuffer_ in the order of
\* append(), however the threads and the back end interleave.
THEOREM LinesStayInOrder == Spec => []LogInv
<1>1. Init => OrderInv
  <2> SUFFICES ASSUME Init PROVE OrderInv
    OBVIOUS
  <2>1. Elems(<< >>) = {} /\ LinesOf(<< >>) = {} /\ Len(<< >>) = 0
    BY DEF Elems, LinesOf
  <2>2. \A log, done : Sorted(log, done, << >>) /\ InOrder(log, << >>)
    BY <2>1 DEF Sorted, InOrder
  <2> QED
    BY <2>1, <2>2 DEF Init, OrderInv, OldestDone, Ahead
<1>2. BufferInv /\ OrderInv /\ [Next]_vars => OrderInv'
  <2> SUFFICES ASSUME BufferInv, OrderInv, [Next]_vars PROVE OrderInv'
    OBVIOUS
  <2>1. CASE Take \/ FinalTake
    BY <2>1, LoggingAssumption, TakeKeepsOrder
  <2>2. CASE Write
    BY <2>2, LoggingAssumption, WriteKeepsOrder
  <2>3. CASE Drop
    BY <2>3, LoggingAssumption, DropKeepsOrder
  <2>4. CASE Recycle
    BY <2>4, LoggingAssumption, RecycleKeepsOrder
  <2>5. CASE \E l \in Lines : AppendLine(l)
    BY <2>5, LoggingAssumption, AppendKeepsOrder
  <2>6. CASE Silent
    BY <2>6, SilentKeepsOrder
  <2> QED
    BY <2>1, <2>2, <2>3, <2>4, <2>5, <2>6 DEF Next, Back, Silent
<1>3. BufferInv /\ OrderInv => LogInv
  BY DEF LogInv
<1> QED
  BY <1>1, <1>2, <1>3, NoLineFallsBetween, PTL DEF Spec

\* The file keeps the order of append(): a line in it stands behind the first
\* copy of every line appended before it, unless that one was dropped.
THEOREM FirstWritesOrdered == Spec => []FirstWritesInOrder
<1>1. Init => FirstWritesInOrder
  BY DEF Init, FirstWritesInOrder
<1>2. LogInv /\ LogInv' /\ FirstWritesInOrder /\ [Next]_vars => FirstWritesInOrder'
  <2> SUFFICES ASSUME LogInv, LogInv', FirstWritesInOrder, [Next]_vars
               PROVE  FirstWritesInOrder'
    OBVIOUS
  <2>1. CASE Write
    BY <2>1, LoggingAssumption, WriteKeepsFirst
  <2>2. CASE \E l \in Lines : AppendLine(l)
    BY <2>2, AppendKeepsFirst
  <2>3. CASE Take \/ FinalTake \/ Drop \/ Recycle
    <3>1. UNCHANGED <<appended, written>> /\ dropped \subseteq dropped'
      BY <2>3 DEF Take, FinalTake, Drop, Recycle, file
    <3> QED
      BY <3>1 DEF FirstWritesInOrder
  <2>4. CASE Silent
    <3>1. UNCHANGED <<appended, written, dropped>>
      BY <2>4, SilentKeepsOrder DEF LogInv
    <3> QED
      BY <3>1 DEF FirstWritesInOrder
  <2> QED
    BY <2>1, <2>2, <2>3, <2>4 DEF Next, Back, Silent
<1> QED
  BY <1>1, <1>2, LinesStayInOrder, PTL DEF Spec
=============================================================================
