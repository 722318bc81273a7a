--------------------------- MODULE Server_proofs ---------------------------
(* Proofs about Server, for any number of sub loops, descriptors and clients. *)
EXTENDS Server, FiniteSetTheorems, SequenceTheorems, WellFoundedInduction, TLAPS

\* A non-empty set of descriptors has a lowest one.
LEMMA LowestNatural ==
  ASSUME NEW T, T \subseteq Nat, T # {}
  PROVE  \E x \in T : \A y \in T : x <= y
<1> DEFINE R == OpToRel(<, Nat)
<1>1. \E x \in T : \A y \in T : ~(<<y, x>> \in R)
  <2>1. IsWellFoundedOn(R, Nat)
    BY NatLessThanWellFounded
  <2> HIDE DEF R
  <2> QED
    BY <2>1, WFMin
<1>2. R = {ss \in Nat \X Nat : ss[1] < ss[2]}
  BY Zenon DEF OpToRel
<1>3. PICK x \in T : \A y \in T : ~(<<y, x>> \in R)
  BY <1>1
<1>4. ASSUME NEW y \in T PROVE x <= y
  <2> HIDE DEF R
  <2>1. x \in Nat /\ y \in Nat /\ ~(<<y, x>> \in R)
    BY <1>3
  <2> QED
    BY <2>1, <1>2
<1> QED
  BY <1>4

\* First(S), the connection a loop over a snapshot visits next, is one of S.
LEMMA FirstIsMember ==
  ASSUME ServerAssumption, NEW S, S # {}, S \subseteq DOMAIN conn,
         \A c \in DOMAIN conn : conn[c].fd \in Fds
  PROVE  First(S) \in S
<1> DEFINE T == {conn[c].fd : c \in S}
<1>1. T \subseteq Nat /\ T # {}
  BY DEF ServerAssumption
<1>2. PICK x \in T : \A y \in T : x <= y
  BY <1>1, LowestNatural
<1>3. \E c \in S : \A d \in S : conn[c].fd <= conn[d].fd
  BY <1>2
<1> QED
  BY <1>3 DEF First

-----------------------------------------------------------------------------
\* Queues: what appending, emptying and advancing do to the connections held
\* and to the descriptors on their way.
LEMMA QueueAppend ==
  ASSUME NEW s \in Seq(Task), NEW t \in Task
  PROVE  /\ Append(s, t) \in Seq(Task)
         /\ t[1] # "new" => /\ InTasks(Append(s, t)) = InTasks(s) \cup {t[2]}
                            /\ NewIn(Append(s, t), 1) = NewIn(s, 1)
                            /\ UniqueIn(s, 1) => UniqueIn(Append(s, t), 1)
         /\ t[1] = "new" => /\ InTasks(Append(s, t)) = InTasks(s)
                            /\ NewIn(Append(s, t), 1) = NewIn(s, 1) \cup {t[2]}
                            /\ UniqueIn(s, 1) /\ t[2] \notin NewIn(s, 1)
                                 => UniqueIn(Append(s, t), 1)
<1> DEFINE a == Append(s, t)
<1>1. /\ a \in Seq(Task)
      /\ Len(s) \in Nat
      /\ Len(a) = Len(s) + 1
      /\ \A i \in 1..Len(s) : a[i] = s[i]
      /\ a[Len(s) + 1] = t
  OBVIOUS
<1> HIDE DEF a
<1>2. \A i \in 1..Len(a) : i \in 1..Len(s) \/ i = Len(s) + 1
  BY <1>1
<1>3. 1..Len(s) \subseteq 1..Len(a) /\ Len(s) + 1 \in 1..Len(a)
  BY <1>1
<1>4. t[1] # "new" => InTasks(a) = InTasks(s) \cup {t[2]} /\ NewIn(a, 1) = NewIn(s, 1)
  BY <1>1, <1>2, <1>3 DEF InTasks, NewIn
<1>5. t[1] = "new" => InTasks(a) = InTasks(s) /\ NewIn(a, 1) = NewIn(s, 1) \cup {t[2]}
  BY <1>1, <1>2, <1>3 DEF InTasks, NewIn
<1>6. t[1] # "new" \/ t[2] \notin NewIn(s, 1) =>
        \A i \in 1..Len(s) : s[i][1] = "new" => s[i] # t
  BY DEF NewIn
<1>7. (t[1] # "new" \/ t[2] \notin NewIn(s, 1)) /\ UniqueIn(s, 1) => UniqueIn(a, 1)
  BY <1>1, <1>2, <1>6 DEF UniqueIn
<1> QED
  BY <1>1, <1>4, <1>5, <1>7 DEF a

\* An empty queue holds nothing.
LEMMA QueueEmpty ==
  /\ InTasks(<< >>) = {}
  /\ NewIn(<< >>, 1) = {} /\ UniqueIn(<< >>, 1)
  /\ \A l \in Loops : TaskInv(<< >>, l)
  BY DEF InTasks, NewIn, UniqueIn, TaskInv

\* What executing the next callback of a batch takes out of it.
LEMMA QueueAdvance ==
  ASSUME NEW s \in Seq(Task), NEW n \in Nat, n < Len(s)
  PROVE  /\ s[n + 1] \in Task
         /\ UniqueIn(s, n + 1) => UniqueIn(s, n + 2)
         /\ s[n + 1][1] # "new" => /\ s[n + 1][2] \in InTasks(s)
                                   /\ NewIn(s, n + 2) = NewIn(s, n + 1)
         /\ s[n + 1][1] = "new" =>
              /\ NewIn(s, n + 1) = NewIn(s, n + 2) \cup {s[n + 1][2]}
              /\ UniqueIn(s, n + 1) => s[n + 1][2] \notin NewIn(s, n + 2)
<1>1. /\ Len(s) \in Nat /\ n + 1 \in 1..Len(s)
      /\ (n + 1)..Len(s) = {n + 1} \cup ((n + 2)..Len(s))
      /\ n + 1 \notin (n + 2)..Len(s)
      /\ \A i \in (n + 1)..Len(s) : s[i] \in Task
  OBVIOUS
<1>2. s[n + 1] \in Task
  BY <1>1
<1>3. s[n + 1][1] # "new" => s[n + 1][2] \in InTasks(s)
  BY <1>1 DEF InTasks
<1>4. s[n + 1][1] # "new" => NewIn(s, n + 2) = NewIn(s, n + 1)
  BY <1>1 DEF NewIn
<1>5. s[n + 1][1] = "new" => NewIn(s, n + 1) = NewIn(s, n + 2) \cup {s[n + 1][2]}
  BY <1>1 DEF NewIn
<1>6. UniqueIn(s, n + 1) => UniqueIn(s, n + 2)
  BY <1>1 DEF UniqueIn
<1>7. ASSUME s[n + 1][1] = "new", UniqueIn(s, n + 1), s[n + 1][2] \in NewIn(s, n + 2)
      PROVE  FALSE
  <2>1. PICK i \in (n + 2)..Len(s) : s[i][1] = "new" /\ s[i][2] = s[n + 1][2]
    BY <1>7 DEF NewIn
  <2>2. s[i] = s[n + 1]
    BY <1>1, <1>7, <2>1 DEF Task
  <2> QED
    BY <1>1, <1>7, <2>1, <2>2 DEF UniqueIn
<1> QED
  BY <1>2, <1>3, <1>4, <1>5, <1>6, <1>7

\* A batch that is executed holds no new connection.
LEMMA QueueDone ==
  ASSUME NEW s \in Seq(Task)
  PROVE  NewIn(s, Len(s) + 1) = {} /\ UniqueIn(s, Len(s) + 1)
  BY DEF NewIn, UniqueIn

-----------------------------------------------------------------------------
\* Owned, as a disjunction over the places a shared_ptr can be in.
HoldsIn(l, c) ==
  \/ c \in InTasks(pending[l]) \/ c \in InTasks(batch[l])
  \/ c \in work[l].snap
  \/ work[l].op = "connection" /\ work[l].c = c
Holds(c) == c \in InTable \/ c \in held \/ \E l \in Loops : HoldsIn(l, c)

\* The two definitions agree, before and after a step.
LEMMA OwnedIs ==
  /\ \A c : c \in Owned <=> Holds(c)
  /\ \A c : c \in Owned' <=> Holds(c)'
<1>1. \A c : c \in Owned <=> Holds(c)
  BY DEF Owned, Holds, HoldsIn
<1>2. \A c : c \in Owned' <=> Holds(c)'
  BY DEF Owned, Holds, HoldsIn
<1> QED
  BY <1>1, <1>2

\* Only connections that were created are owned.
LEMMA OwnedExist ==
  ASSUME ServerInv
  PROVE  Owned \subseteq DOMAIN conn
<1> USE DEF ServerInv, PointerInv
<1>1. InTable \subseteq DOMAIN conn
  BY DEF TableInv, InTable
<1>2. ASSUME NEW l \in Loops, NEW c, HoldsIn(l, c)
      PROVE  c \in DOMAIN conn
  <2>1. CASE c \in InTasks(pending[l]) \/ c \in InTasks(batch[l])
    BY <2>1 DEF InTasks, TaskInv
  <2>2. CASE c \in work[l].snap \/ (work[l].op = "connection" /\ work[l].c = c)
    BY <2>2 DEF WorkInv
  <2> QED
    BY <1>2, <2>1, <2>2 DEF HoldsIn
<1> QED
  BY <1>1, <1>2, OwnedIs DEF Holds

\* Steps that create no connection and consume no descriptor on its way.
ConnsKept ==
  /\ DOMAIN conn' = DOMAIN conn
  /\ \A c \in DOMAIN conn : conn'[c].fd = conn[c].fd /\ conn'[c].loop = conn[c].loop
QueuesKept ==
  \A l \in Loops :
    /\ NewIn(pending'[l], 1) = NewIn(pending[l], 1)
    /\ NewIn(batch'[l], at'[l] + 1) = NewIn(batch[l], at[l] + 1)
    /\ UniqueIn(pending'[l], 1) /\ UniqueIn(batch'[l], at'[l] + 1)

FreshKept ==
  \A l \in Loops :
    /\ Fresh(l)' = Fresh(l)
    /\ NewIn(pending'[l], 1) \cap NewIn(batch'[l], at'[l] + 1) = {}
    /\ UniqueIn(pending'[l], 1) /\ UniqueIn(batch'[l], at'[l] + 1)

\* Such a step keeps the descriptors exact if it closes what nobody owns any
\* more, or changes no owner.
LEMMA ExactKept ==
  ASSUME ServerInv, ConnsKept, QueuesKept \/ FreshKept, clients' = clients,
         Owned' \subseteq Owned,
         CloseUnowned \/ (open' = open /\ Owned \subseteq Owned')
  PROVE  DescriptorInv' /\ ArrivalInv'
<1>1. Owned \subseteq DOMAIN conn
  BY OwnedExist
<1>2. FreshKept
  BY DEF QueuesKept, FreshKept, Fresh, ServerInv, ArrivalInv
<1>3. NewFds' = NewFds
  BY <1>2 DEF NewFds, FreshKept
<1>4. \A c, d \in Owned' : c # d => conn'[c].fd # conn'[d].fd
  BY <1>1 DEF ServerInv, DescriptorInv, ConnsKept
<1>5. \A c \in Owned' : conn'[c].fd \notin NewFds'
  BY <1>1, <1>3 DEF ServerInv, ArrivalInv, ConnsKept
<1>6. open' = {conn'[c].fd : c \in Owned'} \cup NewFds'
  <2>1. {conn'[c].fd : c \in Owned'} = {conn[c].fd : c \in Owned'}
    BY <1>1 DEF ConnsKept
  <2>2. CASE CloseUnowned
    BY <2>1, <2>2, <1>1, <1>3 DEF CloseUnowned, ServerInv, DescriptorInv, ArrivalInv
  <2>3. CASE open' = open /\ Owned \subseteq Owned'
    BY <2>1, <2>3, <1>3 DEF ServerInv, DescriptorInv
  <2> QED
    BY <2>2, <2>3
<1>7. DescriptorInv'
  BY <1>4, <1>6 DEF DescriptorInv
<1>8. ArrivalInv'
  BY <1>2, <1>3, <1>5 DEF ServerInv, ArrivalInv, ConnsKept, FreshKept
<1> QED
  BY <1>7, <1>8

\* ... in particular a step of the main thread that leaves the sub loops and
\* the connections alone.
LEMMA LoopsUntouched ==
  ASSUME ServerInv, UNCHANGED <<loopVars, conn, table, clients>>,
         Owned' \subseteq Owned,
         CloseUnowned \/ (open' = open /\ Owned \subseteq Owned'),
         main # "gone", main' # "gone"
  PROVE  TableInv' /\ DescriptorInv' /\ ArrivalInv'
<1>1. ConnsKept /\ QueuesKept
  BY DEF ConnsKept, QueuesKept, loopVars, ServerInv, ArrivalInv
<1>2. TableInv'
  BY DEF ServerInv, TableInv, loopVars, Subscribed
<1> QED
  BY <1>1, <1>2, ExactKept

\* Closing descriptors opens none.
LEMMA OpenTyped ==
  ASSUME TypeOK, CloseUnowned
  PROVE  open' \subseteq Fds
  BY DEF TypeOK, CloseUnowned

-----------------------------------------------------------------------------
\* The main thread.

\* A connection that goes idle changes nothing else.
LEMMA GoIdleKeeps ==
  ASSUME ServerInv, NEW c \in Conns, GoIdle(c)
  PROVE  ServerInv'
<1> USE DEF GoIdle
<1>1. TypeOK' /\ PlaceInv'
  BY DEF ServerInv, TypeOK, PlaceInv, mainVars, loopVars
<1>2. PointerInv' /\ ClosingInv'
  BY DEF ServerInv, PointerInv, TaskInv, WorkInv, Subscribed, ClosingInv, mainVars, loopVars
<1>3. TableInv'
  BY DEF ServerInv, TableInv, mainVars, loopVars, Subscribed
<1>4. Owned' = Owned
  BY DEF Owned, InTable, mainVars, loopVars
<1>5. ConnsKept /\ QueuesKept
  BY DEF ConnsKept, QueuesKept, loopVars, ServerInv, ArrivalInv
<1>6. DescriptorInv' /\ ArrivalInv'
  BY <1>4, <1>5, ExactKept
<1> QED
  BY <1>1, <1>2, <1>3, <1>6 DEF ServerInv

\* checkHeartbeats takes its snapshot, ...
LEMMA HeartbeatBeginsKeeps ==
  ASSUME ServerInv, CheckHeartbeats
  PROVE  ServerInv'
<1> USE DEF CheckHeartbeats, GetAllConnections, Main
<1>1. InTable \subseteq DOMAIN conn /\ InTable \subseteq Conns
  BY DEF ServerInv, TableInv, InTable, TypeOK
<1>2. TypeOK' /\ PlaceInv'
  BY <1>1 DEF ServerInv, TypeOK, PlaceInv, loopVars, connVars
<1>3. PointerInv' /\ ClosingInv'
  BY <1>1 DEF ServerInv, PlaceInv, PointerInv, TaskInv, WorkInv, Subscribed, ClosingInv,
              loopVars, connVars
<1>4. Owned' = Owned
  <2>1. held = {}
    BY DEF ServerInv, PlaceInv
  <2> QED
    BY <2>1 DEF Owned, InTable, loopVars, connVars
<1>5. TableInv' /\ DescriptorInv' /\ ArrivalInv'
  BY <1>4, LoopsUntouched DEF connVars
<1> QED
  BY <1>2, <1>3, <1>5 DEF ServerInv

\* ... and gives it back.
LEMMA HeartbeatEndsKeeps ==
  ASSUME ServerInv, CheckDone
  PROVE  ServerInv'
<1> USE DEF CheckDone, Main
<1>2. TypeOK' /\ PlaceInv'
  BY OpenTyped DEF ServerInv, TypeOK, PlaceInv, loopVars, connVars
<1>3. PointerInv' /\ ClosingInv'
  BY DEF ServerInv, PlaceInv, PointerInv, TaskInv, WorkInv, Subscribed, ClosingInv,
         loopVars, connVars
<1>4. Owned' \subseteq Owned
  BY DEF Owned, InTable, loopVars, connVars
<1>5. TableInv' /\ DescriptorInv' /\ ArrivalInv'
  BY <1>4, LoopsUntouched DEF connVars
<1> QED
  BY <1>2, <1>3, <1>5 DEF ServerInv

\* The destructor begins, clears the callbacks, and finds all threads joined.
LEMMA ShutdownBeginsKeeps ==
  ASSUME ServerInv, QuitMain \/ ClearCallback \/ StopReturns
  PROVE  ServerInv'
<1>1. /\ UNCHANGED <<held, visit, stopped, next, marked, loopVars, connVars, clients, open, casts>>
      /\ \/ main = "serve" /\ main' = "clear"
         \/ main = "clear" /\ main' = "clear"
         \/ main = "stop" /\ main' = "members" /\ stopped = ThreadNum
      /\ callbacks' \in Seq({"message", "connection", "close"})
      /\ crashed' \in BOOLEAN
  <2>1. CASE QuitMain
    BY <2>1 DEF QuitMain, Main, ServerInv, TypeOK
  <2>2. CASE ClearCallback
    <3>1. callbacks' \in Seq({"message", "connection", "close"})
      BY <2>2 DEF ClearCallback, ServerInv, TypeOK
    <3>2. crashed' \in BOOLEAN
      BY <2>2, Zenon DEF ClearCallback
    <3> QED
      BY <2>2, <3>1, <3>2, Zenon DEF ClearCallback, Main
  <2>3. CASE StopReturns
    BY <2>3 DEF StopReturns, Main, ServerInv, TypeOK
  <2> QED
    BY <2>1, <2>2, <2>3
<1>2. TypeOK' /\ PlaceInv'
  BY <1>1 DEF ServerInv, TypeOK, PlaceInv, loopVars, connVars
<1>3. PointerInv'
  BY <1>1 DEF ServerInv, PointerInv, TaskInv, WorkInv, Subscribed, loopVars, connVars
<1>4. ClosingInv'
  BY <1>1 DEF ServerInv, PlaceInv, Subscribed, ClosingInv, loopVars, connVars
<1>5. Owned' = Owned
  BY <1>1 DEF Owned, InTable, loopVars, connVars
<1>6. TableInv' /\ DescriptorInv' /\ ArrivalInv'
  BY <1>1, <1>5, LoopsUntouched DEF connVars
<1> QED
  BY <1>2, <1>3, <1>4, <1>6 DEF ServerInv

\* The destructor's snapshot of the table.
LEMMA CollectKeeps ==
  ASSUME ServerInv, Collect
  PROVE  ServerInv'
<1> USE DEF Collect, GetAllConnections, Main
<1>1. InTable \subseteq DOMAIN conn /\ InTable \subseteq Conns
  BY DEF ServerInv, TableInv, InTable, TypeOK
<1>2. TypeOK' /\ PlaceInv'
  BY <1>1 DEF ServerInv, TypeOK, PlaceInv, loopVars, connVars
<1>3. PointerInv' /\ ClosingInv'
  BY <1>1 DEF ServerInv, PlaceInv, PointerInv, TaskInv, WorkInv, Subscribed, ClosingInv,
              loopVars, connVars
<1>4. Owned' = Owned
  <2>1. held = {}
    BY DEF ServerInv, PlaceInv
  <2> QED
    BY <2>1 DEF Owned, InTable, loopVars, connVars
<1>5. TableInv' /\ DescriptorInv' /\ ArrivalInv'
  BY <1>4, LoopsUntouched DEF connVars
<1> QED
  BY <1>2, <1>3, <1>5 DEF ServerInv

\* closeNow has been posted to all of it.
LEMMA CloseDoneKeeps ==
  ASSUME ServerInv, CloseDone
  PROVE  ServerInv'
<1> USE DEF CloseDone, Main
<1>2. TypeOK' /\ PlaceInv'
  BY OpenTyped DEF ServerInv, TypeOK, PlaceInv, loopVars, connVars
<1>1. PointerInv'
  BY DEF ServerInv, PointerInv, TaskInv, WorkInv, Subscribed, loopVars, connVars
<1>3. ClosingInv'
  BY DEF ServerInv, PlaceInv, Subscribed, ClosingInv, loopVars, connVars
<1>4. Owned' \subseteq Owned
  BY DEF Owned, InTable, loopVars, connVars
<1>5. TableInv' /\ DescriptorInv' /\ ArrivalInv'
  BY <1>4, LoopsUntouched DEF connVars
<1> QED
  BY <1>1, <1>2, <1>3, <1>5 DEF ServerInv

\* The pool stops and joins its threads in turn.
LEMMA StopKeeps ==
  ASSUME ServerAssumption, ServerInv, StopThread \/ JoinThread
  PROVE  ServerInv'
<1>1. /\ UNCHANGED <<held, visit, next, callbacks, marked, phase, pending, batch, at, work,
                     connVars, clients, open, casts, crashed>>
      /\ \/ /\ main = "stop" /\ main' = "join" /\ stopped' = stopped
            /\ stopped < ThreadNum /\ quit' = [quit EXCEPT ![stopped + 1] = TRUE]
         \/ /\ main = "join" /\ main' = "stop" /\ quit' = quit
            /\ phase[stopped + 1] = "gone" /\ stopped' = stopped + 1
  BY DEF StopThread, JoinThread, Main, loopVars
<1>2. stopped + 1 \in Loops
  BY <1>1 DEF ServerInv, TypeOK, PlaceInv, Loops, ServerAssumption
<1>3. TypeOK'
  <2>1. quit' \in [Loops -> BOOLEAN]
    BY <1>1 DEF ServerInv, TypeOK
  <2>2. stopped' \in 0..ThreadNum /\ main' \in {"stop", "join"}
    BY <1>1, <1>2 DEF ServerInv, TypeOK, Loops, ServerAssumption
  <2> QED
    BY <1>1, <2>1, <2>2 DEF ServerInv, TypeOK, connVars
<1>4. PlaceInv'
  <2>1. \A l \in Loops : l \in Nat
    BY DEF Loops
  <2>2. quit \in [Loops -> BOOLEAN] /\ stopped \in Nat
    BY DEF ServerInv, TypeOK
  <2>3. CASE main = "stop"
    <3>1. \A l \in Loops : quit'[l] => quit[l] \/ l = stopped + 1
      BY <1>1, <2>2, <2>3
    <3> QED
      BY <1>1, <2>1, <2>2, <2>3, <3>1 DEF ServerInv, PlaceInv, connVars
  <2>4. CASE main = "join"
    BY <1>1, <1>2, <2>1, <2>2, <2>4 DEF ServerInv, PlaceInv, connVars
  <2> QED
    BY <1>1, <2>3, <2>4
<1>5. PointerInv'
  BY <1>1 DEF ServerInv, PointerInv, TaskInv, WorkInv, Subscribed, connVars
<1>6. ClosingInv'
  BY <1>1 DEF ServerInv, PlaceInv, Subscribed, ClosingInv, connVars
<1>7. Owned' = Owned
  BY <1>1 DEF Owned, InTable, connVars
<1>8. TableInv'
  BY <1>1 DEF ServerInv, TableInv, connVars, Subscribed
<1>9. ConnsKept /\ QueuesKept
  BY <1>1 DEF ConnsKept, QueuesKept, connVars, ServerInv, ArrivalInv
<1>10. DescriptorInv' /\ ArrivalInv'
  BY <1>1, <1>7, <1>9, ExactKept
<1> QED
  BY <1>3, <1>4, <1>5, <1>6, <1>8, <1>10 DEF ServerInv

\* When the members are destroyed every loop is gone: nobody else is left.
LEMMA MembersKeeps ==
  ASSUME ServerAssumption, ServerInv, DestroyMembers
  PROVE  ServerInv'
<1> USE DEF DestroyMembers, Main
<1>1. \A l \in Loops : phase[l] = "gone" /\ work[l] = Idle
  BY DEF ServerInv, PlaceInv, Loops, ServerAssumption
<1>2. DOMAIN table' = {} /\ InTable' = {}
  BY DEF InTable
<1>3. crashed' \in BOOLEAN
  BY Zenon
<1>4. TypeOK'
  BY <1>2, <1>3, OpenTyped DEF ServerInv, TypeOK, loopVars
<1>5. PlaceInv'
  BY <1>2 DEF ServerInv, PlaceInv, loopVars
<1>6. PointerInv'
  BY <1>1 DEF ServerInv, PointerInv, TaskInv, WorkInv, Idle, loopVars
<1>7. ClosingInv'
  BY DEF ServerInv, PlaceInv, Subscribed, ClosingInv, loopVars
<1>8. Owned' \subseteq Owned
  BY <1>2 DEF Owned, loopVars
<1>9. TableInv'
  BY <1>2 DEF TableInv
<1>10. ConnsKept /\ QueuesKept
  BY DEF ConnsKept, QueuesKept, loopVars, ServerInv, ArrivalInv
<1>11. DescriptorInv' /\ ArrivalInv'
  BY <1>8, <1>10, ExactKept
<1> QED
  BY <1>4, <1>5, <1>6, <1>7, <1>9, <1>11 DEF ServerInv

-----------------------------------------------------------------------------
\* queueInLoop of an operation on a connection somebody owns: a destroyed loop
\* loses it, any other queues it behind everything else.
LEMMA PostKeeps ==
  ASSUME ServerInv, NEW op \in {"send", "forceClose", "closeNow"},
         NEW c \in Owned, Post(conn[c].loop, <<op, c>>),
         UNCHANGED <<batch, at, conn>>
  PROVE  /\ crashed' \in BOOLEAN
         /\ pending' \in [Loops -> Seq(Task)]
         /\ QueuesKept
         /\ \A l \in Loops :
              /\ InTasks(pending[l]) \subseteq InTasks(pending'[l])
              /\ InTasks(pending'[l]) \subseteq InTasks(pending[l]) \cup {c}
              /\ TaskInv(pending[l], l)'
              /\ phase[l] = "gone" => pending'[l] = << >>
              /\ \A d : (\E i \in 1..Len(pending[l]) : pending[l][i] = <<"closeNow", d>>)
                   => \E i \in 1..Len(pending'[l]) : pending'[l][i] = <<"closeNow", d>>
         /\ phase[conn[c].loop] # "gone" =>
              \E i \in 1..Len(pending'[conn[c].loop]) : pending'[conn[c].loop][i] = <<op, c>>
<1> DEFINE k == conn[c].loop
           t == <<op, c>>
<1>1. c \in DOMAIN conn /\ c \in Conns /\ k \in Loops /\ t \in Task
  BY OwnedExist DEF ServerInv, TypeOK, Task
<1>2. crashed' \in BOOLEAN
  <2>1. crashed \in BOOLEAN
    BY DEF ServerInv, TypeOK
  <2> QED
    BY <2>1, Zenon DEF Post
<1>3. \/ phase[k] = "gone" /\ pending' = pending
      \/ phase[k] # "gone" /\ pending' = [pending EXCEPT ![k] = Append(pending[k], t)]
  BY DEF Post
<1>4. CASE phase[k] = "gone" /\ pending' = pending
  BY <1>2, <1>4 DEF ServerInv, TypeOK, PlaceInv, ArrivalInv, PointerInv, QueuesKept, TaskInv
<1>5. CASE phase[k] # "gone" /\ pending' = [pending EXCEPT ![k] = Append(pending[k], t)]
  <2>1. pending[k] \in Seq(Task) /\ UniqueIn(pending[k], 1) /\ TaskInv(pending[k], k)
    BY <1>1 DEF ServerInv, TypeOK, ArrivalInv, PointerInv
  <2>2. /\ Append(pending[k], t) \in Seq(Task)
        /\ InTasks(Append(pending[k], t)) = InTasks(pending[k]) \cup {c}
        /\ NewIn(Append(pending[k], t), 1) = NewIn(pending[k], 1)
        /\ UniqueIn(Append(pending[k], t), 1)
    BY <1>1, <2>1, QueueAppend
  <2>3. /\ Len(Append(pending[k], t)) = Len(pending[k]) + 1
        /\ Len(pending[k]) \in Nat
        /\ \A i \in 1..Len(pending[k]) : Append(pending[k], t)[i] = pending[k][i]
        /\ Append(pending[k], t)[Len(pending[k]) + 1] = t
    BY <2>1, <1>1
  <2>4. TaskInv(Append(pending[k], t), k)
    BY SMTT(30), <1>1, <2>1, <2>3 DEF TaskInv
  <2> HIDE DEF k, t
  <2>5. /\ pending' \in [Loops -> Seq(Task)]
        /\ pending'[k] = Append(pending[k], t)
        /\ \A l \in Loops : l # k => pending'[l] = pending[l]
    BY <1>1, <1>5, <2>2 DEF ServerInv, TypeOK
  <2>6. QueuesKept
    BY <2>2, <2>5 DEF QueuesKept, ServerInv, ArrivalInv
  <2>7. ASSUME NEW l \in Loops
        PROVE  /\ InTasks(pending[l]) \subseteq InTasks(pending'[l])
               /\ InTasks(pending'[l]) \subseteq InTasks(pending[l]) \cup {c}
               /\ TaskInv(pending[l], l)'
               /\ phase[l] = "gone" => pending'[l] = << >>
    <3>1. CASE l = k
      BY <3>1, <1>5, <2>2, <2>4, <2>5 DEF TaskInv
    <3>2. CASE l # k
      <4>1. pending'[l] = pending[l] /\ TaskInv(pending[l], l)
        BY <3>2, <2>5 DEF ServerInv, PointerInv
      <4> QED
        BY <4>1 DEF TaskInv, ServerInv, PlaceInv
    <3> QED
      BY <3>1, <3>2
  <2>8. ASSUME NEW l \in Loops, NEW d,
               \E i \in 1..Len(pending[l]) : pending[l][i] = <<"closeNow", d>>
        PROVE  \E i \in 1..Len(pending'[l]) : pending'[l][i] = <<"closeNow", d>>
    BY SMTT(30), <2>3, <2>5, <2>8
  <2>9. \E i \in 1..Len(pending'[k]) : pending'[k][i] = t
    BY <2>3, <2>5
  <2> QED
    BY <1>2, <2>5, <2>6, <2>7, <2>8, <2>9 DEF k, t
<1> QED
  BY <1>3, <1>4, <1>5

\* The main thread posts to a connection of its snapshot, in the heartbeat or
\* in the destructor, whose closeNow is then under way.
LEMMA VisitKeeps ==
  ASSUME ServerAssumption, ServerInv, CheckNext \/ CloseNext
  PROVE  ServerInv'
<1> DEFINE c == First(visit)
<1>1. /\ visit # {} /\ visit' = visit \ {c}
      /\ main' = main /\ main \in {"scan", "close"}
      /\ UNCHANGED <<held, stopped, next, callbacks, marked, phase, quit, batch, at, work,
                     conn, idle, table, clients, open, casts>>
      /\ \/ main = "scan" /\ pending' = pending /\ crashed' = crashed
         \/ main = "scan" /\ Post(conn[c].loop, <<"forceClose", c>>)
         \/ main = "close" /\ Post(conn[c].loop, <<"closeNow", c>>)
  BY DEF CheckNext, CloseNext, Main, connVars
<1>2. c \in visit /\ c \in held /\ c \in Owned /\ c \in DOMAIN conn
  <2>1. c \in visit
    BY <1>1, FirstIsMember DEF ServerInv, TypeOK, PointerInv
  <2>2. visit \subseteq held /\ held \subseteq DOMAIN conn /\ held \subseteq Owned
    BY DEF ServerInv, PointerInv, Owned
  <2> QED
    BY <2>1, <2>2
<1> HIDE DEF c
<1>3. /\ crashed' \in BOOLEAN
      /\ pending' \in [Loops -> Seq(Task)]
      /\ QueuesKept
      /\ \A l \in Loops :
           /\ InTasks(pending[l]) \subseteq InTasks(pending'[l])
           /\ InTasks(pending'[l]) \subseteq InTasks(pending[l]) \cup {c}
           /\ TaskInv(pending[l], l)'
           /\ phase[l] = "gone" => pending'[l] = << >>
           /\ \A d : (\E i \in 1..Len(pending[l]) : pending[l][i] = <<"closeNow", d>>)
                => \E i \in 1..Len(pending'[l]) : pending'[l][i] = <<"closeNow", d>>
      /\ main = "close" /\ phase[conn[c].loop] # "gone" =>
           \E i \in 1..Len(pending'[conn[c].loop]) : pending'[conn[c].loop][i] = <<"closeNow", c>>
  <2>1. CASE main = "scan" /\ pending' = pending /\ crashed' = crashed
    BY <1>1, <2>1 DEF ServerInv, TypeOK, PlaceInv, ArrivalInv, PointerInv, QueuesKept, TaskInv
  <2>2. CASE main = "scan" /\ Post(conn[c].loop, <<"forceClose", c>>)
    BY <1>1, <1>2, <2>2, PostKeeps
  <2>3. CASE main = "close" /\ Post(conn[c].loop, <<"closeNow", c>>)
    BY <1>1, <1>2, <2>3, PostKeeps
  <2> QED
    BY <1>1, <2>1, <2>2, <2>3
<1>4. TypeOK'
  BY <1>1, <1>3 DEF ServerInv, TypeOK
<1>5. PlaceInv'
  <2>1. \A l \in Loops : NewIn(pending'[l], 1) = NewIn(pending[l], 1)
    BY <1>3 DEF QueuesKept
  <2> QED
    BY <1>1, <1>3, <2>1 DEF ServerInv, PlaceInv
<1>6. PointerInv'
  BY <1>1, <1>3 DEF ServerInv, PointerInv, TaskInv, WorkInv, Subscribed
<1>7. TableInv'
  BY <1>1 DEF ServerInv, TableInv, Subscribed
<1>8. Owned' = Owned
  <2>1. InTable' = InTable /\ held' = held /\ batch' = batch /\ work' = work
    BY <1>1 DEF InTable
  <2>2. \A d : Holds(d) => Holds(d)'
    BY <1>3, <2>1 DEF Holds, HoldsIn
  <2>3. \A d : Holds(d)' => Holds(d) \/ d = c
    BY <1>3, <2>1 DEF Holds, HoldsIn
  <2> QED
    BY <1>2, <2>2, <2>3, OwnedIs
<1>9. ConnsKept
  BY <1>1 DEF ConnsKept
<1>10. DescriptorInv' /\ ArrivalInv'
  BY <1>1, <1>3, <1>8, <1>9, ExactKept
<1>11. ClosingInv'
  <2> SUFFICES ASSUME NEW d \in marked, Subscribed(d)
               PROVE  \/ main = "close" /\ d \in visit'
                      \/ /\ phase[conn[d].loop] # "last"
                         /\ \E i \in 1..Len(pending'[conn[d].loop]) :
                              pending'[conn[d].loop][i] = <<"closeNow", d>>
                      \/ \E i \in (at[conn[d].loop] + 1)..Len(batch[conn[d].loop]) :
                           batch[conn[d].loop][i] = <<"closeNow", d>>
    BY <1>1 DEF ClosingInv, Subscribed
  <2>1. d \in DOMAIN conn /\ conn[d].loop \in Loops
    BY DEF ServerInv, PointerInv, TypeOK
  <2>2. main = "close"
    BY <1>1 DEF ServerInv, PlaceInv
  <2>3. phase[conn[d].loop] \notin {"last", "gone"}
    BY <2>1, <2>2 DEF ServerInv, PlaceInv
  <2>4. CASE d = c
    BY <2>2, <2>3, <2>4, <1>3
  <2>5. CASE d # c
    BY <2>1, <2>2, <2>3, <2>5, <1>1, <1>3 DEF ServerInv, ClosingInv
  <2> QED
    BY <2>4, <2>5
<1> QED
  BY <1>4, <1>5, <1>6, <1>7, <1>10, <1>11 DEF ServerInv

\* A new descriptor is handed to the next loop.
LEMMA AcceptKeeps ==
  ASSUME ServerAssumption, ServerInv, Accept
  PROVE  ServerInv'
<1> DEFINE fd == CHOOSE f \in Fds \ open : \A g \in Fds \ open : f <= g
           t == <<"new", fd>>
<1>1. fd \in Fds \ open
  <2>1. Fds \ open \subseteq Nat /\ Fds \ open # {}
    BY DEF Accept, ServerAssumption
  <2>2. \E f \in Fds \ open : \A g \in Fds \ open : f <= g
    BY <2>1, LowestNatural
  <2> QED
    BY <2>2
<1> PICK k : k = next
  OBVIOUS
<1>2. /\ main = "serve" /\ clients < MaxConns
      /\ open' = open \cup {fd} /\ Post(k, t)
      /\ GetNextLoop /\ clients' = clients + 1
      /\ UNCHANGED <<main, held, visit, stopped, callbacks, marked, phase, quit, batch,
                     at, work, connVars, casts>>
  BY DEF Accept, Main
<1> HIDE DEF fd, t
<1>3. k \in Loops /\ phase[k] # "gone" /\ t \in Task
  BY <1>1, <1>2 DEF ServerInv, TypeOK, PlaceInv, Task, t
<1>4. crashed' = crashed /\ pending' = [pending EXCEPT ![k] = Append(pending[k], t)]
  BY <1>2, <1>3 DEF Post
<1>5. pending[k] \in Seq(Task) /\ UniqueIn(pending[k], 1)
  BY <1>3 DEF ServerInv, TypeOK, ArrivalInv
<1>6. fd \notin NewFds /\ \A c \in Owned : conn[c].fd # fd
  BY <1>1 DEF ServerInv, DescriptorInv
<1>7. \A l \in Loops : fd \notin Fresh(l)
  BY <1>6 DEF NewFds
<1>8. /\ Append(pending[k], t) \in Seq(Task)
      /\ InTasks(Append(pending[k], t)) = InTasks(pending[k])
      /\ NewIn(Append(pending[k], t), 1) = NewIn(pending[k], 1) \cup {fd}
      /\ UniqueIn(Append(pending[k], t), 1)
  BY <1>3, <1>5, <1>7, QueueAppend DEF Fresh, t
<1>9. /\ Len(Append(pending[k], t)) = Len(pending[k]) + 1
      /\ Len(pending[k]) \in Nat
      /\ \A i \in 1..Len(pending[k]) : Append(pending[k], t)[i] = pending[k][i]
      /\ Append(pending[k], t)[Len(pending[k]) + 1] = t
  BY <1>5, <1>3
<1>10. /\ pending' \in [Loops -> Seq(Task)]
       /\ pending'[k] = Append(pending[k], t)
       /\ \A l \in Loops : l # k => pending'[l] = pending[l]
  BY <1>3, <1>4, <1>8 DEF ServerInv, TypeOK
<1>11. TypeOK'
  <2>1. next' \in Loops
    BY <1>2 DEF GetNextLoop, ServerInv, TypeOK, Loops, ServerAssumption
  <2>2. clients' \in 0..MaxConns
    BY <1>2 DEF ServerInv, TypeOK, ServerAssumption
  <2> QED
    BY <1>1, <1>2, <1>4, <1>10, <2>1, <2>2 DEF ServerInv, TypeOK, connVars
<1>12. PlaceInv'
  <2>1. \A l \in Loops : phase[l] \notin {"last", "gone"}
    BY <1>2 DEF ServerInv, PlaceInv
  <2> QED
    BY <1>2, <2>1 DEF ServerInv, PlaceInv, connVars
<1>13. PointerInv'
  <2>1. \A l \in Loops : TaskInv(pending[l], l)'
    <3>1. TaskInv(pending[k], k)
      BY <1>3 DEF ServerInv, PointerInv
    <3>2. TaskInv(Append(pending[k], t), k)
      BY <1>9, <3>1 DEF TaskInv, t
    <3>3. \A l \in Loops : TaskInv(pending'[l], l)
      BY <1>10, <3>2 DEF ServerInv, PointerInv
    <3> QED
      BY <1>2, <3>3 DEF TaskInv, connVars
  <2> QED
    BY <1>2, <2>1 DEF ServerInv, PointerInv, TaskInv, WorkInv, Subscribed, connVars
<1>14. TableInv'
  BY <1>2 DEF ServerInv, TableInv, connVars, Subscribed
<1>15. Owned' = Owned
  <2>1. InTable' = InTable /\ held' = held /\ batch' = batch /\ work' = work
    BY <1>2 DEF InTable, connVars
  <2>2. \A l \in Loops : InTasks(pending'[l]) = InTasks(pending[l])
    BY <1>8, <1>10
  <2> QED
    BY <2>1, <2>2, OwnedIs DEF Holds, HoldsIn
<1>16. /\ Fresh(k)' = Fresh(k) \cup {fd}
       /\ \A l \in Loops : l # k => Fresh(l)' = Fresh(l)
  BY <1>2, <1>3, <1>8, <1>10 DEF Fresh
<1>17. NewFds' = NewFds \cup {fd}
  BY <1>3, <1>16 DEF NewFds
<1>18. DescriptorInv'
  BY <1>2, <1>15, <1>17 DEF ServerInv, DescriptorInv, connVars
<1>19. ArrivalInv'
  <2>1. /\ IsFiniteSet(NewFds')
        /\ Cardinality(DOMAIN conn') + Cardinality(NewFds') <= clients'
    <3>1. /\ IsFiniteSet(NewFds) /\ Cardinality(NewFds) \in Nat
          /\ Cardinality(DOMAIN conn) + Cardinality(NewFds) <= clients
      BY FS_CardinalityType DEF ServerInv, ArrivalInv
    <3>2. IsFiniteSet(NewFds') /\ Cardinality(NewFds') = Cardinality(NewFds) + 1
      BY <3>1, <1>6, <1>17, FS_AddElement
    <3>3. IsFiniteSet(DOMAIN conn) /\ Cardinality(DOMAIN conn) \in Nat
      <4>1. IsFiniteSet(Conns)
        BY FS_Interval DEF Conns, ServerAssumption
      <4>2. IsFiniteSet(DOMAIN conn)
        BY <4>1, FS_Subset DEF ServerInv, TypeOK
      <4> QED
        BY <4>2, FS_CardinalityType
    <3>4. clients \in Nat /\ conn' = conn
      BY <1>2 DEF ServerInv, TypeOK, connVars
    <3> QED
      BY <3>1, <3>2, <3>3, <3>4, <1>2
  <2>2. \A c \in Owned' : conn'[c].fd \notin NewFds'
    BY <1>2, <1>6, <1>15, <1>17 DEF ServerInv, ArrivalInv, connVars
  <2>3. \A l, j \in Loops : l # j => Fresh(l)' \cap Fresh(j)' = {}
    <3>1. \A l, j \in Loops : l # j => Fresh(l) \cap Fresh(j) = {}
      BY DEF ServerInv, ArrivalInv
    <3> QED
      BY <1>3, <1>7, <1>16, <3>1
  <2>4. ASSUME NEW l \in Loops
        PROVE  /\ NewIn(pending'[l], 1) \cap NewIn(batch'[l], at'[l] + 1) = {}
               /\ UniqueIn(pending'[l], 1) /\ UniqueIn(batch'[l], at'[l] + 1)
    <3>1. /\ NewIn(pending[l], 1) \cap NewIn(batch[l], at[l] + 1) = {}
          /\ UniqueIn(pending[l], 1) /\ UniqueIn(batch[l], at[l] + 1)
          /\ fd \notin NewIn(batch[l], at[l] + 1)
      BY <1>7 DEF ServerInv, ArrivalInv, Fresh
    <3>2. NewIn(pending'[l], 1) \subseteq NewIn(pending[l], 1) \cup {fd}
      BY <1>8, <1>10
    <3>3. UniqueIn(pending'[l], 1)
      BY <1>8, <1>10, <3>1
    <3>4. batch' = batch /\ at' = at
      BY <1>2
    <3> QED
      BY <3>1, <3>2, <3>3, <3>4
  <2> QED
    BY <1>2, <2>1, <2>2, <2>3, <2>4 DEF ServerInv, ArrivalInv, connVars
<1>20. ClosingInv'
  BY <1>2 DEF ServerInv, PlaceInv, ClosingInv
<1> QED
  BY <1>11, <1>12, <1>13, <1>14, <1>18, <1>19, <1>20 DEF ServerInv

-----------------------------------------------------------------------------
\* The sub threads.

\* While a loop lives, so does the Server.
LEMMA LoopLives ==
  ASSUME ServerAssumption, ServerInv, NEW l \in Loops, phase[l] # "gone"
  PROVE  main # "gone"
  BY DEF ServerInv, PlaceInv, TypeOK, Loops, ServerAssumption

\* What a thread works on when it calls the application.
LEMMA CallIs ==
  ASSUME ServerAssumption, NEW op \in {"connection", "message", "close"}, NEW c \in Conns
  PROVE  LET w == [Idle EXCEPT !.op = op, !.c = c] IN
           /\ w \in Work
           /\ w.op = op /\ w.c = c /\ ~w.cast /\ w.snap = {} /\ w.todo = {}
<1> DEFINE w == [Idle EXCEPT !.op = op, !.c = c]
<1>1. Idle \in Work
  BY DEF Idle, Work, ServerAssumption
<1>2. c \in 0..MaxConns
  BY DEF Conns
<1>3. w \in Work
  BY <1>1, <1>2 DEF Work
<1>4. w.op = op /\ w.c = c /\ w.cast = Idle.cast /\ w.snap = Idle.snap /\ w.todo = Idle.todo
  BY <1>1 DEF Work
<1>5. Idle.cast = FALSE /\ Idle.snap = {} /\ Idle.todo = {}
  BY DEF Idle
<1> QED
  BY <1>3, <1>4, <1>5

\* Data for a connection.
LEMMA MessageKeeps ==
  ASSUME ServerAssumption, ServerInv, NEW l \in Loops, NEW c \in Conns, Message(l, c)
  PROVE  ServerInv'
<1> DEFINE w == [Idle EXCEPT !.op = "message", !.c = c]
<1>1. /\ phase[l] = "io" /\ work[l] = Idle
      /\ c \in DOMAIN conn /\ conn[c].loop = l
      /\ work' = [work EXCEPT ![l] = w] \/ work' = work
      /\ UNCHANGED <<mainVars, phase, quit, pending, batch, at, conn, table, clients, open,
                     casts, crashed>>
      /\ idle' \subseteq idle
  BY DEF Message, Event, Free, Call
<1>2. w.op = "message" /\ w.c = c /\ ~w.cast /\ w.snap = {} /\ w.todo = {}
  BY CallIs
<1>3. w \in Work
  BY CallIs
<1> HIDE DEF w
<1>4. work \in [Loops -> Work]
  BY DEF ServerInv, TypeOK
<1>5. /\ work' \in [Loops -> Work]
      /\ work'[l] = w \/ work'[l] = work[l]
      /\ \A k \in Loops : k # l => work'[k] = work[k]
  BY <1>1, <1>3, <1>4
<1>6. TypeOK'
  BY <1>1, <1>5 DEF ServerInv, TypeOK, mainVars
<1>7. PlaceInv'
  BY <1>1, <1>5 DEF ServerInv, PlaceInv, mainVars
<1>8. \A k \in Loops : WorkInv(k)'
  <2> TAKE k \in Loops
  <2>1. WorkInv(k)
    BY DEF ServerInv, PointerInv
  <2>2. CASE work'[k] = work[k]
    BY <1>1, <2>1, <2>2 DEF WorkInv, Subscribed
  <2>3. CASE k = l /\ work'[k] = w
    BY <1>1, <1>2, <2>3 DEF WorkInv
  <2> QED
    BY <1>5, <2>2, <2>3
<1>9. PointerInv'
  BY <1>1, <1>8 DEF ServerInv, PointerInv, TaskInv, mainVars
<1>10. TableInv'
  <2>1. \A k \in Loops : work[k].op = "close" => work'[k] = work[k]
    BY <1>1, <1>5 DEF Idle
  <2> QED
    BY <1>1, <2>1 DEF ServerInv, TableInv, Subscribed, mainVars
<1>11. Owned' = Owned
  <2>1. InTable' = InTable /\ held' = held /\ batch' = batch /\ pending' = pending
    BY <1>1 DEF InTable, mainVars
  <2>2. \A k \in Loops : \A d : HoldsIn(k, d)' <=> HoldsIn(k, d)
    <3> TAKE k \in Loops
    <3> TAKE d
    <3>1. CASE work'[k] = work[k]
      BY <2>1, <3>1 DEF HoldsIn
    <3>2. CASE k = l /\ work'[k] = w
      BY <1>1, <1>2, <2>1, <3>2 DEF HoldsIn, Idle
    <3> QED
      BY <1>5, <3>1, <3>2
  <2> QED
    BY <2>1, <2>2, OwnedIs DEF Holds
<1>12. ConnsKept /\ QueuesKept
  BY <1>1 DEF ConnsKept, QueuesKept, ServerInv, ArrivalInv
<1>13. DescriptorInv' /\ ArrivalInv'
  BY <1>1, <1>11, <1>12, ExactKept
<1>14. ClosingInv'
  BY <1>1 DEF ServerInv, ClosingInv, Subscribed, mainVars
<1> QED
  BY <1>6, <1>7, <1>9, <1>10, <1>13, <1>14 DEF ServerInv

\* broadcast() takes its snapshot.
LEMMA BroadcastKeeps ==
  ASSUME ServerAssumption, ServerInv, NEW l \in Loops, Broadcast(l)
  PROVE  ServerInv'
<1> DEFINE w == [work[l] EXCEPT !.cast = TRUE, !.snap = InTable, !.todo = InTable]
<1>1. /\ work[l].op # "none" /\ work[l].snap = {}
      /\ work' = [work EXCEPT ![l] = w]
      /\ casts < MaxCasts /\ casts' = casts + 1
      /\ UNCHANGED <<mainVars, phase, quit, pending, batch, at, connVars, clients, open, crashed>>
  <2>1. WorkInv(l)
    BY DEF ServerInv, PointerInv
  <2>2. work[l].snap = {}
    BY <2>1 DEF WorkInv, Broadcast
  <2>3. work' = [work EXCEPT ![l] = w]
    BY DEF Broadcast
  <2> QED
    BY <2>2, <2>3 DEF Broadcast, Busy
<1>2. InTable \subseteq Conns /\ InTable \subseteq DOMAIN conn
  BY DEF ServerInv, TableInv, TypeOK, InTable
<1>3. work \in [Loops -> Work]
  BY DEF ServerInv, TypeOK
<1>4. /\ w \in Work /\ w.op = work[l].op /\ w.c = work[l].c /\ w.cast
      /\ w.snap = InTable /\ w.todo = InTable
  BY <1>2, <1>3 DEF Work
<1> HIDE DEF w
<1>5. /\ work' \in [Loops -> Work]
      /\ work'[l] = w
      /\ \A k \in Loops : k # l => work'[k] = work[k]
  BY <1>1, <1>3, <1>4
<1>6. TypeOK'
  <2>1. casts' \in 0..MaxCasts
    BY <1>1 DEF ServerInv, TypeOK, ServerAssumption
  <2> QED
    BY <1>1, <1>5, <2>1 DEF ServerInv, TypeOK, mainVars, connVars
<1>7. PlaceInv'
  <2>1. phase[l] \notin {"drain", "gone"}
    BY <1>1 DEF ServerInv, PlaceInv, Idle
  <2> QED
    BY <1>1, <1>5, <2>1 DEF ServerInv, PlaceInv, mainVars, connVars
<1>8. \A k \in Loops : WorkInv(k)'
  <2> TAKE k \in Loops
  <2>1. WorkInv(k)
    BY DEF ServerInv, PointerInv
  <2>2. CASE k # l
    BY <1>1, <1>5, <2>1, <2>2 DEF WorkInv, Subscribed, connVars
  <2>3. CASE k = l
    BY <1>1, <1>2, <1>4, <1>5, <2>1, <2>3 DEF WorkInv, Subscribed, connVars
  <2> QED
    BY <2>2, <2>3
<1>9. PointerInv'
  BY <1>1, <1>8 DEF ServerInv, PointerInv, TaskInv, mainVars, connVars
<1>10. TableInv'
  <2>1. \A k \in Loops : work'[k].op = work[k].op /\ work'[k].c = work[k].c
    BY <1>4, <1>5
  <2> QED
    BY <1>1, <2>1 DEF ServerInv, TableInv, Subscribed, mainVars, connVars
<1>11. Owned' = Owned
  <2>1. InTable' = InTable /\ held' = held /\ batch' = batch /\ pending' = pending
    BY <1>1 DEF InTable, mainVars, connVars
  <2>2. \A k \in Loops : \A d : HoldsIn(k, d) => HoldsIn(k, d)'
    BY <1>1, <1>4, <1>5, <2>1 DEF HoldsIn
  <2>3. \A k \in Loops : \A d : HoldsIn(k, d)' => HoldsIn(k, d) \/ d \in InTable
    BY <1>1, <1>4, <1>5, <2>1 DEF HoldsIn
  <2> QED
    BY <2>1, <2>2, <2>3, OwnedIs DEF Holds
<1>12. ConnsKept /\ QueuesKept
  BY <1>1 DEF ConnsKept, QueuesKept, ServerInv, ArrivalInv, connVars
<1>13. DescriptorInv' /\ ArrivalInv'
  BY <1>1, <1>11, <1>12, ExactKept
<1>14. ClosingInv'
  BY <1>1 DEF ServerInv, ClosingInv, Subscribed, mainVars, connVars
<1> QED
  BY <1>6, <1>7, <1>9, <1>10, <1>13, <1>14 DEF ServerInv

\* send() to the next connection of the snapshot.
LEMMA BroadcastNextKeeps ==
  ASSUME ServerAssumption, ServerInv, NEW l \in Loops, BroadcastNext(l)
  PROVE  ServerInv'
<1> PICK c : c = First(work[l].todo)
  OBVIOUS
<1> DEFINE w == [work[l] EXCEPT !.todo = work[l].todo \ {c}]
<1>1. /\ work[l].op # "none" /\ work[l].todo # {}
      /\ work' = [work EXCEPT ![l] = w]
      /\ UNCHANGED <<mainVars, phase, quit, batch, at, connVars, clients, open, casts>>
      /\ \/ pending' = pending /\ crashed' = crashed
         \/ Post(conn[c].loop, <<"send", c>>)
  BY DEF BroadcastNext, Busy
<1>2. c \in work[l].snap /\ c \in Owned /\ c \in DOMAIN conn
  <2>1. WorkInv(l)
    BY DEF ServerInv, PointerInv
  <2>2. work[l].todo \subseteq work[l].snap /\ work[l].snap \subseteq DOMAIN conn
    BY <2>1 DEF WorkInv
  <2>3. c \in work[l].todo
    BY <1>1, <2>2, FirstIsMember DEF ServerInv, TypeOK
  <2>4. c \in Owned
    BY <2>2, <2>3, OwnedIs DEF Holds, HoldsIn
  <2> QED
    BY <2>2, <2>3, <2>4
<1>3. work \in [Loops -> Work]
  BY DEF ServerInv, TypeOK
<1>4. /\ w \in Work /\ w.op = work[l].op /\ w.c = work[l].c /\ w.cast = work[l].cast
      /\ w.snap = work[l].snap /\ w.todo \subseteq work[l].todo
  BY <1>3 DEF Work
<1> HIDE DEF w
<1>5. /\ work' \in [Loops -> Work]
      /\ work'[l] = w
      /\ \A k \in Loops : k # l => work'[k] = work[k]
  BY <1>1, <1>3, <1>4
<1>6. /\ crashed' \in BOOLEAN
      /\ pending' \in [Loops -> Seq(Task)]
      /\ QueuesKept
      /\ \A k \in Loops :
           /\ InTasks(pending[k]) \subseteq InTasks(pending'[k])
           /\ InTasks(pending'[k]) \subseteq InTasks(pending[k]) \cup {c}
           /\ TaskInv(pending[k], k)'
           /\ phase[k] = "gone" => pending'[k] = << >>
           /\ \A d : (\E i \in 1..Len(pending[k]) : pending[k][i] = <<"closeNow", d>>)
                => \E i \in 1..Len(pending'[k]) : pending'[k][i] = <<"closeNow", d>>
  <2>1. CASE pending' = pending /\ crashed' = crashed
    BY <1>1, <2>1 DEF ServerInv, TypeOK, PlaceInv, ArrivalInv, PointerInv, QueuesKept, TaskInv,
                      connVars
  <2>2. CASE Post(conn[c].loop, <<"send", c>>)
    <3>1. UNCHANGED <<batch, at, conn>>
      BY <1>1 DEF connVars
    <3> QED
      BY <1>2, <2>2, <3>1, PostKeeps
  <2> QED
    BY <1>1, <2>1, <2>2
<1>7. TypeOK'
  BY <1>1, <1>5, <1>6 DEF ServerInv, TypeOK, mainVars, connVars
<1>8. PlaceInv'
  <2>1. phase[l] \notin {"drain", "gone"}
    BY <1>1 DEF ServerInv, PlaceInv, Idle
  <2>2. \A k \in Loops : NewIn(pending'[k], 1) = NewIn(pending[k], 1)
    BY <1>6 DEF QueuesKept
  <2> QED
    BY <1>1, <1>5, <1>6, <2>1, <2>2 DEF ServerInv, PlaceInv, mainVars, connVars
<1>9. \A k \in Loops : WorkInv(k)'
  <2> TAKE k \in Loops
  <2>1. WorkInv(k)
    BY DEF ServerInv, PointerInv
  <2>2. CASE k # l
    BY <1>1, <1>5, <2>1, <2>2 DEF WorkInv, Subscribed, connVars
  <2>3. CASE k = l
    BY <1>1, <1>4, <1>5, <2>1, <2>3 DEF WorkInv, Subscribed, connVars
  <2> QED
    BY <2>2, <2>3
<1>10. PointerInv'
  <2>1. \A k \in Loops : TaskInv(pending[k], k)' /\ TaskInv(batch[k], k)'
    BY <1>1, <1>6 DEF ServerInv, PointerInv, TaskInv, connVars
  <2> QED
    BY <1>1, <1>9, <2>1 DEF ServerInv, PointerInv, mainVars, connVars
<1>11. TableInv'
  <2>1. \A k \in Loops : work'[k].op = work[k].op /\ work'[k].c = work[k].c
    BY <1>4, <1>5
  <2> QED
    BY <1>1, <2>1 DEF ServerInv, TableInv, Subscribed, mainVars, connVars
<1>12. Owned' = Owned
  <2>1. InTable' = InTable /\ held' = held /\ batch' = batch
    BY <1>1 DEF InTable, mainVars, connVars
  <2>2. \A k \in Loops : /\ work'[k].op = work[k].op /\ work'[k].c = work[k].c
                         /\ work'[k].snap = work[k].snap
    BY <1>4, <1>5
  <2>3. \A d : Holds(d) => Holds(d)'
    BY <1>6, <2>1, <2>2 DEF Holds, HoldsIn
  <2>4. \A d : Holds(d)' => Holds(d) \/ d = c
    BY <1>6, <2>1, <2>2 DEF Holds, HoldsIn
  <2> QED
    BY <1>2, <2>3, <2>4, OwnedIs
<1>13. ConnsKept
  BY <1>1 DEF ConnsKept, connVars
<1>14. DescriptorInv' /\ ArrivalInv'
  BY <1>1, <1>6, <1>12, <1>13, ExactKept
<1>15. ClosingInv'
  <2>1. \A d \in marked : d \in DOMAIN conn /\ conn[d].loop \in Loops
    BY DEF ServerInv, PointerInv, TypeOK
  <2> QED
    <3> SUFFICES ASSUME NEW d \in marked, Subscribed(d)
                 PROVE  \/ main = "close" /\ d \in visit
                        \/ /\ phase[conn[d].loop] # "last"
                           /\ \E i \in 1..Len(pending'[conn[d].loop]) :
                                pending'[conn[d].loop][i] = <<"closeNow", d>>
                        \/ \E i \in (at[conn[d].loop] + 1)..Len(batch[conn[d].loop]) :
                             batch[conn[d].loop][i] = <<"closeNow", d>>
      BY <1>1 DEF ClosingInv, Subscribed, mainVars, connVars
    <3> QED
      BY <1>6, <2>1 DEF ServerInv, ClosingInv
<1> QED
  BY <1>7, <1>8, <1>10, <1>11, <1>14, <1>15 DEF ServerInv

\* The loop takes what is queued as its batch.
LEMMA SwapKeeps ==
  ASSUME ServerInv, NEW l \in Loops, SwapPending(l)
  PROVE  ServerInv'
<1>1. /\ phase[l] \in {"io", "drain"} /\ work[l] = Idle
      /\ phase' = [phase EXCEPT ![l] = IF phase[l] = "io" THEN "run" ELSE "last"]
      /\ batch' = [batch EXCEPT ![l] = pending[l]]
      /\ pending' = [pending EXCEPT ![l] = << >>]
      /\ UNCHANGED <<mainVars, quit, at, work, connVars, clients, open, casts, crashed>>
  BY DEF SwapPending, Free
<1>2. batch[l] = << >> /\ at[l] = 0 /\ pending[l] \in Seq(Task)
  BY <1>1 DEF ServerInv, PlaceInv, TypeOK
<1>3. /\ phase' \in [Loops -> {"io", "run", "drain", "last", "gone"}]
      /\ phase'[l] = IF phase[l] = "io" THEN "run" ELSE "last"
      /\ \A k \in Loops : k # l => phase'[k] = phase[k]
  BY <1>1 DEF ServerInv, TypeOK
<1>4. /\ batch' \in [Loops -> Seq(Task)] /\ pending' \in [Loops -> Seq(Task)]
      /\ batch'[l] = pending[l] /\ pending'[l] = << >>
      /\ \A k \in Loops : k # l => batch'[k] = batch[k] /\ pending'[k] = pending[k]
  BY <1>1, <1>2 DEF ServerInv, TypeOK
<1>5. TypeOK'
  BY <1>1, <1>3, <1>4 DEF ServerInv, TypeOK, mainVars, connVars
<1>6. PlaceInv'
  <2>1. NewIn(pending'[l], 1) = {}
    BY <1>4, QueueEmpty
  <2>2. phase[l] = "drain" => quit[l]
    BY DEF ServerInv, PlaceInv
  <2>3. Len(batch'[l]) \in Nat
    BY <1>2, <1>4
  <2>4. \A k \in Loops :
          /\ phase'[k] \in {"drain", "last", "gone"} => quit[k]
          /\ k <= stopped => phase'[k] = "gone"
          /\ at[k] <= Len(batch'[k])
          /\ phase'[k] \in {"io", "drain", "gone"} => batch'[k] = << >> /\ at[k] = 0
          /\ phase'[k] \in {"drain", "gone"} => work[k] = Idle
          /\ phase'[k] = "last" => NewIn(pending'[k], 1) = {}
          /\ phase'[k] = "gone" => pending'[k] = << >>
    <3> TAKE k \in Loops
    <3>1. CASE k = l
      BY <3>1, <1>1, <1>2, <1>3, <1>4, <2>1, <2>2, <2>3 DEF ServerInv, PlaceInv
    <3>2. CASE k # l
      BY <3>2, <1>3, <1>4 DEF ServerInv, PlaceInv
    <3> QED
      BY <3>1, <3>2
  <2> QED
    BY <1>1, <2>4 DEF ServerInv, PlaceInv, mainVars, connVars
<1>7. PointerInv'
  <2>1. \A k \in Loops : TaskInv(pending'[k], k) /\ TaskInv(batch'[k], k)
    BY <1>4, QueueEmpty DEF ServerInv, PointerInv
  <2> QED
    BY <1>1, <2>1 DEF ServerInv, PointerInv, TaskInv, WorkInv, Subscribed, mainVars, connVars
<1>8. TableInv'
  BY <1>1 DEF ServerInv, TableInv, Subscribed, mainVars, connVars
<1>9. Owned' = Owned
  <2>1. InTable' = InTable /\ held' = held /\ work' = work
    BY <1>1 DEF InTable, mainVars, connVars
  <2>2. \A k \in Loops : InTasks(pending'[k]) \cup InTasks(batch'[k])
                           = InTasks(pending[k]) \cup InTasks(batch[k])
    BY <1>2, <1>4, QueueEmpty
  <2>3. \A k \in Loops : \A d : HoldsIn(k, d)' <=> HoldsIn(k, d)
    BY <2>1, <2>2 DEF HoldsIn
  <2> QED
    BY <2>1, <2>3, OwnedIs DEF Holds
<1>10. FreshKept
  <2> SUFFICES ASSUME NEW k \in Loops
               PROVE  /\ Fresh(k)' = Fresh(k)
                      /\ NewIn(pending'[k], 1) \cap NewIn(batch'[k], at'[k] + 1) = {}
                      /\ UniqueIn(pending'[k], 1) /\ UniqueIn(batch'[k], at'[k] + 1)
    BY DEF FreshKept
  <2>1. at' = at
    BY <1>1
  <2>2. /\ NewIn(pending[k], 1) \cap NewIn(batch[k], at[k] + 1) = {}
        /\ UniqueIn(pending[k], 1) /\ UniqueIn(batch[k], at[k] + 1)
    BY DEF ServerInv, ArrivalInv
  <2>3. CASE k # l
    BY <2>1, <2>2, <2>3, <1>4 DEF Fresh
  <2>4. CASE k = l
    <3>1. NewIn(<< >>, 1) = {} /\ UniqueIn(<< >>, 1)
      BY QueueEmpty
    <3>2. at[l] + 1 = 1
      BY <1>2
    <3> QED
      BY <1>2, <1>4, <2>1, <2>2, <2>4, <3>1, <3>2 DEF Fresh
  <2> QED
    BY <2>3, <2>4
<1>11. ConnsKept
  BY <1>1 DEF ConnsKept, connVars
<1>12. DescriptorInv' /\ ArrivalInv'
  BY <1>1, <1>9, <1>10, <1>11, ExactKept
<1>13. ClosingInv'
  <2> SUFFICES ASSUME NEW d \in marked, Subscribed(d), NEW k, k = conn[d].loop
               PROVE  \/ main = "close" /\ d \in visit
                      \/ /\ phase'[k] # "last"
                         /\ \E i \in 1..Len(pending'[k]) : pending'[k][i] = <<"closeNow", d>>
                      \/ \E i \in (at[k] + 1)..Len(batch'[k]) : batch'[k][i] = <<"closeNow", d>>
    BY <1>1 DEF ClosingInv, Subscribed, mainVars, connVars
  <2>1. k \in Loops
    BY DEF ServerInv, PointerInv, TypeOK
  <2>2. \/ main = "close" /\ d \in visit
        \/ /\ phase[k] # "last"
           /\ \E i \in 1..Len(pending[k]) : pending[k][i] = <<"closeNow", d>>
        \/ \E i \in (at[k] + 1)..Len(batch[k]) : batch[k][i] = <<"closeNow", d>>
    BY DEF ServerInv, ClosingInv
  <2>3. CASE k # l
    BY <2>1, <2>2, <2>3, <1>3, <1>4
  <2>4. CASE k = l
    BY <2>2, <2>4, <1>2, <1>4
  <2> QED
    BY <2>3, <2>4
<1> QED
  BY <1>5, <1>6, <1>7, <1>8, <1>12, <1>13 DEF ServerInv

\* The loop sees quit_.
LEMMA SeeQuitKeeps ==
  ASSUME ServerInv, NEW l \in Loops, SeeQuit(l)
  PROVE  ServerInv'
<1>1. /\ phase[l] = "io" /\ work[l] = Idle /\ quit[l]
      /\ phase' = [phase EXCEPT ![l] = "drain"]
      /\ UNCHANGED <<mainVars, quit, pending, batch, at, work, connVars, clients, open,
                     casts, crashed>>
  BY DEF SeeQuit, Free
<1>2. /\ phase' \in [Loops -> {"io", "run", "drain", "last", "gone"}]
      /\ phase'[l] = "drain"
      /\ \A k \in Loops : k # l => phase'[k] = phase[k]
  BY <1>1 DEF ServerInv, TypeOK
<1>3. TypeOK'
  BY <1>1, <1>2 DEF ServerInv, TypeOK, mainVars, connVars
<1>4. PlaceInv'
  BY <1>1, <1>2 DEF ServerInv, PlaceInv, mainVars, connVars
<1>5. PointerInv'
  BY <1>1 DEF ServerInv, PointerInv, TaskInv, WorkInv, Subscribed, mainVars, connVars
<1>6. TableInv'
  BY <1>1 DEF ServerInv, TableInv, Subscribed, mainVars, connVars
<1>7. Owned' = Owned
  BY <1>1 DEF Owned, InTable, mainVars, connVars
<1>8. ConnsKept /\ QueuesKept
  BY <1>1 DEF ConnsKept, QueuesKept, connVars, ServerInv, ArrivalInv
<1>9. DescriptorInv' /\ ArrivalInv'
  BY <1>1, <1>7, <1>8, ExactKept
<1>10. ClosingInv'
  <2>1. \A k \in Loops : phase[k] # "last" => phase'[k] # "last"
    BY <1>2
  <2>2. \A d \in marked : d \in DOMAIN conn /\ conn[d].loop \in Loops
    BY DEF ServerInv, PointerInv, TypeOK
  <2> QED
    BY <1>1, <2>1, <2>2 DEF ServerInv, ClosingInv, Subscribed, mainVars, connVars
<1> QED
  BY <1>3, <1>4, <1>5, <1>6, <1>9, <1>10 DEF ServerInv

\* The batch is over; what is still queued after the last one holds no
\* descriptor on its way, and no closeNow.
LEMMA EndKeeps ==
  ASSUME ServerInv, NEW l \in Loops, EndPending(l)
  PROVE  ServerInv'
<1>1. /\ phase[l] \in {"run", "last"} /\ work[l] = Idle /\ at[l] = Len(batch[l])
      /\ batch' = [batch EXCEPT ![l] = << >>]
      /\ at' = [at EXCEPT ![l] = 0]
      /\ \/ /\ phase[l] = "last" /\ phase' = [phase EXCEPT ![l] = "gone"]
            /\ pending' = [pending EXCEPT ![l] = << >>]
         \/ /\ phase[l] = "run"
            /\ phase' = [phase EXCEPT ![l] = IF quit[l] THEN "drain" ELSE "io"]
            /\ pending' = pending
      /\ UNCHANGED <<mainVars, quit, work, connVars, clients, casts, crashed>>
      /\ CloseUnowned
  BY DEF EndPending, Free
<1>2. pending[l] \in Seq(Task) /\ batch[l] \in Seq(Task)
  BY DEF ServerInv, TypeOK
<1>3. /\ phase' \in [Loops -> {"io", "run", "drain", "last", "gone"}]
      /\ \/ phase[l] = "last" /\ phase'[l] = "gone"
         \/ phase[l] = "run" /\ phase'[l] \in {"io", "drain"} /\ (phase'[l] = "drain" => quit[l])
      /\ \A k \in Loops : k # l => phase'[k] = phase[k]
  BY <1>1 DEF ServerInv, TypeOK
<1>4. /\ batch' \in [Loops -> Seq(Task)] /\ pending' \in [Loops -> Seq(Task)]
      /\ at' \in [Loops -> Nat]
      /\ batch'[l] = << >> /\ at'[l] = 0
      /\ phase[l] = "last" => pending'[l] = << >>
      /\ phase[l] = "run" => pending'[l] = pending[l]
      /\ \A k \in Loops : k # l => /\ batch'[k] = batch[k] /\ pending'[k] = pending[k]
                                   /\ at'[k] = at[k]
  <2>1. batch \in [Loops -> Seq(Task)] /\ pending \in [Loops -> Seq(Task)] /\ at \in [Loops -> Nat]
    BY DEF ServerInv, TypeOK
  <2>2. /\ batch' \in [Loops -> Seq(Task)] /\ at' \in [Loops -> Nat]
        /\ batch'[l] = << >> /\ at'[l] = 0
        /\ \A k \in Loops : k # l => batch'[k] = batch[k] /\ at'[k] = at[k]
    BY <1>1, <2>1
  <2>3. /\ pending' \in [Loops -> Seq(Task)]
        /\ phase[l] = "last" => pending'[l] = << >>
        /\ phase[l] = "run" => pending'[l] = pending[l]
        /\ \A k \in Loops : k # l => pending'[k] = pending[k]
    <3>1. CASE phase[l] = "last" /\ pending' = [pending EXCEPT ![l] = << >>]
      BY <2>1, <3>1
    <3>2. CASE phase[l] = "run" /\ pending' = pending
      BY <2>1, <3>2
    <3> QED
      BY <1>1, <3>1, <3>2
  <2> QED
    BY <2>2, <2>3
<1>5. TypeOK'
  BY <1>1, <1>3, <1>4, OpenTyped DEF ServerInv, TypeOK, mainVars, connVars
<1>6. PlaceInv'
  <2>1. \A k \in Loops :
          /\ phase'[k] \in {"drain", "last", "gone"} => quit[k]
          /\ k <= stopped => phase'[k] = "gone"
          /\ at'[k] <= Len(batch'[k])
          /\ phase'[k] \in {"io", "drain", "gone"} => batch'[k] = << >> /\ at'[k] = 0
          /\ phase'[k] \in {"drain", "gone"} => work[k] = Idle
          /\ phase'[k] = "last" => NewIn(pending'[k], 1) = {}
          /\ phase'[k] = "gone" => pending'[k] = << >>
    <3> TAKE k \in Loops
    <3>1. CASE k = l
      BY <3>1, <1>1, <1>3, <1>4 DEF ServerInv, PlaceInv
    <3>2. CASE k # l
      BY <3>2, <1>3, <1>4 DEF ServerInv, PlaceInv
    <3> QED
      BY <3>1, <3>2
  <2> QED
    BY <1>1, <2>1 DEF ServerInv, PlaceInv, mainVars, connVars
<1>7. PointerInv'
  <2>1. \A k \in Loops : TaskInv(pending'[k], k) /\ TaskInv(batch'[k], k)
    BY <1>1, <1>4, QueueEmpty DEF ServerInv, PointerInv
  <2> QED
    BY <1>1, <2>1 DEF ServerInv, PointerInv, TaskInv, WorkInv, Subscribed, mainVars, connVars
<1>8. TableInv'
  BY <1>1 DEF ServerInv, TableInv, Subscribed, mainVars, connVars
<1>9. Owned' \subseteq Owned
  <2>1. InTable' = InTable /\ held' = held /\ work' = work
    BY <1>1 DEF InTable, mainVars, connVars
  <2>2. \A k \in Loops : /\ InTasks(pending'[k]) \subseteq InTasks(pending[k])
                         /\ InTasks(batch'[k]) \subseteq InTasks(batch[k])
    BY <1>1, <1>4, QueueEmpty
  <2> QED
    BY <2>1, <2>2, OwnedIs DEF Holds, HoldsIn
<1>10. QueuesKept
  <2> SUFFICES ASSUME NEW k \in Loops
               PROVE  /\ NewIn(pending'[k], 1) = NewIn(pending[k], 1)
                      /\ NewIn(batch'[k], at'[k] + 1) = NewIn(batch[k], at[k] + 1)
                      /\ UniqueIn(pending'[k], 1) /\ UniqueIn(batch'[k], at'[k] + 1)
    BY DEF QueuesKept
  <2>1. UniqueIn(pending[k], 1) /\ UniqueIn(batch[k], at[k] + 1)
    BY DEF ServerInv, ArrivalInv
  <2>2. CASE k # l
    BY <2>1, <2>2, <1>4
  <2>3. CASE k = l
    <3>1. NewIn(<< >>, 1) = {} /\ UniqueIn(<< >>, 1)
      BY QueueEmpty
    <3>2. NewIn(batch[l], at[l] + 1) = {}
      BY <1>1, <1>2, QueueDone
    <3>3. phase[l] = "last" => NewIn(pending[l], 1) = {}
      BY DEF ServerInv, PlaceInv
    <3>4. at'[l] + 1 = 1
      BY <1>4
    <3> QED
      BY <1>1, <1>4, <2>1, <2>3, <3>1, <3>2, <3>3, <3>4
  <2> QED
    BY <2>2, <2>3
<1>11. ConnsKept
  BY <1>1 DEF ConnsKept, connVars
<1>12. DescriptorInv' /\ ArrivalInv'
  BY <1>1, <1>9, <1>10, <1>11, ExactKept
<1>13. ClosingInv'
  <2> SUFFICES ASSUME NEW d \in marked, Subscribed(d), NEW k, k = conn[d].loop
               PROVE  \/ main = "close" /\ d \in visit
                      \/ /\ phase'[k] # "last"
                         /\ \E i \in 1..Len(pending'[k]) : pending'[k][i] = <<"closeNow", d>>
                      \/ \E i \in (at'[k] + 1)..Len(batch'[k]) : batch'[k][i] = <<"closeNow", d>>
    <3>1. UNCHANGED <<main, visit, marked, conn>>
      BY <1>1 DEF mainVars, connVars
    <3> QED
      BY <3>1 DEF ClosingInv, Subscribed
  <2>1. k \in Loops
    BY DEF ServerInv, PointerInv, TypeOK
  <2>2. \/ main = "close" /\ d \in visit
        \/ /\ phase[k] # "last"
           /\ \E i \in 1..Len(pending[k]) : pending[k][i] = <<"closeNow", d>>
        \/ \E i \in (at[k] + 1)..Len(batch[k]) : batch[k][i] = <<"closeNow", d>>
    BY DEF ServerInv, ClosingInv
  <2>3. CASE k # l
    BY ZenonT(60), <2>1, <2>2, <2>3, <1>3, <1>4
  <2>4. CASE k = l
    <3>1. (at[l] + 1)..Len(batch[l]) = {}
      BY <1>1, <1>2
    <3> QED
      BY ZenonT(60), <2>2, <2>4, <1>3, <1>4, <3>1
  <2> QED
    BY <2>3, <2>4
<1> QED
  BY <1>5, <1>6, <1>7, <1>8, <1>12, <1>13 DEF ServerInv

-----------------------------------------------------------------------------
\* Closing a connection.

\* A callback on a connection is taken from the batch.
LEMMA RunningIs ==
  ASSUME ServerInv, NEW l \in Loops, NEW op \in {"send", "forceClose", "closeNow"},
         Running(l, op), UNCHANGED batch
  PROVE  /\ at' \in [Loops -> Nat]
         /\ at'[l] = at[l] + 1 /\ at'[l] <= Len(batch[l])
         /\ \A k \in Loops : k # l => at'[k] = at[k]
         /\ batch[l][at[l] + 1] = <<op, Arg(l)>>
         /\ Arg(l) \in DOMAIN conn /\ conn[Arg(l)].loop = l
         /\ \A k \in Loops : /\ NewIn(batch'[k], at'[k] + 1) = NewIn(batch[k], at[k] + 1)
                             /\ UniqueIn(batch'[k], at'[k] + 1)
         /\ \A k \in Loops : \A d : \A i \in (at[k] + 1)..Len(batch[k]) :
              batch[k][i] = <<"closeNow", d>> =>
                i \in (at'[k] + 1)..Len(batch'[k]) \/ (op = "closeNow" /\ d = Arg(l))
         /\ phase[l] \in {"run", "last"} /\ work[l] = Idle
<1>1. /\ phase[l] \in {"run", "last"} /\ work[l] = Idle
      /\ at[l] < Len(batch[l]) /\ batch[l][at[l] + 1][1] = op
      /\ at' = [at EXCEPT ![l] = at[l] + 1]
  BY DEF Running, Free
<1>2. at \in [Loops -> Nat] /\ batch[l] \in Seq(Task) /\ Len(batch[l]) \in Nat
  BY DEF ServerInv, TypeOK
<1>3. /\ at' \in [Loops -> Nat]
      /\ at'[l] = at[l] + 1 /\ at'[l] <= Len(batch[l])
      /\ \A k \in Loops : k # l => at'[k] = at[k]
  BY <1>1, <1>2
<1>4. /\ batch[l][at[l] + 1] \in Task
      /\ UniqueIn(batch[l], at[l] + 1) => UniqueIn(batch[l], at[l] + 2)
      /\ NewIn(batch[l], at[l] + 2) = NewIn(batch[l], at[l] + 1)
  BY <1>1, <1>2, QueueAdvance
<1>5. batch[l][at[l] + 1] = <<op, Arg(l)>>
  BY <1>1, <1>4 DEF Task, Arg
<1>6. Arg(l) \in DOMAIN conn /\ conn[Arg(l)].loop = l
  <2>1. TaskInv(batch[l], l)
    BY DEF ServerInv, PointerInv
  <2>2. at[l] + 1 \in 1..Len(batch[l])
    BY <1>1, <1>2
  <2> QED
    BY <1>1, <2>1, <2>2 DEF TaskInv, Arg
<1>7. \A k \in Loops : /\ NewIn(batch'[k], at'[k] + 1) = NewIn(batch[k], at[k] + 1)
                       /\ UniqueIn(batch'[k], at'[k] + 1)
  <2> TAKE k \in Loops
  <2>1. UniqueIn(batch[k], at[k] + 1)
    BY DEF ServerInv, ArrivalInv
  <2>2. CASE k # l
    BY <1>3, <2>1, <2>2
  <2>3. CASE k = l
    <3>1. at'[l] + 1 = at[l] + 2
      BY <1>2, <1>3
    <3> QED
      BY <1>4, <2>1, <2>3, <3>1
  <2> QED
    BY <2>2, <2>3
<1>8. ASSUME NEW k \in Loops, NEW d, NEW i \in (at[k] + 1)..Len(batch[k]),
             batch[k][i] = <<"closeNow", d>>
      PROVE  i \in (at'[k] + 1)..Len(batch'[k]) \/ (op = "closeNow" /\ d = Arg(l))
  <2>1. CASE k # l
    BY <1>3, <1>8, <2>1
  <2>2. CASE k = l /\ i # at[l] + 1
    BY <1>2, <1>3, <1>8, <2>2
  <2>3. CASE k = l /\ i = at[l] + 1
    BY <1>5, <1>8, <2>3
  <2> QED
    BY <2>1, <2>2, <2>3
<1> QED
  BY <1>1, <1>3, <1>5, <1>6, <1>7, <1>8

\* sendInLoop.
LEMMA RunSendKeeps ==
  ASSUME ServerInv, NEW l \in Loops, RunSend(l)
  PROVE  ServerInv'
<1>1. /\ Running(l, "send")
      /\ UNCHANGED <<mainVars, phase, quit, pending, batch, work, connVars, clients, open,
                     casts, crashed>>
  BY DEF RunSend
<1>2. /\ at' \in [Loops -> Nat]
      /\ at'[l] = at[l] + 1 /\ at'[l] <= Len(batch[l])
      /\ \A k \in Loops : k # l => at'[k] = at[k]
      /\ batch[l][at[l] + 1] = <<"send", Arg(l)>>
      /\ \A k \in Loops : /\ NewIn(batch'[k], at'[k] + 1) = NewIn(batch[k], at[k] + 1)
                          /\ UniqueIn(batch'[k], at'[k] + 1)
      /\ phase[l] \in {"run", "last"}
  BY <1>1, RunningIs
<1>3. TypeOK'
  BY <1>1, <1>2 DEF ServerInv, TypeOK, mainVars, connVars
<1>4. PlaceInv'
  BY <1>1, <1>2 DEF ServerInv, PlaceInv, mainVars, connVars
<1>5. PointerInv'
  BY <1>1 DEF ServerInv, PointerInv, TaskInv, WorkInv, Subscribed, mainVars, connVars
<1>6. TableInv'
  BY <1>1 DEF ServerInv, TableInv, Subscribed, mainVars, connVars
<1>7. Owned' = Owned
  BY <1>1 DEF Owned, InTable, mainVars, connVars
<1>8. ConnsKept /\ QueuesKept
  BY <1>1, <1>2 DEF ConnsKept, QueuesKept, connVars, ServerInv, ArrivalInv
<1>9. DescriptorInv' /\ ArrivalInv'
  BY <1>1, <1>7, <1>8, ExactKept
<1>10. ClosingInv'
  <2>1. UNCHANGED <<main, visit, marked, conn, phase, pending, batch>>
    BY <1>1 DEF mainVars, connVars
  <2>2. \A k \in Loops : \A d : \A i \in (at[k] + 1)..Len(batch[k]) :
          batch[k][i] = <<"closeNow", d>> => i \in (at'[k] + 1)..Len(batch'[k])
    <3>1. \A k \in Loops : \A d : \A i \in (at[k] + 1)..Len(batch[k]) :
            batch[k][i] = <<"closeNow", d>> =>
              i \in (at'[k] + 1)..Len(batch'[k]) \/ ("send" = "closeNow" /\ d = Arg(l))
      BY <1>1, RunningIs
    <3> QED
      BY <3>1
  <2>3. \A d \in marked : d \in DOMAIN conn /\ conn[d].loop \in Loops
    BY DEF ServerInv, PointerInv, TypeOK
  <2> QED
    BY <2>1, <2>2, <2>3 DEF ServerInv, ClosingInv, Subscribed
<1> QED
  BY <1>3, <1>4, <1>5, <1>6, <1>9, <1>10 DEF ServerInv

\* handleClose and onCloseConnection on the connection's own thread: the
\* table stays exact although another thread may be closing another connection.
LEMMA HandleCloseKeeps ==
  ASSUME ServerAssumption, ServerInv, NEW l \in Loops, NEW c \in DOMAIN conn,
         conn[c].loop = l, Subscribed(c), work[l] = Idle, phase[l] \in {"io", "run", "last"},
         HandleClose(l, c), UNCHANGED <<mainVars, pending, batch>>
  PROVE  /\ ConnsKept
         /\ \A d \in DOMAIN conn :
              conn'[d] \in [fd : Fds, loop : Loops,
                            state : {"connected", "disconnecting", "disconnected"}]
         /\ DOMAIN table' \subseteq DOMAIN table
         /\ \A f \in DOMAIN table' : table'[f] = table[f]
         /\ work' \in [Loops -> Work]
         /\ \A k \in Loops : phase[k] \in {"drain", "gone"} => work'[k] = work[k]
         /\ \A d \in DOMAIN conn : d # c => conn'[d] = conn[d]
         /\ ~Subscribed(c)'
         /\ PointerInv' /\ TableInv'
         /\ Owned' \subseteq Owned
<1> DEFINE w == [Idle EXCEPT !.op = "close", !.c = c]
<1>1. c \in Conns /\ main # "gone" /\ main' = main /\ marked' = marked
  BY LoopLives DEF ServerInv, TypeOK, mainVars
<1>2. w \in Work /\ w.op = "close" /\ w.c = c /\ ~w.cast /\ w.snap = {} /\ w.todo = {}
  BY <1>1, CallIs
<1>3. /\ conn' = [conn EXCEPT ![c].state = "disconnected"]
      /\ \/ work' = [work EXCEPT ![l] = w] /\ table' = table
         \/ /\ work' = work
            /\ table' = [f \in DOMAIN table \ {conn[c].fd} |-> table[f]]
  BY DEF HandleClose, Call, Erase
<1> HIDE DEF w
<1>4. /\ DOMAIN conn' = DOMAIN conn
      /\ conn'[c].fd = conn[c].fd /\ conn'[c].loop = conn[c].loop
      /\ conn'[c].state = "disconnected"
      /\ conn'[c] \in [fd : Fds, loop : Loops,
                       state : {"connected", "disconnecting", "disconnected"}]
      /\ \A d \in DOMAIN conn : d # c => conn'[d] = conn[d]
  <2>1. conn[c] \in [fd : Fds, loop : Loops,
                     state : {"connected", "disconnecting", "disconnected"}]
    BY DEF ServerInv, TypeOK
  <2> QED
    BY <1>3, <2>1
<1>5. \A d \in DOMAIN conn :
        conn'[d] \in [fd : Fds, loop : Loops,
                      state : {"connected", "disconnecting", "disconnected"}]
  BY <1>4 DEF ServerInv, TypeOK
<1>6. ConnsKept
  BY <1>4 DEF ConnsKept
<1>7. ~Subscribed(c)' /\ \A d \in DOMAIN conn : d # c => (Subscribed(d)' <=> Subscribed(d))
  BY <1>4 DEF Subscribed
<1>8. conn[c].fd \in DOMAIN table /\ table[conn[c].fd] = c
  BY <1>1 DEF ServerInv, TableInv
<1>9. work \in [Loops -> Work]
  BY DEF ServerInv, TypeOK
<1>10. /\ work' \in [Loops -> Work]
       /\ \A k \in Loops : k # l => work'[k] = work[k]
       /\ \/ work'[l] = w /\ table' = table
          \/ /\ work'[l] = work[l]
             /\ DOMAIN table' = DOMAIN table \ {conn[c].fd}
             /\ \A f \in DOMAIN table' : table'[f] = table[f]
  BY <1>2, <1>3, <1>9
<1>11. DOMAIN table' \subseteq DOMAIN table /\ \A f \in DOMAIN table' : table'[f] = table[f]
  BY <1>10
<1>12. \A k \in Loops : WorkInv(k)'
  <2> TAKE k \in Loops
  <2>1. WorkInv(k)
    BY DEF ServerInv, PointerInv
  <2>2. CASE work'[k] = work[k]
    <3>1. work[k].op = "close" => work[k].c # c
      BY <2>1 DEF WorkInv
    <3>2. work[k].op = "close" => conn[work[k].c].fd # conn[c].fd
      BY <1>8, <2>1, <3>1 DEF WorkInv
    <3>3. work[k].op = "close" => conn[work[k].c].fd \in DOMAIN table'
      BY <1>10, <2>1, <3>2 DEF WorkInv
    <3>4. work[k].op # "none" => /\ work[k].c \in DOMAIN conn'
                                 /\ conn'[work[k].c].loop = conn[work[k].c].loop
                                 /\ conn'[work[k].c].fd = conn[work[k].c].fd
      BY <1>4, <2>1 DEF WorkInv
    <3>5. work[k].op = "close" => ~Subscribed(work[k].c)'
      <4>1. work[k].op = "close" => ~Subscribed(work[k].c) /\ work[k].c \in DOMAIN conn
        BY <2>1 DEF WorkInv
      <4> QED
        BY <1>4, <2>2, <3>1, <4>1 DEF Subscribed
    <3> QED
      BY <1>4, <1>11, <2>1, <2>2, <3>3, <3>4, <3>5 DEF WorkInv
  <2>3. CASE k = l /\ work'[l] = w /\ table' = table
    BY <1>2, <1>4, <1>8, <2>3 DEF WorkInv, Subscribed
  <2> QED
    BY <1>10, <2>2, <2>3
<1>13. PointerInv'
  <2>1. \A k \in Loops : TaskInv(pending[k], k)' /\ TaskInv(batch[k], k)'
    BY <1>4 DEF ServerInv, PointerInv, TaskInv
  <2> QED
    BY <1>4, <1>12, <2>1 DEF ServerInv, PointerInv, mainVars
<1>14. TableInv'
  <2>1. ASSUME NEW f \in DOMAIN table'
        PROVE  /\ table'[f] \in DOMAIN conn'
               /\ conn'[table'[f]].fd = f
               /\ \/ Subscribed(table[f])'
                  \/ \E k \in Loops : work'[k].op = "close" /\ work'[k].c = table'[f]
    <3>1. /\ f \in DOMAIN table /\ table'[f] = table[f]
          /\ table[f] \in DOMAIN conn /\ conn[table[f]].fd = f
          /\ \/ Subscribed(table[f])
             \/ \E k \in Loops : work[k].op = "close" /\ work[k].c = table[f]
      BY <1>11 DEF ServerInv, TableInv
    <3>2. CASE table[f] = c
      <4>1. work'[l] = w
        BY <1>10, <3>1, <3>2
      <4> QED
        BY <1>2, <1>4, <3>1, <3>2, <4>1
    <3>3. CASE table[f] # c
      <4>1. \A k \in Loops : work[k].op = "close" => work'[k] = work[k]
        BY <1>10 DEF Idle
      <4>2. Subscribed(table[f]) => Subscribed(table[f])'
        BY <1>4, <3>1, <3>3 DEF Subscribed
      <4>3. \/ Subscribed(table[f])'
            \/ \E k \in Loops : work'[k].op = "close" /\ work'[k].c = table[f]
        BY <3>1, <4>1, <4>2
      <4> QED
        BY <1>4, <3>1, <3>3, <4>3
    <3> QED
      BY <3>2, <3>3
  <2>2. ASSUME NEW d \in DOMAIN conn', Subscribed(d)'
        PROVE  conn'[d].fd \in DOMAIN table' /\ table'[conn'[d].fd] = d
    <3>1. d \in DOMAIN conn /\ d # c /\ conn'[d] = conn[d]
      BY <1>4, <2>2 DEF Subscribed
    <3>2. conn[d].fd \in DOMAIN table /\ table[conn[d].fd] = d
      BY <1>1, <2>2, <3>1 DEF ServerInv, TableInv, Subscribed
    <3>3. conn[d].fd # conn[c].fd
      BY <1>8, <3>1, <3>2
    <3> QED
      BY <1>10, <3>1, <3>2, <3>3
  <2> QED
    BY <2>1, <2>2 DEF TableInv
<1>15. Owned' \subseteq Owned
  <2>1. InTable' \subseteq InTable /\ held' = held
    BY <1>11 DEF InTable, mainVars
  <2>2. \A k \in Loops : \A d : HoldsIn(k, d)' => HoldsIn(k, d)
    <3> TAKE k \in Loops
    <3> TAKE d
    <3>1. CASE work'[k] = work[k]
      BY <3>1 DEF HoldsIn
    <3>2. CASE k = l /\ work'[k] = w
      BY <1>2, <3>2 DEF HoldsIn
    <3> QED
      BY <1>10, <3>1, <3>2
  <2> QED
    BY <2>1, <2>2, OwnedIs DEF Holds
<1>16. \A k \in Loops : phase[k] \in {"drain", "gone"} => work'[k] = work[k]
  BY <1>10
<1> QED
  BY <1>4, <1>5, <1>6, <1>7, <1>10, <1>11, <1>13, <1>14, <1>15, <1>16

\* End of stream.
LEMMA EofKeeps ==
  ASSUME ServerAssumption, ServerInv, NEW l \in Loops, NEW c \in Conns, Eof(l, c)
  PROVE  ServerInv'
<1>1. /\ phase[l] = "io" /\ work[l] = Idle
      /\ c \in DOMAIN conn /\ conn[c].loop = l /\ Subscribed(c)
      /\ HandleClose(l, c) /\ CloseUnowned
      /\ UNCHANGED <<mainVars, phase, quit, pending, batch, at, idle, clients, casts, crashed>>
  BY DEF Eof, Event, Free
<1>2. /\ ConnsKept
      /\ \A d \in DOMAIN conn :
           conn'[d] \in [fd : Fds, loop : Loops,
                         state : {"connected", "disconnecting", "disconnected"}]
      /\ DOMAIN table' \subseteq DOMAIN table
      /\ \A f \in DOMAIN table' : table'[f] = table[f]
      /\ work' \in [Loops -> Work]
      /\ \A k \in Loops : phase[k] \in {"drain", "gone"} => work'[k] = work[k]
      /\ \A d \in DOMAIN conn : d # c => conn'[d] = conn[d]
      /\ ~Subscribed(c)'
      /\ PointerInv' /\ TableInv'
      /\ Owned' \subseteq Owned
  BY <1>1, HandleCloseKeeps
<1>3. TypeOK'
  BY <1>1, <1>2, OpenTyped DEF ServerInv, TypeOK, ConnsKept, mainVars
<1>4. PlaceInv'
  BY <1>1, <1>2 DEF ServerInv, PlaceInv, mainVars
<1>5. QueuesKept
  BY <1>1 DEF QueuesKept, ServerInv, ArrivalInv
<1>6. DescriptorInv' /\ ArrivalInv'
  BY <1>1, <1>2, <1>5, ExactKept
<1>7. ClosingInv'
  <2>1. UNCHANGED <<main, visit, marked, phase, pending, batch, at>> /\ marked \subseteq DOMAIN conn
    BY <1>1 DEF mainVars, ServerInv, PointerInv
  <2>2. \A d \in marked : Subscribed(d)' => conn'[d] = conn[d] /\ Subscribed(d)
    BY <1>2, <2>1 DEF Subscribed
  <2> QED
    BY <2>1, <2>2 DEF ServerInv, ClosingInv
<1> QED
  BY <1>2, <1>3, <1>4, <1>6, <1>7 DEF ServerInv

\* closeNow, which the destructor posted.
LEMMA RunCloseNowKeeps ==
  ASSUME ServerAssumption, ServerInv, NEW l \in Loops, RunCloseNow(l)
  PROVE  ServerInv'
<1> PICK c : c = Arg(l)
  OBVIOUS
<1>1. /\ Running(l, "closeNow") /\ CloseUnowned
      /\ IF conn[c].state # "disconnected" THEN HandleClose(l, c)
                                           ELSE UNCHANGED <<conn, table, work>>
      /\ UNCHANGED <<mainVars, phase, quit, pending, batch, idle, clients, casts, crashed>>
  BY DEF RunCloseNow
<1>2. /\ at' \in [Loops -> Nat]
      /\ at'[l] = at[l] + 1 /\ at'[l] <= Len(batch[l])
      /\ \A k \in Loops : k # l => at'[k] = at[k]
      /\ c \in DOMAIN conn /\ conn[c].loop = l
      /\ \A k \in Loops : /\ NewIn(batch'[k], at'[k] + 1) = NewIn(batch[k], at[k] + 1)
                          /\ UniqueIn(batch'[k], at'[k] + 1)
      /\ phase[l] \in {"run", "last"} /\ work[l] = Idle
  BY <1>1, RunningIs
<1>3. /\ ConnsKept
      /\ \A d \in DOMAIN conn :
           conn'[d] \in [fd : Fds, loop : Loops,
                         state : {"connected", "disconnecting", "disconnected"}]
      /\ DOMAIN table' \subseteq DOMAIN table
      /\ \A f \in DOMAIN table' : table'[f] = table[f]
      /\ work' \in [Loops -> Work]
      /\ \A k \in Loops : phase[k] \in {"drain", "gone"} => work'[k] = work[k]
      /\ \A d \in DOMAIN conn : d # c => conn'[d] = conn[d]
      /\ ~Subscribed(c)'
      /\ PointerInv' /\ TableInv'
      /\ Owned' \subseteq Owned
  <2>1. CASE conn[c].state # "disconnected"
    <3>1. Subscribed(c) /\ HandleClose(l, c)
      BY <1>1, <2>1 DEF Subscribed
    <3> QED
      BY <1>1, <1>2, <3>1, HandleCloseKeeps
  <2>2. CASE conn[c].state = "disconnected"
    <3>1. UNCHANGED <<mainVars, phase, quit, pending, batch, work, conn, table>>
      BY <1>1, <2>2
    <3>2. ConnsKept
      BY <3>1 DEF ConnsKept
    <3>3. Owned' \subseteq Owned
      BY <3>1 DEF Owned, InTable, mainVars
    <3>4. PointerInv'
      BY <3>1 DEF ServerInv, PointerInv, TaskInv, WorkInv, Subscribed, mainVars
    <3>5. TableInv'
      BY <3>1 DEF ServerInv, TableInv, Subscribed, mainVars
    <3> QED
      BY <2>2, <3>1, <3>2, <3>3, <3>4, <3>5 DEF ServerInv, TypeOK, Subscribed
  <2> QED
    BY <2>1, <2>2
<1>4. TypeOK'
  BY <1>1, <1>2, <1>3, OpenTyped DEF ServerInv, TypeOK, ConnsKept, mainVars
<1>5. PlaceInv'
  BY ZenonT(60), <1>1, <1>2, <1>3 DEF ServerInv, PlaceInv, mainVars
<1>6. QueuesKept
  BY <1>1, <1>2 DEF QueuesKept, ServerInv, ArrivalInv
<1>7. DescriptorInv' /\ ArrivalInv'
  BY <1>1, <1>3, <1>6, ExactKept
<1>8. ClosingInv'
  <2>1. UNCHANGED <<main, visit, marked, phase, pending, batch>> /\ marked \subseteq DOMAIN conn
    BY <1>1 DEF mainVars, ServerInv, PointerInv
  <2>2. \A d \in marked : Subscribed(d)' => d # c /\ conn'[d] = conn[d] /\ Subscribed(d)
    BY <1>3, <2>1 DEF Subscribed
  <2>3. \A k \in Loops : \A d : \A i \in (at[k] + 1)..Len(batch[k]) :
          batch[k][i] = <<"closeNow", d>> => i \in (at'[k] + 1)..Len(batch'[k]) \/ d = c
    BY <1>1, RunningIs
  <2>4. \A d \in marked : conn'[d].loop = conn[d].loop /\ conn[d].loop \in Loops
    BY <1>3, <2>1 DEF ConnsKept, ServerInv, TypeOK
  <2> QED
    <3> SUFFICES ASSUME NEW d \in marked, Subscribed(d)', NEW k, k = conn[d].loop
                 PROVE  \/ main = "close" /\ d \in visit
                        \/ /\ phase[k] # "last"
                           /\ \E i \in 1..Len(pending[k]) : pending[k][i] = <<"closeNow", d>>
                        \/ \E i \in (at'[k] + 1)..Len(batch'[k]) : batch'[k][i] = <<"closeNow", d>>
      BY ZenonT(60), <2>1, <2>4 DEF ClosingInv
    <3>1. \/ main = "close" /\ d \in visit
          \/ /\ phase[k] # "last"
             /\ \E i \in 1..Len(pending[k]) : pending[k][i] = <<"closeNow", d>>
          \/ \E i \in (at[k] + 1)..Len(batch[k]) : batch[k][i] = <<"closeNow", d>>
      BY <2>2 DEF ServerInv, ClosingInv
    <3>2. ASSUME NEW i \in (at[k] + 1)..Len(batch[k]), batch[k][i] = <<"closeNow", d>>
          PROVE  i \in (at'[k] + 1)..Len(batch'[k]) /\ batch'[k][i] = <<"closeNow", d>>
      <4>1. k \in Loops /\ d # c
        BY <2>2, <2>4
      <4> QED
        BY <2>1, <2>3, <3>2, <4>1
    <3> QED
      BY <3>1, <3>2
<1> QED
  BY <1>3, <1>4, <1>5, <1>7, <1>8 DEF ServerInv

\* forceClose, which the heartbeat posted: the first stage queues the second,
\* which closes.
LEMMA RunForceCloseKeeps ==
  ASSUME ServerAssumption, ServerInv, NEW l \in Loops, RunForceClose(l)
  PROVE  ServerInv'
<1> PICK c : c = Arg(l)
  OBVIOUS
<1> DEFINE t == <<"forceClose", c>>
<1>1. /\ Running(l, "forceClose") /\ CloseUnowned
      /\ \/ /\ conn[c].state = "connected"
            /\ conn' = [conn EXCEPT ![c].state = "disconnecting"]
            /\ pending' = [pending EXCEPT ![l] = Append(pending[l], t)]
            /\ UNCHANGED <<table, work>>
         \/ conn[c].state = "disconnecting" /\ HandleClose(l, c) /\ UNCHANGED pending
         \/ conn[c].state = "disconnected" /\ UNCHANGED <<conn, pending, table, work>>
      /\ UNCHANGED <<mainVars, phase, quit, batch, idle, clients, casts, crashed>>
  BY DEF RunForceClose
<1>2. /\ at' \in [Loops -> Nat]
      /\ at'[l] = at[l] + 1 /\ at'[l] <= Len(batch[l])
      /\ \A k \in Loops : k # l => at'[k] = at[k]
      /\ c \in DOMAIN conn /\ conn[c].loop = l
      /\ batch[l][at[l] + 1] = t
      /\ \A k \in Loops : /\ NewIn(batch'[k], at'[k] + 1) = NewIn(batch[k], at[k] + 1)
                          /\ UniqueIn(batch'[k], at'[k] + 1)
      /\ phase[l] \in {"run", "last"} /\ work[l] = Idle
  BY <1>1, RunningIs
<1>3. c \in InTasks(batch[l]) /\ c \in Conns
  <2>1. at[l] + 1 \in 1..Len(batch[l]) /\ t[1] # "new" /\ t[2] = c
    BY <1>2 DEF ServerInv, TypeOK
  <2>2. c \in InTasks(batch[l])
    BY <1>2, <2>1 DEF InTasks
  <2> QED
    BY <1>2, <2>2 DEF ServerInv, TypeOK
\* What the three cases have in common.
<1> DEFINE Common ==
      /\ ConnsKept
      /\ \A d \in DOMAIN conn :
           conn'[d] \in [fd : Fds, loop : Loops,
                         state : {"connected", "disconnecting", "disconnected"}]
      /\ DOMAIN table' \subseteq DOMAIN table
      /\ \A f \in DOMAIN table' : table'[f] = table[f]
      /\ work' \in [Loops -> Work]
      /\ \A k \in Loops : phase[k] \in {"drain", "gone"} => work'[k] = work[k]
      /\ \A d \in DOMAIN conn : Subscribed(d)' => Subscribed(d)
      /\ PointerInv' /\ TableInv'
      /\ Owned' \subseteq Owned
      /\ pending' \in [Loops -> Seq(Task)]
      /\ \A k \in Loops :
           /\ NewIn(pending'[k], 1) = NewIn(pending[k], 1)
           /\ UniqueIn(pending'[k], 1)
           /\ phase[k] = "gone" => pending'[k] = pending[k]
           /\ \A d : (\E i \in 1..Len(pending[k]) : pending[k][i] = <<"closeNow", d>>)
                => \E i \in 1..Len(pending'[k]) : pending'[k][i] = <<"closeNow", d>>
<1>4. ASSUME conn[c].state = "connected",
             conn' = [conn EXCEPT ![c].state = "disconnecting"],
             pending' = [pending EXCEPT ![l] = Append(pending[l], t)],
             UNCHANGED <<table, work>>
      PROVE  Common
  <2>1. conn[c] \in [fd : Fds, loop : Loops,
                     state : {"connected", "disconnecting", "disconnected"}]
    BY <1>2 DEF ServerInv, TypeOK
  <2>2. /\ DOMAIN conn' = DOMAIN conn
        /\ conn'[c].fd = conn[c].fd /\ conn'[c].loop = conn[c].loop
        /\ conn'[c].state = "disconnecting"
        /\ conn'[c] \in [fd : Fds, loop : Loops,
                         state : {"connected", "disconnecting", "disconnected"}]
        /\ \A d \in DOMAIN conn : d # c => conn'[d] = conn[d]
    BY <1>2, <1>4, <2>1
  <2>3. ConnsKept
    BY <2>2 DEF ConnsKept
  <2>4. \A d \in DOMAIN conn : Subscribed(d)' <=> Subscribed(d)
    BY <1>4, <2>2 DEF Subscribed
  <2>5. \A d \in DOMAIN conn :
          conn'[d] \in [fd : Fds, loop : Loops,
                        state : {"connected", "disconnecting", "disconnected"}]
    BY <2>2 DEF ServerInv, TypeOK
  <2>6. /\ pending[l] \in Seq(Task) /\ t \in Task /\ UniqueIn(pending[l], 1)
        /\ TaskInv(pending[l], l)
    BY <1>3 DEF ServerInv, TypeOK, ArrivalInv, PointerInv, Task
  <2>7. /\ Append(pending[l], t) \in Seq(Task)
        /\ InTasks(Append(pending[l], t)) = InTasks(pending[l]) \cup {c}
        /\ NewIn(Append(pending[l], t), 1) = NewIn(pending[l], 1)
        /\ UniqueIn(Append(pending[l], t), 1)
    BY <2>6, QueueAppend
  <2>8. /\ Len(Append(pending[l], t)) = Len(pending[l]) + 1
        /\ Len(pending[l]) \in Nat
        /\ \A i \in 1..Len(pending[l]) : Append(pending[l], t)[i] = pending[l][i]
        /\ Append(pending[l], t)[Len(pending[l]) + 1] = t
    BY <2>6
  <2>9. TaskInv(Append(pending[l], t), l)
    BY <1>2, <2>6, <2>8 DEF TaskInv
  <2> HIDE DEF t
  <2>10. /\ pending' \in [Loops -> Seq(Task)]
         /\ pending'[l] = Append(pending[l], t)
         /\ \A k \in Loops : k # l => pending'[k] = pending[k]
    BY <1>4, <2>7 DEF ServerInv, TypeOK
  <2>11. \A k \in Loops :
           /\ NewIn(pending'[k], 1) = NewIn(pending[k], 1)
           /\ UniqueIn(pending'[k], 1)
           /\ phase[k] = "gone" => pending'[k] = pending[k]
    BY <1>2, <2>7, <2>10 DEF ServerInv, ArrivalInv
  <2>12. ASSUME NEW k \in Loops, NEW d,
                \E i \in 1..Len(pending[k]) : pending[k][i] = <<"closeNow", d>>
         PROVE  \E i \in 1..Len(pending'[k]) : pending'[k][i] = <<"closeNow", d>>
    <3>1. CASE k = l
      BY <2>8, <2>10, <2>12, <3>1
    <3>2. CASE k # l
      BY <2>10, <2>12, <3>2
    <3> QED
      BY <3>1, <3>2
  <2>13. PointerInv'
    <3>1. \A k \in Loops : TaskInv(pending'[k], k)
      BY <2>9, <2>10 DEF ServerInv, PointerInv
    <3>2. \A k \in Loops : TaskInv(pending[k], k)' /\ TaskInv(batch[k], k)'
      BY SMTT(30), <1>1, <2>3, <3>1 DEF ServerInv, PointerInv, TaskInv, ConnsKept
    <3>3. \A k \in Loops : WorkInv(k)'
      <4> TAKE k \in Loops
      <4>1. WorkInv(k) /\ work' = work /\ table' = table
        BY <1>4 DEF ServerInv, PointerInv
      <4>2. work[k].op # "none" => /\ work[k].c \in DOMAIN conn'
                                   /\ conn'[work[k].c].loop = conn[work[k].c].loop
                                   /\ conn'[work[k].c].fd = conn[work[k].c].fd
        BY <2>3, <4>1 DEF WorkInv, ConnsKept
      <4>3. work[k].op = "close" => ~Subscribed(work[k].c)'
        <5>1. work[k].op = "close" => ~Subscribed(work[k].c) /\ work[k].c \in DOMAIN conn
          BY <4>1 DEF WorkInv
        <5>2. work[k].op = "close" => work[k].c # c
          BY <1>4, <5>1 DEF Subscribed
        <5> QED
          BY <2>2, <4>1, <5>1, <5>2 DEF Subscribed
      <4> QED
        BY <2>2, <4>1, <4>2, <4>3 DEF WorkInv
    <3> QED
      BY <1>1, <2>2, <3>2, <3>3 DEF ServerInv, PointerInv, mainVars
  <2>14. TableInv'
    <3>1. UNCHANGED <<main, table, work>>
      BY <1>1, <1>4 DEF mainVars
    <3>2. \A f \in DOMAIN table : Subscribed(table[f])' <=> Subscribed(table[f])
      <4>1. \A f \in DOMAIN table : table[f] \in DOMAIN conn
        BY DEF ServerInv, TableInv
      <4> QED
        BY <1>4, <2>2, <3>1, <4>1 DEF Subscribed
    <3> QED
      BY <2>3, <2>4, <3>1, <3>2 DEF ServerInv, TableInv, ConnsKept
  <2>15. Owned' \subseteq Owned
    <3>1. InTable' = InTable /\ held' = held /\ batch' = batch /\ work' = work
      BY <1>1, <1>4 DEF InTable, mainVars
    <3>2. \A k \in Loops : InTasks(pending'[k]) \subseteq InTasks(pending[k]) \cup {c}
      BY <2>7, <2>10
    <3>3. \A d : Holds(d)' => Holds(d) \/ d = c
      BY <3>1, <3>2 DEF Holds, HoldsIn
    <3>4. Holds(c)
      BY <1>3 DEF Holds, HoldsIn
    <3> QED
      BY <3>3, <3>4, OwnedIs
  <2> QED
    BY ZenonT(60), <1>4, <2>3, <2>4, <2>5, <2>10, <2>11, <2>12, <2>13, <2>14, <2>15
    DEF ServerInv, TypeOK
<1>5. ASSUME conn[c].state = "disconnecting", HandleClose(l, c), UNCHANGED pending
      PROVE  Common
  <2>1. Subscribed(c)
    BY <1>5 DEF Subscribed
  <2>2. /\ ConnsKept
        /\ \A d \in DOMAIN conn :
             conn'[d] \in [fd : Fds, loop : Loops,
                           state : {"connected", "disconnecting", "disconnected"}]
        /\ DOMAIN table' \subseteq DOMAIN table
        /\ \A f \in DOMAIN table' : table'[f] = table[f]
        /\ work' \in [Loops -> Work]
        /\ \A k \in Loops : phase[k] \in {"drain", "gone"} => work'[k] = work[k]
        /\ \A d \in DOMAIN conn : d # c => conn'[d] = conn[d]
        /\ PointerInv' /\ TableInv'
        /\ Owned' \subseteq Owned
    BY <1>1, <1>2, <1>5, <2>1, HandleCloseKeeps
  <2>3. \A d \in DOMAIN conn : Subscribed(d)' => Subscribed(d)
    BY <2>1, <2>2 DEF Subscribed
  <2>4. pending' = pending /\ pending \in [Loops -> Seq(Task)]
        /\ \A k \in Loops : UniqueIn(pending[k], 1)
    BY <1>5 DEF ServerInv, TypeOK, ArrivalInv
  <2> QED
    BY <2>2, <2>3, <2>4
<1>6. ASSUME conn[c].state = "disconnected", UNCHANGED <<conn, pending, table, work>>
      PROVE  Common
  <2>1. UNCHANGED <<mainVars, phase, pending, batch, work, conn, table>>
    BY <1>1, <1>6
  <2>2. ConnsKept
    BY <2>1 DEF ConnsKept
  <2>3. Owned' \subseteq Owned
    BY <2>1 DEF Owned, InTable, mainVars
  <2>4. PointerInv'
    BY <2>1 DEF ServerInv, PointerInv, TaskInv, WorkInv, Subscribed, mainVars
  <2>5. TableInv'
    BY <2>1 DEF ServerInv, TableInv, Subscribed, mainVars
  <2>6. /\ pending \in [Loops -> Seq(Task)] /\ work \in [Loops -> Work]
        /\ \A k \in Loops : UniqueIn(pending[k], 1)
        /\ \A d \in DOMAIN conn :
             conn'[d] \in [fd : Fds, loop : Loops,
                           state : {"connected", "disconnecting", "disconnected"}]
    BY <2>1 DEF ServerInv, TypeOK, ArrivalInv
  <2>7. \A d \in DOMAIN conn : Subscribed(d)' => Subscribed(d)
    BY <2>1 DEF Subscribed
  <2> QED
    BY <2>1, <2>2, <2>3, <2>4, <2>5, <2>6, <2>7
<1>7. Common
  BY <1>1, <1>4, <1>5, <1>6
<1>8. TypeOK'
  BY <1>1, <1>2, <1>7, OpenTyped DEF ServerInv, TypeOK, ConnsKept, mainVars
<1>9. PlaceInv'
  <2>1. UNCHANGED <<main, held, marked, stopped, phase, quit, batch>>
    BY <1>1 DEF mainVars
  <2>2. main = "gone" => DOMAIN table' = {}
    BY <1>7 DEF ServerInv, PlaceInv
  <2>3. \A k \in Loops :
          /\ at'[k] <= Len(batch[k])
          /\ phase[k] \in {"io", "drain", "gone"} => at'[k] = 0
          /\ phase[k] \in {"drain", "gone"} => work'[k] = Idle
          /\ phase[k] = "last" => NewIn(pending'[k], 1) = {}
          /\ phase[k] = "gone" => pending'[k] = << >>
    BY <1>2, <1>7 DEF ServerInv, PlaceInv
  <2> QED
    BY <2>1, <2>2, <2>3 DEF ServerInv, PlaceInv
<1>10. QueuesKept
  BY <1>2, <1>7 DEF QueuesKept
<1>11. DescriptorInv' /\ ArrivalInv'
  BY <1>1, <1>7, <1>10, ExactKept
<1>12. ClosingInv'
  <2>1. UNCHANGED <<main, visit, marked, phase, batch>> /\ marked \subseteq DOMAIN conn
    BY <1>1 DEF mainVars, ServerInv, PointerInv
  <2>2. \A d \in marked : conn'[d].loop = conn[d].loop /\ conn[d].loop \in Loops
    BY <1>7, <2>1 DEF ConnsKept, ServerInv, TypeOK
  <2>3. \A k \in Loops : \A d : \A i \in (at[k] + 1)..Len(batch[k]) :
          batch[k][i] = <<"closeNow", d>> =>
            i \in (at'[k] + 1)..Len(batch'[k]) \/ ("forceClose" = "closeNow" /\ d = Arg(l))
    BY <1>1, RunningIs
  <2> SUFFICES ASSUME NEW d \in marked, Subscribed(d)', NEW k, k = conn[d].loop
               PROVE  \/ main = "close" /\ d \in visit
                      \/ /\ phase[k] # "last"
                         /\ \E i \in 1..Len(pending'[k]) : pending'[k][i] = <<"closeNow", d>>
                      \/ \E i \in (at'[k] + 1)..Len(batch'[k]) : batch'[k][i] = <<"closeNow", d>>
    BY <2>1, <2>2 DEF ClosingInv
  <2>4. \/ main = "close" /\ d \in visit
        \/ /\ phase[k] # "last"
           /\ \E i \in 1..Len(pending[k]) : pending[k][i] = <<"closeNow", d>>
        \/ \E i \in (at[k] + 1)..Len(batch[k]) : batch[k][i] = <<"closeNow", d>>
    BY <1>7, <2>1 DEF ServerInv, ClosingInv
  <2>5. k \in Loops
    BY <2>2
  <2>6. ASSUME NEW i \in (at[k] + 1)..Len(batch[k]), batch[k][i] = <<"closeNow", d>>
        PROVE  i \in (at'[k] + 1)..Len(batch'[k]) /\ batch'[k][i] = <<"closeNow", d>>
    BY <2>1, <2>3, <2>5, <2>6
  <2> QED
    BY ZenonT(60), <1>7, <2>4, <2>5, <2>6
<1> QED
  BY <1>7, <1>8, <1>9, <1>11, <1>12 DEF ServerInv

\* The callback returns, and onCloseConnection erases the entry.
LEMMA ReturnKeeps ==
  ASSUME ServerAssumption, ServerInv, NEW l \in Loops, Return(l)
  PROVE  ServerInv'
<1> PICK c : c = work[l].c
  OBVIOUS
<1>1. /\ work[l].op # "none" /\ work' = [work EXCEPT ![l] = Idle] /\ CloseUnowned
      /\ \/ /\ work[l].op = "close"
            /\ table' = [f \in DOMAIN table \ {conn[c].fd} |-> table[f]]
         \/ work[l].op # "close" /\ table' = table
      /\ UNCHANGED <<mainVars, phase, quit, pending, batch, at, conn, idle, clients, casts,
                     crashed>>
  BY DEF Return, Busy, Erase
<1>2. /\ c \in DOMAIN conn /\ conn[c].loop = l
      /\ work[l].op = "close" => /\ ~Subscribed(c)
                                 /\ conn[c].fd \in DOMAIN table
                                 /\ table[conn[c].fd] = c
  BY <1>1 DEF ServerInv, PointerInv, WorkInv
<1>3. Idle \in Work /\ Idle.op = "none" /\ Idle.snap = {} /\ Idle.todo = {}
  BY DEF Idle, Work, ServerAssumption
<1>4. /\ work' \in [Loops -> Work]
      /\ work'[l] = Idle
      /\ \A k \in Loops : k # l => work'[k] = work[k]
  BY <1>1, <1>3 DEF ServerInv, TypeOK
<1>5. /\ DOMAIN table' \subseteq DOMAIN table
      /\ \A f \in DOMAIN table' : table'[f] = table[f]
      /\ work[l].op = "close" => DOMAIN table' = DOMAIN table \ {conn[c].fd}
      /\ work[l].op # "close" => DOMAIN table' = DOMAIN table
  BY <1>1
<1>6. TypeOK'
  BY <1>1, <1>4, <1>5, OpenTyped DEF ServerInv, TypeOK, mainVars
<1>7. PlaceInv'
  BY <1>1, <1>4, <1>5 DEF ServerInv, PlaceInv, mainVars
<1>8. \A k \in Loops : WorkInv(k)'
  <2> TAKE k \in Loops
  <2>1. WorkInv(k) /\ conn' = conn
    BY <1>1 DEF ServerInv, PointerInv
  <2>2. CASE k = l
    BY <1>3, <1>4, <2>2 DEF WorkInv, Idle
  <2>3. CASE k # l
    <3>1. work[k].op = "close" => work[k].c # c
      BY <1>2, <2>1, <2>3 DEF WorkInv
    <3>2. work[k].op = "close" => conn[work[k].c].fd \in DOMAIN table'
      BY <1>2, <1>5, <2>1, <3>1 DEF WorkInv
    <3> QED
      BY <1>4, <1>5, <2>1, <2>3, <3>2 DEF WorkInv, Subscribed
  <2> QED
    BY <2>2, <2>3
<1>9. PointerInv'
  BY <1>1, <1>8 DEF ServerInv, PointerInv, TaskInv, mainVars
<1>10. TableInv'
  <2>1. conn' = conn /\ main' = main
    BY <1>1 DEF mainVars
  <2>2. ASSUME NEW f \in DOMAIN table'
        PROVE  /\ table[f] \in DOMAIN conn
               /\ conn[table[f]].fd = f
               /\ \/ Subscribed(table[f])
                  \/ \E k \in Loops : work'[k].op = "close" /\ work'[k].c = table[f]
    <3>1. /\ f \in DOMAIN table
          /\ table[f] \in DOMAIN conn /\ conn[table[f]].fd = f
          /\ \/ Subscribed(table[f])
             \/ \E k \in Loops : work[k].op = "close" /\ work[k].c = table[f]
      BY <1>5 DEF ServerInv, TableInv
    <3>2. ASSUME NEW k \in Loops, work[k].op = "close", work[k].c = table[f]
          PROVE  work'[k] = work[k]
      BY <1>4, <1>5, <3>1, <3>2
    <3> QED
      BY <3>1, <3>2
  <2>3. ASSUME NEW d \in DOMAIN conn, Subscribed(d), main # "gone"
        PROVE  conn[d].fd \in DOMAIN table' /\ table'[conn[d].fd] = d
    <3>1. conn[d].fd \in DOMAIN table /\ table[conn[d].fd] = d
      BY <2>3 DEF ServerInv, TableInv
    <3> QED
      BY <1>2, <1>5, <2>3, <3>1
  <2> QED
    BY <1>5, <2>1, <2>2, <2>3 DEF TableInv, Subscribed
<1>11. Owned' \subseteq Owned
  <2>1. InTable' \subseteq InTable /\ held' = held /\ pending' = pending /\ batch' = batch
    BY <1>1, <1>5 DEF InTable, mainVars
  <2>2. \A k \in Loops : \A d : HoldsIn(k, d)' => HoldsIn(k, d)
    BY <1>3, <1>4, <2>1 DEF HoldsIn
  <2> QED
    BY <2>1, <2>2, OwnedIs DEF Holds
<1>12. ConnsKept /\ QueuesKept
  BY <1>1 DEF ConnsKept, QueuesKept, ServerInv, ArrivalInv
<1>13. DescriptorInv' /\ ArrivalInv'
  BY <1>1, <1>11, <1>12, ExactKept
<1>14. ClosingInv'
  BY <1>1 DEF ServerInv, ClosingInv, Subscribed, mainVars
<1> QED
  BY <1>6, <1>7, <1>9, <1>10, <1>13, <1>14 DEF ServerInv

-----------------------------------------------------------------------------
\* Creating a connection.

\* The clients accepted bound the connections: the next number is free, and
\* is one of Conns as long as a descriptor is on its way.
LEMMA NextNumber ==
  ASSUME ServerAssumption, ServerInv, NEW fd \in NewFds, NEW c, c = Cardinality(DOMAIN conn) + 1
  PROVE  /\ c \in Conns /\ c \notin DOMAIN conn
         /\ DOMAIN conn \cup {c} = 1..Cardinality(DOMAIN conn \cup {c})
         /\ IsFiniteSet(NewFds \ {fd})
         /\ Cardinality(DOMAIN conn \cup {c}) + Cardinality(NewFds \ {fd}) <= clients
<1>1. IsFiniteSet(DOMAIN conn)
  <2>1. IsFiniteSet(Conns)
    BY FS_Interval DEF Conns, ServerAssumption
  <2> QED
    BY <2>1, FS_Subset DEF ServerInv, TypeOK
<1>2. PICK n : n = Cardinality(DOMAIN conn)
  OBVIOUS
<1>3. n \in Nat /\ DOMAIN conn = 1..n
  BY <1>1, <1>2, FS_CardinalityType DEF ServerInv, ArrivalInv
<1>4. c = n + 1 /\ c \notin DOMAIN conn
  <2>1. c = n + 1
    BY <1>2
  <2> QED
    BY <1>3, <2>1
<1>5. IsFiniteSet(NewFds) /\ n + Cardinality(NewFds) <= clients
  BY <1>2 DEF ServerInv, ArrivalInv
<1>6. IsFiniteSet(NewFds \ {fd}) /\ Cardinality(NewFds \ {fd}) = Cardinality(NewFds) - 1
  BY <1>5, FS_RemoveElement
<1>7. Cardinality(NewFds) \in Nat /\ Cardinality(NewFds \ {fd}) \in Nat
  BY <1>5, <1>6, FS_CardinalityType
<1>8. Cardinality(DOMAIN conn \cup {c}) = n + 1
  BY <1>1, <1>2, <1>4, FS_AddElement
<1>9. DOMAIN conn \cup {c} = 1..(n + 1)
  BY <1>3, <1>4
<1>10. c \in Conns
  BY <1>3, <1>4, <1>5, <1>6, <1>7 DEF ServerInv, TypeOK, Conns, ServerAssumption
<1>11. n + 1 + Cardinality(NewFds \ {fd}) <= clients
  BY <1>3, <1>5, <1>6, <1>7 DEF ServerInv, TypeOK
<1> QED
  BY <1>4, <1>6, <1>8, <1>9, <1>10, <1>11

\* The loop creates the connection of a descriptor handed to it.
LEMMA RunNewKeeps ==
  ASSUME ServerAssumption, ServerInv, NEW l \in Loops, RunNew(l)
  PROVE  ServerInv'
<1> PICK c : c = Cardinality(DOMAIN conn) + 1
  OBVIOUS
<1> PICK fd : fd = Arg(l)
  OBVIOUS
<1> DEFINE r == [fd |-> fd, loop |-> l, state |-> "connected"]
           w == [Idle EXCEPT !.op = "connection", !.c = c]
<1>1. /\ phase[l] \in {"run", "last"} /\ work[l] = Idle
      /\ at[l] < Len(batch[l]) /\ batch[l][at[l] + 1][1] = "new"
      /\ at' = [at EXCEPT ![l] = at[l] + 1]
      /\ conn' = [d \in DOMAIN conn \cup {c} |-> IF d = c THEN r ELSE conn[d]]
      /\ table' = [f \in DOMAIN table \cup {fd} |-> IF f = fd THEN c ELSE table[f]]
      /\ work' = [work EXCEPT ![l] = w] \/ work' = work
      /\ UNCHANGED <<mainVars, phase, quit, pending, batch, idle, clients, open, casts, crashed>>
  BY DEF RunNew, Running, Free, Call
<1>2. at \in [Loops -> Nat] /\ batch[l] \in Seq(Task) /\ Len(batch[l]) \in Nat
  BY DEF ServerInv, TypeOK
<1>3. /\ at' \in [Loops -> Nat]
      /\ at'[l] = at[l] + 1 /\ at'[l] <= Len(batch[l]) /\ at'[l] + 1 = at[l] + 2
      /\ \A k \in Loops : k # l => at'[k] = at[k]
  BY <1>1, <1>2
<1>4. /\ batch[l][at[l] + 1] \in Task /\ fd = batch[l][at[l] + 1][2]
      /\ UniqueIn(batch[l], at[l] + 2)
      /\ NewIn(batch[l], at[l] + 1) = NewIn(batch[l], at[l] + 2) \cup {fd}
      /\ fd \notin NewIn(batch[l], at[l] + 2)
  <2>1. UniqueIn(batch[l], at[l] + 1) /\ fd = batch[l][at[l] + 1][2]
    BY DEF ServerInv, ArrivalInv, Arg
  <2> QED
    BY <1>1, <1>2, <2>1, QueueAdvance
<1>5. fd \in Fds
  BY <1>1, <1>4 DEF Task
<1>6. /\ \A k \in Loops : Fresh(k)' = Fresh(k) \ {fd}
      /\ fd \in Fresh(l)
  <2>1. NewIn(pending[l], 1) \cap NewIn(batch[l], at[l] + 1) = {}
    BY DEF ServerInv, ArrivalInv
  <2>2. fd \in Fresh(l) /\ Fresh(l)' = Fresh(l) \ {fd}
    BY <1>1, <1>3, <1>4, <2>1 DEF Fresh
  <2>3. ASSUME NEW k \in Loops, k # l
        PROVE  Fresh(k)' = Fresh(k) \ {fd}
    <3>1. Fresh(k)' = Fresh(k)
      BY <1>1, <1>3, <2>3 DEF Fresh
    <3>2. Fresh(l) \cap Fresh(k) = {}
      BY <2>3 DEF ServerInv, ArrivalInv
    <3> QED
      BY <2>2, <3>1, <3>2
  <2> QED
    BY <2>2, <2>3
<1>7. NewFds' = NewFds \ {fd} /\ fd \in NewFds
  BY <1>6 DEF NewFds
<1>8. /\ c \in Conns /\ c \notin DOMAIN conn
      /\ DOMAIN conn \cup {c} = 1..Cardinality(DOMAIN conn \cup {c})
      /\ IsFiniteSet(NewFds \ {fd})
      /\ Cardinality(DOMAIN conn \cup {c}) + Cardinality(NewFds \ {fd}) <= clients
  BY <1>7, NextNumber
<1>9. w \in Work /\ w.op = "connection" /\ w.c = c /\ ~w.cast /\ w.snap = {} /\ w.todo = {}
  <2>1. c \in Conns
    BY <1>8
  <2> QED
    BY <2>1, CallIs, ZenonT(30)
<1>10. /\ r \in [fd : Fds, loop : Loops, state : {"connected", "disconnecting", "disconnected"}]
       /\ r.fd = fd /\ r.loop = l /\ r.state = "connected"
  BY <1>5
<1> HIDE DEF r, w
<1>11. /\ DOMAIN conn' = DOMAIN conn \cup {c} /\ conn'[c] = r
       /\ \A d \in DOMAIN conn : conn'[d] = conn[d]
  BY <1>1, <1>8
<1>12. main # "gone" /\ main' = main
  BY <1>1, LoopLives DEF mainVars
<1>13. Owned \subseteq DOMAIN conn
  BY OwnedExist
<1>14. fd \notin DOMAIN table
  <2>1. ASSUME fd \in DOMAIN table
        PROVE  FALSE
    <3>1. table[fd] \in Owned /\ conn[table[fd]].fd = fd
      BY <2>1 DEF Owned, InTable, ServerInv, TableInv
    <3> QED
      BY <1>7, <3>1 DEF ServerInv, ArrivalInv
  <2> QED
    BY <2>1
<1>15. /\ DOMAIN table' = DOMAIN table \cup {fd} /\ table'[fd] = c
       /\ \A f \in DOMAIN table : table'[f] = table[f]
  BY <1>1, <1>14
<1>16. /\ work' \in [Loops -> Work]
       /\ work'[l] = w \/ work'[l] = work[l]
       /\ \A k \in Loops : k # l => work'[k] = work[k]
  <2>1. work \in [Loops -> Work] /\ w \in Work
    BY <1>9 DEF ServerInv, TypeOK
  <2> QED
    BY <1>1, <2>1
<1>17. TypeOK'
  <2>1. DOMAIN table' \subseteq Fds /\ \A f \in DOMAIN table' : table'[f] \in Conns
    BY <1>5, <1>8, <1>15 DEF ServerInv, TypeOK
  <2>2. /\ DOMAIN conn' \subseteq Conns
        /\ \A d \in DOMAIN conn' :
             conn'[d] \in [fd : Fds, loop : Loops,
                           state : {"connected", "disconnecting", "disconnected"}]
    BY <1>8, <1>10, <1>11 DEF ServerInv, TypeOK
  <2> QED
    BY <1>1, <1>3, <1>16, <2>1, <2>2 DEF ServerInv, TypeOK, mainVars
<1>18. PlaceInv'
  BY <1>1, <1>3, <1>12, <1>16 DEF ServerInv, PlaceInv, mainVars
<1>19. \A k \in Loops : WorkInv(k)'
  <2> TAKE k \in Loops
  <2>1. WorkInv(k)
    BY DEF ServerInv, PointerInv
  <2>2. CASE work'[k] = work[k]
    <3>1. work[k].op # "none" => work[k].c \in DOMAIN conn /\ conn'[work[k].c] = conn[work[k].c]
      BY <1>11, <2>1 DEF WorkInv
    <3> QED
      BY <1>11, <1>15, <2>1, <2>2, <3>1 DEF WorkInv, Subscribed
  <2>3. CASE k = l /\ work'[k] = w
    BY <1>9, <1>10, <1>11, <2>3 DEF WorkInv
  <2> QED
    BY <1>16, <2>2, <2>3
<1>20. PointerInv'
  <2>1. \A k \in Loops : TaskInv(pending[k], k)' /\ TaskInv(batch[k], k)'
    BY SMTT(30), <1>1, <1>11 DEF ServerInv, PointerInv, TaskInv
  <2> QED
    BY <1>1, <1>11, <1>19, <2>1 DEF ServerInv, PointerInv, mainVars
<1>21. TableInv'
  <2>1. ASSUME NEW f \in DOMAIN table'
        PROVE  /\ table'[f] \in DOMAIN conn'
               /\ conn'[table'[f]].fd = f
               /\ \/ Subscribed(table[f])'
                  \/ \E k \in Loops : work'[k].op = "close" /\ work'[k].c = table'[f]
    <3>1. CASE f = fd
      BY <1>10, <1>11, <1>15, <3>1 DEF Subscribed
    <3>2. CASE f # fd
      <4>1. /\ f \in DOMAIN table /\ table'[f] = table[f]
            /\ table[f] \in DOMAIN conn /\ conn[table[f]].fd = f
            /\ \/ Subscribed(table[f])
               \/ \E k \in Loops : work[k].op = "close" /\ work[k].c = table[f]
        BY <1>15, <3>2 DEF ServerInv, TableInv
      <4>2. \A k \in Loops : work[k].op = "close" => work'[k] = work[k]
        BY <1>1, <1>16 DEF Idle
      <4>3. Subscribed(table[f]) => Subscribed(table[f])'
        BY <1>11, <4>1 DEF Subscribed
      <4> QED
        BY <1>11, <4>1, <4>2, <4>3
    <3> QED
      BY <3>1, <3>2
  <2>2. ASSUME NEW d \in DOMAIN conn', Subscribed(d)'
        PROVE  conn'[d].fd \in DOMAIN table' /\ table'[conn'[d].fd] = d
    <3>1. CASE d = c
      BY <1>10, <1>11, <1>15, <3>1
    <3>2. CASE d # c
      <4>1. d \in DOMAIN conn /\ conn'[d] = conn[d] /\ Subscribed(d)
        BY <1>11, <2>2, <3>2 DEF Subscribed
      <4>2. conn[d].fd \in DOMAIN table /\ table[conn[d].fd] = d
        BY <1>12, <4>1 DEF ServerInv, TableInv
      <4> QED
        BY <1>15, <4>1, <4>2
    <3> QED
      BY <3>1, <3>2
  <2> QED
    BY <2>1, <2>2 DEF TableInv
<1>22. Owned' = Owned \cup {c}
  <2>1. InTable' = InTable \cup {c}
    BY <1>14, <1>15 DEF InTable
  <2>2. held' = held /\ batch' = batch /\ pending' = pending
    BY <1>1 DEF mainVars
  <2>3. \A k \in Loops : \A d : HoldsIn(k, d)' => HoldsIn(k, d) \/ d = c
    BY <1>9, <1>16, <2>2 DEF HoldsIn
  <2>4. \A k \in Loops : \A d : HoldsIn(k, d) => HoldsIn(k, d)'
    <3> TAKE k \in Loops
    <3> TAKE d
    <3>1. CASE work'[k] = work[k]
      BY <2>2, <3>1 DEF HoldsIn
    <3>2. CASE k = l
      BY <1>1, <2>2, <3>2 DEF HoldsIn, Idle
    <3> QED
      BY <1>16, <3>1, <3>2
  <2> QED
    BY <2>1, <2>2, <2>3, <2>4, OwnedIs DEF Holds
<1>23. /\ \A d \in Owned : conn'[d].fd = conn[d].fd /\ conn[d].fd # fd
       /\ conn'[c].fd = fd
  <2>1. \A d \in Owned : conn[d].fd \notin NewFds
    BY DEF ServerInv, ArrivalInv
  <2> QED
    BY <1>7, <1>10, <1>11, <1>13, <2>1
<1>24. DescriptorInv'
  <2>1. \A d, e \in Owned' : d # e => conn'[d].fd # conn'[e].fd
    BY <1>22, <1>23 DEF ServerInv, DescriptorInv
  <2>2. {conn'[d].fd : d \in Owned'} = {conn[d].fd : d \in Owned} \cup {fd}
    BY <1>22, <1>23
  <2>3. open' = open /\ open = {conn[d].fd : d \in Owned} \cup NewFds
    BY <1>1 DEF ServerInv, DescriptorInv
  <2>4. open' = {conn'[d].fd : d \in Owned'} \cup NewFds'
    BY <1>7, <2>2, <2>3
  <2> QED
    BY <2>1, <2>4 DEF DescriptorInv
<1>25. ArrivalInv'
  <2>1. \A d \in Owned' : conn'[d].fd \notin NewFds'
    BY <1>7, <1>22, <1>23 DEF ServerInv, ArrivalInv
  <2>2. \A i, k \in Loops : i # k => Fresh(i)' \cap Fresh(k)' = {}
    <3>1. \A i, k \in Loops : i # k => Fresh(i) \cap Fresh(k) = {}
      BY DEF ServerInv, ArrivalInv
    <3> QED
      BY <1>6, <3>1
  <2>3. ASSUME NEW k \in Loops
        PROVE  /\ NewIn(pending'[k], 1) \cap NewIn(batch'[k], at'[k] + 1) = {}
               /\ UniqueIn(pending'[k], 1) /\ UniqueIn(batch'[k], at'[k] + 1)
    <3>1. /\ NewIn(pending[k], 1) \cap NewIn(batch[k], at[k] + 1) = {}
          /\ UniqueIn(pending[k], 1) /\ UniqueIn(batch[k], at[k] + 1)
          /\ pending' = pending /\ batch' = batch
      BY <1>1 DEF ServerInv, ArrivalInv
    <3>2. CASE k = l
      BY <1>3, <1>4, <3>1, <3>2
    <3>3. CASE k # l
      BY <1>3, <3>1, <3>3
    <3> QED
      BY <3>2, <3>3
  <2>4. clients' = clients
    BY <1>1
  <2> QED
    BY <1>7, <1>8, <1>11, <2>1, <2>2, <2>3, <2>4 DEF ArrivalInv
<1>26. ClosingInv'
  <2>1. UNCHANGED <<main, visit, marked, phase, pending, batch>> /\ marked \subseteq DOMAIN conn
    BY <1>1 DEF mainVars, ServerInv, PointerInv
  <2>2. \A d \in marked : conn'[d] = conn[d] /\ conn[d].loop \in Loops
    BY <1>11, <2>1 DEF ServerInv, TypeOK
  <2> SUFFICES ASSUME NEW d \in marked, Subscribed(d), NEW k, k = conn[d].loop
               PROVE  \/ main = "close" /\ d \in visit
                      \/ /\ phase[k] # "last"
                         /\ \E i \in 1..Len(pending[k]) : pending[k][i] = <<"closeNow", d>>
                      \/ \E i \in (at'[k] + 1)..Len(batch[k]) : batch[k][i] = <<"closeNow", d>>
    BY ZenonT(60), <2>1, <2>2 DEF ClosingInv, Subscribed
  <2>3. \/ main = "close" /\ d \in visit
        \/ /\ phase[k] # "last"
           /\ \E i \in 1..Len(pending[k]) : pending[k][i] = <<"closeNow", d>>
        \/ \E i \in (at[k] + 1)..Len(batch[k]) : batch[k][i] = <<"closeNow", d>>
    BY DEF ServerInv, ClosingInv
  <2>4. ASSUME NEW i \in (at[k] + 1)..Len(batch[k]), batch[k][i] = <<"closeNow", d>>
        PROVE  i \in (at'[k] + 1)..Len(batch[k])
    <3>1. CASE k # l
      BY <1>3, <2>2, <3>1
    <3>2. CASE k = l
      <4>1. i # at[l] + 1
        BY <1>1, <2>4, <3>2
      <4> QED
        BY <1>2, <1>3, <3>2, <4>1
    <3> QED
      BY <3>1, <3>2
  <2> QED
    BY <2>3, <2>4
<1> QED
  BY <1>17, <1>18, <1>20, <1>21, <1>24, <1>25, <1>26 DEF ServerInv

-----------------------------------------------------------------------------
\* The server starts with nothing accepted, queued or open.
LEMMA InitServerInv ==
  ASSUME ServerAssumption, Init
  PROVE  ServerInv
<1> USE DEF Init
<1>1. DOMAIN table = {} /\ DOMAIN conn = {}
  OBVIOUS
<1>2. TypeOK
  <2>1. Idle \in Work
    BY DEF Idle, Work, ServerAssumption
  <2>2. work \in [Loops -> Work]
    BY <2>1
  <2>3. /\ pending \in [Loops -> Seq(Task)] /\ batch \in [Loops -> Seq(Task)]
        /\ at \in [Loops -> Nat] /\ next \in Loops
        /\ callbacks \in Seq({"message", "connection", "close"})
    BY DEF Loops, ServerAssumption
  <2>4. /\ quit \in [Loops -> BOOLEAN] /\ crashed \in BOOLEAN
        /\ phase \in [Loops -> {"io", "run", "drain", "last", "gone"}]
    OBVIOUS
  <2>5. stopped \in 0..ThreadNum /\ clients \in 0..MaxConns /\ casts \in 0..MaxCasts
    BY DEF ServerAssumption
  <2> QED
    BY <1>1, <2>2, <2>3, <2>4, <2>5 DEF TypeOK
<1>3. PlaceInv
  BY <1>1 DEF PlaceInv, Loops
<1>4. PointerInv
  BY <1>1, QueueEmpty DEF PointerInv, WorkInv, Idle
<1>5. TableInv
  BY <1>1 DEF TableInv
<1>6. \A l \in Loops : Fresh(l) = {} /\ NewIn(batch[l], at[l] + 1) = {}
                       /\ UniqueIn(batch[l], at[l] + 1)
  <2> TAKE l \in Loops
  <2>1. at[l] + 1 = 1 /\ pending[l] = << >> /\ batch[l] = << >>
    OBVIOUS
  <2> QED
    BY <2>1, QueueEmpty DEF Fresh
<1>7. NewFds = {}
  BY <1>6 DEF NewFds
<1>8. Owned = {}
  <2>1. \A c : ~Holds(c)
    BY <1>1, QueueEmpty DEF Holds, HoldsIn, InTable, Idle
  <2> QED
    BY <2>1, OwnedIs
<1>9. DescriptorInv
  BY <1>7, <1>8 DEF DescriptorInv
<1>10. ArrivalInv
  <2>1. IsFiniteSet({}) /\ Cardinality({}) = 0
    BY FS_EmptySet
  <2>2. \A l \in Loops : UniqueIn(pending[l], 1)
    BY QueueEmpty
  <2> QED
    BY <1>1, <1>6, <1>7, <1>8, <2>1, <2>2 DEF ArrivalInv
<1>11. ClosingInv
  BY DEF ClosingInv
<1> QED
  BY <1>2, <1>3, <1>4, <1>5, <1>9, <1>10, <1>11 DEF ServerInv

\* Nothing happens.
LEMMA StutterKeeps ==
  ASSUME ServerInv, UNCHANGED vars
  PROVE  ServerInv'
<1> USE DEF vars, mainVars, loopVars, connVars
<1>1. TypeOK' /\ PlaceInv'
  BY DEF ServerInv, TypeOK, PlaceInv
<1>2. PointerInv' /\ ClosingInv'
  BY DEF ServerInv, PointerInv, TaskInv, WorkInv, Subscribed, ClosingInv
<1>3. TableInv'
  BY DEF ServerInv, TableInv, Subscribed
<1>4. Owned' = Owned
  BY DEF Owned, InTable
<1>5. ConnsKept /\ QueuesKept
  BY DEF ConnsKept, QueuesKept, ServerInv, ArrivalInv
<1>6. DescriptorInv' /\ ArrivalInv'
  BY <1>4, <1>5, ExactKept
<1> QED
  BY <1>1, <1>2, <1>3, <1>6 DEF ServerInv

\* Server keeps its table, its descriptors and its pointers exact for any
\* number of threads, descriptors and clients: whoever accepts, closes,
\* broadcasts, scans or destroys in whatever order, an entry of connections_
\* is the connection with that descriptor, an open descriptor belongs to one
\* live connection or is on its way to one, and a closeNow of the destructor
\* is ahead of every connection it is meant for.
THEOREM ServerIsExact == Spec => []ServerInv
<1> USE ServerAssumption
<1>1. Init => ServerInv
  BY InitServerInv
<1>2. ServerInv /\ [Next]_vars => ServerInv'
  <2> SUFFICES ASSUME ServerInv, [Next]_vars
               PROVE  ServerInv'
    OBVIOUS
  <2>1. CASE Accept
    BY <2>1, AcceptKeeps
  <2>2. CASE \E c \in Conns : GoIdle(c)
    BY <2>2, GoIdleKeeps
  <2>3. CASE Heartbeat
    BY <2>3, HeartbeatBeginsKeeps, VisitKeeps, HeartbeatEndsKeeps DEF Heartbeat
  <2>4. CASE QuitMain
    BY <2>4, ShutdownBeginsKeeps
  <2>5. CASE Destructor
    BY <2>5, ShutdownBeginsKeeps, CollectKeeps, VisitKeeps, CloseDoneKeeps, StopKeeps,
       MembersKeeps DEF Destructor
  <2>6. ASSUME NEW l \in Loops, SubLoop(l)
        PROVE  ServerInv'
    BY <2>6, SwapKeeps, SeeQuitKeeps, EndKeeps, RunNewKeeps, RunSendKeeps,
       RunForceCloseKeeps, RunCloseNowKeeps, BroadcastKeeps, BroadcastNextKeeps, ReturnKeeps
       DEF SubLoop
  <2>7. ASSUME NEW l \in Loops, NEW c \in Conns, Message(l, c) \/ Eof(l, c)
        PROVE  ServerInv'
    BY <2>7, MessageKeeps, EofKeeps
  <2>8. CASE UNCHANGED vars
    BY <2>8, StutterKeeps
  <2> QED
    BY <2>1, <2>2, <2>3, <2>4, <2>5, <2>6, <2>7, <2>8 DEF Next
<1> QED
  BY <1>1, <1>2, PTL DEF Spec

\* ~Server: a connection of the destructor's snapshot is closed by its own
\* loop before that loop is destroyed.
THEOREM SnapshotClosed == Spec => []SnapshotIsClosed
<1>1. ServerInv => SnapshotIsClosed
  <2> SUFFICES ASSUME ServerInv, NEW c \in marked, phase[conn[c].loop] = "gone", Subscribed(c)
               PROVE  FALSE
    BY DEF SnapshotIsClosed
  <2>1. conn[c].loop \in Loops
    BY DEF ServerInv, PointerInv, TypeOK
  <2>2. /\ main # "close"
        /\ pending[conn[c].loop] = << >> /\ batch[conn[c].loop] = << >> /\ at[conn[c].loop] = 0
    BY <2>1 DEF ServerInv, PlaceInv
  <2> QED
    BY <2>2 DEF ServerInv, ClosingInv
<1> QED
  BY <1>1, ServerIsExact, PTL

\* A server that is gone holds no descriptor: whatever was accepted became a
\* connection, and every connection lost its last owner.
THEOREM NothingLeaks == Spec => []NoDescriptorLeak
<1>1. ServerInv => NoDescriptorLeak
  <2> SUFFICES ASSUME ServerInv, main = "gone"
               PROVE  open = {}
    BY DEF NoDescriptorLeak
  <2>1. /\ DOMAIN table = {} /\ held = {}
        /\ \A l \in Loops : phase[l] = "gone"
    BY ServerAssumption DEF ServerInv, PlaceInv, Loops, ServerAssumption
  <2>2. \A l \in Loops : /\ pending[l] = << >> /\ batch[l] = << >> /\ at[l] + 1 = 1
                         /\ work[l] = Idle
    BY <2>1 DEF ServerInv, PlaceInv
  <2>3. \A c : ~Holds(c)
    BY <2>1, <2>2, QueueEmpty DEF Holds, HoldsIn, InTable, Idle
  <2>4. \A l \in Loops : Fresh(l) = {}
    BY <2>2, QueueEmpty DEF Fresh
  <2> QED
    BY <2>3, <2>4, OwnedIs DEF ServerInv, DescriptorInv, NewFds
<1> QED
  BY <1>1, ServerIsExact, PTL

-----------------------------------------------------------------------------
\* The callbacks a loop has still to run: the rest of its batch b, of which n have
\* run, and then what is queued.
ToRun(b, n, p) == SubSeq(b, n + 1, Len(b)) \o p

\* What a step may do to them: nothing; a callback is posted to a loop that exists;
\* the loop runs the first one, which may post another; or the loop is destroyed
\* after its final batch with what is left, no accepted descriptor among it.
QueueStep(l) ==
  LET q == ToRun(batch[l], at[l], pending[l])
      r == ToRun(batch'[l], at'[l], pending'[l])
  IN  \/ r = q
      \/ phase[l] # "gone" /\ \E t \in Task : r = Append(q, t)
      \/ /\ phase[l] \in {"run", "last"} /\ q # << >>
         /\ r = Tail(q) \/ \E t \in Task : r = Append(Tail(q), t)
      \/ phase[l] = "last" /\ phase'[l] = "gone" /\ r = << >> /\ NewIn(q, 1) = {}

\* Appending to the queue, running a callback, and the two ends of a batch.
LEMMA ToRunIs ==
  ASSUME NEW b \in Seq(Task), NEW n \in Nat, n <= Len(b), NEW p \in Seq(Task)
  PROVE  /\ ToRun(b, n, p) \in Seq(Task)
         /\ \A t \in Task : ToRun(b, n, Append(p, t)) = Append(ToRun(b, n, p), t)
         /\ n < Len(b) => /\ ToRun(b, n, p) # << >>
                          /\ ToRun(b, n + 1, p) = Tail(ToRun(b, n, p))
         /\ n = Len(b) => ToRun(b, n, p) = p
         /\ ToRun(<< >>, 0, p) = p /\ ToRun(p, 0, << >>) = p
<1> DEFINE s == SubSeq(b, n + 1, Len(b))
<1>1. s \in Seq(Task) /\ Len(s) = Len(b) - n /\ \A i \in 1..Len(s) : s[i] = b[n + i]
  OBVIOUS
<1>2. \A t \in Task : s \o Append(p, t) = Append(s \o p, t)
  <2> HIDE DEF s
  <2> QED
    BY <1>1
<1>3. s \o p \in Seq(Task)
  BY <1>1
<1>4. ASSUME n < Len(b)
      PROVE  s \o p # << >> /\ SubSeq(b, n + 2, Len(b)) \o p = Tail(s \o p)
  <2> DEFINE u == SubSeq(b, n + 2, Len(b))
  <2>1. u \in Seq(Task) /\ Len(u) = Len(b) - n - 1 /\ \A i \in 1..Len(u) : u[i] = b[n + 1 + i]
    BY <1>4
  <2> HIDE DEF s, u
  <2>2. Len(s) \in Nat /\ Len(s) > 0 /\ Len(u) = Len(s) - 1
    BY <1>1, <1>4, <2>1
  <2>3. ASSUME NEW i \in 1..Len(u) PROVE u[i] = s[i + 1]
    <3>1. i + 1 \in 1..Len(s) /\ n + (i + 1) = n + 1 + i
      BY <2>2
    <3> QED
      BY <1>1, <2>1, <3>1
  <2>4. u = Tail(s)
    <3> DEFINE t == Tail(s)
    <3>1. t \in Seq(Task) /\ Len(t) = Len(s) - 1 /\ \A i \in 1..Len(t) : t[i] = s[i + 1]
      BY <1>1, <2>2
    <3> HIDE DEF t
    <3>2. Len(u) = Len(t) /\ \A i \in 1..Len(u) : u[i] = t[i]
      BY <2>2, <2>3, <3>1
    <3>3. u = t
      BY <2>1, <3>1, <3>2, SeqEqual
    <3> QED
      BY <3>3 DEF t
  <2>5. s \o p # << >> /\ u \o p = Tail(s \o p)
    BY <1>1, <2>2, <2>4, ConcatProperties
  <2> QED
    BY <2>5 DEF u
<1>5. n = Len(b) => s = << >>
  BY <1>1
<1>6. << >> \o p = p /\ SubSeq(p, 1, Len(p)) = p /\ p \o << >> = p
  BY SubSeqFull, ConcatEmptySeq
<1>7. ToRun(<< >>, 0, p) = p
  BY <1>6 DEF ToRun
<1>8. ToRun(p, 0, << >>) = p
  BY <1>6 DEF ToRun
<1>9. n + 1 + 1 = n + 2
  OBVIOUS
<1>10. n < Len(b) => ToRun(b, n + 1, p) = Tail(ToRun(b, n, p)) /\ ToRun(b, n, p) # << >>
  BY <1>4, <1>9 DEF ToRun
<1>11. n = Len(b) => ToRun(b, n, p) = p
  BY <1>5, <1>6 DEF ToRun
<1>12. \A t \in Task : ToRun(b, n, Append(p, t)) = Append(ToRun(b, n, p), t)
  BY <1>2 DEF ToRun
<1> QED
  BY <1>3, <1>7, <1>8, <1>10, <1>11, <1>12 DEF ToRun

\* What the invariant says of the queues of a loop.
LEMMA QueuesTyped ==
  ASSUME ServerInv, NEW l \in Loops
  PROVE  /\ batch[l] \in Seq(Task) /\ pending[l] \in Seq(Task)
         /\ at[l] \in Nat /\ at[l] <= Len(batch[l])
  BY DEF ServerInv, TypeOK, PlaceInv

\* A thread that leaves the queues alone.
LEMMA QueuesAlone ==
  ASSUME UNCHANGED <<pending, batch, at>>, NEW l \in Loops
  PROVE  QueueStep(l)
  BY DEF QueueStep

\* queueInLoop on another thread's loop.
LEMMA PostAppends ==
  ASSUME ServerInv, ServerInv', UNCHANGED <<batch, at>>, NEW k, NEW t, Post(k, t),
         NEW l \in Loops
  PROVE  QueueStep(l)
<1>1. CASE pending'[l] = pending[l]
  BY <1>1 DEF QueueStep
<1>2. CASE pending'[l] # pending[l]
  <2>1. pending \in [Loops -> Seq(Task)] /\ pending' \in [Loops -> Seq(Task)]
    BY DEF ServerInv, TypeOK
  <2>2. l = k /\ phase[l] # "gone" /\ pending'[l] = Append(pending[l], t)
    BY <1>2, <2>1 DEF Post
  <2>3. t \in Task
    <3> DEFINE p == pending[l]
               a == pending'[l]
    <3>1. p \in Seq(Task) /\ a \in Seq(Task) /\ a = Append(p, t)
      BY <2>1, <2>2
    <3> HIDE DEF p, a
    <3>2. Len(p) \in Nat /\ Len(a) = Len(p) + 1 /\ a[Len(p) + 1] = t
      BY <3>1
    <3> QED
      BY <3>1, <3>2
  <2>4. ToRun(batch[l], at[l], Append(pending[l], t)) = Append(ToRun(batch[l], at[l], pending[l]), t)
    BY <2>3, QueuesTyped, ToRunIs
  <2> QED
    BY <2>2, <2>3, <2>4 DEF QueueStep
<1> QED
  BY <1>1, <1>2

\* Swapping moves everything into the batch, in order.
LEMMA SwapMovesAll ==
  ASSUME ServerInv, NEW k \in Loops, SwapPending(k), NEW l \in Loops
  PROVE  QueueStep(l)
<1>1. /\ phase[k] \in {"io", "drain"} /\ at' = at
      /\ batch' = [batch EXCEPT ![k] = pending[k]]
      /\ pending' = [pending EXCEPT ![k] = << >>]
  BY DEF SwapPending
<1>2. /\ batch \in [Loops -> Seq(Task)] /\ pending \in [Loops -> Seq(Task)]
      /\ batch[k] = << >> /\ at[k] = 0
  BY <1>1 DEF ServerInv, TypeOK, PlaceInv
<1>3. CASE l = k
  <2>1. batch'[l] = pending[l] /\ pending'[l] = << >> /\ at'[l] = 0 /\ at[l] = 0 /\ batch[l] = << >>
    BY <1>1, <1>2, <1>3
  <2>2. /\ ToRun(<< >>, 0, pending[l]) = pending[l]
        /\ ToRun(pending[l], 0, << >>) = pending[l]
    BY QueuesTyped, ToRunIs
  <2> QED
    BY <2>1, <2>2 DEF QueueStep
<1>4. CASE l # k
  BY <1>1, <1>2, <1>4 DEF QueueStep
<1> QED
  BY <1>3, <1>4

\* The end of a batch: nothing of it is left; after the final one the loop goes
\* with what was queued meanwhile, no new connection among it.
LEMMA EndLeavesNothing ==
  ASSUME ServerInv, NEW k \in Loops, EndPending(k), NEW l \in Loops
  PROVE  QueueStep(l)
<1>1. /\ phase[k] \in {"run", "last"} /\ at[k] = Len(batch[k])
      /\ batch' = [batch EXCEPT ![k] = << >>] /\ at' = [at EXCEPT ![k] = 0]
      /\ \/ phase[k] = "last" /\ phase' = [phase EXCEPT ![k] = "gone"]
            /\ pending' = [pending EXCEPT ![k] = << >>]
         \/ pending' = pending
  BY DEF EndPending
<1>2. /\ batch \in [Loops -> Seq(Task)] /\ pending \in [Loops -> Seq(Task)]
      /\ at \in [Loops -> Nat] /\ phase \in [Loops -> {"io", "run", "drain", "last", "gone"}]
      /\ phase[k] = "last" => NewIn(pending[k], 1) = {}
  BY DEF ServerInv, TypeOK, PlaceInv
<1>3. CASE l = k
  <2>1. batch'[l] = << >> /\ at'[l] = 0 /\ at[l] = Len(batch[l])
    BY <1>1, <1>2, <1>3
  <2>2. /\ ToRun(<< >>, 0, pending[l]) = pending[l] /\ ToRun(<< >>, 0, << >>) = << >>
        /\ ToRun(batch[l], at[l], pending[l]) = pending[l]
    <3>1. << >> \in Seq(Task)
      OBVIOUS
    <3>2. ToRun(<< >>, 0, pending[l]) = pending[l] /\ ToRun(batch[l], at[l], pending[l]) = pending[l]
      BY <2>1, QueuesTyped, ToRunIs
    <3>3. ToRun(<< >>, 0, << >>) = << >>
      BY DEF ToRun
    <3> QED
      BY <3>2, <3>3
  <2>3. CASE pending' = pending
    BY <2>1, <2>2, <2>3 DEF QueueStep
  <2>4. CASE /\ phase[k] = "last" /\ phase' = [phase EXCEPT ![k] = "gone"]
             /\ pending' = [pending EXCEPT ![k] = << >>]
    <3>1. phase[l] = "last" /\ phase'[l] = "gone" /\ pending'[l] = << >> /\ NewIn(pending[l], 1) = {}
      BY <1>2, <1>3, <2>4
    <3> QED
      BY <2>1, <2>2, <3>1 DEF QueueStep
  <2> QED
    BY <1>1, <2>3, <2>4
<1>4. CASE l # k
  BY <1>1, <1>2, <1>4 DEF QueueStep
<1> QED
  BY <1>3, <1>4

\* Running a callback takes the first one; forceClose queues its second stage.
LEMMA RunTakesFirst ==
  ASSUME ServerInv, ServerInv', NEW k \in Loops, NEW op, Running(k, op), UNCHANGED batch,
         \/ UNCHANGED pending
         \/ \E t : pending' = [pending EXCEPT ![k] = Append(pending[k], t)],
         NEW l \in Loops
  PROVE  QueueStep(l)
<1>1. /\ phase[k] \in {"run", "last"} /\ at[k] < Len(batch[k])
      /\ at' = [at EXCEPT ![k] = at[k] + 1]
  BY DEF Running
<1>2. /\ at \in [Loops -> Nat] /\ pending \in [Loops -> Seq(Task)]
      /\ pending' \in [Loops -> Seq(Task)]
  BY DEF ServerInv, TypeOK
<1>3. CASE l = k
  <2> DEFINE b == batch[l]
             n == at[l]
             p == pending[l]
             q == ToRun(b, n, p)
  <2>0. b \in Seq(Task) /\ p \in Seq(Task) /\ n \in Nat /\ n + 1 \in Nat /\ n <= Len(b)
    BY QueuesTyped
  <2>1. at'[l] = at[l] + 1 /\ at'[l] \in Nat /\ at'[l] <= Len(batch[l]) /\ at[l] < Len(batch[l])
    BY <1>1, <1>2, <1>3, QueuesTyped
  <2>2. q # << >> /\ ToRun(batch[l], at'[l], pending[l]) = Tail(q)
    <3>1. n < Len(b) /\ at'[l] = n + 1
      BY <2>1
    <3>2. ToRun(b, n, p) # << >> /\ ToRun(b, n + 1, p) = Tail(ToRun(b, n, p))
      <4> HIDE DEF b, n, p
      <4> QED
        BY <2>0, <3>1, ToRunIs
    <3> QED
      BY <3>1, <3>2
  <2>3. CASE UNCHANGED pending
    BY <1>1, <1>3, <2>2, <2>3 DEF QueueStep
  <2>4. ASSUME NEW t, pending' = [pending EXCEPT ![k] = Append(pending[k], t)]
        PROVE  QueueStep(l)
    <3>1. pending'[l] = Append(pending[l], t)
      BY <1>2, <1>3, <2>4
    <3>2. t \in Task
      <4> DEFINE a == pending'[l]
      <4>1. p \in Seq(Task) /\ a \in Seq(Task) /\ a = Append(p, t)
        BY <1>2, <3>1
      <4> HIDE DEF p, a
      <4>2. Len(p) \in Nat /\ Len(a) = Len(p) + 1 /\ a[Len(p) + 1] = t
        BY <4>1
      <4> QED
        BY <4>1, <4>2
    <3>3. ToRun(batch[l], at'[l], pending'[l]) = Append(Tail(q), t)
      <4>1. ToRun(batch[l], at'[l], Append(pending[l], t)) = Append(ToRun(batch[l], at'[l], pending[l]), t)
        <5>1. at'[l] = n + 1 /\ n + 1 <= Len(b)
          BY <2>1
        <5>2. ToRun(b, n + 1, Append(p, t)) = Append(ToRun(b, n + 1, p), t)
          <6> HIDE DEF b, n, p
          <6> QED
            BY <2>0, <3>2, <5>1, ToRunIs
        <5> QED
          BY <5>1, <5>2
      <4> HIDE DEF q
      <4> QED
        BY <2>2, <3>1, <4>1
    <3> QED
      BY <1>1, <1>3, <2>2, <3>2, <3>3 DEF QueueStep
  <2> QED
    BY <2>3, <2>4
<1>4. CASE l # k
  <2>1. at'[l] = at[l] /\ pending'[l] = pending[l] /\ batch'[l] = batch[l]
    BY <1>1, <1>2, <1>4
  <2> QED
    BY <2>1 DEF QueueStep
<1> QED
  BY <1>3, <1>4

\* The queue of a sub loop, batch and pendingFunctors_ together, is first in, first
\* out, whoever posts to it: no callback is lost, overtaken or run twice until the
\* loop is destroyed, and no connection is waiting to be created then.
THEOREM LoopsAreQueues == Spec => [][\A l \in Loops : QueueStep(l)]_vars
<1>1. ASSUME ServerInv, ServerInv', Next, NEW l \in Loops
      PROVE  QueueStep(l)
  <2>1. CASE Accept
    <3>1. \E t : Post(next, t)
      BY <2>1 DEF Accept
    <3>2. UNCHANGED <<batch, at>>
      BY <2>1 DEF Accept
    <3> QED
      BY <1>1, <3>1, <3>2, PostAppends
  <2>2. CASE \E c \in Conns : GoIdle(c)
    BY <2>2, QueuesAlone DEF GoIdle, loopVars
  <2>3. CASE CheckHeartbeats \/ CheckDone \/ QuitMain
    BY <2>3, QueuesAlone DEF CheckHeartbeats, CheckDone, QuitMain, loopVars
  <2>4. CASE CheckNext \/ CloseNext
    <3>1. UNCHANGED <<batch, at>>
      BY <2>4 DEF CheckNext, CloseNext
    <3>2. UNCHANGED pending \/ \E k, t : Post(k, t)
      BY <2>4 DEF CheckNext, CloseNext
    <3> QED
      BY <1>1, <3>1, <3>2, PostAppends, QueuesAlone
  <2>5. CASE ClearCallback \/ Collect \/ CloseDone \/ StopThread \/ JoinThread \/ StopReturns
             \/ DestroyMembers
    BY <2>5, QueuesAlone DEF ClearCallback, Collect, CloseDone, StopThread, JoinThread,
       StopReturns, DestroyMembers, loopVars
  <2>6. ASSUME NEW k \in Loops, SubLoop(k)
        PROVE  QueueStep(l)
    <3>1. CASE SwapPending(k)
      BY <1>1, <3>1, SwapMovesAll
    <3>2. CASE SeeQuit(k)
      BY <3>2, QueuesAlone DEF SeeQuit
    <3>3. CASE EndPending(k)
      BY <1>1, <3>3, EndLeavesNothing
    <3>4. CASE RunNew(k) \/ RunSend(k) \/ RunCloseNow(k)
      <4>1. UNCHANGED <<batch, pending>> /\ \E op : Running(k, op)
        BY <3>4 DEF RunNew, RunSend, RunCloseNow
      <4> QED
        BY <1>1, <4>1, RunTakesFirst
    <3>5. CASE RunForceClose(k)
      <4>1. /\ batch' = batch /\ Running(k, "forceClose")
            /\ \/ UNCHANGED pending
               \/ \E t : pending' = [pending EXCEPT ![k] = Append(pending[k], t)]
        BY <3>5 DEF RunForceClose
      <4> QED
        BY <1>1, <4>1, RunTakesFirst
    <3>6. CASE Broadcast(k) \/ Return(k)
      BY <3>6, QueuesAlone DEF Broadcast, Return
    <3>7. CASE BroadcastNext(k)
      <4>1. UNCHANGED <<batch, at>>
        BY <3>7 DEF BroadcastNext
      <4>2. UNCHANGED pending \/ \E j, t : Post(j, t)
        BY <3>7 DEF BroadcastNext
      <4> QED
        BY <1>1, <4>1, <4>2, PostAppends, QueuesAlone
    <3> QED
      BY <2>6, <3>1, <3>2, <3>3, <3>4, <3>5, <3>6, <3>7 DEF SubLoop
  <2>7. ASSUME NEW k \in Loops, NEW c \in Conns, Message(k, c) \/ Eof(k, c)
        PROVE  QueueStep(l)
    BY <2>7, QueuesAlone DEF Message, Eof
  <2> QED
    BY <1>1, <2>1, <2>2, <2>3, <2>4, <2>5, <2>6, <2>7 DEF Next, Heartbeat, Destructor
<1>2. ServerInv /\ ServerInv' /\ [Next]_vars => [\A l \in Loops : QueueStep(l)]_vars
  BY <1>1
<1> QED
  BY <1>2, ServerIsExact, PTL DEF Spec
=============================================================================
