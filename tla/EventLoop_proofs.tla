------------------------- MODULE EventLoop_proofs -------------------------
(* Proofs about EventLoop, for every set of tasks and of threads, and about *)
(* the loop inside EventLoopThread.                                         *)
EXTENDS EventLoopThread, SequenceTheorems, TLAPS

\* What a step of the loop changes keeps the inductive invariant.
LEMMA LoopStep == LoopInv /\ Loop => LoopInv'
<1> SUFFICES ASSUME LoopInv, Loop
             PROVE  LoopInv'
  OBVIOUS
<1> USE DEF LoopInv, BatchInv, WakeInv, NoSleepOverQuit, InFlight
<1>1. CASE EnterLoop
  BY <1>1 DEF EnterLoop, TypeOK
<1>2. CASE While
  BY <1>2 DEF While, TypeOK
<1>3. ASSUME NEW ev \in SUBSET {"wakeup", "io"}, EpollReturn(ev)
      PROVE  LoopInv'
  BY <1>3 DEF EpollReturn, TypeOK
<1>4. CASE EpollInterrupted
  BY <1>4 DEF EpollInterrupted, TypeOK
<1>5. CASE EpollFailed
  BY <1>5 DEF EpollFailed, TypeOK
<1>6. CASE HandleWakeup
  BY <1>6 DEF HandleWakeup, TypeOK
<1>7. CASE HandleIo
  BY <1>7 DEF HandleIo, TypeOK
<1>8. CASE DispatchDone
  BY <1>8 DEF DispatchDone, TypeOK
<1>9. CASE SwapPending
  BY <1>9 DEF SwapPending, TypeOK
<1>10. CASE RunFunctor
  BY <1>10 DEF RunFunctor, TypeOK
<1>11. CASE EndPending
  BY <1>11 DEF EndPending, TypeOK
<1> QED
  BY <1>1, <1>2, <1>3, <1>4, <1>5, <1>6, <1>7, <1>8, <1>9, <1>10, <1>11
     DEF Loop

\* The calls that callbacks make on the loop thread keep it.
LEMMA CallbackStep == LoopInv /\ Callback => LoopInv'
<1> SUFFICES ASSUME LoopInv, Callback
             PROVE  LoopInv'
  OBVIOUS
<1> USE DEF LoopInv, BatchInv, WakeInv, NoSleepOverQuit, InFlight, InCallback
<1>1. CASE QuitFromLoop
  BY <1>1 DEF QuitFromLoop, TypeOK
<1>2. ASSUME NEW t \in Tasks, QueueFromLoop(t)
      PROVE  LoopInv'
  <2>1. wakeupFd' \in BOOLEAN /\ early' \in BOOLEAN
    BY <1>2, Zenon DEF QueueFromLoop
  <2>2. TypeOK'
    BY <1>2, <2>1 DEF QueueFromLoop, TypeOK
  <2>3. BatchInv'
    BY <1>2 DEF QueueFromLoop
  <2>4. WakeInv'
    BY <1>2, Zenon DEF QueueFromLoop
  <2>5. NoSleepOverQuit'
    BY <1>2 DEF QueueFromLoop
  <2> QED
    BY <2>2, <2>3, <2>4, <2>5
<1>3. ASSUME NEW t \in Tasks, RunInLoop(t)
      PROVE  LoopInv'
  BY <1>3 DEF RunInLoop, TypeOK
<1> QED
  BY <1>1, <1>2, <1>3 DEF Callback

\* The calls of the other threads keep it.
LEMMA OtherStep == ASSUME NEW th \in Threads, LoopInv, Other(th)
                   PROVE  LoopInv'
<1> USE DEF LoopInv, BatchInv, WakeInv, NoSleepOverQuit, InFlight
<1>1. CASE Quit(th)
  BY <1>1 DEF Quit, TypeOK
<1>2. CASE Wakeup(th)
  BY <1>2 DEF Wakeup, TypeOK
<1>3. ASSUME NEW t \in Tasks, QueueInLoop(th, t)
      PROVE  LoopInv'
  BY <1>3 DEF QueueInLoop, TypeOK
<1> QED
  BY <1>1, <1>2, <1>3 DEF Other

\* The inductive invariant: a queued callback or a quit request is never
\* separated from its wake-up on the way to epoll_wait.
THEOREM LoopInvariant == Spec => []LoopInv
<1>1. Init => LoopInv
  <2> SUFFICES ASSUME Init
               PROVE  LoopInv
    OBVIOUS
  <2>0. caller \in [Threads -> {"idle", "wakeup"}]
    BY DEF Init
  <2>1. TypeOK
    <3>1. pending \in Seq(Tasks) /\ functors \in Seq(Tasks) /\ ran \in Seq(Tasks)
      BY DEF Init
    <3>2. /\ quit \in BOOLEAN /\ calling \in BOOLEAN /\ wakeupFd \in BOOLEAN
          /\ exiting \in BOOLEAN /\ early \in BOOLEAN
      BY DEF Init
    <3>3. pc = "created" /\ active = {}
      BY DEF Init
    <3> QED
      BY <2>0, <3>1, <3>2, <3>3 DEF TypeOK
  <2>2. BatchInv /\ WakeInv /\ NoSleepOverQuit
    BY DEF Init, BatchInv, WakeInv, NoSleepOverQuit
  <2> QED
    BY <2>1, <2>2 DEF LoopInv
<1>2. LoopInv /\ UNCHANGED vars => LoopInv'
  BY DEF vars, LoopInv, TypeOK, BatchInv, WakeInv, NoSleepOverQuit, InFlight
<1>3. LoopInv /\ [Next]_vars => LoopInv'
  BY <1>2, LoopStep, CallbackStep, OtherStep DEF Next
<1> QED
  BY <1>1, <1>3, PTL DEF Spec

\* queueInLoop never loses a wake-up, whatever the interleaving of any number
\* of posting threads with epoll_wait, the dispatch and doPendingFunctors.
THEOREM WakeupNeverLost == Spec => []NoLostWakeup
<1>1. LoopInv => NoLostWakeup
  BY DEF LoopInv, WakeInv, NoLostWakeup
<1> QED
  BY <1>1, LoopInvariant, PTL

\* quit() never leaves the loop asleep.
THEOREM QuitNeverSleptOver == Spec => []NoSleepOverQuit
<1>1. LoopInv => NoSleepOverQuit
  BY DEF LoopInv
<1> QED
  BY <1>1, LoopInvariant, PTL

-----------------------------------------------------------------------------
\* How Append, Head and Tail see the concatenation of the batch and the queue.
LEMMA ConcatFacts ==
  ASSUME NEW S, NEW f \in Seq(S), NEW p \in Seq(S), NEW t \in S
  PROVE  /\ f \o Append(p, t) = Append(f \o p, t)
         /\ f # << >> => /\ f \o p # << >>
                         /\ Head(f \o p) = Head(f)
                         /\ Tail(f \o p) = Tail(f) \o p
         /\ << >> \o p = p
         /\ p \o << >> = p
         /\ \A i \in 1..Len(f \o p) : \/ \E j \in 1..Len(f) : (f \o p)[i] = f[j]
                                      \/ \E j \in 1..Len(p) : (f \o p)[i] = p[j]
  OBVIOUS

\* A task that was never handed over is fresh for the abstract executor too.
LEMMA FreshIsFresh ==
  ASSUME TypeOK, NEW t \in Tasks, Fresh(t)
  PROVE  E!Fresh(t)
<1>1. \A i \in 1..Len(functors \o pending) : (functors \o pending)[i] # t
  BY ConcatFacts DEF TypeOK, Fresh, IsIn
<1> QED
  BY <1>1 DEF E!Fresh, Fresh, IsIn

\* EventLoop implements Executor: batches, wake-ups, EINTR and the final drain
\* are invisible, callbacks run in the order of their pushes under mutex_.
THEOREM ImplementsExecutor == Spec => ExecutorSpec
<1>1. Init => E!Init
  BY DEF Init, E!Init
<1>2. LoopInv /\ [Next]_vars => [E!Next]_E!vars
  <2> SUFFICES ASSUME LoopInv, [Next]_vars
               PROVE  [E!Next]_E!vars
    OBVIOUS
  <2>a. TypeOK /\ BatchInv
    BY DEF LoopInv
  <2>1. CASE SwapPending
    <3>1. functors \o pending = pending /\ functors' \o pending' = pending
      BY <2>a, <2>1, ConcatFacts DEF SwapPending, TypeOK, BatchInv
    <3> QED
      BY <2>1, <3>1 DEF SwapPending, E!vars
  <2>2. CASE RunFunctor
    <3>1. E!Execute
      <4>1. functors \in Seq(Tasks) /\ pending \in Seq(Tasks)
        BY <2>a DEF TypeOK
      <4>2. functors # << >> /\ functors' = Tail(functors) /\ pending' = pending
            /\ ran' = Append(ran, Head(functors))
        BY <2>2 DEF RunFunctor
      <4>3. PICK t \in Tasks : TRUE
        BY <4>1, <4>2
      <4>4. functors \o pending # << >> /\ Head(functors \o pending) = Head(functors)
            /\ Tail(functors \o pending) = Tail(functors) \o pending
        BY <4>1, <4>2, <4>3, ConcatFacts
      <4>5. pc # "done" /\ pc' = pc
        BY <2>2 DEF RunFunctor
      <4> QED
        BY <4>2, <4>4, <4>5 DEF E!Execute
    <3> QED
      BY <3>1 DEF E!Next
  <2>3. CASE EndPending
    BY <2>a, <2>3 DEF EndPending, TypeOK, E!Next, E!Close, E!vars
  <2>4. ASSUME NEW t \in Tasks, QueueFromLoop(t)
        PROVE  E!Next
    <3>1. E!Post(t)
      BY <2>a, <2>4, ConcatFacts, FreshIsFresh
         DEF QueueFromLoop, TypeOK, E!Post
    <3> QED
      BY <3>1 DEF E!Next
  <2>5. ASSUME NEW t \in Tasks, RunInLoop(t)
        PROVE  E!Next
    <3>1. E!Inline(t)
      BY <2>a, <2>5, FreshIsFresh DEF RunInLoop, InCallback, E!Inline
    <3> QED
      BY <3>1 DEF E!Next
  <2>6. ASSUME NEW th \in Threads, NEW t \in Tasks, QueueInLoop(th, t)
        PROVE  E!Next
    <3>1. E!Post(t)
      BY <2>a, <2>6, ConcatFacts, FreshIsFresh
         DEF QueueInLoop, TypeOK, E!Post
    <3> QED
      BY <3>1 DEF E!Next
  <2>7. CASE EnterLoop \/ While \/ EpollInterrupted \/ EpollFailed
             \/ HandleWakeup \/ HandleIo \/ DispatchDone
    BY <2>7 DEF EnterLoop, While, EpollInterrupted, EpollFailed, HandleWakeup,
                HandleIo, DispatchDone, E!vars
  <2>8. ASSUME NEW ev \in SUBSET {"wakeup", "io"}, EpollReturn(ev)
        PROVE  UNCHANGED E!vars
    BY <2>8 DEF EpollReturn, E!vars
  <2>9. ASSUME NEW th \in Threads, Quit(th) \/ Wakeup(th)
        PROVE  UNCHANGED E!vars
    BY <2>9 DEF Quit, Wakeup, E!vars
  <2>10. CASE QuitFromLoop \/ UNCHANGED vars
    BY <2>10 DEF QuitFromLoop, vars, E!vars
  <2> QED
    BY <2>1, <2>2, <2>3, <2>4, <2>5, <2>6, <2>7, <2>8, <2>9, <2>10
       DEF Next, Loop, Callback, Other
<1> QED
  BY <1>1, <1>2, LoopInvariant, PTL DEF Spec, ExecutorSpec, E!Spec

-----------------------------------------------------------------------------
\* At most once, of a queue and a history.
Once(q, r) ==
  /\ \A i, j \in 1..Len(r) : r[i] = r[j] => i = j
  /\ \A i, j \in 1..Len(q) : q[i] = q[j] => i = j
  /\ \A i \in 1..Len(r), j \in 1..Len(q) : r[i] # q[j]

\* Accepting a new task, executing it at once, and executing the oldest one.
LEMMA OnceKept ==
  ASSUME NEW S, NEW q \in Seq(S), NEW r \in Seq(S), Once(q, r)
  PROVE  /\ \A t \in S :
              (\A i \in 1..Len(q) : q[i] # t) /\ (\A i \in 1..Len(r) : r[i] # t)
                => Once(Append(q, t), r) /\ Once(q, Append(r, t))
         /\ q # << >> => Once(Tail(q), Append(r, Head(q)))
<1>1. ASSUME NEW t \in S, \A i \in 1..Len(q) : q[i] # t, \A i \in 1..Len(r) : r[i] # t
      PROVE  Once(Append(q, t), r) /\ Once(q, Append(r, t))
  BY <1>1 DEF Once
<1>2. ASSUME q # << >>
      PROVE  Once(Tail(q), Append(r, Head(q)))
  <2> DEFINE h == Head(q)
             q1 == Tail(q)
             r1 == Append(r, h)
  <2>1. /\ h = q[1]
        /\ Len(q) \in Nat \ {0}
        /\ Len(q1) = Len(q) - 1
        /\ \A i \in 1..Len(q1) : q1[i] = q[i + 1]
    BY <1>2
  <2>2. /\ Len(r) \in Nat
        /\ Len(r1) = Len(r) + 1
        /\ r1[Len(r) + 1] = h
        /\ \A i \in 1..Len(r) : r1[i] = r[i]
    BY <1>2
  <2> HIDE DEF h, q1, r1
  <2>3. \A i, j \in 1..Len(r1) : r1[i] = r1[j] => i = j
    BY <2>1, <2>2 DEF Once
  <2>4. \A i, j \in 1..Len(q1) : q1[i] = q1[j] => i = j
    BY <2>1 DEF Once
  <2>5. \A i \in 1..Len(r1), j \in 1..Len(q1) : r1[i] # q1[j]
    BY <2>1, <2>2 DEF Once
  <2>6. Once(q1, r1)
    BY <2>3, <2>4, <2>5 DEF Once
  <2> QED
    BY <2>6 DEF h, q1, r1
<1> QED
  BY <1>1, <1>2

\* No callback runs twice and none that ran is still queued: a property of the
\* executor, which the loop has because it implements it.
THEOREM RunsAtMostOnce == Spec => []AtMostOnce
<1>1. E!Init => AtMostOnce
  BY DEF E!Init, AtMostOnce, E!AtMostOnce
<1>2. LoopInv /\ LoopInv' /\ AtMostOnce /\ [E!Next]_E!vars => AtMostOnce'
  <2> SUFFICES ASSUME LoopInv, LoopInv', AtMostOnce, [E!Next]_E!vars
               PROVE  AtMostOnce'
    OBVIOUS
  <2>1. PICK q, r, q1, r1 : /\ q = functors \o pending /\ r = ran
                            /\ q1 = (functors \o pending)' /\ r1 = ran'
    OBVIOUS
  <2>2. q \in Seq(Tasks) /\ r \in Seq(Tasks)
    BY <2>1 DEF LoopInv, TypeOK
  <2>3. Once(q, r)
    BY <2>1 DEF AtMostOnce, E!AtMostOnce, Once
  <2>4. SUFFICES Once(q1, r1)
    BY <2>1 DEF AtMostOnce, E!AtMostOnce, Once
  <2>5. CASE E!Next
    <3>1. \/ \E t \in Tasks : /\ \A i \in 1..Len(q) : q[i] # t
                              /\ \A i \in 1..Len(r) : r[i] # t
                              /\ \/ q1 = Append(q, t) /\ r1 = r
                                 \/ q1 = q /\ r1 = Append(r, t)
          \/ q # << >> /\ q1 = Tail(q) /\ r1 = Append(r, Head(q))
          \/ q1 = q /\ r1 = r
      BY <2>1, <2>5 DEF E!Next, E!Post, E!Inline, E!Execute, E!Close, E!Fresh
    <3> QED
      BY <2>2, <2>3, <3>1, OnceKept
  <2>6. CASE UNCHANGED E!vars
    BY <2>1, <2>3, <2>6 DEF E!vars
  <2> QED
    BY <2>5, <2>6
<1> QED
  BY <1>1, <1>2, ImplementsExecutor, LoopInvariant, PTL DEF ExecutorSpec, E!Spec

-----------------------------------------------------------------------------
\* The loop inside EventLoopThread.

\* Whatever the owner and threadFunc do to the loop, they do through the
\* operations of EventLoop: its theorems hold of the composed system.
THEOREM ThreadImplementsLoop == ThreadSpec => Spec
<1>1. ThreadInit => Init
  BY DEF ThreadInit
<1>2. [ThreadNext]_allVars => [Next]_vars
  <2> SUFFICES ASSUME [ThreadNext]_allVars
               PROVE  [Next]_vars
    OBVIOUS
  <2> USE OwnerAssumption
  <2>1. ASSUME NEW t \in OwnerTasks, OwnerQueues(t)
        PROVE  Next
    BY <2>1 DEF OwnerQueues, Next, Other
  <2>2. CASE OwnerWakes \/ DestroyQuit \/ DestroyWakeup
    BY <2>2 DEF OwnerWakes, DestroyQuit, DestroyWakeup, Next, Other
  <2>3. CASE RunLoop
    BY <2>3 DEF RunLoop, Next
  <2>4. CASE RunCallback
    BY <2>4 DEF RunCallback, Next, Callback
  <2>5. CASE StartLoop \/ StartLoopReturns \/ Destroy \/ DestroyJoin
    BY <2>5 DEF StartLoop, StartLoopReturns, Destroy, DestroyJoin
  <2>6. CASE Publish \/ LoopReturns \/ Clear \/ DestroyLoop
    BY <2>6 DEF Publish, LoopReturns, Clear, DestroyLoop
  <2>7. CASE UNCHANGED allVars
    BY <2>7 DEF allVars
  <2> QED
    BY <2>1, <2>2, <2>3, <2>4, <2>5, <2>6, <2>7
       DEF ThreadNext, OwnerNext, ChildNext
<1> QED
  BY <1>1, <1>2, PTL DEF ThreadSpec, Spec

\* What a callback of the owner's that sits in a queue survives.
LEMMA IsInAppend ==
  ASSUME NEW s \in Seq(Tasks), NEW t \in Tasks, NEW u \in Tasks, u # t, ~IsIn(u, s)
  PROVE  ~IsIn(u, Append(s, t))
  BY DEF IsIn

\* The child's calls of EventLoop keep DrainInv: only the final drain, entered
\* by quit_ (or, with selfExit, by a callback or an error), leads out of loop().
LEMMA ChildKeepsDrain ==
  ASSUME LoopInv, DrainInv, RunLoop \/ RunCallback
  PROVE  DrainInv'
<1>1. TypeOK /\ UNCHANGED threadVars /\ child # "none"
  BY DEF LoopInv, RunLoop, RunCallback
<1>2. pc # "done" /\ child \notin {"clear", "unwind", "exited"}
  BY DEF RunLoop, RunCallback, Loop, EnterLoop, While, EpollReturn, EpollInterrupted,
         EpollFailed, HandleWakeup, HandleIo, DispatchDone, SwapPending, RunFunctor, EndPending,
         QuitFromLoop, QueueFromLoop, RunInLoop, InCallback
<1>3. CASE RunLoop
  <2> USE DEF DrainInv, threadVars
  <2>1. CASE EnterLoop \/ While
    BY <1>1, <1>2, <2>1 DEF EnterLoop, While
  <2>2. CASE EpollInterrupted \/ EpollFailed
    BY <1>1, <1>2, <1>3, <2>2 DEF EpollInterrupted, EpollFailed, RunLoop
  <2>3. ASSUME NEW ev \in SUBSET {"wakeup", "io"}, EpollReturn(ev)
        PROVE  DrainInv'
    BY <1>1, <1>2, <2>3 DEF EpollReturn
  <2>4. CASE HandleWakeup \/ HandleIo \/ DispatchDone
    BY <1>1, <1>2, <2>4 DEF HandleWakeup, HandleIo, DispatchDone
  <2>5. CASE SwapPending
    BY <1>1, <1>2, <2>5 DEF SwapPending, IsIn
  <2>6. CASE RunFunctor
    BY <1>1, <1>2, <2>6 DEF RunFunctor
  <2>7. CASE EndPending
    BY <1>1, <1>2, <2>7 DEF EndPending
  <2> QED
    BY <1>3, <2>1, <2>2, <2>3, <2>4, <2>5, <2>6, <2>7 DEF RunLoop, Loop
<1>4. CASE RunCallback
  <2>1. CASE selfExit /\ QuitFromLoop
    BY <1>1, <1>2, <2>1 DEF QuitFromLoop, DrainInv, threadVars
  <2>2. ASSUME NEW t \in Tasks \ OwnerTasks, QueueFromLoop(t)
        PROVE  DrainInv'
    <3>1. \A u \in OwnerTasks : ~IsIn(u, pending) => ~IsIn(u, pending')
      BY <1>1, <2>2, IsInAppend, OwnerAssumption DEF QueueFromLoop, TypeOK
    <3> QED
      BY <1>1, <1>2, <2>2, <3>1 DEF QueueFromLoop, DrainInv, threadVars
  <2>3. ASSUME NEW t \in Tasks \ OwnerTasks, RunInLoop(t)
        PROVE  DrainInv'
    BY <1>1, <1>2, <2>3 DEF RunInLoop, DrainInv, threadVars
  <2> QED
    BY <1>4, <2>1, <2>2, <2>3 DEF RunCallback
<1> QED
  BY <1>3, <1>4

\* So do the owner's, and the steps of both that leave the loop alone.
LEMMA OwnerKeepsDrain ==
  ASSUME DrainInv, PointerInv, OwnerNext
  PROVE  DrainInv'
<1> USE DEF DrainInv, PointerInv
<1>1. CASE StartLoop \/ StartLoopReturns \/ Destroy \/ DestroyJoin
  BY <1>1 DEF StartLoop, StartLoopReturns, Destroy, DestroyJoin, vars, IsIn
<1>2. ASSUME NEW t \in OwnerTasks, OwnerQueues(t)
      PROVE  DrainInv'
  BY <1>2 DEF OwnerQueues, QueueInLoop, threadVars
<1>3. CASE OwnerWakes
  BY <1>3 DEF OwnerWakes, Wakeup, threadVars, IsIn
<1>4. CASE DestroyQuit \/ DestroyWakeup
  BY <1>4 DEF DestroyQuit, Quit, DestroyWakeup, Wakeup, IsIn
<1> QED
  BY <1>1, <1>2, <1>3, <1>4 DEF OwnerNext

\* loop_ never dangles and the destructor outlives the child, whatever the
\* interleaving of startLoop, threadFunc and the destructor.  The invariant
\* relates the owner's place to the child's; the loop's own part is
\* EventLoop's theorem, through the implementation above.
THEOREM NeverDangling == ThreadSpec => []ThreadInv
<1> DEFINE Places == /\ owner \in {"idle", "waiting", "started", "quit",
                                   "wakeup", "join", "gone", "terminated"}
                     /\ child \in {"none", "callback", "loop", "clear",
                                   "unwind", "exited"}
           Flags == loopPtr \in BOOLEAN /\ selfExit \in BOOLEAN
           I == Places /\ PointerInv /\ NoDangling
<1>1. ThreadInit => I /\ Flags
  BY DEF ThreadInit, PointerInv, NoDangling
<1>2. I /\ [ThreadNext]_allVars => I'
  <2> SUFFICES ASSUME I, [ThreadNext]_allVars
               PROVE  I'
    OBVIOUS
  <2> USE DEF PointerInv, NoDangling
  <2>1. CASE UNCHANGED threadVars
    BY <2>1 DEF threadVars
  <2>2. CASE StartLoop \/ StartLoopReturns
    BY <2>2 DEF StartLoop, StartLoopReturns
  <2>3. CASE Destroy
    BY <2>3 DEF Destroy
  <2>4. CASE DestroyQuit \/ DestroyWakeup \/ DestroyJoin
    BY <2>4 DEF DestroyQuit, DestroyWakeup, DestroyJoin
  <2>5. CASE Publish \/ LoopReturns \/ Clear \/ DestroyLoop
    BY <2>5 DEF Publish, LoopReturns, Clear, DestroyLoop
  <2>6. CASE UNCHANGED allVars
    BY <2>1, <2>6 DEF allVars
  <2> QED
    BY <2>1, <2>2, <2>3, <2>4, <2>5, <2>6
       DEF ThreadNext, OwnerNext, ChildNext, OwnerQueues, OwnerWakes, RunLoop,
           RunCallback
<1>3. Flags /\ [ThreadNext]_allVars => Flags'
  <2> SUFFICES ASSUME Flags, [ThreadNext]_allVars
               PROVE  Flags'
    OBVIOUS
  <2>1. selfExit' = selfExit /\ loopPtr' \in {loopPtr, TRUE, FALSE}
    BY DEF ThreadNext, OwnerNext, ChildNext, StartLoop, StartLoopReturns,
           OwnerQueues, OwnerWakes, Destroy, DestroyQuit, DestroyWakeup,
           DestroyJoin, Publish, RunLoop, RunCallback, LoopReturns, Clear,
           DestroyLoop, threadVars, allVars
  <2> QED
    BY <2>1, Zenon
<1>4. I /\ Flags /\ LoopInv /\ DrainInv => ThreadInv
  BY DEF ThreadInv, ThreadTypeOK, LoopInv
<1>5. ThreadInit => DrainInv
  BY DEF ThreadInit, Init, DrainInv, IsIn
<1>6. I /\ LoopInv /\ DrainInv /\ [ThreadNext]_allVars => DrainInv'
  <2> SUFFICES ASSUME I, LoopInv, DrainInv, [ThreadNext]_allVars
               PROVE  DrainInv'
    OBVIOUS
  <2>1. CASE OwnerNext
    BY <2>1, OwnerKeepsDrain
  <2>2. CASE RunLoop \/ RunCallback
    BY <2>2, ChildKeepsDrain
  <2>3. CASE Publish \/ LoopReturns \/ Clear \/ DestroyLoop
    BY <2>3 DEF Publish, LoopReturns, Clear, DestroyLoop, DrainInv, vars, IsIn
  <2>4. CASE UNCHANGED allVars
    BY <2>4 DEF DrainInv, allVars, vars, threadVars, IsIn
  <2> QED
    BY <2>1, <2>2, <2>3, <2>4 DEF ThreadNext, ChildNext
<1> QED
  BY <1>1, <1>2, <1>3, <1>4, <1>5, <1>6, ThreadImplementsLoop, LoopInvariant, PTL
     DEF ThreadSpec

\* By the time ~EventLoopThread returns, every callback its owner has queued has
\* run, for any number of them and any race of the posts and of quit() with the
\* loop, as long as nothing but the destructor ends the loop.
THEOREM OwnerTasksAreRun == ThreadSpec => []OwnerTasksRun
<1>1. LoopInv /\ ThreadInv => OwnerTasksRun
  <2> SUFFICES ASSUME LoopInv, ThreadInv, owner = "gone", ~selfExit, NEW t \in OwnerTasks
               PROVE  Fresh(t) \/ IsIn(t, ran)
    BY DEF OwnerTasksRun
  <2>1. CASE child = "none"
    BY <2>1 DEF ThreadInv, DrainInv, Fresh, IsIn
  <2>2. CASE child = "exited"
    <3>1. pc = "done" /\ ~IsIn(t, pending)
      BY <2>2 DEF ThreadInv, DrainInv
    <3>2. functors = << >>
      BY <3>1 DEF LoopInv, BatchInv
    <3> QED
      BY <3>1, <3>2 DEF Fresh, IsIn
  <2> QED
    BY <2>1, <2>2 DEF ThreadInv, NoDangling
<1> QED
  BY <1>1, NeverDangling, ThreadImplementsLoop, LoopInvariant, PTL

\* No wake-up is lost in the composed system either.
THEOREM ThreadWakeupNeverLost == ThreadSpec => []NoLostWakeup
  BY ThreadImplementsLoop, WakeupNeverLost, PTL
=============================================================================
