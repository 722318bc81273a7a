----------------------------- MODULE EventLoop -----------------------------
(***************************************************************************)
(* reactor/EventLoop: one thread runs loop(); any thread may hand it       *)
(* callbacks with queueInLoop()/runInLoop() or stop it with quit().        *)
(*                                                                         *)
(* The eventfd counter is abstracted to "non-zero", the only thing epoll   *)
(* and read() tell apart.  All descriptors other than the eventfd are one  *)
(* event "io" that may become ready at any time.  A push under mutex_ and  *)
(* the eventfd write that follows it are two steps of the calling thread.  *)
(***************************************************************************)
EXTENDS Naturals, Sequences

CONSTANTS
  Tasks,                  \* the callbacks handed to the loop, each at most once
  Threads                 \* threads (or signal handlers) other than the loop's

VARIABLES
  pc,                     \* where the loop thread is
  quit,                   \* quit_
  calling,                \* callingPendingFunctors_
  pending,                \* pendingFunctors_
  functors,               \* the batch swapped out by doPendingFunctors; its
                          \* head is the callback being executed
  wakeupFd,               \* eventfd counter # 0
  active,                 \* events of the last epoll_wait still to dispatch
  exiting,                \* TRUE from leaving the while on: final drain
  caller,                 \* per thread: "wakeup" between push/store and write
  early,                  \* history: queued by the loop thread before loop()
                          \* and not yet swapped out
  ran                     \* history: callbacks executed, in order

vars == <<pc, quit, calling, pending, functors, wakeupFd, active, exiting,
          caller, early, ran>>

TypeOK ==
  /\ pc \in {"created", "while", "epoll_wait", "dispatch", "doPending",
             "run", "done"}
  /\ quit \in BOOLEAN
  /\ calling \in BOOLEAN
  /\ pending \in Seq(Tasks)
  /\ functors \in Seq(Tasks)
  /\ wakeupFd \in BOOLEAN
  /\ active \in SUBSET {"wakeup", "io"}
  /\ exiting \in BOOLEAN
  /\ caller \in [Threads -> {"idle", "wakeup"}]
  /\ early \in BOOLEAN
  /\ ran \in Seq(Tasks)

Init ==
  /\ pc = "created"
  /\ quit = FALSE
  /\ calling = FALSE
  /\ pending = << >>
  /\ functors = << >>
  /\ wakeupFd = FALSE
  /\ active = {}
  /\ exiting = FALSE
  /\ caller = [th \in Threads |-> "idle"]
  /\ early = FALSE
  /\ ran = << >>

IsIn(t, s) == \E i \in 1..Len(s) : s[i] = t

Fresh(t) == ~IsIn(t, pending) /\ ~IsIn(t, functors) /\ ~IsIn(t, ran)

-----------------------------------------------------------------------------
\* The loop thread: loop() and what it calls.

\* loop() starts by clearing quit_.
EnterLoop ==
  /\ pc = "created"
  /\ quit' = FALSE
  /\ pc' = "while"
  /\ UNCHANGED <<calling, pending, functors, wakeupFd, active, exiting,
                 caller, early, ran>>

MutantWhileNoDrain ==
  /\ pc = "while"
  /\ pc' = IF quit THEN "done" ELSE "epoll_wait"
  /\ UNCHANGED <<quit, calling, pending, functors, wakeupFd, active, exiting,
                 caller, early, ran>>

\* The while condition; leaving the loop leads to one more drain.
While ==
  /\ pc = "while"
  /\ IF quit THEN pc' = "doPending" /\ exiting' = TRUE
             ELSE pc' = "epoll_wait" /\ UNCHANGED exiting
  /\ UNCHANGED <<quit, calling, pending, functors, wakeupFd, active, caller,
                 early, ran>>

\* epoll_wait returns a non-empty set of ready descriptors.
EpollReturn(ev) ==
  /\ pc = "epoll_wait"
  /\ ev # {}
  /\ "wakeup" \in ev => wakeupFd
  /\ active' = ev
  /\ pc' = "dispatch"
  /\ UNCHANGED <<quit, calling, pending, functors, wakeupFd, exiting, caller,
                 early, ran>>

\* EINTR: the pending callbacks run before the while condition is looked at.
EpollInterrupted ==
  /\ pc = "epoll_wait"
  /\ pc' = "doPending"
  /\ UNCHANGED <<quit, calling, pending, functors, wakeupFd, active, exiting,
                 caller, early, ran>>

\* Any other error leaves the while loop.
EpollFailed ==
  /\ pc = "epoll_wait"
  /\ pc' = "doPending"
  /\ exiting' = TRUE
  /\ UNCHANGED <<quit, calling, pending, functors, wakeupFd, active, caller,
                 early, ran>>

\* The dispatch of the eventfd's Channel: read() resets the counter.
HandleWakeup ==
  /\ pc = "dispatch"
  /\ "wakeup" \in active
  /\ active' = active \ {"wakeup"}
  /\ wakeupFd' = FALSE
  /\ UNCHANGED <<pc, quit, calling, pending, functors, exiting, caller, early,
                 ran>>

\* The handlers of all other ready descriptors have returned.
HandleIo ==
  /\ pc = "dispatch"
  /\ "io" \in active
  /\ active' = active \ {"io"}
  /\ UNCHANGED <<pc, quit, calling, pending, functors, wakeupFd, exiting,
                 caller, early, ran>>

DispatchDone ==
  /\ pc = "dispatch"
  /\ active = {}
  /\ pc' = "doPending"
  /\ UNCHANGED <<quit, calling, pending, functors, wakeupFd, active, exiting,
                 caller, early, ran>>

\* doPendingFunctors up to the swap under mutex_.
SwapPending ==
  /\ pc = "doPending"
  /\ calling' = TRUE
  /\ functors' = pending
  /\ pending' = << >>
  /\ early' = FALSE
  /\ pc' = "run"
  /\ UNCHANGED <<quit, wakeupFd, active, exiting, caller, ran>>

\* The callback at the head of the batch returns.
RunFunctor ==
  /\ pc = "run"
  /\ functors # << >>
  /\ ran' = Append(ran, Head(functors))
  /\ functors' = Tail(functors)
  /\ UNCHANGED <<pc, quit, calling, pending, wakeupFd, active, exiting, caller,
                 early>>

\* The batch is exhausted: back to the while, or out of loop().
EndPending ==
  /\ pc = "run"
  /\ functors = << >>
  /\ calling' = FALSE
  /\ pc' = IF exiting THEN "done" ELSE "while"
  /\ UNCHANGED <<quit, pending, functors, wakeupFd, active, exiting, caller,
                 early, ran>>

-----------------------------------------------------------------------------
\* Calls made on the loop thread: before loop(), by an event handler, or by a
\* callback of the batch.
InCallback ==
  \/ pc = "created"
  \/ pc = "dispatch" /\ "io" \in active
  \/ pc = "run" /\ functors # << >>

MutantQueueNeverWakes(t) ==
  /\ InCallback
  /\ Fresh(t)
  /\ pending' = Append(pending, t)
  /\ early' = (early \/ pc = "created")
  /\ UNCHANGED <<pc, quit, calling, functors, wakeupFd, active, exiting,
                 caller, ran>>

\* queueInLoop on the loop thread writes the eventfd only while
\* callingPendingFunctors_ is set.
QueueFromLoop(t) ==
  /\ InCallback
  /\ Fresh(t)
  /\ pending' = Append(pending, t)
  /\ wakeupFd' = (wakeupFd \/ calling)
  /\ early' = (early \/ pc = "created")
  /\ UNCHANGED <<pc, quit, calling, functors, active, exiting, caller, ran>>

\* runInLoop on the loop thread calls cb() at once.
RunInLoop(t) ==
  /\ InCallback
  /\ Fresh(t)
  /\ ran' = Append(ran, t)
  /\ UNCHANGED <<pc, quit, calling, pending, functors, wakeupFd, active,
                 exiting, caller, early>>

\* quit() on the loop thread.
QuitFromLoop ==
  /\ InCallback
  /\ quit' = TRUE
  /\ wakeupFd' = TRUE
  /\ UNCHANGED <<pc, calling, pending, functors, active, exiting, caller,
                 early, ran>>

-----------------------------------------------------------------------------
\* Calls made by other threads.

MutantQueueUnlessCalling(th, t) ==
  /\ caller[th] = "idle"
  /\ Fresh(t)
  /\ pending' = Append(pending, t)
  /\ caller' = [caller EXCEPT ![th] = IF calling THEN "idle" ELSE "wakeup"]
  /\ UNCHANGED <<pc, quit, calling, functors, wakeupFd, active, exiting, early,
                 ran>>

MutantQueueLifo(th, t) ==
  /\ caller[th] = "idle"
  /\ Fresh(t)
  /\ pending' = <<t>> \o pending
  /\ caller' = [caller EXCEPT ![th] = "wakeup"]
  /\ UNCHANGED <<pc, quit, calling, functors, wakeupFd, active, exiting, early,
                 ran>>

\* queueInLoop, or runInLoop, by another thread: the push under mutex_.
QueueInLoop(th, t) ==
  /\ caller[th] = "idle"
  /\ Fresh(t)
  /\ pending' = Append(pending, t)
  /\ caller' = [caller EXCEPT ![th] = "wakeup"]
  /\ UNCHANGED <<pc, quit, calling, functors, wakeupFd, active, exiting, early,
                 ran>>

MutantQuitSilently(th) ==
  /\ caller[th] = "idle"
  /\ quit' = TRUE
  /\ UNCHANGED <<pc, calling, pending, functors, wakeupFd, active, exiting,
                 caller, early, ran>>

\* quit() by another thread: the store to quit_.
Quit(th) ==
  /\ caller[th] = "idle"
  /\ quit' = TRUE
  /\ caller' = [caller EXCEPT ![th] = "wakeup"]
  /\ UNCHANGED <<pc, calling, pending, functors, wakeupFd, active, exiting,
                 early, ran>>

\* wakeup(): the write to the eventfd that ends queueInLoop and quit.
Wakeup(th) ==
  /\ caller[th] = "wakeup"
  /\ wakeupFd' = TRUE
  /\ caller' = [caller EXCEPT ![th] = "idle"]
  /\ UNCHANGED <<pc, quit, calling, pending, functors, active, exiting, early,
                 ran>>

-----------------------------------------------------------------------------
\* loop() and what it calls, without what the callbacks do in it.
Loop ==
  \/ EnterLoop
  \/ While
  \/ \E ev \in SUBSET {"wakeup", "io"} : EpollReturn(ev)
  \/ EpollInterrupted
  \/ EpollFailed
  \/ HandleWakeup
  \/ HandleIo
  \/ DispatchDone
  \/ SwapPending
  \/ RunFunctor
  \/ EndPending

Callback == QuitFromLoop \/ \E t \in Tasks : QueueFromLoop(t) \/ RunInLoop(t)

Other(th) == Quit(th) \/ Wakeup(th) \/ \E t \in Tasks : QueueInLoop(th, t)

Next == Loop \/ Callback \/ \E th \in Threads : Other(th)

Spec == Init /\ [][Next]_vars

\* The loop thread is scheduled, epoll_wait returns when the eventfd is
\* readable, callbacks return, and a thread inside queueInLoop or quit goes on
\* to write the eventfd.  Nobody is obliged to post, to quit or to send data.
Progress ==
  \/ EnterLoop
  \/ While
  \/ wakeupFd /\ \E ev \in SUBSET {"wakeup", "io"} : EpollReturn(ev)
  \/ HandleWakeup
  \/ HandleIo
  \/ DispatchDone
  \/ SwapPending
  \/ RunFunctor
  \/ EndPending

Fairness ==
  /\ WF_vars(Progress)
  /\ \A th \in Threads : WF_vars(Wakeup(th))

FairSpec == Spec /\ Fairness

-----------------------------------------------------------------------------
\* A thread is between its push (or quit_ store) and its eventfd write.
InFlight == \E th \in Threads : caller[th] = "wakeup"

\* The loop never sleeps in epoll_wait over a callback that was handed to it,
\* unless the writer of the wake-up is on its way, or the callback was queued
\* by the loop thread itself before loop() (queueInLoop's wake-up condition).
NoLostWakeup ==
  pc = "epoll_wait" /\ pending # << >> => wakeupFd \/ InFlight \/ early

\* The loop never sleeps in epoll_wait over a quit request.
NoSleepOverQuit ==
  pc = "epoll_wait" /\ quit => wakeupFd \/ InFlight

\* A batch exists only inside doPendingFunctors, which is when
\* callingPendingFunctors_ is set.
BatchInv == (calling <=> pc = "run") /\ (functors # << >> => pc = "run")

\* A callback that waits while the loop thread is on its way to epoll_wait
\* comes with a readable eventfd, a writer on its way, or was queued early.
WakeInv ==
  pc \in {"created", "while", "epoll_wait", "run"} /\ pending # << >>
    => wakeupFd \/ InFlight \/ early

\* The inductive invariant behind NoLostWakeup and NoSleepOverQuit: the
\* wake-up of a callback survives every path from its push to epoll_wait.
LoopInv == TypeOK /\ BatchInv /\ WakeInv /\ NoSleepOverQuit

\* Every callback queued before the last swap of the loop is executed (the
\* EINTR drain and the final drain of loop()).
QueuedIsRun ==
  \A t \in Tasks :
    (/\ IsIn(t, pending)
     /\ ~early
     /\ ~(exiting /\ pc \in {"run", "done"})) ~> IsIn(t, ran)

\* quit() makes a running loop() return.
QuitEndsLoop == (quit /\ pc # "created") ~> (pc = "done")

\* The loop implements the executor: what it still has to execute is the rest
\* of its batch followed by pendingFunctors_.
E == INSTANCE Executor WITH
       queue <- functors \o pending,
       open <- (pc # "done")

ExecutorSpec == E!Spec

\* No callback runs twice, and none that ran is still queued.
AtMostOnce == E!AtMostOnce
=============================================================================
