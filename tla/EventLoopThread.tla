-------------------------- MODULE EventLoopThread --------------------------
(***************************************************************************)
(* reactor/EventLoopThread: an owner thread starts a child thread with     *)
(* startLoop(), uses the EventLoop that the child keeps on its stack, and  *)
(* stops it in the destructor.  The loop itself is EventLoop.tla, its      *)
(* steps taken only while the child is inside loop().                      *)
(***************************************************************************)
EXTENDS EventLoop

CONSTANTS
  Owner,                  \* the thread that holds the EventLoopThread
  OwnerTasks              \* the callbacks the owner posts; the others are
                          \* queued by callbacks on the loop

ASSUME OwnerAssumption == Owner \in Threads /\ OwnerTasks \subseteq Tasks

VARIABLES
  owner,                  \* where the owner is; "gone": destructor returned,
                          \* "terminated": the process is dead
  child,                  \* where threadFunc is; "exited": EventLoop destroyed
  loopPtr,                \* loop_ # nullptr
  selfExit                \* may loop() end without the owner's quit() (a
                          \* callback quits, epoll_wait fails)?  Never changes.

threadVars == <<owner, child, loopPtr, selfExit>>
allVars == <<vars, threadVars>>

ThreadTypeOK ==
  /\ TypeOK
  /\ owner \in {"idle", "waiting", "started", "quit", "wakeup", "join", "gone",
                "terminated"}
  /\ child \in {"none", "callback", "loop", "clear", "unwind", "exited"}
  /\ loopPtr \in BOOLEAN
  /\ selfExit \in BOOLEAN

ThreadInit ==
  /\ Init
  /\ owner = "idle"
  /\ child = "none"
  /\ loopPtr = FALSE
  /\ selfExit \in BOOLEAN

-----------------------------------------------------------------------------
\* The owner.

\* startLoop: create the thread (which constructs its EventLoop) and wait.
StartLoop ==
  /\ owner = "idle"
  /\ owner' = "waiting"
  /\ child' = "callback"
  /\ UNCHANGED <<vars, loopPtr, selfExit>>

\* The wait's predicate loop_ != nullptr holds under mutex_.
StartLoopReturns ==
  /\ owner = "waiting"
  /\ loopPtr
  /\ owner' = "started"
  /\ UNCHANGED <<vars, child, loopPtr, selfExit>>

\* The owner uses the loop it was given.
OwnerQueues(t) ==
  /\ owner = "started"
  /\ QueueInLoop(Owner, t)
  /\ UNCHANGED threadVars

OwnerWakes ==
  /\ owner = "started"
  /\ Wakeup(Owner)
  /\ UNCHANGED threadVars

\* ~EventLoopThread reads loop_ without mutex_.  With nullptr it skips quit
\* and join, and the member thread_ is destroyed while still joinable if it
\* was ever started: std::terminate.
Destroy ==
  /\ owner \in {"idle", "started"}
  /\ caller[Owner] = "idle"
  /\ owner' = CASE loopPtr -> "quit"
                [] ~loopPtr /\ owner = "idle" -> "gone"
                [] OTHER -> "terminated"
  /\ UNCHANGED <<vars, child, loopPtr, selfExit>>

\* loop_->quit(), first half: quit_ = true.
DestroyQuit ==
  /\ owner = "quit"
  /\ Quit(Owner)
  /\ owner' = "wakeup"
  /\ UNCHANGED <<child, loopPtr, selfExit>>

MutantDestroyNoWakeup ==
  /\ owner = "wakeup"
  /\ caller' = [caller EXCEPT ![Owner] = "idle"]
  /\ owner' = "join"
  /\ UNCHANGED <<pc, quit, calling, pending, functors, wakeupFd, active,
                 exiting, early, ran, child, loopPtr, selfExit>>

MutantDestroyNoJoin ==
  /\ owner = "wakeup"
  /\ Wakeup(Owner)
  /\ owner' = "gone"
  /\ UNCHANGED <<child, loopPtr, selfExit>>

\* loop_->quit(), second half: the eventfd write.  On a loop that is already
\* destroyed it reads a dead stack frame: it goes through, or it crashes.
DestroyWakeup ==
  /\ owner = "wakeup"
  /\ Wakeup(Owner)
  /\ \/ owner' = "join"
     \/ child = "exited" /\ owner' = "terminated"
  /\ UNCHANGED <<child, loopPtr, selfExit>>

DestroyJoin ==
  /\ owner = "join"
  /\ child = "exited"
  /\ owner' = "gone"
  /\ UNCHANGED <<vars, child, loopPtr, selfExit>>

-----------------------------------------------------------------------------
\* The child: threadFunc.

\* callback_ has returned; loop_ is set and the owner notified under mutex_.
Publish ==
  /\ child = "callback"
  /\ child' = "loop"
  /\ loopPtr' = TRUE
  /\ UNCHANGED <<vars, owner, selfExit>>

\* A step of loop().
RunLoop ==
  /\ child = "loop"
  /\ Loop
  /\ EpollFailed => selfExit
  /\ UNCHANGED threadVars

\* What callback_, event handlers and functors do with their own loop.
RunCallback ==
  /\ child = "callback" \/ (child = "loop" /\ pc # "created")
  /\ \/ selfExit /\ QuitFromLoop
     \/ \E t \in Tasks \ OwnerTasks : QueueFromLoop(t) \/ RunInLoop(t)
  /\ UNCHANGED threadVars

LoopReturns ==
  /\ child = "loop"
  /\ pc = "done"
  /\ child' = "clear"
  /\ UNCHANGED <<vars, owner, loopPtr, selfExit>>

\* loop_ = nullptr under mutex_.
Clear ==
  /\ child = "clear"
  /\ loopPtr' = FALSE
  /\ child' = "unwind"
  /\ UNCHANGED <<vars, owner, selfExit>>

\* threadFunc returns: the EventLoop on its stack is destroyed (unless
\* std::terminate has ended the process).
DestroyLoop ==
  /\ owner # "terminated"
  /\ child = "unwind"
  /\ child' = "exited"
  /\ UNCHANGED <<vars, owner, loopPtr, selfExit>>

-----------------------------------------------------------------------------
OwnerNext ==
  \/ StartLoop
  \/ StartLoopReturns
  \/ \E t \in OwnerTasks : OwnerQueues(t)
  \/ OwnerWakes
  \/ Destroy
  \/ DestroyQuit
  \/ DestroyWakeup
  \/ DestroyJoin

ChildNext ==
  \/ Publish
  \/ RunLoop
  \/ RunCallback
  \/ LoopReturns
  \/ Clear
  \/ DestroyLoop

ThreadNext == OwnerNext \/ ChildNext

ThreadSpec == ThreadInit /\ [][ThreadNext]_allVars

\* Both threads are scheduled; the owner finishes the calls it has begun and
\* is free in what else it does.
ThreadFairness ==
  /\ WF_allVars(StartLoopReturns \/ OwnerWakes \/ DestroyQuit
                  \/ DestroyWakeup \/ DestroyJoin)
  /\ WF_allVars(Publish \/ LoopReturns \/ Clear \/ DestroyLoop)
  /\ WF_allVars(child = "loop" /\ Progress /\ UNCHANGED threadVars)

ThreadFairSpec == ThreadSpec /\ ThreadFairness

-----------------------------------------------------------------------------
\* loop_ is set exactly while the child is between Publish and Clear, and a
\* child exists as soon as the owner is past StartLoop.
PointerInv ==
  /\ loopPtr <=> child \in {"loop", "clear"}
  /\ owner = "idle" => child = "none"
  /\ owner \in {"waiting", "started", "quit", "wakeup", "join"} => child # "none"

\* loop_ never points to a destroyed EventLoop, and once the destructor has
\* returned the thread that uses the members of the EventLoopThread is over.
NoDangling ==
  /\ child = "exited" => ~loopPtr
  /\ owner = "gone" => child \in {"none", "exited"}

\* The way to the last drain: the child leaves loop() only through it, nobody
\* but the destructor starts it unless selfExit, and once it has swapped the
\* queue the owner posts nothing more.
DrainInv ==
  /\ child = "none" => pending = << >> /\ functors = << >> /\ ran = << >>
  /\ child \in {"clear", "unwind", "exited"} => pc = "done"
  /\ exiting => pc \in {"doPending", "run", "done"}
  /\ pc = "done" => exiting
  /\ ~selfExit /\ (quit \/ exiting) => owner \in {"wakeup", "join", "gone", "terminated"}
  /\ ~selfExit /\ exiting /\ pc \in {"run", "done"} =>
       \A t \in OwnerTasks : ~IsIn(t, pending)

\* The inductive invariant behind NoDangling and OwnerTasksRun.
ThreadInv == ThreadTypeOK /\ PointerInv /\ NoDangling /\ DrainInv

\* Every callback the owner queued is executed by the time its destructor
\* returns, however the quit request and the posts race with the loop, as long
\* as nobody else ends the loop.
OwnerTasksRun ==
  owner = "gone" /\ ~selfExit => \A t \in OwnerTasks : Fresh(t) \/ IsIn(t, ran)

\* The destructor of a thread whose loop() has been entered never hangs in
\* join (it may crash on the way, see DestroyWakeup).
EnteredLoopIsJoined ==
  (owner = "quit" /\ pc # "created") ~> (owner \in {"gone", "terminated"})

-----------------------------------------------------------------------------
\* What comments of the code say and the code does not do.

\* EventLoopThread.cpp: the destructor makes loop() return and waits for
\* threadFunc to exit.
DestructorReturns == owner = "join" ~> owner = "gone"
=============================================================================
