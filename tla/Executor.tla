------------------------------ MODULE Executor ------------------------------
(***************************************************************************)
(* What an EventLoop promises to the code that hands it callbacks, without *)
(* epoll, eventfd, locks or batches: a queue of tasks that are executed in *)
(* the order in which they were accepted, each at most once, until the     *)
(* executor is closed.  EventLoop.tla implements this specification.       *)
(***************************************************************************)
EXTENDS Naturals, Sequences

CONSTANT Tasks            \* the callbacks; each is handed over at most once

VARIABLES
  queue,                  \* tasks accepted and not yet executed
  ran,                    \* history: tasks executed, in order
  open                    \* FALSE once the executor executes nothing more

vars == <<queue, ran, open>>

TypeOK ==
  /\ queue \in Seq(Tasks)
  /\ ran \in Seq(Tasks)
  /\ open \in BOOLEAN

\* t was neither accepted nor executed so far.
Fresh(t) ==
  /\ \A i \in 1..Len(queue) : queue[i] # t
  /\ \A i \in 1..Len(ran) : ran[i] # t

Init ==
  /\ queue = << >>
  /\ ran = << >>
  /\ open = TRUE

\* Anyone may hand over a task, even when nothing will execute it any more.
Post(t) ==
  /\ Fresh(t)
  /\ queue' = Append(queue, t)
  /\ UNCHANGED <<ran, open>>

\* The executor completes the oldest task.
Execute ==
  /\ open
  /\ queue # << >>
  /\ ran' = Append(ran, Head(queue))
  /\ queue' = Tail(queue)
  /\ UNCHANGED open

\* A caller on the executor's own thread runs a task without queueing it.
Inline(t) ==
  /\ open
  /\ Fresh(t)
  /\ ran' = Append(ran, t)
  /\ UNCHANGED <<queue, open>>

Close ==
  /\ open
  /\ open' = FALSE
  /\ UNCHANGED <<queue, ran>>

Next ==
  \/ \E t \in Tasks : Post(t) \/ Inline(t)
  \/ Execute
  \/ Close

Spec == Init /\ [][Next]_vars

\* No task is executed twice, and an executed task is not waiting for another
\* execution.
AtMostOnce ==
  /\ \A i, j \in 1..Len(ran) : ran[i] = ran[j] => i = j
  /\ \A i, j \in 1..Len(queue) : queue[i] = queue[j] => i = j
  /\ \A i \in 1..Len(ran), j \in 1..Len(queue) : ran[i] # queue[j]
=============================================================================
