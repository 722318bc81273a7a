----------------------------- MODULE TimerQueue -----------------------------
(***************************************************************************)
(* reactor/TimerQueue with Timer, EventLoop::runAt/runAfter/runEvery and   *)
(* the timerfd below it.  Everything runs on the loop thread; what is      *)
(* concurrent is the clock and the kernel, which fires the timerfd some    *)
(* time after the armed instant has passed, and the order in which the     *)
(* handlers and callbacks of one turn of the loop call addTimer.           *)
(*                                                                         *)
(* A Timer is its address; an address is reused once the Timer is deleted. *)
(***************************************************************************)
EXTENDS Naturals

CONSTANTS
  Addrs,                  \* addresses of Timer objects
  Whens,                  \* instants given to runAt
  Delays,                 \* delays and intervals given to runAfter/runEvery
  NsPerSec,               \* 10^9 in the code
  MaxTime                 \* bound: the clock stops here

ASSUME TimerAssumption ==
  /\ Addrs \subseteq Nat
  /\ Whens \subseteq Nat
  /\ Delays \subseteq Nat
  /\ NsPerSec \in Nat \ {0}
  /\ MaxTime \in Nat

VARIABLES
  now,                    \* steady_clock, CLOCK_MONOTONIC
  timers,                 \* timers_: entries <<expiration, Timer*>>
  expired,                \* the rest of handleRead's vector; the least entry
                          \* is the Timer whose callback runs
  live,                   \* Timer objects allocated and not deleted
  due,                    \* Timer::expiration_
  interval,               \* Timer::interval_ms_ (repeat_ is interval > 0)
  armed,                  \* the timerfd's expiry; 0: disarmed
  ticks,                  \* timerfd counter # 0: readable
  phase,                  \* "poll", "turn": handlers and callbacks of a turn,
                          \* "handleRead", "destroyed"
  reported                \* epoll_wait reported the timerfd this turn

heap == <<live, due, interval>>
timerfd == <<armed, ticks>>
vars == <<now, timers, expired, heap, timerfd, phase, reported>>

Entry == Nat \X Addrs

TypeOK ==
  /\ now \in Nat
  /\ timers \subseteq Entry
  /\ expired \subseteq Entry
  /\ live \subseteq Addrs
  /\ due \in [Addrs -> Nat]
  /\ interval \in [Addrs -> Nat]
  /\ armed \in Nat
  /\ ticks \in BOOLEAN
  /\ phase \in {"poll", "turn", "handleRead", "destroyed"}
  /\ reported \in BOOLEAN

\* The constructor; the first timers may be added before loop().
Init ==
  /\ now = 1
  /\ timers = {}
  /\ expired = {}
  /\ live = {}
  /\ due = [a \in Addrs |-> 0]
  /\ interval = [a \in Addrs |-> 0]
  /\ armed = 0
  /\ ticks = FALSE
  /\ phase = "turn"
  /\ reported = FALSE

-----------------------------------------------------------------------------
\* The kernel.

Tick ==
  /\ now < MaxTime
  /\ now' = now + 1
  /\ UNCHANGED <<timers, expired, heap, timerfd, phase, reported>>

\* The timer interrupt; an instant already past fires too, a little later.
TimerfdFires ==
  /\ armed # 0
  /\ armed <= now
  /\ ticks' = TRUE
  /\ armed' = 0
  /\ UNCHANGED <<now, timers, expired, heap, phase, reported>>

\* timerfd_settime(TFD_TIMER_ABSTIME): the old expirations are forgotten, and
\* the instant zero disarms.
Settime(spec) ==
  /\ armed' = spec.sec * NsPerSec + spec.nsec
  /\ ticks' = FALSE

-----------------------------------------------------------------------------
\* TimerQueue.

\* std::set orders the entries by expiration, then by the pointer.
Before(e, f) == e[1] < f[1] \/ (e[1] = f[1] /\ e[2] <= f[2])

Least(S) == CHOOSE e \in S : \A f \in S : Before(e, f)

TimePointToTimespec(t) == [sec |-> t \div NsPerSec, nsec |-> t % NsPerSec]

\* Arm for the first entry; an empty queue disarms.
ResetTimerfd(S) ==
  Settime(IF S = {} THEN [sec |-> 0, nsec |-> 0]
                    ELSE TimePointToTimespec(Least(S)[1]))

\* On the loop thread: a handler, a callback, or before loop().
OnLoop == phase \in {"turn", "handleRead"}

MutantAddNeverRearms(a, when, ms) ==
  /\ a \notin live
  /\ live' = live \cup {a}
  /\ due' = [due EXCEPT ![a] = when]
  /\ interval' = [interval EXCEPT ![a] = ms]
  /\ timers' = timers \cup {<<when, a>>}
  /\ IF timers = {} THEN ResetTimerfd(timers') ELSE UNCHANGED timerfd
  /\ UNCHANGED <<now, expired, phase, reported>>

\* new Timer and the insertion, which re-arms only for a new earliest expiry.
AddTimer(a, when, ms) ==
  /\ a \notin live
  /\ live' = live \cup {a}
  /\ due' = [due EXCEPT ![a] = when]
  /\ interval' = [interval EXCEPT ![a] = ms]
  /\ timers' = timers \cup {<<when, a>>}
  /\ IF timers = {} \/ when < Least(timers)[1]
       THEN ResetTimerfd(timers')
       ELSE UNCHANGED timerfd
  /\ UNCHANGED <<now, expired, phase, reported>>

RunAt(a, when) == OnLoop /\ AddTimer(a, when, 0)

RunAfter(a, delay) == OnLoop /\ AddTimer(a, now + delay, 0)

RunEvery(a, ms) == OnLoop /\ AddTimer(a, now + ms, ms)

\* The loop: epoll_wait returns, with the timerfd if it is readable.
EpollReturn ==
  /\ phase = "poll"
  /\ phase' = "turn"
  /\ reported' = ticks
  /\ UNCHANGED <<now, timers, expired, heap, timerfd>>

\* The timerfd was re-armed since epoll_wait reported it: read() fails and
\* handleRead returns.
HandleReadFails ==
  /\ phase = "turn"
  /\ reported
  /\ ~ticks
  /\ reported' = FALSE
  /\ UNCHANGED <<now, timers, expired, heap, timerfd, phase>>

\* getExpired: everything before <<now, nullptr>>.
GetExpired == {e \in timers : e[1] < now}

HandleRead ==
  /\ phase = "turn"
  /\ reported
  /\ ticks
  /\ ticks' = FALSE
  /\ reported' = FALSE
  /\ expired' = GetExpired
  /\ timers' = timers \ GetExpired
  /\ phase' = "handleRead"
  /\ UNCHANGED <<now, heap, armed>>

MutantDeletesRepeating ==
  /\ phase = "handleRead"
  /\ expired # {}
  /\ LET a == Least(expired)[2] IN
       /\ live' = live \ {a}
       /\ \/ /\ interval[a] > 0
             /\ due' = [due EXCEPT ![a] = @ + interval[a]]
             /\ timers' = timers \cup {<<due[a] + interval[a], a>>}
          \/ interval[a] = 0 /\ UNCHANGED <<due, timers>>
  /\ expired' = expired \ {Least(expired)}
  /\ UNCHANGED <<now, interval, timerfd, phase, reported>>

MutantRestartsFromNow ==
  /\ phase = "handleRead"
  /\ expired # {}
  /\ LET a == Least(expired)[2] IN
       \/ /\ interval[a] > 0
          /\ due' = [due EXCEPT ![a] = now + interval[a]]
          /\ timers' = timers \cup {<<now + interval[a], a>>}
          /\ UNCHANGED live
       \/ /\ interval[a] = 0
          /\ live' = live \ {a}
          /\ UNCHANGED <<due, timers>>
  /\ expired' = expired \ {Least(expired)}
  /\ UNCHANGED <<now, interval, timerfd, phase, reported>>

\* The callback of the next Timer has returned: restart and insert it again,
\* or delete it.
TimerRan ==
  /\ phase = "handleRead"
  /\ expired # {}
  /\ LET a == Least(expired)[2] IN
       \/ /\ interval[a] > 0
          /\ due' = [due EXCEPT ![a] = @ + interval[a]]
          /\ timers' = timers \cup {<<due[a] + interval[a], a>>}
          /\ UNCHANGED live
       \/ /\ interval[a] = 0
          /\ live' = live \ {a}
          /\ UNCHANGED <<due, timers>>
  /\ expired' = expired \ {Least(expired)}
  /\ UNCHANGED <<now, interval, timerfd, phase, reported>>

MutantReadForgetsToArm ==
  /\ phase = "handleRead"
  /\ expired = {}
  /\ phase' = "turn"
  /\ UNCHANGED <<now, timers, expired, heap, timerfd, reported>>

\* handleRead ends by arming the timerfd for whatever is first now.
HandleReadReturns ==
  /\ phase = "handleRead"
  /\ expired = {}
  /\ ResetTimerfd(timers)
  /\ phase' = "turn"
  /\ UNCHANGED <<now, timers, expired, heap, reported>>

\* The turn is over: back to epoll_wait.
EndTurn ==
  /\ phase = "turn"
  /\ ~reported
  /\ phase' = "poll"
  /\ UNCHANGED <<now, timers, expired, heap, timerfd, reported>>

\* ~TimerQueue, from ~EventLoop, after loop() has returned.
Destroy ==
  /\ phase = "poll"
  /\ live' = live \ {e[2] : e \in timers}
  /\ timers' = {}
  /\ armed' = 0
  /\ ticks' = FALSE
  /\ phase' = "destroyed"
  /\ UNCHANGED <<now, expired, due, interval, reported>>

-----------------------------------------------------------------------------
Calls == \E a \in Addrs :
           \/ \E w \in Whens : RunAt(a, w)
           \/ \E d \in Delays : RunAfter(a, d) \/ RunEvery(a, d)

Loop ==
  \/ EpollReturn
  \/ HandleReadFails
  \/ HandleRead
  \/ TimerRan
  \/ HandleReadReturns
  \/ EndTurn

Next == Tick \/ TimerfdFires \/ Calls \/ Loop \/ Destroy

Spec == Init /\ [][Next]_vars

\* Time passes, the kernel fires an expired timerfd, epoll_wait returns a
\* readable one, and callbacks return.
Fairness ==
  /\ WF_vars(Tick)
  /\ WF_vars(TimerfdFires)
  /\ WF_vars(Loop /\ (phase = "poll" => ticks))

FairSpec == Spec /\ Fairness

-----------------------------------------------------------------------------
\* Every Timer object is in timers_ or in the vector of handleRead, under its
\* expiration, exactly once: nothing is freed twice, used after its deletion,
\* run twice for one expiry, or leaked, the destructor included.
HeapInv ==
  /\ timers \cap expired = {}
  /\ \A e, f \in timers \cup expired : e[2] = f[2] => e = f
  /\ \A e \in timers \cup expired : due[e[2]] = e[1]
  /\ live = {e[2] : e \in timers \cup expired}
  /\ phase # "handleRead" => expired = {}

\* handleRead only runs timers whose time has passed.
NotEarly == \A e \in expired : e[1] < now

\* The inductive invariant of the objects.
TimerInv == TypeOK /\ HeapInv /\ NotEarly

\* Outside handleRead the timerfd stands for the first timer: it is armed for
\* it, or has fired.  The skipped re-arming of addTimer, the expirations that
\* timerfd_settime forgets and the failing read() never leave it behind.
Armed ==
  phase \in {"poll", "turn"} /\ timers # {}
    => ticks \/ armed = Least(timers)[1]

\* Every timer is run (and then deleted or moved on) once its time has passed,
\* unless a timer for the instant zero has disarmed the timerfd.
DueTimersRun ==
  \A e \in (1..(MaxTime - 1)) \X Addrs :
    e \in timers \cup expired
      ~> \/ e \notin timers \cup expired
         \/ \E a \in Addrs : <<0, a>> \in timers

\* The queue implements the abstract alarm clock: an alarm is an entry of
\* timers_ or of the vector being worked off.
Alarms ==
  {[name |-> e[2], due |-> e[1], interval |-> interval[e[2]]] :
     e \in timers \cup expired}

A == INSTANCE AlarmClock WITH Names <- Addrs, alarms <- Alarms

AlarmSpec == A!Spec
=============================================================================
