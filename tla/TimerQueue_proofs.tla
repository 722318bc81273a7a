-------------------------- MODULE TimerQueue_proofs --------------------------
(* Proofs about TimerQueue, for every choice of its constants. *)
EXTENDS TimerQueue, WellFoundedInduction, TLAPS

\* A non-empty set of naturals has a least element.
LEMMA LeastNatural ==
  ASSUME NEW T, T \subseteq Nat, T # {}
  PROVE  \E x \in T : \A y \in T : x <= y
<1> DEFINE R == OpToRel(<, Nat)
<1>1. IsWellFoundedOn(R, Nat)
  BY NatLessThanWellFounded
<1>2. \E x \in T : \A y \in T : ~(<<y, x>> \in R)
  <2> HIDE DEF R
  <2> QED
    BY <1>1, WFMin
<1>3. PICK x \in T : \A y \in T : ~(<<y, x>> \in R)
  BY <1>2
<1>4. R = {ss \in Nat \X Nat : ss[1] < ss[2]}
  BY Zenon DEF OpToRel
<1>5. ASSUME NEW y \in T PROVE x <= y
  <2> HIDE DEF R
  <2>1. x \in Nat /\ y \in Nat /\ ~(<<y, x>> \in R)
    BY <1>3
  <2>2. ~(y < x)
    BY <2>1, <1>4
  <2> QED
    BY <2>1, <2>2
<1> QED
  BY <1>5

\* timers_.begin(): the least entry of a non-empty queue exists.
LEMMA LeastEntry ==
  ASSUME TimerAssumption, NEW S, S \subseteq Entry, S # {}
  PROVE  /\ Least(S) \in S
         /\ \A f \in S : Before(Least(S), f)
<1> USE DEF Entry, TimerAssumption
<1>1. PICK t \in {e[1] : e \in S} : \A u \in {e[1] : e \in S} : t <= u
  <2>1. {e[1] : e \in S} \subseteq Nat /\ {e[1] : e \in S} # {}
    OBVIOUS
  <2> QED
    BY <2>1, LeastNatural
<1>2. PICK a \in {e[2] : e \in {f \in S : f[1] = t}} :
        \A b \in {e[2] : e \in {f \in S : f[1] = t}} : a <= b
  <2>1. {e[2] : e \in {f \in S : f[1] = t}} \subseteq Nat
    OBVIOUS
  <2>2. {e[2] : e \in {f \in S : f[1] = t}} # {}
    OBVIOUS
  <2> QED
    BY <2>1, <2>2, LeastNatural
<1>3. PICK e \in S : e[1] = t /\ e[2] = a
  OBVIOUS
<1>4. ASSUME NEW f \in S PROVE Before(e, f)
  <2>1. t <= f[1] /\ f[1] \in Nat /\ t \in Nat
    BY <1>1
  <2>2. CASE f[1] = t
    BY <1>2, <1>3, <2>2 DEF Before
  <2>3. CASE t < f[1]
    BY <1>3, <2>3 DEF Before
  <2> QED
    BY <2>1, <2>2, <2>3
<1> QED
  BY <1>3, <1>4 DEF Least

\* timePointToTimespec loses nothing: the kernel is armed for the instant given.
LEMMA TimespecExact ==
  ASSUME TimerAssumption, NEW t \in Nat
  PROVE  TimePointToTimespec(t).sec * NsPerSec + TimePointToTimespec(t).nsec = t
  BY DEF TimePointToTimespec, TimerAssumption

\* An entry that is not earlier than the first one leaves the first time alone.
LEMMA LeastTimeKept ==
  ASSUME TimerAssumption, NEW S, S \subseteq Entry, S # {}, NEW e \in Entry,
         ~(e[1] < Least(S)[1])
  PROVE  Least(S \cup {e})[1] = Least(S)[1]
<1> DEFINE U == S \cup {e}
<1>1. Least(S) \in S /\ \A f \in S : Before(Least(S), f)
  BY LeastEntry
<1>2. Least(U) \in U /\ \A f \in U : Before(Least(U), f)
  BY LeastEntry
<1>3. Before(Least(U), Least(S))
  BY <1>1, <1>2
<1>4. Least(S)[1] \in Nat /\ Least(U)[1] \in Nat /\ e[1] \in Nat
  BY <1>1, <1>2 DEF Entry
<1>5. Least(S)[1] <= Least(U)[1]
  <2>1. CASE Least(U) = e
    BY <2>1, <1>4
  <2>2. CASE Least(U) \in S
    BY <2>2, <1>1, <1>4 DEF Before
  <2> QED
    BY <1>2, <2>1, <2>2
<1> QED
  BY <1>3, <1>4, <1>5 DEF Before

\* resetTimerfd arms for the first entry.
LEMMA ResetArms ==
  ASSUME TimerAssumption, NEW S, S \subseteq Entry, ResetTimerfd(S)
  PROVE  /\ armed' \in Nat
         /\ ticks' = FALSE
         /\ S # {} => armed' = Least(S)[1]
<1>1. CASE S = {}
  BY <1>1 DEF ResetTimerfd, Settime, TimerAssumption
<1>2. CASE S # {}
  <2>1. Least(S)[1] \in Nat
    BY <1>2, LeastEntry DEF Entry
  <2>2. armed' = Least(S)[1]
    BY <1>2, <2>1, TimespecExact DEF ResetTimerfd, Settime
  <2> QED
    BY <1>2, <2>1, <2>2 DEF ResetTimerfd, Settime
<1> QED
  BY <1>1, <1>2

-----------------------------------------------------------------------------
\* The addresses of a set of entries with one more entry.
LEMMA AddressesAdd ==
  ASSUME NEW S, NEW x
  PROVE  {e[2] : e \in S \cup {x}} = {e[2] : e \in S} \cup {x[2]}
  BY Zenon

\* The addresses of a set of entries, no two with one address, without x.
LEMMA AddressesRemove ==
  ASSUME NEW S, NEW x \in S, \A e, f \in S : e[2] = f[2] => e = f
  PROVE  {e[2] : e \in S \ {x}} = {e[2] : e \in S} \ {x[2]}
  BY Zenon

\* addTimer keeps the ownership of Timer objects.
LEMMA AddKeepsInv ==
  ASSUME TimerAssumption, TimerInv, NEW a \in Addrs, NEW w \in Nat,
         NEW ms \in Nat, AddTimer(a, w, ms)
  PROVE  TimerInv'
<1> USE DEF TimerInv, TypeOK
<1>0. timers' \subseteq Entry /\ timers' = timers \cup {<<w, a>>}
  BY DEF AddTimer, Entry
<1>1. armed' \in Nat /\ ticks' \in BOOLEAN
  <2>1. CASE timers = {} \/ w < Least(timers)[1]
    <3>1. ResetTimerfd(timers')
      BY <2>1 DEF AddTimer
    <3>2. armed' \in Nat /\ ticks' = FALSE
      BY <1>0, <3>1, ResetArms
    <3> QED
      BY <3>2
  <2>2. CASE ~(timers = {} \/ w < Least(timers)[1])
    BY <2>2, Zenon DEF AddTimer, timerfd
  <2> QED
    BY <2>1, <2>2
<1>2. TypeOK'
  <2>1. reported' \in BOOLEAN
    BY Zenon DEF AddTimer
  <2> QED
    BY <1>1, <2>1 DEF AddTimer, Entry
<1>3. HeapInv'
  <2>1. \A e \in timers \cup expired : e[2] # a
    BY DEF HeapInv, AddTimer
  <2> DEFINE all == timers \cup expired
  <2>2. timers' \cup expired' = all \cup {<<w, a>>}
    BY DEF AddTimer
  <2>3. timers' \cap expired' = {}
    BY <2>1 DEF HeapInv, AddTimer
  <2>4. \A e \in all : e[2] \in Addrs /\ due'[e[2]] = e[1]
    BY <2>1 DEF HeapInv, AddTimer, Entry
  <2>5. live' = {e[2] : e \in all \cup {<<w, a>>}}
    <3>1. live' = {e[2] : e \in all} \cup {a}
      BY DEF HeapInv, AddTimer
    <3> HIDE DEF all
    <3>2. <<w, a>>[2] = a
      OBVIOUS
    <3> QED
      BY <3>1, <3>2, AddressesAdd, Zenon
  <2>6. \A e, f \in all \cup {<<w, a>>} : e[2] = f[2] => e = f
    BY <2>1 DEF HeapInv
  <2>7. due'[a] = w
    BY DEF AddTimer
  <2>8. phase' # "handleRead" => expired' = {}
    BY DEF HeapInv, AddTimer
  <2> HIDE DEF all
  <2> QED
    BY <2>2, <2>3, <2>4, <2>5, <2>6, <2>7, <2>8 DEF HeapInv
<1>4. NotEarly'
  BY DEF NotEarly, AddTimer
<1> QED
  BY <1>2, <1>3, <1>4

\* A timer that ran is moved on or deleted.
LEMMA RanKeepsInv ==
  ASSUME TimerAssumption, TimerInv, TimerRan
  PROVE  TimerInv'
<1> USE DEF TimerInv, TypeOK
<1> DEFINE x == Least(expired)
           a == x[2]
           all == timers \cup expired
           y == <<due[a] + interval[a], a>>
<1>1. x \in expired /\ a \in Addrs /\ x[1] = due[a]
  BY LeastEntry DEF TimerRan, HeapInv, Entry
<1>2. due[a] \in Nat /\ interval[a] \in Nat
  BY <1>1
<1>3. expired' = expired \ {x} /\ phase = "handleRead" /\ phase' = phase
      /\ now' = now
  BY DEF TimerRan
<1>4. ticks' \in BOOLEAN /\ reported' \in BOOLEAN /\ armed' = armed
  BY Zenon DEF TimerRan, timerfd
<1>5. \A e \in all : e # x => e[2] # a
  BY <1>1 DEF HeapInv
<1>6. CASE /\ interval[a] > 0
           /\ due' = [due EXCEPT ![a] = @ + interval[a]]
           /\ timers' = timers \cup {y}
           /\ live' = live
  <2> HIDE DEF x
  <2>1. y[2] = a /\ y[1] = due[a] + interval[a] /\ y \in Entry
    BY <1>1, <1>2 DEF Entry
  <2>2. TypeOK'
    BY <1>1, <1>2, <1>3, <1>4, <1>6, <2>1 DEF TimerRan
  <2>3. timers' \cup expired' = (all \ {x}) \cup {y}
    BY <1>1, <1>3, <1>6 DEF HeapInv
  <2>4. timers' \cap expired' = {}
    BY <1>1, <1>3, <1>5, <1>6, <2>1 DEF HeapInv
  <2>5. \A e, f \in (all \ {x}) \cup {y} : e[2] = f[2] => e = f
    BY <1>5, <2>1 DEF HeapInv
  <2>6. \A e \in (all \ {x}) \cup {y} : due'[e[2]] = e[1]
    <3>1. due'[a] = y[1]
      BY <1>1, <1>2, <1>6
    <3>2. ASSUME NEW e \in all \ {x} PROVE due'[e[2]] = e[1]
      BY <1>5, <1>6 DEF HeapInv, Entry
    <3> QED
      BY <3>1, <3>2, <2>1
  <2>7. live' = {e[2] : e \in (all \ {x}) \cup {y}}
    <3>1. {e[2] : e \in all \ {x}} = {e[2] : e \in all} \ {a}
      BY <1>1, AddressesRemove DEF HeapInv
    <3>2. {e[2] : e \in (all \ {x}) \cup {y}} = {e[2] : e \in all \ {x}} \cup {y[2]}
      BY AddressesAdd
    <3>3. live = {e[2] : e \in all} /\ a \in {e[2] : e \in all}
      BY <1>1 DEF HeapInv
    <3> HIDE DEF a, y, all
    <3> QED
      BY <1>6, <2>1, <3>1, <3>2, <3>3
  <2>8. HeapInv'
    <3> HIDE DEF all, y
    <3> QED
      BY <1>3, <2>3, <2>4, <2>5, <2>6, <2>7 DEF HeapInv
  <2>9. NotEarly'
    BY <1>3 DEF NotEarly
  <2> QED
    BY <2>2, <2>8, <2>9
<1>7. CASE /\ interval[a] = 0
           /\ live' = live \ {a}
           /\ due' = due /\ timers' = timers
  <2> HIDE DEF x
  <2>1. TypeOK'
    BY <1>1, <1>3, <1>4, <1>7 DEF TimerRan
  <2>2. timers' \cup expired' = all \ {x}
    BY <1>1, <1>3, <1>7 DEF HeapInv
  <2>3. live' = {e[2] : e \in all \ {x}}
    <3>1. {e[2] : e \in all \ {x}} = {e[2] : e \in all} \ {a}
      BY <1>1, AddressesRemove DEF HeapInv
    <3>2. live = {e[2] : e \in all}
      BY DEF HeapInv
    <3> HIDE DEF a, all
    <3> QED
      BY <1>7, <3>1, <3>2
  <2>4. HeapInv'
    <3>1. \A e, f \in all \ {x} : e[2] = f[2] => e = f
      BY DEF HeapInv
    <3>2. \A e \in all \ {x} : due'[e[2]] = e[1]
      BY <1>7 DEF HeapInv
    <3>3. timers' \cap expired' = {}
      BY <1>3, <1>7 DEF HeapInv
    <3> HIDE DEF all
    <3> QED
      BY <1>3, <2>2, <2>3, <3>1, <3>2, <3>3 DEF HeapInv
  <2>5. NotEarly'
    BY <1>3 DEF NotEarly
  <2> QED
    BY <2>1, <2>4, <2>5
<1> QED
  BY <1>6, <1>7 DEF TimerRan

\* The other steps keep the ownership too.
LEMMA StepKeepsInv ==
  ASSUME TimerAssumption, TimerInv, [Next]_vars
  PROVE  TimerInv'
<1> USE DEF TimerInv, TypeOK
<1>1. ASSUME NEW a \in Addrs,
             \/ \E w \in Whens : RunAt(a, w)
             \/ \E d \in Delays : RunAfter(a, d) \/ RunEvery(a, d)
      PROVE  TimerInv'
  <2>1. ASSUME NEW w \in Whens, RunAt(a, w) PROVE TimerInv'
    BY <2>1, AddKeepsInv DEF RunAt, TimerAssumption
  <2>2. ASSUME NEW d \in Delays, RunAfter(a, d) PROVE TimerInv'
    <3>1. now + d \in Nat
      BY DEF TimerAssumption
    <3> QED
      BY <2>2, <3>1, AddKeepsInv DEF RunAfter
  <2>3. ASSUME NEW d \in Delays, RunEvery(a, d) PROVE TimerInv'
    <3>1. now + d \in Nat /\ d \in Nat
      BY DEF TimerAssumption
    <3> QED
      BY <2>3, <3>1, AddKeepsInv DEF RunEvery
  <2> QED
    BY <1>1, <2>1, <2>2, <2>3
<1>2. CASE TimerRan
  BY <1>2, RanKeepsInv
<1>3. CASE Tick \/ TimerfdFires \/ EpollReturn \/ HandleReadFails \/ EndTurn
           \/ UNCHANGED vars
  <2>1. UNCHANGED <<timers, expired, live, due, interval>>
    BY <1>3 DEF Tick, TimerfdFires, EpollReturn, HandleReadFails, EndTurn, vars,
                heap
  <2>2. phase' \in {"poll", "turn", "handleRead", "destroyed"}
        /\ (phase' = "handleRead" <=> phase = "handleRead")
    BY <1>3 DEF Tick, TimerfdFires, EpollReturn, HandleReadFails, EndTurn, vars
  <2>3. now' \in Nat /\ now <= now' /\ armed' \in Nat
    BY <1>3 DEF Tick, TimerfdFires, EpollReturn, HandleReadFails, EndTurn, vars,
                timerfd
  <2>4. ticks' \in BOOLEAN /\ reported' \in BOOLEAN
    BY <1>3, Zenon DEF Tick, TimerfdFires, EpollReturn, HandleReadFails, EndTurn,
                vars, timerfd
  <2>5. NotEarly'
    BY <2>1, <2>3 DEF NotEarly, Entry
  <2> QED
    BY <2>1, <2>2, <2>3, <2>4, <2>5 DEF HeapInv
<1>4. CASE HandleRead
  <2>1. expired = {} /\ timers' \cup expired' = timers \cup expired
        /\ timers' \cap expired' = {}
    BY <1>4 DEF HandleRead, GetExpired, HeapInv
  <2>2. UNCHANGED <<now, live, due, interval, armed>> /\ phase' = "handleRead"
        /\ ticks' = FALSE /\ reported' = FALSE
    BY <1>4 DEF HandleRead, heap
  <2>3. TypeOK'
    BY <2>1, <2>2
  <2>4. HeapInv'
    BY <2>1, <2>2 DEF HeapInv
  <2>5. NotEarly'
    BY <1>4, <2>2 DEF HandleRead, GetExpired, NotEarly
  <2> QED
    BY <2>3, <2>4, <2>5
<1>5. CASE HandleReadReturns
  <2>1. armed' \in Nat /\ ticks' = FALSE
    BY <1>5, ResetArms DEF HandleReadReturns
  <2>2. reported' \in BOOLEAN
    BY <1>5, Zenon DEF HandleReadReturns
  <2>3. UNCHANGED <<now, timers, expired, live, due, interval>>
        /\ expired = {} /\ phase' = "turn"
    BY <1>5 DEF HandleReadReturns, heap
  <2> QED
    BY <2>1, <2>2, <2>3 DEF HeapInv, NotEarly
<1>6. CASE Destroy
  <2>1. reported' \in BOOLEAN /\ ticks' = FALSE
    BY <1>6, Zenon DEF Destroy
  <2>2. expired = {} /\ expired' = {} /\ timers' = {} /\ live' = {}
    BY <1>6 DEF Destroy, HeapInv
  <2>3. UNCHANGED <<now, due, interval>> /\ armed' = 0 /\ phase' = "destroyed"
    BY <1>6 DEF Destroy
  <2> QED
    BY <2>1, <2>2, <2>3 DEF HeapInv, NotEarly
<1> QED
  BY <1>1, <1>2, <1>3, <1>4, <1>5, <1>6 DEF Next, Calls, Loop

\* Every Timer object is owned by exactly one of timers_ and the vector of
\* handleRead; none is freed twice, leaked or run early.
THEOREM TimersOwned == Spec => []TimerInv
<1>1. Init => TimerInv
  <2> SUFFICES ASSUME Init PROVE TimerInv
    OBVIOUS
  <2>1. ticks \in BOOLEAN /\ reported \in BOOLEAN
    BY Zenon DEF Init
  <2>2. TypeOK
    BY <2>1 DEF Init, TypeOK
  <2> QED
    BY <2>2 DEF Init, TimerInv, HeapInv, NotEarly
<1>2. TimerInv /\ [Next]_vars => TimerInv'
  BY StepKeepsInv, TimerAssumption
<1> QED
  BY <1>1, <1>2, PTL DEF Spec

-----------------------------------------------------------------------------
\* addTimer leaves the timerfd standing for the first timer.
LEMMA AddKeepsArmed ==
  ASSUME TimerAssumption, TimerInv, Armed, NEW a \in Addrs, NEW w \in Nat,
         NEW ms \in Nat, AddTimer(a, w, ms), phase = "turn"
  PROVE  Armed'
<1> USE DEF TimerInv, TypeOK
<1>1. timers' \subseteq Entry /\ timers' = timers \cup {<<w, a>>}
      /\ <<w, a>> \in Entry /\ <<w, a>>[1] = w
  BY DEF AddTimer, Entry
<1>2. CASE timers = {} \/ w < Least(timers)[1]
  <2>1. ResetTimerfd(timers')
    BY <1>2 DEF AddTimer
  <2>2. timers' # {} => armed' = Least(timers')[1]
    BY <1>1, <2>1, ResetArms
  <2> QED
    BY <2>2 DEF Armed
<1>3. CASE timers # {} /\ ~(w < Least(timers)[1])
  <2>1. armed' = armed /\ ticks' = ticks
    BY <1>3 DEF AddTimer, timerfd
  <2>2. ticks \/ armed = Least(timers)[1]
    BY <1>3 DEF Armed
  <2>3. Least(timers')[1] = Least(timers)[1]
    BY <1>1, <1>3, LeastTimeKept
  <2> QED
    BY <2>1, <2>2, <2>3 DEF Armed
<1> QED
  BY <1>2, <1>3

\* Outside handleRead the timerfd is armed for the first timer or has fired:
\* no order of additions, expirations and failing reads leaves it behind.
THEOREM TimerfdNeverBehind == Spec => []Armed
<1>1. Init => Armed
  BY DEF Init, Armed
<1>2. ASSUME TimerAssumption, TimerInv, Armed, [Next]_vars
      PROVE  Armed'
  <2> USE DEF TimerInv, TypeOK
  <2>1. ASSUME NEW a \in Addrs, NEW w \in Nat, NEW ms \in Nat, OnLoop,
               AddTimer(a, w, ms)
        PROVE  Armed'
    <3>1. CASE phase = "turn"
      BY <2>1, <3>1, <1>2, AddKeepsArmed
    <3>2. CASE phase = "handleRead"
      BY <2>1, <3>2 DEF AddTimer, Armed
    <3> QED
      BY <2>1, <3>1, <3>2 DEF OnLoop
  <2>2. CASE Calls
    <3>1. Whens \subseteq Nat /\ Delays \subseteq Nat
          /\ \A d \in Delays : now + d \in Nat
      BY <1>2 DEF TimerAssumption
    <3> QED
      BY <2>1, <2>2, <3>1 DEF Calls, RunAt, RunAfter, RunEvery
  <2>3. CASE Tick \/ EpollReturn \/ HandleReadFails \/ EndTurn
             \/ UNCHANGED vars
    <3>1. UNCHANGED <<timers, armed, ticks>>
      BY <2>3 DEF Tick, EpollReturn, HandleReadFails, EndTurn, vars, timerfd
    <3>2. phase' \in {"poll", "turn"} => phase \in {"poll", "turn"}
      BY <2>3 DEF Tick, EpollReturn, HandleReadFails, EndTurn, vars
    <3> QED
      BY <1>2, <3>1, <3>2 DEF Armed
  <2>4. CASE TimerfdFires
    BY <2>4 DEF TimerfdFires, Armed
  <2>5. CASE HandleRead \/ TimerRan \/ Destroy
    BY <2>5 DEF HandleRead, TimerRan, Destroy, Armed
  <2>6. CASE HandleReadReturns
    <3>1. timers # {} => armed' = Least(timers)[1]
      BY <1>2, <2>6, ResetArms DEF HandleReadReturns
    <3> QED
      BY <2>6, <3>1 DEF HandleReadReturns, Armed
  <2> QED
    BY <1>2, <2>2, <2>3, <2>4, <2>5, <2>6 DEF Next, Loop
<1>3. TimerInv /\ Armed /\ [Next]_vars => Armed'
  BY <1>2, TimerAssumption
<1> QED
  BY <1>1, <1>3, TimersOwned, PTL DEF Spec

-----------------------------------------------------------------------------
\* Every step of the queue is a step of the alarm clock or invisible to it.
LEMMA StepRefines ==
  ASSUME TimerAssumption, TimerInv, [Next]_vars
  PROVE  [A!Next]_<<now, Alarms>>
<1> USE DEF TimerInv, TypeOK
<1> DEFINE all == timers \cup expired
           al(e) == [name |-> e[2], due |-> e[1], interval |-> interval[e[2]]]
<1>1. ASSUME NEW a \in Addrs, NEW w \in Nat, NEW ms \in Nat,
             AddTimer(a, w, ms)
      PROVE  A!Next
  <2> DEFINE new == [name |-> a, due |-> w, interval |-> ms]
  <2>1. \A e \in all : e[2] # a /\ e[2] \in Addrs
    BY <1>1 DEF HeapInv, AddTimer, Entry
  <2>2. \A e \in all : interval'[e[2]] = interval[e[2]]
    BY <1>1, <2>1 DEF AddTimer
  <2>3. interval'[a] = ms /\ timers' \cup expired' = all \cup {<<w, a>>}
    BY <1>1 DEF AddTimer
  <2>4. Alarms' = {[name |-> e[2], due |-> e[1], interval |-> interval'[e[2]]] :
                     e \in all \cup {<<w, a>>}}
    BY <2>3 DEF Alarms
  <2>5. Alarms' = Alarms \cup {new}
    <3> DEFINE al2(e) == [name |-> e[2], due |-> e[1],
                          interval |-> interval'[e[2]]]
    <3>1. \A e \in all : al2(e) = al(e)
      BY <2>2
    <3>2. al2(<<w, a>>) = new
      BY <2>3
    <3>3. Alarms' = {al(e) : e \in all} \cup {new}
      <4>1. Alarms' = {al2(e) : e \in all \cup {<<w, a>>}}
        BY <2>4
      <4> HIDE DEF al, al2, new, all
      <4> QED
        BY <3>1, <3>2, <4>1, Zenon
    <3> QED
      BY <3>3 DEF Alarms
  <2>6. \A other \in Alarms : other.name # a
    BY <2>1 DEF Alarms
  <2>7. A!Set(new)
    BY <1>1, <2>5, <2>6 DEF A!Set, A!Alarm, AddTimer
  <2> QED
    BY <2>5, <2>7 DEF A!Next
<1>2. CASE Calls
  <2>1. Whens \subseteq Nat /\ Delays \subseteq Nat
        /\ \A d \in Delays : now + d \in Nat
    BY DEF TimerAssumption
  <2> QED
    BY <1>1, <1>2, <2>1 DEF Calls, RunAt, RunAfter, RunEvery
<1>3. CASE Tick
  BY <1>3 DEF Tick, Alarms, heap, A!Next, A!Tick
<1>4. CASE TimerRan
  <2> DEFINE x == Least(expired)
             a == x[2]
  <2>1. x \in expired /\ a \in Addrs /\ x[1] = due[a]
    BY <1>4, LeastEntry DEF TimerRan, HeapInv, Entry
  <2>2. x[1] < now /\ x[1] \in Nat /\ interval[a] \in Nat
    BY <2>1 DEF NotEarly, Entry
  <2>3. al(x) \in Alarms /\ al(x).due <= now
    BY <2>1, <2>2 DEF Alarms
  <2>4. UNCHANGED <<now, interval>>
    BY <1>4 DEF TimerRan
  <2>5. Alarms \ {al(x)} = {al(e) : e \in all \ {x}}
    BY <2>1 DEF Alarms, HeapInv
  <2>6. CASE interval[a] > 0
    <3> DEFINE y == <<x[1] + interval[a], a>>
    <3>1. timers' \cup expired' = (all \ {x}) \cup {y}
      BY <1>4, <2>1, <2>6 DEF TimerRan, HeapInv
    <3>2. Alarms' = {al(e) : e \in (all \ {x}) \cup {y}}
      BY <2>4, <3>1 DEF Alarms
    <3>3. Alarms' = (Alarms \ {al(x)}) \cup {al(y)}
      BY <2>5, <3>2
    <3>4. al(y) = [al(x) EXCEPT !.due = al(x).due + al(x).interval]
      OBVIOUS
    <3>5. A!GoOff(al(x))
      BY <2>3, <2>4, <2>6, <3>3, <3>4 DEF A!GoOff, A!Rest
    <3> QED
      BY <2>3, <3>5 DEF A!Next
  <2>7. CASE interval[a] = 0
    <3>1. timers' \cup expired' = all \ {x}
      BY <1>4, <2>1, <2>7 DEF TimerRan, HeapInv
    <3>2. Alarms' = Alarms \ {al(x)}
      BY <2>4, <2>5, <3>1 DEF Alarms
    <3>3. A!GoOff(al(x))
      BY <2>3, <2>4, <2>7, <3>2 DEF A!GoOff, A!Rest
    <3> QED
      BY <2>3, <3>3 DEF A!Next
  <2> QED
    BY <2>2, <2>6, <2>7
<1>5. CASE HandleRead
  <2>1. timers' \cup expired' = timers \cup expired
    BY <1>5 DEF HandleRead, GetExpired, HeapInv
  <2> QED
    BY <1>5, <2>1 DEF HandleRead, heap, Alarms
<1>6. CASE TimerfdFires \/ EpollReturn \/ HandleReadFails \/ HandleReadReturns
           \/ EndTurn \/ UNCHANGED vars
  <2>1. UNCHANGED <<now, timers, expired, interval>>
    BY <1>6 DEF TimerfdFires, EpollReturn, HandleReadFails, HandleReadReturns,
                EndTurn, vars, heap
  <2> QED
    BY <2>1 DEF Alarms
<1>7. CASE Destroy
  <2>1. timers' = {} /\ expired' = {} /\ now' = now
    BY <1>7 DEF Destroy, HeapInv
  <2> QED
    BY <2>1 DEF Alarms, A!Next, A!Drop
<1> QED
  BY <1>2, <1>3, <1>4, <1>5, <1>6, <1>7 DEF Next, Loop

\* The timer queue implements the alarm clock: timers run at or after their
\* time, repeating ones without drift, and none disappears.
THEOREM ImplementsAlarmClock == Spec => AlarmSpec
<1>1. Init => A!Init
  BY DEF Init, A!Init, Alarms
<1>2. TimerInv /\ [Next]_vars => [A!Next]_<<now, Alarms>>
  BY StepRefines, TimerAssumption
<1> QED
  BY <1>1, <1>2, TimersOwned, PTL DEF Spec, AlarmSpec, A!Spec
=============================================================================
