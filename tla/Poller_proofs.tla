--------------------------- MODULE Poller_proofs ---------------------------
(* Proofs about Poller, for any number of connections and descriptors. *)
EXTENDS Poller, WellFoundedInduction, TLAPS

\* The inductive invariant with the exactness of channels_.
PollerExact == PollerInv /\ Registered

\* A descriptor that is free is what the kernel hands out.
LEMMA NextIsFree ==
  ASSUME PollerAssumption, Free # {}
  PROVE  NextFd \in Free
<1> DEFINE R == OpToRel(<, Nat)
<1>1. Free \subseteq Nat
  BY DEF Free, Fds
<1>2. \E x \in Free : \A y \in Free : ~(<<y, x>> \in R)
  <2>1. IsWellFoundedOn(R, Nat)
    BY NatLessThanWellFounded
  <2> HIDE DEF R
  <2> QED
    BY <1>1, <2>1, WFMin
<1>3. R = {ss \in Nat \X Nat : ss[1] < ss[2]}
  BY Zenon DEF OpToRel
<1>4. PICK x \in Free : \A y \in Free : ~(<<y, x>> \in R)
  BY <1>2
<1>5. ASSUME NEW y \in Free PROVE x <= y
  <2> HIDE DEF R
  <2>1. x \in Nat /\ y \in Nat /\ ~(<<y, x>> \in R)
    BY <1>1, <1>4
  <2> QED
    BY <2>1, <1>3
<1>6. \E z \in Free : \A y \in Free : z <= y
  BY <1>5
<1> QED
  BY <1>6 DEF NextFd, Min

-----------------------------------------------------------------------------
\* What updateChannel of ch with descriptor fd and events_ E can do.
UpdateOf(ch, fd, E) ==
  /\ channels' \in [Fds -> Channels \cup {Null}]
  /\ interest' \in [Fds -> Registration \cup {Null}]
  /\ refused' \in BOOLEAN
  /\ events' \in [Channels -> SUBSET {"in", "out"}]
  /\ events'[ch] = E
  /\ \A x \in Channels : x # ch => events'[x] = events[x]
  /\ \A f \in Fds : f # fd => channels'[f] = channels[f] /\ interest'[f] = interest[f]
  /\ interest'[fd] \in {interest[fd], Null, <<ch, E>>}
  /\ ~refused' => ~refused
  /\ ~refused' /\ channels[fd] = Null => channels'[fd] = ch /\ interest'[fd] = <<ch, E>>
  /\ ~refused' /\ channels[fd] # Null /\ E = {} => channels'[fd] = Null /\ interest'[fd] = Null
  /\ ~refused' /\ channels[fd] # Null /\ E # {} =>
       /\ channels'[fd] = channels[fd]
       /\ interest'[fd] = IF interest[fd] = Null THEN Null ELSE <<ch, E>>

\* An outcome of updateChannel, as Updated gives it.
OutcomeOf(new, ch, fd, E) ==
  /\ new.channels \in [Fds -> Channels \cup {Null}]
  /\ new.interest \in [Fds -> Registration \cup {Null}]
  /\ new.refused \in BOOLEAN
  /\ \A f \in Fds : f # fd => new.channels[f] = channels[f] /\ new.interest[f] = interest[f]
  /\ new.interest[fd] \in {interest[fd], Null, <<ch, E>>}
  /\ ~new.refused => ~refused
  /\ ~new.refused /\ channels[fd] = Null
       => new.channels[fd] = ch /\ new.interest[fd] = <<ch, E>>
  /\ ~new.refused /\ channels[fd] # Null /\ E = {}
       => new.channels[fd] = Null /\ new.interest[fd] = Null
  /\ ~new.refused /\ channels[fd] # Null /\ E # {} =>
       /\ new.channels[fd] = channels[fd]
       /\ new.interest[fd] = IF interest[fd] = Null THEN Null ELSE <<ch, E>>

\* Every branch of updateChannel, refusals included, has such an outcome.
LEMMA UpdatedIs ==
  ASSUME TypeOK, NEW ch \in Channels, NEW fd \in Fds, NEW E \in SUBSET {"in", "out"},
         NEW new \in Updated(ch, fd, E)
  PROVE  OutcomeOf(new, ch, fd, E)
<1> USE DEF OutcomeOf
<1>1. /\ channels \in [Fds -> Channels \cup {Null}] /\ interest \in [Fds -> Registration \cup {Null}]
      /\ <<ch, E>> \in Registration
  BY DEF TypeOK, Registration
<1>2. refused \in BOOLEAN
  BY DEF TypeOK
<1> DEFINE added == [channels |-> [channels EXCEPT ![fd] = ch],
                     interest |-> [interest EXCEPT ![fd] = <<ch, E>>], refused |-> refused]
           failed == [channels |-> channels, interest |-> interest, refused |-> TRUE]
           deleted == [channels |-> [channels EXCEPT ![fd] = Null],
                       interest |-> [interest EXCEPT ![fd] = Null], refused |-> refused]
           modified == [channels |-> channels,
                        interest |-> IF interest[fd] = Null THEN interest
                                     ELSE [interest EXCEPT ![fd] = <<ch, E>>],
                        refused |-> refused]
<1>3. \/ channels[fd] = Null /\ (new = failed \/ new = added)
      \/ channels[fd] # Null /\ E = {} /\ new = deleted
      \/ channels[fd] # Null /\ E # {} /\ new = modified
  BY DEF Updated
<1>4. CASE channels[fd] = Null /\ new = failed
  BY <1>1, <1>4
<1>5. CASE channels[fd] = Null /\ new = added
  <2>1. new.channels = [channels EXCEPT ![fd] = ch] /\ new.refused = refused
        /\ new.interest = [interest EXCEPT ![fd] = <<ch, E>>]
    BY <1>5
  <2> QED
    BY <1>1, <1>2, <1>5, <2>1
<1>6. CASE channels[fd] # Null /\ E = {} /\ new = deleted
  <2>1. new.channels = [channels EXCEPT ![fd] = Null] /\ new.refused = refused
        /\ new.interest = [interest EXCEPT ![fd] = Null]
    BY <1>6
  <2> QED
    BY <1>1, <1>2, <1>6, <2>1
<1>7. CASE channels[fd] # Null /\ E # {} /\ new = modified
  <2>1. new.channels = channels /\ new.refused = refused
        /\ new.interest = IF interest[fd] = Null THEN interest
                          ELSE [interest EXCEPT ![fd] = <<ch, E>>]
    BY <1>7
  <2> QED
    BY <1>1, <1>2, <1>7, <2>1
<1> QED
  BY <1>3, <1>4, <1>5, <1>6, <1>7

\* So does the update of a channel.
LEMMA UpdateIs ==
  ASSUME TypeOK, NEW ch \in Channels, NEW fd \in Fds, NEW E \in SUBSET {"in", "out"},
         Update(ch, fd, E)
  PROVE  UpdateOf(ch, fd, E)
<1>1. PICK new \in Updated(ch, fd, E) :
        channels' = new.channels /\ interest' = new.interest /\ refused' = new.refused
  BY DEF Update
<1>2. events \in [Channels -> SUBSET {"in", "out"}] /\ events' = [events EXCEPT ![ch] = E]
  BY DEF TypeOK, Update
<1>3. /\ events' \in [Channels -> SUBSET {"in", "out"}]
      /\ events'[ch] = E
      /\ \A x \in Channels : x # ch => events'[x] = events[x]
  BY <1>2
<1> QED
  <2>1. OutcomeOf(new, ch, fd, E)
    BY <1>1, UpdatedIs
  <2> QED
    BY <1>1, <1>3, <2>1 DEF UpdateOf, OutcomeOf

-----------------------------------------------------------------------------
\* A channel that exists is updated: its registration follows events_, and
\* nobody else's changes.
LEMMA UpdateKeeps ==
  ASSUME PollerAssumption, PollerExact, NEW ch \in Channels, fdOf[ch] # 0,
         NEW E \in SUBSET {"in", "out"}, Update(ch, fdOf[ch], E),
         events[ch] # {} \/ E # {} \/ refused,
         UNCHANGED <<fdOf, batch, others>>,
         \A c \in Conns : state'[c] = "none" <=> state[c] = "none"
  PROVE  /\ UpdateOf(ch, fdOf[ch], E)
         /\ Ownership' /\ EventsReachOwner' /\ Registered'
<1> DEFINE fd == fdOf[ch]
<1>1. TypeOK /\ fdOf \in [Channels -> 0..MaxFd] /\ fd \in Fds
  BY DEF PollerExact, PollerInv, TypeOK, Fds, PollerAssumption
<1>2. UpdateOf(ch, fd, E)
  BY <1>1, UpdateIs
<1>3. Ownership /\ EventsReachOwner /\ Registered
  BY DEF PollerExact, PollerInv
<1>4. Ownership'
  BY <1>3 DEF Ownership
<1> HIDE DEF fd
<1>5. fd = fdOf[ch] /\ fdOf' = fdOf
  BY DEF fd
<1>6. EventsReachOwner'
  <2>1. ASSUME NEW f \in Fds, interest'[f] # Null
        PROVE  fdOf[interest'[f][1]] = f
    <3>1. CASE f # fd
      BY <1>2, <1>3, <2>1, <3>1 DEF UpdateOf, EventsReachOwner
    <3>2. CASE f = fd
      BY <1>1, <1>2, <1>3, <1>5, <2>1, <3>2 DEF UpdateOf, EventsReachOwner
    <3> QED
      BY <3>1, <3>2
  <2> QED
    BY <1>3, <2>1 DEF EventsReachOwner
<1>7. Registered'
  <2> SUFFICES ASSUME ~refused'
               PROVE  Registered'
    BY DEF Registered
  <2>1. /\ ~refused
        /\ \A f \in Fds : channels[f] # Null => fdOf[channels[f]] = f
        /\ \A x \in Channels :
             fdOf[x] # 0 => IF events[x] = {}
                            THEN channels[fdOf[x]] = Null /\ interest[fdOf[x]] = Null
                            ELSE /\ channels[fdOf[x]] = x
                                 /\ interest[fdOf[x]] = <<x, events[x]>>
        /\ \A f \in Fds : channels[f] = Null <=> interest[f] = Null
    BY <1>2, <1>3 DEF UpdateOf, Registered
  <2>2. <<ch, E>> # Null /\ ch # Null
    BY DEF PollerAssumption, Registration
  <2>3. IF E = {} THEN channels'[fd] = Null /\ interest'[fd] = Null
                  ELSE channels'[fd] = ch /\ interest'[fd] = <<ch, E>>
    BY <1>1, <1>2, <1>5, <2>1, <2>2 DEF UpdateOf
  <2>4. \A f \in Fds : channels'[f] # Null => fdOf[channels'[f]] = f
    BY <1>2, <1>5, <2>1, <2>3 DEF UpdateOf
  <2>5. \A f \in Fds : channels'[f] = Null <=> interest'[f] = Null
    BY <1>2, <2>1, <2>2, <2>3 DEF UpdateOf
  <2>6. ASSUME NEW x \in Channels, fdOf[x] # 0
        PROVE  IF events'[x] = {}
               THEN channels'[fdOf[x]] = Null /\ interest'[fdOf[x]] = Null
               ELSE channels'[fdOf[x]] = x /\ interest'[fdOf[x]] = <<x, events'[x]>>
    <3>1. CASE x = ch
      BY <1>2, <1>5, <2>3, <3>1 DEF UpdateOf
    <3>2. CASE x # ch
      <4>1. fdOf[x] \in Fds /\ fdOf[x] # fd /\ events'[x] = events[x]
        BY <1>1, <1>2, <1>3, <1>5, <2>6, <3>2 DEF Ownership, Fds, PollerAssumption, UpdateOf
      <4>2. channels'[fdOf[x]] = channels[fdOf[x]] /\ interest'[fdOf[x]] = interest[fdOf[x]]
        BY <1>2, <4>1 DEF UpdateOf
      <4> QED
        BY <2>1, <2>6, <4>1, <4>2
    <3> QED
      BY <3>1, <3>2
  <2> QED
    BY <1>5, <2>4, <2>5, <2>6 DEF Registered
<1> QED
  BY <1>2, <1>4, <1>6, <1>7 DEF fd

\* A channel that existed has been taken from both tables, as far as the kernel
\* agreed, and its descriptor fd is closed.
ClosedOf(ch, fd) ==
  /\ channels' \in [Fds -> Channels \cup {Null}]
  /\ interest' \in [Fds -> Registration \cup {Null}]
  /\ refused' \in BOOLEAN
  /\ events' \in [Channels -> SUBSET {"in", "out"}]
  /\ \A x \in Channels : x # ch => events'[x] = events[x]
  /\ \A f \in Fds : f # fd => channels'[f] = channels[f] /\ interest'[f] = interest[f]
  /\ interest'[fd] = Null
  /\ ~refused' => ~refused
  /\ ~refused' /\ channels[fd] # Null => channels'[fd] = Null

\* Unsubscribing a channel and closing its descriptor leaves the kernel nothing.
LEMMA UpdateAndCloseIs ==
  ASSUME PollerAssumption, TypeOK, NEW ch \in Channels, fdOf[ch] # 0, UpdateAndClose(ch, {})
  PROVE  ClosedOf(ch, fdOf[ch])
<1>1. PICK fd \in Fds : fd = fdOf[ch]
  BY DEF TypeOK, Fds, PollerAssumption
<1>2. PICK new \in Updated(ch, fd, {}) :
        /\ channels' = new.channels /\ refused' = new.refused
        /\ interest' = [new.interest EXCEPT ![fd] = Null]
  BY <1>1 DEF UpdateAndClose
<1>3. OutcomeOf(new, ch, fd, {})
  BY <1>1, <1>2, UpdatedIs
<1>4. /\ events' \in [Channels -> SUBSET {"in", "out"}]
      /\ \A x \in Channels : x # ch => events'[x] = events[x]
  BY DEF UpdateAndClose, TypeOK
<1> QED
  BY <1>1, <1>2, <1>3, <1>4 DEF ClosedOf, OutcomeOf

\* removeChannel after disableAll, in ~EventLoop.
LEMMA DestroyWakeupIs ==
  ASSUME PollerAssumption, TypeOK, fdOf["wakeup"] # 0, DestroyWakeup
  PROVE  ClosedOf("wakeup", fdOf["wakeup"])
<1>1. PICK fd \in Fds : fd = fdOf["wakeup"]
  BY DEF TypeOK, Fds, PollerAssumption, Channels
<1>2. PICK u \in Updated("wakeup", fd, {}) :
        /\ channels' = Removed(u, fd).channels /\ refused' = Removed(u, fd).refused
        /\ interest' = [Removed(u, fd).interest EXCEPT ![fd] = Null]
  BY <1>1 DEF DestroyWakeup
<1>3. OutcomeOf(u, "wakeup", fd, {})
  BY <1>1, <1>2, UpdatedIs DEF Channels
<1>4. Removed(u, fd).channels = [u.channels EXCEPT ![fd] = Null]
      /\ Removed(u, fd).interest \in {u.interest, [u.interest EXCEPT ![fd] = Null]}
      /\ Removed(u, fd).refused = u.refused
  <2>1. u = [channels |-> u.channels, interest |-> u.interest, refused |-> u.refused]
    BY <1>2 DEF Updated
  <2>2. u.channels \in [Fds -> Channels \cup {Null}]
    BY <1>3 DEF OutcomeOf
  <2> QED
    BY <2>1, <2>2 DEF Removed
<1>5. /\ events' \in [Channels -> SUBSET {"in", "out"}]
      /\ \A x \in Channels : x # "wakeup" => events'[x] = events[x]
  BY DEF DestroyWakeup, TypeOK, Channels
<1>6. /\ u.channels \in [Fds -> Channels \cup {Null}]
      /\ u.interest \in [Fds -> Registration \cup {Null}]
      /\ u.refused \in BOOLEAN
      /\ \A f \in Fds : f # fd => u.channels[f] = channels[f] /\ u.interest[f] = interest[f]
      /\ ~u.refused => ~refused
  BY <1>3 DEF OutcomeOf
<1> QED
  BY <1>1, <1>2, <1>4, <1>5, <1>6 DEF ClosedOf

\* A channel is updated to nothing and its descriptor closed: both tables
\* forget it before the descriptor can be handed out again.
LEMMA CloseKeeps ==
  ASSUME PollerAssumption, PollerExact, NEW ch \in Channels, fdOf[ch] # 0,
         ClosedOf(ch, fdOf[ch]), events[ch] # {} \/ refused,
         fdOf'[ch] = 0, \A x \in Channels : x # ch => fdOf'[x] = fdOf[x],
         \A c \in Conns : c # ch => state'[c] = state[c],
         ch \in Conns => state'[ch] = "none",
         \A w \in batch : w[1] # ch, UNCHANGED <<batch, others>>
  PROVE  Ownership' /\ EventsReachOwner' /\ Registered'
<1> DEFINE fd == fdOf[ch]
<1>1. TypeOK /\ fdOf \in [Channels -> 0..MaxFd] /\ fd \in Fds
  BY DEF PollerExact, PollerInv, TypeOK, Fds, PollerAssumption
<1>3. /\ channels' \in [Fds -> Channels \cup {Null}]
      /\ refused' \in BOOLEAN
      /\ \A f \in Fds : f # fd => channels'[f] = channels[f]
      /\ ~refused' => ~refused
      /\ ~refused' /\ channels[fd] # Null => channels'[fd] = Null
  BY DEF ClosedOf
<1>4. /\ interest' \in [Fds -> Registration \cup {Null}]
      /\ interest'[fd] = Null
      /\ \A f \in Fds : f # fd => interest'[f] = interest[f]
  BY DEF ClosedOf
<1>5. /\ events' \in [Channels -> SUBSET {"in", "out"}]
      /\ \A x \in Channels : x # ch => events'[x] = events[x]
  BY DEF ClosedOf
<1>6. Ownership /\ EventsReachOwner /\ Registered
  BY DEF PollerExact, PollerInv
<1> HIDE DEF fd
<1>7. fd = fdOf[ch]
  BY DEF fd
<1>8. Ownership'
  <2>1. \A x, y \in Channels : fdOf'[x] = fdOf'[y] /\ fdOf'[x] # 0 => x = y
    BY <1>6 DEF Ownership
  <2>2. \A x \in Channels : fdOf'[x] \notin others'
    <3>1. 0 \notin others /\ others' = others
      BY <1>1 DEF TypeOK, Fds
    <3>2. \A x \in Channels : fdOf'[x] \in {0, fdOf[x]}
      OBVIOUS
    <3> QED
      BY <1>6, <3>1, <3>2 DEF Ownership
  <2>3. \A c \in Conns : state'[c] = "none" <=> fdOf'[c] = 0
    BY <1>6 DEF Ownership, Channels
  <2> QED
    BY <2>1, <2>2, <2>3 DEF Ownership
<1>9. EventsReachOwner'
  <2>1. ASSUME NEW f \in Fds, interest'[f] # Null
        PROVE  fdOf'[interest'[f][1]] = f
    <3>1. f # fd /\ interest'[f] = interest[f]
      BY <1>4, <2>1
    <3>2. interest[f][1] \in Channels /\ fdOf[interest[f][1]] = f
      BY <1>1, <1>6, <2>1, <3>1 DEF EventsReachOwner, TypeOK, Registration
    <3> QED
      BY <1>7, <3>1, <3>2
  <2>2. \A w \in batch' : fdOf'[w[1]] # 0
    BY <1>1, <1>6 DEF EventsReachOwner, TypeOK
  <2> QED
    BY <2>1, <2>2 DEF EventsReachOwner
<1>10. Registered'
  <2> SUFFICES ASSUME ~refused'
               PROVE  Registered'
    BY DEF Registered
  <2>1. /\ ~refused
        /\ \A f \in Fds : channels[f] # Null => fdOf[channels[f]] = f
        /\ \A x \in Channels :
             fdOf[x] # 0 => IF events[x] = {}
                            THEN channels[fdOf[x]] = Null /\ interest[fdOf[x]] = Null
                            ELSE /\ channels[fdOf[x]] = x
                                 /\ interest[fdOf[x]] = <<x, events[x]>>
        /\ \A f \in Fds : channels[f] = Null <=> interest[f] = Null
    BY <1>3, <1>6 DEF Registered
  <2>2. channels[fd] # Null /\ channels'[fd] = Null
    BY <1>3, <1>7, <2>1 DEF PollerAssumption
  <2>3. ASSUME NEW f \in Fds, channels'[f] # Null
        PROVE  fdOf'[channels'[f]] = f
    <3>1. f # fd /\ channels'[f] = channels[f] /\ channels[f] \in Channels
      BY <1>1, <1>3, <2>2, <2>3 DEF TypeOK
    <3> QED
      BY <1>7, <2>1, <2>3, <3>1
  <2>4. \A f \in Fds : channels'[f] = Null <=> interest'[f] = Null
    BY <1>3, <1>4, <2>1, <2>2
  <2>5. ASSUME NEW x \in Channels, fdOf'[x] # 0
        PROVE  IF events'[x] = {}
               THEN channels'[fdOf'[x]] = Null /\ interest'[fdOf'[x]] = Null
               ELSE channels'[fdOf'[x]] = x /\ interest'[fdOf'[x]] = <<x, events'[x]>>
    <3>1. x # ch /\ fdOf'[x] = fdOf[x] /\ events'[x] = events[x]
      BY <1>5, <2>5
    <3>2. fdOf[x] \in Fds /\ fdOf[x] # fd
      BY <1>1, <1>6, <1>7, <2>5, <3>1 DEF Ownership, Fds, PollerAssumption
    <3>3. channels'[fdOf[x]] = channels[fdOf[x]] /\ interest'[fdOf[x]] = interest[fdOf[x]]
      BY <1>3, <1>4, <3>2
    <3> QED
      BY <2>1, <2>5, <3>1, <3>3
  <2> QED
    BY <2>3, <2>4, <2>5 DEF Registered
<1> QED
  BY <1>8, <1>9, <1>10

-----------------------------------------------------------------------------
\* Steps that leave the descriptors and the tables alone.
LEMMA TablesKept ==
  ASSUME PollerExact, UNCHANGED <<tables, fdOf, others>>,
         \A c \in Conns : state'[c] = "none" <=> state[c] = "none",
         \A w \in batch' : w \in batch
  PROVE  Ownership' /\ EventsReachOwner' /\ Registered'
<1>1. Ownership'
  BY DEF PollerExact, PollerInv, Ownership
<1>2. EventsReachOwner'
  BY DEF PollerExact, PollerInv, EventsReachOwner, tables
<1>3. Registered'
  BY DEF PollerExact, Registered, tables
<1> QED
  BY <1>1, <1>2, <1>3

\* The turn of the loop: waiting, dispatching, calling and returning.
LEMMA EpollWaitKeeps ==
  ASSUME PollerExact, EpollWait
  PROVE  PollerExact'
<1>1. /\ place = "poll" /\ place' = "dispatch"
      /\ UNCHANGED <<tables, capacity, conns, handling, queue, todo, net>>
  BY DEF EpollWait
<1>2. PICK more \in SUBSET Possible :
        LET reported == Certain \cup more
            ready == {w[1] : w \in reported}
        IN  \E got \in SUBSET ready :
              /\ batch' = {w \in reported : w[1] \in got}
              /\ full' = (Cardinality(got) = capacity)
  BY DEF EpollWait
<1>3. batch' \subseteq Watched /\ full' \in BOOLEAN
  <2>1. PICK got : /\ batch' = {w \in Certain \cup more : w[1] \in got}
                   /\ full' = (Cardinality(got) = capacity)
    BY <1>2
  <2>2. full' \in BOOLEAN
    BY <2>1
  <2>3. batch' \subseteq Watched
    BY <2>1 DEF Certain, Possible
  <2> QED
    BY <2>2, <2>3
<1>4. Ownership /\ EventsReachOwner /\ Registered /\ TypeOK
  BY DEF PollerExact, PollerInv
<1>5. TypeOK'
  <2>1. batch' \subseteq Channels \X {"in", "out"}
    BY <1>3 DEF Watched
  <2> QED
    BY <1>1, <1>3, <1>4, <2>1 DEF TypeOK, tables, conns, net
<1>6. PlaceInv'
  BY <1>1 DEF PollerExact, PollerInv, PlaceInv, conns
<1>7. Ownership'
  BY <1>1, <1>4 DEF Ownership, conns, net
<1>8. EventsReachOwner'
  <2>1. \A w \in Watched : fdOf[w[1]] \in Fds
    BY <1>4 DEF Watched, EventsReachOwner
  <2>2. \A w \in batch' : fdOf[w[1]] # 0
    BY <1>3, <2>1 DEF Fds
  <2> QED
    BY <1>1, <1>4, <2>2 DEF EventsReachOwner, tables, conns
<1>9. Registered'
  BY <1>1, <1>4 DEF Registered, tables, conns
<1>10. SubscriptionInv'
  BY <1>1 DEF PollerExact, PollerInv, SubscriptionInv, InTable, tables, conns
<1> QED
  BY <1>5, <1>6, <1>7, <1>8, <1>9, <1>10 DEF PollerExact, PollerInv

\* Taking an event out of the batch, and ending the loop over it.
LEMMA DispatchKeeps ==
  ASSUME PollerExact,
         \/ DispatchTimer \/ DispatchAcceptor \/ \E c \in Conns : DispatchConn(c)
         \/ EndDispatch
  PROVE  PollerExact'
<1>1. /\ place = "dispatch"
      /\ UNCHANGED <<tables, conns, queue, net>>
      /\ batch' \subseteq batch
      /\ \/ /\ place' \in {"heartbeat", "accept"}
            /\ UNCHANGED <<full, capacity, handling, todo>>
         \/ /\ place' = "event"
            /\ UNCHANGED <<full, capacity, todo>>
            /\ \E c \in Conns : /\ handling' = <<c, Revents(c)>> /\ Revents(c) # {}
                                /\ \A w \in batch' : w[1] # c
         \/ /\ place' = "pending" /\ todo' = queue /\ full' = FALSE /\ batch' = {}
            /\ capacity' \in {capacity, 2 * capacity}
            /\ UNCHANGED handling
  BY DEF DispatchTimer, DispatchAcceptor, DispatchConn, EndDispatch, Take
<1>2. TypeOK /\ EventsReachOwner /\ Ownership
  BY DEF PollerExact, PollerInv
<1>3. TypeOK'
  <2>1. handling' \in (Conns \cup {Null}) \X SUBSET {"in", "out"}
    <3>1. handling \in (Conns \cup {Null}) \X SUBSET {"in", "out"}
      BY <1>2 DEF TypeOK
    <3>2. \A c \in Conns : Revents(c) \in SUBSET {"in", "out"}
      BY DEF Revents
    <3> QED
      BY <1>1, <3>1, <3>2
  <2>2. full' \in BOOLEAN /\ listening' \in BOOLEAN /\ refused' \in BOOLEAN
    BY <1>1, <1>2 DEF TypeOK, tables, net
  <2>3. todo' \subseteq queue' /\ capacity' \in Nat /\ batch' \subseteq Channels \X {"in", "out"}
    BY <1>1, <1>2 DEF TypeOK
  <2>4. {full', listening', refused'} \subseteq BOOLEAN
    BY <2>2
  <2> QED
    BY <1>1, <1>2, <2>1, <2>3, <2>4 DEF TypeOK, tables, conns, net
<1>4. PlaceInv'
  <2>1. ASSUME NEW c \in Conns, Revents(c) # {}
        PROVE  state[c] # "none"
    BY <1>2, <2>1 DEF Revents, EventsReachOwner, Ownership
  <2>2. place' = "event" => /\ handling'[1] \in Conns /\ state[handling'[1]] # "none"
                            /\ \A w \in batch' : w[1] # handling'[1]
    BY <1>1, <2>1
  <2> QED
    BY <1>1, <2>2 DEF PollerExact, PollerInv, PlaceInv, conns
<1>5. Ownership' /\ EventsReachOwner' /\ Registered'
  BY <1>1, TablesKept DEF conns, net
<1>6. SubscriptionInv'
  BY <1>1 DEF PollerExact, PollerInv, SubscriptionInv, InTable, tables, conns
<1> QED
  BY <1>3, <1>4, <1>5, <1>6 DEF PollerExact, PollerInv

\* Steps of the handlers that touch no table.
LEMMA HandlerKeeps ==
  ASSUME PollerAssumption, PollerExact,
         \/ HandleReadData \/ MessageReturns \/ EventReturns \/ HeartbeatReturns
         \/ AcceptFails \/ AcceptDone \/ \E c \in Conns : ForceClose(c)
  PROVE  PollerExact'
<1>1. TypeOK /\ PlaceInv
  BY DEF PollerExact, PollerInv
<1>2. /\ UNCHANGED <<tables, turn, fdOf, todo, listening, others>>
      /\ queue' \in SUBSET Conns /\ queue \subseteq queue'
      /\ input' \in [Conns -> {"none", "data", "eof"}]
      /\ backlog' \in 0..MaxBacklog
      /\ \/ /\ place = "event" /\ place' = "message" /\ state' = state
            /\ handling'[1] = handling[1]
            /\ handling' \in (Conns \cup {Null}) \X SUBSET {"in", "out"}
         \/ place = "message" /\ place' = "event" /\ handling' = handling /\ state' = state
         \/ place = "event" /\ place' = "dispatch" /\ handling' = Idle /\ state' = state
         \/ place \in {"heartbeat", "accept"} /\ place' = "dispatch"
            /\ handling' = handling /\ state' = state
         \/ place = "heartbeat" /\ place' = place /\ handling' = handling
            /\ \E c \in Conns : /\ state[c] = "kConnected"
                                /\ state' = [state EXCEPT ![c] = "kDisconnecting"]
  <2>1. CASE HandleReadData
    BY <1>1, <2>1 DEF HandleReadData, TypeOK, PlaceInv, net, turn
  <2>2. CASE MessageReturns \/ EventReturns \/ HeartbeatReturns \/ AcceptDone
    BY <1>1, <2>2 DEF MessageReturns, EventReturns, HeartbeatReturns, AcceptDone, TypeOK,
                      net, conns
  <2>3. CASE AcceptFails
    BY <1>1, <2>3 DEF AcceptFails, TypeOK, conns, PollerAssumption
  <2>4. CASE \E c \in Conns : ForceClose(c)
    BY <1>1, <2>4 DEF ForceClose, TypeOK, net
  <2> QED
    BY <2>1, <2>2, <2>3, <2>4
<1>3. /\ state' \in [Conns -> {"none", "kConnected", "kDisconnecting", "kDisconnected"}]
      /\ \A c \in Conns : state'[c] = "none" <=> state[c] = "none"
      /\ \A c \in Conns : state'[c] = "kDisconnected" <=> state[c] = "kDisconnected"
      /\ \A c \in Conns : InTable(c)' <=> InTable(c)
  BY <1>1, <1>2 DEF TypeOK, InTable
<1>4. handling' \in (Conns \cup {Null}) \X SUBSET {"in", "out"}
  BY <1>1, <1>2 DEF TypeOK, Idle
<1>5. TypeOK'
  BY <1>1, <1>2, <1>3, <1>4 DEF TypeOK, tables, turn
<1>6. PlaceInv'
  BY <1>1, <1>2, <1>3 DEF PlaceInv, turn
<1>7. Ownership' /\ EventsReachOwner' /\ Registered'
  BY <1>2, <1>3, TablesKept DEF turn
<1>8. SubscriptionInv'
  BY <1>2, <1>3 DEF PollerExact, PollerInv, SubscriptionInv, tables
<1> QED
  BY <1>5, <1>6, <1>7, <1>8 DEF PollerExact, PollerInv

\* The world outside.
LEMMA WorldKeeps ==
  ASSUME PollerAssumption, PollerExact, World
  PROVE  PollerExact'
<1>1. TypeOK /\ Ownership
  BY DEF PollerExact, PollerInv
<1>2. /\ UNCHANGED <<place, tables, turn, fdOf, state, handling, queue, todo, listening>>
      /\ input' \in [Conns -> {"none", "data", "eof"}]
      /\ backlog' \in 0..MaxBacklog
      /\ others' \subseteq Fds
      /\ \A x \in Channels : fdOf[x] \notin others'
  <2>1. CASE ClientConnects
    BY <1>1, <2>1 DEF ClientConnects, TypeOK, Ownership, conns, PollerAssumption
  <2>2. CASE \E c \in Conns : PeerActs(c)
    BY <1>1, <2>2 DEF PeerActs, TypeOK, Ownership, net
  <2>3. CASE OtherOpens
    <3>1. NextFd \in Free
      BY <2>3, NextIsFree DEF OtherOpens
    <3> QED
      BY <1>1, <2>3, <3>1 DEF OtherOpens, TypeOK, Ownership, Free, Open, conns
  <2>4. CASE \E fd \in Fds : OtherCloses(fd)
    BY <1>1, <2>4 DEF OtherCloses, TypeOK, Ownership, conns
  <2> QED
    BY <2>1, <2>2, <2>3, <2>4 DEF World
<1>3. TypeOK'
  BY <1>1, <1>2 DEF TypeOK, tables, turn
<1>4. PlaceInv'
  BY <1>2 DEF PollerExact, PollerInv, PlaceInv, turn
<1>5. Ownership'
  BY <1>1, <1>2 DEF Ownership
<1>6. EventsReachOwner'
  BY <1>2 DEF PollerExact, PollerInv, EventsReachOwner, tables, turn
<1>7. Registered'
  BY <1>2 DEF PollerExact, Registered, tables
<1>8. SubscriptionInv'
  BY <1>2 DEF PollerExact, PollerInv, SubscriptionInv, InTable, tables
<1> QED
  BY <1>3, <1>4, <1>5, <1>6, <1>7, <1>8 DEF PollerExact, PollerInv

-----------------------------------------------------------------------------
\* listen(): the acceptor's channel is registered, or the kernel refuses.
LEMMA ListenKeeps ==
  ASSUME PollerAssumption, PollerExact, Listen
  PROVE  PollerExact'
<1>1. TypeOK /\ PlaceInv /\ SubscriptionInv /\ Ownership /\ EventsReachOwner
  BY DEF PollerExact, PollerInv
<1>2. /\ place = "start" /\ place' = "poll"
      /\ UNCHANGED <<turn, conns, handling, queue, todo, backlog, others>>
  BY DEF Listen
<1>3. "acceptor" \in Channels /\ fdOf["acceptor"] # 0 /\ {"in"} \in SUBSET {"in", "out"}
  BY <1>1, <1>2 DEF PlaceInv, Channels
<1>4. PlaceInv'
  BY <1>1, <1>2 DEF PlaceInv, turn, conns
<1>5. CASE listening' = TRUE /\ Update("acceptor", fdOf["acceptor"], {"in"})
  <2>1. /\ UpdateOf("acceptor", fdOf["acceptor"], {"in"})
        /\ Ownership' /\ EventsReachOwner' /\ Registered'
    BY <1>2, <1>3, <1>5, UpdateKeeps DEF turn, conns
  <2>2. /\ refused' \in BOOLEAN
        /\ channels' \in [Fds -> Channels \cup {Null}]
        /\ interest' \in [Fds -> Registration \cup {Null}]
        /\ events' \in [Channels -> SUBSET {"in", "out"}]
        /\ events'["acceptor"] = {"in"}
        /\ \A x \in Channels : x # "acceptor" => events'[x] = events[x]
    BY <2>1 DEF UpdateOf
  <2>3. {full', listening', refused'} \subseteq BOOLEAN
    BY <1>1, <1>2, <1>5, <2>2 DEF TypeOK, turn
  <2>4. TypeOK'
    BY <1>1, <1>2, <2>2, <2>3 DEF TypeOK, turn, conns
  <2>5. SubscriptionInv'
    BY <1>1, <1>2, <2>2 DEF SubscriptionInv, InTable, conns, Channels, PollerAssumption
  <2> QED
    BY <1>4, <2>1, <2>4, <2>5 DEF PollerExact, PollerInv
<1>6. CASE refused' = TRUE /\ UNCHANGED <<listening, events, channels, interest>>
  <2>1. TypeOK'
    <3>1. {full', listening', refused'} \subseteq BOOLEAN
      BY <1>1, <1>2, <1>6 DEF TypeOK, turn
    <3> QED
      BY <1>1, <1>2, <1>6, <3>1 DEF TypeOK, turn, conns
  <2>2. Ownership' /\ EventsReachOwner' /\ Registered'
    BY <1>1, <1>2, <1>6 DEF Ownership, EventsReachOwner, Registered, turn, conns
  <2>3. SubscriptionInv'
    BY <1>1, <1>2, <1>6 DEF SubscriptionInv, InTable, conns
  <2> QED
    BY <1>4, <2>1, <2>2, <2>3 DEF PollerExact, PollerInv
<1> QED
  BY <1>5, <1>6 DEF Listen

-----------------------------------------------------------------------------
\* A connection of the table changes what it writes: send and handleWrite.
LEMMA ConnUpdated ==
  ASSUME PollerAssumption, PollerExact, NEW c \in Conns, InTable(c),
         NEW E \in SUBSET {"in", "out"}, "in" \in E, Update(c, fdOf[c], E),
         UNCHANGED <<place, turn, conns, queue, todo, net>>,
         handling' \in (Conns \cup {Null}) \X SUBSET {"in", "out"}, handling'[1] = handling[1]
  PROVE  PollerExact'
<1>1. TypeOK /\ PlaceInv /\ SubscriptionInv /\ Ownership
  BY DEF PollerExact, PollerInv
<1>2. c \in Channels /\ fdOf[c] # 0
  BY <1>1 DEF Channels, InTable, Ownership
<1>3. UpdateOf(c, fdOf[c], E) /\ Ownership' /\ EventsReachOwner' /\ Registered'
  BY <1>2, UpdateKeeps DEF turn, conns, net
<1>4. /\ refused' \in BOOLEAN
      /\ channels' \in [Fds -> Channels \cup {Null}]
      /\ interest' \in [Fds -> Registration \cup {Null}]
      /\ events' \in [Channels -> SUBSET {"in", "out"}]
      /\ events'[c] = E
      /\ \A x \in Channels : x # c => events'[x] = events[x]
      /\ refused => refused'
  BY <1>3 DEF UpdateOf
<1>5. TypeOK'
  <2>1. {full', listening', refused'} \subseteq BOOLEAN
    BY <1>1, <1>4 DEF TypeOK, turn, net
  <2> QED
    BY <1>1, <1>4, <2>1 DEF TypeOK, turn, conns, net
<1>6. PlaceInv'
  BY <1>1 DEF PlaceInv, turn, conns
<1>7. SubscriptionInv'
  BY <1>1, <1>4 DEF SubscriptionInv, InTable, conns, Channels, PollerAssumption
<1> QED
  BY <1>3, <1>5, <1>6, <1>7 DEF PollerExact, PollerInv

\* A connection of the table is closed while somebody still owns it.
LEMMA ConnClosed ==
  ASSUME PollerAssumption, PollerExact, NEW c \in Conns, state[c] # "none",
         HandleClose(c, TRUE),
         UNCHANGED <<turn, queue, net>>, todo' \subseteq todo,
         \/ UNCHANGED <<place, handling>>
         \/ place = "event" /\ place' = "dispatch" /\ handling' = Idle
  PROVE  PollerExact'
<1>1. TypeOK /\ PlaceInv /\ SubscriptionInv /\ Ownership
  BY DEF PollerExact, PollerInv
<1>2. /\ state[c] # "kDisconnected" /\ Update(c, fdOf[c], {})
      /\ state' = [state EXCEPT ![c] = "kDisconnected"]
      /\ UNCHANGED <<fdOf, input>>
  BY DEF HandleClose
<1>3. c \in Channels /\ fdOf[c] # 0 /\ events[c] # {}
  BY <1>1, <1>2 DEF Channels, InTable, Ownership, SubscriptionInv, TypeOK
<1>4. /\ state' \in [Conns -> {"none", "kConnected", "kDisconnecting", "kDisconnected"}]
      /\ state'[c] = "kDisconnected" /\ \A d \in Conns : d # c => state'[d] = state[d]
      /\ \A d \in Conns : state'[d] = "none" <=> state[d] = "none"
  BY <1>1, <1>2 DEF TypeOK
<1>5. UpdateOf(c, fdOf[c], {}) /\ Ownership' /\ EventsReachOwner' /\ Registered'
  <2>1. PICK E \in SUBSET {"in", "out"} : E = {}
    OBVIOUS
  <2> QED
    BY <1>2, <1>3, <1>4, <2>1, UpdateKeeps DEF turn, net
<1>6. /\ refused' \in BOOLEAN
      /\ channels' \in [Fds -> Channels \cup {Null}]
      /\ interest' \in [Fds -> Registration \cup {Null}]
      /\ events' \in [Channels -> SUBSET {"in", "out"}]
      /\ events'[c] = {}
      /\ \A x \in Channels : x # c => events'[x] = events[x]
      /\ refused => refused'
  BY <1>5 DEF UpdateOf
<1>7. TypeOK'
  <2>1. {full', listening', refused'} \subseteq BOOLEAN
    BY <1>1, <1>6 DEF TypeOK, turn, net
  <2>2. handling' \in (Conns \cup {Null}) \X SUBSET {"in", "out"}
    BY <1>1 DEF TypeOK, Idle
  <2> QED
    BY <1>1, <1>2, <1>4, <1>6, <2>1, <2>2 DEF TypeOK, turn, net
<1>8. PlaceInv'
  BY <1>1, <1>2, <1>4 DEF PlaceInv, turn
<1>9. SubscriptionInv'
  <2>1. \A d \in Conns : /\ InTable(d)' => "in" \in events'[d]
                         /\ state'[d] = "kDisconnected" => events'[d] = {}
    BY <1>1, <1>4, <1>6 DEF SubscriptionInv, InTable, Channels
  <2>2. \A x \in {"wakeup", "timer", "acceptor"} : events'[x] = events[x]
    BY <1>6 DEF Channels, PollerAssumption
  <2>3. place' = "start" <=> place = "start"
    OBVIOUS
  <2> QED
    BY <1>1, <1>2, <1>6, <2>1, <2>2, <2>3 DEF SubscriptionInv
<1> QED
  BY <1>5, <1>7, <1>8, <1>9 DEF PollerExact, PollerInv

\* A connection nobody owns any more is closed and destroyed by its own event.
LEMMA ConnDestroyed ==
  ASSUME PollerAssumption, PollerExact, NEW c \in Conns, c = handling[1], place = "event",
         HandleClose(c, FALSE), handling' = Idle, place' = "dispatch",
         UNCHANGED <<turn, queue, todo, net>>
  PROVE  PollerExact'
<1>1. TypeOK /\ PlaceInv /\ SubscriptionInv /\ Ownership
  BY DEF PollerExact, PollerInv
<1>2. state[c] # "kDisconnected" /\ UpdateAndClose(c, {}) /\ Destroy({c})
  BY DEF HandleClose
<1>3. /\ c \in Channels /\ state[c] # "none" /\ fdOf[c] # 0
      /\ \A w \in batch : w[1] # c
  BY <1>1 DEF Channels, PlaceInv, Ownership
<1>4. events[c] # {}
  BY <1>1, <1>2, <1>3 DEF InTable, SubscriptionInv, TypeOK
<1>5. /\ fdOf' \in [Channels -> 0..MaxFd]
      /\ fdOf'[c] = 0 /\ \A x \in Channels : x # c => fdOf'[x] = fdOf[x]
  BY <1>1, <1>2, <1>3 DEF Destroy, TypeOK, PollerAssumption
<1>6. /\ state' \in [Conns -> {"none", "kConnected", "kDisconnecting", "kDisconnected"}]
      /\ state'[c] = "none" /\ \A d \in Conns : d # c => state'[d] = state[d]
      /\ input' \in [Conns -> {"none", "data", "eof"}]
  BY <1>1, <1>2 DEF Destroy, TypeOK
<1>7. ClosedOf(c, fdOf[c])
  BY <1>1, <1>2, <1>3, UpdateAndCloseIs
<1>8. Ownership' /\ EventsReachOwner' /\ Registered'
  BY <1>3, <1>4, <1>5, <1>6, <1>7, CloseKeeps DEF turn, net
<1>9. /\ refused' \in BOOLEAN
      /\ channels' \in [Fds -> Channels \cup {Null}]
      /\ interest' \in [Fds -> Registration \cup {Null}]
      /\ events' \in [Channels -> SUBSET {"in", "out"}]
      /\ \A x \in Channels : x # c => events'[x] = events[x]
      /\ refused => refused'
  BY <1>7 DEF ClosedOf
<1>10. \A x \in {"wakeup", "timer", "acceptor"} : x \in Channels /\ x # c
  BY DEF Channels, PollerAssumption
<1>11. TypeOK'
  <2>1. {full', listening', refused'} \subseteq BOOLEAN
    BY <1>1, <1>9 DEF TypeOK, turn, net
  <2>2. handling' \in (Conns \cup {Null}) \X SUBSET {"in", "out"}
    BY DEF Idle
  <2> QED
    BY <1>1, <1>5, <1>6, <1>9, <2>1, <2>2 DEF TypeOK, turn, net
<1>12. PlaceInv'
  BY <1>1, <1>5, <1>10 DEF PlaceInv, turn
<1>13. SubscriptionInv'
  <2>1. \A d \in Conns : /\ InTable(d)' => "in" \in events'[d]
                         /\ state'[d] = "kDisconnected" => events'[d] = {}
    BY <1>1, <1>6, <1>9 DEF SubscriptionInv, InTable, Channels
  <2> QED
    BY <1>1, <1>5, <1>9, <1>10, <2>1 DEF SubscriptionInv
<1> QED
  BY <1>8, <1>11, <1>12, <1>13 DEF PollerExact, PollerInv

\* The handlers that change a connection's registration.
LEMMA ConnKeeps ==
  ASSUME PollerAssumption, PollerExact,
         \/ HandleReadEof \/ HandleWrite
         \/ \E c \in Conns : Send(c) \/ RunForceClose(c) \/ CloseNow(c)
  PROVE  PollerExact'
<1>1. TypeOK /\ PlaceInv /\ SubscriptionInv /\ Ownership
  BY DEF PollerExact, PollerInv
<1>2. CASE HandleReadEof
  <2>1. PICK c \in Conns : c = handling[1] /\ state[c] # "none"
    BY <1>1, <1>2 DEF HandleReadEof, PlaceInv
  <2>2. /\ place = "event" /\ handling' = Idle /\ place' = "dispatch"
        /\ UNCHANGED <<turn, queue, todo, net>>
        /\ HandleClose(c, TRUE) \/ HandleClose(c, FALSE)
    BY <1>2, <2>1 DEF HandleReadEof, HandleClose
  <2>3. CASE HandleClose(c, TRUE)
    BY <2>1, <2>2, <2>3, ConnClosed
  <2>4. CASE HandleClose(c, FALSE)
    BY <2>1, <2>2, <2>4, ConnDestroyed
  <2> QED
    BY <2>2, <2>3, <2>4
<1>3. CASE HandleWrite
  <2>1. PICK c \in Conns : c = handling[1] /\ state[c] # "none"
    BY <1>1, <1>3 DEF HandleWrite, PlaceInv
  <2>2. /\ place = "event" /\ handling' = <<c, {}>>
        /\ UNCHANGED <<place, turn, conns, queue, todo, net>>
        /\ \/ UNCHANGED tables
           \/ state[c] # "kDisconnected" /\ Update(c, fdOf[c], events[c] \ {"out"})
    BY <1>3, <2>1 DEF HandleWrite
  <2>3. handling' \in (Conns \cup {Null}) \X SUBSET {"in", "out"} /\ handling'[1] = handling[1]
    BY <2>1, <2>2
  <2>4. CASE UNCHANGED tables
    <3>1. TypeOK'
      BY <1>1, <2>2, <2>3, <2>4 DEF TypeOK, tables, turn, conns, net
    <3>2. PlaceInv'
      BY <1>1, <2>2, <2>3 DEF PlaceInv, turn, conns
    <3>3. Ownership' /\ EventsReachOwner' /\ Registered'
      BY <2>2, <2>4, TablesKept DEF turn, conns, net
    <3>4. SubscriptionInv'
      BY <1>1, <2>2, <2>4 DEF SubscriptionInv, InTable, tables, conns
    <3> QED
      BY <3>1, <3>2, <3>3, <3>4 DEF PollerExact, PollerInv
  <2>5. CASE state[c] # "kDisconnected" /\ Update(c, fdOf[c], events[c] \ {"out"})
    <3>1. InTable(c)
      BY <1>1, <2>1, <2>5 DEF InTable, TypeOK
    <3>2. PICK E \in SUBSET {"in", "out"} : E = events[c] \ {"out"} /\ "in" \in E
      <4>1. "in" \in events[c] /\ events[c] \in SUBSET {"in", "out"}
        BY <1>1, <3>1 DEF SubscriptionInv, TypeOK, Channels
      <4>2. events[c] \ {"out"} \in SUBSET {"in", "out"} /\ "in" \in events[c] \ {"out"}
        BY <4>1
      <4> QED
        BY <4>2
    <3>3. Update(c, fdOf[c], E)
      BY <2>5, <3>2
    <3> QED
      BY <2>2, <2>3, <3>1, <3>2, <3>3, ConnUpdated
  <2> QED
    BY <2>2, <2>4, <2>5
<1>4. ASSUME NEW c \in Conns, Send(c) PROVE PollerExact'
  <2>1. PICK E \in SUBSET {"in", "out"} : E = events[c] \cup {"out"} /\ "in" \in E
    <3>1. "in" \in events[c] /\ events[c] \in SUBSET {"in", "out"}
      BY <1>1, <1>4 DEF Send, SubscriptionInv, TypeOK, Channels
    <3>2. events[c] \cup {"out"} \in SUBSET {"in", "out"} /\ "in" \in events[c] \cup {"out"}
      BY <3>1
    <3> QED
      BY <3>2
  <2>2. handling' \in (Conns \cup {Null}) \X SUBSET {"in", "out"} /\ handling'[1] = handling[1]
    BY <1>1, <1>4 DEF Send, TypeOK
  <2> QED
    BY <1>4, <2>1, <2>2, ConnUpdated DEF Send
<1>5. ASSUME NEW c \in Conns, RunForceClose(c) PROVE PollerExact'
  <2>1. CASE state[c] = "kDisconnecting" /\ HandleClose(c, TRUE)
    <3>1. /\ UNCHANGED <<place, handling>> /\ UNCHANGED <<turn, queue, net>>
          /\ todo' \subseteq todo /\ state[c] # "none"
      BY <1>5, <2>1 DEF RunForceClose
    <3> QED
      BY <2>1, <3>1, ConnClosed
  <2>2. CASE UNCHANGED <<tables, conns>>
    <3>1. TypeOK'
      BY <1>1, <1>5, <2>2 DEF RunForceClose, TypeOK, tables, turn, conns, net
    <3>2. PlaceInv'
      BY <1>1, <1>5, <2>2 DEF RunForceClose, PlaceInv, turn, conns
    <3>3. Ownership' /\ EventsReachOwner' /\ Registered'
      BY <1>5, <2>2, TablesKept DEF RunForceClose, turn, conns, net
    <3>4. SubscriptionInv'
      BY <1>1, <1>5, <2>2 DEF RunForceClose, SubscriptionInv, InTable, tables, conns
    <3> QED
      BY <3>1, <3>2, <3>3, <3>4 DEF PollerExact, PollerInv
  <2> QED
    BY <1>5, <2>1, <2>2 DEF RunForceClose
<1>6. ASSUME NEW c \in Conns, CloseNow(c) PROVE PollerExact'
  <2>1. /\ UNCHANGED <<place, handling>> /\ UNCHANGED <<turn, queue, net>>
        /\ todo' \subseteq todo /\ state[c] # "none" /\ HandleClose(c, TRUE)
    BY <1>6 DEF CloseNow, InTable
  <2> QED
    BY <2>1, ConnClosed
<1> QED
  BY <1>2, <1>3, <1>4, <1>5, <1>6

-----------------------------------------------------------------------------
\* accept4: the descriptor is nobody's, so neither table has an entry for it.
LEMMA AcceptKeeps ==
  ASSUME PollerAssumption, PollerExact, NEW c \in Conns, Accept(c)
  PROVE  PollerExact'
<1>1. TypeOK /\ PlaceInv /\ SubscriptionInv /\ Ownership /\ EventsReachOwner /\ Registered
  BY DEF PollerExact, PollerInv
<1>2. PICK fd \in Fds : fd = NextFd /\ fd \in Free
  BY NextIsFree DEF Accept, Free
<1>3. /\ place = "accept" /\ backlog > 0 /\ state[c] = "none" /\ backlog' = backlog - 1
      /\ fdOf' = [fdOf EXCEPT ![c] = fd]
      /\ state' = [state EXCEPT ![c] = "kConnected"]
      /\ Update(c, fd, {"in"})
      /\ UNCHANGED <<place, turn, input, handling, queue, todo, listening, others>>
  BY <1>2 DEF Accept
<1>4. /\ c \in Channels /\ fdOf[c] = 0 /\ fd # 0 /\ fd \in 0..MaxFd
      /\ \A x \in Channels : fdOf[x] # fd
      /\ fd \notin others
  BY <1>1, <1>2, <1>3 DEF Free, Open, Fds, Channels, Ownership, PollerAssumption
<1>5. UpdateOf(c, fd, {"in"})
  <2>1. {"in"} \in SUBSET {"in", "out"}
    OBVIOUS
  <2> QED
    BY <1>1, <1>3, <1>4, <2>1, UpdateIs
<1>6. /\ refused' \in BOOLEAN
      /\ channels' \in [Fds -> Channels \cup {Null}]
      /\ interest' \in [Fds -> Registration \cup {Null}]
      /\ events' \in [Channels -> SUBSET {"in", "out"}]
      /\ events'[c] = {"in"}
      /\ \A x \in Channels : x # c => events'[x] = events[x]
      /\ \A f \in Fds : f # fd => channels'[f] = channels[f] /\ interest'[f] = interest[f]
      /\ interest'[fd] \in {interest[fd], Null, <<c, {"in"}>>}
      /\ refused => refused'
      /\ ~refused' /\ channels[fd] = Null => channels'[fd] = c /\ interest'[fd] = <<c, {"in"}>>
  BY <1>5 DEF UpdateOf
<1>7. /\ fdOf' \in [Channels -> 0..MaxFd]
      /\ fdOf'[c] = fd /\ \A x \in Channels : x # c => fdOf'[x] = fdOf[x]
      /\ state' \in [Conns -> {"none", "kConnected", "kDisconnecting", "kDisconnected"}]
      /\ state'[c] = "kConnected" /\ \A d \in Conns : d # c => state'[d] = state[d]
  BY <1>1, <1>3, <1>4 DEF TypeOK
<1>8. \A x \in {"wakeup", "timer", "acceptor"} : x \in Channels /\ x # c
  BY DEF Channels, PollerAssumption
<1>9. TypeOK'
  <2>1. {full', listening', refused'} \subseteq BOOLEAN
    BY <1>1, <1>3, <1>6 DEF TypeOK, turn
  <2>2. backlog' \in 0..MaxBacklog
    BY <1>1, <1>3 DEF TypeOK, PollerAssumption
  <2> QED
    BY <1>1, <1>3, <1>6, <1>7, <2>1, <2>2 DEF TypeOK, turn
<1>10. PlaceInv'
  BY <1>1, <1>3, <1>7, <1>8 DEF PlaceInv, turn
<1>11. Ownership'
  <2>1. \A x, y \in Channels : fdOf'[x] = fdOf'[y] /\ fdOf'[x] # 0 => x = y
    BY <1>1, <1>4, <1>7 DEF Ownership
  <2>2. \A x \in Channels : fdOf'[x] \notin others'
    BY <1>1, <1>3, <1>4, <1>7 DEF Ownership
  <2>3. \A d \in Conns : state'[d] = "none" <=> fdOf'[d] = 0
    BY <1>1, <1>4, <1>7 DEF Ownership, Channels
  <2> QED
    BY <2>1, <2>2, <2>3 DEF Ownership
<1>12. EventsReachOwner'
  <2>1. interest[fd] = Null
    BY <1>1, <1>4 DEF EventsReachOwner, TypeOK, Registration
  <2>2. ASSUME NEW f \in Fds, interest'[f] # Null
        PROVE  fdOf'[interest'[f][1]] = f
    <3>1. CASE f = fd
      BY <1>6, <1>7, <2>1, <2>2, <3>1
    <3>2. CASE f # fd
      <4>1. interest'[f] = interest[f] /\ interest[f][1] \in Channels /\ fdOf[interest[f][1]] = f
        BY <1>1, <1>6, <2>2, <3>2 DEF EventsReachOwner, TypeOK, Registration
      <4>2. interest[f][1] # c
        BY <1>4, <4>1 DEF Fds
      <4> QED
        BY <1>7, <4>1, <4>2
    <3> QED
      BY <3>1, <3>2
  <2>3. \A w \in batch' : fdOf'[w[1]] # 0
    BY <1>1, <1>3, <1>4, <1>7 DEF EventsReachOwner, TypeOK, turn
  <2> QED
    BY <2>2, <2>3 DEF EventsReachOwner
<1>13. Registered'
  <2> SUFFICES ASSUME ~refused'
               PROVE  Registered'
    BY DEF Registered
  <2>1. /\ ~refused
        /\ \A f \in Fds : channels[f] # Null => fdOf[channels[f]] = f
        /\ \A x \in Channels :
             fdOf[x] # 0 => IF events[x] = {}
                            THEN channels[fdOf[x]] = Null /\ interest[fdOf[x]] = Null
                            ELSE /\ channels[fdOf[x]] = x
                                 /\ interest[fdOf[x]] = <<x, events[x]>>
        /\ \A f \in Fds : channels[f] = Null <=> interest[f] = Null
    BY <1>1, <1>6 DEF Registered
  <2>2. channels[fd] = Null
    BY <1>1, <1>4, <2>1 DEF TypeOK
  <2>3. /\ channels'[fd] = c /\ interest'[fd] = <<c, {"in"}>>
        /\ c # Null /\ <<c, {"in"}>> # Null
    BY <1>4, <1>6, <2>2 DEF PollerAssumption, Registration
  <2>4. ASSUME NEW f \in Fds, channels'[f] # Null
        PROVE  fdOf'[channels'[f]] = f
    <3>1. CASE f = fd
      BY <1>7, <2>3, <3>1
    <3>2. CASE f # fd
      <4>1. channels'[f] = channels[f] /\ channels[f] \in Channels /\ fdOf[channels[f]] = f
        BY <1>1, <1>6, <2>1, <2>4, <3>2 DEF TypeOK
      <4>2. channels[f] # c
        BY <1>4, <4>1 DEF Fds
      <4> QED
        BY <1>7, <4>1, <4>2
    <3> QED
      BY <3>1, <3>2
  <2>5. \A f \in Fds : channels'[f] = Null <=> interest'[f] = Null
    BY <1>6, <2>1, <2>3
  <2>6. ASSUME NEW x \in Channels, fdOf'[x] # 0
        PROVE  IF events'[x] = {}
               THEN channels'[fdOf'[x]] = Null /\ interest'[fdOf'[x]] = Null
               ELSE channels'[fdOf'[x]] = x /\ interest'[fdOf'[x]] = <<x, events'[x]>>
    <3>1. CASE x = c
      BY <1>6, <1>7, <2>3, <3>1
    <3>2. CASE x # c
      <4>1. fdOf'[x] = fdOf[x] /\ fdOf[x] \in Fds /\ fdOf[x] # fd /\ events'[x] = events[x]
        BY <1>1, <1>4, <1>6, <1>7, <2>6, <3>2 DEF TypeOK, Fds, PollerAssumption
      <4>2. channels'[fdOf[x]] = channels[fdOf[x]] /\ interest'[fdOf[x]] = interest[fdOf[x]]
        BY <1>6, <4>1
      <4> QED
        BY <2>1, <2>6, <4>1, <4>2
    <3> QED
      BY <3>1, <3>2
  <2> QED
    BY <2>4, <2>5, <2>6 DEF Registered
<1>14. SubscriptionInv'
  <2>1. \A d \in Conns : /\ InTable(d)' => "in" \in events'[d]
                         /\ state'[d] = "kDisconnected" => events'[d] = {}
    BY <1>1, <1>6, <1>7 DEF SubscriptionInv, InTable, Channels
  <2> QED
    BY <1>1, <1>3, <1>6, <1>7, <1>8, <2>1 DEF SubscriptionInv
<1> QED
  BY <1>9, <1>10, <1>11, <1>12, <1>13, <1>14 DEF PollerExact, PollerInv

-----------------------------------------------------------------------------
\* ~TcpConnection of closed connections: the tables have forgotten them, so
\* closing their descriptors takes nothing away from anybody else.
LEMMA DestroyKeeps ==
  ASSUME PollerAssumption, PollerExact, NEW C \in SUBSET Conns,
         \A c \in C : state[c] \in {"none", "kDisconnected"},
         Destroy(C),
         interest' = [fd \in Fds |-> IF \E c \in C : fdOf[c] = fd THEN Null ELSE interest[fd]],
         UNCHANGED <<events, channels, refused, batch, others>>, batch = {}
  PROVE  /\ fdOf' \in [Channels -> 0..MaxFd]
         /\ \A ch \in Channels \ Conns : fdOf'[ch] = fdOf[ch]
         /\ interest' \in [Fds -> Registration \cup {Null}]
         /\ state' \in [Conns -> {"none", "kConnected", "kDisconnecting", "kDisconnected"}]
         /\ \A c \in Conns : state'[c] \in {state[c], "none"}
         /\ input' \in [Conns -> {"none", "data", "eof"}]
         /\ Ownership' /\ EventsReachOwner' /\ Registered'
<1>1. TypeOK /\ SubscriptionInv /\ Ownership /\ EventsReachOwner /\ Registered
  BY DEF PollerExact, PollerInv
<1>2. /\ fdOf' \in [Channels -> 0..MaxFd]
      /\ \A x \in Channels : fdOf'[x] = IF x \in C THEN 0 ELSE fdOf[x]
  BY <1>1 DEF Destroy, TypeOK, PollerAssumption
<1>3. /\ interest' \in [Fds -> Registration \cup {Null}]
      /\ \A f \in Fds : interest'[f] = IF \E c \in C : fdOf[c] = f THEN Null ELSE interest[f]
  BY <1>1 DEF TypeOK
<1>4. /\ state' \in [Conns -> {"none", "kConnected", "kDisconnecting", "kDisconnected"}]
      /\ \A c \in Conns : state'[c] = IF c \in C THEN "none" ELSE state[c]
      /\ input' \in [Conns -> {"none", "data", "eof"}]
  BY <1>1 DEF Destroy, TypeOK
<1>5. \A c \in C : c \in Channels /\ (events[c] = {} \/ fdOf[c] = 0)
  BY <1>1 DEF SubscriptionInv, Ownership, Channels
<1>6. Ownership'
  <2>1. \A x, y \in Channels : fdOf'[x] = fdOf'[y] /\ fdOf'[x] # 0 => x = y
    BY <1>1, <1>2 DEF Ownership
  <2>2. \A x \in Channels : fdOf'[x] \notin others'
    <3>1. 0 \notin others /\ others' = others
      BY <1>1 DEF TypeOK, Fds
    <3> QED
      BY <1>1, <1>2, <3>1 DEF Ownership
  <2>3. \A c \in Conns : state'[c] = "none" <=> fdOf'[c] = 0
    BY <1>1, <1>2, <1>4 DEF Ownership, Channels
  <2> QED
    BY <2>1, <2>2, <2>3 DEF Ownership
<1>7. EventsReachOwner'
  <2>1. ASSUME NEW f \in Fds, interest'[f] # Null
        PROVE  fdOf'[interest'[f][1]] = f
    <3>1. interest'[f] = interest[f] /\ ~\E c \in C : fdOf[c] = f
      BY <1>3, <2>1
    <3>2. interest[f][1] \in Channels /\ fdOf[interest[f][1]] = f
      BY <1>1, <2>1, <3>1 DEF EventsReachOwner, TypeOK, Registration
    <3> QED
      BY <1>2, <3>1, <3>2
  <2> QED
    BY <2>1 DEF EventsReachOwner
<1>8. Registered'
  <2> SUFFICES ASSUME ~refused'
               PROVE  Registered'
    BY DEF Registered
  <2>1. /\ ~refused
        /\ \A f \in Fds : channels[f] # Null => fdOf[channels[f]] = f
        /\ \A x \in Channels :
             fdOf[x] # 0 => IF events[x] = {}
                            THEN channels[fdOf[x]] = Null /\ interest[fdOf[x]] = Null
                            ELSE /\ channels[fdOf[x]] = x
                                 /\ interest[fdOf[x]] = <<x, events[x]>>
        /\ \A f \in Fds : channels[f] = Null <=> interest[f] = Null
    BY <1>1 DEF Registered
  <2>2. ASSUME NEW c \in C, fdOf[c] # 0
        PROVE  channels[fdOf[c]] = Null
    BY <1>5, <2>1, <2>2
  <2>3. ASSUME NEW f \in Fds, channels[f] # Null
        PROVE  fdOf'[channels[f]] = f
    <3>1. channels[f] \in Channels /\ fdOf[channels[f]] = f /\ f # 0
      BY <1>1, <2>1, <2>3 DEF TypeOK, Fds
    <3>2. channels[f] \notin C
      BY <2>2, <2>3, <3>1
    <3> QED
      BY <1>2, <3>1, <3>2
  <2>4. ASSUME NEW f \in Fds
        PROVE  channels[f] = Null <=> interest'[f] = Null
    <3>1. CASE \E c \in C : fdOf[c] = f
      <4>1. f # 0
        BY DEF Fds
      <4> QED
        BY <1>3, <2>2, <3>1, <4>1
    <3>2. CASE ~\E c \in C : fdOf[c] = f
      BY <1>3, <2>1, <3>2
    <3> QED
      BY <3>1, <3>2
  <2>5. ASSUME NEW x \in Channels, fdOf'[x] # 0
        PROVE  IF events[x] = {}
               THEN channels[fdOf'[x]] = Null /\ interest'[fdOf'[x]] = Null
               ELSE channels[fdOf'[x]] = x /\ interest'[fdOf'[x]] = <<x, events[x]>>
    <3>1. x \notin C /\ fdOf'[x] = fdOf[x] /\ fdOf[x] \in Fds
      BY <1>1, <1>2, <2>5 DEF TypeOK, Fds, PollerAssumption
    <3>2. ~\E c \in C : fdOf[c] = fdOf[x]
      BY <1>1, <2>5, <3>1 DEF Ownership, Channels
    <3> QED
      BY <1>3, <2>1, <2>5, <3>1, <3>2
  <2> QED
    BY <2>3, <2>4, <2>5 DEF Registered
<1> QED
  BY <1>2, <1>3, <1>4, <1>6, <1>7, <1>8

\* The end of doPendingFunctors, and of the snapshot in ~Server.
LEMMA ReleaseKeeps ==
  ASSUME PollerAssumption, PollerExact, EndPending \/ CloseDone
  PROVE  PollerExact'
<1>1. TypeOK /\ PlaceInv /\ SubscriptionInv
  BY DEF PollerExact, PollerInv
<1>2. PICK C \in SUBSET Conns :
        /\ \A c \in C : state[c] \in {"none", "kDisconnected"}
        /\ Destroy(C)
        /\ interest' = [fd \in Fds |-> IF \E c \in C : fdOf[c] = fd THEN Null ELSE interest[fd]]
  <2>1. CASE EndPending
    <3> DEFINE C == {c \in queue : state[c] = "kDisconnected"}
    <3>1. C \in SUBSET Conns /\ \A c \in C : state[c] \in {"none", "kDisconnected"}
      BY <1>1 DEF TypeOK
    <3>2. Destroy(C)
      BY <2>1 DEF EndPending
    <3>3. interest' = [fd \in Fds |-> IF \E c \in C : fdOf[c] = fd THEN Null ELSE interest[fd]]
      <4>1. \A fd : (\E c \in queue : state[c] = "kDisconnected" /\ fdOf[c] = fd)
                      <=> (\E c \in C : fdOf[c] = fd)
        OBVIOUS
      <4> HIDE DEF C
      <4> QED
        BY <2>1, <4>1 DEF EndPending
    <3> HIDE DEF C
    <3> QED
      BY <3>1, <3>2, <3>3
  <2>2. CASE CloseDone
    <3>1. \A c \in Conns : state[c] \in {"none", "kDisconnected"}
      BY <1>1, <2>2 DEF CloseDone, InTable, TypeOK
    <3> QED
      BY <2>2, <3>1 DEF CloseDone
  <2> QED
    BY <2>1, <2>2
<1>3. /\ place \in {"pending", "close"} /\ place' \in {"poll", "close", "acceptor"}
      /\ queue' \subseteq queue /\ todo' \subseteq queue' /\ queue' \subseteq Conns
      /\ UNCHANGED <<events, channels, refused, turn, handling, net>>
  BY <1>1 DEF EndPending, CloseDone, TypeOK
<1>4. batch = {}
  BY <1>1, <1>3 DEF PlaceInv
<1>5. /\ fdOf' \in [Channels -> 0..MaxFd]
      /\ \A ch \in Channels \ Conns : fdOf'[ch] = fdOf[ch]
      /\ interest' \in [Fds -> Registration \cup {Null}]
      /\ state' \in [Conns -> {"none", "kConnected", "kDisconnecting", "kDisconnected"}]
      /\ \A c \in Conns : state'[c] \in {state[c], "none"}
      /\ input' \in [Conns -> {"none", "data", "eof"}]
      /\ Ownership' /\ EventsReachOwner' /\ Registered'
  BY <1>2, <1>3, <1>4, DestroyKeeps DEF turn, net
<1>6. \A x \in {"wakeup", "timer", "acceptor"} : x \in Channels \ Conns
  BY DEF Channels, PollerAssumption
<1>7. TypeOK'
  BY <1>1, <1>3, <1>5 DEF TypeOK, turn, net
<1>8. PlaceInv'
  BY <1>1, <1>3, <1>4, <1>5, <1>6 DEF PlaceInv, turn
<1>9. SubscriptionInv'
  <2>1. \A c \in Conns : /\ InTable(c)' => "in" \in events'[c]
                         /\ state'[c] = "kDisconnected" => events'[c] = {}
    BY <1>1, <1>3, <1>5 DEF SubscriptionInv, InTable
  <2> QED
    BY <1>1, <1>3, <1>5, <1>6, <2>1 DEF SubscriptionInv
<1> QED
  BY <1>5, <1>7, <1>8, <1>9 DEF PollerExact, PollerInv

\* ~Acceptor, ~TimerQueue and the eventfd's part of ~EventLoop.
LEMMA DestructorKeeps ==
  ASSUME PollerAssumption, PollerExact, DestroyAcceptor \/ DestroyTimer \/ DestroyWakeup
  PROVE  PollerExact'
<1>1. TypeOK /\ PlaceInv /\ SubscriptionInv
  BY DEF PollerExact, PollerInv
<1>2. PICK ch \in {"acceptor", "timer", "wakeup"} :
        /\ fdOf' = [fdOf EXCEPT ![ch] = 0]
        /\ ClosedOf(ch, fdOf[ch])
        /\ fdOf[ch] # 0
        /\ events[ch] # {} \/ refused
        /\ \/ ch = "acceptor" /\ place = "acceptor" /\ place' = "timer"
           \/ ch = "timer" /\ place = "timer" /\ place' = "wakeup"
           \/ ch = "wakeup" /\ place = "wakeup" /\ place' = "gone"
  <2>1. CASE DestroyAcceptor
    <3>1. "acceptor" \in Channels /\ fdOf["acceptor"] # 0
      BY <1>1, <2>1 DEF DestroyAcceptor, PlaceInv, Channels
    <3>2. ClosedOf("acceptor", fdOf["acceptor"])
      BY <1>1, <2>1, <3>1, UpdateAndCloseIs DEF DestroyAcceptor
    <3>3. events["acceptor"] # {} \/ refused
      BY <1>1, <2>1, <3>1 DEF DestroyAcceptor, SubscriptionInv
    <3> QED
      BY <2>1, <3>1, <3>2, <3>3 DEF DestroyAcceptor
  <2>2. CASE DestroyTimer
    <3>1. "timer" \in Channels /\ fdOf["timer"] # 0
      BY <1>1, <2>2 DEF DestroyTimer, PlaceInv, Channels
    <3>2. ClosedOf("timer", fdOf["timer"])
      BY <1>1, <2>2, <3>1, UpdateAndCloseIs DEF DestroyTimer
    <3>3. events["timer"] # {}
      BY <1>1, <3>1 DEF SubscriptionInv
    <3> QED
      BY <2>2, <3>1, <3>2, <3>3 DEF DestroyTimer
  <2>3. CASE DestroyWakeup
    <3>1. fdOf["wakeup"] # 0
      BY <1>1, <2>3 DEF DestroyWakeup, PlaceInv
    <3>2. ClosedOf("wakeup", fdOf["wakeup"])
      BY <1>1, <2>3, <3>1, DestroyWakeupIs
    <3>3. events["wakeup"] # {}
      BY <1>1, <3>1 DEF SubscriptionInv
    <3> QED
      BY <2>3, <3>1, <3>2, <3>3 DEF DestroyWakeup
  <2> QED
    BY <2>1, <2>2, <2>3
<1>3. /\ UNCHANGED <<turn, state, input, handling, queue, todo, others>>
      /\ listening' \in {listening, FALSE} /\ backlog' \in {backlog, 0}
  BY DEF DestroyAcceptor, DestroyTimer, DestroyWakeup, net
<1>4. ch \in Channels /\ ch \notin Conns
  BY DEF Channels, PollerAssumption
<1>5. /\ fdOf' \in [Channels -> 0..MaxFd]
      /\ fdOf'[ch] = 0 /\ \A x \in Channels : x # ch => fdOf'[x] = fdOf[x]
  BY <1>1, <1>2, <1>4 DEF TypeOK, PollerAssumption
<1>6. batch = {}
  BY <1>1, <1>2 DEF PlaceInv
<1>7. Ownership' /\ EventsReachOwner' /\ Registered'
  BY <1>2, <1>3, <1>4, <1>5, <1>6, CloseKeeps DEF turn
<1>8. /\ refused' \in BOOLEAN
      /\ channels' \in [Fds -> Channels \cup {Null}]
      /\ interest' \in [Fds -> Registration \cup {Null}]
      /\ events' \in [Channels -> SUBSET {"in", "out"}]
      /\ \A x \in Channels : x # ch => events'[x] = events[x]
      /\ refused => refused'
  BY <1>2 DEF ClosedOf
<1>9. TypeOK'
  <2>1. full' \in BOOLEAN /\ listening' \in BOOLEAN
    BY <1>1, <1>3 DEF TypeOK, turn
  <2>2. {full', listening', refused'} \subseteq BOOLEAN
    BY <1>8, <2>1
  <2>3. backlog' \in 0..MaxBacklog
    BY <1>1, <1>3 DEF TypeOK, PollerAssumption
  <2>4. place' \in {"timer", "wakeup", "gone"}
    BY <1>2
  <2> QED
    BY <1>1, <1>3, <1>5, <1>8, <2>2, <2>3, <2>4 DEF TypeOK, turn
<1>10. \A x \in {"wakeup", "timer", "acceptor"} : x \in Channels
  BY DEF Channels
<1>11. PlaceInv'
  BY <1>1, <1>2, <1>3, <1>5, <1>6, <1>10 DEF PlaceInv, turn
<1>12. SubscriptionInv'
  <2>1. \A c \in Conns : /\ InTable(c)' => "in" \in events'[c]
                         /\ state'[c] = "kDisconnected" => events'[c] = {}
    BY <1>1, <1>3, <1>4, <1>8 DEF SubscriptionInv, InTable, Channels
  <2>2. \A x \in {"wakeup", "timer", "acceptor"} :
          fdOf'[x] # 0 => fdOf[x] # 0 /\ events'[x] = events[x]
    BY <1>5, <1>8, <1>10
  <2>3. place # "start" /\ place' # "start"
    BY <1>2
  <2> QED
    BY <1>1, <1>8, <2>1, <2>2, <2>3 DEF SubscriptionInv
<1> QED
  BY <1>7, <1>9, <1>11, <1>12 DEF PollerExact, PollerInv

-----------------------------------------------------------------------------
\* The loop starts with its eventfd and timerfd registered.
LEMMA InitExact ==
  ASSUME PollerAssumption, Init
  PROVE  PollerExact
<1>1. /\ fdOf \in [Channels -> 0..MaxFd]
      /\ fdOf["wakeup"] = 1 /\ fdOf["timer"] = 2 /\ fdOf["acceptor"] = 3
      /\ \A c \in Conns : c \in Channels /\ fdOf[c] = 0
  BY DEF Init, Channels, PollerAssumption
<1>2. /\ events \in [Channels -> SUBSET {"in", "out"}]
      /\ events["wakeup"] = {"in"} /\ events["timer"] = {"in"} /\ events["acceptor"] = {}
  BY DEF Init, Channels
<1>3. /\ 1 \in Fds /\ 2 \in Fds /\ 3 \in Fds /\ 0 \notin Fds
      /\ "wakeup" \in Channels /\ "timer" \in Channels /\ "acceptor" \in Channels
      /\ Null \notin Channels
  BY DEF Fds, Channels, PollerAssumption
<1>4. /\ channels \in [Fds -> Channels \cup {Null}]
      /\ channels[1] = "wakeup" /\ channels[2] = "timer"
      /\ \A f \in Fds : f # 1 /\ f # 2 => channels[f] = Null
  BY <1>3 DEF Init
<1>5. /\ <<"wakeup", {"in"}>> \in Registration /\ <<"timer", {"in"}>> \in Registration
      /\ Null \notin Registration
  BY <1>3 DEF Registration, PollerAssumption
<1>6. \A f \in Fds : interest[f] = IF channels[f] = Null THEN Null ELSE <<channels[f], {"in"}>>
  BY DEF Init
<1>7. /\ interest \in [Fds -> Registration \cup {Null}]
      /\ interest[1] = <<"wakeup", {"in"}>> /\ interest[2] = <<"timer", {"in"}>>
      /\ \A f \in Fds : f # 1 /\ f # 2 => interest[f] = Null
  <2>1. /\ interest[1] = <<"wakeup", {"in"}>> /\ interest[2] = <<"timer", {"in"}>>
        /\ \A f \in Fds : f # 1 /\ f # 2 => interest[f] = Null
    BY <1>3, <1>4, <1>6
  <2>2. interest = [f \in Fds |-> interest[f]]
    BY DEF Init
  <2>3. \A f \in Fds : interest[f] \in Registration \cup {Null}
    BY <1>5, <2>1
  <2> QED
    BY <2>1, <2>2, <2>3
<1>8. TypeOK
  <2>1. handling \in (Conns \cup {Null}) \X SUBSET {"in", "out"}
    BY DEF Init, Idle
  <2>2. /\ state \in [Conns -> {"none", "kConnected", "kDisconnecting", "kDisconnected"}]
        /\ input \in [Conns -> {"none", "data", "eof"}]
    BY DEF Init
  <2>3. {full, listening, refused} \subseteq BOOLEAN
    BY DEF Init
  <2>4. capacity \in Nat /\ backlog \in 0..MaxBacklog
    BY DEF Init, PollerAssumption
  <2> QED
    BY <1>1, <1>2, <1>4, <1>7, <2>1, <2>2, <2>3, <2>4 DEF Init, TypeOK
<1>9. PlaceInv
  BY <1>1 DEF Init, PlaceInv
<1>10. Ownership
  <2>1. \A x, y \in Channels : fdOf[x] = fdOf[y] /\ fdOf[x] # 0 => x = y
    BY <1>1 DEF Channels
  <2> QED
    BY <1>1, <2>1 DEF Init, Ownership
<1>11. EventsReachOwner
  <2>1. \A f \in Fds : interest[f] # Null => fdOf[interest[f][1]] = f
    BY <1>1, <1>7
  <2> QED
    BY <2>1 DEF Init, EventsReachOwner
<1>12. SubscriptionInv
  BY <1>2 DEF Init, SubscriptionInv, InTable
<1>13. Registered
  <2>1. \A f \in Fds : channels[f] # Null => fdOf[channels[f]] = f
    BY <1>1, <1>4
  <2>2. \A f \in Fds : channels[f] = Null <=> interest[f] = Null
    BY <1>3, <1>4, <1>5, <1>7
  <2>3. \A x \in Channels :
          fdOf[x] # 0 => IF events[x] = {}
                         THEN channels[fdOf[x]] = Null /\ interest[fdOf[x]] = Null
                         ELSE channels[fdOf[x]] = x /\ interest[fdOf[x]] = <<x, events[x]>>
    BY <1>1, <1>2, <1>3, <1>4, <1>7 DEF Channels
  <2> QED
    BY <2>1, <2>2, <2>3 DEF Registered
<1> QED
  BY <1>8, <1>9, <1>10, <1>11, <1>12, <1>13 DEF PollerExact, PollerInv

\* Every step keeps the tables exact.
LEMMA StepExact ==
  ASSUME PollerAssumption, PollerExact, [Next]_vars
  PROVE  PollerExact'
<1>1. CASE Loop
  BY <1>1, ListenKeeps, EpollWaitKeeps, DispatchKeeps, HandlerKeeps, ConnKeeps, AcceptKeeps,
     ReleaseKeeps DEF Loop
<1>2. CASE Callbacks
  BY <1>2, ConnKeeps, HandlerKeeps DEF Callbacks
<1>3. CASE Destructors
  BY <1>3, ConnKeeps, ReleaseKeeps, DestructorKeeps DEF Destructors
<1>4. CASE World
  BY <1>4, WorldKeeps
<1>5. CASE UNCHANGED vars
  <2>1. TypeOK'
    BY <1>5 DEF PollerExact, PollerInv, TypeOK, vars, tables, turn, conns, net
  <2>2. PlaceInv' /\ SubscriptionInv'
    BY <1>5 DEF PollerExact, PollerInv, PlaceInv, SubscriptionInv, InTable,
                vars, tables, turn, conns
  <2>3. Ownership' /\ EventsReachOwner' /\ Registered'
    BY <1>5, TablesKept DEF vars, turn, conns, net
  <2> QED
    BY <2>1, <2>2, <2>3 DEF PollerExact, PollerInv
<1> QED
  BY <1>1, <1>2, <1>3, <1>4, <1>5 DEF Next

\* For any number of connections and descriptors, whatever the kernel refuses
\* and however descriptors are closed and reused within a turn: every
\* registration of epfd_ belongs to the object that owns its descriptor, no two
\* objects share one, and EventLoop::loop() dispatches no event of its batch to
\* an object a handler of the same turn has destroyed.
THEOREM EventsFindTheirOwner == Spec => []PollerInv
<1>1. Init => PollerExact
  BY PollerAssumption, InitExact
<1>2. PollerExact /\ [Next]_vars => PollerExact'
  BY PollerAssumption, StepExact
<1>3. PollerExact => PollerInv
  BY DEF PollerExact
<1> QED
  BY <1>1, <1>2, <1>3, PTL DEF Spec

\* As long as no ADD and no listen() has failed, updateChannel and removeChannel
\* keep channels_, the kernel's interest list and the events_ of every channel
\* in agreement: no entry survives the object it points to.
THEOREM TablesAgree == Spec => []Registered
<1>1. Init => PollerExact
  BY PollerAssumption, InitExact
<1>2. PollerExact /\ [Next]_vars => PollerExact'
  BY PollerAssumption, StepExact
<1>3. PollerExact => Registered
  BY DEF PollerExact
<1> QED
  BY <1>1, <1>2, <1>3, PTL DEF Spec
=============================================================================
