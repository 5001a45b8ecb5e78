----------------------- MODULE SingleFlightLockProofs -----------------------
(***************************************************************************)
(* Proofs about the single-flight lock for every set of lanes and chats:   *)
(* type correctness, mutual exclusion, handle accounting, first-come       *)
(* service, a line that always has a head, and that the lock implements    *)
(* the abstract mutex.                                                     *)
(***************************************************************************)
EXTENDS SingleFlightLock, FiniteSetTheorems, TLAPS

\* Whoever is inside the section owns the flock, and a live owner is inside.
OwnerInside ==
  /\ \A p \in Procs : pc[p] \in {"granted", "holding"} => owner = p
  /\ \A p \in Procs : owner = p => pc[p] \in {"granted", "holding", "dead"}
  /\ \A c \in Chats : owner = c => pc[c] = "holding"

\* The held map has an entry exactly for the lanes inside.
HeldWhileInside ==
  \A p \in Lanes : depth[p] > 0 <=> pc[p] \in {"granted", "holding"}

LockInv == TypeOK /\ OwnerInside /\ HeldWhileInside

\* A lane outside the queue has no ticket and no name.
OutsideUnnamed ==
  \A p \in Lanes : pc[p] \in {"idle", "backoff", "holding"} =>
    /\ p \notin tickets
    /\ \A b \in before : b[1] # p /\ b[2] # p

NoTicketBeforeWrite == \A p \in Lanes : pc[p] = "named" => p \notin tickets

Asymmetric == \A p, q \in Lanes : ~(<<p, q>> \in before /\ <<q, p>> \in before)

\* The elders of a lane still in the directory sort before it.
EldersSortBefore ==
  \A p \in Lanes : \A q \in elders[p] : q \in tickets /\ <<q, p>> \in before

QueueInv == /\ LockInv
            /\ OutsideUnnamed
            /\ NoTicketBeforeWrite
            /\ Asymmetric
            /\ EldersSortBefore
            /\ FifoService

-----------------------------------------------------------------------------
(* Exclusion *)

\* The initial state satisfies the lock invariant.
LEMMA InitLock == Init => LockInv
  BY LaneAssumption DEF Init, LockInv, TypeOK, OwnerInside, HeldWhileInside, Procs, LanePc, ChatPc

\* Each step of a lane preserves the lock invariant.
LEMMA LaneLock ==
  ASSUME NEW p \in Lanes, LockInv, LaneStep(p)
  PROVE  LockInv'
<1> USE LaneAssumption DEF LockInv, TypeOK, OwnerInside, HeldWhileInside, Procs, LanePc, ChatPc, Goto
<1>1. CASE Begin(p)
  BY <1>1 DEF Begin
<1>2. ASSUME NEW late \in BOOLEAN, DrawName(p, late)
      PROVE  LockInv'
  <2>1. before' \subseteq Lanes \X Lanes
    BY <1>2 DEF DrawName, TiesOf, Named
  <2>2. elders' \in [Lanes -> SUBSET Lanes]
    BY <1>2 DEF DrawName
  <2> QED BY <1>2, <2>1, <2>2 DEF DrawName
<1>3. CASE WriteTicket(p)
  BY <1>3 DEF WriteTicket
<1>4. CASE Poll(p)
  BY <1>4 DEF Poll, ForgetNames, DeadTickets
<1>5. CASE FlockGranted(p)
  BY <1>5 DEF FlockGranted
<1>6. CASE FlockMissed(p)
  BY <1>6 DEF FlockMissed
<1>7. CASE AcquireTimesOut(p)
  BY <1>7 DEF AcquireTimesOut, ForgetNames
<1>8. CASE RemoveTicket(p)
  BY <1>8 DEF RemoveTicket, ForgetNames
<1>9. CASE Reenter(p)
  BY <1>9 DEF Reenter
<1>10. CASE ReleaseToken(p)
  BY <1>10 DEF ReleaseToken
<1>11. CASE Release(p)
  BY <1>11 DEF Release
<1>12. CASE Kill(p)
  BY <1>12 DEF Kill
<1>13. CASE OrphanExits(p)
  BY <1>13 DEF OrphanExits
<1> QED BY <1>1, <1>2, <1>3, <1>4, <1>5, <1>6, <1>7, <1>8, <1>9, <1>10, <1>11, <1>12, <1>13
        DEF LaneStep

\* Each step of a chat preserves the lock invariant.
LEMMA ChatLock ==
  ASSUME NEW c \in Chats, LockInv, ChatStep(c)
  PROVE  LockInv'
<1> USE LaneAssumption DEF LockInv, TypeOK, OwnerInside, HeldWhileInside, Procs, LanePc, ChatPc, Goto
<1>1. CASE ChatBegin(c)
  BY <1>1 DEF ChatBegin
<1>2. ASSUME NEW turn \in BOOLEAN, ChatGranted(c, turn)
      PROVE  LockInv'
  BY <1>2 DEF ChatGranted
<1>3. CASE ChatTimesOut(c)
  BY <1>3 DEF ChatTimesOut
<1>4. CASE ChatRelease(c)
  BY <1>4 DEF ChatRelease
<1>5. CASE ChatKill(c)
  BY <1>5 DEF ChatKill
<1>6. CASE MarkerLapses(c)
  BY <1>6 DEF MarkerLapses
<1> QED BY <1>1, <1>2, <1>3, <1>4, <1>5, <1>6 DEF ChatStep

\* Every step preserves the lock invariant.
LEMMA NextLock == LockInv /\ [Next]_vars => LockInv'
<1> SUFFICES ASSUME LockInv, [Next]_vars PROVE LockInv'
  OBVIOUS
<1>1. CASE NextMillisecond
  BY <1>1 DEF NextMillisecond, LockInv, TypeOK, OwnerInside, HeldWhileInside
<1>2. CASE UNCHANGED vars
  BY <1>2 DEF vars, LockInv, TypeOK, OwnerInside, HeldWhileInside
<1> QED BY <1>1, <1>2, LaneLock, ChatLock DEF Next

\* The lock invariant holds in every reachable state.
THEOREM LockInvariant == Spec => []LockInv
<1> QED BY InitLock, NextLock, PTL DEF Spec

\* Every variable of the lock keeps its type.
THEOREM TypeCorrect == Spec => []TypeOK
<1>1. LockInv => TypeOK
  BY DEF LockInv
<1> QED BY <1>1, LockInvariant, PTL

\* Two processes' work never runs under one key at the same time.
THEOREM Exclusion == Spec => []MutualExclusion
<1>1. LockInv => MutualExclusion
  BY DEF LockInv, OwnerInside, MutualExclusion, Using
<1> QED BY <1>1, LockInvariant, PTL

\* A live lane owns the flock exactly while it has a handle to release.
THEOREM HandleAccounting == Spec => []HandlesKeepTheLock
<1>1. LockInv => HandlesKeepTheLock
  BY DEF LockInv, TypeOK, OwnerInside, HeldWhileInside, HandlesKeepTheLock, Procs
<1> QED BY <1>1, LockInvariant, PTL

-----------------------------------------------------------------------------
(* First-come service *)

\* The initial state satisfies the queue invariant.
LEMMA InitQueue == Init => QueueInv
<1> SUFFICES ASSUME Init PROVE QueueInv
  OBVIOUS
<1>1. LockInv
  BY InitLock
<1>2. OutsideUnnamed /\ NoTicketBeforeWrite /\ Asymmetric /\ EldersSortBefore /\ FifoService
  BY LaneAssumption DEF Init, Procs, OutsideUnnamed, NoTicketBeforeWrite, Asymmetric,
       EldersSortBefore, FifoService
<1> QED BY <1>1, <1>2 DEF QueueInv

\* Forgetting the names of some lanes disturbs no other lane's place.
LEMMA ForgetKeepsOrder ==
  ASSUME QueueInv, NEW ps \in SUBSET Lanes, ForgetNames(ps)
  PROVE  /\ Asymmetric'
         /\ EldersSortBefore'
         /\ \A p \in Lanes \ ps : elders[p] = {} => elders'[p] = {}
         /\ \A p \in ps : p \notin tickets' /\ \A b \in before' : b[1] # p /\ b[2] # p
         /\ \A b \in before' : b \in before
         /\ tickets' \subseteq tickets
<1> USE DEF QueueInv, LockInv, TypeOK, ForgetNames
<1>1. Asymmetric'
  BY DEF Asymmetric
<1>2. EldersSortBefore'
  <2> SUFFICES ASSUME NEW p \in Lanes, NEW q \in elders'[p]
               PROVE  q \in tickets' /\ <<q, p>> \in before'
    BY DEF EldersSortBefore
  <2>1. p \notin ps /\ q \in elders[p] /\ q \notin ps
    OBVIOUS
  <2>2. q \in tickets /\ <<q, p>> \in before
    BY <2>1 DEF EldersSortBefore
  <2> QED BY <2>1, <2>2
<1> QED BY <1>1, <1>2

\* Drawing a name puts the lane after every ticket of an earlier millisecond.
LEMMA DrawKeepsOrder ==
  ASSUME QueueInv, NEW p \in Lanes, NEW late \in BOOLEAN, DrawName(p, late)
  PROVE  Asymmetric' /\ EldersSortBefore'
<1> USE LaneAssumption DEF QueueInv, LockInv, TypeOK, Procs
<1>1. /\ pc[p] = "backoff"
      /\ p \notin tickets
      /\ \A b \in before : b[1] # p /\ b[2] # p
  BY DEF DrawName, OutsideUnnamed
<1>2. p \notin Named
  BY <1>1 DEF Named
<1>3. PICK ties \in SUBSET thisMs :
        /\ TiesOf(ties)
        /\ before' = before \cup {<<q, p>> : q \in Named \ ties} \cup {<<p, q>> : q \in ties}
  BY DEF DrawName
<1>4. /\ tickets' = tickets
      /\ elders' = [elders EXCEPT ![p] = tickets \ thisMs]
  BY DEF DrawName
<1>5. Asymmetric'
  <2> SUFFICES ASSUME NEW a \in Lanes, NEW b \in Lanes,
                      <<a, b>> \in before', <<b, a>> \in before'
               PROVE  FALSE
    BY DEF Asymmetric
  <2>1. p \notin ties
    BY <1>2, <1>3 DEF TiesOf
  <2>2. CASE a # p /\ b # p
    <3>1. <<a, b>> \in before /\ <<b, a>> \in before
      BY <2>2, <1>3
    <3> QED BY <3>1 DEF Asymmetric
  <2>3. CASE a = p
    <3>1. <<p, b>> \notin before /\ <<b, p>> \notin before
      BY <1>1
    <3>2. <<b, p>> \in {<<q, p>> : q \in Named \ ties} \cup {<<p, q>> : q \in ties}
      BY <2>3, <1>3, <3>1
    <3>3. <<p, b>> \in {<<q, p>> : q \in Named \ ties} \cup {<<p, q>> : q \in ties}
      BY <2>3, <1>3, <3>1
    <3>4. b # p
      BY <3>2, <1>2, <2>1
    <3> QED BY <3>2, <3>3, <3>4
  <2>4. CASE b = p
    <3>1. <<p, a>> \notin before /\ <<a, p>> \notin before
      BY <1>1
    <3>2. <<a, p>> \in {<<q, p>> : q \in Named \ ties} \cup {<<p, q>> : q \in ties}
      BY <2>4, <1>3, <3>1
    <3>3. <<p, a>> \in {<<q, p>> : q \in Named \ ties} \cup {<<p, q>> : q \in ties}
      BY <2>4, <1>3, <3>1
    <3>4. a # p
      BY <3>2, <1>2, <2>1
    <3> QED BY <3>2, <3>3, <3>4
  <2> QED BY <2>2, <2>3, <2>4
<1>6. EldersSortBefore'
  <2> SUFFICES ASSUME NEW r \in Lanes, NEW q \in elders'[r]
               PROVE  q \in tickets' /\ <<q, r>> \in before'
    BY DEF EldersSortBefore
  <2>1. CASE r # p
    BY <2>1, <1>3, <1>4 DEF EldersSortBefore
  <2>2. CASE r = p
    <3>1. q \in tickets /\ q \notin thisMs
      BY <2>2, <1>4
    <3>2. q \in Named \ ties
      BY <3>1 DEF Named
    <3> QED BY <2>2, <3>1, <3>2, <1>3, <1>4
  <2> QED BY <2>1, <2>2
<1> QED BY <1>5, <1>6

\* Reaching the head of the line means that no elder's ticket is left in it.
LEMMA HeadHasNoElders ==
  ASSUME QueueInv, NEW p \in Lanes, Poll(p), pc'[p] = "head"
  PROVE  elders'[p] = {}
<1> USE LaneAssumption DEF QueueInv, LockInv, TypeOK, Procs
<1>1. IsHead(p, tickets \ DeadTickets)
  BY DEF Poll, Goto
<1>2. elders'[p] \subseteq elders[p] \ DeadTickets
  BY DEF Poll, ForgetNames
<1>3. ASSUME NEW q \in elders'[p]
      PROVE  FALSE
  <2>1. q \in tickets \ DeadTickets /\ <<q, p>> \in before
    BY <1>2, <1>3 DEF EldersSortBefore
  <2>2. q # p
    BY <2>1 DEF Asymmetric
  <2>3. <<p, q>> \in before
    BY <1>1, <2>1, <2>2 DEF IsHead
  <2> QED BY <2>1, <2>3 DEF Asymmetric
<1> QED BY <1>3

\* Each step of a lane preserves the queue invariant.
LEMMA LaneQueue ==
  ASSUME NEW p \in Lanes, QueueInv, LaneStep(p)
  PROVE  QueueInv'
<1> USE LaneAssumption DEF Procs, Goto
<1>0. LockInv' /\ TypeOK
  BY LaneLock DEF QueueInv, LockInv
<1> DEFINE Line == OutsideUnnamed /\ NoTicketBeforeWrite
           Order == Asymmetric /\ EldersSortBefore
<1> SUFFICES Line' /\ Order' /\ FifoService'
  BY <1>0 DEF QueueInv
<1>a. Line /\ Order /\ FifoService /\ QueueInv
  BY DEF QueueInv
<1>1. CASE Begin(p)
  BY <1>1, <1>0, <1>a DEF Begin, TypeOK, OutsideUnnamed, NoTicketBeforeWrite, Asymmetric, EldersSortBefore, FifoService
<1>2. ASSUME NEW late \in BOOLEAN, DrawName(p, late)
      PROVE  Line' /\ Order' /\ FifoService'
  <2>1. Order'
    BY <1>2, <1>a, DrawKeepsOrder
  <2>2. p \notin tickets /\ pc[p] = "backoff"
    BY <1>2, <1>a DEF DrawName, OutsideUnnamed
  <2>3. OutsideUnnamed'
    <3> SUFFICES ASSUME NEW r \in Lanes, pc'[r] \in {"idle", "backoff", "holding"}
                 PROVE  r \notin tickets' /\ \A b \in before' : b[1] # r /\ b[2] # r
      BY DEF OutsideUnnamed
    <3>1. r # p /\ pc'[r] = pc[r]
      BY <1>2, <1>0 DEF DrawName, TypeOK
    <3>2. r \notin tickets /\ r \notin Named /\ \A b \in before : b[1] # r /\ b[2] # r
      BY <3>1, <1>a DEF OutsideUnnamed, Named
    <3> QED BY <1>2, <3>1, <3>2 DEF DrawName, TiesOf
  <2>4. NoTicketBeforeWrite'
    BY <1>2, <1>0, <1>a, <2>2 DEF DrawName, NoTicketBeforeWrite, TypeOK
  <2>5. FifoService'
    BY <1>2, <1>0, <1>a DEF DrawName, FifoService, TypeOK
  <2> QED BY <2>1, <2>3, <2>4, <2>5
<1>3. CASE WriteTicket(p)
  BY <1>3, <1>0, <1>a DEF WriteTicket, TypeOK, OutsideUnnamed, NoTicketBeforeWrite, Asymmetric, EldersSortBefore, FifoService
<1>4. CASE Poll(p)
  <2>1. DeadTickets \in SUBSET Lanes
    BY <1>0 DEF DeadTickets, TypeOK
  <2>2. /\ ForgetNames(DeadTickets)
        /\ pc[p] = "queued"
        /\ pc' = [pc EXCEPT ![p] = pc'[p]]
        /\ pc'[p] \in {"head", "queued"}
    BY <1>4, <1>0 DEF Poll, TypeOK
  <2>3. /\ Order'
        /\ \A r \in Lanes \ DeadTickets : elders[r] = {} => elders'[r] = {}
        /\ \A b \in before' : b \in before
        /\ tickets' \subseteq tickets
    BY <2>1, <2>2, <1>a, ForgetKeepsOrder
  <2>4. Line'
    BY <2>2, <2>3, <1>0, <1>a DEF OutsideUnnamed, NoTicketBeforeWrite, TypeOK
  <2>5. pc'[p] = "head" => elders'[p] = {}
    BY <1>4, <1>a, HeadHasNoElders
  <2>6. \A r \in Lanes \ {p} : pc'[r] = pc[r]
    BY <2>2, <1>0 DEF TypeOK
  <2>7. FifoService'
    BY <2>2, <2>3, <2>5, <2>6, <1>a DEF FifoService, DeadTickets
  <2> QED BY <2>3, <2>4, <2>7
<1>5. CASE FlockGranted(p)
  BY <1>5, <1>0, <1>a DEF FlockGranted, TypeOK, OutsideUnnamed, NoTicketBeforeWrite, Asymmetric, EldersSortBefore, FifoService
<1>6. CASE FlockMissed(p)
  BY <1>6, <1>0, <1>a DEF FlockMissed, TypeOK, OutsideUnnamed, NoTicketBeforeWrite, Asymmetric, EldersSortBefore, FifoService
<1>7. CASE AcquireTimesOut(p) \/ RemoveTicket(p)
  <2>1. /\ ForgetNames({p})
        /\ pc' = [pc EXCEPT ![p] = pc'[p]]
        /\ pc'[p] \in {"idle", "holding"}
    BY <1>7, <1>0 DEF AcquireTimesOut, RemoveTicket, TypeOK
  <2>2. /\ Order'
        /\ \A r \in Lanes \ {p} : elders[r] = {} => elders'[r] = {}
        /\ p \notin tickets' /\ \A b \in before' : b[1] # p /\ b[2] # p
        /\ \A b \in before' : b \in before
        /\ tickets' \subseteq tickets
    BY <2>1, <1>a, ForgetKeepsOrder
  <2>3. \A r \in Lanes \ {p} : pc'[r] = pc[r]
    BY <2>1, <1>0 DEF TypeOK
  <2>4. Line'
    BY <2>1, <2>2, <2>3, <1>a DEF OutsideUnnamed, NoTicketBeforeWrite
  <2>5. FifoService'
    BY <2>1, <2>2, <2>3, <1>a DEF FifoService
  <2> QED BY <2>2, <2>4, <2>5
<1>9. CASE Reenter(p)
  BY <1>9, <1>a DEF Reenter, OutsideUnnamed, NoTicketBeforeWrite, Asymmetric, EldersSortBefore, FifoService
<1>10. CASE ReleaseToken(p)
  BY <1>10, <1>a DEF ReleaseToken, OutsideUnnamed, NoTicketBeforeWrite, Asymmetric, EldersSortBefore, FifoService
<1>11. CASE Release(p)
  BY <1>11, <1>0, <1>a DEF Release, TypeOK, OutsideUnnamed, NoTicketBeforeWrite, Asymmetric, EldersSortBefore, FifoService
<1>12. CASE Kill(p)
  BY <1>12, <1>0, <1>a DEF Kill, TypeOK, OutsideUnnamed, NoTicketBeforeWrite, Asymmetric, EldersSortBefore, FifoService
<1>13. CASE OrphanExits(p)
  BY <1>13, <1>a DEF OrphanExits, OutsideUnnamed, NoTicketBeforeWrite, Asymmetric, EldersSortBefore, FifoService
<1> QED BY <1>1, <1>2, <1>3, <1>4, <1>5, <1>6, <1>7, <1>9, <1>10, <1>11, <1>12, <1>13
        DEF LaneStep

\* Every step preserves the queue invariant: chats and time touch no ticket.
LEMMA NextQueue == QueueInv /\ [Next]_vars => QueueInv'
<1> SUFFICES ASSUME QueueInv, [Next]_vars PROVE QueueInv'
  OBVIOUS
<1>1. LockInv'
  BY NextLock DEF QueueInv
<1>2. ASSUME NEW c \in Chats, ChatStep(c)
      PROVE  QueueInv'
  <2>1. /\ \A p \in Lanes : pc'[p] = pc[p]
        /\ UNCHANGED <<tickets, before, elders>>
    BY <1>2, LaneAssumption DEF ChatStep, ChatBegin, ChatGranted, ChatTimesOut, ChatRelease,
         ChatKill, MarkerLapses, Goto, QueueInv, LockInv, TypeOK, Procs
  <2> QED BY <1>1, <2>1 DEF QueueInv, OutsideUnnamed, NoTicketBeforeWrite, Asymmetric, EldersSortBefore, FifoService
<1>3. CASE NextMillisecond \/ UNCHANGED vars
  BY <1>1, <1>3 DEF NextMillisecond, vars, QueueInv, OutsideUnnamed, NoTicketBeforeWrite, Asymmetric,
       EldersSortBefore, FifoService
<1> QED BY <1>2, <1>3, LaneQueue DEF Next

\* A lane that reaches the flock overtakes no ticket it found in the directory
\* from an earlier millisecond.
THEOREM FirstCome == Spec => []FifoService
<1>1. QueueInv => FifoService
  BY DEF QueueInv
<1> QED BY <1>1, InitQueue, NextQueue, PTL DEF Spec

\* No return path of acquire leaves a ticket of a living process in the directory.
THEOREM TicketsAreTidied == Spec => []NoTicketLeft
<1>1. QueueInv => NoTicketLeft
  BY DEF QueueInv, LockInv, TypeOK, OutsideUnnamed, NoTicketBeforeWrite, NoTicketLeft, LanePc
<1> QED BY <1>1, InitQueue, NextQueue, PTL DEF Spec

-----------------------------------------------------------------------------
(* The line has a head *)

\* The names of the tickets, written or about to be, are in a strict order, those
\* of earlier milliseconds first.
LineOrder ==
  /\ \A p, q \in Named : p # q => <<p, q>> \in before \/ <<q, p>> \in before
  /\ \A p, q, r \in Named :
       <<p, q>> \in before /\ <<q, r>> \in before => <<p, r>> \in before
  /\ \A p \in Named \ thisMs, q \in Named \cap thisMs : <<p, q>> \in before

\* The order of names that stay is not touched.
LEMMA OrderStays ==
  ASSUME LineOrder, Named' \subseteq Named,
         \A p, q \in Named' : <<p, q>> \in before' <=> <<p, q>> \in before,
         \/ thisMs' = {}
         \/ \A p \in Named' : p \in thisMs' <=> p \in thisMs
  PROVE  LineOrder'
<1>1. \A p, q \in Named' : p # q => <<p, q>> \in before' \/ <<q, p>> \in before'
  BY DEF LineOrder
<1>2. \A p, q, r \in Named' :
        <<p, q>> \in before' /\ <<q, r>> \in before' => <<p, r>> \in before'
  BY DEF LineOrder
<1>3. \A p \in Named' \ thisMs', q \in Named' \cap thisMs' : <<p, q>> \in before'
  BY DEF LineOrder
<1> QED BY <1>1, <1>2, <1>3 DEF LineOrder

\* Forgotten names leave the line.
LEMMA ForgetStays ==
  ASSUME LineOrder, NEW ps, ForgetNames(ps), Named' \subseteq Named \ ps
  PROVE  LineOrder'
<1>1. \A p, q \in Named' : <<p, q>> \in before' <=> <<p, q>> \in before
  BY DEF ForgetNames
<1>2. \A p \in Named' : p \in thisMs' <=> p \in thisMs
  BY DEF ForgetNames
<1> QED BY <1>1, <1>2, OrderStays

\* A name drawn now goes behind every earlier millisecond, and somewhere among
\* the names of its own.
LEMMA DrawnInOrder ==
  ASSUME QueueInv, LineOrder, NEW p \in Lanes, NEW late \in BOOLEAN, DrawName(p, late)
  PROVE  LineOrder'
<1>1. PICK ties \in SUBSET thisMs :
        /\ TiesOf(ties)
        /\ before' = before \cup {<<q, p>> : q \in Named \ ties} \cup {<<p, q>> : q \in ties}
  BY DEF DrawName
<1>2. /\ p \notin Named
      /\ \A b \in before : b[1] # p /\ b[2] # p
  BY DEF DrawName, QueueInv, OutsideUnnamed, Named
<1>3. Named' = Named \cup {p} /\ thisMs' = thisMs \cup {p}
  <2>1. pc' = [pc EXCEPT ![p] = "named"] /\ tickets' = tickets /\ pc[p] = "backoff"
    BY DEF DrawName, Goto
  <2>2. DOMAIN pc = Procs /\ p \in Procs
    BY DEF QueueInv, LockInv, TypeOK, Procs
  <2> QED BY <2>1, <2>2 DEF Named, DrawName, Procs
<1>4. \A a, b \in Named : <<a, b>> \in before' <=> <<a, b>> \in before
  BY <1>1, <1>2
<1>5. \A a \in Named : /\ <<a, p>> \in before' <=> a \notin ties
                       /\ <<p, a>> \in before' <=> a \in ties
  <2> TAKE a \in Named
  <2>1. <<a, p>> \notin before /\ <<p, a>> \notin before /\ a # p
    BY <1>2
  <2> QED BY <1>1, <2>1
<1>6. <<p, p>> \notin before'
  <2>1. <<p, p>> \notin before
    BY <1>2
  <2>2. p \notin ties
    BY <1>1, <1>2 DEF TiesOf
  <2> QED BY <1>1, <1>2, <2>1, <2>2
<1>7. ties \subseteq Named /\ ties \subseteq thisMs
  BY <1>1 DEF TiesOf
<1>8. \A a, b \in Named : a \in ties /\ b \notin ties => <<b, a>> \in before
  <2> SUFFICES ASSUME NEW a \in Named, NEW b \in Named, a \in ties, b \notin ties
               PROVE  <<b, a>> \in before
    OBVIOUS
  <2>1. CASE b \notin thisMs
    BY <1>7, <2>1 DEF LineOrder
  <2>2. CASE b \in thisMs
    <3>1. <<a, b>> \notin before
      BY <1>1, <2>2 DEF TiesOf
    <3> QED BY <3>1 DEF LineOrder
  <2> QED BY <2>1, <2>2
<1>9. \A a, b \in Named : ~(<<a, b>> \in before /\ <<b, a>> \in before)
  BY DEF QueueInv, LockInv, TypeOK, Asymmetric, Named
<1>10. \A a, b \in Named' : a # b => <<a, b>> \in before' \/ <<b, a>> \in before'
  <2> SUFFICES ASSUME NEW a \in Named', NEW b \in Named', a # b
               PROVE  <<a, b>> \in before' \/ <<b, a>> \in before'
    OBVIOUS
  <2>1. CASE a # p /\ b # p
    BY <1>3, <1>4, <2>1 DEF LineOrder
  <2>2. CASE a = p \/ b = p
    BY <1>3, <1>5, <2>2
  <2> QED BY <2>1, <2>2
<1>11. ASSUME NEW a \in Named', NEW b \in Named', NEW c \in Named',
              <<a, b>> \in before', <<b, c>> \in before'
       PROVE  <<a, c>> \in before'
  <2>1. CASE a # p /\ b # p /\ c # p
    BY <1>3, <1>4, <1>11, <2>1 DEF LineOrder
  <2>2. CASE a = p
    <3>1. b \in Named /\ b \in ties
      BY <1>3, <1>5, <1>6, <1>11, <2>2
    <3>2. c # p
      BY <1>5, <1>11, <3>1
    <3>3. c \in ties
      BY <1>3, <1>4, <1>8, <1>9, <1>11, <3>1, <3>2
    <3> QED BY <1>3, <1>5, <2>2, <3>2, <3>3
  <2>3. CASE c = p
    <3>1. b \in Named /\ b \notin ties
      BY <1>3, <1>5, <1>6, <1>11, <2>3
    <3>2. a # p
      BY <1>5, <1>11, <3>1
    <3>3. a \notin ties
      BY <1>3, <1>4, <1>8, <1>9, <1>11, <3>1, <3>2
    <3> QED BY <1>3, <1>5, <2>3, <3>2, <3>3
  <2>4. CASE b = p
    <3>1. a \in Named /\ c \in Named /\ a \notin ties /\ c \in ties
      BY <1>3, <1>5, <1>6, <1>11, <2>4
    <3> QED BY <1>4, <1>8, <3>1
  <2> QED BY <2>1, <2>2, <2>3, <2>4
<1>12. ASSUME NEW a \in Named' \ thisMs', NEW b \in Named' \cap thisMs'
       PROVE  <<a, b>> \in before'
  <2>1. a \in Named \ thisMs
    BY <1>3
  <2>2. CASE b = p
    BY <1>5, <1>7, <2>1, <2>2
  <2>3. CASE b # p
    BY <1>3, <1>4, <2>1, <2>3 DEF LineOrder
  <2> QED BY <2>2, <2>3
<1> QED BY <1>10, <1>11, <1>12 DEF LineOrder

\* Every step keeps the line in order: other steps only take names out of it.
LEMMA NextOrder ==
  ASSUME QueueInv, LineOrder, [Next]_vars
  PROVE  LineOrder'
<1>a. /\ DOMAIN pc = Procs /\ Lanes \subseteq Procs /\ Lanes \cap Chats = {}
      /\ tickets \subseteq Lanes
  BY LaneAssumption DEF QueueInv, LockInv, TypeOK, Procs
<1>1. ASSUME NEW p \in Lanes, LaneStep(p) PROVE LineOrder'
  <2>1. ASSUME NEW late \in BOOLEAN, DrawName(p, late) PROVE LineOrder'
    BY <2>1, DrawnInOrder
  <2>2. CASE Poll(p)
    <3>1. Named' \subseteq Named \ DeadTickets
      BY <1>a, <2>2 DEF Poll, Goto, ForgetNames, Named, DeadTickets
    <3> QED BY <2>2, <3>1, ForgetStays DEF Poll
  <2>3. CASE AcquireTimesOut(p) \/ RemoveTicket(p)
    <3>1. Named' \subseteq Named \ {p}
      BY <1>a, <2>3 DEF AcquireTimesOut, RemoveTicket, Goto, ForgetNames, Named
    <3> QED BY <2>3, <3>1, ForgetStays DEF AcquireTimesOut, RemoveTicket
  <2>4. CASE \/ Begin(p) \/ WriteTicket(p) \/ FlockGranted(p) \/ FlockMissed(p) \/ Reenter(p)
             \/ ReleaseToken(p) \/ Release(p) \/ Kill(p) \/ OrphanExits(p)
    <3>1. before' = before /\ thisMs' = thisMs
      BY <2>4 DEF Begin, WriteTicket, FlockGranted, FlockMissed, Reenter, ReleaseToken, Release,
           Kill, OrphanExits
    <3>2. Named' \subseteq Named
      BY <1>a, <2>4 DEF Begin, WriteTicket, FlockGranted, FlockMissed, Reenter, ReleaseToken,
           Release, Kill, OrphanExits, Goto, Named
    <3> QED BY <3>1, <3>2, OrderStays
  <2> QED BY <1>1, <2>1, <2>2, <2>3, <2>4 DEF LaneStep
<1>2. ASSUME NEW c \in Chats, ChatStep(c) PROVE LineOrder'
  <2>1. /\ \A p \in Lanes : pc'[p] = pc[p]
        /\ UNCHANGED <<tickets, before, thisMs>>
    BY <1>a, <1>2 DEF ChatStep, ChatBegin, ChatGranted, ChatTimesOut, ChatRelease, ChatKill,
         MarkerLapses, Goto
  <2>2. Named' = Named
    BY <2>1 DEF Named
  <2> QED BY <2>1, <2>2, OrderStays
<1>3. CASE NextMillisecond \/ UNCHANGED vars
  <2>1. Named' = Named /\ before' = before /\ (thisMs' = {} \/ thisMs' = thisMs)
    BY <1>3 DEF NextMillisecond, vars, Named
  <2> QED BY <2>1, OrderStays
<1> QED BY <1>1, <1>2, <1>3 DEF Next

\* A finite strict order has a first element in every set that is not empty.
LEMMA HasFirst ==
  ASSUME NEW S, IsFiniteSet(S), S # {}, NEW R,
         \A a, b \in S : a # b => <<a, b>> \in R \/ <<b, a>> \in R,
         \A a, b \in S : ~(<<a, b>> \in R /\ <<b, a>> \in R),
         \A a, b, c \in S : <<a, b>> \in R /\ <<b, c>> \in R => <<a, c>> \in R
  PROVE  \E a \in S : \A b \in S \ {a} : <<a, b>> \in R
<1> DEFINE Below(a) == {b \in S : <<b, a>> \in R}
           T == {Below(a) : a \in S}
<1>1. IsWellFoundedOn(StrictSubsetOrdering(S), FiniteSubsetsOf(S))
  BY FS_StrictSubsetOrderingWellFounded
<1>2. T \subseteq FiniteSubsetsOf(S) /\ T # {}
  <2>1. T # {}
    <3>1. PICK a \in S : TRUE
      OBVIOUS
    <3>2. Below(a) \in T
      BY <3>1
    <3> HIDE DEF T
    <3> QED BY <3>2
  <2>3. T \subseteq SUBSET S
    <3>1. \A a \in S : Below(a) \in SUBSET S
      OBVIOUS
    <3> QED BY <3>1
  <2>2. FiniteSubsetsOf(S) = SUBSET S
    BY FS_FiniteSubsetsOfFinite
  <2> QED BY <2>1, <2>2, <2>3
<1>3. PICK x \in T : \A y \in T : <<y, x>> \notin StrictSubsetOrdering(S)
  <2> HIDE DEF T
  <2> QED BY <1>1, <1>2, WFMin
<1>4. PICK a \in S : x = Below(a)
  BY <1>3
<1>5. ASSUME NEW b \in S \ {a} PROVE <<a, b>> \in R
  <2> SUFFICES ASSUME <<b, a>> \in R PROVE FALSE
    OBVIOUS
  <2>1. Below(b) \subseteq Below(a) /\ b \in Below(a) /\ b \notin Below(b)
    OBVIOUS
  <2>2. <<Below(b), x>> \in StrictSubsetOrdering(S)
    BY <1>4, <2>1 DEF StrictSubsetOrdering
  <2> QED BY <1>3, <2>2
<1> QED BY <1>5

\* When lanes stand in the line, one of those alive, and no other, is at its head once
\* the dead are swept: the next turn of its own acquire loop takes it to the flock, or it
\* is there already.  So nothing but the flock's owner can hold up the line, however
\* many names were drawn in one millisecond: lanes never wait for each other in a circle.
LineHasAHead ==
  LET alive == tickets \ DeadTickets
  IN  alive # {} => \E p \in alive : /\ pc[p] \in {"queued", "head", "granted"}
                                    /\ IsHead(p, alive)
                                    /\ \A q \in alive \ {p} : ~IsHead(q, alive)

THEOREM LineNeverJams == ASSUME IsFiniteSet(Lanes) PROVE Spec => []LineHasAHead
<1>1. QueueInv /\ LineOrder => LineHasAHead
  <2> SUFFICES ASSUME QueueInv, LineOrder PROVE LineHasAHead
    OBVIOUS
  <2> DEFINE alive == tickets \ DeadTickets
  <2> SUFFICES ASSUME alive # {}
               PROVE  \E p \in alive : /\ pc[p] \in {"queued", "head", "granted"}
                                      /\ IsHead(p, alive)
                                      /\ \A q \in alive \ {p} : ~IsHead(q, alive)
    BY DEF LineHasAHead
  <2>1. alive \subseteq Named /\ alive \subseteq Lanes
    BY DEF QueueInv, LockInv, TypeOK, Named
  <2>2. IsFiniteSet(alive)
    BY <2>1, FS_Subset
  <2>3. \A a, b \in alive : ~(<<a, b>> \in before /\ <<b, a>> \in before)
    BY <2>1 DEF QueueInv, Asymmetric
  <2>4. /\ \A a, b \in alive : a # b => <<a, b>> \in before \/ <<b, a>> \in before
        /\ \A a, b, c \in alive :
             <<a, b>> \in before /\ <<b, c>> \in before => <<a, c>> \in before
    BY <2>1 DEF LineOrder
  <2>5. PICK p \in alive : \A q \in alive \ {p} : <<p, q>> \in before
    <3> HIDE DEF alive
    <3> QED BY <2>2, <2>3, <2>4, HasFirst
  <2>6. pc[p] \in {"queued", "head", "granted"}
    BY <2>1 DEF QueueInv, LockInv, TypeOK, OutsideUnnamed, NoTicketBeforeWrite, DeadTickets, LanePc
  <2>7. IsHead(p, alive) /\ \A q \in alive \ {p} : ~IsHead(q, alive)
    BY <2>3, <2>5 DEF IsHead
  <2> QED BY <2>6, <2>7
<1>2. Init => LineOrder
  BY LaneAssumption DEF Init, LineOrder, Named, Procs
<1>3. QueueInv /\ LineOrder /\ [Next]_vars => LineOrder'
  BY NextOrder
<1> QED BY <1>1, <1>2, <1>3, InitQueue, NextQueue, PTL DEF Spec

-----------------------------------------------------------------------------
(* Implementation of the abstract mutex *)

\* What each lane step does to the process's abstract phase.
LEMMA LaneRefines ==
  ASSUME NEW p \in Lanes, LockInv, LaneStep(p)
  PROVE  [Abstract!Next]_(Abstract!vars)
<1> USE LaneAssumption DEF LockInv, TypeOK, OwnerInside, Procs, LanePc, ChatPc
<1> DEFINE To(x) == phaseBar' = [phaseBar EXCEPT ![p] = x]
           Moved == pc' = [pc EXCEPT ![p] = pc'[p]]
<1>0. /\ p \in Procs
      /\ phaseBar \in [Procs -> {"out", "wanting", "in", "dead"}]
  BY DEF phaseBar
<1>a. ASSUME UNCHANGED <<pc, owner>>
      PROVE  UNCHANGED Abstract!vars
  BY <1>a DEF phaseBar, Abstract!vars
<1>1. CASE Begin(p)
  <2>1. phaseBar[p] = "out" /\ To("wanting") /\ owner' = owner
    BY <1>1 DEF Begin, Goto, phaseBar
  <2> QED BY <2>1, <1>0 DEF Abstract!Ask, Abstract!Next
<1>2. CASE \/ DrawName(p, TRUE) \/ DrawName(p, FALSE) \/ WriteTicket(p) \/ Poll(p) \/ FlockMissed(p)
           \/ RemoveTicket(p)
  <2>1. phaseBar' = phaseBar /\ owner' = owner
    BY <1>2 DEF DrawName, WriteTicket, Poll, FlockMissed, RemoveTicket, Goto, phaseBar
  <2> QED BY <2>1 DEF Abstract!vars
<1>3. CASE FlockGranted(p)
  <2>1. phaseBar[p] = "wanting" /\ To("in") /\ owner = Nobody /\ owner' = p
    BY <1>3 DEF FlockGranted, Goto, phaseBar
  <2> QED BY <2>1, <1>0 DEF Abstract!Enter, Abstract!Next
<1>4. CASE AcquireTimesOut(p)
  <2>1. phaseBar[p] = "wanting" /\ To("out") /\ owner' = owner
    BY <1>4 DEF AcquireTimesOut, Goto, phaseBar
  <2> QED BY <2>1, <1>0 DEF Abstract!GiveUp, Abstract!Next
<1>5. CASE Reenter(p) \/ ReleaseToken(p)
  BY <1>5, <1>a DEF Reenter, ReleaseToken
<1>6. CASE Release(p)
  <2>1. phaseBar[p] = "in" /\ To("out") /\ owner' = Nobody
    BY <1>6 DEF Release, Goto, phaseBar
  <2> QED BY <2>1, <1>0 DEF Abstract!Leave, Abstract!Next
<1>7. CASE Kill(p)
  <2>1. phaseBar[p] # "dead" /\ To("dead")
    BY <1>7 DEF Kill, Goto, phaseBar
  <2>2. owner' = owner \/ (owner = p /\ owner' = Nobody)
    BY <1>7 DEF Kill
  <2> QED BY <2>1, <2>2, <1>0 DEF Abstract!Die, Abstract!Next
<1>8. CASE OrphanExits(p)
  <2>1. phaseBar[p] = "dead" /\ phaseBar' = phaseBar /\ owner = p /\ owner' = Nobody
    BY <1>8 DEF OrphanExits, phaseBar
  <2> QED BY <2>1, <1>0 DEF Abstract!OrphanEnds, Abstract!Next
<1> QED BY <1>1, <1>2, <1>3, <1>4, <1>5, <1>6, <1>7, <1>8 DEF LaneStep

\* What each chat step does to the process's abstract phase.
LEMMA ChatRefines ==
  ASSUME NEW c \in Chats, LockInv, ChatStep(c)
  PROVE  [Abstract!Next]_(Abstract!vars)
<1> USE LaneAssumption DEF LockInv, TypeOK, OwnerInside, Procs, LanePc, ChatPc
<1> DEFINE To(x) == phaseBar' = [phaseBar EXCEPT ![c] = x]
<1>0. /\ c \in Procs
      /\ phaseBar \in [Procs -> {"out", "wanting", "in", "dead"}]
  BY DEF phaseBar
<1>1. CASE ChatBegin(c)
  <2>1. phaseBar[c] = "out" /\ To("wanting") /\ owner' = owner
    BY <1>1 DEF ChatBegin, Goto, phaseBar
  <2> QED BY <2>1, <1>0 DEF Abstract!Ask, Abstract!Next
<1>2. ASSUME NEW turn \in BOOLEAN, ChatGranted(c, turn)
      PROVE  [Abstract!Next]_(Abstract!vars)
  <2>1. phaseBar[c] = "wanting" /\ To("in") /\ owner = Nobody /\ owner' = c
    BY <1>2 DEF ChatGranted, Goto, phaseBar
  <2> QED BY <2>1, <1>0 DEF Abstract!Enter, Abstract!Next
<1>3. CASE ChatTimesOut(c)
  <2>1. phaseBar[c] = "wanting" /\ To("out") /\ owner' = owner
    BY <1>3 DEF ChatTimesOut, Goto, phaseBar
  <2> QED BY <2>1, <1>0 DEF Abstract!GiveUp, Abstract!Next
<1>4. CASE ChatRelease(c)
  <2>1. phaseBar[c] = "in" /\ To("out") /\ owner' = Nobody
    BY <1>4 DEF ChatRelease, Goto, phaseBar
  <2> QED BY <2>1, <1>0 DEF Abstract!Leave, Abstract!Next
<1>5. CASE ChatKill(c)
  <2>1. phaseBar[c] # "dead" /\ To("dead")
    BY <1>5 DEF ChatKill, Goto, phaseBar
  <2>2. owner' = owner \/ (owner = c /\ owner' = Nobody)
    BY <1>5 DEF ChatKill
  <2> QED BY <2>1, <2>2, <1>0 DEF Abstract!Die, Abstract!Next
<1>6. CASE MarkerLapses(c)
  BY <1>6 DEF MarkerLapses, phaseBar, Abstract!vars
<1> QED BY <1>1, <1>2, <1>3, <1>4, <1>5, <1>6 DEF ChatStep

\* The lock with its tickets, markers and three languages is a mutex: every
\* step is a step of the abstract specification or leaves its state alone.
THEOREM Implementation == Spec => ImplementsMutex
<1>1. Init => Abstract!Init
  BY LaneAssumption DEF Init, Abstract!Init, phaseBar, Procs
<1>2. LockInv /\ [Next]_vars => [Abstract!Next]_(Abstract!vars)
  <2>1. ASSUME NextMillisecond \/ UNCHANGED vars
        PROVE  UNCHANGED Abstract!vars
    <3>1. pc' = pc /\ owner' = owner
      BY <2>1 DEF NextMillisecond, vars
    <3> QED BY <3>1 DEF phaseBar, Abstract!vars
  <2> QED BY <2>1, LaneRefines, ChatRefines DEF Next
<1> QED BY <1>1, <1>2, LockInvariant, PTL DEF Spec, ImplementsMutex, Abstract!Spec

=============================================================================
