--------------------------- MODULE SingleFlightLock ---------------------------
(***************************************************************************)
(* The single-flight lock: one flock(2) lockfile per model endpoint, with  *)
(* a FIFO ticket directory in front of it and a priority directory for the *)
(* dashboard's chat.  The lock has three implementations that share the    *)
(* files: src/src/single-flight-lock.js (worker lanes), the bash twin      *)
(* acquire_single_flight_lock (reviewers, apply) and the Python twin       *)
(* (dashboard).  One instance of this module is one key.                   *)
(*                                                                         *)
(* A process is a pid.  A restarted daemon is another member of Lanes, so  *)
(* a dead process stays dead.                                              *)
(*                                                                         *)
(* Ticket names start with the millisecond they were drawn in, so they     *)
(* sort chronologically; two drawn in the same millisecond sort by pid and *)
(* random suffix, that is, either way.  `before` is that sort order.       *)
(*                                                                         *)
(* The age rule of the ticket sweep (older than twice the acquire timeout) *)
(* is not modelled: a live waiter leaves at its timeout, so the rule only  *)
(* removes tickets of dead pids, which the liveness rule removes anyway.   *)
(***************************************************************************)
EXTENDS Naturals

CONSTANTS Lanes,        \* pids that queue with a ticket (node and bash callers)
          Chats,        \* pids that poll the lockfile directly (Python callers)
          Inheriting,   \* bash lanes: the lock fd is inherited by their children
          Nobody,
          MaxDepth      \* bound on nested acquires by one process

ASSUME LaneAssumption == /\ Inheriting \subseteq Lanes
                         /\ Lanes \cap Chats = {}
                         /\ Nobody \notin Lanes \cup Chats
                         /\ MaxDepth \in Nat \ {0}

Procs == Lanes \cup Chats

VARIABLES pc,        \* where each process is in acquire / release
          tickets,   \* lanes whose ticket file is in the queue directory
          before,    \* <<p, q>>: p's ticket name sorts before q's
          thisMs,    \* lanes that drew their name in the current millisecond
          owner,     \* process whose open file description holds the flock
          depth,     \* held.get(lockPath).depth of each lane, 0 if no entry
          fresh,     \* chats with a fresh marker in .discuss-waiting/
          elders     \* history: tickets already there when p drew its name

vars == <<pc, tickets, before, thisMs, owner, depth, fresh, elders>>

LanePc == {"idle", "backoff", "named", "queued", "head", "granted", "holding", "dead"}
ChatPc == {"idle", "polling", "holding", "dead"}

TypeOK == /\ pc \in [Procs -> LanePc \cup ChatPc]
          /\ \A p \in Lanes : pc[p] \in LanePc
          /\ \A c \in Chats : pc[c] \in ChatPc
          /\ tickets \subseteq Lanes
          /\ before \subseteq Lanes \X Lanes
          /\ thisMs \subseteq Lanes
          /\ owner \in Procs \cup {Nobody}
          /\ depth \in [Lanes -> Nat]
          /\ fresh \subseteq Chats
          /\ elders \in [Lanes -> SUBSET Lanes]

Init == /\ pc = [p \in Procs |-> "idle"]
        /\ tickets = {}
        /\ before = {}
        /\ thisMs = {}
        /\ owner = Nobody
        /\ depth = [p \in Lanes |-> 0]
        /\ fresh = {}
        /\ elders = [p \in Lanes |-> {}]

-----------------------------------------------------------------------------
(* Ticket names *)

Named == {p \in Lanes : pc[p] \in {"named", "queued", "head", "granted"}} \cup tickets

\* The places a name drawn now can take: after every earlier millisecond, and
\* anywhere among the names of this one.  `ties` are those it sorts before.
TiesOf(ties) == /\ ties \subseteq thisMs \cap Named
                /\ \A q \in ties, r \in (thisMs \cap Named) \ ties : <<q, r>> \notin before

\* readdirSync(qdir).sort()[0] is p's own ticket, among the tickets in ts.
IsHead(p, ts) == \A q \in ts \ {p} : <<p, q>> \in before

DeadTickets == {p \in tickets : pc[p] = "dead"}

\* p's ticket file is gone: forget its name.
ForgetNames(ps) == /\ tickets' = tickets \ ps
                   /\ before' = {b \in before : b[1] \notin ps /\ b[2] \notin ps}
                   /\ thisMs' = thisMs \ ps
                   /\ elders' = [q \in Lanes |-> IF q \in ps THEN {} ELSE elders[q] \ ps]

Goto(p, label) == pc' = [pc EXCEPT ![p] = label]

-----------------------------------------------------------------------------
(* Slips that the mutation runs put in place of the definitions below      *)

\* `flock -w`'s exit status is ignored: a missed attempt counts as a grant.
MissCountsAsGrant(p) ==
  /\ pc[p] = "head"
  /\ owner # Nobody
  /\ Goto(p, "granted")
  /\ UNCHANGED <<tickets, before, thisMs, owner, depth, fresh, elders>>

\* The acquire loop never sweeps, and a dead ticket at the head blocks it.
PollWithoutSweep(p) ==
  /\ pc[p] = "queued"
  /\ Goto(p, IF IsHead(p, tickets) THEN "head" ELSE "queued")
  /\ UNCHANGED <<tickets, before, thisMs, owner, depth, fresh, elders>>

\* The head of the line is not checked at all, as before the ticket queue.
PollWithoutLine(p) ==
  /\ pc[p] = "queued"
  /\ ForgetNames(DeadTickets)
  /\ Goto(p, "head")
  /\ UNCHANGED <<owner, depth, fresh>>

\* The ticket is removed on success only, not in a finally.
TimeoutKeepsTicket(p) ==
  /\ \/ pc[p] = "queued"
     \/ pc[p] = "head" /\ owner # Nobody
  /\ Goto(p, "idle")
  /\ UNCHANGED <<tickets, before, thisMs, owner, depth, fresh, elders>>

\* Each inner release closes the fd instead of counting down.
TokenClosesFd(p) ==
  /\ pc[p] = "holding"
  /\ depth[p] > 1
  /\ depth' = [depth EXCEPT ![p] = @ - 1]
  /\ owner' = Nobody
  /\ UNCHANGED <<pc, tickets, before, thisMs, fresh, elders>>

\* The released entry stays in `held`, so its handle can be released again.
ReleaseKeepsEntry(p) ==
  /\ pc[p] = "holding"
  /\ depth' = [depth EXCEPT ![p] = @ - 1]
  /\ owner' = Nobody
  /\ UNCHANGED <<pc, tickets, before, thisMs, fresh, elders>>

-----------------------------------------------------------------------------
(* acquire(): a lane with no entry in its `held` map *)

Begin(p) == /\ pc[p] = "idle"
            /\ Goto(p, "backoff")
            /\ UNCHANGED <<tickets, before, thisMs, owner, depth, fresh, elders>>

\* The lane yields while a chat marker is fresh, or until the backoff deadline;
\* then it reads the clock and composes its ticket name.
DrawName(p, pastDeadline) ==
  /\ pc[p] = "backoff"
  /\ fresh = {} \/ pastDeadline
  /\ \E ties \in SUBSET thisMs :
       /\ TiesOf(ties)
       /\ before' = before \cup {<<q, p>> : q \in Named \ ties} \cup {<<p, q>> : q \in ties}
  /\ thisMs' = thisMs \cup {p}
  /\ elders' = [elders EXCEPT ![p] = tickets \ thisMs]
  /\ Goto(p, "named")
  /\ UNCHANGED <<tickets, owner, depth, fresh>>

NextMillisecond == /\ thisMs # {}
                   /\ thisMs' = {}
                   /\ UNCHANGED <<pc, tickets, before, owner, depth, fresh, elders>>

WriteTicket(p) == /\ pc[p] = "named"
                  /\ tickets' = tickets \cup {p}
                  /\ Goto(p, "queued")
                  /\ UNCHANGED <<before, thisMs, owner, depth, fresh, elders>>

\* One turn of the acquire loop: sweep dead tickets, then look for our own at
\* the head of what is left.
Poll(p) == /\ pc[p] = "queued"
           /\ ForgetNames(DeadTickets)
           /\ Goto(p, IF IsHead(p, tickets \ DeadTickets) THEN "head" ELSE "queued")
           /\ UNCHANGED <<owner, depth, fresh>>

FlockGranted(p) == /\ pc[p] = "head"
                   /\ owner = Nobody
                   /\ owner' = p
                   /\ depth' = [depth EXCEPT ![p] = 1]
                   /\ Goto(p, "granted")
                   /\ UNCHANGED <<tickets, before, thisMs, fresh, elders>>

\* `flock -w` gave up after its attempt window: back to the queue check.
FlockMissed(p) == /\ pc[p] = "head"
                  /\ owner # Nobody
                  /\ Goto(p, "queued")
                  /\ UNCHANGED <<tickets, before, thisMs, owner, depth, fresh, elders>>

\* The overall deadline passed: the ticket goes (finally) and acquire throws.
AcquireTimesOut(p) == /\ \/ pc[p] = "queued"
                         \/ pc[p] = "head" /\ owner # Nobody
                      /\ ForgetNames({p})
                      /\ Goto(p, "idle")
                      /\ UNCHANGED <<owner, depth, fresh>>

RemoveTicket(p) == /\ pc[p] = "granted"
                   /\ ForgetNames({p})
                   /\ Goto(p, "holding")
                   /\ UNCHANGED <<owner, depth, fresh>>

-----------------------------------------------------------------------------
(* Reentrant acquires nest inside withLock, so handles are released in the *)
(* reverse of the order they were taken in.                                *)

Reenter(p) == /\ pc[p] = "holding"
              /\ depth[p] < MaxDepth
              /\ depth' = [depth EXCEPT ![p] = @ + 1]
              /\ UNCHANGED <<pc, tickets, before, thisMs, owner, fresh, elders>>

ReleaseToken(p) == /\ pc[p] = "holding"
                   /\ depth[p] > 1
                   /\ depth' = [depth EXCEPT ![p] = @ - 1]
                   /\ UNCHANGED <<pc, tickets, before, thisMs, owner, fresh, elders>>

Release(p) == /\ pc[p] = "holding"
              /\ depth[p] = 1
              /\ depth' = [depth EXCEPT ![p] = 0]
              /\ owner' = Nobody
              /\ Goto(p, "idle")
              /\ UNCHANGED <<tickets, before, thisMs, fresh, elders>>

\* SIGKILL.  The ticket stays behind.  The kernel closes the process's fds; a
\* bash lane's children still have the lock fd open.
Kill(p) == /\ pc[p] # "dead"
           /\ owner' = IF owner = p /\ p \notin Inheriting THEN Nobody ELSE owner
           /\ depth' = [depth EXCEPT ![p] = 0]
           /\ Goto(p, "dead")
           /\ UNCHANGED <<tickets, before, thisMs, fresh, elders>>

OrphanExits(p) == /\ pc[p] = "dead"
                  /\ owner = p
                  /\ owner' = Nobody
                  /\ UNCHANGED <<pc, tickets, before, thisMs, depth, fresh, elders>>

-----------------------------------------------------------------------------
(* The Python twin: a marker, then a poll of the lockfile, no ticket *)

ChatBegin(c) == /\ pc[c] = "idle"
                /\ fresh' = fresh \cup {c}
                /\ Goto(c, "polling")
                /\ UNCHANGED <<tickets, before, thisMs, owner, depth, elders>>

\* acquire() drops its marker once it has the lock; a chat turn (priority_marker)
\* keeps one for the whole turn.
ChatGranted(c, turn) == /\ pc[c] = "polling"
                        /\ owner = Nobody
                        /\ owner' = c
                        /\ fresh' = IF turn THEN fresh ELSE fresh \ {c}
                        /\ Goto(c, "holding")
                        /\ UNCHANGED <<tickets, before, thisMs, depth, elders>>

ChatTimesOut(c) == /\ pc[c] = "polling"
                   /\ owner # Nobody
                   /\ fresh' = fresh \ {c}
                   /\ Goto(c, "idle")
                   /\ UNCHANGED <<tickets, before, thisMs, owner, depth, elders>>

ChatRelease(c) == /\ pc[c] = "holding"
                  /\ owner' = Nobody
                  /\ fresh' = fresh \ {c}
                  /\ Goto(c, "idle")
                  /\ UNCHANGED <<tickets, before, thisMs, depth, elders>>

ChatKill(c) == /\ pc[c] # "dead"
               /\ owner' = IF owner = c THEN Nobody ELSE owner
               /\ Goto(c, "dead")
               /\ UNCHANGED <<tickets, before, thisMs, depth, fresh, elders>>

\* A marker not touched for 15 s no longer counts.
MarkerLapses(c) == /\ c \in fresh
                   /\ fresh' = fresh \ {c}
                   /\ UNCHANGED <<pc, tickets, before, thisMs, owner, depth, elders>>

-----------------------------------------------------------------------------
LaneStep(p) == \/ Begin(p) \/ DrawName(p, TRUE) \/ DrawName(p, FALSE) \/ WriteTicket(p)
               \/ Poll(p) \/ FlockGranted(p) \/ FlockMissed(p) \/ AcquireTimesOut(p)
               \/ RemoveTicket(p) \/ Reenter(p) \/ ReleaseToken(p) \/ Release(p)
               \/ Kill(p) \/ OrphanExits(p)

ChatStep(c) == \/ ChatBegin(c) \/ ChatGranted(c, TRUE) \/ ChatGranted(c, FALSE)
               \/ ChatTimesOut(c) \/ ChatRelease(c) \/ ChatKill(c) \/ MarkerLapses(c)

Next == \/ \E p \in Lanes : LaneStep(p)
        \/ \E c \in Chats : ChatStep(c)
        \/ NextMillisecond

Spec == Init /\ [][Next]_vars

\* What the code and the kernel owe a lane: its own loop keeps running, the
\* backoff deadline arrives, nested sections end, a holder releases, orphaned
\* model calls end, and a lane asleep in flock(2) is not overlooked for ever.
\* Nobody owes it a timeout, a crash or a new request.
Fairness ==
  /\ \A p \in Lanes : /\ WF_vars(DrawName(p, TRUE))
                      /\ WF_vars(WriteTicket(p))
                      /\ WF_vars(Poll(p))
                      /\ SF_vars(FlockGranted(p))
                      /\ WF_vars(FlockMissed(p))
                      /\ WF_vars(RemoveTicket(p))
                      /\ SF_vars(Release(p))
                      /\ WF_vars(ReleaseToken(p))
                      /\ WF_vars(OrphanExits(p))
  /\ \A c \in Chats : /\ WF_vars(ChatGranted(c, FALSE))
                      /\ WF_vars(ChatRelease(c))
  /\ WF_vars(NextMillisecond)

FairSpec == Spec /\ Fairness

-----------------------------------------------------------------------------
(* Properties *)

\* The process is inside the section the lock protects, or work it started
\* there outlived it.
Using(p) == \/ pc[p] \in {"granted", "holding"}
            \/ pc[p] = "dead" /\ owner = p

\* At most one process's work runs under a key at any time, whatever the mix
\* of node, bash and Python callers, nested acquires, timeouts and kills: two
\* model calls never overlap on one endpoint.
MutualExclusion == \A p, q \in Procs : Using(p) /\ Using(q) => p = q

\* A live lane owns the flock exactly as long as it has a handle to give back:
\* an inner release never frees it and the outer one never leaks it.
HandlesKeepTheLock ==
  \A p \in Lanes : pc[p] # "dead" => (owner = p <=> depth[p] > 0)

\* A ticket in the directory belongs to a caller still inside acquire or to a
\* dead pid: no return path of acquire leaves one that would block the line.
NoTicketLeft == \A p \in tickets : pc[p] \in {"queued", "head", "granted", "dead"}

\* FIFO: a lane that reaches the flock has been preceded by every lane whose
\* ticket was already in the directory, from an earlier millisecond, when it
\* drew its own (they were served, gave up or died).  Chats take no ticket.
FifoService == \A p \in Lanes : pc[p] \in {"head", "granted"} => elders[p] = {}

\* Once the dashboard stops asking, a lane that asked is served, times out or
\* dies: no dead ticket, killed holder or orphaned child blocks the line for
\* ever.  While chats keep coming nothing bounds how often they cut the line.
LanesServedOnceChatsRest ==
  (\A c \in Chats : <>[](pc[c] \in {"idle", "dead"}))
    => \A p \in Lanes : pc[p] \in {"backoff", "named", "queued", "head"}
                           ~> pc[p] \in {"granted", "idle", "dead"}

\* Every behaviour of the lock is a behaviour of the abstract mutex, with the
\* open file description as its holder.
phaseBar == [p \in Procs |->
               CASE pc[p] = "idle" -> "out"
                 [] pc[p] \in {"backoff", "named", "queued", "head", "polling"} -> "wanting"
                 [] pc[p] \in {"granted", "holding"} -> "in"
                 [] pc[p] = "dead" -> "dead"]

Abstract == INSTANCE Mutex WITH phase <- phaseBar, holder <- owner

ImplementsMutex == Abstract!Spec

=============================================================================
