------------------------------ MODULE GpuArbiter ------------------------------
(***************************************************************************)
(* The GPU arbiter: tickets with a priority class in front of the flock of *)
(* one endpoint.  A waiter goes to the flock when no ticket of a higher    *)
(* class exists and none of its own class is earlier; a chat reserves its  *)
(* place for all its turns; the dashboard cancels and kills what is below  *)
(* a chat.  Reviewers in bash take the flock without a ticket, and leave   *)
(* it, when they are killed, to the review that they started.              *)
(*                                                                         *)
(* The flock is what SingleFlightLock promises: one owner, first come      *)
(* first served.  A process is a pid; one that died is replaced by its     *)
(* daemon once nothing names the old pid.  The owner's own update of its   *)
(* ticket is one step, the canceller's is a read and a write.              *)
(***************************************************************************)
EXTENDS Naturals, Sequences, SequencesExt

CONSTANTS Procs,
          Rank,      \* CLASS_RANK of each process: 0 interactive, 1 review, 2 draft, 3 audit
          Placing,   \* processes that hold a place over many acquires
          Outside,   \* processes that take the flock without a ticket
          Nobody,
          MaxEvents  \* bound: calls, sessions, cancellations, deaths and clock jumps

ASSUME ArbiterAssumption ==
  /\ Rank \in [Procs -> 0 .. 3]
  /\ Placing \subseteq Procs /\ Outside \subseteq Procs /\ Placing \cap Outside = {}
  /\ Nobody \notin Procs /\ MaxEvents \in Nat

\* Ticket files by name.  A ghost is a ticket written back after its owner removed it.
Names == Procs \X {"ticket", "place", "ghost"}

VARIABLES pc,
          file,      \* file[n]: the ticket file, and whether it was left untouched for 90 s
          ahead,     \* ahead[p]: names that sort before p's ticket
          last,      \* the name drawn last: the next one may be of the same millisecond
          session,   \* processes between holdPlace and its release
          owner,     \* of the flock
          line,      \* processes blocked in the acquire of the flock
          cli,       \* cancelBelow: names to mark, the one being written, pids to kill
          events, jumped,
          owed       \* history: callers that p found in front of it and that still wait

vars == <<pc, file, ahead, last, session, owner, line, cli, events, jumped, owed>>

File == [there : BOOLEAN, old : BOOLEAN, cancel : BOOLEAN, holding : BOOLEAN]
Gone == [there |-> FALSE, old |-> FALSE, cancel |-> FALSE, holding |-> FALSE]
New  == [Gone EXCEPT !.there = TRUE]

Idle == [todo |-> {}, patch |-> {}, doomed |-> {}]

Init == /\ pc = [p \in Procs |-> "idle"]
        /\ file = [n \in Names |-> Gone]
        /\ ahead = [p \in Procs |-> {}]
        /\ last = {}
        /\ session = {}
        /\ owner = Nobody
        /\ line = <<>>
        /\ cli = Idle
        /\ events = 0
        /\ jumped = FALSE
        /\ owed = [p \in Procs |-> {}]

Ticket(p) == <<p, "ticket">>
Place(p)  == <<p, "place">>
-----------------------------------------------------------------------------
(* Slips that the mutation runs put in place of the definitions below.     *)

\* Tickets that nobody touches any more are not swept.
SweptIfDead(f) == [n \in Names |-> IF pc[n[1]] = "dead" THEN Gone ELSE f[n]]

\* Only a higher class is looked for, not an earlier ticket of the own class.
BlockedByClass(p, f) == \E n \in Names : f[n].there /\ n[1] # p /\ Rank[n[1]] < Rank[p]

\* The ticket is not removed on release.
ReleaseKeepsTicket(p) ==
  /\ pc[p] = "holding"
  /\ owner' = Nobody
  /\ pc' = [pc EXCEPT ![p] = "idle"]
  /\ UNCHANGED <<file, ahead, last, session, line, cli, events, jumped, owed>>

\* A caller whose deadline passes while it is blocked on the flock stays in its line.
TimesOutInLine(p) ==
  /\ pc[p] \in {"waiting", "locking"}
  /\ pc' = [pc EXCEPT ![p] = "idle"]
  /\ file' = [file EXCEPT ![<<p, "ticket">>] = Gone]
  /\ owed' = [q \in Procs |-> owed[q] \ {p}]
  /\ UNCHANGED <<ahead, last, session, owner, line, cli, events, jumped>>
-----------------------------------------------------------------------------
\* liveTickets: what is not fresh or not of a live pid is removed.
Swept(f) == [n \in Names |-> IF f[n].there /\ ~f[n].old /\ pc[n[1]] # "dead" THEN f[n] ELSE Gone]

Touched(f, n) == [f EXCEPT ![n].old = FALSE]

\* higherExists or earlierPeer; tickets of the own pid do not compete.
Blocked(p, f) == \E n \in Names : /\ f[n].there /\ n[1] # p
                                  /\ \/ Rank[n[1]] < Rank[p]
                                     \/ Rank[n[1]] = Rank[p] /\ n \in ahead[p]

Event == events < MaxEvents /\ events' = events + 1

\* A process that is blocked on the flock leaves its line.
LeaveLine(p) == line' = IF pc[p] = "locking" THEN RemoveAt(line, CHOOSE i \in 1 .. Len(line) : line[i] = p)
                        ELSE line

Served(p) == owed' = [q \in Procs |-> owed[q] \ {p}]

\* p unlinks file n.  If the canceller has just read it, what it writes is a ghost.
Unlink(n) ==
  LET ghost == <<n[1], "ghost">>
      hit   == \E r \in cli.patch : r[1] = n
  IN /\ file' = [file EXCEPT ![n] = Gone]
     /\ cli' = [cli EXCEPT !.todo = @ \ {n},
                           !.patch = {IF r[1] = n THEN <<ghost, r[2]>> ELSE r : r \in @}]
     /\ ahead' = [p \in Procs |-> IF hit /\ n \in ahead[p] THEN (ahead[p] \ {n}) \cup {ghost}
                                  ELSE ahead[p] \ {n}]
     /\ last' = last \ {n}

\* p leaves acquire without the lock.
GiveUp(p) == /\ Unlink(Ticket(p))
             /\ pc' = [pc EXCEPT ![p] = "idle"]
             /\ Served(p)
             /\ UNCHANGED <<session, owner, events, jumped>>

OpenPlace(p) ==
  /\ p \in Placing \ session /\ pc[p] = "idle" /\ Event
  /\ session' = session \cup {p}
  /\ file' = [file EXCEPT ![Place(p)] = New]
  /\ ahead' = [q \in Procs |-> ahead[q] \ {Place(p)}]
  /\ last' = {Place(p)}
  /\ UNCHANGED <<pc, owner, line, cli, jumped, owed>>

ClosePlace(p) ==
  /\ p \in session /\ pc[p] = "idle"
  /\ session' = session \ {p}
  /\ Unlink(Place(p))
  /\ UNCHANGED <<pc, owner, line, events, jumped, owed>>

\* A waiter whose ticket was swept writes it again under the same name, and the
\* canceller writes what it has read.
CanComeBack(n) == \/ n[2] = "ticket" /\ pc[n[1]] = "waiting"
                  \/ \E r \in cli.patch : r[1] = n

\* createTicket; a live place of the own pid lets it skip the wait.
Call(p) ==
  /\ p \notin Outside /\ pc[p] = "idle" /\ (p \in Placing => p \in session) /\ Event
  /\ LET f == Swept([file EXCEPT ![Ticket(p)] = New])
         skip == f[Place(p)].there
         others == {n \in Names : f[n].there /\ n[1] # p}
         names == others \cup {n \in Names : n[1] # p /\ CanComeBack(n)}
     IN /\ file' = f
        /\ \E earlier \in {names, names \ last} :
             /\ ahead' = [[q \in Procs |-> ahead[q] \ {Ticket(p)}] EXCEPT ![p] = earlier]
             /\ owed' = [owed EXCEPT ![p] =
                  IF skip THEN {}
                  ELSE {q \in Procs : /\ Ticket(q) \in others /\ pc[q] \in {"waiting", "locking"}
                                      /\ \/ Rank[q] < Rank[p]
                                         \/ Rank[q] = Rank[p] /\ Ticket(q) \in earlier}]
        /\ pc' = [pc EXCEPT ![p] = IF skip THEN "locking" ELSE "waiting"]
        /\ line' = IF skip THEN Append(line, p) ELSE line
  /\ last' = {Ticket(p)}
  /\ UNCHANGED <<session, owner, cli, jumped>>

\* One turn of waitForSlot.
Poll(p) ==
  /\ pc[p] = "waiting"
  /\ LET f == Swept(Touched(file, Ticket(p))) IN
     \/ /\ ~f[Ticket(p)].there
        /\ file' = [f EXCEPT ![Ticket(p)] = New]
        /\ UNCHANGED <<pc, line>>
     \/ /\ f[Ticket(p)].there /\ ~f[Ticket(p)].cancel
        /\ file' = f
        /\ IF Blocked(p, f) THEN UNCHANGED <<pc, line>>
           ELSE /\ pc' = [pc EXCEPT ![p] = "locking"]
                /\ line' = Append(line, p)
  /\ UNCHANGED <<ahead, last, session, owner, cli, events, jumped, owed>>

Cancelled(p) == pc[p] = "waiting" /\ file[Ticket(p)].cancel /\ GiveUp(p) /\ UNCHANGED line

\* A reviewer has no ticket to unlink.
TimesOut(p) == /\ pc[p] \in {"waiting", "locking"}
               /\ LeaveLine(p)
               /\ GiveUp(p)

TakeFlock(p) ==
  /\ owner = Nobody /\ line # <<>> /\ p = Head(line)
  /\ owner' = p
  /\ line' = Tail(line)
  /\ pc' = [pc EXCEPT ![p] = "granted"]
  /\ Served(p)
  /\ UNCHANGED <<file, ahead, last, session, cli, events, jumped>>

\* patchTicket: nothing is written when the file is gone.
ShowHolding(p) ==
  /\ pc[p] = "granted"
  /\ pc' = [pc EXCEPT ![p] = "holding"]
  /\ file' = IF file[Ticket(p)].there
               THEN [file EXCEPT ![Ticket(p)].holding = TRUE, ![Ticket(p)].old = FALSE] ELSE file
  /\ UNCHANGED <<ahead, last, session, owner, line, cli, events, jumped, owed>>

Release(p) ==
  /\ pc[p] = "holding"
  /\ owner' = Nobody
  /\ pc' = [pc EXCEPT ![p] = "idle"]
  /\ Unlink(Ticket(p))
  /\ UNCHANGED <<session, line, events, jumped, owed>>

\* A reviewer in bash: acquire_single_flight_lock, without the arbiter.
ReviewerWaits(p) ==
  /\ p \in Outside /\ pc[p] = "idle" /\ Event
  /\ pc' = [pc EXCEPT ![p] = "locking"]
  /\ line' = Append(line, p)
  /\ UNCHANGED <<file, ahead, last, session, owner, cli, jumped, owed>>
-----------------------------------------------------------------------------
(* Time.  The timers that touch a ticket do not run while the process is   *)
(* blocked in the acquire of the flock, that of a place neither while it   *)
(* is blocked in waitForSlot, and nobody touches a ghost.                  *)

Age(n) ==
  /\ file[n].there /\ ~file[n].old
  /\ \/ n[2] = "ghost"
     \/ pc[n[1]] = "locking" /\ owner # Nobody
     \/ n[2] = "place" /\ pc[n[1]] = "waiting"
  /\ file' = [file EXCEPT ![n].old = TRUE]
  /\ UNCHANGED <<pc, ahead, last, session, owner, line, cli, events, jumped, owed>>

Refresh(n) ==
  /\ file[n].there /\ file[n].old /\ n[2] # "ghost"
  /\ pc[n[1]] \in {"idle", "holding"}
  /\ file' = Touched(file, n)
  /\ UNCHANGED <<pc, ahead, last, session, owner, line, cli, events, jumped, owed>>

\* The machine slept, or the clock was set: every ticket looks abandoned.
ClockJumps ==
  /\ Event /\ ~jumped
  /\ jumped' = TRUE
  /\ file' = [n \in Names |-> [file[n] EXCEPT !.old = file[n].there]]
  /\ UNCHANGED <<pc, ahead, last, session, owner, line, cli, owed>>
-----------------------------------------------------------------------------
(* cancelBelow("interactive"), run by the dashboard before a chat turn.    *)

\* The kernel closes the files of the process; the review-task.js of a reviewer in
\* bash still has its lock open.
Dies(p) ==
  /\ pc' = [pc EXCEPT ![p] = "dead"]
  /\ owner' = IF owner = p /\ p \notin Outside THEN Nobody ELSE owner
  /\ LeaveLine(p)
  /\ session' = session \ {p}
  /\ Served(p)
  /\ UNCHANGED <<file, ahead, last, jumped>>

Crash(p) == pc[p] # "dead" /\ Event /\ Dies(p) /\ UNCHANGED cli

OrphanExits(p) ==
  /\ pc[p] = "dead" /\ owner = p
  /\ owner' = Nobody
  /\ UNCHANGED <<pc, file, ahead, last, session, line, cli, events, jumped, owed>>

Respawn(p) ==
  /\ pc[p] = "dead" /\ owner # p
  /\ \A n \in Names : n[1] = p => ~file[n].there /\ n \notin cli.todo
                                    /\ \A r \in cli.patch : r[1] # n
  /\ p \notin cli.doomed
  /\ pc' = [pc EXCEPT ![p] = "idle"]
  /\ UNCHANGED <<file, ahead, last, session, owner, line, cli, events, jumped, owed>>

CancelBelow ==
  /\ cli = Idle /\ Event
  /\ LET f == Swept(file)
         below == {n \in Names : f[n].there /\ Rank[n[1]] > 0}
     IN /\ file' = f
        /\ cli' = [Idle EXCEPT !.todo = below, !.doomed = {n[1] : n \in {m \in below : f[m].holding}}]
  /\ UNCHANGED <<pc, ahead, last, session, owner, line, jumped, owed>>

ReadToMark(n) ==
  /\ n \in cli.todo /\ cli.patch = {}
  /\ cli' = [cli EXCEPT !.todo = @ \ {n},
                        !.patch = IF file[n].there THEN {<<n, file[n]>>} ELSE {}]
  /\ UNCHANGED <<pc, file, ahead, last, session, owner, line, events, jumped, owed>>

WriteMark(r) ==
  /\ r \in cli.patch
  /\ file' = [file EXCEPT ![r[1]] = [r[2] EXCEPT !.cancel = TRUE, !.old = FALSE]]
  /\ cli' = [cli EXCEPT !.patch = {}]
  /\ UNCHANGED <<pc, ahead, last, session, owner, line, events, jumped, owed>>

\* After the grace period, whoever was listed as holding and still lives.
KillHolder(p) ==
  /\ p \in cli.doomed /\ cli.todo = {} /\ cli.patch = {}
  /\ cli' = [cli EXCEPT !.doomed = @ \ {p}]
  /\ IF pc[p] = "dead" THEN UNCHANGED <<pc, file, ahead, last, session, owner, line, jumped, owed>>
     ELSE Dies(p)
  /\ UNCHANGED events

Next ==
  \/ \E p \in Procs : \/ OpenPlace(p) \/ ClosePlace(p) \/ Call(p) \/ Poll(p) \/ Cancelled(p)
                      \/ TimesOut(p) \/ TakeFlock(p) \/ ShowHolding(p) \/ Release(p)
                      \/ ReviewerWaits(p) \/ Crash(p) \/ OrphanExits(p) \/ Respawn(p) \/ KillHolder(p)
  \/ \E n \in Names : Age(n) \/ Refresh(n) \/ ReadToMark(n)
  \/ \E r \in cli.patch : WriteMark(r)
  \/ ClockJumps \/ CancelBelow

\* Model calls and sessions end, waiters poll, the flock is granted, time passes.
Fairness == /\ \A p \in Procs : /\ WF_vars(Poll(p)) /\ WF_vars(Cancelled(p)) /\ WF_vars(TakeFlock(p))
                                /\ WF_vars(ShowHolding(p)) /\ WF_vars(Release(p))
                                /\ WF_vars(ClosePlace(p)) /\ WF_vars(OrphanExits(p))
            /\ \A n \in Names : WF_vars(n[2] = "ghost" /\ Age(n))

Spec == Init /\ [][Next]_vars /\ Fairness
-----------------------------------------------------------------------------
TypeOK ==
  /\ pc \in [Procs -> {"idle", "waiting", "locking", "granted", "holding", "dead"}]
  /\ file \in [Names -> File] /\ ahead \in [Procs -> SUBSET Names] /\ last \subseteq Names
  /\ session \subseteq Placing /\ owner \in Procs \cup {Nobody}
  /\ line \in Seq(Procs) /\ \A p \in Procs : (pc[p] = "locking") <=> (p \in ToSet(line))
  /\ cli \in [todo : SUBSET Names, patch : SUBSET (Names \X File), doomed : SUBSET Procs]
  /\ events \in 0 .. MaxEvents /\ jumped \in BOOLEAN /\ owed \in [Procs -> SUBSET Procs]

\* Priority and order: a caller that has the GPU has let every caller of a higher
\* class, and every earlier one of its own, that was there when it came have it
\* first, even those whose ticket was swept while they were blocked on the flock.
Precedence ==
  \A p \in Procs : (pc[p] \in {"granted", "holding"} /\ ~jumped) => owed[p] = {}

\* A ticket that says its process has the GPU is right, unless the process is dead
\* or the canceller wrote the ticket back: status() and cancelBelow name no bystander.
ShownHolds ==
  \A n \in Names : (file[n].there /\ file[n].holding /\ ~file[n].cancel /\ pc[n[1]] # "dead")
                     => owner = n[1]

\* Whatever is left in the directory by kills, by a canceller that writes a removed
\* ticket back and by clock jumps, a waiter leaves the line of tickets in the end.
WaitsEnd == \A p \in Procs : (pc[p] = "waiting") ~> (pc[p] # "waiting")
=============================================================================
