----------------------------- MODULE Readmission -----------------------------
(***************************************************************************)
(* The two sweeps that send a finished task with an unmerged branch back   *)
(* for one redraft: branch-defect-readmit-sweep.js when a person or the    *)
(* verifier found defects in it, branch-conflict-readmit-sweep.js when main *)
(* has moved and the branch no longer merges.  Both are driven by events   *)
(* (queue-events.js) and stand behind a gate (sweep-gate.js) that skips    *)
(* them while their inputs look unchanged; both must see their cause twice, *)
(* Settle apart.  One task, one branch, one project.                       *)
(*                                                                         *)
(* Time is counted in ticks of the watchdog.  What the gate remembers is   *)
(* whether its inputs (done/, the verdict file, the remote refs) differ    *)
(* from the signature it stored.  A sweep reads the task in one step       *)
(* (drain, read) and acts in another (fetch, decide, requeue).             *)
(***************************************************************************)
EXTENDS Naturals, FiniteSets

CONSTANTS Separate,    \* TRUE: the active project, where each sweep asks the gate;
                       \* FALSE: a pool project, asked once for both
          Settle,      \* ticks between the two sightings, SETTLE_MS
          MaxIdle,     \* ticks until gate and full scan run anyway
          Grace,       \* ticks an event waits for its stamp, STAMP_GRACE_MS
          MaxHeads,    \* bound: commits of the branch
          MaxVerdicts, \* bound: verdicts recorded
          MaxMoves,    \* bound: times main moves under the branch
          MaxFaults    \* bound: lost events, failed git checks, failed requeues

ASSUME ReadmissionAssumption ==
  /\ Separate \in BOOLEAN
  /\ {Settle, MaxIdle, Grace, MaxHeads, MaxVerdicts, MaxMoves, MaxFaults} \subseteq Nat
  /\ Grace < MaxIdle /\ Settle < MaxIdle /\ MaxHeads > 0

Sweeps == {"defect", "conflict"}

None == [kind |-> "none", head |-> 0, no |-> 0]
NoSight == [head |-> 0, no |-> 0, age |-> 0]
Unread == [begun |-> FALSE, looks |-> FALSE, verdict |-> None]
Verdicts == [kind : {"none", "defect", "moved"}, head : 0 .. MaxHeads, no : 0 .. MaxVerdicts]

VARIABLES place,    \* where the task is: "done", "queued" for a redraft, "merged"
          head,     \* the branch's commit at origin, 0 when it is gone
          commits,  \* commits made so far
          conflict, \* the branch conflicts with main
          verdict,  \* promptContext.priorVerdict of the task
          stamp,    \* a recorded verdict that is not yet on the task
          readmits, \* the defect-readmit events in its history
          unread,   \* per sweep: the journal holds an event it has not consumed
          waited,   \* age of the unread verdict event
          gate,     \* the gate's memory: inputs changed since, ticks since it let a sweep run
          scan,     \* per sweep: ticks since its last full scan
          sight,    \* per sweep: its first sighting
          pc,       \* the watchdog: "idle", at the gate, or in a sweep
          seen,     \* what the running sweep has read: has it begun, does it look at the task,
                    \* the verdict on it
          verdicts, moves, faults,
          stood     \* history: ticks the cause of each sweep has stood as it is now

env == <<place, head, commits, conflict, verdict, stamp, verdicts, moves>>
vars == <<place, head, commits, conflict, verdict, stamp, readmits, unread, waited, gate, scan,
          sight, pc, seen, verdicts, moves, faults, stood>>

Up(n, max) == IF n < max THEN n + 1 ELSE n

Init == /\ place = "done" /\ head = 1 /\ commits = 1 /\ conflict = FALSE
        /\ verdict = None /\ stamp = None /\ readmits = 0
        /\ unread = [s \in Sweeps |-> FALSE] /\ waited = 0
        /\ gate = [changed |-> TRUE, age |-> MaxIdle]
        /\ scan = [s \in Sweeps |-> MaxIdle]
        /\ sight = [s \in Sweeps |-> NoSight]
        /\ pc = "idle" /\ seen = Unread
        /\ verdicts = 0 /\ moves = 0 /\ faults = 0
        /\ stood = [s \in Sweeps |-> 0]
-----------------------------------------------------------------------------
(***************************************************************************)
(* Everybody else.                                                         *)
(***************************************************************************)
Changed == gate' = [gate EXCEPT !.changed = TRUE]
NewCause(S) == stood' = [s \in Sweeps |-> IF s \in S THEN 0 ELSE stood[s]]

\* An event is appended, or it is lost: the write fails, or a second writer rotates the journal away.
Announce(s) == \/ unread' = [unread EXCEPT ![s] = TRUE] /\ UNCHANGED faults
               \/ faults < MaxFaults /\ faults' = faults + 1 /\ UNCHANGED unread

\* A person or the verifier judges the branch: verdict file, then event, then the task.
RecordVerdict ==
  /\ place = "done" /\ head # 0 /\ stamp = None /\ verdicts < MaxVerdicts
  /\ verdicts' = verdicts + 1
  /\ stamp' = [kind |-> "defect", head |-> head, no |-> verdicts + 1]
  /\ Announce("defect") /\ waited' = 0
  /\ Changed
  /\ UNCHANGED <<place, head, commits, conflict, verdict, readmits, scan, sight, pc, seen, moves, stood>>

StampTask ==
  /\ stamp # None
  /\ verdict' = stamp /\ stamp' = None
  /\ IF place = "done" THEN Changed ELSE UNCHANGED gate
  /\ NewCause({"defect"})
  /\ UNCHANGED <<place, head, commits, conflict, readmits, unread, waited, scan, sight, pc, seen,
                 verdicts, moves, faults>>

\* Main moves and the branch no longer merges, with a word or, by a direct push, without one.
MainMoves ==
  /\ place = "done" /\ head # 0 /\ ~conflict /\ moves < MaxMoves
  /\ moves' = moves + 1 /\ conflict' = TRUE
  /\ \/ Announce("conflict") /\ Changed
     \/ UNCHANGED <<unread, faults, gate>>
  /\ NewCause({"conflict"})
  /\ UNCHANGED <<place, head, commits, verdict, stamp, readmits, waited, scan, sight, pc, seen, verdicts>>

\* A new commit on the branch; the refs here may not show it yet.
Push ==
  /\ place = "done" /\ head # 0 /\ commits < MaxHeads
  /\ commits' = commits + 1 /\ head' = commits + 1
  /\ conflict' \in {conflict, FALSE}
  /\ gate' \in {gate, [gate EXCEPT !.changed = TRUE]}
  /\ NewCause(Sweeps)
  /\ UNCHANGED <<place, verdict, stamp, readmits, unread, waited, scan, sight, pc, seen, verdicts, moves, faults>>

Merge ==
  /\ place = "done" /\ head # 0 /\ ~conflict
  /\ place' = "merged" /\ head' = 0
  /\ Changed
  /\ UNCHANGED <<commits, conflict, verdict, stamp, readmits, unread, waited, scan, sight, pc, seen,
                 verdicts, moves, faults, stood>>

\* The redraft is reviewed, applied to a new branch and filed in done/.
Redraft ==
  /\ place = "queued" /\ commits < MaxHeads
  /\ place' = "done" /\ commits' = commits + 1 /\ head' = commits + 1 /\ conflict' = FALSE
  /\ Changed
  /\ NewCause(Sweeps)
  /\ UNCHANGED <<verdict, stamp, readmits, unread, waited, scan, sight, pc, seen, verdicts, moves, faults>>
-----------------------------------------------------------------------------
(***************************************************************************)
(* The watchdog: a tick, the gate, the sweeps.                             *)
(***************************************************************************)
Goto(p) == pc' = p

Tick ==
  /\ pc = "idle"
  /\ Goto("gate")
  /\ waited' = Up(waited, Grace)
  /\ gate' = [gate EXCEPT !.age = Up(@, MaxIdle)]
  /\ scan' = [s \in Sweeps |-> Up(scan[s], MaxIdle)]
  /\ sight' = [s \in Sweeps |-> [sight[s] EXCEPT !.age = IF sight[s].head = 0 THEN 0 ELSE Up(@, Settle)]]
  /\ stood' = [s \in Sweeps |-> Up(stood[s], Settle)]
  /\ UNCHANGED <<env, readmits, unread, seen, faults>>

\* hasPendingEntry: the state of either sweep holds a sighting that has not settled.
Pending == \E s \in Sweeps : sight[s].head # 0 /\ sight[s].age < Settle

\* Slip: no safety net.
GateOpensOnChange == gate.changed \/ Pending

GateOpens == gate.changed \/ Pending \/ gate.age >= MaxIdle

\* A pool project asks once and runs both sweeps, defects first.  The active project asks
\* for the conflict sweep and, after it, asks the same gate again for the defect sweep.
First == Separate /\ pc = "gate"

Ask ==
  /\ pc \in {"gate", "gate again"}
  /\ IF GateOpens THEN /\ gate' = [changed |-> FALSE, age |-> 0]
                       /\ Goto(IF First THEN "conflict" ELSE "defect")
                  ELSE Goto(IF First THEN "gate again" ELSE "idle") /\ UNCHANGED gate
  /\ UNCHANGED <<env, readmits, unread, waited, scan, sight, seen, faults, stood>>

\* The sweep opens the task's file on a full scan, for an event that names it (or, to the
\* conflict sweep, for any merge), and while it has a sighting of it.
FullScan(s) == scan[s] >= MaxIdle
Examines(s) == place # "queued" /\ (FullScan(s) \/ unread[s] \/ sight[s].head # 0)

Begin(s) ==
  /\ pc = s /\ ~seen.begun
  /\ seen' = [begun |-> TRUE, looks |-> Examines(s), verdict |-> verdict]
  /\ UNCHANGED <<env, readmits, unread, waited, gate, scan, sight, pc, faults, stood>>

After(s) == IF s = "defect" THEN IF Separate THEN "idle" ELSE "conflict"
                            ELSE IF Separate THEN "gate again" ELSE "idle"

Consumed(s) == unread' = [unread EXCEPT ![s] = FALSE]
Scanned(s) == scan' = IF FullScan(s) THEN [scan EXCEPT ![s] = 0] ELSE scan
Remember(s, x) == sight' = [sight EXCEPT ![s] = x]
Acts(s) == pc = s /\ seen.begun
Done(s) == Goto(After(s)) /\ seen' = Unread
Quietly == UNCHANGED <<env, readmits, gate, faults>>

\* Nothing to look at: what was drained is consumed; a listing of done/ forgets the sighting.
Lists(s) == FullScan(s) \/ (s = "conflict" /\ unread[s])

Passes(s) ==
  /\ Acts(s) /\ ~seen.looks
  /\ IF Lists(s) THEN Remember(s, NoSight) ELSE UNCHANGED sight
  /\ Consumed(s) /\ Scanned(s)
  /\ Done(s)
  /\ Quietly /\ UNCHANGED <<waited, stood>>

\* The cause each sweep acts on, by the task it has read and the branch as it is now.
\* Slip: the redrafts a task had are not counted.
DefectStandsAgain == seen.verdict.kind = "defect" /\ head # 0 /\ seen.verdict.head = head

DefectStands == seen.verdict.kind = "defect" /\ head # 0 /\ seen.verdict.head = head /\ readmits = 0
ConflictStands == head # 0 /\ conflict
Stands(s) == IF s = "defect" THEN DefectStands ELSE ConflictStands

\* A young event whose verdict is not on the task yet is read again.
Holds(s) == s = "defect" /\ place = "done" /\ unread[s] /\ waited < Grace /\ seen.verdict.kind # "defect"

Dismiss(s) ==
  /\ Acts(s) /\ seen.looks /\ ~Stands(s)
  /\ Remember(s, NoSight)
  /\ IF Holds(s) THEN UNCHANGED <<unread, scan>> ELSE Consumed(s) /\ Scanned(s)
  /\ Done(s)
  /\ Quietly /\ UNCHANGED <<waited, stood>>

\* Slip: any verdict on that commit counts as the one sighted.
SameHead(s) == sight[s].head = head

Same(s) == sight[s].head = head /\ (s = "defect" => sight[s].no = seen.verdict.no)

Observe(s) ==
  /\ Acts(s) /\ seen.looks /\ Stands(s)
  /\ ~Same(s) \/ sight[s].age < Settle
  /\ Remember(s, IF Same(s) THEN sight[s] ELSE [head |-> head, no |-> seen.verdict.no, age |-> 0])
  /\ Consumed(s) /\ Scanned(s)
  /\ Done(s)
  /\ Quietly /\ UNCHANGED <<waited, stood>>

\* The conflict sweep keeps its count in the verdict it writes, the defect sweep in the history.
Exhausted(s) == s = "conflict" /\ seen.verdict.kind = "moved"

GivesUp(s) ==
  /\ Acts(s) /\ seen.looks /\ Stands(s) /\ Same(s) /\ sight[s].age >= Settle
  /\ Exhausted(s)
  /\ Consumed(s) /\ Scanned(s)
  /\ Done(s)
  /\ Quietly /\ UNCHANGED <<sight, waited, stood>>

\* The task is stamped, its branch deleted (a push that may fail), its file moved to
\* pending/.  When a file of its name lies there the move is refused, after the stamp and
\* the deletion.
Readmit(s) ==
  /\ Acts(s) /\ seen.looks /\ Stands(s) /\ Same(s) /\ sight[s].age >= Settle
  /\ ~Exhausted(s)
  /\ head' \in {0, head}
  /\ IF s = "defect" THEN readmits' = readmits + 1 /\ verdict' = seen.verdict
                     ELSE verdict' = [kind |-> "moved", head |-> head, no |-> 0] /\ UNCHANGED readmits
  /\ Changed
  /\ \/ /\ place' = "queued" /\ Remember(s, NoSight)
        /\ Consumed(s) /\ Scanned(s) /\ UNCHANGED faults
     \/ /\ faults < MaxFaults /\ faults' = faults + 1
        /\ UNCHANGED <<place, sight, unread, scan>>
  /\ Done(s)
  /\ UNCHANGED <<commits, conflict, stamp, waited, verdicts, moves, stood>>

\* git merge-tree fails: the sighting and the events are kept.
CheckFails ==
  /\ Acts("conflict") /\ seen.looks /\ head # 0
  /\ faults < MaxFaults /\ faults' = faults + 1
  /\ Done("conflict")
  /\ UNCHANGED <<env, readmits, unread, waited, gate, scan, sight, stood>>

Sweep(s) == Begin(s) \/ Passes(s) \/ Dismiss(s) \/ Observe(s) \/ GivesUp(s) \/ Readmit(s)

Watchdog == Tick \/ Ask \/ (\E s \in Sweeps : Sweep(s)) \/ CheckFails
Others == RecordVerdict \/ StampTask \/ MainMoves \/ Push \/ Merge \/ Redraft

Next == Watchdog \/ Others

\* The watchdog loop does not stop and its sweeps end (queue-watcher.sh's while loop and
\* the timeouts of its git calls); a verdict that was recorded reaches the task.
Fairness == WF_vars(Watchdog) /\ WF_vars(StampTask)

Spec == Init /\ [][Next]_vars /\ Fairness
-----------------------------------------------------------------------------
(***************************************************************************)
(* Properties.                                                             *)
(***************************************************************************)
TypeOK ==
  /\ place \in {"done", "queued", "merged"}
  /\ head \in 0 .. MaxHeads /\ commits \in 1 .. MaxHeads /\ conflict \in BOOLEAN
  /\ {verdict, stamp, seen.verdict} \subseteq Verdicts
  /\ readmits \in 0 .. 1
  /\ unread \in [Sweeps -> BOOLEAN] /\ waited \in 0 .. Grace
  /\ gate \in [changed : BOOLEAN, age : 0 .. MaxIdle]
  /\ scan \in [Sweeps -> 0 .. MaxIdle]
  /\ sight \in [Sweeps -> [head : 0 .. MaxHeads, no : 0 .. MaxVerdicts, age : 0 .. Settle]]
  /\ pc \in {"idle", "gate", "gate again"} \cup Sweeps
  /\ seen.begun \in BOOLEAN /\ seen.looks \in BOOLEAN
  /\ stood \in [Sweeps -> 0 .. Settle]

\* A branch is deleted for a redraft only for a cause that has stood, unchanged, for the
\* settling time: the verdict about the commit that is there, or the conflict of it; a
\* verdict or commit that arrives between the two sightings starts the wait again.  Only a
\* verdict that falls between a sweep's read and its act is overrun.
RedraftsAreEarned ==
  [][ (\E s \in Sweeps : Readmit(s)) /\ seen.verdict = verdict
      => \/ pc = "defect" /\ verdict.head = head /\ stood["defect"] >= Settle
         \/ Acts("conflict") /\ conflict /\ stood["conflict"] >= Settle ]_vars

\* A defect verdict that stands on an unmerged branch, and a conflict with main, are
\* followed by a redraft, a new commit, a merge or a newer verdict, although events
\* are lost and the gate skips most ticks: its safety net and the full scan see to it.
DefectWaits == place = "done" /\ head # 0 /\ verdict.kind = "defect" /\ verdict.head = head /\ readmits = 0
ConflictWaits == place = "done" /\ head # 0 /\ conflict /\ verdict.kind # "moved"
VerdictsAreTakenUp == /\ \A n \in 1 .. MaxVerdicts : DefectWaits /\ verdict.no = n ~> ~(DefectWaits /\ verdict.no = n)
                      /\ ConflictWaits ~> ~ConflictWaits
=============================================================================
