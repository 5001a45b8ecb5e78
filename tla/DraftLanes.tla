------------------------------ MODULE DraftLanes ------------------------------
(***************************************************************************)
(* The drafting lanes (scripts/local-worker.sh), one daemon per GPU.       *)
(*                                                                         *)
(* A task is a file; the directory it lies in is its state.  A lane claims *)
(* a task by renaming pending/<task> to drafting/<lane>/<task>, runs       *)
(* src/local-draft.js on that path and files the result by renaming it     *)
(* again.  The draft process reads the file once, at its start, and        *)
(* rewrites the path (temporary file, rename) at every checkpoint, whether *)
(* or not the file is still there.  It outlives a daemon that is killed.   *)
(* A lane that restarts sends what lies in its own folder back to          *)
(* pending/.  The dashboard can preempt a lane: it moves the draft back to *)
(* pending/ and then kills the draft process.                              *)
(***************************************************************************)
EXTENDS Integers, FiniteSets

CONSTANTS
  Tasks,          \* the tasks, all pending at the start
  Lanes,          \* the instance ids of the drafting daemons
  DeadBranch,     \* the tasks that name a branch that no longer exists
  RetryLimit,     \* DRAFT_FAILURE_RETRY_LIMIT
  InfraLimit,     \* DRAFT_INFRA_REQUEUE_LIMIT
  MaxKills,       \* bound on the daemons killed
  MaxPreempts,    \* bound on the preemptions
  MaxPauses,      \* bound on the drafts that end in a Forge or a manual pause
  NoTask          \* the job of a lane that has none

Queues == {"pending", "review", "blocked", "needs-clarification", "done"}
Places == Queues \cup Lanes

ASSUME ConstantsAssumption ==
  /\ RetryLimit \in Nat \ {0} /\ InfraLimit \in Nat
  /\ MaxKills \in Nat /\ MaxPreempts \in Nat /\ MaxPauses \in Nat
  /\ DeadBranch \subseteq Tasks
  /\ NoTask \notin Tasks
  /\ Lanes \cap Queues = {}

VARIABLES
  file,      \* file[t]: the places a copy of t lies in, with what each copy records
  mode,      \* mode[l]: what the daemon is doing, "down" when there is none
  todo,      \* todo[l]: the names of the listing the daemon is working through
  job,       \* job[l]: the task in hand
  last,     \* last[l]: the tick ends after job[l]
  snap,      \* snap[l]: the contents the draft process read
  result,    \* result[l]: what the draft process printed
  ghosts,    \* draft processes whose daemon is gone; cut: the lane has restarted since
  axe,       \* axe[l]: a preemption has moved the draft and not killed yet
  kills, preempts, pauses,  \* how much of each bound is used
  late,      \* history: tasks some process wrote to a path it no longer held
  failed,    \* history: failed[t], draft failures counted against t
  waived,    \* history: waived[t], those of them a manual pause wiped
  abandoned  \* history: abandoned[t], how often t was given up for its dead branch

laneVars == <<mode, todo, job, last, snap, result>>
bounds   == <<kills, preempts, pauses>>
history  == <<late, failed, waived, abandoned>>
vars     == <<file, laneVars, ghosts, axe, bounds, history>>

Content == [fails : Nat, rounds : 0..InfraLimit]
Ghost   == [lane : Lanes, task : Tasks, snap : Content, cut : BOOLEAN]
Filed   == {"blocked", "needs-clarification", "done", "review"}
Infra   == {"infra", "killed", "manual"}
Faults  == Infra \cup {"content", "oversized"}
Results == Filed \cup Faults \cup {"pending", "forge", "none"}
Modes   == {"down", "tick", "resume", "claim", "move", "begin", "draft", "judge", "file"}

Copies(f) == DOMAIN f \subseteq Places /\ f \in [DOMAIN f -> Content]

FilesTyped == DOMAIN file = Tasks /\ \A t \in Tasks : Copies(file[t])

LanesTyped ==
  /\ mode \in [Lanes -> Modes]
  /\ todo \in [Lanes -> SUBSET Tasks]
  /\ job \in [Lanes -> Tasks \cup {NoTask}]
  /\ \A l \in Lanes : mode[l] \in {"move", "begin", "draft", "judge", "file"} => job[l] \in Tasks
  /\ last \in [Lanes -> BOOLEAN]
  /\ snap \in [Lanes -> Content]
  /\ result \in [Lanes -> Results]
  /\ axe \in [Lanes -> BOOLEAN]

CountersTyped ==
  /\ kills \in 0..MaxKills /\ preempts \in 0..MaxPreempts /\ pauses \in 0..MaxPauses
  /\ failed \in [Tasks -> Nat] /\ waived \in [Tasks -> Nat]
  /\ abandoned \in [Tasks -> 0..2]

\* The outage rounds a file records never pass their limit.
TypeOK ==
  /\ FilesTyped /\ LanesTyped /\ CountersTyped
  /\ ghosts \subseteq Ghost
  /\ late \subseteq Tasks
-----------------------------------------------------------------------------
(***************************************************************************)
(* Files.                                                                  *)
(***************************************************************************)
NewTask == [fails |-> 0, rounds |-> 0]

\* The copies f after a copy with contents c is put in place p.
Put(f, p, c) == [q \in DOMAIN f \cup {p} |-> IF q = p THEN c ELSE f[q]]

\* The copies f after a rename of the copy in p to q.
Rename(f, p, q) == [r \in (DOMAIN f \ {p}) \cup {q} |-> IF r = q THEN f[p] ELSE f[r]]

\* mv -n: nothing happens if there is no source or if the target exists.
MoveNoClobber(f, p, q) ==
  IF p \in DOMAIN f /\ q \notin DOMAIN f THEN Rename(f, p, q) ELSE f

In(t, p) == p \in DOMAIN file[t]

Listing(p) == {t \in Tasks : In(t, p)}

Init ==
  /\ file = [t \in Tasks |-> [p \in {"pending"} |-> NewTask]]
  /\ mode = [l \in Lanes |-> "down"]
  /\ todo = [l \in Lanes |-> {}]
  /\ job = [l \in Lanes |-> NoTask]
  /\ last = [l \in Lanes |-> FALSE]
  /\ snap = [l \in Lanes |-> NewTask]
  /\ result = [l \in Lanes |-> "none"]
  /\ ghosts = {}
  /\ axe = [l \in Lanes |-> FALSE]
  /\ kills = 0 /\ preempts = 0 /\ pauses = 0
  /\ late = {}
  /\ failed = [t \in Tasks |-> 0]
  /\ waived = [t \in Tasks |-> 0]
  /\ abandoned = [t \in Tasks |-> 0]
-----------------------------------------------------------------------------
(***************************************************************************)
(* Slips: what a plausible mistake would make of an operation.             *)
(***************************************************************************)

\* The lane copies the pending file instead of renaming it.
ClaimCopies(l) ==
  LET t == job[l] IN
  /\ mode[l] = "move"
  /\ IF In(t, "pending")
       THEN /\ file' = [file EXCEPT ![t] = Put(@, l, @["pending"])]
            /\ mode' = [mode EXCEPT ![l] = "begin"]
            /\ last' = [last EXCEPT ![l] = TRUE]
            /\ UNCHANGED job
       ELSE /\ mode' = [mode EXCEPT ![l] = "claim"]
            /\ job' = [job EXCEPT ![l] = NoTask]
            /\ UNCHANGED <<file, last>>
  /\ UNCHANGED <<todo, snap, result, ghosts, axe, bounds, history>>

\* The requeue after an outage does not count the round.
VerdictUncounted(c, r) ==
  IF r \in Infra THEN [to |-> "pending", c |-> [c EXCEPT !.fails = 0]]
                 ELSE [to |-> "blocked", c |-> c]

\* The round is counted without a limit.
VerdictUnlimited(c, r) ==
  IF r \in Infra THEN [to |-> "pending", c |-> [fails |-> 0, rounds |-> c.rounds + 1]]
                 ELSE [to |-> "blocked", c |-> c]

\* The daemon reclaims the folders of all lanes, not only its own.
StartReclaimsAll(l) ==
  /\ mode[l] = "down"
  /\ mode' = [mode EXCEPT ![l] = "tick"]
  /\ file' = [t \in Tasks |-> IF \E k \in Lanes : In(t, k)
                               THEN MoveNoClobber(file[t], CHOOSE k \in Lanes : In(t, k), "pending")
                               ELSE file[t]]
  /\ ghosts' = {IF g.lane = l THEN [g EXCEPT !.cut = TRUE] ELSE g : g \in ghosts}
  /\ UNCHANGED <<todo, job, last, snap, result, axe, bounds, history>>

\* A tick goes straight to pending/, whatever lies in the lane's folder.
ListLeftoversNever(l) ==
  /\ mode[l] = "tick"
  /\ mode' = [mode EXCEPT ![l] = "resume"]
  /\ todo' = [todo EXCEPT ![l] = {}]
  /\ UNCHANGED <<file, job, last, snap, result, ghosts, axe, bounds, history>>

-----------------------------------------------------------------------------
(***************************************************************************)
(* The daemon.                                                             *)
(***************************************************************************)

\* The daemon starts and reclaims its own folder: every file goes back to
\* pending/ unless a file of that name is there already.
Start(l) ==
  /\ mode[l] = "down"
  /\ mode' = [mode EXCEPT ![l] = "tick"]
  /\ file' = [t \in Tasks |-> MoveNoClobber(file[t], l, "pending")]
  /\ ghosts' = {IF g.lane = l THEN [g EXCEPT !.cut = TRUE] ELSE g : g \in ghosts}
  /\ UNCHANGED <<todo, job, last, snap, result, axe, bounds, history>>

\* A tick begins with a listing of the leftovers in the lane's folder.
ListLeftovers(l) ==
  /\ mode[l] = "tick"
  /\ mode' = [mode EXCEPT ![l] = "resume"]
  /\ todo' = [todo EXCEPT ![l] = Listing(l)]
  /\ UNCHANGED <<file, job, last, snap, result, ghosts, axe, bounds, history>>

\* The next leftover that is still there is drafted.
Resume(l) ==
  /\ mode[l] = "resume"
  /\ \E t \in todo[l] :
       /\ todo' = [todo EXCEPT ![l] = @ \ {t}]
       /\ IF In(t, l)
            THEN /\ mode' = [mode EXCEPT ![l] = "begin"]
                 /\ job' = [job EXCEPT ![l] = t]
                 /\ last' = [last EXCEPT ![l] = FALSE]
            ELSE UNCHANGED <<mode, job, last>>
  /\ UNCHANGED <<file, snap, result, ghosts, axe, bounds, history>>

\* No leftover remains: the pending tasks are listed and ranked, once.
ListPending(l) ==
  /\ mode[l] = "resume" /\ todo[l] = {}
  /\ mode' = [mode EXCEPT ![l] = "claim"]
  /\ todo' = [todo EXCEPT ![l] = Listing("pending")]
  /\ UNCHANGED <<file, job, last, snap, result, ghosts, axe, bounds, history>>

\* A listed task is looked at: it must still be there to be moved.
Look(l) ==
  /\ mode[l] = "claim"
  /\ \E t \in todo[l] :
       /\ todo' = [todo EXCEPT ![l] = @ \ {t}]
       /\ IF In(t, "pending")
            THEN /\ mode' = [mode EXCEPT ![l] = "move"]
                 /\ job' = [job EXCEPT ![l] = t]
            ELSE UNCHANGED <<mode, job>>
  /\ UNCHANGED <<file, last, snap, result, ghosts, axe, bounds, history>>

\* mv -n pending/<task> drafting/<lane>/<task>.  The lane holds the task if
\* its folder then has a file of that name; when the folder had one before,
\* mv leaves both files and, by its version, reports success or failure.
Claim(l) ==
  LET t == job[l]
      after == MoveNoClobber(file[t], "pending", l)
  IN /\ mode[l] = "move"
     /\ file' = [file EXCEPT ![t] = after]
     /\ \/ /\ l \in DOMAIN after
           /\ mode' = [mode EXCEPT ![l] = "begin"]
           /\ last' = [last EXCEPT ![l] = TRUE]
           /\ UNCHANGED job
        \/ /\ after = file[t]
           /\ mode' = [mode EXCEPT ![l] = "claim"]
           /\ job' = [job EXCEPT ![l] = NoTask]
           /\ UNCHANGED last
     /\ UNCHANGED <<todo, snap, result, ghosts, axe, bounds, history>>

\* No listed task is left: the tick ends.
EndTick(l) ==
  /\ mode[l] = "claim" /\ todo[l] = {}
  /\ mode' = [mode EXCEPT ![l] = "tick"]
  /\ UNCHANGED <<file, todo, job, last, snap, result, ghosts, axe, bounds, history>>

\* What the daemon does after a task: a tick claims one task, but resumes
\* every leftover it listed unless it meets an infrastructure failure.
Proceed(l, stop) ==
  /\ mode' = [mode EXCEPT ![l] = IF stop THEN "tick" ELSE "resume"]
  /\ todo' = [todo EXCEPT ![l] = IF stop THEN {} ELSE @]
  /\ job' = [job EXCEPT ![l] = NoTask]
  /\ last' = [last EXCEPT ![l] = FALSE]
  /\ result' = [result EXCEPT ![l] = "none"]

\* The branch the task names is gone: the task is stamped, and stays.
Abandon(l) ==
  LET t == job[l] IN
  /\ mode[l] = "begin" /\ t \in DeadBranch
  /\ abandoned' = [abandoned EXCEPT ![t] = IF @ < 2 THEN @ + 1 ELSE 2]
  /\ Proceed(l, last[l])
  /\ UNCHANGED <<file, snap, ghosts, axe, bounds, late, failed, waived>>

\* local-draft.js is started and reads the task.
BeginDraft(l) ==
  LET t == job[l] IN
  /\ mode[l] = "begin" /\ t \notin DeadBranch
  /\ IF In(t, l)
       THEN /\ mode' = [mode EXCEPT ![l] = "draft"]
            /\ snap' = [snap EXCEPT ![l] = file[t][l]]
            /\ UNCHANGED result
       ELSE /\ mode' = [mode EXCEPT ![l] = "file"]
            /\ result' = [result EXCEPT ![l] = "content"]
            /\ UNCHANGED snap
  /\ UNCHANGED <<file, todo, job, last, ghosts, axe, bounds, history>>
-----------------------------------------------------------------------------
(***************************************************************************)
(* The draft process.                                                      *)
(***************************************************************************)

\* The process rewrites its path from memory.  The write is late when the
\* file had been moved away, or when the lane has restarted since.
WriteTaskJson(l, t, c, cut) ==
  /\ file' = [file EXCEPT ![t] = Put(@, l, c)]
  /\ late' = IF ~In(t, l) \/ cut THEN late \cup {t} ELSE late

Checkpoint(l) ==
  /\ mode[l] = "draft"
  /\ WriteTaskJson(l, job[l], snap[l], FALSE)
  /\ UNCHANGED <<laneVars, ghosts, axe, bounds, failed, waived, abandoned>>

\* The process ends and prints its result; it writes the task on success.
EndDraft(l) ==
  /\ mode[l] = "draft"
  /\ mode' = [mode EXCEPT ![l] = "file"]
  /\ axe' = [axe EXCEPT ![l] = FALSE]
  /\ \E r \in Results \ {"none", "killed", "pending"} :
       /\ result' = [result EXCEPT ![l] = r]
       /\ IF r \in Filed THEN WriteTaskJson(l, job[l], snap[l], FALSE)
                         ELSE UNCHANGED <<file, late>>
       /\ IF r \in {"forge", "manual"} THEN pauses < MaxPauses /\ pauses' = pauses + 1
                                       ELSE UNCHANGED pauses
  /\ snap' = [snap EXCEPT ![l] = NewTask]
  /\ UNCHANGED <<todo, job, last, ghosts, kills, preempts, failed, waived, abandoned>>

\* The process of a daemon that is gone runs on, and ends.
GhostWrites(g) ==
  /\ WriteTaskJson(g.lane, g.task, g.snap, g.cut)
  /\ UNCHANGED <<laneVars, ghosts, axe, bounds, failed, waived, abandoned>>

GhostEnds(g) ==
  /\ ghosts' = ghosts \ {g}
  /\ \/ WriteTaskJson(g.lane, g.task, g.snap, g.cut)
     \/ UNCHANGED <<file, late>>
  /\ UNCHANGED <<laneVars, axe, bounds, failed, waived, abandoned>>
-----------------------------------------------------------------------------
(***************************************************************************)
(* Filing the result.                                                      *)
(***************************************************************************)
File(l) ==
  LET t == job[l] IN
  /\ mode[l] = "file" /\ result[l] \in Filed \cup {"pending"}
  /\ file' = [file EXCEPT ![t] = MoveNoClobber(@, l, result[l])]
  /\ Proceed(l, last[l])
  /\ UNCHANGED <<snap, ghosts, axe, bounds, history>>

\* A Forge session holds the GPU: nothing is counted and the task stays.
FilePaused(l) ==
  /\ mode[l] = "file" /\ result[l] = "forge"
  /\ Proceed(l, TRUE)
  /\ UNCHANGED <<file, snap, ghosts, axe, bounds, history>>

\* The failure is counted in the file; nothing is when the file is gone.
CountFailure(l) ==
  LET t == job[l]
      stop == last[l] \/ result[l] \in Infra
  IN /\ mode[l] = "file" /\ result[l] \in Faults
     /\ IF In(t, l)
          THEN /\ file' = [file EXCEPT ![t][l].fails = @ + 1]
               /\ failed' = [failed EXCEPT ![t] = @ + 1]
          ELSE UNCHANGED <<file, failed>>
     /\ IF In(t, l) /\ (result[l] = "oversized" \/ file[t][l].fails + 1 >= RetryLimit)
          THEN /\ mode' = [mode EXCEPT ![l] = "judge"]
               /\ last' = [last EXCEPT ![l] = stop]
               /\ UNCHANGED <<todo, job, result>>
          ELSE Proceed(l, stop)
     /\ UNCHANGED <<snap, ghosts, axe, bounds, late, waived, abandoned>>

\* Enough failures, the last of them r: what is written to the task and
\* where it goes.  A manual pause never counts, an outage is survived
\* InfraLimit times.
Verdict(c, r) ==
  CASE r = "manual"                                      -> [to |-> "pending", c |-> [c EXCEPT !.fails = 0]]
    [] r \in {"infra", "killed"} /\ c.rounds < InfraLimit -> [to |-> "pending", c |-> [fails |-> 0, rounds |-> c.rounds + 1]]
    [] OTHER                                             -> [to |-> "blocked", c |-> c]

Judge(l) ==
  LET t == job[l] IN
  /\ mode[l] = "judge"
  /\ mode' = [mode EXCEPT ![l] = "file"]
  /\ IF In(t, l)
       THEN LET v == Verdict(file[t][l], result[l]) IN
            /\ file' = [file EXCEPT ![t][l] = v.c]
            /\ result' = [result EXCEPT ![l] = v.to]
            /\ waived' = IF result[l] = "manual" THEN [waived EXCEPT ![t] = @ + file[t][l].fails] ELSE waived
       ELSE result' = [result EXCEPT ![l] = "blocked"] /\ UNCHANGED <<file, waived>>
  /\ UNCHANGED <<todo, job, last, snap, ghosts, axe, bounds, late, failed, abandoned>>
-----------------------------------------------------------------------------
(***************************************************************************)
(* Kills and preemptions.                                                  *)
(***************************************************************************)

\* The daemon is killed: by the watchdog, by hand, or with its descendants
\* by scripts/stop.sh.  Alone, it leaves its draft process behind.
Kill(l) ==
  /\ mode[l] # "down" /\ kills < MaxKills
  /\ kills' = kills + 1
  /\ mode' = [mode EXCEPT ![l] = "down"]
  /\ todo' = [todo EXCEPT ![l] = {}]
  /\ job' = [job EXCEPT ![l] = NoTask]
  /\ last' = [last EXCEPT ![l] = FALSE]
  /\ snap' = [snap EXCEPT ![l] = NewTask]
  /\ result' = [result EXCEPT ![l] = "none"]
  /\ axe' = [axe EXCEPT ![l] = FALSE]
  /\ \/ UNCHANGED ghosts
     \/ /\ mode[l] = "draft"
        /\ ghosts' = ghosts \cup {[lane |-> l, task |-> job[l], snap |-> snap[l], cut |-> FALSE]}
  /\ UNCHANGED <<file, preempts, pauses, history>>

\* _kill_and_requeue_instance, first half: the draft goes back to pending/.
PreemptMoves(l) ==
  /\ mode[l] = "draft" /\ ~axe[l] /\ preempts < MaxPreempts
  /\ preempts' = preempts + 1
  /\ axe' = [axe EXCEPT ![l] = TRUE]
  /\ file' = [file EXCEPT ![job[l]] = MoveNoClobber(@, l, "pending")]
  /\ UNCHANGED <<laneVars, ghosts, kills, pauses, history>>

\* Second half: SIGKILL.  The daemon sees a draft process that printed nothing.
PreemptKills(l) ==
  /\ mode[l] = "draft" /\ axe[l]
  /\ axe' = [axe EXCEPT ![l] = FALSE]
  /\ mode' = [mode EXCEPT ![l] = "file"]
  /\ result' = [result EXCEPT ![l] = "killed"]
  /\ snap' = [snap EXCEPT ![l] = NewTask]
  /\ UNCHANGED <<file, todo, job, last, ghosts, bounds, history>>
-----------------------------------------------------------------------------
Daemon(l) ==
  \/ ListLeftovers(l) \/ Resume(l) \/ ListPending(l) \/ Look(l) \/ Claim(l) \/ EndTick(l)
  \/ Abandon(l) \/ BeginDraft(l) \/ File(l) \/ FilePaused(l) \/ CountFailure(l) \/ Judge(l)

Next ==
  \/ \E l \in Lanes : \/ Start(l) \/ Daemon(l) \/ Checkpoint(l) \/ EndDraft(l)
                      \/ Kill(l) \/ PreemptMoves(l) \/ PreemptKills(l)
  \/ \E g \in ghosts : GhostWrites(g) \/ GhostEnds(g)

Spec == Init /\ [][Next]_vars

\* The watchdog restarts a lane that is down, a daemon goes on with its tick,
\* and a draft process ends: every model call has a timeout.
Fairness ==
  /\ \A l \in Lanes : WF_vars(Start(l)) /\ WF_vars(Daemon(l)) /\ WF_vars(EndDraft(l) \/ PreemptKills(l))
  /\ \A l \in Lanes, t \in Tasks : WF_vars(\E g \in ghosts : g.lane = l /\ g.task = t /\ GhostEnds(g))

FairSpec == Spec /\ Fairness
-----------------------------------------------------------------------------
(***************************************************************************)
(* Properties.                                                             *)
(***************************************************************************)
\* t lies in one place.
Single(t) == \E p \in Places : DOMAIN file[t] = {p}

\* No task is lost, and none is in two places unless a draft process wrote
\* to a path it no longer held: claims, filings, requeues, reclaims, kills
\* and preemptions all move the one file.
OneFile == \A t \in Tasks : DOMAIN file[t] # {} /\ (t \notin late => Single(t))

\* The draft processes at work on t.
Drafters(t) == {l \in Lanes : mode[l] = "draft" /\ job[l] = t} \cup {g \in ghosts : g.task = t}

\* A task is drafted by one process at a time as long as no draft process
\* outlives its daemon and no preemption is under way.
OneDrafter ==
  \A t \in Tasks :
    \/ t \in late
    \/ \E g \in ghosts : g.task = t
    \/ \E l \in Lanes : axe[l] /\ job[l] = t
    \/ Cardinality(Drafters(t)) <= 1

\* Model time is spent on a failing task within a budget: RetryLimit failures
\* for each of the InfraLimit outages it survives and once more, plus one for
\* each kill that interrupts the bookkeeping; a manual pause is not charged.
FailureBudget ==
  \A t \in Tasks : t \notin late =>
    failed[t] - waived[t] <= RetryLimit * (InfraLimit + 1) + kills

\* Every task leaves pending/ and the lanes' folders, whatever kills it meets: it
\* is filed for review, blocked, clarified or done, unless a draft process wrote
\* to a path it no longer held.
Served ==
  \A t \in Tasks \ DeadBranch : <>(late # {} \/ DOMAIN file[t] \subseteq Filed)
=============================================================================
