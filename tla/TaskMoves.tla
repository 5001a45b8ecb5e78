------------------------------ MODULE TaskMoves ------------------------------
(***************************************************************************)
(* The files of one task, and everybody who moves them.  The state of a    *)
(* task is the directory its file lies in, and a move is either a rename   *)
(* or a write in one directory and an unlink in another.  Some movers take *)
(* the task-move lock around the pair, some look first whether the target  *)
(* is free, some do neither.                                               *)
(*                                                                         *)
(* pending stands for pending/, adhoc/ and derived/, from which lanes      *)
(* claim, drafting for the folder of any lane; the steps of a lane and of  *)
(* a reviewer are in DraftLanes and ReviewClaim, here they only rename.    *)
(*                                                                         *)
(* The write and the unlink of a move are adjacent calls of one process.   *)
(* Steps of other moves may fall between them, but not a whole draft,      *)
(* review or apply, nor the decision on another move, each of which takes  *)
(* a process or a person of its own (Quiet).                               *)
(***************************************************************************)
EXTENDS Naturals, FiniteSets

CONSTANTS Hands,      \* TRUE: somebody uses the dashboard or a requeue tool
          Drains,     \* TRUE: an applied fix requeues the tasks it unblocks
          MaxKills    \* bound: processes killed in the middle of a move

ASSUME MoveAssumption == {Hands, Drains} \subseteq BOOLEAN /\ MaxKills \in Nat

Dirs == {"pending", "drafting", "review", "approved", "blocked", "clarify", "confirm",
         "coordinating", "done", "archived", "staging"}

Procs == {"sweep", "applier", "hand", "lane", "reviewer"}

Moves(how, from, to) == [how : {how}, from : from, to : to]
InPlace(how, dirs) == UNION {Moves(how, {d}, {d}) : d \in dirs}

\* reject-retry-check.js takes the lock; the stamps it leaves in place do not.
RejectRetry == Moves("locked", {"blocked"}, {"pending", "clarify", "approved"})
                 \cup InPlace("plain", {"blocked"})

\* apply-retry-check.js: redraft, escalate, release or resolve, mark.
ApplyRetry == Moves("plain", {"blocked"}, {"pending", "clarify", "approved", "blocked"})

\* needs-clarification-triage.js; what it leaves in place it writes back after a vote.
Triage == Moves("careful", {"clarify"}, {"pending", "review", "archived"}) \cup InPlace("slow", {"clarify"})

\* auto-confirm-review.js
AutoConfirm == Moves("careful", {"confirm"}, {"approved", "archived"})
                 \cup InPlace("slow", {"confirm"})

\* fix-signature-sweep.js and fabricated-path-recheck-sweep.js
FixSignature == Moves("careful", {"blocked", "clarify"}, {"pending"}) \cup Moves("plain", {"done"}, {"done"})
FabricatedPath == Moves("careful", {"blocked", "clarify"}, {"pending"})

\* grounding-recheck-sweep.js may run the tests of the diff between its read and its write.
GroundingRecheck == Moves("slow", {"blocked", "clarify"}, {"approved", "clarify", "pending"})
                      \cup InPlace("slow", {"blocked", "clarify"})

\* derived-premise-sweep.js retires waiting tasks, and brings them back.
DerivedPremise == Moves("careful", {"pending"}, {"archived"}) \cup Moves("careful", {"archived"}, {"pending"})

\* context-trim-sweep.js classifies the requeue after it has looked.
ContextTrim == Moves("early", {"blocked"}, {"pending"}) \cup InPlace("plain", {"blocked"})

\* adhoc-staleness-flag.js: the record, read before a vote of the models, is written back.
StalenessFlag == InPlace("slow", {"blocked", "clarify", "coordinating"})

\* The dashboard and the tools of a chat, which mirror it.
Archive == Moves("archive", {"blocked", "clarify", "done", "confirm"}, {"archived"})
RetireHub == Moves("archive", {"pending", "blocked", "clarify", "confirm", "coordinating"}, {"archived"})
ConfirmDelete == Moves("careful", {"confirm"}, {"approved"})
Requeue == Moves("careful", {"blocked", "clarify", "done", "archived"}, {"pending"})
ResolveClarification == Moves("careful", {"clarify"}, {"pending"})
AnswerClarification == Moves("careful", {"clarify"}, {"pending"})
MarkDone == Moves("careful", {"clarify"}, {"done"})
Rereview == Moves("early", {"blocked", "clarify"}, {"review"})
WithdrawTask == Moves("careful", {"pending"}, {"archived"})
Keep == InPlace("plain", {"blocked", "clarify"})
ManualClose == Moves("careful", {"blocked", "clarify", "coordinating"}, {"archived"})

\* blocked-drain.js and the flag of a staleness audit, in the apply stage of another task.
Drain == Moves("careful", {"blocked", "clarify"}, {"pending"})
AuditFlag == InPlace("plain", {"blocked", "clarify"})

\* The moves each process makes by a write and an unlink.
Sweeps == UNION {RejectRetry, ApplyRetry, Triage, AutoConfirm, FixSignature, FabricatedPath,
                 GroundingRecheck, DerivedPremise, ContextTrim, StalenessFlag}
ByHand == UNION {Archive, RetireHub, ConfirmDelete, Requeue, ResolveClarification, AnswerClarification,
                 MarkDone, Rereview, WithdrawTask, Keep, ManualClose}

MovesOf(p) == CASE p = "sweep" -> Sweeps
                [] p = "applier" -> IF Drains THEN Drain \cup AuditFlag ELSE {}
                [] p = "hand" -> IF Hands THEN ByHand ELSE {}
                [] OTHER -> {}

\* What lanes and reviewers do with mv -n.
LaneRenames == Moves("rename", {"pending"}, {"drafting"})
                 \cup Moves("rename", {"drafting"}, {"review", "blocked", "clarify", "done", "pending"})
ReviewRenames == Moves("rename", {"review"}, {"approved", "blocked"})

\* Slip: the directory named after the stage that was recorded.
OutcomesByStage == {"coordinating", "awaiting-confirm", "applied", "apply-failed"}

Outcomes == {"coordinating", "confirm", "done", "blocked"}

Idle == [how |-> "none", from |-> "pending", to |-> "pending"]

VARIABLES file,   \* the directories with a file of the task
          at,     \* where each process is in its move
          job,    \* the move it is in
          kills,
          meddled,  \* history: a process was killed, or somebody moves the task who does not own it:
                    \* a hand, a drain, a sweep that takes it from a queue lanes claim from
          overtaken \* history: somebody set out to move a task which had left since it was read

vars == <<file, at, job, kills, meddled, overtaken>>

Init == /\ file = {"pending"}
        /\ at = [p \in Procs |-> "idle"]
        /\ job = [p \in Procs |-> Idle]
        /\ kills = 0
        /\ meddled = FALSE
        /\ overtaken = FALSE
-----------------------------------------------------------------------------
MidMove(p) == at[p] \in {"ready", "written"}
Quiet == \A p \in Procs : ~MidMove(p)
LockTaken == \E p \in Procs : MidMove(p) /\ job[p].how = "locked"

Goto(p, s) == at' = [at EXCEPT ![p] = s] /\ UNCHANGED job
Rest(p) == at' = [at EXCEPT ![p] = "idle"] /\ job' = [job EXCEPT ![p] = Idle]

NoteOvertaken(p) == overtaken' = (overtaken \/ job[p].from \notin file)

\* p reads the task and decides.
Read(p) ==
  /\ at[p] = "idle" /\ Quiet
  /\ \E m \in MovesOf(p) :
       /\ m.from \in file
       /\ m.how = "early" => m.to \notin file
       /\ job' = [job EXCEPT ![p] = m]
       /\ at' = [at EXCEPT ![p] = IF m.how = "plain" THEN "ready" ELSE "read"]
       /\ meddled' = (meddled \/ p \in {"hand", "applier"} \/ m.from = "pending")
  /\ UNCHANGED <<file, kills, overtaken>>

\* A careful mover looks whether the target is free.
Look(p) ==
  /\ at[p] = "read" /\ job[p].how \in {"careful", "archive"}
  /\ IF job[p].to \in file THEN Rest(p) /\ UNCHANGED overtaken
                           ELSE Goto(p, "ready") /\ NoteOvertaken(p)
  /\ UNCHANGED <<file, kills, meddled>>

\* Others go by what they have read, after a vote, a test run or a classification.
ComeBack(p) ==
  /\ at[p] = "read" /\ job[p].how \in {"slow", "early"}
  /\ Goto(p, "ready")
  /\ NoteOvertaken(p)
  /\ UNCHANGED <<file, kills, meddled>>

\* acquire(taskMoveLockKey): what was read stays as it was read.
TakeLock(p) ==
  /\ at[p] = "read" /\ job[p].how = "locked"
  /\ ~LockTaken
  /\ Goto(p, "ready")
  /\ UNCHANGED <<file, kills, meddled, overtaken>>

\* Slip: the source goes before the target is written.
WriteLast(p) ==
  /\ at[p] = "ready" /\ job[p].how # "archive"
  /\ file' = file \ {job[p].from}
  /\ Goto(p, "written")
  /\ UNCHANGED <<kills, meddled, overtaken>>

Write(p) ==
  /\ at[p] = "ready" /\ job[p].how # "archive"
  /\ file' = file \cup {job[p].to}
  /\ Goto(p, "written")
  /\ UNCHANGED <<kills, meddled, overtaken>>

\* The unlink fails without effect when somebody else has taken the source.
Remove(p) ==
  /\ at[p] = "written"
  /\ file' = IF job[p].from = job[p].to THEN file ELSE file \ {job[p].from}
  /\ Rest(p)
  /\ UNCHANGED <<kills, meddled, overtaken>>

\* An archive stamps the file where it is, looks again, and renames it.
MoveToArchive(p) ==
  /\ at[p] = "ready" /\ job[p].how = "archive"
  /\ file' = IF job[p].from \in file /\ "archived" \notin file
               THEN (file \ {job[p].from}) \cup {"archived"} ELSE file
  /\ Rest(p)
  /\ UNCHANGED <<kills, meddled, overtaken>>
-----------------------------------------------------------------------------
\* mv -n: at once, and not at all when the target is there.
Rename(renames) ==
  \E m \in renames :
    /\ m.from \in file /\ m.to \notin file
    /\ m.from # "pending" => Quiet
    /\ file' = (file \ {m.from}) \cup {m.to}
    /\ UNCHANGED <<at, job, kills, meddled, overtaken>>

LaneMoves == Rename(LaneRenames)
ReviewerMoves == Rename(ReviewRenames)

\* Slip: a copy is set aside instead of the file.
SetAsideCopy ==
  /\ at["sweep"] = "idle" /\ "pending" \in file /\ Quiet
  /\ file' = file \cup {"staging"}
  /\ Goto("sweep", "aside")
  /\ UNCHANGED <<kills, meddled, overtaken>>

\* expiry-sweep.js sets a queued task aside and judges the copy it now owns.
SetAside ==
  /\ at["sweep"] = "idle" /\ "pending" \in file /\ Quiet
  /\ file' = (file \ {"pending"}) \cup {"staging"}
  /\ Goto("sweep", "aside")
  /\ UNCHANGED <<kills, meddled, overtaken>>

\* Slip: an error on the way leaves the task in staging.
PutBackNever == UNCHANGED file

\* After an error the task goes back to the queue if its place is free.
PutBack == file' = IF "pending" \in file THEN file ELSE (file \ {"staging"}) \cup {"pending"}

\* An archived copy of the same name sends the task back over whatever is queued.
Retire ==
  /\ at["sweep"] = "aside"
  /\ \/ PutBack
     \/ \E to \in {"archived", "approved", "pending"} :
          /\ (to = "archived") => "archived" \notin file
          /\ (to = "pending") => "archived" \in file
          /\ file' = (file \ {"staging"}) \cup {to}
  /\ Rest("sweep")
  /\ UNCHANGED <<kills, meddled, overtaken>>

\* apply-task.sh and apply-task.js: apply, write the outcome into the file that
\* was read, and move it under the lock, over whatever lies there.
StartApply ==
  /\ at["applier"] = "idle" /\ "approved" \in file
  /\ Goto("applier", "applying")
  /\ UNCHANGED <<file, kills, meddled, overtaken>>

EndApply ==
  /\ at["applier"] = "applying"
  /\ Quiet
  /\ \E m \in Moves("mv", {"approved"}, Outcomes) : job' = [job EXCEPT !["applier"] = m]
  /\ file' = file \cup {"approved"}
  /\ at' = [at EXCEPT !["applier"] = "applied"]
  /\ UNCHANGED <<kills, meddled, overtaken>>

FileApplied ==
  /\ at["applier"] = "applied"
  /\ ~LockTaken
  /\ file' = (file \ {"approved"}) \cup (IF "approved" \in file THEN {job["applier"].to} ELSE {})
  /\ Rest("applier")
  /\ UNCHANGED <<kills, meddled, overtaken>>

\* A kill releases the flock and leaves the files as they are.
Kill(p) ==
  /\ kills < MaxKills /\ at[p] # "idle"
  /\ Rest(p)
  /\ kills' = kills + 1 /\ meddled' = TRUE
  /\ UNCHANGED <<file, overtaken>>

Step(p) == \/ Read(p) \/ Look(p) \/ ComeBack(p) \/ TakeLock(p)
           \/ Write(p) \/ Remove(p) \/ MoveToArchive(p) \/ Kill(p)

\* Two files of one task are left, and each goes its own way from here.
Forked == Quiet /\ Cardinality(file) > 1

Next == /\ ~Forked
        /\ \/ \E p \in Procs : Step(p)
           \/ LaneMoves \/ ReviewerMoves
           \/ SetAside \/ Retire
           \/ StartApply \/ EndApply \/ FileApplied

Spec == Init /\ [][Next]_vars
-----------------------------------------------------------------------------
(***************************************************************************)
(* Properties.                                                             *)
(***************************************************************************)
TypeOK == /\ file \subseteq Dirs
          /\ at \in [Procs -> {"idle", "read", "ready", "written", "aside", "applying", "applied"}]
          /\ job \in [Procs -> [how : {"none", "locked", "plain", "slow", "careful", "early", "archive", "mv"}, from : Dirs, to : Dirs]]
          /\ kills \in 0 .. MaxKills
          /\ {meddled, overtaken} \subseteq BOOLEAN

\* As long as moves have left one file, it is not lost, whoever moves the task, in
\* whatever order their writes and unlinks fall and whoever is killed in between:
\* the target is written before the source goes.  Except by a mover that sets out
\* to move a task which has left since it was read: the file it unlinks may be the
\* one that another mover has just brought back.
NeverLost == file # {} \/ overtaken

\* While nobody but the daemons moves the task and none is killed, it is in one
\* directory, and in a second one only between the write and the unlink of a
\* move: what the sweeps decided on is still there when they act.
OneFile ==
  ~meddled => \E d \in file : file \subseteq {d} \cup {job[p].from : p \in {q \in Procs : at[q] = "written"}}

\* A task that the expiry sweep set aside is on its way to the archive, to apply
\* or back to the queue; only a kill leaves it where no daemon looks.
NothingStranded == "staging" \in file => at["sweep"] = "aside" \/ meddled
=============================================================================
