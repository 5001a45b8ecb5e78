----------------------------- MODULE RollingBranch -----------------------------
(***************************************************************************)
(* How approved tasks reach origin: the apply daemon collects their        *)
(* commits on one rolling branch (the triage branch; the shared branch of  *)
(* stacked hub tasks is prepared by the same code), pushes it, and a       *)
(* person merges or discards it there.                                     *)
(*                                                                         *)
(* A ref is the set of the commits that it reaches, {} if it is missing,   *)
(* so "a is an ancestor of b" is a \subseteq b.  A commit is a number and  *)
(* the tasks whose work it carries; a rebase gives it a new number.        *)
(***************************************************************************)
EXTENDS Naturals, FiniteSets

CONSTANTS Tasks,
          MaxMoves,  \* bound: what people and other writers do at origin
          MaxFaults  \* bound: failed network calls, conflicts and kills

ASSUME BranchAssumption == MaxMoves \in Nat /\ MaxFaults \in Nat

VARIABLES main, remote,          \* at origin
          tmain, track, local,   \* in the clone: origin/main, origin/<branch>, <branch>
          rescued,               \* commits on rescue branches
          task,                  \* where each task's file is
          pc, batch,             \* of the one apply process (apply-task.lock)
          next, moves, faults,   \* the number of the next commit, and two bounds
          discarded              \* history: commits a person discarded

vars == <<main, remote, tmain, track, local, rescued, task, pc, batch, next, moves, faults, discarded>>

Root == {<<0, {}>>}
Works(ref) == UNION {c[2] : c \in ref}

Init == /\ main = Root /\ remote = {} /\ tmain = Root /\ track = {} /\ local = {}
        /\ rescued = {} /\ discarded = {}
        /\ task = [t \in Tasks |-> "approved"]
        /\ pc = "idle" /\ batch = {}
        /\ next = 1 /\ moves = 0 /\ faults = 0

Origin == <<main, remote, discarded, moves>>
Clone  == <<tmain, track, local, rescued>>

Fault == faults < MaxFaults /\ faults' = faults + 1
NoFault == UNCHANGED faults

\* The commits of `from` that `onto` lacks, under new numbers on top of `onto`.  Those
\* whose work is there already are dropped.
Rebased(from, onto) ==
  onto \cup {<<next + c[1], c[2]>> : c \in {d \in from \ onto : d[2] # {} /\ ~(d[2] \subseteq Works(onto))}}
-----------------------------------------------------------------------------
(* Slips that the mutation runs put in place of the definitions below.     *)

\* Both branches diverged: refuse, until a person reconciles them.
TwoSidedRefused == pc' = "failed" /\ UNCHANGED <<local, rescued, tmain, next>>

\* Diverged local commits are thrown away.
RescueNothing(l) == rescued

\* A push that failed for good is reported as applied.
FailedIsDone(t) == "done"

\* The batch is taken up again while it is still being applied.
BatchOfAnything == (SUBSET Tasks) \ {{}}
-----------------------------------------------------------------------------
Batches == (SUBSET {t \in Tasks : task[t] = "approved"}) \ {{}}

\* apply-task.sh --batch; fetchMain may throw.
Begin ==
  /\ pc = "idle"
  /\ \E b \in Batches : batch' = b
  /\ \/ pc' = "fetch" /\ tmain' = main /\ NoFault
     \/ pc' = "failed" /\ Fault /\ UNCHANGED tmain
  /\ UNCHANGED <<Origin, track, local, rescued, task, next>>

\* prepareStackedBranch fetches the branch; a missing one is dropped once ls-remote says so.
FetchBranch ==
  /\ pc = "fetch"
  /\ pc' = "select"
  /\ \/ track' = remote /\ NoFault
     \/ UNCHANGED track /\ Fault
  /\ UNCHANGED <<Origin, tmain, local, rescued, task, batch, next>>

Rescue(l) == rescued \cup l

\* The local branch has commits that origin lacks, and origin some that it lacks.
TwoSided ==
  /\ pc' = "ready"
  /\ local' = track
  /\ \/ Works(local \ track) \subseteq Works(track) /\ UNCHANGED rescued
     \/ rescued' = Rescue(local)
  /\ UNCHANGED <<tmain, next>>

\* origin/<branch> is behind main: merge main into it, else rebase it, else refuse.
BringUpToMain ==
  /\ tmain' = main
  /\ \/ /\ pc' = "ready" /\ local' = track \cup main \cup {<<next, {}>>} /\ next' = next + 1
        /\ NoFault
     \/ /\ pc' = "ready" /\ local' = Rebased(track, main) /\ next' = 2 * next
        /\ Fault
     \/ /\ pc' = "failed" /\ local' = track /\ UNCHANGED next /\ Fault
  /\ UNCHANGED rescued

Sync(ref) == pc' = "ready" /\ local' = ref /\ UNCHANGED <<rescued, next>>

Select ==
  /\ pc = "select"
  /\ \/ /\ track # {} /\ local # {} /\ track \subseteq local /\ track # local
        /\ Sync(local) /\ UNCHANGED tmain /\ NoFault
     \/ /\ track # {} /\ local # {} /\ ~(track \subseteq local) /\ ~(local \subseteq track)
        /\ TwoSided /\ NoFault
     \/ /\ track # {} /\ local \subseteq track
        /\ IF main \subseteq track THEN Sync(track) /\ tmain' = main /\ NoFault ELSE BringUpToMain
     \/ /\ track = {} /\ local # {} /\ tmain \subseteq local
        /\ Sync(local) /\ UNCHANGED tmain /\ NoFault
     \/ /\ track = {} /\ ~(local # {} /\ tmain \subseteq local)
        /\ Sync(main) /\ tmain' = main /\ NoFault
  /\ UNCHANGED <<Origin, track, task, batch>>

Commit ==
  /\ pc = "ready"
  /\ local' = local \cup {<<next, batch>>} /\ next' = next + 1
  /\ pc' = "push"
  /\ UNCHANGED <<Origin, tmain, track, rescued, task, batch, faults>>

Accepted == remote \subseteq local

\* pushBranch: a push that timed out counts as done if ls-remote shows it landed.
Push ==
  /\ pc = "push"
  /\ \/ Accepted /\ remote' = local /\ track' = local /\ pc' = "pushed" /\ NoFault
     \/ Accepted /\ remote' = local /\ UNCHANGED track /\ pc' = "retry" /\ Fault
     \/ ~Accepted /\ UNCHANGED <<remote, track>> /\ pc' = "retry" /\ NoFault
     \/ UNCHANGED <<remote, track>> /\ pc' = "retry" /\ Fault
  /\ UNCHANGED <<main, discarded, moves, tmain, local, rescued, task, batch, next>>

\* retryPushAfterRebase: the fetch is best effort, and the rebase is onto the tracking
\* ref, stale or not.  A conflict, or no such ref, ends it.
RetryPush ==
  /\ pc = "retry"
  /\ \/ \E onto \in {IF remote # {} THEN remote ELSE track} \ {{}} :
          /\ track' = onto /\ local' = Rebased(local, onto) /\ next' = 2 * next
          /\ \/ remote' = local' /\ pc' = "pushed" /\ NoFault
             \/ UNCHANGED remote /\ pc' = "failed" /\ Fault
     \/ /\ pc' = "failed" /\ UNCHANGED <<remote, track, local, next>>
        /\ IF remote = {} /\ track = {} THEN NoFault ELSE Fault
  /\ UNCHANGED <<main, discarded, moves, tmain, rescued, task, batch>>

FailedGoesTo(t) == "blocked"

\* recordApplyOutcome for every task of the batch, and the moves of apply-task.sh.
Finish ==
  /\ pc \in {"pushed", "failed"}
  /\ task' = [t \in Tasks |-> IF t \notin batch THEN task[t]
                              ELSE IF pc = "pushed" THEN "done" ELSE FailedGoesTo(t)]
  /\ pc' = "idle" /\ batch' = {}
  /\ UNCHANGED <<Origin, Clone, next, faults>>

\* SIGKILL: no result is printed, and the tasks stay in approved/.
Kill ==
  /\ pc # "idle" /\ Fault
  /\ pc' = "idle" /\ batch' = {}
  /\ UNCHANGED <<Origin, Clone, task, next>>

\* apply-retry-check brings a failed apply back, as it was or redrafted.
Reapprove(t) ==
  /\ task[t] = "blocked"
  /\ task' = [task EXCEPT ![t] = "approved"]
  /\ UNCHANGED <<Origin, Clone, pc, batch, next, faults>>
-----------------------------------------------------------------------------
(* At origin: other work on main, other commits on the branch, and the     *)
(* person who merges the branch, deletes it, or both.                      *)

Move == moves < MaxMoves /\ moves' = moves + 1
        /\ UNCHANGED <<tmain, track, local, rescued, task, pc, batch, faults>>

MainMoves == /\ Move
             /\ main' = main \cup {<<next, {}>>} /\ next' = next + 1
             /\ UNCHANGED <<remote, discarded>>

OtherPush == /\ Move /\ remote # {}
             /\ remote' = remote \cup {<<next, {}>>} /\ next' = next + 1
             /\ UNCHANGED <<main, discarded>>

\* A merge commit, or one squashed commit with the same work.
Merge == /\ Move /\ remote # {}
         /\ \/ main' = main \cup remote \cup {<<next, {}>>}
            \/ main' = main \cup {<<next, Works(remote)>>}
         /\ remote' \in {remote, {}} /\ next' = next + 1
         /\ UNCHANGED discarded

Discard == /\ Move /\ remote # {}
           /\ remote' = {}
           /\ discarded' = discarded \cup {c \in remote \ main : ~(c[2] \subseteq Works(main))}
           /\ UNCHANGED <<main, next>>

Apply == Begin \/ FetchBranch \/ Select \/ Commit \/ Push \/ RetryPush \/ Finish

Next == Apply \/ Kill \/ (\E t \in Tasks : Reapprove(t)) \/ MainMoves \/ OtherPush \/ Merge \/ Discard

\* The apply loop ticks every 30 s and each git call returns or times out; the retry
\* sweep of the watchdog ticks too.
Fairness == WF_vars(Apply) /\ \A t \in Tasks : WF_vars(Reapprove(t))

Spec == Init /\ [][Next]_vars /\ Fairness
-----------------------------------------------------------------------------
Ref(r) == r = {} \/ Root \subseteq r

TypeOK ==
  /\ \A r \in {main, remote, tmain, track, local} : /\ Ref(r) /\ IsFiniteSet(r)
                                                    /\ \A c \in r : c[1] < next /\ c[2] \subseteq Tasks
  /\ task \in [Tasks -> {"approved", "blocked", "done"}]
  /\ pc \in {"idle", "fetch", "select", "ready", "push", "retry", "pushed", "failed"}
  /\ batch \subseteq {t \in Tasks : task[t] = "approved"} /\ (pc = "idle" <=> batch = {})
  /\ moves \in 0 .. MaxMoves /\ faults \in 0 .. MaxFaults

\* A task in done/ has its work at origin, on the branch or on main, unless a person
\* discarded it there: no rebase, rescue or reset of the clone takes it away again.
DoneIsAtOrigin ==
  \A t \in Tasks : task[t] = "done" => t \in Works(main) \cup Works(remote) \cup Works(discarded)

Kept == Works(main) \cup Works(remote) \cup Works(rescued) \cup Works(local)

\* While origin has the branch, no step of the daemon loses committed work that is
\* not pushed yet: commits of a diverged local branch go to a rescue branch.
DivergedWorkIsRescued == [][(track' # {} /\ remote' = remote) => Kept \subseteq Kept']_vars

\* No state of the branch is one that every later apply trips over: when the faults
\* stop, every approved task is applied.
AllApplied == <>[](\A t \in Tasks : task[t] = "done")
=============================================================================
