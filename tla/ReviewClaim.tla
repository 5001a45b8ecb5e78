----------------------------- MODULE ReviewClaim -----------------------------
(***************************************************************************)
(* The review daemons (src/scripts/review-runner.sh) sharing queue/review/ *)
(* and the per-item claim that keeps two of them off one item.             *)
(*                                                                         *)
(* A claim is the directory review-claims/<t>.d; a reviewer first makes    *)
(* the directory and then writes its pid into <t>.d/owner, so a claim can  *)
(* be seen Unstamped.  A claim whose owner is missing, dead, or whose      *)
(* directory is older than three hours is deleted and made again.          *)
(*                                                                         *)
(* A Reviewer is one daemon process; the daemon the watchdog starts in the *)
(* place of a dead one is another member.  review-task.js runs as its      *)
(* child and outlives a reviewer that is killed ("orphan").                *)
(*                                                                         *)
(* External to this module: the drafts that fill review/ (Init), and       *)
(* apply-task.sh and the blocked sweeps, which empty approved/ and         *)
(* blocked/ (Downstream).                                                  *)
(***************************************************************************)
EXTENDS Naturals

CONSTANTS Reviewers,   \* review daemon processes
          Mortal,      \* those that may be killed or stopped
          Tasks,       \* task file names
          NoTask, NoClaim, Unstamped,
          FailLimit,   \* REVIEW_FAILURE_RETRY_LIMIT (5)
          RoundLimit,  \* REVIEW_INFRA_REQUEUE_LIMIT (3)
          MayAge       \* whether a claim can outlive its three hours

ASSUME ClaimAssumption == /\ Mortal \subseteq Reviewers
                          /\ NoTask \notin Tasks
                          /\ NoClaim \notin Reviewers /\ Unstamped \notin Reviewers
                          /\ NoClaim # Unstamped
                          /\ FailLimit \in Nat \ {0}
                          /\ RoundLimit \in Nat
                          /\ MayAge \in BOOLEAN

VARIABLES copies,   \* the queue directories that hold a file of this name
          tries,    \* <<reviewFailureCount, reviewInfraRequeueCount>> in review/<t>
          claim,    \* review-claims/<t>.d
          aged,     \* claims older than three hours
          pc, item, \* where each reviewer is, and the item of its loop body
          current,  \* CURRENT_CLAIM
          listing,  \* the rest of this tick's snapshot of review/
          seen,     \* `tries` as review-task.js read it
          result,   \* what the review returned
          robbed,   \* history: a claim was deleted under a process still on the task
          filed     \* history: how often the task left review/, counted up to 2

vars == <<copies, tries, claim, aged, pc, item, current, listing, seen, result, robbed, filed>>
files == <<copies, tries, filed>>
claims == <<claim, aged, robbed>>

Verdicts == {"approved", "blocked"}
Failures == {"infra", "genuine"}
Loop == {"idle", "next", "claim", "judge", "evict", "remake", "stamp", "claimed",
         "lock", "reviewing", "count", "file"}

Try == (0..FailLimit) \X (0..RoundLimit)

TypeOK == /\ copies \in [Tasks -> SUBSET ({"review"} \cup Verdicts)]
          /\ tries \in [Tasks -> Try]
          /\ claim \in [Tasks -> Reviewers \cup {NoClaim, Unstamped}]
          /\ aged \subseteq Tasks
          /\ pc \in [Reviewers -> Loop \cup {"orphan", "dead"}]
          /\ item \in [Reviewers -> Tasks \cup {NoTask}]
          /\ current \in [Reviewers -> Tasks \cup {NoTask}]
          /\ listing \in [Reviewers -> SUBSET Tasks]
          /\ seen \in [Reviewers -> Try]
          /\ result \in [Reviewers -> Verdicts \cup Failures \cup {"none"}]
          /\ robbed \subseteq Tasks
          /\ filed \in [Tasks -> 0..2]

Init == /\ copies = [t \in Tasks |-> {"review"}]
        /\ tries = [t \in Tasks |-> <<0, 0>>]
        /\ claim = [t \in Tasks |-> NoClaim]
        /\ aged = {}
        /\ pc = [r \in Reviewers |-> "idle"]
        /\ item = [r \in Reviewers |-> NoTask]
        /\ current = [r \in Reviewers |-> NoTask]
        /\ listing = [r \in Reviewers |-> {}]
        /\ seen = [r \in Reviewers |-> <<0, 0>>]
        /\ result = [r \in Reviewers |-> "none"]
        /\ robbed = {}
        /\ filed = [t \in Tasks |-> 0]

-----------------------------------------------------------------------------
Alive(r) == pc[r] \notin {"orphan", "dead"}

InReview(t) == "review" \in copies[t]

Goto(r, label) == pc' = [pc EXCEPT ![r] = label]

\* r's stretch of the loop body in which it, or its child, acts on t as claimed.
OnTask(r, t) == /\ item[r] = t
                /\ pc[r] \in {"stamp", "claimed", "lock", "reviewing", "count", "file", "orphan"}

Holds(r, t) == OnTask(r, t) \/ (Alive(r) /\ current[r] = t)

Release(r) == IF current[r] = NoTask
              THEN UNCHANGED <<claim, aged>>
              ELSE /\ claim' = [claim EXCEPT ![current[r]] = NoClaim]
                   /\ aged' = aged \ {current[r]}

-----------------------------------------------------------------------------
(* Slips that the mutation runs put in place of the definitions below      *)

\* release_current_claim at the end of the tick is forgotten.
EndTickKeepsClaim(r) ==
  /\ pc[r] = "next"
  /\ listing[r] = {}
  /\ current' = [current EXCEPT ![r] = NoTask]
  /\ item' = [item EXCEPT ![r] = NoTask]
  /\ Goto(r, "idle")
  /\ UNCHANGED <<files, claims, listing, seen, result>>

\* `mkdir -p`, which succeeds on a directory that is there.
MakeClaimAnyway(r) ==
  /\ pc[r] = "claim"
  /\ claim' = [claim EXCEPT ![item[r]] = IF @ = NoClaim THEN Unstamped ELSE @]
  /\ Goto(r, "stamp")
  /\ UNCHANGED <<files, aged, robbed, item, current, listing, seen, result>>

\* A claim stands as long as it has an owner, dead or not.
StandingEvenDead(t) == claim[t] \in Reviewers /\ t \notin aged

\* The claim is given back when the review returns, before the move.
VerdictReleases(r, v) ==
  /\ pc[r] = "reviewing"
  /\ copies' = [copies EXCEPT ![item[r]] = @ \cup {"review"}]
  /\ tries' = [tries EXCEPT ![item[r]] = seen[r]]
  /\ Release(r)
  /\ current' = [current EXCEPT ![r] = NoTask]
  /\ result' = [result EXCEPT ![r] = v]
  /\ Goto(r, "file")
  /\ seen' = [seen EXCEPT ![r] = <<0, 0>>]
  /\ UNCHANGED <<robbed, item, listing, filed>>

\* Infra outages buy another round without end.
CountFailureForever(r) ==
  /\ pc[r] = "count"
  /\ tries' = [tries EXCEPT ![item[r]] = IF @[1] + 1 >= FailLimit
                                         THEN <<0, @[2] + 1>> ELSE <<@[1] + 1, @[2]>>]
  /\ Goto(r, "next")
  /\ result' = [result EXCEPT ![r] = "none"]
  /\ UNCHANGED <<claims, item, current, listing, seen, copies, filed>>

-----------------------------------------------------------------------------
(* One tick *)

ListItems(r) ==
  /\ pc[r] = "idle"
  /\ listing' = [listing EXCEPT ![r] = {t \in Tasks : InReview(t)}]
  /\ Goto(r, "next")
  /\ UNCHANGED <<files, claims, item, current, seen, result>>

\* release_current_claim for the item before, then the first file check.
NextItem(r) ==
  /\ pc[r] = "next"
  /\ Release(r)
  /\ current' = [current EXCEPT ![r] = NoTask]
  /\ \E t \in listing[r] :
       /\ listing' = [listing EXCEPT ![r] = @ \ {t}]
       /\ item' = [item EXCEPT ![r] = t]
       /\ Goto(r, IF InReview(t) THEN "claim" ELSE "next")
  /\ UNCHANGED <<files, robbed, seen, result>>

EndTick(r) ==
  /\ pc[r] = "next"
  /\ listing[r] = {}
  /\ Release(r)
  /\ current' = [current EXCEPT ![r] = NoTask]
  /\ item' = [item EXCEPT ![r] = NoTask]
  /\ Goto(r, "idle")
  /\ UNCHANGED <<files, robbed, listing, seen, result>>

-----------------------------------------------------------------------------
(* claim_review_item *)

MakeClaim(r) ==
  /\ pc[r] = "claim"
  /\ IF claim[item[r]] = NoClaim
     THEN /\ claim' = [claim EXCEPT ![item[r]] = Unstamped]
          /\ Goto(r, "stamp")
     ELSE /\ Goto(r, "judge")
          /\ UNCHANGED claim
  /\ UNCHANGED <<files, aged, robbed, item, current, listing, seen, result>>

\* The write fails when the directory is gone, and the claim still counts.
StampClaim(r) ==
  /\ pc[r] = "stamp"
  /\ claim' = [claim EXCEPT ![item[r]] = IF @ = NoClaim THEN NoClaim ELSE r]
  /\ current' = [current EXCEPT ![r] = item[r]]
  /\ Goto(r, "claimed")
  /\ UNCHANGED <<files, aged, robbed, item, listing, seen, result>>

\* owner_pid, kill -0 and the age of the directory.
Standing(t) == claim[t] \in Reviewers /\ Alive(claim[t]) /\ t \notin aged

JudgeClaim(r) ==
  /\ pc[r] = "judge"
  /\ Goto(r, IF Standing(item[r]) THEN "next" ELSE "evict")
  /\ UNCHANGED <<files, claims, item, current, listing, seen, result>>

EvictClaim(r) ==
  /\ pc[r] = "evict"
  /\ claim' = [claim EXCEPT ![item[r]] = NoClaim]
  /\ aged' = aged \ {item[r]}
  /\ robbed' = IF \E q \in Reviewers \ {r} : Holds(q, item[r])
               THEN robbed \cup {item[r]}
               ELSE robbed
  /\ Goto(r, "remake")
  /\ UNCHANGED <<files, item, current, listing, seen, result>>

RemakeClaim(r) ==
  /\ pc[r] = "remake"
  /\ IF claim[item[r]] = NoClaim
     THEN /\ claim' = [claim EXCEPT ![item[r]] = Unstamped]
          /\ Goto(r, "stamp")
     ELSE /\ Goto(r, "next")
          /\ UNCHANGED claim
  /\ UNCHANGED <<files, aged, robbed, item, current, listing, seen, result>>

\* The second file check: "it moved between our listing and our claim".
CheckAgain(r) ==
  /\ pc[r] = "claimed"
  /\ Goto(r, IF InReview(item[r]) THEN "lock" ELSE "next")
  /\ UNCHANGED <<files, claims, item, current, listing, seen, result>>

-----------------------------------------------------------------------------
(* The review itself, under the single-flight lock of this lane's endpoint *)

LockTimesOut(r) ==
  /\ pc[r] = "lock"
  /\ result' = [result EXCEPT ![r] = "infra"]
  /\ Goto(r, "count")
  /\ UNCHANGED <<files, claims, item, current, listing, seen>>

\* review-task.js reads the file; without one it returns a failure.
StartReview(r) ==
  /\ pc[r] = "lock"
  /\ IF InReview(item[r])
     THEN /\ seen' = [seen EXCEPT ![r] = tries[item[r]]]
          /\ Goto(r, "reviewing")
          /\ UNCHANGED result
     ELSE /\ result' = [result EXCEPT ![r] = "genuine"]
          /\ Goto(r, "count")
          /\ UNCHANGED seen
  /\ UNCHANGED <<files, claims, item, current, listing>>

\* writeTaskJson: the task as read at the start, renamed over review/<t>.
WriteTaskJson(r) ==
  /\ copies' = [copies EXCEPT ![item[r]] = @ \cup {"review"}]
  /\ tries' = [tries EXCEPT ![item[r]] = seen[r]]

\* The history hook, at every checkpoint of the vote.
Checkpoint(r) ==
  /\ pc[r] \in {"reviewing", "orphan"}
  /\ WriteTaskJson(r)
  /\ UNCHANGED <<claims, pc, item, current, listing, seen, result, filed>>

Verdict(r, v) ==
  /\ pc[r] \in {"reviewing", "orphan"}
  /\ WriteTaskJson(r)
  /\ IF pc[r] = "orphan"
     THEN /\ Goto(r, "dead")
          /\ UNCHANGED result
     ELSE /\ result' = [result EXCEPT ![r] = v]
          /\ Goto(r, "file")
  /\ seen' = [seen EXCEPT ![r] = <<0, 0>>]
  /\ UNCHANGED <<claims, item, current, listing, filed>>

ReviewFails(r, f) ==
  /\ pc[r] \in {"reviewing", "orphan"}
  /\ IF pc[r] = "orphan"
     THEN /\ Goto(r, "dead")
          /\ UNCHANGED result
     ELSE /\ result' = [result EXCEPT ![r] = f]
          /\ Goto(r, "count")
  /\ seen' = [seen EXCEPT ![r] = <<0, 0>>]
  /\ UNCHANGED <<files, claims, item, current, listing>>

\* A Forge GPU pause or a task domain the config lacks: left, not counted.
ReviewPaused(r) ==
  /\ pc[r] = "reviewing"
  /\ Goto(r, "next")
  /\ seen' = [seen EXCEPT ![r] = <<0, 0>>]
  /\ UNCHANGED <<files, claims, item, current, listing, result>>

\* reviewFailureCount + 1; at the limit an infra outage buys another round,
\* anything else gives the task up.  A file that is gone counts as 1.  (The
\* count is only compared with the limit, and stops there.)
CountFailure(r) ==
  LET t == item[r]
      fails == IF tries[t][1] < FailLimit THEN tries[t][1] + 1 ELSE FailLimit
      rounds == tries[t][2]
      spent == fails >= FailLimit
      again == result[r] = "infra" /\ rounds < RoundLimit
  IN  /\ pc[r] = "count"
      /\ IF ~InReview(t) THEN UNCHANGED tries
         ELSE tries' = [tries EXCEPT ![t] = IF spent /\ again THEN <<0, rounds + 1>>
                                            ELSE <<fails, rounds>>]
      /\ IF InReview(t) /\ spent /\ ~again
         THEN /\ result' = [result EXCEPT ![r] = "blocked"]
              /\ Goto(r, "file")
         ELSE /\ Goto(r, "next")
              /\ result' = [result EXCEPT ![r] = "none"]
      /\ UNCHANGED <<claims, item, current, listing, seen, copies, filed>>

\* mv -n: nothing moves when the source is gone or the target is taken.
FileVerdict(r) ==
  LET t == item[r]
      v == result[r]
  IN  /\ pc[r] = "file"
      /\ IF InReview(t) /\ v \notin copies[t]
         THEN /\ copies' = [copies EXCEPT ![t] = (@ \ {"review"}) \cup {v}]
              /\ filed' = [filed EXCEPT ![t] = IF @ < 2 THEN @ + 1 ELSE @]
              /\ tries' = [tries EXCEPT ![t] = <<0, 0>>]
         ELSE UNCHANGED <<copies, filed, tries>>
      /\ Goto(r, "next")
      /\ result' = [result EXCEPT ![r] = "none"]
      /\ UNCHANGED <<claims, item, current, listing, seen>>

-----------------------------------------------------------------------------
(* Around the loop *)

ForgetTick(r) == /\ current' = [current EXCEPT ![r] = NoTask]
                 /\ listing' = [listing EXCEPT ![r] = {}]
                 /\ result' = [result EXCEPT ![r] = "none"]

\* SIGKILL, or a crash: no EXIT trap, and the node child goes on.
Kill(r) ==
  /\ r \in Mortal
  /\ Alive(r)
  /\ Goto(r, IF pc[r] = "reviewing" THEN "orphan" ELSE "dead")
  /\ ForgetTick(r)
  /\ UNCHANGED <<files, claims, item, seen>>

\* SIGTERM, deferred to the end of the foreground command: the EXIT trap runs.
Stop(r) ==
  /\ r \in Mortal
  /\ Alive(r)
  /\ pc[r] # "reviewing"
  /\ Release(r)
  /\ ForgetTick(r)
  /\ Goto(r, "dead")
  /\ UNCHANGED <<files, robbed, item, seen>>

ClaimAges(t) ==
  /\ MayAge
  /\ claim[t] # NoClaim
  /\ aged' = aged \cup {t}
  /\ UNCHANGED <<files, claim, robbed, pc, item, current, listing, seen, result>>

\* apply-task.sh or a sweep takes the copy on.
Downstream(t, d) ==
  /\ d \in copies[t]
  /\ copies' = [copies EXCEPT ![t] = @ \ {d}]
  /\ UNCHANGED <<claims, tries, filed, pc, item, current, listing, seen, result>>

Claiming(r) == MakeClaim(r) \/ StampClaim(r) \/ JudgeClaim(r) \/ EvictClaim(r) \/ RemakeClaim(r)

Ends(r) == \/ \E v \in Verdicts : Verdict(r, v)
           \/ \E f \in Failures : ReviewFails(r, f)

Step(r) == \/ ListItems(r) \/ NextItem(r) \/ EndTick(r) \/ Claiming(r) \/ CheckAgain(r)
           \/ LockTimesOut(r) \/ StartReview(r) \/ Ends(r) \/ ReviewPaused(r)
           \/ CountFailure(r) \/ FileVerdict(r)

Next == \/ \E r \in Reviewers : Step(r) \/ Checkpoint(r) \/ Kill(r) \/ Stop(r)
        \/ \E t \in Tasks : ClaimAges(t) \/ \E d \in Verdicts : Downstream(t, d)

Spec == Init /\ [][Next]_vars

\* Every daemon that is not killed keeps running its loop; the reviews of an
\* item are not paused for ever; what is filed is taken on.
FairSpec == /\ Spec
            /\ \A r \in Reviewers : WF_vars(Step(r)) /\ \A t \in Tasks : SF_vars(item[r] = t /\ Ends(r))
            /\ \A t \in Tasks, d \in Verdicts : WF_vars(Downstream(t, d))

-----------------------------------------------------------------------------
(* Correctness *)

\* docs/agents/lanes.md "No double reviews": the claim keeps two live daemons
\* from reviewing one item at the same time.
NoDoubleReview ==
  \A q, r \in Reviewers : \A t \in Tasks :
     (pc[q] = "reviewing" /\ pc[r] = "reviewing" /\ item[q] = t /\ item[r] = t) => q = r

\* As long as nobody deleted a claim under a reviewer (or its orphaned child)
\* that was still on the task, one process at a time is on it: mkdir excludes,
\* and the claim is kept past the move that ends the review.
ClaimExcludes ==
  \A t \in Tasks \ robbed : \A q, r \in Reviewers : OnTask(q, t) /\ Holds(r, t) => q = r

\* And then no task leaves review/ twice: no verdict is given on a copy that
\* a late write brought back after the move.
FiledOnce == \A t \in Tasks \ robbed : filed[t] <= 1

\* A daemon between two ticks has left no claim behind, so an item that stays
\* in review/ is not kept from the other daemons.
IdleHoldsNothing ==
  \A r \in Reviewers, t \in Tasks : pc[r] = "idle" => claim[t] # r

\* Giving up is bounded: an item that is in review/ leaves it, whichever
\* daemons are killed and whatever claims they leave, provided one survives
\* and no live claim was deleted.
ItemsLeaveReview ==
  \A t \in Tasks : InReview(t) ~> (~InReview(t) \/ t \in robbed)

=============================================================================
