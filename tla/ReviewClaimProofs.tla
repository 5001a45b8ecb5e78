-------------------------- MODULE ReviewClaimProofs --------------------------
(***************************************************************************)
(* Proofs about ReviewClaim for every set of reviewers and tasks, with any *)
(* number of kills and with claims that may outlive their three hours.     *)
(*                                                                         *)
(* Inv is the inductive invariant: on a task that was not robbed, holding  *)
(* implies that the claim directory is there, which is what makes a second *)
(* mkdir fail, and a copy that is being reviewed is still the only one     *)
(* that ever was in review/.                                               *)
(***************************************************************************)
EXTENDS ReviewClaim, TLAPS

\* Between the two loops r works on a task; before StampClaim it remembers none.
Local == \A r \in Reviewers :
           /\ pc[r] \in (Loop \cup {"orphan"}) \ {"idle", "next"} => item[r] \in Tasks
           /\ pc[r] \in {"idle", "claim", "judge", "evict", "remake", "stamp", "orphan", "dead"}
                => current[r] = NoTask
           /\ pc[r] \in {"claimed", "lock", "reviewing", "count", "file"} => current[r] = item[r]
           /\ pc[r] = "file" => result[r] \in Verdicts

\* A claim stamped by a living reviewer is the one it remembers.
Stamped == \A r \in Reviewers, t \in Tasks : Alive(r) /\ claim[t] = r => current[r] = t

OneHolder == \A t \in Tasks \ robbed : \A q, r \in Reviewers :
               Holds(q, t) /\ Holds(r, t) => q = r

HeldExists == \A t \in Tasks \ robbed : \A r \in Reviewers :
                Holds(r, t) => claim[t] # NoClaim

\* A copy under review is in review/, and no copy was filed before it.
UnderReview == \A t \in Tasks \ robbed :
                 /\ InReview(t) => filed[t] = 0
                 /\ filed[t] <= 1
                 /\ \A r \in Reviewers :
                      item[r] = t /\ pc[r] \in {"reviewing", "orphan"} => InReview(t)

Inv == TypeOK /\ Local /\ Stamped /\ OneHolder /\ HeldExists /\ UnderReview

\* The initial state satisfies the claim's invariant.
LEMMA InitInv == Init => Inv
  BY ClaimAssumption DEF Init, Inv, TypeOK, Try, Local, Stamped, OneHolder, HeldExists, UnderReview,
     Holds, OnTask, Alive, InReview, Loop, Verdicts, Failures

\* A reviewer keeps the types.
LEMMA StepTypes ==
  ASSUME Inv, NEW r \in Reviewers, Step(r) \/ Checkpoint(r) \/ Kill(r) \/ Stop(r)
  PROVE  TypeOK'
<1>0. /\ <<0, 0>> \in Try
      /\ \A t \in Tasks : tries[t] = <<tries[t][1], tries[t][2]>> /\ tries[t][1] \in 0..FailLimit /\ tries[t][2] \in 0..RoundLimit
  BY ClaimAssumption DEF Inv, TypeOK, Try
<1> USE ClaimAssumption, <1>0 DEF Inv, TypeOK, Loop, Verdicts, Failures, Goto, files, claims, Local, Alive
<1>1. CASE ListItems(r)
  BY <1>1 DEF ListItems
<1>2. CASE NextItem(r)
  <2>1. PICK t \in listing[r] : /\ listing' = [listing EXCEPT ![r] = @ \ {t}]
                                /\ item' = [item EXCEPT ![r] = t]
                                /\ \/ pc' = [pc EXCEPT ![r] = "claim"]
                                   \/ pc' = [pc EXCEPT ![r] = "next"]
    BY <1>2 DEF NextItem
  <2>2. /\ t \in Tasks
        /\ listing' \in [Reviewers -> SUBSET Tasks]
    BY <2>1
  <2>3. claim' \in [Tasks -> Reviewers \cup {NoClaim, Unstamped}] /\ aged' \subseteq Tasks
    BY <1>2 DEF NextItem, Release
  <2>4. pc' \in [Reviewers -> Loop \cup {"orphan", "dead"}]
    BY <2>1
  <2>5. /\ item' \in [Reviewers -> Tasks \cup {NoTask}]
        /\ current' \in [Reviewers -> Tasks \cup {NoTask}]
    BY <1>2, <2>1, <2>2 DEF NextItem
  <2> QED BY <1>2, <2>2, <2>3, <2>4, <2>5 DEF NextItem
<1>3. CASE EndTick(r)
  BY <1>3 DEF EndTick, Release
<1>4. CASE MakeClaim(r)
  BY <1>4 DEF MakeClaim
<1>5. CASE StampClaim(r)
  BY <1>5 DEF StampClaim
<1>6. CASE JudgeClaim(r)
  BY <1>6 DEF JudgeClaim
<1>7. CASE EvictClaim(r)
  BY <1>7 DEF EvictClaim
<1>8. CASE RemakeClaim(r)
  BY <1>8 DEF RemakeClaim
<1>9. CASE CheckAgain(r)
  BY <1>9 DEF CheckAgain
<1>10. CASE LockTimesOut(r)
  BY <1>10 DEF LockTimesOut
<1>11. CASE StartReview(r)
  BY <1>11 DEF StartReview
<1>12. CASE Ends(r)
  <2>1. ASSUME NEW v \in Verdicts, Verdict(r, v)
        PROVE  TypeOK'
    <3>1. item[r] \in Tasks /\ seen[r] \in Try
      BY <2>1 DEF Verdict
    <3>2. copies' \in [Tasks -> SUBSET ({"review"} \cup Verdicts)] /\ tries' \in [Tasks -> Try]
      BY <2>1, <3>1 DEF Verdict, WriteTaskJson
    <3>3. /\ pc' \in [Reviewers -> Loop \cup {"orphan", "dead"}]
          /\ result' \in [Reviewers -> Verdicts \cup Failures \cup {"none"}]
      BY <2>1 DEF Verdict
    <3>4. seen' \in [Reviewers -> Try] /\ UNCHANGED <<claims, item, current, listing, filed>>
      BY <2>1 DEF Verdict
    <3> QED BY <3>2, <3>3, <3>4
  <2>2. ASSUME NEW f \in Failures, ReviewFails(r, f)
        PROVE  TypeOK'
    <3>1. /\ pc' \in [Reviewers -> Loop \cup {"orphan", "dead"}]
          /\ result' \in [Reviewers -> Verdicts \cup Failures \cup {"none"}]
      BY <2>2 DEF ReviewFails
    <3>2. seen' \in [Reviewers -> Try] /\ UNCHANGED <<files, claims, item, current, listing>>
      BY <2>2 DEF ReviewFails
    <3> QED BY <3>1, <3>2
  <2> QED BY <1>12, <2>1, <2>2 DEF Ends
<1>13. CASE ReviewPaused(r)
  BY <1>13 DEF ReviewPaused
<1>14. CASE CountFailure(r)
  <2>1. item[r] \in Tasks
    BY <1>14 DEF CountFailure
  <2> DEFINE fails == IF tries[item[r]][1] < FailLimit THEN tries[item[r]][1] + 1 ELSE FailLimit
             rounds == tries[item[r]][2]
  <2>2. <<fails, rounds>> \in Try /\ (rounds < RoundLimit => <<0, rounds + 1>> \in Try)
    <3>1. tries[item[r]][1] \in 0..FailLimit /\ rounds \in 0..RoundLimit
      BY <2>1
    <3>2. fails \in 0..FailLimit /\ 0 \in 0..FailLimit /\ (rounds < RoundLimit => rounds + 1 \in 0..RoundLimit)
      BY <3>1
    <3> HIDE DEF fails, rounds
    <3> QED BY <3>1, <3>2 DEF Try
  <2>3. \/ tries' = tries
        \/ tries' = [tries EXCEPT ![item[r]] = <<fails, rounds>>]
        \/ rounds < RoundLimit /\ tries' = [tries EXCEPT ![item[r]] = <<0, rounds + 1>>]
    BY <1>14 DEF CountFailure
  <2> HIDE DEF fails, rounds
  <2>4. tries' \in [Tasks -> Try]
    <3>1. tries \in [Tasks -> Try]
      OBVIOUS
    <3> QED BY ONLY <2>1, <2>2, <2>3, <3>1
  <2>5. /\ pc' \in [Reviewers -> Loop \cup {"orphan", "dead"}]
        /\ result' \in [Reviewers -> Verdicts \cup Failures \cup {"none"}]
    BY <1>14 DEF CountFailure
  <2>6. UNCHANGED <<claims, item, current, listing, seen, copies, filed>>
    BY <1>14 DEF CountFailure
  <2> QED BY <2>4, <2>5, <2>6
<1>15. CASE FileVerdict(r)
  <2>1. item[r] \in Tasks /\ result[r] \in Verdicts
    BY <1>15 DEF FileVerdict
  <2>2. copies' \in [Tasks -> SUBSET ({"review"} \cup Verdicts)]
    <3>1. \/ copies' = copies
          \/ copies' = [copies EXCEPT ![item[r]] = (@ \ {"review"}) \cup {result[r]}]
      BY <1>15 DEF FileVerdict
    <3> QED BY <2>1, <3>1
  <2>3. filed' \in [Tasks -> 0..2]
    BY <1>15, <2>1 DEF FileVerdict
  <2>4. tries' = tries \/ tries' = [tries EXCEPT ![item[r]] = <<0, 0>>]
    BY <1>15 DEF FileVerdict
  <2>5. tries' \in [Tasks -> Try]
    <3>1. tries \in [Tasks -> Try] /\ <<0, 0>> \in Try
      OBVIOUS
    <3> QED BY ONLY <2>1, <2>4, <3>1
  <2> QED BY <1>15, <2>2, <2>3, <2>5 DEF FileVerdict
<1>16. CASE Checkpoint(r)
  BY <1>16 DEF Checkpoint, WriteTaskJson
<1>17. CASE Kill(r)
  BY <1>17 DEF Kill, ForgetTick
<1>18. CASE Stop(r)
  BY <1>18 DEF Stop, Release, ForgetTick
<1> QED BY <1>1, <1>2, <1>3, <1>4, <1>5, <1>6, <1>7, <1>8, <1>9, <1>10, <1>11, <1>12, <1>13, <1>14, <1>15, <1>16, <1>17, <1>18 DEF Step, Claiming

\* A reviewer keeps its own bookkeeping.
LEMMA StepLocal ==
  ASSUME Inv, NEW r \in Reviewers, Step(r) \/ Checkpoint(r) \/ Kill(r) \/ Stop(r)
  PROVE  Local'
<1> USE ClaimAssumption DEF Inv, TypeOK, Try, Loop, Verdicts, Failures, Goto, files, claims
<1>1. CASE ListItems(r)
  BY <1>1 DEF ListItems, Local, Alive
<1>2. CASE NextItem(r)
  BY <1>2 DEF NextItem, Release, Local, Alive
<1>3. CASE EndTick(r)
  BY <1>3 DEF EndTick, Release, Local, Alive
<1>4. CASE MakeClaim(r)
  BY <1>4 DEF MakeClaim, Local, Alive
<1>5. CASE StampClaim(r)
  BY <1>5 DEF StampClaim, Local, Alive
<1>6. CASE JudgeClaim(r)
  BY <1>6 DEF JudgeClaim, Local, Alive
<1>7. CASE EvictClaim(r)
  BY <1>7 DEF EvictClaim, Local, Alive
<1>8. CASE RemakeClaim(r)
  BY <1>8 DEF RemakeClaim, Local, Alive
<1>9. CASE CheckAgain(r)
  BY <1>9 DEF CheckAgain, Local, Alive
<1>10. CASE LockTimesOut(r)
  BY <1>10 DEF LockTimesOut, Local, Alive
<1>11. CASE StartReview(r)
  BY <1>11 DEF StartReview, Local, Alive
<1>12. CASE Ends(r)
  BY <1>12 DEF Ends, Verdict, ReviewFails, WriteTaskJson, Local, Alive
<1>13. CASE ReviewPaused(r)
  BY <1>13 DEF ReviewPaused, Local, Alive
<1>14. CASE CountFailure(r)
  BY <1>14 DEF CountFailure, Local, Alive
<1>15. CASE FileVerdict(r)
  BY <1>15 DEF FileVerdict, Local, Alive
<1>16. CASE Checkpoint(r)
  BY <1>16 DEF Checkpoint, WriteTaskJson, Local, Alive
<1>17. CASE Kill(r)
  BY <1>17 DEF Kill, ForgetTick, Local, Alive
<1>18. CASE Stop(r)
  BY <1>18 DEF Stop, Release, ForgetTick, Local, Alive
<1> QED BY <1>1, <1>2, <1>3, <1>4, <1>5, <1>6, <1>7, <1>8, <1>9, <1>10, <1>11, <1>12, <1>13, <1>14, <1>15, <1>16, <1>17, <1>18 DEF Step, Claiming

\* A reviewer keeps the stamps of living reviewers with those who remember them.
LEMMA StepStamped ==
  ASSUME Inv, NEW r \in Reviewers, Step(r) \/ Checkpoint(r) \/ Kill(r) \/ Stop(r)
  PROVE  Stamped'
<1> USE ClaimAssumption DEF Inv, TypeOK, Try, Loop, Verdicts, Failures, Goto, files, claims
<1>1. CASE ListItems(r)
  BY <1>1 DEF ListItems, Stamped, Local, Alive
<1>2. CASE NextItem(r)
  BY <1>2 DEF NextItem, Release, Stamped, Local, Alive
<1>3. CASE EndTick(r)
  BY <1>3 DEF EndTick, Release, Stamped, Local, Alive
<1>4. CASE MakeClaim(r)
  BY <1>4 DEF MakeClaim, Stamped, Local, Alive
<1>5. CASE StampClaim(r)
  BY <1>5 DEF StampClaim, Stamped, Local, Alive
<1>6. CASE JudgeClaim(r)
  BY <1>6 DEF JudgeClaim, Stamped, Local, Alive
<1>7. CASE EvictClaim(r)
  BY <1>7 DEF EvictClaim, Stamped, Local, Alive
<1>8. CASE RemakeClaim(r)
  BY <1>8 DEF RemakeClaim, Stamped, Local, Alive
<1>9. CASE CheckAgain(r)
  BY <1>9 DEF CheckAgain, Stamped, Local, Alive
<1>10. CASE LockTimesOut(r)
  BY <1>10 DEF LockTimesOut, Stamped, Local, Alive
<1>11. CASE StartReview(r)
  BY <1>11 DEF StartReview, Stamped, Local, Alive
<1>12. CASE Ends(r)
  BY <1>12 DEF Ends, Verdict, ReviewFails, WriteTaskJson, Stamped, Local, Alive
<1>13. CASE ReviewPaused(r)
  BY <1>13 DEF ReviewPaused, Stamped, Local, Alive
<1>14. CASE CountFailure(r)
  BY <1>14 DEF CountFailure, Stamped, Local, Alive
<1>15. CASE FileVerdict(r)
  BY <1>15 DEF FileVerdict, Stamped, Local, Alive
<1>16. CASE Checkpoint(r)
  BY <1>16 DEF Checkpoint, WriteTaskJson, Stamped, Local, Alive
<1>17. CASE Kill(r)
  BY <1>17 DEF Kill, ForgetTick, Stamped, Local, Alive
<1>18. CASE Stop(r)
  BY <1>18 DEF Stop, Release, ForgetTick, Stamped, Local, Alive
<1> QED BY <1>1, <1>2, <1>3, <1>4, <1>5, <1>6, <1>7, <1>8, <1>9, <1>10, <1>11, <1>12, <1>13, <1>14, <1>15, <1>16, <1>17, <1>18 DEF Step, Claiming

\* A reviewer comes to hold a task only when nobody does.
LEMMA StepOneHolder ==
  ASSUME Inv, NEW r \in Reviewers, Step(r) \/ Checkpoint(r) \/ Kill(r) \/ Stop(r)
  PROVE  OneHolder'
<1> USE ClaimAssumption DEF Inv, TypeOK, Try, Loop, Verdicts, Failures, Goto, files, claims
<1>1. CASE ListItems(r)
  BY <1>1 DEF ListItems, OneHolder, HeldExists, Local, Holds, OnTask, Alive
<1>2. CASE NextItem(r)
  BY <1>2 DEF NextItem, Release, OneHolder, HeldExists, Local, Holds, OnTask, Alive
<1>3. CASE EndTick(r)
  BY <1>3 DEF EndTick, Release, OneHolder, HeldExists, Local, Holds, OnTask, Alive
<1>4. CASE MakeClaim(r)
  BY <1>4 DEF MakeClaim, OneHolder, HeldExists, Local, Holds, OnTask, Alive
<1>5. CASE StampClaim(r)
  BY <1>5 DEF StampClaim, OneHolder, HeldExists, Local, Holds, OnTask, Alive
<1>6. CASE JudgeClaim(r)
  BY <1>6 DEF JudgeClaim, OneHolder, HeldExists, Local, Holds, OnTask, Alive
<1>7. CASE EvictClaim(r)
  BY <1>7 DEF EvictClaim, OneHolder, HeldExists, Local, Holds, OnTask, Alive
<1>8. CASE RemakeClaim(r)
  BY <1>8 DEF RemakeClaim, OneHolder, HeldExists, Local, Holds, OnTask, Alive
<1>9. CASE CheckAgain(r)
  BY <1>9 DEF CheckAgain, OneHolder, HeldExists, Local, Holds, OnTask, Alive
<1>10. CASE LockTimesOut(r)
  BY <1>10 DEF LockTimesOut, OneHolder, HeldExists, Local, Holds, OnTask, Alive
<1>11. CASE StartReview(r)
  BY <1>11 DEF StartReview, OneHolder, HeldExists, Local, Holds, OnTask, Alive
<1>12. CASE Ends(r)
  BY <1>12 DEF Ends, Verdict, ReviewFails, WriteTaskJson, OneHolder, HeldExists, Local, Holds, OnTask, Alive
<1>13. CASE ReviewPaused(r)
  BY <1>13 DEF ReviewPaused, OneHolder, HeldExists, Local, Holds, OnTask, Alive
<1>14. CASE CountFailure(r)
  BY <1>14 DEF CountFailure, OneHolder, HeldExists, Local, Holds, OnTask, Alive
<1>15. CASE FileVerdict(r)
  BY <1>15 DEF FileVerdict, OneHolder, HeldExists, Local, Holds, OnTask, Alive
<1>16. CASE Checkpoint(r)
  BY <1>16 DEF Checkpoint, WriteTaskJson, OneHolder, HeldExists, Local, Holds, OnTask, Alive
<1>17. CASE Kill(r)
  BY <1>17 DEF Kill, ForgetTick, OneHolder, HeldExists, Local, Holds, OnTask, Alive
<1>18. CASE Stop(r)
  BY <1>18 DEF Stop, Release, ForgetTick, OneHolder, HeldExists, Local, Holds, OnTask, Alive
<1> QED BY <1>1, <1>2, <1>3, <1>4, <1>5, <1>6, <1>7, <1>8, <1>9, <1>10, <1>11, <1>12, <1>13, <1>14, <1>15, <1>16, <1>17, <1>18 DEF Step, Claiming

\* A reviewer removes the claim of another only by robbing it.
LEMMA StepHeldExists ==
  ASSUME Inv, NEW r \in Reviewers, Step(r) \/ Checkpoint(r) \/ Kill(r) \/ Stop(r)
  PROVE  HeldExists'
<1> USE ClaimAssumption DEF Inv, TypeOK, Try, Loop, Verdicts, Failures, Goto, files, claims
<1>1. CASE ListItems(r)
  BY <1>1 DEF ListItems, OneHolder, HeldExists, Local, Holds, OnTask, Alive
<1>2. CASE NextItem(r)
  BY <1>2 DEF NextItem, Release, OneHolder, HeldExists, Local, Holds, OnTask, Alive
<1>3. CASE EndTick(r)
  BY <1>3 DEF EndTick, Release, OneHolder, HeldExists, Local, Holds, OnTask, Alive
<1>4. CASE MakeClaim(r)
  BY <1>4 DEF MakeClaim, OneHolder, HeldExists, Local, Holds, OnTask, Alive
<1>5. CASE StampClaim(r)
  BY <1>5 DEF StampClaim, OneHolder, HeldExists, Local, Holds, OnTask, Alive
<1>6. CASE JudgeClaim(r)
  BY <1>6 DEF JudgeClaim, OneHolder, HeldExists, Local, Holds, OnTask, Alive
<1>7. CASE EvictClaim(r)
  BY <1>7 DEF EvictClaim, OneHolder, HeldExists, Local, Holds, OnTask, Alive
<1>8. CASE RemakeClaim(r)
  BY <1>8 DEF RemakeClaim, OneHolder, HeldExists, Local, Holds, OnTask, Alive
<1>9. CASE CheckAgain(r)
  BY <1>9 DEF CheckAgain, OneHolder, HeldExists, Local, Holds, OnTask, Alive
<1>10. CASE LockTimesOut(r)
  BY <1>10 DEF LockTimesOut, OneHolder, HeldExists, Local, Holds, OnTask, Alive
<1>11. CASE StartReview(r)
  BY <1>11 DEF StartReview, OneHolder, HeldExists, Local, Holds, OnTask, Alive
<1>12. CASE Ends(r)
  BY <1>12 DEF Ends, Verdict, ReviewFails, WriteTaskJson, OneHolder, HeldExists, Local, Holds, OnTask, Alive
<1>13. CASE ReviewPaused(r)
  BY <1>13 DEF ReviewPaused, OneHolder, HeldExists, Local, Holds, OnTask, Alive
<1>14. CASE CountFailure(r)
  BY <1>14 DEF CountFailure, OneHolder, HeldExists, Local, Holds, OnTask, Alive
<1>15. CASE FileVerdict(r)
  BY <1>15 DEF FileVerdict, OneHolder, HeldExists, Local, Holds, OnTask, Alive
<1>16. CASE Checkpoint(r)
  BY <1>16 DEF Checkpoint, WriteTaskJson, OneHolder, HeldExists, Local, Holds, OnTask, Alive
<1>17. CASE Kill(r)
  BY <1>17 DEF Kill, ForgetTick, OneHolder, HeldExists, Local, Holds, OnTask, Alive
<1>18. CASE Stop(r)
  BY <1>18 DEF Stop, Release, ForgetTick, OneHolder, HeldExists, Local, Holds, OnTask, Alive
<1> QED BY <1>1, <1>2, <1>3, <1>4, <1>5, <1>6, <1>7, <1>8, <1>9, <1>10, <1>11, <1>12, <1>13, <1>14, <1>15, <1>16, <1>17, <1>18 DEF Step, Claiming

\* A reviewer files a task only once.
LEMMA StepUnderReview ==
  ASSUME Inv, NEW r \in Reviewers, Step(r) \/ Checkpoint(r) \/ Kill(r) \/ Stop(r)
  PROVE  UnderReview'
<1> USE ClaimAssumption DEF Inv, TypeOK, Try, Loop, Verdicts, Failures, Goto, files, claims
<1>1. CASE ListItems(r)
  BY <1>1 DEF ListItems, UnderReview, OneHolder, Local, Holds, OnTask, Alive, InReview
<1>2. CASE NextItem(r)
  BY <1>2 DEF NextItem, Release, UnderReview, OneHolder, Local, Holds, OnTask, Alive, InReview
<1>3. CASE EndTick(r)
  BY <1>3 DEF EndTick, Release, UnderReview, OneHolder, Local, Holds, OnTask, Alive, InReview
<1>4. CASE MakeClaim(r)
  BY <1>4 DEF MakeClaim, UnderReview, OneHolder, Local, Holds, OnTask, Alive, InReview
<1>5. CASE StampClaim(r)
  BY <1>5 DEF StampClaim, UnderReview, OneHolder, Local, Holds, OnTask, Alive, InReview
<1>6. CASE JudgeClaim(r)
  BY <1>6 DEF JudgeClaim, UnderReview, OneHolder, Local, Holds, OnTask, Alive, InReview
<1>7. CASE EvictClaim(r)
  BY <1>7 DEF EvictClaim, UnderReview, OneHolder, Local, Holds, OnTask, Alive, InReview
<1>8. CASE RemakeClaim(r)
  BY <1>8 DEF RemakeClaim, UnderReview, OneHolder, Local, Holds, OnTask, Alive, InReview
<1>9. CASE CheckAgain(r)
  BY <1>9 DEF CheckAgain, UnderReview, OneHolder, Local, Holds, OnTask, Alive, InReview
<1>10. CASE LockTimesOut(r)
  BY <1>10 DEF LockTimesOut, UnderReview, OneHolder, Local, Holds, OnTask, Alive, InReview
<1>11. CASE StartReview(r)
  BY <1>11 DEF StartReview, UnderReview, OneHolder, Local, Holds, OnTask, Alive, InReview
<1>12. CASE Ends(r)
  BY <1>12 DEF Ends, Verdict, ReviewFails, WriteTaskJson, UnderReview, OneHolder, Local, Holds, OnTask, Alive, InReview
<1>13. CASE ReviewPaused(r)
  BY <1>13 DEF ReviewPaused, UnderReview, OneHolder, Local, Holds, OnTask, Alive, InReview
<1>14. CASE CountFailure(r)
  BY <1>14 DEF CountFailure, UnderReview, OneHolder, Local, Holds, OnTask, Alive, InReview
<1>15. CASE FileVerdict(r)
  BY <1>15 DEF FileVerdict, UnderReview, OneHolder, Local, Holds, OnTask, Alive, InReview
<1>16. CASE Checkpoint(r)
  BY <1>16 DEF Checkpoint, WriteTaskJson, UnderReview, OneHolder, Local, Holds, OnTask, Alive, InReview
<1>17. CASE Kill(r)
  BY <1>17 DEF Kill, ForgetTick, UnderReview, OneHolder, Local, Holds, OnTask, Alive, InReview
<1>18. CASE Stop(r)
  BY <1>18 DEF Stop, Release, ForgetTick, UnderReview, OneHolder, Local, Holds, OnTask, Alive, InReview
<1> QED BY <1>1, <1>2, <1>3, <1>4, <1>5, <1>6, <1>7, <1>8, <1>9, <1>10, <1>11, <1>12, <1>13, <1>14, <1>15, <1>16, <1>17, <1>18 DEF Step, Claiming

\* The reviewers' environment: claims grow old and filed copies are taken on.
LEMMA EnvironmentInv ==
  ASSUME Inv, NEW t \in Tasks, ClaimAges(t) \/ \E d \in Verdicts : Downstream(t, d)
  PROVE  Inv'
<1> USE DEF Inv, TypeOK, Verdicts, files, claims, Local, Stamped, OneHolder, HeldExists,
            UnderReview, Holds, OnTask, Alive, InReview
<1>1. CASE ClaimAges(t)
  BY <1>1 DEF ClaimAges
<1>2. ASSUME NEW d \in Verdicts, Downstream(t, d)
      PROVE  Inv'
  BY <1>2 DEF Downstream
<1> QED BY <1>1, <1>2

\* A stuttering step preserves the invariant.
LEMMA StutterInv == Inv /\ UNCHANGED vars => Inv'
  BY DEF Inv, vars, TypeOK, Local, Stamped, OneHolder, HeldExists,
         UnderReview, Holds, OnTask, Alive, InReview

\* Every step preserves the invariant.
LEMMA NextInv == Inv /\ [Next]_vars => Inv'
<1>1. ASSUME Inv, NEW r \in Reviewers, Step(r) \/ Checkpoint(r) \/ Kill(r) \/ Stop(r)
      PROVE  Inv'
  <2>1. TypeOK' /\ Local' /\ Stamped'
    BY <1>1, StepTypes, StepLocal, StepStamped
  <2>2. OneHolder' /\ HeldExists' /\ UnderReview'
    BY <1>1, StepOneHolder, StepHeldExists, StepUnderReview
  <2> QED BY <2>1, <2>2 DEF Inv
<1> QED BY <1>1, EnvironmentInv, StutterInv DEF Next

\* The invariant of the claim holds in every reachable state.
THEOREM ClaimInvariant == Spec => []Inv
<1> QED BY InitInv, NextInv, PTL DEF Spec

\* Every variable keeps its type; the counters never pass their limits.
THEOREM ReviewTypes == Spec => []TypeOK
<1>1. Inv => TypeOK
  BY DEF Inv
<1> QED BY <1>1, ClaimInvariant, PTL

\* One process at a time works on an item whose claim nobody deleted.
THEOREM ClaimsExclude == Spec => []ClaimExcludes
<1>1. Inv => ClaimExcludes
  BY DEF Inv, OneHolder, ClaimExcludes, Holds
<1> QED BY <1>1, ClaimInvariant, PTL

\* An item whose claim nobody deleted leaves review/ at most once.
THEOREM FilesOnce == Spec => []FiledOnce
<1>1. Inv => FiledOnce
  BY DEF Inv, UnderReview, FiledOnce
<1> QED BY <1>1, ClaimInvariant, PTL

\* A daemon between two ticks has left no claim behind.
THEOREM NoClaimLeft == Spec => []IdleHoldsNothing
<1>1. Inv => IdleHoldsNothing
  BY ClaimAssumption DEF Inv, TypeOK, Local, Stamped, IdleHoldsNothing, Alive
<1> QED BY <1>1, ClaimInvariant, PTL
-----------------------------------------------------------------------------
(* What the queue promises about an item, of an item that nobody robs.      *)

placeBar(t) == CASE ~InReview(t) -> "filed"
              [] InReview(t) /\ \E r \in Reviewers : Holds(r, t) -> CHOOSE r \in Reviewers : Holds(r, t)
              [] OTHER -> "waiting"

Item(t) == INSTANCE WorkItem WITH Workers <- Reviewers, Waiting <- "waiting", Outcomes <- {"filed"},
                                  place <- placeBar(t)

\* The item is with its one holder as long as it is in review/.
LEMMA PlaceOf ==
  ASSUME OneHolder, NEW t \in Tasks \ robbed
  PROVE  /\ ~InReview(t) => placeBar(t) = "filed"
         /\ \A r \in Reviewers : InReview(t) /\ Holds(r, t) => placeBar(t) = r
         /\ InReview(t) /\ (\A r \in Reviewers : ~Holds(r, t)) => placeBar(t) = "waiting"
<1>1. ASSUME NEW r \in Reviewers, InReview(t), Holds(r, t) PROVE placeBar(t) = r
  <2>1. placeBar(t) = CHOOSE q \in Reviewers : Holds(q, t)
    BY <1>1 DEF placeBar
  <2>2. \A q \in Reviewers : Holds(q, t) => q = r
    BY <1>1 DEF OneHolder
  <2> QED BY <1>1, <2>1, <2>2
<1> QED BY <1>1 DEF placeBar

\* The same of the state after a step.
LEMMA PlaceOfNext ==
  ASSUME OneHolder', NEW t \in Tasks, t \notin robbed'
  PROVE  /\ ~InReview(t)' => placeBar(t)' = "filed"
         /\ \A r \in Reviewers : InReview(t)' /\ Holds(r, t)' => placeBar(t)' = r
         /\ InReview(t)' /\ (\A r \in Reviewers : ~Holds(r, t)') => placeBar(t)' = "waiting"
<1>1. ASSUME NEW r \in Reviewers, InReview(t)', Holds(r, t)' PROVE placeBar(t)' = r
  <2>1. placeBar(t)' = CHOOSE q \in Reviewers : Holds(q, t)'
    BY <1>1 DEF placeBar
  <2>2. \A q \in Reviewers : Holds(q, t)' => q = r
    BY <1>1 DEF OneHolder
  <2> QED BY <1>1, <2>1, <2>2
<1> QED BY <1>1 DEF placeBar

\* What a step of r does to its hold on t and to the file in review/: nothing, or r
\* takes a claim that nobody has, or lets go, or files what it holds.
Keeps(r, t)  == (InReview(t)' <=> InReview(t)) /\ (Holds(r, t)' <=> Holds(r, t))
Takes(r, t)  == (InReview(t)' <=> InReview(t)) /\ Holds(r, t)' /\ claim[t] = NoClaim
LetsGo(r, t) == (InReview(t)' <=> InReview(t)) /\ Holds(r, t) /\ ~Holds(r, t)'
Files(r, t)  == InReview(t) /\ ~InReview(t)' /\ Holds(r, t)

LEMMA HoldStep ==
  ASSUME Inv, NEW r \in Reviewers, Step(r) \/ Checkpoint(r) \/ Kill(r) \/ Stop(r), NEW t \in Tasks \ robbed
  PROVE  Keeps(r, t) \/ Takes(r, t) \/ LetsGo(r, t) \/ Files(r, t)
<1> USE ClaimAssumption DEF Inv, TypeOK, Loop, Verdicts, Failures, Goto, files, claims, Keeps
<1>1. CASE ListItems(r) \/ JudgeClaim(r) \/ EvictClaim(r) \/ CheckAgain(r)
  BY <1>1 DEF ListItems, JudgeClaim, EvictClaim, CheckAgain, Local, Holds, OnTask, Alive, InReview
<1>2. CASE NextItem(r)
  BY <1>2 DEF NextItem, Local, Holds, OnTask, Alive, InReview, LetsGo
<1>3. CASE EndTick(r)
  BY <1>3 DEF EndTick, Local, Holds, OnTask, Alive, InReview, LetsGo
<1>4. CASE MakeClaim(r) \/ RemakeClaim(r)
  BY <1>4 DEF MakeClaim, RemakeClaim, Local, Holds, OnTask, Alive, InReview, Takes
<1>5. CASE StampClaim(r)
  BY <1>5 DEF StampClaim, Local, Holds, OnTask, Alive, InReview
<1>6. CASE LockTimesOut(r) \/ StartReview(r) \/ ReviewPaused(r)
  BY <1>6 DEF LockTimesOut, StartReview, ReviewPaused, Local, Holds, OnTask, Alive, InReview
<1>7. CASE CountFailure(r)
  BY <1>7 DEF CountFailure, Local, Holds, OnTask, Alive, InReview
\* A verdict and a checkpoint write the copy under review, which is there.
<1>8. CASE Ends(r)
  BY <1>8 DEF Ends, Verdict, ReviewFails, WriteTaskJson, Local, UnderReview, Holds, OnTask, Alive, InReview, LetsGo
<1>9. CASE Checkpoint(r)
  BY <1>9 DEF Checkpoint, WriteTaskJson, UnderReview, Holds, OnTask, Alive, InReview
<1>10. CASE FileVerdict(r)
  BY <1>10 DEF FileVerdict, Local, Holds, OnTask, Alive, InReview, Files
<1>11. CASE Kill(r)
  BY <1>11 DEF Kill, ForgetTick, Local, Holds, OnTask, Alive, InReview, LetsGo
<1>12. CASE Stop(r)
  BY <1>12 DEF Stop, ForgetTick, Local, Holds, OnTask, Alive, InReview, LetsGo
<1> QED BY <1>1, <1>2, <1>3, <1>4, <1>5, <1>6, <1>7, <1>8, <1>9, <1>10, <1>11, <1>12 DEF Step, Claiming

\* The other reviewers keep what they hold.
LEMMA OthersHold ==
  ASSUME Inv, NEW r \in Reviewers, Step(r) \/ Checkpoint(r) \/ Kill(r) \/ Stop(r),
         NEW t \in Tasks, NEW q \in Reviewers \ {r}
  PROVE  Holds(q, t)' <=> Holds(q, t)
<1>1. item'[q] = item[q] /\ pc'[q] = pc[q] /\ current'[q] = current[q]
  BY DEF Inv, TypeOK, Step, Claiming, Checkpoint, Kill, Stop, ForgetTick, Goto, ListItems, NextItem, EndTick,
         MakeClaim, StampClaim, JudgeClaim, EvictClaim, RemakeClaim, CheckAgain, LockTimesOut, StartReview,
         Ends, Verdict, ReviewFails, ReviewPaused, CountFailure, FileVerdict
<1> QED BY <1>1 DEF Holds, OnTask, Alive

\* A step is a step of the item or none.
LEMMA ItemStep ==
  ASSUME Inv, Inv', [Next]_vars, NEW t \in Tasks, t \notin robbed'
  PROVE  [Item(t)!Next]_(placeBar(t))
<1> USE DEF Item!Next, Item!Take, Item!GiveBack, Item!File
<1>0. t \in Tasks \ robbed /\ robbed \subseteq robbed'
  BY DEF Next, Step, Claiming, Checkpoint, Kill, Stop, ListItems, NextItem, EndTick, MakeClaim, StampClaim,
         JudgeClaim, EvictClaim, RemakeClaim, CheckAgain, LockTimesOut, StartReview, Ends, Verdict,
         ReviewFails, ReviewPaused, CountFailure, FileVerdict, ClaimAges, Downstream, claims, vars
<1>1. /\ ~InReview(t) => placeBar(t) = "filed"
      /\ \A r \in Reviewers : InReview(t) /\ Holds(r, t) => placeBar(t) = r
      /\ InReview(t) /\ (\A r \in Reviewers : ~Holds(r, t)) => placeBar(t) = "waiting"
  BY <1>0, PlaceOf DEF Inv
<1>2. /\ ~InReview(t)' => placeBar(t)' = "filed"
      /\ \A r \in Reviewers : InReview(t)' /\ Holds(r, t)' => placeBar(t)' = r
      /\ InReview(t)' /\ (\A r \in Reviewers : ~Holds(r, t)') => placeBar(t)' = "waiting"
  BY <1>0, PlaceOfNext DEF Inv
<1>3. CASE (InReview(t)' <=> InReview(t)) /\ \A q \in Reviewers : Holds(q, t)' <=> Holds(q, t)
  BY <1>1, <1>2, <1>3
<1>4. ASSUME NEW r \in Reviewers, Step(r) \/ Checkpoint(r) \/ Kill(r) \/ Stop(r)
      PROVE  [Item(t)!Next]_(placeBar(t))
  <2>1. \A q \in Reviewers \ {r} : Holds(q, t)' <=> Holds(q, t)
    BY <1>4, OthersHold
  <2>2. CASE Keeps(r, t)
    BY <1>3, <2>1, <2>2 DEF Keeps
  <2>3. CASE Takes(r, t)
    <3>1. \A q \in Reviewers : ~Holds(q, t)
      BY <1>0, <2>3 DEF Takes, Inv, HeldExists
    <3>2. CASE InReview(t)
      BY <1>1, <1>2, <2>3, <3>1, <3>2 DEF Takes
    <3>3. CASE ~InReview(t)
      BY <1>1, <1>2, <2>3, <3>3 DEF Takes
    <3> QED BY <3>2, <3>3
  <2>4. CASE LetsGo(r, t)
    <3>1. \A q \in Reviewers : ~Holds(q, t)'
      BY <1>0, <2>1, <2>4 DEF LetsGo, Inv, OneHolder
    <3>2. CASE InReview(t)
      BY <1>1, <1>2, <2>4, <3>1, <3>2 DEF LetsGo
    <3>3. CASE ~InReview(t)
      BY <1>1, <1>2, <2>4, <3>3 DEF LetsGo
    <3> QED BY <3>2, <3>3
  <2>5. CASE Files(r, t)
    BY <1>1, <1>2, <2>5 DEF Files
  <2> QED BY <1>0, <1>4, <2>2, <2>3, <2>4, <2>5, HoldStep
<1>5. ASSUME NEW u \in Tasks, ClaimAges(u) \/ \E d \in Verdicts : Downstream(u, d)
      PROVE  [Item(t)!Next]_(placeBar(t))
  <2>1. UNCHANGED <<pc, item, current>> /\ (InReview(t)' <=> InReview(t))
    BY <1>5 DEF Inv, TypeOK, ClaimAges, Downstream, InReview, files, Verdicts
  <2> QED BY <1>3, <2>1 DEF Holds, OnTask, Alive
<1>6. CASE UNCHANGED vars
  BY <1>3, <1>6 DEF vars, Holds, OnTask, Alive, InReview
<1> QED BY <1>4, <1>5, <1>6 DEF Next

\* As long as nobody deletes the claim of t under a reviewer that is on it, the claim
\* directory, the checks around it and the verdict's mv -n make of review/t an item
\* that one reviewer at a time has, that is filed by the one that has it, and once.
THEOREM Implementation ==
  ASSUME NEW t \in Tasks
  PROVE  Spec /\ [](t \notin robbed) => Item(t)!Spec
<1>1. Init => Item(t)!Init
  BY ClaimAssumption DEF Init, Item!Init, placeBar, Holds, OnTask, Alive, InReview
<1>2. Inv /\ Inv' /\ (t \notin robbed)' /\ [Next]_vars => [Item(t)!Next]_(placeBar(t))
  BY ItemStep
<1> QED BY <1>1, <1>2, ClaimInvariant, PTL DEF Spec, Item!Spec
-----------------------------------------------------------------------------
(* The counters of an item that nobody robs.                                *)

\* What a review read is what the file still records, so its checkpoints and its
\* verdict do not roll the counters back.
Read == \A t \in Tasks \ robbed : \A r \in Reviewers :
          item[r] = t /\ pc[r] \in {"reviewing", "orphan"} => seen[r] = tries[t]

\* The rounds count first, then the failures of the round.
Further(t) == \/ tries'[t][2] > tries[t][2]
              \/ tries'[t][2] = tries[t][2] /\ tries'[t][1] > tries[t][1]

\* Only its holder changes the counters: it counts a failure, or files the item.
LEMMA TriesStep ==
  ASSUME Inv, Read, NEW r \in Reviewers, Step(r) \/ Checkpoint(r) \/ Kill(r) \/ Stop(r),
         NEW t \in Tasks \ robbed
  PROVE  tries'[t] = tries[t] \/ (item[r] = t /\ (CountFailure(r) \/ FileVerdict(r)))
<1> USE DEF Inv, TypeOK, Try, files, Read, WriteTaskJson
<1>1. CASE ListItems(r) \/ NextItem(r) \/ EndTick(r) \/ Claiming(r) \/ CheckAgain(r)
  BY <1>1 DEF ListItems, NextItem, EndTick, Claiming, MakeClaim, StampClaim, JudgeClaim, EvictClaim,
              RemakeClaim, CheckAgain
<1>2. CASE LockTimesOut(r) \/ StartReview(r) \/ ReviewPaused(r) \/ Kill(r) \/ Stop(r)
  BY <1>2 DEF LockTimesOut, StartReview, ReviewPaused, Kill, Stop
<1>3. CASE Checkpoint(r)
  BY <1>3 DEF Checkpoint
<1>4. CASE Ends(r)
  BY <1>4 DEF Ends, Verdict, ReviewFails
<1>5. CASE CountFailure(r)
  BY <1>5 DEF CountFailure
<1>6. CASE FileVerdict(r)
  BY <1>6 DEF FileVerdict
<1> QED BY <1>1, <1>2, <1>3, <1>4, <1>5, <1>6 DEF Step

\* A review begins with what the file records, and goes on with it: nobody else is on
\* the item.
LEMMA ReadStep ==
  ASSUME Inv, Read, NEW r \in Reviewers, Step(r) \/ Checkpoint(r) \/ Kill(r) \/ Stop(r)
  PROVE  Read'
<1> SUFFICES ASSUME NEW t \in Tasks, t \notin robbed', NEW q \in Reviewers,
                    item'[q] = t, pc'[q] \in {"reviewing", "orphan"}
             PROVE  seen'[q] = tries'[t]
  BY DEF Read
<1>0. t \in Tasks \ robbed
  BY DEF Step, Claiming, Checkpoint, Kill, Stop, ListItems, NextItem, EndTick, MakeClaim, StampClaim,
         JudgeClaim, EvictClaim, RemakeClaim, CheckAgain, LockTimesOut, StartReview, Ends, Verdict,
         ReviewFails, ReviewPaused, CountFailure, FileVerdict, claims
<1>1. CASE q # r
  <2>1. item'[q] = item[q] /\ pc'[q] = pc[q] /\ seen'[q] = seen[q]
    BY <1>1 DEF Inv, TypeOK, Step, Claiming, Checkpoint, Kill, Stop, ForgetTick, Goto, ListItems, NextItem, EndTick,
         MakeClaim, StampClaim, JudgeClaim, EvictClaim, RemakeClaim, CheckAgain, LockTimesOut, StartReview,
         Ends, Verdict, ReviewFails, ReviewPaused, CountFailure, FileVerdict
  <2>2. seen[q] = tries[t]
    BY <1>0, <2>1 DEF Read
  <2>3. ~(item[r] = t /\ (CountFailure(r) \/ FileVerdict(r)))
    BY <1>0, <1>1, <2>1 DEF Inv, OneHolder, Holds, OnTask, CountFailure, FileVerdict
  <2> QED BY <1>0, <2>1, <2>2, <2>3, TriesStep
<1>2. CASE q = r
  <2> USE <1>0, <1>2 DEF Inv, TypeOK, Goto, Loop, Verdicts, Failures, files, Read
  <2>1. CASE Kill(r)
    BY <2>1 DEF Kill
  <2>2. CASE StartReview(r)
    BY <2>2 DEF StartReview
  <2>3. CASE Checkpoint(r)
    BY <2>3 DEF Checkpoint, WriteTaskJson
  <2>4. CASE (Step(r) /\ ~StartReview(r)) \/ Stop(r)
    BY <2>4 DEF Step, Claiming, Stop, ListItems, NextItem, EndTick, MakeClaim, StampClaim,
         JudgeClaim, EvictClaim, RemakeClaim, CheckAgain, LockTimesOut, Ends, Verdict,
         ReviewFails, ReviewPaused, CountFailure, FileVerdict
  <2> QED BY <2>1, <2>2, <2>3, <2>4
<1> QED BY <1>1, <1>2

\* A failure that does not end the retries takes the counters further.
LEMMA CountsUp ==
  ASSUME Inv, NEW r \in Reviewers, CountFailure(r), InReview(item[r])
  PROVE  /\ pc'[r] = "next" => Further(item[r])
         /\ tries'[item[r]] = tries[item[r]] \/ Further(item[r])
<1>1. /\ item[r] \in Tasks /\ tries[item[r]] = <<tries[item[r]][1], tries[item[r]][2]>>
      /\ tries[item[r]][1] \in 0..FailLimit /\ tries[item[r]][2] \in 0..RoundLimit
      /\ FailLimit \in Nat \ {0} /\ RoundLimit \in Nat
  BY ClaimAssumption DEF Inv, TypeOK, Try, Local, Loop, CountFailure
<1> DEFINE fails == IF tries[item[r]][1] < FailLimit THEN tries[item[r]][1] + 1 ELSE FailLimit
           rounds == tries[item[r]][2]
<1>2. \/ tries'[item[r]] = <<0, rounds + 1>>
      \/ /\ tries'[item[r]] = <<fails, rounds>>
         /\ pc'[r] = "next" => fails < FailLimit
  BY <1>1 DEF CountFailure, Inv, TypeOK, Goto
<1>3. CASE tries'[item[r]] = <<0, rounds + 1>>
  BY <1>1, <1>3 DEF Further
<1>4. CASE tries'[item[r]] = <<fails, rounds>> /\ (pc'[r] = "next" => fails < FailLimit)
  <2>1. tries'[item[r]][1] = fails /\ tries'[item[r]][2] = rounds
    BY <1>4
  <2>2. CASE tries[item[r]][1] < FailLimit
    BY <1>1, <2>1, <2>2 DEF Further
  <2>3. CASE ~(tries[item[r]][1] < FailLimit)
    BY <1>1, <1>4, <2>3
  <2> QED BY <2>2, <2>3
<1> QED BY <1>2, <1>3, <1>4

\* While an item that nobody robs is in review/, its counters never go back, although
\* every review writes the whole file from memory; and every review that failed and
\* leaves it there has taken them further (record_review_failure).  The counters are bounded,
\* so this is why the retries of an item end.
CountsOnlyGrow ==
  \A t \in Tasks \ robbed' :
    InReview(t) /\ InReview(t)' =>
      /\ tries'[t] = tries[t] \/ Further(t)
      /\ \A r \in Reviewers : item[r] = t /\ pc[r] = "count" /\ pc'[r] = "next" => Further(t)

THEOREM FailuresAreCounted == Spec => [][CountsOnlyGrow]_vars
<1>1. Init => Read
  BY DEF Init, Read
<1>2. Inv /\ Read /\ [Next]_vars => Read' /\ [CountsOnlyGrow]_vars
  <2> SUFFICES ASSUME Inv, Read, [Next]_vars PROVE Read' /\ [CountsOnlyGrow]_vars
    OBVIOUS
  <2>1. ASSUME NEW r \in Reviewers, Step(r) \/ Checkpoint(r) \/ Kill(r) \/ Stop(r)
        PROVE  Read' /\ CountsOnlyGrow
    <3> SUFFICES ASSUME NEW t \in Tasks, t \notin robbed', InReview(t), InReview(t)'
                 PROVE  /\ tries'[t] = tries[t] \/ Further(t)
                        /\ \A q \in Reviewers : item[q] = t /\ pc[q] = "count" /\ pc'[q] = "next" => Further(t)
      BY <2>1, ReadStep DEF CountsOnlyGrow
    <3>0. t \in Tasks \ robbed
      BY <2>1 DEF Step, Claiming, Checkpoint, Kill, Stop, ListItems, NextItem, EndTick, MakeClaim, StampClaim,
         JudgeClaim, EvictClaim, RemakeClaim, CheckAgain, LockTimesOut, StartReview, Ends, Verdict,
         ReviewFails, ReviewPaused, CountFailure, FileVerdict, claims
    <3>1. CASE item[r] = t /\ FileVerdict(r)
      BY <3>1 DEF FileVerdict, InReview, Inv, TypeOK, Local, Verdicts, Goto
    <3>2. tries'[t] = tries[t] \/ Further(t)
      BY <2>1, <3>0, <3>1, TriesStep, CountsUp
    <3>3. ASSUME NEW q \in Reviewers, item[q] = t, pc[q] = "count", pc'[q] = "next"
          PROVE  q = r /\ CountFailure(r)
      <4>1. q # r => pc'[q] = pc[q]
        BY <2>1 DEF Inv, TypeOK, Step, Claiming, Checkpoint, Kill, Stop, Goto, ListItems, NextItem, EndTick,
             MakeClaim, StampClaim, JudgeClaim, EvictClaim, RemakeClaim, CheckAgain, LockTimesOut, StartReview,
             Ends, Verdict, ReviewFails, ReviewPaused, CountFailure, FileVerdict
      <4>2. q = r
        BY <3>3, <4>1
      <4>3. ~Kill(r) /\ ~Stop(r) /\ ~Checkpoint(r)
        BY <3>3, <4>2 DEF Kill, Stop, Checkpoint, Goto, Inv, TypeOK
      <4> QED BY <2>1, <3>3, <4>2, <4>3 DEF Step, Claiming, ListItems, NextItem, EndTick, MakeClaim, StampClaim,
             JudgeClaim, EvictClaim, RemakeClaim, CheckAgain, LockTimesOut, StartReview, Ends, Verdict,
             ReviewFails, ReviewPaused, FileVerdict
    <3> QED BY <3>2, <3>3, CountsUp
  <2>2. ASSUME NEW t \in Tasks, ClaimAges(t) \/ \E d \in Verdicts : Downstream(t, d)
        PROVE  Read' /\ CountsOnlyGrow
    BY <2>2 DEF ClaimAges, Downstream, files, claims, Read, CountsOnlyGrow
  <2>3. CASE UNCHANGED vars
    BY <2>3 DEF vars, Read
  <2> QED BY <2>1, <2>2, <2>3 DEF Next
<1> QED BY <1>1, <1>2, ClaimInvariant, PTL DEF Spec
=============================================================================
