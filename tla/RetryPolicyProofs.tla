-------------------------- MODULE RetryPolicyProofs --------------------------
(***************************************************************************)
(* Proofs about the retry policy for every set of gates and buckets and    *)
(* any number of interventions.                                            *)
(*                                                                         *)
(* A draft has to be paid for: each one since the last clean slate, but    *)
(* the first, was paid by one of the three counters before it began.  A    *)
(* continuation is paid when the task blocks, the other two when a sweep   *)
(* puts the task back into the queue, so in between the account differs.   *)
(***************************************************************************)
EXTENDS RetryPolicy, FiniteSetTheorems, TLAPS

\* The next draft is paid for.
Paid == t.place = "queue" \/ (t.place = "blocked" /\ t.why = "continue")

Account == t.drafts <= t.rejects + t.continues + t.applies + (IF Paid THEN 0 ELSE 1)

\* TypeOK field by field: a record is a function on the names of its fields.
Shape == t = [f \in {"place", "why", "asks", "rejects", "continues", "applies", "releases",
                     "premised", "readmitted", "sig", "attempts", "escalated", "noted",
                     "drafts", "kept", "hands"} |-> t[f]]

Fields ==
  /\ t.place \in {"queue", "draft", "review", "approved", "blocked", "clarify", "asking", "gone"}
  /\ t.why \in Blocks \cup {"none"}
  /\ t.rejects \in 0 .. MAX_LOCAL_REJECT_RETRIES
  /\ t.continues \in 0 .. MAX_AGENTIC_CONTINUATIONS
  /\ t.applies \in 0 .. MAX_APPLY_RETRIES
  /\ t.releases \in 0 .. APPLY_TIMEOUT_MAX_RELEASES
  /\ t.readmitted \in SUBSET Gates /\ t.attempts \in SUBSET Buckets
  /\ t.noted \in SUBSET {"asked", "exhausted", "held"}
  /\ t.asks \in BOOLEAN /\ t.premised \in BOOLEAN /\ t.sig \in BOOLEAN
  /\ t.escalated \in BOOLEAN /\ t.kept \in BOOLEAN
  /\ t.drafts \in Nat /\ t.hands \in 0 .. MaxHands

Inv == Shape /\ Fields /\ Account

USE DEF MAX_LOCAL_REJECT_RETRIES, MAX_AGENTIC_CONTINUATIONS, MAX_APPLY_RETRIES,
        APPLY_TIMEOUT_MAX_RELEASES
-----------------------------------------------------------------------------
\* The two forms of the type invariant are the same.
LEMMA TypeByFields == TypeOK <=> Shape /\ Fields
<1>1. TypeOK => Shape
  BY DEF TypeOK, Shape
<1>2. TypeOK => Fields
  BY DEF TypeOK, Fields
<1>3. Shape /\ Fields => TypeOK
  BY DEF TypeOK, Shape, Fields
<1>4. QED
  BY <1>1, <1>2, <1>3

-----------------------------------------------------------------------------
(* Blocks, questions to a person, notes.                                   *)

\* A blocked task is within its account, whatever the kind of the block: only a
\* continuation is paid at once.
LEMMA BlockInv ==
  ASSUME Inv, NEW kind \in Blocks, Block(kind), ~Paid,
         kind = "continue" => t.continues < MAX_AGENTIC_CONTINUATIONS
  PROVE  Inv'
<1>1. Shape'
  BY DEF Inv, Shape, Block
<1>2. Fields'
  BY DEF Inv, Shape, Fields, Block
<1>3. Account'
  BY DEF Inv, Shape, Fields, Account, Paid, Block
<1>4. QED
  BY <1>1, <1>2, <1>3 DEF Inv

\* A task handed to a person is within its account.
LEMMA EscalateInv ==
  ASSUME Inv, Escalate, ~Paid
  PROVE  Inv'
BY DEF Inv, Shape, Fields, Account, Paid, Escalate

\* A note in the history changes nothing else.
LEMMA NoteInv ==
  ASSUME Inv, NEW what \in {"exhausted", "held"}, Note(what)
  PROVE  Inv'
BY DEF Inv, Shape, Fields, Account, Paid, Note

-----------------------------------------------------------------------------
(* The sweeps.                                                             *)

\* A verdict of rejectRetryCheck keeps the account: a readmission of the premise
\* empties it, a redraft within the budget pays.
LEMMA JudgeInv ==
  ASSUME Inv, t.place = "blocked", Judge
  PROVE  Inv'
<1>1. CASE ReadmitPremise
  <2>1. Shape'
    BY <1>1 DEF Inv, Shape, ReadmitPremise, CleanSlate
  <2>2. Fields'
    BY <1>1 DEF Inv, Shape, Fields, ReadmitPremise, CleanSlate
  <2>3. Account'
    BY <1>1 DEF Inv, Shape, Fields, Account, Paid, ReadmitPremise, CleanSlate
  <2>4. QED
    BY <2>1, <2>2, <2>3 DEF Inv
<1>2. CASE Hopeless /\ Escalate
  BY <1>2, EscalateInv DEF Hopeless, Paid
<1>3. CASE t.why = "recheck" /\ ExhaustRecheck
  <2>1. Shape'
    BY <1>3 DEF Inv, Shape, ExhaustRecheck
  <2>2. Fields'
    BY <1>3 DEF Inv, Shape, Fields, ExhaustRecheck
  <2>3. Account'
    BY <1>3 DEF Inv, Shape, Fields, Account, Paid, ExhaustRecheck
  <2>4. QED
    BY <2>1, <2>2, <2>3 DEF Inv
<1>4. CASE Spent /\ HandleExhaustion
  <2>1. CASE t.asks
    <3>1. t' = [t EXCEPT !.place = "clarify", !.escalated = TRUE,
                         !.sig = @ \/ t.why = "recheck",
                         !.noted = @ \cup {"asked", "exhausted"}]
      BY <1>4, <2>1 DEF HandleExhaustion
    <3>2. Shape'
      BY <3>1 DEF Inv, Shape
    <3>3. Fields'
      BY <1>4, <3>1 DEF Inv, Shape, Fields
    <3>4. Account'
      BY <1>4, <3>1 DEF Inv, Shape, Fields, Account, Paid, Spent
    <3>5. QED
      BY <3>2, <3>3, <3>4 DEF Inv
  <2>2. CASE ~t.asks
    <3>1. t' = [t EXCEPT !.sig = @ \/ t.why = "recheck", !.noted = @ \cup {"exhausted"}]
      BY <1>4, <2>2 DEF HandleExhaustion
    <3>2. Shape'
      BY <3>1 DEF Inv, Shape
    <3>3. Fields'
      BY <1>4, <3>1 DEF Inv, Shape, Fields
    <3>4. Account'
      BY <1>4, <3>1 DEF Inv, Shape, Fields, Account, Paid
    <3>5. QED
      BY <3>2, <3>3, <3>4 DEF Inv
  <2>3. QED
    BY <2>1, <2>2
<1>5. CASE ~Spent /\ Redraft
  <2>1. Shape'
    BY <1>5 DEF Inv, Shape, Spent, Redraft
  <2>2. Fields'
    BY <1>5 DEF Inv, Shape, Fields, Spent, Redraft
  <2>3. Account'
    BY <1>5 DEF Inv, Shape, Fields, Account, Paid, Spent, Redraft
  <2>4. QED
    BY <2>1, <2>2, <2>3 DEF Inv
<1>6. QED
  BY <1>1, <1>2, <1>3, <1>4, <1>5 DEF Judge

\* rejectRetryCheck keeps the account: the false alarm of a gate empties it.
LEMMA RejectRetryCheckInv ==
  ASSUME Inv, RejectRetryCheck
  PROVE  Inv'
<1>1. CASE t.why \in Gates \ t.readmitted /\ ReadmitGate
  <2>1. Shape'
    BY <1>1 DEF Inv, Shape, ReadmitGate, CleanSlate
  <2>2. Fields'
    BY <1>1 DEF Inv, Shape, Fields, ReadmitGate, CleanSlate
  <2>3. Account'
    BY <1>1 DEF Inv, Shape, Fields, Account, Paid, ReadmitGate, CleanSlate
  <2>4. QED
    BY <2>1, <2>2, <2>3 DEF Inv
<1>2. CASE t.why \in Shapes /\ Judge
  BY <1>2, JudgeInv DEF RejectRetryCheck
<1>3. QED
  BY <1>1, <1>2 DEF RejectRetryCheck

\* applyRetryCheck keeps the account: an apply retry that drafts anew pays.
LEMMA ApplyRetryCheckInv ==
  ASSUME Inv, ApplyRetryCheck
  PROVE  Inv'
<1>1. t.place = "blocked" /\ t.why \in ApplyBlocks /\ ~Paid
  BY DEF ApplyRetryCheck, ApplyBlocks, Paid
<1>2. CASE Note("held")
  BY <1>2, NoteInv
<1>3. CASE Release /\ (t.why = "timeout" => t.releases # APPLY_TIMEOUT_MAX_RELEASES)
  <2>1. CASE Note("held")
    BY <2>1, NoteInv
  <2>2. CASE t' = [t EXCEPT !.place = "approved", !.why = "none",
                            !.releases = IF t.why = "timeout" THEN @ + 1 ELSE @]
    <3>1. Shape'
      BY <1>1, <1>3, <2>2 DEF Inv, Shape
    <3>2. Fields'
      BY <1>1, <1>3, <2>2 DEF Inv, Shape, Fields
    <3>3. Account'
      BY <1>1, <1>3, <2>2 DEF Inv, Shape, Fields, Account, Paid
    <3>4. QED
      BY <3>1, <3>2, <3>3 DEF Inv
  <2>3. QED
    BY <1>3, <2>1, <2>2 DEF Release
<1>4. CASE t' = [t EXCEPT !.place = "approved", !.why = "none"]
  BY <1>1, <1>4 DEF Inv, Shape, Fields, Account, Paid
<1>5. CASE Escalate
  BY <1>1, <1>5, EscalateInv
<1>6. CASE RedraftPatch
  <2>1. CASE t.applies < MAX_APPLY_RETRIES
    <3>1. t' = [t EXCEPT !.place = "queue", !.applies = @ + 1]
      BY <1>6, <2>1 DEF RedraftPatch
    <3>2. Shape'
      BY <3>1 DEF Inv, Shape
    <3>3. Fields'
      BY <1>1, <2>1, <3>1 DEF Inv, Shape, Fields
    <3>4. Account'
      BY <1>1, <2>1, <3>1 DEF Inv, Shape, Fields, Account, Paid
    <3>5. QED
      BY <3>2, <3>3, <3>4 DEF Inv
  <2>2. CASE ~(t.applies < MAX_APPLY_RETRIES) /\ t.escalated
    BY <1>6, <2>2, NoteInv DEF RedraftPatch
  <2>3. CASE ~(t.applies < MAX_APPLY_RETRIES) /\ ~t.escalated
    <3>1. t' = [t EXCEPT !.place = "clarify", !.escalated = TRUE,
                         !.noted = @ \cup {"asked", "exhausted"}]
      BY <1>6, <2>3 DEF RedraftPatch
    <3>2. Shape'
      BY <3>1 DEF Inv, Shape
    <3>3. Fields'
      BY <1>1, <3>1 DEF Inv, Shape, Fields
    <3>4. Account'
      BY <1>1, <3>1 DEF Inv, Shape, Fields, Account, Paid
    <3>5. QED
      BY <3>2, <3>3, <3>4 DEF Inv
  <2>4. QED
    BY <2>1, <2>2, <2>3
<1>7. QED
  BY <1>2, <1>3, <1>4, <1>5, <1>6 DEF ApplyRetryCheck

-----------------------------------------------------------------------------
(* The other steps.                                                        *)

\* The end of a draft: to review, to a person, or blocked with the draft unpaid
\* unless it is to be continued.
LEMMA EndDraftInv ==
  ASSUME Inv, EndDraft
  PROVE  Inv'
<1>1. t.place = "draft" /\ ~Paid
  BY DEF EndDraft, Paid
<1>2. CASE t' = [t EXCEPT !.place = "review"]
  BY <1>1, <1>2 DEF Inv, Shape, Fields, Account, Paid
<1>3. CASE Escalate
  BY <1>1, <1>3, EscalateInv
<1>4. ASSUME NEW kind \in DraftBlocks, Block(kind),
             (kind = "continue") => t.asks /\ t.continues < MAX_AGENTIC_CONTINUATIONS
      PROVE  Inv'
  BY <1>1, <1>4, BlockInv DEF Blocks
<1>5. QED
  BY <1>2, <1>3, <1>4 DEF EndDraft

\* A review approves the draft or blocks the task.
LEMMA ReviewTaskInv ==
  ASSUME Inv, ReviewTask
  PROVE  Inv'
<1>1. t.place = "review" /\ ~Paid
  BY DEF ReviewTask, Paid
<1>2. CASE t' = [t EXCEPT !.place = "approved"]
  BY <1>1, <1>2 DEF Inv, Shape, Fields, Account, Paid
<1>3. ASSUME NEW kind \in ReviewBlocks, Block(kind)
      PROVE  Inv'
  BY <1>1, <1>3, BlockInv DEF Blocks, ReviewBlocks
<1>4. QED
  BY <1>2, <1>3 DEF ReviewTask

\* The applier finishes the task or blocks it.
LEMMA ApplyTaskInv ==
  ASSUME Inv, ApplyTask
  PROVE  Inv'
<1>1. t.place = "approved" /\ ~Paid
  BY DEF ApplyTask, Paid
<1>2. CASE t' = [t EXCEPT !.place = "gone", !.why = "none"]
  BY <1>1, <1>2 DEF Inv, Shape, Fields, Account, Paid
<1>3. ASSUME NEW kind \in ApplyBlocks, Block(kind)
      PROVE  Inv'
  BY <1>1, <1>3, BlockInv DEF Blocks, ApplyBlocks
<1>4. QED
  BY <1>2, <1>3 DEF ApplyTask

\* The triage empties the account, a task it leaves to a person keeps it.
LEMMA TriageInv ==
  ASSUME Inv, Triage
  PROVE  Inv'
<1>1. ASSUME NEW b \in Buckets \ t.attempts, NEW place \in {"queue", "review"},
             t' = [Strip(t) EXCEPT !.place = place, !.attempts = @ \cup {b}]
      PROVE  Inv'
  <2>1. Shape'
    BY <1>1 DEF Inv, Shape, Strip
  <2>2. Fields'
    BY <1>1 DEF Inv, Shape, Fields, Strip
  <2>3. Account'
    BY <1>1 DEF Inv, Shape, Fields, Account, Paid, Strip
  <2>4. QED
    BY <2>1, <2>2, <2>3 DEF Inv
<1>2. CASE t' = [t EXCEPT !.place = "gone"]
  BY <1>2 DEF Inv, Shape, Fields, Account, Paid, Triage
<1>3. CASE t' = [t EXCEPT !.place = "asking"]
  BY <1>3 DEF Inv, Shape, Fields, Account, Paid, Triage
<1>4. QED
  BY <1>1, <1>2, <1>3 DEF Triage

\* What people do: an answer and a requeue empty the account, a review of the
\* draft as it is spends nothing.
LEMMA ByHandInv ==
  ASSUME Inv, Answer \/ Requeue \/ Rereview
  PROVE  Inv'
<1>1. CASE Answer
  <2>1. Shape'
    BY <1>1, RetryAssumption DEF Inv, Shape, Answer, ByHand, CleanSlate
  <2>2. Fields'
    BY <1>1, RetryAssumption DEF Inv, Shape, Fields, Answer, ByHand, CleanSlate
  <2>3. Account'
    BY <1>1, RetryAssumption DEF Inv, Shape, Fields, Account, Paid, Answer, ByHand, CleanSlate
  <2>4. QED
    BY <2>1, <2>2, <2>3 DEF Inv
<1>2. CASE Requeue
  <2>1. Shape'
    BY <1>2, RetryAssumption DEF Inv, Shape, Requeue, ByHand, CleanSlate
  <2>2. Fields'
    BY <1>2, RetryAssumption DEF Inv, Shape, Fields, Requeue, ByHand, CleanSlate
  <2>3. Account'
    BY <1>2, RetryAssumption DEF Inv, Shape, Fields, Account, Paid, Requeue, ByHand, CleanSlate
  <2>4. QED
    BY <2>1, <2>2, <2>3 DEF Inv
<1>3. CASE Rereview
  <2>1. Shape'
    BY <1>3, RetryAssumption DEF Inv, Shape, Rereview, ByHand, ReviewBlocks
  <2>2. Fields'
    BY <1>3, RetryAssumption DEF Inv, Shape, Fields, Rereview, ByHand, ReviewBlocks
  <2>3. Account'
    BY <1>3, RetryAssumption DEF Inv, Shape, Fields, Account, Paid, Rereview, ByHand, ReviewBlocks
  <2>4. QED
    BY <2>1, <2>2, <2>3 DEF Inv
<1>4. QED
  BY <1>1, <1>2, <1>3

-----------------------------------------------------------------------------
\* Inv is inductive: a task stays within its account at every step of a daemon, a
\* sweep or a person.
THEOREM Invariant == Spec => []Inv
<1>1. Init => Inv
  <2>1. Init => Shape
    BY DEF Init, Shape
  <2>2. Init => Fields
    <3> SUFFICES ASSUME Init PROVE Fields
      OBVIOUS
    <3>1. /\ t.place = "queue" /\ t.why = "none" /\ t.readmitted = {} /\ t.attempts = {}
          /\ t.noted = {} /\ t.rejects = 0 /\ t.continues = 0 /\ t.applies = 0
          /\ t.releases = 0 /\ t.drafts = 0 /\ t.hands = 0
      BY DEF Init
    <3>2. /\ t.asks \in BOOLEAN /\ t.premised \in BOOLEAN /\ t.sig \in BOOLEAN
          /\ t.escalated \in BOOLEAN /\ t.kept \in BOOLEAN
      BY DEF Init
    <3>3. QED
      BY <3>1, <3>2, RetryAssumption DEF Fields
  <2>3. Init => Account
    BY DEF Init, Account, Paid
  <2>4. QED
    BY <2>1, <2>2, <2>3 DEF Inv
<1>2. Inv /\ [Next]_vars => Inv'
  <2> SUFFICES ASSUME Inv, [Next]_vars PROVE Inv'
    OBVIOUS
  <2>1. CASE StartDraft
    <3>1. Shape'
      BY <2>1 DEF Inv, Shape, StartDraft
    <3>2. Fields'
      BY <2>1 DEF Inv, Shape, Fields, StartDraft
    <3>3. Account'
      BY <2>1 DEF Inv, Shape, Fields, Account, Paid, StartDraft
    <3>4. QED
      BY <3>1, <3>2, <3>3 DEF Inv
  <2>2. CASE EndDraft
    BY <2>2, EndDraftInv
  <2>3. CASE ReviewTask
    BY <2>3, ReviewTaskInv
  <2>4. CASE ApplyTask
    BY <2>4, ApplyTaskInv
  <2>5. CASE RejectRetryCheck
    BY <2>5, RejectRetryCheckInv
  <2>6. CASE RecoverBlocked
    BY <2>6 DEF Inv, Shape, Fields, Account, Paid, RecoverBlocked, Recover
  <2>7. CASE ApplyRetryCheck
    BY <2>7, ApplyRetryCheckInv
  <2>8. CASE Triage
    BY <2>8, TriageInv
  <2>9. CASE Answer \/ Requeue \/ Rereview
    BY <2>9, ByHandInv
  <2>10. CASE UNCHANGED vars
    BY <2>10 DEF Inv, Shape, Fields, Account, Paid, vars
  <2>11. QED
    BY <2>1, <2>2, <2>3, <2>4, <2>5, <2>6, <2>7, <2>8, <2>9, <2>10 DEF Next
<1>3. QED
  BY <1>1, <1>2, PTL DEF Spec

\* The counters of a task stay within their limits (draftTask, rejectRetryCheck,
\* applyRetryCheck), for every set of gates and buckets.
THEOREM TypeCorrect == Spec => []TypeOK
<1>1. Inv => TypeOK
  BY TypeByFields DEF Inv
<1>2. QED
  BY <1>1, Invariant, PTL

\* Between two clean slates a task is drafted once and once for each retry of the
\* three budgets, whatever blocks it and whatever people do.
THEOREM DraftsAreBounded == Spec => []DraftBudget
<1>1. Inv => DraftBudget
  BY DEF Inv, Fields, Account, DraftBudget
<1>2. QED
  BY <1>1, Invariant, PTL

-----------------------------------------------------------------------------
(* Why the clean slates run out.                                           *)

\* What is left of them is in four fields, which count in this order: an
\* intervention by hand may clear the rest, a gate's readmission the attempts of
\* the triage and the premise, the premise's readmission the attempts.
ByAPerson  == t'.hands > t.hands
ByAGate    == t'.hands = t.hands /\ t.readmitted \subseteq t'.readmitted /\ t'.readmitted # t.readmitted
ByAPremise == /\ t'.hands = t.hands /\ t'.readmitted = t.readmitted
              /\ ~t.premised /\ t'.premised
ByABucket  == /\ t'.hands = t.hands /\ t'.readmitted = t.readmitted /\ t'.premised = t.premised
              /\ t.attempts \subseteq t'.attempts /\ t'.attempts # t.attempts
Spend == ByAPerson \/ ByAGate \/ ByAPremise \/ ByABucket

\* None is given and none is won back.
Keep == /\ t'.hands = t.hands /\ t'.readmitted = t.readmitted
        /\ t'.premised = t.premised /\ t'.attempts = t.attempts
        /\ t'.drafts >= t.drafts

\* A sweep spends a clean slate or gives none.
LEMMA SweepSpends ==
  ASSUME Inv, RejectRetryCheck \/ RecoverBlocked \/ ApplyRetryCheck \/ Triage
  PROVE  Spend \/ Keep
<1>0. Shape /\ t.drafts >= t.drafts
  BY DEF Inv, Fields
<1> USE <1>0 DEF Shape
<1>1. CASE t.why \in Gates \ t.readmitted /\ ReadmitGate
  <2>1. t'.hands = t.hands /\ t'.readmitted = t.readmitted \cup {t.why}
    BY <1>1 DEF ReadmitGate, CleanSlate
  <2> QED BY <1>1, <2>1 DEF Spend, ByAGate
<1>2. CASE ~t.premised /\ ReadmitPremise
  <2>1. t'.hands = t.hands /\ t'.readmitted = t.readmitted /\ t'.premised = TRUE
    BY <1>2 DEF ReadmitPremise, CleanSlate
  <2> QED BY <1>2, <2>1 DEF Spend, ByAPremise
<1>3. CASE Escalate
  BY <1>3 DEF Escalate, Keep
<1>4. CASE ExhaustRecheck \/ HandleExhaustion \/ Redraft
  BY <1>4 DEF ExhaustRecheck, HandleExhaustion, Redraft, Keep
<1>5. CASE RecoverBlocked
  BY <1>5 DEF RecoverBlocked, Recover, Keep
<1>6. CASE ApplyRetryCheck
  <2>1. CASE Note("held") \/ Release \/ RedraftPatch
    BY <2>1 DEF Note, Release, RedraftPatch, Keep
  <2>2. CASE t' = [t EXCEPT !.place = "approved", !.why = "none"]
    BY <2>2 DEF Keep
  <2> QED BY <1>3, <1>6, <2>1, <2>2 DEF ApplyRetryCheck
<1>7. ASSUME NEW b \in Buckets \ t.attempts, NEW place \in {"queue", "review"},
             t' = [Strip(t) EXCEPT !.place = place, !.attempts = @ \cup {b}]
      PROVE  Spend
  <2>1. /\ t'.hands = t.hands /\ t'.readmitted = t.readmitted /\ t'.premised = t.premised
        /\ t'.attempts = t.attempts \cup {b}
    BY <1>7 DEF Strip
  <2> QED BY <1>7, <2>1 DEF Spend, ByABucket
<1>8. CASE t' = [t EXCEPT !.place = "gone"] \/ t' = [t EXCEPT !.place = "asking"]
  BY <1>8 DEF Keep
<1> QED BY <1>1, <1>2, <1>3, <1>4, <1>5, <1>6, <1>7, <1>8 DEF RejectRetryCheck, Judge, Triage

\* A step of a person is spent.
LEMMA HandSpends ==
  ASSUME Inv, Answer \/ Requeue \/ Rereview
  PROVE  Spend
<1>1. t'.hands = t.hands + 1
  BY DEF Inv, Shape, Answer, Requeue, Rereview, ByHand, CleanSlate
<1>2. t.hands \in Nat
  BY RetryAssumption DEF Inv, Fields
<1> QED BY <1>1, <1>2 DEF Spend, ByAPerson

\* The draft, the review and the apply give no clean slate.
LEMMA WorkSpendsNothing ==
  ASSUME Inv, StartDraft \/ EndDraft \/ ReviewTask \/ ApplyTask
  PROVE  Keep
<1>0. Shape /\ t.drafts >= t.drafts /\ t.drafts + 1 >= t.drafts
  BY DEF Inv, Fields
<1> USE <1>0 DEF Shape, Keep
<1>1. ASSUME NEW kind, Block(kind) PROVE Keep
  BY <1>1 DEF Block
<1>2. CASE StartDraft
  BY <1>2 DEF StartDraft
<1>3. CASE EndDraft
  BY <1>1, <1>3 DEF EndDraft, Escalate
<1>4. CASE ReviewTask
  BY <1>1, <1>4 DEF ReviewTask
<1>5. CASE ApplyTask
  BY <1>1, <1>5 DEF ApplyTask
<1> QED BY <1>2, <1>3, <1>4, <1>5

\* The clean slates of rejectRetryCheck, the triage and the dashboard run out: each
\* one uses up a gate, the premise, a bucket or a person, in an order in which nothing
\* that is used up comes back.  With DraftsAreBounded this is why drafts end.
THEOREM CleanSlatesAreSpent == Spec => [][Spend \/ Keep]_vars
<1>1. Inv /\ [Next]_vars => [Spend \/ Keep]_vars
  BY SweepSpends, HandSpends, WorkSpendsNothing DEF Next
<1> QED BY <1>1, Invariant, PTL DEF Spec

-----------------------------------------------------------------------------
(* How many drafts are left: interventions, false alarms of gates, the     *)
(* premise and attempts of the triage, each within what is left of those   *)
(* before it.                                                              *)

Interventions(s) == MaxHands - s.hands
Alarms(s)   == Interventions(s) * (Cardinality(Gates) + 1) + (Cardinality(Gates) - Cardinality(s.readmitted))
Premises(s) == Alarms(s) * 2 + (IF s.premised THEN 0 ELSE 1)
Attempts(s) == Premises(s) * (Cardinality(Buckets) + 1) + (Cardinality(Buckets) - Cardinality(s.attempts))

\* The clean slates that are left, as digits of one number, and the drafts of
\* DraftBudget that are left until the next one.
DraftsLeft(s) == Attempts(s) * 8 + (7 - s.drafts)

\* A greater leading digit outweighs what follows it.
LEMMA LeadingDigit ==
  ASSUME NEW a \in Nat, NEW b \in Nat, NEW m \in Nat, NEW x \in Nat, NEW y \in Nat, a < b, x < m
  PROVE  a * m + x < b * m + y
<1>1. PICK k \in Nat : b = a + 1 + k
  <2>1. b - a - 1 \in Nat /\ b = a + 1 + (b - a - 1)
    OBVIOUS
  <2> QED BY <2>1
<1>2. b * m = a * m + m + k * m
  BY <1>1
<1>3. a * m \in Nat /\ k * m \in Nat /\ b * m \in Nat
  OBVIOUS
<1> QED BY <1>2, <1>3

\* The digits are digits.
LEMMA Digits ==
  ASSUME IsFiniteSet(Gates), IsFiniteSet(Buckets), NEW s,
         s.hands \in 0 .. MaxHands, s.readmitted \in SUBSET Gates, s.attempts \in SUBSET Buckets,
         s.drafts \in 0 .. 7
  PROVE  /\ Interventions(s) \in Nat
         /\ Cardinality(Gates) - Cardinality(s.readmitted) \in 0 .. Cardinality(Gates)
         /\ Cardinality(Buckets) - Cardinality(s.attempts) \in 0 .. Cardinality(Buckets)
         /\ 7 - s.drafts \in 0 .. 7
         /\ Cardinality(Gates) \in Nat /\ Cardinality(Buckets) \in Nat
         /\ Alarms(s) \in Nat /\ Premises(s) \in Nat /\ Attempts(s) \in Nat
         /\ DraftsLeft(s) \in Nat
<1>1. Interventions(s) \in Nat
  BY RetryAssumption DEF Interventions
<1>2. /\ Cardinality(s.readmitted) \in Nat /\ Cardinality(s.readmitted) <= Cardinality(Gates)
      /\ Cardinality(s.attempts) \in Nat /\ Cardinality(s.attempts) <= Cardinality(Buckets)
      /\ Cardinality(Gates) \in Nat /\ Cardinality(Buckets) \in Nat
  BY FS_Subset, FS_CardinalityType
<1>3. 7 - s.drafts \in 0 .. 7
  OBVIOUS
<1>4. \A a, b, c \in Nat : a * (b + 1) + c \in Nat
  OBVIOUS
<1>5. /\ Cardinality(Gates) - Cardinality(s.readmitted) \in 0 .. Cardinality(Gates)
      /\ Cardinality(Buckets) - Cardinality(s.attempts) \in 0 .. Cardinality(Buckets)
  BY <1>2
<1>6. Alarms(s) \in Nat
  BY <1>1, <1>2, <1>4, <1>5 DEF Alarms
<1>7. Premises(s) \in Nat
  BY <1>6 DEF Premises
<1>8. Attempts(s) \in Nat
  BY <1>2, <1>4, <1>5, <1>7 DEF Attempts
<1>9. DraftsLeft(s) \in Nat
  BY <1>3, <1>8 DEF DraftsLeft
<1> QED BY <1>1, <1>2, <1>3, <1>5, <1>6, <1>7, <1>8, <1>9

\* The fields that count are in range before and after a step.
LEMMA InRange ==
  /\ Inv => /\ t.hands \in 0 .. MaxHands /\ t.readmitted \in SUBSET Gates
            /\ t.attempts \in SUBSET Buckets /\ t.drafts \in 0 .. 7
  /\ Inv' => /\ t'.hands \in 0 .. MaxHands /\ t'.readmitted \in SUBSET Gates
             /\ t'.attempts \in SUBSET Buckets /\ t'.drafts \in 0 .. 7
BY DEF Inv, Fields, Account

\* What each clean slate costs.
LEMMA SlatesLower ==
  ASSUME IsFiniteSet(Gates), IsFiniteSet(Buckets), Inv, Inv', Spend
  PROVE  DraftsLeft(t') < DraftsLeft(t)
<1> DEFINE G == Cardinality(Gates)
           B == Cardinality(Buckets)
           g == Cardinality(t.readmitted)
           b == Cardinality(t.attempts)
           pr == IF t.premised THEN 0 ELSE 1
<1>0. /\ G \in Nat /\ B \in Nat /\ pr \in 0 .. 1 /\ pr' \in 0 .. 1
      /\ Interventions(t) \in Nat /\ Alarms(t) \in Nat /\ Premises(t) \in Nat /\ Attempts(t) \in Nat
      /\ G - g \in 0 .. G /\ B - b \in 0 .. B /\ 7 - t.drafts \in 0 .. 7
  BY Digits, InRange
<1>1. /\ Interventions(t') \in Nat /\ Alarms(t') \in Nat /\ Premises(t') \in Nat /\ Attempts(t') \in Nat
      /\ G - g' \in 0 .. G /\ B - b' \in 0 .. B /\ 7 - t'.drafts \in 0 .. 7
  BY Digits, InRange
<1>2. g \in Nat /\ g' \in Nat /\ b \in Nat /\ b' \in Nat
  <2>1. t.readmitted \in SUBSET Gates /\ t.attempts \in SUBSET Buckets
    BY DEF Inv, Fields
  <2>2. t'.readmitted \in SUBSET Gates /\ t'.attempts \in SUBSET Buckets
    BY DEF Inv, Fields
  <2> QED BY <2>1, <2>2, FS_Subset, FS_CardinalityType
<1>3. /\ Alarms(t) = Interventions(t) * (G + 1) + (G - g) /\ Alarms(t') = Interventions(t') * (G + 1) + (G - g')
      /\ Premises(t) = Alarms(t) * 2 + pr /\ Premises(t') = Alarms(t') * 2 + pr'
      /\ Attempts(t) = Premises(t) * (B + 1) + (B - b) /\ Attempts(t') = Premises(t') * (B + 1) + (B - b')
      /\ DraftsLeft(t) = Attempts(t) * 8 + (7 - t.drafts) /\ DraftsLeft(t') = Attempts(t') * 8 + (7 - t'.drafts)
  BY DEF Alarms, Premises, Attempts, DraftsLeft
<1>4. Attempts(t') < Attempts(t) => DraftsLeft(t') < DraftsLeft(t)
  BY <1>0, <1>1, <1>3
<1>5. Premises(t') < Premises(t) => Attempts(t') < Attempts(t)
  <2>1. SUFFICES ASSUME Premises(t') < Premises(t) PROVE Attempts(t') < Attempts(t)
    OBVIOUS
  <2>2. B + 1 \in Nat /\ B - b' \in Nat /\ B - b \in Nat /\ B - b' < B + 1
    BY <1>0, <1>1
  <2> HIDE DEF B, b
  <2> QED BY <1>0, <1>1, <1>3, <2>1, <2>2, LeadingDigit
<1>6. Alarms(t') < Alarms(t) => Premises(t') < Premises(t)
  BY <1>0, <1>1, <1>3
<1>7. Interventions(t') < Interventions(t) => Alarms(t') < Alarms(t)
  <2>1. SUFFICES ASSUME Interventions(t') < Interventions(t) PROVE Alarms(t') < Alarms(t)
    OBVIOUS
  <2>2. G + 1 \in Nat /\ G - g' \in Nat /\ G - g \in Nat /\ G - g' < G + 1
    BY <1>0, <1>1
  <2> HIDE DEF G, g
  <2> QED BY <1>0, <1>1, <1>3, <2>1, <2>2, LeadingDigit
<1>8. CASE ByAPerson
  <2>1. t.hands \in 0 .. MaxHands /\ t'.hands \in 0 .. MaxHands
    BY DEF Inv, Fields
  <2>2. Interventions(t') < Interventions(t)
    BY <1>8, <2>1, RetryAssumption DEF ByAPerson, Interventions
  <2> QED BY <1>4, <1>5, <1>6, <1>7, <2>2
<1>9. CASE ByAGate
  <2>1. Interventions(t') = Interventions(t)
    BY <1>9 DEF ByAGate, Interventions
  <2>2. t'.readmitted \in SUBSET Gates /\ t.readmitted \in SUBSET t'.readmitted /\ t'.readmitted # t.readmitted
    BY <1>9 DEF ByAGate, Inv, Fields
  <2>3. IsFiniteSet(t'.readmitted)
    BY <2>2, FS_Subset
  <2>4. g < g'
    BY <1>2, <2>2, <2>3, FS_Subset
  <2>5. G - g' < G - g
    BY <1>0, <1>2, <2>4
  <2>6. Interventions(t) * (G + 1) \in Nat
    BY <1>0
  <2>7. Alarms(t') < Alarms(t)
    <3> HIDE DEF G, g
    <3> QED BY <1>0, <1>1, <1>3, <2>1, <2>5, <2>6
  <2> QED BY <1>4, <1>5, <1>6, <2>7
<1>10. CASE ByAPremise
  <2>1. Alarms(t') = Alarms(t) /\ pr' = 0 /\ pr = 1
    BY <1>10 DEF ByAPremise, Alarms, Interventions
  <2>2. Premises(t') < Premises(t)
    BY <1>0, <1>1, <1>3, <2>1
  <2> QED BY <1>4, <1>5, <2>2
<1>11. CASE ByABucket
  <2>1. Premises(t') = Premises(t)
    BY <1>11 DEF ByABucket, Premises, Alarms, Interventions
  <2>2. t'.attempts \in SUBSET Buckets /\ t.attempts \in SUBSET t'.attempts /\ t'.attempts # t.attempts
    BY <1>11 DEF ByABucket, Inv, Fields
  <2>3. IsFiniteSet(t'.attempts)
    BY <2>2, FS_Subset
  <2>4. b < b'
    BY <1>2, <2>2, <2>3, FS_Subset
  <2>5. B - b' < B - b
    BY <1>0, <1>2, <2>4
  <2>6. Premises(t) * (B + 1) \in Nat
    BY <1>0
  <2>7. Attempts(t') < Attempts(t)
    <3> HIDE DEF B, b
    <3> QED BY <1>0, <1>1, <1>3, <2>1, <2>5, <2>6
  <2> QED BY <1>4, <2>7
<1> QED BY <1>8, <1>9, <1>10, <1>11 DEF Spend

\* Drafts of a task run out: every one lowers a natural number, what is left of gates,
\* premise, buckets, interventions and the budget in between, which no verdict, sweep,
\* triage or person ever raises.  So a task is drafted a bounded number of times in its
\* life, whatever people do within MaxHands: the safety half of DraftsEnd.
THEOREM DraftsRunOut ==
  ASSUME IsFiniteSet(Gates), IsFiniteSet(Buckets)
  PROVE  Spec => [](DraftsLeft(t) \in Nat)
                   /\ [][DraftsLeft(t') <= DraftsLeft(t) /\ (StartDraft => DraftsLeft(t') < DraftsLeft(t))]_vars
<1>1. Inv => DraftsLeft(t) \in Nat
  BY Digits, InRange
<1>2. Inv /\ Inv' /\ [Next]_vars
        => [DraftsLeft(t') <= DraftsLeft(t) /\ (StartDraft => DraftsLeft(t') < DraftsLeft(t))]_vars
  <2> SUFFICES ASSUME Inv, Inv', Next
               PROVE  DraftsLeft(t') <= DraftsLeft(t) /\ (StartDraft => DraftsLeft(t') < DraftsLeft(t))
    OBVIOUS
  <2>1. DraftsLeft(t) \in Nat /\ DraftsLeft(t') \in Nat
    BY Digits, InRange
  <2>2. CASE Spend
    BY <2>1, <2>2, SlatesLower
  <2>3. CASE Keep
    <3>1. Attempts(t') = Attempts(t)
      BY <2>3 DEF Keep, Attempts, Premises, Alarms, Interventions
    <3>2. Attempts(t) \in Nat /\ t.drafts \in Nat /\ t'.drafts \in Nat
      BY Digits, InRange DEF Inv, Fields
    <3>3. t'.drafts >= t.drafts
      BY <2>3 DEF Keep
    <3>4. StartDraft => t'.drafts = t.drafts + 1
      BY DEF StartDraft, Inv, Shape
    <3>5. DraftsLeft(t) = Attempts(t) * 8 + (7 - t.drafts) /\ DraftsLeft(t') = Attempts(t) * 8 + (7 - t'.drafts)
      BY <3>1 DEF DraftsLeft
    <3> QED BY <3>2, <3>3, <3>4, <3>5
  <2> QED BY <2>2, <2>3, SweepSpends, HandSpends, WorkSpendsNothing DEF Next
<1> QED BY <1>1, <1>2, Invariant, PTL DEF Spec
=============================================================================
