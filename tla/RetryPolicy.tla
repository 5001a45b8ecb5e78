----------------------------- MODULE RetryPolicy -----------------------------
(***************************************************************************)
(* The life of one task from draft to done, and what the two retry sweeps  *)
(* of the watchdog, the triage of needs-clarification/ and people do with  *)
(* it when it is blocked: redraft it within a budget, take it back after a *)
(* false alarm of a gate, apply it again, hand it to a person, or leave it *)
(* with a note in its history.                                             *)
(*                                                                         *)
(* A block is told by its kind: what the sweeps read out of blockedStage,  *)
(* blockedReason and a few flags.  Where the files lie while they move is  *)
(* the subject of TaskMoves, here a move is one step.                      *)
(***************************************************************************)
EXTENDS Naturals

CONSTANTS Gates,    \* gates whose false alarms are taken back, each once
          Buckets,  \* requeue buckets of the triage, each with one attempt
          MaxHands  \* bound: what people do with the task

ASSUME RetryAssumption == MaxHands \in Nat

MAX_LOCAL_REJECT_RETRIES == 2
MAX_AGENTIC_CONTINUATIONS == 2
MAX_APPLY_RETRIES == 2
APPLY_TIMEOUT_MAX_RELEASES == 4

\* "reject" is a rejection by review; "draft" a failed or degenerate draft pass or
\* a missing file; "recheck" a rejection that a rule computed from the file;
\* "hopeless" is what the classifiers call not retryable.
ReviewBlocks == {"reject", "recheck", "premise", "hopeless", "inconclusive"}
DraftBlocks == {"draft", "continue", "oversized", "premise", "hopeless", "unknown"} \cup Gates
ApplyBlocks == {"apply", "resolved", "conflict", "diverged", "dirty", "timeout"}
Blocks == ReviewBlocks \cup DraftBlocks \cup ApplyBlocks

VARIABLE t
vars == t

Init ==
  t \in [place : {"queue"}, why : {"none"},
         asks : BOOLEAN,         \* adhoc, fulfilment or verdict: exhaustion asks a person
         rejects : {0}, continues : {0}, applies : {0}, releases : {0},
         premised : {FALSE},     \* premiseReadmitCount
         readmitted : {{}},      \* gates whose stamp the task carries
         sig : {FALSE},          \* _prevBlockSignature is that of the file as it is
         attempts : {{}},        \* ncTriageBucketAttempts
         escalated : {FALSE},    \* escalated since the last draft-started
         noted : {{}},           \* "asked", "exhausted", "held" in the history
         drafts : {0},           \* history: drafts since the last clean slate
         kept : {FALSE},         \* history: re-reviewed and blocked again
         hands : {0}]
-----------------------------------------------------------------------------
\* READMIT_CLEAN_SLATE_FIELDS
CleanSlate(s) ==
  [s EXCEPT !.rejects = 0, !.continues = 0, !.premised = FALSE, !.sig = FALSE,
            !.attempts = {}, !.why = "none", !.drafts = 0, !.kept = FALSE]

\* REQUEUE_STRIP_FIELDS of the triage
Strip(s) == [s EXCEPT !.rejects = 0, !.why = "none", !.drafts = 0, !.kept = FALSE]

\* Hand the task to a person, and tell so in its history.
Escalate == t' = [t EXCEPT !.place = "clarify", !.escalated = TRUE, !.noted = @ \cup {"asked"}]

\* draftTask: a draft begins, and clears what is left of the last block.
StartDraft ==
  /\ t.place = "queue"
  /\ t' = [t EXCEPT !.place = "draft", !.why = "none", !.escalated = FALSE, !.kept = FALSE,
                    !.drafts = @ + 1]

\* The file of a recheck may have changed since its signature was stored.
Block(kind) ==
  \E same \in BOOLEAN :
    t' = [t EXCEPT !.place = "blocked", !.why = kind,
                   !.sig = @ /\ (kind = "recheck" => same),
                   !.continues = IF kind = "continue" THEN @ + 1 ELSE @]

EndDraft ==
  /\ t.place = "draft"
  /\ \/ t' = [t EXCEPT !.place = "review"]
     \/ Escalate
     \/ \E kind \in DraftBlocks :
          /\ (kind = "continue") => t.asks /\ t.continues < MAX_AGENTIC_CONTINUATIONS
          /\ Block(kind)

ReviewTask ==
  /\ t.place = "review"
  /\ \/ t' = [t EXCEPT !.place = "approved"]
     \/ \E kind \in ReviewBlocks : Block(kind)

ApplyTask ==
  /\ t.place = "approved"
  /\ \/ t' = [t EXCEPT !.place = "gone", !.why = "none"]
     \/ \E kind \in ApplyBlocks : Block(kind)
-----------------------------------------------------------------------------
Note(what) == what \notin t.noted /\ t' = [t EXCEPT !.noted = @ \cup {what}]

\* A spent budget: ask a person, unless one was asked since the last draft; a
\* task that asks nobody stays, with one note.
HandleExhaustion ==
  IF t.asks
    THEN ~t.escalated /\ t' = [t EXCEPT !.place = "clarify", !.escalated = TRUE,
                                        !.sig = @ \/ t.why = "recheck",
                                        !.noted = @ \cup {"asked", "exhausted"}]
    ELSE "exhausted" \notin t.noted /\ t' = [t EXCEPT !.sig = @ \/ t.why = "recheck",
                                                      !.noted = @ \cup {"exhausted"}]

\* deterministicReviewRecoveryCheck: the rule that blocked the task has been fixed.
Recover == t.why = "reject" /\ t' = [t EXCEPT !.place = "approved", !.why = "none"]

ReadmitGate == t' = [CleanSlate(t) EXCEPT !.place = "queue", !.readmitted = @ \cup {t.why}]

\* Slip: the readmission is not counted.
ReadmitPremiseUncounted == t' = [CleanSlate(t) EXCEPT !.place = "queue"]

ReadmitPremise == t' = [CleanSlate(t) EXCEPT !.place = "queue", !.premised = TRUE]

\* A retry cannot help.
Hopeless == t.why \in {"oversized", "hopeless", "premise"}

\* The signature is stored and then compared with itself in the same pass, so the
\* first block of this kind ends the retries; each later pass writes it again.
ExhaustRecheck == t' = [t EXCEPT !.rejects = MAX_LOCAL_REJECT_RETRIES, !.sig = TRUE,
                                 !.noted = @ \cup {"exhausted"}]

\* Slip: one retry too many.
SpentLate == t.rejects > MAX_LOCAL_REJECT_RETRIES /\ t.why # "continue"

Spent == t.rejects >= MAX_LOCAL_REJECT_RETRIES /\ t.why # "continue"

\* Slip: a redraft is not counted.
RedraftFree == t' = [t EXCEPT !.place = "queue"]

Redraft == t' = [t EXCEPT !.place = "queue",
                          !.rejects = IF t.why = "continue" THEN @ ELSE @ + 1]

\* Slip: failed draft passes are not among the shapes the sweep looks for.
ShapesOfReview == {"reject", "recheck", "continue", "oversized", "premise", "hopeless"}

\* The shapes the sweep looks for.  An inconclusive review is none of them.
Shapes == {"reject", "recheck", "draft", "continue", "oversized", "premise", "hopeless"}

Judge ==
  IF t.why = "premise" /\ ~t.premised THEN ReadmitPremise
  ELSE IF Hopeless /\ ~t.escalated THEN Escalate
  ELSE IF t.why = "recheck" /\ (t.sig \/ ~Spent) THEN ExhaustRecheck
  ELSE IF Spent THEN HandleExhaustion
  ELSE Redraft

\* rejectRetryCheck on the task, once per tick of the watchdog.
RejectRetryCheck ==
  /\ t.place = "blocked"
  /\ \/ t.why \in Gates \ t.readmitted /\ ReadmitGate
     \/ t.why \in Shapes /\ Judge

RecoverBlocked == t.place = "blocked" /\ Recover
-----------------------------------------------------------------------------
\* A failure of the clone, or one of a few timeouts: apply again once it is clean.
Release ==
  \/ Note("held")
  \/ t' = [t EXCEPT !.place = "approved", !.why = "none",
                    !.releases = IF t.why = "timeout" THEN @ + 1 ELSE @]

RedraftPatch ==
  IF t.applies < MAX_APPLY_RETRIES
    THEN t' = [t EXCEPT !.place = "queue", !.applies = @ + 1]
  ELSE IF t.escalated
    THEN Note("exhausted")
    ELSE t' = [t EXCEPT !.place = "clarify", !.escalated = TRUE,
                        !.noted = @ \cup {"asked", "exhausted"}]

\* A diverged branch is told to a person once in the life of the task.
CannotApply == \/ t.why = "conflict" /\ ~t.escalated
               \/ t.why = "diverged" /\ "asked" \notin t.noted

\* applyRetryCheck on the task.
ApplyRetryCheck ==
  /\ t.place = "blocked" /\ t.why \in ApplyBlocks
  /\ IF t.why = "timeout" /\ t.releases = APPLY_TIMEOUT_MAX_RELEASES THEN Note("held")
     ELSE IF t.why \in {"dirty", "timeout"} THEN Release
     ELSE IF t.why = "resolved" THEN t' = [t EXCEPT !.place = "approved", !.why = "none"]
     ELSE IF CannotApply THEN Escalate
     ELSE RedraftPatch
-----------------------------------------------------------------------------
\* needsClarificationTriage: one requeue per bucket, to the queue or to review;
\* archive; or leave to a person.
Triage ==
  /\ t.place = "clarify"
  /\ \/ \E b \in Buckets \ t.attempts, place \in {"queue", "review"} :
          t' = [Strip(t) EXCEPT !.place = place, !.attempts = @ \cup {b}]
     \/ t' = [t EXCEPT !.place = "gone"]
     \/ t' = [t EXCEPT !.place = "asking"]

ByHand(s) == /\ t.hands < MaxHands
             /\ t' = [s EXCEPT !.hands = @ + 1]

\* The answer to a question, from the dashboard.
Answer == t.place \in {"clarify", "asking"} /\ ByHand([CleanSlate(t) EXCEPT !.place = "queue"])

\* A requeue by hand builds the task anew; its history stays.
Requeue == t.place \in {"blocked", "clarify", "asking", "gone"}
             /\ ByHand([CleanSlate(t) EXCEPT !.place = "queue", !.readmitted = {},
                                             !.applies = 0, !.releases = 0])

\* rereview-task.js: the draft goes back to review, the redraft budget is kept.
Rereview == /\ t.place \in {"blocked", "clarify", "asking"} /\ t.why \in ReviewBlocks
            /\ ByHand([t EXCEPT !.place = "review", !.why = "none", !.attempts = {}, !.kept = TRUE])

Next == \/ StartDraft \/ EndDraft \/ ReviewTask \/ ApplyTask
        \/ RejectRetryCheck \/ RecoverBlocked \/ ApplyRetryCheck \/ Triage
        \/ Answer \/ Requeue \/ Rereview

\* Every daemon goes on ticking; no rule need be fixed, nobody do anything by hand.
Fairness == WF_vars(StartDraft \/ EndDraft \/ ReviewTask \/ ApplyTask
                      \/ RejectRetryCheck \/ ApplyRetryCheck \/ Triage)

Spec == Init /\ [][Next]_vars /\ Fairness
-----------------------------------------------------------------------------
(***************************************************************************)
(* Properties.                                                             *)
(***************************************************************************)
TypeOK ==
  t \in [place : {"queue", "draft", "review", "approved", "blocked", "clarify", "asking", "gone"},
         why : Blocks \cup {"none"}, asks : BOOLEAN,
         rejects : 0 .. MAX_LOCAL_REJECT_RETRIES, continues : 0 .. MAX_AGENTIC_CONTINUATIONS,
         applies : 0 .. MAX_APPLY_RETRIES, releases : 0 .. APPLY_TIMEOUT_MAX_RELEASES,
         premised : BOOLEAN, readmitted : SUBSET Gates, sig : BOOLEAN, attempts : SUBSET Buckets,
         escalated : BOOLEAN, noted : SUBSET {"asked", "exhausted", "held"}, drafts : Nat,
         kept : BOOLEAN, hands : 0 .. MaxHands]

\* Whatever blocks a task, and however its blocks follow each other, it is drafted
\* once and then once for each retry of the three budgets, until a triage bucket,
\* a false alarm or a person gives it a clean slate.
DraftBudget == t.drafts <= 1 + MAX_LOCAL_REJECT_RETRIES + MAX_AGENTIC_CONTINUATIONS + MAX_APPLY_RETRIES

\* The clean slates run out too: a task left to the daemons is not redrafted for
\* ever, although a readmission clears the counters that bound other requeues.
DraftsEnd == <>[](t.place # "draft")

\* A task that a sweep knows the shape of does not lie in blocked/ unseen: it leaves,
\* and a task that can ask a person never stays with a mere note, unless its
\* rejection is computed from an unchanged file or it was re-reviewed.
BlocksAreTakenUp ==
  (t.place = "blocked" /\ t.why \in (ReviewBlocks \cup DraftBlocks \cup ApplyBlocks) \ {"inconclusive", "unknown"}
     /\ t.why \notin t.readmitted /\ ~t.kept)
    ~> (t.place # "blocked"
          \/ (t.noted # {} /\ (t.asks => t.why \in ApplyBlocks \cup {"recheck"})))
=============================================================================
