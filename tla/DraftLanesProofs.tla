-------------------------- MODULE DraftLanesProofs --------------------------
(***************************************************************************)
(* Proofs about the drafting lanes for every set of lanes and tasks, any   *)
(* limits and any number of kills, preemptions and pauses.                 *)
(*                                                                         *)
(* The argument is about one name: as long as no draft process writes to a *)
(* path it no longer holds, the name lies in one place, whoever drafts it  *)
(* has it in its own folder (or lost it to a preemption under way), and    *)
(* what a draft process will write is what the file records already.  So   *)
(* the counters in the file are never rolled back and the budget holds.    *)
(***************************************************************************)
EXTENDS DraftLanes, FiniteSetTheorems, TLAPS

\* A running draft read what the file in the lane's folder still records; the
\* file is gone only when a preemption of the lane is under way.
Drafting(l) ==
  mode[l] = "draft" /\ job[l] \notin late =>
    /\ axe[l] \/ In(job[l], l)
    /\ In(job[l], l) => snap[l] = file[job[l]][l]

\* A result that is going to be filed has its file in the lane's folder.
Filing(l) ==
  mode[l] = "judge" \/ (mode[l] = "file" /\ result[l] \in Filed \cup {"pending"})
    => job[l] \in late \/ In(job[l], l)

LanesHold == \A l \in Lanes : Drafting(l) /\ Filing(l)

\* A draft process whose daemon is gone and not replaced read what is still there.
GhostFresh ==
  \A g \in ghosts : ~g.cut =>
    /\ mode[g.lane] = "down"
    /\ g.task \notin late /\ In(g.task, g.lane) => g.snap = file[g.task][g.lane]

\* The failures counted against t and not waived, beyond one for each kill.
Debt(t) == failed[t] - waived[t] - kills

\* What the copy c of a task accounts for: RetryLimit failures for each round
\* it survived, and those of the current round, at most so many.
Within(debt, c, most) ==
  /\ debt <= RetryLimit * c.rounds + c.fails
  /\ debt <= RetryLimit * c.rounds + most

\* The lane's failure has reached the limit and is not filed yet.
Settling(l) == mode[l] = "judge" \/ (mode[l] = "file" /\ result[l] = "blocked")

\* The copy of t in p is within the budget, and if it can be drafted again
\* it has room for one more failure.
Room(t, p) ==
  /\ Within(Debt(t), file[t][p], RetryLimit)
  /\ \/ p \in Filed
     \/ p \in Lanes /\ job[p] = t /\ Settling(p)
     \/ Within(Debt(t), file[t][p], RetryLimit - 1)

Budget == \A t \in Tasks \ late : \A p \in DOMAIN file[t] : Room(t, p)

Inv == TypeOK /\ OneFile /\ LanesHold /\ GhostFresh /\ Budget

-----------------------------------------------------------------------------
(* Files *)

\* A move keeps the type of the copies.
LEMMA MoveType ==
  ASSUME NEW f, NEW p, NEW q \in Places, p # q, Copies(f)
  PROVE  Copies(MoveNoClobber(f, p, q))
  BY DEF MoveNoClobber, Rename, Copies

\* A write keeps the type of the copies.
LEMMA PutType ==
  ASSUME NEW f, NEW p \in Places, NEW c \in Content, Copies(f)
  PROVE  Copies(Put(f, p, c))
  BY DEF Put, Copies

-----------------------------------------------------------------------------
(* Types *)

\* The steps of a lane and of what runs for it.
LaneStep(l) ==
  \/ Start(l) \/ Daemon(l) \/ Checkpoint(l) \/ EndDraft(l)
  \/ Kill(l) \/ PreemptMoves(l) \/ PreemptKills(l)

\* A lane keeps the types of what lanes remember.
LEMMA LaneLanesTyped ==
  ASSUME Inv, NEW l \in Lanes, LaneStep(l)
  PROVE  LanesTyped'
<1> USE ConstantsAssumption DEF Inv, TypeOK, LanesTyped, CountersTyped, laneVars, bounds, history,
     Modes, Results, Filed, Faults, Infra, NewTask, Proceed
<1>0. [fails |-> 0, rounds |-> 0] \in Content
  BY DEF Content
<1> USE <1>0
<1>1. CASE Start(l)
  BY <1>1 DEF Start
<1>2. CASE ListLeftovers(l)
  BY <1>2 DEF ListLeftovers, Listing
<1>3. CASE Resume(l)
  <2>1. PICK t \in todo[l] :
          /\ todo' = [todo EXCEPT ![l] = @ \ {t}]
          /\ IF In(t, l)
               THEN /\ mode' = [mode EXCEPT ![l] = "begin"]
                    /\ job' = [job EXCEPT ![l] = t]
                    /\ last' = [last EXCEPT ![l] = FALSE]
               ELSE UNCHANGED <<mode, job, last>>
    BY <1>3 DEF Resume
  <2>2. t \in Tasks /\ UNCHANGED <<snap, result, axe>>
    BY <1>3 DEF Resume
  <2>3. CASE In(t, l)
    <3>1. /\ todo' = [todo EXCEPT ![l] = @ \ {t}] /\ mode' = [mode EXCEPT ![l] = "begin"]
          /\ job' = [job EXCEPT ![l] = t] /\ last' = [last EXCEPT ![l] = FALSE]
      BY <2>1, <2>3
    <3>2. /\ todo' \in [Lanes -> SUBSET Tasks] /\ job' \in [Lanes -> Tasks \cup {NoTask}]
          /\ mode' \in [Lanes -> Modes] /\ last' \in [Lanes -> BOOLEAN]
      BY <2>2, <3>1
    <3> QED BY <2>2, <3>1, <3>2
  <2>4. CASE ~In(t, l)
    BY <2>1, <2>2, <2>4
  <2> QED BY <2>3, <2>4
<1>4. CASE ListPending(l)
  BY <1>4 DEF ListPending, Listing
<1>5. CASE Look(l)
  <2>1. PICK t \in todo[l] :
          /\ todo' = [todo EXCEPT ![l] = @ \ {t}]
          /\ IF In(t, "pending")
               THEN mode' = [mode EXCEPT ![l] = "move"] /\ job' = [job EXCEPT ![l] = t]
               ELSE UNCHANGED <<mode, job>>
    BY <1>5 DEF Look
  <2>2. t \in Tasks /\ UNCHANGED <<last, snap, result, axe>>
    BY <1>5 DEF Look
  <2>3. CASE In(t, "pending")
    BY <2>1, <2>2, <2>3
  <2>4. CASE ~In(t, "pending")
    BY <2>1, <2>2, <2>4
  <2> QED BY <2>3, <2>4
<1>6. CASE Claim(l)
  BY <1>6 DEF Claim
<1>7. CASE EndTick(l)
  BY <1>7 DEF EndTick
<1>8. CASE Abandon(l)
  BY <1>8 DEF Abandon, Proceed
<1>9. CASE BeginDraft(l)
  <2>1. In(job[l], l) => file[job[l]][l] \in Content
    BY <1>9 DEF BeginDraft, FilesTyped, Copies, In
  <2>2. mode[l] = "begin" /\ job[l] \in Tasks
    BY <1>9 DEF BeginDraft
  <2> HIDE DEF Content
  <2>3. CASE In(job[l], l)
    BY <1>9, <2>1, <2>2, <2>3 DEF BeginDraft
  <2>4. CASE ~In(job[l], l)
    BY <1>9, <2>2, <2>4 DEF BeginDraft
  <2> QED BY <2>3, <2>4
<1>10. CASE Checkpoint(l)
  BY <1>10 DEF Checkpoint, WriteTaskJson
<1>11. CASE EndDraft(l)
  BY <1>11 DEF EndDraft, WriteTaskJson
<1>12. CASE File(l)
  BY <1>12 DEF File, Proceed
<1>13. CASE FilePaused(l)
  BY <1>13 DEF FilePaused, Proceed
<1>14. CASE CountFailure(l)
  <2>1. mode[l] = "file" /\ job[l] \in Tasks /\ UNCHANGED <<snap, axe>>
    BY <1>14 DEF CountFailure
  <2>2. CASE UNCHANGED <<todo, job, result>>
    <3>1. \/ mode' = [mode EXCEPT ![l] = "judge"] \/ mode' = [mode EXCEPT ![l] = "tick"]
          \/ mode' = [mode EXCEPT ![l] = "resume"]
      BY <1>14 DEF CountFailure
    <3>2. \E stop \in BOOLEAN : last' = [last EXCEPT ![l] = stop]
      BY <1>14 DEF CountFailure
    <3> QED BY <2>1, <2>2, <3>1, <3>2
  <2>3. CASE Proceed(l, last[l] \/ result[l] \in Infra)
    BY <2>1, <2>3
  <2> QED BY <1>14, <2>2, <2>3 DEF CountFailure
<1>15. CASE Judge(l)
  <2>1. Verdict(file[job[l]][l], result[l]).to \in {"pending", "blocked"}
    BY DEF Verdict
  <2>2. mode[l] = "judge" /\ job[l] \in Tasks
    BY <1>15 DEF Judge
  <2>3. \/ result' = [result EXCEPT ![l] = Verdict(file[job[l]][l], result[l]).to]
        \/ result' = [result EXCEPT ![l] = "blocked"]
    BY <1>15 DEF Judge
  <2> QED BY <1>15, <2>1, <2>2, <2>3 DEF Judge
<1>16. CASE Kill(l)
  BY <1>16 DEF Kill, Ghost
<1>17. CASE PreemptMoves(l)
  BY <1>17 DEF PreemptMoves
<1>18. CASE PreemptKills(l)
  BY <1>18 DEF PreemptKills
<1> QED BY <1>1, <1>2, <1>3, <1>4, <1>5, <1>6, <1>7, <1>8, <1>9, <1>10, <1>11, <1>12, <1>13, <1>14,
     <1>15, <1>16, <1>17, <1>18 DEF LaneStep, Daemon

\* A lane keeps the types of the counters.
LEMMA LaneCountersTyped ==
  ASSUME Inv, NEW l \in Lanes, LaneStep(l)
  PROVE  CountersTyped' /\ late' \subseteq Tasks
<1> USE ConstantsAssumption DEF Inv, TypeOK, LanesTyped, CountersTyped, laneVars, bounds, history,
     Modes, Results, Filed, Faults, Infra, NewTask, Proceed, WriteTaskJson
<1>1. CASE Start(l)
  BY <1>1 DEF Start
<1>2. CASE ListLeftovers(l)
  BY <1>2 DEF ListLeftovers, Listing
<1>3. CASE Resume(l)
  BY <1>3 DEF Resume
<1>4. CASE ListPending(l)
  BY <1>4 DEF ListPending, Listing
<1>5. CASE Look(l)
  BY <1>5 DEF Look
<1>6. CASE Claim(l)
  BY <1>6 DEF Claim
<1>7. CASE EndTick(l)
  BY <1>7 DEF EndTick
<1>8. CASE Abandon(l)
  BY <1>8 DEF Abandon, Proceed
<1>9. CASE BeginDraft(l)
  BY <1>9 DEF BeginDraft, In
<1>10. CASE Checkpoint(l)
  BY <1>10 DEF Checkpoint, WriteTaskJson
<1>11. CASE EndDraft(l)
  BY <1>11 DEF EndDraft, WriteTaskJson
<1>12. CASE File(l)
  BY <1>12 DEF File, Proceed
<1>13. CASE FilePaused(l)
  BY <1>13 DEF FilePaused, Proceed
<1>14. CASE CountFailure(l)
  BY <1>14 DEF CountFailure, Proceed, In
<1>15. CASE Judge(l)
  <2>1. In(job[l], l) => file[job[l]][l].fails \in Nat
    BY <1>15 DEF Judge, FilesTyped, Copies, In, Content
  <2>2. In(job[l], l) => waived' \in [Tasks -> Nat]
    BY <1>15, <2>1 DEF Judge
  <2> QED BY <1>15, <2>2 DEF Judge
<1>16. CASE Kill(l)
  BY <1>16 DEF Kill, Ghost
<1>17. CASE PreemptMoves(l)
  BY <1>17 DEF PreemptMoves
<1>18. CASE PreemptKills(l)
  BY <1>18 DEF PreemptKills
<1> QED BY <1>1, <1>2, <1>3, <1>4, <1>5, <1>6, <1>7, <1>8, <1>9, <1>10, <1>11, <1>12, <1>13, <1>14,
     <1>15, <1>16, <1>17, <1>18 DEF LaneStep, Daemon

\* A lane keeps the types of the draft processes left behind.
LEMMA LaneGhostsTyped ==
  ASSUME Inv, NEW l \in Lanes, LaneStep(l)
  PROVE  ghosts' \subseteq Ghost
<1> USE DEF Inv, TypeOK, LanesTyped, laneVars, Ghost
<1>1. CASE Start(l)
  <2>1. \A g \in Ghost : [g EXCEPT !.cut = TRUE] \in Ghost
    BY DEF Ghost
  <2> HIDE DEF Ghost
  <2> QED BY <1>1, <2>1 DEF Start
<1>2. CASE ListLeftovers(l)
  BY <1>2 DEF ListLeftovers, Listing
<1>3. CASE Resume(l)
  BY <1>3 DEF Resume
<1>4. CASE ListPending(l)
  BY <1>4 DEF ListPending, Listing
<1>5. CASE Look(l)
  BY <1>5 DEF Look
<1>6. CASE Claim(l)
  BY <1>6 DEF Claim
<1>7. CASE EndTick(l)
  BY <1>7 DEF EndTick
<1>8. CASE Abandon(l)
  BY <1>8 DEF Abandon, Proceed
<1>9. CASE BeginDraft(l)
  BY <1>9 DEF BeginDraft, In
<1>10. CASE Checkpoint(l)
  BY <1>10 DEF Checkpoint, WriteTaskJson
<1>11. CASE EndDraft(l)
  BY <1>11 DEF EndDraft, WriteTaskJson
<1>12. CASE File(l)
  BY <1>12 DEF File, Proceed
<1>13. CASE FilePaused(l)
  BY <1>13 DEF FilePaused, Proceed
<1>14. CASE CountFailure(l)
  BY <1>14 DEF CountFailure, Proceed, In
<1>15. CASE Judge(l)
  BY <1>15 DEF Judge, Verdict, In
<1>16. CASE Kill(l)
  <2>1. CASE UNCHANGED ghosts
    BY <2>1
  <2>2. CASE /\ mode[l] = "draft"
             /\ ghosts' = ghosts \cup {[lane |-> l, task |-> job[l], snap |-> snap[l], cut |-> FALSE]}
    <3>1. job[l] \in Tasks /\ snap[l] \in Content
      BY <2>2
    <3>2. [lane |-> l, task |-> job[l], snap |-> snap[l], cut |-> FALSE] \in Ghost
      BY <3>1
    <3> QED BY <2>2, <3>2
  <2> QED BY <1>16, <2>1, <2>2 DEF Kill
<1>17. CASE PreemptMoves(l)
  BY <1>17 DEF PreemptMoves
<1>18. CASE PreemptKills(l)
  BY <1>18 DEF PreemptKills
<1> QED BY <1>1, <1>2, <1>3, <1>4, <1>5, <1>6, <1>7, <1>8, <1>9, <1>10, <1>11, <1>12, <1>13, <1>14,
     <1>15, <1>16, <1>17, <1>18 DEF LaneStep, Daemon

-----------------------------------------------------------------------------
(* What a step does to the files *)

\* What a step may do to the copies f of a task: nothing, one move, or one
\* write; the write adds a copy only if it is late.
FileChange(f, g, isLate) ==
  \/ g = f
  \/ \E p \in Places, q \in Places : p # q /\ g = MoveNoClobber(f, p, q)
  \/ \E p \in Places, c \in Content : (p \in DOMAIN f \/ isLate) /\ g = Put(f, p, c)

\* What is written to a task that met its limit is well typed.
LEMMA VerdictType ==
  ASSUME NEW c \in Content, NEW r
  PROVE  Verdict(c, r).c \in Content
BY ConstantsAssumption DEF Verdict, Content

\* A write of a draft process is a change of files.
LEMMA WriteChange ==
  ASSUME FilesTyped, NEW l \in Lanes, NEW w \in Tasks, NEW c \in Content, NEW cut,
         WriteTaskJson(l, w, c, cut)
  PROVE  /\ late \subseteq late' /\ DOMAIN file' = Tasks
         /\ \A t \in Tasks : FileChange(file[t], file'[t], t \in late')
BY DEF WriteTaskJson, FilesTyped, FileChange, Places, In

\* A lane changes the copies of a task by one move or one write.
LEMMA LaneFiles ==
  ASSUME Inv, NEW l \in Lanes, LaneStep(l)
  PROVE  /\ late \subseteq late' /\ DOMAIN file' = Tasks
         /\ \A t \in Tasks : FileChange(file[t], file'[t], t \in late')
<1> USE DEF Inv, TypeOK, LanesTyped, FilesTyped, FileChange, laneVars, history
<1>1. CASE Start(l)
  <2>1. l # "pending" /\ l \in Places /\ "pending" \in Places
    BY ConstantsAssumption DEF Places, Queues
  <2> QED BY <1>1, <2>1 DEF Start, history
<1>2. CASE ListLeftovers(l)
  BY <1>2 DEF ListLeftovers, Listing
<1>3. CASE Resume(l)
  BY <1>3 DEF Resume
<1>4. CASE ListPending(l)
  BY <1>4 DEF ListPending, Listing
<1>5. CASE Look(l)
  BY <1>5 DEF Look
<1>6. CASE Claim(l)
  <2>1. l # "pending" /\ l \in Places /\ "pending" \in Places
    BY ConstantsAssumption DEF Places, Queues
  <2> QED BY <1>6, <2>1 DEF Claim, history
<1>7. CASE EndTick(l)
  BY <1>7 DEF EndTick
<1>8. CASE Abandon(l)
  BY <1>8 DEF Abandon, Proceed
<1>9. CASE BeginDraft(l)
  BY <1>9 DEF BeginDraft, In
<1>10. CASE Checkpoint(l)
  BY <1>10, WriteChange DEF Checkpoint
<1>11. CASE EndDraft(l)
  <2>1. job[l] \in Tasks /\ snap[l] \in Content
    BY <1>11 DEF EndDraft
  <2>2. CASE UNCHANGED <<file, late>>
    BY <2>2
  <2>3. CASE WriteTaskJson(l, job[l], snap[l], FALSE)
    BY <2>1, <2>3, WriteChange
  <2> QED BY <1>11, <2>2, <2>3 DEF EndDraft
<1>12. CASE File(l)
  <2>1. result[l] \in Places /\ l # result[l] /\ l \in Places
    BY <1>12, ConstantsAssumption DEF Places, Queues, File, Filed
  <2> QED BY <1>12, <2>1 DEF File, history
<1>13. CASE FilePaused(l)
  BY <1>13 DEF FilePaused, Proceed
<1>14. CASE CountFailure(l)
  <2>1. job[l] \in Tasks /\ l \in Places /\ UNCHANGED late
    BY <1>14 DEF CountFailure, Places
  <2>2. CASE UNCHANGED file
    BY <2>1, <2>2
  <2>3. CASE In(job[l], l) /\ file' = [file EXCEPT ![job[l]][l].fails = @ + 1]
    <3>1. [file[job[l]][l] EXCEPT !.fails = @ + 1] \in Content
      BY <2>1, <2>3 DEF FilesTyped, Copies, Content, In
    <3>2. file'[job[l]] = Put(file[job[l]], l, [file[job[l]][l] EXCEPT !.fails = @ + 1])
      BY <2>1, <2>3 DEF In, Put, FilesTyped, Copies
    <3> QED BY <2>1, <2>3, <3>1, <3>2 DEF In
  <2> QED BY <1>14, <2>2, <2>3 DEF CountFailure
<1>15. CASE Judge(l)
  <2>1. job[l] \in Tasks /\ l \in Places /\ UNCHANGED late
    BY <1>15 DEF Judge, Places
  <2>2. CASE UNCHANGED file
    BY <2>1, <2>2
  <2>3. CASE In(job[l], l) /\ file' = [file EXCEPT ![job[l]][l] = Verdict(file[job[l]][l], result[l]).c]
    <3>1. Verdict(file[job[l]][l], result[l]).c \in Content
      BY <2>1, <2>3, VerdictType DEF FilesTyped, Copies, In
    <3>2. file'[job[l]] = Put(file[job[l]], l, Verdict(file[job[l]][l], result[l]).c)
      BY <2>1, <2>3 DEF In, Put, FilesTyped, Copies
    <3> QED BY <2>1, <2>3, <3>1, <3>2 DEF In
  <2> QED BY <1>15, <2>2, <2>3 DEF Judge
<1>16. CASE Kill(l)
  BY <1>16 DEF Kill, Ghost
<1>17. CASE PreemptMoves(l)
  <2>1. l # "pending" /\ l \in Places /\ "pending" \in Places
    BY ConstantsAssumption DEF Places, Queues
  <2> QED BY <1>17, <2>1 DEF PreemptMoves, history
<1>18. CASE PreemptKills(l)
  BY <1>18 DEF PreemptKills
<1> QED BY <1>1, <1>2, <1>3, <1>4, <1>5, <1>6, <1>7, <1>8, <1>9, <1>10, <1>11, <1>12, <1>13, <1>14,
     <1>15, <1>16, <1>17, <1>18 DEF LaneStep, Daemon

\* A change keeps the type of the copies, loses no task, and leaves a single
\* copy single unless a late write added one.
LEMMA ChangeFacts ==
  ASSUME NEW f, NEW g, NEW isLate \in BOOLEAN, Copies(f), FileChange(f, g, isLate)
  PROVE  /\ Copies(g)
         /\ DOMAIN f # {} => DOMAIN g # {}
         /\ ~isLate /\ (\E p \in Places : DOMAIN f = {p}) => \E p \in Places : DOMAIN g = {p}
<1>1. CASE g = f
  BY <1>1
<1>2. CASE \E p \in Places, q \in Places : p # q /\ g = MoveNoClobber(f, p, q)
  <2>1. PICK p \in Places, q \in Places : p # q /\ g = MoveNoClobber(f, p, q)
    BY <1>2
  <2>2. Copies(g)
    BY <2>1, MoveType
  <2>3. g = f \/ (p \in DOMAIN f /\ DOMAIN g = (DOMAIN f \ {p}) \cup {q})
    BY <2>1 DEF MoveNoClobber, Rename
  <2> QED BY <2>2, <2>3
<1>3. CASE \E p \in Places, c \in Content : (p \in DOMAIN f \/ isLate) /\ g = Put(f, p, c)
  <2>1. PICK p \in Places, c \in Content : (p \in DOMAIN f \/ isLate) /\ g = Put(f, p, c)
    BY <1>3
  <2>2. Copies(g)
    BY <2>1, PutType
  <2>3. DOMAIN g = DOMAIN f \cup {p}
    BY <2>1 DEF Put
  <2> QED BY <2>1, <2>2, <2>3
<1> QED BY <1>1, <1>2, <1>3 DEF FileChange

\* So every step keeps the files typed and in one place.
LEMMA ChangesKeepFiles ==
  ASSUME FilesTyped, OneFile, late \subseteq late', DOMAIN file' = Tasks,
         \A t \in Tasks : FileChange(file[t], file'[t], t \in late')
  PROVE  FilesTyped' /\ OneFile'
<1>1. ASSUME NEW t \in Tasks
      PROVE  /\ Copies(file'[t]) /\ DOMAIN file'[t] # {}
             /\ t \notin late' => \E p \in Places : DOMAIN file'[t] = {p}
  <2>1. (t \in late') \in BOOLEAN /\ Copies(file[t]) /\ FileChange(file[t], file'[t], t \in late')
    BY DEF FilesTyped
  <2>2. DOMAIN file[t] # {} /\ (t \notin late' => \E p \in Places : DOMAIN file[t] = {p})
    BY DEF OneFile, Single
  <2>3. /\ Copies(file'[t])
        /\ DOMAIN file[t] # {} => DOMAIN file'[t] # {}
        /\ t \notin late' /\ (\E p \in Places : DOMAIN file[t] = {p})
             => \E p \in Places : DOMAIN file'[t] = {p}
    BY <2>1, ChangeFacts
  <2> QED BY <2>2, <2>3
<1> QED BY <1>1 DEF FilesTyped, OneFile, Single, Copies

\* A lane's step leaves the folders of the other lanes alone.
LEMMA OtherFolders ==
  ASSUME Inv, NEW l \in Lanes, LaneStep(l), NEW k \in Lanes \ {l}, NEW t \in Tasks
  PROVE  /\ (k \in DOMAIN file'[t] <=> k \in DOMAIN file[t])
         /\ k \in DOMAIN file[t] => file'[t][k] = file[t][k]
<1>0. /\ k # l /\ k \notin Queues /\ DOMAIN file = Tasks
      /\ k # "pending"
  BY ConstantsAssumption DEF Inv, TypeOK, FilesTyped, Queues
<1> USE <1>0 DEF laneVars, history
<1>1. CASE Start(l)
  BY <1>1 DEF Start, MoveNoClobber, Rename
<1>2. CASE ListLeftovers(l)
  BY <1>2 DEF ListLeftovers, Listing
<1>3. CASE Resume(l)
  BY <1>3 DEF Resume
<1>4. CASE ListPending(l)
  BY <1>4 DEF ListPending, Listing
<1>5. CASE Look(l)
  BY <1>5 DEF Look
<1>6. CASE Claim(l)
  BY <1>6 DEF Claim, MoveNoClobber, Rename
<1>7. CASE EndTick(l)
  BY <1>7 DEF EndTick
<1>8. CASE Abandon(l)
  BY <1>8 DEF Abandon, Proceed
<1>9. CASE BeginDraft(l)
  BY <1>9 DEF BeginDraft, In
<1>10. CASE Checkpoint(l)
  BY <1>10 DEF Checkpoint, WriteTaskJson, Put
<1>11. CASE EndDraft(l)
  <2>1. CASE UNCHANGED file
    BY <2>1
  <2>2. CASE WriteTaskJson(l, job[l], snap[l], FALSE)
    BY <2>2 DEF WriteTaskJson, Put
  <2> QED BY <1>11, <2>1, <2>2 DEF EndDraft
<1>12. CASE File(l)
  <2>1. k # result[l]
    BY <1>12, <1>0 DEF File, Filed, Queues
  <2> QED BY <1>12, <2>1 DEF File, MoveNoClobber, Rename
<1>13. CASE FilePaused(l)
  BY <1>13 DEF FilePaused, Proceed
<1>14. CASE CountFailure(l)
  BY <1>14 DEF CountFailure, Proceed, In
<1>15. CASE Judge(l)
  BY <1>15 DEF Judge, Verdict, In
<1>16. CASE Kill(l)
  BY <1>16 DEF Kill, Ghost
<1>17. CASE PreemptMoves(l)
  BY <1>17 DEF PreemptMoves, MoveNoClobber, Rename
<1>18. CASE PreemptKills(l)
  BY <1>18 DEF PreemptKills
<1> QED BY <1>1, <1>2, <1>3, <1>4, <1>5, <1>6, <1>7, <1>8, <1>9, <1>10, <1>11, <1>12, <1>13, <1>14,
     <1>15, <1>16, <1>17, <1>18 DEF LaneStep, Daemon

-----------------------------------------------------------------------------
(* The lanes hold on to their files *)

\* A lane's step leaves what the other lanes remember alone.
LEMMA OtherLanes ==
  ASSUME Inv, NEW l \in Lanes, LaneStep(l), NEW k \in Lanes \ {l}
  PROVE  /\ mode'[k] = mode[k] /\ job'[k] = job[k] /\ snap'[k] = snap[k]
         /\ result'[k] = result[k] /\ axe'[k] = axe[k]
<1> USE DEF Inv, TypeOK, LanesTyped, laneVars, Proceed
<1>1. CASE Start(l)
  BY <1>1 DEF Start
<1>2. CASE ListLeftovers(l)
  BY <1>2 DEF ListLeftovers, Listing
<1>3. CASE Resume(l)
  BY <1>3 DEF Resume
<1>4. CASE ListPending(l)
  BY <1>4 DEF ListPending, Listing
<1>5. CASE Look(l)
  BY <1>5 DEF Look
<1>6. CASE Claim(l)
  BY <1>6 DEF Claim
<1>7. CASE EndTick(l)
  BY <1>7 DEF EndTick
<1>8. CASE Abandon(l)
  BY <1>8 DEF Abandon, Proceed
<1>9. CASE BeginDraft(l)
  BY <1>9 DEF BeginDraft, In
<1>10. CASE Checkpoint(l)
  BY <1>10 DEF Checkpoint, WriteTaskJson
<1>11. CASE EndDraft(l)
  BY <1>11 DEF EndDraft
<1>12. CASE File(l)
  BY <1>12 DEF File, Proceed
<1>13. CASE FilePaused(l)
  BY <1>13 DEF FilePaused, Proceed
<1>14. CASE CountFailure(l)
  BY <1>14 DEF CountFailure, Proceed, In
<1>15. CASE Judge(l)
  BY <1>15 DEF Judge, Verdict, In
<1>16. CASE Kill(l)
  BY <1>16 DEF Kill, Ghost
<1>17. CASE PreemptMoves(l)
  BY <1>17 DEF PreemptMoves
<1>18. CASE PreemptKills(l)
  BY <1>18 DEF PreemptKills
<1> QED BY <1>1, <1>2, <1>3, <1>4, <1>5, <1>6, <1>7, <1>8, <1>9, <1>10, <1>11, <1>12, <1>13, <1>14,
     <1>15, <1>16, <1>17, <1>18 DEF LaneStep, Daemon

\* A lane keeps hold of what it drafts and files.
LEMMA OwnHold ==
  ASSUME Inv, NEW l \in Lanes, LaneStep(l)
  PROVE  (Drafting(l) /\ Filing(l))'
<1>0. Drafting(l) /\ Filing(l) /\ DOMAIN file = Tasks /\ l # "pending"
  BY ConstantsAssumption DEF Inv, LanesHold, TypeOK, FilesTyped, Queues
<1> USE DEF Inv, TypeOK, LanesTyped, laneVars, Proceed, history, In
<1>1. CASE Start(l)
  BY <1>1 DEF Start, Drafting, Filing, Filed
<1>2. CASE ListLeftovers(l)
  BY <1>2 DEF ListLeftovers, Listing, Drafting, Filing, Filed
<1>3. CASE Resume(l)
  BY <1>3 DEF Resume, Drafting, Filing, Filed
<1>4. CASE ListPending(l)
  BY <1>4 DEF ListPending, Listing, Drafting, Filing, Filed
<1>5. CASE Look(l)
  BY <1>5 DEF Look, Drafting, Filing, Filed
<1>6. CASE Claim(l)
  BY <1>6 DEF Claim, Drafting, Filing, Filed
<1>7. CASE EndTick(l)
  BY <1>7 DEF EndTick, Drafting, Filing, Filed
<1>8. CASE Abandon(l)
  BY <1>8 DEF Abandon, Proceed, Drafting, Filing, Filed
<1>9. CASE BeginDraft(l)
  BY <1>9 DEF BeginDraft, Drafting, Filing, Filed
<1>10. CASE Checkpoint(l)
  <2>1. l \in DOMAIN file'[job[l]] /\ snap[l] = file'[job[l]][l]
    BY <1>10, <1>0 DEF Checkpoint, WriteTaskJson, Put
  <2> QED BY <1>10, <2>1 DEF Checkpoint, Drafting, Filing
<1>11. CASE EndDraft(l)
  <2>1. PICK r \in Results \ {"none", "killed", "pending"} :
          /\ result' = [result EXCEPT ![l] = r]
          /\ IF r \in Filed THEN WriteTaskJson(l, job[l], snap[l], FALSE)
                            ELSE UNCHANGED <<file, late>>
    BY <1>11 DEF EndDraft
  <2>2. r \in Filed => l \in DOMAIN file'[job[l]]
    BY <1>11, <1>0, <2>1 DEF EndDraft, WriteTaskJson, Put
  <2> QED BY <1>11, <2>1, <2>2 DEF EndDraft, Drafting, Filing, Results, Filed, Faults
<1>12. CASE File(l)
  BY <1>12 DEF File, Proceed, Drafting, Filing, Filed
<1>13. CASE FilePaused(l)
  BY <1>13 DEF FilePaused, Proceed, Drafting, Filing, Filed
<1>14. CASE CountFailure(l)
  <2>1. job[l] \in Tasks /\ (In(job[l], l) => l \in DOMAIN file'[job[l]])
    BY <1>14, <1>0 DEF CountFailure, FilesTyped, Copies
  <2> QED BY <1>14, <2>1 DEF CountFailure, Drafting, Filing, Filed, Faults
<1>15. CASE Judge(l)
  <2>1. mode[l] = "judge" /\ job[l] \in Tasks /\ l \notin Filed \cup {"pending"}
    BY <1>15, ConstantsAssumption DEF Judge, Filed, Queues
  <2>2. job[l] \in late \/ In(job[l], l)'
    BY <1>15, <1>0, <2>1 DEF Judge, Filing
  <2> QED BY <1>15, <2>1, <2>2 DEF Judge, Drafting, Filing
<1>16. CASE Kill(l)
  BY <1>16 DEF Kill, Ghost, Drafting, Filing, Filed
<1>17. CASE PreemptMoves(l)
  <2>1. mode[l] = "draft" /\ axe'[l] /\ job[l] \in Tasks /\ UNCHANGED <<late, mode, job, snap>>
    BY <1>17 DEF PreemptMoves
  <2>2. In(job[l], l)' => file'[job[l]][l] = file[job[l]][l] /\ In(job[l], l)
    BY <1>17, <2>1, <1>0 DEF PreemptMoves, MoveNoClobber, Rename
  <2>3. Drafting(l)'
    BY <2>1, <2>2, <1>0 DEF Drafting
  <2>4. Filing(l)'
    BY <2>1 DEF Filing
  <2> QED BY <2>3, <2>4
<1>18. CASE PreemptKills(l)
  BY <1>18 DEF PreemptKills, Drafting, Filing, Filed
<1> QED BY <1>1, <1>2, <1>3, <1>4, <1>5, <1>6, <1>7, <1>8, <1>9, <1>10, <1>11, <1>12, <1>13, <1>14,
     <1>15, <1>16, <1>17, <1>18 DEF LaneStep, Daemon

\* So every lane holds on to its files.
LEMMA LaneHolds ==
  ASSUME Inv, NEW l \in Lanes, LaneStep(l), late \subseteq late'
  PROVE  LanesHold'
<1> SUFFICES ASSUME NEW k \in Lanes PROVE (Drafting(k) /\ Filing(k))'
  BY DEF LanesHold
<1>1. CASE k = l
  BY <1>1, OwnHold
<1>2. CASE k # l
  <2>1. Drafting(k) /\ Filing(k)
    BY DEF Inv, LanesHold
  <2>2. mode[k] \in {"draft", "judge", "file"} => job[k] \in Tasks
    BY DEF Inv, TypeOK, LanesTyped
  <2>3. \A t \in Tasks :
          /\ (k \in DOMAIN file'[t] <=> k \in DOMAIN file[t])
          /\ k \in DOMAIN file[t] => file'[t][k] = file[t][k]
    <3> TAKE t \in Tasks
    <3> QED BY <1>2, OtherFolders
  <2>4. /\ mode'[k] = mode[k] /\ job'[k] = job[k] /\ snap'[k] = snap[k]
        /\ result'[k] = result[k] /\ axe'[k] = axe[k]
    BY <1>2, OtherLanes
  <2>5. Drafting(k)'
    BY <2>1, <2>2, <2>3, <2>4 DEF Drafting, In
  <2>6. Filing(k)'
    BY <2>1, <2>2, <2>3, <2>4 DEF Filing, In
  <2> QED BY <2>5, <2>6
<1> QED BY <1>1, <1>2

-----------------------------------------------------------------------------
(* The draft processes that outlive their daemon *)

\* A write of what the file records already changes nothing, unless it is late.
LEMMA WriteBack ==
  ASSUME FilesTyped, NEW l, NEW w \in Tasks, NEW c, NEW cut \in BOOLEAN,
         WriteTaskJson(l, w, c, cut),
         ~cut /\ w \notin late /\ In(w, l) => c = file[w][l]
  PROVE  late \subseteq late' /\ \A t \in Tasks \ late' : file'[t] = file[t]
<1>1. late \subseteq late' /\ \A t \in Tasks \ {w} : file'[t] = file[t]
  BY DEF WriteTaskJson, FilesTyped
<1>2. ASSUME w \notin late'
      PROVE  file'[w] = file[w]
  <2>1. In(w, l) /\ ~cut /\ w \notin late /\ file'[w] = Put(file[w], l, file[w][l])
    BY <1>2 DEF WriteTaskJson, FilesTyped
  <2>2. file[w] = [q \in DOMAIN file[w] |-> file[w][q]]
    BY DEF FilesTyped, Copies
  <2> QED BY <2>1, <2>2 DEF Put, In
<1> QED BY <1>1, <1>2

\* The draft processes left behind that their lane has not cut off are those
\* of before, of other lanes, and the one a kill leaves.
LEMMA UncutGhosts ==
  ASSUME Inv, NEW l \in Lanes, LaneStep(l), NEW g \in ghosts', ~g.cut
  PROVE  \/ g \in ghosts /\ g.lane # l
         \/ /\ Kill(l) /\ mode[l] = "draft"
            /\ g = [lane |-> l, task |-> job[l], snap |-> snap[l], cut |-> FALSE]
<1>0. \A h \in ghosts : ~h.cut => mode[h.lane] = "down"
  BY DEF Inv, GhostFresh
<1> USE DEF laneVars
<1>1. CASE Start(l)
  <2>1. PICK h \in ghosts : g = IF h.lane = l THEN [h EXCEPT !.cut = TRUE] ELSE h
    BY <1>1 DEF Start
  <2>2. h \in Ghost
    BY DEF Inv, TypeOK
  <2>3. h.lane # l
    BY <2>1, <2>2 DEF Ghost
  <2> QED BY <2>1, <2>3
<1>2. CASE ListLeftovers(l)
  BY <1>0, <1>2 DEF ListLeftovers, Listing
<1>3. CASE Resume(l)
  BY <1>0, <1>3 DEF Resume
<1>4. CASE ListPending(l)
  BY <1>0, <1>4 DEF ListPending, Listing
<1>5. CASE Look(l)
  BY <1>0, <1>5 DEF Look
<1>6. CASE Claim(l)
  BY <1>0, <1>6 DEF Claim
<1>7. CASE EndTick(l)
  BY <1>0, <1>7 DEF EndTick
<1>8. CASE Abandon(l)
  BY <1>0, <1>8 DEF Abandon, Proceed
<1>9. CASE BeginDraft(l)
  BY <1>0, <1>9 DEF BeginDraft, In
<1>10. CASE Checkpoint(l)
  BY <1>0, <1>10 DEF Checkpoint, WriteTaskJson
<1>11. CASE EndDraft(l)
  BY <1>0, <1>11 DEF EndDraft, WriteTaskJson
<1>12. CASE File(l)
  BY <1>0, <1>12 DEF File, Proceed
<1>13. CASE FilePaused(l)
  BY <1>0, <1>13 DEF FilePaused, Proceed
<1>14. CASE CountFailure(l)
  BY <1>0, <1>14 DEF CountFailure, Proceed, In
<1>15. CASE Judge(l)
  BY <1>0, <1>15 DEF Judge, Verdict, In
<1>16. CASE Kill(l)
  <2>1. CASE g \in ghosts
    BY <1>16, <1>0, <2>1 DEF Kill
  <2>2. CASE g \notin ghosts
    BY <1>16, <2>2 DEF Kill
  <2> QED BY <2>1, <2>2
<1>17. CASE PreemptMoves(l)
  BY <1>0, <1>17 DEF PreemptMoves
<1>18. CASE PreemptKills(l)
  BY <1>0, <1>18 DEF PreemptKills
<1> QED BY <1>1, <1>2, <1>3, <1>4, <1>5, <1>6, <1>7, <1>8, <1>9, <1>10, <1>11, <1>12, <1>13, <1>14,
     <1>15, <1>16, <1>17, <1>18 DEF LaneStep, Daemon

\* What they read stays what the files record.
LEMMA LaneGhostFresh ==
  ASSUME Inv, NEW l \in Lanes, LaneStep(l), late \subseteq late'
  PROVE  GhostFresh'
<1> SUFFICES ASSUME NEW g \in ghosts', ~g.cut
             PROVE  /\ mode'[g.lane] = "down"
                    /\ g.task \notin late' /\ g.lane \in DOMAIN file'[g.task]
                         => g.snap = file'[g.task][g.lane]
  BY DEF GhostFresh, In
<1>1. CASE g \in ghosts /\ g.lane # l
  <2>1. g.lane \in Lanes \ {l} /\ g.task \in Tasks
    BY <1>1 DEF Inv, TypeOK, Ghost
  <2>2. mode'[g.lane] = mode[g.lane]
    BY <2>1, OtherLanes
  <2>3. /\ (g.lane \in DOMAIN file'[g.task] <=> g.lane \in DOMAIN file[g.task])
        /\ g.lane \in DOMAIN file[g.task] => file'[g.task][g.lane] = file[g.task][g.lane]
    BY <2>1, OtherFolders
  <2> QED BY <1>1, <2>1, <2>2, <2>3 DEF Inv, GhostFresh, In
<1>2. CASE /\ Kill(l) /\ mode[l] = "draft"
           /\ g = [lane |-> l, task |-> job[l], snap |-> snap[l], cut |-> FALSE]
  <2>1. mode'[l] = "down" /\ UNCHANGED <<file, late>>
    BY <1>2 DEF Kill, Inv, TypeOK, LanesTyped, history
  <2> QED BY <1>2, <2>1 DEF Inv, LanesHold, Drafting, In
<1> QED BY <1>1, <1>2, UncutGhosts

\* The steps of a draft process left behind.
GhostStep(g) == GhostWrites(g) \/ GhostEnds(g)

\* A draft process left behind changes a file only by a late write.
LEMMA GhostFiles ==
  ASSUME Inv, NEW g \in ghosts, GhostStep(g)
  PROVE  late \subseteq late' /\ \A t \in Tasks \ late' : file'[t] = file[t]
<1>1. g \in Ghost /\ FilesTyped
  BY DEF Inv, TypeOK
<1>2. CASE UNCHANGED <<file, late>>
  BY <1>2
<1>3. CASE WriteTaskJson(g.lane, g.task, g.snap, g.cut)
  <2>1. ~g.cut /\ g.task \notin late /\ In(g.task, g.lane) => g.snap = file[g.task][g.lane]
    BY DEF Inv, GhostFresh
  <2>2. g.task \in Tasks /\ g.cut \in BOOLEAN
    BY <1>1 DEF Ghost
  <2> QED BY <1>1, <1>3, <2>1, <2>2, WriteBack
<1> QED BY <1>2, <1>3 DEF GhostStep, GhostWrites, GhostEnds

-----------------------------------------------------------------------------
(* The budget of failures *)

\* A step of a lane that is not settling a failure keeps the room of a task
\* whose counters it leaves alone: at most it moves a copy that had room.
LEMMA RoomKept ==
  ASSUME Inv, NEW l \in Lanes, LaneStep(l), ~Settling(l), NEW t \in Tasks \ late,
         kills' = kills, failed'[t] = failed[t], waived'[t] = waived[t],
         \/ file'[t] = file[t]
         \/ \E a \in {l, "pending"}, b \in Places : a # b /\ file'[t] = MoveNoClobber(file[t], a, b),
         NEW p \in DOMAIN file'[t]
  PROVE  Room(t, p)'
<1>1. Debt(t)' = Debt(t)
  BY DEF Debt
<1>2. \A q \in DOMAIN file[t] : Room(t, q)
  BY DEF Inv, Budget
<1>3. \A k \in Lanes : Settling(k) => Settling(k)' /\ job'[k] = job[k]
  BY OtherLanes DEF Settling
<1>4. "pending" \notin Filed \cup Lanes /\ l \notin Filed
  BY ConstantsAssumption DEF Filed, Queues
<1>5. CASE p \in DOMAIN file[t] /\ file'[t][p] = file[t][p]
  BY <1>1, <1>2, <1>3, <1>5 DEF Room
<1>6. CASE \E a \in {l, "pending"} : a \in DOMAIN file[t] /\ file'[t][p] = file[t][a]
  <2>1. PICK a \in {l, "pending"} : a \in DOMAIN file[t] /\ file'[t][p] = file[t][a]
    BY <1>6
  <2>2. Within(Debt(t), file[t][a], RetryLimit) /\ Within(Debt(t), file[t][a], RetryLimit - 1)
    BY <1>2, <1>4, <2>1 DEF Room
  <2> QED BY <1>1, <2>1, <2>2 DEF Room
<1>7. \/ p \in DOMAIN file[t] /\ file'[t][p] = file[t][p]
      \/ \E a \in {l, "pending"} : a \in DOMAIN file[t] /\ file'[t][p] = file[t][a]
  <2>1. CASE file'[t] = file[t]
    BY <2>1
  <2>2. ASSUME NEW a \in {l, "pending"}, NEW b \in Places, a # b, file'[t] = MoveNoClobber(file[t], a, b)
        PROVE  \/ p \in DOMAIN file[t] /\ file'[t][p] = file[t][p]
               \/ a \in DOMAIN file[t] /\ file'[t][p] = file[t][a]
    BY <2>2 DEF MoveNoClobber, Rename
  <2> QED BY <2>1, <2>2
<1> QED BY <1>5, <1>6, <1>7

\* A lane's step keeps the budget.
LEMMA LaneBudget ==
  ASSUME Inv, NEW l \in Lanes, LaneStep(l), late \subseteq late'
  PROVE  Budget'
<1> SUFFICES ASSUME NEW t \in Tasks, t \notin late', NEW p \in DOMAIN file'[t]
             PROVE  Room(t, p)'
  BY DEF Budget
<1>a. t \in Tasks \ late /\ FilesTyped /\ Copies(file[t]) /\ DOMAIN file = Tasks
  BY DEF Inv, TypeOK, FilesTyped
<1>b. PICK s \in Places : DOMAIN file[t] = {s}
  BY <1>a DEF Inv, OneFile, Single
<1>c. Room(t, s)
  BY <1>a, <1>b DEF Inv, Budget
<1>d. /\ file[t][s].fails \in Nat /\ file[t][s].rounds \in Nat /\ file[t][s] \in Content
      /\ failed[t] \in Nat /\ waived[t] \in Nat /\ kills \in Nat /\ RetryLimit \in Nat /\ RetryLimit > 0
  <2>1. file[t][s] \in Content
    BY <1>a, <1>b DEF Copies
  <2> QED BY <2>1, ConstantsAssumption DEF Content, Inv, TypeOK, CountersTyped
<1>e. \A k \in Lanes \ {l} : Settling(k) => Settling(k)' /\ job'[k] = job[k]
  BY OtherLanes DEF Settling
<1>f. l \in Places /\ l \notin Filed /\ l # "pending"
  BY ConstantsAssumption DEF Places, Filed, Queues
<1>g. ASSUME file'[t] = file[t], kills' = kills, failed'[t] = failed[t], waived'[t] = waived[t],
             s = l => ~(job[l] = t /\ Settling(l))
      PROVE  Room(t, p)'
  <2>1. Debt(t)' = Debt(t)
    BY <1>g DEF Debt
  <2> QED BY <2>1, <1>b, <1>c, <1>e, <1>g DEF Room
<1> USE DEF laneVars, bounds, history
<1>1. CASE Start(l)
  <2>1. ~Settling(l) /\ UNCHANGED <<kills, failed, waived>> /\ file'[t] = MoveNoClobber(file[t], l, "pending")
    BY <1>1 DEF Start, Settling
  <2> QED BY <1>a, <1>f, <2>1, RoomKept DEF Places, Queues
<1>2. CASE ListLeftovers(l)
  BY <1>2, <1>g DEF ListLeftovers, Settling
<1>3. CASE Resume(l)
  BY <1>3, <1>g DEF Resume, Settling
<1>4. CASE ListPending(l)
  BY <1>4, <1>g DEF ListPending, Settling
<1>5. CASE Look(l)
  BY <1>5, <1>g DEF Look, Settling
<1>6. CASE Claim(l)
  <2>1. ~Settling(l) /\ UNCHANGED <<kills, failed, waived>>
    BY <1>6 DEF Claim, Settling
  <2>2. file'[t] = file[t] \/ file'[t] = MoveNoClobber(file[t], "pending", l)
    BY <1>6, <1>a DEF Claim
  <2> QED BY <1>a, <1>f, <2>1, <2>2, RoomKept
<1>7. CASE EndTick(l)
  BY <1>7, <1>g DEF EndTick, Settling
<1>8. CASE Abandon(l)
  BY <1>8, <1>g DEF Abandon, Settling
<1>9. CASE BeginDraft(l)
  BY <1>9, <1>g DEF BeginDraft, Settling
<1>10. CASE Checkpoint(l)
  <2>1. file'[t] = file[t]
    <3>1. job[l] \in Tasks /\ mode[l] = "draft"
      BY <1>10 DEF Checkpoint, Inv, TypeOK, LanesTyped
    <3>2. job[l] \notin late /\ In(job[l], l) => snap[l] = file[job[l]][l]
      BY <3>1 DEF Inv, LanesHold, Drafting
    <3>3. CASE WriteTaskJson(l, job[l], snap[l], FALSE)
      BY <1>a, <3>1, <3>2, <3>3, WriteBack
    <3> QED BY <1>10, <3>3 DEF Checkpoint
  <2> QED BY <1>10, <2>1, <1>g DEF Checkpoint, Settling
<1>11. CASE EndDraft(l)
  <2>1. file'[t] = file[t]
    <3>1. job[l] \in Tasks /\ mode[l] = "draft"
      BY <1>11 DEF EndDraft, Inv, TypeOK, LanesTyped
    <3>2. job[l] \notin late /\ In(job[l], l) => snap[l] = file[job[l]][l]
      BY <3>1 DEF Inv, LanesHold, Drafting
    <3>3. CASE WriteTaskJson(l, job[l], snap[l], FALSE)
      BY <1>a, <3>1, <3>2, <3>3, WriteBack
    <3> QED BY <1>11, <3>3 DEF EndDraft
  <2> QED BY <1>11, <2>1, <1>g DEF EndDraft, Settling
<1>12. CASE File(l)
  <2>0. UNCHANGED <<kills, failed, waived>>
    BY <1>12 DEF File
  <2>1. CASE result[l] # "blocked"
    <3>1. ~Settling(l) /\ result[l] \in Places /\ result[l] # l
      BY <1>12, <1>f, <2>1 DEF File, Settling, Filed, Places, Queues
    <3>2. file'[t] = file[t] \/ file'[t] = MoveNoClobber(file[t], l, result[l])
      BY <1>12, <1>a DEF File
    <3> QED BY <1>a, <2>0, <3>1, <3>2, RoomKept
  <2>2. CASE result[l] = "blocked" /\ (t # job[l] \/ s # l)
    <3>1. file'[t] = file[t]
      BY <1>12, <1>a, <1>b, <2>2 DEF File, MoveNoClobber
    <3> QED BY <2>0, <2>2, <3>1, <1>g
  <2>3. CASE result[l] = "blocked" /\ t = job[l] /\ s = l
    <3>1. p = "blocked" /\ file'[t][p] = file[t][s]
      BY <1>12, <1>a, <1>b, <1>f, <2>3 DEF File, MoveNoClobber, Rename, Filed
    <3>2. Within(Debt(t)', file[t][s], RetryLimit)
      BY <1>c, <2>0 DEF Room, Within, Debt
    <3> QED BY <3>1, <3>2 DEF Room, Filed
  <2> QED BY <2>1, <2>2, <2>3
<1>13. CASE FilePaused(l)
  BY <1>13, <1>g DEF FilePaused, Settling
<1>14. CASE CountFailure(l)
  <2>1. mode[l] = "file" /\ result[l] \in Faults /\ ~Settling(l) /\ job[l] \in Tasks
    BY <1>14 DEF CountFailure, Settling, Faults, Infra, Inv, TypeOK, LanesTyped
  <2>2. CASE t # job[l] \/ s # l
    <3>1. file'[t] = file[t] /\ UNCHANGED <<kills, waived>> /\ failed'[t] = failed[t]
      <4>1. failed \in [Tasks -> Nat] /\ (In(job[l], l) => t # job[l])
        BY <1>b, <2>2 DEF Inv, TypeOK, CountersTyped, In
      <4> HIDE DEF In
      <4> QED BY <1>14, <1>a, <2>1, <4>1 DEF CountFailure
    <3> QED BY <2>1, <3>1, <1>g
  <2>3. CASE t = job[l] /\ s = l
    <3>1. /\ file' = [file EXCEPT ![t][l].fails = @ + 1]
          /\ failed' = [failed EXCEPT ![t] = @ + 1] /\ UNCHANGED <<kills, waived>>
      BY <1>14, <1>b, <2>3 DEF CountFailure, In
    <3>2. /\ p = l /\ file'[t][p].fails = file[t][s].fails + 1
          /\ file'[t][p].rounds = file[t][s].rounds /\ failed'[t] = failed[t] + 1
      <4>1. failed \in [Tasks -> Nat]
        BY DEF Inv, TypeOK, CountersTyped
      <4>2. file[t][s] \in Content
        BY <1>d
      <4> QED BY <1>a, <1>b, <2>3, <3>1, <4>1, <4>2 DEF Copies, Content
    <3>3. Within(Debt(t), file[t][s], RetryLimit - 1)
      BY <1>c, <1>f, <2>1, <2>3 DEF Room
    <3>4. Within(Debt(t)', file'[t][p], RetryLimit)
      BY <1>d, <3>1, <3>2, <3>3 DEF Within, Debt
    <3>5. CASE mode' = [mode EXCEPT ![l] = "judge"] /\ job' = job
      BY <2>3, <3>2, <3>4, <3>5 DEF Room, Settling, Inv, TypeOK, LanesTyped
    <3>6. CASE file[t][l].fails + 1 < RetryLimit
      <4>1. Within(Debt(t)', file'[t][p], RetryLimit - 1)
        BY <1>d, <2>3, <3>1, <3>2, <3>3, <3>6 DEF Within, Debt
      <4> QED BY <3>4, <4>1 DEF Room
    <3>7. file[t][l].fails + 1 < RetryLimit \/ (mode' = [mode EXCEPT ![l] = "judge"] /\ job' = job)
      BY <1>14, <1>b, <1>d, <2>3 DEF CountFailure, In
    <3> QED BY <3>5, <3>6, <3>7
  <2> QED BY <2>2, <2>3
<1>15. CASE Judge(l)
  <2>1. mode[l] = "judge" /\ job[l] \in Tasks /\ UNCHANGED <<kills, failed, job>>
    BY <1>15 DEF Judge, Inv, TypeOK, LanesTyped
  <2>2. CASE t # job[l] \/ s # l
    <3>1. file'[t] = file[t] /\ waived'[t] = waived[t]
      <4>1. waived \in [Tasks -> Nat] /\ (In(job[l], l) => t # job[l])
        BY <1>b, <2>2 DEF Inv, TypeOK, CountersTyped, In
      <4> HIDE DEF In
      <4> QED BY <1>15, <1>a, <2>1, <4>1 DEF Judge
    <3> QED BY <2>1, <2>2, <3>1, <1>g
  <2>3. CASE t = job[l] /\ s = l
    <3> DEFINE c == file[t][s]
               d == Verdict(c, result[l]).c
    <3>1. p = l /\ file'[t][p] = d
      BY <1>15, <1>a, <1>b, <2>3 DEF Judge, In, Copies
    <3>2. waived'[t] = IF result[l] = "manual" THEN waived[t] + c.fails ELSE waived[t]
      <4>1. waived \in [Tasks -> Nat]
        BY DEF Inv, TypeOK, CountersTyped
      <4> QED BY <1>15, <1>b, <2>3, <4>1 DEF Judge, In
    <3>3. Within(Debt(t), c, RetryLimit)
      BY <1>c DEF Room
    <3>4. CASE result[l] = "manual"
      <4>1. d.fails = 0 /\ d.rounds = c.rounds
        BY <1>d, <3>4 DEF Verdict, Content
      <4>2. Within(Debt(t)', d, RetryLimit) /\ Within(Debt(t)', d, RetryLimit - 1)
        BY <1>d, <2>1, <3>2, <3>3, <3>4, <4>1 DEF Within, Debt
      <4> QED BY <3>1, <4>2 DEF Room
    <3>5. CASE result[l] # "manual" /\ d = [fails |-> 0, rounds |-> c.rounds + 1]
      <4>1. RetryLimit * (c.rounds + 1) = RetryLimit * c.rounds + RetryLimit
        BY <1>d
      <4>2. RetryLimit * c.rounds \in Nat
        BY <1>d
      <4>3. d.fails = 0 /\ d.rounds = c.rounds + 1
        BY <3>5
      <4>4. Within(Debt(t)', d, RetryLimit) /\ Within(Debt(t)', d, RetryLimit - 1)
        <5> HIDE DEF d, c
        <5> QED BY <1>d, <2>1, <3>2, <3>3, <3>5, <4>1, <4>2, <4>3 DEF Within, Debt
      <4> QED BY <3>1, <4>4 DEF Room
    <3>6. CASE result[l] # "manual" /\ d = c /\ Verdict(c, result[l]).to = "blocked"
      <4>1. Within(Debt(t)', d, RetryLimit)
        BY <2>1, <3>2, <3>3, <3>6 DEF Within, Debt
      <4>2. mode'[l] = "file" /\ result'[l] = "blocked"
        BY <1>15, <1>b, <2>3, <3>6 DEF Judge, In, Inv, TypeOK, LanesTyped
      <4> QED BY <2>1, <2>3, <3>1, <4>1, <4>2 DEF Room, Settling
    <3>7. \/ result[l] = "manual"
          \/ result[l] # "manual" /\ d = [fails |-> 0, rounds |-> c.rounds + 1]
          \/ result[l] # "manual" /\ d = c /\ Verdict(c, result[l]).to = "blocked"
      BY DEF Verdict
    <3> QED BY <3>4, <3>5, <3>6, <3>7
  <2> QED BY <2>2, <2>3
<1>16. CASE Kill(l)
  <2>1. file' = file /\ kills' = kills + 1 /\ UNCHANGED <<failed, waived>>
    BY <1>16 DEF Kill
  <2>2. Within(Debt(t), file[t][s], RetryLimit)
    BY <1>c DEF Room
  <2>3. Within(Debt(t)', file[t][s], RetryLimit) /\ Within(Debt(t)', file[t][s], RetryLimit - 1)
    BY <1>d, <2>1, <2>2 DEF Within, Debt
  <2> QED BY <1>b, <2>1, <2>3 DEF Room
<1>17. CASE PreemptMoves(l)
  <2>1. ~Settling(l) /\ UNCHANGED <<kills, failed, waived>>
    BY <1>17 DEF PreemptMoves, Settling
  <2>2. file'[t] = file[t] \/ file'[t] = MoveNoClobber(file[t], l, "pending")
    BY <1>17, <1>a DEF PreemptMoves
  <2> QED BY <1>a, <1>f, <2>1, <2>2, RoomKept DEF Places, Queues
<1>18. CASE PreemptKills(l)
  BY <1>18, <1>g DEF PreemptKills, Settling
<1> QED BY <1>1, <1>2, <1>3, <1>4, <1>5, <1>6, <1>7, <1>8, <1>9, <1>10, <1>11, <1>12, <1>13, <1>14,
     <1>15, <1>16, <1>17, <1>18 DEF LaneStep, Daemon

-----------------------------------------------------------------------------
(* Theorems *)

\* The draft processes left behind keep the invariant.
LEMMA GhostInv ==
  ASSUME Inv, NEW g \in ghosts, GhostStep(g)
  PROVE  Inv'
<1>1. late \subseteq late' /\ \A t \in Tasks \ late' : file'[t] = file[t]
  BY GhostFiles
<1>2. /\ UNCHANGED <<laneVars, axe, bounds, failed, waived, abandoned>>
      /\ ghosts' \subseteq ghosts
  BY DEF GhostStep, GhostWrites, GhostEnds
<1>3. FilesTyped' /\ OneFile' /\ late' \subseteq Tasks
  <2>1. /\ g.lane \in Lanes /\ g.task \in Tasks /\ g.snap \in Content
        /\ FilesTyped /\ OneFile /\ late \subseteq Tasks
    BY DEF Inv, TypeOK, Ghost
  <2>2. CASE UNCHANGED <<file, late>>
    BY <2>1, <2>2 DEF FilesTyped, OneFile, Single, Copies
  <2>3. CASE WriteTaskJson(g.lane, g.task, g.snap, g.cut)
    <3>1. late' \subseteq Tasks
      BY <2>1, <2>3 DEF WriteTaskJson
    <3>2. /\ late \subseteq late' /\ DOMAIN file' = Tasks
          /\ \A t \in Tasks : FileChange(file[t], file'[t], t \in late')
      BY <2>1, <2>3, WriteChange
    <3> QED BY <2>1, <3>1, <3>2, ChangesKeepFiles
  <2> QED BY <2>2, <2>3 DEF GhostStep, GhostWrites, GhostEnds
<1>4. TypeOK'
  <2>1. LanesTyped' /\ CountersTyped'
    BY <1>2 DEF Inv, TypeOK, LanesTyped, CountersTyped, laneVars, bounds
  <2>2. ghosts' \subseteq Ghost
    BY <1>2 DEF Inv, TypeOK
  <2> QED BY <1>3, <2>1, <2>2 DEF TypeOK
<1>5. LanesHold'
  <2> SUFFICES ASSUME NEW l \in Lanes PROVE (Drafting(l) /\ Filing(l))'
    BY DEF LanesHold
  <2>1. Drafting(l) /\ Filing(l) /\ (mode[l] \in {"draft", "judge", "file"} => job[l] \in Tasks)
    BY DEF Inv, LanesHold, TypeOK, LanesTyped
  <2>2. Drafting(l)'
    BY <1>1, <1>2, <2>1 DEF Drafting, In, laneVars
  <2>3. Filing(l)'
    BY <1>1, <1>2, <2>1 DEF Filing, In, laneVars
  <2> QED BY <2>2, <2>3
<1>6. GhostFresh'
  <2> SUFFICES ASSUME NEW h \in ghosts', ~h.cut
               PROVE  /\ mode'[h.lane] = "down"
                      /\ h.task \notin late' /\ h.lane \in DOMAIN file'[h.task]
                           => h.snap = file'[h.task][h.lane]
    BY DEF GhostFresh, In
  <2>1. h \in ghosts /\ h.task \in Tasks
    BY <1>2 DEF Inv, TypeOK, Ghost
  <2> QED BY <1>1, <1>2, <2>1 DEF Inv, GhostFresh, In, laneVars
<1>7. Budget'
  <2> SUFFICES ASSUME NEW t \in Tasks \ late', NEW p \in DOMAIN file'[t] PROVE Room(t, p)'
    BY DEF Budget
  <2>1. Room(t, p)
    BY <1>1 DEF Inv, Budget
  <2> QED BY <1>1, <1>2, <2>1 DEF Room, Debt, Settling, laneVars, bounds
<1> QED BY <1>3, <1>4, <1>5, <1>6, <1>7 DEF Inv

\* The initial state satisfies the invariant: every task is new and pending.
LEMMA InitInv == Init => Inv
<1> SUFFICES ASSUME Init PROVE Inv
  OBVIOUS
<1> USE ConstantsAssumption DEF Init
<1>1. NewTask \in Content
  BY DEF NewTask, Content
<1>2. FilesTyped /\ OneFile
  BY <1>1 DEF FilesTyped, Copies, OneFile, Single, Places, Queues
<1>3. LanesTyped /\ CountersTyped
  BY <1>1 DEF LanesTyped, CountersTyped, Modes, Results
<1>4. LanesHold /\ GhostFresh
  BY DEF LanesHold, Drafting, Filing, GhostFresh
<1>5. Budget
  <2>1. ASSUME NEW t \in Tasks, NEW p \in DOMAIN file[t]
        PROVE  Room(t, p)
    BY DEF Room, Within, Debt, NewTask
  <2> QED BY <2>1 DEF Budget
<1> QED BY <1>2, <1>3, <1>4, <1>5 DEF Inv, TypeOK

\* A lane keeps the invariant.
LEMMA LaneInv ==
  ASSUME Inv, NEW l \in Lanes, LaneStep(l)
  PROVE  Inv'
<1>1. /\ late \subseteq late' /\ DOMAIN file' = Tasks
      /\ \A t \in Tasks : FileChange(file[t], file'[t], t \in late')
  BY LaneFiles
<1>2. FilesTyped' /\ OneFile'
  BY <1>1, ChangesKeepFiles DEF Inv, TypeOK
<1>3. TypeOK'
  BY <1>2, LaneLanesTyped, LaneCountersTyped, LaneGhostsTyped DEF TypeOK
<1>4. LanesHold' /\ GhostFresh' /\ Budget'
  BY <1>1, LaneHolds, LaneGhostFresh, LaneBudget
<1> QED BY <1>2, <1>3, <1>4 DEF Inv

\* So does every step.
LEMMA NextInv == Inv /\ [Next]_vars => Inv'
<1> SUFFICES ASSUME Inv, [Next]_vars PROVE Inv'
  OBVIOUS
<1>1. CASE UNCHANGED vars
  BY <1>1 DEF Inv, TypeOK, FilesTyped, Copies, LanesTyped, CountersTyped, OneFile, Single,
       LanesHold,
         Drafting, Filing, GhostFresh, Budget, Room, Debt, Settling, In, vars, laneVars, bounds, history
<1>2. ASSUME NEW l \in Lanes, LaneStep(l) PROVE Inv'
  BY <1>2, LaneInv
<1>3. ASSUME NEW g \in ghosts, GhostStep(g) PROVE Inv'
  BY <1>3, GhostInv
<1> QED BY <1>1, <1>2, <1>3 DEF Next, LaneStep, GhostStep

\* The invariant of the lanes holds in every reachable state.
THEOREM LanesInvariant == Spec => []Inv
BY InitInv, NextInv, PTL DEF Spec

\* Every variable keeps its type; the outage rounds in a file never pass
\* DRAFT_INFRA_REQUEUE_LIMIT.
THEOREM LanesTypes == Spec => []TypeOK
<1>1. Inv => TypeOK
  BY DEF Inv
<1> QED BY <1>1, LanesInvariant, PTL

\* No task is lost, and none has two files unless a draft process wrote to a
\* path it no longer held (local-worker.sh: claims, filings and reclaims by mv -n).
THEOREM TasksKeepOneFile == Spec => []OneFile
<1>1. Inv => OneFile
  BY DEF Inv
<1> QED BY <1>1, LanesInvariant, PTL

\* Two lanes draft one task only after a late write, beside a draft process
\* whose daemon was killed, or during a preemption.
THEOREM OneDrafterEach == Spec => []OneDrafter
<1>1. Inv => OneDrafter
  <2> SUFFICES ASSUME Inv, NEW t \in Tasks, t \notin late,
                      ~\E g \in ghosts : g.task = t,
                      ~\E l \in Lanes : axe[l] /\ job[l] = t
               PROVE  Cardinality(Drafters(t)) <= 1
    BY DEF OneDrafter
  <2>1. PICK s \in Places : DOMAIN file[t] = {s}
    BY DEF Inv, OneFile, Single
  <2>2. Drafters(t) \subseteq {s}
    BY <2>1 DEF Drafters, Inv, LanesHold, Drafting, In
  <2>3. Drafters(t) = {} \/ Drafters(t) = {s}
    BY <2>2
  <2> QED BY <2>3, FS_EmptySet, FS_Singleton
<1> QED BY <1>1, LanesInvariant, PTL

\* The drafting failures counted against a task, less those a pause waived,
\* stay within DRAFT_FAILURE_RETRY_LIMIT for each of DRAFT_INFRA_REQUEUE_LIMIT
\* outages and once more, plus one for each killed daemon.
THEOREM FailuresWithinBudget == Spec => []FailureBudget
<1>1. Inv => FailureBudget
  <2> SUFFICES ASSUME Inv, NEW t \in Tasks, t \notin late
               PROVE  failed[t] - waived[t] <= RetryLimit * (InfraLimit + 1) + kills
    BY DEF FailureBudget
  <2>1. PICK s \in Places : DOMAIN file[t] = {s}
    BY DEF Inv, OneFile, Single
  <2> DEFINE rounds == file[t][s].rounds
  <2>2. /\ rounds \in Nat /\ rounds <= InfraLimit /\ RetryLimit \in Nat /\ InfraLimit \in Nat
        /\ failed[t] \in Nat /\ waived[t] \in Nat /\ kills \in Nat
    <3>1. file[t][s] \in Content
      BY <2>1 DEF Inv, TypeOK, FilesTyped, Copies
    <3> QED BY <3>1, ConstantsAssumption DEF Content, Inv, TypeOK, CountersTyped
  <2>3. Debt(t) <= RetryLimit * rounds + RetryLimit
    BY <2>1 DEF Inv, Budget, Room, Within
  <2> HIDE DEF rounds
  <2>4. RetryLimit * rounds <= RetryLimit * InfraLimit
    BY <2>2
  <2>5. RetryLimit * (InfraLimit + 1) = RetryLimit * InfraLimit + RetryLimit
    BY <2>2
  <2>6. RetryLimit * rounds \in Nat /\ RetryLimit * InfraLimit \in Nat
    BY <2>2
  <2> QED BY <2>2, <2>3, <2>4, <2>5, <2>6 DEF Debt
<1> QED BY <1>1, LanesInvariant, PTL
-----------------------------------------------------------------------------
(* What the queue promises about a task, of a task no draft wrote late.     *)

\* The place that has the file.
placeBar(t) == CHOOSE p \in Places : DOMAIN file[t] = {p}

Item(t) == INSTANCE WorkItem WITH Workers <- Lanes, Waiting <- "pending", Outcomes <- Filed,
                                  place <- placeBar(t)

\* The moves of a task's file that l makes: it claims it, or puts what lies in its
\* folder somewhere.
LaneMove(l, f, g) ==
  \/ g = MoveNoClobber(f, "pending", l)
  \/ \E q \in Filed \cup {"pending"} : g = MoveNoClobber(f, l, q)

LEMMA LaneMoves ==
  ASSUME Inv, NEW l \in Lanes, LaneStep(l), NEW t \in Tasks, t \notin late'
  PROVE  DOMAIN file'[t] = DOMAIN file[t] \/ LaneMove(l, file[t], file'[t])
<1>a. DOMAIN file = Tasks
  BY DEF Inv, TypeOK, FilesTyped
<1>b. ASSUME NEW w \in Tasks, NEW c, NEW cut, WriteTaskJson(l, w, c, cut)
      PROVE  DOMAIN file'[t] = DOMAIN file[t]
  BY <1>a, <1>b DEF WriteTaskJson, Put, In
<1>1. CASE Start(l)
  BY <1>1 DEF Start, LaneMove
<1>2. CASE \/ ListLeftovers(l) \/ Resume(l) \/ ListPending(l) \/ Look(l) \/ EndTick(l) \/ Abandon(l)
           \/ BeginDraft(l) \/ FilePaused(l) \/ Kill(l) \/ PreemptKills(l)
  BY <1>2 DEF ListLeftovers, Resume, ListPending, Look, EndTick, Abandon, BeginDraft, FilePaused, Kill,
              PreemptKills
<1>3. CASE Claim(l)
  BY <1>a, <1>3 DEF Claim, LaneMove
<1>4. CASE Checkpoint(l)
  <2>1. job[l] \in Tasks
    BY <1>4 DEF Checkpoint, Inv, TypeOK, LanesTyped
  <2> QED BY <1>4, <1>b, <2>1 DEF Checkpoint
<1>5. CASE EndDraft(l)
  <2>1. job[l] \in Tasks
    BY <1>5 DEF EndDraft, Inv, TypeOK, LanesTyped
  <2>2. WriteTaskJson(l, job[l], snap[l], FALSE) \/ UNCHANGED file
    BY <1>5 DEF EndDraft
  <2> QED BY <1>b, <2>1, <2>2
<1>6. CASE File(l)
  BY <1>a, <1>6 DEF File, LaneMove
<1>7. CASE CountFailure(l)
  BY <1>a, <1>7 DEF CountFailure
<1>8. CASE Judge(l)
  BY <1>a, <1>8 DEF Judge
<1>9. CASE PreemptMoves(l)
  BY <1>a, <1>9 DEF PreemptMoves, LaneMove
<1> QED BY <1>1, <1>2, <1>3, <1>4, <1>5, <1>6, <1>7, <1>8, <1>9 DEF LaneStep, Daemon

\* The file is in one place before and after, so a step moves the item or leaves it.
LEMMA ItemStep ==
  ASSUME Inv, Inv', [Next]_vars, NEW t \in Tasks, t \notin late'
  PROVE  [Item(t)!Next]_(placeBar(t))
<1> USE DEF Item!Next, Item!Take, Item!GiveBack, Item!File
<1>0. late \subseteq late'
  <2>1. ASSUME NEW l \in Lanes, LaneStep(l) PROVE late \subseteq late'
    BY <2>1, LaneFiles
  <2>2. ASSUME NEW g \in ghosts, GhostStep(g) PROVE late \subseteq late'
    BY <2>2, GhostFiles
  <2> QED BY <2>1, <2>2 DEF Next, LaneStep, GhostStep, vars, history
<1>1. PICK p \in Places : DOMAIN file[t] = {p}
  BY <1>0 DEF Inv, OneFile, Single
<1>2. PICK q \in Places : DOMAIN file'[t] = {q}
  BY DEF Inv, OneFile, Single
<1>3. placeBar(t) = p /\ placeBar(t)' = q
  BY <1>1, <1>2 DEF placeBar
<1>4. CASE DOMAIN file'[t] = DOMAIN file[t]
  BY <1>1, <1>2, <1>3, <1>4
<1>5. ASSUME NEW l \in Lanes, LaneStep(l) PROVE [Item(t)!Next]_(placeBar(t))
  <2>1. ASSUME NEW from, NEW to, file'[t] = MoveNoClobber(file[t], from, to)
        PROVE  p = q \/ (p = from /\ q = to)
    BY <1>1, <1>2, <2>1 DEF MoveNoClobber, Rename
  <2>2. CASE file'[t] = MoveNoClobber(file[t], "pending", l)
    BY <1>3, <2>1, <2>2
  <2>3. CASE \E to \in Filed \cup {"pending"} : file'[t] = MoveNoClobber(file[t], l, to)
    BY <1>3, <2>1, <2>3
  <2> QED BY <1>4, <1>5, <2>2, <2>3, LaneMoves DEF LaneMove
<1>6. ASSUME NEW g \in ghosts, GhostStep(g) PROVE [Item(t)!Next]_(placeBar(t))
  BY <1>4, <1>6, GhostFiles
<1>7. CASE UNCHANGED vars
  BY <1>4, <1>7 DEF vars
<1> QED BY <1>5, <1>6, <1>7 DEF Next, LaneStep, GhostStep

\* As long as no draft process writes t to a path it no longer holds, the lanes'
\* renames make of it an item that one lane at a time has, that goes back to pending/
\* after outages, a restart or a preemption, and that is filed once, by its lane.
THEOREM Implementation ==
  ASSUME NEW t \in Tasks
  PROVE  Spec /\ [](t \notin late) => Item(t)!Spec
<1>1. Init => Item(t)!Init
  BY DEF Init, Item!Init, placeBar, Places, Queues
<1>2. Inv /\ Inv' /\ (t \notin late)' /\ [Next]_vars => [Item(t)!Next]_(placeBar(t))
  BY ItemStep
<1> QED BY <1>1, <1>2, LanesInvariant, PTL DEF Spec, Item!Spec
=============================================================================
