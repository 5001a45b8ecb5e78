--------------------------- MODULE TaskMovesProofs ---------------------------
(***************************************************************************)
(* Proofs about the moves of one task's files, for any number of kills,    *)
(* with or without people and drains that move it too.                     *)
(*                                                                         *)
(* Of several movers between write and unlink, one must be about to unlink *)
(* what another one has written.  But every move goes up in one order of   *)
(* the directories, except the return of a retired task from the archive:  *)
(* so the highest file is one that no mover unlinks, and only two moves,   *)
(* to the archive and back, could take each other's file away.  Of these   *)
(* two the second looks, and finds its target there.                       *)
(***************************************************************************)
EXTENDS TaskMoves, FiniteSetTheorems, TLAPS

\* The order of the directories.
Rank(d) == CASE d = "staging" -> 0
             [] d = "blocked" -> 1
             [] d = "clarify" -> 2
             [] d \in {"confirm", "coordinating", "done"} -> 3
             [] d = "pending" -> 4
             [] d = "archived" -> 5
             [] OTHER -> 6

Hows == {"none", "locked", "plain", "slow", "careful", "early", "archive", "mv"}
Movers == {"sweep", "applier", "hand"}
Queued == file \cap {"pending", "drafting"} # {}

\* What is known of a move that p may make.
Allowed(p, m) ==
  /\ p \in Movers
  /\ m \in [how : Hows \ {"none", "mv"}, from : Dirs, to : Dirs]
  /\ m.from \notin {"approved", "review", "drafting", "staging"}
  /\ m.to \notin {"drafting", "staging"}
  /\ m.from = "pending" => p # "applier" /\ m.how \in {"careful", "archive"} /\ m.to = "archived"
  /\ m.from = "archived" => p # "applier" /\ m.how = "careful" /\ m.to = "pending"
  /\ m.from \notin {m.to, "archived"} => Rank(m.from) < Rank(m.to)
  /\ m.how = "locked" => p = "sweep" /\ m.from = "blocked"
  /\ m.how = "archive" => p = "hand" /\ m.to = "archived"
  /\ m.to = "approved" => m.how = "careful" \/ p = "sweep"

\* What a mover holds in its hands at each point of its move.
JobOK(p) ==
  /\ MidMove(p) \/ at[p] = "read" => job[p] \in MovesOf(p)
  /\ at[p] \in {"idle", "aside", "applying"} => job[p] = Idle
  /\ at[p] = "aside" => p = "sweep"
  /\ at[p] \in {"applying", "applied"} => p = "applier"
  /\ at[p] = "applied" => job[p] \in Moves("mv", {"approved"}, Outcomes)
  /\ at[p] = "written" => job[p].how # "archive"

\* The files that last until p has made its unlink: the applier takes approved
\* away at any time, but not while the move lock is taken.
Lasting(p) == IF at["applier"] = "applied" /\ job[p].how # "locked"
                THEN file \ {"approved"} ELSE file

Leaving(p) == at[p] = "written" /\ job[p].from # job[p].to

\* A file is above the one that p unlinks.
Safe(p) == Leaving(p) => IF job[p].from = "archived" THEN Queued
                         ELSE \E e \in Lasting(p) : Rank(job[p].from) < Rank(e)

\* p retires the task that q brings back.
Cross(p, q) ==
  job[p].from = "pending" /\ job[q].from = "archived" =>
    /\ MidMove(p) /\ MidMove(q) => "drafting" \in file
    /\ at[p] = "read" /\ MidMove(q) => "archived" \in file
    /\ at[q] = "read" /\ MidMove(p) => Queued

\* While the outcome of an apply waits to be filed.
Applied ==
  at["applier"] = "applied" =>
    /\ "approved" \in file
    /\ \A p \in Procs : MidMove(p) /\ job[p].to = "approved" => job[p].how = "locked"
    /\ at["sweep"] = "read" => Quiet

Kept == /\ file # {}
        /\ \A p \in Procs : Safe(p)
        /\ \A p, q \in Procs : Cross(p, q)
        /\ Applied

\* The task while only the daemons move it.
AloneSweep ==
  LET m == job["sweep"] IN
  /\ at["sweep"] = "idle" => \E d \in Dirs \ {"staging"} : file = {d}
  /\ at["sweep"] \in {"read", "ready"} => file = {m.from}
  /\ at["sweep"] = "written" =>
       \E d \in {m.to, "drafting"} : file = {m.from, d} /\ (m.from = m.to => d = m.to)
  /\ at["sweep"] \in {"read", "ready", "written"} => m.from # "pending"
  /\ at["sweep"] = "aside" => file = {"staging"}

Alone ==
  /\ at["hand"] = "idle"
  /\ at["applier"] \in {"idle", "applying", "applied"}
  /\ at["applier"] # "idle" => "approved" \in file
  /\ at["applier"] = "applied" => at["sweep"] = "idle"
  /\ AloneSweep

Held == \A p \in Procs : JobOK(p)

Inv == /\ TypeOK
       /\ Held
       /\ ~overtaken => Kept
       /\ ~meddled => Alone
-----------------------------------------------------------------------------
(* The moves.                                                              *)

LEMMA MovesElim ==
  ASSUME NEW how, NEW from, NEW to, NEW m \in Moves(how, from, to)
  PROVE  m.how = how /\ m.from \in from /\ m.to \in to /\ m = [how |-> how, from |-> m.from, to |-> m.to]
BY DEF Moves

LEMMA InPlaceElim ==
  ASSUME NEW how, NEW dirs, NEW m \in InPlace(how, dirs)
  PROVE  m.how = how /\ m.from \in dirs /\ m.to = m.from /\ m = [how |-> how, from |-> m.from, to |-> m.to]
<1>1. PICK d \in dirs : m \in Moves(how, {d}, {d})
  BY DEF InPlace
<1> QED
  BY <1>1, MovesElim

LEMMA SweepsAllowed ==
  ASSUME NEW m \in Sweeps
  PROVE  Allowed("sweep", m)
<1> USE DEF Allowed, Movers, Hows, Dirs, Rank
<1>1. CASE m \in RejectRetry
  <2>1. m \in Moves("locked", {"blocked"}, {"pending", "clarify", "approved"}) \/ m \in InPlace("plain", {"blocked"})
    BY <1>1 DEF RejectRetry
  <2> QED
    BY <2>1, MovesElim, InPlaceElim
<1>2. CASE m \in ApplyRetry
  BY <1>2, MovesElim DEF ApplyRetry
<1>3. CASE m \in Triage
  <2>1. m \in Moves("careful", {"clarify"}, {"pending", "review", "archived"}) \/ m \in InPlace("slow", {"clarify"})
    BY <1>3 DEF Triage
  <2> QED
    BY <2>1, MovesElim, InPlaceElim
<1>4. CASE m \in AutoConfirm
  <2>1. m \in Moves("careful", {"confirm"}, {"approved", "archived"}) \/ m \in InPlace("slow", {"confirm"})
    BY <1>4 DEF AutoConfirm
  <2> QED
    BY <2>1, MovesElim, InPlaceElim
<1>5. CASE m \in FixSignature
  <2>1. m \in Moves("careful", {"blocked", "clarify"}, {"pending"}) \/ m \in Moves("plain", {"done"}, {"done"})
    BY <1>5 DEF FixSignature
  <2> QED
    BY <2>1, MovesElim
<1>6. CASE m \in FabricatedPath
  BY <1>6, MovesElim DEF FabricatedPath
<1>7. CASE m \in GroundingRecheck
  <2>1. \/ m \in Moves("slow", {"blocked", "clarify"}, {"approved", "clarify", "pending"})
        \/ m \in InPlace("slow", {"blocked", "clarify"})
    BY <1>7 DEF GroundingRecheck
  <2> QED
    BY <2>1, MovesElim, InPlaceElim
<1>8. CASE m \in DerivedPremise
  <2>1. \/ m \in Moves("careful", {"pending"}, {"archived"})
        \/ m \in Moves("careful", {"archived"}, {"pending"})
    BY <1>8 DEF DerivedPremise
  <2> QED
    BY <2>1, MovesElim
<1>9. CASE m \in ContextTrim
  <2>1. m \in Moves("early", {"blocked"}, {"pending"}) \/ m \in InPlace("plain", {"blocked"})
    BY <1>9 DEF ContextTrim
  <2> QED
    BY <2>1, MovesElim, InPlaceElim
<1>10. CASE m \in StalenessFlag
  BY <1>10, InPlaceElim DEF StalenessFlag
<1>11. \/ m \in RejectRetry \/ m \in ApplyRetry \/ m \in Triage \/ m \in AutoConfirm
       \/ m \in FixSignature \/ m \in FabricatedPath \/ m \in GroundingRecheck
       \/ m \in DerivedPremise \/ m \in ContextTrim \/ m \in StalenessFlag
  BY DEF Sweeps
<1> QED
  BY <1>1, <1>2, <1>3, <1>4, <1>5, <1>6, <1>7, <1>8, <1>9, <1>10, <1>11

LEMMA HandsAllowed ==
  ASSUME NEW m \in ByHand
  PROVE  Allowed("hand", m)
<1> USE MovesElim DEF Allowed, Movers, Hows, Dirs, Rank
<1>1. CASE m \in Archive \/ m \in RetireHub
  BY <1>1 DEF Archive, RetireHub
<1>2. CASE m \in ConfirmDelete \/ m \in MarkDone
  BY <1>2 DEF ConfirmDelete, MarkDone
<1>3. CASE m \in Requeue
  BY <1>3 DEF Requeue
<1>4. CASE m \in ResolveClarification \/ m \in AnswerClarification
  BY <1>4 DEF ResolveClarification, AnswerClarification
<1>5. CASE m \in Rereview
  BY <1>5 DEF Rereview
<1>6. CASE m \in WithdrawTask \/ m \in ManualClose
  BY <1>6 DEF WithdrawTask, ManualClose
<1>7. CASE m \in Keep
  BY <1>7, InPlaceElim DEF Keep
<1>8. \/ m \in Archive \/ m \in RetireHub \/ m \in ConfirmDelete \/ m \in Requeue
      \/ m \in ResolveClarification \/ m \in AnswerClarification \/ m \in MarkDone
      \/ m \in Rereview \/ m \in WithdrawTask \/ m \in Keep \/ m \in ManualClose
  BY DEF ByHand
<1> QED
  BY <1>1, <1>2, <1>3, <1>4, <1>5, <1>6, <1>7, <1>8

LEMMA MovesAllowed ==
  ASSUME NEW p \in Procs, NEW m \in MovesOf(p)
  PROVE  Allowed(p, m)
<1>1. CASE p = "sweep"
  BY <1>1, SweepsAllowed DEF MovesOf
<1>2. CASE p = "hand"
  <2>1. m \in ByHand
    BY <1>2 DEF MovesOf
  <2> QED
    BY <1>2, <2>1, HandsAllowed
<1>3. CASE p = "applier"
  <2>1. m \in Drain \/ m \in AuditFlag
    BY <1>3 DEF MovesOf
  <2>2. CASE m \in Drain
    BY <1>3, <2>2, MovesElim DEF Drain, Allowed, Movers, Hows, Dirs, Rank
  <2>3. CASE m \in AuditFlag
    BY <1>3, <2>3, InPlaceElim DEF AuditFlag, Allowed, Movers, Hows, Dirs, Rank
  <2> QED
    BY <2>1, <2>2, <2>3
<1>4. CASE p \in {"lane", "reviewer"}
  BY <1>4 DEF MovesOf
<1> QED
  BY <1>1, <1>2, <1>3, <1>4 DEF Procs
-----------------------------------------------------------------------------
(* The files.                                                              *)

LEMMA FourFinite ==
  ASSUME NEW a, NEW b, NEW c, NEW d
  PROVE  IsFiniteSet({a, b, c, d})
<1>1. IsFiniteSet({a})
  BY FS_Singleton
<1>2. IsFiniteSet({a} \cup {b})
  BY <1>1, FS_AddElement
<1>3. IsFiniteSet(({a} \cup {b}) \cup {c})
  BY <1>2, FS_AddElement
<1>4. IsFiniteSet((({a} \cup {b}) \cup {c}) \cup {d})
  BY <1>3, FS_AddElement
<1>5. {a, b, c, d} = (({a} \cup {b}) \cup {c}) \cup {d}
  OBVIOUS
<1> QED
  BY <1>4, <1>5

LEMMA DirsFinite == IsFiniteSet(Dirs)
<1> DEFINE A == {"pending", "drafting", "review", "approved"}
           B == {"blocked", "clarify", "confirm", "coordinating"}
           C == {"done", "archived", "staging", "staging"}
<1>1. IsFiniteSet(A) /\ IsFiniteSet(B) /\ IsFiniteSet(C)
  BY FourFinite
<1>2. Dirs = (A \cup B) \cup C
  BY DEF Dirs
<1> HIDE DEF A, B, C
<1>3. IsFiniteSet(A \cup B)
  BY <1>1, FS_Union
<1>4. IsFiniteSet((A \cup B) \cup C)
  BY <1>1, <1>3, FS_Union
<1> QED
  BY <1>2, <1>4

\* Between moves the task has one file, or the model goes no further.
LEMMA OneWhenQuiet ==
  ASSUME TypeOK, ~Forked, Quiet, NEW a \in file, NEW b \in file
  PROVE  a = b
<1> SUFFICES ASSUME a # b PROVE FALSE
  OBVIOUS
<1>1. IsFiniteSet(file)
  BY DirsFinite, FS_Subset DEF TypeOK
<1>2. Cardinality({a} \cup {b}) = 2
  <2>1. b \notin {a}
    OBVIOUS
  <2>2. IsFiniteSet({a}) /\ Cardinality({a}) = 1
    BY FS_Singleton
  <2>3. Cardinality({a} \cup {b}) = Cardinality({a}) + 1
    BY <2>1, <2>2, FS_AddElement
  <2> QED
    BY <2>2, <2>3
<1>3. Cardinality({a} \cup {b}) <= Cardinality(file)
  <2>1. {a} \cup {b} \subseteq file
    OBVIOUS
  <2> QED
    BY <1>1, <2>1, FS_Subset
<1>4. Cardinality(file) \in Nat
  BY <1>1, FS_CardinalityType
<1> QED
  BY <1>2, <1>3, <1>4 DEF Forked
-----------------------------------------------------------------------------
(* Types, and what each process holds.                                     *)

LEMMA HeldAllowed ==
  ASSUME Held, NEW p \in Procs, at[p] \in {"read", "ready", "written"}
  PROVE  Allowed(p, job[p])
BY MovesAllowed DEF Held, JobOK, MidMove

Places == {"idle", "read", "ready", "written", "aside", "applying", "applied"}

\* A process that goes on with its move, comes to rest, or begins a new one.
LEMMA GoesOn ==
  ASSUME TypeOK, Held, NEW p \in Procs, NEW s \in {"ready", "written"}, Goto(p, s),
         MidMove(p) \/ at[p] = "read", job[p].how # "archive" \/ s # "written"
  PROVE  at' \in [Procs -> Places] /\ job' = job /\ Held'
<1>1. at' = [at EXCEPT ![p] = s] /\ job' = job /\ at \in [Procs -> Places]
  BY DEF Goto, TypeOK, Places
<1>2. at' \in [Procs -> Places]
  BY <1>1 DEF Places
<1>3. ASSUME NEW q \in Procs PROVE JobOK(q)'
  BY <1>1, <1>3 DEF Held, JobOK, MidMove
<1> QED
  BY <1>1, <1>2, <1>3 DEF Held

LEMMA ComesToRest ==
  ASSUME TypeOK, Held, NEW p \in Procs, Rest(p)
  PROVE  /\ at' = [at EXCEPT ![p] = "idle"] /\ at' \in [Procs -> Places]
         /\ job' = [job EXCEPT ![p] = Idle] /\ job' \in [Procs -> [how : Hows, from : Dirs, to : Dirs]]
         /\ Held'
<1>1. /\ at' = [at EXCEPT ![p] = "idle"] /\ at \in [Procs -> Places]
      /\ job' = [job EXCEPT ![p] = Idle] /\ job \in [Procs -> [how : Hows, from : Dirs, to : Dirs]]
  BY DEF Rest, TypeOK, Places, Hows
<1>2. Idle \in [how : Hows, from : Dirs, to : Dirs]
  BY DEF Idle, Hows, Dirs
<1>3. at' \in [Procs -> Places] /\ job' \in [Procs -> [how : Hows, from : Dirs, to : Dirs]]
  BY <1>1, <1>2 DEF Places
<1>4. ASSUME NEW q \in Procs PROVE JobOK(q)'
  <2>1. CASE q = p
    BY <1>1, <2>1 DEF JobOK, MidMove
  <2>2. CASE q # p
    <3>1. at'[q] = at[q] /\ job'[q] = job[q]
      BY <1>1, <2>2
    <3> QED
      BY <3>1 DEF Held, JobOK, MidMove
  <2> QED
    BY <2>1, <2>2
<1> QED
  BY <1>1, <1>3, <1>4 DEF Held

LEMMA ReadMoves ==
  ASSUME TypeOK, Held, NEW p \in Procs, Read(p)
  PROVE  \E m \in MovesOf(p) :
           /\ Allowed(p, m) /\ m.from \in file
           /\ job' = [job EXCEPT ![p] = m]
           /\ at' = [at EXCEPT ![p] = IF m.how = "plain" THEN "ready" ELSE "read"]
BY MovesAllowed DEF Read

\* Every step keeps the types, and every process what it holds.
LEMMA HeldStep ==
  ASSUME TypeOK, Held, Next
  PROVE  TypeOK' /\ Held'
<1> USE DEF Places, Hows
<1>1. ASSUME NEW p \in Procs, Read(p) PROVE TypeOK' /\ Held'
  <2>1. PICK m \in MovesOf(p) :
          /\ Allowed(p, m)
          /\ job' = [job EXCEPT ![p] = m]
          /\ at' = [at EXCEPT ![p] = IF m.how = "plain" THEN "ready" ELSE "read"]
    BY <1>1, ReadMoves
  <2>2. at' \in [Procs -> Places]
    BY <2>1 DEF TypeOK
  <2>3. m \in [how : Hows, from : Dirs, to : Dirs]
    BY <2>1 DEF Allowed
  <2>4. job' \in [Procs -> [how : Hows, from : Dirs, to : Dirs]]
    BY <2>1, <2>3 DEF TypeOK
  <2>5. TypeOK'
    BY <1>1, <2>2, <2>4 DEF TypeOK, Read
  <2>6. ASSUME NEW q \in Procs PROVE JobOK(q)'
    <3>1. CASE q = p
      <4>1. job'[q] = m /\ at'[q] \in {"ready", "read"}
        BY <2>1, <3>1 DEF TypeOK
      <4> QED
        BY <3>1, <4>1 DEF JobOK
    <3>2. CASE q # p
      <4>1. job'[q] = job[q] /\ at'[q] = at[q]
        BY <2>1, <3>2 DEF TypeOK
      <4> QED
        BY <4>1 DEF Held, JobOK, MidMove
    <3> QED
      BY <3>1, <3>2
  <2> QED
    BY <2>5, <2>6 DEF Held
<1>2. ASSUME NEW p \in Procs, Look(p) PROVE TypeOK' /\ Held'
  <2>1. CASE Rest(p)
    BY <1>2, <2>1, ComesToRest DEF TypeOK, Look, NoteOvertaken
  <2>2. CASE Goto(p, "ready")
    BY <1>2, <2>2, GoesOn DEF TypeOK, Look, NoteOvertaken
  <2> QED
    BY <1>2, <2>1, <2>2 DEF Look
<1>3. ASSUME NEW p \in Procs, ComeBack(p) PROVE TypeOK' /\ Held'
  BY <1>3, GoesOn DEF TypeOK, ComeBack, NoteOvertaken
<1>4. ASSUME NEW p \in Procs, TakeLock(p) PROVE TypeOK' /\ Held'
  BY <1>4, GoesOn DEF TypeOK, TakeLock
<1>5. ASSUME NEW p \in Procs, Write(p) PROVE TypeOK' /\ Held'
  <2>1. Goto(p, "written") /\ MidMove(p) /\ job[p].how # "archive"
    BY <1>5 DEF Write, MidMove
  <2>2. job[p].to \in Dirs
    BY DEF TypeOK
  <2> QED
    BY <1>5, <2>1, <2>2, GoesOn DEF TypeOK, Write
<1>6. ASSUME NEW p \in Procs, Remove(p) PROVE TypeOK' /\ Held'
  BY <1>6, ComesToRest DEF TypeOK, Remove
<1>7. ASSUME NEW p \in Procs, MoveToArchive(p) PROVE TypeOK' /\ Held'
  <2>1. file' \subseteq Dirs
    BY <1>7 DEF MoveToArchive, TypeOK, Dirs
  <2> QED
    BY <1>7, <2>1, ComesToRest DEF TypeOK, MoveToArchive
<1>8. ASSUME NEW p \in Procs, Kill(p) PROVE TypeOK' /\ Held'
  <2>1. kills' \in 0 .. MaxKills
    BY <1>8, MoveAssumption DEF Kill, TypeOK
  <2> QED
    BY <1>8, <2>1, ComesToRest DEF TypeOK, Kill
<1>9. CASE LaneMoves \/ ReviewerMoves
  <2>1. PICK m \in LaneRenames \cup ReviewRenames :
          file' = (file \ {m.from}) \cup {m.to} /\ UNCHANGED <<at, job, kills, meddled, overtaken>>
    BY <1>9 DEF LaneMoves, ReviewerMoves, Rename
  <2>2. m.to \in Dirs
    BY <2>1, MovesElim DEF LaneRenames, ReviewRenames, Dirs
  <2> QED
    BY <2>1, <2>2 DEF TypeOK, Held, JobOK, MidMove
<1>10. CASE SetAside
  <2>1. /\ at' = [at EXCEPT !["sweep"] = "aside"] /\ job' = job /\ at["sweep"] = "idle"
        /\ file' \subseteq Dirs /\ UNCHANGED <<kills, meddled, overtaken>>
    BY <1>10 DEF SetAside, Goto, TypeOK, Dirs
  <2>2. at' \in [Procs -> Places]
    BY <2>1 DEF TypeOK
  <2>3. Held'
    BY <2>1 DEF Held, JobOK, MidMove, TypeOK
  <2> QED
    BY <2>1, <2>2, <2>3 DEF TypeOK
<1>11. CASE Retire
  <2>1. file' \subseteq Dirs
    BY <1>11 DEF Retire, PutBack, TypeOK, Dirs
  <2>2. "sweep" \in Procs
    BY DEF Procs
  <2> QED
    BY <1>11, <2>1, <2>2, ComesToRest DEF TypeOK, Retire
<1>12. CASE StartApply
  <2>1. /\ at' = [at EXCEPT !["applier"] = "applying"] /\ job' = job /\ at["applier"] = "idle"
        /\ UNCHANGED <<file, kills, meddled, overtaken>>
    BY <1>12 DEF StartApply, Goto
  <2>2. at' \in [Procs -> Places]
    BY <2>1 DEF TypeOK
  <2>3. Held'
    BY <2>1 DEF Held, JobOK, MidMove, TypeOK
  <2> QED
    BY <2>1, <2>2, <2>3 DEF TypeOK
<1>13. CASE EndApply
  <2>1. PICK m \in Moves("mv", {"approved"}, Outcomes) : job' = [job EXCEPT !["applier"] = m]
    BY <1>13 DEF EndApply
  <2>2. m \in [how : Hows, from : Dirs, to : Dirs]
    BY <2>1, MovesElim DEF Outcomes, Dirs
  <2>3. job' \in [Procs -> [how : Hows, from : Dirs, to : Dirs]]
    BY <2>1, <2>2 DEF TypeOK
  <2>4. at' = [at EXCEPT !["applier"] = "applied"]
    BY <1>13 DEF EndApply
  <2>5. at' \in [Procs -> Places]
    BY <2>4 DEF TypeOK
  <2>6. TypeOK'
    BY <1>13, <2>3, <2>5 DEF TypeOK, EndApply, Dirs
  <2>7. ASSUME NEW q \in Procs PROVE JobOK(q)'
    <3>1. CASE q = "applier"
      <4>1. job'[q] = m /\ at'[q] = "applied"
        BY <2>1, <2>4, <3>1 DEF TypeOK
      <4> QED
        BY <3>1, <4>1 DEF JobOK, MidMove
    <3>2. CASE q # "applier"
      <4>1. job'[q] = job[q] /\ at'[q] = at[q]
        BY <2>1, <2>4, <3>2 DEF TypeOK
      <4> QED
        BY <4>1 DEF Held, JobOK, MidMove
    <3> QED
      BY <3>1, <3>2
  <2> QED
    BY <2>6, <2>7 DEF Held
<1>14. CASE FileApplied
  <2>1. "applier" \in Procs /\ job["applier"].to \in Dirs
    BY DEF Procs, TypeOK
  <2> QED
    BY <1>14, <2>1, ComesToRest DEF TypeOK, FileApplied
<1> QED
  BY <1>1, <1>2, <1>3, <1>4, <1>5, <1>6, <1>7, <1>8, <1>9, <1>10, <1>11, <1>12, <1>13, <1>14
  DEF Next, Step
-----------------------------------------------------------------------------
(* No file is lost.                                                        *)

\* While an outcome waits to be filed, approved is the only file between moves.
LEMMA OnlyApproved ==
  ASSUME TypeOK, Kept, ~Forked, Quiet, at["applier"] = "applied", NEW d \in file
  PROVE  d = "approved"
BY OneWhenQuiet DEF Kept, Applied

\* When nobody is in a move, nothing depends on what it has read.
LEMMA KeptWhenQuiet ==
  ASSUME Quiet', file' # {}, Applied'
  PROVE  Kept'
<1>1. \A p \in Procs : ~MidMove(p)'
  BY DEF Quiet
<1> QED
  BY <1>1 DEF Kept, Safe, Leaving, Cross, MidMove

LEMMA KeptRead ==
  ASSUME TypeOK, Held, Kept, ~Forked, NEW p \in Procs, Read(p)
  PROVE  Kept'
<1>1. PICK m \in MovesOf(p) :
        /\ Allowed(p, m) /\ m.from \in file
        /\ job' = [job EXCEPT ![p] = m]
        /\ at' = [at EXCEPT ![p] = IF m.how = "plain" THEN "ready" ELSE "read"]
  BY ReadMoves
<1>2. Quiet /\ at[p] = "idle" /\ file' = file
  BY DEF Read
<1>3. at["applier"] # "applied"
  BY <1>1, <1>2, OnlyApproved DEF Allowed
<1>4. at'["applier"] # "applied"
  BY <1>1, <1>3 DEF TypeOK, Procs
<1>5. ASSUME NEW q \in Procs, q # p PROVE at'[q] = at[q] /\ job'[q] = job[q]
  BY <1>1, <1>5 DEF TypeOK
<1>6. at'[p] \in {"ready", "read"} /\ job'[p] = m /\ (at'[p] = "ready" => m.how = "plain")
  BY <1>1 DEF TypeOK
<1>7. ASSUME NEW q \in Procs PROVE Safe(q)'
  BY <1>2, <1>5, <1>6 DEF Safe, Leaving, Quiet, MidMove
<1>8. ASSUME NEW q \in Procs, MidMove(q)' PROVE job'[q].from \notin {"pending", "archived"}
  <2>1. q = p
    BY <1>2, <1>5, <1>8 DEF Quiet, MidMove
  <2> QED
    BY <1>1, <1>6, <1>8, <2>1 DEF Allowed, MidMove
<1>9. ASSUME NEW a \in Procs, NEW b \in Procs PROVE Cross(a, b)'
  BY <1>8 DEF Cross
<1> QED
  BY <1>2, <1>4, <1>7, <1>9 DEF Kept, Applied

\* p looks, or comes back: it becomes ready, and its source is there.
LEMMA KeptReady ==
  ASSUME TypeOK, Held, Kept, ~Forked, NEW p \in Procs, at[p] = "read",
         Goto(p, "ready"), UNCHANGED file,
         job[p].how # "locked" => job[p].from \in file,
         job[p].how \in {"careful", "archive"} => job[p].to \notin file
  PROVE  Kept'
<1>1. /\ at' = [at EXCEPT ![p] = "ready"] /\ job' = job /\ file' = file
      /\ Allowed(p, job[p])
  BY HeldAllowed DEF Goto
<1>2. at'[p] = "ready" /\ \A q \in Procs : q # p => at'[q] = at[q]
  BY <1>1 DEF TypeOK
<1>3. ASSUME NEW q \in Procs PROVE Safe(q)'
  <2>1. Safe(q)
    BY DEF Kept
  <2>2. Leaving(q)' => Leaving(q)
    BY <1>1, <1>2 DEF Leaving
  <2>3. Lasting(q)' = Lasting(q)
    BY <1>1, <1>2 DEF Lasting, Procs, TypeOK
  <2> QED
    BY <1>1, <2>1, <2>2, <2>3 DEF Safe, Queued
<1>4. ASSUME NEW a \in Procs, NEW b \in Procs PROVE Cross(a, b)'
  <2> SUFFICES ASSUME job[a].from = "pending", job[b].from = "archived"
               PROVE  /\ MidMove(a)' /\ MidMove(b)' => "drafting" \in file
                      /\ at'[a] = "read" /\ MidMove(b)' => "archived" \in file
                      /\ at'[b] = "read" /\ MidMove(a)' => Queued
    BY <1>1 DEF Cross, Queued
  <2>1. Cross(a, b)
    BY DEF Kept
  <2>2. CASE p \notin {a, b}
    BY <1>2, <2>1, <2>2 DEF Cross, MidMove
  <2>3. CASE p = a
    <3>1. job[p].how \in {"careful", "archive"} /\ job[p].to = "archived" /\ "pending" \in file
      BY <1>1, <2>3 DEF Allowed
    <3> QED
      BY <1>2, <2>1, <2>3, <3>1 DEF Cross, MidMove, Queued
  <2>4. CASE p = b
    <3>1. job[p].how = "careful" /\ job[p].to = "pending" /\ "archived" \in file
      BY <1>1, <2>4 DEF Allowed
    <3> QED
      BY <1>2, <2>1, <2>4, <3>1 DEF Cross, MidMove, Queued
  <2> QED
    BY <2>2, <2>3, <2>4
<1>5. ASSUME at["applier"] = "applied" PROVE Applied'
  <2>1. Applied
    BY DEF Kept
  <2>2. job[p].to = "approved" => job[p].how = "locked"
    <3> SUFFICES ASSUME job[p].to = "approved", job[p].how # "locked" PROVE FALSE
      OBVIOUS
    <3>1. job[p].how # "careful" /\ p = "sweep"
      BY <1>1, <1>5, <2>1 DEF Applied, Allowed
    <3>2. Quiet
      BY <1>5, <2>1, <3>1 DEF Applied
    <3> QED
      BY <1>1, <1>5, <3>2, OnlyApproved DEF Allowed
  <2>3. at'["sweep"] = "read" => Quiet'
    <3> SUFFICES ASSUME at'["sweep"] = "read" PROVE FALSE
      OBVIOUS
    <3>1. at["sweep"] = "read" /\ p # "sweep"
      BY <1>2 DEF Procs
    <3>2. Quiet
      BY <1>5, <2>1, <3>1 DEF Applied
    <3> QED
      BY <1>1, <1>5, <3>1, <3>2, OnlyApproved DEF Allowed
  <2> QED
    BY <1>1, <1>2, <1>5, <2>1, <2>2, <2>3 DEF Applied, MidMove
<1>6. Applied'
  <2>1. at'["applier"] = "applied" => at["applier"] = "applied"
    BY <1>2 DEF Procs
  <2> QED
    BY <1>5, <2>1 DEF Applied
<1> QED
  BY <1>1, <1>3, <1>4, <1>6 DEF Kept

LEMMA KeptWrite ==
  ASSUME TypeOK, Held, Kept, NEW p \in Procs, Write(p)
  PROVE  Kept'
<1>1. /\ at' = [at EXCEPT ![p] = "written"] /\ job' = job /\ file' = file \cup {job[p].to}
      /\ at[p] = "ready" /\ Allowed(p, job[p])
  BY HeldAllowed DEF Goto, Write
<1>2. at'[p] = "written" /\ \A q \in Procs : q # p => at'[q] = at[q]
  BY <1>1 DEF TypeOK
<1>3. \A q \in Procs : MidMove(q)' <=> MidMove(q)
  BY <1>1, <1>2 DEF MidMove
<1>4. at'["applier"] = "applied" <=> at["applier"] = "applied"
  BY <1>1, <1>2 DEF Procs
<1>5. ASSUME NEW q \in Procs PROVE Safe(q)'
  <2>1. Lasting(q) \subseteq Lasting(q)'
    BY <1>1, <1>4 DEF Lasting
  <2>2. CASE q # p
    <3>1. Leaving(q)' <=> Leaving(q)
      BY <1>1, <1>2, <2>2 DEF Leaving
    <3>2. Queued => Queued'
      BY <1>1 DEF Queued
    <3> QED
      BY <1>1, <2>1, <3>1, <3>2 DEF Kept, Safe
  <2>3. CASE q = p
    <3>1. job[p].to \in Lasting(p)'
      BY <1>1, <1>4 DEF Lasting, Kept, Applied, MidMove
    <3>2. job[p].from = "archived" => Queued'
      BY <1>1 DEF Allowed, Queued
    <3> QED
      BY <1>1, <2>3, <3>1, <3>2 DEF Safe, Leaving, Allowed
  <2> QED
    BY <2>2, <2>3
<1>6. ASSUME NEW a \in Procs, NEW b \in Procs PROVE Cross(a, b)'
  BY <1>1, <1>2, <1>3 DEF Kept, Cross, Queued
<1>7. Applied'
  BY <1>1, <1>2, <1>3, <1>4 DEF Kept, Applied, Quiet, Procs
<1> QED
  BY <1>1, <1>5, <1>6, <1>7 DEF Kept

\* p comes to rest, and the files the others rely on are still there.
LEMMA KeptRest ==
  ASSUME TypeOK, Held, Kept, NEW p \in Procs, Rest(p), at[p] # "idle",
         at["applier"] = "applied" => "approved" \in file' \/ p = "applier",
         file' # {},
         \A q \in Procs : q # p => Safe(q)',
         \A a, b \in Procs : p \notin {a, b} => Cross(a, b)'
  PROVE  Kept'
<1>1. /\ at' = [at EXCEPT ![p] = "idle"] /\ at \in [Procs -> Places]
      /\ job' = [job EXCEPT ![p] = Idle] /\ job \in [Procs -> [how : Hows, from : Dirs, to : Dirs]]
  BY DEF Rest, TypeOK, Places, Hows
<1>2. at'[p] = "idle" /\ \A q \in Procs : q # p => at'[q] = at[q] /\ job'[q] = job[q]
  BY <1>1
<1>3. \A q \in Procs : Safe(q)'
  BY <1>2 DEF Safe, Leaving
<1>4. \A a, b \in Procs : Cross(a, b)'
  BY <1>2 DEF Cross, MidMove
<1>5. Applied'
  <2>1. \A q \in Procs : MidMove(q)' => MidMove(q) /\ job'[q] = job[q]
    BY <1>2 DEF MidMove
  <2>2. at'["applier"] = "applied" => at["applier"] = "applied" /\ p # "applier"
    BY <1>2 DEF Procs
  <2>3. at'["sweep"] = "read" => at["sweep"] = "read"
    BY <1>2 DEF Procs
  <2> QED
    BY <2>1, <2>2, <2>3 DEF Kept, Applied, Quiet
<1> QED
  BY <1>3, <1>4, <1>5 DEF Kept

LEMMA KeptLookAway ==
  ASSUME TypeOK, Held, Kept, NEW p \in Procs, Rest(p), UNCHANGED file, at[p] # "idle"
  PROVE  Kept'
<1>1. /\ at' = [at EXCEPT ![p] = "idle"] /\ at \in [Procs -> Places]
      /\ job' = [job EXCEPT ![p] = Idle] /\ job \in [Procs -> [how : Hows, from : Dirs, to : Dirs]]
  BY DEF Rest, TypeOK, Places, Hows
<1>2. at'[p] = "idle" /\ \A q \in Procs : q # p => at'[q] = at[q] /\ job'[q] = job[q]
  BY <1>1
<1>3. ASSUME NEW q \in Procs, q # p PROVE Safe(q)'
  <2>1. Lasting(q) \subseteq Lasting(q)'
    BY <1>2, <1>3 DEF Lasting, Procs
  <2> QED
    BY <1>2, <1>3, <2>1 DEF Kept, Safe, Leaving, Queued
<1>4. ASSUME NEW a \in Procs, NEW b \in Procs, p \notin {a, b} PROVE Cross(a, b)'
  BY <1>2, <1>4 DEF Kept, Cross, MidMove, Queued
<1>5. at["applier"] = "applied" => "approved" \in file' \/ p = "applier"
  BY DEF Kept, Applied
<1> QED
  BY <1>3, <1>4, <1>5, KeptRest DEF Kept

\* The heart of the proof: what p unlinks is the highest file of nobody.
LEMMA KeptRemove ==
  ASSUME TypeOK, Held, Kept, NEW p \in Procs, Remove(p)
  PROVE  Kept'
<1>1. at[p] = "written" /\ Rest(p) /\ Allowed(p, job[p])
  BY HeldAllowed DEF Remove
<1>2. CASE job[p].from = job[p].to
  BY <1>1, <1>2, KeptLookAway DEF Remove
<1>3. CASE job[p].from # job[p].to
  <2> DEFINE from == job[p].from
  <2>1. file' = file \ {from} /\ Leaving(p)
    BY <1>1, <1>3 DEF Remove, Leaving
  <2>2. /\ at' = [at EXCEPT ![p] = "idle"] /\ at \in [Procs -> Places]
        /\ job' = [job EXCEPT ![p] = Idle] /\ job \in [Procs -> [how : Hows, from : Dirs, to : Dirs]]
    BY <1>1 DEF Rest, TypeOK, Places, Hows
  <2>3. at'[p] = "idle" /\ \A q \in Procs : q # p => at'[q] = at[q] /\ job'[q] = job[q]
    BY <2>2
  <2>4. IF from = "archived" THEN Queued ELSE \E e \in Lasting(p) : Rank(from) < Rank(e)
    BY <2>1 DEF Kept, Safe
  <2>5. file' # {}
    BY <2>1, <2>4 DEF Queued, Lasting, Rank
  <2>6. ASSUME NEW q \in Procs, q # p, Leaving(q)
        PROVE  IF job[q].from = "archived" THEN Queued'
               ELSE \E e \in Lasting(q) \ {from} : Rank(job[q].from) < Rank(e)
    <3> DEFINE theirs == job[q].from
    <3>1. Allowed(q, job[q]) /\ at[q] = "written"
      BY <2>6, HeldAllowed DEF Leaving
    <3>2. IF theirs = "archived" THEN Queued ELSE \E e \in Lasting(q) : Rank(theirs) < Rank(e)
      BY <2>6 DEF Kept, Safe
    <3>3. CASE theirs = "archived"
      <4>1. CASE from = "pending"
        <5>1. "drafting" \in file
          BY <1>1, <3>1, <3>3, <4>1 DEF Kept, Cross, MidMove
        <5> QED
          BY <2>1, <3>3, <4>1, <5>1 DEF Queued
      <4>2. CASE from # "pending"
        BY <1>1, <2>1, <3>2, <3>3, <4>2 DEF Queued, Allowed
      <4> QED
        BY <4>1, <4>2
    <3>4. CASE theirs # "archived" /\ from = "archived"
      <4>1. CASE theirs = "pending"
        <5>1. "drafting" \in file
          BY <1>1, <3>1, <3>4, <4>1 DEF Kept, Cross, MidMove
        <5> QED
          BY <3>4, <4>1, <5>1 DEF Lasting, Rank
      <4>2. CASE theirs # "pending"
        <5>1. PICK e \in {"pending", "drafting"} : e \in file
          BY <2>4, <3>4 DEF Queued
        <5>2. e \in Lasting(q) \ {from}
          BY <3>4, <5>1 DEF Lasting
        <5>3. Rank(theirs) < Rank(e)
          BY <3>1, <3>4, <4>2, <5>1 DEF Allowed, Rank, Dirs
        <5> QED
          BY <3>4, <5>2, <5>3
      <4> QED
        BY <4>1, <4>2
    <3>5. CASE theirs # "archived" /\ from # "archived"
      <4>1. PICK e \in Lasting(q) : Rank(theirs) < Rank(e)
        BY <3>2, <3>5
      <4>2. PICK h \in Lasting(p) : Rank(from) < Rank(h)
        BY <2>4, <3>5
      <4>3. CASE e # from
        BY <3>5, <4>1, <4>3
      <4>4. CASE e = from
        <5>1. Rank(theirs) < Rank(h) /\ h # from
          BY <4>1, <4>2, <4>4 DEF Rank
        <5>2. job[p].how # "locked"
          BY <1>1, <3>1, <4>1, <4>4 DEF Allowed, Rank, Dirs
        <5>3. h \in Lasting(q)
          BY <4>2, <5>2 DEF Lasting
        <5> QED
          BY <3>5, <5>1, <5>3
      <4> QED
        BY <4>3, <4>4
    <3> QED
      BY <3>3, <3>4, <3>5
  <2>7. ASSUME NEW q \in Procs, q # p PROVE Safe(q)'
    <3>1. Leaving(q)' <=> Leaving(q)
      BY <2>3, <2>7 DEF Leaving
    <3>2. Lasting(q) \ {from} \subseteq Lasting(q)'
      BY <2>1, <2>3, <2>7 DEF Lasting, Procs
    <3>3. job'[q] = job[q]
      BY <2>3, <2>7
    <3> QED
      BY <2>6, <2>7, <3>1, <3>2, <3>3 DEF Safe
  <2>8. ASSUME NEW a \in Procs, NEW b \in Procs, p \notin {a, b} PROVE Cross(a, b)'
    <3>1. Cross(a, b)' \/ p = "applier"
      <4> SUFFICES ASSUME job[a].from = "pending", job[b].from = "archived",
                          MidMove(a) \/ at[a] = "read", MidMove(b) \/ at[b] = "read"
                   PROVE  p = "applier"
        BY <2>3, <2>8 DEF Cross, MidMove
      <4>1. Allowed(a, job[a]) /\ Allowed(b, job[b])
        BY HeldAllowed DEF MidMove
      <4> QED
        BY <1>1, <2>8, <4>1 DEF Allowed, Movers
    <3>2. CASE p = "applier"
      <4>1. from \notin {"pending", "drafting", "archived"}
        BY <1>1, <3>2 DEF Allowed
      <4>2. Cross(a, b)
        BY DEF Kept
      <4> QED
        BY <2>1, <2>3, <2>8, <4>1, <4>2 DEF Cross, MidMove, Queued
    <3> QED
      BY <3>1, <3>2
  <2>9. at["applier"] = "applied" => "approved" \in file' \/ p = "applier"
    BY <1>1, <2>1 DEF Kept, Applied, Allowed
  <2> QED
    BY <1>1, <2>5, <2>7, <2>8, <2>9, KeptRest
<1> QED
  BY <1>2, <1>3

LEMMA KeptMoveToArchive ==
  ASSUME TypeOK, Held, Kept, NEW p \in Procs, MoveToArchive(p)
  PROVE  Kept'
<1> DEFINE from == job[p].from
<1>1. at[p] = "ready" /\ job[p].how = "archive" /\ Rest(p) /\ Allowed(p, job[p])
  BY HeldAllowed DEF MoveToArchive
<1>2. CASE UNCHANGED file
  BY <1>1, <1>2, KeptLookAway
<1>3. CASE file' = (file \ {from}) \cup {"archived"}
  <2>1. /\ at' = [at EXCEPT ![p] = "idle"] /\ at \in [Procs -> Places]
        /\ job' = [job EXCEPT ![p] = Idle] /\ job \in [Procs -> [how : Hows, from : Dirs, to : Dirs]]
    BY <1>1 DEF Rest, TypeOK, Places, Hows
  <2>2. at'[p] = "idle" /\ \A q \in Procs : q # p => at'[q] = at[q] /\ job'[q] = job[q]
    BY <2>1
  <2>3. p = "hand" /\ from \notin {"approved", "review", "drafting", "staging", "archived"}
    BY <1>1 DEF Allowed
  <2>4. ASSUME NEW q \in Procs, q # p PROVE Safe(q)'
    <3> SUFFICES ASSUME Leaving(q) PROVE Safe(q)'
      BY <2>2, <2>4 DEF Safe, Leaving
    <3> DEFINE theirs == job[q].from
    <3>1. Allowed(q, job[q]) /\ at[q] = "written"
      BY HeldAllowed DEF Leaving
    <3>2. IF theirs = "archived" THEN Queued ELSE \E e \in Lasting(q) : Rank(theirs) < Rank(e)
      BY DEF Kept, Safe
    <3>3. CASE theirs = "archived"
      <4>1. from = "pending" => "drafting" \in file
        BY <1>1, <3>1, <3>3 DEF Kept, Cross, MidMove
      <4>2. Queued'
        BY <1>3, <2>3, <3>2, <3>3, <4>1 DEF Queued
      <4> QED
        BY <2>2, <2>4, <3>3, <4>2 DEF Safe
    <3>4. CASE theirs # "archived"
      <4>1. "archived" \in Lasting(q)' /\ Lasting(q) \ {from} \subseteq Lasting(q)'
        BY <1>3, <2>2, <2>3, <2>4 DEF Lasting, Procs
      <4>2. PICK e \in Lasting(q) : Rank(theirs) < Rank(e)
        BY <3>2, <3>4
      <4>3. CASE e # from
        BY <2>2, <2>4, <3>4, <4>1, <4>2, <4>3 DEF Safe
      <4>4. CASE e = from
        <5>1. Rank(theirs) < Rank("archived")
          BY <1>1, <2>3, <4>2, <4>4 DEF Rank, Allowed, Dirs
        <5> QED
          BY <2>2, <2>4, <3>4, <4>1, <5>1 DEF Safe
      <4> QED
        BY <4>3, <4>4
    <3> QED
      BY <3>3, <3>4
  <2>5. ASSUME NEW a \in Procs, NEW b \in Procs, p \notin {a, b} PROVE Cross(a, b)'
    <3> SUFFICES ASSUME job[a].from = "pending", job[b].from = "archived",
                        MidMove(a) \/ at[a] = "read", MidMove(b) \/ at[b] = "read"
                 PROVE  FALSE
      BY <2>2, <2>5 DEF Cross, MidMove
    <3>1. Allowed(a, job[a]) /\ Allowed(b, job[b])
      BY HeldAllowed DEF MidMove
    <3> QED
      BY <2>3, <2>5, <3>1 DEF Allowed, Movers
  <2>6. at["applier"] = "applied" => "approved" \in file' \/ p = "applier"
    BY <1>3, <2>3 DEF Kept, Applied
  <2> QED
    BY <1>1, <1>3, <2>4, <2>5, <2>6, KeptRest
<1> QED
  BY <1>2, <1>3 DEF MoveToArchive

LEMMA KeptRename ==
  ASSUME TypeOK, Held, Kept, LaneMoves \/ ReviewerMoves
  PROVE  Kept'
<1>1. PICK m \in LaneRenames \cup ReviewRenames :
        /\ m.from # "pending" => Quiet
        /\ file' = (file \ {m.from}) \cup {m.to} /\ UNCHANGED <<at, job>>
  BY DEF LaneMoves, ReviewerMoves, Rename
<1>2. m.from \in {"pending", "drafting", "review"} /\ (m.from = "pending" => m.to = "drafting")
  BY <1>1, MovesElim DEF LaneRenames, ReviewRenames
<1>3. Applied'
  BY <1>1, <1>2 DEF Kept, Applied, Quiet, MidMove
<1>4. CASE Quiet
  <2>1. Quiet' /\ file' # {}
    BY <1>1, <1>4 DEF Quiet, MidMove
  <2> QED
    BY <1>3, <2>1, KeptWhenQuiet
<1>5. CASE m.from = "pending"
  <2>1. file' = (file \ {"pending"}) \cup {"drafting"}
    BY <1>1, <1>2, <1>5
  <2>2. ASSUME NEW q \in Procs PROVE Safe(q)'
    <3>1. CASE job[q].from = "archived"
      BY <1>1, <2>1, <3>1 DEF Safe, Queued
    <3>2. CASE job[q].from # "archived" /\ Leaving(q)
      <4>1. PICK e \in Lasting(q) : Rank(job[q].from) < Rank(e)
        BY <3>2 DEF Kept, Safe
      <4>2. "drafting" \in Lasting(q)' /\ Rank(job[q].from) < Rank("drafting")
        <5>1. "drafting" \in Lasting(q)'
          BY <1>1, <2>1 DEF Lasting
        <5> QED
          BY <4>1, <5>1 DEF Rank
      <4> QED
        BY <1>1, <3>2, <4>2 DEF Safe
    <3> QED
      BY <1>1, <3>1, <3>2 DEF Safe, Leaving
  <2>3. ASSUME NEW a \in Procs, NEW b \in Procs PROVE Cross(a, b)'
    <3>1. Cross(a, b)
      BY DEF Kept
    <3> QED
      BY <1>1, <2>1, <3>1 DEF Cross, MidMove, Queued
  <2> QED
    BY <1>3, <2>1, <2>2, <2>3 DEF Kept
<1> QED
  BY <1>1, <1>4, <1>5

LEMMA KeptSetAside ==
  ASSUME TypeOK, Held, Kept, SetAside
  PROVE  Kept'
<1>1. /\ at' = [at EXCEPT !["sweep"] = "aside"] /\ job' = job /\ Quiet
      /\ file' = (file \ {"pending"}) \cup {"staging"}
  BY DEF SetAside, Goto
<1>2. Quiet'
  BY <1>1 DEF Quiet, MidMove, TypeOK
<1>3. Applied'
  BY <1>1, <1>2 DEF Kept, Applied, TypeOK, Quiet, Procs
<1> QED
  BY <1>1, <1>2, <1>3, KeptWhenQuiet

LEMMA KeptRetire ==
  ASSUME TypeOK, Held, Kept, Retire
  PROVE  Kept'
<1>1. at["sweep"] = "aside" /\ Rest("sweep") /\ "sweep" \in Procs
  BY DEF Retire, Procs
<1>2. file' # {} /\ file \ {"staging"} \subseteq file'
  BY DEF Retire, PutBack, Kept
<1>3. /\ at' = [at EXCEPT !["sweep"] = "idle"] /\ at \in [Procs -> Places]
      /\ job' = [job EXCEPT !["sweep"] = Idle] /\ job \in [Procs -> [how : Hows, from : Dirs, to : Dirs]]
  BY <1>1 DEF Rest, TypeOK, Places, Hows
<1>4. \A q \in Procs : q # "sweep" => at'[q] = at[q] /\ job'[q] = job[q]
  BY <1>3
<1>5. ASSUME NEW q \in Procs, q # "sweep" PROVE Safe(q)'
  <2>1. Lasting(q) \ {"staging"} \subseteq Lasting(q)' /\ (Queued => Queued')
    BY <1>2, <1>4, <1>5 DEF Lasting, Procs, Queued
  <2>2. \A d : Rank(d) < Rank("staging") => FALSE
    BY DEF Rank
  <2>3. Safe(q)
    BY DEF Kept
  <2> QED
    BY <1>4, <1>5, <2>1, <2>2, <2>3 DEF Safe, Leaving
<1>6. ASSUME NEW a \in Procs, NEW b \in Procs, "sweep" \notin {a, b} PROVE Cross(a, b)'
  BY <1>2, <1>4, <1>6 DEF Kept, Cross, MidMove, Queued
<1>7. at["applier"] = "applied" => "approved" \in file'
  BY <1>2 DEF Kept, Applied
<1> QED
  BY <1>1, <1>2, <1>5, <1>6, <1>7, KeptRest

LEMMA KeptApply ==
  ASSUME TypeOK, Held, Kept, ~Forked, StartApply \/ EndApply \/ FileApplied
  PROVE  Kept'
<1>1. CASE StartApply
  <2>1. /\ at' = [at EXCEPT !["applier"] = "applying"] /\ job' = job /\ file' = file
        /\ at["applier"] = "idle" /\ at \in [Procs -> Places]
    BY <1>1 DEF StartApply, Goto, TypeOK, Places
  <2>2. at'["applier"] = "applying" /\ \A q \in Procs : q # "applier" => at'[q] = at[q]
    BY <2>1 DEF Procs
  <2>3. ASSUME NEW q \in Procs PROVE Safe(q)' /\ (MidMove(q)' <=> MidMove(q)) /\ (at'[q] = "read" <=> at[q] = "read")
    BY <2>1, <2>2 DEF Kept, Safe, Leaving, Lasting, Queued, MidMove
  <2>4. ASSUME NEW a \in Procs, NEW b \in Procs PROVE Cross(a, b)'
    BY <2>1, <2>3 DEF Kept, Cross, Queued
  <2> QED
    BY <2>1, <2>2, <2>3, <2>4 DEF Kept, Applied
<1>2. CASE EndApply
  <2>1. /\ at' = [at EXCEPT !["applier"] = "applied"] /\ Quiet
        /\ file' = file \cup {"approved"}
    BY <1>2 DEF EndApply
  <2>2. Quiet'
    BY <2>1 DEF Quiet, MidMove, TypeOK
  <2>3. Applied'
    BY <2>1, <2>2 DEF Applied, Quiet
  <2> QED
    BY <2>1, <2>2, <2>3, KeptWhenQuiet
<1>3. CASE FileApplied
  <2>1. /\ at["applier"] = "applied" /\ ~LockTaken /\ Rest("applier") /\ "applier" \in Procs
        /\ file' = (file \ {"approved"}) \cup {job["applier"].to}
    BY <1>3 DEF FileApplied, Kept, Applied, Procs
  <2>2. /\ at' = [at EXCEPT !["applier"] = "idle"] /\ at \in [Procs -> Places]
        /\ job' = [job EXCEPT !["applier"] = Idle] /\ job \in [Procs -> [how : Hows, from : Dirs, to : Dirs]]
    BY <2>1 DEF Rest, TypeOK, Places, Hows
  <2>3. \A q \in Procs : q # "applier" => at'[q] = at[q] /\ job'[q] = job[q]
    BY <2>2
  <2>4. ASSUME NEW q \in Procs, q # "applier" PROVE Safe(q)'
    <3>1. Leaving(q) => job[q].how # "locked"
      BY <2>1 DEF LockTaken, Leaving, MidMove
    <3>2. Leaving(q) => Lasting(q) \subseteq Lasting(q)'
      BY <2>1, <2>2, <3>1 DEF Lasting, Procs
    <3>3. Queued => Queued'
      BY <2>1 DEF Queued
    <3>4. Safe(q)
      BY DEF Kept
    <3> QED
      BY <2>3, <2>4, <3>2, <3>3, <3>4 DEF Safe, Leaving
  <2>5. ASSUME NEW a \in Procs, NEW b \in Procs, "applier" \notin {a, b} PROVE Cross(a, b)'
    BY <2>1, <2>3, <2>5 DEF Kept, Cross, MidMove, Queued
  <2> QED
    BY <2>1, <2>4, <2>5, KeptRest
<1> QED
  BY <1>1, <1>2, <1>3

\* Every step but one that sets out to move a task that has left.
LEMMA KeptStep ==
  ASSUME TypeOK, Held, ~overtaken => Kept, Next
  PROVE  ~overtaken' => Kept'
<1> SUFFICES ASSUME ~overtaken' PROVE Kept'
  OBVIOUS
<1>1. ~overtaken
  BY DEF Next, Step, Read, Look, ComeBack, TakeLock, Write, Remove, MoveToArchive, Kill, LaneMoves,
         ReviewerMoves, Rename, SetAside, Retire, StartApply, EndApply, FileApplied, NoteOvertaken
<1>2. Kept /\ ~Forked
  BY <1>1 DEF Next
<1>3. ASSUME NEW p \in Procs, Read(p) PROVE Kept'
  BY <1>2, <1>3, KeptRead
<1>4. ASSUME NEW p \in Procs, Look(p) PROVE Kept'
  <2>1. CASE job[p].to \in file
    BY <1>2, <1>4, <2>1, KeptLookAway DEF Look
  <2>2. CASE job[p].to \notin file
    <3>1. Goto(p, "ready") /\ at[p] = "read" /\ job[p].from \in file /\ file' = file
      BY <1>4, <2>2 DEF Look, NoteOvertaken
    <3> QED
      BY <1>2, <2>2, <3>1, KeptReady
  <2> QED
    BY <2>1, <2>2
<1>5. ASSUME NEW p \in Procs, ComeBack(p) PROVE Kept'
  <2>1. Goto(p, "ready") /\ at[p] = "read" /\ job[p].from \in file /\ file' = file
    BY <1>5 DEF ComeBack, NoteOvertaken
  <2>2. job[p].how \notin {"careful", "archive"}
    BY <1>5 DEF ComeBack
  <2> QED
    BY <1>2, <2>1, <2>2, KeptReady
<1>6. ASSUME NEW p \in Procs, TakeLock(p) PROVE Kept'
  <2>1. Goto(p, "ready") /\ at[p] = "read" /\ job[p].how = "locked" /\ file' = file
    BY <1>6 DEF TakeLock
  <2> QED
    BY <1>2, <2>1, KeptReady
<1>7. ASSUME NEW p \in Procs, Kill(p) PROVE Kept'
  BY <1>2, <1>7, KeptLookAway DEF Kill
<1> QED
  BY <1>2, <1>3, <1>4, <1>5, <1>6, <1>7, KeptWrite, KeptRemove, KeptMoveToArchive, KeptRename,
     KeptSetAside, KeptRetire, KeptApply
  DEF Next, Step
-----------------------------------------------------------------------------
(* One file at a time.                                                     *)

\* Only the sweeps make moves of two steps while nobody else moves the task.
LEMMA OnlyTheSweeps ==
  ASSUME Held, Alone, NEW p \in Procs, at[p] \in {"read", "ready", "written"}
  PROVE  p = "sweep"
BY HeldAllowed DEF Alone, Allowed, Movers

LEMMA AloneRead ==
  ASSUME TypeOK, Held, Alone, NEW p \in Procs, Read(p), ~meddled'
  PROVE  Alone'
<1>1. PICK m \in MovesOf(p) :
        /\ Allowed(p, m) /\ m.from \in file
        /\ job' = [job EXCEPT ![p] = m]
        /\ at' = [at EXCEPT ![p] = IF m.how = "plain" THEN "ready" ELSE "read"]
        /\ p \notin {"hand", "applier"} /\ m.from # "pending"
  BY MovesAllowed DEF Read
<1>2. p = "sweep" /\ at["sweep"] = "idle" /\ file' = file
  BY <1>1 DEF Allowed, Movers, Read
<1>3. file = {m.from}
  BY <1>1, <1>2 DEF Alone, AloneSweep
<1>4. at["applier"] = "idle" /\ at["hand"] = "idle"
  BY <1>1, <1>3 DEF Alone, Allowed
<1>5. at'["sweep"] \in {"read", "ready"} /\ job'["sweep"] = m /\ at'["applier"] = "idle" /\ at'["hand"] = "idle"
  BY <1>1, <1>2, <1>4 DEF TypeOK
<1> QED
  BY <1>1, <1>2, <1>3, <1>5 DEF Alone, AloneSweep

LEMMA AloneMove ==
  ASSUME TypeOK, Held, Alone, NEW p \in Procs,
         \/ Look(p) \/ ComeBack(p) \/ TakeLock(p)
         \/ Write(p) \/ Remove(p) \/ MoveToArchive(p)
  PROVE  Alone'
<1> DEFINE m == job["sweep"]
<1>1. p = "sweep"
  BY OnlyTheSweeps DEF Look, ComeBack, TakeLock, Write, Remove, MoveToArchive
<1>2. Allowed("sweep", m) /\ at["sweep"] \in {"read", "ready", "written"}
  BY <1>1, HeldAllowed DEF Look, ComeBack, TakeLock, Write, Remove, MoveToArchive
<1>3. m.from \in Dirs \ {"staging", "drafting"} /\ m.to \in Dirs \ {"staging"}
  BY <1>2 DEF Allowed
<1>4. CASE Rest("sweep") /\ \E d \in Dirs \ {"staging"} : file' = {d} /\ ("approved" \in file => d = "approved")
  <2>1. at' = [at EXCEPT !["sweep"] = "idle"]
    BY <1>4 DEF Rest
  <2>2. at'["sweep"] = "idle" /\ at'["hand"] = at["hand"] /\ at'["applier"] = at["applier"]
    BY <1>1, <2>1 DEF TypeOK, Procs
  <2> QED
    BY <1>2, <1>4, <2>2 DEF Alone, AloneSweep
<1>5. CASE /\ at["sweep"] = "read" /\ Goto("sweep", "ready") /\ file' = file
  <2>1. at' = [at EXCEPT !["sweep"] = "ready"] /\ job' = job
    BY <1>5 DEF Goto
  <2>2. at'["sweep"] = "ready" /\ at'["hand"] = at["hand"] /\ at'["applier"] = at["applier"]
    BY <1>1, <2>1 DEF TypeOK, Procs
  <2> QED
    BY <1>2, <1>5, <2>1, <2>2 DEF Alone, AloneSweep
<1>6. CASE Write("sweep")
  <2>1. /\ at' = [at EXCEPT !["sweep"] = "written"] /\ job' = job /\ file' = file \cup {m.to}
        /\ file = {m.from} /\ m.from # "pending"
    BY <1>6 DEF Goto, Write, Alone, AloneSweep
  <2>2. at'["sweep"] = "written" /\ at'["hand"] = at["hand"] /\ at'["applier"] = at["applier"]
    BY <1>1, <2>1 DEF TypeOK, Procs
  <2>3. at["applier"] = "idle"
    BY <1>2, <2>1 DEF Alone, Allowed
  <2>4. file' = {m.from, m.to}
    BY <2>1
  <2> QED
    BY <2>1, <2>2, <2>3, <2>4 DEF Alone, AloneSweep
<1>7. CASE Look("sweep")
  <2>1. file' = file /\ at["sweep"] = "read" /\ file = {m.from}
    BY <1>7 DEF Look, Alone, AloneSweep
  <2> QED
    BY <1>3, <1>4, <1>5, <1>7, <2>1 DEF Look
<1>8. CASE ComeBack("sweep") \/ TakeLock("sweep")
  BY <1>5, <1>8 DEF ComeBack, TakeLock
<1>9. CASE Remove("sweep")
  <2>1. PICK d \in {m.to, "drafting"} : file = {m.from, d} /\ (m.from = m.to => d = m.to)
    BY <1>9 DEF Remove, Alone, AloneSweep
  <2>2. d \in Dirs \ {"staging"}
    BY <1>3, <2>1 DEF Dirs
  <2>3. m.from # "approved"
    BY <1>2 DEF Allowed
  <2>4. CASE m.from = m.to
    <3>1. file' = {d} /\ Rest("sweep")
      BY <1>9, <2>1, <2>4 DEF Remove
    <3> QED
      BY <1>4, <2>1, <2>2, <2>3, <3>1
  <2>5. CASE m.from # m.to
    <3>1. d # m.from
      BY <1>3, <2>1, <2>5
    <3>2. file' = {d} /\ Rest("sweep")
      BY <1>9, <2>1, <2>5, <3>1 DEF Remove
    <3> QED
      BY <1>4, <2>1, <2>2, <2>3, <3>2
  <2> QED
    BY <2>4, <2>5
<1>10. ~MoveToArchive("sweep")
  BY <1>2 DEF MoveToArchive, Allowed
<1> QED
  BY <1>1, <1>6, <1>7, <1>8, <1>9, <1>10

LEMMA AloneRename ==
  ASSUME TypeOK, Held, Alone, LaneMoves \/ ReviewerMoves
  PROVE  Alone'
<1> DEFINE s == job["sweep"]
<1>1. PICK m \in LaneRenames \cup ReviewRenames :
        /\ m.from \in file
        /\ m.from # "pending" => Quiet
        /\ file' = (file \ {m.from}) \cup {m.to} /\ UNCHANGED <<at, job>>
  BY DEF LaneMoves, ReviewerMoves, Rename
<1>2. /\ m.from \in {"pending", "drafting", "review"} /\ (m.from = "pending" => m.to = "drafting")
      /\ m.to \in Dirs \ {"staging"}
  BY <1>1, MovesElim DEF LaneRenames, ReviewRenames, Dirs
<1>3. at["sweep"] \in {"read", "ready", "written"} => s.from # m.from
  <2>1. at["sweep"] \in {"read", "ready", "written"} => Allowed("sweep", s)
    BY HeldAllowed DEF Procs
  <2> QED
    BY <1>2, <2>1 DEF Allowed, Alone, AloneSweep
<1>4. at["sweep"] = "idle" => \E d \in Dirs \ {"staging"} : file' = {d}
  BY <1>1, <1>2 DEF Alone, AloneSweep
<1>5. at["sweep"] \notin {"read", "ready", "aside"}
  BY <1>1, <1>2, <1>3 DEF Alone, AloneSweep
<1>6. at["sweep"] = "written" => file' = {s.from, "drafting"} /\ s.from # s.to
  <2> SUFFICES ASSUME at["sweep"] = "written" PROVE file' = {s.from, "drafting"} /\ s.from # s.to
    OBVIOUS
  <2>1. PICK d \in {s.to, "drafting"} : file = {s.from, d} /\ (s.from = s.to => d = s.to)
    BY DEF Alone, AloneSweep
  <2>2. ~Quiet
    BY DEF Quiet, MidMove, Procs
  <2>3. m.from = "pending" /\ m.to = "drafting" /\ d = "pending"
    BY <1>1, <1>2, <1>3, <2>1, <2>2
  <2> QED
    BY <1>1, <1>3, <2>1, <2>3
<1>7. "approved" \in file => "approved" \in file'
  BY <1>1, <1>2
<1> QED
  BY <1>1, <1>4, <1>5, <1>6, <1>7 DEF Alone, AloneSweep

LEMMA AloneAside ==
  ASSUME TypeOK, Held, Alone, SetAside \/ Retire
  PROVE  Alone'
<1>1. CASE SetAside
  <2>1. /\ at' = [at EXCEPT !["sweep"] = "aside"] /\ "pending" \in file /\ at["sweep"] = "idle"
        /\ file' = (file \ {"pending"}) \cup {"staging"}
    BY <1>1 DEF SetAside, Goto
  <2>2. file = {"pending"}
    BY <2>1 DEF Alone, AloneSweep
  <2>3. file' = {"staging"} /\ at["applier"] = "idle"
    BY <2>1, <2>2 DEF Alone
  <2>4. at'["sweep"] = "aside" /\ at'["hand"] = at["hand"] /\ at'["applier"] = at["applier"]
    BY <2>1 DEF TypeOK, Procs
  <2> QED
    BY <2>3, <2>4 DEF Alone, AloneSweep
<1>2. CASE Retire
  <2>1. file = {"staging"} /\ Rest("sweep")
    BY <1>2 DEF Retire, Alone, AloneSweep
  <2>2. \E d \in Dirs \ {"staging"} : file' = {d}
    <3>1. CASE PutBack
      BY <2>1, <3>1 DEF PutBack, Dirs
    <3>2. CASE \E to \in {"archived", "approved", "pending"} : file' = (file \ {"staging"}) \cup {to}
      BY <2>1, <3>2 DEF Dirs
    <3> QED
      BY <1>2, <3>1, <3>2 DEF Retire
  <2>3. at' = [at EXCEPT !["sweep"] = "idle"]
    BY <2>1 DEF Rest
  <2>4. at'["sweep"] = "idle" /\ at'["hand"] = at["hand"] /\ at'["applier"] = at["applier"]
    BY <2>3 DEF TypeOK, Procs
  <2>5. at["applier"] = "idle"
    BY <2>1 DEF Alone
  <2> QED
    BY <2>2, <2>4, <2>5 DEF Alone, AloneSweep
<1> QED
  BY <1>1, <1>2

LEMMA AloneApply ==
  ASSUME TypeOK, Held, Alone, StartApply \/ EndApply \/ FileApplied
  PROVE  Alone'
<1>1. CASE StartApply
  <2>1. /\ at' = [at EXCEPT !["applier"] = "applying"] /\ job' = job /\ file' = file /\ "approved" \in file
    BY <1>1 DEF StartApply, Goto
  <2>2. at'["applier"] = "applying" /\ at'["hand"] = at["hand"] /\ at'["sweep"] = at["sweep"]
    BY <2>1 DEF TypeOK, Procs
  <2> QED
    BY <2>1, <2>2 DEF Alone, AloneSweep
<1>2. CASE EndApply
  <2>1. /\ at' = [at EXCEPT !["applier"] = "applied"] /\ at["applier"] = "applying" /\ Quiet
        /\ file' = file \cup {"approved"}
    BY <1>2 DEF EndApply
  <2>2. "approved" \in file
    BY <2>1 DEF Alone
  <2>3. at["sweep"] \in Places \ {"ready", "written", "applying", "applied"}
    BY <2>1 DEF Quiet, MidMove, TypeOK, Held, JobOK, Procs, Places
  <2>4. at["sweep"] = "read" => job["sweep"].from # "approved"
    BY HeldAllowed DEF Procs, Allowed
  <2>5. at["sweep"] = "idle"
    BY <2>2, <2>3, <2>4 DEF Alone, AloneSweep, Places
  <2>6. at'["applier"] = "applied" /\ at'["hand"] = at["hand"] /\ at'["sweep"] = "idle"
    BY <2>1, <2>5 DEF TypeOK, Procs
  <2>7. file' = file
    BY <2>1, <2>2
  <2> QED
    BY <2>2, <2>5, <2>6, <2>7 DEF Alone, AloneSweep
<1>3. CASE FileApplied
  <2>1. at["applier"] = "applied" /\ at["sweep"] = "idle" /\ "approved" \in file
    BY <1>3 DEF FileApplied, Alone
  <2>2. file = {"approved"}
    BY <2>1 DEF Alone, AloneSweep
  <2>3. job["applier"] \in Moves("mv", {"approved"}, Outcomes)
    BY <2>1 DEF Held, JobOK, Procs
  <2>4. job["applier"].to \in Outcomes
    BY <2>3, MovesElim
  <2>5. file' = {job["applier"].to} /\ at' = [at EXCEPT !["applier"] = "idle"]
    BY <1>3, <2>2 DEF FileApplied, Rest
  <2>6. at'["applier"] = "idle" /\ at'["hand"] = at["hand"] /\ at'["sweep"] = "idle"
    BY <2>1, <2>5 DEF TypeOK, Procs
  <2> QED
    BY <2>4, <2>5, <2>6 DEF Alone, AloneSweep, Outcomes, Dirs
<1> QED
  BY <1>1, <1>2, <1>3

LEMMA AloneStep ==
  ASSUME TypeOK, Held, ~meddled => Alone, Next
  PROVE  ~meddled' => Alone'
<1> SUFFICES ASSUME ~meddled' PROVE Alone'
  OBVIOUS
<1>1. ~meddled
  BY DEF Next, Step, Read, Look, ComeBack, TakeLock, Write, Remove, MoveToArchive, Kill, LaneMoves,
         ReviewerMoves, Rename, SetAside, Retire, StartApply, EndApply, FileApplied
<1>2. \A p \in Procs : ~Kill(p)
  BY DEF Kill
<1> QED
  BY <1>1, <1>2, AloneRead, AloneMove, AloneRename, AloneAside, AloneApply DEF Next, Step
-----------------------------------------------------------------------------
(* The theorems.                                                           *)

\* The types hold, every file that somebody is about to unlink has another one
\* above it, and the daemons alone leave one file at a time.
THEOREM Invariant == Spec => []Inv
<1>1. Init => Inv
  <2> SUFFICES ASSUME Init PROVE Inv
    OBVIOUS
  <2>1. TypeOK
    <3>1. Idle \in [how : Hows, from : Dirs, to : Dirs]
      BY DEF Idle, Hows, Dirs
    <3>2. file \subseteq Dirs /\ at \in [Procs -> Places] /\ job \in [Procs -> [how : Hows, from : Dirs, to : Dirs]]
      BY <3>1 DEF Init, Dirs, Places
    <3>3. kills \in 0 .. MaxKills
      BY MoveAssumption DEF Init
    <3>4. {meddled, overtaken} \subseteq BOOLEAN
      BY DEF Init
    <3> QED
      BY <3>2, <3>3, <3>4 DEF TypeOK, Places, Hows
  <2>2. at = [p \in Procs |-> "idle"] /\ job = [p \in Procs |-> Idle] /\ file = {"pending"}
    BY DEF Init
  <2>3. Held
    BY <2>2 DEF Held, JobOK, MidMove
  <2>4. Kept
    BY <2>2 DEF Kept, Safe, Leaving, Cross, MidMove, Applied, Procs
  <2>5. Alone
    BY <2>2 DEF Alone, AloneSweep, Procs, Dirs
  <2> QED
    BY <2>1, <2>3, <2>4, <2>5 DEF Inv
<1>2. Inv /\ [Next]_vars => Inv'
  <2> SUFFICES ASSUME Inv, [Next]_vars PROVE Inv'
    OBVIOUS
  <2>1. CASE Next
    BY <2>1, HeldStep, KeptStep, AloneStep DEF Inv
  <2>2. CASE UNCHANGED vars
    <3>1. TypeOK' /\ Held'
      BY <2>2 DEF Inv, TypeOK, Held, JobOK, MidMove, vars
    <3>2. ~overtaken' => Kept'
      BY <2>2 DEF Inv, Kept, Safe, Leaving, Lasting, Cross, Applied, Queued, Quiet, MidMove, vars
    <3>3. ~meddled' => Alone'
      BY <2>2 DEF Inv, Alone, AloneSweep, vars
    <3> QED
      BY <3>1, <3>2, <3>3 DEF Inv
  <2> QED
    BY <2>1, <2>2
<1> QED
  BY <1>1, <1>2, PTL DEF Spec

\* The directories, places and moves of the processes stay among those named.
THEOREM TypeCorrect == Spec => []TypeOK
<1>1. Inv => TypeOK
  BY DEF Inv
<1> QED
  BY <1>1, Invariant, PTL

\* Whoever moves the task, in whatever order writes and unlinks fall and whoever
\* is killed in between, the task keeps a file; except after a mover has set out
\* to move a task that had left since it was read.
THEOREM TaskSurvives == Spec => []NeverLost
<1>1. Inv => NeverLost
  BY DEF Inv, Kept, NeverLost
<1> QED
  BY <1>1, Invariant, PTL

\* While only the daemons move the task and none is killed, it lies in one
\* directory, and in a second one between the write and the unlink of a move.
THEOREM DaemonsLeaveOne == Spec => []OneFile
<1>1. Inv => OneFile
  <2> SUFFICES ASSUME Inv, ~meddled
               PROVE  \E d \in file : file \subseteq {d} \cup {job[p].from : p \in {q \in Procs : at[q] = "written"}}
    BY DEF OneFile
  <2>1. Alone /\ Held /\ TypeOK
    BY DEF Inv
  <2>2. CASE at["sweep"] = "written"
    <3>1. \E d \in file : file \subseteq {d} \cup {job["sweep"].from}
      BY <2>1, <2>2 DEF Alone, AloneSweep
    <3>2. job["sweep"].from \in {job[p].from : p \in {q \in Procs : at[q] = "written"}}
      BY <2>2 DEF Procs
    <3> QED
      BY <3>1, <3>2
  <2>3. CASE at["sweep"] # "written"
    <3>1. at["sweep"] \in {"idle", "read", "ready", "aside"}
      BY <2>1, <2>3 DEF TypeOK, Held, JobOK, Procs
    <3>2. \E d : file = {d}
      BY <2>1, <3>1 DEF Alone, AloneSweep
    <3> QED
      BY <3>2
  <2> QED
    BY <2>2, <2>3
<1> QED
  BY <1>1, Invariant, PTL

\* A task that the expiry sweep set aside is on its way back, to apply or to the
\* archive, unless a process was killed or somebody else moves the task.
THEOREM StagingIsLeft == Spec => []NothingStranded
<1>1. Inv => NothingStranded
  <2> SUFFICES ASSUME Inv, "staging" \in file, ~meddled PROVE at["sweep"] = "aside"
    BY DEF NothingStranded
  <2>1. Alone /\ Held /\ TypeOK
    BY DEF Inv
  <2>2. at["sweep"] \in {"idle", "read", "ready", "written", "aside"}
    BY <2>1 DEF TypeOK, Held, JobOK, Procs
  <2>3. at["sweep"] \in {"read", "ready", "written"} =>
          job["sweep"].from # "staging" /\ job["sweep"].to # "staging"
    BY <2>1, HeldAllowed DEF Allowed, Procs
  <2> QED
    BY <2>1, <2>2, <2>3 DEF Alone, AloneSweep
<1> QED
  BY <1>1, Invariant, PTL
=============================================================================
