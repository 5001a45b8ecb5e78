------------------------- MODULE RollingBranchProofs -------------------------
(***************************************************************************)
(* Proofs about the apply stage for any set of tasks and any number of     *)
(* changes at origin, failed calls, conflicts and kills.                   *)
(*                                                                         *)
(* The argument is about work, not commits: a rebase gives every commit a  *)
(* new number and drops some, yet what the result carries is all that its  *)
(* two sides carried.  So what is at origin, or was discarded there, only  *)
(* grows, and a batch that was committed stays in the local branch until a *)
(* push has taken it to origin.                                            *)
(*                                                                         *)
(* The last part is about what sends a branch back once it is there: the   *)
(* readmission sweeps, for any times and bounds.  Their state is their own; *)
(* the two components share origin and the task, not variables.            *)
(***************************************************************************)
EXTENDS RollingBranch, FiniteSetTheorems, TLAPS

\* Commits with a number below n.
Below(n) == {k \in Nat : k < n} \X SUBSET Tasks

\* The commits a ref may reach while n is the next number.
Sound(r, n) == r \subseteq Below(n) /\ IsFiniteSet(r)

\* A ref that exists, and one that may be missing.
Exists(r, n) == Sound(r, n) /\ Root \subseteq r
MayExist(r, n) == Sound(r, n) /\ Ref(r)

Refs ==
  /\ next \in Nat \ {0}
  /\ Exists(main, next) /\ Exists(tmain, next)
  /\ MayExist(remote, next) /\ MayExist(track, next) /\ MayExist(local, next)
  /\ pc \in {"ready", "push", "retry", "pushed"} => Exists(local, next)

Control ==
  /\ task \in [Tasks -> {"approved", "blocked", "done"}]
  /\ pc \in {"idle", "fetch", "select", "ready", "push", "retry", "pushed", "failed"}
  /\ batch \subseteq {t \in Tasks : task[t] = "approved"} /\ (pc = "idle" <=> batch = {})
  /\ moves \in 0 .. MaxMoves /\ faults \in 0 .. MaxFaults

AtOrigin == Works(main) \cup Works(remote) \cup Works(discarded)

\* Where the work of the batch is while it is on its way.
InFlight == /\ pc \in {"push", "retry"} => batch \subseteq Works(local)
            /\ pc = "pushed" => batch \subseteq AtOrigin

Inv == Refs /\ Control /\ InFlight /\ DoneIsAtOrigin
-----------------------------------------------------------------------------
(* The work that refs carry.                                               *)

LEMMA WorksUnion ==
  ASSUME NEW a, NEW b
  PROVE  Works(a \cup b) = Works(a) \cup Works(b)
BY DEF Works

LEMMA WorksMonotone ==
  ASSUME NEW a, NEW b, a \subseteq b
  PROVE  Works(a) \subseteq Works(b)
BY DEF Works

LEMMA WorksOfOne ==
  ASSUME NEW n, NEW w
  PROVE  Works({<<n, w>>}) = w
BY DEF Works

\* A rebase loses no work of the two branches, whatever it drops and renumbers.
LEMMA RebaseKeepsWork ==
  ASSUME NEW from, NEW onto
  PROVE  Works(from) \cup Works(onto) \subseteq Works(Rebased(from, onto))
<1>1. onto \subseteq Rebased(from, onto)
  BY DEF Rebased
<1>2. ASSUME NEW t \in Works(from)
      PROVE  t \in Works(Rebased(from, onto))
  <2>1. PICK c \in from : t \in c[2]
    BY DEF Works
  <2>2. CASE c \in onto \/ c[2] \subseteq Works(onto)
    BY <1>1, <2>1, <2>2, WorksMonotone DEF Works
  <2>3. CASE c \notin onto /\ ~(c[2] \subseteq Works(onto))
    <3>1. <<next + c[1], c[2]>> \in Rebased(from, onto)
      BY <2>1, <2>3 DEF Rebased
    <3>2. QED
      BY <2>1, <3>1 DEF Works
  <2>4. QED
    BY <2>2, <2>3
<1>3. QED
  BY <1>1, <1>2, WorksMonotone
-----------------------------------------------------------------------------
(* The refs that steps build.                                              *)

\* Numbers only grow, so a ref stays sound.
LEMMA SoundLater ==
  ASSUME NEW n \in Nat, NEW m \in Nat, n <= m
  PROVE  /\ \A r : Sound(r, n) => Sound(r, m)
         /\ \A r : Exists(r, n) => Exists(r, m)
         /\ \A r : MayExist(r, n) => MayExist(r, m)
<1>1. Below(n) \subseteq Below(m)
  BY DEF Below
<1>2. QED
  BY <1>1 DEF Sound, Exists, MayExist

LEMMA RootExists ==
  ASSUME NEW n \in Nat \ {0}
  PROVE  Exists(Root, n)
<1>1. <<0, {}>> \in Below(n)
  BY DEF Below
<1>2. IsFiniteSet({<<0, {}>>})
  BY FS_Singleton
<1>3. QED
  BY <1>1, <1>2 DEF Exists, Sound, Root

\* A new commit.
LEMMA NewCommit ==
  ASSUME NEW r, NEW n \in Nat, Sound(r, n), NEW w \in SUBSET Tasks
  PROVE  /\ Sound(r \cup {<<n, w>>}, n + 1)
         /\ Root \subseteq r => Exists(r \cup {<<n, w>>}, n + 1)
<1>1. Sound(r, n + 1)
  BY SoundLater
<1>2. <<n, w>> \in Below(n + 1)
  BY DEF Below
<1>3. QED
  BY <1>1, <1>2, FS_AddElement DEF Sound, Exists

\* A merge.
LEMMA UnionSound ==
  ASSUME NEW a, NEW b, NEW n \in Nat, Sound(a, n), Sound(b, n)
  PROVE  Sound(a \cup b, n)
BY FS_Union DEF Sound

LEMMA WorksTyped ==
  ASSUME NEW r, NEW n \in Nat, Sound(r, n)
  PROVE  Works(r) \in SUBSET Tasks
BY DEF Sound, Below, Works

\* A rebase: the new numbers are fresh and the result is finite.
LEMMA RebaseExists ==
  ASSUME NEW from, NEW onto, next \in Nat \ {0}, Sound(from, next), Exists(onto, next)
  PROVE  Exists(Rebased(from, onto), 2 * next)
<1> DEFINE D == {d \in from \ onto : d[2] # {} /\ ~(d[2] \subseteq Works(onto))}
           f == [c \in D |-> <<next + c[1], c[2]>>]
           T == {<<next + c[1], c[2]>> : c \in D}
<1>1. Rebased(from, onto) = onto \cup T
  BY DEF Rebased
<1>2. Exists(onto, 2 * next)
  BY SoundLater
<1>3. T \subseteq Below(2 * next)
  <2> SUFFICES ASSUME NEW c \in D PROVE <<next + c[1], c[2]>> \in Below(2 * next)
    OBVIOUS
  <2>1. c[1] \in Nat /\ c[1] < next /\ c[2] \in SUBSET Tasks
    BY DEF Sound, Below
  <2>2. next + c[1] \in Nat /\ next + c[1] < 2 * next
    BY <2>1
  <2>3. QED
    BY <2>1, <2>2 DEF Below
<1>4. IsFiniteSet(T)
  <2>1. IsFiniteSet(D)
    BY FS_Subset DEF Sound
  <2>2. f \in Surjection(D, T)
    BY DEF Surjection
  <2>3. QED
    BY <2>1, <2>2, FS_Surjection
<1>5. IsFiniteSet(onto \cup T)
  BY <1>2, <1>4, FS_Union DEF Exists, Sound
<1>6. QED
  BY <1>1, <1>2, <1>3, <1>5 DEF Exists, Sound
-----------------------------------------------------------------------------
(* The steps, one after the other: what they leave of the refs.            *)

\* Steps that build no ref.
LEMMA RefsKept ==
  ASSUME Refs, UNCHANGED <<main, remote, tmain, track, local, next>>,
         pc' \in {"ready", "push", "retry", "pushed"} => Exists(local, next)
  PROVE  Refs'
BY DEF Refs

LEMMA BeginRefs ==
  ASSUME Refs, Begin
  PROVE  Refs'
BY DEF Refs, Begin, Origin

LEMMA FetchBranchRefs ==
  ASSUME Refs, FetchBranch
  PROVE  Refs'
BY DEF Refs, FetchBranch, Origin

\* origin/<branch> is brought up to main, or nothing is done.
LEMMA BringUpRefs ==
  ASSUME Refs, BringUpToMain, track # {}, UNCHANGED <<main, remote, track>>
  PROVE  Refs'
<1>1. Exists(track, next) /\ Sound(main, next) /\ next \in Nat \ {0}
  BY DEF Refs, MayExist, Exists, Ref
<1>2. CASE local' = track \cup main \cup {<<next, {}>>} /\ next' = next + 1
  <2>1. Sound(track \cup main, next) /\ Root \subseteq track \cup main
    BY <1>1, UnionSound DEF Exists
  <2>2. Exists(local', next')
    BY <1>1, <1>2, <2>1, NewCommit
  <2>3. next' \in Nat \ {0} /\ next <= next'
    BY <1>1, <1>2
  <2>4. QED
    BY <1>1, <2>2, <2>3, SoundLater DEF Refs, BringUpToMain, Exists, MayExist, Ref
<1>3. CASE local' = Rebased(track, main) /\ next' = 2 * next
  <2>1. Exists(local', next')
    BY <1>1, <1>3, RebaseExists DEF Refs, Exists
  <2>2. next' \in Nat \ {0} /\ next <= next'
    BY <1>1, <1>3
  <2>3. QED
    BY <1>1, <2>1, <2>2, SoundLater DEF Refs, BringUpToMain, Exists, MayExist, Ref
<1>4. CASE local' = track /\ UNCHANGED next
  BY <1>1, <1>4 DEF Refs, BringUpToMain
<1>5. QED
  BY <1>2, <1>3, <1>4 DEF BringUpToMain

LEMMA SelectRefs ==
  ASSUME Refs, Select
  PROVE  Refs'
<1>1. UNCHANGED <<main, remote, track>>
  BY DEF Select, Origin
<1>2. CASE local # {} /\ Sync(local) /\ UNCHANGED tmain
  BY <1>1, <1>2 DEF Refs, Sync, MayExist, Exists, Ref
<1>3. CASE track # {} /\ TwoSided
  BY <1>1, <1>3 DEF Refs, TwoSided, MayExist, Exists, Ref
<1>4. CASE track # {} /\ Sync(track) /\ tmain' = main
  BY <1>1, <1>4 DEF Refs, Sync, MayExist, Exists, Ref
<1>5. CASE track # {} /\ BringUpToMain
  BY <1>1, <1>5, BringUpRefs
<1>6. CASE Sync(main) /\ tmain' = main
  BY <1>1, <1>6 DEF Refs, Sync, MayExist, Exists, Ref
<1>7. QED
  BY <1>2, <1>3, <1>4, <1>5, <1>6 DEF Select

LEMMA CommitRefs ==
  ASSUME Refs, Control, Commit
  PROVE  Refs'
<1>1. /\ next \in Nat \ {0} /\ next' = next + 1 /\ next' \in Nat \ {0} /\ next <= next'
      /\ batch \in SUBSET Tasks /\ Exists(local, next)
  BY DEF Refs, Control, Commit
<1>2. Exists(local', next')
  <2>1. Sound(local, next) /\ Root \subseteq local /\ local' = local \cup {<<next, batch>>}
    BY <1>1 DEF Commit, Exists
  <2>2. QED
    BY <1>1, <2>1, NewCommit
<1>3. QED
  BY <1>1, <1>2, SoundLater DEF Refs, Commit, Origin, MayExist, Exists, Ref

LEMMA PushRefs ==
  ASSUME Refs, Push
  PROVE  Refs'
BY DEF Refs, Push, MayExist, Exists, Ref

LEMMA RetryPushRefs ==
  ASSUME Refs, RetryPush
  PROVE  Refs'
<1>1. CASE UNCHANGED <<remote, track, local, next>> /\ pc' = "failed"
  BY <1>1 DEF Refs, RetryPush
<1>2. ASSUME NEW onto \in {IF remote # {} THEN remote ELSE track} \ {{}},
             track' = onto, local' = Rebased(local, onto), next' = 2 * next,
             remote' = local' \/ UNCHANGED remote
      PROVE  Refs'
  <2>1. Exists(onto, next) /\ Exists(local, next) /\ next \in Nat \ {0}
    BY DEF Refs, RetryPush, MayExist, Exists, Ref
  <2>2. Exists(local', next')
    BY <1>2, <2>1, RebaseExists DEF Exists
  <2>3. next' \in Nat \ {0} /\ next <= next'
    BY <1>2, <2>1
  <2>4. Exists(track', next')
    BY <1>2, <2>1, <2>3, SoundLater
  <2>5. QED
    BY <1>2, <2>2, <2>3, <2>4, SoundLater DEF Refs, RetryPush, MayExist, Exists, Ref
<1>3. QED
  BY <1>1, <1>2 DEF RetryPush

\* What people and other writers do at origin.
LEMMA OriginRefs ==
  ASSUME Refs, MainMoves \/ OtherPush \/ Merge \/ Discard
  PROVE  Refs'
<1>1. CASE Discard
  BY <1>1, FS_EmptySet DEF Refs, Discard, Move, MayExist, Sound, Ref
<1>2. CASE MainMoves \/ OtherPush \/ Merge
  <2>1. /\ next \in Nat \ {0} /\ next' = next + 1 /\ next' \in Nat \ {0} /\ next <= next'
        /\ UNCHANGED <<tmain, track, local, pc>>
    BY <1>2 DEF Refs, MainMoves, OtherPush, Merge, Move
  <2>2. Sound(main, next) /\ Root \subseteq main /\ Sound(remote, next)
    BY DEF Refs, Exists, MayExist
  <2>3. Exists(main', next')
    <3>1. CASE UNCHANGED main
      BY <2>1, <2>2, <3>1, SoundLater DEF Exists
    <3>2. CASE main' = main \cup {<<next, {}>>}
      BY <2>1, <2>2, <3>2, NewCommit
    <3>3. CASE main' = main \cup remote \cup {<<next, {}>>}
      BY <2>1, <2>2, <3>3, UnionSound, NewCommit
    <3>4. CASE main' = main \cup {<<next, Works(remote)>>}
      BY <2>1, <2>2, <3>4, WorksTyped, NewCommit
    <3>5. QED
      BY <1>2, <3>1, <3>2, <3>3, <3>4 DEF MainMoves, OtherPush, Merge
  <2>4. MayExist(remote', next')
    <3>1. CASE remote' \in {remote, {}}
      BY <2>1, <2>2, <3>1, SoundLater, FS_EmptySet DEF Refs, MayExist, Sound, Ref
    <3>2. CASE remote # {} /\ remote' = remote \cup {<<next, {}>>}
      BY <2>1, <2>2, <3>2, NewCommit DEF Refs, MayExist, Exists, Ref
    <3>3. QED
      BY <1>2, <3>1, <3>2 DEF MainMoves, OtherPush, Merge
  <2>5. QED
    BY <2>1, <2>3, <2>4, SoundLater DEF Refs
<1>3. QED
  BY <1>1, <1>2
-----------------------------------------------------------------------------
(* The work at origin.                                                     *)

\* No step takes work away from origin: a person's discard is accounted for, a push
\* or a rebase carries what origin had.
LEMMA OriginKeepsWork ==
  ASSUME Refs, [Next]_vars
  PROVE  AtOrigin \subseteq AtOrigin'
<1>1. CASE UNCHANGED <<main, remote, discarded>>
  BY <1>1 DEF AtOrigin
<1>2. CASE Push /\ Accepted /\ remote' = local
  BY <1>2, WorksMonotone DEF Push, Accepted, AtOrigin
<1>3. CASE RetryPush
  <2>1. Works(remote) \subseteq Works(remote')
    <3>1. CASE remote = {}
      BY <3>1 DEF Works
    <3>2. CASE remote # {} /\ remote' = Rebased(local, remote)
      BY <3>2, RebaseKeepsWork
    <3>3. CASE UNCHANGED remote
      BY <3>3
    <3>4. QED
      BY <1>3, <3>1, <3>2, <3>3 DEF RetryPush
  <2>2. QED
    BY <1>3, <2>1 DEF RetryPush, AtOrigin
<1>4. CASE MainMoves
  BY <1>4, WorksMonotone DEF MainMoves, AtOrigin
<1>5. CASE OtherPush
  BY <1>5, WorksMonotone DEF OtherPush, AtOrigin
<1>6. CASE Merge
  <2>1. Works(main) \cup Works(remote) \subseteq Works(main')
    <3>1. CASE main' = main \cup remote \cup {<<next, {}>>}
      BY <3>1, WorksMonotone
    <3>2. CASE main' = main \cup {<<next, Works(remote)>>}
      <4>1. Works(main') = Works(main) \cup Works({<<next, Works(remote)>>})
        BY <3>2, WorksUnion
      <4>2. QED
        BY <4>1, WorksOfOne
    <3>3. QED
      BY <1>6, <3>1, <3>2 DEF Merge
  <2>2. QED
    BY <1>6, <2>1 DEF Merge, AtOrigin
<1>7. CASE Discard
  <2>1. ASSUME NEW t \in Works(remote)
        PROVE  t \in AtOrigin'
    <3>1. PICK c \in remote : t \in c[2]
      BY DEF Works
    <3>2. CASE c \in main \/ c[2] \subseteq Works(main)
      BY <1>7, <3>1, <3>2 DEF Discard, AtOrigin, Works
    <3>3. CASE c \in remote \ main /\ ~(c[2] \subseteq Works(main))
      <4>1. c \in discarded'
        BY <1>7, <3>3 DEF Discard
      <4>2. QED
        BY <3>1, <4>1 DEF AtOrigin, Works
    <3>4. QED
      BY <3>1, <3>2, <3>3
  <2>2. Works(main) \cup Works(discarded) \subseteq AtOrigin'
    BY <1>7, WorksMonotone DEF Discard, AtOrigin
  <2>3. QED
    BY <2>1, <2>2 DEF AtOrigin
<1>8. QED
  BY <1>1, <1>2, <1>3, <1>4, <1>5, <1>6, <1>7
     DEF Next, Apply, Begin, FetchBranch, Select, Commit, Push, Finish, Kill, Reapprove, Origin, vars

\* The batch is in the local branch from its commit until the push, a rebase on the
\* way included, and then at origin.
LEMMA InFlightKept ==
  ASSUME Inv, [Next]_vars
  PROVE  InFlight'
<1>1. AtOrigin \subseteq AtOrigin'
  BY OriginKeepsWork DEF Inv
<1>2. CASE Commit
  <2>1. local' = local \cup {<<next, batch>>} /\ UNCHANGED batch /\ pc' = "push"
    BY <1>2 DEF Commit
  <2>2. Works(local') = Works(local) \cup Works({<<next, batch>>})
    BY <2>1, WorksUnion
  <2>3. batch \subseteq Works(local')
    BY <2>2, WorksOfOne
  <2>4. QED
    BY <2>1, <2>3 DEF InFlight
<1>3. CASE Push
  <2>1. batch \subseteq Works(local) /\ UNCHANGED <<batch, local>>
    BY <1>3 DEF Inv, InFlight, Push
  <2>2. CASE pc' = "pushed" /\ remote' = local
    BY <2>1, <2>2 DEF InFlight, AtOrigin
  <2>3. CASE pc' = "retry"
    BY <2>1, <2>3 DEF InFlight
  <2>4. QED
    BY <1>3, <2>2, <2>3 DEF Push
<1>4. CASE RetryPush
  <2>1. batch \subseteq Works(local) /\ UNCHANGED batch
    BY <1>4 DEF Inv, InFlight, RetryPush
  <2>2. CASE pc' = "failed"
    BY <2>2 DEF InFlight
  <2>3. CASE pc' = "pushed" /\ remote' = local' /\ \E onto : local' = Rebased(local, onto)
    <3>1. batch \subseteq Works(local')
      BY <2>1, <2>3, RebaseKeepsWork
    <3>2. QED
      BY <2>1, <2>3, <3>1 DEF InFlight, AtOrigin
  <2>4. QED
    BY <1>4, <2>2, <2>3 DEF RetryPush
<1>5. CASE UNCHANGED <<pc, batch, local>>
  BY <1>1, <1>5 DEF Inv, InFlight
<1>6. CASE pc' \notin {"push", "retry", "pushed"}
  BY <1>6 DEF InFlight
<1>7. QED
  BY <1>2, <1>3, <1>4, <1>5, <1>6
     DEF Next, Apply, Begin, FetchBranch, Select, TwoSided, BringUpToMain, Sync, Finish, Kill,
         Reapprove, Clone, MainMoves, OtherPush, Merge, Discard, Move, vars

\* A task comes to done/ with a batch that was pushed, and what is at origin stays.
LEMMA DoneKept ==
  ASSUME Inv, [Next]_vars
  PROVE  DoneIsAtOrigin'
<1>1. AtOrigin \subseteq AtOrigin'
  BY OriginKeepsWork DEF Inv
<1>2. ASSUME NEW t \in Tasks, task'[t] = "done"
      PROVE  t \in AtOrigin
  <2>1. CASE task[t] = "done"
    BY <2>1 DEF Inv, DoneIsAtOrigin, AtOrigin
  <2>2. CASE task[t] # "done"
    <3>1. Finish /\ pc = "pushed" /\ t \in batch
      BY <1>2, <2>2 DEF Inv, Control, Next, Apply, Begin, FetchBranch, Select, Commit, Push, RetryPush,
         Finish, FailedGoesTo, Kill, Reapprove, MainMoves, OtherPush, Merge, Discard, Move, vars
    <3>2. QED
      BY <3>1 DEF Inv, InFlight
  <2>3. QED
    BY <2>1, <2>2
<1>3. QED
  BY <1>1, <1>2 DEF DoneIsAtOrigin, AtOrigin
-----------------------------------------------------------------------------
(* The task files and the apply process.                                   *)

LEMMA ControlKept ==
  ASSUME Control, [Next]_vars
  PROVE  Control'
<1> USE BranchAssumption
<1>1. CASE Begin
  <2>1. batch' \in SUBSET {t \in Tasks : task[t] = "approved"} /\ batch' # {}
    BY <1>1 DEF Begin, Batches
  <2>2. faults' \in 0 .. MaxFaults
    BY <1>1 DEF Control, Begin, Fault, NoFault
  <2>3. UNCHANGED <<task, moves>> /\ pc' \in {"fetch", "failed"}
    BY <1>1 DEF Begin, Origin
  <2>4. QED
    BY <2>1, <2>2, <2>3 DEF Control
<1>2. CASE FetchBranch
  BY <1>2 DEF Control, FetchBranch, Origin, Fault, NoFault
<1>3. CASE Select
  <2>1. UNCHANGED <<task, batch, moves>> /\ pc' \in {"ready", "failed"} /\ pc = "select"
    BY <1>3 DEF Select, TwoSided, BringUpToMain, Sync, Origin
  <2>2. faults' \in 0 .. MaxFaults
    BY <1>3 DEF Control, Select, BringUpToMain, Fault, NoFault
  <2>3. QED
    BY <2>1, <2>2 DEF Control
<1>4. CASE Commit
  BY <1>4 DEF Control, Commit, Origin
<1>5. CASE Push
  BY <1>5 DEF Control, Push, Fault, NoFault
<1>6. CASE RetryPush
  <2>1. UNCHANGED <<task, batch, moves>> /\ pc' \in {"pushed", "failed"} /\ pc = "retry"
    BY <1>6 DEF RetryPush
  <2>2. faults' \in 0 .. MaxFaults
    BY <1>6 DEF Control, RetryPush, Fault, NoFault
  <2>3. QED
    BY <2>1, <2>2 DEF Control
<1>7. CASE Finish
  <2>1. task' \in [Tasks -> {"approved", "blocked", "done"}]
    BY <1>7 DEF Control, Finish, FailedGoesTo
  <2>2. QED
    BY <1>7, <2>1 DEF Control, Finish, Origin
<1>8. CASE Kill
  BY <1>8 DEF Control, Kill, Origin, Fault
<1>9. CASE \E t \in Tasks : Reapprove(t)
  BY <1>9 DEF Control, Reapprove, Origin
<1>10. CASE MainMoves \/ OtherPush \/ Merge \/ Discard
  BY <1>10 DEF Control, MainMoves, OtherPush, Merge, Discard, Move
<1>11. CASE UNCHANGED vars
  BY <1>11 DEF Control, vars
<1>12. QED
  BY <1>1, <1>2, <1>3, <1>4, <1>5, <1>6, <1>7, <1>8, <1>9, <1>10, <1>11 DEF Next, Apply

LEMMA RefsStep ==
  ASSUME Refs, Control, [Next]_vars
  PROVE  Refs'
<1>1. CASE Finish
  BY <1>1 DEF Refs, Finish, Origin, Clone
<1>2. CASE Kill
  BY <1>2 DEF Refs, Kill, Origin, Clone
<1>3. CASE \E t \in Tasks : Reapprove(t)
  BY <1>3 DEF Refs, Reapprove, Origin, Clone
<1>4. CASE UNCHANGED vars
  BY <1>4 DEF Refs, vars
<1>5. QED
  BY <1>1, <1>2, <1>3, <1>4, BeginRefs, FetchBranchRefs, SelectRefs, CommitRefs, PushRefs,
     RetryPushRefs, OriginRefs DEF Next, Apply
-----------------------------------------------------------------------------
\* The inductive invariant: what refs reach is sound, the work of the batch is where
\* its step says, and the work of every finished task is at origin.
THEOREM Invariant == Spec => []Inv
<1>1. Init => Inv
  <2> SUFFICES ASSUME Init PROVE Inv
    OBVIOUS
  <2>1. Exists(Root, 1)
    BY RootExists
  <2>2. MayExist({}, 1)
    BY FS_EmptySet DEF MayExist, Sound, Ref
  <2>3. Refs
    BY <2>1, <2>2 DEF Init, Refs
  <2>4. Control
    BY BranchAssumption DEF Init, Control
  <2>5. InFlight /\ DoneIsAtOrigin
    BY DEF Init, InFlight, DoneIsAtOrigin
  <2>6. QED
    BY <2>3, <2>4, <2>5 DEF Inv
<1>2. Inv /\ [Next]_vars => Inv'
  BY RefsStep, ControlKept, InFlightKept, DoneKept DEF Inv
<1>3. QED
  BY <1>1, <1>2, PTL DEF Spec

\* The refs of origin and of the clone are missing or grown from the first commit,
\* finite, and free of commits nobody has made yet (prepareStackedBranch, pushBranch).
THEOREM TypeCorrect == Spec => []TypeOK
<1>1. Inv => TypeOK
  <2> SUFFICES ASSUME Inv PROVE TypeOK
    OBVIOUS
  <2>1. ASSUME NEW r \in {main, remote, tmain, track, local}
        PROVE  Ref(r) /\ IsFiniteSet(r) /\ \A c \in r : c[1] < next /\ c[2] \subseteq Tasks
    BY DEF Inv, Refs, Exists, MayExist, Sound, Ref, Below
  <2>2. QED
    BY <2>1 DEF TypeOK, Inv, Control
<1>2. QED
  BY <1>1, Invariant, PTL

\* A task that recordApplyOutcome put into done/ has its work at origin, whatever
\* rebases, rescues, resets and kills happened before and happen after.
THEOREM DoneStaysAtOrigin == Spec => []DoneIsAtOrigin
<1>1. Inv => DoneIsAtOrigin
  BY DEF Inv
<1>2. QED
  BY <1>1, Invariant, PTL

\* While origin has the branch, no step of prepareStackedBranch or pushBranch loses
\* committed work that is not pushed yet.
THEOREM DivergedIsRescued == Spec => DivergedWorkIsRescued
<1>1. Inv /\ [Next]_vars => [(track' # {} /\ remote' = remote) => Kept \subseteq Kept']_vars
  <2> SUFFICES ASSUME Inv, [Next]_vars, track' # {}, remote' = remote
               PROVE  Kept \subseteq Kept'
    OBVIOUS
  <2>1. Works(main) \subseteq Works(main')
    BY WorksMonotone DEF Next, Apply, Begin, FetchBranch, Select, Commit, Push, RetryPush, Finish, Kill,
       Reapprove, Origin, MainMoves, OtherPush, Merge, Discard, vars
  <2>2. Works(rescued) \subseteq Works(rescued')
    BY WorksMonotone DEF Next, Apply, Begin, FetchBranch, Select, TwoSided, Rescue, BringUpToMain, Sync,
       Commit, Push, RetryPush, Finish, Kill, Reapprove, Clone, MainMoves, OtherPush, Merge, Discard,
       Move, vars
  <2>3. Works(local) \subseteq Works(local') \cup Works(rescued')
    <3>1. CASE UNCHANGED local
      BY <3>1
    <3>2. CASE Commit
      BY <3>2, WorksMonotone DEF Commit
    <3>3. CASE \E onto : local' = Rebased(local, onto)
      BY <3>3, RebaseKeepsWork
    <3>4. CASE Select
      <4>1. UNCHANGED track
        BY <3>4 DEF Select
      <4>2. CASE TwoSided
        <5>1. CASE rescued' = Rescue(local)
          BY <5>1, WorksMonotone DEF Rescue
        <5>2. CASE Works(local \ track) \subseteq Works(track) /\ local' = track
          <6>1. Works(local) \subseteq Works(local \ track) \cup Works(track)
            BY DEF Works
          <6>2. QED
            BY <5>2, <6>1
        <5>3. QED
          BY <4>2, <5>1, <5>2 DEF TwoSided
      <4>3. CASE local \subseteq track /\ track \subseteq local'
        BY <4>3, WorksMonotone
      <4>4. CASE local \subseteq track /\ local' = Rebased(track, main)
        BY <4>4, WorksMonotone, RebaseKeepsWork
      <4>5. CASE Sync(local)
        BY <4>5 DEF Sync
      <4>6. QED
        BY <3>4, <4>1, <4>2, <4>3, <4>4, <4>5 DEF Select, BringUpToMain, Sync
    <3>5. QED
      BY <3>1, <3>2, <3>3, <3>4 DEF Next, Apply, Begin, FetchBranch, Push, RetryPush, Finish, Kill,
         Reapprove, Clone, MainMoves, OtherPush, Merge, Discard, Move, vars
  <2>4. QED
    BY <2>1, <2>2, <2>3 DEF Kept
<1>2. QED
  BY <1>1, Invariant, PTL DEF Spec, DivergedWorkIsRescued
-----------------------------------------------------------------------------
(***************************************************************************)
(* The readmission sweeps.  What a sweep has sighted is remembered by its  *)
(* number, of the commit and of the verdict, and every new cause has a new *)
(* number, unless it is the redraft count or a conflict that ended, which  *)
(* no sighting outlives.  So a sighting of what is there now is no older   *)
(* than the cause.                                                         *)
(***************************************************************************)
CONSTANTS Separate, Settle, MaxIdle, Grace, MaxHeads, MaxVerdicts
VARIABLES place, head, commits, conflict, verdict, stamp, readmits, unread, waited, gate, scan, sight,
          step, seen, verdicts, mainMoves, mishaps, stood

R == INSTANCE Readmission WITH pc <- step, moves <- mainMoves, faults <- mishaps

Sights == [head : 0 .. MaxHeads, no : 0 .. MaxVerdicts, age : 0 .. Settle]

SweepTypes ==
  /\ R!TypeOK
  /\ seen \in [begun : BOOLEAN, looks : BOOLEAN, verdict : R!Verdicts]
  /\ verdicts \in 0 .. MaxVerdicts

\* A verdict that is already known, while a newer one may be on its way to the task.
Known(n) == n <= verdicts /\ (stamp # R!None => n < verdicts)

Numbers ==
  /\ head <= commits /\ \A s \in R!Sweeps : sight[s].head <= commits
  /\ Known(verdict.no) /\ Known(seen.verdict.no) /\ Known(sight["defect"].no)
  /\ stamp # R!None => stamp.no = verdicts

\* The sighting of a cause that is still there is no older than the cause.
Aged ==
  /\ /\ readmits = 0 /\ head # 0 /\ verdict.kind = "defect" /\ verdict.head = head
     /\ sight["defect"].head = head /\ sight["defect"].no = verdict.no
     => sight["defect"].age <= stood["defect"]
  /\ head # 0 /\ sight["conflict"].head = head => conflict /\ sight["conflict"].age <= stood["conflict"]

SweepInv == SweepTypes /\ Numbers /\ Aged

LEMMA UpFacts ==
  \A max \in Nat : \A n \in 0 .. max :
    R!Up(n, max) \in 0 .. max /\ \A m \in 0 .. n : R!Up(m, max) <= R!Up(n, max)
BY DEF R!Up

LEMMA TypesOf ==
  ASSUME R!ReadmissionAssumption
  PROVE  /\ {Settle, MaxIdle, Grace, MaxHeads, MaxVerdicts} \subseteq Nat /\ MaxHeads > 0
         /\ R!None \in R!Verdicts /\ R!NoSight \in Sights /\ R!Unread.verdict = R!None
         /\ R!Unread \in [begun : BOOLEAN, looks : BOOLEAN, verdict : R!Verdicts]
BY DEF R!ReadmissionAssumption, R!None, R!NoSight, R!Unread, R!Verdicts, Sights

LEMMA TypeFacts ==
  ASSUME R!ReadmissionAssumption, SweepTypes
  PROVE  /\ head \in Nat /\ commits \in Nat /\ verdicts \in Nat /\ readmits \in Nat /\ Settle \in Nat
         /\ verdict \in R!Verdicts /\ stamp \in R!Verdicts /\ seen.verdict \in R!Verdicts
         /\ sight \in [R!Sweeps -> Sights]
         /\ stood \in [R!Sweeps -> 0 .. Settle]
<1>1. /\ head \in 0 .. MaxHeads /\ commits \in 1 .. MaxHeads
      /\ verdicts \in 0 .. MaxVerdicts /\ readmits \in 0 .. 1
  BY DEF SweepTypes, R!TypeOK
<1>2. head \in Nat /\ commits \in Nat /\ verdicts \in Nat /\ readmits \in Nat /\ Settle \in Nat
  BY <1>1, TypesOf
<1> QED
  BY <1>2 DEF SweepTypes, R!TypeOK, Sights

LEMMA SweepInit == ASSUME R!ReadmissionAssumption, R!Init PROVE SweepInv
<1>1. SweepTypes
  <2>1. gate = [changed |-> TRUE, age |-> MaxIdle] /\ MaxIdle \in 0 .. MaxIdle /\ TRUE \in BOOLEAN
    BY TypesOf DEF R!Init
  <2>2. gate \in [changed : BOOLEAN, age : 0 .. MaxIdle]
    BY <2>1
  <2>3. /\ scan \in [R!Sweeps -> 0 .. MaxIdle] /\ unread \in [R!Sweeps -> BOOLEAN]
        /\ sight \in [R!Sweeps -> Sights] /\ stood \in [R!Sweeps -> 0 .. Settle]
    BY TypesOf DEF R!Init
  <2>4. head \in 0 .. MaxHeads /\ commits \in 1 .. MaxHeads /\ waited \in 0 .. Grace
        /\ verdicts \in 0 .. MaxVerdicts /\ readmits \in 0 .. 1
    BY TypesOf DEF R!Init
  <2>5. /\ seen = R!Unread /\ verdict = R!None /\ stamp = R!None
        /\ seen \in [begun : BOOLEAN, looks : BOOLEAN, verdict : R!Verdicts]
    BY TypesOf DEF R!Init
  <2>6. step = "idle" /\ place = "done" /\ conflict = FALSE
    BY DEF R!Init
  <2>7. seen.begun \in BOOLEAN /\ seen.looks \in BOOLEAN /\ seen.verdict = R!None
    BY <2>5, TypesOf
  <2> QED
    BY <2>2, <2>3, <2>4, <2>5, <2>6, <2>7, TypesOf DEF SweepTypes, R!TypeOK, Sights
<1>2. Numbers
  BY DEF R!Init, Numbers, Known, R!None, R!NoSight, R!Unread, R!Sweeps
<1>3. Aged
  BY DEF R!Init, Aged, R!NoSight, R!Sweeps, R!None
<1> QED
  BY <1>1, <1>2, <1>3 DEF SweepInv
-----------------------------------------------------------------------------
(* How a step may change each part of the state.                           *)

Older(s) == [sight[s] EXCEPT !.age = IF sight[s].head = 0 THEN 0 ELSE R!Up(@, Settle)]
Fresh(s) == [head |-> head, no |-> seen.verdict.no, age |-> 0]

\* The gate, the journal and the clocks of the sweeps.
LEMMA ClockChanges ==
  ASSUME R!Next
  PROVE  /\ gate' \in {gate, [gate EXCEPT !.changed = TRUE], [changed |-> FALSE, age |-> 0],
                       [gate EXCEPT !.age = R!Up(gate.age, MaxIdle)]}
         /\ \/ scan' = scan \/ \E s \in R!Sweeps : scan' = [scan EXCEPT ![s] = 0]
            \/ scan' = [s \in R!Sweeps |-> R!Up(scan[s], MaxIdle)]
         /\ unread' = unread \/ \E s \in R!Sweeps, b \in BOOLEAN : unread' = [unread EXCEPT ![s] = b]
         /\ waited' \in {waited, 0, R!Up(waited, Grace)}
         /\ \/ \E S \in SUBSET R!Sweeps : stood' = [s \in R!Sweeps |-> IF s \in S THEN 0 ELSE stood[s]]
            \/ stood' = stood \/ stood' = [s \in R!Sweeps |-> R!Up(stood[s], Settle)]
<1> USE DEF R!Next, R!Watchdog, R!Others, R!Sweep, R!Tick, R!Ask, R!CheckFails, R!Begin, R!Passes,
            R!Dismiss, R!Observe, R!GivesUp, R!Readmit, R!RecordVerdict, R!StampTask, R!MainMoves,
            R!Push, R!Merge, R!Redraft, R!Quietly
<1>1. gate' \in {gate, [gate EXCEPT !.changed = TRUE], [changed |-> FALSE, age |-> 0],
                 [gate EXCEPT !.age = R!Up(gate.age, MaxIdle)]}
  BY DEF R!Changed
<1>2. \/ scan' = scan \/ \E s \in R!Sweeps : scan' = [scan EXCEPT ![s] = 0]
      \/ scan' = [s \in R!Sweeps |-> R!Up(scan[s], MaxIdle)]
  BY DEF R!Scanned
<1>3. unread' = unread \/ \E s \in R!Sweeps, b \in BOOLEAN : unread' = [unread EXCEPT ![s] = b]
  BY DEF R!Consumed, R!Announce, R!Sweeps
<1>4. waited' \in {waited, 0, R!Up(waited, Grace)}
  OBVIOUS
<1>5. \/ \E S \in SUBSET R!Sweeps : stood' = [s \in R!Sweeps |-> IF s \in S THEN 0 ELSE stood[s]]
      \/ stood' = stood \/ stood' = [s \in R!Sweeps |-> R!Up(stood[s], Settle)]
  BY DEF R!NewCause, R!Sweeps
<1> QED
  BY <1>1, <1>2, <1>3, <1>4, <1>5

\* The branch, the verdicts on it, and what a sweep has read and sighted.
LEMMA CauseChanges ==
  ASSUME R!Next
  PROVE  /\ \/ head' \in {0, head} /\ commits' = commits
            \/ commits < MaxHeads /\ head' = commits + 1 /\ commits' = commits + 1
         /\ \/ UNCHANGED <<stamp, verdicts>>
            \/ R!StampTask
            \/ /\ stamp = R!None /\ verdicts < MaxVerdicts /\ verdicts' = verdicts + 1
               /\ stamp' = [kind |-> "defect", head |-> head, no |-> verdicts + 1]
         /\ \/ UNCHANGED <<verdict, readmits>>
            \/ R!StampTask
            \/ verdict' = seen.verdict /\ readmits = 0 /\ readmits' = readmits + 1
            \/ verdict' = [kind |-> "moved", head |-> head, no |-> 0] /\ UNCHANGED readmits
         /\ \/ seen' \in {seen, R!Unread}
            \/ \E s \in R!Sweeps : seen' = [begun |-> TRUE, looks |-> R!Examines(s), verdict |-> verdict]
         /\ \/ sight' = sight \/ sight' = [s \in R!Sweeps |-> Older(s)]
            \/ \E s \in R!Sweeps : \E x \in {R!NoSight, Fresh(s), sight[s]} : sight' = [sight EXCEPT ![s] = x]
<1> USE DEF R!Next, R!Watchdog, R!Others, R!Sweep, R!Tick, R!Ask, R!CheckFails, R!Begin, R!Passes,
            R!Dismiss, R!Observe, R!GivesUp, R!Readmit, R!RecordVerdict, R!MainMoves, R!Push, R!Merge,
            R!Redraft, R!Quietly, R!env
<1>1. \/ head' \in {0, head} /\ commits' = commits
      \/ commits < MaxHeads /\ head' = commits + 1 /\ commits' = commits + 1
  BY DEF R!StampTask
<1>2. \/ UNCHANGED <<stamp, verdicts>>
      \/ R!StampTask
      \/ /\ stamp = R!None /\ verdicts < MaxVerdicts /\ verdicts' = verdicts + 1
         /\ stamp' = [kind |-> "defect", head |-> head, no |-> verdicts + 1]
  OBVIOUS
<1>3. \/ UNCHANGED <<verdict, readmits>>
      \/ R!StampTask
      \/ verdict' = seen.verdict /\ readmits = 0 /\ readmits' = readmits + 1
      \/ verdict' = [kind |-> "moved", head |-> head, no |-> 0] /\ UNCHANGED readmits
  BY DEF R!Stands, R!DefectStands
<1>4. \/ seen' \in {seen, R!Unread}
      \/ \E s \in R!Sweeps : seen' = [begun |-> TRUE, looks |-> R!Examines(s), verdict |-> verdict]
  BY DEF R!Done, R!StampTask
<1>5. \/ sight' = sight \/ sight' = [s \in R!Sweeps |-> Older(s)]
      \/ \E s \in R!Sweeps : \E x \in {R!NoSight, Fresh(s), sight[s]} : sight' = [sight EXCEPT ![s] = x]
  BY DEF R!Remember, Older, Fresh, R!StampTask
<1> QED
  BY <1>1, <1>2, <1>3, <1>4, <1>5
-----------------------------------------------------------------------------
(* Types.                                                                  *)

LEMMA ClocksKept ==
  ASSUME R!ReadmissionAssumption, SweepTypes, R!Next
  PROVE  /\ gate' \in [changed : BOOLEAN, age : 0 .. MaxIdle]
         /\ scan' \in [R!Sweeps -> 0 .. MaxIdle]
         /\ unread' \in [R!Sweeps -> BOOLEAN] /\ waited' \in 0 .. Grace
         /\ stood' \in [R!Sweeps -> 0 .. Settle]
<1>0. /\ gate \in [changed : BOOLEAN, age : 0 .. MaxIdle]
      /\ scan \in [R!Sweeps -> 0 .. MaxIdle]
      /\ unread \in [R!Sweeps -> BOOLEAN] /\ waited \in 0 .. Grace
      /\ stood \in [R!Sweeps -> 0 .. Settle]
  BY DEF SweepTypes, R!TypeOK
<1>1. 0 \in 0 .. MaxIdle /\ 0 \in 0 .. Grace /\ 0 \in 0 .. Settle
  BY TypesOf
<1>2. /\ R!Up(gate.age, MaxIdle) \in 0 .. MaxIdle /\ R!Up(waited, Grace) \in 0 .. Grace
      /\ \A s \in R!Sweeps : R!Up(scan[s], MaxIdle) \in 0 .. MaxIdle /\ R!Up(stood[s], Settle) \in 0 .. Settle
  BY <1>0, UpFacts, TypesOf
<1>3. gate' \in [changed : BOOLEAN, age : 0 .. MaxIdle]
  <2>1. [changed |-> FALSE, age |-> 0] \in [changed : BOOLEAN, age : 0 .. MaxIdle]
    BY <1>1, Zenon
  <2>2. /\ [gate EXCEPT !.changed = TRUE] \in [changed : BOOLEAN, age : 0 .. MaxIdle]
        /\ [gate EXCEPT !.age = R!Up(gate.age, MaxIdle)] \in [changed : BOOLEAN, age : 0 .. MaxIdle]
    BY <1>0, <1>2
  <2> QED
    BY <1>0, <2>1, <2>2, ClockChanges
<1>4. scan' \in [R!Sweeps -> 0 .. MaxIdle] /\ stood' \in [R!Sweeps -> 0 .. Settle]
  BY <1>0, <1>1, <1>2, ClockChanges
<1>5. unread' \in [R!Sweeps -> BOOLEAN] /\ waited' \in 0 .. Grace
  BY <1>0, <1>1, <1>2, ClockChanges
<1> QED
  BY <1>3, <1>4, <1>5

LEMMA CausesKept ==
  ASSUME R!ReadmissionAssumption, SweepTypes, R!Next
  PROVE  /\ head' \in 0 .. MaxHeads /\ commits' \in 1 .. MaxHeads
         /\ verdict' \in R!Verdicts /\ stamp' \in R!Verdicts
         /\ verdicts' \in 0 .. MaxVerdicts /\ readmits' \in 0 .. 1
         /\ seen' \in [begun : BOOLEAN, looks : BOOLEAN, verdict : R!Verdicts]
         /\ sight' \in [R!Sweeps -> Sights]
<1>0. /\ head \in 0 .. MaxHeads /\ commits \in 1 .. MaxHeads
      /\ verdict \in R!Verdicts /\ stamp \in R!Verdicts /\ seen.verdict \in R!Verdicts
      /\ verdicts \in 0 .. MaxVerdicts /\ readmits \in 0 .. 1
      /\ seen \in [begun : BOOLEAN, looks : BOOLEAN, verdict : R!Verdicts]
      /\ sight \in [R!Sweeps -> Sights]
      /\ Settle \in Nat /\ MaxHeads \in Nat /\ MaxVerdicts \in Nat
  BY TypesOf DEF SweepTypes, R!TypeOK, Sights
<1>1. head' \in 0 .. MaxHeads /\ commits' \in 1 .. MaxHeads
  BY <1>0, CauseChanges
<1>2. verdicts' \in 0 .. MaxVerdicts /\ stamp' \in R!Verdicts
  BY <1>0, CauseChanges, TypesOf DEF R!Verdicts, R!StampTask
<1>3. verdict' \in R!Verdicts /\ readmits' \in 0 .. 1
  BY <1>0, CauseChanges DEF R!Verdicts, R!StampTask
<1>4. seen' \in [begun : BOOLEAN, looks : BOOLEAN, verdict : R!Verdicts]
  <2>1. \A s \in R!Sweeps : R!Examines(s) \in BOOLEAN
    BY <1>0 DEF R!Examines, R!FullScan, SweepTypes, R!TypeOK
  <2>2. ASSUME NEW s \in R!Sweeps
        PROVE  [begun |-> TRUE, looks |-> R!Examines(s), verdict |-> verdict]
                 \in [begun : BOOLEAN, looks : BOOLEAN, verdict : R!Verdicts]
    <3>1. R!Examines(s) \in BOOLEAN /\ verdict \in R!Verdicts
      BY <1>0, <2>1
    <3> QED
      BY <3>1, Zenon
  <2> QED
    BY <1>0, <2>2, CauseChanges, TypesOf
<1>5. sight' \in [R!Sweeps -> Sights]
  <2>1. \A s \in R!Sweeps : sight[s] \in Sights /\ Fresh(s) \in Sights
    BY <1>0 DEF Fresh, Sights, R!Verdicts
  <2>2. ASSUME NEW s \in R!Sweeps PROVE Older(s) \in Sights
    <3>1. sight[s].age \in 0 .. Settle /\ 0 \in 0 .. Settle
      BY <1>0, <2>1 DEF Sights
    <3>2. R!Up(sight[s].age, Settle) \in 0 .. Settle
      BY <1>0, <3>1, UpFacts
    <3> QED
      BY <2>1, <3>1, <3>2 DEF Older, Sights
  <2> QED
    BY <1>0, <2>1, <2>2, CauseChanges, TypesOf
<1> QED
  BY <1>1, <1>2, <1>3, <1>4, <1>5

LEMMA SweepTypesStep ==
  ASSUME R!ReadmissionAssumption, SweepTypes, R!Next
  PROVE  SweepTypes'
<1>1. /\ place \in {"done", "queued", "merged"} /\ conflict \in BOOLEAN
      /\ step \in {"idle", "gate", "gate again"} \cup R!Sweeps
  BY DEF SweepTypes, R!TypeOK
<1>2. place' \in {"done", "queued", "merged"} /\ conflict' \in BOOLEAN
  BY <1>1 DEF R!Next, R!Watchdog, R!Others, R!Sweep, R!Tick, R!Ask, R!CheckFails, R!Begin, R!Passes,
         R!Dismiss, R!Observe, R!GivesUp, R!Readmit, R!RecordVerdict, R!StampTask, R!MainMoves, R!Push,
         R!Merge, R!Redraft, R!Quietly, R!env
<1>3. step' \in {"idle", "gate", "gate again"} \cup R!Sweeps
  BY <1>1 DEF R!Next, R!Watchdog, R!Others, R!Sweep, R!Tick, R!Ask, R!CheckFails, R!Begin, R!Passes,
         R!Dismiss, R!Observe, R!GivesUp, R!Readmit, R!RecordVerdict, R!StampTask, R!MainMoves, R!Push,
         R!Merge, R!Redraft, R!Quietly, R!Goto,
         R!Done, R!After, R!First, R!Sweeps
<1>4. seen'.begun \in BOOLEAN /\ seen'.looks \in BOOLEAN /\ seen'.verdict \in R!Verdicts
  BY CausesKept
<1> QED
  BY <1>2, <1>3, <1>4, ClocksKept, CausesKept DEF SweepTypes, R!TypeOK, Sights
-----------------------------------------------------------------------------
(* Sightings and their causes.                                             *)

\* A commit is new when it is made, and so is a verdict: no sighting is of them.
LEMMA NumbersStep ==
  ASSUME R!ReadmissionAssumption, SweepTypes, Numbers, R!Next
  PROVE  Numbers'
<1>0. /\ head \in Nat /\ commits \in Nat /\ verdicts \in Nat
      /\ verdict \in R!Verdicts /\ stamp \in R!Verdicts /\ seen.verdict \in R!Verdicts
      /\ sight \in [R!Sweeps -> Sights]
  BY TypeFacts
<1>1. head' <= commits' /\ commits <= commits' /\ commits' \in Nat
  BY <1>0, CauseChanges DEF Numbers
<1>2. \A s \in R!Sweeps : /\ sight'[s].head \in {0, sight[s].head, head}
                          /\ sight'[s].no \in {0, sight[s].no, seen.verdict.no}
  BY <1>0, CauseChanges DEF R!NoSight, Sights, Older, Fresh
<1>3. \A s \in R!Sweeps : sight'[s].head <= commits'
  <2> TAKE s \in R!Sweeps
  <2>1. sight[s].head \in Nat /\ sight[s].head <= commits
    BY <1>0 DEF Numbers, Sights
  <2> QED
    BY <1>0, <1>1, <1>2, <2>1 DEF Numbers
<1>4. /\ 0 \in Nat /\ verdict.no \in Nat /\ seen.verdict.no \in Nat
      /\ "defect" \in R!Sweeps /\ sight["defect"].no \in Nat
  BY <1>0 DEF R!Sweeps, R!Verdicts, Sights
<1>5. Known(0) /\ Known(verdict.no) /\ Known(seen.verdict.no) /\ Known(sight["defect"].no)
  BY <1>0, <1>4 DEF Known, Numbers
<1>6. CASE R!StampTask
  <2>1. /\ verdict' = stamp /\ stamp' = R!None /\ stamp.no = verdicts
        /\ UNCHANGED <<verdicts, seen, sight>>
    BY <1>6 DEF R!StampTask, Numbers
  <2> QED
    BY <1>0, <1>1, <1>3, <1>5, <2>1 DEF Numbers, Known
<1>7. CASE ~R!StampTask
  <2>1. \A n \in {0, verdict.no, seen.verdict.no, sight["defect"].no} :
          n <= verdicts' /\ (stamp' # R!None => n < verdicts')
    BY <1>0, <1>4, <1>5, <1>7, CauseChanges DEF Known
  <2>2. stamp' # R!None => stamp'.no = verdicts'
    BY <1>7, CauseChanges DEF Numbers
  <2>3. Known(verdict.no)'
    BY <1>7, <2>1, CauseChanges DEF Known
  <2>4. Known(seen.verdict.no)'
    BY <2>1, CauseChanges DEF Known, R!Unread, R!None
  <2>5. Known(sight["defect"].no)'
    BY <1>2, <1>4, <2>1 DEF Known
  <2> QED
    BY <1>1, <1>3, <2>2, <2>3, <2>4, <2>5 DEF Numbers
<1> QED
  BY <1>6, <1>7

LEMMA AgedStep ==
  ASSUME R!ReadmissionAssumption, SweepTypes, Numbers, Aged, R!Next
  PROVE  Aged'
<1>0. /\ head \in Nat /\ commits \in Nat /\ verdicts \in Nat /\ Settle \in Nat
      /\ verdict \in R!Verdicts /\ stamp \in R!Verdicts /\ seen.verdict \in R!Verdicts
      /\ sight \in [R!Sweeps -> Sights]
      /\ stood \in [R!Sweeps -> 0 .. Settle]
  BY TypeFacts
<1>1. /\ "defect" \in R!Sweeps /\ "conflict" \in R!Sweeps /\ R!Sweeps = {"defect", "conflict"}
      /\ \A s \in R!Sweeps : sight[s].head \in Nat /\ sight[s].no \in Nat /\ sight[s].age \in 0 .. Settle
  BY <1>0 DEF R!Sweeps, Sights
<1>2. CASE R!Tick
  <2>1. /\ stood' = [s \in R!Sweeps |-> R!Up(stood[s], Settle)]
        /\ sight' = [s \in R!Sweeps |-> Older(s)]
        /\ UNCHANGED <<readmits, head, verdict, conflict>>
    BY <1>2 DEF R!Tick, R!env, Older
  <2>2. ASSUME NEW s \in R!Sweeps
        PROVE  /\ sight'[s].head = sight[s].head /\ sight'[s].no = sight[s].no
               /\ sight[s].head # 0 /\ sight[s].age <= stood[s] => sight'[s].age <= stood'[s]
    <3>1. sight[s] \in Sights
      BY <1>0
    <3>2. sight'[s].head = sight[s].head /\ sight'[s].no = sight[s].no
      BY <2>1, <3>1 DEF Older, Sights
    <3>3. ASSUME sight[s].head # 0, sight[s].age <= stood[s] PROVE sight'[s].age <= stood'[s]
      <4>1. sight'[s].age = R!Up(sight[s].age, Settle) /\ stood'[s] = R!Up(stood[s], Settle)
        BY <2>1, <3>1, <3>3 DEF Older, Sights
      <4>2. sight[s].age \in 0 .. stood[s] /\ stood[s] \in 0 .. Settle
        BY <1>0, <1>1, <3>3
      <4> QED
        BY <1>0, <4>1, <4>2, UpFacts
    <3> QED
      BY <3>2, <3>3
  <2> QED
    BY <1>1, <2>1, <2>2 DEF Aged
\* A new commit has not been sighted.
<1>3. CASE R!Push \/ R!Redraft
  <2>1. head' = commits + 1 /\ sight' = sight
    BY <1>3 DEF R!Push, R!Redraft
  <2> QED
    BY <1>0, <1>1, <2>1 DEF Aged, Numbers
\* Nor has a new verdict.
<1>4. CASE R!StampTask
  <2>1. verdict' = stamp /\ sight' = sight
        /\ sight["defect"].no # stamp.no
        /\ UNCHANGED <<readmits, head, conflict>> /\ stood'["conflict"] = stood["conflict"]
    BY <1>0, <1>1, <1>4 DEF R!StampTask, Numbers, Known, R!NewCause
  <2> QED
    BY <2>1 DEF Aged
\* A branch that has not conflicted was not sighted for it.
<1>5. CASE R!MainMoves
  <2>1. ~conflict /\ UNCHANGED <<sight, readmits, head, verdict>> /\ stood'["defect"] = stood["defect"]
    BY <1>1, <1>5 DEF R!MainMoves, R!NewCause
  <2> QED
    BY <2>1 DEF Aged
<1>6. CASE R!Merge \/ R!RecordVerdict
  BY <1>6 DEF R!Merge, R!RecordVerdict, Aged
<1>7. CASE R!Ask \/ R!CheckFails \/ \E s \in R!Sweeps : R!Begin(s) \/ R!GivesUp(s)
  BY <1>7 DEF R!Ask, R!CheckFails, R!Begin, R!GivesUp, R!Quietly, R!env, Aged
<1>8. ASSUME NEW s \in R!Sweeps, R!Passes(s) \/ R!Dismiss(s) PROVE Aged'
  <2>1. /\ sight' \in {sight, [sight EXCEPT ![s] = R!NoSight]}
        /\ UNCHANGED <<readmits, head, verdict, conflict, stood>>
    BY <1>8 DEF R!Passes, R!Dismiss, R!Remember, R!Quietly, R!env
  <2> QED
    BY <1>0, <1>1, <2>1 DEF Aged, R!NoSight
<1>9. ASSUME NEW s \in R!Sweeps, R!Observe(s) PROVE Aged'
  <2>1. UNCHANGED <<readmits, head, verdict, conflict, stood>> /\ R!Stands(s)
    BY <1>9 DEF R!Observe, R!Quietly, R!env
  <2>2. sight' = sight \/ sight' = [sight EXCEPT ![s] = [head |-> head, no |-> seen.verdict.no, age |-> 0]]
    <3>1. [sight EXCEPT ![s] = sight[s]] = sight
      BY <1>0
    <3> QED
      BY <1>9, <3>1 DEF R!Observe, R!Remember
  <2>3. s = "conflict" => conflict
    BY <2>1 DEF R!Stands, R!ConflictStands
  <2>4. CASE sight' = sight
    BY <2>1, <2>4 DEF Aged
  <2>5. CASE sight' = [sight EXCEPT ![s] = [head |-> head, no |-> seen.verdict.no, age |-> 0]]
    <3>1. sight'[s].age = 0 /\ \A r \in R!Sweeps : r # s => sight'[r] = sight[r]
      BY <1>0, <2>5
    <3>2. stood["defect"] >= 0 /\ stood["conflict"] >= 0
      BY <1>0, <1>1
    <3> QED
      BY <1>1, <2>1, <2>3, <3>1, <3>2 DEF Aged
  <2> QED
    BY <2>2, <2>4, <2>5
<1>10. ASSUME NEW s \in R!Sweeps, R!Readmit(s) PROVE Aged'
  <2>1. /\ sight' \in {sight, [sight EXCEPT ![s] = R!NoSight]} /\ UNCHANGED <<conflict, stood>>
        /\ head' \in {0, head}
        /\ readmits' = readmits + 1 \/ (verdict'.kind = "moved" /\ readmits' = readmits)
    BY <1>10 DEF R!Readmit, R!Remember
  <2>2. readmits \in Nat
    BY TypeFacts
  <2>3. sight'["conflict"] = sight["conflict"] \/ sight'["conflict"].head = 0
    BY <1>0, <1>1, <2>1 DEF R!NoSight
  <2>4. readmits' # 0 \/ verdict'.kind = "moved"
    BY <2>1, <2>2
  <2> QED
    BY <2>1, <2>3, <2>4 DEF Aged
<1> QED
  BY <1>2, <1>3, <1>4, <1>5, <1>6, <1>7, <1>8, <1>9, <1>10 DEF R!Next, R!Watchdog, R!Others, R!Sweep

LEMMA SweepStep == ASSUME R!ReadmissionAssumption, SweepInv, [R!Next]_R!vars PROVE SweepInv'
<1>1. CASE R!Next
  BY <1>1, SweepTypesStep, NumbersStep, AgedStep DEF SweepInv
<1>2. CASE UNCHANGED R!vars
  <2>1. UNCHANGED <<place, head, commits, conflict, verdict, stamp, verdicts, mainMoves, readmits, unread,
                    waited, gate, scan, sight, step, seen, mishaps, stood>>
    BY <1>2 DEF R!vars, R!env
  <2>2. SweepTypes'
    BY <2>1 DEF SweepInv, SweepTypes, R!TypeOK
  <2>3. Numbers' /\ Aged'
    BY <2>1 DEF SweepInv, Numbers, Known, Aged
  <2> QED
    BY <2>2, <2>3 DEF SweepInv
<1> QED
  BY <1>1, <1>2

\* The inductive invariant of the sweeps holds in every state.
THEOREM SweepInvariant ==
  ASSUME R!ReadmissionAssumption
  PROVE  R!Spec => []SweepInv
<1>1. R!Init => SweepInv
  BY SweepInit
<1>2. SweepInv /\ [R!Next]_R!vars => SweepInv'
  BY SweepStep
<1> QED
  BY <1>1, <1>2, PTL DEF R!Spec

\* Type correctness of the sweeps: a task is sent back for a defect at most once.
THEOREM SweepTypesCorrect ==
  ASSUME R!ReadmissionAssumption
  PROVE  R!Spec => []R!TypeOK
<1>1. SweepInv => R!TypeOK
  BY DEF SweepInv, SweepTypes
<1> QED
  BY <1>1, SweepInvariant, PTL

\* A branch is deleted for a redraft only for a cause that has stood, unchanged, for
\* the settling time, unless a verdict falls between a sweep's read and its act.
THEOREM RedraftsEarned ==
  ASSUME R!ReadmissionAssumption
  PROVE  R!Spec => R!RedraftsAreEarned
<1> DEFINE A == (\E s \in R!Sweeps : R!Readmit(s)) /\ seen.verdict = verdict
                => \/ step = "defect" /\ verdict.head = head /\ stood["defect"] >= Settle
                   \/ R!Acts("conflict") /\ conflict /\ stood["conflict"] >= Settle
<1>1. SweepInv /\ [R!Next]_R!vars => [A]_R!vars
  <2> SUFFICES ASSUME SweepInv, NEW s \in R!Sweeps, R!Readmit(s), seen.verdict = verdict
               PROVE  \/ step = "defect" /\ verdict.head = head /\ stood["defect"] >= Settle
                      \/ R!Acts("conflict") /\ conflict /\ stood["conflict"] >= Settle
    OBVIOUS
  <2>1. /\ sight[s].age \in Nat /\ stood[s] \in Nat /\ Settle \in Nat
        /\ R!Acts(s) /\ R!Stands(s) /\ R!Same(s) /\ sight[s].age >= Settle
    <3>1. sight \in [R!Sweeps -> Sights] /\ stood \in [R!Sweeps -> 0 .. Settle] /\ Settle \in Nat
      BY TypeFacts DEF SweepInv
    <3>2. R!Acts(s) /\ R!Stands(s) /\ R!Same(s) /\ sight[s].age >= Settle
      BY DEF R!Readmit
    <3> QED
      BY <3>1, <3>2 DEF Sights
  <2>2. CASE s = "defect"
    BY <2>1, <2>2 DEF R!Acts, R!Stands, R!DefectStands, R!Same, SweepInv, Aged
  <2>3. CASE s = "conflict"
    BY <2>1, <2>3 DEF R!Stands, R!ConflictStands, R!Same, SweepInv, Aged
  <2> QED
    BY <2>2, <2>3 DEF R!Sweeps
<1> QED
  BY <1>1, SweepInvariant, PTL DEF R!Spec, R!RedraftsAreEarned
=============================================================================
