------------------------------- MODULE Mutex -------------------------------
(***************************************************************************)
(* What a caller of the single-flight lock is promised, with none of the   *)
(* machinery (tickets, markers, kernel locks) that keeps the promise.      *)
(*                                                                         *)
(* A process asks for the lock, and either enters, or gives up (the        *)
(* acquire timed out).  It may die at any time.  A process that dies       *)
(* inside may leave work running that still owns the lock (a model call    *)
(* started by a shell that has since been killed); the lock is free again  *)
(* only when that work has ended.                                          *)
(***************************************************************************)
CONSTANTS Procs, Nobody

VARIABLES phase,   \* phase[p]: what p is doing with the lock
          holder   \* the process whose work the lock protects, or Nobody

vars == <<phase, holder>>

Phases == {"out", "wanting", "in", "dead"}

TypeOK == /\ phase \in [Procs -> Phases]
          /\ holder \in Procs \cup {Nobody}

Init == /\ phase = [p \in Procs |-> "out"]
        /\ holder = Nobody

Ask(p) == /\ phase[p] = "out"
          /\ phase' = [phase EXCEPT ![p] = "wanting"]
          /\ UNCHANGED holder

Enter(p) == /\ phase[p] = "wanting"
            /\ holder = Nobody
            /\ phase' = [phase EXCEPT ![p] = "in"]
            /\ holder' = p

GiveUp(p) == /\ phase[p] = "wanting"
             /\ phase' = [phase EXCEPT ![p] = "out"]
             /\ UNCHANGED holder

Leave(p) == /\ phase[p] = "in"
            /\ phase' = [phase EXCEPT ![p] = "out"]
            /\ holder' = Nobody

\* A death releases the lock, or leaves orphaned work behind that keeps it.
Die(p) == /\ phase[p] # "dead"
          /\ phase' = [phase EXCEPT ![p] = "dead"]
          /\ \/ UNCHANGED holder
             \/ holder = p /\ holder' = Nobody

OrphanEnds(p) == /\ phase[p] = "dead"
                 /\ holder = p
                 /\ holder' = Nobody
                 /\ UNCHANGED phase

Next == \E p \in Procs : \/ Ask(p) \/ Enter(p) \/ GiveUp(p) \/ Leave(p)
                         \/ Die(p) \/ OrphanEnds(p)

Spec == Init /\ [][Next]_vars
=============================================================================
