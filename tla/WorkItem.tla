------------------------------ MODULE WorkItem ------------------------------
(***************************************************************************)
(* What a queue directory promises about one item in it, with none of the  *)
(* machinery (claims, renames, reclaims, checkpoints) that keeps the       *)
(* promise.                                                                *)
(*                                                                         *)
(* The item waits; a worker takes it, and nobody else has it until that    *)
(* worker files it, which is for good, or it is given back, by the worker  *)
(* or, when the worker is killed or preempted, for it.                     *)
(***************************************************************************)
CONSTANTS Workers,
          Waiting,    \* the place of an item that nobody has
          Outcomes    \* where an item is filed

VARIABLE place        \* Waiting, the worker that has the item, or its outcome

Init == place = Waiting

Take(w) == /\ place = Waiting
           /\ place' = w

GiveBack(w) == /\ place = w
               /\ place' = Waiting

File(w) == /\ place = w
           /\ place' \in Outcomes

Next == \E w \in Workers : Take(w) \/ GiveBack(w) \/ File(w)

Spec == Init /\ [][Next]_place
=============================================================================
