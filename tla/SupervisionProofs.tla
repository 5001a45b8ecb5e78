-------------------------- MODULE SupervisionProofs --------------------------
(***************************************************************************)
(* Proofs about the supervision of an instance for every set of pids and   *)
(* any number of launches by hand, crashes and hangs.                      *)
(*                                                                         *)
(* The argument counts living processes, those that are still starting     *)
(* included, against one and the launches that have started a process.     *)
(* The watchdog adds a process only when one is missing: because the       *)
(* pidfile names a dead one, or because the heartbeat does and nobody is   *)
(* on the way to take it over.                                             *)
(***************************************************************************)
EXTENDS Supervision, FiniteSetTheorems, TLAPS

Living == {p \in Pids : Alive(p)}

\* Launches that have started their process.
Launched == IF launch THEN launches - 1 ELSE launches

\* One process is missing of those that the launches allow for.
Missing == Cardinality(Living) <= Launched

Counted ==
  /\ IsFiniteSet(Living) /\ Cardinality(Living) <= 1 + Launched
  /\ launch => launches # 0

\* The pidfile is written together with the start of a process.
PidfileTells == ~Alive(pidfile) => Missing

\* The heartbeat is written later: a process may be on the way to it.
HeartbeatTells == ~OwnerAlive => Missing \/ (cooldown /\ Coming # {})

\* A restart that is decided is still due when it is done.
PlanTells == /\ plan # Idle => cooldown
             /\ plan.step \in {"restart", "respawn"} => Missing

Inv == TypeOK /\ Counted /\ PidfileTells /\ HeartbeatTells /\ PlanTells

-----------------------------------------------------------------------------
(* How a step changes the number of living processes.                      *)

LEMMA LaunchedType ==
  ASSUME TypeOK, Counted
  PROVE  Launched \in Nat
BY ConstantsAssumption DEF TypeOK, Counted, Launched

LEMMA Steady ==
  ASSUME Living' = Living, UNCHANGED <<launch, launches>>
  PROVE  /\ Cardinality(Living)' = Cardinality(Living)
         /\ (IsFiniteSet(Living) <=> IsFiniteSet(Living)')
         /\ (Missing' <=> Missing) /\ (Counted' <=> Counted)
<1>1. Cardinality(Living)' = Cardinality(Living) /\ Launched' = Launched
  BY DEF Launched
<1>2. QED
  BY <1>1 DEF Missing, Counted

\* A new pid is not that of a living process: there is one more.
LEMMA Birth ==
  ASSUME TypeOK, Counted, NEW p \in Unused, proc' = [proc EXCEPT ![p] = "starting"]
  PROVE  /\ Living' = Living \cup {p} /\ p \notin Living
         /\ IsFiniteSet(Living') /\ Cardinality(Living') = Cardinality(Living) + 1
         /\ \A q \in Pids : Alive(q) => Alive(q)'
         /\ Alive(p)' /\ Coming' # {}
         /\ Cardinality(Living) \in Nat
<1>1. /\ Living' = Living \cup {p} /\ p \notin Living
      /\ \A q \in Pids : Alive(q) => Alive(q)'
      /\ Alive(p)' /\ p \in Coming'
  BY DEF TypeOK, Living, Alive, Unused, Coming
<1>2. QED
  BY <1>1, FS_AddElement, FS_CardinalityType DEF Counted

\* A process that dies leaves one missing.
LEMMA Death ==
  ASSUME TypeOK, Counted, UNCHANGED <<launch, launches>>,
         NEW p \in Pids, Alive(p), proc' = [proc EXCEPT ![p] = "free"]
  PROVE  Counted' /\ Missing'
<1>1. Living' = Living \ {p} /\ p \in Living
  BY DEF TypeOK, Living, Alive
<1>2. /\ IsFiniteSet(Living') /\ Cardinality(Living') = Cardinality(Living) - 1
      /\ Cardinality(Living) \in Nat
  BY <1>1, FS_RemoveElement, FS_CardinalityType DEF Counted
<1>3. Launched' = Launched /\ Launched \in Nat
  BY LaunchedType DEF Launched
<1>4. Cardinality(Living)' = Cardinality(Living')
  OBVIOUS
<1>5. QED
  BY <1>2, <1>3, <1>4 DEF Counted, Missing
-----------------------------------------------------------------------------
(* The type invariant.                                                     *)

LEMMA TypeKept ==
  ASSUME TypeOK, [Next]_vars
  PROVE  TypeOK'
<1> USE ConstantsAssumption DEF TypeOK, Lives, Ages, Steps
<1>1. ASSUME NEW p \in Pids, CheckLiveness(p)
      PROVE  TypeOK'
  BY <1>1 DEF CheckLiveness, bounds
<1>2. ASSUME NEW p \in Pids, FirstHeartbeat(p)
      PROVE  TypeOK'
  BY <1>2 DEF FirstHeartbeat, bounds
<1>3. ASSUME NEW p \in Pids, Heartbeat(p)
      PROVE  TypeOK'
  <2>1. heartbeat' \in [daemon : Pids, child : BOOLEAN, age : Ages]
    <3>1. CASE heartbeat' = [daemon |-> p, child |-> FALSE, age |-> "fresh"]
      BY <3>1
    <3>2. CASE heartbeat' = [daemon |-> heartbeat.daemon, child |-> TRUE, age |-> "fresh"]
      BY <3>2
    <3>3. QED
      BY <1>3, <3>1, <3>2 DEF Heartbeat
  <2>2. QED
    BY <1>3, <2>1 DEF Heartbeat, bounds
<1>4. ASSUME NEW p \in Pids, Hang(p)
      PROVE  TypeOK'
  BY <1>4 DEF Hang
<1>5. ASSUME NEW p \in Pids, Crash(p)
      PROVE  TypeOK'
  BY <1>5 DEF Crash
<1>6. CASE Silence
  BY <1>6 DEF Silence, bounds
<1>7. CASE Decide
  BY <1>7 DEF Decide, bounds
<1>8. CASE Recheck
  BY <1>8 DEF Recheck, Idle, bounds
<1>9. CASE KillZombie
  BY <1>9 DEF KillZombie, bounds
<1>10. CASE Respawn
  BY <1>10 DEF Respawn, Unused, Idle, bounds
<1>11. CASE CooldownEnds
  BY <1>11 DEF CooldownEnds, bounds
<1>12. CASE LaunchLooks
  BY <1>12 DEF LaunchLooks
<1>13. CASE LaunchStarts
  <2>1. PICK p \in Pids : proc' = [proc EXCEPT ![p] = "starting"] /\ pidfile' = p
    BY <1>13 DEF LaunchStarts, Unused
  <2>2. proc' \in [Pids -> Lives] /\ pidfile' \in Pids
    BY <2>1
  <2>3. QED
    BY <1>13, <2>2 DEF LaunchStarts, bounds
<1>14. CASE UNCHANGED vars
  BY <1>14 DEF vars, bounds
<1>15. QED
  BY <1>1, <1>2, <1>3, <1>4, <1>5, <1>6, <1>7, <1>8, <1>9, <1>10, <1>11, <1>12, <1>13, <1>14
     DEF Next, Watchdog
-----------------------------------------------------------------------------
(* The count.                                                              *)

\* What the files and the plan tell, of the two counts.
Tells == Counted /\ PidfileTells /\ HeartbeatTells /\ PlanTells

\* Wherever one is missing and no new plan is made, everything told is true.
LEMMA MissingTells ==
  ASSUME Counted', Missing', (plan # Idle => cooldown)'
  PROVE  Tells'
BY DEF Tells, PidfileTells, HeartbeatTells, PlanTells

\* A process exits when another daemon lives.
LEMMA CheckLivenessTells ==
  ASSUME Inv, NEW p \in Pids, CheckLiveness(p)
  PROVE  Tells'
<1>1. CASE heartbeat.daemon # p /\ Alive(heartbeat.daemon)
  <2>1. Counted' /\ Missing'
    BY <1>1, Death DEF Inv, CheckLiveness, Alive, bounds
  <2>2. QED
    BY <2>1, MissingTells DEF Inv, CheckLiveness, PlanTells
<1>2. CASE ~(heartbeat.daemon # p /\ Alive(heartbeat.daemon))
  <2>1. Living' = Living /\ Coming' = Coming /\ \A q \in Pids : Alive(q) = Alive(q)'
    BY <1>2 DEF Inv, TypeOK, CheckLiveness, Living, Coming, Alive
  <2>2. QED
    BY <2>1, Steady DEF Inv, TypeOK, CheckLiveness, Tells, PidfileTells, HeartbeatTells, PlanTells, OwnerAlive, bounds
<1>3. QED
  BY <1>1, <1>2

\* A daemon that takes over the heartbeat is alive.
LEMMA FirstHeartbeatTells ==
  ASSUME Inv, NEW p \in Pids, FirstHeartbeat(p)
  PROVE  Tells'
<1>1. Living' = Living /\ \A q \in Pids : Alive(q) = Alive(q)'
  BY DEF Inv, TypeOK, FirstHeartbeat, Living, Alive
<1>2. OwnerAlive'
  BY DEF Inv, TypeOK, FirstHeartbeat, OwnerAlive, Alive
<1>3. QED
  BY <1>1, <1>2, Steady DEF Inv, TypeOK, FirstHeartbeat, Tells, PidfileTells, HeartbeatTells, PlanTells, bounds

\* A heartbeat names its writer, or whom it named before.
LEMMA HeartbeatStepTells ==
  ASSUME Inv, NEW p \in Pids, Heartbeat(p)
  PROVE  Tells'
<1>1. Living' = Living /\ Coming' = Coming /\ \A q \in Pids : Alive(q) = Alive(q)'
  BY DEF Heartbeat, Living, Coming, Alive
<1>2. OwnerAlive' \/ (OwnerAlive' = OwnerAlive)
  BY DEF Inv, TypeOK, Heartbeat, OwnerAlive, Alive
<1>3. QED
  BY <1>1, <1>2, Steady DEF Inv, TypeOK, Heartbeat, Tells, PidfileTells, HeartbeatTells, PlanTells, bounds

LEMMA CrashTells ==
  ASSUME Inv, NEW p \in Pids, Crash(p)
  PROVE  Tells'
<1>1. Counted' /\ Missing'
  BY Death DEF Inv, Crash
<1>2. QED
  BY <1>1, MissingTells DEF Inv, Crash, PlanTells

\* Steps that neither start nor end a process.
LEMMA CalmTells ==
  ASSUME Inv, (\E p \in Pids : Hang(p)) \/ Silence \/ Recheck \/ UNCHANGED vars
  PROVE  Tells'
<1>1. /\ Living' = Living /\ Coming' = Coming /\ \A q \in Pids : Alive(q) = Alive(q)'
      /\ heartbeat'.daemon = heartbeat.daemon
      /\ UNCHANGED <<pidfile, launch, launches, cooldown>>
  BY DEF Inv, TypeOK, Hang, Silence, Recheck, Living, Coming, Alive, vars, bounds
<1>2. UNCHANGED plan \/ plan' = Idle
  BY DEF Hang, Silence, Recheck, vars
<1>3. QED
  BY <1>1, <1>2, Steady DEF Inv, TypeOK, Tells, PidfileTells, HeartbeatTells, PlanTells, OwnerAlive, Idle

\* The watchdog decides on a restart only when a process is missing.
LEMMA DecideTells ==
  ASSUME Inv, Decide
  PROVE  Tells'
<1>1. /\ Living' = Living /\ \A q \in Pids : Alive(q) = Alive(q)'
      /\ UNCHANGED <<pidfile, heartbeat, launch, launches>> /\ cooldown' = TRUE
  BY DEF Decide, Living, Alive, bounds
<1>2. ~OwnerAlive => Missing
  BY DEF Inv, HeartbeatTells, Decide
<1>3. plan'.step \in {"restart", "respawn"} => ~OwnerAlive
  BY DEF Decide
<1>4. QED
  BY <1>1, <1>2, <1>3, Steady DEF Inv, TypeOK, Tells, PidfileTells, HeartbeatTells, PlanTells, OwnerAlive

\* A kill, which the pidfile of a dead process permits, leaves one missing.
LEMMA KillZombieTells ==
  ASSUME Inv, KillZombie
  PROVE  Tells'
<1>1. UNCHANGED <<launch, launches, cooldown>> /\ cooldown
  BY DEF Inv, KillZombie, PlanTells, Idle, bounds
<1>2. Counted' /\ Missing'
  <2>1. CASE plan.pid \in Living /\ ~plan.child
    BY <1>1, <2>1, Death DEF Inv, KillZombie, Living
  <2>2. CASE ~(plan.pid \in Living /\ ~plan.child)
    <3>1. Living' = Living
      BY <2>2 DEF Inv, TypeOK, KillZombie, Living, Alive
    <3>2. Missing
      BY DEF Inv, KillZombie, PidfileTells
    <3>3. QED
      BY <1>1, <3>1, <3>2, Steady DEF Inv
  <2>3. QED
    BY <2>1, <2>2
<1>3. QED
  BY <1>1, <1>2, MissingTells

\* The restart fills the gap, and its process will take over the heartbeat.
LEMMA RespawnTells ==
  ASSUME Inv, Respawn
  PROVE  Tells'
<1>1. PICK p \in Unused : proc' = [proc EXCEPT ![p] = "starting"] /\ pidfile' = p
  BY DEF Respawn
<1>2. /\ Missing /\ cooldown /\ plan' = Idle /\ UNCHANGED <<launch, launches, cooldown>>
      /\ plan'.step = "none"
  BY DEF Inv, Respawn, PlanTells, Idle, bounds
<1>3. /\ IsFiniteSet(Living') /\ Cardinality(Living') = Cardinality(Living) + 1
      /\ Alive(p)' /\ Coming' # {} /\ Cardinality(Living) \in Nat
  BY <1>1, Birth DEF Inv
<1>4. Launched' = Launched /\ Launched \in Nat
  BY <1>2, LaunchedType DEF Inv, Launched
<1>5. Counted'
  BY <1>2, <1>3, <1>4 DEF Counted, Missing, Inv
<1>6. Alive(pidfile)'
  BY <1>1, <1>3 DEF Alive
<1>7. QED
  BY <1>2, <1>3, <1>5, <1>6 DEF Tells, PidfileTells, HeartbeatTells, PlanTells

\* The cooldown ends when nobody is on the way.
LEMMA CooldownEndsTells ==
  ASSUME Inv, CooldownEnds
  PROVE  Tells'
<1>1. /\ Living' = Living /\ \A q \in Pids : Alive(q) = Alive(q)'
      /\ UNCHANGED <<pidfile, heartbeat, plan, launch, launches>> /\ plan = Idle /\ Coming = {}
  BY DEF CooldownEnds, Living, Alive, bounds
<1>2. QED
  BY <1>1, Steady DEF Inv, TypeOK, Tells, PidfileTells, HeartbeatTells, PlanTells, OwnerAlive, Idle

LEMMA LaunchLooksTells ==
  ASSUME Inv, LaunchLooks
  PROVE  Tells'
<1>1. /\ Living' = Living /\ Coming' = Coming /\ \A q \in Pids : Alive(q) = Alive(q)'
      /\ UNCHANGED <<pidfile, heartbeat, plan, cooldown>>
  BY DEF LaunchLooks, Living, Coming, Alive
<1>2. Launched' = Launched /\ launches' # 0
  BY DEF Inv, TypeOK, LaunchLooks, Launched
<1>3. (Missing' <=> Missing) /\ Counted'
  BY <1>1, <1>2 DEF Inv, Missing, Counted
<1>4. QED
  BY <1>1, <1>3 DEF Inv, TypeOK, Tells, PidfileTells, HeartbeatTells, PlanTells, OwnerAlive

\* A launch brings its own allowance.
LEMMA LaunchStartsTells ==
  ASSUME Inv, LaunchStarts
  PROVE  Tells'
<1>1. PICK p \in Unused : proc' = [proc EXCEPT ![p] = "starting"] /\ pidfile' = p
  BY DEF LaunchStarts
<1>2. UNCHANGED <<heartbeat, plan, cooldown, launches>> /\ launch /\ ~launch'
  BY DEF LaunchStarts, bounds
<1>3. /\ IsFiniteSet(Living') /\ Cardinality(Living') = Cardinality(Living) + 1
      /\ Alive(p)' /\ Coming' # {} /\ Cardinality(Living) \in Nat
      /\ \A q \in Pids : Alive(q) => Alive(q)'
  BY <1>1, Birth DEF Inv
<1>4. Launched' = Launched + 1 /\ Launched \in Nat
  BY <1>2, LaunchedType DEF Inv, TypeOK, Launched
<1>5. (Missing => Missing') /\ Counted'
  BY <1>2, <1>3, <1>4 DEF Counted, Missing, Inv
<1>6. Alive(pidfile)'
  BY <1>1, <1>3 DEF Alive
<1>7. OwnerAlive => OwnerAlive'
  BY <1>2, <1>3 DEF Inv, TypeOK, OwnerAlive, Alive
<1>8. QED
  BY <1>2, <1>3, <1>5, <1>6, <1>7 DEF Inv, Tells, PidfileTells, HeartbeatTells, PlanTells
-----------------------------------------------------------------------------
\* The inductive invariant: the pidfile, the heartbeat and the watchdog's plan tell
\* truly when a process is missing, so restarts only fill gaps.
THEOREM Invariant == Spec => []Inv
<1>1. Init => Inv
  <2> SUFFICES ASSUME Init PROVE Inv
    OBVIOUS
  <2>1. PICK p \in Pids :
          /\ proc = [q \in Pids |-> IF q = p THEN "running" ELSE "free"]
          /\ heartbeat = [daemon |-> p, child |-> FALSE, age |-> "fresh"]
          /\ pidfile = p /\ plan = Idle
          /\ cooldown = FALSE /\ launch = FALSE
          /\ launches = 0 /\ crashes = 0 /\ hangs = 0
    BY DEF Init
  <2>2. TypeOK
    <3>1. proc \in [Pids -> Lives]
      BY <2>1 DEF Lives
    <3>2. heartbeat \in [daemon : Pids, child : BOOLEAN, age : Ages] /\ pidfile \in Pids
      BY <2>1 DEF Ages
    <3>3. plan \in [step : Steps, pid : Pids \cup {NoPid}, child : BOOLEAN]
      BY <2>1 DEF Idle, Steps
    <3>4. /\ cooldown \in BOOLEAN /\ launch \in BOOLEAN
          /\ launches = 0 /\ crashes = 0 /\ hangs = 0
      BY <2>1
    <3>5. QED
      BY <3>1, <3>2, <3>3, <3>4, ConstantsAssumption DEF TypeOK
  <2>3. Living = {p} /\ Alive(pidfile) /\ OwnerAlive
    BY <2>1 DEF Living, Alive, OwnerAlive
  <2>4. Counted
    <3>1. IsFiniteSet(Living) /\ Cardinality(Living) = 1
      BY <2>3, FS_Singleton
    <3>2. Launched = 0 /\ ~launch
      BY <2>1 DEF Launched
    <3>3. QED
      BY <3>1, <3>2 DEF Counted
  <2>5. PidfileTells /\ HeartbeatTells /\ PlanTells
    BY <2>1, <2>3 DEF PidfileTells, HeartbeatTells, PlanTells, Idle
  <2>6. QED
    BY <2>2, <2>4, <2>5 DEF Inv
<1>2. Inv /\ [Next]_vars => Inv'
  <2> SUFFICES ASSUME Inv, [Next]_vars PROVE Tells' /\ TypeOK'
    BY DEF Inv, Tells
  <2>1. TypeOK'
    BY TypeKept DEF Inv
  <2>2. Tells'
    BY CheckLivenessTells, FirstHeartbeatTells, HeartbeatStepTells, CrashTells, CalmTells, DecideTells,
       KillZombieTells, RespawnTells, CooldownEndsTells, LaunchLooksTells, LaunchStartsTells
       DEF Next, Watchdog
  <2>3. QED
    BY <2>1, <2>2
<1>3. QED
  BY <1>1, <1>2, PTL DEF Spec

\* The files and processes of an instance are what their readers expect (the
\* heartbeat and the pidfile always name a pid).
THEOREM TypeCorrect == Spec => []TypeOK
<1>1. Inv => TypeOK
  BY DEF Inv
<1>2. QED
  BY <1>1, Invariant, PTL

\* There is one daemon and at most one more for each launch.sh by hand, for any
\* number of crashes, hangs, kills and restarts by the watchdog.
THEOREM DuplicatesAreLaunched == Spec => []DuplicatesNeedALaunch
<1>1. Inv => DuplicatesNeedALaunch
  <2> SUFFICES ASSUME Inv PROVE DuplicatesNeedALaunch
    OBVIOUS
  <2>1. Daemons \in SUBSET Living
    BY DEF Daemons, Living, Alive
  <2>2. Cardinality(Daemons) <= Cardinality(Living) /\ Cardinality(Daemons) \in Nat /\ Cardinality(Living) \in Nat
    BY <2>1, FS_Subset, FS_CardinalityType DEF Inv, Counted
  <2>3. Launched <= launches /\ Launched \in Nat /\ launches \in Nat
    BY LaunchedType, ConstantsAssumption DEF Inv, TypeOK, Counted, Launched
  <2>4. QED
    BY <2>2, <2>3 DEF Inv, Counted, DuplicatesNeedALaunch
<1>2. QED
  BY <1>1, Invariant, PTL

\* As long as only the watchdog starts daemons, the pidfile names the daemon that
\* lives, and stop.sh stops it.
THEOREM PidfileStaysAccurate == Spec => []RestartsKeepPidfile
<1>1. Inv => RestartsKeepPidfile
  <2> SUFFICES ASSUME Inv, launches = 0, Daemons # {} PROVE Alive(pidfile)
    BY DEF RestartsKeepPidfile, PidfileAccurate
  <2>1. Living # {}
    BY DEF Daemons, Living, Alive
  <2>2. Cardinality(Living) \in Nat /\ Cardinality(Living) # 0
    BY <2>1, FS_EmptySet, FS_CardinalityType DEF Inv, Counted
  <2>3. Launched = 0
    BY DEF Inv, Counted, Launched
  <2>4. QED
    BY <2>2, <2>3 DEF Inv, PidfileTells, Missing
<1>2. QED
  BY <1>1, Invariant, PTL
=============================================================================
