----------------------------- MODULE Supervision -----------------------------
(***************************************************************************)
(* The supervision of one worker instance: its heartbeat file, its pidfile *)
(* and the three parties that act on them.                                 *)
(*                                                                         *)
(* The watchdog (scripts/queue-watcher.sh) asks src/dead-process-check.js  *)
(* which instances look dead, and later, in a second step, kills and       *)
(* restarts them.  scripts/launch.sh starts an instance by hand when the   *)
(* pidfile names no live process.  The daemon itself                       *)
(* (scripts/local-worker.sh) refuses to start when the heartbeat names     *)
(* another live daemon, and only then writes its own.                      *)
(*                                                                         *)
(* A process whose pid is no longer that of a live process is "free": pids *)
(* are reused only once nothing names them.                                *)
(***************************************************************************)
EXTENDS Integers, FiniteSets

CONSTANTS
  Pids,          \* process ids
  NoPid,         \* what an absent file names
  MaxLaunches,   \* bound on the manual launches
  MaxCrashes,    \* bound on the daemons that die
  MaxHangs       \* bound on the daemons that stop making progress

ASSUME ConstantsAssumption ==
  /\ NoPid \notin Pids
  /\ Pids # {}
  /\ MaxLaunches \in Nat /\ MaxCrashes \in Nat /\ MaxHangs \in Nat

VARIABLES
  proc,       \* proc[p]: the life of the process with pid p
  heartbeat,  \* instances/<id>.json: the daemon's pid, whether a child wrote last, the age
  pidfile,    \* pids/<id>.pid
  plan,       \* the watchdog's action line for this instance
  cooldown,   \* a restart was decided less than RESTART_COOLDOWN_SECONDS ago
  launch,     \* launch.sh has seen that the instance is not running
  launches, crashes, hangs  \* how much of each bound is used

bounds == <<launches, crashes, hangs>>
vars   == <<proc, heartbeat, pidfile, plan, cooldown, launch, bounds>>

\* "starting": before the liveness check; "checked": after it, before the first heartbeat.
Lives == {"free", "starting", "checked", "running", "hung"}

\* Fresh; older than STALE_HEARTBEAT_SECONDS; older than the zombie threshold.
Ages  == {"fresh", "stale", "zombie"}

Steps == {"none", "restart", "kill", "respawn"}

TypeOK ==
  /\ proc \in [Pids -> Lives]
  /\ heartbeat \in [daemon : Pids, child : BOOLEAN, age : Ages]
  /\ pidfile \in Pids
  /\ plan \in [step : Steps, pid : Pids \cup {NoPid}, child : BOOLEAN]
  /\ cooldown \in BOOLEAN /\ launch \in BOOLEAN
  /\ launches \in 0..MaxLaunches /\ crashes \in 0..MaxCrashes /\ hangs \in 0..MaxHangs

Alive(p) == proc[p] # "free"

Daemons == {p \in Pids : proc[p] \in {"running", "hung"}}

Coming == {p \in Pids : proc[p] \in {"starting", "checked"}}

\* A pid the system may give to a new process.
Unused == {p \in Pids : ~Alive(p) /\ p \notin {heartbeat.daemon, pidfile, plan.pid}}

Idle == [step |-> "none", pid |-> NoPid, child |-> FALSE]

-----------------------------------------------------------------------------
(***************************************************************************)
(* Slips: what a plausible mistake would make of an operation.             *)
(***************************************************************************)

\* The launch leaves no pidfile behind.
InitWithoutPidfile ==
  \E p \in Pids :
    /\ proc = [q \in Pids |-> IF q = p THEN "running" ELSE "free"]
    /\ heartbeat = [daemon |-> p, child |-> FALSE, age |-> "fresh"]
    /\ pidfile = NoPid
    /\ plan = Idle
    /\ cooldown = FALSE /\ launch = FALSE
    /\ launches = 0 /\ crashes = 0 /\ hangs = 0

\* The watchdog takes a stale heartbeat for a dead daemon.
DecideByAge ==
  /\ plan = Idle /\ ~cooldown /\ heartbeat.age # "fresh"
  /\ plan' = [step |-> "restart", pid |-> heartbeat.daemon, child |-> heartbeat.child]
  /\ cooldown' = TRUE
  /\ UNCHANGED <<proc, heartbeat, pidfile, launch, bounds>>

\* The watchdog never restarts an instance it restarted before.
CooldownStays == UNCHANGED vars

\* A daemon that starts leaves its predecessor's heartbeat in place.
FirstHeartbeatLater(p) ==
  /\ proc[p] = "checked"
  /\ proc' = [proc EXCEPT ![p] = "running"]
  /\ UNCHANGED <<heartbeat, pidfile, plan, cooldown, launch, bounds>>
-----------------------------------------------------------------------------
\* The instance has been launched and is at work.
Init ==
  \E p \in Pids :
    /\ proc = [q \in Pids |-> IF q = p THEN "running" ELSE "free"]
    /\ heartbeat = [daemon |-> p, child |-> FALSE, age |-> "fresh"]
    /\ pidfile = p
    /\ plan = Idle
    /\ cooldown = FALSE /\ launch = FALSE
    /\ launches = 0 /\ crashes = 0 /\ hangs = 0
-----------------------------------------------------------------------------
(***************************************************************************)
(* The daemon.                                                             *)
(***************************************************************************)

\* check_instance_liveness: exit if the heartbeat names another live daemon.
CheckLiveness(p) ==
  LET owner == heartbeat.daemon IN
  /\ proc[p] = "starting"
  /\ proc' = [proc EXCEPT ![p] = IF owner # p /\ Alive(owner) THEN "free" ELSE "checked"]
  /\ UNCHANGED <<heartbeat, pidfile, plan, cooldown, launch, bounds>>

\* The daemon claims the heartbeat file as its first act.
FirstHeartbeat(p) ==
  /\ proc[p] = "checked"
  /\ proc' = [proc EXCEPT ![p] = "running"]
  /\ heartbeat' = [daemon |-> p, child |-> FALSE, age |-> "fresh"]
  /\ UNCHANGED <<pidfile, plan, cooldown, launch, bounds>>

\* write_heartbeat_file, by the daemon, and writeHeartbeatFile, by the child
\* of a running daemon, which carries the daemon's pid over from the file.
Heartbeat(p) ==
  /\ proc[p] = "running"
  /\ heartbeat' \in { [daemon |-> p, child |-> FALSE, age |-> "fresh"],
                      [daemon |-> heartbeat.daemon, child |-> TRUE, age |-> "fresh"] }
  /\ UNCHANGED <<proc, pidfile, plan, cooldown, launch, bounds>>

Hang(p) ==
  /\ proc[p] = "running" /\ hangs < MaxHangs
  /\ hangs' = hangs + 1
  /\ proc' = [proc EXCEPT ![p] = "hung"]
  /\ UNCHANGED <<heartbeat, pidfile, plan, cooldown, launch, launches, crashes>>

Crash(p) ==
  /\ Alive(p) /\ crashes < MaxCrashes
  /\ crashes' = crashes + 1
  /\ proc' = [proc EXCEPT ![p] = "free"]
  /\ UNCHANGED <<heartbeat, pidfile, plan, cooldown, launch, launches, hangs>>

\* Time passes without a heartbeat.  The zombie threshold is above the longest
\* chain of model calls, so a daemon that makes progress does not reach it.
Silence ==
  /\ \/ heartbeat.age = "fresh" /\ heartbeat' = [heartbeat EXCEPT !.age = "stale"]
     \/ /\ heartbeat.age = "stale" /\ \A p \in Pids : proc[p] # "running"
        /\ heartbeat' = [heartbeat EXCEPT !.age = "zombie"]
  /\ UNCHANGED <<proc, pidfile, plan, cooldown, launch, bounds>>
-----------------------------------------------------------------------------
(***************************************************************************)
(* The watchdog.                                                           *)
(***************************************************************************)

\* isProcessAlive(daemonPid)
OwnerAlive == Alive(heartbeat.daemon)

\* deadProcessCheck: a stale heartbeat of a dead daemon asks for a restart, one
\* past the zombie threshold of a live one for a restart after a kill.
Decide ==
  /\ plan = Idle /\ ~cooldown /\ heartbeat.age # "fresh"
  /\ OwnerAlive => heartbeat.age = "zombie"
  /\ plan' = [step |-> IF OwnerAlive THEN "kill" ELSE "restart",
              pid |-> heartbeat.daemon, child |-> heartbeat.child]
  /\ cooldown' = TRUE
  /\ UNCHANGED <<proc, heartbeat, pidfile, launch, bounds>>

\* The last-moment recheck: nothing is done while the pidfile names a live process.
Recheck ==
  /\ plan.step = "kill" /\ Alive(pidfile)
  /\ plan' = Idle
  /\ UNCHANGED <<proc, heartbeat, pidfile, cooldown, launch, bounds>>

\* kill -9 of the pid in the heartbeat: the daemon, or the child whose end
\* lets a hung daemon go on.
KillZombie ==
  /\ plan.step = "kill" /\ ~Alive(pidfile)
  /\ plan' = [plan EXCEPT !.step = "respawn"]
  /\ proc' = [proc EXCEPT ![plan.pid] = IF ~plan.child THEN "free"
                                        ELSE IF @ = "hung" THEN "running" ELSE @]
  /\ UNCHANGED <<heartbeat, pidfile, cooldown, launch, bounds>>

Respawn ==
  /\ plan.step \in {"restart", "respawn"}
  /\ \E p \in Unused : proc' = [proc EXCEPT ![p] = "starting"] /\ pidfile' = p
  /\ plan' = Idle
  /\ UNCHANGED <<heartbeat, cooldown, launch, bounds>>

\* The cooldown outlasts the start of the daemon it was set for.
CooldownEnds ==
  /\ cooldown /\ plan = Idle /\ Coming = {}
  /\ cooldown' = FALSE
  /\ UNCHANGED <<proc, heartbeat, pidfile, plan, launch, bounds>>
-----------------------------------------------------------------------------
(***************************************************************************)
(* launch.sh, start_bg: look at the pidfile, then start and write it.      *)
(***************************************************************************)
LaunchLooks ==
  /\ ~launch /\ launches < MaxLaunches /\ ~Alive(pidfile)
  /\ launch' = TRUE
  /\ launches' = launches + 1
  /\ UNCHANGED <<proc, heartbeat, pidfile, plan, cooldown, crashes, hangs>>

LaunchStarts ==
  /\ launch
  /\ launch' = FALSE
  /\ \E p \in Unused : proc' = [proc EXCEPT ![p] = "starting"] /\ pidfile' = p
  /\ UNCHANGED <<heartbeat, plan, cooldown, bounds>>
-----------------------------------------------------------------------------
Watchdog == Decide \/ Recheck \/ KillZombie \/ Respawn \/ CooldownEnds

Next ==
  \/ \E p \in Pids : CheckLiveness(p) \/ FirstHeartbeat(p) \/ Heartbeat(p) \/ Hang(p) \/ Crash(p)
  \/ Silence \/ Watchdog \/ LaunchLooks \/ LaunchStarts

Spec == Init /\ [][Next]_vars

\* The watchdog's loop runs on, time passes and a process that starts goes on
\* starting.  A launch, once begun, ends.
Fairness ==
  /\ WF_vars(Decide \/ Recheck \/ KillZombie \/ Respawn) /\ WF_vars(CooldownEnds)
  /\ WF_vars(Silence) /\ WF_vars(LaunchStarts)
  /\ \A p \in Pids : WF_vars(CheckLiveness(p) \/ FirstHeartbeat(p))

FairSpec == Spec /\ Fairness
-----------------------------------------------------------------------------
(***************************************************************************)
(* Properties.                                                             *)
(***************************************************************************)

\* CONTEXT.md, "Duplicate instance": one daemon at a time works under the
\* instance id.
OneDaemon == Cardinality(Daemons) <= 1

\* When no start is under way and a daemon lives, the pidfile names a live one
\* ("so stop.sh stays accurate afterward", queue-watcher.sh).
PidfileAccurate ==
  Daemons # {} /\ Coming = {} /\ plan = Idle /\ ~launch => Alive(pidfile)

\* Short of a launch by hand there is one daemon, whatever crashes, hangs and is
\* restarted; each launch that races a restart adds at most one.
DuplicatesNeedALaunch == Cardinality(Daemons) <= 1 + launches

\* The pidfile stays accurate when only the watchdog starts daemons.
RestartsKeepPidfile == launches = 0 => PidfileAccurate

\* A daemon that died is replaced.
DeadReplaced == (\A p \in Pids : ~Alive(p)) ~> (\E p \in Pids : proc[p] = "running")

\* queue-watcher.sh: a daemon that hangs is killed and replaced.
ZombieReplaced == \A p \in Pids : proc[p] = "hung" ~> proc[p] # "hung"
=============================================================================
