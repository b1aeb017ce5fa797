---------------------------- MODULE Supervision ----------------------------
(***************************************************************************)
(* The processes that run the unified workflow on a host: the supervisor   *)
(* (apps/system/supervisor.py), the watchers it launches one after another, *)
(* single runs an operator starts beside them, and the trader processes     *)
(* each of them runs for a premarket, a trading or a risk-only batch.       *)
(*                                                                         *)
(* A watcher has at most one trader at a time, so a trader is named by the  *)
(* watcher that started it and may outlive it.  The file locks are flocks:  *)
(* they are free as soon as their holder is gone.                           *)
(***************************************************************************)
EXTENDS Integers, FiniteSets

CONSTANTS
  Watcher,      \* bound: watcher processes that may exist at a time
  None,
  MaxRestarts,  \* max_restarts
  LongInterval  \* --interval may exceed the stall timeout

ASSUME SupervisionAssumption ==
  None \notin Watcher /\ MaxRestarts \in Nat /\ LongInterval \in BOOLEAN

VARIABLES
  sup,       \* the supervisor: off, launch (or in backoff), or watch
  attempt,   \* its loop variable
  child,     \* the watcher it launched last
  ended,     \* how it ended: none, child, stopped, killed
  wpc,       \* where each watcher is
  watched,   \* it was started with --watch by a supervisor, not run once by an operator
  stuck,     \* it makes no progress and does not answer
  code,      \* its exit code: 2, 130, KILLED or CRASH
  tpc,       \* its trader: none, start, work, hung
  rc,        \* what its last trader returned
  tried,     \* history: its cycle has started a trading or risk-only batch
  sched, cycle, tlock,  \* holders of scheduler.instance, cycle and trader.cycle lock
  hours      \* the KRX day: closed, early (8:00) or open (9:00-15:20)

supervisor == <<sup, attempt, child, ended>>
locks == <<sched, cycle, tlock>>
vars == <<supervisor, wpc, watched, stuck, code, tpc, rc, tried, locks, hours>>

Stage == {"prepare", "premarket", "trade", "risk"}  \* holding the cycle lock
Alive(w) == wpc[w] \notin {"none", "gone"}

Init ==
  /\ sup = "off" /\ attempt = 0 /\ child = None /\ ended = "none"
  /\ wpc = [w \in Watcher |-> "none"] /\ watched = [w \in Watcher |-> FALSE]
  /\ stuck = [w \in Watcher |-> FALSE] /\ code = [w \in Watcher |-> "none"]
  /\ tpc = [w \in Watcher |-> "none"] /\ rc = [w \in Watcher |-> "none"]
  /\ tried = [w \in Watcher |-> FALSE]
  /\ sched = None /\ cycle = None /\ tlock = None
  /\ hours = "closed"

Free(lock, w) == IF lock = w THEN None ELSE lock

(* The clock; a trading day is 8:00, 9:00, 15:20. *)
TimePasses ==
  /\ hours' = CASE hours = "closed" -> "early" [] hours = "early" -> "open"
                [] hours = "open" -> "closed"
  /\ UNCHANGED <<supervisor, wpc, watched, stuck, code, tpc, rc, tried, locks>>

-----------------------------------------------------------------------------
(* Processes that start and end                                            *)

(* A fresh process; the slot of one that is gone for good is used again. *)
Fresh(w) == ~Alive(w) /\ tpc[w] = "none" /\ w # child

Start(w, byWatch) ==
  /\ Fresh(w)
  /\ wpc' = [wpc EXCEPT ![w] = "start"] /\ watched' = [watched EXCEPT ![w] = byWatch]
  /\ stuck' = [stuck EXCEPT ![w] = FALSE] /\ code' = [code EXCEPT ![w] = "none"]
  /\ rc' = [rc EXCEPT ![w] = "none"] /\ tried' = [tried EXCEPT ![w] = FALSE]

(* Watcher w ends by itself; its flocks are released. *)
Exit(w, c) ==
  /\ wpc' = [wpc EXCEPT ![w] = "gone"] /\ code' = [code EXCEPT ![w] = c]
  /\ stuck' = [stuck EXCEPT ![w] = FALSE]
  /\ sched' = Free(sched, w) /\ cycle' = Free(cycle, w)

(* Fault: only the watcher is stopped. *)
StopProcess(w, c) ==
  IF Alive(w) THEN Exit(w, c) /\ UNCHANGED <<tpc, tlock>>
  ELSE UNCHANGED <<wpc, code, stuck, sched, cycle, tpc, tlock>>

(* stop_child: SIGTERM, and SIGKILL after five seconds, to the process group of a
   watcher, which its trader belongs to; nothing when the watcher has exited.  *)
StopChild(w, c) ==
  IF Alive(w)
  THEN /\ Exit(w, c)
       /\ tpc' = [tpc EXCEPT ![w] = "none"] /\ tlock' = Free(tlock, w)
  ELSE UNCHANGED <<wpc, code, stuck, sched, cycle, tpc, tlock>>

-----------------------------------------------------------------------------
(* supervise                                                               *)

Supervise ==
  /\ sup = "off"
  /\ sup' = "launch" /\ attempt' = 0 /\ ended' = "none" /\ child' = None
  /\ UNCHANGED <<wpc, watched, stuck, code, tpc, rc, tried, locks, hours>>

Launch(w) ==
  /\ sup = "launch" /\ Start(w, TRUE)
  /\ sup' = "watch" /\ child' = w
  /\ UNCHANGED <<attempt, ended, tpc, locks, hours>>

(* progress_stalled: cycle.json is not written for the stall timeout.  The risk-only
   fallback does not write it either, so it may be ended for the time that the
   failed stage before it has taken.                                           *)
Stalled(w) ==
  Alive(w) /\ (stuck[w] \/ wpc[w] = "risk" \/ (LongInterval /\ wpc[w] = "asleep"))

(* A watcher that still handles SIGTERM returns 130. *)
StopStalled ==
  /\ sup = "watch" /\ Stalled(child)
  /\ \E c \in IF stuck[child] THEN {"130", "KILLED"} ELSE {"130"} : StopChild(child, c)
  /\ UNCHANGED <<supervisor, watched, rc, tried, hours>>

(* Fault: one restart too many. *)
MayRestartOnceMore == code[child] \in {"KILLED", "CRASH"} /\ attempt <= MaxRestarts

(* 0, 2 and 130 are ownership conflicts and operator stops, not failures. *)
MayRestart == code[child] \in {"KILLED", "CRASH"} /\ attempt < MaxRestarts

ChildExited ==
  /\ sup = "watch" /\ wpc[child] = "gone"
  /\ \/ /\ MayRestart
        /\ sup' = "launch" /\ attempt' = attempt + 1 /\ UNCHANGED ended
     \/ /\ ~MayRestart
        /\ sup' = "off" /\ ended' = "child" /\ UNCHANGED attempt
  /\ UNCHANGED <<child, wpc, watched, stuck, code, tpc, rc, tried, locks, hours>>

(* SIGTERM or Ctrl-C at the supervisor, which stops its child before it ends. *)
StopSupervisor ==
  /\ sup # "off" /\ sup' = "off" /\ ended' = "stopped"
  /\ IF child = None THEN UNCHANGED <<wpc, code, stuck, sched, cycle, tpc, tlock>>
     ELSE \E c \in IF stuck[child] THEN {"130", "KILLED"} ELSE {"130"} : StopChild(child, c)
  /\ UNCHANGED <<attempt, child, watched, rc, tried, hours>>

KillSupervisor ==
  /\ sup # "off" /\ sup' = "off" /\ ended' = "killed"
  /\ UNCHANGED <<attempt, child, wpc, watched, stuck, code, tpc, rc, tried, locks, hours>>

-----------------------------------------------------------------------------
(* The watch loop and run_cycle                                            *)

RunOnce(w) ==
  /\ Start(w, FALSE)
  /\ UNCHANGED <<supervisor, tpc, locks, hours>>

(* A second watcher is refused and returns 2. *)
Boot(w) ==
  /\ wpc[w] = "start"
  /\ \/ /\ watched[w] /\ sched # None
        /\ Exit(w, "2")
     \/ /\ watched[w] => sched = None
        /\ wpc' = [wpc EXCEPT ![w] = "loop"]
        /\ sched' = IF watched[w] THEN w ELSE sched
        /\ UNCHANGED <<code, stuck, cycle>>
  /\ UNCHANGED <<supervisor, watched, tpc, rc, tried, tlock, hours>>

(* What a cycle leaves: a watcher sleeps, a single run ends with its code. *)
EndCycle(w, c) ==
  IF watched[w]
  THEN /\ wpc' = [wpc EXCEPT ![w] = "asleep"] /\ cycle' = Free(cycle, w)
       /\ UNCHANGED <<code, stuck, sched>>
  ELSE Exit(w, c)

(* Under cycle.lock, a cycle waits for the session or prepares its data. *)
BeginCycle(w) ==
  /\ wpc[w] = "loop"
  /\ tried' = [tried EXCEPT ![w] = FALSE]
  /\ \/ cycle # None /\ EndCycle(w, "2")
     \/ cycle = None /\ hours = "closed" /\ EndCycle(w, "0")
     \/ /\ cycle = None /\ hours # "closed"
        /\ wpc' = [wpc EXCEPT ![w] = "prepare"] /\ cycle' = w
        /\ UNCHANGED <<code, stuck, sched>>
  /\ UNCHANGED <<supervisor, watched, tpc, rc, tlock, hours>>

(* run_process starts run_live_trader.py for a stage of the cycle. *)
Spawn(w, stage) ==
  /\ wpc' = [wpc EXCEPT ![w] = stage]
  /\ tpc' = [tpc EXCEPT ![w] = "start"] /\ rc' = [rc EXCEPT ![w] = "none"]
  /\ tried' = [tried EXCEPT ![w] = tried[w] \/ stage \in {"trade", "risk"}]
  /\ UNCHANGED <<code, stuck, sched, cycle>>

Stop(w) ==
  /\ EndCycle(w, IF rc[w] = "fail" \/ wpc[w] # "trade" THEN "2" ELSE "0")
  /\ UNCHANGED <<tpc, rc, tried>>

(* Fault: a failed premarket batch ends the cycle. *)
RiskAfterPrepare(w) == IF hours = "open" /\ wpc[w] = "prepare" THEN Spawn(w, "risk") ELSE Stop(w)

(* A cycle that cannot be prepared still looks at the risk of the holdings. *)
FallBack(w) == IF hours = "open" THEN Spawn(w, "risk") ELSE Stop(w)

Prepare(w) ==
  /\ wpc[w] = "prepare" /\ ~stuck[w]
  /\ Spawn(w, "premarket") \/ FallBack(w)
  /\ UNCHANGED <<supervisor, watched, tlock, hours>>

(* The trader has returned. *)
Continue(w) ==
  /\ wpc[w] \in {"premarket", "trade", "risk"} /\ rc[w] # "none"
  /\ \/ wpc[w] = "premarket" /\ rc[w] = "fail" /\ FallBack(w)
     \/ wpc[w] = "premarket" /\ rc[w] = "ok" /\ hours = "open" /\ Spawn(w, "trade")
     \/ wpc[w] = "premarket" /\ rc[w] = "ok" /\ hours # "open" /\ Stop(w)
     \/ wpc[w] \in {"trade", "risk"} /\ Stop(w)
  /\ UNCHANGED <<supervisor, watched, tlock, hours>>

Wake(w) ==
  /\ wpc[w] = "asleep" /\ wpc' = [wpc EXCEPT ![w] = "loop"]
  /\ UNCHANGED <<supervisor, watched, stuck, code, tpc, rc, tried, locks, hours>>

(* A blocked database or API call in the watcher itself. *)
GetStuck(w) ==
  /\ wpc[w] = "prepare" /\ stuck' = [stuck EXCEPT ![w] = TRUE]
  /\ UNCHANGED <<supervisor, wpc, watched, code, tpc, rc, tried, locks, hours>>

(* The watcher alone dies, by an exception or SIGKILL; its trader does not. *)
Crash(w) ==
  /\ Alive(w) /\ Exit(w, "CRASH")
  /\ UNCHANGED <<supervisor, watched, tpc, rc, tried, tlock, hours>>

-----------------------------------------------------------------------------
(* run_live_trader.py                                                      *)

Return(w, r) ==
  /\ tpc' = [tpc EXCEPT ![w] = "none"] /\ tlock' = Free(tlock, w)
  /\ rc' = [rc EXCEPT ![w] = r]
  /\ UNCHANGED <<supervisor, wpc, watched, stuck, code, tried, sched, cycle, hours>>

(* Fault: the trader does not take trader.cycle.lock. *)
TraderUnlocked(w) ==
  /\ tpc[w] = "start" /\ tpc' = [tpc EXCEPT ![w] = "work"]
  /\ UNCHANGED <<supervisor, wpc, watched, stuck, code, rc, tried, locks, hours>>

TraderStart(w) ==
  /\ tpc[w] = "start"
  /\ \/ tlock # None /\ Return(w, "fail")
     \/ /\ tlock = None /\ tlock' = w /\ tpc' = [tpc EXCEPT ![w] = "work"]
        /\ UNCHANGED <<supervisor, wpc, watched, stuck, code, rc, tried, sched, cycle, hours>>

TraderEnds(w) == tpc[w] = "work" /\ \E r \in {"ok", "fail"} : Return(w, r)

TraderHangs(w) ==
  /\ tpc[w] = "work" /\ tpc' = [tpc EXCEPT ![w] = "hung"]
  /\ UNCHANGED <<supervisor, wpc, watched, stuck, code, rc, tried, locks, hours>>

(* Fault: run_bounded waits without a timeout. *)
WaitOnly(w) == FALSE /\ UNCHANGED vars

(* run_bounded's timeout, in the watcher that started the trader. *)
TraderTimeout(w) == tpc[w] = "hung" /\ Alive(w) /\ Return(w, "fail")

-----------------------------------------------------------------------------
Next ==
  \/ TimePasses
  \/ Supervise \/ StopStalled \/ ChildExited \/ StopSupervisor \/ KillSupervisor
  \/ \E w \in Watcher :
       \/ Launch(w) \/ RunOnce(w) \/ Boot(w) \/ BeginCycle(w) \/ Prepare(w) \/ Continue(w)
       \/ Wake(w) \/ GetStuck(w) \/ Crash(w)
       \/ TraderStart(w) \/ TraderEnds(w) \/ TraderHangs(w) \/ TraderTimeout(w)

Spec == Init /\ [][Next]_vars

(* Processes run, timeouts expire and the supervisor polls; nobody has to start or
   stop anything, and neither time nor faults are fair.                        *)
Fairness ==
  /\ WF_vars(StopStalled) /\ WF_vars(ChildExited)
  /\ \A w \in Watcher :
       /\ WF_vars(Boot(w)) /\ WF_vars(BeginCycle(w)) /\ WF_vars(Prepare(w))
       /\ WF_vars(Continue(w)) /\ WF_vars(Launch(w))
       /\ WF_vars(TraderStart(w)) /\ WF_vars(TraderEnds(w)) /\ WF_vars(TraderTimeout(w))

FairSpec == Spec /\ Fairness

-----------------------------------------------------------------------------
TypeOK ==
  /\ sup \in {"off", "launch", "watch"} /\ attempt \in 0..MaxRestarts
  /\ child \in Watcher \cup {None} /\ ended \in {"none", "child", "stopped", "killed"}
  /\ wpc \in [Watcher -> Stage \cup {"none", "start", "loop", "asleep", "gone"}]
  /\ watched \in [Watcher -> BOOLEAN] /\ stuck \in [Watcher -> BOOLEAN]
  /\ code \in [Watcher -> {"none", "0", "2", "130", "KILLED", "CRASH"}]
  /\ tpc \in [Watcher -> {"none", "start", "work", "hung"}]
  /\ rc \in [Watcher -> {"none", "ok", "fail"}] /\ tried \in [Watcher -> BOOLEAN]
  /\ {sched, cycle, tlock} \subseteq Watcher \cup {None}
  /\ hours \in {"closed", "early", "open"}

(* Whatever was killed, restarted, orphaned or started by hand, one trader process
   at most is past its lock: the cycles of the order path never overlap.       *)
OneTrader ==
  \A a, b \in Watcher : tpc[a] \in {"work", "hung"} /\ tpc[b] \in {"work", "hung"} => a = b

(* A supervisor that was stopped leaves neither its watcher nor a trader of it that
   was still under a live watcher.                                             *)
StoppedLeavesNothing ==
  ended = "stopped" /\ child # None =>
    /\ ~Alive(child)
    /\ code[child] # "CRASH" => tpc[child] = "none"

(* A cycle that ends in trading hours by itself has started a trading or a risk-only
   batch: no failure of data, analysis or premarket leaves stops unlooked at.  *)
CyclesLookAtRisk ==
  [][\A w \in Watcher :
       cycle = w /\ cycle' # w /\ wpc'[w] # "gone" /\ hours = "open" => tried'[w]]_vars

(* The cycle of a supervised watcher ends, through stuck calls and hung traders,
   unless the supervisor itself is killed.                                     *)
SupervisedCycleEnds ==
  \A w \in Watcher : cycle = w /\ sup = "watch" /\ child = w ~> cycle # w \/ ended = "killed"
=============================================================================
