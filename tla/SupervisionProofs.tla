-------------------------- MODULE SupervisionProofs --------------------------
(***************************************************************************)
(* Locks, kills and the risk-only fallback, for any number of watchers and  *)
(* restarts.                                                                *)
(***************************************************************************)
EXTENDS Supervision, TLAPS

(* A supervisor that watches has launched what it watches; one that runs has not ended. *)
ChildInv ==
  /\ child # None => wpc[child] # "none"
  /\ sup = "watch" => child # None
  /\ sup # "off" => ended = "none"

(* A trader works only under its lock; a cycle is in one of its stages. *)
LockInv ==
  /\ \A w \in Watcher : tpc[w] \in {"work", "hung"} => tlock = w
  /\ \A w \in Watcher : cycle = w => wpc[w] \in Stage

(* Where a trader may be, given its watcher: an orphan's watcher has crashed. *)
TraderInv ==
  \A w \in Watcher :
    /\ wpc[w] \notin {"premarket", "trade", "risk", "gone"} => tpc[w] = "none"
    /\ wpc[w] = "gone" /\ code[w] # "CRASH" => tpc[w] = "none"
    /\ rc[w] # "none" => tpc[w] = "none"
    /\ wpc[w] \in {"trade", "risk"} => tried[w]

IInv == TypeOK /\ ChildInv /\ LockInv /\ TraderInv

LEMMA SupervisionInit == Init => IInv
BY SupervisionAssumption
   DEF Init, IInv, TypeOK, ChildInv, LockInv, TraderInv, Stage, SupervisionAssumption

USE SupervisionAssumption DEF SupervisionAssumption

Code == {"none", "0", "2", "130", "KILLED", "CRASH"}

(* The types of what a start and an exit of a watcher change. *)
LEMMA StartType ==
  ASSUME TypeOK, NEW w \in Watcher, NEW b \in BOOLEAN, Start(w, b)
  PROVE  /\ wpc' \in [Watcher -> Stage \cup {"none", "start", "loop", "asleep", "gone"}]
         /\ code' \in [Watcher -> Code]
         /\ {watched', stuck', tried'} \subseteq [Watcher -> BOOLEAN]
         /\ rc' \in [Watcher -> {"none", "ok", "fail"}]
BY DEF Start, TypeOK, Code

LEMMA ExitType ==
  ASSUME TypeOK, NEW w \in Watcher, NEW c \in Code, Exit(w, c)
  PROVE  /\ wpc' \in [Watcher -> Stage \cup {"none", "start", "loop", "asleep", "gone"}]
         /\ code' \in [Watcher -> Code]
         /\ stuck' \in [Watcher -> BOOLEAN]
         /\ {sched', cycle'} \subseteq Watcher \cup {None}
BY DEF Exit, Free, TypeOK, Code

(* A process group that is stopped, and a watcher that exits with no trader. *)
LEMMA StopChildKeeps ==
  ASSUME IInv, NEW w \in Watcher, NEW c \in {"130", "KILLED"}, StopChild(w, c),
         UNCHANGED <<watched, rc, tried, hours>>,
         attempt' = attempt, child' = child,
         \/ sup' = sup /\ ended' = ended
         \/ sup' = "off" /\ ended' = "stopped"
  PROVE  IInv'
<1>1. TypeOK'
  <2>1. CASE Alive(w)
    <3>1. /\ wpc' \in [Watcher -> Stage \cup {"none", "start", "loop", "asleep", "gone"}]
          /\ code' \in [Watcher -> Code] /\ stuck' \in [Watcher -> BOOLEAN]
          /\ {sched', cycle'} \subseteq Watcher \cup {None}
      BY <2>1, ExitType DEF StopChild, IInv, Code
    <3>2. tpc' \in [Watcher -> {"none", "start", "work", "hung"}] /\ tlock' \in Watcher \cup {None}
      BY <2>1 DEF StopChild, Free, IInv, TypeOK
    <3> QED BY <3>1, <3>2 DEF IInv, TypeOK, Code
  <2>2. CASE ~Alive(w)
    BY <2>2 DEF StopChild, IInv, TypeOK
  <2> QED BY <2>1, <2>2
<1>2. ChildInv'
  BY DEF StopChild, Exit, Free, Alive, IInv, TypeOK, ChildInv
<1>3. LockInv'
  BY DEF StopChild, Exit, Free, Alive, IInv, TypeOK, LockInv, Stage
<1>4. TraderInv'
  BY DEF StopChild, Exit, Free, Alive, IInv, TypeOK, TraderInv
<1> QED BY <1>1, <1>2, <1>3, <1>4 DEF IInv

LEMMA EndCycleKeeps ==
  ASSUME IInv, NEW w \in Watcher, NEW c \in {"0", "2"}, EndCycle(w, c), tpc[w] = "none",
         wpc[w] \in Stage \cup {"loop"}, UNCHANGED <<supervisor, watched, tpc, rc, tlock, hours>>,
         tried' \in {tried, [tried EXCEPT ![w] = FALSE]}
  PROVE  IInv'
<1>1. TypeOK'
  <2>1. CASE watched[w]
    <3>1. wpc' \in [Watcher -> Stage \cup {"none", "start", "loop", "asleep", "gone"}]
      BY <2>1 DEF EndCycle, IInv, TypeOK
    <3>2. tried' \in [Watcher -> BOOLEAN]
      BY DEF IInv, TypeOK
    <3>3. {sched', cycle', tlock'} \subseteq Watcher \cup {None}
      BY <2>1 DEF EndCycle, Free, IInv, TypeOK
    <3>4. UNCHANGED <<code, stuck>>
      BY <2>1 DEF EndCycle
    <3> QED BY <3>1, <3>2, <3>3, <3>4 DEF supervisor, IInv, TypeOK
  <2>2. CASE ~watched[w]
    <3>1. Exit(w, c) /\ TypeOK /\ c \in Code
      BY <2>2 DEF EndCycle, IInv, Code
    <3>2. /\ wpc' \in [Watcher -> Stage \cup {"none", "start", "loop", "asleep", "gone"}]
          /\ code' \in [Watcher -> Code] /\ stuck' \in [Watcher -> BOOLEAN]
          /\ {sched', cycle'} \subseteq Watcher \cup {None}
      BY <3>1, ExitType
    <3>3. tried' \in [Watcher -> BOOLEAN]
      BY <3>1 DEF TypeOK
    <3> QED BY <3>1, <3>2, <3>3 DEF supervisor, TypeOK, Code
  <2> QED BY <2>1, <2>2
<1>2. ChildInv'
  BY DEF EndCycle, Exit, Free, supervisor, IInv, TypeOK, ChildInv
<1>3. LockInv'
  BY DEF EndCycle, Exit, Free, supervisor, IInv, TypeOK, LockInv, Stage
<1>4. TraderInv'
  BY DEF EndCycle, Exit, Free, supervisor, IInv, TypeOK, TraderInv
<1> QED BY <1>1, <1>2, <1>3, <1>4 DEF IInv

LEMMA SpawnKeeps ==
  ASSUME IInv, NEW w \in Watcher, NEW s \in {"premarket", "trade", "risk"}, Spawn(w, s),
         tpc[w] = "none", wpc[w] \in Stage, UNCHANGED <<supervisor, watched, tlock, hours>>
  PROVE  IInv'
<1>1. TypeOK'
  <2>1. wpc' \in [Watcher -> Stage \cup {"none", "start", "loop", "asleep", "gone"}]
    BY DEF Spawn, IInv, TypeOK, Stage
  <2>2. /\ tpc' \in [Watcher -> {"none", "start", "work", "hung"}]
        /\ rc' \in [Watcher -> {"none", "ok", "fail"}]
    BY DEF Spawn, IInv, TypeOK
  <2>3. tried' \in [Watcher -> BOOLEAN]
    <3>1. (tried[w] \/ s \in {"trade", "risk"}) \in BOOLEAN
      OBVIOUS
    <3> QED BY <3>1 DEF Spawn, IInv, TypeOK
  <2>4. UNCHANGED <<sup, attempt, child, ended, watched, stuck, code, sched, cycle, tlock, hours>>
    BY DEF Spawn, supervisor
  <2> QED BY <2>1, <2>2, <2>3, <2>4 DEF IInv, TypeOK
<1>2. ChildInv'
  BY DEF Spawn, IInv, TypeOK, ChildInv, supervisor
<1>3. LockInv'
  BY DEF Spawn, IInv, TypeOK, LockInv, Stage
<1>4. TraderInv'
  BY DEF Spawn, IInv, TypeOK, TraderInv, Stage
<1> QED BY <1>1, <1>2, <1>3, <1>4 DEF IInv

LEMMA FallBackKeeps ==
  ASSUME IInv, NEW w \in Watcher, FallBack(w), tpc[w] = "none", wpc[w] \in Stage,
         UNCHANGED <<supervisor, watched, tlock, hours>>
  PROVE  IInv'
BY SpawnKeeps, EndCycleKeeps DEF FallBack, Stop

(* The steps of a trader process change nothing but the trader. *)
LEMMA TraderKeeps ==
  ASSUME IInv, NEW w \in Watcher,
         TraderStart(w) \/ TraderEnds(w) \/ TraderHangs(w) \/ TraderTimeout(w)
  PROVE  IInv'
<1>1. ASSUME NEW r \in {"ok", "fail"}, Return(w, r) PROVE IInv'
  BY <1>1 DEF Return, Free, IInv, TypeOK, ChildInv, LockInv, TraderInv, Stage, supervisor
<1>2. CASE TraderStart(w)
  <2>1. CASE tlock # None /\ Return(w, "fail")
    BY <2>1, <1>1
  <2>2. CASE tlock = None /\ tlock' = w
    BY <1>2, <2>2
       DEF TraderStart, Return, IInv, TypeOK, ChildInv, LockInv, TraderInv, Stage, supervisor
  <2> QED BY <1>2, <2>1, <2>2 DEF TraderStart
<1>3. CASE TraderEnds(w) \/ TraderTimeout(w)
  BY <1>1, <1>3 DEF TraderEnds, TraderTimeout
<1>4. CASE TraderHangs(w)
  BY <1>4 DEF TraderHangs, IInv, TypeOK, ChildInv, LockInv, TraderInv, Stage, supervisor, locks
<1> QED BY <1>2, <1>3, <1>4

LEMMA SupervisorKeeps ==
  ASSUME IInv, Supervise \/ StopStalled \/ ChildExited \/ StopSupervisor \/ KillSupervisor
  PROVE  IInv'
<1>1. CASE Supervise \/ KillSupervisor
  BY <1>1 DEF Supervise, KillSupervisor, IInv, TypeOK, ChildInv, LockInv, TraderInv, Stage, locks
<1>2. CASE StopStalled
  <2>1. child \in Watcher
    BY <1>2 DEF StopStalled, IInv, ChildInv, TypeOK
  <2>2. PICK c \in {"130", "KILLED"} : StopChild(child, c)
    BY <1>2 DEF StopStalled
  <2> QED BY <1>2, <2>1, <2>2, StopChildKeeps DEF StopStalled, supervisor
<1>3. CASE ChildExited
  <2>1. child \in Watcher
    BY <1>3 DEF ChildExited, IInv, ChildInv, TypeOK
  <2> QED
    BY <1>3, <2>1
       DEF ChildExited, MayRestart, IInv, TypeOK, ChildInv, LockInv, TraderInv, Stage, locks
<1>4. CASE StopSupervisor
  <2>1. CASE child = None
    BY <1>4, <2>1 DEF StopSupervisor, IInv, TypeOK, ChildInv, LockInv, TraderInv, Stage
  <2>2. CASE child # None
    <3>1. PICK c \in {"130", "KILLED"} : StopChild(child, c)
      BY <1>4, <2>2 DEF StopSupervisor
    <3>2. child \in Watcher
      BY <2>2 DEF IInv, TypeOK
    <3> QED BY <1>4, <3>1, <3>2, StopChildKeeps DEF StopSupervisor
  <2> QED BY <2>1, <2>2
<1> QED BY <1>1, <1>2, <1>3, <1>4

LEMMA WatcherKeeps ==
  ASSUME IInv, NEW w \in Watcher,
         \/ Launch(w) \/ RunOnce(w) \/ Boot(w) \/ BeginCycle(w) \/ Prepare(w) \/ Continue(w)
         \/ Wake(w) \/ GetStuck(w) \/ Crash(w)
  PROVE  IInv'
<1>1. CASE Launch(w) \/ RunOnce(w)
  <2>1. TypeOK'
    <3>1. TypeOK /\ \E b \in BOOLEAN : Start(w, b)
      BY <1>1 DEF Launch, RunOnce, IInv
    <3>2. /\ wpc' \in [Watcher -> Stage \cup {"none", "start", "loop", "asleep", "gone"}]
          /\ code' \in [Watcher -> Code]
          /\ {watched', stuck', tried'} \subseteq [Watcher -> BOOLEAN]
          /\ rc' \in [Watcher -> {"none", "ok", "fail"}]
      BY <3>1, StartType
    <3>3. CASE Launch(w)
      BY <3>1, <3>2, <3>3 DEF Launch, locks, TypeOK, Code
    <3>4. CASE RunOnce(w)
      BY <3>1, <3>2, <3>4 DEF RunOnce, locks, supervisor, TypeOK, Code
    <3> QED BY <1>1, <3>3, <3>4
  <2>2. ChildInv'
    BY <1>1 DEF Launch, RunOnce, Start, Fresh, Alive, locks, supervisor, IInv, TypeOK, ChildInv
  <2>3. LockInv'
    BY <1>1 DEF Launch, RunOnce, Start, Fresh, Alive, locks, supervisor, IInv, TypeOK, LockInv, Stage
  <2>4. TraderInv'
    BY <1>1 DEF Launch, RunOnce, Start, Fresh, Alive, locks, supervisor, IInv, TypeOK, TraderInv
  <2> QED BY <2>1, <2>2, <2>3, <2>4 DEF IInv
<1>2. CASE Boot(w)
  <2>1. TypeOK'
    <3>1. CASE Exit(w, "2")
      BY <1>2, <3>1, ExitType DEF Boot, supervisor, IInv, TypeOK, Code
    <3>2. CASE ~Exit(w, "2")
      BY <1>2, <3>2 DEF Boot, supervisor, IInv, TypeOK
    <3> QED BY <3>1, <3>2
  <2>2. ChildInv'
    BY <1>2 DEF Boot, Exit, Free, supervisor, IInv, TypeOK, ChildInv
  <2>3. LockInv'
    BY <1>2 DEF Boot, Exit, Free, supervisor, IInv, TypeOK, LockInv, Stage
  <2>4. TraderInv'
    BY <1>2 DEF Boot, Exit, Free, supervisor, IInv, TypeOK, TraderInv
  <2> QED BY <2>1, <2>2, <2>3, <2>4 DEF IInv
<1>3. CASE BeginCycle(w)
  <2>1. tpc[w] = "none" /\ wpc[w] \in Stage \cup {"loop"}
    BY <1>3 DEF BeginCycle, IInv, TraderInv
  <2>2. ASSUME NEW c \in {"0", "2"}, EndCycle(w, c) PROVE IInv'
    BY <1>3, <2>1, <2>2, EndCycleKeeps DEF BeginCycle
  <2>3. CASE cycle = None /\ wpc' = [wpc EXCEPT ![w] = "prepare"] /\ cycle' = w
             /\ UNCHANGED <<code, stuck, sched>>
    BY <1>3, <2>3 DEF BeginCycle, IInv, TypeOK, ChildInv, LockInv, TraderInv, Stage, supervisor
  <2> QED BY <1>3, <2>2, <2>3 DEF BeginCycle
<1>4. CASE Prepare(w)
  <2>1. tpc[w] = "none" /\ wpc[w] \in Stage
    BY <1>4 DEF Prepare, IInv, TraderInv, Stage
  <2> QED BY <1>4, <2>1, SpawnKeeps, FallBackKeeps DEF Prepare
<1>5. CASE Continue(w)
  <2>1. tpc[w] = "none" /\ wpc[w] \in Stage
    BY <1>5 DEF Continue, IInv, TraderInv, Stage
  <2>2. Stop(w) => IInv'
    BY <1>5, <2>1, EndCycleKeeps DEF Continue, Stop
  <2> QED BY <1>5, <2>1, <2>2, SpawnKeeps, FallBackKeeps DEF Continue
<1>6. CASE Wake(w) \/ GetStuck(w)
  <2>1. TypeOK'
    <3>1. /\ wpc' \in [Watcher -> Stage \cup {"none", "start", "loop", "asleep", "gone"}]
          /\ stuck' \in [Watcher -> BOOLEAN]
      BY <1>6 DEF Wake, GetStuck, IInv, TypeOK
    <3>2. UNCHANGED <<sup, attempt, child, ended, watched, code, tpc, rc, tried, sched, cycle,
                      tlock, hours>>
      BY <1>6 DEF Wake, GetStuck, supervisor, locks
    <3> QED BY <3>1, <3>2 DEF IInv, TypeOK
  <2>2. ChildInv'
    BY <1>6 DEF Wake, GetStuck, supervisor, locks, IInv, TypeOK, ChildInv
  <2>3. LockInv'
    BY <1>6 DEF Wake, GetStuck, supervisor, locks, IInv, TypeOK, LockInv, Stage
  <2>4. TraderInv'
    BY <1>6 DEF Wake, GetStuck, supervisor, locks, IInv, TypeOK, TraderInv
  <2> QED BY <2>1, <2>2, <2>3, <2>4 DEF IInv
<1>7. CASE Crash(w)
  BY <1>7 DEF Crash, Exit, Free, Alive, IInv, TypeOK, ChildInv, LockInv, TraderInv, Stage, supervisor
<1> QED BY <1>1, <1>2, <1>3, <1>4, <1>5, <1>6, <1>7

LEMMA SupervisionNext == IInv /\ [Next]_vars => IInv'
<1>1. ASSUME IInv, Next PROVE IInv'
  <2>1. CASE TimePasses
    BY <1>1, <2>1 DEF TimePasses, IInv, TypeOK, ChildInv, LockInv, TraderInv, Stage, supervisor, locks
  <2> QED BY <1>1, <2>1, SupervisorKeeps, WatcherKeeps, TraderKeeps DEF Next
<1>2. ASSUME IInv, UNCHANGED vars PROVE IInv'
  BY <1>2 DEF vars, supervisor, locks, IInv, TypeOK, ChildInv, LockInv, TraderInv, Stage
<1> QED BY <1>1, <1>2

LEMMA SupervisionInvariant == Spec => []IInv
BY SupervisionInit, SupervisionNext, PTL DEF Spec

(* Every variable keeps its type, restarts their limit. *)
THEOREM TypeCorrect == Spec => []TypeOK
<1>1. IInv => TypeOK BY DEF IInv
<1> QED BY <1>1, SupervisionInvariant, PTL

(* Traders never overlap, whatever is killed, orphaned, restarted or run by hand. *)
THEOREM TradersNeverOverlap == Spec => []OneTrader
<1>1. IInv => OneTrader BY DEF IInv, LockInv, OneTrader
<1> QED BY <1>1, SupervisionInvariant, PTL

(* Once stopped, the last child has no successor: its slot is never reused, so what
   it leaves is what its own end left.                                         *)
StopInv == ended = "stopped" /\ child # None => wpc[child] = "gone"

LEMMA StopInvNext == IInv /\ StopInv /\ [Next]_vars => StopInv'
<1> SUFFICES ASSUME IInv, StopInv, [Next]_vars PROVE StopInv'
  OBVIOUS
<1>1. CASE Supervise \/ KillSupervisor \/ ChildExited \/ TimePasses \/ UNCHANGED vars
  BY <1>1 DEF Supervise, KillSupervisor, ChildExited, TimePasses, vars, supervisor, StopInv
<1>2. CASE StopStalled
  BY <1>2 DEF StopStalled, StopChild, Exit, Alive, supervisor, StopInv, IInv, TypeOK, ChildInv
<1>3. CASE StopSupervisor
  BY <1>3 DEF StopSupervisor, StopChild, Exit, Alive, StopInv, IInv, TypeOK, ChildInv
<1>4. ASSUME NEW w \in Watcher,
             TraderStart(w) \/ TraderEnds(w) \/ TraderHangs(w) \/ TraderTimeout(w)
      PROVE  StopInv'
  BY <1>4 DEF TraderStart, TraderEnds, TraderHangs, TraderTimeout, Return, supervisor, StopInv
<1>5. ASSUME NEW w \in Watcher, Launch(w) \/ RunOnce(w)
      PROVE  StopInv'
  <2>1. CASE Launch(w)
    BY <2>1 DEF Launch, StopInv, IInv, ChildInv
  <2>2. CASE RunOnce(w)
    BY <2>2 DEF RunOnce, Start, Fresh, supervisor, StopInv
  <2> QED BY <1>5, <2>1, <2>2
<1>6. ASSUME NEW w \in Watcher, Boot(w) \/ Wake(w) \/ GetStuck(w) \/ Crash(w)
      PROVE  StopInv'
  BY <1>6 DEF Boot, Wake, GetStuck, Crash, Exit, Alive, supervisor, StopInv, IInv, TypeOK
<1>7. ASSUME NEW w \in Watcher, BeginCycle(w) \/ Prepare(w) \/ Continue(w)
      PROVE  StopInv'
  BY <1>7 DEF BeginCycle, Prepare, Continue, FallBack, Stop, EndCycle, Spawn, Exit, supervisor,
              StopInv, IInv, TypeOK, Stage
<1> QED BY <1>1, <1>2, <1>3, <1>4, <1>5, <1>6, <1>7 DEF Next

(* A stopped supervisor leaves no watcher, and no trader but an orphan of a crash. *)
THEOREM StopIsComplete == Spec => []StoppedLeavesNothing
<1>1. Init => StopInv BY DEF Init, StopInv
<1>2. IInv /\ StopInv => StoppedLeavesNothing
  BY DEF IInv, StopInv, TypeOK, TraderInv, StoppedLeavesNothing, Alive
<1> QED BY <1>1, <1>2, StopInvNext, SupervisionInvariant, PTL DEF Spec

(* Only an end of the cycle's own watcher frees the cycle lock, and in the session it
   comes after a batch that looks at the stops.                                *)
LEMMA CycleEndsTried ==
  ASSUME IInv, [Next]_vars, NEW w \in Watcher,
         cycle = w, cycle' # w, wpc'[w] # "gone", hours = "open"
  PROVE  tried'[w]
<1>1. CASE Supervise \/ KillSupervisor \/ ChildExited \/ TimePasses \/ UNCHANGED vars
  BY <1>1 DEF Supervise, KillSupervisor, ChildExited, TimePasses, vars, locks
<1>2. CASE StopStalled \/ StopSupervisor
  BY <1>2 DEF StopStalled, StopSupervisor, StopChild, Exit, Free, IInv, TypeOK
<1>3. ASSUME NEW v \in Watcher,
             TraderStart(v) \/ TraderEnds(v) \/ TraderHangs(v) \/ TraderTimeout(v)
      PROVE  FALSE
  BY <1>3 DEF TraderStart, TraderEnds, TraderHangs, TraderTimeout, Return, locks
<1>4. ASSUME NEW v \in Watcher, Launch(v) \/ RunOnce(v) \/ Wake(v) \/ GetStuck(v)
      PROVE  FALSE
  BY <1>4 DEF Launch, RunOnce, Wake, GetStuck, locks
<1>5. ASSUME NEW v \in Watcher, Boot(v) \/ Crash(v)
      PROVE  FALSE
  BY <1>5 DEF Boot, Crash, Exit, Free, IInv, TypeOK
<1>6. ASSUME NEW v \in Watcher, BeginCycle(v)
      PROVE  FALSE
  BY <1>6 DEF BeginCycle, EndCycle, Exit, Free, IInv, LockInv, Stage, TypeOK
<1>7. ASSUME NEW v \in Watcher, Prepare(v)
      PROVE  FALSE
  BY <1>7 DEF Prepare, FallBack, Spawn
<1>8. ASSUME NEW v \in Watcher, Continue(v)
      PROVE  tried'[w]
  <2>1. CASE Stop(v) /\ wpc[v] \in {"trade", "risk"}
    BY <2>1 DEF Stop, EndCycle, Exit, Free, IInv, TypeOK, TraderInv
  <2>2. CASE ~(Stop(v) /\ wpc[v] \in {"trade", "risk"})
    BY <1>8, <2>2 DEF Continue, FallBack, Spawn
  <2> QED BY <2>1, <2>2
<1> QED BY <1>1, <1>2, <1>3, <1>4, <1>5, <1>6, <1>7, <1>8 DEF Next

(* No cycle ends in the session without a trading or a risk-only batch. *)
THEOREM CyclesEndWithRisk == Spec => CyclesLookAtRisk
<1>1. IInv /\ [Next]_vars =>
        [\A w \in Watcher :
           cycle = w /\ cycle' # w /\ wpc'[w] # "gone" /\ hours = "open" => tried'[w]]_vars
  BY CycleEndsTried
<1> QED BY <1>1, SupervisionInvariant, PTL DEF Spec, CyclesLookAtRisk
=============================================================================
