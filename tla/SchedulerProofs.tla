-------------------------- MODULE SchedulerProofs --------------------------
(***************************************************************************)
(* Machine-checked theorems about Scheduler: type correctness, and that a   *)
(* trading batch never runs in a day without candidates or a started        *)
(* premarket, for every number of days, restarts and trading days.          *)
(***************************************************************************)
EXTENDS Scheduler, TLAPS, FiniteSetTheorems, WellFoundedInduction

USE DEF disk, supervisor, history, memory, Others

Running == {"top", "due", "jobs", "reports"} \cup Commands

(* The slots of a day are in this order. *)
Rank == [night |-> 0, pre |-> 1, gap |-> 2, open1 |-> 3, open2 |-> 4, evening |-> 5]

(* Since it sampled the clock an iteration has outlasted spent slots of the same day;
   a process that has not sampled it has set no mark but a cold start's.       *)
ClockInv ==
  /\ pc \in Running \ {"top", "cold"} => now # None
  /\ pc \in Running \ {"top"} /\ now # None =>
       now[1] = day /\ Rank[slot] = Rank[now[2]] + spent
  /\ pc \in {"down", "boot"} => now = None
  /\ now = None => mark = None \/ idle

(* Batches run on trading days, the reports are of trading days. *)
JobInv ==
  /\ pc \in {"cold", "premarket", "intraday"} => day \in Trading
  /\ pc = "intraday" => now[2] \in Session
  /\ pc = "report" => tried \in Trading

(* The mark of a premarket that was run at 8:30 is of today: a trading batch replaces
   it before the day ends.                                                     *)
MarkInv ==
  mark = "8:30" /\ ~idle =>
    /\ sought /\ day \in Trading /\ now # None /\ now[1] = day
    /\ \/ now[2] \in {"pre", "gap"} /\ slot \notin {"night", "evening"}
       \/ now[2] \in Session /\ pc \in {"due", "cold", "jobs"}

Covered == cand = day \/ sought \/ excused

(* From the jobs of 8:30 on, and from 8:31 on whenever a process has begun, a trading
   day is covered.                                                             *)
CoverInv ==
  day \in Trading =>
    /\ slot \notin {"night", "pre"} /\ pc \in Running => Covered
    /\ now = <<day, "pre">> /\ pc \in Running \ {"due", "jobs"} => Covered

SchedInv == TypeOK /\ ClockInv /\ JobInv /\ MarkInv /\ CoverInv

-----------------------------------------------------------------------------
(* A nonempty set of days has a first one. *)
LEMMA FirstDay ==
  ASSUME NEW S, S \subseteq Days, S # {}
  PROVE  \E d \in S : \A e \in S : d <= e
<1> DEFINE T == {0..d : d \in S}
<1>1. S \subseteq Nat
  BY SchedulerAssumption DEF Days
<1>2. T \subseteq FiniteSubsetsOf(Nat)
  <2>1. ASSUME NEW d \in S PROVE 0..d \in SUBSET Nat /\ IsFiniteSet(0..d)
    BY <1>1, FS_Interval
  <2> QED BY <2>1 DEF FiniteSubsetsOf
<1>3. \E X \in T : \A Y \in T : ~(<<Y, X>> \in StrictSubsetOrdering(Nat))
  <2> DEFINE R == StrictSubsetOrdering(Nat)
             F == FiniteSubsetsOf(Nat)
  <2>1. T # {} /\ IsWellFoundedOn(R, F) /\ T \subseteq F
    BY <1>2, FS_StrictSubsetOrderingWellFounded
  <2> HIDE DEF T, R, F
  <2>2. \E X \in T : \A Y \in T : ~(<<Y, X>> \in R)
    BY <2>1, WFMin, Zenon
  <2> QED BY <2>2 DEF R
<1>4. PICK d \in S : \A Y \in T : ~(<<Y, 0..d>> \in StrictSubsetOrdering(Nat))
  BY <1>3
<1>5. ASSUME NEW e \in S, e < d PROVE FALSE
  <2>1. /\ 0..e \in SUBSET Nat /\ 0..d \in SUBSET Nat
        /\ 0..e \subseteq 0..d /\ d \in (0..d) \ (0..e)
    BY <1>1, <1>5
  <2>2. <<0..e, 0..d>> \in StrictSubsetOrdering(Nat)
    BY <2>1 DEF StrictSubsetOrdering
  <2> QED BY <1>4, <2>2
<1> QED BY <1>1, <1>5

(* The earliest day that is not reported yet exists. *)
LEMMA EarliestDay ==
  ASSUME NEW S, S \subseteq Days
  PROVE  Earliest(S) \in S \cup {None}
BY FirstDay DEF Earliest

LEMMA NoDay == None \notin Trading /\ Trading \subseteq Days
BY SchedulerAssumption

(* A report that is due is of a trading day. *)
LEMMA DueReportType ==
  ASSUME TypeOK, now # None
  PROVE  DueReport \in Trading \cup {None}
<1>1. Completed \subseteq Trading
  BY DEF Completed, TypeOK
<1>2. Earliest(Completed \ reported) \in Trading \cup {None}
  BY <1>1, EarliestDay, NoDay
<1> QED BY <1>1, <1>2 DEF DueReport, PendingReport

LEMMA SchedInit == Init => SchedInv
<1> SUFFICES ASSUME Init PROVE SchedInv
  OBVIOUS
<1>1. TypeOK
  <2>1. /\ mode \in Modes /\ day \in Days /\ slot \in Slots
        /\ spent \in 0..Span /\ restarts \in 0..MaxRestarts
    BY SchedulerAssumption DEF Init, Slots, Days
  <2>2. /\ now = None /\ mark = None /\ {cand, failed, done, tried} = {None}
        /\ logged = {} /\ reported = {}
    BY DEF Init
  <2>3. /\ pc = "down" /\ sup = "off" /\ pending = FALSE
        /\ sought = FALSE /\ idle = FALSE /\ excused = FALSE
    BY DEF Init
  <2> QED BY <2>1, <2>2, <2>3 DEF TypeOK
<1>2. ClockInv /\ JobInv /\ MarkInv /\ CoverInv
  BY SchedulerAssumption DEF Init, ClockInv, JobInv, MarkInv, CoverInv, Running, Commands
<1> QED BY <1>1, <1>2 DEF SchedInv

Basics == TypeOK /\ ClockInv /\ JobInv

(* Time passes while a command runs, between two samples or without a process. *)
LEMMA BasicsTick == Basics /\ Tick => Basics'
<1> SUFFICES ASSUME Basics, Tick PROVE Basics'
  OBVIOUS
<1> USE DEF Basics
<1>1. /\ UNCHANGED <<mode, pc, now, mark, pending, disk, done, tried, supervisor, idle>>
      /\ spent' = IF pc \in Commands THEN spent + 1 ELSE spent
      /\ pc \in Commands => spent < Span /\ slot # "evening"
      /\ pc \in {"down", "top"} \cup Commands
  BY DEF Tick, Passing, Commands
<1>2. /\ slot \in Slots /\ day \in Days /\ spent \in 0..Span
      /\ sought \in BOOLEAN /\ excused \in BOOLEAN
  BY DEF TypeOK
<1>3. /\ slot' \in Slots /\ day' \in Days /\ sought' \in BOOLEAN /\ excused' \in BOOLEAN
      /\ slot # "evening" => day' = day /\ Rank[slot'] = Rank[slot] + 1
  <2>1. ASSUME slot # "evening"
        PROVE  NextSlot[slot] \in Slots /\ Rank[NextSlot[slot]] = Rank[slot] + 1
    BY <1>2, <2>1 DEF Slots, NextSlot, Rank
  <2>2. CASE slot # "evening"
    <3>1. slot' = NextSlot[slot] /\ day' = day /\ sought' = sought
      BY <2>2 DEF Tick
    <3>2. excused' = (excused \/ (slot = "pre" /\ pc # "down" /\ now # <<day, "pre">>))
      BY <2>2 DEF Tick
    <3> QED BY <1>2, <2>1, <2>2, <3>1, <3>2
  <2>3. CASE slot = "evening"
    <3>1. day < LastDay /\ day' = day + 1 /\ slot' = "night" /\ ~sought' /\ ~excused'
      BY <2>3 DEF Tick
    <3>2. day' \in Days /\ slot' \in Slots
      BY <1>2, <3>1, SchedulerAssumption DEF Slots, Days
    <3>3. sought' \in BOOLEAN /\ excused' \in BOOLEAN
      BY <2>3 DEF Tick
    <3> QED BY <2>3, <3>2, <3>3
  <2> QED BY <2>2, <2>3
<1>4. spent' \in 0..Span
  BY <1>1, <1>2, SchedulerAssumption
<1>5. TypeOK'
  BY <1>1, <1>3, <1>4 DEF TypeOK
<1>6. ClockInv'
  <2>1. ASSUME pc \in Commands, now # None
        PROVE  now'[1] = day' /\ Rank[slot'] = Rank[now'[2]] + spent'
    <3>1. now[1] = day /\ Rank[slot] = Rank[now[2]] + spent
      BY <2>1 DEF ClockInv, Running, Commands
    <3>2. Rank[slot] \in Nat /\ Rank[slot'] \in Nat
      BY <1>2, <1>3 DEF Rank, Slots
    <3>3. now[2] \in Slots
      BY <2>1 DEF TypeOK
    <3>4. Rank[now[2]] \in Nat
      BY <3>3 DEF Rank, Slots
    <3> QED BY <1>1, <1>2, <1>3, <2>1, <3>1, <3>2, <3>4
  <2> QED BY <1>1, <2>1 DEF ClockInv, Running, Commands
<1>7. JobInv'
  BY <1>1, <1>3 DEF JobInv, Commands
<1> QED BY <1>5, <1>6, <1>7

(* What the process itself does leaves the clock alone. *)
LEMMA BasicsProcess ==
  ASSUME Basics, Next, ~Tick
  PROVE  Basics'
<1> USE SchedulerAssumption, NoDay DEF Basics, TypeOK, ClockInv, JobInv, Running, Commands
<1>1. /\ slot \in Slots /\ day \in Days
      /\ now # None => now[1] \in Days /\ now[2] \in Slots
  OBVIOUS
<1>2. CASE StartAlone \/ Supervise \/ ReplaceAttached \/ Restart
  BY <1>2 DEF StartAlone, Supervise, ReplaceAttached, Restart, Run, Begin
<1>3. CASE Crash
  <2>1. cand' \in Trading \cup {None} /\ logged' \subseteq Trading
    BY <1>3 DEF Crash, PremarketFails, IntradayFails, ReportFile
  <2>2. reported' \subseteq Trading /\ failed' = failed
    BY <1>3 DEF Crash, PremarketFails, IntradayFails, ReportFile
  <2>3. sup' \in {"off", "attached", "gone", "child", "exited", "delay"}
    BY <1>3 DEF Crash
  <2>4. /\ pc' = "down" /\ now' = None /\ spent' = 0 /\ mark' = None /\ pending' = FALSE
        /\ done' = None /\ tried' = None /\ idle' = FALSE
        /\ UNCHANGED <<mode, day, slot, restarts, sought, excused>>
    BY <1>3 DEF Crash
  <2>5. TypeOK'
    <3>1. /\ spent' \in 0..Span /\ restarts' \in 0..MaxRestarts
      BY <2>4
    <3>2. {cand, failed, done, tried}' \subseteq Trading \cup {None}
      BY <2>1, <2>2, <2>4
    <3> QED BY <2>1, <2>2, <2>3, <2>4, <3>1, <3>2
  <2>6. ClockInv'
    BY  <2>4
  <2>7. JobInv'
    BY  <2>4
  <2> QED BY <2>5, <2>6, <2>7
<1>4. CASE Boot
  BY <1>4 DEF Boot, ColdStart, ColdStartNeeded, AfterColdStart
<1>5. CASE ColdStartEnds
  <2>1. TypeOK'
    <3>1. day \in Trading
      BY <1>5 DEF ColdStartEnds
    <3>2. cand' \in Trading \cup {None} /\ logged' \subseteq Trading
          /\ UNCHANGED <<reported, failed>>
      BY <1>5, <3>1 DEF ColdStartEnds, Premarket, PremarketFails
    <3>3. /\ pc' \in {"top", "jobs"} /\ mark' \in {"8:30", mark}
          /\ pending' \in BOOLEAN /\ idle' \in BOOLEAN
          /\ UNCHANGED <<mode, day, slot, now, spent, done, tried, sup, restarts, sought, excused>>
      BY <1>5 DEF ColdStartEnds, AfterColdStart
    <3> QED BY <3>2, <3>3
  <2>2. ClockInv'
    BY <1>5 DEF ColdStartEnds, AfterColdStart, Premarket, PremarketFails
  <2>3. JobInv'
    BY <1>5 DEF ColdStartEnds, AfterColdStart, Premarket, PremarketFails
  <2> QED BY <2>1, <2>2, <2>3
<1>6. CASE Top
  <2>1. Rank[slot] = Rank[slot] + 0
    BY <1>1 DEF Rank, Slots
  <2> QED BY <1>1, <1>6, <2>1 DEF Top
<1>7. CASE RetryColdStart
  BY <1>7 DEF RetryColdStart, ColdStart, ColdStartNeeded, AfterColdStart
<1>8. CASE Jobs
  BY <1>8 DEF Jobs, SetMark, DuePremarket, DueIntraday
<1>9. CASE PremarketEnds
  BY <1>9 DEF PremarketEnds, Premarket, PremarketFails
<1>10. CASE IntradayEnds
  BY <1>10 DEF IntradayEnds, IntradayFails
<1>11. CASE StartReport \/ NoReport
  BY <1>11, DueReportType DEF StartReport, NoReport
<1>12. CASE ReportOk \/ ReportFails
  BY <1>12 DEF ReportOk, ReportFails, ReportFile
<1>13. CASE Attach \/ ChildExited \/ SupervisorDies
  BY <1>13 DEF Attach, ChildExited, MayRestart, SupervisorDies
<1> QED
  BY <1>2, <1>3, <1>4, <1>5, <1>6, <1>7, <1>8, <1>9, <1>10, <1>11, <1>12, <1>13 DEF Next

LEMMA BasicsNext == Basics /\ [Next]_vars => Basics'
<1>1. CASE UNCHANGED vars
  BY <1>1 DEF vars, Basics, TypeOK, ClockInv, JobInv
<1> QED BY <1>1, BasicsTick, BasicsProcess

(* A mark of 8:30 does not survive its day: an iteration that sampled the clock before
   the session ends within it, and one that sampled a minute of the session marks it. *)
LEMMA MarkNext == SchedInv /\ [Next]_vars => MarkInv'
<1> SUFFICES ASSUME SchedInv, [Next]_vars PROVE MarkInv'
  OBVIOUS
<1> USE SchedulerAssumption DEF SchedInv, MarkInv, Running, Commands, Session
<1>1. /\ slot \in Slots /\ day \in Days /\ spent \in 0..Span /\ Span \in 0..2
      /\ now # None => now[2] \in Slots
  BY DEF TypeOK
<1>2. CASE UNCHANGED vars
  BY <1>2 DEF vars
<1>3. CASE Tick
  <2>1. /\ UNCHANGED <<pc, now, mark, idle>>
        /\ pc \in Commands => spent < Span /\ slot # "evening"
        /\ pc = "down" \/ (pc = "top" /\ now = <<day, slot>>) \/ pc \in Commands
    BY <1>3 DEF Tick, Passing
  <2> SUFFICES ASSUME mark = "8:30", ~idle
               PROVE  /\ sought' /\ day' = day
                      /\ now[2] \in {"pre", "gap"} => slot' \notin {"night", "evening"}
    BY <2>1
  <2>2. pc # "down" /\ now # None
    BY <2>1 DEF ClockInv
  <2>3. slot # "evening"
    BY <2>1, <2>2
  <2>4. slot' = NextSlot[slot] /\ day' = day /\ sought' = sought
    BY <1>3, <2>3 DEF Tick
  <2>5. ASSUME now[2] \in {"pre", "gap"} PROVE slot \in {"pre", "gap", "open1"}
    <3>1. CASE pc = "top"
      BY <2>1, <2>5, <3>1
    <3>2. CASE pc \in Commands
      <4>1. Rank[slot] = Rank[now[2]] + spent /\ spent < 2
        BY <1>1, <2>1, <2>2, <3>2 DEF ClockInv
      <4>2. Rank[now[2]] \in 1..2
        BY <2>5 DEF Rank
      <4>3. Rank[slot] \in 1..3
        BY <1>1, <4>1, <4>2
      <4> QED BY <1>1, <4>3 DEF Rank, Slots
    <3> QED BY <2>1, <2>2, <3>1, <3>2
  <2> QED BY <2>4, <2>5 DEF NextSlot
<1>4. CASE Jobs
  <2>1. /\ pc = "jobs" /\ now # None /\ now[1] = day /\ Rank[slot] = Rank[now[2]] + spent
    BY <1>4 DEF Jobs, ClockInv
  <2>2. CASE DuePremarket /\ SetMark("8:30") /\ pc' = "premarket" /\ sought' = TRUE
             /\ UNCHANGED <<now, day, slot>>
    <3>1. day \in Trading /\ now[2] = "pre"
      BY <2>1, <2>2 DEF DuePremarket
    <3>2. Rank[slot] \in 1..3
      BY <1>1, <2>1, <3>1 DEF Rank
    <3>3. slot \notin {"night", "evening"}
      BY <1>1, <3>2 DEF Rank, Slots
    <3> QED BY <2>1, <2>2, <3>1, <3>3
  <2>3. CASE DueIntraday /\ SetMark(now[2])
    BY <2>3 DEF DueIntraday, SetMark
  <2>4. CASE ~DuePremarket /\ ~DueIntraday /\ UNCHANGED <<mark, sought, idle, now, day, slot>>
    BY <2>1, <2>4 DEF DueIntraday
  <2> QED BY <1>4, <2>2, <2>3, <2>4 DEF Jobs
<1>5. CASE StartAlone \/ Supervise \/ ReplaceAttached \/ Restart
  BY <1>5 DEF StartAlone, Supervise, ReplaceAttached, Restart, Run, Begin, ClockInv
<1>6. CASE Crash
  BY <1>6 DEF Crash
<1>7. CASE Boot
  BY <1>7 DEF Boot, ColdStart, ClockInv
<1>8. CASE ColdStartEnds
  BY <1>8 DEF ColdStartEnds, AfterColdStart
<1>9. CASE Top
  BY <1>1, <1>9 DEF Top, Slots
<1>10. CASE RetryColdStart
  BY <1>10 DEF RetryColdStart, ColdStart, AfterColdStart
<1>11. CASE PremarketEnds \/ IntradayEnds
  BY <1>11 DEF PremarketEnds, IntradayEnds
<1>12. CASE StartReport \/ NoReport \/ ReportOk \/ ReportFails
  BY <1>12 DEF StartReport, NoReport, ReportOk, ReportFails
<1>13. CASE Attach \/ ChildExited \/ SupervisorDies
  BY <1>13 DEF Attach, ChildExited, SupervisorDies
<1> QED
  BY <1>2, <1>3, <1>4, <1>5, <1>6, <1>7, <1>8, <1>9, <1>10, <1>11, <1>12, <1>13 DEF Next

(* 8:30 is run, outlasted, skipped for a cold start's mark, or made up for when a
   process begins; what covers a day covers it until it ends.                  *)
LEMMA CoverNext == SchedInv /\ [Next]_vars => CoverInv'
<1> SUFFICES ASSUME SchedInv, [Next]_vars PROVE CoverInv'
  OBVIOUS
<1> USE SchedulerAssumption DEF SchedInv, CoverInv, Running, Commands
<1>1. /\ slot \in Slots /\ day \in Days
      /\ now # None => now \in Days \X Slots
  BY DEF TypeOK
<1>2. CASE UNCHANGED vars
  BY <1>2 DEF vars, Covered
<1>3. CASE Tick
  <2>1. UNCHANGED <<pc, now, cand>> /\ Passing
    BY <1>3 DEF Tick
  <2>2. CASE /\ slot # "evening" /\ slot' = NextSlot[slot]
             /\ excused' = (excused \/ (slot = "pre" /\ pc # "down" /\ now # <<day, "pre">>))
             /\ UNCHANGED <<day, sought>>
    <3>1. Covered => Covered'
      BY <2>1, <2>2 DEF Covered
    <3>2. ASSUME slot' \notin {"night", "pre"} PROVE slot \notin {"night", "pre"} \/ slot = "pre"
      BY <1>1, <2>2, <3>2 DEF NextSlot, Slots
    <3>3. ASSUME slot = "pre", pc \in Running, day \in Trading PROVE Covered'
      <4>1. CASE now = <<day, "pre">>
        BY <2>1, <3>1, <3>3, <4>1 DEF Passing
      <4>2. CASE now # <<day, "pre">>
        BY <2>2, <3>3, <4>2 DEF Covered
      <4> QED BY <4>1, <4>2
    <3> QED BY <2>1, <2>2, <3>1, <3>2, <3>3
  <2>3. CASE slot = "evening" /\ day < LastDay /\ day' = day + 1 /\ slot' = "night"
    <3>1. ASSUME pc \in Running PROVE now = <<day, "evening">>
      BY <2>1, <2>3, <3>1 DEF Passing
    <3>2. pc \notin Running \/ now' # <<day', "pre">>
      BY <2>1, <3>1
    <3> QED BY <2>1, <2>3, <3>2
  <2> QED BY <1>3, <2>2, <2>3 DEF Tick
<1>4. CASE Jobs
  <2>1. pc = "jobs" /\ UNCHANGED <<now, day, slot, cand>> /\ now # None
    BY <1>4 DEF Jobs, ClockInv
  <2>2. Covered => Covered'
    BY <1>4, <2>1 DEF Jobs, Covered
  <2>3. ASSUME now = <<day, "pre">>, day \in Trading PROVE Covered'
    <3>1. CASE DuePremarket /\ sought' = TRUE
      BY <3>1 DEF Covered
    <3>2. CASE DueIntraday
      BY <2>3, <3>2 DEF DueIntraday, Session
    <3>3. CASE /\ ~DuePremarket /\ UNCHANGED sought
               /\ excused' = (excused \/ (now = <<day, "pre">> /\ idle))
      <4>1. mark = "8:30"
        BY <2>3, <3>3 DEF DuePremarket
      <4> QED BY <2>3, <3>3, <4>1 DEF MarkInv, Covered
    <3> QED BY <1>4, <3>1, <3>2, <3>3 DEF Jobs
  <2> QED BY <2>1, <2>2, <2>3
<1>5. ASSUME UNCHANGED <<now, day, slot, sought, excused>>, cand' \in {cand, day},
             pc' \in Running => pc \in Running,
             pc' \in Running \ {"due", "jobs"} => pc \in Running \ {"due", "jobs"}
      PROVE  CoverInv'
  <2>1. Covered => Covered'
    BY <1>5 DEF Covered
  <2> QED BY <1>5, <2>1
<1>6. CASE StartAlone \/ Supervise \/ ReplaceAttached \/ Restart
  BY <1>5, <1>6 DEF StartAlone, Supervise, ReplaceAttached, Restart, Run, Begin
<1>7. CASE Crash
  BY <1>7 DEF Crash
(* A process that finds 8:30 past has candidates of today, or starts a premarket. *)
<1>8. CASE Boot \/ RetryColdStart
  <2>1. UNCHANGED <<now, day, slot, cand>>
    BY <1>8 DEF Boot, RetryColdStart
  <2>2. CASE ColdStartNeeded /\ pc' = "cold" /\ sought' = TRUE
    BY <2>2 DEF Covered
  <2>3. CASE ~ColdStartNeeded /\ pc' = AfterColdStart /\ UNCHANGED history
    <3>1. day \in Trading /\ slot # "night" => Covered'
      BY <2>1, <2>3 DEF ColdStartNeeded, Covered
    <3>2. now = <<day, "pre">> => pc' = "jobs"
      <4>1. <<day, "pre">> \in Days \X Slots
        <5>1. "pre" \in Slots
          BY DEF Slots
        <5> QED BY <1>1, <5>1
      <4> QED BY <2>3, <4>1 DEF AfterColdStart
    <3> QED BY <2>1, <3>1, <3>2
  <2>4. CASE pc' = "jobs" /\ pc = "due" /\ UNCHANGED history
    BY <1>5, <2>1, <2>4
  <2> QED BY <1>8, <2>2, <2>3, <2>4 DEF Boot, RetryColdStart, ColdStart
<1>9. CASE ColdStartEnds
  BY <1>5, <1>9 DEF ColdStartEnds, AfterColdStart, Premarket, PremarketFails
<1>10. CASE Top
  BY <1>1, <1>10 DEF Top, Covered
<1>11. CASE PremarketEnds \/ IntradayEnds
  BY <1>5, <1>11 DEF PremarketEnds, IntradayEnds, Premarket, PremarketFails, IntradayFails
<1>12. CASE StartReport \/ NoReport \/ ReportOk \/ ReportFails
  BY <1>5, <1>12 DEF StartReport, NoReport, ReportOk, ReportFails, ReportFile
<1>13. CASE Attach \/ ChildExited \/ SupervisorDies
  BY <1>5, <1>13 DEF Attach, ChildExited, SupervisorDies
<1> QED
  BY <1>2, <1>3, <1>4, <1>6, <1>7, <1>8, <1>9, <1>10, <1>11, <1>12, <1>13 DEF Next

LEMMA SchedNext == SchedInv /\ [Next]_vars => SchedInv'
BY BasicsNext, MarkNext, CoverNext DEF SchedInv, Basics

(* The clock, the loop's variables, the files and the supervisor keep their types for
   every number of days, set of trading days and restart limit; reports are of trading
   days, and a supervisor restarts no more often than SCHEDULER_MAX_RESTARTS.  *)
THEOREM TypeCorrect == Spec => []TypeOK
<1>1. SchedInv => TypeOK
  BY DEF SchedInv
<1> QED BY <1>1, SchedInit, SchedNext, PTL DEF Spec

(* A trading batch runs only in a day with candidates of its own, or whose premarket
   was started, or whose 8:30 was outlasted or skipped for a cold start's mark: over
   crashes, restarts, failed cold starts and any order of trading days and holidays. *)
THEOREM BatchesAreFresh == Spec => []FreshBatches
<1>1. SchedInv => FreshBatches
  <2> SUFFICES ASSUME SchedInv, pc = "intraday" PROVE Covered
    BY DEF FreshBatches, Covered
  <2>1. /\ day \in Trading /\ now # None /\ now[2] \in Session
        /\ Rank[slot] = Rank[now[2]] + spent /\ spent \in 0..Span /\ slot \in Slots
    BY DEF SchedInv, ClockInv, JobInv, TypeOK, Running, Commands
  <2>2. Rank[slot] >= 3
    <3>1. Rank[now[2]] \in 3..4
      BY <2>1 DEF Rank, Session
    <3>2. spent \in Nat
      BY <2>1, SchedulerAssumption
    <3> QED BY <2>1, <3>1, <3>2
  <2>3. slot \notin {"night", "pre"}
    BY <2>2 DEF Rank
  <2> QED BY <2>1, <2>3 DEF SchedInv, CoverInv, Running, Commands
<1> QED BY <1>1, SchedInit, SchedNext, PTL DEF Spec
=============================================================================
