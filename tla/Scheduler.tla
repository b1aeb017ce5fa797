----------------------------- MODULE Scheduler -----------------------------
(***************************************************************************)
(* scheduler.py, the loop that samples the clock and runs the premarket     *)
(* batch at 8:30, a trading batch in every minute from 9:00 to 15:20 and    *)
(* the report of each session, one blocking command after another; and the  *)
(* legacy supervisor that restarts it (core/utils/scheduler_supervisor.py). *)
(*                                                                         *)
(* A day is the slots of Slots: "pre" is the minute 8:30, "open1" and       *)
(* "open2" stand for the minutes of the session, "evening" begins at 15:30. *)
(***************************************************************************)
EXTENDS Integers

CONSTANTS
  Modes,        \* PAPER, REAL: what the scheduler may be started as
  LastDay,      \* bound: days 1..LastDay
  Trading,      \* the KRX trading days among them
  MaxRestarts,  \* SCHEDULER_MAX_RESTARTS
  Span,         \* bound: slots that the commands of one iteration may outlast
  None

Days == 1..LastDay
Slots == {"night", "pre", "gap", "open1", "open2", "evening"}

(* No iteration outlasts a session: its commands time out after 15 minutes (a cold
   start, a batch), 5 and 10 minutes (the reports).                             *)
ASSUME SchedulerAssumption ==
  /\ Modes \subseteq {"PAPER", "REAL"} /\ LastDay \in Nat \ {0}
  /\ Trading \subseteq Days /\ MaxRestarts \in Nat /\ Span \in 0..2
  /\ None \notin Days /\ None \notin Days \X Slots /\ None # "8:30"

Session == {"open1", "open2"}
NextSlot == [night |-> "pre", pre |-> "gap", gap |-> "open1", open1 |-> "open2",
             open2 |-> "evening"]

VARIABLES
  mode, day, slot,
  pc,        \* down, boot, top, due, jobs, reports, or the command that runs
  now,       \* the clock as the iteration sampled it; None before the first
  spent,     \* slots that its commands have outlasted
  mark,      \* last_run_mark
  pending,   \* cold_start_pending
  cand,      \* the day fa_candidates.json was written
  logged,    \* session days with rows in operational_health.jsonl
  reported,  \* days with a FINAL daily artifact
  failed,    \* the date of a FAILED eod_report_status.json
  done, tried,     \* report_run_date, report_last_attempt_date
  sup, restarts,   \* the supervisor: off, attached, gone, child, exited, delay; its count
  sought,    \* history: a premarket was started today
  idle,      \* history: no job has run since a cold start set the mark
  excused    \* history: today's 8:30 was outlasted, or skipped for such a mark

disk == <<cand, logged, reported, failed>>
supervisor == <<sup, restarts>>
history == <<sought, idle, excused>>
vars == <<mode, day, slot, pc, now, spent, mark, pending, disk, done, tried, supervisor, history>>

Commands == {"cold", "premarket", "intraday", "report"}  \* values of pc

Init ==
  /\ mode \in Modes /\ day = 1 /\ slot = "night"
  /\ pc = "down" /\ now = None /\ spent = 0 /\ mark = None /\ pending = FALSE
  /\ cand = None /\ logged = {} /\ reported = {} /\ failed = None
  /\ done = None /\ tried = None
  /\ sup = "off" /\ restarts = 0
  /\ sought = FALSE /\ idle = FALSE /\ excused = FALSE

(* The clock.  The loop sleeps ten seconds, so that it samples every slot unless a
   command of the iteration lasts longer.                                      *)
Passing ==
  \/ pc = "down"
  \/ pc = "top" /\ now = <<day, slot>>
  \/ pc \in Commands /\ spent < Span /\ slot # "evening"

Tick ==
  /\ Passing
  /\ spent' = IF pc \in Commands THEN spent + 1 ELSE spent
  /\ \/ /\ slot # "evening"
        /\ slot' = NextSlot[slot]
        /\ excused' = (excused \/ (slot = "pre" /\ pc # "down" /\ now # <<day, "pre">>))
        /\ UNCHANGED <<day, sought>>
     \/ /\ slot = "evening" /\ day < LastDay
        /\ day' = day + 1 /\ slot' = "night" /\ sought' = FALSE /\ excused' = FALSE
  /\ UNCHANGED <<mode, pc, now, mark, pending, disk, done, tried, supervisor, idle>>

-----------------------------------------------------------------------------
(* The process                                                             *)

memory == <<now, spent, mark, pending, done, tried>>

Begin ==
  /\ pc = "down" /\ pc' = "boot"
  /\ UNCHANGED <<mode, day, slot, memory, disk, history>>

StartAlone == Begin /\ UNCHANGED supervisor

(* What a premarket batch that ran, or that found the cycle lock taken, has written. *)
Premarket(r) ==
  /\ IF r = "ok" THEN cand' = day /\ logged' = logged \cup {day} ELSE UNCHANGED <<cand, logged>>
  /\ UNCHANGED <<reported, failed>>

(* Batches that fail, which may have written their files before. *)
PremarketFails ==
  /\ cand' \in {cand, day} /\ logged' \in {logged, logged \cup {day}}
  /\ UNCHANGED <<reported, failed>>

IntradayFails ==
  /\ logged' \in {logged, logged \cup {day}}
  /\ UNCHANGED <<cand, reported, failed>>

(* write_end_of_day_report writes several artifacts, the daily one among the first. *)
ReportFile ==
  /\ reported' \in {reported, reported \cup {tried}}
  /\ UNCHANGED <<cand, logged>>

(* An exception outside the loop's try, or a kill: only the files are left.  The
   command it was waiting for may still finish what it writes.                 *)
Crash ==
  /\ pc # "down" /\ pc' = "down"
  /\ \/ pc \in {"cold", "premarket"} /\ PremarketFails
     \/ pc = "intraday" /\ IntradayFails
     \/ pc = "report" /\ ReportFile /\ UNCHANGED failed
     \/ pc \notin Commands /\ UNCHANGED disk
  /\ sup' = CASE sup = "child" -> "exited" [] sup = "attached" -> "gone" [] OTHER -> sup
  /\ now' = None /\ spent' = 0 /\ mark' = None /\ pending' = FALSE
  /\ done' = None /\ tried' = None /\ idle' = FALSE
  /\ UNCHANGED <<mode, day, slot, restarts, sought, excused>>

-----------------------------------------------------------------------------
(* check_and_run_cold_start: a premarket when today's 8:30 is past and the
   candidates are not of today.                                                *)

ColdStartNeeded == day \in Trading /\ slot # "night" /\ cand # day

AfterColdStart == IF now = None THEN "top" ELSE "jobs"

ColdStart ==
  \/ ColdStartNeeded /\ pc' = "cold" /\ sought' = TRUE /\ UNCHANGED <<mark, pending, idle, excused>>
  \/ /\ ~ColdStartNeeded
     /\ pc' = AfterColdStart /\ mark' = None /\ pending' = FALSE
     /\ UNCHANGED history

Boot ==
  /\ pc = "boot" /\ ColdStart
  /\ UNCHANGED <<mode, day, slot, now, spent, disk, done, tried, supervisor>>

(* A cycle lock that is taken, exit code 2, counts as a cold start that was run. *)
ColdStartEnds ==
  /\ pc = "cold" /\ pc' = AfterColdStart
  /\ \/ \E r \in {"ok", "busy"} : Premarket(r) /\ mark' = "8:30" /\ pending' = FALSE /\ idle' = TRUE
     \/ PremarketFails /\ pending' = TRUE /\ UNCHANGED <<mark, idle>>
  /\ UNCHANGED <<mode, day, slot, now, spent, done, tried, supervisor, sought, excused>>

-----------------------------------------------------------------------------
(* The loop                                                                *)

Top ==
  /\ pc = "top"
  /\ now' = <<day, slot>> /\ spent' = 0
  /\ pc' = IF pending THEN "due" ELSE "jobs"
  /\ UNCHANGED <<mode, day, slot, mark, pending, disk, done, tried, supervisor, history>>

(* A failed cold start is repeated when its backoff is over. *)
RetryColdStart ==
  /\ pc = "due"
  /\ \/ ColdStart
     \/ pc' = "jobs" /\ UNCHANGED <<mark, pending, history>>
  /\ UNCHANGED <<mode, day, slot, now, spent, disk, done, tried, supervisor>>

DuePremarket == now[1] \in Trading /\ now[2] = "pre" /\ mark # "8:30"
DueIntraday == now[1] \in Trading /\ now[2] \in Session /\ mark # now[2]

(* Fault: only the premarket leaves its mark. *)
MarkOfPremarket(m) == mark' = IF m = "8:30" THEN m ELSE mark

(* The mark is set before the command is run. *)
SetMark(m) == mark' = m

Jobs ==
  /\ pc = "jobs"
  /\ \/ /\ DuePremarket /\ SetMark("8:30") /\ pc' = "premarket"
        /\ sought' = TRUE /\ idle' = FALSE /\ UNCHANGED excused
     \/ /\ DueIntraday /\ SetMark(now[2]) /\ pc' = "intraday"
        /\ idle' = FALSE /\ UNCHANGED <<sought, excused>>
     \/ /\ ~DuePremarket /\ ~DueIntraday
        /\ pc' = "reports"
        /\ excused' = (excused \/ (now = <<day, "pre">> /\ idle))
        /\ UNCHANGED <<mark, sought, idle>>
  /\ UNCHANGED <<mode, day, slot, now, spent, pending, disk, done, tried, supervisor>>

(* A job that fails takes the report of its iteration with it. *)
PremarketEnds ==
  /\ pc = "premarket"
  /\ \/ \E r \in {"ok", "busy"} : Premarket(r) /\ pc' = "reports"
     \/ PremarketFails /\ pc' = "top"
  /\ UNCHANGED <<mode, day, slot, now, spent, mark, pending, done, tried, supervisor, history>>

IntradayEnds ==
  /\ pc = "intraday"
  /\ \/ IntradayFails /\ pc' = "top"
     \/ UNCHANGED disk /\ pc' = "reports"  \* the cycle lock is taken
     \/ logged' = logged \cup {day} /\ UNCHANGED <<cand, reported, failed>> /\ pc' = "reports"
  /\ UNCHANGED <<mode, day, slot, now, spent, mark, pending, done, tried, supervisor, history>>

-----------------------------------------------------------------------------
(* Reports                                                                 *)

Earliest(S) == IF S = {} THEN None ELSE CHOOSE d \in S : \A e \in S : d <= e

(* _completed_operational_dates at the time the iteration sampled. *)
Completed == {d \in logged : d < now[1] \/ (d = now[1] /\ now[2] = "evening")}

(* pending_paper_eod_report_date: a failed report first. *)
PendingReport == IF failed \in Completed THEN failed ELSE Earliest(Completed \ reported)

(* due_end_of_day_report_date *)
DueReport ==
  IF mode = "PAPER" THEN PendingReport
  ELSE IF now[1] \in Trading /\ now[2] = "evening" THEN now[1] ELSE None

(* should_attempt_daily_report *)
StartReport ==
  /\ pc = "reports" /\ DueReport \notin {None, done}
  /\ tried' = DueReport /\ pc' = "report"
  /\ UNCHANGED <<mode, day, slot, now, spent, mark, pending, disk, done, supervisor, history>>

(* Nothing is due, or the retry interval has not passed. *)
NoReport ==
  /\ pc = "reports" /\ DueReport \in {None, done, tried}
  /\ pc' = "top"
  /\ UNCHANGED <<mode, day, slot, now, spent, mark, pending, disk, done, tried, supervisor, history>>

(* READY replaces a FAILED status. *)
ReportOk ==
  /\ pc = "report" /\ pc' = "top"
  /\ reported' = reported \cup {tried} /\ done' = tried
  /\ failed' = None
  /\ UNCHANGED <<mode, day, slot, now, spent, mark, pending, cand, logged, tried, supervisor, history>>

(* Fault: the report counts as run whatever became of it. *)
ReportFailsDone ==
  /\ pc = "report" /\ pc' = "top"
  /\ ReportFile /\ failed' \in {failed, tried} /\ done' = tried
  /\ UNCHANGED <<mode, day, slot, now, spent, mark, pending, tried, supervisor, history>>

(* An exit code writes FAILED; a timeout writes nothing. *)
ReportFails ==
  /\ pc = "report" /\ pc' = "top"
  /\ ReportFile /\ failed' \in {failed, tried}
  /\ UNCHANGED <<mode, day, slot, now, spent, mark, pending, done, tried, supervisor, history>>

-----------------------------------------------------------------------------
(* scheduler_supervisor.py                                                 *)

Others == <<mode, day, slot, memory, disk, history>>

(* run_supervised *)
Supervise == sup = "off" /\ Begin /\ sup' = "child" /\ restarts' = 0

Attach ==
  /\ sup = "off" /\ pc # "down"
  /\ sup' = "attached" /\ restarts' = 0
  /\ UNCHANGED <<pc, Others>>

(* A scheduler that finds another one running returns 2, which ends its supervisor. *)
Run(count) ==
  \/ Begin /\ sup' = "child" /\ restarts' = count
  \/ pc # "down" /\ sup' = "off" /\ restarts' = 0 /\ UNCHANGED <<pc, Others>>

(* supervise_existing runs a scheduler of its own once the attached one is gone. *)
ReplaceAttached == sup = "gone" /\ Run(0)

(* Fault: one restart too many. *)
MayRestartOnceMore == mode # "REAL" /\ restarts <= MaxRestarts

MayRestart == mode # "REAL" /\ restarts < MaxRestarts

ChildExited ==
  /\ sup = "exited"
  /\ IF MayRestart THEN sup' = "delay" /\ restarts' = restarts + 1
     ELSE sup' = "off" /\ restarts' = 0
  /\ UNCHANGED <<pc, Others>>

Restart == sup = "delay" /\ Run(restarts)

(* The supervisor alone is killed: its scheduler goes on. *)
SupervisorDies ==
  /\ sup # "off" /\ sup' = "off" /\ restarts' = 0
  /\ UNCHANGED <<pc, Others>>

-----------------------------------------------------------------------------
Next ==
  \/ Tick
  \/ StartAlone \/ Crash
  \/ Boot \/ ColdStartEnds
  \/ Top \/ RetryColdStart \/ Jobs \/ PremarketEnds \/ IntradayEnds
  \/ StartReport \/ NoReport \/ ReportOk \/ ReportFails
  \/ Supervise \/ Attach \/ ReplaceAttached \/ ChildExited \/ Restart \/ SupervisorDies

Spec == Init /\ [][Next]_vars

(* The loop runs, its commands end or time out, and a supervisor acts on an exit.
   A report that is tried again and again is written at last, and the retry interval
   does pass; time, starts and crashes are not fair.                           *)
Fairness ==
  /\ WF_vars(Boot) /\ WF_vars(ColdStartEnds) /\ WF_vars(Top) /\ WF_vars(RetryColdStart)
  /\ WF_vars(Jobs) /\ WF_vars(PremarketEnds) /\ WF_vars(IntradayEnds)
  /\ WF_vars(StartReport \/ NoReport) /\ SF_vars(StartReport)
  /\ WF_vars(ReportOk \/ ReportFails) /\ SF_vars(ReportOk)
  /\ WF_vars(ReplaceAttached) /\ WF_vars(ChildExited) /\ WF_vars(Restart)

FairSpec == Spec /\ Fairness

-----------------------------------------------------------------------------
TypeOK ==
  /\ mode \in Modes /\ day \in Days /\ slot \in Slots
  /\ pc \in Commands \cup {"down", "boot", "top", "due", "jobs", "reports"}
  /\ now \in (Days \X Slots) \cup {None} /\ spent \in 0..Span
  /\ mark \in Session \cup {"8:30", None} /\ pending \in BOOLEAN
  /\ logged \subseteq Trading /\ reported \subseteq Trading
  /\ {cand, failed, done, tried} \subseteq Trading \cup {None}
  /\ sup \in {"off", "attached", "gone", "child", "exited", "delay"} /\ restarts \in 0..MaxRestarts
  /\ sought \in BOOLEAN /\ idle \in BOOLEAN /\ excused \in BOOLEAN

(* A trading batch runs on candidates of the same day, or a premarket was at least
   started that day: through crashes, restarts, backoff and commands that outlast
   their minute, with the two exceptions that excused records.  Entries are blocked
   for a whole day otherwise.                                                  *)
FreshBatches == pc = "intraday" /\ cand # day => sought \/ excused

(* Every PAPER session that left operational rows is reported, over failed and timed
   out reports, restarts and the end of the day, while a supervisor is there.  *)
EverySessionReported ==
  \A d \in Trading :
    d \in logged /\ mode = "PAPER" /\ (day > d \/ slot = "evening")
      ~> d \in reported \/ sup = "off"
=============================================================================
