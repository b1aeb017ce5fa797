---------------------------- MODULE Publication ----------------------------
(***************************************************************************)
(* The monthly analysis runs and their publication to the universe, as the  *)
(* workflow's prepare (apps/system/workflow.py) and `worker analyze all     *)
(* --publish [--force]` perform them, concurrently and over crashes:        *)
(* apps/worker/analyzer/pipeline.py, storage/postgres/repositories/         *)
(* fa_analysis_repo.py and universe_repo.py.  One strategy; an action is a  *)
(* database transaction or the computation between two of them.             *)
(***************************************************************************)
EXTENDS Integers, FiniteSets

CONSTANTS
  Process,    \* bound: analyses that may be under way
  Preparer,   \* the one that is run_cycle's prepare; the others are commands
  Company,
  Selections, \* bound: what an analysis may select
  MaxRuns,    \* bound: rows of fa_analysis_runs
  MonthOf,    \* the month of each session 1, 2, ...
  MaxSource,  \* bound: changes of the source data
  None

ASSUME PublicationAssumption ==
  /\ Preparer \in Process /\ MaxRuns \in Nat /\ MaxSource \in Nat /\ None \notin 1..MaxRuns
  /\ Selections \subseteq SUBSET Company
  /\ IsFiniteSet(DOMAIN MonthOf) /\ 1 \in DOMAIN MonthOf
  /\ DOMAIN MonthOf = 1..Cardinality(DOMAIN MonthOf)
  /\ \A s \in DOMAIN MonthOf : MonthOf[s] \in Nat

Sessions == DOMAIN MonthOf
Runs == 1..MaxRuns  \* in the order they are created: run_version
Inputs == [session : Sessions, source : 0..MaxSource]  \* what input_hash is made of

VARIABLES
  today, source,
  rows,      \* fa_analysis_runs: the runs that exist
  run,       \* of each: its input, status_code, selected companies, published_at
  old,       \* created more than an hour ago
  universe,  \* universe_status_code by company; "none" without a row
  task       \* what each process does, at which stage, for which input and run

vars == <<today, source, rows, run, old, universe, task>>

Idle == [stage |-> "idle", force |-> FALSE, input |-> None, context |-> None]
NoRun == [input |-> None, status |-> "none", chosen |-> {}, published |-> 0]

Init ==
  /\ today = 1 /\ source = 0
  /\ rows = {} /\ run = [r \in Runs |-> NoRun] /\ old = {}
  /\ universe = [c \in Company |-> "none"]
  /\ task = [p \in Process |-> Idle]

Active == {c \in Company : universe[c] = "ACTIVE"}
Published == {r \in rows : run[r].status = "PUBLISHED"}
Session(r) == run[r].input.session  \* effective_date
Month(r) == MonthOf[Session(r)]

-----------------------------------------------------------------------------
(* The world                                                               *)

NextSession ==
  /\ today < Cardinality(Sessions) /\ today' = today + 1
  /\ UNCHANGED <<source, rows, run, old, universe, task>>

SourcesChange ==
  /\ source < MaxSource /\ source' = source + 1
  /\ UNCHANGED <<today, rows, run, old, universe, task>>

HourPasses(r) ==
  /\ r \notin old /\ run[r].status = "RUNNING" /\ old' = old \cup {r}
  /\ UNCHANGED <<today, source, rows, run, universe, task>>

(* A process dies, or loses its database, between two transactions. *)
Crash(p) ==
  /\ task[p] # Idle /\ task' = [task EXCEPT ![p] = Idle]
  /\ UNCHANGED <<today, source, rows, run, old, universe>>

-----------------------------------------------------------------------------
(* prepare_run                                                             *)

(* Fault: a run that was left behind stays as it is. *)
StaleNever(m) == {}

(* fail_stale_analysis_runs: of the month, whether or not their process lives. *)
Stale(m) == {r \in old : run[r].status = "RUNNING" /\ Month(r) = m}

(* The source data are read, and stale runs failed.  prepare.lock admits one
   preparation, of the session at hand (upcoming_session); a command may ask for a
   later one with --effective-date.                                            *)
Begin(p, s, f) ==
  /\ task[p] = Idle
  /\ p = Preparer => s = today /\ ~f
  /\ task' = [task EXCEPT ![p] =
       [stage |-> "lookup", force |-> f, context |-> None,
        input |-> [session |-> s, source |-> source]]]
  /\ run' = [r \in Runs |-> IF r \in Stale(MonthOf[s]) THEN [run[r] EXCEPT !.status = "FAIL"] ELSE run[r]]
  /\ UNCHANGED <<today, source, rows, old, universe>>

(* fetch_reusable_run: the last run of the same input that has not failed. *)
Reusable(p) == {r \in rows : run[r].input = task[p].input /\ run[r].status # "FAIL"}

(* After a cached run the preparation goes on only if it has passed; pipeline.run
   publishes without a look at its status.                                     *)
Reuse(p, r) ==
  IF p = Preparer /\ run[r].status \notin {"PASS", "PUBLISHED"} THEN Idle
  ELSE [task[p] EXCEPT !.stage = "publish", !.context = r]

Lookup(p) ==
  /\ task[p].stage = "lookup"
  /\ task' = [task EXCEPT ![p] =
       IF ~task[p].force /\ Reusable(p) # {}
       THEN Reuse(p, CHOOSE r \in Reusable(p) : \A q \in Reusable(p) : q <= r)
       ELSE [task[p] EXCEPT !.stage = "insert"]]
  /\ UNCHANGED <<today, source, rows, run, old, universe>>

(* get_or_create_analysis_run does not look again when it has the row lock. *)
Insert(p) ==
  /\ task[p].stage = "insert" /\ rows # Runs
  /\ LET r == Cardinality(rows) + 1 IN
       /\ rows' = rows \cup {r}
       /\ run' = [run EXCEPT ![r] = [input |-> task[p].input, status |-> "RUNNING",
                                     chosen |-> {}, published |-> 0]]
       /\ task' = [task EXCEPT ![p].stage = "analyze", ![p].context = r]
  /\ UNCHANGED <<today, source, old, universe>>

(* update_analysis_run_status has no condition: a run failed as stale may still pass. *)
AnalysisEnds(p) ==
  /\ task[p].stage = "analyze"
  /\ \E result \in {"PASS", "WARNING", "FAIL"}, S \in Selections \cup {{}} :
       /\ result # "PASS" => S = {}  \* only a passing run's selection is ever used
       /\ run' = [run EXCEPT ![task[p].context].status = result,
                            ![task[p].context].chosen = S]
       /\ task' = [task EXCEPT ![p] =
            IF result = "PASS" THEN [task[p] EXCEPT !.stage = "publish"] ELSE Idle]
  /\ UNCHANGED <<today, source, rows, old, universe>>

-----------------------------------------------------------------------------
(* publish_fa_run, one transaction                                         *)

(* The publication of the date that is replaced. *)
Demoted(r) == {q \in Published : Session(q) = Session(r)} \ {r}

(* published_at is the session at hand, 0 when it is null. *)
Promote(r) ==
  [q \in Runs |-> IF q = r THEN [run[q] EXCEPT !.status = "PUBLISHED", !.published = today]
                  ELSE IF q \in Demoted(r) THEN [run[q] EXCEPT !.status = "PASS", !.published = 0]
                  ELSE run[q]]

Select(r) ==
  [c \in Company |-> IF c \in run[r].chosen THEN "ACTIVE"
                     ELSE IF c \in Active THEN "SELL_ONLY" ELSE universe[c]]

(* Fault: any run that has not failed is published. *)
PublishableUnlessFailed(r) == run[r].status # "FAIL" /\ today <= Session(r)

(* Fault: the analysis of a day that has passed is still published. *)
PublishableAnyDay(r) == run[r].status = "PASS"

Publishable(r) == run[r].status = "PASS" /\ today <= Session(r)

(* Nothing changes when the run is published already, is not publishable, or has a
   company that is invalid or blocked.  The audit that follows only reads.     *)
Publish(p) ==
  /\ task[p].stage = "publish" /\ task' = [task EXCEPT ![p] = Idle]
  /\ LET r == task[p].context IN
       \/ Publishable(r) /\ run' = Promote(r) /\ universe' = Select(r)
       \/ UNCHANGED <<run, universe>>
  /\ UNCHANGED <<today, source, rows, old>>

-----------------------------------------------------------------------------
Next ==
  \/ NextSession \/ SourcesChange
  \/ \E r \in Runs : HourPasses(r)
  \/ \E p \in Process :
       \/ \E s \in today..Cardinality(Sessions), f \in BOOLEAN : Begin(p, s, f)
       \/ Lookup(p) \/ Insert(p) \/ AnalysisEnds(p) \/ Publish(p) \/ Crash(p)

Spec == Init /\ [][Next]_vars

(* Bound: a run that finds no room in the table. *)
NoRoom(p) == task[p].stage = "insert" /\ rows = Runs /\ Crash(p)

(* The watch loop prepares again and again, and its inputs are ready; hours pass. *)
Fairness ==
  /\ \A r \in Runs : WF_vars(HourPasses(r))
  /\ WF_vars(Begin(Preparer, today, FALSE)) /\ WF_vars(Lookup(Preparer))
  /\ WF_vars(Insert(Preparer)) /\ WF_vars(NoRoom(Preparer))
  /\ WF_vars(AnalysisEnds(Preparer)) /\ WF_vars(Publish(Preparer))

FairSpec == Spec /\ Fairness

-----------------------------------------------------------------------------
Status == {"RUNNING", "PASS", "WARNING", "FAIL", "PUBLISHED"}

(* Types, and: whoever is computing a run computes it alone, before it is used. *)
TypeOK ==
  /\ today \in Sessions /\ source \in 0..MaxSource
  /\ rows \subseteq Runs /\ old \subseteq rows /\ rows = 1..Cardinality(rows)
  /\ \A r \in Runs :
       run[r] \in IF r \in rows THEN [input : Inputs, status : Status, chosen : SUBSET Company,
                                   published : 0..today]
                  ELSE {NoRun}
  /\ universe \in [Company -> {"none", "ACTIVE", "SELL_ONLY"}]
  /\ \A p \in Process :
       /\ task[p].stage \in {"idle", "lookup", "insert", "analyze", "publish"}
       /\ task[p].force \in BOOLEAN /\ task[p].input \in Inputs \cup {None}
       /\ task[p].context \in rows \cup {None}
       /\ task[p].stage = "analyze" => run[task[p].context].status \in {"RUNNING", "FAIL"}

(* fetch_published_universe_mismatch: the latest publication, by effective_date and
   run_version, and what it and the active universe do not have in common.     *)
Latest ==
  {r \in Published : \A q \in Published :
     Session(q) < Session(r) \/ (Session(q) = Session(r) /\ q <= r)}
Selected == UNION {run[r].chosen : r \in Latest}
Mismatch == (Selected \ Active) \cup (Active \ Selected)

(* The audit after every preparation: the active universe is the selection of the
   latest publication.                                                         *)
AuditPasses == Mismatch = {}

(* Through concurrent analyses, forced ones, stale ones that come back and crashes,
   a session has one publication and the universe is that of a published run,
   never a mixture of two and never one that has been replaced.  It is the latest
   one, as the audit demands, unless that was published ahead of its day.      *)
UniverseIsPublished ==
  /\ \A a, b \in Published : Session(a) = Session(b) => a = b
  /\ Published # {} => \E r \in Published : Active = run[r].chosen
  /\ (\A r \in Latest : run[r].published = Session(r)) => AuditPasses

Abandoned(r) ==
  /\ run[r].status = "RUNNING"
  /\ \A p \in Process : ~(task[p].stage = "analyze" /\ task[p].context = r)

(* A run that a dead process left RUNNING, which every preparation of the same input
   finds and stops at, is failed in the end, and the preparations go on; in a later
   month nobody fails it any more.                                             *)
AbandonedRunFails ==
  \A r \in Runs :
    Abandoned(r) ~> run[r].status = "FAIL" \/ (r \in rows /\ Month(r) # MonthOf[today])
=============================================================================
