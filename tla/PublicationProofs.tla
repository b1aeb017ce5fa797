------------------------- MODULE PublicationProofs -------------------------
(***************************************************************************)
(* Machine-checked theorems about Publication: type correctness, and that  *)
(* the universe is always that of one published run, the latest one unless  *)
(* that was published ahead of its day, for every number of concurrent      *)
(* analyses, runs, sessions and companies.                                  *)
(***************************************************************************)
EXTENDS Publication, TLAPS, FiniteSetTheorems, WellFoundedInduction

Stage == {"idle", "lookup", "insert", "analyze", "publish"}

(* A row of fa_analysis_runs on day d: no publication is of a later day. *)
Row(d) == [input : Inputs, status : Status, chosen : SUBSET Company, published : 0..d]

(* The functions and records behind TypeOK; a process that is past its lookup works
   for an input, and one that analyzes or publishes has a run that exists.     *)
ShapeInv ==
  /\ run \in [Runs -> [input : Inputs \cup {None}, status : Status \cup {"none"},
                       chosen : SUBSET Company, published : Nat]]
  /\ task \in [Process -> [stage : Stage, force : BOOLEAN, input : Inputs \cup {None},
                           context : Runs \cup {None}]]
  /\ \A p \in Process :
       /\ task[p].stage # "idle" => task[p].input \in Inputs
       /\ task[p].stage \in {"analyze", "publish"} => task[p].context \in rows

(* Every run is computed by one process at most: the one that created it. *)
AloneInv ==
  \A p, q \in Process :
    /\ task[p].stage = "analyze" /\ task[q].stage = "analyze"
    /\ task[p].context = task[q].context
    => p = q

PubInv == TypeOK /\ ShapeInv /\ AloneInv /\ UniverseIsPublished

-----------------------------------------------------------------------------
(* A nonempty set of numbers up to N has a last one. *)
LEMMA LastOf ==
  ASSUME NEW N \in Nat, NEW S, S \subseteq 1..N, S # {}
  PROVE  \E r \in S : \A q \in S : q <= r
<1> DEFINE T == {r..N : r \in S}
<1>1. S \subseteq Nat /\ \A r \in S : r <= N
  OBVIOUS
<1>2. T \subseteq FiniteSubsetsOf(Nat)
  <2>1. ASSUME NEW r \in S PROVE r..N \in SUBSET Nat /\ IsFiniteSet(r..N)
    BY <1>1, FS_Interval
  <2> QED BY <2>1 DEF FiniteSubsetsOf
<1>3. \E X \in T : \A Y \in T : ~(<<Y, X>> \in StrictSubsetOrdering(Nat))
  <2> DEFINE R == StrictSubsetOrdering(Nat)
             F == FiniteSubsetsOf(Nat)
  <2>1. T # {} /\ IsWellFoundedOn(R, F) /\ T \subseteq F
    BY <1>2, FS_StrictSubsetOrderingWellFounded
  <2> HIDE DEF T, R, F
  <2>2. \E X \in T : \A Y \in T : ~(<<Y, X>> \in R)
    BY <2>1, WFMin, Zenon
  <2> QED BY <2>2 DEF R
<1>4. PICK r \in S : \A Y \in T : ~(<<Y, r..N>> \in StrictSubsetOrdering(Nat))
  BY <1>3
<1>5. ASSUME NEW q \in S, q > r PROVE FALSE
  <2>1. /\ q..N \in SUBSET Nat /\ r..N \in SUBSET Nat
        /\ q..N \subseteq r..N /\ r \in (r..N) \ (q..N)
    BY <1>1, <1>5
  <2>2. <<q..N, r..N>> \in StrictSubsetOrdering(Nat)
    BY <2>1 DEF StrictSubsetOrdering
  <2> QED BY <1>4, <2>2
<1> QED BY <1>1, <1>5

(* Of the runs of a nonempty set, one has the last session. *)
LEMMA LastSession ==
  ASSUME NEW N \in Nat, NEW P, NEW session \in [P -> 1..N], P # {}
  PROVE  \E r \in P : \A q \in P : session[q] <= session[r]
<1> DEFINE S == {session[r] : r \in P}
<1>1. S \subseteq 1..N /\ S # {}
  OBVIOUS
<1> HIDE DEF S
<1>2. PICK s \in S : \A x \in S : x <= s
  BY <1>1, LastOf
<1> QED BY <1>2 DEF S

LEMMA Days ==
  /\ Cardinality(Sessions) \in Nat /\ Sessions = 1..Cardinality(Sessions) /\ 1 \in Sessions
<1>1. IsFiniteSet(Sessions) /\ 1 \in Sessions /\ Sessions = 1..Cardinality(Sessions)
  BY PublicationAssumption DEF Sessions
<1>2. Cardinality(Sessions) \in Nat
  BY <1>1, FS_CardinalityType
<1> QED BY <1>1, <1>2

(* What TypeOK says of a process. *)
TaskTypeOK(p) ==
  /\ task[p].stage \in Stage
  /\ task[p].force \in BOOLEAN /\ task[p].input \in Inputs \cup {None}
  /\ task[p].context \in rows \cup {None}
  /\ task[p].stage = "analyze" => run[task[p].context].status \in {"RUNNING", "FAIL"}

LEMMA PubInit == Init => PubInv
<1> SUFFICES ASSUME Init PROVE PubInv
  OBVIOUS
<1>1. Cardinality(rows) = 0 /\ rows = 1..0
  BY FS_EmptySet DEF Init
<1>2. TypeOK
  <2>1. today \in Sessions /\ source \in 0..MaxSource
    BY Days, PublicationAssumption DEF Init
  <2>2. /\ rows \subseteq Runs /\ old \subseteq rows /\ rows = 1..Cardinality(rows)
        /\ universe \in [Company -> {"none", "ACTIVE", "SELL_ONLY"}]
        /\ \A r \in Runs : r \notin rows /\ run[r] = NoRun
    BY <1>1 DEF Init
  <2>3. \A p \in Process : TaskTypeOK(p)
    BY DEF Init, Idle, TaskTypeOK, Stage
  <2> QED BY <2>1, <2>2, <2>3 DEF TypeOK, TaskTypeOK, Stage
<1>3. ShapeInv
  BY DEF Init, ShapeInv, Idle, NoRun, Stage
<1>4. AloneInv /\ UniverseIsPublished
  BY DEF Init, AloneInv, UniverseIsPublished, AuditPasses, Mismatch, Selected, Latest, Active,
         Idle, Published
<1> QED BY <1>2, <1>3, <1>4 DEF PubInv

(* Publications, their inputs, selections and dates, and the universe stay as they are. *)
LEMMA UniverseKept ==
  ASSUME UniverseIsPublished, Published' = Published, UNCHANGED universe,
         \A r \in Published : /\ run'[r].input = run[r].input /\ run'[r].chosen = run[r].chosen
                             /\ run'[r].published = run[r].published
  PROVE  UniverseIsPublished'
<1>1. Active' = Active
  BY DEF Active
<1>2. \A r \in Published : Session(r)' = Session(r)
  BY DEF Session
<1>3. \A a, b \in Published' : Session(a)' = Session(b)' => a = b
  BY <1>2 DEF UniverseIsPublished
<1>4. Published' # {} => \E r \in Published' : Active' = run'[r].chosen
  BY <1>1 DEF UniverseIsPublished
<1>5. Latest' = Latest /\ Latest \subseteq Published
  BY <1>2 DEF Latest
<1>6. Selected' = Selected
  BY <1>5 DEF Selected
<1>7. Mismatch' = Mismatch
  BY <1>1, <1>6 DEF Mismatch
<1>8. (\A r \in Latest' : run'[r].published = Session(r)') => AuditPasses'
  BY <1>2, <1>5, <1>7 DEF UniverseIsPublished, AuditPasses
<1> QED BY <1>3, <1>4, <1>8 DEF UniverseIsPublished

(* Rows that do not exist are nobody's, and no publication. *)
LEMMA RunShape ==
  ASSUME PubInv, NEW r \in Runs
  PROVE  /\ run[r].status = "none" <=> r \notin rows
         /\ r \in rows => run[r] \in Row(today)
         /\ r \notin rows => run[r] = NoRun
<1>1. run[r] \in IF r \in rows THEN Row(today)
                 ELSE {NoRun}
  BY DEF PubInv, TypeOK, Row
<1>2. CASE r \in rows
  <2>1. run[r] \in Row(today)
    BY <1>1, <1>2
  <2>2. run[r].status \in Status
    BY <2>1 DEF Row
  <2> QED BY <1>2, <2>1, <2>2 DEF Status
<1>3. CASE r \notin rows
  <2>1. run[r] = NoRun
    BY <1>1, <1>3
  <2> QED BY <1>3, <2>1 DEF NoRun
<1> QED BY <1>2, <1>3

(* TypeOK of the next state, from its shape and from what a step has to add. *)
LEMMA NextTypes ==
  ASSUME ShapeInv', today' \in Sessions, source' \in 0..MaxSource,
         rows' \subseteq Runs, old' \subseteq rows', rows' = 1..Cardinality(rows'),
         \A r \in Runs :
           run'[r] \in IF r \in rows'
                       THEN Row(today')
                       ELSE {NoRun},
         universe' \in [Company -> {"none", "ACTIVE", "SELL_ONLY"}],
         \A p \in Process : task'[p].context \in rows' \cup {None},
         \A p \in Process :
           task'[p].stage = "analyze" => run'[task'[p].context].status \in {"RUNNING", "FAIL"}
  PROVE  TypeOK'
<1>1. \A p \in Process : /\ task'[p].stage \in Stage /\ task'[p].force \in BOOLEAN
                         /\ task'[p].input \in Inputs \cup {None}
  BY DEF ShapeInv
<1> QED BY <1>1 DEF TypeOK, Stage, Row

(* What a process may be doing: its record, whole. *)
TaskRecord == [stage : Stage, force : BOOLEAN, input : Inputs \cup {None},
               context : Runs \cup {None}]
RunRecord == [input : Inputs \cup {None}, status : Status \cup {"none"},
              chosen : SUBSET Company, published : Nat]

LEMMA RowRecord ==
  ASSUME PubInv
  PROVE  today \in Nat /\ Row(today) \subseteq RunRecord
<1>1. today \in Nat
  BY Days DEF PubInv, TypeOK
<1>2. 0..today \subseteq Nat
  BY <1>1
<1> QED BY <1>1, <1>2 DEF Row, RunRecord

(* One process moves on, and runs are only added: the shapes stay, and whoever
   computes a run computes it alone if this one computes none or a new one.    *)
LEMMA TaskMoves ==
  ASSUME PubInv, NEW p \in Process, NEW t \in TaskRecord,
         task' = [task EXCEPT ![p] = t],
         rows \subseteq rows', rows' \subseteq Runs, run' \in [Runs -> RunRecord],
         t.stage # "idle" => t.input \in Inputs,
         t.stage \in {"analyze", "publish"} => t.context \in rows',
         t.context \in rows' \cup {None},
         t.stage = "analyze" => t.context \notin rows
  PROVE  /\ ShapeInv' /\ AloneInv'
         /\ task'[p] = t /\ \A q \in Process \ {p} : task'[q] = task[q]
         /\ \A q \in Process : task'[q].context \in rows' \cup {None}
<1>1. task \in [Process -> TaskRecord]
  BY DEF PubInv, ShapeInv, TaskRecord
<1>2. /\ task' \in [Process -> TaskRecord]
      /\ task'[p] = t /\ \A q \in Process \ {p} : task'[q] = task[q]
  BY <1>1
<1>3. \A q \in Process :
        /\ task[q].stage # "idle" => task[q].input \in Inputs
        /\ task[q].stage \in {"analyze", "publish"} => task[q].context \in rows
        /\ task[q].context \in rows \cup {None}
  BY DEF PubInv, ShapeInv, TypeOK
<1>4. \A q \in Process :
        /\ task'[q].stage # "idle" => task'[q].input \in Inputs
        /\ task'[q].stage \in {"analyze", "publish"} => task'[q].context \in rows'
        /\ task'[q].context \in rows' \cup {None}
  BY <1>2, <1>3
<1>5. ShapeInv'
  BY <1>2, <1>4 DEF ShapeInv, TaskRecord, RunRecord
<1>6. AloneInv'
  <2>1. \A q \in Process \ {p} : task'[q].stage = "analyze" => task'[q].context \in rows
    BY <1>2, <1>3
  <2>2. AloneInv
    BY DEF PubInv
  <2> SUFFICES ASSUME NEW a \in Process, NEW b \in Process,
                      task'[a].stage = "analyze", task'[b].stage = "analyze",
                      task'[a].context = task'[b].context
               PROVE  a = b
    BY DEF AloneInv
  <2>3. CASE a # p /\ b # p
    BY <1>2, <2>2, <2>3 DEF AloneInv
  <2>4. CASE a = p \/ b = p
    BY <1>2, <2>1, <2>4
  <2> QED BY <2>3, <2>4
<1> QED BY <1>2, <1>4, <1>5, <1>6

(* The tables are not touched, and the process that moves computes no run. *)
LEMMA OnlyTask ==
  ASSUME PubInv, NEW p \in Process, NEW t \in TaskRecord,
         task' = [task EXCEPT ![p] = t],
         UNCHANGED <<today, source, rows, run, old, universe>>,
         t.stage # "idle" => t.input \in Inputs,
         t.stage = "publish" => t.context \in rows,
         t.context \in rows \cup {None}, t.stage # "analyze"
  PROVE  PubInv'
<1>1. /\ rows \subseteq rows' /\ rows' \subseteq Runs /\ run' \in [Runs -> RunRecord]
      /\ t.stage \in {"analyze", "publish"} => t.context \in rows'
      /\ t.context \in rows' \cup {None}
  BY DEF PubInv, TypeOK, ShapeInv, RunRecord
<1>2. /\ ShapeInv' /\ AloneInv'
      /\ task'[p] = t /\ \A q \in Process \ {p} : task'[q] = task[q]
      /\ \A q \in Process : task'[q].context \in rows' \cup {None}
  BY <1>1, TaskMoves
<1>3. ASSUME NEW q \in Process, task'[q].stage = "analyze"
      PROVE  run'[task'[q].context].status \in {"RUNNING", "FAIL"}
  BY <1>2, <1>3 DEF PubInv, TypeOK
<1>4. /\ today' \in Sessions /\ source' \in 0..MaxSource
      /\ rows' \subseteq Runs /\ old' \subseteq rows' /\ rows' = 1..Cardinality(rows')
      /\ universe' \in [Company -> {"none", "ACTIVE", "SELL_ONLY"}]
      /\ \A r \in Runs :
           run'[r] \in IF r \in rows'
                       THEN Row(today')
                       ELSE {NoRun}
  BY DEF PubInv, TypeOK, Row
<1>5. TypeOK'
  BY <1>2, <1>3, <1>4, NextTypes
<1>6. UniverseIsPublished'
  BY UniverseKept DEF PubInv, Published
<1> QED BY <1>2, <1>5, <1>6 DEF PubInv

LEMMA IdleRecord ==
  Idle \in TaskRecord /\ Idle.stage = "idle" /\ Idle.context = None
BY DEF Idle, TaskRecord, Stage

(* The world's steps and deaths. *)
LEMMA PubWorld ==
  ASSUME PubInv,
         \/ NextSession \/ SourcesChange
         \/ \E r \in Runs : HourPasses(r)
         \/ \E p \in Process : Crash(p)
  PROVE  PubInv'
<1>1. CASE NextSession \/ SourcesChange
  <2>1. today' \in Sessions /\ source' \in 0..MaxSource
    BY <1>1, Days, PublicationAssumption DEF NextSession, SourcesChange, TypeOK, PubInv
  <2>2. UNCHANGED <<rows, run, old, universe, task>>
    BY <1>1 DEF NextSession, SourcesChange
  <2>3. \A d \in 0..today : d \in 0..today'
    BY <1>1, Days DEF NextSession, SourcesChange, TypeOK, PubInv
  <2>4. \A r \in Runs : run'[r] \in IF r \in rows' THEN Row(today') ELSE {NoRun}
    BY <2>2, <2>3 DEF TypeOK, PubInv, Row
  <2>5. ShapeInv' /\ AloneInv'
    BY <2>2 DEF PubInv, ShapeInv, AloneInv
  <2>6. TypeOK'
    BY <2>1, <2>2, <2>4, <2>5, NextTypes DEF TypeOK, PubInv
  <2>7. UniverseIsPublished'
    BY <2>2, UniverseKept DEF PubInv, Published
  <2> QED BY <2>5, <2>6, <2>7 DEF PubInv
<1>2. ASSUME NEW r \in Runs, HourPasses(r) PROVE PubInv'
  <2>1. r \in rows
    BY <1>2, RunShape DEF HourPasses
  <2>2. old' \subseteq rows /\ UNCHANGED <<today, source, rows, run, universe, task>>
    BY <1>2, <2>1 DEF HourPasses, TypeOK, PubInv
  <2>3. TypeOK'
    BY <2>2 DEF TypeOK, PubInv
  <2>4. UniverseIsPublished'
    BY <2>2, UniverseKept DEF PubInv, Published
  <2> QED BY <2>2, <2>3, <2>4 DEF PubInv, ShapeInv, AloneInv
<1>3. ASSUME NEW p \in Process, Crash(p) PROVE PubInv'
  <2>1. task' = [task EXCEPT ![p] = Idle] /\ UNCHANGED <<today, source, rows, run, old, universe>>
    BY <1>3 DEF Crash
  <2> QED BY <2>1, IdleRecord, OnlyTask
<1> QED BY <1>1, <1>2, <1>3

(* Lookup changes no table; the last reusable run of a nonempty set exists. *)
LEMMA PubLookup ==
  ASSUME PubInv, NEW p \in Process, Lookup(p)
  PROVE  PubInv'
<1> DEFINE last == CHOOSE r \in Reusable(p) : \A q \in Reusable(p) : q <= r
           t == IF ~task[p].force /\ Reusable(p) # {} THEN Reuse(p, last)
                ELSE [task[p] EXCEPT !.stage = "insert"]
<1>1. /\ task[p] \in TaskRecord /\ task[p].stage = "lookup" /\ task[p].input \in Inputs
      /\ task[p].context \in rows \cup {None} /\ Reusable(p) \subseteq rows /\ rows \subseteq Runs
  BY DEF PubInv, ShapeInv, TypeOK, Lookup, TaskRecord, Reusable
<1>2. task' = [task EXCEPT ![p] = t] /\ UNCHANGED <<today, source, rows, run, old, universe>>
  BY DEF Lookup
<1>3. CASE t = [task[p] EXCEPT !.stage = "insert"]
  <2>1. /\ t \in TaskRecord /\ t.stage = "insert" /\ t.input = task[p].input
        /\ t.context = task[p].context
    BY <1>1, <1>3 DEF TaskRecord, Stage
  <2> QED BY <1>1, <1>2, <2>1, OnlyTask
<1>4. CASE ~task[p].force /\ Reusable(p) # {} /\ t = Reuse(p, last)
  <2>1. last \in rows
    <3>1. \E r \in Reusable(p) : \A q \in Reusable(p) : q <= r
      BY <1>1, <1>4, LastOf, PublicationAssumption DEF Runs
    <3> QED BY <1>1, <3>1
  <2> HIDE DEF last
  <2>2. CASE t = Idle
    BY <1>2, <2>2, IdleRecord, OnlyTask
  <2>3. CASE t = [task[p] EXCEPT !.stage = "publish", !.context = last]
    <3>1. /\ t \in TaskRecord /\ t.stage = "publish" /\ t.input = task[p].input
          /\ t.context = last
      BY <1>1, <2>1, <2>3 DEF TaskRecord, Stage
    <3> QED BY <1>1, <1>2, <2>1, <3>1, OnlyTask
  <2> QED BY <1>4, <2>2, <2>3 DEF Reuse
<1> QED BY <1>3, <1>4

(* Begin fails stale runs, none of them a publication. *)
LEMMA PubBegin ==
  ASSUME PubInv, NEW p \in Process, NEW s \in today..Cardinality(Sessions), NEW f \in BOOLEAN,
         Begin(p, s, f)
  PROVE  PubInv'
<1> DEFINE t == [stage |-> "lookup", force |-> f, context |-> None,
                 input |-> [session |-> s, source |-> source]]
           stale == Stale(MonthOf[s])
<1>1. /\ task' = [task EXCEPT ![p] = t] /\ UNCHANGED <<today, source, rows, old, universe>>
      /\ run' = [r \in Runs |-> IF r \in stale THEN [run[r] EXCEPT !.status = "FAIL"] ELSE run[r]]
  BY DEF Begin
<1>2. t \in TaskRecord /\ t.input \in Inputs
  <2>1. s \in Sessions /\ source \in 0..MaxSource
    BY Days DEF PubInv, TypeOK
  <2> QED BY <2>1 DEF TaskRecord, Stage, Inputs
<1>3. \A r \in stale : r \in rows /\ r \in Runs /\ run[r].status = "RUNNING"
  BY DEF Stale, PubInv, TypeOK
<1> HIDE DEF stale
<1>4. ASSUME NEW r \in Runs
      PROVE  /\ run'[r] \in RunRecord
             /\ run'[r] \in IF r \in rows
                           THEN Row(today)
                           ELSE {NoRun}
             /\ run'[r].input = run[r].input /\ run'[r].chosen = run[r].chosen
             /\ run'[r].published = run[r].published
             /\ run'[r].status = run[r].status \/ run'[r].status = "FAIL"
             /\ run[r].status = "PUBLISHED" <=> run'[r].status = "PUBLISHED"
  <2>1. run[r] \in RunRecord
    BY DEF PubInv, ShapeInv, RunRecord
  <2>2. CASE r \in stale
    <3>1. run'[r] = [run[r] EXCEPT !.status = "FAIL"]
      BY <1>1, <2>2
    <3>2. r \in rows /\ run[r].status = "RUNNING"
      BY <1>3, <2>2
    <3>3. run[r] \in Row(today)
      BY <3>2, RunShape
    <3>4. run'[r] \in Row(today) /\ run'[r].published = run[r].published
      BY <3>1, <3>3 DEF Row, Status
    <3> QED BY <2>1, <3>1, <3>2, <3>4, RowRecord
  <2>3. CASE r \notin stale
    <3>1. run'[r] = run[r]
      BY <1>1, <2>3
    <3> QED BY <2>1, <3>1, RunShape
  <2> QED BY <2>2, <2>3
<1>5. run' \in [Runs -> RunRecord] /\ rows' \subseteq Runs
  BY <1>1, <1>4 DEF PubInv, TypeOK
<1> HIDE DEF t
<1>6. t.stage = "lookup" /\ t.context = None
  BY DEF t
<1>7. /\ ShapeInv' /\ AloneInv'
      /\ task'[p] = t /\ \A q \in Process \ {p} : task'[q] = task[q]
      /\ \A q \in Process : task'[q].context \in rows' \cup {None}
  BY <1>1, <1>2, <1>5, <1>6, TaskMoves
<1>8. ASSUME NEW q \in Process, task'[q].stage = "analyze"
      PROVE  run'[task'[q].context].status \in {"RUNNING", "FAIL"}
  <2>1. q # p /\ task'[q] = task[q]
    BY <1>6, <1>7, <1>8
  <2>2. task[q].context \in Runs /\ run[task[q].context].status \in {"RUNNING", "FAIL"}
    BY <1>8, <2>1 DEF PubInv, TypeOK, ShapeInv
  <2> QED BY <1>4, <2>1, <2>2
<1>9. TypeOK'
  <2>1. /\ today' \in Sessions /\ source' \in 0..MaxSource
        /\ rows' \subseteq Runs /\ old' \subseteq rows' /\ rows' = 1..Cardinality(rows')
        /\ universe' \in [Company -> {"none", "ACTIVE", "SELL_ONLY"}]
    BY <1>1 DEF PubInv, TypeOK
  <2>2. \A r \in Runs :
          run'[r] \in IF r \in rows'
                      THEN Row(today')
                      ELSE {NoRun}
    BY <1>1, <1>4
  <2> QED BY <1>7, <1>8, <2>1, <2>2, NextTypes
<1>10. UniverseIsPublished'
  <2>1. Published' = Published
    BY <1>1, <1>4 DEF Published, PubInv, TypeOK
  <2>2. \A r \in Published : /\ run'[r].input = run[r].input /\ run'[r].chosen = run[r].chosen
                              /\ run'[r].published = run[r].published
    BY <1>4 DEF Published, PubInv, TypeOK
  <2> QED BY <1>1, <2>1, <2>2, UniverseKept DEF PubInv
<1> QED BY <1>7, <1>9, <1>10 DEF PubInv

(* Insert appends a run that nobody else is working on. *)
LEMMA PubInsert ==
  ASSUME PubInv, NEW p \in Process, Insert(p)
  PROVE  PubInv'
<1> DEFINE n == Cardinality(rows)
           r == n + 1
           new == [input |-> task[p].input, status |-> "RUNNING", chosen |-> {},
                   published |-> 0]
           t == [task[p] EXCEPT !.stage = "analyze", !.context = r]
<1>1. /\ rows' = rows \cup {r} /\ run' = [run EXCEPT ![r] = new]
      /\ task' = [task EXCEPT ![p].stage = "analyze", ![p].context = r]
      /\ UNCHANGED <<today, source, old, universe>>
      /\ task[p].stage = "insert" /\ rows # Runs
  BY DEF Insert
<1>2. n \in Nat /\ n < MaxRuns
  <2>1. rows = 1..n /\ rows \subseteq Runs /\ rows # Runs
    BY <1>1 DEF PubInv, TypeOK
  <2>2. IsFiniteSet(rows)
    <3>1. MaxRuns \in Int /\ IsFiniteSet(Runs)
      BY PublicationAssumption, FS_Interval DEF Runs
    <3> QED BY <2>1, <3>1, FS_Subset
  <2>3. n \in Nat
    BY <2>2, FS_CardinalityType
  <2> HIDE DEF n
  <2> QED BY <2>1, <2>3, PublicationAssumption DEF Runs
<1>3. rows = 1..n
  BY DEF PubInv, TypeOK
<1> HIDE DEF n
<1>4. r \in Runs /\ r \notin rows /\ rows' = 1..r /\ r \in Nat
  BY <1>1, <1>2, <1>3, PublicationAssumption DEF Runs
<1>5. Cardinality(rows') = r
  BY <1>4, FS_Interval
<1>6. /\ task \in [Process -> TaskRecord] /\ task[p] \in TaskRecord /\ task[p].input \in Inputs
      /\ run \in [Runs -> RunRecord]
  BY <1>1 DEF PubInv, ShapeInv, TaskRecord, RunRecord
<1>7. /\ task' = [task EXCEPT ![p] = t] /\ t \in TaskRecord
      /\ t.stage = "analyze" /\ t.context = r /\ t.input \in Inputs
  <2>1. task' = [task EXCEPT ![p] = t]
    BY <1>1, <1>6
  <2> QED BY <1>4, <1>6, <2>1 DEF TaskRecord, Stage
<1>8. /\ new \in RunRecord /\ new \in Row(today)
      /\ new.status = "RUNNING"
  BY <1>6, RowRecord DEF Row, Status
<1> HIDE DEF r, new, t
<1>9. run'[r] = new /\ (\A q \in Runs \ {r} : run'[q] = run[q]) /\ run' \in [Runs -> RunRecord]
  BY <1>1, <1>4, <1>6, <1>8
<1>10. rows \subseteq rows' /\ rows' \subseteq Runs /\ r \in rows'
  BY <1>1, <1>4 DEF PubInv, TypeOK
<1>11. /\ ShapeInv' /\ AloneInv'
       /\ task'[p] = t /\ \A q \in Process \ {p} : task'[q] = task[q]
       /\ \A q \in Process : task'[q].context \in rows' \cup {None}
  BY <1>4, <1>7, <1>9, <1>10, TaskMoves
<1>12. ASSUME NEW q \in Process, task'[q].stage = "analyze"
       PROVE  run'[task'[q].context].status \in {"RUNNING", "FAIL"}
  <2>1. CASE q = p
    BY <1>7, <1>8, <1>9, <1>11, <2>1
  <2>2. CASE q # p
    <3>1. task'[q] = task[q] /\ task[q].context \in rows
      BY <1>11, <1>12, <2>2 DEF PubInv, ShapeInv
    <3>2. run'[task[q].context] = run[task[q].context]
      BY <1>4, <1>9, <1>10, <3>1
    <3> QED BY <1>12, <3>1, <3>2 DEF PubInv, TypeOK
  <2> QED BY <2>1, <2>2
<1>13. TypeOK'
  <2>1. /\ today' \in Sessions /\ source' \in 0..MaxSource
        /\ old' \subseteq rows' /\ universe' \in [Company -> {"none", "ACTIVE", "SELL_ONLY"}]
    BY <1>1 DEF PubInv, TypeOK
  <2>2. ASSUME NEW q \in Runs
        PROVE run'[q] \in IF q \in rows'
                         THEN Row(today')
                         ELSE {NoRun}
    <3>1. CASE q = r
      BY <1>1, <1>8, <1>9, <1>10, <3>1
    <3>2. CASE q # r
      <4>1. run'[q] = run[q] /\ (q \in rows' <=> q \in rows) /\ today' = today
        BY <1>1, <1>9, <3>2
      <4> QED BY <4>1, RunShape
    <3> QED BY <3>1, <3>2
  <2> QED BY <1>4, <1>5, <1>10, <1>11, <1>12, <2>1, <2>2, NextTypes
<1>14. UniverseIsPublished'
  <2>1. rows \subseteq Runs /\ r \notin rows /\ rows' = rows \cup {r}
    BY <1>1, <1>4 DEF PubInv, TypeOK
  <2>2. /\ Published' = Published
        /\ \A q \in Published : /\ run'[q].input = run[q].input /\ run'[q].chosen = run[q].chosen
                                /\ run'[q].published = run[q].published
    <3>1. \A q \in rows : run'[q] = run[q]
      BY <1>9, <2>1
    <3>2. run'[r].status # "PUBLISHED"
      BY <1>8, <1>9
    <3> QED BY <2>1, <3>1, <3>2 DEF Published
  <2> QED BY <1>1, <2>2, UniverseKept DEF PubInv
<1> QED BY <1>11, <1>13, <1>14 DEF PubInv

(* AnalysisEnds writes the run of one process, which is no publication yet: AloneInv
   keeps it from being the run of another.                                    *)
LEMMA PubAnalysisEnds ==
  ASSUME PubInv, NEW p \in Process, AnalysisEnds(p)
  PROVE  PubInv'
<1> DEFINE r == task[p].context
<1>1. PICK result \in {"PASS", "WARNING", "FAIL"}, S \in Selections \cup {{}} :
        /\ run' = [run EXCEPT ![r].status = result, ![r].chosen = S]
        /\ task' = [task EXCEPT ![p] =
             IF result = "PASS" THEN [task[p] EXCEPT !.stage = "publish"] ELSE Idle]
  BY DEF AnalysisEnds
<1>2. task[p].stage = "analyze" /\ UNCHANGED <<today, source, rows, old, universe>>
  BY DEF AnalysisEnds
<1>3. /\ r \in rows /\ r \in Runs /\ rows \subseteq Runs
      /\ run[r].status \in {"RUNNING", "FAIL"}
      /\ task[p] \in TaskRecord /\ task[p].input \in Inputs
      /\ run \in [Runs -> RunRecord]
  BY <1>2 DEF PubInv, TypeOK, ShapeInv, TaskRecord, RunRecord
<1>4. \A q \in Process \ {p} : task[q].stage = "analyze" => task[q].context # r
  BY <1>2 DEF PubInv, AloneInv
<1>5. /\ run[r] \in Row(today)
      /\ S \in SUBSET Company /\ result \in Status /\ result # "PUBLISHED"
  BY <1>3, RunShape, PublicationAssumption DEF Status
<1> HIDE DEF r
<1>6. /\ run'[r] \in Row(today)
      /\ run'[r] \in RunRecord /\ run'[r].status = result
      /\ \A q \in Runs \ {r} : run'[q] = run[q]
      /\ run' \in [Runs -> RunRecord]
  <2> DEFINE new == [run[r] EXCEPT !.status = result, !.chosen = S]
  <2>1. run' = [run EXCEPT ![r] = new]
    BY <1>1, <1>3
  <2>2. new \in Row(today) /\ new.status = result
    BY <1>5 DEF Row
  <2>3. new \in RunRecord
    BY <2>2, RowRecord
  <2> HIDE DEF new
  <2> QED BY <1>3, <2>1, <2>2, <2>3
<1> DEFINE t == IF result = "PASS" THEN [task[p] EXCEPT !.stage = "publish"] ELSE Idle
<1>7. /\ t \in TaskRecord /\ t.stage \in {"idle", "publish"}
      /\ t.stage # "idle" => t.input \in Inputs
      /\ t.stage = "publish" => t.context = r
      /\ t.context \in rows \cup {None}
  <2>1. CASE result = "PASS"
    <3>1. t = [task[p] EXCEPT !.stage = "publish"]
      BY <2>1
    <3> QED BY <1>3, <3>1 DEF TaskRecord, Stage, r
  <2>2. CASE result # "PASS"
    <3>1. t = Idle
      BY <2>2
    <3> QED BY <3>1, IdleRecord
  <2> QED BY <2>1, <2>2
<1>8. task' = [task EXCEPT ![p] = t]
  BY <1>1
<1> HIDE DEF t
<1>9. /\ rows \subseteq rows' /\ rows' \subseteq Runs
      /\ t.stage \in {"analyze", "publish"} => t.context \in rows'
      /\ t.context \in rows' \cup {None} /\ t.stage # "analyze"
  BY <1>2, <1>3, <1>7
<1>10. /\ ShapeInv' /\ AloneInv'
       /\ task'[p] = t /\ \A q \in Process \ {p} : task'[q] = task[q]
       /\ \A q \in Process : task'[q].context \in rows' \cup {None}
  BY <1>6, <1>7, <1>8, <1>9, TaskMoves
<1>11. ASSUME NEW q \in Process, task'[q].stage = "analyze"
       PROVE  run'[task'[q].context].status \in {"RUNNING", "FAIL"}
  <2>1. q # p /\ task'[q] = task[q]
    BY <1>9, <1>10, <1>11
  <2>2. task[q].context \in Runs /\ task[q].context # r
    BY <1>3, <1>4, <1>11, <2>1 DEF PubInv, ShapeInv
  <2> QED BY <1>6, <1>11, <2>1, <2>2 DEF PubInv, TypeOK
<1>12. TypeOK'
  <2>1. /\ today' \in Sessions /\ source' \in 0..MaxSource
        /\ rows' \subseteq Runs /\ old' \subseteq rows' /\ rows' = 1..Cardinality(rows')
        /\ universe' \in [Company -> {"none", "ACTIVE", "SELL_ONLY"}]
    BY <1>2 DEF PubInv, TypeOK
  <2>2. ASSUME NEW q \in Runs
        PROVE run'[q] \in IF q \in rows'
                         THEN Row(today')
                         ELSE {NoRun}
    <3>1. CASE q = r
      BY <1>2, <1>3, <1>6, <3>1
    <3>2. CASE q # r
      BY <1>2, <1>6, <3>2, RunShape
    <3> QED BY <3>1, <3>2
  <2> QED BY <1>10, <1>11, <2>1, <2>2, NextTypes
<1>13. UniverseIsPublished'
  <2>1. /\ Published' = Published
        /\ \A q \in Published : /\ run'[q].input = run[q].input /\ run'[q].chosen = run[q].chosen
                                /\ run'[q].published = run[q].published
    <3>1. \A q \in rows \ {r} : run'[q] = run[q]
      BY <1>3, <1>6
    <3>2. run'[r].status # "PUBLISHED" /\ run[r].status # "PUBLISHED" /\ rows' = rows
      BY <1>2, <1>3, <1>5, <1>6
    <3> QED BY <3>1, <3>2 DEF Published
  <2> QED BY <1>2, <2>1, UniverseKept DEF PubInv
<1> QED BY <1>10, <1>12, <1>13 DEF PubInv

(* A publication demotes the one of its session that there was, and the universe
   takes its selection.  A latest one that is another is of a later session, and was
   published on a day up to today: ahead of its own.                          *)
LEMMA PubPublish ==
  ASSUME PubInv, NEW p \in Process, Publish(p)
  PROVE  PubInv'
<1>0. PICK r : r = task[p].context
  OBVIOUS
<1>1. /\ task[p].stage = "publish" /\ task' = [task EXCEPT ![p] = Idle]
      /\ UNCHANGED <<today, source, rows, old>>
      /\ \/ Publishable(r) /\ run' = Promote(r) /\ universe' = Select(r)
         \/ UNCHANGED <<run, universe>>
  BY <1>0 DEF Publish
<1>2. CASE UNCHANGED <<run, universe>>
  BY <1>1, <1>2, IdleRecord, OnlyTask
<1>3. CASE Publishable(r) /\ run' = Promote(r) /\ universe' = Select(r)
  <2>1. r \in rows /\ r \in Runs /\ rows \subseteq Runs /\ run[r].status = "PASS"
    BY <1>0, <1>1, <1>3 DEF PubInv, TypeOK, ShapeInv, Publishable
  <2>2. \A q \in Runs : q \in rows => run[q] \in Row(today)
    BY RunShape
  <2>3. /\ run'[r] = [run[r] EXCEPT !.status = "PUBLISHED", !.published = today]
        /\ \A q \in Demoted(r) : run'[q] = [run[q] EXCEPT !.status = "PASS", !.published = 0]
        /\ \A q \in Runs : q # r /\ q \notin Demoted(r) => run'[q] = run[q]
        /\ Demoted(r) \subseteq Published /\ r \notin Demoted(r) /\ Published \subseteq rows
        /\ run' = [q \in Runs |-> run'[q]]
    BY <1>3, <2>1 DEF Promote, Demoted, Published
  <2>4. ASSUME NEW q \in Runs
        PROVE  /\ run'[q] \in RunRecord
               /\ run'[q] \in IF q \in rows
                             THEN Row(today)
                             ELSE {NoRun}
               /\ run'[q].input = run[q].input /\ run'[q].chosen = run[q].chosen
               /\ run[q].status \in {"RUNNING", "FAIL"} => run'[q] = run[q]
               /\ run'[q].status = "PUBLISHED"
                    <=> q = r \/ (run[q].status = "PUBLISHED" /\ q \notin Demoted(r))
    <3>1. CASE q = r
      <4>1. /\ run'[q] = [run[q] EXCEPT !.status = "PUBLISHED", !.published = today]
            /\ run[q].status = "PASS" /\ q \in rows /\ run[q] \in Row(today)
        BY <2>1, <2>2, <2>3, <3>1
      <4>2. run'[q] \in Row(today) /\ run'[q].status = "PUBLISHED"
        <5>1. today \in 0..today /\ 0 \in 0..today
          BY RowRecord
        <5> QED BY <4>1, <5>1 DEF Row, Status
      <4>3. run'[q].input = run[q].input /\ run'[q].chosen = run[q].chosen
        BY <4>1
      <4> QED BY <3>1, <4>1, <4>2, <4>3, RowRecord
    <3>2. CASE q \in Demoted(r)
      <4>1. /\ run'[q] = [run[q] EXCEPT !.status = "PASS", !.published = 0]
            /\ run[q].status = "PUBLISHED" /\ q \in rows /\ q # r /\ run[q] \in Row(today)
        BY <2>2, <2>3, <3>2 DEF Published
      <4>2. run'[q] \in Row(today) /\ run'[q].status = "PASS"
        <5>1. today \in 0..today /\ 0 \in 0..today
          BY RowRecord
        <5> QED BY <4>1, <5>1 DEF Row, Status
      <4>3. run'[q].input = run[q].input /\ run'[q].chosen = run[q].chosen
        BY <4>1
      <4> QED BY <3>2, <4>1, <4>2, <4>3, RowRecord
    <3>3. CASE q # r /\ q \notin Demoted(r)
      <4>1. run'[q] = run[q]
        BY <2>3, <3>3
      <4>2. run[q] \in RunRecord
        BY DEF PubInv, ShapeInv, RunRecord
      <4> QED BY <3>3, <4>1, <4>2, RunShape
    <3> QED BY <3>1, <3>2, <3>3
  <2>5. run' \in [Runs -> RunRecord] /\ rows \subseteq rows' /\ rows' \subseteq Runs
    BY <1>1, <2>1, <2>3, <2>4
  <2>6. /\ ShapeInv' /\ AloneInv'
        /\ task'[p] = Idle /\ \A q \in Process \ {p} : task'[q] = task[q]
        /\ \A q \in Process : task'[q].context \in rows' \cup {None}
    BY <1>1, <2>5, IdleRecord, TaskMoves
  <2>7. ASSUME NEW q \in Process, task'[q].stage = "analyze"
        PROVE  run'[task'[q].context].status \in {"RUNNING", "FAIL"}
    <3>1. task'[q] = task[q]
      BY <2>6, <2>7, IdleRecord
    <3>2. task[q].context \in Runs /\ run[task[q].context].status \in {"RUNNING", "FAIL"}
      BY <2>1, <2>7, <3>1 DEF PubInv, TypeOK, ShapeInv
    <3> QED BY <2>4, <3>1, <3>2
  <2>8. universe' \in [Company -> {"none", "ACTIVE", "SELL_ONLY"}]
    BY <1>3 DEF Select, PubInv, TypeOK
  <2>9. TypeOK'
    <3>1. /\ today' \in Sessions /\ source' \in 0..MaxSource
          /\ rows' \subseteq Runs /\ old' \subseteq rows' /\ rows' = 1..Cardinality(rows')
      BY <1>1 DEF PubInv, TypeOK
    <3>2. \A q \in Runs :
            run'[q] \in IF q \in rows'
                        THEN Row(today')
                        ELSE {NoRun}
      BY <1>1, <2>4
    <3> QED BY <2>6, <2>7, <2>8, <3>1, <3>2, NextTypes
  <2>10. Active' = run'[r].chosen
    <3>1. run'[r].chosen = run[r].chosen /\ run[r].chosen \subseteq Company
      BY <2>1, <2>2, <2>4 DEF Row
    <3>2. \A c \in Company : universe'[c] = "ACTIVE" <=> c \in run[r].chosen
      BY <1>3 DEF Select, Active
    <3> QED BY <3>1, <3>2 DEF Active
  <2>11. Published' = {r} \cup (Published \ Demoted(r))
    BY <1>1, <2>1, <2>4 DEF Published
  <2>12. \A q \in Published' :
          /\ q \in Runs /\ Session(q)' = Session(q)
          /\ q = r \/ (q \in Published /\ q \notin Demoted(r) /\ run'[q] = run[q])
    BY <2>1, <2>3, <2>4, <2>11 DEF Session
  <2>13. ASSUME NEW a \in Published', NEW b \in Published', Session(a)' = Session(b)'
         PROVE  a = b
    <3>1. \A c, d \in Published : Session(c) = Session(d) => c = d
      BY DEF PubInv, UniverseIsPublished
    <3> QED BY <2>12, <2>13, <3>1 DEF Demoted
  <2>14. \A q \in Published' : Session(q) \in Sessions /\ run[q].published \in 0..today
    <3>1. \A q \in Published' : run[q] \in Row(today)
      BY <2>1, <2>2, <2>11, <2>12 DEF Published
    <3> QED BY <3>1 DEF Row, Inputs, Session
  <2>15. (\A q \in Latest' : run'[q].published = Session(q)') => AuditPasses'
    <3> SUFFICES ASSUME \A q \in Latest' : run'[q].published = Session(q)'
                 PROVE  Mismatch' = {}
      BY DEF AuditPasses
    <3>1. r \in Published' /\ today <= Session(r) /\ today \in Nat
      BY <1>3, <2>11, RowRecord DEF Publishable
    <3>2. ASSUME NEW q \in Latest' PROVE q = r
      <4>1. q \in Published' /\ (q = r \/ Session(r)' < Session(q)' \/ Session(r)' = Session(q)')
        BY <3>1 DEF Latest
      <4>2. CASE Session(r)' < Session(q)'
        <5>1. Session(r) < Session(q)
          BY <2>12, <3>1, <4>1, <4>2
        <5>2. q # r /\ run[q].published = Session(q)
          <6>1. q # r
            BY <2>14, <3>1, <5>1, Days
          <6> QED BY <2>12, <4>1, <6>1
        <5> QED BY <2>14, <3>1, <4>1, <5>1, <5>2, Days
      <4> QED BY <2>13, <3>1, <4>1, <4>2
    <3>3. \E q \in Latest' : TRUE
      <4> DEFINE P == Published'
                 f == [q \in P |-> Session(q)']
      <4>1. f \in [P -> 1..Cardinality(Sessions)] /\ P # {} /\ Cardinality(Sessions) \in Nat
        BY <2>12, <2>14, <3>1, Days
      <4>2. PICK q \in P : \A x \in P : f[x] <= f[q]
        <5> HIDE DEF P, f
        <5> QED BY <4>1, LastSession
      <4>3. \A x \in P : Session(x)' \in Int /\ x \in Int /\ Session(x)' <= Session(q)'
        BY <2>12, <2>14, <4>2, Days, PublicationAssumption DEF Runs
      <4>4. \A x \in P : Session(x)' < Session(q)' \/ (Session(x)' = Session(q)' /\ x <= q)
        BY <2>13, <4>2, <4>3
      <4> QED BY <4>2, <4>4 DEF Latest
    <3>4. Latest' = {r}
      BY <3>2, <3>3
    <3>5. Selected' = run'[r].chosen
      BY <3>4 DEF Selected
    <3> QED BY <2>10, <3>5 DEF Mismatch
  <2>16. UniverseIsPublished'
    BY <2>10, <2>11, <2>13, <2>15 DEF UniverseIsPublished
  <2> QED BY <2>6, <2>9, <2>16 DEF PubInv
<1> QED BY <1>1, <1>2, <1>3

LEMMA PubNext == PubInv /\ [Next]_vars => PubInv'
<1> SUFFICES ASSUME PubInv, [Next]_vars PROVE PubInv'
  OBVIOUS
<1>1. CASE \/ NextSession \/ SourcesChange
           \/ \E r \in Runs : HourPasses(r)
           \/ \E p \in Process : Crash(p)
  BY <1>1, PubWorld
<1>2. ASSUME NEW p \in Process, NEW s \in today..Cardinality(Sessions), NEW f \in BOOLEAN,
             Begin(p, s, f)
      PROVE  PubInv'
  BY <1>2, PubBegin
<1>3. ASSUME NEW p \in Process, Lookup(p) \/ Insert(p) \/ AnalysisEnds(p) \/ Publish(p)
      PROVE  PubInv'
  BY <1>3, PubLookup, PubInsert, PubAnalysisEnds, PubPublish
<1>4. CASE UNCHANGED vars
  <2>1. UniverseIsPublished'
    BY <1>4, UniverseKept DEF vars, PubInv, Published
  <2> QED BY <1>4, <2>1 DEF vars, PubInv, TypeOK, ShapeInv, AloneInv
<1> QED BY <1>1, <1>2, <1>3, <1>4 DEF Next

-----------------------------------------------------------------------------
(* Rows, statuses, stages and contexts stay in their types over every interleaving of
   begin, lookup, insert, analysis, publication and crash; a run is only analyzed
   while it is RUNNING or was failed as stale.                                 *)
THEOREM TypeCorrect == Spec => []TypeOK
<1>1. PubInv => TypeOK
  BY DEF PubInv
<1> QED BY <1>1, PubInit, PubNext, PTL DEF Spec

(* Through concurrent and forced analyses, stale runs that come back, replacements and
   crashes, a session has one publication and the active universe is the selection of
   a published run: of the latest one, as the audit demands, unless that one was
   published ahead of its day.                                                 *)
THEOREM UniverseIsOnePublication == Spec => []UniverseIsPublished
<1>1. PubInv => UniverseIsPublished
  BY DEF PubInv
<1> QED BY <1>1, PubInit, PubNext, PTL DEF Spec
=============================================================================
