------------------------ MODULE OrderLifecycleProofs ------------------------
(***************************************************************************)
(* Machine-checked theorems about OrderLifecycle, for every value of the   *)
(* constants.  On either account and with operator liquidations: type      *)
(* correctness, settled rows stay settled, executions stay within the      *)
(* order, a FILLED row is fully booked, resubmission is bounded.  On       *)
(* either account without operator liquidations: as long as no recovery    *)
(* links another row's order, no key has two live orders, none is          *)
(* forgotten, and what is booked KIS has filled; and the hedge waits for   *)
(* its exits.  On the REAL account no recovery ever links another's order. *)
(***************************************************************************)
EXTENDS OrderLifecycle, TLAPS, FiniteSetTheorems

USE DEF db, kis, book, batch, trader

(* The steps of _execute_orders and _record_broker_status that work on cur. *)
AtOrder == {"claimed", "submit", "await", "poll", "record", "infer", "unknown", "settle"}

(* TypeOK is not inductive by itself: a fill looks at the owner of the broker
   order, an inference at the current row.                                    *)
TypeInv ==
  /\ TypeOK
  /\ pc \in AtOrder => cur \in OrderId
  /\ \A b \in BrokerId : bstate[b] # "free" => bowner[b] \in OrderId

LEMMA OrderFields ==
  ASSUME NEW o \in OrderId
  PROVE  o.ticker \in Ticker /\ o.side \in Side /\ o.slot \in Slot
BY DEF OrderId

(* Two orders of one key and slot are the same row. *)
LEMMA SameRow ==
  ASSUME NEW o \in OrderId, NEW p \in OrderId, SameKey(o, p), o.slot = p.slot
  PROVE  o = p
BY DEF OrderId, SameKey

LEMMA StatusTypes ==
  /\ Open \subseteq RowStatus
  /\ Terminal \subseteq RowStatus
  /\ \A b : BrokerStatus(b) \in {"CANCELLED", "FILLED", "PARTIAL", "ACCEPTED"}
<1>1. ASSUME NEW b
      PROVE  BrokerStatus(b) \in {"CANCELLED", "FILLED", "PARTIAL", "ACCEPTED"}
  BY DEF BrokerStatus
<1> QED BY <1>1 DEF Open, Unresolved, Terminal, RowStatus

(* Recording a report keeps the types when the reported quantity is a number. *)
LEMMA BeginRecordType ==
  ASSUME TypeOK, NEW o \in OrderId, NEW st \in RowStatus, NEW n \in Nat,
         NEW back \in {"reconcile", "positions", "poll", "infer", "fallback"},
         BeginRecord(o, st, n, back)
  PROVE  /\ ledger' \in [OrderId -> Nat] /\ cur' \in OrderId
         /\ obs' \in [status : RowStatus, filled : Nat]
         /\ ret' = back /\ pc' = "record"
BY DEF TypeOK, BeginRecord

LEMMA ResetType ==
  ASSUME ResetTrader
  PROVE  /\ pc' = "idle" /\ kind' = "daily" /\ work' = {} /\ cur' = None
         /\ obs' \in [status : RowStatus, filled : Nat] /\ ret' = "none"
         /\ snap' \in [Ticker -> Nat] /\ live' \in [Ticker -> Nat]
         /\ plan' \in [OrderId -> Nat] /\ exits' = {} /\ sold' = {}
BY DEF ResetTrader, NoObs, NoShares, Nothing, RowStatus

LEMMA TypeInit == Init => TypeInv
<1> SUFFICES ASSUME Init PROVE TypeInv
  OBVIOUS
<1>1. TypeOK
  BY ConstantsAssumption DEF Init, TypeOK, NoObs, Nothing, NoShares, RowStatus
<1> QED BY <1>1 DEF Init, TypeInv, AtOrder

(* The broker's steps. *)
LEMMA TypeBroker == TypeInv /\ Broker => TypeInv'
<1> SUFFICES ASSUME TypeInv, Broker PROVE TypeInv'
  OBVIOUS
<1> USE DEF TypeInv, TypeOK
<1>1. ASSUME NEW o \in OrderId, BrokerReceive(o) PROVE TypeInv'
  BY <1>1 DEF BrokerReceive
<1>2. ASSUME NEW b \in BrokerId, BrokerList(b) PROVE TypeInv'
  BY <1>2 DEF BrokerList
<1>3. ASSUME NEW b \in BrokerId, BrokerFill(b) PROVE TypeInv'
  <2>1. bowner[b] \in OrderId /\ bowner[b].ticker \in Ticker /\ bowner[b].side \in Side
    BY <1>3, OrderFields DEF BrokerFill
  <2>2. held' \in [Ticker -> Nat] /\ bfilled' \in [BrokerId -> Nat]
    BY <1>3, <2>1 DEF BrokerFill, Side
  <2>3. /\ bstate' \in [BrokerId -> {"free", "open", "filled", "cancelled"}]
        /\ \A c \in BrokerId : bstate'[c] # "free" => bstate[c] # "free"
    BY <1>3 DEF BrokerFill
  <2> QED BY <1>3, <2>2, <2>3 DEF BrokerFill
<1>4. ASSUME NEW b \in BrokerId, BrokerCancel(b) PROVE TypeInv'
  BY <1>4 DEF BrokerCancel
<1>5. CASE GracePasses
  BY <1>5 DEF GracePasses
<1> QED BY <1>1, <1>2, <1>3, <1>4, <1>5 DEF Broker

(* Starting and ending a cycle. *)
LEMMA TypeCycle == TypeInv /\ Cycle => TypeInv'
<1> SUFFICES ASSUME TypeInv, Cycle PROVE TypeInv'
  OBVIOUS
<1> USE DEF TypeInv, TypeOK, AtOrder
<1>1. ASSUME NEW k \in {"daily", "risk"}, StartCycle(k) PROVE TypeInv'
  BY <1>1 DEF StartCycle, OpenRows
<1>2. ASSUME NEW r \in LiquidationReason, StartLiquidation(r) PROVE TypeInv'
  <2>1. plan' \in [OrderId -> Nat]
    BY <1>2, OrderFields DEF StartLiquidation
  <2> QED BY <1>2, <2>1 DEF StartLiquidation
<1>3. CASE Crash
  BY <1>3, ResetType DEF Crash
<1>4. CASE PauseOrders
  BY <1>4, ResetType DEF PauseOrders
<1>5. CASE EndCycle
  BY <1>5, ResetType DEF EndCycle
<1> QED BY <1>1, <1>2, <1>3, <1>4, <1>5 DEF Cycle

(* A report read from KIS keeps the types. *)
LEMMA ReadStatusType ==
  ASSUME TypeOK, NEW o \in OrderId,
         NEW back \in {"reconcile", "positions", "poll", "infer", "fallback"},
         ReadStatus(o, back)
  PROVE  /\ ledger' \in [OrderId -> Nat] /\ cur' \in OrderId
         /\ obs' \in [status : RowStatus, filled : Nat]
         /\ ret' = back /\ pc' = "record"
<1>1. odno[o] \in BrokerId /\ bfilled[odno[o]] \in Nat
  BY DEF ReadStatus, TypeOK
<1>2. BrokerStatus(odno[o]) \in RowStatus
  BY StatusTypes DEF RowStatus, Unresolved, Open, Terminal
<1> QED BY <1>1, <1>2, BeginRecordType DEF ReadStatus

(* Reconciliation. *)
LEMMA TypeReconcile == TypeInv /\ Reconcile => TypeInv'
<1> SUFFICES ASSUME TypeInv, Reconcile PROVE TypeInv'
  OBVIOUS
<1> USE DEF TypeInv, AtOrder
<1>1. ASSUME NEW o \in OrderId, LinkMatch(o) PROVE TypeInv'
  BY <1>1, StatusTypes DEF LinkMatch, TypeOK, Open
<1>2. ASSUME NEW o \in OrderId, RejectNotFound(o) PROVE TypeInv'
  BY <1>2, StatusTypes DEF RejectNotFound, TypeOK, Terminal
<1>3. ASSUME NEW o \in OrderId, ReconcilePoll(o) PROVE TypeInv'
  <2>1. ReadStatus(o, "reconcile")
    BY <1>3 DEF ReconcilePoll
  <2> QED BY <1>3, <2>1, ReadStatusType DEF ReconcilePoll, TypeOK
<1>4. ASSUME NEW o \in OrderId, Defer(o) PROVE TypeInv'
  BY <1>4 DEF Defer, TypeOK
<1>5. ASSUME NEW o \in OrderId, InferFromPosition(o) PROVE TypeInv'
  <2>1. CASE snap[o.ticker] >= qty[o]
    BY <1>5, <2>1 DEF InferFromPosition, TypeOK
  <2>2. CASE ~(snap[o.ticker] >= qty[o])
    <3>1. qty[o] - snap[o.ticker] \in Nat
      BY <2>2, OrderFields DEF TypeOK
    <3>2. BeginRecord(o, IF snap[o.ticker] = 0 THEN "FILLED" ELSE "PARTIAL",
                      qty[o] - snap[o.ticker], "positions")
      BY <1>5, <2>2 DEF InferFromPosition
    <3>3. (IF snap[o.ticker] = 0 THEN "FILLED" ELSE "PARTIAL") \in RowStatus
      BY DEF RowStatus, Unresolved, Open, Terminal
    <3>4. /\ ledger' \in [OrderId -> Nat] /\ cur' \in OrderId
          /\ obs' \in [status : RowStatus, filled : Nat]
          /\ ret' = "positions" /\ pc' = "record"
      BY <3>1, <3>2, <3>3, BeginRecordType
    <3>5. UNCHANGED <<status, odno, qty, filledQty, born, kis, work, batch>>
      BY <1>5, <2>2 DEF InferFromPosition
    <3> QED BY <3>4, <3>5 DEF TypeOK
  <2> QED BY <2>1, <2>2
<1>6. CASE ReconcileDone
  BY <1>6 DEF ReconcileDone, TypeOK, OpenRows
<1>7. CASE PositionsDone
  BY <1>7 DEF PositionsDone, TypeOK
<1>8. CASE FinishRecord
  <2>1. NoObs \in [status : RowStatus, filled : Nat]
    BY DEF NoObs, RowStatus
  <2>2. obs.status \in RowStatus /\ obs.filled \in Nat
    BY DEF TypeOK
  <2> QED BY <1>8, <2>1, <2>2 DEF FinishRecord, TypeOK
<1>9. CASE RecordFails
  <2>1. NoObs \in [status : RowStatus, filled : Nat]
    BY DEF NoObs, RowStatus
  <2> QED BY <1>9, <2>1 DEF RecordFails, TypeOK
<1> QED BY <1>1, <1>2, <1>3, <1>4, <1>5, <1>6, <1>7, <1>8, <1>9 DEF Reconcile

(* Planning and execution. *)
LEMMA TypeExecution == TypeInv /\ Execution => TypeInv'
<1> SUFFICES ASSUME TypeInv, Execution PROVE TypeInv'
  OBVIOUS
<1> USE DEF TypeInv, AtOrder
<1>1. CASE PlanDaily
  <2>1. NoShares \in [Ticker -> Nat]
    BY DEF NoShares
  <2>2. PICK want \in [Ticker -> Intent] :
          /\ plan' = [o \in OrderId |->
                        IF Planned(o, want[o.ticker]) THEN want[o.ticker].qty ELSE 0]
          /\ exits' = {t \in Ticker \ {Hedge} : FullExit(t, want[t])}
    BY <1>1 DEF PlanDaily
  <2>3. \A t \in Ticker : want[t].qty \in Nat
    BY ConstantsAssumption DEF Intent
  <2>4. plan' \in [OrderId -> Nat]
    BY <2>2, <2>3, OrderFields
  <2> QED BY <1>1, <2>1, <2>2, <2>4 DEF PlanDaily, TypeOK
<1>2. CASE PlanRisk
  <2>1. NoShares \in [Ticker -> Nat]
    BY DEF NoShares
  <2>2. plan' \in [OrderId -> Nat]
    BY <1>2, OrderFields DEF PlanRisk, TypeOK
  <2> QED BY <1>2, <2>1, <2>2 DEF PlanRisk, TypeOK
<1>3. CASE Execute
  BY <1>3 DEF Execute, TypeOK
<1>4. ASSUME NEW o \in OrderId, Skip(o) PROVE TypeInv'
  BY <1>4 DEF Skip, IsNext, TypeOK
<1>5. ASSUME NEW o \in OrderId, Claim(o) PROVE TypeInv'
  <2>1. OrderQty(o) \subseteq Nat
    BY OrderFields DEF OrderQty, TypeOK
  <2>2. qty' \in [OrderId -> Nat]
    BY <1>5, <2>1 DEF Claim, TypeOK
  <2> QED BY <1>5, <2>2 DEF Claim, TypeOK, RowStatus, Unresolved
<1>6. CASE MarkSubmitted
  BY <1>6, StatusTypes DEF MarkSubmitted, TypeOK, Open
<1>7. CASE Submit
  BY <1>7 DEF Submit, TypeOK
<1>8. CASE Rejected
  BY <1>8, StatusTypes DEF Rejected, TypeOK, Terminal
<1>9. CASE Attach
  BY <1>9, StatusTypes DEF Attach, TypeOK, Open
<1>10. CASE OutcomeUnknown
  BY <1>10 DEF OutcomeUnknown, TypeOK
<1>11. CASE Poll
  <2>1. cur \in OrderId /\ ReadStatus(cur, "poll")
    BY <1>11 DEF Poll
  <2> QED BY <1>11, <2>1, ReadStatusType DEF Poll, TypeOK
<1>12. CASE PollsExhausted
  BY <1>12 DEF PollsExhausted, TypeOK
<1>13. CASE Infer
  <2>1. cur \in OrderId /\ cur.ticker \in Ticker
    BY <1>13, OrderFields DEF Infer
  <2>2. InferredFill(cur) \in Int
    BY <2>1 DEF InferredFill, TypeOK
  <2>3. InferredFill(cur) \in Nat
    BY <1>13, <2>2 DEF Infer
  <2>4. (IF InferredFill(cur) >= qty[cur] THEN "FILLED" ELSE "PARTIAL") \in RowStatus
    BY DEF RowStatus, Unresolved, Open, Terminal
  <2>5. /\ ledger' \in [OrderId -> Nat] /\ cur' \in OrderId
        /\ obs' \in [status : RowStatus, filled : Nat]
        /\ ret' \in {"infer", "fallback"} /\ pc' = "record"
    BY <1>13, <2>1, <2>3, <2>4, BeginRecordType DEF Infer
  <2>6. UNCHANGED <<status, odno, qty, filledQty, born, kis, work, batch>>
    BY <1>13 DEF Infer
  <2> QED BY <2>5, <2>6 DEF TypeOK
<1>14. CASE NothingInferred
  BY <1>14 DEF NothingInferred, TypeOK
<1>15. CASE MarkUnknown
  BY <1>15, StatusTypes DEF MarkUnknown, TypeOK, Open
<1>16. CASE Settle
  BY <1>16, OrderFields DEF Settle, TypeOK
<1> QED
  BY <1>1, <1>2, <1>3, <1>4, <1>5, <1>6, <1>7, <1>8, <1>9, <1>10, <1>11, <1>12,
     <1>13, <1>14, <1>15, <1>16 DEF Execution

LEMMA TypeNext == TypeInv /\ [Next]_vars => TypeInv'
<1>1. CASE UNCHANGED vars
  BY <1>1 DEF vars, TypeInv, TypeOK
<1> QED BY <1>1, TypeBroker, TypeCycle, TypeReconcile, TypeExecution DEF Next

(* The database, broker and trader variables keep their types for every set of
   symbols, reasons and order numbers and every value of the bounds; the owner of
   a live KIS order and the row the execution loop works on are orders rows.   *)
THEOREM TypeCorrect == Spec => []TypeOK
<1>1. TypeInv => TypeOK
  BY DEF TypeInv
<1> QED BY <1>1, TypeInit, TypeNext, PTL DEF Spec

-----------------------------------------------------------------------------
(* The rows, their executions and their retries                            *)

Report == {"CANCELLED", "FILLED", "PARTIAL", "ACCEPTED"}

(* The row of the current step is still open, and so are the rows that the
   reconciliation has not looked at yet; a row has nothing before it exists and
   shares from then on.                                                       *)
StepInv ==
  /\ pc = "claimed" => status[cur] = "PENDING"
  /\ pc \in {"submit", "await"} => status[cur] = "SUBMITTED"
  /\ pc \in {"poll", "record", "infer", "unknown"} => status[cur] \in Open
  /\ pc \in {"claimed", "submit", "await"} => odno[cur] = None
  /\ pc = "record" => obs.status \in Report
  /\ \A o \in work : status[o] \in Open
  /\ work # {} => \/ pc \in {"reconcile", "positions"}
                  \/ pc = "record" /\ ret \in {"reconcile", "positions"}
  /\ \A o \in OrderId : status[o] = "NONE" => odno[o] = None /\ ledger[o] = 0
  /\ \A o \in OrderId : status[o] # "NONE" => qty[o] > 0

LEMMA StepInit == Init => StepInv
BY DEF Init, StepInv, Nothing

LEMMA Statuses ==
  /\ Open \subseteq Unresolved /\ Open \cap Terminal = {} /\ Unresolved \cap Terminal = {}
  /\ "NONE" \notin Unresolved \cup Terminal /\ "PENDING" \in Unresolved \ Open
  /\ Report \subseteq Open \cup Terminal
  /\ "SUBMITTED" \in Open /\ "ACCEPTED" \in Open /\ "REJECTED" \in Terminal
  /\ {"CANCELLED", "FILLED"} \subseteq Terminal
BY DEF Open, Unresolved, Terminal, Report

LEMMA ReportRead ==
  ASSUME NEW o, NEW back, ReadStatus(o, back)
  PROVE  /\ cur' = o /\ pc' = "record" /\ ret' = back
         /\ obs'.status = BrokerStatus(odno[o]) /\ obs'.status \in Report
         /\ obs'.filled = bfilled[odno[o]]
         /\ ledger' = [ledger EXCEPT ![o] = IF bfilled[odno[o]] > @ THEN bfilled[odno[o]] ELSE @]
<1>1. BrokerStatus(odno[o]) \in Report
  BY StatusTypes DEF Report
<1> QED BY <1>1 DEF ReadStatus, BeginRecord

LEMMA StepReconcile == TypeInv /\ StepInv /\ Reconcile => StepInv'
<1> SUFFICES ASSUME TypeInv, StepInv, Reconcile PROVE StepInv'
  OBVIOUS
<1> USE Statuses DEF TypeInv, TypeOK, StepInv
<1>1. ASSUME NEW o \in OrderId, LinkMatch(o) PROVE StepInv'
  BY <1>1 DEF LinkMatch
<1>2. ASSUME NEW o \in OrderId, RejectNotFound(o) PROVE StepInv'
  BY <1>2 DEF RejectNotFound
<1>3. ASSUME NEW o \in OrderId, ReconcilePoll(o) PROVE StepInv'
  <2>1. ReadStatus(o, "reconcile")
    BY <1>3 DEF ReconcilePoll
  <2> QED BY <1>3, <2>1, ReportRead DEF ReconcilePoll
<1>4. ASSUME NEW o \in OrderId, Defer(o) PROVE StepInv'
  BY <1>4 DEF Defer
<1>5. ASSUME NEW o \in OrderId, InferFromPosition(o) PROVE StepInv'
  BY <1>5 DEF InferFromPosition, BeginRecord, Report
<1>6. CASE ReconcileDone
  BY <1>6 DEF ReconcileDone, OpenRows
<1>7. CASE PositionsDone
  BY <1>7 DEF PositionsDone
<1>8. CASE FinishRecord
  BY <1>8 DEF FinishRecord, AtOrder
<1>9. CASE RecordFails
  BY <1>9 DEF RecordFails, AtOrder
<1> QED BY <1>1, <1>2, <1>3, <1>4, <1>5, <1>6, <1>7, <1>8, <1>9 DEF Reconcile

LEMMA StepExecution == TypeInv /\ StepInv /\ Execution => StepInv'
<1> SUFFICES ASSUME TypeInv, StepInv, Execution PROVE StepInv'
  OBVIOUS
<1> USE Statuses DEF TypeInv, TypeOK, StepInv, AtOrder
<1>1. CASE PlanDaily \/ PlanRisk \/ Execute
  BY <1>1 DEF PlanDaily, PlanRisk, Execute
<1>2. ASSUME NEW o \in OrderId, Skip(o) PROVE StepInv'
  BY <1>2 DEF Skip, IsNext
<1>3. ASSUME NEW o \in OrderId, Claim(o) PROVE StepInv'
  <2>1. PICK q \in OrderQty(o) : qty' = [qty EXCEPT ![o] = q]
    BY <1>3 DEF Claim
  <2>2. q > 0
    BY OrderFields DEF OrderQty
  <2> QED BY <1>3, <2>1, <2>2 DEF Claim, IsNext
<1>4. CASE MarkSubmitted
  BY <1>4 DEF MarkSubmitted
<1>5. CASE Submit \/ OutcomeUnknown \/ PollsExhausted \/ NothingInferred
  BY <1>5 DEF Submit, OutcomeUnknown, PollsExhausted, NothingInferred
<1>6. CASE Rejected
  BY <1>6 DEF Rejected
<1>7. CASE Attach
  BY <1>7 DEF Attach
<1>8. CASE Poll
  <2>1. ReadStatus(cur, "poll")
    BY <1>8 DEF Poll
  <2> QED BY <1>8, <2>1, ReportRead DEF Poll
<1>9. CASE Infer
  BY <1>9 DEF Infer, BeginRecord, Report
<1>10. CASE MarkUnknown
  BY <1>10 DEF MarkUnknown
<1>11. CASE Settle
  BY <1>11 DEF Settle
<1> QED
  BY <1>1, <1>2, <1>3, <1>4, <1>5, <1>6, <1>7, <1>8, <1>9, <1>10, <1>11 DEF Execution

LEMMA StepNext == TypeInv /\ StepInv /\ [Next]_vars => StepInv'
<1> SUFFICES ASSUME TypeInv, StepInv, [Next]_vars PROVE StepInv'
  OBVIOUS
<1>1. CASE UNCHANGED vars
  BY <1>1 DEF vars, StepInv
<1>2. CASE Broker
  BY <1>2 DEF Broker, BrokerReceive, BrokerList, BrokerFill, BrokerCancel, GracePasses, StepInv
<1>3. CASE Cycle
  BY <1>3 DEF Cycle, StartCycle, StartLiquidation, Crash, PauseOrders, EndCycle,
              ResetTrader, OpenRows, StepInv
<1> QED BY <1>1, <1>2, <1>3, StepReconcile, StepExecution DEF Next

-----------------------------------------------------------------------------
(* What a step may do to one row. *)

(* A row appears by a claim, which alone sets its quantity and time, is worked on
   while it is unresolved, and is then left alone.                            *)
RowStep(o) ==
  \/ status'[o] = status[o] /\ qty'[o] = qty[o] /\ born'[o] = born[o]
  \/ Claim(o) /\ status[o] = "NONE" /\ status'[o] = "PENDING"
  \/ /\ status[o] \in Unresolved /\ status'[o] \in Open \cup Terminal
     /\ qty'[o] = qty[o] /\ born'[o] = born[o]

LEMMA RowSteps ==
  ASSUME TypeInv, StepInv, [Next]_vars, NEW o \in OrderId
  PROVE  RowStep(o)
<1> USE DEF RowStep
<1>1. CASE UNCHANGED vars
  BY <1>1 DEF vars
<1>2. CASE Broker
  BY <1>2 DEF Broker, BrokerReceive, BrokerList, BrokerFill, BrokerCancel, GracePasses
<1>3. CASE Cycle
  BY <1>3 DEF Cycle, StartCycle, StartLiquidation, Crash, PauseOrders, EndCycle
<1>4. CASE Reconcile
  <2>1. ASSUME NEW p \in OrderId, LinkMatch(p) \/ RejectNotFound(p) PROVE RowStep(o)
    BY <2>1, Statuses DEF LinkMatch, RejectNotFound, StepInv, TypeInv, TypeOK
  <2>2. CASE FinishRecord
    BY <2>2, Statuses DEF FinishRecord, StepInv, AtOrder, TypeInv, TypeOK
  <2> QED
    BY <1>4, <2>1, <2>2
       DEF Reconcile, ReconcilePoll, Defer, InferFromPosition, ReconcileDone,
           PositionsDone, RecordFails
<1>5. CASE Execution
  <2>1. ASSUME NEW p \in OrderId, Claim(p) PROVE RowStep(o)
    BY <2>1 DEF Claim, TypeInv, TypeOK
  <2>2. CASE MarkSubmitted \/ Rejected \/ Attach \/ MarkUnknown
    BY <2>2, Statuses DEF MarkSubmitted, Rejected, Attach, MarkUnknown, StepInv, AtOrder,
                TypeInv, TypeOK
  <2> QED
    BY <1>5, <2>1, <2>2
       DEF Execution, PlanDaily, PlanRisk, Execute, Skip, Submit, OutcomeUnknown, Poll,
           PollsExhausted, Infer, NothingInferred, Settle
<1> QED BY <1>1, <1>2, <1>3, <1>4, <1>5 DEF Next

(* On every account and with operator liquidations, FILLED, CANCELLED and REJECTED
   are final: no late poll, inference, recovery or UNKNOWN_RESULT write reopens a
   row.                                                                       *)
THEOREM SettledIsFinal == Spec => TerminalIsFinal
<1>1. TypeInv /\ StepInv /\ [Next]_vars =>
        [\A o \in OrderId : status[o] \in Terminal => status'[o] = status[o]]_vars
  BY RowSteps, Statuses DEF RowStep
<1> QED BY <1>1, TypeInit, TypeNext, StepInit, StepNext, PTL DEF Spec, TerminalIsFinal

-----------------------------------------------------------------------------
(* Rows, submissions, KIS orders and links. *)

(* Submissions and KIS orders come from rows; KIS fills no more than was ordered;
   a row's link leads to a KIS order of its symbol, side and quantity (which need
   not be its own: PAPER recovery can adopt another row's order).             *)
LinkInv ==
  /\ \A o \in wire : status[o] # "NONE"
  /\ \A b \in BrokerId : bstate[b] = "free" =>
       bowner[b] = None /\ bfilled[b] = 0 /\ b \notin listed
  /\ \A b \in BrokerId : bstate[b] # "free" =>
       /\ status[bowner[b]] # "NONE"
       /\ bfilled[b] <= qty[bowner[b]]
       /\ bstate[b] = "open" => bfilled[b] < qty[bowner[b]]
       /\ bstate[b] = "filled" => bfilled[b] = qty[bowner[b]]
  /\ \A o \in OrderId : odno[o] # None =>
       /\ bstate[odno[o]] # "free"
       /\ SameKey(bowner[odno[o]], o) /\ qty[bowner[odno[o]]] = qty[o]

LEMMA LinkInit == Init => LinkInv
BY DEF Init, LinkInv

LEMMA RowsRemain ==
  ASSUME TypeInv, StepInv, [Next]_vars, NEW o \in OrderId, status[o] # "NONE"
  PROVE  status'[o] # "NONE" /\ qty'[o] = qty[o] /\ born'[o] = born[o]
BY RowSteps, Statuses DEF RowStep

LEMMA LinkBroker == TypeInv /\ StepInv /\ LinkInv /\ Broker => LinkInv'
<1> SUFFICES ASSUME TypeInv, StepInv, LinkInv, Broker PROVE LinkInv'
  OBVIOUS
<1> USE ConstantsAssumption DEF TypeInv, TypeOK, LinkInv
<1>1. ASSUME NEW o \in OrderId, BrokerReceive(o) PROVE LinkInv'
  <2>1. /\ o \in wire /\ wire' = wire \ {o} /\ status[o] # "NONE" /\ qty[o] > 0
        /\ UNCHANGED <<db, era, trader>>
    BY <1>1 DEF BrokerReceive, StepInv
  <2>2. CASE UNCHANGED book
    BY <2>1, <2>2
  <2>3. ASSUME NEW b \in BrokerId, bstate[b] = "free",
               bowner' = [bowner EXCEPT ![b] = o], bstate' = [bstate EXCEPT ![b] = "open"],
               UNCHANGED <<bfilled, listed, held>>
        PROVE  LinkInv'
    <3>1. \A p \in OrderId : odno[p] # None => odno[p] \in BrokerId \ {b}
      BY <2>3
    <3> QED BY <2>1, <2>3, <3>1
  <2> QED BY <1>1, <2>2, <2>3 DEF BrokerReceive
<1>2. ASSUME NEW b \in BrokerId, BrokerList(b) PROVE LinkInv'
  BY <1>2 DEF BrokerList
<1>3. ASSUME NEW b \in BrokerId, BrokerFill(b) PROVE LinkInv'
  <2>1. /\ bstate[b] = "open" /\ bfilled[b] < qty[bowner[b]] /\ bowner[b] \in OrderId
        /\ bfilled' = [bfilled EXCEPT ![b] = @ + 1]
        /\ bstate' = [bstate EXCEPT ![b] = IF bfilled[b] + 1 >= qty[bowner[b]]
                                             THEN "filled" ELSE @]
        /\ UNCHANGED <<db, wire, bowner, listed, era, trader>>
    BY <1>3 DEF BrokerFill
  <2>2. \A c \in BrokerId \ {b} : bstate'[c] = bstate[c] /\ bfilled'[c] = bfilled[c]
    BY <2>1
  <2>3. bfilled'[b] = bfilled[b] + 1 /\ bfilled'[b] <= qty[bowner[b]]
    BY <2>1
  <2>4. IF bfilled'[b] = qty[bowner[b]] THEN bstate'[b] = "filled" ELSE bstate'[b] = "open"
    BY <2>1, <2>3
  <2> QED BY <2>1, <2>2, <2>3, <2>4
<1>4. ASSUME NEW b \in BrokerId, BrokerCancel(b) PROVE LinkInv'
  BY <1>4 DEF BrokerCancel
<1>5. CASE GracePasses
  BY <1>5 DEF GracePasses
<1> QED BY <1>1, <1>2, <1>3, <1>4, <1>5 DEF Broker

(* The trader's steps leave KIS's book alone and link a row at most once. *)
LEMMA LinkTrader ==
  ASSUME TypeInv, StepInv, LinkInv, [Next]_vars, UNCHANGED book,
         \A o \in wire' : o \in wire \/ (o \in OrderId /\ status[o] # "NONE"),
         \A o \in OrderId : odno'[o] # odno[o] =>
           \E b \in BrokerId : /\ odno'[o] = b /\ bstate[b] # "free" /\ status[o] # "NONE"
                               /\ SameKey(bowner[b], o) /\ qty[bowner[b]] = qty[o]
  PROVE  LinkInv'
<1> USE DEF TypeInv, TypeOK, LinkInv
<1>1. \A o \in OrderId : status[o] # "NONE" => status'[o] # "NONE" /\ qty'[o] = qty[o]
  BY RowsRemain
<1>2. \A o \in wire' : status'[o] # "NONE"
  BY <1>1
<1>3. ASSUME NEW b \in BrokerId, bstate[b] # "free"
      PROVE  /\ status'[bowner[b]] # "NONE" /\ qty'[bowner[b]] = qty[bowner[b]]
             /\ bowner[b] \in OrderId
  BY <1>1, <1>3
<1>4. ASSUME NEW o \in OrderId, odno'[o] # None
      PROVE  /\ bstate[odno'[o]] # "free" /\ odno'[o] \in BrokerId
             /\ SameKey(bowner[odno'[o]], o) /\ qty[bowner[odno'[o]]] = qty[o]
             /\ qty'[o] = qty[o]
  <2>1. CASE odno'[o] # odno[o]
    BY <1>1, <1>4, <2>1
  <2>2. CASE odno'[o] = odno[o]
    <3>1. status[o] # "NONE"
      BY <1>4, <2>2 DEF StepInv
    <3> QED BY <1>1, <1>4, <2>2, <3>1
  <2> QED BY <2>1, <2>2
<1> QED BY <1>2, <1>3, <1>4

LEMMA LinkNext == TypeInv /\ StepInv /\ LinkInv /\ [Next]_vars => LinkInv'
<1> SUFFICES ASSUME TypeInv, StepInv, LinkInv, [Next]_vars PROVE LinkInv'
  OBVIOUS
<1>1. ASSUME UNCHANGED <<book, wire, odno>> PROVE LinkInv'
  BY <1>1, LinkTrader
<1>2. CASE UNCHANGED vars
  BY <1>1, <1>2 DEF vars
<1>3. CASE Cycle
  BY <1>1, <1>3 DEF Cycle, StartCycle, StartLiquidation, Crash, PauseOrders, EndCycle
<1>4. CASE Reconcile
  <2>1. ASSUME NEW o \in OrderId, LinkMatch(o) PROVE LinkInv'
    <3>1. PICK b \in BrokerId : Matches(o) = {b} /\ odno' = [odno EXCEPT ![o] = b]
      BY <2>1 DEF LinkMatch
    <3>2. SameKey(bowner[b], o) /\ qty[bowner[b]] = qty[o] /\ bstate[b] # "free"
      BY <3>1 DEF Matches, LinkInv
    <3>3. status[o] # "NONE" /\ UNCHANGED <<book, wire>>
      BY <2>1, Statuses DEF LinkMatch, StepInv
    <3> QED BY <3>1, <3>2, <3>3, LinkTrader DEF TypeInv, TypeOK
  <2> QED
    BY <1>1, <1>4, <2>1
       DEF Reconcile, RejectNotFound, ReconcilePoll, Defer, InferFromPosition, ReconcileDone,
           PositionsDone, FinishRecord, RecordFails
<1>5. CASE Execution
  <2>1. CASE Submit
    <3>1. /\ cur \in OrderId /\ status[cur] # "NONE" /\ wire' = wire \cup {cur}
          /\ UNCHANGED <<book, odno>>
      BY <2>1 DEF Submit, StepInv, TypeInv, AtOrder
    <3> QED BY <3>1, LinkTrader
  <2>2. CASE Attach
    <3>1. PICK b \in BrokerId : bowner[b] = cur /\ odno' = [odno EXCEPT ![cur] = b]
      BY <2>2 DEF Attach
    <3>2. cur \in OrderId /\ status[cur] # "NONE" /\ UNCHANGED <<book, wire>>
      BY <2>2 DEF Attach, StepInv, TypeInv, AtOrder
    <3>3. bstate[b] # "free" /\ SameKey(bowner[b], cur) /\ qty[bowner[b]] = qty[cur]
      BY <3>1, <3>2, ConstantsAssumption DEF LinkInv, SameKey
    <3> QED BY <3>1, <3>2, <3>3, LinkTrader DEF TypeInv, TypeOK
  <2> QED
    BY <1>1, <1>5, <2>1, <2>2
       DEF Execution, PlanDaily, PlanRisk, Execute, Skip, Claim, MarkSubmitted, Rejected,
           OutcomeUnknown, Poll, PollsExhausted, Infer, NothingInferred, MarkUnknown, Settle
<1> QED BY <1>2, <1>3, <1>4, <1>5, LinkBroker DEF Next

-----------------------------------------------------------------------------
(* Executions. *)

(* Executions stay within the order; a report is in the ledger before it is in the
   row, and a FILLED report is one of every share.                            *)
BookedInv ==
  /\ \A o \in OrderId : ledger[o] <= qty[o]
  /\ FilledMeansBooked
  /\ pc = "record" => /\ obs.filled <= ledger[cur]
                      /\ obs.status = "FILLED" => obs.filled = qty[cur]

LEMMA BookedInit == Init => BookedInv
BY DEF Init, BookedInv, Nothing, FilledMeansBooked

(* A report of at most the order's quantity, every share of it when it says FILLED,
   about an open row: all of _record_broker_status's callers make only such.  *)
LEMMA BookedReport ==
  ASSUME TypeInv, BookedInv, NEW o \in OrderId, NEW st, NEW n \in Nat, NEW back,
         status[o] \in Open, BeginRecord(o, st, n, back),
         n <= qty[o], st = "FILLED" => n = qty[o],
         UNCHANGED <<status, qty, filledQty>>
  PROVE  BookedInv'
<1> USE Statuses DEF TypeInv, TypeOK
<1>1. /\ ledger' = [ledger EXCEPT ![o] = IF n > @ THEN n ELSE @]
      /\ cur' = o /\ obs' = [status |-> st, filled |-> n]
  BY DEF BeginRecord
<1>2. /\ n <= ledger'[o] /\ ledger'[o] <= qty[o]
      /\ \A p \in OrderId \ {o} : ledger'[p] = ledger[p]
  BY <1>1 DEF BookedInv
<1>3. FilledMeansBooked'
  BY <1>2 DEF BookedInv, FilledMeansBooked
<1> QED BY <1>1, <1>2, <1>3 DEF BookedInv

(* KIS's view of the order number a row carries is such a report. *)
LEMMA PolledReport ==
  ASSUME TypeInv, StepInv, LinkInv, NEW o \in OrderId, NEW back, ReadStatus(o, back)
  PROVE  /\ odno[o] \in BrokerId /\ bfilled[odno[o]] \in Nat
         /\ BeginRecord(o, BrokerStatus(odno[o]), bfilled[odno[o]], back)
         /\ bfilled[odno[o]] <= qty[o]
         /\ BrokerStatus(odno[o]) = "FILLED" =>
              bfilled[odno[o]] = qty[o] /\ bstate[odno[o]] # "cancelled"
<1> DEFINE b == odno[o]
<1>1. b \in BrokerId /\ b # None
  BY ConstantsAssumption DEF ReadStatus, TypeInv, TypeOK
<1>2. bstate[b] # "free" /\ qty[bowner[b]] = qty[o]
  BY <1>1 DEF LinkInv
<1>3. bfilled[b] <= qty[o] /\ bfilled[b] \in Nat /\ qty[o] \in Nat
  BY <1>1, <1>2 DEF LinkInv, TypeInv, TypeOK
<1>4. BrokerStatus(b) = "FILLED" => bfilled[b] >= qty[bowner[b]] /\ bstate[b] # "cancelled"
  BY DEF BrokerStatus
<1> QED BY <1>1, <1>2, <1>3, <1>4 DEF ReadStatus

LEMMA BookedNext ==
  TypeInv /\ StepInv /\ LinkInv /\ BookedInv /\ [Next]_vars => BookedInv'
<1> SUFFICES ASSUME TypeInv, StepInv, LinkInv, BookedInv, [Next]_vars PROVE BookedInv'
  OBVIOUS
<1> USE Statuses DEF TypeInv, TypeOK, AtOrder
<1>1. ASSUME UNCHANGED <<status, qty, filledQty, ledger>>,
             pc' # "record" \/ UNCHANGED <<pc, cur, obs>>
      PROVE  BookedInv'
  BY <1>1 DEF BookedInv, FilledMeansBooked
(* A row is written, but not as FILLED. *)
<1>2. ASSUME NEW o \in OrderId, NEW st, status' = [status EXCEPT ![o] = st], st # "FILLED",
             UNCHANGED <<qty, filledQty, ledger>>, pc' # "record"
      PROVE  BookedInv'
  BY <1>2 DEF BookedInv, FilledMeansBooked
<1>3. CASE UNCHANGED vars
  BY <1>1, <1>3 DEF vars
<1>4. CASE Broker
  BY <1>1, <1>4 DEF Broker, BrokerReceive, BrokerList, BrokerFill, BrokerCancel, GracePasses
<1>5. CASE Cycle
  BY <1>1, <1>5 DEF Cycle, StartCycle, StartLiquidation, Crash, PauseOrders, EndCycle,
                    ResetTrader
<1>6. CASE Reconcile
  <2>1. ASSUME NEW o \in OrderId, LinkMatch(o) \/ RejectNotFound(o) PROVE BookedInv'
    BY <1>2, <2>1 DEF LinkMatch, RejectNotFound
  <2>2. ASSUME NEW o \in OrderId, ReconcilePoll(o) PROVE BookedInv'
    <3>1. /\ ReadStatus(o, "reconcile") /\ status[o] \in Open
          /\ UNCHANGED <<status, qty, filledQty>>
      BY <2>2 DEF ReconcilePoll, StepInv
    <3> QED BY <3>1, PolledReport, BookedReport
  <2>3. ASSUME NEW o \in OrderId, InferFromPosition(o) PROVE BookedInv'
    <3>1. CASE snap[o.ticker] >= qty[o]
      BY <1>1, <2>3, <3>1 DEF InferFromPosition
    <3>2. CASE ~(snap[o.ticker] >= qty[o])
      <4>1. snap[o.ticker] \in Nat /\ qty[o] \in Nat /\ status[o] \in Open
        BY <2>3, OrderFields DEF InferFromPosition, StepInv
      <4>2. /\ BeginRecord(o, IF snap[o.ticker] = 0 THEN "FILLED" ELSE "PARTIAL",
                           qty[o] - snap[o.ticker], "positions")
            /\ UNCHANGED <<status, qty, filledQty>>
        BY <2>3, <3>2 DEF InferFromPosition
      <4>3. /\ qty[o] - snap[o.ticker] \in Nat /\ qty[o] - snap[o.ticker] <= qty[o]
            /\ snap[o.ticker] = 0 => qty[o] - snap[o.ticker] = qty[o]
        BY <3>2, <4>1
      <4> QED BY <4>1, <4>2, <4>3, BookedReport
    <3> QED BY <3>1, <3>2
  <2>4. CASE FinishRecord
    <3>1. /\ pc = "record" /\ cur \in OrderId
          /\ status' = [status EXCEPT ![cur] = obs.status]
          /\ filledQty' = [filledQty EXCEPT ![cur] = obs.filled]
          /\ pc' # "record" /\ UNCHANGED <<qty, ledger>>
      BY <2>4 DEF FinishRecord
    <3>2. obs.status = "FILLED" => obs.filled = qty[cur] /\ ledger[cur] = qty[cur]
      BY <3>1 DEF BookedInv
    <3> QED BY <3>1, <3>2 DEF BookedInv, FilledMeansBooked
  <2> QED
    BY <1>1, <1>6, <2>1, <2>2, <2>3, <2>4
       DEF Reconcile, Defer, ReconcileDone, PositionsDone, RecordFails
<1>7. CASE Execution
  <2>1. ASSUME NEW o \in OrderId, Claim(o) PROVE BookedInv'
    <3>1. PICK q \in OrderQty(o) : qty' = [qty EXCEPT ![o] = q]
      BY <2>1 DEF Claim
    <3>2. q > 0 /\ ledger[o] = 0 /\ q \in Nat
      BY <2>1, OrderFields DEF OrderQty, Claim, StepInv
    <3> QED BY <2>1, <3>1, <3>2 DEF Claim, BookedInv, FilledMeansBooked
  <2>2. CASE MarkSubmitted \/ Rejected \/ Attach \/ MarkUnknown
    BY <1>1, <1>2, <2>2 DEF MarkSubmitted, Rejected, Attach, MarkUnknown
  <2>3. CASE Poll
    <3>1. /\ ReadStatus(cur, "poll") /\ status[cur] \in Open /\ cur \in OrderId
          /\ UNCHANGED <<status, qty, filledQty>>
      BY <2>3 DEF Poll, StepInv
    <3> QED BY <3>1, PolledReport, BookedReport
  <2>4. CASE Infer
    <3> DEFINE n == InferredFill(cur)
    <3>1. /\ cur \in OrderId /\ status[cur] \in Open /\ n > 0
          /\ BeginRecord(cur, IF n >= qty[cur] THEN "FILLED" ELSE "PARTIAL", n,
                         IF pc = "infer" THEN "infer" ELSE "fallback")
          /\ UNCHANGED <<status, qty, filledQty>>
      BY <2>4 DEF Infer, StepInv
    <3>2. n \in Int /\ n <= qty[cur] /\ qty[cur] \in Nat
      BY <3>1, OrderFields DEF InferredFill
    <3> HIDE DEF n
    <3> QED BY <3>1, <3>2, BookedReport
  <2> QED
    BY <1>1, <1>7, <2>1, <2>2, <2>3, <2>4
       DEF Execution, PlanDaily, PlanRisk, Execute, Skip, Submit, OutcomeUnknown,
           PollsExhausted, NothingInferred, Settle
<1> QED BY <1>3, <1>4, <1>5, <1>6, <1>7 DEF Next

RecordInv == TypeInv /\ StepInv /\ LinkInv /\ BookedInv

LEMMA RecordInit == Init => RecordInv
BY TypeInit, StepInit, LinkInit, BookedInit DEF RecordInv

LEMMA RecordNext == RecordInv /\ [Next]_vars => RecordInv'
BY TypeNext, StepNext, LinkNext, BookedNext DEF RecordInv

(* On every account and with operator liquidations, a FILLED row has executions for
   every ordered share, wherever the two commits of _record_broker_status were
   interrupted and whether the report came from KIS or from a balance.        *)
THEOREM FilledIsBooked == Spec => []FilledMeansBooked
<1>1. RecordInv => FilledMeansBooked
  BY DEF RecordInv, BookedInv
<1> QED BY <1>1, RecordInit, RecordNext, PTL DEF Spec

(* No step takes executions away. *)
LEMMA LedgerGrows ==
  ASSUME RecordInv, [Next]_vars, NEW o \in OrderId
  PROVE  ledger[o] <= ledger'[o]
<1> USE DEF RecordInv, TypeInv, TypeOK
<1>1. ASSUME NEW p, NEW st, NEW n \in Nat, NEW back, BeginRecord(p, st, n, back)
      PROVE  ledger[o] <= ledger'[o]
  BY <1>1 DEF BeginRecord
<1>2. ASSUME UNCHANGED ledger PROVE ledger[o] <= ledger'[o]
  BY <1>2
<1>3. CASE UNCHANGED vars
  BY <1>2, <1>3 DEF vars
<1>4. CASE Broker
  BY <1>2, <1>4 DEF Broker, BrokerReceive, BrokerList, BrokerFill, BrokerCancel, GracePasses
<1>5. CASE Cycle
  BY <1>2, <1>5 DEF Cycle, StartCycle, StartLiquidation, Crash, PauseOrders, EndCycle
<1>6. CASE Reconcile
  <2>1. ASSUME NEW p \in OrderId, ReconcilePoll(p) PROVE ledger[o] <= ledger'[o]
    BY <1>1, <2>1, PolledReport DEF ReconcilePoll
  <2>2. ASSUME NEW p \in OrderId, InferFromPosition(p) PROVE ledger[o] <= ledger'[o]
    <3>1. snap[p.ticker] \in Nat /\ qty[p] \in Nat
      BY OrderFields
    <3> QED BY <1>1, <1>2, <2>2, <3>1 DEF InferFromPosition
  <2> QED
    BY <1>2, <1>6, <2>1, <2>2
       DEF Reconcile, LinkMatch, RejectNotFound, Defer, ReconcileDone, PositionsDone,
           FinishRecord, RecordFails
<1>7. CASE Execution
  <2>1. CASE Poll
    BY <1>1, <2>1, PolledReport DEF Poll, AtOrder
  <2>2. CASE Infer
    <3>1. cur \in OrderId
      BY <2>2 DEF Infer, AtOrder
    <3>2. InferredFill(cur) \in Int
      BY <3>1, OrderFields DEF InferredFill
    <3> QED BY <1>1, <2>2, <3>2 DEF Infer
  <2> QED
    BY <1>2, <1>7, <2>1, <2>2
       DEF Execution, PlanDaily, PlanRisk, Execute, Skip, Claim, MarkSubmitted, Submit,
           Rejected, Attach, OutcomeUnknown, PollsExhausted, NothingInferred, MarkUnknown,
           Settle
<1> QED BY <1>3, <1>4, <1>5, <1>6, <1>7 DEF Next

(* On every account and with operator liquidations, executions are only ever added,
   never beyond the ordered quantity: a poll that comes late or a second report of
   the same shares books nothing twice.                                       *)
THEOREM LedgerIsMonotone == Spec => LedgerGrowsWithinOrder
<1>1. RecordInv /\ [Next]_vars =>
        [\A o \in OrderId : ledger[o] <= ledger'[o] /\ ledger'[o] <= qty'[o]]_vars
  BY LedgerGrows, RecordNext DEF RecordInv, BookedInv
<1> QED BY <1>1, RecordInit, RecordNext, PTL DEF Spec, LedgerGrowsWithinOrder

-----------------------------------------------------------------------------
(* The retry limit. *)

(* The rows of the daily batch for a symbol and side that have failed or still may. *)
Spent(t, s) ==
  {o \in OrderId : /\ o.ticker = t /\ o.side = s /\ o.slot \in Attempt
                   /\ status[o] \in Unresolved \cup {"REJECTED", "CANCELLED"}}

Rows == {o \in OrderId : status[o] # "NONE"}

(* A planned attempt is the only one of its symbol and side, and one more failure
   still fits the limit: the gate saw no unresolved row when it was planned.  *)
RetryInv ==
  /\ IsFiniteSet(Rows)
  /\ \A t \in Ticker, s \in Side : Cardinality(Spent(t, s)) <= MaxOrderAttempts
  /\ \A o \in OrderId : plan[o] > 0 /\ o.slot \in Attempt =>
       /\ Cardinality(Spent(o.ticker, o.side)) < MaxOrderAttempts
       /\ \A p \in OrderId : plan[p] > 0 /\ p.slot \in Attempt /\ SameKey(o, p) => o = p

LEMMA SpentIsFinite ==
  ASSUME IsFiniteSet(Rows), NEW t, NEW s
  PROVE  IsFiniteSet(Spent(t, s)) /\ Cardinality(Spent(t, s)) \in Nat
<1>1. Spent(t, s) \subseteq Rows
  BY Statuses DEF Spent, Rows
<1> QED BY <1>1, FS_Subset, FS_CardinalityType

LEMMA RetryInit == Init => RetryInv
<1> SUFFICES ASSUME Init PROVE RetryInv
  OBVIOUS
<1>1. Rows = {} /\ \A t, s : Spent(t, s) = {}
  BY Statuses DEF Init, Rows, Spent, Terminal
<1>2. IsFiniteSet({}) /\ Cardinality({}) = 0
  BY FS_EmptySet
<1> QED BY <1>1, <1>2, ConstantsAssumption DEF RetryInv, Init, Nothing

(* No step but a claim adds to the rows that failed or may fail. *)
LEMMA SpentShrinks ==
  ASSUME TypeInv, StepInv, RetryInv, [Next]_vars, \A o \in OrderId : ~Claim(o)
  PROVE  /\ Rows' = Rows
         /\ \A t, s : /\ Cardinality(Spent(t, s)') \in Nat
                      /\ Cardinality(Spent(t, s)') <= Cardinality(Spent(t, s))
<1>1. \A o \in OrderId : RowStep(o)
  BY RowSteps
<1>2. \A o \in OrderId : status'[o] = "NONE" <=> status[o] = "NONE"
  BY <1>1, Statuses DEF RowStep
<1>3. \A t, s : Spent(t, s)' \subseteq Spent(t, s)
  BY <1>1, Statuses DEF RowStep, Spent, Terminal
<1>4. Rows' = Rows
  BY <1>2 DEF Rows
<1>5. \A t, s : IsFiniteSet(Spent(t, s))
  BY SpentIsFinite DEF RetryInv
<1> QED BY <1>3, <1>4, <1>5, FS_Subset, FS_CardinalityType

(* A step that plans nothing new keeps the limit. *)
LEMMA RetryKept ==
  ASSUME TypeInv, StepInv, RetryInv, [Next]_vars, \A o \in OrderId : ~Claim(o),
         \A o \in OrderId : plan'[o] > 0 /\ o.slot \in Attempt => plan[o] > 0
  PROVE  RetryInv'
<1>1. /\ Rows' = Rows
      /\ \A t, s : /\ Cardinality(Spent(t, s)') \in Nat
                   /\ Cardinality(Spent(t, s)') <= Cardinality(Spent(t, s))
  BY SpentShrinks
<1>2. \A t, s : Cardinality(Spent(t, s)) \in Nat
  BY SpentIsFinite DEF RetryInv
<1>3. \A o \in OrderId : o.ticker \in Ticker /\ o.side \in Side
  BY OrderFields
<1> QED BY <1>1, <1>2, <1>3, ConstantsAssumption DEF RetryInv

LEMMA RetryClaim ==
  ASSUME TypeInv, StepInv, RetryInv, NEW o \in OrderId, Claim(o)
  PROVE  RetryInv'
<1>1. /\ plan[o] > 0 /\ status[o] = "NONE"
      /\ status' = [status EXCEPT ![o] = "PENDING"] /\ plan' = [plan EXCEPT ![o] = 0]
      /\ status'[o] = "PENDING" /\ \A p \in OrderId \ {o} : status'[p] = status[p]
      /\ \A p \in OrderId : plan'[p] > 0 => p # o /\ plan[p] > 0
  BY DEF Claim, IsNext, TypeInv, TypeOK
<1>2. Rows' = Rows \cup {o}
  BY <1>1 DEF Rows
<1>3. IsFiniteSet(Rows')
  BY <1>2, FS_AddElement DEF RetryInv
<1>4. \A t, s : IsFiniteSet(Spent(t, s)) /\ Cardinality(Spent(t, s)) \in Nat
  BY SpentIsFinite DEF RetryInv
<1>5. ASSUME NEW t, NEW s, ~(t = o.ticker /\ s = o.side /\ o.slot \in Attempt)
      PROVE  Spent(t, s)' = Spent(t, s)
  BY <1>1, <1>5 DEF Spent
<1>6. ASSUME o.slot \in Attempt
      PROVE  Cardinality(Spent(o.ticker, o.side)') <= MaxOrderAttempts
  <2>1. Spent(o.ticker, o.side)' = Spent(o.ticker, o.side) \cup {o}
    BY <1>1, <1>6, Statuses DEF Spent
  <2>2. Cardinality(Spent(o.ticker, o.side)) < MaxOrderAttempts
    BY <1>1, <1>6 DEF RetryInv
  <2>3. \/ Cardinality(Spent(o.ticker, o.side)') = Cardinality(Spent(o.ticker, o.side))
        \/ Cardinality(Spent(o.ticker, o.side)') = Cardinality(Spent(o.ticker, o.side)) + 1
    BY <1>4, <2>1, FS_AddElement
  <2> QED BY <1>4, <2>2, <2>3, ConstantsAssumption
<1>7. \A t \in Ticker, s \in Side : Cardinality(Spent(t, s)') <= MaxOrderAttempts
  BY <1>5, <1>6 DEF RetryInv
(* Another planned attempt is of another symbol or side. *)
<1>8. ASSUME NEW p \in OrderId, plan'[p] > 0, p.slot \in Attempt
      PROVE  Spent(p.ticker, p.side)' = Spent(p.ticker, p.side)
  <2>1. ~(p.ticker = o.ticker /\ p.side = o.side /\ o.slot \in Attempt)
    BY <1>1, <1>8 DEF RetryInv, SameKey
  <2> QED BY <1>5, <2>1
<1> QED BY <1>1, <1>3, <1>7, <1>8 DEF RetryInv

LEMMA RetryPlanDaily ==
  ASSUME TypeInv, StepInv, RetryInv, PlanDaily
  PROVE  RetryInv'
<1>1. PICK want \in [Ticker -> Intent] :
        plan' = [o \in OrderId |->
                   IF Planned(o, want[o.ticker]) THEN want[o.ticker].qty ELSE 0]
  BY DEF PlanDaily
<1>2. ASSUME NEW o \in OrderId, plan'[o] > 0
      PROVE  o.slot = NextAttempt(o.ticker, o.side)
             /\ Cardinality({p \in RowsOf(o.ticker, o.side) :
                              status[p] \in {"REJECTED", "CANCELLED"}}) < MaxOrderAttempts
  BY <1>1, <1>2 DEF Planned, CanOrder
<1>3. ASSUME NEW o \in OrderId, NEW p \in OrderId, SameKey(o, p),
             plan'[o] > 0, plan'[p] > 0
      PROVE  o = p
  BY <1>2, <1>3, SameRow DEF SameKey
<1>4. ASSUME NEW o \in OrderId, plan'[o] > 0
      PROVE  Cardinality(Spent(o.ticker, o.side)) < MaxOrderAttempts
  <2> DEFINE Failed == {p \in RowsOf(o.ticker, o.side) :
                          status[p] \in {"REJECTED", "CANCELLED"}}
  <2>1. Spent(o.ticker, o.side) \subseteq Failed
    BY Statuses DEF PlanDaily, UnresolvedRows, Spent, RowsOf
  <2>2. Failed \subseteq Rows
    BY DEF RowsOf, Rows
  <2>3. IsFiniteSet(Failed) /\ Cardinality(Failed) \in Nat
    BY <2>2, FS_Subset, FS_CardinalityType DEF RetryInv
  <2>4. Cardinality(Failed) < MaxOrderAttempts
    BY <1>2, <1>4
  <2>5. Cardinality(Spent(o.ticker, o.side)) <= Cardinality(Failed)
    BY <2>1, <2>3, FS_Subset
  <2>6. Cardinality(Spent(o.ticker, o.side)) \in Nat
    BY SpentIsFinite DEF RetryInv
  <2> HIDE DEF Failed
  <2> QED BY <2>3, <2>4, <2>5, <2>6, ConstantsAssumption
<1>5. Rows' = Rows /\ \A t, s : Spent(t, s)' = Spent(t, s)
  BY DEF PlanDaily, Rows, Spent
<1> QED BY <1>3, <1>4, <1>5 DEF RetryInv

(* Risk exits and liquidations are keyed by reason and plan no attempt. *)
LEMMA ReasonsAreNoAttempts ==
  ASSUME \/ PlanRisk
         \/ \E r \in LiquidationReason : StartLiquidation(r),
         NEW o \in OrderId, plan'[o] > 0
  PROVE  o.slot \notin Attempt
<1>1. CASE PlanRisk
  BY <1>1, OrderFields, ConstantsAssumption DEF PlanRisk
<1>2. ASSUME NEW r \in LiquidationReason, StartLiquidation(r) PROVE o.slot \notin Attempt
  BY <1>2, ConstantsAssumption DEF StartLiquidation
<1> QED BY <1>1, <1>2

LEMMA RetryNext == TypeInv /\ StepInv /\ RetryInv /\ [Next]_vars => RetryInv'
<1> SUFFICES ASSUME TypeInv, StepInv, RetryInv, [Next]_vars PROVE RetryInv'
  OBVIOUS
<1>1. ASSUME NEW o \in OrderId, Claim(o) PROVE RetryInv'
  BY <1>1, RetryClaim
<1>2. CASE PlanDaily
  BY <1>2, RetryPlanDaily
<1>3. ASSUME \A o \in OrderId : ~Claim(o), ~PlanDaily PROVE RetryInv'
  <2>1. ASSUME NEW o \in OrderId, plan'[o] > 0, o.slot \in Attempt PROVE plan[o] > 0
    <3>1. ~PlanRisk /\ \A r \in LiquidationReason : ~StartLiquidation(r)
      BY <2>1, ReasonsAreNoAttempts
    <3>2. CASE UNCHANGED plan
      BY <2>1, <3>2
    <3>3. CASE ResetTrader
      BY <2>1, <3>3 DEF ResetTrader, Nothing
    <3>4. ASSUME NEW p \in OrderId, Skip(p) PROVE plan[o] > 0
      BY <2>1, <3>4 DEF Skip, TypeInv, TypeOK
    <3>5. CASE UNCHANGED vars
      BY <2>1, <3>5 DEF vars
    <3>6. CASE Broker
      BY <3>2, <3>6 DEF Broker, BrokerReceive, BrokerList, BrokerFill, BrokerCancel, GracePasses
    <3>7. CASE Cycle
      BY <3>1, <3>2, <3>3, <3>7 DEF Cycle, StartCycle, Crash, PauseOrders, EndCycle
    <3>8. CASE Reconcile
      BY <3>2, <3>8 DEF Reconcile, LinkMatch, RejectNotFound, ReconcilePoll, Defer,
           InferFromPosition, ReconcileDone, PositionsDone, FinishRecord, RecordFails
    <3>9. CASE Execution
      BY <1>3, <3>1, <3>2, <3>4, <3>9
         DEF Execution, Execute, MarkSubmitted, Submit, Rejected, Attach, OutcomeUnknown,
             Poll, PollsExhausted, Infer, NothingInferred, MarkUnknown, Settle
    <3> QED BY <3>5, <3>6, <3>7, <3>8, <3>9 DEF Next
  <2> QED BY <1>3, <2>1, RetryKept
<1> QED BY <1>1, <1>2, <1>3

LEMMA RetryIsBounded == RetryInv => RetryBounded
<1> SUFFICES ASSUME RetryInv, NEW t \in Ticker, NEW s \in Side
             PROVE  Cardinality({o \in RowsOf(t, s) : /\ o.slot \in Attempt
                                                      /\ status[o] \in {"REJECTED", "CANCELLED"}})
                      <= MaxOrderAttempts
  BY DEF RetryBounded
<1> DEFINE Failed == {o \in RowsOf(t, s) : /\ o.slot \in Attempt
                                           /\ status[o] \in {"REJECTED", "CANCELLED"}}
<1>1. Failed \subseteq Spent(t, s)
  BY DEF RowsOf, Spent
<1>2. IsFiniteSet(Spent(t, s)) /\ Cardinality(Spent(t, s)) \in Nat
  BY SpentIsFinite DEF RetryInv
<1>3. IsFiniteSet(Failed) /\ Cardinality(Failed) <= Cardinality(Spent(t, s))
  BY <1>1, <1>2, FS_Subset
<1>4. Cardinality(Failed) \in Nat
  BY <1>3, FS_CardinalityType
<1>5. Cardinality(Spent(t, s)) <= MaxOrderAttempts
  BY DEF RetryInv
<1> HIDE DEF Failed
<1>6. Cardinality(Failed) <= MaxOrderAttempts
  BY <1>2, <1>3, <1>4, <1>5, ConstantsAssumption
<1> QED BY <1>6 DEF Failed

(* On every account and with operator liquidations and risk exits in between,
   refused, cancelled and never-received submissions of the daily batch use up
   max_order_attempts of their symbol and side, whatever crashes and however often
   the cycle runs.                                                            *)
THEOREM RetriesAreBounded == Spec => []RetryBounded
BY RetryIsBounded, TypeInit, TypeNext, StepInit, StepNext, RetryInit, RetryNext,
   PTL DEF Spec

-----------------------------------------------------------------------------
(* What a step may do to KIS's orders and to their numbers. *)

(* KIS's steps leave the trader and its database alone, and the trader's steps leave
   KIS alone, but for the single POST.                                         *)
LEMMA BrokerSteps == Broker => UNCHANGED <<db, trader>>
BY DEF Broker, BrokerReceive, BrokerList, BrokerFill, BrokerCancel, GracePasses

LEMMA TraderSteps ==
  Cycle \/ Reconcile \/ Execution => UNCHANGED <<book, era>> /\ (UNCHANGED wire \/ Submit)
<1>1. CASE Cycle
  BY <1>1 DEF Cycle, StartCycle, StartLiquidation, Crash, PauseOrders, EndCycle
<1>2. CASE Reconcile
  BY <1>2 DEF Reconcile, LinkMatch, RejectNotFound, ReconcilePoll, Defer, InferFromPosition,
              ReconcileDone, PositionsDone, FinishRecord, RecordFails
<1>3. CASE Execution
  BY <1>3 DEF Execution, PlanDaily, PlanRisk, Execute, Skip, Claim, MarkSubmitted, Submit,
              Rejected, Attach, OutcomeUnknown, Poll, PollsExhausted, Infer, NothingInferred,
              MarkUnknown, Settle
<1> QED BY <1>1, <1>2, <1>3

(* KIS takes no fill back, gives no order to another row, and is done with an order
   that is filled or cancelled.                                               *)
LEMMA KisKeeps ==
  ASSUME RecordInv, [Next]_vars, NEW b \in BrokerId
  PROVE  /\ bfilled[b] <= bfilled'[b]
         /\ bstate[b] # "free" => bowner'[b] = bowner[b] /\ bstate'[b] # "free"
         /\ bstate[b] \in {"filled", "cancelled"} => bstate'[b] = bstate[b]
<1> USE DEF RecordInv, TypeInv, TypeOK
<1>1. CASE UNCHANGED <<book, era>>
  BY <1>1
<1>2. CASE Broker
  BY <1>2 DEF Broker, BrokerReceive, BrokerList, BrokerFill, BrokerCancel, GracePasses
<1> QED BY <1>1, <1>2, TraderSteps DEF Next, vars

(* A row keeps the order number it was given; it is given one while it is open, by
   KIS's reply or by the recovery.                                            *)
LEMMA LinkSteps ==
  ASSUME RecordInv, [Next]_vars, NEW o \in OrderId
  PROVE  \/ odno'[o] = odno[o]
         \/ /\ odno[o] = None /\ status[o] \in Open /\ status'[o] = "ACCEPTED"
            /\ UNCHANGED kis
            /\ \E b \in BrokerId : /\ odno'[o] = b
                                   /\ bowner[b] = o \/ (o \in work /\ Matches(o) = {b})
<1> USE Statuses DEF RecordInv, TypeInv, TypeOK, StepInv
<1>1. CASE UNCHANGED odno
  BY <1>1
<1>2. ASSUME NEW p \in OrderId, LinkMatch(p)
      PROVE  \/ odno'[o] = odno[o]
             \/ /\ odno[o] = None /\ status[o] \in Open /\ status'[o] = "ACCEPTED"
                /\ UNCHANGED kis
                /\ \E b \in BrokerId : odno'[o] = b /\ o \in work /\ Matches(o) = {b}
  BY <1>2 DEF LinkMatch
<1>3. CASE Attach
  BY <1>3 DEF Attach, AtOrder
<1>4. CASE Cycle
  BY <1>1, <1>4 DEF Cycle, StartCycle, StartLiquidation, Crash, PauseOrders, EndCycle
<1>5. CASE Reconcile
  BY <1>1, <1>2, <1>5
     DEF Reconcile, RejectNotFound, ReconcilePoll, Defer, InferFromPosition, ReconcileDone,
         PositionsDone, FinishRecord, RecordFails
<1>6. CASE Execution
  BY <1>1, <1>3, <1>6
     DEF Execution, PlanDaily, PlanRisk, Execute, Skip, Claim, MarkSubmitted, Submit,
         Rejected, OutcomeUnknown, Poll, PollsExhausted, Infer, NothingInferred,
         MarkUnknown, Settle
<1> QED BY <1>1, <1>4, <1>5, <1>6, BrokerSteps DEF Next, vars

LEMMA LinksStay ==
  ASSUME RecordInv, [Next]_vars, NEW o \in OrderId, odno[o] # None
  PROVE  odno'[o] = odno[o]
BY LinkSteps

-----------------------------------------------------------------------------
(* Either account, without operator liquidations: why no two live KIS orders share a
   symbol and side, and why what is booked has been filled.  The gate lets a key be
   planned only when none of its rows is unresolved; every order KIS works on has an
   unresolved row; so a second one would need a second unresolved row of its key.
   On PAPER fills are also inferred, from a balance that has moved by the fills of
   the key's one unresolved row only.  There a recovery can link another row's
   order; since it does its harm to the orders of one symbol and side, that is what
   most of the invariant speaks of.                                           *)

(* A planned key has one planned order and no unresolved row. *)
PlanInv ==
  \A o, p \in OrderId : plan[o] > 0 /\ SameKey(o, p) =>
    /\ status[p] \notin Unresolved
    /\ plan[p] > 0 => o = p

(* The gate lets a key be planned when none of its rows is unresolved; balances are
   compared for sells only.                                                   *)
GateInv ==
  /\ \A o, p \in OrderId :
       status[o] \in Unresolved /\ status[p] \in Unresolved /\ SameKey(o, p) => o = p
  /\ PlanInv
  /\ pc = "positions" \/ (pc = "record" /\ ret = "positions") =>
       \A o \in work : o.side = "SELL"

(* The single POST: a row has at most one submission under way or KIS order, which
   KIS lists in the grace period it was made in.                              *)
PostInv ==
  /\ pc \in {"claimed", "submit"} => /\ cur \notin wire /\ born[cur] = era
                                     /\ \A b \in BrokerId : bowner[b] # cur
  /\ \A o \in wire : born[o] = era /\ \A b \in BrokerId : bowner[b] # o
  /\ \A a, b \in BrokerId : bowner[a] = bowner[b] /\ bowner[a] # None => a = b
  /\ \A b \in BrokerId : bowner[b] # None /\ b \notin listed => born[bowner[b]] = era
  /\ \A b \in BrokerId : bstate[b] = "cancelled" => bfilled[b] < qty[bowner[b]]

LEMMA GateInit == Init => GateInv /\ PostInv
BY DEF Init, GateInv, PostInv, PlanInv, Nothing, Unresolved, Open

LEMMA PlanDailyKeys == PlanDaily => PlanInv'
<1> SUFFICES ASSUME PlanDaily PROVE PlanInv'
  OBVIOUS
<1>1. PICK want \in [Ticker -> Intent] :
        plan' = [o \in OrderId |->
                   IF Planned(o, want[o.ticker]) THEN want[o.ticker].qty ELSE 0]
  BY DEF PlanDaily
<1>2. ASSUME NEW o \in OrderId, plan'[o] > 0 PROVE o.slot = NextAttempt(o.ticker, o.side)
  BY <1>1, <1>2 DEF Planned
<1>3. ASSUME NEW o \in OrderId, NEW p \in OrderId, SameKey(o, p),
             plan'[o] > 0, plan'[p] > 0
      PROVE  o = p
  BY <1>2, <1>3, SameRow DEF SameKey
<1>4. UNCHANGED status /\ \A o \in OrderId : status[o] \notin Unresolved
  BY DEF PlanDaily, UnresolvedRows
<1> QED BY <1>3, <1>4 DEF PlanInv, SameKey

LEMMA PlanRiskKeys == PlanRisk => PlanInv'
<1> SUFFICES ASSUME PlanRisk PROVE PlanInv'
  OBVIOUS
<1>1. PICK why \in [Ticker -> RiskReason \cup {None}] :
        plan' = [o \in OrderId |->
                   IF o.side = "SELL" /\ o.slot = why[o.ticker] THEN snap[o.ticker] ELSE 0]
  BY DEF PlanRisk
<1>2. ASSUME NEW o \in OrderId, plan'[o] > 0 PROVE o.slot = why[o.ticker]
  BY <1>1, <1>2
<1>3. ASSUME NEW o \in OrderId, NEW p \in OrderId, SameKey(o, p),
             plan'[o] > 0, plan'[p] > 0
      PROVE  o = p
  BY <1>2, <1>3, SameRow DEF SameKey
<1>4. UNCHANGED status /\ \A o \in OrderId : status[o] \notin Unresolved
  BY DEF PlanRisk, UnresolvedRows
<1> QED BY <1>3, <1>4 DEF PlanInv, SameKey

(* A plan is made by the planner only and is worked off from then on. *)
LEMMA PlanSteps ==
  ASSUME LiquidationReason = {}, TypeInv, [Next]_vars
  PROVE  \/ PlanDaily \/ PlanRisk
         \/ \A o \in OrderId : plan'[o] = plan[o] \/ plan'[o] = 0
<1> USE DEF TypeInv, TypeOK
<1>1. CASE UNCHANGED plan
  BY <1>1
<1>2. CASE Cycle
  BY <1>2 DEF Cycle, StartCycle, StartLiquidation, Crash, PauseOrders, EndCycle, ResetTrader, Nothing
<1>3. CASE Reconcile
  BY <1>1, <1>3
     DEF Reconcile, LinkMatch, RejectNotFound, ReconcilePoll, Defer, InferFromPosition,
         ReconcileDone, PositionsDone, FinishRecord, RecordFails
<1>4. CASE Execution
  BY <1>4
     DEF Execution, Execute, Skip, Claim, MarkSubmitted, Submit, Rejected, Attach,
         OutcomeUnknown, Poll, PollsExhausted, Infer, NothingInferred, MarkUnknown, Settle
<1> QED BY <1>1, <1>2, <1>3, <1>4, BrokerSteps DEF Next, vars

LEMMA GateNext ==
  ASSUME LiquidationReason = {}
  PROVE  RecordInv /\ GateInv /\ [Next]_vars => GateInv'
<1> SUFFICES ASSUME RecordInv, GateInv, [Next]_vars PROVE GateInv'
  OBVIOUS
<1> USE Statuses
<1>1. \A o \in OrderId : RowStep(o)
  BY RowSteps DEF RecordInv
(* A claimed row is the only planned order of its key, which had no unresolved row. *)
<1>2. ASSUME NEW o \in OrderId, Claim(o)
      PROVE  /\ plan[o] > 0 /\ plan' = [plan EXCEPT ![o] = 0]
             /\ \A p \in OrderId \ {o} : status'[p] = status[p]
  BY <1>2 DEF Claim, IsNext, RecordInv, TypeInv, TypeOK
<1>3. ASSUME NEW o \in OrderId, status'[o] \in Unresolved
      PROVE  status[o] \in Unresolved \/ Claim(o)
  BY <1>1, <1>3 DEF RowStep
<1>4. ASSUME NEW o \in OrderId, NEW p \in OrderId, SameKey(o, p),
             status'[o] \in Unresolved, status'[p] \in Unresolved
      PROVE  o = p
  <2>1. CASE Claim(o)
    BY <1>2, <1>4, <2>1 DEF GateInv, PlanInv
  <2>2. CASE Claim(p)
    <3>1. SameKey(p, o)
      BY <1>4 DEF SameKey
    <3> QED BY <1>2, <1>4, <2>2, <3>1 DEF GateInv, PlanInv
  <2> QED BY <1>3, <1>4, <2>1, <2>2 DEF GateInv
<1>5. PlanInv'
  <2>1. CASE PlanDaily
    BY <2>1, PlanDailyKeys
  <2>2. CASE PlanRisk
    BY <2>2, PlanRiskKeys
  <2>3. CASE \A o \in OrderId : plan'[o] = plan[o] \/ plan'[o] = 0
    <3>1. ASSUME NEW o \in OrderId, NEW p \in OrderId, plan'[o] > 0, SameKey(o, p)
          PROVE  status'[p] \notin Unresolved /\ (plan'[p] > 0 => o = p)
      <4>1. plan[o] > 0 /\ (plan'[p] > 0 => plan[p] > 0)
        BY <2>3, <3>1
      <4>2. ~ Claim(p)
        <5> SUFFICES ASSUME Claim(p) PROVE FALSE
          OBVIOUS
        <5>1. o = p /\ plan'[p] = 0
          BY <1>2, <3>1, <4>1 DEF GateInv, PlanInv, RecordInv, TypeInv, TypeOK
        <5> QED BY <3>1, <5>1
      <4> QED BY <1>3, <3>1, <4>1, <4>2 DEF GateInv, PlanInv
    <3> QED BY <3>1 DEF PlanInv, SameKey
  <2> QED BY <2>1, <2>2, <2>3, PlanSteps DEF RecordInv
<1>6. pc' = "positions" \/ (pc' = "record" /\ ret' = "positions") =>
        \A o \in work' : o.side = "SELL"
  <2>1. CASE UNCHANGED <<pc, ret, work>>
    BY <2>1 DEF GateInv
  <2>2. CASE Cycle
    BY <2>2 DEF Cycle, StartCycle, StartLiquidation, Crash, PauseOrders, EndCycle, ResetTrader
  <2>3. CASE Reconcile
    BY <2>3 DEF Reconcile, LinkMatch, RejectNotFound, ReconcilePoll, Defer, InferFromPosition,
                ReconcileDone, PositionsDone, FinishRecord, RecordFails, ReadStatus,
                BeginRecord, GateInv
  <2>4. CASE Execution
    BY <2>4 DEF Execution, PlanDaily, PlanRisk, Execute, Skip, IsNext, Claim, MarkSubmitted,
                Submit, Rejected, Attach, OutcomeUnknown, Poll, PollsExhausted, Infer,
                NothingInferred, MarkUnknown, Settle, ReadStatus, BeginRecord
  <2> QED BY <2>1, <2>2, <2>3, <2>4, BrokerSteps DEF Next, vars
<1> QED BY <1>4, <1>5, <1>6 DEF GateInv, SameKey

LEMMA PostNext == RecordInv /\ PostInv /\ [Next]_vars => PostInv'
<1> SUFFICES ASSUME RecordInv, PostInv, [Next]_vars PROVE PostInv'
  OBVIOUS
<1> USE ConstantsAssumption DEF RecordInv, TypeInv, TypeOK
<1>1. CASE Broker
  <2>1. UNCHANGED <<db, trader>>
    BY <1>1, BrokerSteps
  <2>2. ASSUME NEW o \in OrderId, BrokerReceive(o) PROVE PostInv'
    BY <2>1, <2>2 DEF BrokerReceive, PostInv, LinkInv, AtOrder
  <2>3. ASSUME NEW b \in BrokerId, BrokerList(b) \/ BrokerFill(b) PROVE PostInv'
    BY <2>1, <2>3 DEF BrokerList, BrokerFill, PostInv, LinkInv
  <2>4. ASSUME NEW b \in BrokerId, BrokerCancel(b) PROVE PostInv'
    BY <2>1, <2>4 DEF BrokerCancel, PostInv, LinkInv
  <2>5. CASE GracePasses
    BY <2>1, <2>5 DEF GracePasses, PostInv, LinkInv
  <2> QED BY <1>1, <2>2, <2>3, <2>4, <2>5 DEF Broker
<1>2. CASE Cycle \/ Reconcile \/ Execution \/ UNCHANGED vars
  <2>1. UNCHANGED <<book, era>> /\ (UNCHANGED wire \/ Submit)
    BY <1>2, TraderSteps DEF vars
  <2>2. \A o \in OrderId : status[o] # "NONE" => qty'[o] = qty[o] /\ born'[o] = born[o]
    BY RowsRemain
  <2>3. \A o \in wire' : born'[o] = era /\ \A b \in BrokerId : bowner[b] # o
    <3>1. \A o \in wire : born'[o] = era /\ \A b \in BrokerId : bowner[b] # o
      BY <2>2 DEF LinkInv, PostInv
    <3>2. ASSUME Submit
          PROVE  wire' = wire \cup {cur} /\ born'[cur] = era /\ \A b \in BrokerId : bowner[b] # cur
      BY <3>2 DEF Submit, PostInv
    <3> QED BY <2>1, <3>1, <3>2
  <2>4. \A b \in BrokerId : bowner[b] # None =>
          qty'[bowner[b]] = qty[bowner[b]] /\ born'[bowner[b]] = born[bowner[b]]
    BY <2>2 DEF LinkInv
  <2>5. pc' \in {"claimed", "submit"} =>
          /\ cur' \notin wire' /\ born'[cur'] = era /\ \A b \in BrokerId : bowner[b] # cur'
    <3>1. ASSUME NEW o \in OrderId, Claim(o)
          PROVE  /\ cur' = o /\ o \notin wire' /\ born'[o] = era
                 /\ \A b \in BrokerId : bowner[b] # o
      BY <3>1 DEF Claim, LinkInv
    <3>2. CASE MarkSubmitted
      BY <3>2 DEF MarkSubmitted, PostInv
    <3>3. pc' \in {"claimed", "submit"} =>
            \/ \E o \in OrderId : Claim(o)
            \/ MarkSubmitted
            \/ UNCHANGED vars
      <4>1. CASE Cycle
        BY <4>1 DEF Cycle, StartCycle, StartLiquidation, Crash, PauseOrders, EndCycle, ResetTrader
      <4>2. CASE Reconcile
        BY <4>2 DEF Reconcile, LinkMatch, RejectNotFound, ReconcilePoll, Defer,
                    InferFromPosition, ReconcileDone, PositionsDone, FinishRecord, RecordFails,
                    ReadStatus, BeginRecord
      <4>3. CASE Execution
        BY <4>3 DEF Execution, PlanDaily, PlanRisk, Execute, Skip, IsNext, Submit, Rejected,
                    Attach, OutcomeUnknown, Poll, PollsExhausted, Infer, NothingInferred,
                    MarkUnknown, Settle, ReadStatus, BeginRecord
      <4> QED BY <1>2, <4>1, <4>2, <4>3
    <3> QED BY <3>1, <3>2, <3>3 DEF vars, PostInv
  <2> QED BY <2>1, <2>3, <2>4, <2>5 DEF PostInv, LinkInv
<1> QED BY <1>1, <1>2 DEF Next

(* What holds of the orders of one symbol and side while recovery has linked none of
   them wrongly.                                                              *)

OfKey(o, t, s) == o.ticker = t /\ o.side = s

(* No row of the symbol and side carries the number of another row's order. *)
Sound(t, s) ==
  \A o \in OrderId : OfKey(o, t, s) /\ odno[o] # None => bowner[odno[o]] = o

(* n shares are no more than what KIS has filled for the row. *)
FilledFor(o, n) == n > 0 => \E b \in BrokerId : bowner[b] = o /\ n <= bfilled[b]

(* The row's KIS order: the row carries its number, or still waits for it, or was
   inferred from a complete fill; an order KIS works on has an open row.       *)
Owned(o, b) ==
  /\ \/ odno[o] = b
     \/ odno[o] = None /\ status[o] \in {"SUBMITTED", "PARTIAL"}
     \/ odno[o] = None /\ status[o] = "FILLED" /\ bstate[b] = "filled"
  /\ bstate[b] = "open" => status[o] \in Open

OwnInv(t, s) ==
  /\ \A o \in wire : OfKey(o, t, s) => status[o] = "SUBMITTED" /\ odno[o] = None
  /\ \A b \in BrokerId : bowner[b] # None /\ OfKey(bowner[b], t, s) => Owned(bowner[b], b)

(* What is booked, or about to be, KIS has filled. *)
Backed(o, b, report) ==
  /\ bowner[b] = o /\ report.filled <= bfilled[b]
  /\ report.status \in Terminal => bstate[b] \in {"filled", "cancelled"}
  /\ report.status = "FILLED" => bstate[b] = "filled"
  /\ odno[o] = None => report.status \in {"PARTIAL", "FILLED"}

HonestInv(t, s) ==
  /\ \A o \in OrderId : OfKey(o, t, s) => FilledFor(o, ledger[o])
  /\ pc = "record" /\ OfKey(cur, t, s) => \E b \in BrokerId : Backed(cur, b, obs)

(* The steps of a batch that work on cur, and those of a reconciliation. *)
Executing ==
  \/ pc \in {"claimed", "submit", "await", "poll", "infer", "unknown"}
  \/ pc = "record" /\ ret \in {"poll", "infer", "fallback"}
Reconciling ==
  \/ pc \in {"reconcile", "positions"}
  \/ pc = "record" /\ ret \in {"reconcile", "positions"}

InBatch == pc \in {"next", "settle"} \/ Executing

(* How far the account has moved, in the order's direction, since the batch read it. *)
Moved(t, s) == IF s = "SELL" THEN live[t] - held[t] ELSE held[t] - live[t]

(* The balances that inference compares move by the fills of the row itself.  The
   shares of an unresolved sell are in the account or sold by it, and so they are in
   the balance of the cycle's start; since the batch read its balance, that has moved
   by the current order alone, and for a planned order not at all.            *)
BalanceInv(t, s) ==
  /\ s = "SELL" => \A o \in OrderId : OfKey(o, t, s) /\ status[o] \in Unresolved =>
       /\ FilledFor(o, qty[o] - held[t])
       /\ Reconciling => FilledFor(o, qty[o] - snap[t])
  /\ \A o \in OrderId : OfKey(o, t, s) =>
       /\ InBatch /\ plan[o] > 0 => Moved(t, s) <= 0
       /\ Executing /\ o = cur => FilledFor(o, Moved(t, s))

KeyInv(t, s) == OwnInv(t, s) /\ HonestInv(t, s) /\ BalanceInv(t, s)

(* A wrong order is adopted only after KIS has filled one of the key. *)
MislinkInv ==
  \A t \in Ticker, s \in Side :
    ~ Sound(t, s) => \E b \in BrokerId : bstate[b] = "filled" /\ OfKey(bowner[b], t, s)

SoundInv ==
  /\ RecordInv /\ GateInv /\ PostInv
  /\ \A t \in Ticker, s \in Side : Sound(t, s) => KeyInv(t, s)
  /\ MislinkInv

LEMMA SoundInit == Init => SoundInv
<1> SUFFICES ASSUME Init PROVE SoundInv
  OBVIOUS
<1>1. \A t \in Ticker, s \in Side : Sound(t, s)
  BY DEF Init, Sound
<1>2. ASSUME NEW t \in Ticker, NEW s \in Side PROVE KeyInv(t, s)
  BY DEF Init, KeyInv, OwnInv, HonestInv, BalanceInv, FilledFor, InBatch, Executing, Unresolved,
         Open, Nothing
<1> QED BY <1>1, <1>2, RecordInit, GateInit DEF SoundInv, MislinkInv

(* A wrong link stays. *)
LEMMA SoundBefore ==
  ASSUME RecordInv, [Next]_vars, NEW t \in Ticker, NEW s \in Side, Sound(t, s)'
  PROVE  Sound(t, s)
<1> SUFFICES ASSUME NEW o \in OrderId, OfKey(o, t, s), odno[o] # None
             PROVE  bowner[odno[o]] = o
  BY DEF Sound
<1>1. odno[o] \in BrokerId /\ bstate[odno[o]] # "free"
  BY DEF RecordInv, TypeInv, TypeOK, LinkInv
<1>2. odno'[o] = odno[o] /\ bowner'[odno[o]] = bowner[odno[o]]
  BY <1>1, LinksStay, KisKeeps
<1>3. bowner'[odno'[o]] = o
  BY <1>2 DEF Sound, OfKey
<1> QED BY <1>2, <1>3

(* Shares KIS has filled for a row it has filled for good. *)
LEMMA FillsStay ==
  ASSUME RecordInv, [Next]_vars, NEW o \in OrderId, NEW n \in Int, NEW m \in Int,
         FilledFor(o, n), m <= n, m > 0
  PROVE  \E b \in BrokerId : bowner'[b] = o /\ m <= bfilled'[b]
<1> USE ConstantsAssumption DEF RecordInv, TypeInv, TypeOK
<1>1. PICK b \in BrokerId : bowner[b] = o /\ n <= bfilled[b]
  BY DEF FilledFor
<1>2. bstate[b] # "free"
  BY <1>1 DEF LinkInv
<1>3. bowner'[b] = o /\ bfilled[b] <= bfilled'[b]
  BY <1>1, <1>2, KisKeeps
<1>4. bfilled[b] \in Nat /\ bfilled'[b] \in Nat
  BY RecordNext
<1>5. m <= bfilled'[b]
  BY <1>1, <1>3, <1>4
<1> QED BY <1>3, <1>5

(* The order that recovery by side, symbol, quantity and time finds is the row's own,
   or KIS has filled it: every other order of the key is linked or was inferred.  *)
LEMMA MatchedOrder ==
  ASSUME RecordInv, GateInv, NEW t \in Ticker, NEW s \in Side, OwnInv(t, s),
         NEW o \in OrderId, OfKey(o, t, s), status[o] \in Open, NEW b \in Matches(o)
  PROVE  \/ bowner[b] = o
         \/ odno[bowner[b]] = None /\ status[bowner[b]] = "FILLED" /\ bstate[b] = "filled"
<1> USE ConstantsAssumption DEF RecordInv, TypeInv, TypeOK
<1>1. b \in BrokerId /\ b \notin Linked /\ b \in listed /\ SameKey(bowner[b], o)
  BY DEF Matches
<1>2. bowner[b] \in OrderId /\ bowner[b] # None
  BY <1>1 DEF LinkInv
<1>3. odno[bowner[b]] # b
  BY <1>1, <1>2 DEF Linked
<1>4. Owned(bowner[b], b)
  BY <1>1, <1>2 DEF OwnInv, OfKey, SameKey
<1>5. CASE status[bowner[b]] \in {"SUBMITTED", "PARTIAL"}
  BY <1>1, <1>2, <1>5 DEF GateInv, Unresolved, Open
<1> QED BY <1>3, <1>4, <1>5 DEF Owned

(* KIS's order of an unlinked row past its grace period is found, so a row without a
   match was never booked.                                                    *)
LEMMA UnmatchedRow ==
  ASSUME RecordInv, PostInv, NEW t \in Ticker, NEW s \in Side, Sound(t, s),
         NEW o \in OrderId, OfKey(o, t, s), odno[o] = None, GraceElapsed(o), Matches(o) = {}
  PROVE  o \notin wire /\ \A b \in BrokerId : bowner[b] # o
<1> USE ConstantsAssumption DEF RecordInv, TypeInv, TypeOK
<1>1. born[o] # era
  BY DEF GraceElapsed
<1>2. o \notin wire
  BY <1>1 DEF PostInv
<1>3. ASSUME NEW b \in BrokerId, bowner[b] = o PROVE FALSE
  <2>1. b \in listed /\ b # None
    BY <1>1, <1>3 DEF PostInv
  <2>2. ASSUME NEW p \in OrderId, odno[p] = b PROVE FALSE
    <3>1. OfKey(p, t, s)
      BY <1>3, <2>1, <2>2 DEF LinkInv, SameKey, OfKey
    <3> QED BY <1>3, <2>1, <2>2, <3>1 DEF Sound
  <2> QED BY <1>3, <2>1, <2>2 DEF Matches, Linked, SameKey
<1> QED BY <1>2, <1>3

(* A trader's step that writes one row. *)
LEMMA OwnRow ==
  ASSUME RecordInv, NEW t \in Ticker, NEW s \in Side, OwnInv(t, s),
         UNCHANGED <<book, wire>>, NEW o \in OrderId,
         \A p \in OrderId \ {o} : status'[p] = status[p] /\ odno'[p] = odno[p],
         OfKey(o, t, s) =>
           /\ o \in wire => status'[o] = "SUBMITTED" /\ odno'[o] = None
           /\ \A b \in BrokerId : bowner[b] = o => Owned(o, b)'
  PROVE  OwnInv(t, s)'
<1> USE ConstantsAssumption DEF RecordInv, TypeInv, TypeOK
<1>1. \A p \in wire' : OfKey(p, t, s) => status'[p] = "SUBMITTED" /\ odno'[p] = None
  BY DEF OwnInv
<1>2. ASSUME NEW b \in BrokerId, bowner[b] # None, OfKey(bowner[b], t, s)
      PROVE  Owned(bowner[b], b)'
  <2>1. CASE bowner[b] = o
    BY <1>2, <2>1
  <2>2. CASE bowner[b] # o
    <3>1. bowner[b] \in OrderId \ {o} /\ Owned(bowner[b], b)
      BY <1>2, <2>2 DEF OwnInv
    <3> QED BY <3>1 DEF Owned
  <2> QED BY <2>1, <2>2
<1> QED BY <1>1, <1>2 DEF OwnInv

LEMMA OwnReconcile ==
  ASSUME RecordInv, GateInv, PostInv, NEW t \in Ticker, NEW s \in Side, OwnInv(t, s),
         HonestInv(t, s), Sound(t, s), Sound(t, s)', Reconcile
  PROVE  OwnInv(t, s)'
<1> USE ConstantsAssumption, Statuses DEF RecordInv, TypeInv, TypeOK
<1>1. UNCHANGED <<book, wire>>
  BY DEF Reconcile, LinkMatch, RejectNotFound, ReconcilePoll, Defer, InferFromPosition,
         ReconcileDone, PositionsDone, FinishRecord, RecordFails
<1>2. ASSUME NEW o \in OrderId, LinkMatch(o) PROVE OwnInv(t, s)'
  <2>1. PICK b \in BrokerId : Matches(o) = {b} /\ odno' = [odno EXCEPT ![o] = b]
    BY <1>2 DEF LinkMatch
  <2>2. status' = [status EXCEPT ![o] = "ACCEPTED"]
    BY <1>2 DEF LinkMatch
  <2>3. OfKey(o, t, s) => bowner[b] = o
    BY <1>1, <2>1 DEF Sound, OfKey
  <2>4. OfKey(o, t, s) => o \notin wire /\ \A c \in BrokerId : bowner[c] = o => c = b
    BY <2>3 DEF PostInv
  <2> QED BY <1>1, <2>1, <2>2, <2>4, OwnRow DEF Owned
<1>3. ASSUME NEW o \in OrderId, RejectNotFound(o) PROVE OwnInv(t, s)'
  <2>1. status' = [status EXCEPT ![o] = "REJECTED"] /\ UNCHANGED odno
    BY <1>3 DEF RejectNotFound
  <2>2. OfKey(o, t, s) => o \notin wire /\ \A b \in BrokerId : bowner[b] # o
    BY <1>3, UnmatchedRow DEF RejectNotFound
  <2> QED BY <1>1, <2>1, <2>2, OwnRow
<1>4. ASSUME NEW o \in OrderId, o = cur, FinishRecord PROVE OwnInv(t, s)'
  <2>1. /\ pc = "record" /\ status' = [status EXCEPT ![o] = obs.status]
        /\ UNCHANGED odno /\ obs.status \in Open \cup Terminal
    BY <1>4 DEF FinishRecord, StepInv
  <2>2. ASSUME OfKey(o, t, s)
        PROVE  o \notin wire /\ \A b \in BrokerId : bowner[b] = o => Owned(o, b)'
    <3>1. PICK b \in BrokerId : Backed(o, b, obs)
      BY <1>4, <2>1, <2>2 DEF HonestInv
    <3>2. o \notin wire /\ \A c \in BrokerId : bowner[c] = o => c = b
      BY <3>1 DEF Backed, PostInv
    <3>3. Owned(o, b)
      BY <2>2, <3>1 DEF OwnInv, Backed
    <3>4. Owned(o, b)'
      BY <1>1, <2>1, <3>1, <3>3 DEF Owned, Backed
    <3> QED BY <3>2, <3>4
  <2> QED BY <1>1, <2>1, <2>2, OwnRow
<1>5. ASSUME UNCHANGED <<status, odno>> PROVE OwnInv(t, s)'
  BY <1>1, <1>5 DEF OwnInv, Owned
<1> QED
  BY <1>2, <1>3, <1>4, <1>5
     DEF Reconcile, ReconcilePoll, Defer, InferFromPosition, ReconcileDone, PositionsDone,
         FinishRecord, RecordFails, AtOrder

LEMMA OwnExecution ==
  ASSUME RecordInv, PostInv, NEW t \in Ticker, NEW s \in Side, OwnInv(t, s), Execution
  PROVE  OwnInv(t, s)'
<1> USE ConstantsAssumption, Statuses DEF RecordInv, TypeInv, TypeOK, StepInv, AtOrder
<1>1. ASSUME UNCHANGED <<book, wire, status, odno>> PROVE OwnInv(t, s)'
  BY <1>1 DEF OwnInv, Owned
<1>2. ASSUME NEW o \in OrderId, Claim(o) PROVE OwnInv(t, s)'
  <2>1. o \notin wire /\ \A b \in BrokerId : bowner[b] # o
    BY <1>2 DEF Claim, LinkInv
  <2>2. UNCHANGED <<book, wire, odno>> /\ status' = [status EXCEPT ![o] = "PENDING"]
    BY <1>2 DEF Claim
  <2> QED BY <2>1, <2>2, OwnRow
<1>3. ASSUME NEW o \in OrderId, o = cur, MarkSubmitted PROVE OwnInv(t, s)'
  <2>1. o \notin wire /\ \A b \in BrokerId : bowner[b] # o
    BY <1>3 DEF MarkSubmitted, PostInv
  <2>2. UNCHANGED <<book, wire, odno>> /\ status' = [status EXCEPT ![o] = "SUBMITTED"]
    BY <1>3 DEF MarkSubmitted
  <2> QED BY <2>1, <2>2, OwnRow
<1>4. CASE Submit
  <2>1. /\ status[cur] = "SUBMITTED" /\ odno[cur] = None
        /\ wire' = wire \cup {cur} /\ UNCHANGED <<book, status, odno>>
    BY <1>4 DEF Submit
  <2> QED BY <2>1 DEF OwnInv, Owned
<1>5. ASSUME NEW o \in OrderId, o = cur, Rejected PROVE OwnInv(t, s)'
  <2>1. o \notin wire /\ \A b \in BrokerId : bowner[b] # o
    BY <1>5 DEF Rejected, PostInv
  <2>2. UNCHANGED <<book, wire, odno>> /\ status' = [status EXCEPT ![o] = "REJECTED"]
    BY <1>5 DEF Rejected
  <2> QED BY <2>1, <2>2, OwnRow
<1>6. ASSUME NEW o \in OrderId, o = cur, Attach PROVE OwnInv(t, s)'
  <2>1. PICK b \in BrokerId : bowner[b] = o /\ odno' = [odno EXCEPT ![o] = b]
    BY <1>6 DEF Attach
  <2>2. /\ o \notin wire /\ UNCHANGED <<book, wire>>
        /\ status' = [status EXCEPT ![o] = "ACCEPTED"]
    BY <1>6 DEF Attach
  <2>3. \A c \in BrokerId : bowner[c] = o => c = b
    BY <2>1 DEF PostInv
  <2> QED BY <2>1, <2>2, <2>3, OwnRow DEF Owned
<1>7. ASSUME NEW o \in OrderId, o = cur, MarkUnknown PROVE OwnInv(t, s)'
  <2>1. /\ UNCHANGED <<book, wire, odno>> /\ status[o] \in Open
        /\ UNCHANGED status \/ status' = [status EXCEPT ![o] = "SUBMITTED"]
    BY <1>7 DEF MarkUnknown
  <2>2. ASSUME OfKey(o, t, s)
        PROVE  /\ o \in wire => odno[o] = None
               /\ \A b \in BrokerId : bowner[b] = o => odno[o] \in {b, None}
    BY <2>2 DEF OwnInv, Owned
  <2>3. CASE status' = [status EXCEPT ![o] = "SUBMITTED"]
    BY <2>1, <2>2, <2>3, OwnRow DEF Owned
  <2> QED BY <1>1, <2>1, <2>3
<1> QED
  BY <1>1, <1>2, <1>3, <1>4, <1>5, <1>6, <1>7
     DEF Execution, PlanDaily, PlanRisk, Execute, Skip, MarkSubmitted, Rejected, Attach,
         OutcomeUnknown, Poll, PollsExhausted, Infer, NothingInferred, MarkUnknown, Settle

LEMMA OwnBroker ==
  ASSUME RecordInv, PostInv, NEW t \in Ticker, NEW s \in Side, OwnInv(t, s), Broker
  PROVE  OwnInv(t, s)'
<1> USE ConstantsAssumption, Statuses DEF RecordInv, TypeInv, TypeOK
<1>1. UNCHANGED <<status, odno>>
  BY BrokerSteps
<1>2. ASSUME NEW o \in OrderId, BrokerReceive(o) PROVE OwnInv(t, s)'
  <2>1. /\ o \in wire /\ wire' = wire \ {o}
        /\ OfKey(o, t, s) => status[o] = "SUBMITTED" /\ odno[o] = None
    BY <1>2 DEF BrokerReceive, OwnInv
  <2>2. CASE UNCHANGED book
    BY <1>1, <2>1, <2>2 DEF OwnInv, Owned
  <2>3. ASSUME NEW b \in BrokerId, bstate[b] = "free",
               bowner' = [bowner EXCEPT ![b] = o], bstate' = [bstate EXCEPT ![b] = "open"]
        PROVE  OwnInv(t, s)'
    BY <1>1, <2>1, <2>3 DEF OwnInv, Owned
  <2> QED BY <1>2, <2>2, <2>3 DEF BrokerReceive
<1>3. ASSUME UNCHANGED <<wire, bowner>>,
             \A b \in BrokerId : /\ bstate'[b] = "open" => bstate[b] = "open"
                                 /\ bstate[b] = "filled" => bstate'[b] = "filled"
      PROVE  OwnInv(t, s)'
  BY <1>1, <1>3 DEF OwnInv, Owned
<1> QED
  BY <1>2, <1>3 DEF Broker, BrokerList, BrokerFill, BrokerCancel, GracePasses

(* What a report of KIS or an inferred one says, KIS has filled. *)
LEMMA HonestReport ==
  ASSUME RecordInv, NEW t \in Ticker, NEW s \in Side, HonestInv(t, s),
         NEW o \in OrderId, NEW st, NEW n \in Nat, NEW back, BeginRecord(o, st, n, back),
         UNCHANGED <<odno, book>>,
         OfKey(o, t, s) => \E b \in BrokerId : Backed(o, b, [status |-> st, filled |-> n])
  PROVE  HonestInv(t, s)'
<1> USE DEF RecordInv, TypeInv, TypeOK
<1>1. /\ ledger' = [ledger EXCEPT ![o] = IF n > @ THEN n ELSE @]
      /\ cur' = o /\ obs' = [status |-> st, filled |-> n]
  BY DEF BeginRecord
<1>2. \A p \in OrderId : OfKey(p, t, s) => FilledFor(p, ledger'[p])
  BY <1>1 DEF HonestInv, FilledFor, Backed
<1>3. OfKey(o, t, s) => \E b \in BrokerId : Backed(o, b, [status |-> st, filled |-> n])'
  BY DEF Backed
<1>4. \A p \in OrderId : OfKey(p, t, s) => FilledFor(p, ledger[p])'
  BY <1>2 DEF FilledFor
<1>5. OfKey(cur', t, s) => \E b \in BrokerId : Backed(cur, b, obs)'
  BY <1>1, <1>3 DEF Backed
<1> QED BY <1>4, <1>5 DEF HonestInv

(* An inferred report of a complete fill: KIS's order is filled. *)
LEMMA InferredReport ==
  ASSUME RecordInv, PostInv, NEW o \in OrderId, NEW n \in Nat, n > 0, n <= qty[o],
         FilledFor(o, n), NEW st \in {"FILLED", "PARTIAL"}, st = "FILLED" => n = qty[o]
  PROVE  \E b \in BrokerId : Backed(o, b, [status |-> st, filled |-> n])
<1> USE ConstantsAssumption, Statuses DEF RecordInv, TypeInv, TypeOK
<1>1. PICK b \in BrokerId : bowner[b] = o /\ n <= bfilled[b]
  BY DEF FilledFor
<1>2. n = qty[o] => bstate[b] = "filled"
  BY <1>1 DEF LinkInv, PostInv
<1>3. st \in Terminal => st = "FILLED"
  BY DEF Terminal
<1> QED BY <1>1, <1>2, <1>3 DEF Backed

(* A poll under the row's own number. *)
LEMMA HonestPoll ==
  ASSUME RecordInv, PostInv, NEW t \in Ticker, NEW s \in Side, Sound(t, s), HonestInv(t, s),
         NEW o \in OrderId, NEW back, ReadStatus(o, back), UNCHANGED <<odno, book>>
  PROVE  HonestInv(t, s)'
<1> USE ConstantsAssumption DEF RecordInv, TypeInv, TypeOK
<1> DEFINE b == odno[o]
           st == BrokerStatus(b)
<1>1. /\ b \in BrokerId /\ bfilled[b] \in Nat /\ b # None
      /\ BeginRecord(o, st, bfilled[b], back)
  BY PolledReport DEF ReadStatus
<1>2. st \in {"CANCELLED", "FILLED", "PARTIAL", "ACCEPTED"}
  BY StatusTypes
<1>3. bstate[b] # "free"
  BY <1>1 DEF LinkInv
<1>4. st = "CANCELLED" => bstate[b] = "cancelled"
  BY <1>2 DEF BrokerStatus
<1>5. st = "FILLED" => bstate[b] # "cancelled" /\ bfilled[b] >= qty[bowner[b]]
  BY <1>2 DEF BrokerStatus
<1>6. st = "FILLED" => bstate[b] = "filled"
  BY <1>1, <1>3, <1>5 DEF LinkInv
<1>7. OfKey(o, t, s) => bowner[b] = o
  BY <1>1 DEF Sound
<1> HIDE DEF b, st
<1>8. OfKey(o, t, s) => Backed(o, b, [status |-> st, filled |-> bfilled[b]])
  BY <1>1, <1>2, <1>4, <1>6, <1>7 DEF Backed, Terminal, b
<1> QED BY <1>1, <1>8, HonestReport

LEMMA HonestNext ==
  ASSUME RecordInv, GateInv, PostInv, NEW t \in Ticker, NEW s \in Side, Sound(t, s),
         HonestInv(t, s), BalanceInv(t, s), [Next]_vars
  PROVE  HonestInv(t, s)'
<1> USE ConstantsAssumption, Statuses DEF RecordInv, TypeInv, TypeOK, StepInv, AtOrder
<1>1. ASSUME UNCHANGED <<ledger, book>>, pc' # "record" PROVE HonestInv(t, s)'
  BY <1>1 DEF HonestInv, FilledFor
<1>2. ASSUME UNCHANGED <<db, trader>> PROVE HonestInv(t, s)'
  <2>1. \A b \in BrokerId : /\ bfilled[b] <= bfilled'[b] /\ bfilled'[b] \in Nat
                            /\ bowner[b] # None => bowner'[b] = bowner[b]
                            /\ bstate[b] \in {"filled", "cancelled"} => bstate'[b] = bstate[b]
    BY KisKeeps, RecordNext DEF LinkInv
  <2>2. ASSUME NEW o \in OrderId, OfKey(o, t, s) PROVE FilledFor(o, ledger[o])'
    BY <1>2, <2>1, <2>2 DEF HonestInv, FilledFor
  <2>3. ASSUME pc = "record", OfKey(cur, t, s) PROVE \E b \in BrokerId : Backed(cur, b, obs)'
    <3>1. PICK b \in BrokerId : Backed(cur, b, obs)
      BY <2>3 DEF HonestInv
    <3>2. bowner'[b] = cur /\ obs.filled <= bfilled'[b]
      BY <2>1, <2>3, <3>1 DEF Backed
    <3> QED BY <1>2, <2>1, <3>1, <3>2 DEF Backed
  <2> QED BY <1>2, <2>2, <2>3 DEF HonestInv
<1>3. CASE UNCHANGED vars
  BY <1>2, <1>3 DEF vars
<1>4. CASE Broker
  BY <1>2, <1>4, BrokerSteps
<1>5. CASE Cycle
  BY <1>1, <1>5 DEF Cycle, StartCycle, StartLiquidation, Crash, PauseOrders, EndCycle,
                    ResetTrader
<1>6. CASE Reconcile
  <2>1. ASSUME NEW o \in OrderId, ReconcilePoll(o) PROVE HonestInv(t, s)'
    BY <2>1, HonestPoll DEF ReconcilePoll
  <2>2. ASSUME NEW o \in OrderId, InferFromPosition(o) PROVE HonestInv(t, s)'
    <3> DEFINE h == snap[o.ticker]
               st == IF h = 0 THEN "FILLED" ELSE "PARTIAL"
    <3>1. CASE h >= qty[o]
      BY <1>1, <2>2, <3>1 DEF InferFromPosition
    <3>2. CASE ~(h >= qty[o])
      <4>1. /\ BeginRecord(o, st, qty[o] - h, "positions") /\ UNCHANGED <<odno, book>>
            /\ pc = "positions" /\ o \in work
        BY <2>2, <3>2 DEF InferFromPosition
      <4>2. h \in Nat /\ qty[o] - h \in Nat /\ qty[o] - h > 0 /\ qty[o] - h <= qty[o]
        BY <3>2, OrderFields
      <4>3. o.side = "SELL" /\ status[o] \in Unresolved
        BY <4>1 DEF GateInv
      <4>4. OfKey(o, t, s) => FilledFor(o, qty[o] - h)
        BY <4>1, <4>3 DEF BalanceInv, OfKey, Reconciling
      <4>5. st \in {"FILLED", "PARTIAL"} /\ (st = "FILLED" => qty[o] - h = qty[o])
        BY <4>2
      <4>6. OfKey(o, t, s) => \E b \in BrokerId : Backed(o, b, [status |-> st, filled |-> qty[o] - h])
        BY <4>2, <4>4, <4>5, InferredReport
      <4> HIDE DEF st, h
      <4> QED BY <4>1, <4>2, <4>6, HonestReport
    <3> QED BY <3>1, <3>2
  <2> QED
    BY <1>1, <1>6, <2>1, <2>2
       DEF Reconcile, LinkMatch, RejectNotFound, Defer, ReconcileDone, PositionsDone,
           FinishRecord, RecordFails
<1>7. CASE Execution
  <2>1. CASE Poll
    BY <2>1, HonestPoll DEF Poll
  <2>2. ASSUME NEW o \in OrderId, o = cur, Infer PROVE HonestInv(t, s)'
    <3> DEFINE n == InferredFill(o)
               st == IF n >= qty[o] THEN "FILLED" ELSE "PARTIAL"
               back == IF pc = "infer" THEN "infer" ELSE "fallback"
    <3>1. /\ n > 0 /\ BeginRecord(o, st, n, back) /\ UNCHANGED <<odno, book>>
          /\ pc \in {"infer", "unknown"}
      BY <2>2 DEF Infer
    <3>2. /\ n \in Int /\ n <= qty[o]
          /\ OfKey(o, t, s) => n <= Moved(t, s)
      BY OrderFields DEF InferredFill, Moved, OfKey
    <3>3. Moved(t, s) \in Int
      BY DEF Moved
    <3>4. OfKey(o, t, s) => FilledFor(o, Moved(t, s))
      BY <2>2, <3>1 DEF BalanceInv, Executing
    <3>5. st \in {"FILLED", "PARTIAL"} /\ (st = "FILLED" => n = qty[o])
      BY <3>2
    <3> HIDE DEF n, st, back
    <3>6. n \in Nat /\ (OfKey(o, t, s) => FilledFor(o, n))
      BY <3>1, <3>2, <3>3, <3>4 DEF FilledFor
    <3>7. OfKey(o, t, s) => \E b \in BrokerId : Backed(o, b, [status |-> st, filled |-> n])
      BY <3>1, <3>2, <3>5, <3>6, InferredReport
    <3> QED BY <3>1, <3>2, <3>7, HonestReport
  <2> QED
    BY <1>1, <1>7, <2>1, <2>2
       DEF Execution, PlanDaily, PlanRisk, Execute, Skip, IsNext, Claim, MarkSubmitted, Submit,
           Rejected, Attach, OutcomeUnknown, PollsExhausted, Infer, NothingInferred,
           MarkUnknown, Settle
<1> QED BY <1>3, <1>4, <1>5, <1>6, <1>7 DEF Next

(* Where the balance of the cycle's start and that of the batch come from. *)
LEMMA StageSteps ==
  ASSUME RecordInv, [Next]_vars
  PROVE  /\ Reconciling' => \/ Reconciling /\ UNCHANGED snap
                            \/ snap' = held /\ UNCHANGED status
         /\ InBatch' => (InBatch /\ UNCHANGED live) \/ Execute
         /\ Executing' => (Executing /\ UNCHANGED cur) \/ \E o \in OrderId : Claim(o)
<1> USE DEF Reconciling, InBatch, Executing
<1>1. CASE UNCHANGED trader
  BY <1>1
<1>2. CASE Cycle
  BY <1>2 DEF Cycle, StartCycle, StartLiquidation, Crash, PauseOrders, EndCycle, ResetTrader
<1>3. CASE Reconcile
  BY <1>3 DEF Reconcile, LinkMatch, RejectNotFound, ReconcilePoll, Defer, InferFromPosition,
              ReconcileDone, PositionsDone, FinishRecord, RecordFails, ReadStatus, BeginRecord
<1>4. CASE Execution
  BY <1>4 DEF Execution, PlanDaily, PlanRisk, Execute, Skip, IsNext, Claim, MarkSubmitted,
              Submit, Rejected, Attach, OutcomeUnknown, Poll, PollsExhausted, Infer,
              NothingInferred, MarkUnknown, Settle, ReadStatus, BeginRecord
<1> QED BY <1>1, <1>2, <1>3, <1>4, BrokerSteps DEF Next, vars

LEMMA BalanceTrader ==
  ASSUME LiquidationReason = {}, RecordInv, NEW t \in Ticker, NEW s \in Side,
         BalanceInv(t, s), [Next]_vars, UNCHANGED book
  PROVE  BalanceInv(t, s)'
<1> USE Statuses DEF RecordInv, TypeInv, TypeOK
<1>1. ASSUME NEW o \in OrderId, Claim(o)
      PROVE  /\ plan[o] > 0 /\ InBatch /\ UNCHANGED live /\ ~Reconciling' /\ cur' = o
             /\ OfKey(o, t, s) => Moved(t, s) <= 0
             /\ o.side = "SELL" => qty'[o] <= live[o.ticker]
  <2>1. /\ plan[o] > 0 /\ InBatch /\ UNCHANGED live /\ ~Reconciling' /\ cur' = o
    BY <1>1 DEF Claim, IsNext, InBatch, Reconciling
  <2>2. PICK q \in OrderQty(o) : qty' = [qty EXCEPT ![o] = q]
    BY <1>1 DEF Claim
  <2>3. o.side = "SELL" => q <= live[o.ticker]
    BY <2>2, OrderFields DEF OrderQty
  <2> QED BY <2>1, <2>2, <2>3 DEF BalanceInv
<1>2. ASSUME NEW o \in OrderId, OfKey(o, t, s), s = "SELL", status'[o] \in Unresolved
      PROVE  /\ FilledFor(o, qty'[o] - held[t])
             /\ Reconciling' => FilledFor(o, qty'[o] - snap'[t])
  <2>1. CASE Claim(o)
    <3>1. live[t] <= held[t] /\ qty'[o] <= live[t] /\ qty'[o] \in Nat
      BY <1>1, <1>2, <2>1, TypeNext DEF Moved, OfKey
    <3> QED BY <1>1, <2>1, <3>1 DEF FilledFor
  <2>2. CASE status[o] \in Unresolved /\ qty'[o] = qty[o]
    BY <1>2, <2>2, StageSteps DEF BalanceInv
  <2> QED BY <1>2, <2>1, <2>2, RowSteps DEF RowStep
<1>3. ASSUME NEW o \in OrderId, OfKey(o, t, s), InBatch', plan'[o] > 0
      PROVE  Moved(t, s)' <= 0
  <2>1. CASE Execute
    BY <2>1 DEF Execute, Moved
  <2>2. CASE InBatch /\ UNCHANGED live
    <3>1. plan[o] > 0
      BY <1>3, <2>2, PlanSteps DEF PlanDaily, PlanRisk, InBatch, Executing
    <3> QED BY <1>3, <2>2, <3>1 DEF BalanceInv, Moved
  <2> QED BY <1>3, <2>1, <2>2, StageSteps
<1>4. ASSUME NEW o \in OrderId, OfKey(o, t, s), Executing', o = cur'
      PROVE  FilledFor(o, Moved(t, s))'
  <2>1. UNCHANGED live
    BY <1>4, StageSteps DEF InBatch, Execute, Executing
  <2>2. Moved(t, s)' = Moved(t, s) /\ Moved(t, s) \in Int
    BY <2>1 DEF Moved
  <2>3. CASE Claim(o)
    BY <1>1, <1>4, <2>2, <2>3 DEF FilledFor
  <2>4. CASE Executing /\ UNCHANGED cur
    BY <1>4, <2>2, <2>4 DEF BalanceInv, FilledFor
  <2> QED BY <1>1, <1>4, <2>3, <2>4, StageSteps
<1>5. ASSUME NEW o \in OrderId, OfKey(o, t, s), s = "SELL", status'[o] \in Unresolved
      PROVE  FilledFor(o, qty[o] - held[t])' /\ (Reconciling' => FilledFor(o, qty[o] - snap[t])')
  BY <1>2, <1>5 DEF FilledFor
<1> QED BY <1>3, <1>4, <1>5 DEF BalanceInv

(* A fill for the key: the order is the current or the only unresolved one, and no
   other is planned; its row has one more share filled and the account has moved by
   one more.  Every other step of KIS moves the balance the other way, if at all. *)
LEMMA BalanceBroker ==
  ASSUME RecordInv, GateInv, PostInv, NEW t \in Ticker, NEW s \in Side, OwnInv(t, s),
         BalanceInv(t, s), Broker
  PROVE  BalanceInv(t, s)'
<1> USE Statuses, ConstantsAssumption DEF RecordInv, TypeInv, TypeOK
<1>1. UNCHANGED <<db, trader>>
  BY BrokerSteps
<1>2. [Next]_vars
  BY DEF Next
<1>3. UNCHANGED <<Reconciling, Executing, InBatch>>
  BY <1>1 DEF Reconciling, Executing, InBatch
<1>4. held' \in [Ticker -> Nat] /\ Moved(t, s) \in Int /\ Moved(t, s)' \in Int
  BY <1>1, <1>2, TypeNext DEF Moved
<1>5. CASE Moved(t, s)' <= Moved(t, s)
  <2>1. s = "SELL" => held[t] <= held'[t]
    BY <1>1, <1>4, <1>5 DEF Moved
  <2>2. ASSUME NEW o \in OrderId, NEW n \in Int, NEW m \in Int, FilledFor(o, n), m <= n
        PROVE  m > 0 => \E b \in BrokerId : bowner'[b] = o /\ m <= bfilled'[b]
    BY <1>2, <2>2, FillsStay
  <2>3. ASSUME NEW o \in OrderId, OfKey(o, t, s), s = "SELL", status[o] \in Unresolved
        PROVE  /\ FilledFor(o, qty[o] - held[t])'
               /\ Reconciling => FilledFor(o, qty[o] - snap[t])'
    <3> DEFINE n == qty[o] - held[t]
               m == qty[o] - held'[t]
               k == qty[o] - snap[t]
    <3>1. FilledFor(o, n) /\ (Reconciling => FilledFor(o, k))
      BY <2>3 DEF BalanceInv
    <3>2. n \in Int /\ m \in Int /\ k \in Int /\ m <= n /\ k <= k
      BY <1>4, <2>1, <2>3
    <3> HIDE DEF n, m, k
    <3>3. /\ m > 0 => \E b \in BrokerId : bowner'[b] = o /\ m <= bfilled'[b]
          /\ Reconciling /\ k > 0 => \E b \in BrokerId : bowner'[b] = o /\ k <= bfilled'[b]
      BY <2>2, <3>1, <3>2
    <3> QED BY <1>1, <3>3 DEF FilledFor, m, k
  <2>4. ASSUME NEW o \in OrderId, OfKey(o, t, s), Executing, o = cur
        PROVE  FilledFor(o, Moved(t, s))'
    <3>1. FilledFor(o, Moved(t, s))
      BY <2>4 DEF BalanceInv
    <3> QED BY <1>4, <1>5, <2>2, <3>1 DEF FilledFor
  <2>5. ASSUME NEW o \in OrderId, OfKey(o, t, s), InBatch, plan[o] > 0
        PROVE  Moved(t, s)' <= 0
    <3>1. Moved(t, s) <= 0
      BY <2>5 DEF BalanceInv
    <3> QED BY <1>4, <1>5, <3>1
  <2> QED BY <1>1, <1>3, <2>3, <2>4, <2>5 DEF BalanceInv
<1>6. ASSUME NEW b \in BrokerId, BrokerFill(b), OfKey(bowner[b], t, s) PROVE BalanceInv(t, s)'
  <2> DEFINE p == bowner[b]
  <2>1. /\ p \in OrderId /\ p # None /\ bowner' = bowner
        /\ bfilled' = [bfilled EXCEPT ![b] = @ + 1] /\ bstate[b] = "open"
        /\ held' = [held EXCEPT ![t] = IF s = "BUY" THEN @ + 1 ELSE @ - 1]
    BY <1>6 DEF BrokerFill, OfKey
  <2>2. status[p] \in Open
    BY <1>6, <2>1 DEF OwnInv, Owned
  <2>3. ASSUME NEW o \in OrderId, OfKey(o, t, s), status[o] \in Unresolved PROVE o = p
    BY <1>6, <2>1, <2>2, <2>3 DEF GateInv, SameKey, OfKey
  <2>4. ASSUME NEW n \in Int, NEW m \in Int, FilledFor(p, n), m <= n + 1
        PROVE  m > 0 => \E c \in BrokerId : bowner'[c] = p /\ m <= bfilled'[c]
    <3>1. n <= 0 \/ n <= bfilled[b]
      BY <2>1, <2>4 DEF FilledFor, PostInv
    <3>2. bfilled'[b] = bfilled[b] + 1 /\ bfilled[b] \in Nat
      BY <2>1
    <3>3. m <= bfilled'[b] \/ m <= 0
      BY <2>4, <3>1, <3>2
    <3> QED BY <2>1, <3>3
  <2>5. Moved(t, s)' = Moved(t, s) + 1 /\ (s = "SELL" => held'[t] = held[t] - 1)
    BY <1>1, <1>4, <2>1 DEF Moved, Side
  <2> HIDE DEF p
  <2>6. ASSUME NEW o \in OrderId, OfKey(o, t, s), s = "SELL", status[o] \in Unresolved
        PROVE  /\ FilledFor(o, qty[o] - held[t])'
               /\ Reconciling => FilledFor(o, qty[o] - snap[t])'
    <3> DEFINE n == qty[o] - held[t]
               m == qty[o] - held'[t]
               k == qty[o] - snap[t]
    <3>1. o = p /\ FilledFor(p, n) /\ (Reconciling => FilledFor(p, k))
      BY <2>3, <2>6 DEF BalanceInv
    <3>2. n \in Int /\ m \in Int /\ k \in Int /\ m <= n + 1 /\ k <= k + 1
      BY <1>4, <2>5, <2>6
    <3> HIDE DEF n, m, k
    <3>3. /\ m > 0 => \E c \in BrokerId : bowner'[c] = p /\ m <= bfilled'[c]
          /\ Reconciling /\ k > 0 => \E c \in BrokerId : bowner'[c] = p /\ k <= bfilled'[c]
      BY <2>4, <3>1, <3>2
    <3> QED BY <1>1, <3>1, <3>3 DEF FilledFor, m, k
  <2>7. ASSUME NEW o \in OrderId, OfKey(o, t, s), Executing, o = cur
        PROVE  FilledFor(o, Moved(t, s))'
    <3>1. status[o] \in Unresolved
      BY <2>7 DEF StepInv, Executing
    <3>2. o = p /\ FilledFor(p, Moved(t, s))
      BY <2>3, <2>7, <3>1 DEF BalanceInv
    <3>3. Moved(t, s)' > 0 => \E c \in BrokerId : bowner'[c] = p /\ Moved(t, s)' <= bfilled'[c]
      BY <1>4, <2>4, <2>5, <3>2
    <3> QED BY <3>2, <3>3 DEF FilledFor
  <2>8. ASSUME NEW o \in OrderId, OfKey(o, t, s), plan[o] > 0 PROVE FALSE
    BY <1>6, <2>1, <2>2, <2>8 DEF GateInv, PlanInv, SameKey, OfKey, p
  <2> QED BY <1>1, <1>3, <2>6, <2>7, <2>8 DEF BalanceInv
<1>7. ASSUME NEW b \in BrokerId, BrokerFill(b), ~OfKey(bowner[b], t, s)
      PROVE  Moved(t, s)' <= Moved(t, s)
  <2>1. /\ bowner[b] \in OrderId
        /\ held' = [held EXCEPT ![bowner[b].ticker] = IF bowner[b].side = "BUY" THEN @ + 1 ELSE @ - 1]
    BY <1>7 DEF BrokerFill
  <2>2. bowner[b].ticker # t \/ bowner[b].side # s
    BY <1>7 DEF OfKey
  <2>3. bowner[b].side \in Side
    BY <2>1, OrderFields
  <2> QED BY <1>1, <2>1, <2>2, <2>3 DEF Moved, Side
<1>8. ASSUME UNCHANGED held PROVE Moved(t, s)' <= Moved(t, s)
  BY <1>1, <1>4, <1>8 DEF Moved
<1> QED
  BY <1>5, <1>6, <1>7, <1>8 DEF Broker, BrokerReceive, BrokerList, BrokerCancel, GracePasses

(* The number of another row's order can only be that of a filled one. *)
LEMMA MislinkNext ==
  ASSUME SoundInv, [Next]_vars
  PROVE  MislinkInv'
<1> USE ConstantsAssumption DEF SoundInv, RecordInv, TypeInv, TypeOK
<1>1. SUFFICES ASSUME NEW t \in Ticker, NEW s \in Side, ~ Sound(t, s)'
               PROVE  \E b \in BrokerId : bstate'[b] = "filled" /\ OfKey(bowner'[b], t, s)
  BY DEF MislinkInv
<1>2. ASSUME NEW b \in BrokerId, bstate[b] = "filled", OfKey(bowner[b], t, s)
      PROVE  bstate'[b] = "filled" /\ OfKey(bowner'[b], t, s)
  BY <1>2, KisKeeps
<1>3. SUFFICES ASSUME Sound(t, s)
               PROVE  \E b \in BrokerId : bstate[b] = "filled" /\ OfKey(bowner[b], t, s)
  BY <1>1, <1>2, <1>3 DEF MislinkInv
<1>4. PICK o \in OrderId : OfKey(o, t, s) /\ odno'[o] # None /\ bowner'[odno'[o]] # o
  BY <1>1 DEF Sound
<1>5. odno'[o] # odno[o]
  <2> SUFFICES ASSUME odno'[o] = odno[o] PROVE FALSE
    OBVIOUS
  <2>1. odno[o] \in BrokerId /\ bstate[odno[o]] # "free" /\ bowner[odno[o]] = o
    BY <1>3, <1>4 DEF LinkInv, Sound
  <2> QED BY <1>4, <2>1, KisKeeps
<1>6. PICK b \in BrokerId : /\ odno'[o] = b /\ status[o] \in Open /\ UNCHANGED kis
                            /\ bowner[b] = o \/ Matches(o) = {b}
  BY <1>5, LinkSteps
<1>7. bowner[b] # o /\ b \in Matches(o)
  BY <1>4, <1>6
<1>8. bstate[b] = "filled"
  BY <1>3, <1>4, <1>6, <1>7, MatchedOrder DEF KeyInv
<1> QED BY <1>4, <1>7, <1>8 DEF Matches, SameKey, OfKey

LEMMA SoundNext ==
  ASSUME LiquidationReason = {}
  PROVE  SoundInv /\ [Next]_vars => SoundInv'
<1> SUFFICES ASSUME SoundInv, [Next]_vars PROVE SoundInv'
  OBVIOUS
<1>1. RecordInv' /\ GateInv' /\ PostInv' /\ MislinkInv'
  BY RecordNext, GateNext, PostNext, MislinkNext DEF SoundInv
<1>2. ASSUME NEW t \in Ticker, NEW s \in Side, Sound(t, s)' PROVE KeyInv(t, s)'
  <2>1. /\ RecordInv /\ GateInv /\ PostInv /\ Sound(t, s)
        /\ OwnInv(t, s) /\ HonestInv(t, s) /\ BalanceInv(t, s)
    BY <1>2, SoundBefore DEF SoundInv, KeyInv
  <2>2. HonestInv(t, s)'
    BY <2>1, HonestNext
  <2>3. CASE Broker
    BY <2>1, <2>2, <2>3, OwnBroker, BalanceBroker DEF KeyInv
  <2>4. CASE Cycle \/ Reconcile \/ Execution \/ UNCHANGED vars
    <3>1. BalanceInv(t, s)'
      BY <2>1, <2>4, TraderSteps, BalanceTrader DEF vars
    <3>2. CASE Cycle \/ UNCHANGED vars
      <4>1. UNCHANGED <<db, kis>>
        BY <3>2 DEF Cycle, StartCycle, StartLiquidation, Crash, PauseOrders, EndCycle, vars
      <4>2. OwnInv(t, s)'
        BY <2>1, <4>1 DEF OwnInv, Owned
      <4> QED BY <2>2, <3>1, <4>2 DEF KeyInv
    <3>3. CASE Reconcile
      BY <1>2, <2>1, <2>2, <3>1, <3>3, OwnReconcile DEF KeyInv
    <3>4. CASE Execution
      BY <2>1, <2>2, <3>1, <3>4, OwnExecution DEF KeyInv
    <3> QED BY <2>4, <3>2, <3>3, <3>4
  <2> QED BY <2>3, <2>4 DEF Next
<1> QED BY <1>1, <1>2 DEF SoundInv

(* The safety part of the invariant, as a fact about states. *)
LEMMA SoundIsSafe == SoundInv => SafeUnlessMislinked
<1> SUFFICES ASSUME SoundInv, LinkedToOwner PROVE SingleLiveOrder /\ LiveOrderTracked
  BY DEF SafeUnlessMislinked
<1> USE ConstantsAssumption DEF SoundInv, RecordInv, TypeInv, TypeOK
<1>1. ASSUME NEW b \in BrokerId, bstate[b] = "open" PROVE status[bowner[b]] \in Open
  <2> DEFINE o == bowner[b]
  <2>1. o \in OrderId /\ o # None /\ o.ticker \in Ticker /\ o.side \in Side
    BY <1>1, OrderFields
  <2>2. OfKey(o, o.ticker, o.side) /\ OwnInv(o.ticker, o.side)
    BY <2>1 DEF LinkedToOwner, Sound, KeyInv, OfKey
  <2> QED BY <1>1, <2>1, <2>2 DEF OwnInv, Owned
<1>2. SingleLiveOrder
  BY <1>1, Statuses DEF SingleLiveOrder, GateInv, PostInv
<1> QED BY <1>1, <1>2 DEF LiveOrderTracked

(* On either account, without operator liquidations: as long as no recovery has linked
   another row's order, KIS never works on two orders of one symbol and side, and
   every order it works on has a row that reconciliation selects; whatever is lost,
   late, inferred from balances or crashed.                                   *)
THEOREM OrdersAreSafeUnlessMislinked ==
  ASSUME LiquidationReason = {}
  PROVE  Spec => []SafeUnlessMislinked
BY SoundIsSafe, SoundInit, SoundNext, PTL DEF Spec

LEMMA SoundLedger ==
  ASSUME SoundInv, LinkedToOwner, NEW o \in OrderId
  PROVE  FilledFor(o, ledger[o])
<1>1. o.ticker \in Ticker /\ o.side \in Side
  BY OrderFields
<1>2. Sound(o.ticker, o.side)
  BY DEF LinkedToOwner, Sound
<1>3. HonestInv(o.ticker, o.side)
  BY <1>1, <1>2 DEF SoundInv, KeyInv
<1> QED BY <1>3 DEF HonestInv, OfKey

(* On either account, without operator liquidations, the execution ledger books no
   share that KIS has not filled for that order, be it polled or inferred from a
   balance, until a recovery links another row's order.                       *)
THEOREM LedgerIsBacked ==
  ASSUME LiquidationReason = {}
  PROVE  Spec => []LedgerNotAhead
<1>1. SoundInv => LedgerNotAhead
  BY SoundLedger DEF LedgerNotAhead, FilledFor
<1> QED BY <1>1, SoundInit, SoundNext, PTL DEF Spec

LEMMA SoundFilled == SoundInv /\ LinkedToOwner => FilledAtBroker
<1> SUFFICES ASSUME SoundInv, LinkedToOwner, NEW o \in OrderId, status[o] = "FILLED"
             PROVE  \E b \in BrokerId : bowner[b] = o /\ bfilled[b] >= qty[o]
  BY DEF FilledAtBroker
<1> USE DEF SoundInv, RecordInv, TypeInv, TypeOK
<1>1. ledger[o] = qty[o] /\ qty[o] > 0
  BY DEF BookedInv, FilledMeansBooked, StepInv
<1>2. PICK b \in BrokerId : bowner[b] = o /\ qty[o] <= bfilled[b]
  BY <1>1, SoundLedger DEF FilledFor
<1> QED BY <1>2

(* On either account, without operator liquidations, KIS has filled what is FILLED,
   until a recovery links another row's order.                                *)
THEOREM FilledUnlessMislinked ==
  ASSUME LiquidationReason = {}
  PROVE  Spec => [](LinkedToOwner => FilledAtBroker)
BY SoundFilled, SoundInit, SoundNext, PTL DEF Spec

-----------------------------------------------------------------------------
(* The REAL account: what is recorded was polled, and recovery adopts no other row's
   order, since no row is FILLED without a number.                            *)

(* Nothing is inferred, and what is recorded was polled under the row's number. *)
PolledInv ==
  /\ pc \notin {"positions", "infer"}
  /\ pc = "record" => ret \in {"reconcile", "poll"} /\ odno[cur] # None
  /\ \A o \in OrderId : ledger[o] > 0 => odno[o] # None /\ ledger[o] <= bfilled[odno[o]]

LEMMA PolledInit == Init => PolledInv
BY DEF Init, PolledInv, Nothing

LEMMA PolledNext ==
  ASSUME ~IsMock
  PROVE  RecordInv /\ PolledInv /\ [Next]_vars => PolledInv'
<1> SUFFICES ASSUME RecordInv, PolledInv, [Next]_vars PROVE PolledInv'
  OBVIOUS
<1> USE ConstantsAssumption DEF RecordInv, TypeInv, TypeOK, AtOrder
<1>1. ASSUME NEW o \in OrderId, odno[o] # None
      PROVE  odno'[o] = odno[o] /\ bfilled[odno[o]] <= bfilled'[odno[o]]
             /\ odno[o] \in BrokerId
  BY <1>1, LinksStay, KisKeeps
<1>2. RecordInv'
  BY RecordNext
<1>3. ASSUME UNCHANGED ledger, pc' \notin {"positions", "infer", "record"} PROVE PolledInv'
  <2>1. ASSUME NEW o \in OrderId, ledger[o] > 0
        PROVE  odno'[o] # None /\ ledger[o] <= bfilled'[odno'[o]]
    <3>1. odno[o] # None /\ ledger[o] <= bfilled[odno[o]]
      BY <2>1 DEF PolledInv
    <3> QED BY <1>1, <1>2, <3>1
  <2> QED BY <1>3, <2>1 DEF PolledInv
<1>4. ASSUME UNCHANGED <<ledger, pc, cur, ret, odno>> PROVE PolledInv'
  <2>1. ASSUME NEW o \in OrderId, ledger[o] > 0
        PROVE  odno'[o] # None /\ ledger[o] <= bfilled'[odno'[o]]
    <3>1. odno[o] # None /\ ledger[o] <= bfilled[odno[o]]
      BY <2>1 DEF PolledInv
    <3> QED BY <1>1, <1>2, <1>4, <3>1
  <2> QED BY <1>4, <2>1 DEF PolledInv
<1>5. ASSUME NEW o \in OrderId, NEW back \in {"reconcile", "poll"}, ReadStatus(o, back),
             UNCHANGED <<odno, bfilled>>
      PROVE  PolledInv'
  <2>1. odno[o] \in BrokerId /\ odno[o] # None /\ bfilled[odno[o]] \in Nat
    BY <1>5 DEF ReadStatus
  <2>2. /\ cur' = o /\ pc' = "record" /\ ret' = back
        /\ ledger' = [ledger EXCEPT ![o] = IF bfilled[odno[o]] > @ THEN bfilled[odno[o]] ELSE @]
    BY <1>5, ReportRead
  <2>3. ledger'[o] = ledger[o] \/ ledger'[o] = bfilled[odno[o]]
    BY <2>2
  <2> QED BY <1>5, <2>1, <2>2, <2>3 DEF PolledInv
<1>6. CASE UNCHANGED vars
  BY <1>4, <1>6 DEF vars
<1>7. CASE Broker
  BY <1>4, <1>7 DEF Broker, BrokerReceive, BrokerList, BrokerFill, BrokerCancel, GracePasses
<1>8. CASE Cycle
  BY <1>3, <1>8 DEF Cycle, StartCycle, StartLiquidation, Crash, PauseOrders, EndCycle,
                    ResetTrader
<1>9. CASE Reconcile
  <2>1. ASSUME NEW o \in OrderId, ReconcilePoll(o) PROVE PolledInv'
    BY <1>5, <2>1 DEF ReconcilePoll
  <2>2. ASSUME NEW o \in OrderId, InferFromPosition(o) PROVE FALSE
    BY <2>2 DEF InferFromPosition, PolledInv
  <2>3. CASE PositionsDone
    BY <2>3 DEF PositionsDone, PolledInv
  <2>4. CASE FinishRecord
    BY <1>3, <2>4 DEF FinishRecord, PolledInv
  <2> QED
    BY <1>3, <1>9, <2>1, <2>2, <2>3, <2>4
       DEF Reconcile, LinkMatch, RejectNotFound, Defer, ReconcileDone, RecordFails
<1>10. CASE Execution
  <2>1. CASE Poll
    BY <1>5, <2>1 DEF Poll
  <2>2. CASE Infer \/ NothingInferred
    BY <2>2 DEF Infer, NothingInferred, PolledInv
  <2> QED
    BY <1>3, <1>10, <2>1, <2>2
       DEF Execution, PlanDaily, PlanRisk, Execute, Skip, IsNext, Claim, MarkSubmitted,
           Submit, Rejected, Attach, OutcomeUnknown, PollsExhausted, MarkUnknown, Settle
<1> QED BY <1>6, <1>7, <1>8, <1>9, <1>10 DEF Next

(* On the REAL account, with operator liquidations, the ledger never books shares
   that KIS has not filled for the row, until a recovery has linked a wrong order
   (RecoveryFindsItsOwn: never, when no operator liquidates).                 *)
THEOREM RealLedgerNotAhead ==
  ASSUME ~IsMock
  PROVE  Spec => []LedgerNotAhead
<1>1. RecordInv /\ PolledInv => LedgerNotAhead
  <2> SUFFICES ASSUME RecordInv, PolledInv, LinkedToOwner, NEW o \in OrderId, ledger[o] > 0
               PROVE  \E b \in BrokerId : bowner[b] = o /\ ledger[o] <= bfilled[b]
    BY DEF LedgerNotAhead
  <2>1. odno[o] \in BrokerId /\ bowner[odno[o]] = o /\ ledger[o] <= bfilled[odno[o]]
    BY DEF PolledInv, LinkedToOwner, RecordInv, TypeInv, TypeOK
  <2> QED BY <2>1
<1> QED BY <1>1, RecordInit, RecordNext, PolledInit, PolledNext, PTL DEF Spec

LEMMA FilledIsLinked ==
  ASSUME RecordInv, PolledInv, NEW o \in OrderId, status[o] = "FILLED"
  PROVE  odno[o] # None /\ qty[o] <= bfilled[odno[o]]
BY DEF RecordInv, TypeInv, TypeOK, BookedInv, FilledMeansBooked, StepInv, PolledInv

LEMMA OwnLinksInit == Init => LinkedToOwner
BY DEF Init, LinkedToOwner

LEMMA OwnLinksNext == SoundInv /\ PolledInv /\ LinkedToOwner /\ [Next]_vars => LinkedToOwner'
<1> SUFFICES ASSUME SoundInv, PolledInv, LinkedToOwner, [Next]_vars,
                    NEW o \in OrderId, odno'[o] # None
             PROVE  bowner'[odno'[o]] = o
  BY DEF LinkedToOwner
<1> USE ConstantsAssumption DEF SoundInv, RecordInv, TypeInv, TypeOK
<1>1. CASE odno'[o] = odno[o]
  <2>1. odno[o] \in BrokerId /\ bstate[odno[o]] # "free" /\ bowner[odno[o]] = o
    BY <1>1 DEF LinkInv, LinkedToOwner
  <2> QED BY <1>1, <2>1, KisKeeps
<1>2. CASE odno'[o] # odno[o]
  <2>1. PICK b \in BrokerId : /\ odno'[o] = b /\ status[o] \in Open /\ UNCHANGED kis
                              /\ bowner[b] = o \/ Matches(o) = {b}
    BY <1>2, LinkSteps
  <2>2. CASE b \in Matches(o)
    <3>1. OfKey(o, o.ticker, o.side) /\ OwnInv(o.ticker, o.side)
      BY OrderFields DEF LinkedToOwner, Sound, KeyInv, OfKey
    <3>2. /\ bowner[b] \in OrderId
          /\ bowner[b] = o \/ (odno[bowner[b]] = None /\ status[bowner[b]] = "FILLED")
      BY <2>1, <2>2, <3>1, MatchedOrder, OrderFields DEF Matches, LinkInv
    <3> QED BY <2>1, <3>2, FilledIsLinked
  <2> QED BY <2>1, <2>2
<1> QED BY <1>1, <1>2

(* On the REAL account, without operator liquidations: KIS never works on two
   orders of one symbol and side, every order KIS works on has a row that
   reconciliation selects, and recovery never links another row's order; for
   every number of symbols, order numbers, attempts, shares and grace periods. *)
THEOREM RealOrdersAreSafe ==
  ASSUME ~IsMock, LiquidationReason = {}
  PROVE  Spec => [](SingleLiveOrder /\ LiveOrderTracked /\ LinkedToOwner)
<1>1. SoundInv /\ LinkedToOwner => SingleLiveOrder /\ LiveOrderTracked
  BY SoundIsSafe DEF SafeUnlessMislinked
<1>2. SoundInv => RecordInv
  BY DEF SoundInv
<1> QED
  BY <1>1, <1>2, SoundInit, SoundNext, PolledInit, PolledNext, OwnLinksInit, OwnLinksNext,
     PTL DEF Spec

(* The second part alone: on the REAL account no live KIS order is forgotten. *)
THEOREM LiveOrdersAreTracked ==
  ASSUME ~IsMock, LiquidationReason = {}
  PROVE  Spec => []LiveOrderTracked
<1>1. Spec => [](SingleLiveOrder /\ LiveOrderTracked /\ LinkedToOwner) BY RealOrdersAreSafe
<1> QED BY <1>1, PTL

(* The third part alone: recovery on the REAL account never adopts another's order. *)
THEOREM RecoveryFindsItsOwn ==
  ASSUME ~IsMock, LiquidationReason = {}
  PROVE  Spec => []LinkedToOwner
<1>1. Spec => [](SingleLiveOrder /\ LiveOrderTracked /\ LinkedToOwner) BY RealOrdersAreSafe
<1> QED BY <1>1, PTL

(* The design's fourth safety invariant holds on the REAL account, without operator
   liquidations: an order whose result is ambiguous is not regarded as filled, and KIS
   has filled what is FILLED.                                                 *)
THEOREM RealFilledAtBroker ==
  ASSUME ~IsMock, LiquidationReason = {}
  PROVE  Spec => []FilledAtBroker
BY RecoveryFindsItsOwn, FilledUnlessMislinked, PTL

-----------------------------------------------------------------------------
(* The hedge entry and its exits. *)

(* A FILLED row's key has an order that KIS has completely filled. *)
KeyFilled ==
  \A o \in OrderId : status[o] = "FILLED" =>
    \E b \in BrokerId : bstate[b] = "filled" /\ SameKey(bowner[b], o)

(* On the REAL account that is the order whose number the row carries. *)
LEMMA RealKeyFilled == RecordInv /\ PostInv /\ PolledInv => KeyFilled
<1> SUFFICES ASSUME RecordInv, PostInv, PolledInv, NEW o \in OrderId, status[o] = "FILLED"
             PROVE  \E b \in BrokerId : bstate[b] = "filled" /\ SameKey(bowner[b], o)
  BY DEF KeyFilled
<1> USE DEF RecordInv, TypeInv, TypeOK
<1>1. odno[o] \in BrokerId /\ odno[o] # None /\ qty[o] <= bfilled[odno[o]]
  BY FilledIsLinked
<1>2. /\ SameKey(bowner[odno[o]], o) /\ qty[bowner[odno[o]]] = qty[o]
      /\ bstate[odno[o]] # "free"
  BY <1>1 DEF LinkInv
<1>3. bstate[odno[o]] = "filled"
  BY <1>1, <1>2 DEF LinkInv, PostInv
<1> QED BY <1>1, <1>2, <1>3

(* Without operator liquidations it is the row's own order, or one of the key that let
   a recovery go wrong.                                                       *)
LEMMA SoundKeyFilled == SoundInv => KeyFilled
<1> SUFFICES ASSUME SoundInv, NEW o \in OrderId, status[o] = "FILLED"
             PROVE  \E b \in BrokerId : bstate[b] = "filled" /\ SameKey(bowner[b], o)
  BY DEF KeyFilled
<1> USE ConstantsAssumption DEF SoundInv, RecordInv, TypeInv, TypeOK
<1>1. o.ticker \in Ticker /\ o.side \in Side /\ OfKey(o, o.ticker, o.side)
  BY OrderFields DEF OfKey
<1>2. CASE ~ Sound(o.ticker, o.side)
  BY <1>1, <1>2 DEF MislinkInv, OfKey, SameKey
<1>3. CASE Sound(o.ticker, o.side)
  <2>1. ledger[o] = qty[o] /\ qty[o] > 0
    BY DEF BookedInv, FilledMeansBooked, StepInv
  <2>2. PICK b \in BrokerId : bowner[b] = o /\ qty[o] <= bfilled[b]
    BY <1>1, <1>3, <2>1 DEF KeyInv, HonestInv, FilledFor
  <2>3. bstate[b] = "filled"
    BY <2>2 DEF LinkInv, PostInv
  <2> QED BY <2>2, <2>3 DEF SameKey
<1> QED BY <1>2, <1>3

(* The steps that place the current order and poll it. *)
Placing ==
  \/ pc \in {"claimed", "submit", "await", "poll"}
  \/ pc = "record" /\ ret = "poll"

(* KIS has filled the exits the batch knows of, and the entry that is being placed was
   let through by the prerequisites.                                          *)
ExitInv ==
  /\ \A t \in sold : \E b \in BrokerId :
       bstate[b] = "filled" /\ bowner[b].ticker = t /\ bowner[b].side = "SELL"
  /\ Placing => HedgeReady(cur)

LEMMA ExitInit == Init => ExitInv
BY DEF Init, ExitInv, Placing

LEMMA ExitNext == RecordInv /\ KeyFilled /\ ExitInv /\ [Next]_vars => ExitInv'
<1> SUFFICES ASSUME RecordInv, KeyFilled, ExitInv, [Next]_vars PROVE ExitInv'
  OBVIOUS
<1> USE DEF RecordInv, TypeInv, TypeOK, AtOrder
<1>1. ASSUME sold' \subseteq sold
      PROVE  \A t \in sold' : \E b \in BrokerId :
               bstate'[b] = "filled" /\ bowner'[b].ticker = t /\ bowner'[b].side = "SELL"
  BY <1>1, KisKeeps DEF ExitInv
(* No order is being placed after the step, or still the one that was before it. *)
<1>2. ASSUME sold' \subseteq sold, ~ Placing' PROVE ExitInv'
  BY <1>1, <1>2 DEF ExitInv
<1>3. ASSUME UNCHANGED <<sold, exits, cur>>, Placing PROVE ExitInv'
  BY <1>1, <1>3 DEF ExitInv, HedgeReady
<1>4. CASE UNCHANGED trader
  BY <1>2, <1>3, <1>4 DEF Placing
<1>5. CASE Cycle
  BY <1>2, <1>5 DEF Cycle, StartCycle, StartLiquidation, Crash, PauseOrders, EndCycle,
                    ResetTrader, Placing
<1>6. CASE Reconcile
  <2>1. CASE FinishRecord
    <3>1. UNCHANGED <<sold, exits>> /\ pc = "record"
      BY <2>1 DEF FinishRecord
    <3>2. Placing' => Placing /\ UNCHANGED cur
      BY <2>1 DEF FinishRecord, Placing
    <3> QED BY <1>2, <1>3, <3>1, <3>2
  <2>2. CASE UNCHANGED <<pc, ret, cur, batch>>
    BY <1>2, <1>3, <2>2 DEF Placing
  <2> QED
    BY <1>2, <1>6, <2>1, <2>2
       DEF Reconcile, LinkMatch, RejectNotFound, ReconcilePoll, Defer, InferFromPosition,
           ReconcileDone, PositionsDone, RecordFails, ReadStatus, BeginRecord, Placing
<1>7. CASE Execution
  <2>1. ASSUME NEW o \in OrderId, Claim(o) PROVE ExitInv'
    <3>1. cur' = o /\ HedgeReady(o) /\ UNCHANGED <<sold, exits>>
      BY <2>1 DEF Claim
    <3> QED BY <1>1, <3>1 DEF ExitInv, HedgeReady
  <2>2. CASE MarkSubmitted \/ Submit \/ Attach \/ Poll
    BY <1>3, <2>2 DEF MarkSubmitted, Submit, Attach, Poll, ReadStatus, BeginRecord, Placing
  <2>3. CASE Settle
    <3>1. /\ pc' = "next" /\ cur \in OrderId /\ UNCHANGED kis
          /\ \A t \in sold' : \/ t \in sold
                              \/ t = cur.ticker /\ cur.side = "SELL" /\ status[cur] = "FILLED"
      BY <2>3 DEF Settle
    <3>2. \A t \in sold' : \E b \in BrokerId :
            bstate[b] = "filled" /\ bowner[b].ticker = t /\ bowner[b].side = "SELL"
      BY <3>1 DEF ExitInv, KeyFilled, SameKey
    <3> QED BY <3>1, <3>2 DEF ExitInv, Placing
  <2> QED
    BY <1>2, <1>7, <2>1, <2>2, <2>3
       DEF Execution, PlanDaily, PlanRisk, Execute, Skip, IsNext, Rejected, OutcomeUnknown,
           PollsExhausted, Infer, BeginRecord, NothingInferred, MarkUnknown, Placing
<1> QED BY <1>4, <1>5, <1>6, <1>7, BrokerSteps DEF Next, vars

LEMMA ExitsAreFilled == ExitInv => HedgeAfterExits
BY DEF ExitInv, Placing, HedgeAfterExits, HedgeOnItsWay, HedgeReady

(* On the REAL account, with operator liquidations, KIS has completely filled an exit
   order for every long position the batch planned to leave before the hedge entry
   is on its way.                                                             *)
THEOREM RealHedgeAfterExits ==
  ASSUME ~IsMock
  PROVE  Spec => []HedgeAfterExits
<1>1. Init => PostInv
  BY GateInit
<1> QED
  BY <1>1, ExitsAreFilled, RealKeyFilled, RecordInit, RecordNext, PostNext, PolledInit,
     PolledNext, ExitInit, ExitNext, PTL DEF Spec

(* So it has on PAPER, where exits may be inferred from balances and a recovery may
   link a wrong order, without operator liquidations.                         *)
THEOREM HedgeWaitsForExits ==
  ASSUME LiquidationReason = {}
  PROVE  Spec => []HedgeAfterExits
<1>1. SoundInv => RecordInv
  BY DEF SoundInv
<1> QED
  BY <1>1, ExitsAreFilled, SoundKeyFilled, SoundInit, SoundNext, ExitInit, ExitNext,
     PTL DEF Spec
=============================================================================
