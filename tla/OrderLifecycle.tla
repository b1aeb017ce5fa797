--------------------------- MODULE OrderLifecycle ---------------------------
(***************************************************************************)
(* One trading day of the KIS order path: the trader process of            *)
(* run_live_trader.py (reconcile, gate, plan, claim, submit, poll, record), *)
(* its PostgreSQL order rows and execution ledger, and the KIS broker.      *)
(*                                                                         *)
(* A trader cycle is a sequence of remote calls and database commits.      *)
(* Every one of them is a step of its own here, so that fills, late         *)
(* replies and process crashes fall between any two of them.  The trader   *)
(* is single-threaded and cycles exclude each other by the cycle lock, so  *)
(* one program counter is enough.                                           *)
(***************************************************************************)
EXTENDS Integers, FiniteSets

CONSTANTS
  Ticker,             \* symbols that can be held or bought
  Hedge,              \* the inverse ETF (need not be in Ticker)
  RiskReason,         \* exit reasons of the risk-only batch, part of its idempotency keys
  LiquidationReason,  \* reasons of an operator's liquidation (ungated), possibly none
  BrokerId,           \* KIS order numbers (ODNO)
  None,               \* SQL NULL
  MaxAttempts,        \* bound: daily-batch attempts per (symbol, side) and day
  MaxOrderAttempts,   \* max_order_attempts: retry limit for rejected and cancelled orders
  MaxQty,             \* bound: shares in one order
  MaxEra,             \* bound: grace periods that pass in the day
  LastActiveEra,      \* bound: no order is planned and no process dies in later eras
  InitHeld,           \* shares held at the start of the day
  IsMock,             \* broker.is_mock: the PAPER (VTS) account
  ForceRebalance      \* force_rebalance: transition top-ups ignore the day's fills

Side == {"BUY", "SELL"}
Attempt == 1..MaxAttempts
Slot == Attempt \cup RiskReason \cup LiquidationReason

(* The idempotency key of an orders row: date, strategy, venue and account are
   fixed here; symbol, side and attempt number (or exit reason) remain.       *)
OrderId == [ticker: Ticker, side: Side, slot: Slot]

Open == {"SUBMITTED", "ACCEPTED", "PARTIAL"}          \* what reconciliation selects
Unresolved == Open \cup {"PENDING"}                    \* what the gate counts
Terminal == {"FILLED", "CANCELLED", "REJECTED"}
RowStatus == {"NONE"} \cup Unresolved \cup Terminal

ASSUME ConstantsAssumption ==
  /\ MaxAttempts \in Nat /\ MaxOrderAttempts \in Nat /\ MaxEra \in Nat
  /\ LastActiveEra \in Nat
  /\ MaxQty \in Nat \ {0}
  /\ IsMock \in BOOLEAN /\ ForceRebalance \in BOOLEAN
  /\ ForceRebalance => IsMock          \* LiveTrader refuses it elsewhere
  /\ InitHeld \in [Ticker -> Nat]
  /\ None \notin OrderId /\ None \notin BrokerId /\ None \notin Slot
  /\ Attempt \cap (RiskReason \cup LiquidationReason) = {}

VARIABLES
  \* PostgreSQL
  status,     \* orders.order_status_code, "NONE" while the row does not exist
  odno,       \* orders.broker_order_id
  qty,        \* orders.qty
  filledQty,  \* orders.filled_qty
  born,       \* the era of orders.created_at
  ledger,     \* SUM(executions.qty) of the order
  \* KIS
  wire,       \* submissions POSTed and not yet processed by KIS
  bowner,     \* the row whose submission created the broker order
  bstate,     \* free, open, filled or cancelled
  bfilled,    \* shares filled so far
  listed,     \* orders the daily order inquiry shows
  held,       \* shares in the account
  era,        \* how many reconciliation grace periods have passed
  \* the trader process
  pc, kind, work, cur, obs, ret, snap, live, plan, exits, sold

db == <<status, odno, qty, filledQty, born, ledger>>
book == <<bowner, bstate, bfilled, listed, held>>
kis == <<wire, book, era>>
batch == <<kind, snap, live, plan, exits, sold>>
trader == <<pc, work, cur, obs, ret, batch>>
vars == <<db, kis, trader>>

NoObs == [status |-> "NONE", filled |-> 0]
Nothing == [o \in OrderId |-> 0]
NoShares == [t \in Ticker |-> 0]

Init ==
  /\ status = [o \in OrderId |-> "NONE"]
  /\ odno = [o \in OrderId |-> None]
  /\ qty = Nothing /\ filledQty = Nothing /\ born = Nothing /\ ledger = Nothing
  /\ wire = {}
  /\ bowner = [b \in BrokerId |-> None]
  /\ bstate = [b \in BrokerId |-> "free"]
  /\ bfilled = [b \in BrokerId |-> 0]
  /\ listed = {}
  /\ held = InitHeld
  /\ era = 0
  /\ pc = "idle" /\ kind = "daily" /\ work = {} /\ cur = None
  /\ obs = NoObs /\ ret = "none"
  /\ snap = NoShares /\ live = NoShares /\ plan = Nothing
  /\ exits = {} /\ sold = {}

-----------------------------------------------------------------------------
(* The KIS broker, and time.                                               *)

(* A POSTed order reaches KIS: it is booked under a new order number, or
   refused.  A lost request is one that is refused and whose reply is lost.  *)
BrokerReceive(o) ==
  /\ o \in wire
  /\ wire' = wire \ {o}
  /\ \/ UNCHANGED book
     \/ \E b \in BrokerId :
          /\ bstate[b] = "free"
          /\ bowner' = [bowner EXCEPT ![b] = o]
          /\ bstate' = [bstate EXCEPT ![b] = "open"]
          /\ UNCHANGED <<bfilled, listed, held>>
  /\ UNCHANGED <<db, era, trader>>

BrokerList(b) ==
  /\ bstate[b] # "free" /\ b \notin listed
  /\ listed' = listed \cup {b}
  /\ UNCHANGED <<db, wire, bowner, bstate, bfilled, held, era, trader>>

BrokerFill(b) ==
  /\ bstate[b] = "open"
  /\ LET o == bowner[b]
         t == o.ticker
     IN /\ o.side = "SELL" => held[t] > 0
        /\ bfilled' = [bfilled EXCEPT ![b] = @ + 1]
        /\ bstate' = [bstate EXCEPT ![b] = IF bfilled[b] + 1 >= qty[o] THEN "filled" ELSE @]
        /\ held' = [held EXCEPT ![t] = IF o.side = "BUY" THEN @ + 1 ELSE @ - 1]
  /\ UNCHANGED <<db, wire, bowner, listed, era, trader>>

BrokerCancel(b) ==
  /\ bstate[b] = "open"
  /\ bstate' = [bstate EXCEPT ![b] = "cancelled"]
  /\ UNCHANGED <<db, wire, bowner, bfilled, listed, held, era, trader>>

(* More than unknown_order_grace_seconds (300 s) pass between two cycles: rows
   born before are past the grace, and lie outside the 120 s matching window of
   every order submitted later.  KIS is assumed to process a submission and to
   list the order within one grace period.                                    *)
GracePasses ==
  /\ pc = "idle" /\ era < MaxEra
  /\ wire = {} /\ \A b \in BrokerId : bstate[b] # "free" => b \in listed
  /\ era' = era + 1
  /\ UNCHANGED <<db, wire, book, trader>>

-----------------------------------------------------------------------------
(* Cycle control.                                                          *)

ResetTrader ==
  /\ pc' = "idle" /\ kind' = "daily" /\ work' = {} /\ cur' = None
  /\ obs' = NoObs /\ ret' = "none"
  /\ snap' = NoShares /\ live' = NoShares /\ plan' = Nothing
  /\ exits' = {} /\ sold' = {}

(* Fault: reconciliation also selects settled rows, or misses unsent ones. *)
OpenRowsAndFilled == {o \in OrderId : status[o] \in Open \cup {"FILLED"}}
AcceptedRows == {o \in OrderId : status[o] \in Open \ {"SUBMITTED"}}

OpenRows == {o \in OrderId : status[o] \in Open}

(* run_daily_batch / run_risk_batch: get_balance, then the rows to reconcile. *)
StartCycle(k) ==
  /\ pc = "idle" /\ k \in {"daily", "risk"}
  /\ pc' = "reconcile" /\ kind' = k /\ snap' = held /\ work' = OpenRows
  /\ UNCHANGED <<db, kis, cur, obs, ret, live, plan, exits, sold>>

(* run_live_trader --liquidate: the balance alone, no reconciliation, no gate. *)
StartLiquidation(r) ==
  /\ pc = "idle" /\ r \in LiquidationReason /\ era <= LastActiveEra
  /\ \E t \in Ticker : held[t] > 0
  /\ pc' = "execute" /\ kind' = "liquidation"
  /\ plan' = [o \in OrderId |->
                IF o.side = "SELL" /\ o.slot = r THEN held[o.ticker] ELSE 0]
  /\ UNCHANGED <<db, kis, work, cur, obs, ret, snap, live, exits, sold>>

(* The process dies, or a RuntimeError ends the cycle: only locals are lost. *)
Crash ==
  /\ pc # "idle" /\ era <= LastActiveEra
  /\ ResetTrader
  /\ UNCHANGED <<db, kis>>

-----------------------------------------------------------------------------
(* _record_broker_status: one commit for the execution row, one for the row. *)

(* Fault: every report is booked in full, or only the first one is booked. *)
BookEveryReport(o, st, n, back) ==
  /\ ledger' = [ledger EXCEPT ![o] = @ + n]
  /\ cur' = o /\ obs' = [status |-> st, filled |-> n] /\ ret' = back
  /\ pc' = "record"

BookFirstReport(o, st, n, back) ==
  /\ ledger' = [ledger EXCEPT ![o] = IF @ = 0 THEN n ELSE @]
  /\ cur' = o /\ obs' = [status |-> st, filled |-> n] /\ ret' = back
  /\ pc' = "record"

BeginRecord(o, st, n, back) ==
  /\ ledger' = [ledger EXCEPT ![o] = IF n > @ THEN n ELSE @]
  /\ cur' = o /\ obs' = [status |-> st, filled |-> n] /\ ret' = back
  /\ pc' = "record"

FinishRecord ==
  /\ pc = "record"
  /\ status' = [status EXCEPT ![cur] = obs.status]
  /\ filledQty' = [filledQty EXCEPT ![cur] = obs.filled]
  /\ \/ /\ ret \in {"reconcile", "positions"}
        /\ pc' = ret /\ work' = work \ {cur} /\ cur' = None
     \/ /\ ret = "poll" /\ obs.status \notin Terminal
        /\ pc' = "poll" /\ UNCHANGED <<work, cur>>
     \/ /\ \/ ret \in {"infer", "fallback"}
           \/ ret = "poll" /\ obs.status \in Terminal
        /\ pc' = "settle" /\ UNCHANGED <<work, cur>>
  /\ obs' = NoObs /\ ret' = "none"
  /\ UNCHANGED <<odno, qty, born, ledger, kis, batch>>

(* The second commit fails: reconciliation defers the row, the submission path
   falls into its catch-all handler (elsewhere the exception ends the cycle). *)
RecordFails ==
  /\ pc = "record"
  /\ \/ /\ ret = "reconcile"
        /\ pc' = "reconcile" /\ work' = work \ {cur} /\ cur' = None
     \/ /\ ret \in {"poll", "infer"}
        /\ pc' = "unknown" /\ UNCHANGED <<work, cur>>
  /\ obs' = NoObs /\ ret' = "none"
  /\ UNCHANGED <<db, kis, batch>>

(* get_order_status: the daily inquiry's cumulative view of one order number. *)
BrokerStatus(b) ==
  CASE bstate[b] = "cancelled" -> "CANCELLED"
    [] bstate[b] # "cancelled" /\ bfilled[b] >= qty[bowner[b]] -> "FILLED"
    [] bstate[b] # "cancelled" /\ bfilled[b] < qty[bowner[b]] /\ bfilled[b] > 0 -> "PARTIAL"
    [] OTHER -> "ACCEPTED"

ReadStatus(o, back) ==
  /\ odno[o] \in listed
  /\ BeginRecord(o, BrokerStatus(odno[o]), bfilled[odno[o]], back)

-----------------------------------------------------------------------------
(* _reconcile_open_orders                                                  *)

Linked == {odno[o] : o \in OrderId}

SameKey(o, p) == o.ticker = p.ticker /\ o.side = p.side

(* Fault: orders that another row already carries stay candidates. *)
MatchesOfAnyRow(o) ==
  {b \in listed : /\ SameKey(bowner[b], o)
                  /\ qty[bowner[b]] = qty[o]
                  /\ born[bowner[b]] = born[o]}

(* _match_unknown_broker_order: unlinked orders of the same side, symbol and
   quantity whose time lies within 120 s of the row's.                        *)
Matches(o) ==
  {b \in listed \ Linked :
     /\ SameKey(bowner[b], o)
     /\ qty[bowner[b]] = qty[o]
     /\ born[bowner[b]] = born[o]}

(* Fault: an unmatched row is refused without waiting. *)
NoGrace(o) == era >= born[o]

GraceElapsed(o) == era > born[o]

LinkMatch(o) ==
  /\ pc = "reconcile" /\ o \in work /\ odno[o] = None
  /\ \E b \in BrokerId :
       /\ Matches(o) = {b}
       /\ odno' = [odno EXCEPT ![o] = b]
  /\ status' = [status EXCEPT ![o] = "ACCEPTED"]
  /\ UNCHANGED <<qty, filledQty, born, ledger, kis, trader>>

RejectNotFound(o) ==
  /\ pc = "reconcile" /\ o \in work /\ odno[o] = None
  /\ Matches(o) = {} /\ GraceElapsed(o)
  /\ status' = [status EXCEPT ![o] = "REJECTED"]
  /\ work' = work \ {o}
  /\ UNCHANGED <<odno, qty, filledQty, born, ledger, kis, pc, cur, obs, ret, batch>>

ReconcilePoll(o) ==
  /\ pc = "reconcile" /\ o \in work /\ odno[o] # None
  /\ ReadStatus(o, "reconcile")
  /\ UNCHANGED <<status, odno, qty, filledQty, born, kis, work, batch>>

(* No match yet, several candidates, or an inquiry that fails: leave the row. *)
Defer(o) ==
  /\ pc = "reconcile" /\ o \in work
  /\ work' = work \ {o}
  /\ UNCHANGED <<db, kis, pc, cur, obs, ret, batch>>

(* Fault: a buy whose shares are not there yet counts as filled, too. *)
InferBuysToo ==
  /\ pc = "reconcile" /\ work = {}
  /\ pc' = "positions" /\ work' = OpenRows
  /\ UNCHANGED <<db, kis, cur, obs, ret, batch>>

ReconcileDone ==
  /\ pc = "reconcile" /\ work = {}
  /\ IF IsMock
       THEN pc' = "positions" /\ work' = {o \in OpenRows : o.side = "SELL"}
       ELSE pc' = "gate" /\ UNCHANGED work
  /\ UNCHANGED <<db, kis, cur, obs, ret, batch>>

(* Fault: a position above the order's quantity is not left alone. *)
InferWithoutFloor(o) ==
  /\ pc = "positions" /\ o \in work
  /\ BeginRecord(o, IF snap[o.ticker] = 0 THEN "FILLED" ELSE "PARTIAL",
                 qty[o] - snap[o.ticker], "positions")
  /\ UNCHANGED <<status, odno, qty, filledQty, born, kis, work, batch>>

(* PAPER only: infer sell fills from the balance read at the cycle's start.   *)
InferFromPosition(o) ==
  /\ pc = "positions" /\ o \in work
  /\ LET h == snap[o.ticker]
     IN IF h >= qty[o]
          THEN /\ work' = work \ {o}
               /\ UNCHANGED <<ledger, pc, cur, obs, ret>>
          ELSE /\ BeginRecord(o, IF h = 0 THEN "FILLED" ELSE "PARTIAL",
                              qty[o] - h, "positions")
               /\ UNCHANGED work
  /\ UNCHANGED <<status, odno, qty, filledQty, born, kis, batch>>

PositionsDone ==
  /\ pc = "positions" /\ work = {}
  /\ pc' = "gate"
  /\ UNCHANGED <<db, kis, work, cur, obs, ret, batch>>

-----------------------------------------------------------------------------
(* The gate, and planning.                                                 *)

UnresolvedRows == {o \in OrderId : status[o] \in Unresolved}

(* _assert_no_unresolved_orders: the daily batch returns no orders, the risk
   batch raises; either way this cycle ends.                                  *)
PauseOrders ==
  /\ pc = "gate" /\ UnresolvedRows # {}
  /\ ResetTrader
  /\ UNCHANGED <<db, kis>>

LedgerHealthy == \A o \in OrderId : status[o] = "FILLED" => ledger[o] = filledQty[o]

RowsOf(t, s) == {o \in OrderId : o.ticker = t /\ o.side = s /\ status[o] # "NONE"}

(* Fault: one rejected or cancelled attempt too many. *)
CanOrderOnceMore(t, s, bypass) ==
  /\ \A o \in RowsOf(t, s) : status[o] \notin Unresolved
  /\ bypass \/ \A o \in RowsOf(t, s) : status[o] # "FILLED"
  /\ Cardinality({o \in RowsOf(t, s) : status[o] \in {"REJECTED", "CANCELLED"}})
       <= MaxOrderAttempts

(* can_order: open key, filled key (unless an urgent exit or a forced top-up),
   and the retry limit.  A row with an ambiguous result is still unresolved,
   so its key is an open key.                                                 *)
CanOrder(t, s, bypass) ==
  /\ \A o \in RowsOf(t, s) : status[o] \notin Unresolved
  /\ bypass \/ \A o \in RowsOf(t, s) : status[o] # "FILLED"
  /\ Cardinality({o \in RowsOf(t, s) : status[o] \in {"REJECTED", "CANCELLED"}})
       < MaxOrderAttempts

(* add_identity: one more than the day's rows for the key. *)
NextAttempt(t, s) == Cardinality(RowsOf(t, s)) + 1

Planned(o, want) ==
  /\ want.side = o.side
  /\ o.slot = NextAttempt(o.ticker, o.side)
  /\ CanOrder(o.ticker, o.side, want.bypass)

Intent == {[side |-> "HOLD", qty |-> 0, bypass |-> FALSE]}
            \cup [side: Side, qty: 1..MaxQty, bypass: BOOLEAN]

(* A target below the position sells at most the position; only a full exit can
   carry an urgent reason; buys need a healthy execution ledger.              *)
Sensible(t, want) ==
  /\ want.side # "HOLD" => era <= LastActiveEra
  /\ want.side = "SELL" => /\ want.qty <= snap[t]
                           /\ want.bypass => want.qty = snap[t]
  /\ want.side = "BUY" => LedgerHealthy /\ (want.bypass => ForceRebalance)

FullExit(t, want) == want.side = "SELL" /\ want.qty = snap[t]

(* _calculate_orders: the strategy may want any sensible change per ticker.  A
   buy of the hedge is an entry or a scale-up, which waits for the held symbols
   whose target is zero, ordered or suppressed (all have a price here).  The
   balance of the cycle's start is not read again after planning.             *)
PlanDaily ==
  /\ pc = "gate" /\ kind = "daily" /\ UnresolvedRows = {}
  /\ \E want \in [Ticker -> Intent] :
       /\ \A t \in Ticker : Sensible(t, want[t])
       /\ plan' = [o \in OrderId |->
                     IF Planned(o, want[o.ticker]) THEN want[o.ticker].qty ELSE 0]
       /\ exits' = {t \in Ticker \ {Hedge} : FullExit(t, want[t])}
  /\ pc' = "execute" /\ snap' = NoShares
  /\ UNCHANGED <<db, kis, kind, work, cur, obs, ret, live, sold>>

(* run_risk_batch: full exits of held tickers, keyed by reason, not by attempt. *)
PlanRisk ==
  /\ pc = "gate" /\ kind = "risk" /\ UnresolvedRows = {}
  /\ \E why \in [Ticker -> RiskReason \cup {None}] :
       /\ (\E t \in Ticker : why[t] # None) => era <= LastActiveEra
       /\ plan' = [o \in OrderId |->
                  IF o.side = "SELL" /\ o.slot = why[o.ticker] THEN snap[o.ticker] ELSE 0]
  /\ pc' = "execute" /\ snap' = NoShares
  /\ UNCHANGED <<db, kis, kind, work, cur, obs, ret, live, exits, sold>>

EndCycle ==
  /\ pc \in {"execute", "next"} /\ \A o \in OrderId : plan[o] = 0
  /\ ResetTrader
  /\ UNCHANGED <<db, kis>>

-----------------------------------------------------------------------------
(* _execute_orders                                                         *)

Execute ==
  /\ pc = "execute" /\ \E o \in OrderId : plan[o] > 0
  /\ pc' = "next" /\ live' = held
  /\ UNCHANGED <<db, kis, kind, work, cur, obs, ret, snap, plan, exits, sold>>

(* Sells precede buys in the planned list. *)
IsNext(o) ==
  /\ pc = "next" /\ plan[o] > 0
  /\ o.side = "BUY" => \A p \in OrderId : p.side = "SELL" => plan[p] = 0

(* SKIPPED: outside the session, paused, no price, price guard, no cash, no
   shares, unmet hedge prerequisites, or a duplicate key.                     *)
Skip(o) ==
  /\ IsNext(o)
  /\ plan' = [plan EXCEPT ![o] = 0]
  /\ UNCHANGED <<db, kis, pc, work, cur, obs, ret, kind, snap, live, exits, sold>>

(* Fault: the hedge entry waits for exits that were tried, not filled. *)
HedgeAfterAnyResult(o) ==
  (o.ticker = Hedge /\ o.side = "BUY") =>
    \A t \in exits : \E p \in OrderId :
      p.ticker = t /\ p.side = "SELL" /\ status[p] # "NONE"

(* _hedge_exit_prerequisites_met *)
HedgeReady(o) == (o.ticker = Hedge /\ o.side = "BUY") => exits \subseteq sold

(* A sell is cut to the balance read by _execute_orders, a buy to today's cash. *)
OrderQty(o) ==
  IF o.side = "SELL"
    THEN {q \in {IF plan[o] < live[o.ticker] THEN plan[o] ELSE live[o.ticker]} : q > 0}
    ELSE 1..plan[o]

(* create_order: the PENDING row, unless the idempotency key exists. *)
Claim(o) ==
  /\ IsNext(o) /\ HedgeReady(o) /\ status[o] = "NONE"
  /\ \E q \in OrderQty(o) : qty' = [qty EXCEPT ![o] = q]
  /\ status' = [status EXCEPT ![o] = "PENDING"]
  /\ born' = [born EXCEPT ![o] = era]
  /\ plan' = [plan EXCEPT ![o] = 0]
  /\ cur' = o /\ pc' = "claimed"
  /\ UNCHANGED <<odno, filledQty, ledger, kis, work, obs, ret, kind, snap, live, exits, sold>>

MarkSubmitted ==
  /\ pc = "claimed"
  /\ status' = [status EXCEPT ![cur] = "SUBMITTED"]
  /\ pc' = "submit"
  /\ UNCHANGED <<odno, qty, filledQty, born, ledger, kis, work, cur, obs, ret, batch>>

(* The single, never retried POST of _place_market_order. *)
Submit ==
  /\ pc = "submit"
  /\ wire' = wire \cup {cur}
  /\ pc' = "await"
  /\ UNCHANGED <<db, book, era, work, cur, obs, ret, batch>>

(* Fault: a POST without an answer counts as refused. *)
RejectedOnTimeout ==
  /\ pc \in {"submit", "await"}
  /\ status' = [status EXCEPT ![cur] = "REJECTED"]
  /\ pc' = "settle"
  /\ UNCHANGED <<odno, qty, filledQty, born, ledger, kis, work, cur, obs, ret, batch>>

(* A BrokerResponseError before the POST (hash key, session recheck) or KIS's
   refusal: REJECTED.                                                         *)
Rejected ==
  /\ \/ pc = "submit"
     \/ pc = "await" /\ cur \notin wire /\ \A b \in BrokerId : bowner[b] # cur
  /\ status' = [status EXCEPT ![cur] = "REJECTED"]
  /\ pc' = "settle"
  /\ UNCHANGED <<odno, qty, filledQty, born, ledger, kis, work, cur, obs, ret, batch>>

(* The reply carries an order number: attach_broker_order_id. *)
Attach ==
  /\ pc = "await" /\ cur \notin wire
  /\ \E b \in BrokerId :
       /\ bowner[b] = cur
       /\ odno' = [odno EXCEPT ![cur] = b]
  /\ status' = [status EXCEPT ![cur] = "ACCEPTED"]
  /\ pc' = "poll"
  /\ UNCHANGED <<qty, filledQty, born, ledger, kis, work, cur, obs, ret, batch>>

(* The hash request fails, the POST times out, the reply is lost, a commit fails
   or a payload is unexpected: nothing is known about the outcome.            *)
OutcomeUnknown ==
  /\ pc \in {"submit", "await", "poll"}
  /\ pc' = "unknown"
  /\ UNCHANGED <<db, kis, work, cur, obs, ret, batch>>

Poll ==
  /\ pc = "poll"
  /\ ReadStatus(cur, "poll")
  /\ UNCHANGED <<status, odno, qty, filledQty, born, kis, work, batch>>

PollsExhausted ==
  /\ pc = "poll"
  /\ pc' = IF IsMock /\ status[cur] = "ACCEPTED" THEN "infer" ELSE "settle"
  /\ UNCHANGED <<db, kis, work, cur, obs, ret, batch>>

(* _infer_paper_fill_from_balance: the change since the batch's balance, at most
   the order's quantity.                                                      *)
InferredFill(o) ==
  LET moved == IF o.side = "SELL" THEN live[o.ticker] - held[o.ticker]
                                  ELSE held[o.ticker] - live[o.ticker]
  IN IF moved > qty[o] THEN qty[o] ELSE moved

Infer ==
  /\ pc \in {"infer", "unknown"} /\ IsMock /\ InferredFill(cur) > 0
  /\ BeginRecord(cur, IF InferredFill(cur) >= qty[cur] THEN "FILLED" ELSE "PARTIAL",
                 InferredFill(cur), IF pc = "infer" THEN "infer" ELSE "fallback")
  /\ UNCHANGED <<status, odno, qty, filledQty, born, kis, work, batch>>

(* Nothing moved, or the balance inquiry failed. *)
NothingInferred ==
  /\ pc = "infer" /\ pc' = "settle"
  /\ UNCHANGED <<db, kis, work, cur, obs, ret, batch>>

(* The UNKNOWN_RESULT event; its own write may fail too, which is only logged. *)
MarkUnknown ==
  /\ pc = "unknown"
  /\ \/ status' = [status EXCEPT ![cur] = "SUBMITTED"]
     \/ UNCHANGED status
  /\ pc' = "next" /\ cur' = None
  /\ UNCHANGED <<odno, qty, filledQty, born, ledger, kis, work, obs, ret, batch>>

(* results.append: later hedge entries look for filled sells here. *)
Settle ==
  /\ pc = "settle"
  /\ sold' = IF cur.side = "SELL" /\ status[cur] = "FILLED"
               THEN sold \cup {cur.ticker} ELSE sold
  /\ pc' = "next" /\ cur' = None
  /\ UNCHANGED <<db, kis, work, obs, ret, kind, snap, live, plan, exits>>

-----------------------------------------------------------------------------
Broker ==
  \/ \E o \in OrderId : BrokerReceive(o)
  \/ \E b \in BrokerId : BrokerList(b) \/ BrokerFill(b) \/ BrokerCancel(b)
  \/ GracePasses

Cycle ==
  \/ \E k \in {"daily", "risk"} : StartCycle(k)
  \/ \E r \in LiquidationReason : StartLiquidation(r)
  \/ Crash \/ PauseOrders \/ EndCycle

Reconcile ==
  \/ \E o \in OrderId : \/ LinkMatch(o) \/ RejectNotFound(o) \/ ReconcilePoll(o)
                        \/ Defer(o) \/ InferFromPosition(o)
  \/ ReconcileDone \/ PositionsDone \/ FinishRecord \/ RecordFails

Execution ==
  \/ PlanDaily \/ PlanRisk \/ Execute
  \/ \E o \in OrderId : Skip(o) \/ Claim(o)
  \/ MarkSubmitted \/ Submit \/ Rejected \/ Attach \/ OutcomeUnknown
  \/ Poll \/ PollsExhausted \/ Infer \/ NothingInferred \/ MarkUnknown \/ Settle

Next == Broker \/ Cycle \/ Reconcile \/ Execution

Spec == Init /\ [][Next]_vars

(* A cycle runs every minute of the session and its steps are never abandoned;
   inquiries and commits may fail, but not for ever; KIS processes submissions,
   lists them, and fills or cancels market orders; grace periods pass.        *)
Fairness ==
  /\ \A o \in OrderId : /\ WF_vars(BrokerReceive(o))
                        /\ SF_vars(LinkMatch(o)) /\ SF_vars(RejectNotFound(o))
                        /\ SF_vars(ReconcilePoll(o))
  /\ \A b \in BrokerId : WF_vars(BrokerList(b)) /\ WF_vars(BrokerFill(b) \/ BrokerCancel(b))
  /\ SF_vars(StartCycle("daily")) /\ SF_vars(GracePasses) /\ SF_vars(FinishRecord)
  /\ WF_vars(PauseOrders \/ EndCycle) /\ WF_vars(Reconcile) /\ WF_vars(Execution)

FairSpec == Spec /\ Fairness

-----------------------------------------------------------------------------
(* Type correctness of the database, broker and trader state. *)
TypeOK ==
  /\ status \in [OrderId -> RowStatus]
  /\ odno \in [OrderId -> BrokerId \cup {None}]
  /\ qty \in [OrderId -> Nat] /\ filledQty \in [OrderId -> Nat]
  /\ born \in [OrderId -> Nat] /\ ledger \in [OrderId -> Nat]
  /\ wire \subseteq OrderId
  /\ bowner \in [BrokerId -> OrderId \cup {None}]
  /\ bstate \in [BrokerId -> {"free", "open", "filled", "cancelled"}]
  /\ bfilled \in [BrokerId -> Nat] /\ listed \subseteq BrokerId
  /\ held \in [Ticker -> Nat] /\ era \in Nat
  /\ pc \in {"idle", "reconcile", "positions", "gate", "execute", "next", "claimed",
             "submit", "await", "poll", "record", "infer", "unknown", "settle"}
  /\ kind \in {"daily", "risk", "liquidation"}
  /\ work \subseteq OrderId /\ cur \in OrderId \cup {None}
  /\ obs \in [status: RowStatus, filled: Nat]
  /\ ret \in {"none", "reconcile", "positions", "poll", "infer", "fallback"}
  /\ snap \in [Ticker -> Nat] /\ live \in [Ticker -> Nat] /\ plan \in [OrderId -> Nat]
  /\ exits \subseteq Ticker /\ sold \subseteq Ticker

(* No blind duplicate: KIS never works on two orders of the day for the same
   symbol and side at once, whatever was lost, late or crashed.               *)
SingleLiveOrder ==
  \A a, b \in BrokerId :
    bstate[a] = "open" /\ bstate[b] = "open" /\ SameKey(bowner[a], bowner[b]) => a = b

(* An order KIS still works on has a row that reconciliation selects: no live
   order is forgotten, rejected locally or closed too early.                  *)
LiveOrderTracked ==
  \A b \in BrokerId : bstate[b] = "open" => status[bowner[b]] \in Open

(* A row carries the number of the KIS order that its own submission created:
   recovery by time, side, symbol and quantity never adopts another's order.  *)
LinkedToOwner ==
  \A o \in OrderId : odno[o] # None => bowner[odno[o]] = o

(* On PAPER a row inferred as filled keeps no order number, so that the recovery
   may adopt its KIS order for a later row.  Until then nothing is duplicated or
   forgotten there, either.                                                    *)
SafeUnlessMislinked == LinkedToOwner => SingleLiveOrder /\ LiveOrderTracked

(* Fourth of the design's safety invariants: an order whose result is ambiguous
   is not regarded as filled.  What is FILLED, KIS has filled.                 *)
FilledAtBroker ==
  \A o \in OrderId : status[o] = "FILLED" =>
    \E b \in BrokerId : bowner[b] = o /\ bfilled[b] >= qty[o]

(* The execution ledger never books shares KIS has not filled for that order, by
   polls or by inference from balances, until a recovery links a wrong order.  *)
LedgerNotAhead ==
  LinkedToOwner =>
    \A o \in OrderId : ledger[o] > 0 =>
      \E b \in BrokerId : bowner[b] = o /\ ledger[o] <= bfilled[b]

(* A FILLED row has executions for every ordered share, although the execution
   row and the status are two commits with crashes and failures in between.   *)
FilledMeansBooked ==
  \A o \in OrderId : status[o] = "FILLED" => ledger[o] = qty[o] /\ filledQty[o] = qty[o]

(* Refused, cancelled and never-received submissions use up max_order_attempts
   of their key; the day cannot turn into an endless resubmission.            *)
RetryBounded ==
  \A t \in Ticker, s \in Side :
    Cardinality({o \in RowsOf(t, s) : /\ o.slot \in Attempt
                                      /\ status[o] \in {"REJECTED", "CANCELLED"}})
      <= MaxOrderAttempts

HedgeOnItsWay ==
  \E o \in OrderId : /\ o.ticker = Hedge /\ o.side = "BUY"
                     /\ o = cur /\ pc \in {"await", "poll"}

(* While a hedge entry is being placed, KIS has completely filled an exit order
   for every long position the batch planned to leave.                        *)
HedgeAfterExits ==
  HedgeOnItsWay =>
    \A t \in exits : \E b \in BrokerId :
      bstate[b] = "filled" /\ bowner[b].ticker = t /\ bowner[b].side = "SELL"

(* FILLED, CANCELLED and REJECTED are final: no late poll, inference, recovery
   or UNKNOWN_RESULT write reopens a row.                                     *)
TerminalIsFinal ==
  [][\A o \in OrderId : status[o] \in Terminal => status'[o] = status[o]]_vars

(* Executions are only ever added, and never beyond the ordered quantity. *)
LedgerGrowsWithinOrder ==
  [][\A o \in OrderId : ledger[o] <= ledger'[o] /\ ledger'[o] <= qty'[o]]_vars

(* Every submitted row, whatever was lost, is eventually settled. *)
SubmittedIsSettled ==
  \A o \in OrderId : status[o] \in Open ~> status[o] \in Terminal
=============================================================================
