-------------------------- MODULE SimulationBroker --------------------------
(***************************************************************************)
(* The SIMULATE mode: LocalSimulationBroker, its one JSON account file, and *)
(* the trader cycle that plans and fills orders against it.                *)
(*                                                                         *)
(* A cycle is a process that loads the file, plans from its balance, fills *)
(* order after order and exits.  A fill is computed on a copy of the state, *)
(* written to a temporary file and renamed over the account file; the       *)
(* process may die before or after either.  The cycle lock keeps a second  *)
(* process away.  Prices move between orders.                              *)
(***************************************************************************)
EXTENDS Integers, FiniteSetsExt

CONSTANTS
  Ticker, Hedge,   \* symbols, and the inverse ETF among them (or outside)
  Reason,          \* exit reasons of the risk-only batch
  MaxDay,          \* bound: trading days
  MaxQty,          \* bound: shares in one order
  Price,           \* prices an order can meet
  Fee,             \* commission, tax and slippage of an order
  InitCash,        \* SIM_INITIAL_CASH
  None

ASSUME SimulationAssumption ==
  /\ MaxDay \in Nat \ {0} /\ MaxQty \in Nat \ {0}
  /\ Price \subseteq Nat \ {0} /\ Fee \in Nat /\ InitCash \in Nat
  /\ "DAILY" \notin Reason /\ IsFiniteSet(Reason) /\ IsFiniteSet(Ticker)

Side == {"BUY", "SELL"}

(* The planner reads no order rows in this mode, so the attempt number in a
   daily order's key is always 1: "DAILY".  A risk exit's key has its reason.  *)
OrderId == [ticker : Ticker, side : Side, slot : {"DAILY"} \cup Reason]
Key == [day : 1..MaxDay, order : OrderId]
KeyTicker == [k \in Key |-> k.order.ticker]
KeySide == [k \in Key |-> k.order.side]

NoFill == [qty |-> 0, price |-> 0]

VARIABLES
  disk,    \* the account file: cash, positions, fills by idempotency key
  mem,     \* the same in the running process
  tmp,     \* the temporary file being written, or None
  day, pc,
  kind,    \* daily, risk or liquidation
  plan,    \* shares still to order, by order
  exits,   \* requires_prior_sell_fills of a hedge entry
  cur, price,
  results  \* the batch's result rows: order, status

process == <<mem, kind, plan, exits, cur, price, results>>
vars == <<disk, tmp, day, pc, process>>

NoOrders == [o \in OrderId |-> 0]

NewAccount ==
  [cash |-> InitCash, pos |-> [t \in Ticker |-> 0], fills |-> [k \in Key |-> NoFill]]

Init ==
  /\ disk = NewAccount /\ mem = NewAccount /\ tmp = None
  /\ day = 1 /\ pc = "down" /\ kind = "daily"
  /\ plan = NoOrders /\ exits = {} /\ cur = None /\ price = 0 /\ results = {}

-----------------------------------------------------------------------------
(* A cycle.                                                                *)

(* _load; a temporary file of a dead process is ignored. *)
Start ==
  /\ pc = "down"
  /\ mem' = disk /\ pc' = "plan" /\ results' = {}
  /\ UNCHANGED <<disk, tmp, day, kind, plan, exits, cur, price>>

Forget ==
  /\ pc' = "down" /\ plan' = NoOrders /\ exits' = {} /\ cur' = None /\ price' = 0
  /\ UNCHANGED <<disk, tmp, day, mem, kind>>

Crash == pc # "down" /\ Forget /\ results' = {}

Finish == pc = "next" /\ plan = NoOrders /\ Forget /\ UNCHANGED results

NextDay ==
  /\ pc = "down" /\ day < MaxDay
  /\ day' = day + 1 /\ results' = {}
  /\ UNCHANGED <<disk, tmp, pc, mem, kind, plan, exits, cur, price>>

Intent == {[side |-> "HOLD", qty |-> 0]} \cup [side : Side, qty : 1..MaxQty]

(* _calculate_orders on this account: no rows of the day block anything. *)
PlanDaily ==
  /\ pc = "plan"
  /\ \E want \in [Ticker -> Intent] :
       /\ \A t \in Ticker : want[t].side = "SELL" => want[t].qty <= mem.pos[t]
       /\ plan' = [o \in OrderId |->
                     IF o.slot = "DAILY" /\ o.side = want[o.ticker].side
                       THEN want[o.ticker].qty ELSE 0]
       /\ exits' = {t \in Ticker \ {Hedge} :
                      want[t].side = "SELL" /\ want[t].qty = mem.pos[t]}
  /\ kind' = "daily" /\ pc' = "next"
  /\ UNCHANGED <<disk, tmp, day, mem, cur, price, results>>

(* run_risk_batch *)
PlanRisk ==
  /\ pc = "plan"
  /\ \E why \in [Ticker -> Reason \cup {None}] :
       plan' = [o \in OrderId |->
                  IF o.side = "SELL" /\ o.slot = why[o.ticker] THEN mem.pos[o.ticker] ELSE 0]
  /\ kind' = "risk" /\ pc' = "next"
  /\ UNCHANGED <<disk, tmp, day, mem, exits, cur, price, results>>

(* run_live_trader --liquidate: sells of everything, without a price or a key. *)
PlanLiquidation ==
  /\ pc = "plan" /\ \E t \in Ticker : mem.pos[t] > 0
  /\ plan' = [o \in OrderId |->
                IF o.side = "SELL" /\ o.slot = "DAILY" THEN mem.pos[o.ticker] ELSE 0]
  /\ kind' = "liquidation" /\ pc' = "next"
  /\ UNCHANGED <<disk, tmp, day, mem, exits, cur, price, results>>

-----------------------------------------------------------------------------
(* _execute_simulation_orders and _fill                                    *)

KeyOf(o) == [day |-> day, order |-> o]

(* Sells come first in the plan. *)
IsNext(o) ==
  /\ pc = "next" /\ plan[o] > 0
  /\ o.side = "BUY" => \A p \in OrderId : p.side = "SELL" => plan[p] = 0

Report(o, st) ==
  /\ results' = results \cup {[order |-> o, status |-> st]}
  /\ plan' = [plan EXCEPT ![o] = 0]

SoldTickers == {r.order.ticker : r \in {x \in results :
                  x.order.side = "SELL" /\ x.status = "FILLED"}}

(* Fault: any sell result of the ticker will do. *)
HedgeAfterAnySell(o) ==
  (o.ticker = Hedge /\ o.side = "BUY") =>
    exits \subseteq {r.order.ticker : r \in {x \in results : x.order.side = "SELL"}}

HedgeReady(o) == (o.ticker = Hedge /\ o.side = "BUY") => exits \subseteq SoldTickers

SkipHedge(o) ==
  /\ IsNext(o) /\ ~HedgeReady(o)
  /\ Report(o, "SKIPPED")
  /\ UNCHANGED <<disk, tmp, day, pc, mem, kind, exits, cur, price>>

(* The liquidation's orders have no expected_price. *)
RejectUnpriced(o) ==
  /\ IsNext(o) /\ kind = "liquidation"
  /\ Report(o, "REJECTED")
  /\ UNCHANGED <<disk, tmp, day, pc, mem, kind, exits, cur, price>>

Executable(o) == IsNext(o) /\ HedgeReady(o) /\ kind # "liquidation"

(* Fault: the recorded keys are not looked up. *)
NeverFilled(o) == FALSE

FilledBefore(o) == mem.fills[KeyOf(o)] # NoFill

(* The key has filled: the same order returns that fill, another is refused. *)
Replay(o) ==
  /\ Executable(o) /\ FilledBefore(o)
  /\ Report(o, IF mem.fills[KeyOf(o)].qty = plan[o] THEN "FILLED" ELSE "REJECTED")
  /\ UNCHANGED <<disk, tmp, day, pc, mem, kind, exits, cur, price>>

(* Fault: a buy pays the shares but not the fee. *)
AccountWithoutFee(acc, k, q, p) ==
  [cash  |-> IF k.order.side = "BUY" THEN acc.cash - q * p ELSE acc.cash + q * p - Fee,
   pos   |-> [acc.pos EXCEPT ![k.order.ticker] = IF k.order.side = "BUY" THEN @ + q ELSE @ - q],
   fills |-> [acc.fills EXCEPT ![k] = [qty |-> q, price |-> p]]]

(* The candidate state of a fill. *)
AccountAfter(acc, k, q, p) ==
  [cash  |-> IF k.order.side = "BUY" THEN acc.cash - (q * p + Fee) ELSE acc.cash + q * p - Fee,
   pos   |-> [acc.pos EXCEPT ![k.order.ticker] = IF k.order.side = "BUY" THEN @ + q ELSE @ - q],
   fills |-> [acc.fills EXCEPT ![k] = [qty |-> q, price |-> p]]]

(* Fault: the account may go into debt. *)
OnCredit(acc, o, q, p) == o.side = "SELL" => acc.pos[o.ticker] >= q

(* Cash for a buy, shares for a sell, and no negative cash in the saved state. *)
Sufficient(acc, o, q, p) ==
  IF o.side = "BUY" THEN acc.cash >= q * p + Fee
                    ELSE acc.pos[o.ticker] >= q /\ acc.cash + q * p >= Fee

RejectShort(o) ==
  /\ Executable(o) /\ ~FilledBefore(o)
  /\ \E p \in Price : ~Sufficient(mem, o, plan[o], p)
  /\ Report(o, "REJECTED")
  /\ UNCHANGED <<disk, tmp, day, pc, mem, kind, exits, cur, price>>

(* _save writes the candidate to the temporary file ... *)
WriteTemp(o) ==
  /\ Executable(o) /\ ~FilledBefore(o)
  /\ \E p \in Price :
       /\ Sufficient(mem, o, plan[o], p)
       /\ tmp' = AccountAfter(mem, KeyOf(o), plan[o], p)
       /\ price' = p
  /\ cur' = o /\ pc' = "save"
  /\ UNCHANGED <<disk, day, mem, kind, plan, exits, results>>

(* ... and renames it over the account file; only then is it the broker's state. *)
Replace ==
  /\ pc = "save"
  /\ disk' = tmp /\ mem' = tmp /\ tmp' = None
  /\ Report(cur, "FILLED")
  /\ pc' = "next" /\ cur' = None /\ price' = 0
  /\ UNCHANGED <<day, kind, exits>>

(* Fault: a failed write is reported as a fill. *)
SaveFailsSilently ==
  /\ pc = "save"
  /\ Report(cur, "FILLED")
  /\ pc' = "next" /\ cur' = None /\ price' = 0
  /\ UNCHANGED <<disk, tmp, day, mem, kind, exits>>

SaveFails ==
  /\ pc = "save"
  /\ Report(cur, "REJECTED")
  /\ pc' = "next" /\ cur' = None /\ price' = 0
  /\ UNCHANGED <<disk, tmp, day, mem, kind, exits>>

Next ==
  \/ Start \/ Crash \/ Finish \/ NextDay
  \/ PlanDaily \/ PlanRisk \/ PlanLiquidation
  \/ \E o \in OrderId : \/ SkipHedge(o) \/ RejectUnpriced(o) \/ Replay(o)
                        \/ RejectShort(o) \/ WriteTemp(o)
  \/ Replace \/ SaveFails

Spec == Init /\ [][Next]_vars

-----------------------------------------------------------------------------
Fill == {NoFill} \cup [qty : Nat \ {0}, price : Price]
Account == [cash : Nat, pos : [Ticker -> Nat], fills : [Key -> Fill]]

(* Cash and positions never become negative, on disk or in the process. *)
TypeOK ==
  /\ disk \in Account /\ mem \in Account /\ tmp \in Account \cup {None}
  /\ day \in 1..MaxDay
  /\ pc \in {"down", "plan", "next", "save"}
  /\ kind \in {"daily", "risk", "liquidation"}
  /\ plan \in [OrderId -> Nat] /\ exits \subseteq Ticker
  /\ cur \in OrderId \cup {None} /\ price \in Price \cup {0}
  /\ results \subseteq [order : OrderId, status : {"FILLED", "REJECTED", "SKIPPED"}]

KeysOf(t, s) == {k \in Key : k.order.ticker = t /\ k.order.side = s}
Shares(acc, t, s) == MapThenSumSet(LAMBDA k : acc.fills[k].qty, KeysOf(t, s))
Value(acc, s) == MapThenSumSet(LAMBDA k : acc.fills[k].qty * acc.fills[k].price,
                               {k \in Key : k.order.side = s})
FeesPaid(acc) == Fee * Cardinality({k \in Key : acc.fills[k] # NoFill})

(* At every crash point the account file balances: positions and cash are what
   its recorded fills add up to.                                              *)
AccountMatchesFills ==
  /\ \A t \in Ticker : disk.pos[t] = Shares(disk, t, "BUY") - Shares(disk, t, "SELL")
  /\ disk.cash = InitCash - Value(disk, "BUY") + Value(disk, "SELL") - FeesPaid(disk)

(* A FILLED result, which goes to the trade history and the dashboard, is a fill
   of the day in the account file: a crash cannot take it back.                *)
FilledIsDurable ==
  \A r \in results : r.status = "FILLED" => disk.fills[KeyOf(r.order)] # NoFill

(* Each key fills at most once, whatever is rerun after a crash or replayed by a
   later cycle: the account file implements the abstract ledger.               *)
Ledger == INSTANCE FillLedger
            WITH cash <- disk.cash, pos <- disk.pos, fills <- disk.fills
ExactlyOnce == Ledger!LedgerSpec

(* A hedge entry fills only after the account file holds a fill of the day for
   the exit order of every long position the cycle planned to leave.           *)
HedgeAfterExitFills ==
  \A r \in results :
    r.order.ticker = Hedge /\ r.order.side = "BUY" /\ r.status = "FILLED" =>
      \A t \in exits : \E o \in OrderId :
        o.ticker = t /\ o.side = "SELL" /\ disk.fills[KeyOf(o)] # NoFill
=============================================================================
