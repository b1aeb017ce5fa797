------------------------------ MODULE Planning ------------------------------
(***************************************************************************)
(* The daily batch of LiveTrader between the gate and the orders: every    *)
(* held position and every candidate gets a target weight, the targets pass *)
(* through one stage after another, and the orders are what is left.       *)
(*                                                                         *)
(* Money is counted in ten-thousandths of the account (total_eval), so a   *)
(* weight and its value are the same number and round(weight, 4) is         *)
(* rounding to an integer.                                                 *)
(***************************************************************************)
EXTENDS Integers, FiniteSetsExt

CONSTANTS
  Ticker, Hedge,      \* ordinary symbols, and the inverse ETF
  Cases, HedgeCases,  \* bound: the facts that may be known of a symbol
  Blocks,             \* bound: which circuit breakers may be active
  HedgeStage,         \* bound: stage weights of the hedge policy
  MaxWeight,          \* max_position_weight
  Gross,              \* the gross exposure of 90 %
  TransitionCap,      \* transition_max_gross_exposure
  EntrySize, Keep,    \* TRANSITION_ENTRY_SIZE; TRANSITION_KEEP_RATIO, in percent
  Band,               \* rebalance_band, in percent
  StopLoss, Trailing, \* in percent
  MinScore, ExitScore,            \* minimum_company_fa_score, FA_SCORE_EXIT
  HedgeEnabled, ForceRebalance

Symbol == Ticker \cup {Hedge}
NoScore == -1
Today == {"NONE", "FILLED", "BLOCKED"}  \* the day's orders of a symbol and side

(* What a batch knows of a symbol. *)
Facts == [
  qty : Nat, avg : Nat, price : Nat, peak : Nat,  \* the broker's position
  close : Nat,               \* last completed close, 0 without a fresh bar
  usable : BOOLEAN,          \* enough bars for the indicators
  score : {NoScore} \cup Nat,
  indebted : BOOLEAN,        \* debt ratio known and over the limit
  falling : BOOLEAN,         \* fast moving average below the slow one
  sound : BOOLEAN, rising : BOOLEAN,  \* valid_fa, valid_ta
  size : Nat,                \* entry weight for the momentum
  risky : BOOLEAN,           \* in company_risk's blocked codes
  sells : Today, buys : Today]

Unknown == [qty |-> 0, avg |-> 0, price |-> 0, peak |-> 0, close |-> 0, usable |-> FALSE,
            score |-> NoScore, indebted |-> FALSE, falling |-> FALSE, sound |-> FALSE,
            rising |-> FALSE, size |-> 0, risky |-> FALSE, sells |-> "NONE", buys |-> "NONE"]

ASSUME PlanningAssumption ==
  /\ Hedge \notin Ticker /\ IsFiniteSet(Ticker)
  /\ Cases \subseteq Facts /\ HedgeCases \subseteq Facts
  /\ \A c \in Cases \cup HedgeCases :
       /\ c.qty > 0 => c.avg > 0
       /\ c.usable => c.close > 0
       /\ c.sound => c.score >= MinScore /\ ~c.indebted
       /\ c.rising => ~c.falling
  /\ \A c \in HedgeCases : ~c.sound  \* an ETF is scored by nobody
  /\ HedgeStage \subseteq Nat /\ Blocks \subseteq SUBSET {"DEPENDENCY", "LEDGER", "LOSS"}
  /\ {Gross, TransitionCap, EntrySize, MinScore, ExitScore} \subseteq Nat
  /\ MaxWeight \in Nat \ {0}
  /\ {Keep, Band, StopLoss, Trailing} \subseteq 0..100
  /\ HedgeEnabled \in BOOLEAN /\ ForceRebalance \in BOOLEAN

Regime == {"UPTREND", "SIDEWAYS", "TRANSITION", "DOWNTREND", "UNAVAILABLE"}

VARIABLES
  stage,
  facts, regime, riskKnown,  \* account and data of the batch, read once
  goal,                      \* what the hedge policy asks for
  blocks,                    \* active entry circuit breakers
  target, reason,            \* target_positions, target_details
  conviction, remaining, budget,  \* locals of the allocation
  sell, buy, after           \* planned shares; the exits a hedge entry waits for

inputs == <<facts, regime, riskKnown, goal, blocks>>
locals == <<conviction, remaining, budget>>
orders == <<sell, buy, after>>
vars == <<stage, inputs, target, reason, locals, orders>>

Zero == [t \in Symbol |-> 0]
NoReason == [t \in Symbol |-> "NONE"]
NoGoal == [weight |-> 0, reason |-> "INVERSE_HEDGE_INACTIVE"]
Round(n, d) == (2 * n + d) \div (2 * d)
SumOf(f, S) == MapThenSumSet(LAMBDA t : f[t], S)
AtMost(a, b) == IF a <= b THEN a ELSE b
AtLeast(a, b) == IF a >= b THEN a ELSE b

Held(t) == facts[t].qty > 0

(* current_price, or else avg_price *)
Value(f) == f.qty * (IF f.price > 0 THEN f.price ELSE f.avg)

Init ==
  /\ stage = "idle"
  /\ facts = [t \in Symbol |-> Unknown] /\ regime = "UNAVAILABLE" /\ riskKnown = FALSE
  /\ goal = NoGoal /\ blocks = {} /\ target = Zero /\ reason = NoReason
  /\ conviction = Zero /\ remaining = {} /\ budget = 0
  /\ sell = Zero /\ buy = Zero /\ after = {}

(* What the hedge policy may ask for, given the regime and its weight w. *)
Goals(r, w) ==
  LET ask(g, why) == [weight |-> g, reason |-> why]
      entry(g) == IF w = 0 THEN "INVERSE_HEDGE_ENTRY"
                  ELSE IF g > w + 10 THEN "INVERSE_HEDGE_SCALE_UP" ELSE "INVERSE_HEDGE_HOLD"
      regimeGoals ==
        CASE r = "UNAVAILABLE" -> {ask(w, IF w > 0 THEN "INVERSE_HEDGE_DATA_UNAVAILABLE_HOLD"
                                          ELSE "INVERSE_HEDGE_WAIT_DATA")}
          [] r = "DOWNTREND" -> {ask(0, "INVERSE_HEDGE_WAIT_CONFIRMATION")}
                                \cup {ask(g, entry(g)) : g \in HedgeStage}
          [] OTHER -> {ask(0, IF w > 0 THEN "DOWNTREND_EXIT" ELSE "INVERSE_HEDGE_INACTIVE")}
  IN IF ~HedgeEnabled THEN {NoGoal}
     ELSE regimeGoals \cup {ask(0, "INVERSE_HEDGE_STOP_LOSS") : x \in {w} \ {0}}

(* A batch reads the account and the day's data.  Missing market regime or company
   risk data is a dependency error and blocks entries.                           *)
Begin ==
  /\ stage = "idle" /\ stage' = "evaluate"
  /\ \E c \in [Ticker -> Cases], h \in HedgeCases :
       facts' = [t \in Symbol |-> IF t = Hedge THEN h ELSE c[t]]
  /\ MapThenSumSet(LAMBDA t : Value(facts'[t]), Symbol) <= 10000
  /\ regime' \in Regime /\ riskKnown' \in BOOLEAN
  /\ goal' \in Goals(regime', Value(facts'[Hedge]))
  /\ \E b \in Blocks :
       blocks' = IF regime' = "UNAVAILABLE" \/ ~riskKnown' THEN b \cup {"DEPENDENCY"} ELSE b
  /\ UNCHANGED <<target, reason, locals, orders>>

-----------------------------------------------------------------------------
(* The signals of one symbol                                               *)

(* evaluate_position_risk: the broker's prices alone. *)
RiskExit(f) ==
  IF f.qty = 0 \/ f.price = 0 THEN "RISK_CLEAR"
  ELSE IF f.price * 100 <= f.avg * (100 - StopLoss) THEN "HARD_STOP_LOSS"
  ELSE IF f.peak > f.avg /\ f.price * 100 <= f.peak * (100 - Trailing) THEN "TRAILING_STOP"
  ELSE "RISK_CLEAR"

(* Exits by fundamentals and trend, in their order of precedence. *)
SignalExit(f) ==
  IF f.score # NoScore /\ f.score < ExitScore THEN "FA_SCORE_DETERIORATED"
  ELSE IF f.indebted THEN "FA_DEBT_LIMIT"
  ELSE IF f.falling THEN "TA_MOMENTUM_LOSS"
  ELSE "HOLD"

Decide(w, r) == [target |-> w, reason |-> r]

(* A position that no exit rule closes, in a transition. *)
Carried(f) ==
  IF Value(f) > EntrySize THEN Decide(Round(Value(f) * Keep, 100), "MARKET_TRANSITION_KEEP_HOLD")
  ELSE IF Value(f) < EntrySize /\ f.sound /\ f.rising
       THEN Decide(EntrySize, "TRANSITION_ENTRY_TOPUP")
  ELSE Decide(Value(f), "MARKET_TRANSITION_ENTRY_HOLD")

(* Fault: without data the position is kept before its prices are looked at. *)
HoldWithoutData(f) ==
  IF ~f.usable THEN Decide(Value(f), "DATA_UNAVAILABLE_HOLD")
  ELSE IF RiskExit(f) # "RISK_CLEAR" THEN Decide(0, RiskExit(f)) ELSE Decide(Value(f), "HOLD")

HeldTarget(f) ==
  IF RiskExit(f) # "RISK_CLEAR" THEN Decide(0, RiskExit(f))
  ELSE IF ~f.usable THEN Decide(Value(f), "DATA_UNAVAILABLE_HOLD")
  ELSE IF regime = "DOWNTREND" THEN Decide(0, "MARKET_DOWNTREND")
  ELSE IF SignalExit(f) # "HOLD" THEN Decide(0, SignalExit(f))
  ELSE IF regime = "TRANSITION" THEN Carried(f)
  ELSE Decide(Value(f), "HOLD")

(* Without data or risk list nothing is entered; a zero target needs no reason. *)
EntryTarget(f) ==
  CASE ~(f.usable /\ riskKnown /\ f.sound /\ f.rising) \/ f.risky -> Decide(0, "NONE")
    [] f.usable /\ riskKnown /\ f.sound /\ f.rising /\ ~f.risky ->
         IF regime = "TRANSITION" THEN Decide(EntrySize, "TRANSITION_ENTRY")
         ELSE IF regime \in {"UPTREND", "SIDEWAYS"} THEN Decide(f.size, "FA_TA_ENTRY")
         ELSE Decide(0, "NONE")

Decision(f) == IF f.qty > 0 THEN HeldTarget(f) ELSE EntryTarget(f)

EvaluateSignals ==
  /\ stage = "evaluate" /\ stage' = "hedge"
  /\ target' = [t \in Symbol |-> Decision(facts[t]).target]
  /\ reason' = [t \in Symbol |-> Decision(facts[t]).reason]
  /\ UNCHANGED <<inputs, locals, orders>>

(* Fault: longs stay to their own signals. *)
HedgeBesideLongs(t) ==
  IF t = Hedge /\ goal.weight > 0 THEN Decide(goal.weight, goal.reason)
  ELSE Decide(target[t], reason[t])

(* The hedge takes its own target, and a downtrend moves every long to cash. *)
HedgeOverride(t) ==
  CASE t = Hedge /\ (Held(Hedge) \/ goal.weight > 0) ->
         IF HedgeEnabled THEN Decide(goal.weight, goal.reason) ELSE Decide(0, "DOWNTREND_EXIT")
    [] t # Hedge /\ HedgeEnabled /\ regime = "DOWNTREND" -> Decide(0, "DOWNTREND")
    [] OTHER -> Decide(target[t], reason[t])

OverrideForHedge ==
  /\ stage = "hedge" /\ stage' = "allocate"
  /\ target' = [t \in Symbol |-> HedgeOverride(t).target]
  /\ reason' = [t \in Symbol |-> HedgeOverride(t).reason]
  /\ UNCHANGED <<inputs, locals, orders>>

-----------------------------------------------------------------------------
(* Portfolio limits                                                        *)

Protected == {"DATA_UNAVAILABLE_HOLD", "MARKET_TRANSITION_ENTRY_HOLD", "MARKET_TRANSITION_KEEP_HOLD",
              "INVERSE_HEDGE_DATA_UNAVAILABLE_HOLD", "INVERSE_HEDGE_WAIT_DATA", "INVERSE_HEDGE_HOLD",
              "INVERSE_HEDGE_ENTRY", "INVERSE_HEDGE_SCALE_UP", "INVERSE_HEDGE_WAIT_CONFIRMATION",
              "INVERSE_HEDGE_INACTIVE"}
Active == {t \in Symbol : target[t] > 0}
Kept == {t \in Active : reason[t] \in Protected}
Allocatable == Active \ Kept

Excess(t) == AtLeast(facts[t].score - MinScore, 0)

FullBudget ==
  AtMost(AtLeast(Gross - SumOf(target, Kept), 0), MaxWeight * Cardinality(Allocatable))

(* The weights of allocatable symbols are dealt out anew, by conviction. *)
StartAllocation ==
  /\ stage = "allocate" /\ stage' = "share"
  /\ remaining' = Allocatable
  /\ budget' = FullBudget
  /\ conviction' = [t \in Symbol |-> IF \E a \in Allocatable : Excess(a) > 0 THEN Excess(t) ELSE 1]
  /\ target' = [t \in Symbol |-> IF t \in Allocatable THEN 0 ELSE target[t]]
  /\ UNCHANGED <<inputs, reason, orders>>

ConvictionTotal == SumOf(conviction, remaining)
Sharing == stage = "share" /\ remaining # {} /\ budget > 0
Overweight == {t \in remaining : budget * conviction[t] >= MaxWeight * ConvictionTotal}

(* Faults: what the capped symbols take stays in the budget; they get nothing. *)
CapForFree ==
  /\ Sharing /\ ConvictionTotal > 0 /\ Overweight # {}
  /\ target' = [t \in Symbol |-> IF t \in Overweight THEN MaxWeight ELSE target[t]]
  /\ remaining' = remaining \ Overweight
  /\ UNCHANGED <<stage, inputs, reason, conviction, budget, orders>>

CapToNothing ==
  /\ Sharing /\ ConvictionTotal > 0 /\ Overweight # {}
  /\ remaining' = remaining \ Overweight
  /\ budget' = budget - MaxWeight * Cardinality(Overweight)
  /\ UNCHANGED <<stage, inputs, target, reason, conviction, orders>>

(* One pass of the loop: whoever would get MaxWeight or more gets MaxWeight and
   leaves, and the others share what is left.                                  *)
CapOverweight ==
  /\ Sharing /\ ConvictionTotal > 0 /\ Overweight # {}
  /\ target' = [t \in Symbol |-> IF t \in Overweight THEN MaxWeight ELSE target[t]]
  /\ remaining' = remaining \ Overweight
  /\ budget' = budget - MaxWeight * Cardinality(Overweight)
  /\ UNCHANGED <<stage, inputs, reason, conviction, orders>>

ShareOut ==
  /\ Sharing /\ ConvictionTotal > 0 /\ Overweight = {}
  /\ target' = [t \in Symbol |-> IF t \in remaining
                                 THEN Round(budget * conviction[t], ConvictionTotal) ELSE target[t]]
  /\ remaining' = {} /\ budget' = 0
  /\ UNCHANGED <<stage, inputs, reason, conviction, orders>>

(* ZeroDivisionError: only symbols without conviction are left to share. *)
DivisionByZero ==
  /\ Sharing /\ ConvictionTotal = 0
  /\ stage' = "failed"
  /\ UNCHANGED <<inputs, target, reason, locals, orders>>

AllocationDone ==
  /\ stage = "share" /\ (remaining = {} \/ budget <= 0)
  /\ stage' = "cap"
  /\ UNCHANGED <<inputs, target, reason, locals, orders>>

(* Fault: positions that are kept are not scaled. *)
EntriesScaled(t, total) ==
  IF t \in Kept THEN target[t] ELSE Round(target[t] * TransitionCap, total)

Scaled(t, total) == Round(target[t] * TransitionCap, total)

(* _apply_transition_exposure_cap: every active target is scaled down alike. *)
CapTransition ==
  /\ stage = "cap" /\ stage' = "block"
  /\ LET total == SumOf(target, Symbol)
     IN target' = IF regime = "TRANSITION" /\ total > TransitionCap
                  THEN [t \in Symbol |-> IF t \in Active THEN Scaled(t, total) ELSE target[t]]
                  ELSE target
  /\ UNCHANGED <<inputs, reason, locals, orders>>

(* Fault: only new entries are blocked. *)
EntryBlocked(t) == ~Held(t) /\ target[t] > 0

(* _apply_entry_circuit_breaker: nothing grows, what shrinks may shrink. *)
Blocked(t) == target[t] > Value(facts[t])

ApplyBreaker ==
  /\ stage = "block" /\ stage' = "order"
  /\ target' = [t \in Symbol |-> IF blocks # {} /\ Blocked(t) THEN Value(facts[t]) ELSE target[t]]
  /\ reason' = [t \in Symbol |-> IF blocks # {} /\ Blocked(t) THEN "ENTRY_BLOCK" ELSE reason[t]]
  /\ UNCHANGED <<inputs, locals, orders>>

-----------------------------------------------------------------------------
(* _calculate_orders                                                       *)

Urgent == {"HARD_STOP_LOSS", "TRAILING_STOP", "COMPANY_RISK_BLOCKED", "DOWNTREND", "DOWNTREND_EXIT",
           "INVERSE_HEDGE_STOP_LOSS", "INVERSE_HEDGE_MAX_HOLD", "FA_SCORE_DETERIORATED",
           "TA_MOMENTUM_LOSS"}

(* can_order: price guard, unknown result, open order and retry limit are BLOCKED. *)
MaySell(t) ==
  \/ facts[t].sells = "NONE"
  \/ facts[t].sells = "FILLED" /\ target[t] = 0 /\ reason[t] \in Urgent
MayBuy(t) ==
  \/ facts[t].buys = "NONE"
  \/ facts[t].buys = "FILLED" /\ Held(t) /\ ForceRebalance /\ reason[t] = "TRANSITION_ENTRY_TOPUP"

(* The broker's price, or else the last close. *)
Price(t) == IF Held(t) /\ facts[t].price > 0 THEN facts[t].price ELSE facts[t].close
Worth(t) == facts[t].qty * Price(t)

SellSize(t) ==
  IF Price(t) = 0 \/ ~MaySell(t) THEN 0
  ELSE IF target[t] = 0 THEN facts[t].qty
  ELSE IF Worth(t) * 100 > target[t] * (100 + Band) THEN (Worth(t) - target[t]) \div Price(t)
  ELSE 0

(* Fault: whatever differs from the target is bought. *)
BuyDifference(t) ==
  IF target[t] > 0 /\ Price(t) > 0 /\ MayBuy(t) THEN (target[t] - Worth(t)) \div Price(t) ELSE 0

BuySize(t) ==
  IF /\ target[t] > 0 /\ Price(t) > 0 /\ MayBuy(t)
     /\ Held(t) => Worth(t) * 100 < target[t] * (100 - Band)
  THEN (target[t] - Worth(t)) \div Price(t) ELSE 0

LongExits == {t \in Ticker : Held(t) /\ target[t] = 0}

CalculateOrders ==
  /\ stage = "order" /\ stage' = "done"
  /\ sell' = [t \in Symbol |-> SellSize(t)]
  /\ buy' = [t \in Symbol |-> BuySize(t)]
  /\ after' = IF reason[Hedge] \in {"INVERSE_HEDGE_ENTRY", "INVERSE_HEDGE_SCALE_UP"}
              THEN LongExits ELSE {}
  /\ UNCHANGED <<inputs, target, reason, locals>>

(* The batch returns its orders, or its exception ends the cycle. *)
Finish ==
  /\ stage \in {"done", "failed"} /\ stage' = "idle"
  /\ facts' = [t \in Symbol |-> Unknown] /\ regime' = "UNAVAILABLE" /\ riskKnown' = FALSE
  /\ goal' = NoGoal /\ blocks' = {} /\ target' = Zero /\ reason' = NoReason
  /\ conviction' = Zero /\ remaining' = {} /\ budget' = 0
  /\ sell' = Zero /\ buy' = Zero /\ after' = {}

Next ==
  \/ Begin \/ EvaluateSignals \/ OverrideForHedge
  \/ StartAllocation \/ CapOverweight \/ ShareOut \/ DivisionByZero \/ AllocationDone
  \/ CapTransition \/ ApplyBreaker \/ CalculateOrders \/ Finish

Spec == Init /\ [][Next]_vars

-----------------------------------------------------------------------------
Reasons == Protected \cup Urgent \cup {"NONE", "HOLD", "FA_DEBT_LIMIT", "MARKET_DOWNTREND",
  "TRANSITION_ENTRY", "TRANSITION_ENTRY_TOPUP", "FA_TA_ENTRY", "ENTRY_BLOCK"}

TypeOK ==
  /\ stage \in {"idle", "evaluate", "hedge", "allocate", "share", "cap", "block", "order",
                "done", "failed"}
  /\ facts \in [Symbol -> Facts] /\ regime \in Regime /\ riskKnown \in BOOLEAN
  /\ goal \in [weight : Nat, reason : Protected \cup Urgent]
  /\ blocks \subseteq {"DEPENDENCY", "LEDGER", "LOSS"}
  /\ target \in [Symbol -> Nat] /\ reason \in [Symbol -> Reasons]
  /\ conviction \in [Symbol -> Nat] /\ remaining \subseteq Symbol /\ budget \in Nat
  /\ sell \in [Symbol -> Nat] /\ buy \in [Symbol -> Nat] /\ after \subseteq Ticker

StopSold(t) ==
  RiskExit(facts[t]) # "RISK_CLEAR" /\ facts[t].sells # "BLOCKED" => sell[t] = facts[t].qty

(* A long that hit its hard or trailing stop is sold whole by every batch that
   completes, whatever market data, company risk, regime, hedge, portfolio limit,
   circuit breaker or earlier fill of the day it meets on the way.             *)
StopsAreSold == stage = "done" => \A t \in Ticker : StopSold(t)

(* The same of every batch that ends: evaluate_position_risk says that nothing but
   the price suppresses a stop.                                                *)
StopsAlwaysSold == stage \in {"done", "failed"} => \A t \in Ticker : StopSold(t)

(* While an entry circuit breaker is active nothing is bought, neither by an
   entry, a reallocation, a top-up nor the hedge: but for a position that the
   broker reports without a price, which is planned at two different prices.   *)
NoBuyUnderBreaker ==
  blocks # {} => \A t \in Symbol : buy[t] > 0 => Held(t) /\ facts[t].price = 0

(* The shares left of t once every order is filled. *)
Left(t) == facts[t].qty - sell[t] + buy[t]
Tradable(t) == facts[t].sells = "NONE" /\ Price(t) > 0

(* In a transition, orders that all fill leave the account within the cap, up to
   the rebalance band, one share and the rounding of each symbol.              *)
TransitionWithinCap ==
  /\ stage = "done" /\ regime = "TRANSITION"
  /\ \A t \in Symbol : Held(t) => Tradable(t)
  => SumOf([t \in Symbol |-> Left(t) * Price(t)], Symbol)
       <= (TransitionCap * (100 + Band)) \div 100 + SumOf([t \in Symbol |-> Price(t) + 2], Symbol)

(* Whatever the positions and scores, the allocation stays within 90 percent of the
   account (with what it has to keep) and within the limit of each symbol.     *)
AllocationWithinLimits ==
  stage \in {"cap", "block"} =>
    /\ \A t \in Symbol \ Kept : target[t] <= MaxWeight
    /\ SumOf(target, Symbol) <= AtLeast(Gross, SumOf(target, Kept)) + Cardinality(Symbol)

(* What the positions without data leave of the gross exposure is one ten-thousandth for
   every point of conviction or more: no share of it rounds down to nothing.  *)
Room ==
  SumOf([t \in Symbol |-> IF facts[t].usable THEN 0 ELSE Value(facts[t])], Symbol)
    + SumOf([t \in Symbol |-> Excess(t)], Symbol) <= Gross

Strong(t) == Held(t) /\ HeldTarget(facts[t]).reason = "HOLD" /\ facts[t].score > MinScore

(* A held position that no exit rule closes and whose score earns conviction is
   not sold out by the reallocation: new candidates never displace it entirely. *)
StrongIsKept ==
  stage = "done" /\ regime \in {"UPTREND", "SIDEWAYS"} /\ Room =>
    \A t \in Ticker : Strong(t) => sell[t] < facts[t].qty

(* A hedge is entered or increased only in a downtrend, in a batch that buys no long,
   and behind the exit of every long that is held.                             *)
HedgeReplacesLongs ==
  stage = "done" /\ buy[Hedge] > 0 /\ (Held(Hedge) => facts[Hedge].price > 0) =>
    /\ regime = "DOWNTREND" /\ after = {t \in Ticker : Held(t)}
    /\ \A t \in Ticker : buy[t] = 0
=============================================================================
