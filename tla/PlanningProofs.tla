--------------------------- MODULE PlanningProofs ---------------------------
(***************************************************************************)
(* Theorems about the daily batch, for every number of symbols and every    *)
(* setting of the limits: stops and the hedge survive the later stages, the *)
(* breaker, the allocation's limits and the transition cap hold, and a      *)
(* strong position is not sold for lack of weight.                          *)
(***************************************************************************)
EXTENDS Planning, SumTheorems

USE PlanningAssumption DEF PlanningAssumption, Symbol

Decided == {"hedge", "allocate", "share", "cap", "block", "order"}

FactsInv == facts \in [Symbol -> Facts]

(* A stop stays: its target is 0, outside the allocation, for an urgent reason. *)
StopInv ==
  \A t \in Ticker : RiskExit(facts[t]) # "RISK_CLEAR" =>
    /\ stage \in Decided => target[t] = 0 /\ reason[t] \in Urgent
    /\ stage = "share" => t \notin remaining
    /\ stage = "done" => StopSold(t)

LEMMA FactTypes ==
  ASSUME NEW f \in Facts
  PROVE  /\ f.qty \in Nat /\ f.avg \in Nat /\ f.price \in Nat /\ f.close \in Nat
         /\ f.sells \in Today /\ f.buys \in Today
BY DEF Facts

LEMMA ValueType ==
  ASSUME NEW f \in Facts
  PROVE  /\ Value(f) \in Nat
         /\ f.qty = 0 => Value(f) = 0
         /\ f.price > 0 => Value(f) = f.qty * f.price
BY FactTypes DEF Value

LEMMA FactsInit == Init => FactsInv
BY DEF Init, FactsInv, Unknown, Facts, Today, NoScore

LEMMA FactsNext == FactsInv /\ [Next]_vars => FactsInv'
<1> SUFFICES ASSUME FactsInv, [Next]_vars PROVE FactsInv'
  OBVIOUS
<1>1. CASE Begin
  <2>1. PICK c \in [Ticker -> Cases], h \in HedgeCases :
          facts' = [t \in Symbol |-> IF t = Hedge THEN h ELSE c[t]]
    BY <1>1 DEF Begin
  <2> QED BY <2>1 DEF FactsInv
<1>2. CASE Finish
  BY <1>2 DEF Finish, FactsInv, Unknown, Facts, Today, NoScore
<1>3. CASE ~Begin /\ ~Finish
  BY <1>3 DEF Next, vars, inputs, FactsInv, EvaluateSignals, OverrideForHedge, StartAllocation,
              CapOverweight, ShareOut, DivisionByZero, AllocationDone, CapTransition,
              ApplyBreaker, CalculateOrders
<1> QED BY <1>1, <1>2, <1>3

LEMMA StopIsUrgent ==
  ASSUME NEW f, RiskExit(f) # "RISK_CLEAR"
  PROVE  RiskExit(f) \in Urgent /\ f.qty # 0 /\ f.price # 0
BY DEF RiskExit, Urgent

LEMMA StopNext == FactsInv /\ StopInv /\ [Next]_vars => StopInv'
<1> SUFFICES ASSUME FactsInv, StopInv, [Next]_vars, NEW t \in Ticker,
                    RiskExit(facts'[t]) # "RISK_CLEAR"
             PROVE  /\ stage' \in Decided => target'[t] = 0 /\ reason'[t] \in Urgent
                    /\ stage' = "share" => t \notin remaining'
                    /\ stage' = "done" => StopSold(t)'
  BY DEF StopInv
<1>1. CASE Begin \/ Finish \/ DivisionByZero
  BY <1>1 DEF Begin, Finish, DivisionByZero, Decided
<1>2. CASE EvaluateSignals
  <2>1. Decision(facts[t]) = [target |-> 0, reason |-> RiskExit(facts[t])]
    BY <1>2, StopIsUrgent, FactTypes DEF EvaluateSignals, inputs, Decision, HeldTarget, Decide, FactsInv
  <2> QED BY <1>2, <2>1, StopIsUrgent DEF EvaluateSignals, inputs, Decided
<1>3. CASE OverrideForHedge
  <2>1. HedgeOverride(t) \in {Decide(target[t], reason[t]), Decide(0, "DOWNTREND")}
    BY DEF HedgeOverride
  <2> QED BY <1>3, <2>1 DEF OverrideForHedge, inputs, Decide, Decided, StopInv, Urgent
<1>4. CASE StartAllocation
  BY <1>4 DEF StartAllocation, inputs, Allocatable, Active, Decided, StopInv
<1>5. CASE CapOverweight \/ ShareOut \/ AllocationDone
  BY <1>5 DEF CapOverweight, ShareOut, AllocationDone, Sharing, Overweight, inputs, Decided, StopInv
<1>6. CASE CapTransition
  BY <1>6 DEF CapTransition, inputs, Active, Decided, StopInv
<1>7. CASE ApplyBreaker
  <2>1. Value(facts[t]) \in Nat
    BY ValueType DEF FactsInv
  <2>2. ~Blocked(t)
    BY <1>7, <2>1 DEF ApplyBreaker, inputs, Blocked, Decided, StopInv
  <2> QED BY <1>7, <2>2 DEF ApplyBreaker, inputs, Decided, StopInv
<1>8. CASE CalculateOrders
  <2>1. target[t] = 0 /\ reason[t] \in Urgent /\ RiskExit(facts[t]) # "RISK_CLEAR"
    BY <1>8 DEF CalculateOrders, inputs, Decided, StopInv
  <2>2. facts[t].qty > 0 /\ facts[t].price > 0 /\ facts[t].sells \in Today
    BY <2>1, StopIsUrgent, FactTypes DEF FactsInv
  <2>3. facts[t].sells # "BLOCKED" => SellSize(t) = facts[t].qty
    BY <2>1, <2>2 DEF SellSize, Price, MaySell, Held, Today
  <2> QED BY <1>8, <2>3 DEF CalculateOrders, inputs, StopSold, Decided
<1>9. CASE UNCHANGED vars
  BY <1>9 DEF vars, inputs, locals, orders, StopInv, StopSold
<1> QED BY <1>1, <1>2, <1>3, <1>4, <1>5, <1>6, <1>7, <1>8, <1>9 DEF Next

LEMMA StopInit == Init => StopInv
BY DEF Init, StopInv, Decided

(* A batch that completes sells every long that is at its stop. *)
THEOREM StopsSurvive == Spec => []StopsAreSold
<1>1. StopInv => StopsAreSold
  BY DEF StopInv, StopsAreSold, StopSold
<1> QED BY <1>1, FactsInit, FactsNext, StopInit, StopNext, PTL DEF Spec

-----------------------------------------------------------------------------
(* What the policy may ask for: only a downtrend brings a new hedge. *)
GoalInv ==
  LET w == Value(facts[Hedge])
  IN stage # "idle" =>
       /\ goal.weight \in Nat
       /\ goal.weight > 0 =>
            /\ HedgeEnabled /\ goal.reason \in Protected
            /\ \/ regime = "UNAVAILABLE" /\ goal.weight = w
               \/ /\ regime = "DOWNTREND" /\ goal.weight \in HedgeStage
                  /\ \/ goal.reason \in {"INVERSE_HEDGE_ENTRY", "INVERSE_HEDGE_SCALE_UP"}
                     \/ w > 0 /\ goal.weight <= w + 10

(* The hedge's target is what the policy asked for, untouched by the allocation; the
   longs of a downtrend have none.                                             *)
HedgeInv ==
  /\ stage = "hedge" /\ ~Held(Hedge) => target[Hedge] = 0
  /\ stage \in Decided \ {"hedge"} =>
       /\ target[Hedge] \in Nat
       /\ \/ target[Hedge] = 0
          \/ target[Hedge] = goal.weight /\ reason[Hedge] = goal.reason
          \/ stage = "order" /\ target[Hedge] = Value(facts[Hedge])
       /\ stage = "share" => Hedge \notin remaining
       /\ HedgeEnabled /\ regime = "DOWNTREND" =>
            \A t \in Ticker : target[t] = 0 /\ (stage = "share" => t \notin remaining)

HedgeFacts == facts \in [Symbol -> Facts] /\ (stage # "idle" => facts[Hedge] \in HedgeCases)

LEMMA GoalsSpecified ==
  ASSUME NEW r \in Regime, NEW w \in Nat, NEW g \in Goals(r, w)
  PROVE  /\ g.weight \in Nat
         /\ g.weight > 0 =>
              /\ HedgeEnabled /\ g.reason \in Protected
              /\ \/ r = "UNAVAILABLE" /\ g.weight = w
                 \/ /\ r = "DOWNTREND" /\ g.weight \in HedgeStage
                    /\ \/ g.reason \in {"INVERSE_HEDGE_ENTRY", "INVERSE_HEDGE_SCALE_UP"}
                       \/ w > 0 /\ g.weight <= w + 10
BY DEF Goals, Regime, NoGoal, Protected

LEMMA HedgeInit == Init => HedgeFacts /\ GoalInv /\ HedgeInv
BY FactsInit DEF Init, HedgeFacts, FactsInv, GoalInv, HedgeInv, Decided

(* Between its beginning and its end a batch works on what it has read. *)
LEMMA BatchGoesOn ==
  ASSUME [Next]_vars, ~Begin, ~Finish
  PROVE  inputs' = inputs /\ (stage = "idle" => stage' = "idle")
BY DEF Next, vars, EvaluateSignals, OverrideForHedge, StartAllocation, CapOverweight, ShareOut,
       DivisionByZero, AllocationDone, CapTransition, ApplyBreaker, CalculateOrders, Sharing

LEMMA HedgeFactsNext == HedgeFacts /\ [Next]_vars => HedgeFacts'
<1> SUFFICES ASSUME HedgeFacts, [Next]_vars PROVE HedgeFacts'
  OBVIOUS
<1>1. facts' \in [Symbol -> Facts]
  BY FactsNext DEF HedgeFacts, FactsInv
<1>2. CASE Begin
  <2>1. PICK c \in [Ticker -> Cases], h \in HedgeCases :
          facts' = [t \in Symbol |-> IF t = Hedge THEN h ELSE c[t]]
    BY <1>2 DEF Begin
  <2> QED BY <1>1, <2>1 DEF HedgeFacts
<1>3. CASE Finish
  BY <1>1, <1>3 DEF Finish, HedgeFacts
<1>4. CASE ~Begin /\ ~Finish
  BY <1>1, <1>4, BatchGoesOn DEF inputs, HedgeFacts
<1> QED BY <1>2, <1>3, <1>4

LEMMA GoalNext == HedgeFacts /\ GoalInv /\ [Next]_vars => GoalInv'
<1> SUFFICES ASSUME HedgeFacts, GoalInv, [Next]_vars PROVE GoalInv'
  OBVIOUS
<1>1. CASE Begin
  <2>1. Value(facts'[Hedge]) \in Nat
    BY HedgeFactsNext, ValueType DEF HedgeFacts
  <2>2. regime' \in Regime /\ goal' \in Goals(regime', Value(facts'[Hedge]))
    BY <1>1 DEF Begin
  <2> QED BY <2>1, <2>2, GoalsSpecified DEF GoalInv
<1>2. CASE Finish
  BY <1>2 DEF Finish, GoalInv
<1>3. CASE ~Begin /\ ~Finish
  BY <1>3, BatchGoesOn DEF inputs, GoalInv
<1> QED BY <1>1, <1>2, <1>3

(* Nothing enters the hedge as if it were a stock. *)
LEMMA HedgeUnscored ==
  ASSUME HedgeFacts, stage # "idle", ~Held(Hedge)
  PROVE  Decision(facts[Hedge]) = Decide(0, "NONE")
BY FactTypes DEF HedgeFacts, Held, Decision, EntryTarget, Decide

LEMMA HedgeNext == HedgeFacts /\ GoalInv /\ HedgeInv /\ [Next]_vars => HedgeInv'
<1> SUFFICES ASSUME HedgeFacts, GoalInv, HedgeInv, [Next]_vars PROVE HedgeInv'
  OBVIOUS
<1> DEFINE w == Value(facts[Hedge])
<1>0. w \in Nat
  BY ValueType DEF HedgeFacts
<1>1. CASE Begin \/ Finish \/ DivisionByZero \/ EvaluateSignals \/ CalculateOrders
  BY <1>1, HedgeUnscored
     DEF Begin, Finish, DivisionByZero, EvaluateSignals, CalculateOrders, inputs, Held, Decide,
         HedgeInv, Decided
<1>2. CASE OverrideForHedge
  <2>1. goal.weight \in Nat /\ (target[Hedge] = 0 \/ Held(Hedge))
    BY <1>2 DEF OverrideForHedge, HedgeInv, GoalInv
  <2>2. \/ HedgeOverride(Hedge) = Decide(goal.weight, goal.reason)
        \/ HedgeOverride(Hedge).target = 0
    BY <2>1 DEF HedgeOverride, Decide
  <2>3. \A t \in Ticker : HedgeEnabled /\ regime = "DOWNTREND" => HedgeOverride(t).target = 0
    BY DEF HedgeOverride, Decide
  <2> QED BY <1>2, <2>1, <2>2, <2>3 DEF OverrideForHedge, inputs, HedgeInv, Decide, Decided
<1>3. CASE StartAllocation
  <2>1. Hedge \notin Allocatable
    BY <1>3 DEF StartAllocation, Allocatable, Kept, Active, HedgeInv, GoalInv, Decided
  <2>2. stage = "allocate" /\ stage' = "share" /\ target'[Hedge] = target[Hedge]
    BY <1>3, <2>1 DEF StartAllocation
  <2> QED
    BY <1>3, <2>1, <2>2 DEF StartAllocation, inputs, HedgeInv, Allocatable, Active, Decided
<1>4. CASE CapOverweight \/ ShareOut \/ AllocationDone
  BY <1>4 DEF CapOverweight, ShareOut, AllocationDone, Sharing, Overweight, inputs, HedgeInv, Decided
<1>5. CASE CapTransition
  <2>1. regime = "TRANSITION" => target[Hedge] = 0
    BY <1>5 DEF CapTransition, HedgeInv, GoalInv, Decided
  <2> QED BY <1>5, <2>1 DEF CapTransition, inputs, HedgeInv, Active, Decided
<1>6. CASE ApplyBreaker
  <2>1. \A t \in Ticker : Value(facts[t]) \in Nat
    BY ValueType DEF HedgeFacts
  <2>2. target[Hedge] = 0 => ~Blocked(Hedge)
    BY <1>0 DEF Blocked
  <2>3. \A t \in Ticker : target[t] = 0 => ~Blocked(t)
    BY <2>1 DEF Blocked
  <2> QED BY <1>0, <1>6, <2>2, <2>3 DEF ApplyBreaker, inputs, HedgeInv, Decided
<1>7. CASE UNCHANGED vars
  BY <1>7 DEF vars, inputs, locals, orders, HedgeInv, Held, Value
<1> QED BY <1>1, <1>2, <1>3, <1>4, <1>5, <1>6, <1>7 DEF Next

(* The band of every stage is at least 10, the policy's 0.1 percent. *)
Spread == \A g \in HedgeStage : g * Band >= 1000

(* A hedge that is bought: in a downtrend, entered or scaled up, and no long with it. *)
LEMMA HedgeOrders ==
  ASSUME Spread, HedgeFacts, GoalInv, HedgeInv, CalculateOrders, BuySize(Hedge) > 0,
         Held(Hedge) => facts[Hedge].price > 0
  PROVE  /\ regime = "DOWNTREND" /\ HedgeEnabled
         /\ reason[Hedge] \in {"INVERSE_HEDGE_ENTRY", "INVERSE_HEDGE_SCALE_UP"}
<1> DEFINE w == Value(facts[Hedge])
<1>1. stage = "order"
  BY DEF CalculateOrders
<1>2. target[Hedge] > 0 /\ (Held(Hedge) => Worth(Hedge) * 100 < target[Hedge] * (100 - Band))
  BY DEF BuySize
<1>3. w \in Nat /\ (~Held(Hedge) => w = 0) /\ (Held(Hedge) => Worth(Hedge) = w)
  BY FactTypes, ValueType DEF HedgeFacts, Held, Worth, Price
<1>4. target[Hedge] # w
  BY <1>2, <1>3
<1>5. target[Hedge] = goal.weight /\ reason[Hedge] = goal.reason /\ goal.weight > 0
  BY <1>1, <1>2, <1>4 DEF HedgeInv, Decided
<1>6. HedgeEnabled /\ regime = "DOWNTREND" /\ goal.weight \in HedgeStage
  BY <1>1, <1>4, <1>5 DEF GoalInv
<1>7. ASSUME w > 0, goal.weight <= w + 10 PROVE FALSE
  <2> DEFINE g == goal.weight
  <2>0. w # 0
    BY <1>3, <1>7
  <2>1. g \in Nat /\ Held(Hedge)
    BY <1>3, <1>6, <2>0
  <2>2. w * 100 < g * (100 - Band)
    BY <1>2, <1>3, <1>5, <2>1
  <2>3. g * (100 - Band) = g * 100 - g * Band
    BY <2>1
  <2>4. g * Band >= 1000 /\ g * Band \in Nat
    BY <1>6, <2>1 DEF Spread
  <2> QED BY <1>3, <1>7, <2>1, <2>2, <2>3, <2>4
<1> QED BY <1>1, <1>5, <1>6, <1>7 DEF GoalInv

(* The same once the orders are calculated. *)
HedgeDone ==
  stage = "done" /\ buy[Hedge] > 0 /\ (Held(Hedge) => facts[Hedge].price > 0) =>
    /\ regime = "DOWNTREND" /\ after = {t \in Ticker : Held(t)}
    /\ \A t \in Ticker : buy[t] = 0

LEMMA HedgeDoneNext ==
  Spread /\ HedgeFacts /\ GoalInv /\ HedgeInv /\ HedgeDone /\ [Next]_vars => HedgeDone'
<1> SUFFICES ASSUME Spread, HedgeFacts, GoalInv, HedgeInv, HedgeDone, [Next]_vars
             PROVE  HedgeDone'
  OBVIOUS
<1>1. CASE CalculateOrders
  <2> SUFFICES ASSUME BuySize(Hedge) > 0, Held(Hedge) => facts[Hedge].price > 0
               PROVE  /\ regime = "DOWNTREND" /\ after' = {t \in Ticker : Held(t)}
                      /\ \A t \in Ticker : BuySize(t) = 0
    BY <1>1 DEF CalculateOrders, HedgeDone, inputs, Held
  <2>1. /\ regime = "DOWNTREND" /\ HedgeEnabled
        /\ reason[Hedge] \in {"INVERSE_HEDGE_ENTRY", "INVERSE_HEDGE_SCALE_UP"}
    BY <1>1, HedgeOrders
  <2>2. \A t \in Ticker : target[t] = 0
    BY <1>1, <2>1 DEF CalculateOrders, HedgeInv, Decided
  <2> QED BY <1>1, <2>1, <2>2 DEF CalculateOrders, LongExits, BuySize
<1>2. CASE stage' # "done"
  BY <1>2 DEF HedgeDone
<1>3. CASE UNCHANGED vars
  BY <1>3 DEF vars, inputs, orders, HedgeDone, Held
<1>4. Next /\ ~CalculateOrders => stage' # "done"
  BY DEF Next, Begin, EvaluateSignals, OverrideForHedge, StartAllocation, CapOverweight, ShareOut,
         DivisionByZero, AllocationDone, CapTransition, ApplyBreaker, Finish, Sharing
<1> QED BY <1>1, <1>2, <1>3, <1>4

(* When the rebalance band of the smallest hedge stage covers the 0.1 percent by which the
   policy must exceed the held weight to scale up (Spread), a hedge that is bought stands
   alone: in a downtrend, with no long bought beside it, and behind the exit of every long
   that is held (plan_inverse_hedge and _calculate_orders).                         *)
THEOREM HedgeComesAlone == ASSUME Spread PROVE Spec => []HedgeReplacesLongs
<1>1. HedgeDone => HedgeReplacesLongs
  BY DEF HedgeDone, HedgeReplacesLongs
<1>2. Init => HedgeDone
  BY DEF Init, HedgeDone
<1>3. Spread
  OBVIOUS
<1>4. HedgeDone /\ HedgeFacts /\ GoalInv /\ HedgeInv /\ [Next]_vars
        => (HedgeDone /\ HedgeFacts /\ GoalInv /\ HedgeInv)'
  BY <1>3, HedgeDoneNext, HedgeFactsNext, GoalNext, HedgeNext
<1> QED BY <1>1, <1>2, <1>4, HedgeInit, PTL DEF Spec

-----------------------------------------------------------------------------
(* Arithmetic                                                              *)

LEMMA Division ==
  ASSUME NEW a \in Nat, NEW b \in Nat, b # 0
  PROVE  a \div b \in Nat /\ b * (a \div b) <= a /\ a < b * (a \div b) + b
OBVIOUS

LEMMA Product ==
  ASSUME NEW a \in Nat, NEW b \in Nat
  PROVE  a * b \in Nat /\ a * b = b * a
OBVIOUS

LEMMA ProductGrows ==
  ASSUME NEW a \in Nat, NEW b \in Nat, NEW c \in Nat, b <= c
  PROVE  a * b <= a * c /\ b * a <= c * a
OBVIOUS

LEMMA ProductCancels ==
  ASSUME NEW a \in Int, NEW b \in Int, NEW c \in Nat, c # 0, c * a <= c * b
  PROVE  a <= b
OBVIOUS

LEMMA RoundBounds ==
  ASSUME NEW n \in Nat, NEW d \in Nat, d # 0
  PROVE  Round(n, d) \in Nat /\ d * Round(n, d) <= n + d /\ n < d * Round(n, d) + d
<1> DEFINE q == (2 * n + d) \div (2 * d)
           p == d * q
<1>1. q \in Nat /\ (2 * d) * q <= 2 * n + d /\ 2 * n + d < (2 * d) * q + 2 * d
  <2>1. 2 * n + d \in Nat /\ 2 * d \in Nat /\ 2 * d # 0
    OBVIOUS
  <2> QED BY <2>1, Division
<1>2. (2 * d) * q = 2 * p /\ p \in Nat
  BY <1>1
<1> HIDE DEF q, p
<1>3. p <= n + d /\ n < p + d
  BY <1>1, <1>2
<1> QED BY <1>1, <1>3 DEF Round, q, p

LEMMA SumIsTotal ==
  ASSUME NEW f, NEW S
  PROVE  SumOf(f, S) = Total(f, S)
BY DEF SumOf, Total

LEMMA SymbolsFinite ==
  /\ IsFiniteSet(Symbol) /\ Cardinality(Symbol) \in Nat
  /\ \A S \in SUBSET Symbol : IsFiniteSet(S) /\ Cardinality(S) \in Nat
<1>1. IsFiniteSet(Symbol)
  BY FS_AddElement
<1> QED BY <1>1, FS_Subset, FS_CardinalityType

LEMMA SumOfNaturals ==
  ASSUME NEW f, NEW S \in SUBSET Symbol, \A t \in S : f[t] \in Nat
  PROVE  SumOf(f, S) \in Nat
<1>1. IsFiniteSet(S)
  BY SymbolsFinite
<1> QED BY <1>1, TotalType, SumIsTotal

-----------------------------------------------------------------------------
(* Types                                                                   *)

LEMMA MoreFactTypes ==
  ASSUME NEW f \in Facts
  PROVE  /\ f.size \in Nat /\ f.peak \in Nat /\ f.usable \in BOOLEAN
         /\ f.score \in {NoScore} \cup Nat
BY DEF Facts

LEMMA DecisionType ==
  ASSUME NEW f \in Facts
  PROVE  Decision(f).target \in Nat /\ Decision(f).reason \in Reasons
<1>1. Value(f) \in Nat /\ f.size \in Nat
  BY ValueType, MoreFactTypes
<1>2. Round(Value(f) * Keep, 100) \in Nat
  <2>1. Value(f) * Keep \in Nat
    BY <1>1, Product
  <2> QED BY <2>1, RoundBounds
<1>3. /\ RiskExit(f) # "RISK_CLEAR" => RiskExit(f) \in Reasons
      /\ SignalExit(f) \in Reasons
  BY DEF RiskExit, SignalExit, Reasons, Urgent
<1>4. Carried(f).target \in Nat /\ Carried(f).reason \in Reasons
  BY <1>1, <1>2 DEF Carried, Decide, Reasons, Protected
<1>5. HeldTarget(f).target \in Nat /\ HeldTarget(f).reason \in Reasons
  BY <1>1, <1>3, <1>4 DEF HeldTarget, Decide, Reasons, Protected
<1>6. EntryTarget(f).target \in Nat /\ EntryTarget(f).reason \in Reasons
  <2>1. CASE ~(f.usable /\ riskKnown /\ f.sound /\ f.rising) \/ f.risky
    BY <2>1 DEF EntryTarget, Decide, Reasons
  <2>2. CASE f.usable /\ riskKnown /\ f.sound /\ f.rising /\ ~f.risky
    BY <1>1, <2>2 DEF EntryTarget, Decide, Reasons
  <2> QED BY <2>1, <2>2
<1> QED BY <1>5, <1>6 DEF Decision

LEMMA GoalType ==
  ASSUME NEW r \in Regime, NEW w \in Nat, NEW g \in Goals(r, w)
  PROVE  g \in [weight : Nat, reason : Protected \cup Urgent]
BY DEF Goals, Regime, NoGoal, Protected, Urgent

LEMMA PlanInit == Init => TypeOK
<1> SUFFICES ASSUME Init PROVE TypeOK
  OBVIOUS
<1>1. facts \in [Symbol -> Facts]
  BY FactsInit DEF FactsInv
<1>2. /\ target \in [Symbol -> Nat] /\ conviction \in [Symbol -> Nat]
      /\ sell \in [Symbol -> Nat] /\ buy \in [Symbol -> Nat]
  BY DEF Init, Zero
<1>3. reason \in [Symbol -> Reasons]
  BY DEF Init, NoReason, Reasons
<1>4. goal \in [weight : Nat, reason : Protected \cup Urgent]
  BY DEF Init, NoGoal, Protected
<1> QED BY <1>1, <1>2, <1>3, <1>4 DEF Init, TypeOK, Regime

LEMMA FullBudgetType ==
  ASSUME TypeOK
  PROVE  /\ FullBudget \in Nat
         /\ FullBudget <= AtLeast(Gross - SumOf(target, Kept), 0)
         /\ SumOf(target, Kept) \in Nat
<1>1. /\ Kept \in SUBSET Symbol /\ Allocatable \in SUBSET Symbol
      /\ \A t \in Kept : target[t] \in Nat
  BY DEF TypeOK, Kept, Allocatable, Active
<1>2. SumOf(target, Kept) \in Nat
  BY <1>1, SumOfNaturals
<1>3. MaxWeight * Cardinality(Allocatable) \in Nat
  BY <1>1, SymbolsFinite, Product
<1> QED BY <1>2, <1>3 DEF FullBudget, AtMost, AtLeast

LEMMA ExcessType ==
  ASSUME TypeOK, NEW t \in Symbol
  PROVE  Excess(t) \in Nat
<1>1. facts[t].score \in Int
  BY MoreFactTypes DEF TypeOK, NoScore
<1> QED BY <1>1 DEF Excess, AtLeast

(* The total of the convictions, and what the symbols that get the most take of it. *)
LEMMA Convictions ==
  ASSUME TypeOK, NEW S \in SUBSET remaining
  PROVE  /\ SumOf(conviction, S) \in Nat /\ ConvictionTotal \in Nat
         /\ SumOf(conviction, S) <= ConvictionTotal
         /\ ConvictionTotal = SumOf(conviction, S) + SumOf(conviction, remaining \ S)
         /\ SumOf(conviction, remaining \ S) \in Nat
         /\ Cardinality(S) \in Nat
<1>1. IsFiniteSet(remaining) /\ IsFiniteSet(S) /\ Cardinality(S) \in Nat
  BY SymbolsFinite DEF TypeOK
<1>2. \A t \in remaining : conviction[t] \in Nat
  BY DEF TypeOK
<1>3. /\ Total(conviction, S) <= Total(conviction, remaining)
      /\ Total(conviction, S) \in Nat /\ Total(conviction, remaining) \in Nat
  BY <1>1, <1>2, TotalSubset
<1>4. Total(conviction, remaining) = Total(conviction, S) + Total(conviction, remaining \ S)
  <2>1. \A t \in remaining : conviction[t] \in Int
    BY <1>2
  <2> QED BY <1>1, <2>1, TotalSplit
<1>5. Total(conviction, remaining \ S) \in Nat
  <2>1. IsFiniteSet(remaining \ S) /\ \A t \in remaining \ S : conviction[t] \in Nat
    BY <1>1, <1>2, FS_Subset
  <2> QED BY <2>1, TotalType
<1> QED BY <1>1, <1>3, <1>4, <1>5, SumIsTotal DEF ConvictionTotal

(* What the capped symbols take is never more than their share of the budget. *)
LEMMA CapFitsBudget ==
  ASSUME TypeOK, ConvictionTotal > 0
  PROVE  /\ MaxWeight * Cardinality(Overweight) \in Nat
         /\ MaxWeight * Cardinality(Overweight) <= budget
         /\ (budget - MaxWeight * Cardinality(Overweight)) * ConvictionTotal
              >= budget * SumOf(conviction, remaining \ Overweight)
<1> DEFINE O == Overweight
           C == ConvictionTotal
           n == Cardinality(O)
           s == SumOf(conviction, O)
           r == SumOf(conviction, remaining \ O)
           m == MaxWeight * C
<1>1. O \in SUBSET remaining
  BY DEF Overweight
<1>2. /\ s \in Nat /\ C \in Nat /\ C # 0 /\ s <= C /\ C = s + r /\ r \in Nat /\ n \in Nat
      /\ IsFiniteSet(O) /\ budget \in Nat
  <2>1. IsFiniteSet(O) /\ budget \in Nat
    BY <1>1, SymbolsFinite DEF TypeOK
  <2> HIDE DEF O
  <2>2. s \in Nat /\ C \in Nat /\ s <= C /\ C = s + r /\ r \in Nat /\ n \in Nat
    BY <1>1, Convictions
  <2>3. C # 0
    BY <2>2
  <2> QED BY <2>1, <2>2, <2>3
<1>3. m \in Nat /\ \A t \in O : budget * conviction[t] >= m
  <2>1. \A t \in O : budget * conviction[t] >= MaxWeight * ConvictionTotal
    BY DEF Overweight
  <2> QED BY <1>2, <2>1, Product
<1>4. budget * s >= m * n
  <2> HIDE DEF O, m
  <2>1. \A t \in O : conviction[t] \in Nat
    BY <1>1 DEF TypeOK
  <2>2. \A t \in O : 0 * conviction[t] <= budget * conviction[t] + 0 * conviction[t] + (-m)
    <3> SUFFICES ASSUME NEW t \in O
                 PROVE  0 * conviction[t] <= budget * conviction[t] + 0 * conviction[t] + (-m)
      OBVIOUS
    <3> DEFINE p == budget * conviction[t]
               c == conviction[t]
    <3>1. p >= m /\ p \in Int /\ c \in Nat
      BY <1>2, <1>3, <2>1
    <3>2. 0 * c = 0
      BY <3>1
    <3> HIDE DEF p, c
    <3>3. 0 * c <= p + 0 * c + (-m)
      BY <1>3, <3>1, <3>2
    <3> QED BY <3>3 DEF p, c
  <2>3. 0 * Total(conviction, O)
          <= budget * Total(conviction, O) + 0 * Total(conviction, O) + (-m) * n
    <3>1. -m \in Int /\ budget \in Int /\ 0 \in Int
      BY <1>2, <1>3
    <3>2. \A t \in O : conviction[t] \in Int /\ conviction[t] \in Int /\ conviction[t] \in Int
      BY <2>1
    <3> QED BY <1>2, <2>2, <3>1, <3>2, TotalLinear
  <2>4. Total(conviction, O) \in Nat
    BY <1>2, <2>1, TotalType
  <2>5. Total(conviction, O) = s
    BY SumIsTotal
  <2> HIDE DEF s, n
  <2>6. 0 * s <= budget * s + 0 * s + (-m) * n
    BY <2>3, <2>5
  <2>7. /\ (-m) * n = -(m * n) /\ m * n \in Nat /\ budget * s \in Nat
        /\ 0 * s = 0
    BY <1>2, <1>3
  <2> QED BY <2>6, <2>7
<1> HIDE DEF O, C, n, s, r
<1>5. MaxWeight * n \in Nat /\ m * n = C * (MaxWeight * n)
  BY <1>2
<1>6. budget * s <= budget * C /\ budget * C = C * budget
  BY <1>2, ProductGrows, Product
<1>7. budget * C = budget * s + budget * r
  BY <1>2
<1> DEFINE k == MaxWeight * n
<1> HIDE DEF m, k
<1>8. C * k <= C * budget
  <2>1. m * n = C * k /\ m * n \in Nat /\ budget * s \in Nat /\ budget * C \in Nat
    BY <1>2, <1>3, <1>5 DEF k
  <2> QED BY <1>4, <1>6, <2>1
<1>9. k <= budget
  BY <1>2, <1>5, <1>8, ProductCancels DEF k
<1>10. (budget - k) * C >= budget * r
  <2>1. k \in Nat
    BY <1>5 DEF k
  <2>2. (budget - k) * C = budget * C - C * k
    BY <1>2, <2>1
  <2>3. C * k \in Nat /\ budget * C \in Nat /\ budget * r \in Nat /\ budget * s \in Nat
    BY <1>2, <2>1
  <2>4. C * k <= budget * s
    <3>1. m * n = C * k
      BY <1>5 DEF k
    <3> QED BY <1>4, <3>1
  <2> QED BY <1>7, <2>2, <2>3, <2>4
<1> QED BY <1>5, <1>9, <1>10 DEF k, n, O, C, r

LEMMA WorthType ==
  ASSUME TypeOK, NEW t \in Symbol
  PROVE  /\ Price(t) \in Nat /\ Worth(t) \in Nat /\ target[t] \in Nat /\ facts[t].qty \in Nat
         /\ ~Held(t) => Worth(t) = 0
         /\ Worth(t) = facts[t].qty * Price(t)
         /\ facts[t] \in Facts
<1>1. facts[t] \in Facts /\ target[t] \in Nat
  BY DEF TypeOK
<1>2. Price(t) \in Nat /\ facts[t].qty \in Nat
  BY <1>1, FactTypes DEF Price
<1>3. Worth(t) \in Nat /\ (~Held(t) => Worth(t) = 0)
  <2> DEFINE q == facts[t].qty
             p == Price(t)
  <2>1. q * p \in Nat /\ (q = 0 => q * p = 0)
    BY <1>2
  <2> QED BY <1>2, <2>1 DEF Worth, Held
<1> QED BY <1>1, <1>2, <1>3 DEF Worth

(* What is sold never reaches below the target, and what is bought never above it. *)
LEMMA SellBounds ==
  ASSUME TypeOK, NEW t \in Symbol
  PROVE  /\ SellSize(t) \in Nat /\ SellSize(t) <= facts[t].qty
         /\ target[t] > 0 /\ facts[t].qty > 0 => SellSize(t) < facts[t].qty
         /\ SellSize(t) > 0 /\ target[t] > 0
              => /\ Worth(t) > target[t]
                 /\ Worth(t) - SellSize(t) * Price(t) < target[t] + Price(t)
<1> DEFINE q == facts[t].qty
           p == Price(t)
           w == Worth(t)
           g == target[t]
<1>1. p \in Nat /\ w \in Nat /\ g \in Nat /\ q \in Nat /\ w = q * p
  BY WorthType
<1>2. CASE SellSize(t) = 0 \/ g = 0
  BY <1>1, <1>2 DEF SellSize
<1>3. CASE SellSize(t) # 0 /\ g # 0
  <2>1. p # 0 /\ w * 100 > g * (100 + Band) /\ SellSize(t) = (w - g) \div p
    BY <1>3 DEF SellSize
  <2> DEFINE x == (w - g) \div p
  <2> HIDE DEF q, p, w, g
  <2>2. w > g
    <3>1. g * 100 <= g * (100 + Band)
      BY <1>1, ProductGrows
    <3>2. g * (100 + Band) \in Nat
      BY <1>1
    <3> QED BY <1>1, <2>1, <3>1, <3>2
  <2>3. x \in Nat /\ p * x <= w - g /\ w - g < p * x + p
    <3>1. w - g \in Nat
      BY <1>1, <2>2
    <3> QED BY <1>1, <2>1, <3>1, Division
  <2>4. x < q
    <3>1. CASE x >= q
      <4>1. p * q <= p * x /\ p * q = w
        BY <1>1, <2>3, <3>1, ProductGrows
      <4>2. p * x \in Nat
        BY <1>1, <2>3
      <4> QED BY <1>1, <1>3, <2>3, <4>1, <4>2
    <3> QED BY <1>1, <2>3, <3>1
  <2>5. w - x * p < g + p
    <3>1. x * p = p * x /\ p * x \in Nat
      BY <1>1, <2>3
    <3> QED BY <1>1, <2>3, <3>1
  <2> HIDE DEF x
  <2>6. SellSize(t) = x
    BY <2>1 DEF x
  <2> QED BY <1>1, <2>2, <2>3, <2>4, <2>5, <2>6 DEF q, p, w, g
<1> QED BY <1>2, <1>3

LEMMA BuyBounds ==
  ASSUME TypeOK, NEW t \in Symbol
  PROVE  /\ BuySize(t) \in Nat
         /\ BuySize(t) > 0 =>
              /\ target[t] > 0 /\ Worth(t) < target[t]
              /\ Worth(t) + BuySize(t) * Price(t) <= target[t]
<1> DEFINE p == Price(t)
           w == Worth(t)
           g == target[t]
<1>1. p \in Nat /\ w \in Nat /\ g \in Nat /\ (~Held(t) => w = 0)
  BY WorthType
<1>2. CASE BuySize(t) = 0
  BY <1>2
<1>3. CASE BuySize(t) # 0
  <2>1. /\ g > 0 /\ p > 0 /\ BuySize(t) = (g - w) \div p
        /\ Held(t) => w * 100 < g * (100 - Band)
    BY <1>3 DEF BuySize
  <2> DEFINE x == (g - w) \div p
  <2> HIDE DEF p, w, g
  <2>2. w < g
    <3>1. CASE Held(t)
      <4>1. 100 - Band \in Nat /\ 100 - Band <= 100
        OBVIOUS
      <4>2. g * (100 - Band) <= g * 100 /\ g * (100 - Band) \in Nat
        BY <1>1, <4>1, ProductGrows
      <4> QED BY <1>1, <2>1, <3>1, <4>2
    <3> QED BY <1>1, <2>1, <3>1
  <2>3. x \in Nat /\ p * x <= g - w
    BY <1>1, <2>1, <2>2, Division
  <2>4. w + x * p <= g
    <3>1. x * p = p * x /\ p * x \in Nat
      BY <1>1, <2>3
    <3> QED BY <1>1, <2>3, <3>1
  <2> HIDE DEF x
  <2>5. BuySize(t) = x
    BY <2>1 DEF x
  <2> QED BY <2>1, <2>2, <2>3, <2>4, <2>5 DEF p, w, g
<1> QED BY <1>2, <1>3

(* A scaling that divides a total among its parts gives each a natural number, which
   exceeds its exact share by at most one.                                     *)
LEMMA ShareBounds ==
  ASSUME NEW b \in Nat, NEW c \in Nat, NEW C \in Nat, C # 0
  PROVE  /\ Round(b * c, C) \in Nat
         /\ C * Round(b * c, C) <= b * c + C
         /\ b * c < C * Round(b * c, C) + C
         /\ c = 0 => Round(b * c, C) = 0
         /\ b * c >= C => Round(b * c, C) > 0
<1> DEFINE n == b * c
           r == Round(n, C)
<1>1. n \in Nat
  BY Product
<1>2. c = 0 => n = 0
  OBVIOUS
<1> HIDE DEF n
<1>3. r \in Nat /\ C * r <= n + C /\ n < C * r + C
  BY <1>1, RoundBounds
<1>4. ASSUME n = 0 PROVE r = 0
  <2>1. r = C \div (2 * C)
    BY <1>4 DEF Round
  <2> DEFINE q == C \div (2 * C)
  <2>2. q \in Nat /\ (2 * C) * q <= C
    <3>1. 2 * C \in Nat /\ 2 * C # 0
      OBVIOUS
    <3> QED BY <3>1, Division
  <2>3. (2 * C) * q = 2 * (C * q) /\ C * q \in Nat
    BY <2>2
  <2>4. CASE q >= 1
    <3>1. C * 1 <= C * q
      BY <2>2, <2>4, ProductGrows
    <3> HIDE DEF q
    <3> QED BY <2>2, <2>3, <3>1
  <2> QED BY <2>1, <2>2, <2>4
<1>5. ASSUME n >= C PROVE r > 0
  <2>1. CASE r = 0
    <3>1. C * r = 0
      BY <2>1
    <3> HIDE DEF r
    <3>2. 2 * n + C >= 2 * C
      BY <1>1, <1>5
    <3> DEFINE q == (2 * n + C) \div (2 * C)
    <3>3. 2 * n + C \in Nat /\ 2 * C \in Nat /\ 2 * C # 0
      BY <1>1
    <3>4. q \in Nat /\ 2 * n + C < (2 * C) * q + 2 * C
      BY <3>3, Division
    <3>5. q = 0
      BY <2>1 DEF r, Round
    <3>6. (2 * C) * q = 0
      BY <3>5
    <3> HIDE DEF q
    <3> QED BY <1>1, <1>5, <3>2, <3>4, <3>6
  <2> QED BY <1>3, <2>1
<1> QED BY <1>2, <1>3, <1>4, <1>5 DEF n

(* Scaled(t, total), for a total above the cap, and its rounding. *)
LEMMA ScaledBounds ==
  ASSUME TypeOK, NEW t \in Symbol, NEW total \in Nat, total > TransitionCap
  PROVE  /\ Scaled(t, total) \in Nat /\ Scaled(t, total) <= target[t]
         /\ total * Scaled(t, total) <= TransitionCap * target[t] + total
         /\ target[t] = 0 => Scaled(t, total) = 0
<1> DEFINE x == target[t]
           y == Round(x * TransitionCap, total)
<1>1. x \in Nat /\ TransitionCap \in Nat /\ total # 0
  BY DEF TypeOK
<1> HIDE DEF x
<1>2. x * TransitionCap = TransitionCap * x /\ TransitionCap * x \in Nat
  BY <1>1
<1>3. /\ y \in Nat /\ total * y <= TransitionCap * x + total /\ (x = 0 => y = 0)
  BY <1>1, <1>2, ShareBounds
<1>4. y <= x
  <2>1. (2 * total) * y <= 2 * (TransitionCap * x) + total
    <3> DEFINE n == TransitionCap * x
    <3>1. y = (2 * n + total) \div (2 * total)
      BY <1>2 DEF Round
    <3>2. n \in Nat
      BY <1>2
    <3> HIDE DEF n, y
    <3>3. 2 * n + total \in Nat /\ 2 * total \in Nat /\ 2 * total # 0
      BY <1>1, <3>2
    <3> QED BY <3>1, <3>3, Division DEF n
  <2>2. TransitionCap * x <= total * x
    BY <1>1, ProductGrows, Product
  <2> HIDE DEF y
  <2>3. CASE y >= x + 1
    <3>1. (2 * total) * (x + 1) <= (2 * total) * y
      <4>1. x + 1 \in Nat /\ 2 * total \in Nat
        BY <1>1
      <4> QED BY <1>3, <2>3, <4>1, ProductGrows
    <3>2. (2 * total) * (x + 1) = 2 * (total * x) + 2 * total /\ total * x \in Nat
      BY <1>1
    <3>3. (2 * total) * y \in Nat
      BY <1>1, <1>3
    <3> QED BY <1>1, <1>2, <2>1, <2>2, <3>1, <3>2, <3>3
  <2> QED BY <1>1, <1>3, <2>3
<1> QED BY <1>3, <1>4 DEF Scaled, x

LEMMA PlanTypesRead == TypeOK /\ (Begin \/ Finish) => TypeOK'
<1> SUFFICES ASSUME TypeOK, Begin \/ Finish PROVE TypeOK'
  OBVIOUS
<1>1. CASE Begin
  <2>1. facts' \in [Symbol -> Facts]
    BY <1>1, FactsNext DEF TypeOK, FactsInv, Next
  <2>2. regime' \in Regime /\ goal' \in Goals(regime', Value(facts'[Hedge]))
    BY <1>1 DEF Begin
  <2>3. Value(facts'[Hedge]) \in Nat
    BY <2>1, ValueType
  <2>4. goal' \in [weight : Nat, reason : Protected \cup Urgent]
    BY <2>2, <2>3, GoalType
  <2>5. blocks' \subseteq {"DEPENDENCY", "LEDGER", "LOSS"}
    <3>1. \E b \in Blocks : blocks' = b \cup {"DEPENDENCY"} \/ blocks' = b
      BY <1>1 DEF Begin
    <3> QED BY <3>1
  <2>6. /\ stage' = "evaluate" /\ riskKnown' \in BOOLEAN
        /\ UNCHANGED <<target, reason, locals, orders>>
    BY <1>1 DEF Begin
  <2> QED BY <2>1, <2>2, <2>4, <2>5, <2>6 DEF TypeOK, locals, orders
<1>2. CASE Finish
  <2>1. Init'
    BY <1>2 DEF Finish, Init
  <2>2. facts' \in [Symbol -> Facts]
    BY <1>2, FactsNext DEF TypeOK, FactsInv, Next
  <2>3. /\ target' \in [Symbol -> Nat] /\ conviction' \in [Symbol -> Nat]
        /\ sell' \in [Symbol -> Nat] /\ buy' \in [Symbol -> Nat]
    BY <1>2 DEF Finish, Zero
  <2>4. reason' \in [Symbol -> Reasons]
    BY <1>2 DEF Finish, NoReason, Reasons
  <2>5. goal' \in [weight : Nat, reason : Protected \cup Urgent]
    BY <1>2 DEF Finish, NoGoal, Protected
  <2> QED BY <1>2, <2>2, <2>3, <2>4, <2>5 DEF Finish, TypeOK, Regime
<1> QED BY <1>1, <1>2

LEMMA PlanTypesDecide ==
  ASSUME TypeOK, EvaluateSignals \/ OverrideForHedge \/ ApplyBreaker \/ CapTransition
  PROVE  TypeOK'
<1>1. CASE EvaluateSignals
  <2>1. \A t \in Symbol :
          Decision(facts[t]).target \in Nat /\ Decision(facts[t]).reason \in Reasons
    BY DecisionType DEF TypeOK
  <2>2. target' \in [Symbol -> Nat] /\ reason' \in [Symbol -> Reasons]
    BY <1>1, <2>1 DEF EvaluateSignals
  <2> QED BY <1>1, <2>2 DEF EvaluateSignals, inputs, locals, orders, TypeOK
<1>2. CASE OverrideForHedge
  <2>1. \A t \in Symbol : HedgeOverride(t).target \in Nat /\ HedgeOverride(t).reason \in Reasons
    <3> SUFFICES ASSUME NEW t \in Symbol
                 PROVE  HedgeOverride(t).target \in Nat /\ HedgeOverride(t).reason \in Reasons
      OBVIOUS
    <3>1. /\ goal.weight \in Nat /\ goal.reason \in Reasons /\ target[t] \in Nat
          /\ reason[t] \in Reasons /\ "DOWNTREND" \in Reasons /\ "DOWNTREND_EXIT" \in Reasons
      BY DEF TypeOK, Reasons, Urgent
    <3>2. HedgeOverride(t) \in {Decide(goal.weight, goal.reason), Decide(0, "DOWNTREND_EXIT"),
                                Decide(0, "DOWNTREND"), Decide(target[t], reason[t])}
      BY DEF HedgeOverride
    <3> QED BY <3>1, <3>2 DEF Decide
  <2>2. target' \in [Symbol -> Nat] /\ reason' \in [Symbol -> Reasons]
    BY <1>2, <2>1 DEF OverrideForHedge
  <2> QED BY <1>2, <2>2 DEF OverrideForHedge, inputs, locals, orders, TypeOK
<1>3. CASE ApplyBreaker
  <2>1. \A t \in Symbol : Value(facts[t]) \in Nat /\ target[t] \in Nat /\ reason[t] \in Reasons
    BY ValueType DEF TypeOK
  <2>2. target' \in [Symbol -> Nat] /\ reason' \in [Symbol -> Reasons]
    BY <1>3, <2>1 DEF ApplyBreaker, Reasons
  <2> QED BY <1>3, <2>2 DEF ApplyBreaker, inputs, locals, orders, TypeOK
<1>4. CASE CapTransition
  <2> DEFINE total == SumOf(target, Symbol)
  <2>1. total \in Nat
    BY SumOfNaturals DEF TypeOK
  <2>2. target' = IF regime = "TRANSITION" /\ total > TransitionCap
                  THEN [t \in Symbol |-> IF t \in Active THEN Scaled(t, total) ELSE target[t]]
                  ELSE target
    BY <1>4 DEF CapTransition
  <2> HIDE DEF total
  <2>3. target' \in [Symbol -> Nat]
    <3>1. CASE regime = "TRANSITION" /\ total > TransitionCap
      <4>1. \A t \in Symbol : Scaled(t, total) \in Nat /\ target[t] \in Nat
        BY <2>1, <3>1, ScaledBounds DEF TypeOK
      <4> QED BY <2>2, <3>1, <4>1
    <3>2. CASE ~(regime = "TRANSITION" /\ total > TransitionCap)
      BY <2>2, <3>2 DEF TypeOK
    <3> QED BY <3>1, <3>2
  <2> QED BY <1>4, <2>3 DEF CapTransition, inputs, locals, orders, TypeOK
<1> QED BY <1>1, <1>2, <1>3, <1>4

LEMMA PlanTypesAllocate ==
  ASSUME TypeOK,
         \/ StartAllocation \/ CapOverweight \/ ShareOut \/ DivisionByZero \/ AllocationDone
         \/ CalculateOrders
  PROVE  TypeOK'
<1>1. CASE StartAllocation
  <2>1. FullBudget \in Nat /\ Allocatable \subseteq Symbol /\ \A t \in Symbol : Excess(t) \in Nat
    BY FullBudgetType, ExcessType DEF Allocatable, Active
  <2>2. target' \in [Symbol -> Nat] /\ conviction' \in [Symbol -> Nat]
    BY <1>1, <2>1 DEF StartAllocation, TypeOK
  <2> QED BY <1>1, <2>1, <2>2 DEF StartAllocation, inputs, orders, TypeOK
<1>2. CASE CapOverweight
  <2>1. ConvictionTotal > 0
    BY <1>2 DEF CapOverweight
  <2>2. budget' \in Nat
    <3> DEFINE k == MaxWeight * Cardinality(Overweight)
    <3>1. k \in Nat /\ k <= budget
      BY <2>1, CapFitsBudget
    <3>2. budget' = budget - k /\ budget \in Nat
      BY <1>2 DEF CapOverweight, TypeOK
    <3> HIDE DEF k
    <3> QED BY <3>1, <3>2
  <2>3. target' \in [Symbol -> Nat] /\ remaining' \subseteq Symbol
    BY <1>2 DEF CapOverweight, TypeOK
  <2> QED BY <1>2, <2>2, <2>3 DEF CapOverweight, inputs, orders, TypeOK
<1>3. CASE ShareOut
  <2>1. ConvictionTotal \in Nat
    BY Convictions
  <2>0. ConvictionTotal # 0
    BY <1>3, <2>1 DEF ShareOut
  <2>2. \A t \in Symbol : Round(budget * conviction[t], ConvictionTotal) \in Nat
    BY <2>1, <2>0, ShareBounds DEF TypeOK
  <2>3. target' \in [Symbol -> Nat]
    BY <1>3, <2>2 DEF ShareOut, TypeOK
  <2> QED BY <1>3, <2>3 DEF ShareOut, inputs, orders, TypeOK
<1>4. CASE DivisionByZero \/ AllocationDone
  BY <1>4 DEF DivisionByZero, AllocationDone, inputs, locals, orders, TypeOK
<1>5. CASE CalculateOrders
  <2>1. sell' \in [Symbol -> Nat] /\ buy' \in [Symbol -> Nat]
    BY <1>5, SellBounds, BuyBounds DEF CalculateOrders
  <2>2. after' \subseteq Ticker
    BY <1>5 DEF CalculateOrders, LongExits
  <2> QED BY <1>5, <2>1, <2>2 DEF CalculateOrders, inputs, locals, TypeOK
<1> QED BY <1>1, <1>2, <1>3, <1>4, <1>5

LEMMA PlanTypesNext == TypeOK /\ [Next]_vars => TypeOK'
<1>1. TypeOK /\ UNCHANGED vars => TypeOK'
  BY DEF vars, inputs, locals, orders, TypeOK
<1> QED BY <1>1, PlanTypesRead, PlanTypesDecide, PlanTypesAllocate DEF Next

(* Through every stage of a batch, weights, shares and the budget stay natural numbers,
   the capping loop never spends more than it has, and every reason is a known one. *)
THEOREM TypeCorrect == Spec => []TypeOK
BY PlanInit, PlanTypesNext, PTL DEF Spec

-----------------------------------------------------------------------------
(* What an entry circuit breaker holds back: once it has been applied no target is
   above what is held.                                                         *)
HeldBack ==
  /\ stage # "done" => \A t \in Symbol : buy[t] = 0
  /\ blocks # {} =>
       /\ stage = "order" => \A t \in Symbol : target[t] <= Value(facts[t])
       /\ stage = "done" => \A t \in Symbol : buy[t] > 0 => Held(t) /\ facts[t].price = 0

LEMMA HeldBackInit == Init => HeldBack
BY DEF Init, HeldBack, Zero

LEMMA HeldBackNext == TypeOK /\ HeldBack /\ [Next]_vars => HeldBack'
<1> SUFFICES ASSUME TypeOK, HeldBack, [Next]_vars PROVE HeldBack'
  OBVIOUS
<1>1. CASE ApplyBreaker
  <2>1. stage = "block" /\ UNCHANGED <<facts, blocks, buy>>
    BY <1>1 DEF ApplyBreaker, inputs, orders
  <2>2. blocks # {} => \A t \in Symbol : target'[t] <= Value(facts[t])
    <3>1. \A t \in Symbol : Value(facts[t]) \in Nat /\ target[t] \in Nat
      BY ValueType DEF TypeOK
    <3> QED BY <1>1, <3>1 DEF ApplyBreaker, Blocked
  <2>3. stage' = "order"
    BY <1>1 DEF ApplyBreaker
  <2> QED BY <2>1, <2>2, <2>3 DEF HeldBack
<1>2. CASE CalculateOrders
  <2>1. stage = "order" /\ stage' = "done" /\ UNCHANGED <<facts, blocks>>
    BY <1>2 DEF CalculateOrders, inputs
  <2>2. ASSUME blocks # {}, NEW t \in Symbol, BuySize(t) > 0
        PROVE  Held(t) /\ facts[t].price = 0
    <3>1. target[t] <= Value(facts[t]) /\ Worth(t) < target[t] /\ target[t] > 0
      BY <2>1, <2>2, BuyBounds DEF HeldBack
    <3>2. facts[t] \in Facts /\ facts[t].price \in Nat /\ facts[t].qty \in Nat /\ target[t] \in Nat
      BY FactTypes DEF TypeOK
    <3>3. Value(facts[t]) \in Nat /\ Worth(t) \in Nat /\ (~Held(t) => Value(facts[t]) = 0)
      BY <3>2, ValueType, WorthType DEF Held
    <3>4. Held(t)
      BY <3>1, <3>2, <3>3
    <3>5. facts[t].price > 0 => Worth(t) = Value(facts[t])
      BY <3>2, <3>4, ValueType DEF Worth, Price
    <3> QED BY <3>1, <3>2, <3>3, <3>4, <3>5
  <2>3. \A t \in Symbol : buy'[t] = BuySize(t)
    BY <1>2 DEF CalculateOrders
  <2> QED BY <2>1, <2>2, <2>3 DEF HeldBack, Held
<1>3. CASE \/ Begin \/ EvaluateSignals \/ OverrideForHedge \/ StartAllocation \/ CapOverweight
           \/ ShareOut \/ DivisionByZero \/ AllocationDone \/ CapTransition
  <2>1. stage # "done" /\ stage' \notin {"order", "done"} /\ buy' = buy
    BY <1>3 DEF Begin, EvaluateSignals, OverrideForHedge, StartAllocation, CapOverweight, ShareOut,
               DivisionByZero, AllocationDone, CapTransition, Sharing, orders
  <2> QED BY <2>1 DEF HeldBack
<1>4. CASE Finish
  BY <1>4 DEF Finish, HeldBack, Zero
<1>5. CASE UNCHANGED vars
  BY <1>5 DEF vars, inputs, orders, HeldBack, Held
<1> QED BY <1>1, <1>2, <1>3, <1>4, <1>5 DEF Next

(* While an entry circuit breaker is active no batch buys anything: not by an entry, a
   reallocation, a top-up or the hedge; the one exception is a held position that the
   broker reports without a price (_apply_entry_circuit_breaker, _calculate_orders). *)
THEOREM BreakerHolds == Spec => []NoBuyUnderBreaker
<1>1. TypeOK /\ HeldBack => NoBuyUnderBreaker
  BY DEF TypeOK, HeldBack, NoBuyUnderBreaker
<1> QED BY <1>1, PlanInit, PlanTypesNext, HeldBackInit, HeldBackNext, PTL DEF Spec

-----------------------------------------------------------------------------
(* The limits of the allocation                                            *)

(* What a stage keeps, and what it may deal out. *)
Fixed == [t \in Symbol |-> IF reason[t] \in Protected THEN target[t] ELSE 0]
Free == [t \in Symbol |-> IF reason[t] \in Protected THEN 0 ELSE target[t]]
FixedTotal == SumOf(Fixed, Symbol)
FreeTotal == SumOf(Free, Symbol)
Limit == AtLeast(Gross, FixedTotal)

(* The sum of the targets, the budget and one unit of rounding for every symbol that
   still waits for its share stay within the limit.                            *)
LimitInv ==
  /\ stage = "share" =>
       /\ \A t \in remaining : target[t] = 0 /\ reason[t] \notin Protected
       /\ FixedTotal + FreeTotal + budget + Cardinality(remaining) <= Limit + Cardinality(Symbol)
  /\ stage \in {"share", "cap", "block"} =>
       \A t \in Symbol : reason[t] \notin Protected => target[t] <= MaxWeight
  /\ stage \in {"cap", "block"} => FixedTotal + FreeTotal <= Limit + Cardinality(Symbol)

LEMMA PartTypes ==
  ASSUME TypeOK
  PROVE  /\ \A t \in Symbol : Fixed[t] \in Nat /\ Free[t] \in Nat /\ target[t] \in Nat
         /\ FixedTotal \in Nat /\ FreeTotal \in Nat /\ SumOf(target, Symbol) \in Nat
         /\ Limit \in Nat /\ Limit >= Gross /\ Limit >= FixedTotal
         /\ Cardinality(Symbol) \in Nat
         /\ Limit = Gross \/ Limit = FixedTotal
<1>1. \A t \in Symbol : Fixed[t] \in Nat /\ Free[t] \in Nat /\ target[t] \in Nat
  BY DEF TypeOK, Fixed, Free
<1>2. FixedTotal \in Nat /\ FreeTotal \in Nat /\ SumOf(target, Symbol) \in Nat
  BY <1>1, SumOfNaturals DEF FixedTotal, FreeTotal
<1> QED BY <1>1, <1>2, SymbolsFinite DEF Limit, AtLeast

(* The targets are what is kept and what is free, and what is kept weighs the same
   counted over the kept symbols or over all.                                  *)
LEMMA Parts ==
  ASSUME TypeOK
  PROVE  /\ SumOf(target, Symbol) = FixedTotal + FreeTotal
         /\ SumOf(target, Kept) = FixedTotal
<1>1. IsFiniteSet(Symbol) /\ Kept \in SUBSET Symbol /\ IsFiniteSet(Kept)
  <2>1. Kept \in SUBSET Symbol
    BY DEF Kept, Active
  <2> QED BY <2>1, SymbolsFinite
<1>2. \A t \in Symbol : Fixed[t] \in Int /\ Free[t] \in Int /\ target[t] \in Int
  BY PartTypes
<1>3. Total(target, Symbol) = Total(Fixed, Symbol) + Total(Free, Symbol)
  <2>1. \A t \in Symbol : target[t] = Fixed[t] + Free[t]
    BY DEF TypeOK, Fixed, Free
  <2> QED BY <1>1, <1>2, <2>1, TotalAdd
<1>4. Total(Fixed, Symbol) = Total(target, Kept)
  <2>1. Total(Fixed, Symbol) = Total(Fixed, Kept) + Total(Fixed, Symbol \ Kept)
    BY <1>1, <1>2, TotalSplit
  <2>2. Total(Fixed, Kept) = Total(target, Kept)
    <3>1. \A t \in Kept : Fixed[t] = target[t]
      BY DEF Kept, Active, Fixed
    <3> QED BY <1>1, <3>1, TotalSame
  <2>3. Total(Fixed, Symbol \ Kept) = 0
    <3>1. \A t \in Symbol \ Kept : Fixed[t] = 0
      BY DEF TypeOK, Kept, Active, Fixed
    <3>2. IsFiniteSet(Symbol \ Kept)
      BY <1>1, FS_Subset
    <3> QED BY <3>1, <3>2, TotalZero
  <2>4. Total(target, Kept) \in Int
    <3>1. \A t \in Kept : target[t] \in Int
      BY <1>1, <1>2
    <3> QED BY <1>1, <3>1, TotalType
  <2> QED BY <2>1, <2>2, <2>3, <2>4
<1> QED BY <1>3, <1>4, SumIsTotal DEF FixedTotal, FreeTotal

LEMMA FixedStays ==
  ASSUME reason' = reason, \A t \in Symbol : reason[t] \in Protected => target'[t] = target[t]
  PROVE  FixedTotal' = FixedTotal /\ Limit' = Limit
<1>1. Fixed' = Fixed
  BY DEF Fixed
<1> QED BY <1>1 DEF FixedTotal, Limit

LEMMA LimitStart ==
  ASSUME TypeOK, TypeOK', StartAllocation
  PROVE  LimitInv'
<1>1. FixedTotal' = FixedTotal /\ Limit' = Limit
  <2>1. \A t \in Symbol : reason[t] \in Protected => target'[t] = target[t]
    BY DEF StartAllocation, Allocatable, Kept
  <2>2. reason' = reason
    BY DEF StartAllocation
  <2> QED BY <2>1, <2>2, FixedStays
<1>2. \A t \in Symbol : reason[t] \notin Protected => target'[t] = 0
  BY DEF StartAllocation, Allocatable, Active, Kept, TypeOK
<1>3. FreeTotal' = 0
  <2>1. \A t \in Symbol : Free'[t] = 0
    BY <1>2 DEF Free, StartAllocation
  <2> DEFINE F == Free'
  <2>2. Total(F, Symbol) = 0
    <3> HIDE DEF F
    <3>1. \A t \in Symbol : F[t] = 0
      BY <2>1 DEF F
    <3> QED BY <3>1, SymbolsFinite, TotalZero
  <2> QED BY <2>2, SumIsTotal DEF FreeTotal
<1>4. FixedTotal + budget' <= Limit
  <2>1. budget' \in Nat /\ budget' <= AtLeast(Gross - FixedTotal, 0)
    BY FullBudgetType, Parts DEF StartAllocation
  <2> QED BY <2>1, PartTypes DEF AtLeast
<1>5. Cardinality(remaining') <= Cardinality(Symbol) /\ Cardinality(remaining') \in Nat
  <2>1. remaining' \in SUBSET Symbol
    BY DEF TypeOK
  <2> QED BY <2>1, SymbolsFinite, FS_Subset
<1>6. stage' = "share" /\ remaining' = Allocatable /\ reason' = reason
  BY DEF StartAllocation
<1>7. \A t \in remaining' : target'[t] = 0 /\ reason'[t] \notin Protected
  BY <1>2, <1>6 DEF Allocatable, Active, Kept
<1>8. FixedTotal' + FreeTotal' + budget' + Cardinality(remaining') <= Limit' + Cardinality(Symbol)
  <2>1. budget' \in Nat
    BY DEF TypeOK
  <2> QED BY <1>1, <1>3, <1>4, <1>5, <2>1, PartTypes
<1>9. \A t \in Symbol : reason'[t] \notin Protected => target'[t] <= MaxWeight
  BY <1>2, <1>6
<1> QED BY <1>6, <1>7, <1>8, <1>9 DEF LimitInv

LEMMA LimitCap ==
  ASSUME TypeOK, TypeOK', LimitInv, CapOverweight
  PROVE  LimitInv'
<1> DEFINE O == Overweight
           n == Cardinality(O)
           k == MaxWeight * n
<1>0. /\ stage = "share" /\ stage' = stage /\ reason' = reason /\ remaining' = remaining \ O
      /\ budget' = budget - k /\ O \in SUBSET remaining /\ O \in SUBSET Symbol
      /\ remaining \subseteq Symbol
      /\ \A t \in Symbol : target'[t] = IF t \in O THEN MaxWeight ELSE target[t]
  BY DEF CapOverweight, Sharing, Overweight, TypeOK
<1>1. \A t \in remaining : target[t] = 0 /\ reason[t] \notin Protected
  BY <1>0 DEF LimitInv
<1> HIDE DEF O
<1>2. FixedTotal' = FixedTotal /\ Limit' = Limit
  <2>1. \A t \in Symbol : reason[t] \in Protected => target'[t] = target[t]
    BY <1>0, <1>1
  <2> QED BY <1>0, <2>1, FixedStays
<1>3. FreeTotal' <= FreeTotal + k /\ FreeTotal' \in Nat
  <2> DEFINE G == Free'
  <2>1. \A t \in Symbol : G[t] = IF t \in O THEN MaxWeight ELSE Free[t]
    BY <1>0, <1>1 DEF Free
  <2>2. \A t \in O : Free[t] = 0
    BY <1>0, <1>1 DEF Free
  <2>3. \A t \in Symbol : Free[t] \in Int /\ G[t] \in Int
    BY <2>1, PartTypes
  <2> HIDE DEF G
  <2>4. 1 * Total(G, Symbol) <= 1 * Total(Free, Symbol) + 0 * Total(Free, O) + MaxWeight * Cardinality(O)
    <3>1. \A t \in O : 1 * G[t] <= 0 * Free[t] + MaxWeight
      BY <1>0, <2>1, <2>2
    <3>2. \A t \in Symbol \ O : G[t] = Free[t]
      BY <2>1
    <3>3. 1 \in Int /\ 0 \in Int /\ MaxWeight \in Int
      OBVIOUS
    <3>4. \A t \in O : Free[t] \in Int
      BY <1>0, <2>3
    <3> QED BY <1>0, <2>2, <2>3, <3>1, <3>2, <3>3, <3>4, SymbolsFinite, TotalRaise
  <2>5. Total(G, Symbol) \in Nat /\ Total(Free, O) \in Int
    <3>1. \A t \in Symbol : G[t] \in Nat
      BY <2>1, PartTypes
    <3>2. \A t \in O : Free[t] \in Int
      BY <1>0, <2>3
    <3> QED BY <1>0, <3>1, <3>2, SymbolsFinite, TotalType
  <2>6. FreeTotal = Total(Free, Symbol) /\ FreeTotal' = Total(G, Symbol) /\ FreeTotal \in Nat
    BY SumIsTotal, PartTypes DEF FreeTotal, G
  <2>7. k \in Nat
    BY <1>0, SymbolsFinite
  <2> QED BY <2>4, <2>5, <2>6, <2>7
<1>4. Cardinality(remaining') <= Cardinality(remaining) /\ Cardinality(remaining') \in Nat
      /\ Cardinality(remaining) \in Nat
  <2>1. IsFiniteSet(remaining) /\ remaining' \in SUBSET remaining /\ remaining' \in SUBSET Symbol
    BY <1>0, SymbolsFinite DEF TypeOK
  <2> QED BY <2>1, SymbolsFinite, FS_Subset DEF TypeOK
<1>5. FixedTotal' + FreeTotal' + budget' + Cardinality(remaining') <= Limit' + Cardinality(Symbol)
  <2>1. FixedTotal + FreeTotal + budget + Cardinality(remaining) <= Limit + Cardinality(Symbol)
    BY <1>0 DEF LimitInv
  <2>2. budget \in Nat /\ k \in Nat
    BY <1>0, SymbolsFinite DEF TypeOK
  <2> HIDE DEF k
  <2> QED BY <1>0, <1>2, <1>3, <1>4, <2>1, <2>2, PartTypes
<1>6. \A t \in Symbol : reason'[t] \notin Protected => target'[t] <= MaxWeight
  BY <1>0 DEF LimitInv
<1>7. \A t \in remaining' : target'[t] = 0 /\ reason'[t] \notin Protected
  BY <1>0, <1>1
<1>8. stage' = "share"
  BY <1>0
<1> QED BY <1>5, <1>6, <1>7, <1>8 DEF LimitInv

LEMMA LimitShare ==
  ASSUME TypeOK, TypeOK', LimitInv, ShareOut
  PROVE  LimitInv'
<1> DEFINE C == ConvictionTotal
           n == Cardinality(remaining)
           share(t) == Round(budget * conviction[t], C)
<1>0. /\ stage = "share" /\ stage' = stage /\ reason' = reason /\ remaining' = {} /\ budget' = 0
      /\ remaining \in SUBSET Symbol /\ IsFiniteSet(remaining) /\ n \in Nat
      /\ \A t \in Symbol : target'[t] = IF t \in remaining THEN share(t) ELSE target[t]
  BY SymbolsFinite DEF ShareOut, Sharing, TypeOK
<1>1. \A t \in remaining : target[t] = 0 /\ reason[t] \notin Protected
  BY <1>0 DEF LimitInv
<1>2. /\ C \in Nat /\ C # 0 /\ budget \in Nat
      /\ \A t \in remaining : conviction[t] \in Nat /\ budget * conviction[t] < MaxWeight * C
  <2>1. C \in Nat /\ budget \in Nat /\ \A t \in remaining : conviction[t] \in Nat
    BY Convictions DEF TypeOK
  <2>2. C # 0
    BY <2>1 DEF ShareOut
  <2>3. ASSUME NEW t \in remaining PROVE budget * conviction[t] < MaxWeight * C
    <3> DEFINE p == budget * conviction[t]
               q == MaxWeight * ConvictionTotal
    <3>1. ~(p >= q)
      BY DEF ShareOut, Overweight
    <3>2. p \in Nat /\ q \in Nat
      BY <2>1
    <3> HIDE DEF p, q
    <3>3. p < q
      BY <3>1, <3>2
    <3> QED BY <3>3 DEF p, q
  <2> QED BY <2>1, <2>2, <2>3
<1>3. ASSUME NEW t \in remaining
      PROVE  share(t) \in Nat /\ C * share(t) <= budget * conviction[t] + C /\ share(t) <= MaxWeight
  <2> DEFINE r == share(t)
             b == budget * conviction[t]
  <2>1. r \in Nat /\ C * r <= b + C /\ b < MaxWeight * C /\ b \in Nat
    BY <1>2, ShareBounds
  <2> HIDE DEF r, b, C
  <2>2. r <= MaxWeight
    <3>1. CASE r >= MaxWeight + 1
      <4>1. C * (MaxWeight + 1) <= C * r
        BY <1>2, <2>1, <3>1, ProductGrows
      <4>2. C * (MaxWeight + 1) = MaxWeight * C + C /\ MaxWeight * C \in Nat /\ C * r \in Nat
        BY <1>2, <2>1
      <4> QED BY <1>2, <2>1, <4>1, <4>2
    <3> QED BY <2>1, <3>1
  <2> QED BY <2>1, <2>2 DEF r, b
<1> HIDE DEF C, share
<1>4. FixedTotal' = FixedTotal /\ Limit' = Limit
  <2>1. \A t \in Symbol : reason[t] \in Protected => target'[t] = target[t]
    BY <1>0, <1>1
  <2> QED BY <1>0, <2>1, FixedStays
<1>5. FreeTotal' <= FreeTotal + budget + n /\ FreeTotal' \in Nat
  <2> DEFINE G == Free'
  <2>1. \A t \in Symbol : G[t] = IF t \in remaining THEN share(t) ELSE Free[t]
    BY <1>0, <1>1 DEF Free
  <2>2. \A t \in remaining : Free[t] = 0
    BY <1>0, <1>1 DEF Free
  <2>3. \A t \in Symbol : Free[t] \in Nat /\ G[t] \in Nat
    BY <1>3, <2>1, PartTypes
  <2> HIDE DEF G
  <2>4. C * Total(G, Symbol)
          <= C * Total(Free, Symbol) + budget * Total(conviction, remaining) + C * n
    <3>1. \A t \in remaining : C * G[t] <= budget * conviction[t] + C
      BY <1>0, <1>3, <2>1
    <3>2. \A t \in Symbol \ remaining : G[t] = Free[t]
      BY <2>1
    <3>3. /\ C \in Int /\ budget \in Int /\ \A t \in remaining : conviction[t] \in Int
          /\ \A t \in Symbol : Free[t] \in Int /\ G[t] \in Int
      BY <1>2, <2>3
    <3> QED BY <1>0, <2>2, <3>1, <3>2, <3>3, SymbolsFinite, TotalRaise
  <2>5. Total(conviction, remaining) = C
    BY SumIsTotal DEF C, ConvictionTotal
  <2>6. Total(G, Symbol) \in Nat
    BY <2>3, SymbolsFinite, TotalType
  <2>7. FreeTotal = Total(Free, Symbol) /\ FreeTotal' = Total(G, Symbol) /\ FreeTotal \in Nat
    BY SumIsTotal, PartTypes DEF FreeTotal, G
  <2> DEFINE x == FreeTotal'
             y == FreeTotal
  <2>8. C * x <= C * y + budget * C + C * n /\ x \in Nat /\ y \in Nat
    BY <2>4, <2>5, <2>6, <2>7
  <2> HIDE DEF x, y, n
  <2>9. C * y + budget * C + C * n = C * (y + budget + n)
    BY <1>0, <1>2, <2>8
  <2>10. x <= y + budget + n
    <3>1. y + budget + n \in Int /\ x \in Int
      BY <1>0, <1>2, <2>8
    <3> QED BY <1>2, <2>8, <2>9, <3>1, ProductCancels
  <2> QED BY <2>8, <2>10 DEF x, y
<1>6. FixedTotal' + FreeTotal' + budget' + Cardinality(remaining') <= Limit' + Cardinality(Symbol)
  <2>1. FixedTotal + FreeTotal + budget + n <= Limit + Cardinality(Symbol)
    BY <1>0 DEF LimitInv
  <2>2. Cardinality(remaining') = 0
    BY <1>0, FS_EmptySet
  <2> HIDE DEF n
  <2> QED BY <1>0, <1>2, <1>4, <1>5, <2>1, <2>2, PartTypes
<1>7. \A t \in Symbol : reason'[t] \notin Protected => target'[t] <= MaxWeight
  <2>1. \A t \in Symbol : reason[t] \notin Protected => target[t] <= MaxWeight
    BY <1>0 DEF LimitInv
  <2> QED BY <1>0, <1>3, <2>1
<1>8. stage' = "share" /\ remaining' = {}
  BY <1>0
<1> QED BY <1>6, <1>7, <1>8 DEF LimitInv

LEMMA LimitDone ==
  ASSUME TypeOK, LimitInv, AllocationDone
  PROVE  LimitInv'
<1>1. /\ stage = "share" /\ stage' = "cap"
      /\ UNCHANGED <<reason, target>>
  BY DEF AllocationDone
<1>2. FixedTotal' = FixedTotal /\ Limit' = Limit /\ FreeTotal' = FreeTotal
  <2>1. Fixed' = Fixed /\ Free' = Free
    BY <1>1 DEF Fixed, Free
  <2> QED BY <2>1 DEF FixedTotal, FreeTotal, Limit
<1>3. FixedTotal + FreeTotal <= Limit + Cardinality(Symbol)
  <2>1. FixedTotal + FreeTotal + budget + Cardinality(remaining) <= Limit + Cardinality(Symbol)
    BY <1>1 DEF LimitInv
  <2>2. budget \in Nat /\ Cardinality(remaining) \in Nat
    BY SymbolsFinite DEF TypeOK
  <2> QED BY <2>1, <2>2, PartTypes
<1> QED BY <1>1, <1>2, <1>3 DEF LimitInv

(* The cap of a transition: no target grows, and what is above the cap is brought down to
   it, but for the rounding of each symbol.                                    *)
LEMMA CapScales ==
  ASSUME TypeOK, TypeOK', CapTransition
  PROVE  /\ \A t \in Symbol : target'[t] <= target[t]
         /\ regime = "TRANSITION" => SumOf(target', Symbol) <= TransitionCap + Cardinality(Symbol)
<1> DEFINE total == SumOf(target, Symbol)
           n == Cardinality(Symbol)
           T == target'
<1>1. total \in Nat /\ n \in Nat /\ IsFiniteSet(Symbol) /\ TransitionCap \in Nat
  BY PartTypes, SymbolsFinite
<1>0. \A t \in Symbol : target[t] \in Nat /\ T[t] \in Nat
  BY DEF TypeOK
<1>2. T = IF regime = "TRANSITION" /\ total > TransitionCap
        THEN [t \in Symbol |-> IF t \in Active THEN Scaled(t, total) ELSE target[t]]
        ELSE target
  BY DEF CapTransition, TypeOK
<1> HIDE DEF total, T
<1>3. CASE regime = "TRANSITION" /\ total > TransitionCap
  <2>1. ASSUME NEW t \in Symbol
        PROVE  T[t] <= target[t] /\ total * T[t] <= TransitionCap * target[t] + total
    <3>1. /\ Scaled(t, total) \in Nat /\ Scaled(t, total) <= target[t]
          /\ total * Scaled(t, total) <= TransitionCap * target[t] + total
          /\ target[t] = 0 => Scaled(t, total) = 0
      BY <1>1, <1>3, ScaledBounds
    <3>2. T[t] = Scaled(t, total)
      <4>1. T[t] = IF t \in Active THEN Scaled(t, total) ELSE target[t]
        BY <1>2, <1>3
      <4>2. t \notin Active => target[t] = 0
        BY <1>0 DEF Active
      <4> QED BY <3>1, <4>1, <4>2
    <3> QED BY <3>1, <3>2
  <2>2. total * Total(T, Symbol) <= TransitionCap * total + total * n
    <3>1. total * Total(T, Symbol)
            <= TransitionCap * Total(target, Symbol) + 0 * Total(target, Symbol) + total * n
      <4>1. \A t \in Symbol : total * T[t] <= TransitionCap * target[t] + 0 * target[t] + total
        <5> SUFFICES ASSUME NEW t \in Symbol
                     PROVE  total * T[t] <= TransitionCap * target[t] + 0 * target[t] + total
          OBVIOUS
        <5> DEFINE x == total * T[t]
                   y == TransitionCap * target[t]
        <5>1. x <= y + total /\ x \in Nat /\ y \in Nat /\ 0 * target[t] = 0
          BY <1>0, <1>1, <2>1
        <5> HIDE DEF x, y
        <5>2. x <= y + 0 * target[t] + total
          BY <1>1, <5>1
        <5> QED BY <5>2 DEF x, y
      <4>2. /\ total \in Int /\ TransitionCap \in Int /\ 0 \in Int
            /\ \A t \in Symbol : target[t] \in Int /\ T[t] \in Int
        BY <1>0, <1>1
      <4> QED BY <1>1, <4>1, <4>2, TotalLinear
    <3>2. Total(target, Symbol) = total /\ 0 * total = 0
      BY <1>1, SumIsTotal DEF total
    <3>3. TransitionCap * total \in Nat /\ total * n \in Nat
      BY <1>1
    <3>4. Total(T, Symbol) \in Nat
      BY <1>0, <1>1, TotalType
    <3> QED BY <3>1, <3>2, <3>3
  <2>3. Total(T, Symbol) \in Nat
    BY <1>0, <1>1, TotalType
  <2>4. Total(T, Symbol) <= TransitionCap + n
    <3> DEFINE x == Total(T, Symbol)
    <3> HIDE DEF x, n
    <3>1. TransitionCap * total + total * n = total * (TransitionCap + n)
      BY <1>1
    <3>2. total # 0 /\ TransitionCap + n \in Int
      BY <1>1, <1>3
    <3>3. x \in Int /\ total * x <= total * (TransitionCap + n)
      BY <2>2, <2>3, <3>1 DEF x
    <3>4. x <= TransitionCap + n
      BY <1>1, <3>2, <3>3, ProductCancels
    <3> QED BY <3>4 DEF x
  <2> QED BY <2>1, <2>4, SumIsTotal DEF T
<1>4. CASE ~(regime = "TRANSITION" /\ total > TransitionCap)
  <2>1. T = target
    BY <1>2, <1>4
  <2>2. regime = "TRANSITION" => SumOf(T, Symbol) <= TransitionCap + n
    <3>1. SumOf(T, Symbol) = total
      BY <2>1 DEF total
    <3> HIDE DEF n
    <3> QED BY <1>1, <1>4, <3>1
  <2> QED BY <1>0, <2>1, <2>2 DEF T
<1> QED BY <1>3, <1>4

LEMMA LimitScale ==
  ASSUME TypeOK, TypeOK', LimitInv, CapTransition
  PROVE  LimitInv'
<1>1. stage = "cap" /\ stage' = "block" /\ reason' = reason
  BY DEF CapTransition
<1>2. \A t \in Symbol : target'[t] <= target[t] /\ target'[t] \in Nat /\ target[t] \in Nat
  BY CapScales DEF TypeOK
<1>3. FixedTotal' <= FixedTotal /\ FreeTotal' <= FreeTotal
  <2> DEFINE F == Fixed'
             G == Free'
  <2>1. \A t \in Symbol : /\ F[t] \in Int /\ Fixed[t] \in Int /\ F[t] <= Fixed[t]
                          /\ G[t] \in Int /\ Free[t] \in Int /\ G[t] <= Free[t]
    BY <1>1, <1>2 DEF Fixed, Free
  <2> HIDE DEF F, G
  <2>2. Total(F, Symbol) <= Total(Fixed, Symbol) /\ Total(G, Symbol) <= Total(Free, Symbol)
    BY <2>1, SymbolsFinite, TotalMonotone
  <2> QED BY <2>2, SumIsTotal DEF FixedTotal, FreeTotal, F, G
<1>4. /\ FixedTotal \in Nat /\ FreeTotal \in Nat /\ FixedTotal' \in Nat /\ FreeTotal' \in Nat
      /\ Limit \in Nat /\ Limit' \in Nat /\ Cardinality(Symbol) \in Nat
      /\ Limit' >= Gross /\ Limit' >= FixedTotal'
      /\ Limit = Gross \/ Limit = FixedTotal
  <2>1. FixedTotal' \in Nat /\ FreeTotal' \in Nat
    <3>1. \A t \in Symbol : Fixed'[t] \in Nat /\ Free'[t] \in Nat
      BY <1>2 DEF Fixed, Free
    <3> QED BY <3>1, SumOfNaturals DEF FixedTotal, FreeTotal
  <2>2. Limit' \in Nat /\ Limit' >= Gross /\ Limit' >= FixedTotal'
    BY <2>1 DEF Limit, AtLeast
  <2> QED BY <2>1, <2>2, PartTypes
<1>5. FixedTotal + FreeTotal <= Limit + Cardinality(Symbol)
  BY <1>1 DEF LimitInv
<1>6. FixedTotal' + FreeTotal' <= Limit' + Cardinality(Symbol)
  <2>1. CASE Limit = Gross
    BY <1>3, <1>4, <1>5, <2>1
  <2>2. CASE Limit = FixedTotal
    BY <1>3, <1>4, <1>5, <2>2
  <2> QED BY <1>4, <2>1, <2>2
<1>7. \A t \in Symbol : reason'[t] \notin Protected => target'[t] <= MaxWeight
  BY <1>1, <1>2 DEF LimitInv
<1> QED BY <1>1, <1>6, <1>7 DEF LimitInv

LEMMA LimitNext == TypeOK /\ TypeOK' /\ LimitInv /\ [Next]_vars => LimitInv'
<1> SUFFICES ASSUME TypeOK, TypeOK', LimitInv, [Next]_vars PROVE LimitInv'
  OBVIOUS
<1>1. CASE StartAllocation \/ CapOverweight \/ ShareOut \/ AllocationDone \/ CapTransition
  BY <1>1, LimitStart, LimitCap, LimitShare, LimitDone, LimitScale
<1>2. CASE \/ Begin \/ EvaluateSignals \/ OverrideForHedge \/ DivisionByZero \/ ApplyBreaker
           \/ CalculateOrders \/ Finish
  <2>1. stage' \notin {"share", "cap", "block"}
    BY <1>2 DEF Begin, EvaluateSignals, OverrideForHedge, DivisionByZero, ApplyBreaker,
                CalculateOrders, Finish
  <2> QED BY <2>1 DEF LimitInv
<1>3. CASE UNCHANGED vars
  <2>1. UNCHANGED <<stage, target, reason, remaining, budget>>
    BY <1>3 DEF vars, locals
  <2>2. Fixed' = Fixed /\ Free' = Free
    BY <2>1 DEF Fixed, Free
  <2>3. FixedTotal' = FixedTotal /\ FreeTotal' = FreeTotal /\ Limit' = Limit
    BY <2>2 DEF FixedTotal, FreeTotal, Limit
  <2> QED BY <2>1, <2>3 DEF LimitInv
<1> QED BY <1>1, <1>2, <1>3 DEF Next

LEMMA LimitInit == Init => LimitInv
BY DEF Init, LimitInv

(* Whatever the positions, scores and limits: the symbols that the allocation weighs stay
   within the limit of a position, and the batch as a whole stays within the gross exposure,
   or within what it has to keep, up to one unit of rounding per symbol (the capping loop of
   the allocation, and the cap of a transition after it).                      *)
THEOREM AllocationIsLimited == Spec => []AllocationWithinLimits
<1>1. TypeOK /\ LimitInv => AllocationWithinLimits
  <2> SUFFICES ASSUME TypeOK, LimitInv, stage \in {"cap", "block"}
               PROVE  /\ \A t \in Symbol \ Kept : target[t] <= MaxWeight
                      /\ SumOf(target, Symbol) <= AtLeast(Gross, SumOf(target, Kept)) + Cardinality(Symbol)
    BY DEF AllocationWithinLimits
  <2>1. \A t \in Symbol \ Kept : target[t] <= MaxWeight
    BY DEF LimitInv, Kept, Active, TypeOK
  <2>2. SumOf(target, Symbol) <= AtLeast(Gross, SumOf(target, Kept)) + Cardinality(Symbol)
    BY Parts DEF LimitInv, Limit
  <2> QED BY <2>1, <2>2
<1> QED BY <1>1, PlanInit, PlanTypesNext, LimitInit, LimitNext, PTL DEF Spec

-----------------------------------------------------------------------------
(* What the orders of a transition leave                                   *)

CapInv ==
  stage \in {"block", "order", "done"} /\ regime = "TRANSITION" =>
    SumOf(target, Symbol) <= TransitionCap + Cardinality(Symbol)

OrdersInv == stage = "done" => \A t \in Symbol : sell[t] = SellSize(t) /\ buy[t] = BuySize(t)

LEMMA CapInit == Init => CapInv /\ OrdersInv
BY DEF Init, CapInv, OrdersInv

LEMMA CapNext == TypeOK /\ TypeOK' /\ CapInv /\ [Next]_vars => CapInv'
<1> SUFFICES ASSUME TypeOK, TypeOK', CapInv, [Next]_vars PROVE CapInv'
  OBVIOUS
<1>1. CASE CapTransition
  <2>1. stage' = "block" /\ regime' = regime
    BY <1>1 DEF CapTransition, inputs
  <2>2. regime = "TRANSITION" => SumOf(target', Symbol) <= TransitionCap + Cardinality(Symbol)
    BY <1>1, CapScales
  <2> QED BY <2>1, <2>2 DEF CapInv
<1>2. CASE ApplyBreaker
  <2>1. stage = "block" /\ regime' = regime
    BY <1>2 DEF ApplyBreaker, inputs
  <2>2. SumOf(target', Symbol) <= SumOf(target, Symbol) /\ SumOf(target', Symbol) \in Nat
    <3> DEFINE T == target'
    <3>1. \A t \in Symbol : T[t] \in Nat /\ target[t] \in Nat
      BY DEF TypeOK
    <3>2. \A t \in Symbol : Value(facts[t]) \in Nat
      BY ValueType DEF TypeOK
    <3>3. \A t \in Symbol : T[t] <= target[t]
      <4> SUFFICES ASSUME NEW t \in Symbol PROVE T[t] <= target[t]
        OBVIOUS
      <4>1. T[t] = IF blocks # {} /\ Blocked(t) THEN Value(facts[t]) ELSE target[t]
        BY <1>2 DEF ApplyBreaker
      <4>2. CASE Blocked(t)
        BY <3>1, <3>2, <4>1, <4>2 DEF Blocked
      <4>3. CASE ~Blocked(t)
        BY <3>1, <4>1, <4>3
      <4> QED BY <4>2, <4>3
    <3> HIDE DEF T
    <3>4. \A t \in Symbol : T[t] \in Int /\ target[t] \in Int /\ T[t] <= target[t]
      BY <3>1, <3>3
    <3>5. Total(T, Symbol) <= Total(target, Symbol) /\ Total(T, Symbol) \in Nat
      BY <3>1, <3>4, SymbolsFinite, TotalMonotone, TotalType
    <3> QED BY <3>5, SumIsTotal DEF T
  <2>3. SumOf(target, Symbol) \in Nat /\ Cardinality(Symbol) \in Nat
    BY PartTypes
  <2>4. regime = "TRANSITION" => SumOf(target, Symbol) <= TransitionCap + Cardinality(Symbol)
    BY <2>1 DEF CapInv
  <2>5. regime = "TRANSITION" => SumOf(target', Symbol) <= TransitionCap + Cardinality(Symbol)
    BY <2>2, <2>3, <2>4
  <2> QED BY <2>1, <2>5 DEF CapInv
<1>3. CASE CalculateOrders
  <2>1. stage = "order" /\ UNCHANGED <<regime, target>>
    BY <1>3 DEF CalculateOrders, inputs
  <2> QED BY <2>1 DEF CapInv
<1>4. CASE \/ Begin \/ EvaluateSignals \/ OverrideForHedge \/ StartAllocation \/ CapOverweight
           \/ ShareOut \/ DivisionByZero \/ AllocationDone \/ Finish
  <2>1. stage' \notin {"block", "order", "done"}
    BY <1>4 DEF Begin, EvaluateSignals, OverrideForHedge, StartAllocation, CapOverweight, ShareOut,
               DivisionByZero, AllocationDone, Sharing, Finish
  <2> QED BY <2>1 DEF CapInv
<1>5. CASE UNCHANGED vars
  BY <1>5 DEF vars, inputs, CapInv
<1> QED BY <1>1, <1>2, <1>3, <1>4, <1>5 DEF Next

LEMMA OrdersNext == OrdersInv /\ [Next]_vars => OrdersInv'
<1> SUFFICES ASSUME OrdersInv, [Next]_vars PROVE OrdersInv'
  OBVIOUS
<1>1. ASSUME UNCHANGED <<facts, target, reason>>
      PROVE  \A t \in Symbol : SellSize(t)' = SellSize(t) /\ BuySize(t)' = BuySize(t)
  <2> SUFFICES ASSUME NEW t \in Symbol
               PROVE  SellSize(t)' = SellSize(t) /\ BuySize(t)' = BuySize(t)
    OBVIOUS
  <2>1. /\ Price(t)' = Price(t) /\ Worth(t)' = Worth(t) /\ Held(t)' = Held(t)
        /\ facts' = facts /\ target' = target
    BY <1>1 DEF Price, Worth, Held
  <2>2. (MaySell(t)' <=> MaySell(t)) /\ (MayBuy(t)' <=> MayBuy(t))
    BY <1>1 DEF MaySell, MayBuy, Held
  <2> QED BY <2>1, <2>2 DEF SellSize, BuySize
<1>2. CASE CalculateOrders
  <2>1. UNCHANGED <<facts, target, reason>>
    BY <1>2 DEF CalculateOrders, inputs
  <2>2. \A t \in Symbol : sell'[t] = SellSize(t) /\ buy'[t] = BuySize(t)
    BY <1>2 DEF CalculateOrders
  <2> QED BY <1>1, <2>1, <2>2 DEF OrdersInv
<1>3. CASE UNCHANGED vars
  <2>1. UNCHANGED <<stage, facts, target, reason, sell, buy>>
    BY <1>3 DEF vars, inputs, orders
  <2> QED BY <1>1, <2>1 DEF OrdersInv
<1>4. CASE Next /\ ~CalculateOrders
  <2>1. stage' # "done"
    BY <1>4 DEF Next, Begin, EvaluateSignals, OverrideForHedge, StartAllocation, CapOverweight,
               ShareOut, DivisionByZero, AllocationDone, CapTransition, ApplyBreaker, Finish, Sharing
  <2> QED BY <2>1 DEF OrdersInv
<1> QED BY <1>2, <1>3, <1>4

(* One symbol: what is left of it is worth its target, up to the band or one share. *)
LEMMA LeftBounds ==
  ASSUME TypeOK, NEW t \in Symbol, sell[t] = SellSize(t), buy[t] = BuySize(t),
         Held(t) => Tradable(t)
  PROVE  /\ Left(t) \in Nat /\ Left(t) * Price(t) \in Nat
         /\ 100 * (Left(t) * Price(t)) <= (100 + Band) * target[t] + 100 * Price(t)
<1> DEFINE q == facts[t].qty
           p == Price(t)
           w == Worth(t)
           g == target[t]
           s == SellSize(t)
           b == BuySize(t)
<1>1. /\ p \in Nat /\ w \in Nat /\ g \in Nat /\ q \in Nat /\ w = q * p
      /\ ~Held(t) => w = 0
      /\ s \in Nat /\ b \in Nat /\ s <= q /\ Band \in Nat
  BY WorthType, SellBounds, BuyBounds
<1>2. Left(t) = q - s + b
  BY DEF Left
<1>3. Held(t) <=> q > 0
  BY DEF Held
<1>4. b > 0 => g > 0 /\ w < g /\ w + b * p <= g
  BY BuyBounds
<1>5. s > 0 /\ g > 0 => w > g /\ w - s * p < g + p
  BY SellBounds
<1>6. Held(t) => p > 0 /\ MaySell(t)
  BY DEF Tradable, MaySell
<1>7. g = 0 /\ Held(t) => s = q
  BY <1>1, <1>6 DEF SellSize
<1>8. s = 0 /\ g # 0 /\ Held(t) => w * 100 <= g * (100 + Band) \/ w < g + p
  <2> SUFFICES ASSUME s = 0, g # 0, Held(t), w * 100 > g * (100 + Band) PROVE w < g + p
    <3> HIDE DEF w, g, s
    <3>1. w * 100 \in Nat /\ g * (100 + Band) \in Nat
      BY <1>1
    <3> QED BY <3>1
  <2>1. p # 0 /\ MaySell(t)
    BY <1>1, <1>6
  <2>2. s = (w - g) \div p
    BY <2>1 DEF SellSize
  <2> HIDE DEF w, g, s, p
  <2>3. g * 100 <= g * (100 + Band) /\ g * (100 + Band) \in Nat
    BY <1>1, ProductGrows
  <2>4. w - g \in Nat
    BY <1>1, <2>3
  <2>5. w - g < p * s + p
    BY <1>1, <2>1, <2>2, <2>4, Division
  <2>6. p * s = 0
    BY <1>1 DEF s
  <2> QED BY <1>1, <2>4, <2>5, <2>6
<1> HIDE DEF q, p, w, g, s, b
<1>9. Left(t) \in Nat
  BY <1>1, <1>2
<1> DEFINE left == Left(t) * p
<1>10. left = w - s * p + b * p /\ left \in Nat /\ s * p \in Nat /\ b * p \in Nat
  <2>1. (q - s + b) * p = q * p - s * p + b * p
    BY <1>1
  <2> QED BY <1>1, <1>2, <1>9, <2>1
<1>11. g * (100 + Band) = 100 * g + Band * g /\ (100 + Band) * g = 100 * g + Band * g
       /\ Band * g \in Nat
  BY <1>1
<1> HIDE DEF left
<1>12. 100 * left <= 100 * g + Band * g + 100 * p
  <2>1. CASE b > 0
    <3>1. s = 0
      <4>1. CASE s > 0
        BY <1>1, <1>4, <1>5, <2>1, <4>1
      <4> QED BY <1>1, <4>1
    <3>2. s * p = 0
      BY <1>1, <3>1
    <3> QED BY <1>1, <1>4, <1>10, <1>11, <2>1, <3>2
  <2>2. CASE b = 0 /\ s > 0 /\ g > 0
    <3>1. b * p = 0
      BY <1>1, <2>2
    <3> QED BY <1>1, <1>5, <1>10, <1>11, <2>2, <3>1
  <2>3. CASE b = 0 /\ g = 0
    <3>1. b * p = 0
      BY <1>1, <2>3
    <3>2. left = 0
      <4>1. CASE Held(t)
        <5>1. s = q
          BY <1>7, <2>3, <4>1
        <5>2. s * p = w
          BY <1>1, <5>1
        <5> QED BY <1>1, <1>10, <3>1, <5>2
      <4>2. CASE ~Held(t)
        <5>1. q = 0 /\ s = 0
          BY <1>1, <1>3, <4>2
        <5> QED BY <1>1, <1>10, <3>1, <5>1
      <4> QED BY <4>1, <4>2
    <3> QED BY <1>1, <1>11, <3>2
  <2>4. CASE b = 0 /\ s = 0 /\ g # 0
    <3>1. b * p = 0 /\ s * p = 0
      BY <1>1, <2>4
    <3>2. left = w
      BY <1>1, <1>10, <3>1
    <3>3. w * 100 <= g * (100 + Band) \/ w < g + p
      <4>1. CASE Held(t)
        BY <1>8, <2>4, <4>1
      <4>2. CASE ~Held(t)
        BY <1>1, <1>11, <4>2
      <4> QED BY <4>1, <4>2
    <3> QED BY <1>1, <1>11, <3>2, <3>3
  <2> QED BY <1>1, <2>1, <2>2, <2>3, <2>4
<1> QED BY <1>9, <1>10, <1>11, <1>12 DEF left, p, g

LEMMA CapReached ==
  ASSUME TypeOK, CapInv, OrdersInv, stage = "done", regime = "TRANSITION",
         \A t \in Symbol : Held(t) => Tradable(t)
  PROVE  SumOf([t \in Symbol |-> Left(t) * Price(t)], Symbol)
           <= (TransitionCap * (100 + Band)) \div 100
                + SumOf([t \in Symbol |-> Price(t) + 2], Symbol)
<1> DEFINE L == [t \in Symbol |-> Left(t) * Price(t)]
           P == [t \in Symbol |-> Price(t) + 2]
           n == Cardinality(Symbol)
           m == TransitionCap * (100 + Band)
           d == m \div 100
           tt == Total(target, Symbol)
           tl == Total(L, Symbol)
           tp == Total(P, Symbol)
<1>1. IsFiniteSet(Symbol) /\ n \in Nat /\ Band \in Nat /\ Band <= 100 /\ TransitionCap \in Nat
  BY SymbolsFinite
<1>2. \A t \in Symbol : /\ L[t] \in Nat /\ P[t] \in Nat /\ target[t] \in Nat
                        /\ 100 * L[t] <= (100 + Band) * target[t] + 100 * P[t] + (-200)
  <2> SUFFICES ASSUME NEW t \in Symbol
               PROVE  /\ L[t] \in Nat /\ P[t] \in Nat /\ target[t] \in Nat
                      /\ 100 * L[t] <= (100 + Band) * target[t] + 100 * P[t] + (-200)
    OBVIOUS
  <2>1. sell[t] = SellSize(t) /\ buy[t] = BuySize(t)
    BY DEF OrdersInv
  <2>2. /\ Left(t) * Price(t) \in Nat
        /\ 100 * (Left(t) * Price(t)) <= (100 + Band) * target[t] + 100 * Price(t)
    BY <2>1, LeftBounds
  <2>3. Price(t) \in Nat /\ target[t] \in Nat
    BY WorthType
  <2> DEFINE x == Left(t) * Price(t)
             y == (100 + Band) * target[t]
             p == Price(t)
  <2>4. x \in Nat /\ 100 * x <= y + 100 * p /\ y \in Nat /\ p \in Nat
    BY <1>1, <2>2, <2>3
  <2>5. L[t] = x /\ P[t] = p + 2
    OBVIOUS
  <2> HIDE DEF x, y, p, L, P
  <2>6. L[t] \in Nat /\ P[t] \in Nat /\ 100 * L[t] <= y + 100 * P[t] + (-200)
    BY <2>4, <2>5
  <2> QED BY <2>3, <2>6 DEF y
<1> HIDE DEF L, P
<1>3. 100 * tl <= (100 + Band) * tt + 100 * tp + (-200) * n
  <2>1. \A t \in Symbol : target[t] \in Int /\ L[t] \in Int /\ P[t] \in Int
    BY <1>2
  <2>2. 100 \in Int /\ 100 + Band \in Int /\ -200 \in Int
    BY <1>1
  <2>3. \A t \in Symbol : 100 * L[t] <= (100 + Band) * target[t] + 100 * P[t] + (-200)
    BY <1>2
  <2> DEFINE b == 100 + Band
             e == -200
  <2>4. \A t \in Symbol : 100 * L[t] <= b * target[t] + 100 * P[t] + e
    BY <2>3
  <2>5. 100 \in Int /\ b \in Int /\ e \in Int
    BY <2>2
  <2> HIDE DEF b, e
  <2>6. 100 * Total(L, Symbol)
          <= b * Total(target, Symbol) + 100 * Total(P, Symbol) + e * Cardinality(Symbol)
    BY <1>1, <2>1, <2>4, <2>5, TotalLinear
  <2> QED BY <2>6 DEF b, e
<1>4. tt <= TransitionCap + n /\ tt \in Nat /\ tl \in Nat /\ tp \in Nat
  <2>1. tt <= TransitionCap + n
    BY SumIsTotal DEF CapInv
  <2>2. tt \in Nat /\ tl \in Nat /\ tp \in Nat
    BY <1>1, <1>2, TotalType
  <2> QED BY <2>1, <2>2
<1> HIDE DEF n, tt, tl, tp
<1>5. (100 + Band) * tt <= m + (100 + Band) * n /\ m \in Nat
  <2>1. 100 + Band \in Nat /\ TransitionCap + n \in Nat
    BY <1>1
  <2>2. (100 + Band) * tt <= (100 + Band) * (TransitionCap + n)
    BY <1>1, <1>4, <2>1, ProductGrows
  <2>3. (100 + Band) * (TransitionCap + n) = TransitionCap * (100 + Band) + (100 + Band) * n
    BY <1>1
  <2>4. m \in Nat
    BY <1>1
  <2> QED BY <2>2, <2>3, <2>4
<1>6. (100 + Band) * n <= 200 * n /\ (100 + Band) * n \in Nat
  <2>1. 100 + Band \in Nat /\ 100 + Band <= 200
    BY <1>1
  <2> QED BY <1>1, <2>1, ProductGrows
<1>7. d \in Nat /\ m < 100 * d + 100
  <2> HIDE DEF m
  <2>1. m \in Nat
    BY <1>5
  <2> QED BY <2>1, Division DEF d
<1>8. (100 + Band) * tt \in Nat
  BY <1>1, <1>4
<1> HIDE DEF m, d
<1>9. tl <= d + tp
  BY <1>1, <1>3, <1>4, <1>5, <1>6, <1>7, <1>8
<1> QED BY <1>9, SumIsTotal DEF tl, tp, d, m, L, P

(* In a transition the orders of a batch, once all filled, leave the account within the cap,
   up to the rebalance band and, for each symbol, one share and the rounding of its weight
   (_apply_transition_exposure_cap, then what _calculate_orders makes of it).   *)
THEOREM TransitionIsCapped == Spec => []TransitionWithinCap
<1>1. TypeOK /\ CapInv /\ OrdersInv => TransitionWithinCap
  BY CapReached DEF TransitionWithinCap
<1> QED BY <1>1, PlanInit, PlanTypesNext, CapInit, CapNext, OrdersNext, PTL DEF Spec

-----------------------------------------------------------------------------
(* Strong positions keep a share                                           *)

Calm == regime \in {"UPTREND", "SIDEWAYS"}
Blind == [t \in Symbol |-> IF facts[t].usable THEN 0 ELSE Value(facts[t])]
Points == [t \in Symbol |-> Excess(t)]

CaseFacts == stage # "idle" => \A t \in Ticker : facts[t] \in Cases

(* The loop gives a share to all that remain: the budget covers every point of their
   conviction, or it is the limit of each of them.                             *)
Covered == budget >= ConvictionTotal \/ budget = MaxWeight * Cardinality(remaining)

(* In a calm market only positions without data are kept as they are; a strong position
   enters the allocation with a weight and leaves it with one.                 *)
StrongInv ==
  Calm =>
    /\ stage \in {"hedge", "allocate"} => \A t \in Ticker :
         /\ reason[t] \in Protected /\ target[t] > 0
              => ~facts[t].usable /\ target[t] = Value(facts[t])
         /\ Strong(t) => target[t] > 0 /\ reason[t] = "HOLD"
    /\ stage = "share" /\ Room => \A t \in Ticker : Strong(t) =>
         \/ t \notin remaining /\ target[t] > 0
         \/ t \in remaining /\ conviction[t] > 0 /\ Covered
    /\ stage \in {"cap", "block", "order"} /\ Room => \A t \in Ticker : Strong(t) => target[t] > 0
    /\ stage = "done" /\ Room => \A t \in Ticker : Strong(t) => sell[t] < facts[t].qty

LEMMA StrongInit == Init => CaseFacts /\ StrongInv
BY DEF Init, CaseFacts, StrongInv, Calm

LEMMA CaseFactsNext == CaseFacts /\ [Next]_vars => CaseFacts'
<1> SUFFICES ASSUME CaseFacts, [Next]_vars PROVE CaseFacts'
  OBVIOUS
<1>1. CASE Begin
  <2>1. PICK c \in [Ticker -> Cases], h \in HedgeCases :
          facts' = [t \in Symbol |-> IF t = Hedge THEN h ELSE c[t]]
    BY <1>1 DEF Begin
  <2> QED BY <2>1 DEF CaseFacts
<1>2. CASE Finish
  BY <1>2 DEF Finish, CaseFacts
<1>3. CASE ~Begin /\ ~Finish
  BY <1>3, BatchGoesOn DEF inputs, CaseFacts
<1> QED BY <1>1, <1>2, <1>3

(* While the batch goes on, who is strong and how much room there is stays the same. *)
LEMMA SameFacts ==
  ASSUME inputs' = inputs
  PROVE  /\ facts' = facts /\ regime' = regime
         /\ Calm' = Calm /\ Room' = Room
         /\ \A t \in Symbol : Strong(t)' = Strong(t) /\ Excess(t)' = Excess(t)
<1>1. facts' = facts /\ regime' = regime
  BY DEF inputs
<1>2. \A t \in Symbol : Excess(t)' = Excess(t)
  BY <1>1 DEF Excess
<1>3. Calm' = Calm
  BY <1>1 DEF Calm
<1>4. \A t \in Symbol : Strong(t)' = Strong(t)
  BY <1>1 DEF Strong, Held, HeldTarget, Carried
<1>5. Room' = Room
  <2>1. [t \in Symbol |-> Excess(t)]' = [t \in Symbol |-> Excess(t)]
    BY <1>2
  <2>2. [t \in Symbol |-> IF facts[t].usable THEN 0 ELSE Value(facts[t])]'
          = [t \in Symbol |-> IF facts[t].usable THEN 0 ELSE Value(facts[t])]
    BY <1>1
  <2> QED BY <2>1, <2>2 DEF Room
<1> QED BY <1>1, <1>2, <1>3, <1>4, <1>5

LEMMA HeldValue ==
  ASSUME TypeOK, CaseFacts, stage # "idle", NEW t \in Ticker, Held(t)
  PROVE  Value(facts[t]) > 0 /\ Value(facts[t]) \in Nat
<1> DEFINE q == facts[t].qty
           p == IF facts[t].price > 0 THEN facts[t].price ELSE facts[t].avg
<1>1. facts[t] \in Facts /\ facts[t] \in Cases
  BY DEF TypeOK, CaseFacts
<1>2. q \in Nat /\ q > 0 /\ facts[t].avg > 0 /\ facts[t].avg \in Nat /\ facts[t].price \in Nat
  BY <1>1, FactTypes DEF Held
<1>3. p \in Nat /\ p > 0
  BY <1>2
<1> HIDE DEF q, p
<1>4. q * p > 0 /\ q * p \in Nat
  <2>1. q * 1 <= q * p
    BY <1>2, <1>3, ProductGrows
  <2> QED BY <1>2, <1>3, <2>1
<1> QED BY <1>4 DEF Value, q, p

(* What the signals of a calm market decide. *)
LEMMA CalmDecision ==
  ASSUME TypeOK, CaseFacts, stage # "idle", Calm, NEW t \in Ticker
  PROVE  /\ Decision(facts[t]).reason \in Protected /\ Decision(facts[t]).target > 0
              => ~facts[t].usable /\ Decision(facts[t]).target = Value(facts[t])
         /\ Strong(t) => Decision(facts[t]).target > 0 /\ Decision(facts[t]).reason = "HOLD"
<1> DEFINE f == facts[t]
<1>1. f \in Facts /\ f.qty \in Nat
  BY FactTypes DEF TypeOK
<1>2. RiskExit(f) \notin Protected /\ RiskExit(f) # "HOLD"
  BY DEF RiskExit, Protected
<1>3. SignalExit(f) \notin Protected
  BY DEF SignalExit, Protected
<1>4. \/ HeldTarget(f) = Decide(0, RiskExit(f))
      \/ HeldTarget(f) = Decide(Value(f), "DATA_UNAVAILABLE_HOLD") /\ ~f.usable
      \/ HeldTarget(f) = Decide(0, SignalExit(f)) /\ SignalExit(f) # "HOLD"
      \/ HeldTarget(f) = Decide(Value(f), "HOLD")
  BY DEF HeldTarget, Calm
<1>5. EntryTarget(f).reason \in {"NONE", "FA_TA_ENTRY"}
  <2>1. CASE ~(f.usable /\ riskKnown /\ f.sound /\ f.rising) \/ f.risky
    BY <2>1 DEF EntryTarget, Decide
  <2>2. CASE f.usable /\ riskKnown /\ f.sound /\ f.rising /\ ~f.risky
    BY <2>2 DEF EntryTarget, Decide, Calm
  <2> QED BY <2>1, <2>2
<1>6. CASE Held(t)
  <2>1. Decision(f) = HeldTarget(f) /\ Value(f) > 0
    BY <1>1, <1>6, HeldValue DEF Decision, Held
  <2>2. "HOLD" \notin Protected
    BY DEF Protected
  <2>3. Strong(t) => HeldTarget(f).reason = "HOLD"
    BY DEF Strong
  <2>4. Strong(t) => HeldTarget(f) = Decide(Value(f), "HOLD")
    BY <1>2, <1>4, <2>3 DEF Decide
  <2> QED BY <1>2, <1>3, <1>4, <2>1, <2>2, <2>4 DEF Decide
<1>7. CASE ~Held(t)
  <2>1. Decision(f) = EntryTarget(f) /\ ~Strong(t)
    BY <1>1, <1>7 DEF Decision, Held, Strong
  <2>2. "NONE" \notin Protected /\ "FA_TA_ENTRY" \notin Protected
    BY DEF Protected
  <2> QED BY <1>5, <2>1, <2>2
<1> QED BY <1>6, <1>7

LEMMA StrongStart ==
  ASSUME TypeOK, TypeOK', GoalInv, HedgeInv, StrongInv, StartAllocation, Calm, Room,
         NEW t \in Ticker, Strong(t)
  PROVE  t \in remaining' /\ conviction'[t] > 0 /\ Covered'
<1> DEFINE A == Allocatable
           n == Cardinality(A)
           blind == SumOf(Blind, Symbol)
           points == SumOf(Points, Symbol)
           c == SumOf(Points, A)
<1>1. stage = "allocate" /\ remaining' = A /\ A \in SUBSET Symbol /\ budget' = FullBudget
  BY DEF StartAllocation, Allocatable, Active
<1>2. target[Hedge] = 0
  <2>1. goal.weight \in Nat /\ (target[Hedge] = 0 \/ target[Hedge] = goal.weight)
    BY <1>1 DEF HedgeInv, GoalInv, Decided
  <2>2. ~(goal.weight > 0)
    BY <1>1 DEF GoalInv, Calm
  <2> QED BY <2>1, <2>2
<1>3. t \in A
  BY <1>1 DEF StrongInv, Allocatable, Kept, Active, Protected
<1>4. Excess(t) > 0
  <2>1. facts[t].score \in Int
    BY MoreFactTypes DEF TypeOK, NoScore
  <2> QED BY <2>1 DEF Strong, Excess, AtLeast
<1>5. conviction' = Points
  BY <1>3, <1>4 DEF StartAllocation, Points
<1>6. FixedTotal <= blind
  <2>1. \A s \in Symbol : Fixed[s] \in Int /\ Blind[s] \in Int /\ Fixed[s] <= Blind[s]
    <3> SUFFICES ASSUME NEW s \in Symbol
                 PROVE  Fixed[s] \in Int /\ Blind[s] \in Int /\ Fixed[s] <= Blind[s]
      OBVIOUS
    <3>1. Blind[s] \in Nat /\ target[s] \in Nat
      <4>1. Value(facts[s]) \in Nat /\ target[s] \in Nat
        BY ValueType DEF TypeOK
      <4> QED BY <4>1 DEF Blind
    <3>2. CASE reason[s] \in Protected /\ target[s] > 0
      <4>1. s \in Ticker
        BY <1>2, <3>2
      <4>2. ~facts[s].usable /\ target[s] = Value(facts[s])
        BY <1>1, <3>2, <4>1 DEF StrongInv
      <4>3. Fixed[s] = target[s] /\ Blind[s] = target[s]
        BY <3>2, <4>2 DEF Fixed, Blind
      <4> QED BY <3>1, <4>3
    <3>3. CASE ~(reason[s] \in Protected /\ target[s] > 0)
      <4>1. Fixed[s] = 0
        BY <3>1, <3>3 DEF Fixed
      <4> QED BY <3>1, <4>1
    <3> QED BY <3>2, <3>3
  <2> QED BY <2>1, SymbolsFinite, TotalMonotone, SumIsTotal DEF FixedTotal
<1>7. c <= points /\ c \in Nat /\ points \in Nat
  <2>1. \A s \in Symbol : Points[s] \in Nat
    BY ExcessType DEF Points
  <2>2. /\ Total(Points, A) <= Total(Points, Symbol)
        /\ Total(Points, A) \in Nat /\ Total(Points, Symbol) \in Nat
    BY <1>1, <2>1, SymbolsFinite, TotalSubset
  <2> QED BY <2>2, SumIsTotal
<1>8. blind + points <= Gross /\ blind \in Nat
  <2>1. blind + points <= Gross
    BY DEF Room, Blind, Points
  <2>2. \A s \in Symbol : Blind[s] \in Nat
    <3>1. \A s \in Symbol : Value(facts[s]) \in Nat
      BY ValueType DEF TypeOK
    <3> QED BY <3>1 DEF Blind
  <2>3. blind \in Nat
    BY <2>2, SumOfNaturals
  <2> QED BY <2>1, <2>3
<1>9. budget' >= c \/ budget' = MaxWeight * n
  <2> DEFINE k == MaxWeight * n
  <2>1. k \in Nat
    BY <1>1, SymbolsFinite, Product
  <2>2. FullBudget = AtMost(AtLeast(Gross - FixedTotal, 0), k)
    BY Parts DEF FullBudget
  <2> HIDE DEF k, n, c, points, blind
  <2>3. FullBudget = k \/ FullBudget >= c
    BY <1>6, <1>7, <1>8, <2>1, <2>2, PartTypes DEF AtMost, AtLeast
  <2> QED BY <1>1, <2>3 DEF k
<1>10. ConvictionTotal' = c
  BY <1>1, <1>5 DEF ConvictionTotal
<1>11. Covered'
  BY <1>1, <1>9, <1>10 DEF Covered
<1> QED BY <1>1, <1>3, <1>4, <1>5, <1>11 DEF Points

LEMMA CoveredCap ==
  ASSUME TypeOK, TypeOK', Covered, CapOverweight
  PROVE  Covered'
<1> DEFINE O == Overweight
           n == Cardinality(O)
           k == MaxWeight * n
           C == ConvictionTotal
           r == SumOf(conviction, remaining \ O)
<1>1. /\ remaining' = remaining \ O /\ budget' = budget - k /\ conviction' = conviction
      /\ C > 0 /\ O \in SUBSET remaining /\ budget \in Nat
  BY DEF CapOverweight, Overweight, TypeOK
<1>2. C \in Nat /\ r \in Nat /\ n \in Nat /\ C # 0
  <2> HIDE DEF O, k
  <2>1. C \in Nat /\ r \in Nat /\ n \in Nat
    BY <1>1, Convictions
  <2> HIDE DEF C
  <2> QED BY <1>1, <2>1
<1>3. ConvictionTotal' = r
  BY <1>1 DEF ConvictionTotal
<1>4. CASE budget >= C
  <2>1. k \in Nat /\ (budget - k) * C >= budget * r
    BY <1>1, CapFitsBudget
  <2> HIDE DEF k, r, C
  <2>2. C * r <= budget * r
    BY <1>1, <1>2, <1>4, ProductGrows
  <2>3. /\ (budget - k) * C = C * (budget - k) /\ budget * r \in Nat /\ C * r \in Nat
        /\ C * (budget - k) \in Int
    BY <1>1, <1>2, <2>1
  <2>4. C * r <= C * (budget - k)
    BY <2>1, <2>2, <2>3
  <2>5. r <= budget - k
    <3>1. budget - k \in Int /\ r \in Int
      BY <1>1, <1>2, <2>1
    <3> QED BY <1>2, <2>4, <3>1, ProductCancels
  <2> QED BY <1>1, <1>2, <1>3, <2>1, <2>5 DEF Covered
<1>5. CASE budget = MaxWeight * Cardinality(remaining)
  <2>1. Cardinality(remaining \ O) = Cardinality(remaining) - n
    <3>1. IsFiniteSet(remaining)
      BY SymbolsFinite DEF TypeOK
    <3>2. remaining \cap O = O
      BY <1>1
    <3> QED BY <3>1, <3>2, FS_Difference
  <2>2. Cardinality(remaining) \in Nat
    BY SymbolsFinite DEF TypeOK
  <2> HIDE DEF n, O
  <2>3. MaxWeight * (Cardinality(remaining) - n) = MaxWeight * Cardinality(remaining) - MaxWeight * n
    BY <1>2, <2>2
  <2>4. budget' = MaxWeight * Cardinality(remaining')
    BY <1>1, <1>5, <2>1, <2>3
  <2> QED BY <2>4 DEF Covered
<1> QED BY <1>4, <1>5 DEF Covered

(* A share of a covered budget is never rounded to nothing. *)
LEMMA CoveredShare ==
  ASSUME TypeOK, Covered, ShareOut, NEW t \in remaining, conviction[t] > 0
  PROVE  target'[t] > 0
<1> DEFINE C == ConvictionTotal
           n == Cardinality(remaining)
<1>1. /\ t \in Symbol /\ budget \in Nat /\ conviction[t] \in Nat /\ C \in Nat /\ C # 0
      /\ n \in Nat /\ n # 0 /\ IsFiniteSet(remaining)
  <2>1. C \in Nat /\ IsFiniteSet(remaining) /\ n \in Nat
    BY Convictions, SymbolsFinite DEF TypeOK
  <2>2. n # 0
    BY <2>1, FS_EmptySet
  <2>3. t \in Symbol /\ budget \in Nat /\ conviction[t] \in Nat
    BY DEF TypeOK
  <2> QED BY <2>1, <2>2, <2>3 DEF ShareOut
<1>2. target'[t] = Round(budget * conviction[t], C)
  BY <1>1 DEF ShareOut
<1>3. \A s \in remaining : conviction[s] \in Nat /\ budget * conviction[s] < MaxWeight * C
  <2> SUFFICES ASSUME NEW s \in remaining
               PROVE  conviction[s] \in Nat /\ budget * conviction[s] < MaxWeight * C
    OBVIOUS
  <2> DEFINE p == budget * conviction[s]
             q == MaxWeight * ConvictionTotal
  <2>1. conviction[s] \in Nat
    BY DEF TypeOK
  <2>2. ~(p >= q)
    BY DEF ShareOut, Overweight
  <2>3. p \in Nat /\ q \in Nat
    BY <1>1, <2>1
  <2> HIDE DEF p, q
  <2>4. p < q
    BY <2>2, <2>3
  <2> QED BY <2>1, <2>4 DEF p, q
<1>4. CASE budget >= C
  <2>1. budget * conviction[t] >= C
    <3>1. budget * 1 <= budget * conviction[t]
      <4>1. 1 <= conviction[t]
        BY <1>1
      <4> QED BY <1>1, <4>1, ProductGrows
    <3>2. budget * conviction[t] \in Nat
      BY <1>1
    <3> HIDE DEF C
    <3> QED BY <1>1, <1>4, <3>1, <3>2
  <2> QED BY <1>1, <1>2, <2>1, ShareBounds
<1>5. CASE budget = MaxWeight * n
  <2> DEFINE m == MaxWeight * C
             d == m - 1
             total == Total(conviction, remaining)
  <2>1. total = C
    BY SumIsTotal DEF ConvictionTotal
  <2>2. m \in Nat /\ d \in Int
    BY <1>1
  <2> HIDE DEF C, n, d, m
  <2>3. \A s \in remaining : budget * conviction[s] <= 0 * conviction[s] + 0 * conviction[s] + d
    <3> SUFFICES ASSUME NEW s \in remaining
                 PROVE  budget * conviction[s] <= 0 * conviction[s] + 0 * conviction[s] + d
      OBVIOUS
    <3> DEFINE p == budget * conviction[s]
    <3>1. p \in Nat /\ p < m /\ 0 * conviction[s] = 0
      BY <1>1, <1>3 DEF m
    <3> HIDE DEF p
    <3>2. p <= 0 * conviction[s] + 0 * conviction[s] + d
      BY <2>2, <3>1 DEF d
    <3> QED BY <3>2 DEF p
  <2>4. budget * total <= 0 * total + 0 * total + d * Cardinality(remaining)
    <3>1. budget \in Int /\ 0 \in Int /\ \A s \in remaining : conviction[s] \in Int
      BY <1>1, <1>3
    <3> QED BY <1>1, <2>2, <2>3, <3>1, TotalLinear
  <2>5. budget * C <= d * n
    <3>1. 0 * C = 0 /\ d * n \in Int
      BY <1>1, <2>2 DEF n
    <3> QED BY <2>1, <2>4, <3>1 DEF n
  <2>6. d * n = m * n - n /\ m * n \in Nat
    BY <1>1, <2>2 DEF d
  <2>7. budget * C = m * n
    <3>1. (MaxWeight * n) * C = (MaxWeight * C) * n
      BY <1>1
    <3> QED BY <1>5, <3>1 DEF m
  <2> QED BY <1>1, <2>5, <2>6, <2>7
<1> QED BY <1>4, <1>5 DEF Covered

LEMMA StrongNext ==
  /\ TypeOK /\ TypeOK' /\ CaseFacts /\ GoalInv /\ HedgeInv /\ StrongInv /\ [Next]_vars
  => StrongInv'
<1> SUFFICES ASSUME TypeOK, TypeOK', CaseFacts, GoalInv, HedgeInv, StrongInv, [Next]_vars
             PROVE  StrongInv'
  OBVIOUS
<1>1. CASE Begin \/ Finish \/ DivisionByZero
  <2>1. stage' \in {"evaluate", "idle", "failed"}
    BY <1>1 DEF Begin, Finish, DivisionByZero
  <2> QED BY <2>1 DEF StrongInv
<1>2. CASE EvaluateSignals
  <2>1. stage = "evaluate" /\ stage' = "hedge" /\ inputs' = inputs
    BY <1>2 DEF EvaluateSignals
  <2>2. facts' = facts /\ Calm' = Calm /\ \A t \in Symbol : Strong(t)' = Strong(t)
    BY <2>1, SameFacts
  <2>3. ASSUME Calm, NEW t \in Ticker
        PROVE  /\ reason'[t] \in Protected /\ target'[t] > 0
                    => ~facts[t].usable /\ target'[t] = Value(facts[t])
               /\ Strong(t) => target'[t] > 0 /\ reason'[t] = "HOLD"
    <3>1. target'[t] = Decision(facts[t]).target /\ reason'[t] = Decision(facts[t]).reason
      BY <1>2 DEF EvaluateSignals
    <3> QED BY <2>1, <2>3, <3>1, CalmDecision
  <2> QED BY <2>1, <2>2, <2>3 DEF StrongInv
<1>3. CASE OverrideForHedge
  <2>1. stage = "hedge" /\ stage' = "allocate" /\ inputs' = inputs
    BY <1>3 DEF OverrideForHedge
  <2>2. facts' = facts /\ Calm' = Calm /\ \A t \in Symbol : Strong(t)' = Strong(t)
    BY <2>1, SameFacts
  <2>3. ASSUME Calm, NEW t \in Ticker PROVE target'[t] = target[t] /\ reason'[t] = reason[t]
    <3>1. HedgeOverride(t) = Decide(target[t], reason[t])
      BY <2>3 DEF HedgeOverride, Calm
    <3> QED BY <1>3, <3>1 DEF OverrideForHedge, Decide
  <2> QED BY <2>1, <2>2, <2>3 DEF StrongInv
<1>4. CASE StartAllocation
  <2>1. stage' = "share" /\ inputs' = inputs
    BY <1>4 DEF StartAllocation
  <2>2. Calm' = Calm /\ Room' = Room /\ \A t \in Symbol : Strong(t)' = Strong(t)
    BY <2>1, SameFacts
  <2>3. ASSUME Calm, Room, NEW t \in Ticker, Strong(t)
        PROVE  t \in remaining' /\ conviction'[t] > 0 /\ Covered'
    BY <1>4, <2>3, StrongStart
  <2> QED BY <2>1, <2>2, <2>3 DEF StrongInv
<1>5. CASE CapOverweight \/ ShareOut \/ AllocationDone
  <2>1. stage = "share" /\ inputs' = inputs /\ stage' \in {"share", "cap"}
    BY <1>5 DEF CapOverweight, ShareOut, AllocationDone, Sharing
  <2>2. Calm' = Calm /\ Room' = Room /\ \A t \in Symbol : Strong(t)' = Strong(t)
    BY <2>1, SameFacts
  <2> SUFFICES ASSUME Calm, Room, NEW t \in Ticker, Strong(t)
               PROVE  \/ target'[t] > 0 /\ (stage' = "share" => t \notin remaining')
                      \/ /\ stage' = "share"
                         /\ t \in remaining' /\ conviction'[t] > 0 /\ Covered'
    BY <2>1, <2>2 DEF StrongInv
  <2>3. \/ t \notin remaining /\ target[t] > 0
        \/ t \in remaining /\ conviction[t] > 0 /\ Covered
    BY <2>1 DEF StrongInv
  <2>4. CASE CapOverweight
    <3>1. /\ target'[t] = IF t \in Overweight THEN MaxWeight ELSE target[t]
          /\ remaining' = remaining \ Overweight /\ conviction' = conviction /\ stage' = stage
      BY <2>4 DEF CapOverweight
    <3>2. Covered => Covered'
      BY <2>4, CoveredCap
    <3> QED BY <2>1, <2>3, <3>1, <3>2
  <2>5. CASE ShareOut
    <3>1. (t \notin remaining => target'[t] = target[t]) /\ remaining' = {}
      BY <2>5 DEF ShareOut
    <3>2. t \in remaining /\ conviction[t] > 0 /\ Covered => target'[t] > 0
      BY <2>5, CoveredShare
    <3> QED BY <2>3, <3>1, <3>2
  <2>6. CASE AllocationDone
    <3>1. target' = target /\ (remaining = {} \/ budget <= 0) /\ stage' = "cap"
      BY <2>6 DEF AllocationDone
    <3>2. ~(t \in remaining /\ conviction[t] > 0 /\ Covered)
      <4> SUFFICES ASSUME t \in remaining, conviction[t] > 0, Covered PROVE budget > 0
        BY <3>1 DEF TypeOK
      <4>1. conviction[t] \in Nat /\ budget \in Nat
        BY DEF TypeOK
      <4>2. ConvictionTotal >= conviction[t] /\ ConvictionTotal \in Nat
        <5>1. \A s \in remaining : conviction[s] \in Nat /\ conviction[s] \in Int
          BY DEF TypeOK
        <5>2. Total(conviction, remaining) = conviction[t] + Total(conviction, remaining \ {t})
          BY <5>1, SymbolsFinite, TotalRemove DEF TypeOK
        <5>3. Total(conviction, remaining \ {t}) \in Nat
          <6>1. IsFiniteSet(remaining \ {t}) /\ \A s \in remaining \ {t} : conviction[s] \in Nat
            BY <5>1, SymbolsFinite, FS_Subset DEF TypeOK
          <6> QED BY <6>1, TotalType
        <5>4. ConvictionTotal = Total(conviction, remaining)
          BY SumIsTotal DEF ConvictionTotal
        <5> QED BY <4>1, <5>2, <5>3, <5>4
      <4>3. MaxWeight * Cardinality(remaining) > 0
        <5> DEFINE n == Cardinality(remaining)
        <5>1. n \in Nat /\ n # 0
          <6>1. n \in Nat /\ IsFiniteSet(remaining)
            BY SymbolsFinite DEF TypeOK
          <6> QED BY <6>1, FS_EmptySet
        <5> HIDE DEF n
        <5>2. MaxWeight * 1 <= MaxWeight * n
          <6>1. 1 <= n
            BY <5>1
          <6> QED BY <5>1, <6>1, ProductGrows
        <5>3. MaxWeight * n \in Nat
          BY <5>1
        <5> QED BY <5>2, <5>3 DEF n
      <4> QED BY <4>1, <4>2, <4>3 DEF Covered
    <3> QED BY <2>3, <3>1, <3>2
  <2> QED BY <1>5, <2>4, <2>5, <2>6
<1>6. CASE CapTransition \/ ApplyBreaker
  <2>1. /\ stage \in {"cap", "block"} /\ inputs' = inputs /\ stage' \in {"block", "order"}
    BY <1>6 DEF CapTransition, ApplyBreaker
  <2>2. Calm' = Calm /\ Room' = Room /\ \A t \in Symbol : Strong(t)' = Strong(t)
    BY <2>1, SameFacts
  <2> SUFFICES ASSUME Calm, Room, NEW t \in Ticker, Strong(t) PROVE target'[t] > 0
    BY <2>1, <2>2 DEF StrongInv
  <2>3. target[t] > 0
    BY <2>1 DEF StrongInv
  <2>4. CASE CapTransition
    <3>1. target' = target
      BY <2>4 DEF CapTransition, Calm
    <3> QED BY <2>3, <3>1
  <2>5. CASE ApplyBreaker
    <3>1. Value(facts[t]) > 0
      BY <2>1, HeldValue DEF Strong
    <3> QED BY <2>3, <2>5, <3>1 DEF ApplyBreaker
  <2> QED BY <1>6, <2>4, <2>5
<1>7. CASE CalculateOrders
  <2>1. stage = "order" /\ stage' = "done" /\ inputs' = inputs
    BY <1>7 DEF CalculateOrders
  <2>2. facts' = facts /\ Calm' = Calm /\ Room' = Room /\ \A t \in Symbol : Strong(t)' = Strong(t)
    BY <2>1, SameFacts
  <2> SUFFICES ASSUME Calm, Room, NEW t \in Ticker, Strong(t) PROVE sell'[t] < facts[t].qty
    BY <2>1, <2>2 DEF StrongInv
  <2>3. target[t] > 0 /\ facts[t].qty > 0
    BY <2>1 DEF StrongInv, Strong, Held
  <2>4. sell'[t] = SellSize(t)
    BY <1>7 DEF CalculateOrders
  <2> QED BY <2>3, <2>4, SellBounds
<1>8. CASE UNCHANGED vars
  <2>1. UNCHANGED <<stage, target, reason, conviction, remaining, budget, sell>> /\ inputs' = inputs
    BY <1>8 DEF vars, locals, orders
  <2>2. /\ facts' = facts /\ Calm' = Calm /\ Room' = Room
        /\ \A t \in Symbol : Strong(t)' = Strong(t)
    BY <2>1, SameFacts
  <2>3. Covered' = Covered
    BY <2>1 DEF Covered, ConvictionTotal
  <2> QED BY <2>1, <2>2, <2>3 DEF StrongInv
<1> QED BY <1>1, <1>2, <1>3, <1>4, <1>5, <1>6, <1>7, <1>8 DEF Next

(* While the positions without data leave one ten-thousandth of the account for every point
   of conviction (Room), a batch of a calm market never sells a strong position whole: the
   capping loop, the limits and the breaker leave it a weight (allocate weights by conviction,
   _apply_entry_circuit_breaker, _calculate_orders).                           *)
THEOREM StrongStays == Spec => []StrongIsKept
<1>1. StrongInv => StrongIsKept
  BY DEF StrongInv, StrongIsKept, Calm
<1>2. /\ TypeOK /\ HedgeFacts /\ CaseFacts /\ GoalInv /\ HedgeInv /\ StrongInv /\ [Next]_vars
      => (TypeOK /\ HedgeFacts /\ CaseFacts /\ GoalInv /\ HedgeInv /\ StrongInv)'
  BY PlanTypesNext, HedgeFactsNext, CaseFactsNext, GoalNext, HedgeNext, StrongNext
<1> QED BY <1>1, <1>2, PlanInit, HedgeInit, StrongInit, PTL DEF Spec
=============================================================================
