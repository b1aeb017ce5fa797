---------------------------- MODULE InverseHedge ----------------------------
(***************************************************************************)
(* The inverse-ETF hedge of PAPER trading: evaluate_inverse_hedge, the JSON *)
(* state it keeps between cycles, and the hedge orders that follow from it. *)
(*                                                                         *)
(* The market data is the previous session's and fixed for the day, but    *)
(* the trader evaluates the hedge in every intraday cycle, so one date is   *)
(* evaluated many times, with a position and a price that change between.   *)
(***************************************************************************)
EXTENDS Integers, FiniteSets

CONSTANTS
  MinConfirmations, MaxHold, Cooldown,  \* InverseHedgeConfig
  MaxDay                                \* bound: trading days

ASSUME HedgeAssumption ==
  /\ MinConfirmations \in Nat /\ MinConfirmations >= 2
  /\ MaxHold \in Nat \ {0} /\ Cooldown \in Nat \ {0} /\ MaxDay \in Nat \ {0}

(* Target and current weights, in stage_weights: 0, 10, 20 or 30 percent. *)
Weight == 0..3

VARIABLES
  day,       \* signal_date
  downtrend, \* the regime observed for it
  streak,    \* consecutive DOWNTREND sessions up to it
  confident, \* the moving averages confirm it
  state,     \* the JSON state file
  weight,    \* the hedge position at the broker
  target,    \* the weight its open order goes for
  order,     \* the open hedge order: NONE, BUY or SELL
  last,      \* history: what the last evaluation saw and decided
  lastExit,  \* history: the date of the last stop-loss or holding-limit exit
  seen       \* history: the dates on which this holding was evaluated

market == <<day, downtrend, streak, confident>>
vars == <<market, state, weight, target, order, last, lastExit, seen>>

Init ==
  /\ day = 1 /\ downtrend \in BOOLEAN /\ confident \in BOOLEAN
  /\ streak = IF downtrend THEN 1 ELSE 0
  /\ state = [entry |-> 0, held |-> 0, lastHeld |-> 0, cooldown |-> 0, lastEval |-> 0]
  /\ weight = 0 /\ target = 0 /\ order = "NONE"
  /\ last = [day |-> 0, weight |-> 0, data |-> FALSE, loss |-> FALSE, target |-> 0]
  /\ lastExit = 0 /\ seen = {}

NextDay ==
  /\ day < MaxDay
  /\ day' = day + 1
  /\ downtrend' \in BOOLEAN /\ confident' \in BOOLEAN
  /\ streak' = IF downtrend' THEN streak + 1 ELSE 0
  /\ order' = "NONE" /\ target' = 0
  /\ UNCHANGED <<state, weight, last, lastExit, seen>>

-----------------------------------------------------------------------------
(* evaluate_inverse_hedge                                                  *)

(* Fault: every evaluation counts as a session of the cooldown. *)
CoolEveryTime(s) == IF s.cooldown > 0 THEN s.cooldown - 1 ELSE 0

Cooled(s) == IF s.cooldown > 0 /\ s.lastEval # day THEN s.cooldown - 1 ELSE s.cooldown

(* The bounded holding window: entry and active are set and cleared together.
   A position found without an entry starts its window today.                *)
Holding(s) ==
  CASE weight > 0 /\ s.entry = 0 -> [entry |-> day, held |-> 1, lastHeld |-> day]
    [] weight > 0 /\ s.entry # 0 ->
         [entry |-> s.entry, lastHeld |-> day,
          held |-> IF s.lastHeld # day THEN s.held + 1 ELSE s.held]
    [] OTHER -> [entry |-> 0, held |-> 0, lastHeld |-> 0]

(* Fault: one session too many. *)
HeldTooLongLate(h) == weight > 0 /\ h.held > MaxHold

HeldTooLong(h) == weight > 0 /\ h.held >= MaxHold

(* Fault: a fourth stage. *)
StageWithoutCap ==
  IF streak <= MinConfirmations THEN 1 ELSE streak - MinConfirmations + 1

Stage == CASE streak <= MinConfirmations -> 1
           [] streak = MinConfirmations + 1 -> 2
           [] OTHER -> 3

(* The target weight when no exit rule fires; data: the regime was observed. *)
RegimeTarget(s, data) ==
  CASE ~data -> weight
    [] data /\ ( \/ ~downtrend \/ s.cooldown > 0
                 \/ streak < MinConfirmations \/ ~confident ) -> 0
    [] OTHER -> Stage

(* One intraday cycle: evaluate, replace the state file, and perhaps order the
   difference (the planner may suppress it).  Cycles with an unresolved order
   end before the evaluation.                                                *)
Evaluate(data, loss) ==
  LET h == Holding(state)
      exit == (weight > 0 /\ loss) \/ HeldTooLong(h)
      goal == IF exit THEN 0 ELSE RegimeTarget(state, data)
  IN /\ order = "NONE"
     /\ state' = [entry |-> h.entry, held |-> h.held, lastHeld |-> h.lastHeld,
                  cooldown |-> IF exit THEN Cooldown ELSE Cooled(state),
                  lastEval |-> day]
     /\ \/ order' = "NONE" /\ target' = 0
        \/ /\ goal # weight /\ target' = goal
           /\ order' = IF goal > weight THEN "BUY" ELSE "SELL"
     /\ last' = [day |-> day, weight |-> weight, data |-> data, loss |-> loss,
                 target |-> goal]
     /\ lastExit' = IF exit THEN day ELSE lastExit
     /\ seen' = IF weight > 0 THEN seen \cup {day} ELSE {}
     /\ UNCHANGED <<market, weight>>

(* The order settles: filled, filled in part and cancelled, or refused. *)
OrderSettles ==
  /\ order # "NONE"
  /\ weight' \in IF order = "BUY" THEN weight..target ELSE target..weight
  /\ order' = "NONE" /\ target' = 0
  /\ UNCHANGED <<market, state, last, lastExit, seen>>

Next ==
  \/ NextDay
  \/ \E data, loss \in BOOLEAN : Evaluate(data, loss)
  \/ OrderSettles

Spec == Init /\ [][Next]_vars

-----------------------------------------------------------------------------
TypeOK ==
  /\ day \in 1..MaxDay /\ downtrend \in BOOLEAN /\ confident \in BOOLEAN
  /\ streak \in 0..MaxDay
  /\ state \in [entry : 0..MaxDay, held : 0..MaxDay, lastHeld : 0..MaxDay,
                cooldown : 0..Cooldown, lastEval : 0..MaxDay]
  /\ weight \in Weight /\ target \in Weight /\ order \in {"NONE", "BUY", "SELL"}
  /\ last \in [day : 0..MaxDay, weight : Weight, data : BOOLEAN, loss : BOOLEAN,
               target : Weight]
  /\ lastExit \in 0..MaxDay /\ seen \subseteq 1..MaxDay

(* However often a date is evaluated and however late the exit fills, a hedge left
   by stop-loss or holding limit is not bought again before the Cooldown-th date
   after that exit.                                                            *)
NoEntryInCooldown == order = "BUY" /\ lastExit > 0 => day >= lastExit + Cooldown

(* A hedge evaluated on MaxHold dates is told to leave, through restarts, missing
   data and exits that do not fill.                                            *)
HoldIsBounded == last.weight > 0 /\ Cardinality(seen) >= MaxHold => last.target = 0

(* Two evaluations of a date that see the same position and the same data decide
   the same, but for a date on which the cooldown of an earlier exit runs out: its
   first evaluation still answers COOLDOWN.                                     *)
DecisionIsStable ==
  [][ [last' EXCEPT !.target = 0] = [last EXCEPT !.target = 0] =>
        \/ last'.target = last.target
        \/ last.target = 0 /\ lastExit > 0 /\ day >= lastExit + Cooldown ]_vars
=============================================================================
