------------------------- MODULE InverseHedgeProofs -------------------------
(***************************************************************************)
(* The hedge's cooldown, its holding window and its one decision per date,  *)
(* for every configuration.                                                 *)
(***************************************************************************)
EXTENDS InverseHedge, FiniteSetTheorems, TLAPS

(* The parts of TypeOK that the arguments need. *)
HedgeType ==
  /\ day \in Nat \ {0}
  /\ downtrend \in BOOLEAN /\ confident \in BOOLEAN /\ streak \in Nat
  /\ state \in [entry : Nat, held : Nat, lastHeld : Nat, cooldown : Nat, lastEval : Nat]
  /\ weight \in Weight /\ target \in Weight /\ order \in {"NONE", "BUY", "SELL"}
  /\ lastExit \in Nat /\ seen \subseteq Nat

(* The cooldown left and the dates evaluated since the exit add up to at least
   the configured cooldown.                                                   *)
CooldownInv ==
  /\ lastExit <= state.lastEval /\ state.lastEval <= day
  /\ lastExit > 0 => state.cooldown + (state.lastEval - lastExit) >= Cooldown
  /\ order = "BUY" => state.cooldown = 0

(* held_sessions counts every date on which this holding was evaluated. *)
WindowInv ==
  /\ IsFiniteSet(seen)
  /\ state.entry = 0 => seen = {}
  /\ state.entry # 0 => state.lastHeld \in seen
  /\ state.held >= Cardinality(seen)
  /\ weight \in Weight
  /\ last.weight > 0 /\ state.held >= MaxHold => last.target = 0

IInv == HedgeType /\ CooldownInv /\ WindowInv

LEMMA StageType == ASSUME HedgeType PROVE Stage \in 1..3
BY DEF HedgeType, Stage

LEMMA RegimeTargetType ==
  ASSUME HedgeType, NEW data \in BOOLEAN
  PROVE  /\ RegimeTarget(state, data) \in Weight
         /\ RegimeTarget(state, data) > weight => state.cooldown = 0
<1>1. CASE ~data
  BY <1>1 DEF RegimeTarget, HedgeType, Weight
<1>2. CASE data /\ ( \/ ~downtrend \/ state.cooldown > 0
                     \/ streak < MinConfirmations \/ ~confident )
  BY <1>2 DEF RegimeTarget, HedgeType, Weight
<1>3. CASE data /\ ~( \/ ~downtrend \/ state.cooldown > 0
                      \/ streak < MinConfirmations \/ ~confident )
  <2>1. RegimeTarget(state, data) = Stage
    BY <1>3 DEF RegimeTarget
  <2>2. state.cooldown = 0
    BY <1>3 DEF HedgeType
  <2> QED BY <2>1, <2>2, StageType DEF Weight
<1> QED BY <1>1, <1>2, <1>3

(* What one evaluation does to the counted window. *)
LEMMA HoldingCounts ==
  ASSUME HedgeType, WindowInv
  PROVE  LET h == Holding(state)
             s == IF weight > 0 THEN seen \cup {day} ELSE {}
         IN /\ h \in [entry : Nat, held : Nat, lastHeld : Nat]
            /\ s \subseteq Nat /\ IsFiniteSet(s)
            /\ h.entry = 0 => s = {}
            /\ h.entry # 0 => h.lastHeld \in s
            /\ h.held >= Cardinality(s)
<1>1. CASE weight > 0 /\ state.entry = 0
  <2>1. Holding(state) = [entry |-> day, held |-> 1, lastHeld |-> day]
    BY <1>1 DEF Holding
  <2>2. seen \cup {day} = {day}
    BY <1>1 DEF WindowInv
  <2>3. IsFiniteSet({day}) /\ Cardinality({day}) = 1
    BY FS_Singleton
  <2> QED BY <1>1, <2>1, <2>2, <2>3 DEF HedgeType
<1>2. CASE weight > 0 /\ state.entry # 0
  <2>1. Holding(state) = [entry |-> state.entry, lastHeld |-> day,
                          held |-> IF state.lastHeld # day THEN state.held + 1 ELSE state.held]
    BY <1>2 DEF Holding
  <2>2. /\ IsFiniteSet(seen \cup {day})
        /\ Cardinality(seen \cup {day}) =
             IF day \in seen THEN Cardinality(seen) ELSE Cardinality(seen) + 1
    BY FS_AddElement DEF WindowInv
  <2>3. Cardinality(seen) \in Nat
    BY FS_CardinalityType DEF WindowInv
  <2>4. state.lastHeld = day => day \in seen
    BY <1>2 DEF WindowInv
  <2>5. state.held + (IF state.lastHeld # day THEN 1 ELSE 0) >= Cardinality(seen \cup {day})
    BY <2>2, <2>3, <2>4 DEF HedgeType, WindowInv
  <2> QED BY <1>2, <2>1, <2>2, <2>5 DEF HedgeType
<1>3. CASE ~(weight > 0)
  <2>1. Holding(state) = [entry |-> 0, held |-> 0, lastHeld |-> 0]
    BY <1>3 DEF Holding
  <2>2. IsFiniteSet({}) /\ Cardinality({}) = 0
    BY FS_EmptySet
  <2> QED BY <1>3, <2>1, <2>2
<1> QED BY <1>1, <1>2, <1>3

(* However the state file, the position and the orders came about, one evaluation
   keeps both accounts.                                                       *)
LEMMA EvaluateStep ==
  ASSUME IInv, NEW data \in BOOLEAN, NEW loss \in BOOLEAN, Evaluate(data, loss)
  PROVE  IInv'
<1> DEFINE h == Holding(state)
           exit == (weight > 0 /\ loss) \/ HeldTooLong(h)
           goal == IF exit THEN 0 ELSE RegimeTarget(state, data)
           s == IF weight > 0 THEN seen \cup {day} ELSE {}
           left == IF exit THEN Cooldown ELSE Cooled(state)
<1>1. /\ state' = [entry |-> h.entry, held |-> h.held, lastHeld |-> h.lastHeld,
                   cooldown |-> left, lastEval |-> day]
      /\ order = "NONE"
      /\ \/ order' = "NONE" /\ target' = 0
         \/ /\ goal # weight /\ target' = goal
            /\ order' = IF goal > weight THEN "BUY" ELSE "SELL"
      /\ last' = [day |-> day, weight |-> weight, data |-> data, loss |-> loss,
                  target |-> goal]
      /\ lastExit' = IF exit THEN day ELSE lastExit
      /\ seen' = s
      /\ UNCHANGED <<day, downtrend, streak, confident, weight>>
  BY DEF Evaluate, market
<1>2. /\ h \in [entry : Nat, held : Nat, lastHeld : Nat]
      /\ s \subseteq Nat /\ IsFiniteSet(s)
      /\ h.entry = 0 => s = {}
      /\ h.entry # 0 => h.lastHeld \in s
      /\ h.held >= Cardinality(s)
  BY HoldingCounts DEF IInv
<1>3. RegimeTarget(state, data) \in Weight /\ (RegimeTarget(state, data) > weight => state.cooldown = 0)
  BY RegimeTargetType DEF IInv
<1>4. goal \in Weight /\ (goal > weight => ~exit /\ state.cooldown = 0)
  BY <1>3 DEF IInv, HedgeType, Weight
<1>5. left \in Nat /\ Cooldown \in Nat
  BY HedgeAssumption DEF IInv, HedgeType, Cooled
<1> HIDE DEF h, s, left, goal
<1>6. HedgeType'
  <2>1. state' \in [entry : Nat, held : Nat, lastHeld : Nat, cooldown : Nat, lastEval : Nat]
    BY <1>1, <1>2, <1>5 DEF IInv, HedgeType
  <2>2. target' \in Weight /\ order' \in {"NONE", "BUY", "SELL"}
    BY <1>1, <1>4 DEF Weight
  <2>3. lastExit' \in Nat /\ seen' \subseteq Nat
    BY <1>1, <1>2 DEF IInv, HedgeType
  <2> QED BY <1>1, <2>1, <2>2, <2>3 DEF IInv, HedgeType
<1>7. CooldownInv'
  <2>1. lastExit' <= state'.lastEval /\ state'.lastEval <= day'
    BY <1>1 DEF IInv, HedgeType, CooldownInv
  <2>2. lastExit' > 0 => state'.cooldown + (state'.lastEval - lastExit') >= Cooldown
    <3>1. CASE exit
      <4>1. left = Cooldown
        BY <3>1 DEF left
      <4> QED BY <1>1, <3>1, <4>1, <1>5 DEF IInv, HedgeType
    <3>2. CASE ~exit
      <4>1. left = Cooled(state)
        BY <3>2 DEF left
      <4> QED BY <1>1, <3>2, <4>1, <1>5 DEF IInv, HedgeType, CooldownInv, Cooled
    <3> QED BY <3>1, <3>2
  <2>3. order' = "BUY" => state'.cooldown = 0
    <3> SUFFICES ASSUME order' = "BUY" PROVE state'.cooldown = 0
      OBVIOUS
    <3>1. goal > weight
      BY <1>1
    <3>2. left = 0
      BY <3>1, <1>4 DEF left, Cooled
    <3> QED BY <1>1, <3>2
  <2> QED BY <2>1, <2>2, <2>3 DEF CooldownInv
<1>8. WindowInv'
  <2>1. last'.weight > 0 /\ state'.held >= MaxHold => last'.target = 0
    BY <1>1 DEF goal, HeldTooLong
  <2>2. weight' \in Weight
    BY <1>1 DEF IInv, WindowInv
  <2> QED BY <1>1, <1>2, <2>1, <2>2 DEF WindowInv
<1> QED BY <1>6, <1>7, <1>8 DEF IInv

LEMMA Invariance == Spec => []IInv
<1>1. Init => IInv
  <2> SUFFICES ASSUME Init PROVE IInv
    OBVIOUS
  <2>1. HedgeType
    BY DEF Init, HedgeType, Weight
  <2>2. CooldownInv
    BY DEF Init, CooldownInv
  <2>3. WindowInv
    BY FS_EmptySet DEF Init, WindowInv, Weight
  <2> QED BY <2>1, <2>2, <2>3 DEF IInv
<1>2. IInv /\ [Next]_vars => IInv'
  <2> SUFFICES ASSUME IInv, [Next]_vars PROVE IInv'
    OBVIOUS
  <2>1. CASE NextDay
    BY <2>1 DEF NextDay, IInv, HedgeType, CooldownInv, WindowInv, Weight
  <2>2. CASE \E data, loss \in BOOLEAN : Evaluate(data, loss)
    BY <2>2, EvaluateStep
  <2>3. CASE OrderSettles
    <3>1. weight' \in Weight
      BY <2>3 DEF OrderSettles, IInv, HedgeType, Weight
    <3> QED BY <2>3, <3>1 DEF OrderSettles, market, IInv, HedgeType, CooldownInv, WindowInv, Weight
  <2>4. CASE UNCHANGED vars
    BY <2>4 DEF vars, market, IInv, HedgeType, CooldownInv, WindowInv
  <2> QED BY <2>1, <2>2, <2>3, <2>4 DEF Next
<1> QED BY <1>1, <1>2, PTL DEF Spec

(* No configuration, price path, missing data or number of intraday evaluations
   lets the hedge be bought back before the Cooldown-th date after an exit.   *)
THEOREM CooldownIsKept == Spec => []NoEntryInCooldown
<1>1. IInv => NoEntryInCooldown
  BY HedgeAssumption DEF IInv, HedgeType, CooldownInv, NoEntryInCooldown
<1> QED BY <1>1, Invariance, PTL

(* The holding limit binds on every path: MaxHold evaluated dates end a hedge. *)
THEOREM HoldingWindowBinds == Spec => []HoldIsBounded
<1>1. IInv => HoldIsBounded
  <2> SUFFICES ASSUME IInv, last.weight > 0, Cardinality(seen) >= MaxHold
               PROVE last.target = 0
    BY DEF HoldIsBounded
  <2>1. Cardinality(seen) \in Nat
    BY FS_CardinalityType DEF IInv, WindowInv
  <2>2. state.held >= MaxHold
    BY <2>1, HedgeAssumption DEF IInv, HedgeType, WindowInv
  <2> QED BY <2>2 DEF IInv, WindowInv
<1> QED BY <1>1, Invariance, PTL

-----------------------------------------------------------------------------
(* What keeps the counters within the days that have passed. *)
TypeInv ==
  /\ TypeOK
  /\ streak <= day
  /\ state.held <= state.lastHeld /\ state.lastHeld <= day

(* The state, the position, the orders and the history keep their ranges: no
   evaluation asks for more than the third stage, and held_sessions never runs
   ahead of the days.                                                        *)
THEOREM TypeCorrect == Spec => []TypeOK
<1>1. Init => TypeInv
  <2> SUFFICES ASSUME Init PROVE TypeInv
    OBVIOUS
  <2>1. day \in 1..MaxDay /\ 0 \in 0..MaxDay /\ streak \in 0..MaxDay /\ 0 \in 0..Cooldown
    BY HedgeAssumption DEF Init
  <2> QED BY <2>1 DEF Init, TypeInv, TypeOK, Weight
<1>2. TypeInv /\ [Next]_vars => TypeInv'
  <2> SUFFICES ASSUME TypeInv, [Next]_vars PROVE TypeInv'
    OBVIOUS
  <2> USE HedgeAssumption
  <2>1. CASE NextDay
    <3>1. day' \in 1..MaxDay /\ streak' \in 0..MaxDay /\ streak' <= day'
      BY <2>1 DEF NextDay, TypeInv, TypeOK
    <3>2. state'.held <= state'.lastHeld /\ state'.lastHeld <= day'
      BY <2>1 DEF NextDay, TypeInv, TypeOK
    <3>3. target' \in Weight
      BY <2>1 DEF NextDay, Weight
    <3> QED BY <2>1, <3>1, <3>2, <3>3 DEF NextDay, TypeInv, TypeOK
  <2>2. ASSUME NEW data \in BOOLEAN, NEW loss \in BOOLEAN, Evaluate(data, loss)
        PROVE  TypeInv'
    <3> DEFINE h == Holding(state)
               exit == (weight > 0 /\ loss) \/ HeldTooLong(h)
               goal == IF exit THEN 0 ELSE RegimeTarget(state, data)
               left == IF exit THEN Cooldown ELSE Cooled(state)
    <3>1. HedgeType
      BY DEF TypeInv, TypeOK, HedgeType
    <3>2. RegimeTarget(state, data) \in Weight
      BY <3>1, RegimeTargetType
    <3>3. goal \in Weight
      BY <3>2 DEF Weight
    <3>4. left \in 0..Cooldown
      BY DEF TypeInv, TypeOK, Cooled
    <3>5. /\ h \in [entry : 0..MaxDay, held : 0..MaxDay, lastHeld : 0..MaxDay]
          /\ h.held <= h.lastHeld /\ h.lastHeld <= day
      BY DEF TypeInv, TypeOK, Holding
    <3>6. /\ state' = [entry |-> h.entry, held |-> h.held, lastHeld |-> h.lastHeld,
                       cooldown |-> left, lastEval |-> day]
          /\ \/ order' = "NONE" /\ target' = 0
             \/ target' = goal /\ order' = IF goal > weight THEN "BUY" ELSE "SELL"
          /\ last' = [day |-> day, weight |-> weight, data |-> data, loss |-> loss,
                      target |-> goal]
          /\ lastExit' = IF exit THEN day ELSE lastExit
          /\ seen' = IF weight > 0 THEN seen \cup {day} ELSE {}
          /\ UNCHANGED <<day, downtrend, streak, confident, weight>>
      BY <2>2 DEF Evaluate, market
    <3> HIDE DEF h, goal, left
    <3>7. /\ state' \in [entry : 0..MaxDay, held : 0..MaxDay, lastHeld : 0..MaxDay,
                          cooldown : 0..Cooldown, lastEval : 0..MaxDay]
          /\ state'.held <= state'.lastHeld /\ state'.lastHeld <= day'
      BY <3>4, <3>5, <3>6 DEF TypeInv, TypeOK
    <3>8. /\ last' \in [day : 0..MaxDay, weight : Weight, data : BOOLEAN, loss : BOOLEAN,
                         target : Weight]
          /\ target' \in Weight /\ order' \in {"NONE", "BUY", "SELL"}
      BY <2>2, <3>3, <3>6 DEF TypeInv, TypeOK, Weight
    <3>9. lastExit' \in 0..MaxDay /\ seen' \subseteq 1..MaxDay
      BY <3>6 DEF TypeInv, TypeOK
    <3> QED BY <3>6, <3>7, <3>8, <3>9 DEF TypeInv, TypeOK
  <2>3. CASE OrderSettles
    <3>1. weight' \in Weight
      BY <2>3 DEF OrderSettles, TypeInv, TypeOK, Weight
    <3> QED BY <2>3, <3>1 DEF OrderSettles, market, TypeInv, TypeOK, Weight
  <2>4. CASE UNCHANGED vars
    BY <2>4 DEF vars, market, TypeInv, TypeOK
  <2> QED BY <2>1, <2>2, <2>3, <2>4 DEF Next
<1>3. TypeInv => TypeOK
  BY DEF TypeInv
<1> QED BY <1>1, <1>2, <1>3, PTL DEF Spec

-----------------------------------------------------------------------------
(* What the policy does for the weight that it sees, once its exit rules are known. *)
Leaves(w, loss, held) == w > 0 /\ (loss \/ held >= MaxHold)

(* The state file repeats the last evaluation: a further one of the same date finds the
   same window and the same exit, and the same target but for a cooldown that the first
   one has just counted down.                                                  *)
StableInv ==
  /\ last \in [day : Nat, weight : Weight, data : BOOLEAN, loss : BOOLEAN, target : Weight]
  /\ last.day = state.lastEval
  /\ state.cooldown > 0 => lastExit > 0
  /\ last.day = day =>
       /\ last.weight > 0 => state.entry # 0 /\ state.lastHeld = day
       /\ Leaves(last.weight, last.loss, state.held) => last.target = 0
       /\ ~Leaves(last.weight, last.loss, state.held) =>
            /\ ~last.data => last.target = last.weight
            /\ last.data => \/ last.target = RegimeTarget(state, TRUE)
                            \/ last.target = 0 /\ lastExit > 0 /\ state.cooldown = 0

LEMMA StableInit == Init => StableInv
BY HedgeAssumption DEF Init, StableInv, Weight

(* One evaluation in terms of what it counts and decides. *)
LEMMA EvaluateMeans ==
  ASSUME IInv, NEW data \in BOOLEAN, NEW loss \in BOOLEAN, Evaluate(data, loss)
  PROVE  /\ UNCHANGED <<day, downtrend, streak, confident, weight>>
         /\ last'.day = day /\ last'.weight = weight /\ last'.data = data /\ last'.loss = loss
         /\ last' \in [day : Nat, weight : Weight, data : BOOLEAN, loss : BOOLEAN, target : Weight]
         /\ state'.lastEval = day
         /\ state'.held = Holding(state).held
         /\ weight > 0 => state'.entry # 0 /\ state'.lastHeld = day
         /\ Leaves(weight, loss, state'.held) =>
              last'.target = 0 /\ lastExit' = day /\ state'.cooldown = Cooldown
         /\ ~Leaves(weight, loss, state'.held) =>
              /\ last'.target = RegimeTarget(state, data)
              /\ lastExit' = lastExit /\ state'.cooldown = Cooled(state)
<1> DEFINE h == Holding(state)
           exit == (weight > 0 /\ loss) \/ HeldTooLong(h)
           goal == IF exit THEN 0 ELSE RegimeTarget(state, data)
<1>1. /\ state' = [entry |-> h.entry, held |-> h.held, lastHeld |-> h.lastHeld,
                   cooldown |-> IF exit THEN Cooldown ELSE Cooled(state), lastEval |-> day]
      /\ last' = [day |-> day, weight |-> weight, data |-> data, loss |-> loss, target |-> goal]
      /\ lastExit' = IF exit THEN day ELSE lastExit
      /\ UNCHANGED <<day, downtrend, streak, confident, weight>>
  BY DEF Evaluate, market
<1>2. exit <=> Leaves(weight, loss, state'.held)
  BY <1>1 DEF Leaves, HeldTooLong
<1>3. goal \in Weight /\ day \in Nat /\ weight \in Weight
  BY RegimeTargetType DEF IInv, HedgeType, Weight
<1>4. weight > 0 => h.entry # 0 /\ h.lastHeld = day
  BY DEF Holding, IInv, HedgeType
<1> HIDE DEF h, exit
<1>5. last'.target = goal /\ (exit => goal = 0) /\ (~exit => goal = RegimeTarget(state, data))
  BY <1>1
<1>6. last' \in [day : Nat, weight : Weight, data : BOOLEAN, loss : BOOLEAN, target : Weight]
  BY <1>1, <1>3
<1> HIDE DEF goal
<1> QED BY <1>1, <1>2, <1>4, <1>5, <1>6 DEF h

(* The regime's target depends on the state file through the cooldown alone. *)
LEMMA RegimeTargetOnCooldown ==
  ASSUME NEW s, NEW r, s.cooldown > 0 <=> r.cooldown > 0, NEW data \in BOOLEAN
  PROVE  RegimeTarget(s, data) = RegimeTarget(r, data)
BY DEF RegimeTarget

LEMMA StableNext == IInv /\ StableInv /\ [Next]_vars => StableInv'
<1> SUFFICES ASSUME IInv, StableInv, [Next]_vars PROVE StableInv'
  OBVIOUS
<1>1. CASE NextDay
  <2>1. UNCHANGED <<state, last, lastExit>> /\ day' = day + 1
    BY <1>1 DEF NextDay
  <2>2. last'.day # day'
    BY <2>1 DEF IInv, HedgeType, CooldownInv, StableInv
  <2>3. /\ last' \in [day : Nat, weight : Weight, data : BOOLEAN, loss : BOOLEAN, target : Weight]
        /\ last'.day = state'.lastEval
        /\ state'.cooldown > 0 => lastExit' > 0
    BY <2>1 DEF StableInv
  <2> QED BY <2>2, <2>3 DEF StableInv
<1>2. ASSUME NEW data \in BOOLEAN, NEW loss \in BOOLEAN, Evaluate(data, loss)
      PROVE  StableInv'
  <2> DEFINE leaves == Leaves(weight, loss, state'.held)
  <2>1. /\ UNCHANGED <<day, downtrend, streak, confident, weight>>
        /\ last'.day = day /\ last'.weight = weight /\ last'.data = data /\ last'.loss = loss
        /\ last' \in [day : Nat, weight : Weight, data : BOOLEAN, loss : BOOLEAN, target : Weight]
        /\ state'.lastEval = day
        /\ weight > 0 => state'.entry # 0 /\ state'.lastHeld = day
        /\ leaves => last'.target = 0 /\ lastExit' = day /\ state'.cooldown = Cooldown
        /\ ~leaves => /\ last'.target = RegimeTarget(state, data)
                      /\ lastExit' = lastExit /\ state'.cooldown = Cooled(state)
    BY <1>2, EvaluateMeans
  <2>2. leaves <=> Leaves(last'.weight, last'.loss, state'.held)
    BY <2>1
  <2>3. /\ day \in Nat \ {0} /\ Cooldown \in Nat \ {0} /\ state.cooldown \in Nat
        /\ lastExit \in Nat
    BY HedgeAssumption DEF IInv, HedgeType
  <2> HIDE DEF leaves
  <2>4. state'.cooldown > 0 => lastExit' > 0
    <3>1. CASE leaves
      BY <2>1, <2>3, <3>1
    <3>2. CASE ~leaves
      BY <2>1, <2>3, <3>2 DEF Cooled, StableInv
    <3> QED BY <3>1, <3>2
  <2>5. ~leaves /\ ~data => last'.target = weight
    BY <2>1 DEF RegimeTarget
  <2>6. ~leaves /\ data =>
          \/ last'.target = RegimeTarget(state, TRUE)'
          \/ last'.target = 0 /\ lastExit' > 0 /\ state'.cooldown = 0
    <3> SUFFICES ASSUME ~leaves, data
                 PROVE  \/ last'.target = RegimeTarget(state, TRUE)'
                        \/ last'.target = 0 /\ lastExit' > 0 /\ state'.cooldown = 0
      OBVIOUS
    <3>1. data = TRUE /\ last'.target = RegimeTarget(state, TRUE)
      BY <2>1
    <3>2. CASE state.cooldown > 0 /\ Cooled(state) = 0
      <4>1. last'.target = 0
        BY <3>1, <3>2 DEF RegimeTarget
      <4>2. lastExit > 0
        BY <3>2 DEF StableInv
      <4> QED BY <2>1, <3>2, <4>1, <4>2
    <3>3. CASE ~(state.cooldown > 0 /\ Cooled(state) = 0)
      <4>1. state.cooldown > 0 <=> state'.cooldown > 0
        BY <2>1, <2>3, <3>3 DEF Cooled
      <4>2. RegimeTarget(state, TRUE)' = RegimeTarget(state, TRUE)
        BY <2>1, <4>1 DEF RegimeTarget, Stage
      <4> QED BY <3>1, <4>2
    <3> QED BY <3>2, <3>3
  <2> QED BY <2>1, <2>2, <2>4, <2>5, <2>6 DEF StableInv
<1>3. CASE OrderSettles
  <2>1. UNCHANGED <<state, last, lastExit, day, downtrend, streak, confident>>
    BY <1>3 DEF OrderSettles, market
  <2>2. RegimeTarget(state, TRUE)' = RegimeTarget(state, TRUE)
    BY <2>1 DEF RegimeTarget, Stage
  <2> QED BY <2>1, <2>2 DEF StableInv
<1>4. CASE UNCHANGED vars
  <2>1. UNCHANGED <<state, last, lastExit, day, downtrend, streak, confident>>
    BY <1>4 DEF vars, market
  <2>2. RegimeTarget(state, TRUE)' = RegimeTarget(state, TRUE)
    BY <2>1 DEF RegimeTarget, Stage
  <2> QED BY <2>1, <2>2 DEF StableInv
<1> QED BY <1>1, <1>2, <1>3, <1>4 DEF Next

LEMMA SameDecision ==
  ASSUME IInv, StableInv, NEW data \in BOOLEAN, NEW loss \in BOOLEAN, Evaluate(data, loss),
         [last' EXCEPT !.target = 0] = [last EXCEPT !.target = 0]
  PROVE  \/ last'.target = last.target
         \/ last.target = 0 /\ lastExit > 0 /\ day >= lastExit + Cooldown
<1> DEFINE leaves == Leaves(weight, loss, state'.held)
<1>1. /\ last'.day = day /\ last'.weight = weight /\ last'.data = data /\ last'.loss = loss
      /\ last' \in [day : Nat, weight : Weight, data : BOOLEAN, loss : BOOLEAN, target : Weight]
      /\ state'.held = Holding(state).held
      /\ leaves => last'.target = 0
      /\ ~leaves => last'.target = RegimeTarget(state, data)
  BY EvaluateMeans
<1>2. last.day = day /\ last.weight = weight /\ last.data = data /\ last.loss = loss
  BY <1>1 DEF StableInv
<1>3. weight > 0 => state'.held = state.held
  <2> SUFFICES ASSUME weight > 0 PROVE Holding(state).held = state.held
    BY <1>1
  <2>1. state.entry # 0 /\ state.lastHeld = day
    BY <1>2 DEF StableInv
  <2> QED BY <2>1 DEF Holding
<1>4. leaves <=> Leaves(last.weight, last.loss, state.held)
  BY <1>2, <1>3 DEF Leaves
<1> HIDE DEF leaves
<1>5. CASE leaves
  BY <1>1, <1>2, <1>4, <1>5 DEF StableInv
<1>6. CASE ~leaves /\ ~data
  <2>1. last'.target = weight
    BY <1>1, <1>6 DEF RegimeTarget
  <2>2. last.target = weight
    BY <1>2, <1>4, <1>6 DEF StableInv
  <2> QED BY <2>1, <2>2
<1>7. CASE ~leaves /\ data
  <2>1. data = TRUE /\ last'.target = RegimeTarget(state, TRUE)
    BY <1>1, <1>7
  <2>2. \/ last.target = RegimeTarget(state, TRUE)
        \/ last.target = 0 /\ lastExit > 0 /\ state.cooldown = 0
    BY <1>2, <1>4, <1>7 DEF StableInv
  <2>3. state.cooldown = 0 /\ lastExit > 0 => day >= lastExit + Cooldown
    BY <1>2, HedgeAssumption DEF IInv, HedgeType, CooldownInv, StableInv
  <2> QED BY <2>1, <2>2, <2>3
<1> QED BY <1>5, <1>6, <1>7

(* However often a date is evaluated, with restarts of the trader and orders between the
   evaluations, the same position and the same data get the same answer; the one exception
   is the date on which a cooldown runs out.                                   *)
THEOREM DecisionsAreStable == Spec => DecisionIsStable
<1>1. IInv /\ StableInv /\ [Next]_vars =>
        [ [last' EXCEPT !.target = 0] = [last EXCEPT !.target = 0] =>
            \/ last'.target = last.target
            \/ last.target = 0 /\ lastExit > 0 /\ day >= lastExit + Cooldown ]_vars
  <2> SUFFICES ASSUME IInv, StableInv, Next,
                      [last' EXCEPT !.target = 0] = [last EXCEPT !.target = 0]
               PROVE  \/ last'.target = last.target
                      \/ last.target = 0 /\ lastExit > 0 /\ day >= lastExit + Cooldown
    OBVIOUS
  <2>1. CASE NextDay \/ OrderSettles
    BY <2>1 DEF NextDay, OrderSettles
  <2>2. CASE \E data, loss \in BOOLEAN : Evaluate(data, loss)
    BY <2>2, SameDecision
  <2> QED BY <2>1, <2>2 DEF Next
<1> QED BY <1>1, Invariance, StableInit, StableNext, PTL DEF Spec, DecisionIsStable
=============================================================================
