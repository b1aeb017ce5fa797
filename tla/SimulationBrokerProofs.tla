----------------------- MODULE SimulationBrokerProofs -----------------------
(***************************************************************************)
(* The account file of the SIMULATE mode implements the abstract ledger,    *)
(* whatever the crashes, failed writes, replays and prices, for any number  *)
(* of days, symbols and shares.                                             *)
(***************************************************************************)
EXTENDS SimulationBroker, SumTheorems

(* A running process's copy is the account file; a write under way is the fill
   of a key that has none, and the account can pay for it.                    *)
CopyInv == pc # "down" => mem = disk

WriteInv ==
  pc = "save" =>
    /\ cur \in OrderId /\ plan[cur] > 0 /\ price \in Price
    /\ disk.fills[KeyOf(cur)] = NoFill
    /\ Sufficient(disk, cur, plan[cur], price)
    /\ tmp = AccountAfter(disk, KeyOf(cur), plan[cur], price)

SimInv == TypeOK /\ CopyInv /\ WriteInv /\ FilledIsDurable

LEMMA AccountType ==
  ASSUME NEW acc \in Account, NEW o \in OrderId, NEW q \in Nat \ {0}, NEW p \in Price,
         day \in 1..MaxDay, Sufficient(acc, o, q, p)
  PROVE  AccountAfter(acc, KeyOf(o), q, p) \in Account
<1>1. q * p \in Nat /\ Fee \in Nat
  BY SimulationAssumption
<1>2. KeyOf(o) \in Key /\ KeyOf(o).order = o
  BY DEF KeyOf, Key
<1>3. o.ticker \in Ticker /\ o.side \in {"BUY", "SELL"}
  BY DEF OrderId, Side
<1> DEFINE c == IF o.side = "BUY" THEN acc.cash - (q * p + Fee) ELSE acc.cash + q * p - Fee
           s == [acc.pos EXCEPT ![o.ticker] = IF o.side = "BUY" THEN @ + q ELSE @ - q]
           f == [acc.fills EXCEPT ![KeyOf(o)] = [qty |-> q, price |-> p]]
<1>4. AccountAfter(acc, KeyOf(o), q, p) = [cash |-> c, pos |-> s, fills |-> f]
  BY <1>2 DEF AccountAfter
<1>5. acc.cash \in Nat /\ acc.pos \in [Ticker -> Nat] /\ acc.fills \in [Key -> Fill]
  BY DEF Account
<1>6. c \in Nat
  <2> DEFINE v == q * p
  <2>1. v \in Nat
    BY <1>1
  <2>2. IF o.side = "BUY" THEN acc.cash >= v + Fee ELSE acc.cash + v >= Fee
    BY DEF Sufficient
  <2>3. c = IF o.side = "BUY" THEN acc.cash - (v + Fee) ELSE acc.cash + v - Fee
    OBVIOUS
  <2> HIDE DEF v, c
  <2> QED BY <2>1, <2>2, <2>3, <1>1, <1>5
<1>7. s \in [Ticker -> Nat]
  <2>1. o.side # "BUY" => acc.pos[o.ticker] >= q
    BY DEF Sufficient
  <2> QED BY <2>1, <1>3, <1>5
<1>8. f \in [Key -> Fill]
  BY <1>2, <1>5 DEF Fill
<1> HIDE DEF c, s, f
<1> QED BY <1>4, <1>6, <1>7, <1>8 DEF Account

(* Only the rename changes the account file, and what it writes is a fill of a
   new key on top of the file's own content.                                 *)
LEMMA ReplaceIsOneFill ==
  ASSUME SimInv, Replace
  PROVE  Ledger!LedgerNext
<1> DEFINE k == KeyOf(cur)
           q == plan[cur]
<1>1. /\ cur \in OrderId /\ q > 0 /\ price \in Price
      /\ disk.fills[k] = NoFill
      /\ Sufficient(disk, cur, q, price)
      /\ disk' = AccountAfter(disk, k, q, price)
  BY DEF Replace, SimInv, WriteInv
<1>2. q \in Nat \ {0} /\ disk \in Account /\ day \in 1..MaxDay
  BY <1>1 DEF SimInv, TypeOK
<1>3. k \in Key /\ k.order = cur /\ KeyTicker[k] = cur.ticker /\ KeySide[k] = cur.side
  BY <1>1, <1>2 DEF KeyOf, Key, KeyTicker, KeySide
<1>4. disk.fills \in [Key -> Fill]
  BY <1>2 DEF Account
<1>5. /\ disk'.fills = [disk.fills EXCEPT ![k] = [qty |-> q, price |-> price]]
      /\ disk'.cash = IF cur.side = "BUY" THEN disk.cash - (q * price + Fee)
                                          ELSE disk.cash + q * price - Fee
      /\ disk'.pos = [disk.pos EXCEPT ![cur.ticker] =
                        IF cur.side = "BUY" THEN @ + q ELSE @ - q]
  BY <1>1, <1>3 DEF AccountAfter
<1>6. disk'.fills[k] = [qty |-> q, price |-> price]
  BY <1>3, <1>4, <1>5
<1>7. cur.side \in {"BUY", "SELL"}
  BY <1>1 DEF OrderId, Side
<1>8. disk'.fills[k] \in Ledger!FillRecord
  BY <1>1, <1>2, <1>6 DEF Ledger!FillRecord
<1>9. Ledger!Buy(k, disk'.fills[k]) \/ Ledger!Sell(k, disk'.fills[k])
  <2> HIDE DEF k, q
  <2>1. CASE cur.side = "BUY"
    BY <2>1, <1>1, <1>3, <1>5, <1>6 DEF Ledger!Buy, Sufficient
  <2>2. CASE cur.side = "SELL"
    BY <2>2, <1>1, <1>3, <1>5, <1>6 DEF Ledger!Sell, Sufficient
  <2> QED BY <1>7, <2>1, <2>2
<1>10. Ledger!FillOnce(k)
  BY <1>1, <1>5, <1>6, <1>8, <1>9 DEF Ledger!FillOnce, Ledger!NoFill, NoFill
<1> QED BY <1>3, <1>10 DEF Ledger!LedgerNext

-----------------------------------------------------------------------------
LEMMA InitEstablishes == Init => SimInv
<1> SUFFICES ASSUME Init PROVE SimInv
  OBVIOUS
<1>1. NewAccount \in Account
  BY SimulationAssumption DEF NewAccount, Account, Fill
<1>2. TypeOK
  BY <1>1, SimulationAssumption DEF Init, TypeOK, NoOrders
<1>3. CopyInv /\ WriteInv /\ FilledIsDurable
  BY DEF Init, CopyInv, WriteInv, FilledIsDurable
<1> QED BY <1>2, <1>3 DEF SimInv

(* Steps that leave the account file alone and do not begin a write. *)
LEMMA Quiet ==
  ASSUME SimInv, UNCHANGED disk, TypeOK', pc' # "save",
         pc' # "down" => mem' = disk,
         FilledIsDurable'
  PROVE  SimInv'
BY DEF SimInv, CopyInv, WriteInv

(* A FILLED result is only added for a key that the account file has filled. *)
LEMMA ReportStep ==
  ASSUME SimInv, NEW o \in OrderId, NEW st \in {"FILLED", "REJECTED", "SKIPPED"},
         Report(o, st), UNCHANGED <<disk, day>>,
         st = "FILLED" => disk.fills[KeyOf(o)] # NoFill
  PROVE  /\ plan' \in [OrderId -> Nat]
         /\ results' \subseteq [order : OrderId, status : {"FILLED", "REJECTED", "SKIPPED"}]
         /\ FilledIsDurable'
<1>1. results' = results \cup {[order |-> o, status |-> st]}
  BY DEF Report
<1>2. plan' \in [OrderId -> Nat]
  BY DEF Report, SimInv, TypeOK
<1>3. FilledIsDurable'
  BY <1>1 DEF SimInv, FilledIsDurable, KeyOf
<1> QED BY <1>1, <1>2, <1>3 DEF SimInv, TypeOK

LEMMA CycleSteps ==
  ASSUME SimInv, Start \/ Crash \/ Finish \/ NextDay
  PROVE  SimInv'
<1> USE SimulationAssumption
<1>1. CASE Start
  <2>1. TypeOK'
    BY <1>1 DEF Start, SimInv, TypeOK
  <2>2. FilledIsDurable'
    BY <1>1 DEF Start, FilledIsDurable
  <2> QED BY <1>1, <2>1, <2>2, Quiet DEF Start
<1>2. CASE Crash
  <2>1. TypeOK'
    BY <1>2 DEF Crash, Forget, NoOrders, SimInv, TypeOK
  <2>2. FilledIsDurable'
    BY <1>2 DEF Crash, FilledIsDurable
  <2> QED BY <1>2, <2>1, <2>2, Quiet DEF Crash, Forget
<1>3. CASE Finish
  <2>1. TypeOK'
    BY <1>3 DEF Finish, Forget, NoOrders, SimInv, TypeOK
  <2>2. FilledIsDurable'
    BY <1>3 DEF Finish, Forget, SimInv, FilledIsDurable, KeyOf
  <2> QED BY <1>3, <2>1, <2>2, Quiet DEF Finish, Forget
<1>4. CASE NextDay
  <2>1. TypeOK'
    BY <1>4 DEF NextDay, SimInv, TypeOK
  <2>2. FilledIsDurable'
    BY <1>4 DEF NextDay, FilledIsDurable
  <2> QED BY <1>4, <2>1, <2>2, Quiet DEF NextDay
<1> QED BY <1>1, <1>2, <1>3, <1>4

LEMMA PlanSteps ==
  ASSUME SimInv, PlanDaily \/ PlanRisk \/ PlanLiquidation
  PROVE  SimInv'
<1>1. mem = disk /\ mem.pos \in [Ticker -> Nat]
  BY DEF PlanDaily, PlanRisk, PlanLiquidation, SimInv, CopyInv, TypeOK, Account
<1>2. UNCHANGED <<disk, tmp, day, mem, cur, price, results>> /\ pc' = "next"
  BY DEF PlanDaily, PlanRisk, PlanLiquidation
<1>3. FilledIsDurable'
  BY <1>2 DEF SimInv, FilledIsDurable, KeyOf
<1>4. kind' \in {"daily", "risk", "liquidation"}
  BY DEF PlanDaily, PlanRisk, PlanLiquidation
<1>5. plan' \in [OrderId -> Nat] /\ exits' \subseteq Ticker
  <2>1. CASE PlanDaily
    <3>1. PICK want \in [Ticker -> Intent] :
            /\ plan' = [o \in OrderId |->
                          IF o.slot = "DAILY" /\ o.side = want[o.ticker].side
                            THEN want[o.ticker].qty ELSE 0]
            /\ exits' = {t \in Ticker \ {Hedge} :
                           want[t].side = "SELL" /\ want[t].qty = mem.pos[t]}
      BY <2>1 DEF PlanDaily
    <3>2. \A o \in OrderId : want[o.ticker] \in Intent
      BY DEF OrderId
    <3>3. \A i \in Intent : i.qty \in Nat
      BY SimulationAssumption DEF Intent
    <3> QED BY <3>1, <3>2, <3>3
  <2>2. CASE PlanRisk
    BY <2>2, <1>1 DEF PlanRisk, OrderId, SimInv, TypeOK
  <2>3. CASE PlanLiquidation
    BY <2>3, <1>1 DEF PlanLiquidation, OrderId, SimInv, TypeOK
  <2> QED BY <2>1, <2>2, <2>3
<1>6. TypeOK'
  BY <1>2, <1>4, <1>5 DEF SimInv, TypeOK
<1> QED BY <1>1, <1>2, <1>3, <1>6, Quiet

LEMMA OrderSteps ==
  ASSUME SimInv, NEW o \in OrderId,
         SkipHedge(o) \/ RejectUnpriced(o) \/ Replay(o) \/ RejectShort(o)
  PROVE  SimInv'
<1>1. /\ pc = "next" /\ mem = disk
      /\ UNCHANGED <<disk, tmp, day, pc, mem, kind, exits, cur, price>>
  BY DEF SkipHedge, RejectUnpriced, Replay, RejectShort, Executable, IsNext, SimInv, CopyInv
<1>2. PICK st \in {"FILLED", "REJECTED", "SKIPPED"} :
        Report(o, st) /\ (st = "FILLED" => disk.fills[KeyOf(o)] # NoFill)
  BY <1>1 DEF SkipHedge, RejectUnpriced, Replay, RejectShort, FilledBefore
<1>3. /\ plan' \in [OrderId -> Nat]
      /\ results' \subseteq [order : OrderId, status : {"FILLED", "REJECTED", "SKIPPED"}]
      /\ FilledIsDurable'
  BY <1>1, <1>2, ReportStep
<1>4. TypeOK'
  BY <1>1, <1>3 DEF SimInv, TypeOK
<1> QED BY <1>1, <1>3, <1>4, Quiet

LEMMA WriteTempStep ==
  ASSUME SimInv, NEW o \in OrderId, WriteTemp(o)
  PROVE  SimInv'
<1>1. PICK p \in Price :
        /\ Sufficient(mem, o, plan[o], p)
        /\ tmp' = AccountAfter(mem, KeyOf(o), plan[o], p)
        /\ price' = p
  BY DEF WriteTemp
<1>2. /\ mem = disk /\ plan[o] \in Nat \ {0} /\ ~FilledBefore(o)
      /\ cur' = o /\ pc' = "save"
      /\ UNCHANGED <<disk, day, mem, kind, plan, exits, results>>
  BY DEF WriteTemp, Executable, IsNext, SimInv, CopyInv, TypeOK
<1>3. tmp' \in Account
  BY <1>1, <1>2, AccountType DEF SimInv, TypeOK
<1>4. TypeOK'
  BY <1>1, <1>2, <1>3 DEF SimInv, TypeOK
<1>5. KeyOf(o)' = KeyOf(o)
  BY <1>2 DEF KeyOf
<1>6. WriteInv'
  BY <1>1, <1>2, <1>5 DEF WriteInv, FilledBefore, KeyOf, Sufficient, AccountAfter
<1>7. FilledIsDurable'
  BY <1>2 DEF SimInv, FilledIsDurable, KeyOf
<1> QED BY <1>2, <1>4, <1>6, <1>7 DEF SimInv, CopyInv

LEMMA SaveSteps ==
  ASSUME SimInv, Replace \/ SaveFails
  PROVE  SimInv'
<1>1. pc = "save" /\ mem = disk /\ cur \in OrderId /\ plan[cur] > 0 /\ price \in Price
  BY DEF Replace, SaveFails, SimInv, CopyInv, WriteInv
<1>2. CASE SaveFails
  <2>1. /\ plan' \in [OrderId -> Nat]
        /\ results' \subseteq [order : OrderId, status : {"FILLED", "REJECTED", "SKIPPED"}]
        /\ FilledIsDurable'
    BY <1>1, <1>2, ReportStep DEF SaveFails
  <2>2. TypeOK'
    BY <1>2, <2>1 DEF SaveFails, SimInv, TypeOK
  <2> QED BY <1>1, <1>2, <2>1, <2>2, Quiet DEF SaveFails
<1>3. CASE Replace
  <2> DEFINE k == KeyOf(cur)
             q == plan[cur]
  <2>1. /\ q \in Nat \ {0} /\ disk.fills[k] = NoFill
        /\ Sufficient(disk, cur, q, price)
        /\ disk' = AccountAfter(disk, k, q, price)
        /\ disk' = tmp /\ mem' = tmp /\ tmp' = None /\ day' = day
    BY <1>1, <1>3 DEF Replace, SimInv, WriteInv, TypeOK
  <2>2. disk' \in Account
    <3>1. disk \in Account /\ day \in 1..MaxDay
      BY DEF SimInv, TypeOK
    <3>2. AccountAfter(disk, KeyOf(cur), q, price) \in Account
      <4> HIDE DEF q
      <4> QED BY <1>1, <2>1, <3>1, AccountType
    <3> QED BY <2>1, <3>2
  <2>3. disk.fills \in [Key -> Fill] /\ k \in Key
    BY <1>1 DEF SimInv, TypeOK, Account, KeyOf, Key
  <2>4. disk'.fills = [disk.fills EXCEPT ![k] = [qty |-> q, price |-> price]]
    BY <2>1 DEF AccountAfter
  <2>5. \A j \in Key : disk.fills[j] # NoFill \/ j = k => disk'.fills[j] # NoFill
    BY <2>1, <2>3, <2>4 DEF NoFill
  <2>6. plan' = [plan EXCEPT ![cur] = 0]
        /\ results' = results \cup {[order |-> cur, status |-> "FILLED"]}
    BY <1>3 DEF Replace, Report
  <2>7. FilledIsDurable'
    <3> SUFFICES ASSUME NEW r \in results', r.status = "FILLED"
                 PROVE  disk'.fills[KeyOf(r.order)'] # NoFill
      BY DEF FilledIsDurable
    <3>1. KeyOf(r.order)' = KeyOf(r.order)
      BY <2>1 DEF KeyOf
    <3>2. CASE r \in results
      <4>1. disk.fills[KeyOf(r.order)] # NoFill
        BY <3>2 DEF SimInv, FilledIsDurable
      <4>2. KeyOf(r.order) \in Key
        BY <3>2 DEF SimInv, TypeOK, KeyOf, Key
      <4> QED BY <3>1, <4>1, <4>2, <2>5
    <3>3. CASE r = [order |-> cur, status |-> "FILLED"]
      BY <3>1, <3>3, <2>3, <2>5
    <3> QED BY <2>6, <3>2, <3>3
  <2>8. TypeOK'
    BY <1>1, <1>3, <2>1, <2>2, <2>6 DEF Replace, SimInv, TypeOK
  <2> QED BY <1>3, <2>1, <2>7, <2>8 DEF Replace, SimInv, CopyInv, WriteInv
<1> QED BY <1>2, <1>3

LEMMA StepPreserves == SimInv /\ [Next]_vars => SimInv'
<1> SUFFICES ASSUME SimInv, [Next]_vars PROVE SimInv'
  OBVIOUS
<1>1. CASE Start \/ Crash \/ Finish \/ NextDay
  BY <1>1, CycleSteps
<1>2. CASE PlanDaily \/ PlanRisk \/ PlanLiquidation
  BY <1>2, PlanSteps
<1>3. ASSUME NEW o \in OrderId,
             SkipHedge(o) \/ RejectUnpriced(o) \/ Replay(o) \/ RejectShort(o)
      PROVE  SimInv'
  BY <1>3, OrderSteps
<1>4. ASSUME NEW o \in OrderId, WriteTemp(o) PROVE SimInv'
  BY <1>4, WriteTempStep
<1>5. CASE Replace \/ SaveFails
  BY <1>5, SaveSteps
<1>6. CASE UNCHANGED vars
  BY <1>6 DEF vars, process, SimInv, TypeOK, CopyInv, WriteInv, FilledIsDurable,
              KeyOf, Sufficient, AccountAfter
<1> QED BY <1>1, <1>2, <1>3, <1>4, <1>5, <1>6 DEF Next

LEMMA Invariance == Spec => []SimInv
<1> QED BY InitEstablishes, StepPreserves, PTL DEF Spec

-----------------------------------------------------------------------------
(* Type correctness: no path makes cash or a position negative, on disk or in a
   running process.                                                           *)
THEOREM TypeCorrect == Spec => []TypeOK
<1>1. SimInv => TypeOK
  BY DEF SimInv
<1> QED BY <1>1, Invariance, PTL

(* What is reported as filled is in the account file, at every crash point. *)
THEOREM FillsAreDurable == Spec => []FilledIsDurable
<1>1. SimInv => FilledIsDurable
  BY DEF SimInv
<1> QED BY <1>1, Invariance, PTL

(* Refinement: the account file implements the ledger in which every key fills at
   most once, in full, and paid for.                                           *)
THEOREM FillsExactlyOnce == Spec => ExactlyOnce
<1>1. Init => Ledger!LedgerInit
  BY DEF Init, NewAccount, Ledger!LedgerInit, Ledger!NoFill, NoFill
<1>2. SimInv /\ [Next]_vars =>
        [Ledger!LedgerNext]_<<disk.cash, disk.pos, disk.fills>>
  <2> SUFFICES ASSUME SimInv, [Next]_vars, disk' # disk PROVE Ledger!LedgerNext
    OBVIOUS
  <2>1. Replace
    BY DEF Next, vars, process, Start, Crash, Finish, Forget, NextDay, PlanDaily,
           PlanRisk, PlanLiquidation, SkipHedge, RejectUnpriced, Replay, RejectShort,
           WriteTemp, SaveFails
  <2> QED BY <2>1, ReplaceIsOneFill
<1> QED BY <1>1, <1>2, Invariance, PTL DEF Spec, ExactlyOnce, Ledger!LedgerSpec

-----------------------------------------------------------------------------
(* Whoever has bought, or is writing, a hedge entry has sold every exit before. *)
ExitInv ==
  /\ pc = "plan" => results = {}
  /\ \A r \in results :
       r.order.ticker = Hedge /\ r.order.side = "BUY" /\ r.status = "FILLED"
         => exits \subseteq SoldTickers
  /\ pc = "save" /\ cur.ticker = Hedge /\ cur.side = "BUY" => exits \subseteq SoldTickers

LEMMA ExitInit == Init => ExitInv
BY DEF Init, ExitInv

(* A report only adds to what has been sold. *)
LEMMA ReportKeepsExits ==
  ASSUME ExitInv, NEW o \in OrderId, NEW st, Report(o, st), UNCHANGED exits,
         pc \in {"next", "save"}, pc' \in {"next"},
         o.ticker = Hedge /\ o.side = "BUY" /\ st = "FILLED" => exits \subseteq SoldTickers
  PROVE  ExitInv'
<1>1. results' = results \cup {[order |-> o, status |-> st]}
  BY DEF Report
<1>2. SoldTickers \subseteq SoldTickers'
  BY <1>1 DEF SoldTickers
<1>3. ASSUME NEW r \in results',
             r.order.ticker = Hedge, r.order.side = "BUY", r.status = "FILLED"
      PROVE  exits \subseteq SoldTickers
  <2>1. CASE r \in results
    BY <1>3, <2>1 DEF ExitInv
  <2>2. CASE r = [order |-> o, status |-> st]
    BY <1>3, <2>2
  <2> QED BY <1>1, <2>1, <2>2
<1> QED BY <1>2, <1>3 DEF ExitInv

LEMMA ExitNext == SimInv /\ ExitInv /\ [Next]_vars => ExitInv'
<1> SUFFICES ASSUME SimInv, ExitInv, [Next]_vars PROVE ExitInv'
  OBVIOUS
<1>1. CASE Start \/ Crash \/ NextDay
  BY <1>1 DEF Start, Crash, Forget, NextDay, ExitInv
<1>2. CASE Finish
  BY <1>2 DEF Finish, Forget, ExitInv
<1>3. CASE PlanDaily \/ PlanRisk \/ PlanLiquidation
  <2>1. results' = {} /\ pc' = "next"
    BY <1>3 DEF PlanDaily, PlanRisk, PlanLiquidation, ExitInv
  <2> QED BY <2>1 DEF ExitInv
<1>4. ASSUME NEW o \in OrderId,
             SkipHedge(o) \/ RejectUnpriced(o) \/ Replay(o) \/ RejectShort(o)
      PROVE  ExitInv'
  <2>1. pc = "next" /\ pc' = pc /\ UNCHANGED exits
    BY <1>4 DEF SkipHedge, RejectUnpriced, Replay, RejectShort, Executable, IsNext
  <2>2. PICK st : Report(o, st) /\ (st = "FILLED" => HedgeReady(o))
    BY <1>4 DEF SkipHedge, RejectUnpriced, Replay, RejectShort, Executable
  <2> QED BY <2>1, <2>2, ReportKeepsExits DEF HedgeReady
<1>5. ASSUME NEW o \in OrderId, WriteTemp(o) PROVE ExitInv'
  <2>1. /\ pc' = "save" /\ cur' = o /\ UNCHANGED <<exits, results>>
        /\ HedgeReady(o)
    BY <1>5 DEF WriteTemp, Executable
  <2>2. SoldTickers' = SoldTickers
    BY <2>1 DEF SoldTickers
  <2> QED BY <2>1, <2>2 DEF ExitInv, HedgeReady
<1>6. CASE Replace \/ SaveFails
  <2>1. /\ pc = "save" /\ pc' = "next" /\ cur \in OrderId /\ UNCHANGED exits
        /\ \E st : Report(cur, st)
    BY <1>6 DEF Replace, SaveFails, SimInv, WriteInv
  <2> QED BY <2>1, ReportKeepsExits DEF ExitInv
<1>7. CASE UNCHANGED vars
  BY <1>7 DEF vars, process, ExitInv, SoldTickers
<1> QED BY <1>1, <1>2, <1>3, <1>4, <1>5, <1>6, <1>7 DEF Next

(* In the results of every cycle, through replays, failed writes and crashes, a hedge
   entry is FILLED only when the account file holds the fill of every planned exit. *)
THEOREM HedgeWaitsForExits == Spec => []HedgeAfterExitFills
<1>1. SimInv /\ ExitInv => HedgeAfterExitFills
  <2> SUFFICES ASSUME SimInv, ExitInv, NEW r \in results, r.order.ticker = Hedge,
                      r.order.side = "BUY", r.status = "FILLED", NEW t \in exits
               PROVE  \E o \in OrderId :
                        o.ticker = t /\ o.side = "SELL" /\ disk.fills[KeyOf(o)] # NoFill
    BY DEF HedgeAfterExitFills
  <2>1. t \in SoldTickers
    BY DEF ExitInv
  <2>2. PICK x \in results : x.order.ticker = t /\ x.order.side = "SELL" /\ x.status = "FILLED"
    BY <2>1 DEF SoldTickers
  <2> QED BY <2>2 DEF SimInv, TypeOK, FilledIsDurable
<1> QED BY <1>1, ExitInit, ExitNext, Invariance, PTL DEF Spec

-----------------------------------------------------------------------------
(* The balance of the account file                                         *)

LEMMA KeysFinite == IsFiniteSet(Key)
<1> DEFINE Slot == {"DAILY"} \cup Reason
           Pairs == (1..MaxDay) \X (Ticker \X (Side \X Slot))
           key == [x \in Pairs |-> [day |-> x[1], order |->
                     [ticker |-> x[2][1], side |-> x[2][2][1], slot |-> x[2][2][2]]]]
<1>1. IsFiniteSet(Side) /\ IsFiniteSet(Slot)
  <2>1. Side = ({} \cup {"BUY"}) \cup {"SELL"}
    BY DEF Side
  <2>2. IsFiniteSet(Side)
    BY <2>1, FS_EmptySet, FS_AddElement
  <2>3. Slot = Reason \cup {"DAILY"}
    OBVIOUS
  <2> QED BY <2>2, <2>3, FS_AddElement, SimulationAssumption
<1>2. IsFiniteSet(1..MaxDay)
  BY SimulationAssumption, FS_Interval
<1> HIDE DEF Slot
<1>3. IsFiniteSet(Side \X Slot)
  BY <1>1, FS_Product
<1>4. IsFiniteSet(Ticker \X (Side \X Slot))
  BY <1>3, FS_Product, SimulationAssumption
<1>5. IsFiniteSet(Pairs)
  BY <1>2, <1>4, FS_Product
<1>6. key \in Surjection(Pairs, Key)
  <2>1. key \in [Pairs -> Key]
    BY DEF Key, OrderId, Slot
  <2>2. ASSUME NEW k \in Key PROVE \E x \in Pairs : key[x] = k
    <3> DEFINE x == <<k.day, <<k.order.ticker, <<k.order.side, k.order.slot>>>>>>
    <3>1. x \in Pairs
      BY DEF Key, OrderId, Slot
    <3>2. key[x] = k
      BY <3>1 DEF Key, OrderId
    <3> QED BY <3>1, <3>2
  <2> QED BY <2>1, <2>2 DEF Surjection
<1> QED BY <1>5, <1>6, FS_Surjection

(* Shares and money of each fill of an account, as functions of the key. *)
QtyOf(acc) == [k \in Key |-> acc.fills[k].qty]
CostOf(acc) == [k \in Key |-> acc.fills[k].qty * acc.fills[k].price]
SideKeys(s) == {k \in Key : k.order.side = s}

LEMMA SharesAreTotals ==
  ASSUME NEW acc, NEW t, NEW s
  PROVE  /\ Shares(acc, t, s) = Total(QtyOf(acc), KeysOf(t, s))
         /\ Value(acc, s) = Total(CostOf(acc), SideKeys(s))
<1>1. Shares(acc, t, s) = Total(QtyOf(acc), KeysOf(t, s))
  BY ZenonT(60) DEF Shares, Total, QtyOf, KeysOf, MapThenSumSet, MapThenFoldSet
<1>2. Value(acc, s) = Total(CostOf(acc), SideKeys(s))
  BY ZenonT(60) DEF Value, Total, CostOf, SideKeys, MapThenSumSet, MapThenFoldSet
<1> QED BY <1>1, <1>2

LEMMA KeySetsFinite ==
  ASSUME NEW t, NEW s
  PROVE  IsFiniteSet(KeysOf(t, s)) /\ IsFiniteSet(SideKeys(s)) /\ KeysOf(t, s) \subseteq SideKeys(s)
BY KeysFinite, FS_Subset DEF KeysOf, SideKeys

LEMMA FillTypes ==
  ASSUME NEW acc, acc.fills \in [Key -> Fill]
  PROVE  \A k \in Key : QtyOf(acc)[k] \in Nat /\ CostOf(acc)[k] \in Nat
<1> SUFFICES ASSUME NEW k \in Key
             PROVE  QtyOf(acc)[k] \in Nat /\ CostOf(acc)[k] \in Nat
  OBVIOUS
<1> DEFINE q == acc.fills[k].qty
           p == acc.fills[k].price
<1>1. acc.fills[k] \in Fill
  OBVIOUS
<1>2. q \in Nat /\ p \in Nat
  <2>1. CASE acc.fills[k] = NoFill
    BY <2>1 DEF NoFill
  <2>2. CASE acc.fills[k] \in [qty : Nat \ {0}, price : Price]
    BY <2>2, SimulationAssumption
  <2> QED BY <1>1, <2>1, <2>2 DEF Fill
<1>3. q * p \in Nat
  BY <1>2
<1> QED BY <1>2, <1>3 DEF QtyOf, CostOf

(* A fill of a new key changes one term of every sum it belongs to. *)
LEMMA SumsAfterFill ==
  ASSUME NEW a, NEW b, a.fills \in [Key -> Fill], b.fills \in [Key -> Fill],
         NEW k \in Key, NEW f \in Fill, a.fills[k] = NoFill,
         b.fills = [a.fills EXCEPT ![k] = f], NEW t, NEW s
  PROVE  /\ Shares(b, t, s) = Shares(a, t, s) + (IF k \in KeysOf(t, s) THEN f.qty ELSE 0)
         /\ Value(b, s) = Value(a, s) + (IF k \in SideKeys(s) THEN f.qty * f.price ELSE 0)
         /\ Shares(a, t, s) \in Int /\ Value(a, s) \in Int
<1>1. \A j \in Key : /\ QtyOf(a)[j] \in Int /\ CostOf(a)[j] \in Int
                     /\ QtyOf(b)[j] \in Int /\ CostOf(b)[j] \in Int
  BY FillTypes
<1>2. \A j \in Key \ {k} : QtyOf(b)[j] = QtyOf(a)[j] /\ CostOf(b)[j] = CostOf(a)[j]
  BY DEF QtyOf, CostOf
<1>3. /\ QtyOf(a)[k] = 0 /\ QtyOf(b)[k] = f.qty
      /\ CostOf(b)[k] = f.qty * f.price
  BY DEF QtyOf, CostOf, NoFill
<1>4. CostOf(a)[k] = 0
  <2>1. CostOf(a)[k] = 0 * 0
    BY DEF CostOf, NoFill
  <2> QED BY <2>1
<1>5. /\ Shares(a, t, s) = Total(QtyOf(a), KeysOf(t, s))
      /\ Shares(b, t, s) = Total(QtyOf(b), KeysOf(t, s))
      /\ Value(a, s) = Total(CostOf(a), SideKeys(s))
      /\ Value(b, s) = Total(CostOf(b), SideKeys(s))
  BY SharesAreTotals
<1>6. ASSUME NEW S \in SUBSET Key, IsFiniteSet(S), NEW F, NEW G,
             \A j \in Key : F[j] \in Int /\ G[j] \in Int,
             \A j \in Key \ {k} : G[j] = F[j], F[k] = 0
      PROVE  Total(G, S) = Total(F, S) + (IF k \in S THEN G[k] ELSE 0) /\ Total(F, S) \in Int
  <2>0. \A j \in S : F[j] \in Int
    BY <1>6
  <2>1. Total(F, S) \in Int
    BY <1>6, <2>0, TotalType
  <2>2. CASE k \in S
    <3>1. (\A j \in S : F[j] \in Int /\ G[j] \in Int) /\ (\A j \in S \ {k} : F[j] = G[j])
      BY <1>6
    <3>2. Total(G, S) = Total(F, S) - F[k] + G[k]
      BY <1>6, <2>2, <3>1, TotalPoint
    <3> QED BY <1>6, <2>1, <2>2, <3>2
  <2>3. CASE k \notin S
    <3>1. \A j \in S : F[j] = G[j]
      BY <1>6, <2>3
    <3>2. Total(F, S) = Total(G, S)
      BY <1>6, <3>1, TotalSame
    <3> QED BY <2>1, <2>3, <3>2
  <2> QED BY <2>2, <2>3
<1>7. KeysOf(t, s) \in SUBSET Key /\ SideKeys(s) \in SUBSET Key
  BY DEF KeysOf, SideKeys
<1>8. /\ Total(QtyOf(b), KeysOf(t, s)) = Total(QtyOf(a), KeysOf(t, s))
           + (IF k \in KeysOf(t, s) THEN QtyOf(b)[k] ELSE 0)
      /\ Total(QtyOf(a), KeysOf(t, s)) \in Int
  BY <1>1, <1>2, <1>3, <1>6, <1>7, KeySetsFinite
<1>9. /\ Total(CostOf(b), SideKeys(s)) = Total(CostOf(a), SideKeys(s))
           + (IF k \in SideKeys(s) THEN CostOf(b)[k] ELSE 0)
      /\ Total(CostOf(a), SideKeys(s)) \in Int
  BY <1>1, <1>2, <1>4, <1>6, <1>7, KeySetsFinite
<1> QED BY <1>3, <1>5, <1>8, <1>9

LEMMA FeesAfterFill ==
  ASSUME NEW a, NEW b, a.fills \in [Key -> Fill], NEW k \in Key, NEW f, f # NoFill,
         a.fills[k] = NoFill, b.fills = [a.fills EXCEPT ![k] = f]
  PROVE  FeesPaid(b) = FeesPaid(a) + Fee /\ FeesPaid(a) \in Int
<1> DEFINE A == {j \in Key : a.fills[j] # NoFill}
           B == {j \in Key : b.fills[j] # NoFill}
<1>1. B = A \cup {k} /\ k \notin A /\ A \subseteq Key
  OBVIOUS
<1>2. IsFiniteSet(A)
  BY <1>1, KeysFinite, FS_Subset
<1> HIDE DEF A, B
<1> DEFINE n == Cardinality(A)
<1>3. Cardinality(B) = n + 1 /\ n \in Nat
  BY <1>1, <1>2, FS_AddElement, FS_CardinalityType
<1>4. FeesPaid(b) = Fee * Cardinality(B) /\ FeesPaid(a) = Fee * n
  BY DEF FeesPaid, A, B
<1> HIDE DEF n
<1>5. Fee * (n + 1) = Fee * n + Fee /\ Fee * n \in Int /\ Fee \in Nat
  BY <1>3, SimulationAssumption
<1> QED BY <1>3, <1>4, <1>5

LEMMA NewAccountBalances == Init => AccountMatchesFills
<1> SUFFICES ASSUME Init PROVE AccountMatchesFills
  OBVIOUS
<1>1. /\ disk.cash = InitCash /\ disk.pos = [t \in Ticker |-> 0]
      /\ disk.fills = [k \in Key |-> NoFill]
  BY DEF Init, NewAccount
<1>2. ASSUME NEW S \in SUBSET Key, NEW F, IsFiniteSet(S), \A k \in S : F[k] = 0
      PROVE  Total(F, S) = 0
  <2> DEFINE G == {T \in SUBSET S : Total(F, T) = 0}
  <2>1. {} \in G
    BY TotalOfNone
  <2>2. ASSUME NEW T \in SUBSET S, T # {}, \A x \in T : T \ {x} \in G PROVE T \in G
    <3>1. First(T) \in T /\ IsFiniteSet(T)
      BY <1>2, <2>2, FS_Subset DEF First
    <3>2. Total(F, T) = F[First(T)] + Total(F, T \ {First(T)})
      BY <2>2, <3>1, TotalFirst
    <3>3. F[First(T)] = 0 /\ Total(F, T \ {First(T)}) = 0
      BY <1>2, <2>2, <3>1
    <3> QED BY <3>2, <3>3
  <2> HIDE DEF G
  <2>3. S \in G
    BY <1>2, <2>1, <2>2, SubsetInduction
  <2> QED BY <2>3 DEF G
<1>3. \A k \in Key : QtyOf(disk)[k] = 0
  BY <1>1 DEF QtyOf, NoFill
<1>4. \A k \in Key : CostOf(disk)[k] = 0
  <2>1. 0 * 0 = 0
    OBVIOUS
  <2> QED BY <1>1, <2>1 DEF CostOf, NoFill
<1>5. ASSUME NEW t, NEW s PROVE Shares(disk, t, s) = 0 /\ Value(disk, s) = 0
  <2>1. KeysOf(t, s) \in SUBSET Key /\ SideKeys(s) \in SUBSET Key
    BY DEF KeysOf, SideKeys
  <2>2. Total(QtyOf(disk), KeysOf(t, s)) = 0
    BY <1>2, <1>3, <2>1, KeySetsFinite
  <2>3. Total(CostOf(disk), SideKeys(s)) = 0
    BY <1>2, <1>4, <2>1, KeySetsFinite
  <2> QED BY <2>2, <2>3, SharesAreTotals
<1>6. FeesPaid(disk) = 0
  <2>1. {k \in Key : disk.fills[k] # NoFill} = {}
    BY <1>1
  <2>2. FeesPaid(disk) = Fee * 0
    BY <2>1, FS_EmptySet DEF FeesPaid
  <2> QED BY <2>2, SimulationAssumption
<1> QED BY <1>1, <1>5, <1>6, SimulationAssumption DEF AccountMatchesFills

LEMMA BalanceAfterReplace ==
  ASSUME SimInv, AccountMatchesFills, Replace
  PROVE  AccountMatchesFills'
<1> DEFINE k == KeyOf(cur)
           q == plan[cur]
           f == [qty |-> q, price |-> price]
           v == q * price
<1>1. /\ cur \in OrderId /\ q > 0 /\ price \in Price
      /\ disk.fills[k] = NoFill
      /\ disk' = AccountAfter(disk, k, q, price)
  BY DEF Replace, SimInv, WriteInv
<1>2. q \in Nat \ {0} /\ disk \in Account /\ day \in 1..MaxDay
  BY <1>1 DEF SimInv, TypeOK
<1>3. k \in Key /\ k.order = cur /\ cur.side \in {"BUY", "SELL"} /\ cur.ticker \in Ticker
  BY <1>1, <1>2 DEF KeyOf, Key, OrderId, Side
<1>4. disk.fills \in [Key -> Fill] /\ disk.cash \in Nat /\ disk.pos \in [Ticker -> Nat]
  BY <1>2 DEF Account
<1>5. v \in Nat
  BY <1>1, <1>2, SimulationAssumption
<1>6. f \in Fill /\ f # NoFill
  BY <1>1, <1>2 DEF Fill, NoFill
<1>7. /\ disk'.fills = [disk.fills EXCEPT ![k] = f]
      /\ disk'.cash = IF cur.side = "BUY" THEN disk.cash - (v + Fee) ELSE disk.cash + v - Fee
      /\ disk'.pos = [disk.pos EXCEPT ![cur.ticker] =
                        IF cur.side = "BUY" THEN @ + q ELSE @ - q]
  BY <1>1, <1>3 DEF AccountAfter
<1>8. disk'.fills \in [Key -> Fill]
  BY <1>3, <1>4, <1>6, <1>7
<1>9. \A t, s : /\ (k \in KeysOf(t, s)) <=> (t = cur.ticker /\ s = cur.side)
                /\ (k \in SideKeys(s)) <=> (s = cur.side)
  BY <1>3 DEF KeysOf, SideKeys
<1>10. f.qty = q /\ f.qty * f.price = v
  OBVIOUS
<1> HIDE DEF k, q, f, v
<1>11. \A t, s :
         /\ Shares(disk', t, s) =
              Shares(disk, t, s) + (IF t = cur.ticker /\ s = cur.side THEN q ELSE 0)
         /\ Value(disk', s) = Value(disk, s) + (IF s = cur.side THEN v ELSE 0)
         /\ Shares(disk, t, s) \in Int /\ Value(disk, s) \in Int
  <2> TAKE t, s
  <2>1. /\ Shares(disk', t, s) = Shares(disk, t, s) + (IF k \in KeysOf(t, s) THEN f.qty ELSE 0)
        /\ Value(disk', s) = Value(disk, s) + (IF k \in SideKeys(s) THEN f.qty * f.price ELSE 0)
        /\ Shares(disk, t, s) \in Int /\ Value(disk, s) \in Int
    BY <1>3, <1>1, <1>4, <1>6, <1>7, <1>8, SumsAfterFill
  <2> QED BY <1>9, <1>10, <2>1
<1>12. FeesPaid(disk') = FeesPaid(disk) + Fee /\ FeesPaid(disk) \in Int
  BY <1>1, <1>3, <1>4, <1>6, <1>7, FeesAfterFill
<1>13. ASSUME NEW t \in Ticker
       PROVE  disk'.pos[t] = Shares(disk', t, "BUY") - Shares(disk', t, "SELL")
  <2>1. disk.pos[t] = Shares(disk, t, "BUY") - Shares(disk, t, "SELL") /\ disk.pos[t] \in Nat
    BY <1>4 DEF AccountMatchesFills
  <2>2. disk'.pos[t] = IF t # cur.ticker THEN disk.pos[t]
                       ELSE IF cur.side = "BUY" THEN disk.pos[t] + q ELSE disk.pos[t] - q
    BY <1>3, <1>4, <1>7
  <2> QED BY <1>2, <1>3, <1>11, <2>1, <2>2
<1>14. disk'.cash = InitCash - Value(disk', "BUY") + Value(disk', "SELL") - FeesPaid(disk')
  <2>1. disk.cash = InitCash - Value(disk, "BUY") + Value(disk, "SELL") - FeesPaid(disk)
    BY DEF AccountMatchesFills
  <2> QED BY <1>3, <1>4, <1>5, <1>7, <1>11, <1>12, <2>1, SimulationAssumption
<1> QED BY <1>13, <1>14 DEF AccountMatchesFills

(* At every crash point, for any number of days, symbols and orders, positions and cash
   in the account file are what its recorded fills add up to, fees included.     *)
THEOREM AccountBalances == Spec => []AccountMatchesFills
<1>1. SimInv /\ AccountMatchesFills /\ [Next]_vars => AccountMatchesFills'
  <2> SUFFICES ASSUME SimInv, AccountMatchesFills, [Next]_vars PROVE AccountMatchesFills'
    OBVIOUS
  <2>1. CASE disk' = disk
    BY <2>1 DEF AccountMatchesFills
  <2>2. CASE disk' # disk
    <3>1. Replace
      BY <2>2 DEF Next, vars, process, Start, Crash, Finish, Forget, NextDay, PlanDaily,
             PlanRisk, PlanLiquidation, SkipHedge, RejectUnpriced, Replay, RejectShort,
             WriteTemp, SaveFails
    <3> QED BY <3>1, BalanceAfterReplace
  <2> QED BY <2>1, <2>2
<1> QED BY <1>1, NewAccountBalances, Invariance, PTL DEF Spec
=============================================================================
