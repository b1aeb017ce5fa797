----------------------------- MODULE FillLedger -----------------------------
(***************************************************************************)
(* What the local simulation account promises, with no process, file or    *)
(* crash: an order key fills at most once, at one price, completely, and   *)
(* only with the cash or the shares it needs.                              *)
(***************************************************************************)
EXTENDS Integers

CONSTANTS Ticker, Key, KeyTicker, KeySide, Price, Fee, InitCash

VARIABLES cash, pos, fills

NoFill == [qty |-> 0, price |-> 0]
FillRecord == [qty : Nat \ {0}, price : Price]

LedgerInit ==
  /\ cash = InitCash
  /\ pos = [t \in Ticker |-> 0]
  /\ fills = [k \in Key |-> NoFill]

Buy(k, f) ==
  /\ KeySide[k] = "BUY"
  /\ cash >= f.qty * f.price + Fee
  /\ cash' = cash - (f.qty * f.price + Fee)
  /\ pos' = [pos EXCEPT ![KeyTicker[k]] = @ + f.qty]

Sell(k, f) ==
  /\ KeySide[k] = "SELL"
  /\ pos[KeyTicker[k]] >= f.qty
  /\ cash + f.qty * f.price >= Fee
  /\ cash' = cash + f.qty * f.price - Fee
  /\ pos' = [pos EXCEPT ![KeyTicker[k]] = @ - f.qty]

FillOnce(k) ==
  /\ fills[k] = NoFill
  /\ fills'[k] \in FillRecord
  /\ fills' = [fills EXCEPT ![k] = fills'[k]]
  /\ Buy(k, fills'[k]) \/ Sell(k, fills'[k])

LedgerNext == \E k \in Key : FillOnce(k)

LedgerSpec == LedgerInit /\ [][LedgerNext]_<<cash, pos, fills>>
=============================================================================
