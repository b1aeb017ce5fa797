----------------------------- MODULE MCPlanning -----------------------------
(* Representative symbols for model checking Planning, and its symmetry. *)
EXTENDS Planning, TLC

Listed == [Unknown EXCEPT !.close = 250, !.usable = TRUE]
Candidate == [Listed EXCEPT !.score = 90, !.sound = TRUE, !.rising = TRUE, !.size = 2000]
Borderline == [Candidate EXCEPT !.score = 50]
Holding == [Candidate EXCEPT !.qty = 8, !.avg = 260, !.price = 250, !.peak = 270]
Small == [Holding EXCEPT !.qty = 2, !.score = 60]
Large == [Holding EXCEPT !.qty = 24]

MCCases == {
  Unknown, Candidate, Borderline,
  Holding, Small, Large,
  [Holding EXCEPT !.score = 45, !.sound = FALSE],  \* below the entry minimum
  [Small EXCEPT !.score = 30, !.sound = FALSE, !.sells = "FILLED"],  \* deteriorated, reduced before
  [Large EXCEPT !.usable = FALSE, !.price = 0, !.close = 120],  \* no price, too few bars
  [Holding EXCEPT !.price = 230, !.sells = "FILLED"],           \* hard stop
  [Small EXCEPT !.price = 245, !.usable = FALSE, !.close = 0]}  \* trailing stop, no data

HedgeHeld == [Listed EXCEPT !.qty = 4, !.avg = 250, !.price = 250, !.peak = 250]
MCHedgeCases == {Listed, Unknown, HedgeHeld, [HedgeHeld EXCEPT !.price = 0, !.close = 240]}

MCBlocks == {{}, {"LOSS"}}

Symmetry == Permutations(Ticker)
=============================================================================
