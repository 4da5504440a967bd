-------------------------- MODULE MCPortfolioLedger --------------------------
(* Small instances of PortfolioLedger for model checking.                    *)
EXTENDS PortfolioLedger

CONSTANTS infy, tcs

(* A price is a multiple of 2^4 * 3^3 * 5^2 * 7, so that the average price of *)
(* a few shares, averaged again a few times, is a whole number, and so is a   *)
(* fifth of it: rounding does not blur RealisedMatchesTrades.                 *)
Unit == 75600

Cheap == 1 * Unit
Dear  == 2 * Unit
TwoQuotes == {Cheap, Dear}
Capital == 8 * Unit
Deposits == {2 * Unit}
=============================================================================
