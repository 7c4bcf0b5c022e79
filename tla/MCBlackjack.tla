--------------------------- MODULE MCBlackjack ---------------------------
(* The blackjack server on a few chips.  The deck is the real one; Explored *)
(* limits the shuffles to those that bring up aces, sixes and tens, which   *)
(* is enough for every outcome, for soft and hard 17 and for long hands.    *)
EXTENDS Blackjack

\* Acceptable bets, one below and one above the limits, and a negative one:
\* Bet is any int of the request's JSON.
BetsTried == {-1, 1, 2, 3, 4}
=============================================================================
