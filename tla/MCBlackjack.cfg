SPECIFICATION Spec
CONSTANTS
  AmountPlayerStarts = 5
  AmountPlayerWins = 8
  MinBet = 2
  MaxBet = 3
  Bets <- BetsTried
  Explored = {1, 6, 10}
  BalanceCap = 6
INVARIANTS NeverBroke NoReshuffle SettledOnce PlayedOut
PROPERTY HandlersReturn
