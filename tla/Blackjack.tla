---------------------------- MODULE Blackjack ----------------------------
(***************************************************************************)
(* The blackjack server of the "cards" challenge (game.go, deck.go,        *)
(* api.go).  The server keeps nothing between requests: the whole session  *)
(* (deck, hands, bet, balance) travels sealed in the SecretState of every  *)
(* answer and comes back with the next request.  The variables below are   *)
(* the session the player holds; one request is one handler, run from the  *)
(* unsealed session to the sealed answer.                                  *)
(*                                                                         *)
(* A card is its blackjack value (10, J, Q and K are told apart by nothing *)
(* but the picture), a hand is what Value() and State() read of it: how    *)
(* many cards, their sum with every ace as 1, how many aces.  The order of *)
(* the shuffled deck is chosen lazily, card by card.                       *)
(***************************************************************************)
EXTENDS Integers

CONSTANTS
  AmountPlayerStarts,  \* chips of a new session
  AmountPlayerWins,    \* a balance above it has won
  MinBet, MaxBet,      \* limits of a bet
  Bets,                \* the bets the player may send with a deal
  Explored,            \* bound: the card values the explored shuffles bring up
  BalanceCap           \* bound: no new hand above this balance

ASSUME BlackjackAssumption ==
  /\ AmountPlayerStarts \in Nat
  /\ AmountPlayerWins \in Nat
  /\ MinBet \in Nat \ {0}
  /\ MaxBet \in Nat
  /\ Bets \subseteq Int
  /\ Explored \subseteq 1 .. 10
  /\ BalanceCap \in Nat

VARIABLES
  deck,     \* Deck: what is left of it by value, and Pos, the cards taken
  player,   \* Game.Player
  dealer,   \* Game.Dealer
  stood,    \* Game.Stood
  gameBet,  \* Game.Bet
  balance,  \* Session.Balance
  pc,       \* "ready", or the handler whose dealer is still drawing
  reply,    \* how the last request was answered
  chips,    \* history: the balance the current hand was dealt from
  doubled   \* history: the current hand was doubled

vars == <<deck, player, dealer, stood, gameBet, balance, pc, reply, chips,
          doubled>>

-----------------------------------------------------------------------------
(* Cards, hands and the deck *)

DeckSize == 52

NewDeck == [left |-> [v \in 1 .. 10 |-> IF v = 10 THEN 16 ELSE 4], pos |-> 0]

\* The top card can be v.
Drawable(dk, v) == v \in Explored /\ dk.left[v] > 0

\* Next() hands out the top card and shuffles the whole deck, the cards on the
\* table included, once the last one is gone.
NextCard(dk, v) ==
  IF dk.pos + 1 >= DeckSize
  THEN NewDeck
  ELSE [left |-> [dk.left EXCEPT ![v] = @ - 1], pos |-> dk.pos + 1]

Empty == [n |-> 0, hard |-> 0, aces |-> 0]

Add(h, v) == [n    |-> h.n + 1,
              hard |-> h.hard + v,
              aces |-> IF v = 1 THEN h.aces + 1 ELSE h.aces]

\* A hand's value: the loop counts at most one ace as 11, for a second one
\* would already find more than 11.
Value(h) == IF h.hard <= 11 /\ h.aces > 0 THEN h.hard + 10 ELSE h.hard

IsBlackjack(h) == Value(h) = 21 /\ h.n = 2
IsBust(h)      == Value(h) > 21

\* Game.State(), the cases in the order the switch tries them.
GameState(p, d, s) ==
  IF p.n = 0 THEN "Idle"
  ELSE IF IsBust(p) THEN "DealerWins"
  ELSE IF IsBlackjack(p) /\ IsBlackjack(d) THEN "Push"
  ELSE IF IsBlackjack(p) THEN "Blackjack"
  ELSE IF IsBlackjack(d) THEN "DealerWins"
  ELSE IF IsBust(d) THEN "PlayerWins"
  ELSE IF s /\ Value(p) = Value(d) THEN "Push"
  ELSE IF s /\ Value(p) > Value(d) THEN "PlayerWins"
  ELSE IF s THEN "DealerWins"
  ELSE "Playing"

Now == GameState(player, dealer, stood)

\* Session.State()
SessionState ==
  IF balance < 0 THEN "Broke"
  ELSE IF balance > AmountPlayerWins THEN "Won" ELSE "Playing"

Score_StakeLost(bal, bet, st) ==
  bal + (IF st = "Blackjack" THEN (bet * 3) \div 2
         ELSE IF st = "PlayerWins" THEN bet * 2
         ELSE IF st = "Push" THEN bet ELSE 0)

\* Score(): the balance after the bet of a hand in state st has been settled.
Score(bal, bet, st) ==
  bal + (IF st = "Blackjack" THEN (bet * 5) \div 2
         ELSE IF st = "PlayerWins" THEN bet * 2
         ELSE IF st = "Push" THEN bet ELSE 0)

DealerDraws_To16(d) == Value(d) < 16 \/ (d.aces > 0 /\ Value(d) = 17)

\* The condition of the loop in DealerPlay().
DealerDraws(d) == Value(d) < 17 \/ (d.aces > 0 /\ Value(d) = 17)

-----------------------------------------------------------------------------
(* The handlers *)

Init ==
  /\ deck = NewDeck
  /\ player = Empty
  /\ dealer = Empty
  /\ stood = FALSE
  /\ gameBet = 0
  /\ balance = AmountPlayerStarts
  /\ pc = "ready"
  /\ reply = "ok"
  /\ chips = AmountPlayerStarts
  /\ doubled = FALSE

\* A request answered with an error: the player keeps the session it had.
Refuse ==
  /\ reply' = "error"
  /\ UNCHANGED <<deck, player, dealer, stood, gameBet, balance, pc, chips,
                 doubled>>

BetAccepted(bet) == bet <= balance /\ bet <= MaxBet /\ bet >= MinBet

DealCards_Unshuffled ==
  \E p1, d1, p2, d2 \in Explored :
    LET dk1 == NextCard(deck, p1)
        dk2 == NextCard(dk1, d1)
        dk3 == NextCard(dk2, p2)
    IN  /\ Drawable(deck, p1)
        /\ Drawable(dk1, d1)
        /\ Drawable(dk2, p2)
        /\ Drawable(dk3, d2)
        /\ deck' = NextCard(dk3, d2)
        /\ player' = Add(Add(Empty, p1), p2)
        /\ dealer' = Add(Add(Empty, d1), d2)

\* The new hand: shuffle, then two cards each in turn, the player's first.
DealCards ==
  \E p1, d1, p2, d2 \in Explored :
    LET dk1 == NextCard(NewDeck, p1)
        dk2 == NextCard(dk1, d1)
        dk3 == NextCard(dk2, p2)
    IN  /\ Drawable(NewDeck, p1)
        /\ Drawable(dk1, d1)
        /\ Drawable(dk2, p2)
        /\ Drawable(dk3, d2)
        /\ deck' = NextCard(dk3, d2)
        /\ player' = Add(Add(Empty, p1), p2)
        /\ dealer' = Add(Add(Empty, d1), d2)

\* Session.Deal(): at any time, a hand in progress is given up.
Deal(bet) ==
  /\ pc = "ready"
  /\ balance <= BalanceCap
  /\ BetAccepted(bet)
  /\ DealCards
  /\ stood' = FALSE
  /\ gameBet' = bet
  /\ balance' = Score(balance - bet, bet, GameState(player', dealer', FALSE))
  /\ chips' = balance
  /\ doubled' = FALSE
  /\ reply' = "ok"
  /\ UNCHANGED pc

DealRefused(bet) == pc = "ready" /\ ~BetAccepted(bet) /\ Refuse

\* The dealer plays after Stand() unless the player went over.
DealerToPlay(p, d, s) == s /\ ~IsBust(p) /\ DealerDraws(d)

\* What is left of a handler once the player's part is done, bal being the
\* balance so far: the dealer draws, or the handler returns.  Hit() and Stand()
\* return through Score(), Double() does not.
Proceed(handler, bal) ==
  IF DealerToPlay(player', dealer', stood')
  THEN pc' = handler /\ balance' = bal
  ELSE /\ pc' = "ready"
       /\ balance' = IF handler = "Double"
                     THEN bal
                     ELSE Score(bal, gameBet',
                                GameState(player', dealer', stood'))

\* Game.Hit() up to the dealer's play: a hand of 21 or more stands by itself.
PlayerTakesCard ==
  \E v \in Explored :
    /\ Drawable(deck, v)
    /\ deck' = NextCard(deck, v)
    /\ player' = Add(player, v)

\* Session.Hit()
Hit ==
  /\ pc = "ready"
  /\ Now = "Playing"
  /\ PlayerTakesCard
  /\ stood' = (stood \/ Value(player') >= 21)
  /\ UNCHANGED <<dealer, gameBet, chips, doubled>>
  /\ reply' = "ok"
  /\ Proceed("Hit", balance)

\* Session.Stand()
Stand ==
  /\ pc = "ready"
  /\ Now = "Playing"
  /\ stood' = TRUE
  /\ UNCHANGED <<deck, player, dealer, gameBet, chips, doubled>>
  /\ reply' = "ok"
  /\ Proceed("Stand", balance)

CanDouble_OnCredit == Now = "Playing" /\ player.n = 2

CanDouble == Now = "Playing" /\ gameBet <= balance /\ player.n = 2

\* Session.Double(): one card, then the hand stands whatever it is worth.
Double ==
  /\ pc = "ready"
  /\ CanDouble
  /\ PlayerTakesCard
  /\ stood' = TRUE
  /\ gameBet' = gameBet * 2
  /\ doubled' = TRUE
  /\ UNCHANGED <<dealer, chips>>
  /\ reply' = "ok"
  /\ Proceed("Double", balance - gameBet)

NotPlaying    == pc = "ready" /\ Now # "Playing" /\ Refuse
DoubleRefused == pc = "ready" /\ Now = "Playing" /\ ~CanDouble /\ Refuse

DealerTakesCard_Peeked ==
  /\ pc # "ready"
  /\ \E v \in Explored : Drawable(deck, v)
  /\ UNCHANGED <<deck, dealer, player, stood, gameBet, chips, doubled, reply>>
  /\ Proceed(pc, balance)

\* One round of the loop in DealerPlay(); after the last the handler returns.
DealerTakesCard ==
  /\ pc # "ready"
  /\ \E v \in Explored :
       /\ Drawable(deck, v)
       /\ deck' = NextCard(deck, v)
       /\ dealer' = Add(dealer, v)
  /\ UNCHANGED <<player, stood, gameBet, chips, doubled, reply>>
  /\ Proceed(pc, balance)

Next ==
  \/ \E bet \in Bets : Deal(bet) \/ DealRefused(bet)
  \/ Hit
  \/ Stand
  \/ Double
  \/ NotPlaying
  \/ DoubleRefused
  \/ DealerTakesCard

\* A handler runs to its end; the player may leave at any time.
Spec == Init /\ [][Next]_vars /\ WF_vars(DealerTakesCard)

-----------------------------------------------------------------------------
(* Properties *)

Hand == [n : Nat, hard : Nat, aces : Nat]

DeckType == [left : [1 .. 10 -> Nat], pos : 0 .. DeckSize - 1]

\* The types of the session's fields.
TypeOK ==
  /\ deck \in DeckType
  /\ player \in Hand
  /\ dealer \in Hand
  /\ stood \in BOOLEAN
  /\ gameBet \in Nat
  /\ balance \in Int
  /\ pc \in {"ready", "Hit", "Stand", "Double"}
  /\ reply \in {"ok", "error"}
  /\ chips \in Int
  /\ doubled \in BOOLEAN

\* A session never goes broke: the state SessionBroke that State() knows, a
\* balance below zero, cannot be reached by any sequence of deals, doubles and
\* settlements.
NeverBroke == SessionState # "Broke"

\* Next() never shuffles in the middle of a hand: every card drawn since the
\* deal is on the table, so no card of the table can come up a second time.
NoReshuffle == player.n > 0 => deck.pos = player.n + dealer.n

\* What a hand that ended in state st wins or loses, by the rules: a blackjack
\* pays 3:2 (rounded down to a chip), a win pays the bet, a push nothing.
NetWin(bet, st) ==
  IF st = "Blackjack" THEN (bet * 3) \div 2
  ELSE IF st = "PlayerWins" THEN bet
  ELSE IF st = "Push" THEN 0 ELSE -bet

\* Over the whole life of a hand: the bet is taken once and the outcome is
\* paid once.  Nothing is paid while the hand is open or the dealer draws, what
\* the rules say is paid when it is over, and no later request pays it again.
\* (A doubled hand is the exception: see EveryHandSettled.)
SettledOnce ==
  player.n > 0 =>
    balance = IF Now = "Playing" \/ pc # "ready" \/ doubled
              THEN chips - gameBet
              ELSE chips + NetWin(gameBet, Now)

\* A hand that still takes hits is under 21 and has not stood; a hand decided
\* by comparing values was only compared after the dealer had played out.
PlayedOut ==
  pc = "ready" =>
    /\ Now = "Playing" => ~stood /\ Value(player) < 21
    /\ stood /\ ~IsBust(player) => Value(dealer) >= 17

\* Every handler that leaves the dealer drawing returns: DealerPlay() ends.
HandlersReturn == pc # "ready" ~> pc = "ready"

\* What the comments of Score() say of every hand won, doubled hands included:
\* "Original bet + win".  Not true: a hand doubled to 21 ends without Score().
EveryHandSettled ==
  player.n > 0 /\ pc = "ready" /\ Now # "Playing" =>
    balance = chips + NetWin(gameBet, Now)
=============================================================================
