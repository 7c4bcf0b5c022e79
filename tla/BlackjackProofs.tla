------------------------- MODULE BlackjackProofs -------------------------
(***************************************************************************)
(* Theorems about the blackjack server, for every choice of chips, limits, *)
(* bets and shuffles: what the run "blackjack" checks on one instance.     *)
(***************************************************************************)
EXTENDS Blackjack, TLAPS

\* Cards weigh at least one each, so the weight of a hand bounds its size; and
\* what is known of a hand while it can still grow.
Weights ==
  /\ player.n <= player.hard
  /\ dealer.n <= dealer.hard
  /\ ~stood => dealer.n <= 2
  /\ doubled => stood
  /\ pc # "ready" => /\ player.n > 0
                     /\ DealerToPlay(player, dealer, stood)
                     /\ doubled <=> pc = "Double"

\* The inductive invariant.
IInv == TypeOK /\ Weights /\ NeverBroke /\ NoReshuffle /\ SettledOnce /\ PlayedOut

-----------------------------------------------------------------------------
(* Hands and the deck *)

\* A card makes a hand one card longer and as much heavier as it is worth.
LEMMA AddType ==
  ASSUME NEW h \in Hand, NEW v \in 1 .. 10
  PROVE  /\ Add(h, v) \in Hand
         /\ Add(h, v).n = h.n + 1
         /\ Add(h, v).hard = h.hard + v
BY DEF Add, Hand

\* A hand is worth at least its cards with every ace as 1.
LEMMA ValueBound ==
  ASSUME NEW h \in Hand
  PROVE  Value(h) \in Nat /\ Value(h) >= h.hard
BY DEF Value, Hand

\* Next() only moves on when the deck has more than one card left.
LEMMA NextCardType ==
  ASSUME NEW dk \in DeckType, NEW v \in 1 .. 10, dk.left[v] > 0,
         dk.pos + 1 < DeckSize
  PROVE  /\ NextCard(dk, v) \in DeckType
         /\ NextCard(dk, v).pos = dk.pos + 1
BY DEF DeckType, NextCard, DeckSize

\* A fresh deck is a deck.
LEMMA NewDeckType == NewDeck \in DeckType /\ NewDeck.pos = 0
BY DEF NewDeck, DeckType, DeckSize

\* Score() never takes chips, and pays what the rules say: the bet it gives back
\* and the net win.
LEMMA ScorePays ==
  ASSUME NEW bal \in Int, NEW bet \in Nat, NEW st
  PROVE  /\ Score(bal, bet, st) \in Int
         /\ Score(bal, bet, st) >= bal
         /\ st \notin {"Idle", "Playing"} =>
              Score(bal, bet, st) = bal + bet + NetWin(bet, st)
         /\ st \in {"Idle", "Playing"} => Score(bal, bet, st) = bal
<1>1. /\ (bet * 5) \div 2 \in Int
      /\ (bet * 5) \div 2 >= 0
      /\ (bet * 5) \div 2 = bet + (bet * 3) \div 2
  OBVIOUS
<1>2. QED
  BY <1>1 DEF Score, NetWin

\* What a hand in play looks like.
LEMMA InPlay ==
  ASSUME NEW p \in Hand, NEW d \in Hand, NEW s,
         GameState(p, d, s) = "Playing"
  PROVE  p.n > 0 /\ ~s /\ ~IsBust(p) /\ ~(Value(p) = 21 /\ p.n = 2)
BY DEF GameState, IsBlackjack, Hand

\* Only a session without a hand is idle.
LEMMA NotIdle ==
  ASSUME NEW p \in Hand, NEW d \in Hand, NEW s, p.n > 0
  PROVE  GameState(p, d, s) # "Idle"
BY DEF GameState, Hand

\* A balance of zero or more is not broke.
LEMMA NotBroke == ASSUME balance \in Nat PROVE NeverBroke
BY DEF NeverBroke, SessionState

\* The balance after Score().
LEMMA Settlement ==
  ASSUME NEW bal \in Nat, NEW bet \in Nat, NEW st, NEW b, NEW c \in BOOLEAN,
         b = IF c THEN bal ELSE Score(bal, bet, st)
  PROVE  b \in Nat
BY ScorePays

\* However a handler ends, by returning or by leaving the dealer to draw, the
\* chips add up.
LEMMA ProceedKeeps ==
  ASSUME NEW handler \in {"Hit", "Stand", "Double"}, NEW bal \in Nat,
         player' \in Hand, dealer' \in Hand, stood' \in BOOLEAN,
         gameBet' \in Nat, chips' \in Int, doubled' \in BOOLEAN,
         player'.n > 0,
         bal = chips' - gameBet',
         doubled' <=> handler = "Double",
         ~stood' => Value(player') < 21,
         Proceed(handler, bal)
  PROVE  /\ pc' \in {"ready", "Hit", "Stand", "Double"}
         /\ balance' \in Int
         /\ NeverBroke'
         /\ SettledOnce'
         /\ PlayedOut'
         /\ pc' # "ready" => /\ DealerToPlay(player', dealer', stood')
                             /\ doubled' <=> pc' = "Double"
<1> DEFINE st == GameState(player', dealer', stood')
<1>1. st # "Idle"
  BY NotIdle
<1>2. /\ Score(bal, gameBet', st) \in Int
      /\ Score(bal, gameBet', st) >= bal
      /\ st # "Playing" =>
           Score(bal, gameBet', st) = bal + gameBet' + NetWin(gameBet', st)
      /\ st = "Playing" => Score(bal, gameBet', st) = bal
  BY <1>1, ScorePays
<1>3. Now' = st
  BY DEF Now
<1> HIDE DEF st
<1>4. CASE DealerToPlay(player', dealer', stood')
  <2>1. pc' = handler /\ balance' = bal
    BY <1>4 DEF Proceed
  <2>2. pc' # "ready"
    BY <2>1
  <2>3. NeverBroke'
    <3>1. (balance \in Nat)'
      BY <2>1
    <3>2. QED
      BY <3>1, NotBroke, PTL
  <2>4. SettledOnce'
    BY <2>1, <2>2 DEF SettledOnce
  <2>5. PlayedOut'
    BY <2>2 DEF PlayedOut
  <2>6. QED
    BY <1>4, <2>1, <2>3, <2>4, <2>5
<1>5. CASE ~DealerToPlay(player', dealer', stood')
  <2>1. /\ pc' = "ready"
        /\ balance' = IF handler = "Double" THEN bal
                      ELSE Score(bal, gameBet', st)
    BY <1>5 DEF Proceed, st
  <2>2. balance' \in Nat
    BY <2>1, Settlement
  <2>3. NeverBroke'
    BY <2>2 DEF NeverBroke, SessionState
  <2>4. SettledOnce'
    <3>1. NetWin(gameBet', st) \in Int
      BY DEF NetWin
    <3>2. QED
      BY <2>1, <1>2, <1>3, <3>1 DEF SettledOnce
  <2>5. Value(dealer') \in Nat /\ Value(player') \in Nat
    BY ValueBound
  <2>6. PlayedOut'
    <3>1. Now' = "Playing" => ~stood' /\ Value(player') < 21
      BY <1>3, InPlay DEF st
    <3>2. stood' /\ ~IsBust(player') => Value(dealer') >= 17
      BY <1>5, <2>5 DEF DealerToPlay, DealerDraws
    <3>3. QED
      BY <3>1, <3>2 DEF PlayedOut, IsBust, Value
  <2>7. balance' \in Int
    BY <2>2
  <2>8. QED
    BY <2>1, <2>3, <2>4, <2>6, <2>7, Zenon
<1>6. QED
  BY <1>4, <1>5

-----------------------------------------------------------------------------
(* The inductive invariant *)

\* A new session is in order.
LEMMA InitIInv == Init => IInv
<1> SUFFICES ASSUME Init PROVE IInv
  OBVIOUS
<1>1. TypeOK
  <2>1. deck \in DeckType
    BY NewDeckType DEF Init
  <2>2. player \in Hand /\ dealer \in Hand
    BY DEF Init, Empty, Hand
  <2>3. gameBet \in Nat /\ balance \in Int /\ chips \in Int
    BY BlackjackAssumption DEF Init
  <2>4. QED
    BY <2>1, <2>2, <2>3, Zenon DEF Init, TypeOK
<1>2. Now = "Idle"
  BY DEF Init, Now, GameState, Empty
<1>3. QED
  BY <1>1, <1>2, BlackjackAssumption
     DEF Init, IInv, Weights, NeverBroke, SessionState, NoReshuffle,
         SettledOnce, PlayedOut, Empty

\* A refused request keeps it.
LEMMA RefuseIInv == ASSUME IInv, Refuse PROVE IInv'
BY DEF IInv, Refuse, TypeOK, Weights, NeverBroke, SessionState, NoReshuffle,
       SettledOnce, PlayedOut, Now

\* The cards of a new hand.
LEMMA DealtCards ==
  ASSUME DealCards
  PROVE  /\ deck' \in DeckType /\ deck'.pos = 4
         /\ player' \in Hand /\ player'.n = 2 /\ player'.hard >= 2
         /\ dealer' \in Hand /\ dealer'.n = 2 /\ dealer'.hard >= 2
<1>1. PICK p1 \in Explored, d1 \in Explored, p2 \in Explored, d2 \in Explored :
        /\ NewDeck.left[p1] > 0
        /\ NextCard(NewDeck, p1).left[d1] > 0
        /\ NextCard(NextCard(NewDeck, p1), d1).left[p2] > 0
        /\ NextCard(NextCard(NextCard(NewDeck, p1), d1), p2).left[d2] > 0
        /\ deck' = NextCard(NextCard(NextCard(NextCard(NewDeck, p1), d1), p2), d2)
        /\ player' = Add(Add(Empty, p1), p2)
        /\ dealer' = Add(Add(Empty, d1), d2)
  BY Zenon DEF DealCards, Drawable
<1> DEFINE dk1 == NextCard(NewDeck, p1)
           dk2 == NextCard(dk1, d1)
           dk3 == NextCard(dk2, p2)
<1>2. {p1, d1, p2, d2} \subseteq 1 .. 10
  BY BlackjackAssumption
<1>3. DeckSize = 52
  BY DEF DeckSize
<1>4. dk1 \in DeckType /\ dk1.pos = 1
  BY <1>1, <1>2, <1>3, NewDeckType, NextCardType
<1> HIDE DEF dk1
<1>5. dk2 \in DeckType /\ dk2.pos = 2
  BY <1>1, <1>2, <1>3, <1>4, NextCardType DEF dk1
<1> HIDE DEF dk2
<1>6. dk3 \in DeckType /\ dk3.pos = 3
  BY <1>1, <1>2, <1>3, <1>5, NextCardType DEF dk1, dk2
<1> HIDE DEF dk3
<1>7. deck' \in DeckType /\ deck'.pos = 4
  BY <1>1, <1>2, <1>3, <1>6, NextCardType DEF dk1, dk2, dk3
<1>8. Empty \in Hand /\ Empty.n = 0 /\ Empty.hard = 0
  BY DEF Empty, Hand
<1>9. /\ Add(Empty, p1) \in Hand /\ Add(Empty, p1).n = 1 /\ Add(Empty, p1).hard = p1
      /\ Add(Empty, d1) \in Hand /\ Add(Empty, d1).n = 1 /\ Add(Empty, d1).hard = d1
  <2>1. ASSUME NEW v \in 1 .. 10
        PROVE  Add(Empty, v) \in Hand /\ Add(Empty, v).n = 1 /\ Add(Empty, v).hard = v
    BY <1>8, AddType
  <2>2. p1 \in 1 .. 10 /\ d1 \in 1 .. 10
    BY <1>2
  <2> QED BY <2>1, <2>2, Zenon
<1>10. player' \in Hand /\ player'.n = 2 /\ player'.hard = p1 + p2
  <2>1. player' = Add(Add(Empty, p1), p2)
    BY <1>1
  <2>2. QED
    BY <2>1, <1>2, <1>9, AddType
<1>11. dealer' \in Hand /\ dealer'.n = 2 /\ dealer'.hard = d1 + d2
  <2>1. dealer' = Add(Add(Empty, d1), d2)
    BY <1>1
  <2>2. QED
    BY <2>1, <1>2, <1>9, AddType
<1>12. p1 + p2 >= 2 /\ d1 + d2 >= 2
  BY <1>2
<1>13. QED
  BY <1>7, <1>10, <1>11, <1>12

\* A new hand leaves the session in order, whatever hand it interrupts.
LEMMA DealIInv == ASSUME IInv, NEW bet \in Bets, Deal(bet) PROVE IInv'
<1> DEFINE st == GameState(player', dealer', FALSE)
           bal == balance - bet
<1>1. /\ deck' \in DeckType /\ deck'.pos = 4
      /\ player' \in Hand /\ player'.n = 2 /\ player'.hard >= 2
      /\ dealer' \in Hand /\ dealer'.n = 2 /\ dealer'.hard >= 2
  BY DealtCards DEF Deal
<1>2. balance \in Int /\ chips \in Int
  BY DEF IInv, TypeOK
<1>3. bet \in Nat /\ bal \in Nat
  BY <1>2, BlackjackAssumption DEF Deal, BetAccepted
<1>4. /\ pc' = "ready"
      /\ stood' = FALSE
      /\ doubled' = FALSE
      /\ gameBet' = bet
      /\ chips' = balance
      /\ reply' = "ok"
      /\ balance' = Score(bal, bet, st)
  BY DEF Deal
<1>5. st # "Idle" /\ Now' = st
  <2>1. Now' = st
    BY <1>4 DEF Now
  <2>2. GameState(player', dealer', stood') # "Idle"
    BY <1>1, NotIdle
  <2>3. QED
    BY <1>4, <2>1, <2>2
<1> HIDE DEF st
<1>6. /\ balance' \in Nat
      /\ st # "Playing" => balance' = bal + bet + NetWin(bet, st)
      /\ st = "Playing" => balance' = bal
  BY <1>3, <1>4, <1>5, ScorePays
<1>7. TypeOK'
  <2>1. gameBet' \in Nat /\ balance' \in Int /\ chips' \in Int
    BY <1>2, <1>3, <1>4, <1>6
  <2>2. QED
    BY <1>1, <1>4, <2>1, Zenon DEF TypeOK
<1>8. Weights'
  BY <1>1, <1>4 DEF Weights
<1>9. NeverBroke'
  <2>1. (balance \in Nat)'
    BY <1>6
  <2>2. QED
    BY <2>1, NotBroke, PTL
<1>10. NoReshuffle'
  BY <1>1 DEF NoReshuffle
<1>11. SettledOnce'
  <2>1. NetWin(bet, st) \in Int
    BY <1>3 DEF NetWin
  <2>2. balance' = IF st = "Playing" THEN balance - bet ELSE balance + NetWin(bet, st)
    BY <1>2, <1>3, <1>6, <2>1
  <2>3. QED
    BY <1>4, <1>5, <2>2 DEF SettledOnce
<1>12. PlayedOut'
  <2>1. Value(player') \in Nat
    BY <1>1, ValueBound
  <2>2. st = "Playing" => Value(player') < 21
    <3>1. st = "Playing" => ~IsBust(player') /\ ~(Value(player') = 21 /\ player'.n = 2)
      BY <1>1, InPlay DEF st
    <3>2. QED
      BY <1>1, <2>1, <3>1 DEF IsBust
  <2>3. QED
    BY <1>4, <1>5, <2>2 DEF PlayedOut
<1>13. QED
  BY <1>7, <1>8, <1>9, <1>10, <1>11, <1>12 DEF IInv

\* The hand in play and the deck before a card is drawn for the player.
LEMMA BeforeHit ==
  ASSUME IInv, pc = "ready", Now = "Playing"
  PROVE  /\ player \in Hand /\ dealer \in Hand /\ deck \in DeckType
         /\ player.n > 0 /\ player.n <= 20 /\ player.n <= player.hard
         /\ dealer.n <= 2 /\ dealer.n <= dealer.hard
         /\ deck.pos = player.n + dealer.n
         /\ stood = FALSE /\ doubled = FALSE
         /\ gameBet \in Nat /\ balance \in Nat /\ chips \in Int
         /\ balance = chips - gameBet
<1>1. /\ player \in Hand /\ dealer \in Hand /\ deck \in DeckType
      /\ gameBet \in Nat /\ balance \in Int /\ chips \in Int
      /\ stood \in BOOLEAN /\ doubled \in BOOLEAN
  BY DEF IInv, TypeOK
<1>2. ~stood /\ Value(player) < 21
  BY DEF IInv, PlayedOut
<1>3. player.n > 0
  BY <1>1, InPlay DEF Now
<1>4. /\ player.n <= player.hard /\ dealer.n <= dealer.hard
      /\ dealer.n <= 2 /\ ~doubled
  BY <1>2, Zenon DEF IInv, Weights
<1>5. player.n <= 20
  BY <1>1, <1>2, <1>4, ValueBound DEF Hand
<1>6. deck.pos = player.n + dealer.n
  BY <1>3 DEF IInv, NoReshuffle
<1>7. balance = chips - gameBet
  BY <1>3 DEF IInv, SettledOnce
<1>8. balance \in Nat
  BY <1>1 DEF IInv, NeverBroke, SessionState
<1>9. stood = FALSE /\ doubled = FALSE
  BY <1>1, <1>2, <1>4, Zenon
<1>10. QED
  BY <1>1, <1>3, <1>4, <1>5, <1>6, <1>7, <1>8, <1>9, Zenon

\* The player's card: the deck does not run out, the hand stays countable.
LEMMA CardTaken ==
  ASSUME player \in Hand, dealer \in Hand, deck \in DeckType,
         player.n <= 20, player.n <= player.hard, dealer.n <= 2,
         deck.pos = player.n + dealer.n,
         PlayerTakesCard
  PROVE  /\ player' \in Hand /\ player'.n = player.n + 1
         /\ player'.n <= player'.hard
         /\ deck' \in DeckType /\ deck'.pos = player'.n + dealer.n
<1>1. PICK v \in Explored : /\ deck.left[v] > 0
                            /\ deck' = NextCard(deck, v)
                            /\ player' = Add(player, v)
  BY Zenon DEF PlayerTakesCard, Drawable
<1>2. v \in 1 .. 10
  BY BlackjackAssumption
<1>3. /\ player' \in Hand
      /\ player'.n = player.n + 1
      /\ player'.hard = player.hard + v
  BY <1>1, <1>2, AddType
<1>4. deck.pos + 1 < DeckSize
  BY DEF DeckSize, Hand
<1>5. deck' \in DeckType /\ deck'.pos = deck.pos + 1
  BY <1>1, <1>2, <1>4, NextCardType
<1>6. player'.n <= player'.hard
  BY <1>2, <1>3 DEF Hand
<1>7. deck'.pos = player'.n + dealer.n
  BY <1>3, <1>5 DEF Hand
<1>8. QED
  BY <1>3, <1>5, <1>6, <1>7

\* Puts the conjuncts together for a handler that ended through Proceed().
LEMMA Assemble ==
  ASSUME deck' \in DeckType, player' \in Hand, dealer' \in Hand,
         stood' \in BOOLEAN, doubled' \in BOOLEAN,
         gameBet' \in Nat, balance' \in Int, chips' \in Int,
         pc' \in {"ready", "Hit", "Stand", "Double"},
         reply' \in {"ok", "error"},
         player'.n > 0, player'.n <= player'.hard, dealer'.n <= dealer'.hard,
         ~stood' => dealer'.n <= 2,
         doubled' => stood',
         pc' # "ready" => /\ DealerToPlay(player', dealer', stood')
                          /\ doubled' <=> pc' = "Double",
         deck'.pos = player'.n + dealer'.n,
         NeverBroke', SettledOnce', PlayedOut'
  PROVE  IInv'
<1>1. TypeOK'
  BY Zenon DEF TypeOK
<1>2. Weights'
  BY Zenon DEF Weights
<1>3. NoReshuffle'
  BY Zenon DEF NoReshuffle
<1>4. QED
  BY <1>1, <1>2, <1>3, Zenon DEF IInv

\* Hit()
LEMMA HitIInv == ASSUME IInv, Hit PROVE IInv'
<1>1. /\ player \in Hand /\ dealer \in Hand /\ deck \in DeckType
      /\ player.n > 0 /\ player.n <= 20 /\ player.n <= player.hard
      /\ dealer.n <= 2 /\ dealer.n <= dealer.hard
      /\ deck.pos = player.n + dealer.n
      /\ stood = FALSE /\ doubled = FALSE
      /\ gameBet \in Nat /\ balance \in Nat /\ chips \in Int
      /\ balance = chips - gameBet
  BY BeforeHit DEF Hit
<1>2. /\ dealer' = dealer /\ gameBet' = gameBet /\ chips' = chips
      /\ doubled' = FALSE /\ reply' = "ok"
  BY <1>1, Zenon DEF Hit
<1>3. stood' = (stood \/ Value(player') >= 21) /\ Proceed("Hit", balance)
  BY Zenon DEF Hit
<1>4. /\ player' \in Hand /\ player'.n = player.n + 1
      /\ player'.n <= player'.hard
      /\ deck' \in DeckType /\ deck'.pos = player'.n + dealer.n
  BY <1>1, CardTaken DEF Hit
<1>5. player'.n > 0
  BY <1>1, <1>4 DEF Hand
<1>6. stood' \in BOOLEAN
  BY <1>3, Zenon
<1>7. ~stood' => Value(player') < 21
  <2>1. Value(player') \in Nat
    BY <1>4, ValueBound
  <2>2. ~stood' => ~(Value(player') >= 21)
    BY <1>3, Zenon
  <2>3. QED
    BY <2>1, <2>2
<1>8. /\ dealer' \in Hand /\ gameBet' \in Nat /\ chips' \in Int
      /\ doubled' \in BOOLEAN /\ balance = chips' - gameBet'
      /\ doubled' <=> "Hit" = "Double"
  BY <1>1, <1>2
<1>9. /\ pc' \in {"ready", "Hit", "Stand", "Double"}
      /\ balance' \in Int
      /\ NeverBroke' /\ SettledOnce' /\ PlayedOut'
      /\ pc' # "ready" => /\ DealerToPlay(player', dealer', stood')
                          /\ doubled' <=> pc' = "Double"
  <2>1. "Hit" \in {"Hit", "Stand", "Double"} /\ balance \in Nat
    BY <1>1
  <2>2. QED
    BY <1>3, <1>4, <1>5, <1>6, <1>7, <1>8, <2>1, ProceedKeeps, Zenon
<1>10. QED
  BY <1>1, <1>2, <1>4, <1>5, <1>6, <1>8, <1>9, Assemble, Zenon

\* Stand()
LEMMA StandIInv == ASSUME IInv, Stand PROVE IInv'
<1>1. /\ player \in Hand /\ dealer \in Hand /\ deck \in DeckType
      /\ player.n > 0 /\ player.n <= 20 /\ player.n <= player.hard
      /\ dealer.n <= 2 /\ dealer.n <= dealer.hard
      /\ deck.pos = player.n + dealer.n
      /\ stood = FALSE /\ doubled = FALSE
      /\ gameBet \in Nat /\ balance \in Nat /\ chips \in Int
      /\ balance = chips - gameBet
  BY BeforeHit DEF Stand
<1>2. /\ deck' = deck /\ player' = player
      /\ dealer' = dealer /\ gameBet' = gameBet /\ chips' = chips
      /\ doubled' = FALSE /\ reply' = "ok" /\ stood' = TRUE
      /\ Proceed("Stand", balance)
  BY <1>1, Zenon DEF Stand
<1>3. /\ dealer' \in Hand /\ gameBet' \in Nat /\ chips' \in Int
      /\ doubled' \in BOOLEAN /\ balance = chips' - gameBet'
      /\ doubled' <=> "Stand" = "Double"
  BY <1>1, <1>2
<1>4. /\ pc' \in {"ready", "Hit", "Stand", "Double"}
      /\ balance' \in Int
      /\ NeverBroke' /\ SettledOnce' /\ PlayedOut'
      /\ pc' # "ready" => /\ DealerToPlay(player', dealer', stood')
                          /\ doubled' <=> pc' = "Double"
  <2>1. "Stand" \in {"Hit", "Stand", "Double"} /\ balance \in Nat
    BY <1>1
  <2>2. QED
    BY <1>1, <1>2, <1>3, <2>1, ProceedKeeps, Zenon
<1>5. QED
  BY <1>1, <1>2, <1>3, <1>4, Assemble, Zenon

\* Double()
LEMMA DoubleIInv == ASSUME IInv, Double PROVE IInv'
<1>1. /\ player \in Hand /\ dealer \in Hand /\ deck \in DeckType
      /\ player.n > 0 /\ player.n <= 20 /\ player.n <= player.hard
      /\ dealer.n <= 2 /\ dealer.n <= dealer.hard
      /\ deck.pos = player.n + dealer.n
      /\ stood = FALSE /\ doubled = FALSE
      /\ gameBet \in Nat /\ balance \in Nat /\ chips \in Int
      /\ balance = chips - gameBet
  BY BeforeHit DEF Double, CanDouble
<1>2. /\ dealer' = dealer /\ gameBet' = gameBet * 2 /\ chips' = chips
      /\ doubled' = TRUE /\ reply' = "ok" /\ stood' = TRUE
      /\ Proceed("Double", balance - gameBet)
      /\ gameBet <= balance
  BY <1>1, Zenon DEF Double, CanDouble
<1>3. /\ player' \in Hand /\ player'.n = player.n + 1
      /\ player'.n <= player'.hard
      /\ deck' \in DeckType /\ deck'.pos = player'.n + dealer.n
  BY <1>1, CardTaken DEF Double
<1>4. player'.n > 0
  BY <1>1, <1>3 DEF Hand
<1>5. /\ gameBet' \in Nat /\ chips' \in Int
      /\ balance - gameBet = chips' - gameBet' /\ balance - gameBet \in Nat
  BY <1>1, <1>2
<1>6. /\ pc' \in {"ready", "Hit", "Stand", "Double"}
      /\ balance' \in Int
      /\ NeverBroke' /\ SettledOnce' /\ PlayedOut'
      /\ pc' # "ready" => /\ DealerToPlay(player', dealer', stood')
                          /\ doubled' <=> pc' = "Double"
  <2>1. "Double" \in {"Hit", "Stand", "Double"}
    OBVIOUS
  <2>2. QED
    BY <1>1, <1>2, <1>3, <1>4, <1>5, <2>1, ProceedKeeps, Zenon
<1>7. QED
  BY <1>1, <1>2, <1>3, <1>4, <1>5, <1>6, Assemble, Zenon

\* One round of DealerPlay(): both hands are light enough for the deck to last.
LEMMA DealerIInv == ASSUME IInv, DealerTakesCard PROVE IInv'
<1>1. /\ player \in Hand /\ dealer \in Hand /\ deck \in DeckType
      /\ gameBet \in Nat /\ balance \in Int /\ chips \in Int
      /\ stood \in BOOLEAN /\ doubled \in BOOLEAN
      /\ reply \in {"ok", "error"}
      /\ pc \in {"Hit", "Stand", "Double"}
  BY Zenon DEF IInv, TypeOK, DealerTakesCard
<1>2. /\ player.n > 0 /\ player.n <= player.hard /\ dealer.n <= dealer.hard
      /\ DealerToPlay(player, dealer, stood)
      /\ doubled <=> pc = "Double"
      /\ doubled => stood
  BY Zenon DEF IInv, Weights, DealerTakesCard
<1>3. deck.pos = player.n + dealer.n
  BY <1>2, Zenon DEF IInv, NoReshuffle
<1>4. balance = chips - gameBet
  <2>1. pc # "ready"
    BY DEF DealerTakesCard
  <2>2. QED
    BY <1>2, <2>1 DEF IInv, SettledOnce
<1>5. balance \in Nat
  BY <1>1 DEF IInv, NeverBroke, SessionState
<1>6. stood /\ ~IsBust(player) /\ DealerDraws(dealer)
  BY <1>2, Zenon DEF DealerToPlay
<1>7. player.n <= 21 /\ dealer.n <= 17
  <2>1. /\ Value(player) \in Nat /\ Value(player) >= player.hard
        /\ Value(dealer) \in Nat /\ Value(dealer) >= dealer.hard
    BY <1>1, ValueBound
  <2>2. Value(player) <= 21 /\ Value(dealer) <= 17
    BY <1>6, <2>1 DEF IsBust, DealerDraws
  <2>3. QED
    BY <1>1, <1>2, <2>1, <2>2 DEF Hand
<1>8. PICK v \in Explored : /\ deck.left[v] > 0
                            /\ deck' = NextCard(deck, v)
                            /\ dealer' = Add(dealer, v)
  BY Zenon DEF DealerTakesCard, Drawable
<1>9. v \in 1 .. 10
  BY BlackjackAssumption
<1>10. /\ dealer' \in Hand
       /\ dealer'.n = dealer.n + 1
       /\ dealer'.hard = dealer.hard + v
  BY <1>1, <1>8, <1>9, AddType
<1>11. deck' \in DeckType /\ deck'.pos = deck.pos + 1
  <2>1. deck.pos + 1 < DeckSize
    BY <1>1, <1>3, <1>7 DEF DeckSize, Hand
  <2>2. QED
    BY <1>1, <1>8, <1>9, <2>1, NextCardType
<1>12. dealer'.n <= dealer'.hard
  BY <1>1, <1>2, <1>9, <1>10 DEF Hand
<1>13. deck'.pos = player.n + dealer'.n
  BY <1>1, <1>3, <1>10, <1>11 DEF Hand
<1>14. /\ player' = player /\ stood' = stood /\ gameBet' = gameBet
       /\ chips' = chips /\ doubled' = doubled /\ reply' = reply
       /\ Proceed(pc, balance)
  BY Zenon DEF DealerTakesCard
<1>15. /\ pc' \in {"ready", "Hit", "Stand", "Double"}
       /\ balance' \in Int
       /\ NeverBroke' /\ SettledOnce' /\ PlayedOut'
       /\ pc' # "ready" => /\ DealerToPlay(player', dealer', stood')
                           /\ doubled' <=> pc' = "Double"
  BY <1>1, <1>2, <1>4, <1>5, <1>6, <1>10, <1>14, ProceedKeeps, Zenon
<1>16. QED
  BY <1>1, <1>2, <1>6, <1>10, <1>11, <1>12, <1>13, <1>14, <1>15, Assemble, Zenon

\* Every request, and every round of the dealer's, keeps the session in order.
LEMMA NextIInv == ASSUME IInv, [Next]_vars PROVE IInv'
<1>1. ASSUME NEW bet \in Bets, Deal(bet) PROVE IInv'
  BY <1>1, DealIInv
<1>2. ASSUME NEW bet \in Bets, DealRefused(bet) PROVE IInv'
  BY <1>2, RefuseIInv DEF DealRefused
<1>3. CASE Hit
  BY <1>3, HitIInv
<1>4. CASE Stand
  BY <1>4, StandIInv
<1>5. CASE Double
  BY <1>5, DoubleIInv
<1>6. CASE NotPlaying \/ DoubleRefused
  BY <1>6, RefuseIInv DEF NotPlaying, DoubleRefused
<1>7. CASE DealerTakesCard
  BY <1>7, DealerIInv
<1>8. CASE UNCHANGED vars
  BY <1>8 DEF vars, IInv, TypeOK, Weights, NeverBroke, SessionState,
              NoReshuffle, SettledOnce, PlayedOut, Now
<1>9. QED
  BY <1>1, <1>2, <1>3, <1>4, <1>5, <1>6, <1>7, <1>8 DEF Next

\* The inductive invariant holds in every reachable state.
LEMMA Invariant == Spec => []IInv
BY InitIInv, NextIInv, PTL DEF Spec

-----------------------------------------------------------------------------
(* The theorems *)

\* The fields of the session keep their types through every request.
THEOREM TypeCorrect == Spec => []TypeOK
<1>1. IInv => TypeOK
  BY DEF IInv
<1>2. QED
  BY <1>1, Invariant, PTL

\* No sequence of requests makes the balance negative: SessionBroke is
\* unreachable whatever the limits and the bets are.
THEOREM BalanceNeverNegative == Spec => []NeverBroke
<1>1. IInv => NeverBroke
  BY DEF IInv
<1>2. QED
  BY <1>1, Invariant, PTL

\* One deck of 52 cards outlasts every hand: Next() never shuffles while cards
\* are on the table.
THEOREM DeckOutlastsHand == Spec => []NoReshuffle
<1>1. IInv => NoReshuffle
  BY DEF IInv
<1>2. QED
  BY <1>1, Invariant, PTL

\* A bet is taken once and an undoubled hand is paid once, by the rules.
THEOREM HandsSettledOnce == Spec => []SettledOnce
<1>1. IInv => SettledOnce
  BY DEF IInv
<1>2. QED
  BY <1>1, Invariant, PTL

\* A hand in play can take a card, a hand that stood was played out.
THEOREM HandsPlayedOut == Spec => []PlayedOut
<1>1. IInv => PlayedOut
  BY DEF IInv
<1>2. QED
  BY <1>1, Invariant, PTL
=============================================================================
