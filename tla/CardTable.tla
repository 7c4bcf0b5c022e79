---------------------------- MODULE CardTable ----------------------------
(***************************************************************************)
(* The browser side of the "cards" challenge (static/blackjack.js): the    *)
(* buttons, the one request in flight, the sealed session it carries and   *)
(* the card animations, which run on timers of their own.                  *)
(*                                                                         *)
(* The server is what the page sees of it: an answer with the hands that   *)
(* the request can lead to (module Blackjack says which), or an error.  A  *)
(* card is the hand it belongs to and its place in it; hands are numbered  *)
(* modulo 2.                                                               *)
(***************************************************************************)
EXTENDS Integers, Sequences, FiniteSets, SequencesExt

CONSTANTS
  MaxCards,   \* bound: cards in a hand
  MaxTimers   \* bound: no click while so many animations are running

ASSUME CardTableAssumption ==
  MaxCards \in Nat /\ MaxCards >= 2 /\ MaxTimers \in Nat

VARIABLES
  session,      \* sessionState: the last answer, or NoSession before the first
  allDisabled,  \* the page's flag of that name
  inflight,     \* requests sent and not answered, each with its sealed session
  shown,        \* the children of the two divs
  timers,       \* the drawHand() calls waiting in setTimeout, oldest first
  rushed,       \* history: a button was pressed while cards were being drawn
  silent        \* history: a move ended without a word, or hangs for ever

vars == <<session, allDisabled, inflight, shown, timers, rushed, silent>>

NoSession == [state |-> "none"]
Idle      == [state |-> "Idle", round |-> 0, player |-> 0, dealer |-> 0,
              won |-> FALSE]
Divs      == {"player", "dealer"}
Back      == <<-1, -1>>   \* the blind card, of no hand

-----------------------------------------------------------------------------
(* Sessions and answers *)

HandData_ZeroBased(s, div) == [i \in 1 .. s[div] |-> <<s.round, i - 1>>]

\* What an answer shows: the cards of a hand, the dealer's first one blind while
\* the hand is played.
HandData(s, div) ==
  [i \in 1 .. s[div] |->
     IF div = "dealer" /\ i = 1 /\ s.state = "Playing"
     THEN Back
     ELSE <<s.round, i>>]

\* The sessions a request can be answered with.  A hand that ends may carry the
\* balance over the goal, a bet may take it back below.
Answers(method, s) ==
  LET Won == IF s.won THEN {TRUE} ELSE BOOLEAN
      Ended(p, w) == [state : {"Over"}, round : {s.round}, player : {p},
                      dealer : s.dealer .. MaxCards, won : w]
      Dealt(st, w) == [state : {st}, round : {1 - s.round}, player : {2},
                       dealer : {2}, won : w]
  IN CASE method = "deal" ->
            Dealt("Playing", {FALSE, s.won}) \cup Dealt("Over", BOOLEAN)
       [] method = "hit" ->
            {[s EXCEPT !.player = @ + 1]} \cup Ended(s.player + 1, Won)
       [] method = "stand"  -> Ended(s.player, Won)
       [] method = "double" -> Ended(s.player + 1, {FALSE, s.won})

-----------------------------------------------------------------------------
(* Drawing *)

Animations_NoReplace(div, hand) ==
  LET have == Len(shown[div])
  IN  [i \in 1 .. Len(hand) - have |->
         [action |-> "append", card |-> hand[have + i]]]

\* The animations drawHand() queues: only the first of the cards already in the
\* div is looked at, and replaced if it differs; the cards beyond those in the
\* div are appended.
Animations(div, hand) ==
  LET have    == Len(shown[div])
      First   == IF hand # <<>> /\ have > 0 /\ hand[1] # shown[div][1]
                 THEN <<[action |-> "replace", card |-> hand[1]]>>
                 ELSE <<>>
      Missing == [i \in 1 .. Len(hand) - have |->
                    [action |-> "append", card |-> hand[have + i]]]
  IN  First \o Missing

\* One animation on the children of a div.
Perform(children, anim) ==
  IF anim.action = "append" THEN Append(children, anim.card)
  ELSE IF children = <<>> THEN children
  ELSE [children EXCEPT ![1] = anim.card]

\* popAnim() on a queue: the children after it, and the timer it leaves.
AfterPop(children, anims) ==
  IF anims = <<>> THEN children ELSE Perform(children, Head(anims))

TimerLeft(div, anims) ==
  IF anims = <<>> THEN <<>> ELSE <<[div |-> div, rest |-> Tail(anims)]>>

\* drawHands(): both hands, each with its first animation at once.
DrawHands(s) ==
  LET A(div) == Animations(div, HandData(s, div))
  IN  /\ shown' = [div \in Divs |-> AfterPop(shown[div], A(div))]
      /\ timers' = timers \o TimerLeft("player", A("player"))
                          \o TimerLeft("dealer", A("dealer"))

-----------------------------------------------------------------------------
(* The page *)

Init ==
  /\ session = NoSession
  /\ allDisabled = FALSE
  /\ inflight = {[method |-> "load", token |-> NoSession]}
  /\ shown = [div \in Divs |-> <<>>]
  /\ timers = <<>>
  /\ rushed = FALSE
  /\ silent = FALSE

\* Which buttons updateButtons() leaves enabled; all are before the first answer.
Enabled(method) ==
  /\ ~allDisabled
  /\ session # NoSession =>
       CASE method = "deal"   -> ~(session.state = "Playing" /\ ~session.won)
         [] method = "double" -> session.state = "Playing" /\ session.player = 2
         [] OTHER             -> session.state = "Playing"

ClearHands(method) ==
  shown' = IF method = "deal" THEN [div \in Divs |-> <<>>] ELSE shown

MakeRequest_LeavesButtons(method) ==
  /\ inflight' = IF session = NoSession THEN inflight
                 ELSE inflight \cup {[method |-> method, token |-> session]}
  /\ UNCHANGED allDisabled

\* makeRequest(): before the first answer it stops on the undefined session,
\* with every button disabled and nothing sent.
MakeRequest(method) ==
  /\ allDisabled' = TRUE
  /\ inflight' = IF session = NoSession THEN inflight
                 ELSE inflight \cup {[method |-> method, token |-> session]}

Click(method) ==
  /\ Enabled(method)
  /\ session # NoSession /\ method \in {"hit", "double"} =>
       session.player < MaxCards
  /\ Len(timers) < MaxTimers
  /\ rushed' = (rushed \/ timers # <<>>)
  /\ ClearHands(method)
  /\ MakeRequest(method)
  /\ UNCHANGED <<session, timers, silent>>

\* updateSession() with the session s just answered.
UpdateSession(s) ==
  /\ session' = s
  /\ DrawHands(s)
  /\ allDisabled' = FALSE

Loaded(r) ==
  /\ r.method = "load"
  /\ inflight' = inflight \ {r}
  /\ UpdateSession(Idle)
  /\ UNCHANGED <<rushed, silent>>

\* The first request has no failure handler: refused, lost or hanging, it leaves
\* the page without a session.
LoadFailed(r) ==
  /\ r.method = "load"
  /\ inflight' = inflight \ {r}
  /\ UNCHANGED <<session, allDisabled, shown, timers, rushed, silent>>

Answered(r) ==
  /\ r.method # "load"
  /\ \E s \in Answers(r.method, r.token) : UpdateSession(s)
  /\ inflight' = inflight \ {r}
  /\ UNCHANGED <<rushed, silent>>

Failed_KeepsDisabled(r) ==
  /\ r.method # "load"
  /\ \E status \in {"error", "parsererror"} :
       silent' = (silent \/ status # "error")
  /\ inflight' = inflight \ {r}
  /\ UNCHANGED <<session, allDisabled, shown, timers, rushed>>

\* failureHandler(): the server refused or the connection broke ("error"), or
\* what came is not JSON ("parsererror").  Only the first is shown, by
\* showError(), which enables the buttons.  There is no "timeout", as the request
\* sets none, and nothing aborts it.
Failed(r) ==
  /\ r.method # "load"
  /\ \E status \in {"error", "parsererror"} :
       /\ allDisabled' = (allDisabled /\ status # "error")
       /\ silent' = (silent \/ status # "error")
  /\ inflight' = inflight \ {r}
  /\ UNCHANGED <<session, shown, timers, rushed>>

\* The request hangs: no handler is ever called.
Hangs(r) ==
  /\ r.method # "load"
  /\ inflight' = inflight \ {r}
  /\ silent' = TRUE
  /\ UNCHANGED <<session, allDisabled, shown, timers, rushed>>

\* The oldest timer fires: all wait 200 ms, so they fire in the order they were
\* set.
TimerFires ==
  /\ timers # <<>>
  /\ LET t == Head(timers)
     IN  /\ shown' = [shown EXCEPT ![t.div] = AfterPop(@, t.rest)]
         /\ timers' = Tail(timers) \o TimerLeft(t.div, t.rest)
  /\ UNCHANGED <<session, allDisabled, inflight, rushed, silent>>

Methods == {"deal", "hit", "stand", "double"}

\* What becomes of a request.
Ends(r) ==
  Loaded(r) \/ LoadFailed(r) \/ Answered(r) \/ Failed(r) \/ Hangs(r)

Next ==
  \/ \E method \in Methods : Click(method)
  \/ \E r \in inflight : Ends(r)
  \/ TimerFires

\* A request is answered, fails or hangs, and timers fire.
Spec ==
  /\ Init
  /\ [][Next]_vars
  /\ WF_vars(\E r \in inflight : Ends(r))
  /\ WF_vars(TimerFires)

-----------------------------------------------------------------------------
(* Properties *)

Sessions == [state : {"Idle", "Playing", "Over"}, round : 0 .. 1,
             player : 0 .. MaxCards, dealer : 0 .. MaxCards, won : BOOLEAN]

Cards == {Back} \cup ((0 .. 1) \X (1 .. MaxCards))

\* The types of the page's variables.
TypeOK ==
  /\ session \in Sessions \cup {NoSession}
  /\ allDisabled \in BOOLEAN /\ rushed \in BOOLEAN /\ silent \in BOOLEAN
  /\ \A r \in inflight : /\ r.method \in Methods \cup {"load"}
                         /\ r.token \in Sessions \cup {NoSession}
  /\ \A div \in Divs : Range(shown[div]) \subseteq Cards
  /\ \A i \in DOMAIN timers : timers[i].div \in Divs

\* Two clicks never race each other: at most one request is out, it carries the
\* session the page still shows, and while it is out no button can be pressed.
\* So no answer overwrites the outcome of a later move.
OneMoveAtATime ==
  /\ Cardinality(inflight) <= 1
  /\ \A r \in inflight : r.token = session
  /\ \A r \in inflight : r.method # "load" => \A m \in Methods : ~Enabled(m)

\* When everything has come to rest the table shows the hands of the session,
\* card by card, or is empty (after clearHands() for a deal that failed), as
\* long as nobody pressed a button while cards were being drawn: updateSession()
\* enables the buttons at once, and nothing cancels the timers of popAnim(), so
\* a rushed click does leave cards of the last hand behind.
TableShowsHands ==
  ~rushed /\ timers = <<>> /\ inflight = {} /\ session # NoSession =>
    \/ \A div \in Divs : shown[div] = <<>>
    \/ \A div \in Divs : shown[div] = HandData(session, div)

\* The game goes on: with a session and no request out some move is offered,
\* unless an earlier one ended with an answer that is no JSON, or never ended.
\* Every other way a request can end must therefore enable the buttons again.
PlayCanGoOn ==
  inflight = {} /\ session # NoSession /\ ~silent =>
    \E method \in Methods : Enabled(method)

\* Once the page has a session, buttons that a request disabled come back: a
\* request that gets no answer ends as a timeout, as failureHandler() expects.
\* Not true: no timeout is set, and one failure is not seen to.
ButtonsReturn == session # NoSession /\ allDisabled ~> ~allDisabled
=============================================================================
