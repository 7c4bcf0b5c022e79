-------------------------------- MODULE Gman --------------------------------
(***************************************************************************)
(* The game of gman (gman/challenge/src/gman.c): one process, one player.  *)
(* Each turn of the main loop reads the last key, moves gman, then the     *)
(* ghosts, and looks twice whether they have met.  A lost life or a won    *)
(* level shows a password "to return here", and the menu takes one.        *)
(*                                                                         *)
(* A position is <<x, y>>.  rand() is a choice; what is kept of it is the  *)
(* seed of the last srand(), until a ghost draws a number.  The boards a   *)
(* level number past the last one would index are not modelled: the game   *)
(* is followed up to the last board.                                       *)
(***************************************************************************)
EXTENDS PasswordGrid, Sequences

CONSTANTS
  ROWS, COLS,     \* the size of a board
  Floors,         \* BOARDS: the open cells of each board, <<floor0, floor1, ...>>
  Start,          \* <<START_X, START_Y>>
  GhostStart,     \* where reset_ghosts() puts each ghost
  MAX_LEVELS, START_LIVES,
  Seeds, LivesBytes,  \* bytes that passwords hold
  Keys            \* bound: the keys the player uses

Directions == {"LEFT", "RIGHT", "UP", "DOWN"}

None == "-1"

Ghosts == DOMAIN GhostStart

Board == (0 .. COLS - 1) \X (0 .. ROWS - 1)

\* boards[b], initialised from BOARDS[b % BOARD_COUNT].
Floor(b) == Floors[(b % Len(Floors)) + 1]

\* What the game needs of its boards: a tunnel that leaves one edge enters at
\* the opposite one, and everyone starts on the floor and apart.
Fits(floor) ==
  /\ floor \subseteq Board
  /\ \A x \in 0 .. COLS - 1 : <<x, 0>> \in floor <=> <<x, ROWS - 1>> \in floor
  /\ \A y \in 0 .. ROWS - 1 : <<0, y>> \in floor <=> <<COLS - 1, y>> \in floor
  /\ Start \in floor
  /\ \A g \in Ghosts : GhostStart[g] \in floor /\ GhostStart[g] # Start

ASSUME BoardsAssumption ==
  /\ ROWS \in Nat \ {0} /\ COLS \in Nat \ {0}
  /\ MAX_LEVELS \in 1 .. 255
  /\ Floors \in Seq(SUBSET Board) /\ Floors # <<>>
  /\ \A b \in 0 .. MAX_LEVELS - 1 : Fits(Floor(b)) /\ IsFiniteSet(Floor(b))

ASSUME BytesAssumption ==
  /\ START_LIVES \in 0 .. 127
  /\ Seeds \subseteq Byte /\ LivesBytes \subseteq Byte
  /\ Keys \subseteq Directions \cup {"none", "q"}

VARIABLES
  pc,       \* "menu", "play", "shown" (a password is on screen), "over"
  level, lives, score,
  gman,     \* [at, direction, next_direction]
  ghosts,   \* each [at, direction]
  pellets,  \* those left on the current board
  rng,      \* the seed of the last srand(), or Drawn
  shown,    \* the grid of the password on the screen
  from      \* history: the level the session began at

vars == <<pc, level, lives, score, gman, ghosts, pellets, rng, shown, from>>

Drawn == -1

-----------------------------------------------------------------------------
(***************************************************************************)
(* Moving on the board.                                                    *)
(***************************************************************************)

\* As if the left end of a tunnel led one column too far.
Step_OffBoard(direction, at) ==
  CASE direction = "LEFT"  -> <<IF at[1] = 0 THEN COLS ELSE at[1] - 1, at[2]>>
    [] direction = "RIGHT" -> <<IF at[1] = COLS - 1 THEN 0 ELSE at[1] + 1, at[2]>>
    [] direction = "UP"    -> <<at[1], IF at[2] = 0 THEN ROWS - 1 ELSE at[2] - 1>>
    [] direction = "DOWN"  -> <<at[1], IF at[2] = ROWS - 1 THEN 0 ELSE at[2] + 1>>

\* do_move(), the tunnels included.
Step(direction, at) ==
  CASE direction = "LEFT"  -> <<IF at[1] = 0 THEN COLS - 1 ELSE at[1] - 1, at[2]>>
    [] direction = "RIGHT" -> <<IF at[1] = COLS - 1 THEN 0 ELSE at[1] + 1, at[2]>>
    [] direction = "UP"    -> <<at[1], IF at[2] = 0 THEN ROWS - 1 ELSE at[2] - 1>>
    [] direction = "DOWN"  -> <<at[1], IF at[2] = ROWS - 1 THEN 0 ELSE at[2] + 1>>

\* At an edge a tunnel is assumed.
AtEdge(direction, at) ==
  \/ direction = "LEFT" /\ at[1] = 0
  \/ direction = "RIGHT" /\ at[1] = COLS - 1
  \/ direction = "UP" /\ at[2] = 0
  \/ direction = "DOWN" /\ at[2] = ROWS - 1

can_move(direction, at) ==
  /\ direction \in Directions
  /\ AtEdge(direction, at) \/ Step(direction, at) \in Floor(level)

\* As if do_move() relied on its callers to have asked can_move().
do_move_Unchecked(direction, at) ==
  IF direction \in Directions THEN Step(direction, at) ELSE at

do_move(direction, at) == IF can_move(direction, at) THEN Step(direction, at) ELSE at

change_direction_if_possible(g) ==
  IF can_move(g.next_direction, g.at)
  THEN [g EXCEPT !.direction = g.next_direction, !.next_direction = None]
  ELSE g

\* handle_input() with the last key that was pressed.
handle_input(key) ==
  change_direction_if_possible(
    IF key \in Directions THEN [gman EXCEPT !.next_direction = key] ELSE gman)

\* tick_gman() up to the pellet.
Moved(key) ==
  LET g == handle_input(key)
  IN  change_direction_if_possible([g EXCEPT !.at = do_move(g.direction, g.at)])

-----------------------------------------------------------------------------
(***************************************************************************)
(* The ghosts.                                                             *)
(***************************************************************************)

Opposite(direction) ==
  CASE direction = "LEFT" -> "RIGHT" [] direction = "RIGHT" -> "LEFT"
    [] direction = "UP" -> "DOWN"    [] direction = "DOWN" -> "UP"
    [] direction = None -> None

CannotTurn(direction, open) ==
  \/ open = {}
  \/ direction \in {"UP", "DOWN"} /\ open \cap {"LEFT", "RIGHT"} = {}
  \/ direction \in {"LEFT", "UP"} /\ open \cap {"UP", "DOWN"} = {}

\* The directions choose_ghost_direction() can return.  A ghost that can turn
\* may not want to, or may give up after 100 draws, and keeps its direction.
choose_ghost_direction(ghost) ==
  LET open == {d \in Directions : can_move(d, ghost.at)}
  IN  IF CannotTurn(ghost.direction, open)
      THEN {ghost.direction}
      ELSE {ghost.direction} \cup (open \ {Opposite(ghost.direction)})

Prowled(ghost) ==
  {[at |-> do_move(d, ghost.at), direction |-> d] : d \in choose_ghost_direction(ghost)}

tick_ghosts == {gs \in [Ghosts -> UNION {Prowled(ghosts[g]) : g \in Ghosts}] :
                  \A g \in Ghosts : gs[g] \in Prowled(ghosts[g])}

\* check_death()
Met(at, gs) == \E g \in Ghosts : gs[g].at = at

\* As if tick() only looked once, after the ghosts have moved.
WalkedInto_Unseen(at) == FALSE

\* The first of the two looks in tick(): gman has moved, the ghosts have not.
WalkedInto(at) == Met(at, ghosts)

-----------------------------------------------------------------------------
(***************************************************************************)
(* The menu.                                                               *)
(***************************************************************************)

\* reset()
reset ==
  /\ gman' = [at |-> Start, direction |-> "RIGHT", next_direction |-> None]
  /\ ghosts' = [g \in Ghosts |-> [at |-> GhostStart[g], direction |-> None]]

Int8(n) == ((n + 128) % 256) - 128

\* As if do_win() counted the level up before it added the bonus.
Bonus_NextLevel(n) == (n + 2) * 10000

Bonus(n) == (n + 1) * 10000

\* The score get_password() gives back.
RestoredScore(n) == (10000 * (n * (n + 1))) \div 2

Init ==
  /\ pc = "menu"
  /\ level = 0
  /\ lives = START_LIVES
  /\ score = 0
  /\ gman = [at |-> Start, direction |-> "RIGHT", next_direction |-> None]
  /\ ghosts = [g \in Ghosts |-> [at |-> GhostStart[g], direction |-> None]]
  /\ pellets = Floor(0)
  /\ rng = Drawn
  /\ shown = {}
  /\ from = 0

NewGame ==
  /\ pc = "menu"
  /\ pc' = "play"
  /\ UNCHANGED <<level, lives, score, gman, ghosts, pellets, rng, shown, from>>

\* As if lives were not a signed byte.
Restored_Unsigned(bytes) == [level |-> bytes.a, lives |-> bytes.b, rng |-> bytes.c]

\* What the bytes of a password make of the state: get_password().
Restored(bytes) == [level |-> bytes.a, lives |-> Int8(bytes.b), rng |-> bytes.c]

\* The passwords of the boards there are.
Passwords == {print_password(a, b, c) : a \in 0 .. MAX_LEVELS - 1, b \in LivesBytes, c \in Seeds}

\* get_password() once read_password() has returned bytes.
get_password(bytes) ==
  LET r == Restored(bytes)
  IN  /\ level' = r.level
      /\ lives' = r.lives
      /\ rng' = r.rng
      /\ score' = IF r.level > 0 THEN RestoredScore(r.level) ELSE 0
      /\ pellets' = Floor(r.level)
      /\ from' = r.level
      /\ reset
      /\ pc' = "play"
      /\ UNCHANGED shown

\* '2' in main_menu(), for any password that read_password() takes.
Continue ==
  /\ pc = "menu"
  /\ \E grid \in Passwords : Valid(grid) /\ get_password(validate_password(grid))

-----------------------------------------------------------------------------
(***************************************************************************)
(* One turn of the main loop: handle_input(), tick() and its outcome.      *)
(***************************************************************************)

\* As if srand() were not called with the seed that was shown.
show_password_NotSeeded(lvl, lvs) ==
  /\ pc' = "shown"
  /\ \E seed \in Seeds : shown' = print_password(lvl, lvs % 256, seed)
  /\ rng' = Drawn

\* show_password() up to the getch() of print_password(): the seed is drawn.
show_password(lvl, lvs) ==
  /\ pc' = "shown"
  /\ \E seed \in Seeds :
       /\ shown' = print_password(lvl, lvs % 256, seed)
       /\ rng' = seed

Playing(key) ==
  /\ pc = "play"
  /\ key # "q"

\* tick_gman(): the pellet at the new position goes.
EatenAt(at) == pellets \ {at}

Wins(at) == pellets = {at}

Gained(at) == IF at \in pellets THEN 100 ELSE 0

Die ==
  /\ lives' = Int8(lives - 1)
  /\ IF lives' < 0
     THEN /\ pc' = "over"
          /\ UNCHANGED <<rng, shown>>
     ELSE show_password(level, lives')

\* The last pellet: tick() returns before it looks for a ghost.
Win(key) ==
  /\ Playing(key)
  /\ gman' = Moved(key)
  /\ Wins(gman'.at)
  /\ score' = score + Gained(gman'.at) + Bonus(level)
  /\ level' = level + 1
  /\ pellets' = Floor(level')
  /\ show_password(level', lives)
  /\ UNCHANGED <<lives, ghosts, from>>

\* Gman walks into a ghost.
WalkInto(key) ==
  /\ Playing(key)
  /\ gman' = Moved(key)
  /\ ~Wins(gman'.at)
  /\ WalkedInto(gman'.at)
  /\ score' = score + Gained(gman'.at)
  /\ pellets' = EatenAt(gman'.at)
  /\ Die
  /\ UNCHANGED <<level, ghosts, from>>

\* The ghosts move, and one of them may catch gman.
Prowl(key) ==
  /\ Playing(key)
  /\ gman' = Moved(key)
  /\ ~Wins(gman'.at)
  /\ ~WalkedInto(gman'.at)
  /\ score' = score + Gained(gman'.at)
  /\ pellets' = EatenAt(gman'.at)
  /\ ghosts' \in tick_ghosts
  /\ IF Met(gman'.at, ghosts')
     THEN Die
     ELSE /\ rng' = Drawn
          /\ UNCHANGED <<pc, lives, shown>>
  /\ UNCHANGED <<level, from>>

Quit ==
  /\ pc = "play"
  /\ "q" \in Keys
  /\ pc' = "over"
  /\ UNCHANGED <<level, lives, score, gman, ghosts, pellets, rng, shown, from>>

\* The key that dismisses the password: srand() and reset().  The game past the
\* last board is not followed.
Return ==
  /\ pc = "shown"
  /\ level < MAX_LEVELS
  /\ reset
  /\ pc' = "play"
  /\ shown' = {}
  /\ UNCHANGED <<level, lives, score, pellets, rng, from>>

Next ==
  \/ NewGame
  \/ Continue
  \/ \E key \in Keys : Win(key) \/ WalkInto(key) \/ Prowl(key)
  \/ Quit
  \/ Return

Spec == Init /\ [][Next]_vars

-----------------------------------------------------------------------------

\* Every value is one its C type can hold, the level has a board or is the one
\* after the last, and everyone is on the board.
TypeOK ==
  /\ pc \in {"menu", "play", "shown", "over"}
  /\ level \in 0 .. MAX_LEVELS
  /\ lives \in -128 .. 127
  /\ score \in Nat
  /\ gman \in [at : Board, direction : Directions, next_direction : Directions \cup {None}]
  /\ ghosts \in [Ghosts -> [at : Board, direction : Directions \cup {None}]]
  /\ pellets \subseteq Board
  /\ rng \in Seeds \cup {Drawn}
  /\ shown \subseteq Cells
  /\ from \in 0 .. MAX_LEVELS - 1

\* While a game is played gman, the ghosts and the pellets are on the floor of
\* the current board, never in a wall, although can_move() does not look at
\* the far end of a tunnel and each level has another board.
StaysOnFloor ==
  (pc = "play") =>
     /\ gman.at \in Floor(level)
     /\ \A g \in Ghosts : ghosts[g].at \in Floor(level)
     /\ pellets \subseteq Floor(level) /\ pellets # {}

\* "Check death both before and after to make sure we can't 'jump' a ghost"
\* (tick()): in a turn nobody dies in and no level is won in, gman neither
\* steps where a ghost was nor ends where a ghost is; so gman and a ghost
\* never change places, and choose_ghost_direction() never divides by a
\* distance of zero.
NoJump ==
  [][(pc = "play" /\ pc' = "play") =>
        \A g \in Ghosts : gman'.at # ghosts[g].at /\ gman'.at # ghosts'[g].at]_vars

\* The score is what was earned: the bonus of every level below the current
\* one, played or skipped with a password, and 100 for every pellet that is
\* gone since the session began, on whichever board, deaths or not.
ScoreIsEarned ==
  score = 5000 * level * (level + 1)
          + 100 * (Cardinality({e \in (from .. level - 1) \X Board : e[2] \in Floor(e[1])})
                   + Cardinality(Floor(level) \ pellets))

\* "Password to return here": typed at the menu of another process, the
\* password on the screen gives back the level, the lives and the random
\* sequence that this game goes on with.
PasswordReturnsHere ==
  (pc = "shown") => /\ Valid(shown)
                    /\ Restored(validate_password(shown)) =
                         [level |-> level, lives |-> lives, rng |-> rng]
=============================================================================
