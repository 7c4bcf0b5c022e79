----------------------------- MODULE GmanProofs -----------------------------
(***************************************************************************)
(* Theorems about gman: its password grid, for every three bytes; the game,*)
(* for boards of every size and shape that fit the game, any number of     *)
(* ghosts and of levels; and the password screens, for every three bytes   *)
(* that are printed and however many cells of the copy are wrong.          *)
(***************************************************************************)
EXTENDS GmanProgram, FiniteSetTheorems, TLAPS

-----------------------------------------------------------------------------
(***************************************************************************)
(* Bits and bytes.                                                         *)
(***************************************************************************)

\* The binary digits of a byte add up to it.
LEMMA DigitsAddUp ==
  ASSUME NEW n \in Byte
  PROVE  LET digit(k) == IF BitSet(n, k) THEN Weight[k + 1] ELSE 0
         IN  digit(0) + digit(1) + digit(2) + digit(3)
             + digit(4) + digit(5) + digit(6) + digit(7) = n
PROOF
<1>1. /\ Weight[1] = 1 /\ Weight[2] = 2 /\ Weight[3] = 4 /\ Weight[4] = 8
      /\ Weight[5] = 16 /\ Weight[6] = 32 /\ Weight[7] = 64 /\ Weight[8] = 128
  BY DEF Weight
<1>2. /\ n = 2 * (n \div 2) + (n % 2)
      /\ n \div 2 = 2 * (n \div 4) + ((n \div 2) % 2)
      /\ n \div 4 = 2 * (n \div 8) + ((n \div 4) % 2)
      /\ n \div 8 = 2 * (n \div 16) + ((n \div 8) % 2)
  BY DEF Byte
<1>3. /\ n \div 16 = 2 * (n \div 32) + ((n \div 16) % 2)
      /\ n \div 32 = 2 * (n \div 64) + ((n \div 32) % 2)
      /\ n \div 64 = 2 * (n \div 128) + ((n \div 64) % 2)
      /\ n \div 128 = (n \div 128) % 2
  BY DEF Byte
<1> DEFINE digit(k) == IF BitSet(n, k) THEN Weight[k + 1] ELSE 0
<1>4. /\ n % 2 \in {0, 1} /\ (n \div 2) % 2 \in {0, 1}
      /\ (n \div 4) % 2 \in {0, 1} /\ (n \div 8) % 2 \in {0, 1}
      /\ (n \div 16) % 2 \in {0, 1} /\ (n \div 32) % 2 \in {0, 1}
      /\ (n \div 64) % 2 \in {0, 1} /\ (n \div 128) % 2 \in {0, 1}
  BY DEF Byte
<1>5. /\ digit(0) = n % 2 /\ digit(1) = 2 * ((n \div 2) % 2)
  BY <1>1, <1>4 DEF BitSet, Byte
<1>6. /\ digit(2) = 4 * ((n \div 4) % 2) /\ digit(3) = 8 * ((n \div 8) % 2)
  BY <1>1, <1>4 DEF BitSet, Byte
<1>7. /\ digit(4) = 16 * ((n \div 16) % 2) /\ digit(5) = 32 * ((n \div 32) % 2)
  BY <1>1, <1>4 DEF BitSet, Byte
<1>8. /\ digit(6) = 64 * ((n \div 64) % 2) /\ digit(7) = 128 * ((n \div 128) % 2)
  BY <1>1, <1>4 DEF BitSet, Byte
<1> HIDE DEF digit
<1>9. digit(0) + digit(1) + digit(2) + digit(3)
        + digit(4) + digit(5) + digit(6) + digit(7) = n
  BY <1>2, <1>3, <1>4, <1>5, <1>6, <1>7, <1>8 DEF Byte
<1> QED BY <1>9 DEF digit

\* Masking twice changes nothing, so each byte comes out of a passcode again.
LEMMA BytesComeBack ==
  ASSUME NEW a \in Byte, NEW b \in Byte, NEW c \in Byte
  PROVE  /\ ByteAt(Passcode(a, b, c), 16) = a
         /\ ByteAt(Passcode(a, b, c), 8) = b
         /\ ByteAt(Passcode(a, b, c), 0) = c
PROOF
<1> DEFINE pass == Passcode(a, b, c)
<1>1. \A k \in 0 .. 7 : /\ ((16 + k \in pass) # Masked(16 + k)) <=> BitSet(a, k)
                        /\ ((8 + k \in pass) # Masked(8 + k)) <=> BitSet(b, k)
                        /\ ((0 + k \in pass) # Masked(0 + k)) <=> BitSet(c, k)
  <2> TAKE k \in 0 .. 7
  <2>1. /\ 16 + k \in 0 .. 23 /\ 16 + k >= 16 /\ (16 + k) % 8 = k
        /\ 8 + k \in 0 .. 23 /\ ~(8 + k >= 16) /\ 8 + k >= 8 /\ (8 + k) % 8 = k
        /\ 0 + k \in 0 .. 23 /\ ~(0 + k >= 8) /\ ~(0 + k >= 16) /\ (0 + k) % 8 = k
    OBVIOUS
  <2>2. /\ (16 + k \in pass) <=> (BitSet(a, k) # Masked(16 + k))
        /\ (8 + k \in pass) <=> (BitSet(b, k) # Masked(8 + k))
        /\ (0 + k \in pass) <=> (BitSet(c, k) # Masked(0 + k))
    BY <2>1 DEF Passcode
  <2> QED BY <2>2 DEF BitSet, Masked
<1> HIDE DEF pass
<1>2. ByteAt(pass, 16) = a
  BY <1>1, DigitsAddUp DEF ByteAt
<1>3. ByteAt(pass, 8) = b
  BY <1>1, DigitsAddUp DEF ByteAt
<1>4. ByteAt(pass, 0) = c
  BY <1>1, DigitsAddUp DEF ByteAt
<1> QED BY <1>2, <1>3, <1>4 DEF pass

-----------------------------------------------------------------------------
(***************************************************************************)
(* The two halves of the grid.                                             *)
(***************************************************************************)

LEMMA AboveRows ==
  /\ Above[0] = 0 /\ Above[1] = 7 /\ Above[2] = 13 /\ Above[3] = 18
  /\ Above[4] = 21 /\ Above[5] = 23 /\ Above[6] = 24
PROOF
<1> DEFINE rows == [i \in 0 .. 6 |-> IF i = 0 THEN 0 ELSE IF i = 1 THEN 7
                       ELSE IF i = 2 THEN 13 ELSE IF i = 3 THEN 18
                       ELSE IF i = 4 THEN 21 ELSE IF i = 5 THEN 23 ELSE 24]
       Sums(f) == f = [i \in 0 .. 6 |-> IF i = 0 THEN 0 ELSE f[i - 1] + Width(i - 1)]
<1>1. \A i \in 0 .. 6 : rows[i] = IF i = 0 THEN 0 ELSE rows[i - 1] + Width(i - 1)
  BY DEF Width
<1>2. Sums(rows)
  BY <1>1
<1>3. Above = CHOOSE f : Sums(f)
  BY Zenon DEF Above
<1> HIDE DEF rows, Sums
<1>4. Sums(Above)
  BY <1>2, <1>3
<1>5. \A i \in 0 .. 6 : Above[i] = IF i = 0 THEN 0 ELSE Above[i - 1] + Width(i - 1)
  BY <1>4 DEF Sums
<1>6. Above[0] = 0 /\ Above[1] = 7 /\ Above[2] = 13 /\ Above[3] = 18
  BY <1>5 DEF Width
<1>7. Above[4] = 21 /\ Above[5] = 23 /\ Above[6] = 24
  BY <1>5, <1>6 DEF Width
<1> QED BY <1>6, <1>7

\* A cell, its mirror image and the centre are three cells, and one of the two
\* that are not the centre is visited.
LEMMA Halves ==
  /\ Centre \in Cells /\ Centre \notin Half /\ Mirror(Centre) = Centre
  /\ \A x \in Cells : /\ Mirror(x) \in Cells
                      /\ Mirror(Mirror(x)) = x
                      /\ x = Centre \/ x \in Half \/ Mirror(x) \in Half
  /\ \A x \in Half : x \in Cells /\ Mirror(x) \notin Half /\ Mirror(x) # Centre
PROOF BY DEF Cells, Half, Mirror, Centre, Width

\* The visited cells stand for the 24 bits, each for one.
LEMMA BitsOfCells ==
  /\ \A x \in Half : BitOf(x) \in 0 .. 23
  /\ \A k \in 0 .. 23 : \E x \in Half : BitOf(x) = k
PROOF
<1>1. \A i \in 0 .. 6, j \in 0 .. 6 : j < Width(i) =>
         /\ <<i, j>> \in Half
         /\ BitOf(<<i, j>>) = 23 - (Above[i] + j)
  BY DEF Half, Cells, BitOf
<1>2. \A x \in Half : BitOf(x) \in 0 .. 23
  <2> TAKE x \in Half
  <2>1. /\ x[1] \in 0 .. 6 /\ x[2] \in 0 .. 6 /\ x[2] < Width(x[1])
        /\ BitOf(x) = 23 - (Above[x[1]] + x[2])
    BY DEF Half, Cells, BitOf
  <2> QED BY <2>1, AboveRows DEF Width
<1>3. ASSUME NEW k \in 0 .. 23 PROVE \E x \in Half : BitOf(x) = k
  <2>1. CASE k \in 17 .. 23
    BY <2>1, <1>1, AboveRows DEF Width
  <2>2. CASE k \in 11 .. 16
    BY <2>2, <1>1, AboveRows DEF Width
  <2>3. CASE k \in 6 .. 10
    BY <2>3, <1>1, AboveRows DEF Width
  <2>4. CASE k \in 3 .. 5
    BY <2>4, <1>1, AboveRows DEF Width
  <2>5. CASE k \in 1 .. 2
    BY <2>5, <1>1, AboveRows DEF Width
  <2>6. CASE k = 0
    BY <2>6, <1>1, AboveRows DEF Width
  <2> QED BY <2>1, <2>2, <2>3, <2>4, <2>5, <2>6
<1> QED BY <1>2, <1>3

\* What is drawn in the visited half is what is read back.
LEMMA DrawnHalf ==
  ASSUME NEW pass
  PROVE  /\ Grid(pass) \subseteq Cells
         /\ Grid(pass) \cap Half = {x \in Half : BitOf(x) \in pass}
         /\ Valid(Grid(pass))
PROOF
<1> DEFINE drawn == {x \in Half : BitOf(x) \in pass}
<1>1. \A y : y \in Grid(pass) <=>
               \/ y \in drawn
               \/ \E x \in drawn : y = Mirror(x)
               \/ y = Centre /\ Checksum(Cardinality(drawn))
  BY DEF Grid
<1>2. drawn \subseteq Half
  OBVIOUS
<1> HIDE DEF drawn
<1>3. Grid(pass) \subseteq Cells
  BY <1>1, <1>2, Halves
<1>4. Grid(pass) \cap Half = drawn
  BY <1>1, <1>2, Halves
<1>5. Symmetric(Grid(pass))
  <2> SUFFICES ASSUME NEW x \in Half
               PROVE  x \in Grid(pass) <=> Mirror(x) \in Grid(pass)
    BY DEF Symmetric
  <2>1. x \in Grid(pass) => Mirror(x) \in Grid(pass)
    BY <1>1, <1>4
  <2>2. ASSUME Mirror(x) \in Grid(pass) PROVE x \in Grid(pass)
    <3>1. PICK d \in drawn : Mirror(x) = Mirror(d)
      BY <2>2, <1>1, <1>2, Halves
    <3>2. x = d
      BY <3>1, <1>2, Halves
    <3> QED BY <3>2, <1>1
  <2> QED BY <2>1, <2>2
<1>6. Centre \in Grid(pass) <=> Checksum(Cardinality(Grid(pass) \cap Half))
  BY <1>1, <1>2, <1>4, Halves
<1> QED BY <1>3, <1>4, <1>5, <1>6 DEF Valid, drawn

-----------------------------------------------------------------------------
(***************************************************************************)
(* The two facts about passwords.                                          *)
(***************************************************************************)

\* validate_password() takes whatever print_password() draws, and gives back
\* the three bytes.
THEOREM PasswordRoundTrip ==
  \A a, b, c \in Byte :
     LET drawn == print_password(a, b, c)
     IN  /\ drawn \subseteq Cells
         /\ Valid(drawn)
         /\ validate_password(drawn) = [a |-> a, b |-> b, c |-> c]
PROOF
<1> TAKE a, b, c \in Byte
<1> DEFINE pass == Passcode(a, b, c)
           drawn == Grid(pass)
<1>1. pass \subseteq 0 .. 23
  BY DEF Passcode
<1>2. {BitOf(x) : x \in drawn \cap Half} = pass
  <2>1. drawn \cap Half = {x \in Half : BitOf(x) \in pass}
    BY DrawnHalf
  <2> HIDE DEF pass, drawn
  <2>2. \A k : k \in pass => \E x \in drawn \cap Half : BitOf(x) = k
    BY <1>1, <2>1, BitsOfCells
  <2> QED BY <2>1, <2>2
<1>3. validate_password(drawn) = [a |-> ByteAt(pass, 16), b |-> ByteAt(pass, 8),
                                 c |-> ByteAt(pass, 0)]
  BY <1>2, Zenon DEF validate_password
<1>4. drawn \subseteq Cells /\ Valid(drawn)
  BY DrawnHalf
<1> QED BY <1>3, <1>4, BytesComeBack DEF print_password

LEMMA ThreeAreMoreThanTwo ==
  ASSUME NEW S, IsFiniteSet(S), NEW x \in S, NEW y \in S, NEW z \in S,
         x # y, x # z, y # z
  PROVE  Cardinality(S) > 2
PROOF
<1> DEFINE R == S \ {x}
           Q == R \ {y}
<1>1. Cardinality(S) \in Nat
  BY FS_CardinalityType
<1>2. IsFiniteSet(R) /\ Cardinality(R) = Cardinality(S) - 1
  BY FS_RemoveElement
<1>3. y \in R /\ z \in Q
  OBVIOUS
<1> HIDE DEF R
<1>4. IsFiniteSet(Q) /\ Cardinality(Q) = Cardinality(R) - 1
  BY <1>2, <1>3, FS_RemoveElement
<1> HIDE DEF Q
<1>5. Cardinality(Q) \in Nat /\ Cardinality(Q) # 0
  BY <1>3, <1>4, FS_CardinalityType, FS_EmptySet
<1> QED BY <1>1, <1>2, <1>4, <1>5

LEMMA CellsFinite == IsFiniteSet(Cells)
PROOF
<1>1. 0 \in Int /\ 6 \in Int
  OBVIOUS
<1>2. IsFiniteSet(0 .. 6)
  BY <1>1, FS_Interval, Zenon
<1> QED BY <1>2, FS_Product, Zenon DEF Cells

\* Two valid grids differ in three cells or more: one wrong cell breaks the
\* symmetry or the checksum, and so do two.
THEOREM ValidGridsFarApart ==
  \A g, h \in SUBSET Cells :
     (Valid(g) /\ Valid(h) /\ g # h) => Cardinality((g \ h) \cup (h \ g)) > 2
PROOF
<1> SUFFICES ASSUME NEW g \in SUBSET Cells, NEW h \in SUBSET Cells,
                    Valid(g), Valid(h), g # h
             PROVE  Cardinality((g \ h) \cup (h \ g)) > 2
  OBVIOUS
<1> DEFINE D == (g \ h) \cup (h \ g)
<1>1. IsFiniteSet(D) /\ IsFiniteSet(g \cap Half) /\ IsFiniteSet(h \cap Half)
  BY CellsFinite, FS_Subset
<1>2. \A x \in Half : x \in D <=> Mirror(x) \in D
  BY DEF Valid, Symmetric
<1>3. D # {} /\ D \subseteq Cells
  OBVIOUS
<1>4. CASE D \cap Half = {}
  <2>1. g \cap Half = h \cap Half
    BY <1>4
  <2>2. Centre \notin D
    BY <2>1 DEF Valid
  <2> HIDE DEF D
  <2> QED BY <1>2, <1>3, <1>4, <2>2, Halves
<1>5. CASE D \cap Half # {}
  <2>1. PICK x \in Half : x \in D
    BY <1>5
  <2>2. /\ Mirror(x) \in D /\ Mirror(x) \notin Half
        /\ Mirror(x) # Centre /\ Centre \notin Half
    BY <2>1, <1>2, Halves
  <2>3. PICK y \in D : y # x /\ y # Mirror(x)
    <3>1. CASE \E y \in D \cap Half : y # x
      BY <3>1, <2>2
    <3>2. CASE D \cap Half = {x}
      <4>1. \/ x \notin h /\ g \cap Half = (h \cap Half) \cup {x}
            \/ x \notin g /\ h \cap Half = (g \cap Half) \cup {x}
        BY <3>2
      <4>2. /\ Cardinality(g \cap Half) \in Nat /\ Cardinality(h \cap Half) \in Nat
            /\ \/ Cardinality(g \cap Half) = Cardinality(h \cap Half) + 1
               \/ Cardinality(h \cap Half) = Cardinality(g \cap Half) + 1
        BY <1>1, <4>1, FS_CardinalityType, FS_AddElement
      <4>3. Checksum(Cardinality(g \cap Half)) <=> ~Checksum(Cardinality(h \cap Half))
        BY <4>2 DEF Checksum
      <4>4. Centre \in D
        BY <4>3 DEF Valid
      <4> QED BY <4>4, <2>1, <2>2
    <3> QED BY <3>1, <3>2, <2>1
  <2> HIDE DEF D
  <2>4. Cardinality(D) > 2
    BY <1>1, <2>1, <2>2, <2>3, ThreeAreMoreThanTwo
  <2> QED BY <2>4 DEF D
<1> QED BY <1>4, <1>5

-----------------------------------------------------------------------------
(***************************************************************************)
(* One step on a board that fits.                                          *)
(***************************************************************************)

LEMMA Steps ==
  \A at : /\ Step("LEFT", at) = <<IF at[1] = 0 THEN COLS - 1 ELSE at[1] - 1, at[2]>>
          /\ Step("RIGHT", at) = <<IF at[1] = COLS - 1 THEN 0 ELSE at[1] + 1, at[2]>>
          /\ Step("UP", at) = <<at[1], IF at[2] = 0 THEN ROWS - 1 ELSE at[2] - 1>>
          /\ Step("DOWN", at) = <<at[1], IF at[2] = ROWS - 1 THEN 0 ELSE at[2] + 1>>
PROOF BY Zenon DEF Step

LEMMA BoardsFit ==
  \A b \in 0 .. MAX_LEVELS - 1 : Fits(Floor(b))
PROOF BY BoardsAssumption

\* A move that is allowed leads to the floor, and so does one that is not: it
\* is not made.  At an edge it is the shape of the board that makes it so.
LEMMA MovesStayOnFloor ==
  \A d, at : (level \in 0 .. MAX_LEVELS - 1 /\ at \in Floor(level))
                => do_move(d, at) \in Floor(level)
PROOF
<1> SUFFICES ASSUME NEW d, NEW at, level \in 0 .. MAX_LEVELS - 1, at \in Floor(level),
                    can_move(d, at), AtEdge(d, at)
             PROVE  Step(d, at) \in Floor(level)
  BY DEF do_move, can_move
<1> DEFINE floor == Floor(level)
<1>1. Fits(floor)
  BY BoardsFit
<1> HIDE DEF floor
<1>2. at \in floor
  BY DEF floor
<1>3. PICK x \in 0 .. COLS - 1, y \in 0 .. ROWS - 1 : at = <<x, y>>
  BY <1>1, <1>2 DEF Fits, Board
<1>4. CASE d = "LEFT"
  <2>1. x = 0 /\ Step(d, at) = <<COLS - 1, y>>
    BY <1>3, <1>4, Steps DEF AtEdge
  <2> QED BY <1>1, <1>2, <1>3, <2>1 DEF Fits, floor
<1>5. CASE d = "RIGHT"
  <2>1. x = COLS - 1 /\ Step(d, at) = <<0, y>>
    BY <1>3, <1>5, Steps DEF AtEdge
  <2> QED BY <1>1, <1>2, <1>3, <2>1 DEF Fits, floor
<1>6. CASE d = "UP"
  <2>1. y = 0 /\ Step(d, at) = <<x, ROWS - 1>>
    BY <1>3, <1>6, Steps DEF AtEdge
  <2> QED BY <1>1, <1>2, <1>3, <2>1 DEF Fits, floor
<1>7. CASE d = "DOWN"
  <2>1. y = ROWS - 1 /\ Step(d, at) = <<x, 0>>
    BY <1>3, <1>7, Steps DEF AtEdge
  <2> QED BY <1>1, <1>2, <1>3, <2>1 DEF Fits, floor
<1> QED BY <1>4, <1>5, <1>6, <1>7 DEF can_move, Directions

-----------------------------------------------------------------------------
(***************************************************************************)
(* The types of gman and the ghosts.                                       *)
(***************************************************************************)

GmanOn(floor) == [at : floor, direction : Directions, next_direction : Directions \cup {None}]

GhostOn(floor) == [at : floor, direction : Directions \cup {None}]

LEMMA TurningKeepsType ==
  \A g \in GmanOn(Floor(level)) :
     change_direction_if_possible(g) \in GmanOn(Floor(level))
PROOF
<1> SUFFICES ASSUME NEW g \in GmanOn(Floor(level)), can_move(g.next_direction, g.at)
             PROVE  [g EXCEPT !.direction = g.next_direction, !.next_direction = None]
                      \in GmanOn(Floor(level))
  BY DEF change_direction_if_possible
<1>1. g.next_direction \in Directions
  BY DEF can_move
<1> QED BY <1>1 DEF GmanOn

\* Where gman goes in a turn.
LEMMA GmanMoves ==
  ASSUME level \in 0 .. MAX_LEVELS - 1, gman \in GmanOn(Floor(level)), NEW key
  PROVE  Moved(key) \in GmanOn(Floor(level))
PROOF
<1> DEFINE asked == IF key \in Directions THEN [gman EXCEPT !.next_direction = key] ELSE gman
           g == handle_input(key)
           h == [g EXCEPT !.at = do_move(g.direction, g.at)]
<1>1. asked \in GmanOn(Floor(level))
  BY DEF GmanOn
<1>2. g \in GmanOn(Floor(level))
  BY <1>1, TurningKeepsType DEF handle_input
<1> HIDE DEF g
<1>3. do_move(g.direction, g.at) \in Floor(level)
  BY <1>2, MovesStayOnFloor DEF GmanOn
<1>4. h \in GmanOn(Floor(level))
  BY <1>2, <1>3 DEF GmanOn
<1> HIDE DEF h
<1>5. change_direction_if_possible(h) \in GmanOn(Floor(level))
  BY <1>4, TurningKeepsType
<1> QED BY <1>5 DEF Moved, g, h

\* Where a ghost goes in a turn.
LEMMA GhostsMove ==
  ASSUME level \in 0 .. MAX_LEVELS - 1, ghosts \in [Ghosts -> GhostOn(Floor(level))],
         NEW gs \in tick_ghosts
  PROVE  gs \in [Ghosts -> GhostOn(Floor(level))]
PROOF
<1>1. \A g \in Ghosts : gs[g] \in Prowled(ghosts[g])
  BY DEF tick_ghosts
<1>2. gs \in [Ghosts -> UNION {Prowled(ghosts[g]) : g \in Ghosts}]
  BY DEF tick_ghosts
<1>3. ASSUME NEW g \in Ghosts PROVE gs[g] \in GhostOn(Floor(level))
  <2>1. PICK d \in choose_ghost_direction(ghosts[g]) :
           gs[g] = [at |-> do_move(d, ghosts[g].at), direction |-> d]
    BY <1>1 DEF Prowled
  <2>2. ghosts[g].at \in Floor(level) /\ ghosts[g].direction \in Directions \cup {None}
    BY DEF GhostOn
  <2>3. d \in Directions \cup {None}
    BY <2>1, <2>2 DEF choose_ghost_direction
  <2>4. do_move(d, ghosts[g].at) \in Floor(level)
    BY <2>2, MovesStayOnFloor
  <2> QED BY <2>1, <2>3, <2>4 DEF GhostOn
<1> QED BY <1>2, <1>3

-----------------------------------------------------------------------------
(***************************************************************************)
(* The inductive invariant.                                                *)
(***************************************************************************)

\* Before a turn everyone is on the floor; while there are boards left the
\* current one has a pellet.  The board of the next level and the positions
\* on it are only brought together by reset(), so nothing is said of the
\* positions while a password is shown.
OnFloor ==
  /\ (pc \in {"menu", "play"}) => /\ level < MAX_LEVELS
                                  /\ gman \in GmanOn(Floor(level))
                                  /\ ghosts \in [Ghosts -> GhostOn(Floor(level))]
  /\ (level < MAX_LEVELS) => pellets \subseteq Floor(level) /\ pellets # {}

\* The password on the screen is that of the state the game goes on with.
ShowsState ==
  (pc = "shown") => \E seed \in Seeds : /\ rng = seed
                                       /\ shown = print_password(level, lives % 256, seed)

IInv == TypeOK /\ OnFloor /\ ShowsState

LEMMA FloorsOnBoard ==
  \A b \in Nat : Floor(b) \subseteq Board
PROOF
<1> TAKE b \in Nat
<1>1. Len(Floors) \in Nat \ {0} /\ Floors \in Seq(SUBSET Board)
  BY BoardsAssumption
<1>2. (b % Len(Floors)) + 1 \in 1 .. Len(Floors)
  BY <1>1
<1> QED BY <1>1, <1>2 DEF Floor

LEMMA StartOnFloor ==
  ASSUME NEW b \in 0 .. MAX_LEVELS - 1
  PROVE  /\ [at |-> Start, direction |-> "RIGHT", next_direction |-> None] \in GmanOn(Floor(b))
         /\ [g \in Ghosts |-> [at |-> GhostStart[g], direction |-> None]]
               \in [Ghosts -> GhostOn(Floor(b))]
         /\ Floor(b) # {}
PROOF BY BoardsFit DEF Fits, GmanOn, GhostOn, Directions

LEMMA OnBoardToo ==
  ASSUME NEW b \in Nat
  PROVE  /\ GmanOn(Floor(b)) \subseteq GmanOn(Board)
         /\ [Ghosts -> GhostOn(Floor(b))] \subseteq [Ghosts -> GhostOn(Board)]
PROOF
<1>1. Floor(b) \subseteq Board
  BY FloorsOnBoard
<1>2. GmanOn(Floor(b)) \subseteq GmanOn(Board)
  BY <1>1 DEF GmanOn
<1>3. GhostOn(Floor(b)) \subseteq GhostOn(Board)
  BY <1>1 DEF GhostOn
<1> QED BY <1>2, <1>3

\* What a password restores.
Game(lvl, lvs, seed) == [level |-> lvl, lives |-> lvs, rng |-> seed]

\* The grid of a game's password, and the lives it can show.
GridFor(lvl, lvs, seed) == print_password(lvl, lvs % 256, seed)

LivesRange == -128 .. 127

\* The level, the lives and the seed that are shown are bytes.
LEMMA ShownIsRead ==
  ASSUME NEW lvl \in 0 .. MAX_LEVELS, NEW lvs \in LivesRange, NEW seed \in Seeds
  PROVE  /\ GridFor(lvl, lvs, seed) \subseteq Cells
         /\ Valid(GridFor(lvl, lvs, seed))
         /\ Restored(validate_password(GridFor(lvl, lvs, seed))) = Game(lvl, lvs, seed)
PROOF
<1> USE DEF LivesRange
<1>1. lvl \in Byte /\ lvs % 256 \in Byte /\ seed \in Byte
  BY BoardsAssumption, BytesAssumption DEF Byte
<1>2. Int8(lvs % 256) = lvs
  BY DEF Int8
<1> DEFINE drawn == print_password(lvl, lvs % 256, seed)
<1>3. /\ drawn \subseteq Cells /\ Valid(drawn)
      /\ validate_password(drawn) = [a |-> lvl, b |-> lvs % 256, c |-> seed]
  BY <1>1, PasswordRoundTrip
<1> HIDE DEF drawn
<1>4. Restored(validate_password(drawn)) = Game(lvl, lvs, seed)
  BY <1>2, <1>3 DEF Restored, Game
<1> QED BY <1>3, <1>4 DEF drawn, GridFor

LEMMA Int8Type == \A n \in Int : Int8(n) \in -128 .. 127
PROOF BY DEF Int8

LEMMA InitIInv == Init => IInv
PROOF
<1> SUFFICES ASSUME Init PROVE IInv
  OBVIOUS
<1>1. MAX_LEVELS \in Nat /\ 0 \in 0 .. MAX_LEVELS - 1 /\ 0 \in Nat /\ START_LIVES \in -128 .. 127
  BY BoardsAssumption, BytesAssumption
<1>2. /\ gman \in GmanOn(Floor(0)) /\ ghosts \in [Ghosts -> GhostOn(Floor(0))]
      /\ pellets \subseteq Floor(0) /\ pellets # {}
  BY <1>1, StartOnFloor DEF Init
<1>3. gman \in GmanOn(Board) /\ ghosts \in [Ghosts -> GhostOn(Board)] /\ pellets \subseteq Board
  BY <1>1, <1>2, OnBoardToo, FloorsOnBoard
<1>4. /\ pc = "menu" /\ level = 0 /\ lives \in -128 .. 127 /\ score \in Nat
      /\ rng = Drawn /\ shown \subseteq Cells /\ from \in 0 .. MAX_LEVELS - 1
      /\ level \in 0 .. MAX_LEVELS /\ level < MAX_LEVELS
  BY <1>1 DEF Init
<1>5. TypeOK
  BY <1>3, <1>4, Zenon DEF TypeOK, GmanOn, GhostOn
<1>6. OnFloor
  BY <1>2, <1>4 DEF OnFloor
<1>7. ShowsState
  BY <1>4 DEF ShowsState
<1> QED BY <1>5, <1>6, <1>7 DEF IInv

\* Dying shows a password for the lives that are left, or ends the game.
LEMMA DyingShows ==
  ASSUME TypeOK, Die, level' = level
  PROVE  /\ pc' \in {"shown", "over"}
         /\ lives' \in -128 .. 127
         /\ rng' \in Seeds \cup {Drawn}
         /\ shown' \subseteq Cells
         /\ ShowsState'
PROOF
<1>1. lives' \in -128 .. 127
  BY Int8Type DEF TypeOK, Die
<1>2. CASE pc' = "over" /\ UNCHANGED <<rng, shown>>
  BY <1>1, <1>2 DEF TypeOK, ShowsState
<1>3. CASE show_password(level, lives')
  <2>1. PICK seed \in Seeds : /\ shown' = print_password(level, lives' % 256, seed)
                              /\ rng' = seed
    BY <1>3 DEF show_password
  <2>2. level \in 0 .. MAX_LEVELS
    BY DEF TypeOK
  <2>3. lives' \in LivesRange
    BY <1>1 DEF LivesRange
  <2>4. shown' \subseteq Cells
    <3>1. GridFor(level, lives', seed) \subseteq Cells
      BY <2>2, <2>3, ShownIsRead
    <3> QED BY <2>1, <3>1 DEF GridFor
  <2> QED BY <1>1, <1>3, <2>1, <2>4 DEF ShowsState, show_password
<1> QED BY <1>2, <1>3 DEF Die

\* The three ways a turn ends.
LEMMA TurnIInv ==
  ASSUME IInv, NEW key \in Keys, Win(key) \/ WalkInto(key) \/ Prowl(key)
  PROVE  IInv'
PROOF
<1>1. /\ pc = "play" /\ level \in 0 .. MAX_LEVELS - 1 /\ level \in Nat
      /\ level + 1 \in 0 .. MAX_LEVELS /\ level + 1 \in Nat
      /\ gman \in GmanOn(Floor(level)) /\ ghosts \in [Ghosts -> GhostOn(Floor(level))]
      /\ pellets \subseteq Floor(level) /\ pellets # {}
  BY BoardsAssumption DEF IInv, TypeOK, OnFloor, Win, WalkInto, Prowl, Playing
<1>2. gman' = Moved(key) /\ gman' \in GmanOn(Floor(level)) /\ gman' \in GmanOn(Board)
  BY <1>1, GmanMoves, OnBoardToo DEF Win, WalkInto, Prowl
<1>3. /\ Gained(gman'.at) \in Nat /\ Bonus(level) \in Nat /\ score \in Nat
      /\ from \in 0 .. MAX_LEVELS - 1 /\ level \in 0 .. MAX_LEVELS
      /\ lives \in -128 .. 127
  BY <1>1 DEF Gained, Bonus, IInv, TypeOK
<1>4. CASE Win(key)
  <2>1. /\ score' \in Nat /\ level' = level + 1 /\ pellets' = Floor(level')
        /\ UNCHANGED <<lives, ghosts, from>> /\ show_password(level', lives)
    BY <1>3, <1>4 DEF Win
  <2>2. PICK seed \in Seeds : /\ shown' = print_password(level', lives % 256, seed)
                              /\ rng' = seed
    BY <2>1 DEF show_password
  <2>3. shown' \subseteq Cells
    <3>1. level' \in 0 .. MAX_LEVELS
      BY <1>1, <2>1
    <3>2. lives \in LivesRange
      BY <1>3 DEF LivesRange
    <3>3. GridFor(level', lives, seed) \subseteq Cells
      BY <3>1, <3>2, ShownIsRead
    <3> QED BY <2>2, <3>3 DEF GridFor
  <2>4. pc' = "shown"
    BY <2>1 DEF show_password
  <2>5. pellets' \subseteq Board /\ level' \in 0 .. MAX_LEVELS
    BY <1>1, <2>1, FloorsOnBoard
  <2>6. (level' < MAX_LEVELS) => (pellets' # {})
    <3>1. (level' < MAX_LEVELS) => level' \in 0 .. MAX_LEVELS - 1
      BY <1>1, <2>1, BoardsAssumption
    <3> QED BY <2>1, <3>1, StartOnFloor
  <2>7. ghosts' \in [Ghosts -> GhostOn(Board)]
    BY <1>1, <2>1, OnBoardToo
  <2>8. TypeOK'
    BY <1>2, <1>3, <2>1, <2>2, <2>3, <2>4, <2>5, <2>7 DEF TypeOK, GmanOn, GhostOn
  <2>9. OnFloor'
    BY <2>1, <2>4, <2>6 DEF OnFloor
  <2>10. ShowsState'
    BY <2>1, <2>2 DEF ShowsState
  <2> QED BY <2>8, <2>9, <2>10 DEF IInv
<1>5. ASSUME WalkInto(key) \/ Prowl(key)
      PROVE  /\ score' \in Nat /\ UNCHANGED <<level, from>>
             /\ pellets' \subseteq Floor(level) /\ pellets' # {} /\ pellets' \subseteq Board
             /\ ghosts' \in [Ghosts -> GhostOn(Floor(level))]
             /\ ghosts' \in [Ghosts -> GhostOn(Board)]
  <2>1. /\ score' \in Nat /\ UNCHANGED <<level, from>>
        /\ pellets' = pellets \ {gman'.at} /\ pellets # {gman'.at}
        /\ (ghosts' = ghosts) \/ (ghosts' \in tick_ghosts)
    BY <1>3, <1>5 DEF WalkInto, Prowl, EatenAt, Wins
  <2>2. pellets' \subseteq Floor(level) /\ pellets' # {}
    BY <1>1, <2>1
  <2>3. pellets' \subseteq Board
    BY <1>1, <2>2, FloorsOnBoard
  <2>4. ghosts' \in [Ghosts -> GhostOn(Floor(level))]
    BY <1>1, <2>1, GhostsMove
  <2>5. ghosts' \in [Ghosts -> GhostOn(Board)]
    BY <1>1, <2>4, OnBoardToo
  <2> QED BY <2>1, <2>2, <2>3, <2>4, <2>5
<1>6. ASSUME WalkInto(key) \/ Prowl(key), Die
      PROVE  IInv'
  <2>1. /\ pc' \in {"shown", "over"} /\ lives' \in -128 .. 127
        /\ rng' \in Seeds \cup {Drawn} /\ shown' \subseteq Cells /\ ShowsState'
    BY <1>5, <1>6, DyingShows DEF IInv
  <2>2. TypeOK'
    BY <1>2, <1>3, <1>5, <1>6, <2>1 DEF TypeOK, GmanOn, GhostOn
  <2>3. OnFloor'
    BY <1>5, <1>6, <2>1 DEF OnFloor
  <2> QED BY <2>1, <2>2, <2>3 DEF IInv
<1>7. ASSUME Prowl(key), rng' = Drawn, UNCHANGED <<pc, lives, shown>>
      PROVE  IInv'
  <2>1. shown \subseteq Cells
    BY DEF IInv, TypeOK
  <2>2. TypeOK'
    BY <1>1, <1>2, <1>3, <1>5, <1>7, <2>1 DEF TypeOK, GmanOn, GhostOn
  <2>3. /\ level' = level /\ pellets' \subseteq Floor(level) /\ pellets' # {}
        /\ ghosts' \in [Ghosts -> GhostOn(Floor(level))] /\ level < MAX_LEVELS
    BY <1>1, <1>5, <1>7 DEF IInv, OnFloor
  <2>4. OnFloor'
    BY <1>2, <2>3 DEF OnFloor
  <2>5. ShowsState'
    BY <1>1, <1>7 DEF ShowsState
  <2> QED BY <2>2, <2>4, <2>5 DEF IInv
<1>8. CASE WalkInto(key)
  BY <1>6, <1>8 DEF WalkInto
<1>9. CASE Prowl(key)
  BY <1>6, <1>7, <1>9 DEF Prowl
<1> QED BY <1>4, <1>8, <1>9

LEMMA ContinueIInv == IInv /\ Continue => IInv'
PROOF
<1> SUFFICES ASSUME IInv, Continue PROVE IInv'
  OBVIOUS
<1>1. PICK a \in 0 .. MAX_LEVELS - 1, b \in LivesBytes, c \in Seeds :
         LET r == Restored(validate_password(print_password(a, b, c)))
         IN  /\ level' = r.level /\ lives' = r.lives /\ rng' = r.rng
             /\ score' = IF r.level > 0 THEN RestoredScore(r.level) ELSE 0
             /\ pellets' = Floor(r.level)
             /\ from' = r.level
  BY DEF Continue, Passwords, get_password
<1>2. a \in Byte /\ b \in Byte /\ b \in Int /\ c \in Byte /\ a \in Nat
  BY BoardsAssumption, BytesAssumption DEF Byte
<1>3. Restored(validate_password(print_password(a, b, c))) = [level |-> a, lives |-> Int8(b), rng |-> c]
  BY <1>2, PasswordRoundTrip DEF Restored
<1>4. /\ level' = a /\ lives' = Int8(b) /\ rng' = c /\ from' = a /\ pellets' = Floor(a)
      /\ score' = IF a > 0 THEN RestoredScore(a) ELSE 0
  BY <1>1, <1>3
<1>5. score' \in Nat
  <2>1. a * (a + 1) \in Nat
    BY <1>2
  <2>2. RestoredScore(a) \in Nat
    BY <2>1 DEF RestoredScore
  <2> QED BY <1>4, <2>2
<1>6. /\ pc' = "play" /\ shown' = shown
      /\ gman' \in GmanOn(Floor(a)) /\ ghosts' \in [Ghosts -> GhostOn(Floor(a))]
      /\ Floor(a) # {}
  BY StartOnFloor DEF Continue, get_password, reset
<1>7. /\ gman' \in GmanOn(Board) /\ ghosts' \in [Ghosts -> GhostOn(Board)]
      /\ Floor(a) \subseteq Board
  BY <1>2, <1>6, OnBoardToo, FloorsOnBoard
<1>8. lives' \in -128 .. 127 /\ level' \in 0 .. MAX_LEVELS /\ level' < MAX_LEVELS
  BY <1>2, <1>4, Int8Type, BoardsAssumption
<1>9. TypeOK'
  BY <1>4, <1>5, <1>6, <1>7, <1>8 DEF TypeOK, IInv, GmanOn, GhostOn
<1>10. OnFloor'
  BY <1>4, <1>6, <1>8 DEF OnFloor
<1>11. ShowsState'
  BY <1>6 DEF ShowsState
<1> QED BY <1>9, <1>10, <1>11 DEF IInv

LEMMA ReturnIInv == IInv /\ Return => IInv'
PROOF
<1> SUFFICES ASSUME IInv, Return PROVE IInv'
  OBVIOUS
<1>1. level \in 0 .. MAX_LEVELS - 1 /\ level \in Nat /\ level < MAX_LEVELS
  BY BoardsAssumption DEF IInv, TypeOK, Return
<1>2. /\ pc' = "play" /\ shown' = {} /\ UNCHANGED <<level, lives, score, pellets, rng, from>>
      /\ gman' \in GmanOn(Floor(level)) /\ ghosts' \in [Ghosts -> GhostOn(Floor(level))]
  BY <1>1, StartOnFloor DEF Return, reset
<1>3. gman' \in GmanOn(Board) /\ ghosts' \in [Ghosts -> GhostOn(Board)]
  BY <1>1, <1>2, OnBoardToo
<1>4. TypeOK'
  BY <1>2, <1>3 DEF IInv, TypeOK, GmanOn, GhostOn
<1>5. OnFloor'
  BY <1>1, <1>2 DEF IInv, OnFloor
<1>6. ShowsState'
  BY <1>2 DEF ShowsState
<1> QED BY <1>4, <1>5, <1>6 DEF IInv

LEMMA NextIInv == IInv /\ [Next]_vars => IInv'
PROOF
<1> SUFFICES ASSUME IInv, [Next]_vars PROVE IInv'
  OBVIOUS
<1>1. CASE NewGame
  BY <1>1 DEF NewGame, IInv, TypeOK, OnFloor, ShowsState
<1>2. CASE Continue
  BY <1>2, ContinueIInv
<1>3. ASSUME NEW key \in Keys, Win(key) \/ WalkInto(key) \/ Prowl(key)
      PROVE  IInv'
  BY <1>3, TurnIInv
<1>4. CASE Quit
  BY <1>4 DEF Quit, IInv, TypeOK, OnFloor, ShowsState
<1>5. CASE Return
  BY <1>5, ReturnIInv
<1>6. CASE UNCHANGED vars
  BY <1>6 DEF vars, IInv, TypeOK, OnFloor, ShowsState
<1> QED BY <1>1, <1>2, <1>3, <1>4, <1>5, <1>6 DEF Next

-----------------------------------------------------------------------------

\* Levels, lives, seeds and positions keep to the ranges of their C types.
THEOREM GameTypeCorrect == Spec => []TypeOK
PROOF
<1>1. IInv => TypeOK
  BY DEF IInv
<1> QED BY <1>1, InitIInv, NextIInv, PTL DEF Spec

\* Nobody is ever in a wall, on any board whose tunnels meet.
THEOREM EveryoneOnFloor == Spec => []StaysOnFloor
PROOF
<1>1. IInv => StaysOnFloor
  BY DEF IInv, OnFloor, StaysOnFloor, GmanOn, GhostOn
<1> QED BY <1>1, InitIInv, NextIInv, PTL DEF Spec

\* Every password that is shown restores the game it was shown in.
THEOREM PasswordAlwaysReturns == Spec => []PasswordReturnsHere
PROOF
<1>1. IInv => PasswordReturnsHere
  <2> SUFFICES ASSUME IInv, pc = "shown"
               PROVE  /\ Valid(shown)
                      /\ Restored(validate_password(shown)) =
                           [level |-> level, lives |-> lives, rng |-> rng]
    BY DEF PasswordReturnsHere
  <2>1. PICK seed \in Seeds : rng = seed /\ shown = print_password(level, lives % 256, seed)
    BY DEF IInv, ShowsState
  <2>2. level \in 0 .. MAX_LEVELS /\ lives \in LivesRange
    BY DEF IInv, TypeOK, LivesRange
  <2>3. shown = GridFor(level, lives, seed)
    BY <2>1 DEF GridFor
  <2>4. /\ Valid(GridFor(level, lives, seed))
        /\ Restored(validate_password(GridFor(level, lives, seed))) = Game(level, lives, seed)
    BY <2>2, ShownIsRead
  <2> QED BY <2>1, <2>3, <2>4 DEF Game
<1> QED BY <1>1, InitIInv, NextIInv, PTL DEF Spec

\* No turn takes gman through a ghost: the two looks of tick() are enough.
THEOREM NobodyJumps == Spec => NoJump
PROOF
<1>1. [Next]_vars => [(pc = "play" /\ pc' = "play") =>
         \A g \in Ghosts : gman'.at # ghosts[g].at /\ gman'.at # ghosts'[g].at]_vars
  <2> SUFFICES ASSUME Next, pc = "play", pc' = "play", NEW g \in Ghosts
               PROVE  gman'.at # ghosts[g].at /\ gman'.at # ghosts'[g].at
    BY Zenon
  <2>1. PICK key \in Keys : Win(key) \/ WalkInto(key) \/ Prowl(key)
    BY DEF Next, NewGame, Continue, get_password, Quit, Return
  <2>2. ~Die
    BY DEF Die, show_password
  <2>3. Prowl(key)
    BY <2>1, <2>2 DEF Win, WalkInto, show_password
  <2> QED BY <2>2, <2>3 DEF Prowl, WalkedInto, Met
<1> QED BY <1>1, PTL DEF Spec, NoJump

-----------------------------------------------------------------------------
(***************************************************************************)
(* The score.                                                              *)
(***************************************************************************)

\* The cells of the boards from f on that are left behind at level l, and the
\* cells of a board that are not among the pellets.
Behind(f, l) == {e \in (f .. l - 1) \X Board : e[2] \in Floor(e[1])}

Eaten(l, left) == Floor(l) \ left

\* The score of so many levels and so many pellets.
Earned(l, n) == 5000 * l * (l + 1) + 100 * n

Counted ==
  /\ from \in 0 .. level
  /\ IsFiniteSet(Behind(from, level)) /\ IsFiniteSet(Eaten(level, pellets))
  /\ score = Earned(level, Cardinality(Behind(from, level)) + Cardinality(Eaten(level, pellets)))

\* Leaving one board behind adds its cells.
LEMMA OneMoreBoard ==
  \A f \in Nat, l \in 0 .. MAX_LEVELS - 1 :
     (f <= l /\ IsFiniteSet(Behind(f, l)))
       => /\ IsFiniteSet(Behind(f, l + 1))
          /\ Cardinality(Behind(f, l + 1)) = Cardinality(Behind(f, l)) + Cardinality(Floor(l))
PROOF
<1> SUFFICES ASSUME NEW f \in Nat, NEW l \in 0 .. MAX_LEVELS - 1,
                    f <= l, IsFiniteSet(Behind(f, l))
             PROVE  /\ IsFiniteSet(Behind(f, l + 1))
                    /\ Cardinality(Behind(f, l + 1))
                         = Cardinality(Behind(f, l)) + Cardinality(Floor(l))
  OBVIOUS
<1> DEFINE Last == {l} \X Floor(l)
<1>1. l \in Nat /\ IsFiniteSet(Floor(l)) /\ Floor(l) \subseteq Board
  BY BoardsAssumption, FloorsOnBoard
<1>2. IsFiniteSet({l}) /\ Cardinality({l}) = 1
  BY FS_Singleton
<1>3. IsFiniteSet(Last) /\ Cardinality(Last) = Cardinality({l}) * Cardinality(Floor(l))
  BY <1>1, <1>2, FS_Product
<1>4. Cardinality(Floor(l)) \in Nat
  BY <1>1, FS_CardinalityType
<1>5. Cardinality(Last) = Cardinality(Floor(l))
  BY <1>2, <1>3, <1>4
<1>6. Behind(f, l + 1) = Behind(f, l) \cup Last
  <2>1. \A k : k \in f .. (l + 1) - 1 <=> (k \in f .. l - 1 \/ k = l)
    BY <1>1
  <2> QED BY <1>1, <2>1 DEF Behind
<1>7. Behind(f, l) \cap Last = {}
  <2>1. l \notin f .. l - 1
    BY <1>1
  <2> QED BY <2>1 DEF Behind
<1> HIDE DEF Last
<1>8. /\ IsFiniteSet(Behind(f, l) \cup Last)
      /\ Cardinality(Behind(f, l) \cup Last)
           = Cardinality(Behind(f, l)) + Cardinality(Last) - Cardinality(Behind(f, l) \cap Last)
  BY <1>3, FS_Union
<1>9. Cardinality(Behind(f, l) \cap Last) = 0 /\ Cardinality(Behind(f, l)) \in Nat
  BY <1>7, FS_EmptySet, FS_CardinalityType
<1>10. Cardinality(Behind(f, l) \cup Last) = Cardinality(Behind(f, l)) + Cardinality(Floor(l))
  BY <1>4, <1>5, <1>8, <1>9
<1> QED BY <1>6, <1>8, <1>10, Zenon

\* Coming to a pellet adds one cell to those that are eaten, or none.
LEMMA OneMorePellet ==
  ASSUME level \in 0 .. MAX_LEVELS - 1, Counted, NEW at \in Floor(level)
  PROVE  /\ IsFiniteSet(Eaten(level, EatenAt(at)))
         /\ Cardinality(Eaten(level, EatenAt(at))) \in Nat
         /\ 100 * Cardinality(Eaten(level, EatenAt(at)))
              = 100 * Cardinality(Eaten(level, pellets)) + Gained(at)
PROOF
<1>1. Eaten(level, EatenAt(at)) = Eaten(level, pellets) \cup {at}
  BY DEF Eaten, EatenAt
<1>2. at \in Eaten(level, pellets) <=> at \notin pellets
  BY DEF Eaten
<1>3. IsFiniteSet(Eaten(level, pellets)) /\ Cardinality(Eaten(level, pellets)) \in Nat
  BY FS_CardinalityType DEF Counted
<1>4. /\ IsFiniteSet(Eaten(level, pellets) \cup {at})
      /\ Cardinality(Eaten(level, pellets) \cup {at})
           = IF at \in Eaten(level, pellets) THEN Cardinality(Eaten(level, pellets))
             ELSE Cardinality(Eaten(level, pellets)) + 1
  BY <1>3, FS_AddElement
<1> QED BY <1>1, <1>2, <1>3, <1>4 DEF Gained

LEMMA NothingYet ==
  \A l \in Nat : /\ Behind(l, l) = {} /\ Eaten(l, Floor(l)) = {}
                 /\ IsFiniteSet({}) /\ Cardinality({}) = 0
PROOF
<1> TAKE l \in Nat
<1>1. l .. l - 1 = {}
  OBVIOUS
<1>2. Behind(l, l) = {}
  BY <1>1 DEF Behind
<1> QED BY <1>2, FS_EmptySet DEF Eaten

LEMMA InitCounted == Init => Counted
PROOF
<1> SUFFICES ASSUME Init PROVE Counted
  OBVIOUS
<1>1. from = 0 /\ level = 0 /\ pellets = Floor(0) /\ score = 0 /\ 0 \in Nat
  BY DEF Init
<1>2. Earned(0, 0 + 0) = 0
  BY DEF Earned
<1> QED BY <1>1, <1>2, NothingYet DEF Counted

\* The levels that a password skips count as played without a pellet.
LEMMA ContinueCounted == Continue => Counted'
PROOF
<1> SUFFICES ASSUME Continue PROVE Counted'
  OBVIOUS
<1>1. PICK a \in 0 .. MAX_LEVELS - 1, b \in LivesBytes, c \in Seeds :
         LET r == Restored(validate_password(print_password(a, b, c)))
         IN  /\ level' = r.level /\ from' = r.level /\ pellets' = Floor(r.level)
             /\ score' = IF r.level > 0 THEN RestoredScore(r.level) ELSE 0
  BY DEF Continue, Passwords, get_password
<1>2. a \in Byte /\ b \in Byte /\ c \in Byte /\ a \in Nat
  BY BoardsAssumption, BytesAssumption DEF Byte
<1>3. Restored(validate_password(print_password(a, b, c))) = [level |-> a, lives |-> Int8(b), rng |-> c]
  BY <1>2, PasswordRoundTrip DEF Restored
<1>4. /\ level' = a /\ from' = a /\ pellets' = Floor(a)
      /\ score' = IF a > 0 THEN RestoredScore(a) ELSE 0
  BY <1>1, <1>3
<1>5. RestoredScore(a) = 5000 * (a * (a + 1))
  <2>1. a * (a + 1) \in Nat
    BY <1>2
  <2> QED BY <2>1 DEF RestoredScore
<1>6. score' = Earned(a, 0 + 0)
  BY <1>2, <1>4, <1>5 DEF Earned
<1>7. a \in 0 .. a /\ Cardinality(Behind(a, a)) = 0 /\ Cardinality(Eaten(a, Floor(a))) = 0
  BY <1>2, NothingYet
<1>8. IsFiniteSet(Behind(a, a)) /\ IsFiniteSet(Eaten(a, Floor(a)))
  BY <1>2, NothingYet
<1> QED BY <1>4, <1>6, <1>7, <1>8, Zenon DEF Counted

LEMMA TurnCounted ==
  ASSUME IInv, Counted, NEW key \in Keys, Win(key) \/ WalkInto(key) \/ Prowl(key)
  PROVE  Counted'
PROOF
<1> DEFINE at == gman'.at
           b == Cardinality(Behind(from, level))
           e == Cardinality(Eaten(level, pellets))
<1>1. /\ level \in 0 .. MAX_LEVELS - 1 /\ level \in Nat /\ from \in Nat /\ from <= level
      /\ gman \in GmanOn(Floor(level))
  BY BoardsAssumption DEF IInv, TypeOK, OnFloor, Counted, Win, WalkInto, Prowl, Playing
<1>2. at \in Floor(level)
  <2>1. gman' \in GmanOn(Floor(level))
    BY <1>1, GmanMoves DEF Win, WalkInto, Prowl
  <2> QED BY <2>1 DEF GmanOn
<1>3. b \in Nat /\ e \in Nat
  BY FS_CardinalityType DEF Counted
<1>4. score = Earned(level, b + e) /\ IsFiniteSet(Behind(from, level))
  BY DEF Counted
<1> HIDE DEF at, b
<1>5. /\ IsFiniteSet(Eaten(level, EatenAt(at)))
      /\ Cardinality(Eaten(level, EatenAt(at))) \in Nat
      /\ 100 * Cardinality(Eaten(level, EatenAt(at))) = 100 * e + Gained(at)
  BY <1>1, <1>2, OneMorePellet
<1>6. CASE WalkInto(key) \/ Prowl(key)
  <2>1. /\ UNCHANGED <<level, from>> /\ pellets' = EatenAt(at) /\ score' = score + Gained(at)
    BY <1>6 DEF WalkInto, Prowl, at
  <2> DEFINE n == Cardinality(Eaten(level, EatenAt(at)))
  <2>2. 5000 * level * (level + 1) \in Nat /\ Gained(at) \in Nat
    BY <1>1 DEF Gained
  <2> HIDE DEF n, e
  <2>3. score' = Earned(level, b + n)
    BY <1>3, <1>4, <1>5, <2>1, <2>2 DEF Earned, n
  <2> QED BY <1>1, <1>4, <1>5, <2>1, <2>3 DEF Counted, b, n
<1>7. CASE Win(key)
  <2>1. /\ level' = level + 1 /\ UNCHANGED from /\ pellets' = Floor(level')
        /\ score' = score + Gained(at) + Bonus(level) /\ pellets = {at}
    BY <1>7 DEF Win, Wins, at
  <2>2. Eaten(level, EatenAt(at)) = Floor(level)
    BY <2>1 DEF Eaten, EatenAt
  <2> DEFINE n == Cardinality(Floor(level))
  <2>3. /\ IsFiniteSet(Behind(from, level + 1))
        /\ Cardinality(Behind(from, level + 1)) = b + n
    BY <1>1, <1>4, OneMoreBoard DEF b
  <2>4. n \in Nat /\ 100 * n = 100 * e + Gained(at)
    BY <1>5, <2>2
  <2>5. IsFiniteSet(Eaten(level', pellets')) /\ Cardinality(Eaten(level', pellets')) = 0
    BY <1>1, <2>1, NothingYet
  <2> HIDE DEF n, e
  <2>6. 5000 * (level + 1) * ((level + 1) + 1) = 5000 * level * (level + 1) + (level + 1) * 10000
    BY <1>1
  <2>7. score' = Earned(level + 1, (b + n) + 0)
    <3>1. 5000 * level * (level + 1) \in Nat /\ Gained(at) \in Nat /\ Bonus(level) \in Nat
      BY <1>1 DEF Gained, Bonus
    <3> QED BY <1>1, <1>3, <1>4, <2>1, <2>4, <2>6, <3>1 DEF Earned, Bonus
  <2>8. from' \in 0 .. level'
    BY <1>1, <2>1
  <2> QED BY <2>1, <2>3, <2>5, <2>7, <2>8, Zenon DEF Counted
<1> QED BY <1>6, <1>7

LEMMA NextCounted == IInv /\ Counted /\ [Next]_vars => Counted'
PROOF
<1> SUFFICES ASSUME IInv, Counted, [Next]_vars PROVE Counted'
  OBVIOUS
<1>1. CASE Continue
  BY <1>1, ContinueCounted
<1>2. ASSUME NEW key \in Keys, Win(key) \/ WalkInto(key) \/ Prowl(key)
      PROVE  Counted'
  BY <1>2, TurnCounted
<1>3. CASE UNCHANGED <<level, score, pellets, from>>
  BY <1>3 DEF Counted
<1> QED BY <1>1, <1>2, <1>3 DEF Next, NewGame, Quit, Return, vars

\* The score is the bonuses and the pellets, through deaths, wins and passwords.
THEOREM ScoreAlwaysEarned == Spec => []ScoreIsEarned
PROOF
<1>1. Counted => ScoreIsEarned
  BY DEF Counted, ScoreIsEarned, Earned, Behind, Eaten
<1>2. IInv /\ Counted /\ [Next]_vars => (IInv /\ Counted)'
  BY NextIInv, NextCounted
<1>3. Init => IInv /\ Counted
  BY InitIInv, InitCounted
<1> QED BY <1>1, <1>2, <1>3, PTL DEF Spec

-----------------------------------------------------------------------------
(***************************************************************************)
(* The password screens.                                                   *)
(***************************************************************************)

\* A byte is a byte, whatever the bits.
LEMMA ByteAtType ==
  \A pass, lo : ByteAt(pass, lo) \in Byte
PROOF
<1> TAKE pass, lo
<1> DEFINE bit(k) == IF (lo + k \in pass) # Masked(lo + k) THEN Weight[k + 1] ELSE 0
<1>1. /\ Weight[1] = 1 /\ Weight[2] = 2 /\ Weight[3] = 4 /\ Weight[4] = 8
      /\ Weight[5] = 16 /\ Weight[6] = 32 /\ Weight[7] = 64 /\ Weight[8] = 128
  BY DEF Weight
<1>2. /\ bit(0) \in {0, 1} /\ bit(1) \in {0, 2} /\ bit(2) \in {0, 4} /\ bit(3) \in {0, 8}
      /\ bit(4) \in {0, 16} /\ bit(5) \in {0, 32} /\ bit(6) \in {0, 64} /\ bit(7) \in {0, 128}
  BY <1>1
<1> HIDE DEF bit
<1>3. bit(0) + bit(1) + bit(2) + bit(3) + bit(4) + bit(5) + bit(6) + bit(7) \in 0 .. 255
  BY <1>2
<1> QED BY <1>3 DEF ByteAt, Byte, bit

\* What the screens keep: the screen shows the password of the bytes, an error
\* is about the grid that is still there, and so is what was returned.
Kept ==
  /\ screen = print_password(code.a, code.b, code.c)
  /\ (stage = "wrong") => ~Valid(grid)
  /\ (result # NoResult) => /\ stage = "done"
                            /\ Valid(grid)
                            /\ result = validate_password(grid)

ScreensIInv == ScreensTypeOK /\ Kept

LEMMA CodesAreBytes ==
  ASSUME code \in Codes
  PROVE  /\ code.a \in Byte /\ code.b \in Byte /\ code.c \in Byte
         /\ code = [a |-> code.a, b |-> code.b, c |-> code.c]
PROOF BY CodesAssumption DEF Codes

LEMMA ScreensInitIInv == ScreensInit => ScreensIInv
PROOF
<1> SUFFICES ASSUME ScreensInit PROVE ScreensIInv
  OBVIOUS
<1>1. screen \subseteq Cells
  BY CodesAreBytes, PasswordRoundTrip DEF ScreensInit
<1>2. <<0, 0>> \in Cells
  BY DEF Cells
<1> QED BY <1>1, <1>2 DEF ScreensInit, ScreensIInv, ScreensTypeOK, Kept

LEMMA ScreensNextIInv == ScreensIInv /\ [ScreensNext]_screensVars => ScreensIInv'
PROOF
<1> SUFFICES ASSUME ScreensIInv, [ScreensNext]_screensVars PROVE ScreensIInv'
  OBVIOUS
<1> USE DEF ScreensIInv, ScreensTypeOK, Kept
<1>1. CASE CopyPassword
  BY <1>1 DEF CopyPassword
<1>2. CASE MoveCursor
  <2>1. cursor' \in Cells
    BY <1>2 DEF MoveCursor, Cells, Before, After
  <2> QED BY <1>2, <2>1 DEF MoveCursor
<1>3. CASE Toggle
  BY <1>3 DEF Toggle
<1>4. CASE Submit
  <2>1. CASE Valid(grid)
    <3>1. validate_password(grid) \in [a : Byte, b : Byte, c : Byte]
      BY ByteAtType DEF validate_password
    <3> QED BY <1>4, <2>1, <3>1 DEF Submit
  <2>2. CASE ~Valid(grid)
    BY <1>4, <2>2 DEF Submit
  <2> QED BY <2>1, <2>2
<1>5. CASE Dismiss
  BY <1>5 DEF Dismiss
<1>6. CASE Leave
  BY <1>6 DEF Leave
<1>7. CASE UNCHANGED screensVars
  BY <1>7 DEF screensVars
<1> QED BY <1>1, <1>2, <1>3, <1>4, <1>5, <1>6, <1>7 DEF ScreensNext

LEMMA ScreensMean == ScreensIInv => CopyIsTaken /\ SlipsAreCaught
PROOF
<1> SUFFICES ASSUME ScreensIInv PROVE CopyIsTaken /\ SlipsAreCaught
  OBVIOUS
<1> USE DEF ScreensIInv, ScreensTypeOK, Kept
<1>1. Valid(screen) /\ screen \subseteq Cells /\ validate_password(screen) = code
  BY CodesAreBytes, PasswordRoundTrip
<1>2. CopyIsTaken
  BY <1>1 DEF CopyIsTaken
<1>3. SlipsAreCaught
  BY <1>1, ValidGridsFarApart DEF SlipsAreCaught, Slips
<1> QED BY <1>2, <1>3

-----------------------------------------------------------------------------

\* The grid on the screen and the grid that is typed keep to the 49 cells, and
\* what read_password() returns is three bytes.
THEOREM ScreensTypeCorrect == ScreensSpec => []ScreensTypeOK
PROOF
<1>1. ScreensIInv => ScreensTypeOK
  BY DEF ScreensIInv
<1> QED BY <1>1, ScreensInitIInv, ScreensNextIInv, PTL DEF ScreensSpec

\* A password copied as printed is taken and brings its three bytes back.
THEOREM CopyAlwaysTaken == ScreensSpec => []CopyIsTaken
PROOF BY ScreensInitIInv, ScreensNextIInv, ScreensMean, PTL DEF ScreensSpec

\* A copy with one or two wrong cells is never taken.
THEOREM SlipsAlwaysCaught == ScreensSpec => []SlipsAreCaught
PROOF BY ScreensInitIInv, ScreensNextIInv, ScreensMean, PTL DEF ScreensSpec

-----------------------------------------------------------------------------
(***************************************************************************)
(* The whole program.                                                      *)
(***************************************************************************)

\* The copy that is being typed, and the one that was taken, has few wrong cells.
Typed ==
  stage \in {"editing", "wrong"} \/ result # NoResult => Cardinality(Slips) <= MaxSlips

ProgramIInv == ScreensIInv /\ Typed

LEMMA SetAsideIInv == ASSUME code \in Codes, SetAside PROVE ProgramIInv'
PROOF
<1>1. code' \in Codes
  BY Zenon DEF SetAside
<1>2. /\ code'.a \in Byte /\ code'.b \in Byte /\ code'.c \in Byte
      /\ screen' = print_password(code'.a, code'.b, code'.c)
  BY <1>1, CodesAssumption DEF Codes, SetAside
<1>3. screen' \subseteq Cells
  BY <1>2, PasswordRoundTrip
<1>4. /\ grid' = {} /\ cursor' = <<0, 0>> /\ stage' = "printed" /\ result' = NoResult
      /\ <<0, 0>> \in Cells
  BY DEF SetAside, Cells
<1>5. ScreensTypeOK'
  BY <1>1, <1>3, <1>4 DEF ScreensTypeOK
<1> QED BY <1>2, <1>4, <1>5 DEF ProgramIInv, ScreensIInv, Kept, Typed

\* What was taken with no more than two wrong cells is what was printed.
LEMMA TakenIsPrinted ==
  ASSUME ProgramIInv, MaxSlips <= 2, result # NoResult
  PROVE  result = code /\ Valid(screen) /\ validate_password(screen) = code
PROOF
<1>1. SlipsAreCaught /\ CopyIsTaken
  BY ScreensMean DEF ProgramIInv
<1>2. Valid(screen) /\ screen \subseteq Cells /\ validate_password(screen) = code
  BY CodesAreBytes, PasswordRoundTrip DEF ProgramIInv, ScreensIInv, ScreensTypeOK, Kept
<1>3. grid \subseteq Cells /\ IsFiniteSet(Slips)
  BY <1>2, CellsFinite, FS_Subset DEF ProgramIInv, ScreensIInv, ScreensTypeOK, Slips
<1>4. Cardinality(Slips) \in Nat /\ Cardinality(Slips) <= MaxSlips /\ MaxSlips \in Nat
  BY <1>3, FS_CardinalityType, CodesAssumption DEF ProgramIInv, Typed
<1>5. Slips = {}
  BY <1>1, <1>4 DEF SlipsAreCaught
<1>6. grid = screen
  BY <1>5 DEF Slips
<1> QED BY <1>1, <1>2, <1>6 DEF CopyIsTaken

\* The game of the program is the game.
LEMMA ProgramPlays ==
  ASSUME ProgramIInv, MaxSlips <= 2, [ProgramNext]_programVars
  PROVE  [Next]_vars
PROOF
<1>1. CASE TypePassword
  BY <1>1 DEF TypePassword
<1>2. CASE TryAgain
  BY <1>2 DEF TryAgain, vars
<1>3. CASE StartNew
  BY <1>3 DEF StartNew, Next
<1>4. CASE StartRestored
  <2>1. result = code /\ Valid(screen) /\ validate_password(screen) = code
    BY <1>4, TakenIsPrinted DEF StartRestored
  <2>2. /\ code.a \in 0 .. MAX_LEVELS - 1 /\ code.b \in LivesBytes /\ code.c \in Seeds
        /\ screen = print_password(code.a, code.b, code.c)
    BY ProgramAssumption DEF ProgramIInv, ScreensIInv, ScreensTypeOK, Kept, Codes
  <2>3. screen \in Passwords
    BY <2>2 DEF Passwords
  <2>4. pc = "menu" /\ get_password(validate_password(screen))
    BY <1>4, <2>1 DEF StartRestored
  <2>5. Continue
    BY <2>1, <2>3, <2>4, Zenon DEF Continue
  <2> QED BY <2>5 DEF Next
<1>5. CASE PlayOn
  BY <1>5 DEF PlayOn, Next
<1>6. CASE UNCHANGED programVars
  BY <1>6 DEF programVars
<1> QED BY <1>1, <1>2, <1>3, <1>4, <1>5, <1>6 DEF ProgramNext

LEMMA TypedNext == ScreensIInv /\ Typed /\ ScreensNext => Typed'
PROOF
<1> SUFFICES ASSUME ScreensIInv, Typed, ScreensNext PROVE Typed'
  OBVIOUS
<1> USE DEF Typed, Slips
<1>1. CASE CopyPassword
  <2>1. Slips' = {} /\ Cardinality({}) = 0 /\ MaxSlips \in Nat
    BY <1>1, FS_EmptySet, CodesAssumption DEF CopyPassword
  <2>2. Cardinality(Slips') <= MaxSlips
    BY <2>1
  <2> QED BY <2>2
<1>2. CASE MoveCursor \/ Dismiss
  <2>1. stage \in {"editing", "wrong"} /\ UNCHANGED <<screen, grid>>
    BY <1>2 DEF MoveCursor, Dismiss
  <2> QED BY <2>1
<1>3. CASE Toggle
  BY <1>3 DEF Toggle
<1>4. CASE Submit \/ Leave
  <2>1. stage = "editing" /\ UNCHANGED <<screen, grid>>
    BY <1>4 DEF Submit, Leave
  <2> QED BY <2>1
<1> QED BY <1>1, <1>2, <1>3, <1>4 DEF ScreensNext

LEMMA ProgramInitIInv == ProgramInit => ProgramIInv
PROOF BY ScreensInitIInv DEF ProgramInit, ProgramIInv, Typed, ScreensInit

LEMMA ProgramNextIInv == ProgramIInv /\ [ProgramNext]_programVars => ProgramIInv'
PROOF
<1> SUFFICES ASSUME ProgramIInv, [ProgramNext]_programVars PROVE ProgramIInv'
  OBVIOUS
<1>1. code \in Codes
  BY DEF ProgramIInv, ScreensIInv, ScreensTypeOK
<1>2. CASE TypePassword
  BY <1>2, ScreensNextIInv, TypedNext DEF TypePassword, ProgramIInv
<1>3. CASE TryAgain
  <2>1. <<0, 0>> \in Cells
    BY DEF Cells
  <2> QED BY <1>3, <2>1 DEF TryAgain, MenuShown, ProgramIInv, ScreensIInv, ScreensTypeOK, Kept, Typed
<1>4. CASE StartNew
  BY <1>1, <1>4, SetAsideIInv DEF StartNew
<1>5. CASE StartRestored
  BY <1>1, <1>5, SetAsideIInv DEF StartRestored
<1>6. CASE UNCHANGED screensVars
  <2>1. ScreensIInv'
    BY <1>6, ScreensNextIInv DEF ProgramIInv
  <2>2. Typed'
    BY <1>6 DEF ProgramIInv, Typed, Slips, screensVars
  <2> QED BY <2>1, <2>2 DEF ProgramIInv
<1>7. CASE PlayOn
  BY <1>6, <1>7 DEF PlayOn
<1>8. CASE UNCHANGED programVars
  BY <1>6, <1>8 DEF programVars
<1> QED BY <1>2, <1>3, <1>4, <1>5, <1>7, <1>8 DEF ProgramNext

\* The game that the menu, the password screen and the main loop make together is the
\* game of the theorems above: with no more than two wrong cells in the copy
\* the screen lets only those passwords through that some game has shown.
THEOREM ProgramIsGame == ASSUME MaxSlips <= 2 PROVE ProgramSpec => Spec
PROOF
<1>1. ProgramInit => Init
  BY DEF ProgramInit
<1>2. ProgramIInv /\ [ProgramNext]_programVars => [Next]_vars
  BY ProgramPlays
<1> QED BY <1>1, <1>2, ProgramInitIInv, ProgramNextIInv, PTL DEF ProgramSpec, Spec

\* What was proved of the password screens is true of them inside the program.
THEOREM ProgramScreens == ProgramSpec => [](ScreensTypeOK /\ CopyIsTaken /\ SlipsAreCaught)
PROOF
<1>1. ProgramIInv => ScreensTypeOK /\ CopyIsTaken /\ SlipsAreCaught
  BY ScreensMean DEF ProgramIInv, ScreensIInv
<1> QED BY <1>1, ProgramInitIInv, ProgramNextIInv, PTL DEF ProgramSpec

\* A game that goes on from the menu is the one its password was printed for, however
\* many times the player was refused, corrected a cell or left the screen.
THEOREM GoesOnRight == ASSUME MaxSlips <= 2 PROVE ProgramSpec => GoesOnAsPrinted
PROOF
<1>1. ProgramIInv /\ [ProgramNext]_programVars =>
        [pc = "menu" /\ pc' = "play" /\ result # NoResult =>
           level' = code.a /\ lives' = Int8(code.b) /\ rng' = code.c]_programVars
  <2> SUFFICES ASSUME ProgramIInv, ProgramNext,
                      pc = "menu", pc' = "play", result # NoResult
               PROVE  level' = code.a /\ lives' = Int8(code.b) /\ rng' = code.c
    BY Zenon
  <2>1. StartRestored
    BY DEF ProgramNext, TypePassword, TryAgain, StartNew, MenuShown, PlayOn, vars,
           Win, WalkInto, Prowl, Playing, Quit, Return
  <2>2. result = code
    BY TakenIsPrinted
  <2> QED BY <2>1, <2>2 DEF StartRestored, get_password, Restored
<1> QED BY <1>1, ProgramInitIInv, ProgramNextIInv, PTL DEF ProgramSpec, GoesOnAsPrinted

============================================================================
