----------------------------- MODULE GmanBoards -----------------------------
(***************************************************************************)
(* The boards of gman as the source draws them (gman.c, BOARDS), and what  *)
(* the game relies on them for.                                            *)
(***************************************************************************)
EXTENDS Gman, TLC

BOARDS == <<
  << "1111111111111 1111111111111",
     "11          1 1          11",
     "11 1111 111 1 1 111 1111 11",
     "11                       11",
     "11 1111 11111 11111 1111 11",
     "11         11 11         11",
     "1111111 11       11 1111111",
     "1111111 11111 11111 1111111",
     "1111111 11111 11111 1111111",
     "                           ",
     "1111111 1111   1111 1111111",
     "1111111 11111 11111 1111111",
     "1111111 111     111 1111111",
     "11          111          11",
     "11 11 111 1111111 111 11 11",
     "11    11           11    11",
     "11111 11 111111111 11 11111",
     "                           ",
     "11 111 11111 1 11111 111 11",
     "11                       11",
     "1111111111111 1111111111111" >>,
  << "111111111111111111111111111",
     "11                       11",
     "11 11111111 111 11111111 11",
     "                           ",
     "11 1111 11111111111 1111 11",
     "11         11111         11",
     "1111111 11       11 1111111",
     "1111111 11111 11111 1111111",
     "1111111 11111 11111 1111111",
     "11                       11",
     "11 1111 1111   1111 1111 11",
     "11 1111 11111 11111 1111 11",
     "11 1111 111     111 1111 11",
     "11          111          11",
     "11 11 111 1111111 111 11 11",
     "      11           11      ",
     "11111 11 111111111 11 11111",
     "11                       11",
     "11 111 11111 1 11111 111 11",
     "11                       11",
     "111111111111111111111111111" >>,
  << "111111111111111111111111111",
     "                           ",
     "111111111 1 111 1 111111111",
     "11                       11",
     "11 1111 11111111111 1111 11",
     "11         11111         11",
     "11 1111 11       11 1111 11",
     "11 1111 11111 11111 1111 11",
     "11 1111 11111 11111 1111 11",
     "11                       11",
     "11 1111 1111   1111 1111 11",
     "11 1111 11111 11111 1111 11",
     "11 1111 111     111 1111 11",
     "11          111          11",
     "11 11 111 1111111 111 11 11",
     "11    11           11    11",
     "11111 11 111111111 11 11111",
     "                           ",
     "111111111111 1 111111111111",
     "                           ",
     "111111111111111111111111111" >>,
  << "111111111111111111111111111",
     "1                         1",
     "1 1 1 111 1 1 1 1 111 1 1 1",
     "1 1 1 111 1 1 1 1 111 1 1 1",
     "1 1 1 111 1 1 1 1 111 1 1 1",
     "1 1 1 111  11 11  111 1 1 1",
     "1   1   11       11   1   1",
     "1 11111 11111 11111 11111 1",
     "1 11111 11111 11111 11111 1",
     "1                         1",
     "1 1 111 1111   1111 111 1 1",
     "1 1 111 11111 11111 111 1 1",
     "1 1 111 111     111 111 1 1",
     "1 1         111         1 1",
     "1 111 111 1111111 111 111 1",
     "1 1                     1 1",
     "1 11111111111111111111111 1",
     "1                         1",
     "1 1111 11111 1 11111 1111 1",
     "1                         1",
     "111111111111111111111111111" >>
>>

\* initialize_boards(): a blank is open, and holds a pellet.
OpenCells(board) ==
  {<<x, y>> \in (0 .. 26) \X (0 .. 20) : SubSeq(board[y + 1], x + 1, x + 1) = " "}

GameFloors == [b \in 1 .. Len(BOARDS) |-> OpenCells(BOARDS[b])]

GameStart == <<11, 15>>

\* reset_ghosts() for ghosts i, which do not see one another.
GameGhost(i) == <<12 + (i % 2), 9 + (i \div 2)>>

AllGhosts == {GameGhost(i) : i \in 0 .. 3}

-----------------------------------------------------------------------------

\* The open cells beside a set of open cells, through the tunnels too.
Beside(floor, cells) ==
  floor \cap UNION {{<<(c[1] + 1) % 27, c[2]>>, <<(c[1] + 26) % 27, c[2]>>,
                     <<c[1], (c[2] + 1) % 21>>, <<c[1], (c[2] + 20) % 21>>} : c \in cells}

\* The cells within n moves of the start.
Within(floor) ==
  LET reach[n \in 0 .. 80] ==
        IF n = 0 THEN {GameStart}
        ELSE LET nearer == reach[n - 1] IN nearer \cup Beside(floor, nearer)
  IN  reach[80]

\* Tunnels meet, all four ghosts start on the floor, and every level can be
\* completed as far as the walls go: each pellet can be reached.
ASSUME BoardsCanBeWon ==
  \A b \in DOMAIN GameFloors :
     LET floor == GameFloors[b]
     IN  /\ \A x \in 0 .. 26 : <<x, 0>> \in floor <=> <<x, 20>> \in floor
         /\ \A y \in 0 .. 20 : <<0, y>> \in floor <=> <<26, y>> \in floor
         /\ AllGhosts \subseteq floor
         /\ Within(floor) = floor

=============================================================================
