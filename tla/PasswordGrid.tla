---------------------------- MODULE PasswordGrid ----------------------------
(***************************************************************************)
(* The password of gman (gman/challenge/src/password.c): three bytes drawn *)
(* as a 7 x 7 grid of diamonds, with rotational symmetry and one checksum  *)
(* cell in the middle.                                                     *)
(*                                                                         *)
(* A cell is <<i, j>>, row i and column j as in the code's state[i][j]; a  *)
(* grid is the set of the cells that hold a diamond.                       *)
(***************************************************************************)
EXTENDS Integers, FiniteSets

Byte == 0 .. 255

Cells == (0 .. 6) \X (0 .. 6)

Centre == <<3, 3>>

Mirror(cell) == <<6 - cell[1], 6 - cell[2]>>

-----------------------------------------------------------------------------
(***************************************************************************)
(* The order in which both loops visit the cells.                          *)
(***************************************************************************)

\* As if the shorter rows began one row later.
Width_Off(i) == IF i > 3 THEN 6 - i ELSE 7 - i

\* How many cells of row i the inner loop visits.
Width(i) == IF i > 2 THEN 6 - i ELSE 7 - i

\* How many cells the loop has visited when it comes to row i.
Above[i \in 0 .. 6] == IF i = 0 THEN 0 ELSE Above[i - 1] + Width(i - 1)

Half == {cell \in Cells : cell[2] < Width(cell[1])}

\* The bit of the passcode that a visited cell stands for: bit 23 comes first.
BitOf(cell) == 23 - (Above[cell[1]] + cell[2])

-----------------------------------------------------------------------------
(***************************************************************************)
(* Bytes and bits.  A passcode is the set of its bits that are 1.          *)
(***************************************************************************)

Weight == <<1, 2, 4, 8, 16, 32, 64, 128>>

BitSet(n, k) == (n \div Weight[k + 1]) % 2 = 1

\* 0x555555, the mask of print_password() and validate_password().
Masked(k) == k % 2 = 0

\* (a << 16 | b << 8 | c) ^ 0x555555
Passcode(a, b, c) ==
  LET byte(k) == IF k >= 16 THEN a ELSE IF k >= 8 THEN b ELSE c
  IN  {k \in 0 .. 23 : BitSet(byte(k), k % 8) # Masked(k)}

\* The byte that starts at bit lo of a passcode, once it is unmasked.
ByteAt(passcode, lo) ==
  LET bit(k) == IF (lo + k \in passcode) # Masked(lo + k) THEN Weight[k + 1] ELSE 0
  IN  bit(0) + bit(1) + bit(2) + bit(3) + bit(4) + bit(5) + bit(6) + bit(7)

\* checksum, which starts at 1: is a diamond due in the middle when n of the
\* visited cells hold one?
Checksum(n) == n % 2 = 0

-----------------------------------------------------------------------------
(***************************************************************************)
(* print_password(a, b, c) and validate_password(state, a, b, c).          *)
(***************************************************************************)

Grid(passcode) ==
  LET drawn == {cell \in Half : BitOf(cell) \in passcode}
  IN  drawn \cup {Mirror(cell) : cell \in drawn}
            \cup IF Checksum(Cardinality(drawn)) THEN {Centre} ELSE {}

print_password(a, b, c) == Grid(Passcode(a, b, c))

Symmetric(grid) == \A cell \in Half : cell \in grid <=> Mirror(cell) \in grid

\* As if only the checksum were tested.
Valid_AnySymmetry(grid) ==
  Centre \in grid <=> Checksum(Cardinality(grid \cap Half))

Valid(grid) ==
  /\ Symmetric(grid)
  /\ Centre \in grid <=> Checksum(Cardinality(grid \cap Half))

\* The bytes a valid grid gives back.
validate_password(grid) ==
  LET passcode == {BitOf(cell) : cell \in grid \cap Half}
  IN  [a |-> ByteAt(passcode, 16), b |-> ByteAt(passcode, 8), c |-> ByteAt(passcode, 0)]

=============================================================================
