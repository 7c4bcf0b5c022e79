---------------------------- MODULE GmanPassword ----------------------------
(***************************************************************************)
(* The password screens of gman (gman/challenge/src/password.c).           *)
(*                                                                         *)
(* print_password() draws the grid of three bytes; the player copies it,   *)
(* and later types it into read_password(), moving a cursor over the grid  *)
(* and toggling cells, until <enter> finds it valid or another key leaves. *)
(* The toggles that copy the grid commute and are one step here; what the  *)
(* model follows one key at a time is the editing that goes wrong.         *)
(* No name here is one of Gman's, so that a module may extend both.        *)
(***************************************************************************)
EXTENDS PasswordGrid

CONSTANTS
  CodeLevels, CodeLives, CodeSeeds,  \* the bytes that are printed
  MaxSlips               \* bound: cells of the copy that may be wrong at once

ASSUME CodesAssumption == /\ CodeLevels \subseteq Byte /\ CodeLives \subseteq Byte
                          /\ CodeSeeds \subseteq Byte
                          /\ MaxSlips \in Nat

VARIABLES
  code,    \* the bytes [a, b, c] that were printed
  screen,  \* the grid that was printed
  grid,    \* state[][] in read_password()
  cursor,  \* <<y, x>>
  stage,   \* "printed", "editing", "wrong" (the error is on screen), "done"
  result   \* the bytes read_password() returned, or NoResult

screensVars == <<code, screen, grid, cursor, stage, result>>

NoResult == [ok |-> FALSE]

Codes == [a : CodeLevels, b : CodeLives, c : CodeSeeds]

\* The cells in which the copy differs from what was printed.
Slips == (screen \ grid) \cup (grid \ screen)

-----------------------------------------------------------------------------

\* print_password() up to its getch().
ScreensInit ==
  /\ code \in Codes
  /\ screen = print_password(code.a, code.b, code.c)
  /\ grid = {}
  /\ cursor = <<0, 0>>
  /\ stage = "printed"
  /\ result = NoResult

\* The player opens read_password() and copies the grid, cell by cell; the
\* cursor may be anywhere when the copy is complete.
CopyPassword ==
  /\ stage = "printed"
  /\ stage' = "editing"
  /\ grid' = screen
  /\ cursor' \in Cells
  /\ UNCHANGED <<code, screen, result>>

Before(n) == IF n = 0 THEN 6 ELSE n - 1

After(n) == (n + 1) % 7

MoveCursor ==
  /\ stage = "editing"
  /\ cursor' \in {<<Before(cursor[1]), cursor[2]>>, <<After(cursor[1]), cursor[2]>>,
                  <<cursor[1], Before(cursor[2])>>, <<cursor[1], After(cursor[2])>>}
  /\ UNCHANGED <<code, screen, grid, stage, result>>

Toggle ==
  /\ stage = "editing"
  /\ grid' = IF cursor \in grid THEN grid \ {cursor} ELSE grid \cup {cursor}
  /\ UNCHANGED <<code, screen, cursor, stage, result>>
  /\ Cardinality(Slips') <= MaxSlips

Submit ==
  /\ stage = "editing"
  /\ IF Valid(grid)
     THEN /\ result' = validate_password(grid)
          /\ stage' = "done"
     ELSE /\ stage' = "wrong"
          /\ UNCHANGED result
  /\ UNCHANGED <<code, screen, grid, cursor>>

\* A key dismisses the error; the grid is kept.
Dismiss ==
  /\ stage = "wrong"
  /\ stage' = "editing"
  /\ UNCHANGED <<code, screen, grid, cursor, result>>

\* Any other key: read_password() returns 0.
Leave ==
  /\ stage = "editing"
  /\ stage' = "done"
  /\ UNCHANGED <<code, screen, grid, cursor, result>>

ScreensNext == CopyPassword \/ MoveCursor \/ Toggle \/ Submit \/ Dismiss \/ Leave

ScreensSpec == ScreensInit /\ [][ScreensNext]_screensVars

-----------------------------------------------------------------------------

\* The cursor stays on the grid, the typed grid is one, and what is returned
\* is three bytes (read_password(), validate_password()).
ScreensTypeOK ==
  /\ code \in Codes
  /\ screen \subseteq Cells
  /\ grid \subseteq Cells
  /\ cursor \in Cells
  /\ stage \in {"printed", "editing", "wrong", "done"}
  /\ result \in {NoResult} \cup [a : Byte, b : Byte, c : Byte]

\* A password that was copied as printed is taken, and it brings back exactly
\* the three bytes print_password() was given: it is never reported wrong.
CopyIsTaken ==
  /\ (stage = "wrong") => (grid # screen)
  /\ (result # NoResult) => ((grid = screen) => (result = code))

\* One or two wrong cells are always noticed, wherever they are: beside a
\* password that was printed there is no other valid grid (validate_password()
\* tests the symmetry and the checksum, and nothing else).
SlipsAreCaught ==
  (result # NoResult /\ Slips # {}) => (Cardinality(Slips) > 2)

=============================================================================
