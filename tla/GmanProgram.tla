---------------------------- MODULE GmanProgram ----------------------------
(***************************************************************************)
(* The whole of gman, one process: the menu, from which the player opens   *)
(* the password screen (GmanPassword) or begins a game (Gman), and the     *)
(* game that goes on from what the screen returned.                        *)
(*                                                                         *)
(* The password that is typed is one of an earlier process.  What          *)
(* read_password() keeps is gone once it has returned; its variables are   *)
(* then set aside, all to one value.                                       *)
(***************************************************************************)
EXTENDS Gman, GmanPassword

ASSUME ProgramAssumption ==
  /\ CodeLevels \subseteq 0 .. MAX_LEVELS - 1
  /\ CodeLives \subseteq LivesBytes /\ CodeSeeds \subseteq Seeds

programVars == <<vars, screensVars>>

ProgramInit == Init /\ ScreensInit

\* The editor's variables, of no more use.
SetAside ==
  /\ code' = CHOOSE c \in Codes : TRUE
  /\ screen' = print_password(code'.a, code'.b, code'.c)
  /\ grid' = {} /\ cursor' = <<0, 0>> /\ stage' = "printed" /\ result' = NoResult

\* The editor is not open.
MenuShown == pc = "menu" /\ stage \in {"printed", "done"} /\ result = NoResult

\* '2': read_password() runs inside the menu.
TypePassword ==
  /\ pc = "menu"
  /\ ScreensNext
  /\ UNCHANGED vars

\* '2' once more, after read_password() returned 0: it begins with an empty grid.
TryAgain ==
  /\ MenuShown /\ stage = "done"
  /\ stage' = "printed" /\ grid' = {} /\ cursor' = <<0, 0>>
  /\ UNCHANGED <<vars, code, screen, result>>

\* '1'
StartNew == MenuShown /\ NewGame /\ SetAside

\* get_password() after read_password() returned 1.
StartRestored ==
  /\ pc = "menu" /\ result # NoResult
  /\ get_password(result)
  /\ SetAside

\* The main loop, which leaves read_password() alone.
PlayOn ==
  /\ \/ \E key \in Keys : Win(key) \/ WalkInto(key) \/ Prowl(key)
     \/ Quit
     \/ Return
  /\ UNCHANGED screensVars

ProgramNext == TypePassword \/ TryAgain \/ StartNew \/ StartRestored \/ PlayOn

ProgramSpec == ProgramInit /\ [][ProgramNext]_programVars
-----------------------------------------------------------------------------

\* "Password to return here": a game that goes on from the menu is the one that the
\* password was printed for, however the player got there: over wrong cells that
\* were refused and corrected, or after leaving the screen and coming back. It
\* takes the editor, the codec and get_password() together.
GoesOnAsPrinted ==
  [][pc = "menu" /\ pc' = "play" /\ result # NoResult =>
       level' = code.a /\ lives' = Int8(code.b) /\ rng' = code.c]_programVars

=============================================================================
