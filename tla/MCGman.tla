------------------------------- MODULE MCGman -------------------------------
EXTENDS GmanBoards, GmanProgram

\* Two boards of 4 x 3: a tunnel from left to right with a branch, and a tunnel
\* from top to bottom with one.
MCFloors == << {<<0, 1>>, <<1, 1>>, <<2, 1>>, <<3, 1>>, <<1, 2>>, <<1, 0>>},
               {<<1, 0>>, <<1, 1>>, <<1, 2>>, <<2, 1>>} >>
MCStart == <<1, 1>>
MCGhostStart == (0 :> <<2, 1>>) @@ (1 :> <<1, 2>>)
=============================================================================
