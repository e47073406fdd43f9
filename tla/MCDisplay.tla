------------------------------ MODULE MCDisplay ------------------------------
(***************************************************************************)
(* A screen of 3 x 2 pixels in rows of 4, words of five bits.  Coordinates *)
(* and sizes on the screen, at its edges and off it, on both sides of the  *)
(* largest int (15) and up to the largest word, so that lines are drawn    *)
(* between ends that int orders otherwise than the words, and too far      *)
(* apart.  One frame buffer, none, and a null pointer among two.           *)
(***************************************************************************)
EXTENDS Display

FrameBuffers == {<<>>, <<TRUE>>, <<FALSE, TRUE>>}
Lengths == {0, 1, 2, 5, 16, 28, 31}

=============================================================================
