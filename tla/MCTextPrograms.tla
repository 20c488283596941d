--------------------------- MODULE MCTextPrograms ----------------------------
(* A screen of 8 x 2 characters of 2 x 2 pixels.                              *)
EXTENDS TextPrograms

MCChar == {"none", "top", "bottom", "both", "S", "#", "0", "1", "2", "3", "4", "5", "6", "7", "8", "9"}
MCColorPair == {"black", "red", "white"} \X {"black", "red", "white"}
MCInitialColor == <<"white", "black">>
MCStatus == <<"S">>
MCBehind == {"#", "\n", "\r"}

\* Characters 0 to 3 are their halves, the others patterns.
MCGlyph(c, row, col) ==
  CASE c = "none" -> FALSE [] c = "both" -> TRUE
    [] c = "top" -> row = 0 [] c = "bottom" -> row = 1
    [] OTHER -> (row + col) % 2 = 0

MCHeld == {<<0, 1>>, <<7, 1>>, <<7, 2>>, <<3, 0>>, <<4, 3>>, <<4, 0>>}
Stripes(n) == [i \in 0 .. 31 |-> IF (i + i \div 8) % 3 = n THEN "red" ELSE IF i % 5 = 0 THEN "white" ELSE "black"]
MCPictures == <<Stripes(0), Stripes(1)>>
==============================================================================
