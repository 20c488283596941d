----------------------------- MODULE MCHub75Life -----------------------------
(* A panel of 4 x 4 with two screens a frame.                                 *)
EXTENDS Hub75Life

MCHeld == {<<0, 1>>, <<3, 1>>, <<3, 2>>, <<2, 0>>}
==============================================================================
