---------------------------- MODULE MCBootloader -----------------------------
(* Sectors of 5 bytes behind a header of 2 fields of 2: images below, at and  *)
(* above one sector, an empty one, the largest that is accepted and the one   *)
(* that fills the flash behind the header, and one that is too large.         *)
EXTENDS Bootloader

Bytes(n) == [i \in 1 .. n |-> (i * 37) % 256]
MCImages == {Bytes(n) : n \in {0, 1, 5, 6, 9, 10, 11}}
==============================================================================
