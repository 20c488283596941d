--------------------------- MODULE MCCpuPipelined ---------------------------
(***************************************************************************)
(* Small instances of the pipeline: eight words of memory, the port behind  *)
(* it, and programs put together from the templates of MCPrograms.          *)
(***************************************************************************)
EXTENDS CpuPipelinedIsa, MCPrograms

(* Three instructions, a jump back to the first, four words of data. *)
Loop(code) ==
  [a \in 0 .. MemSize - 1 |->
     IF a < 3 THEN code[a] ELSE IF a = 3 THEN 17 ELSE <<4, 7, 6, 18>>[a - 3]]

Code(a, b, c) == Loop((0 :> a) @@ (1 :> b) @@ (2 :> c))

AllLoops == {Loop(code) : code \in [0 .. 2 -> 0 .. 27]}

(* Two free instructions: in these programs reset may strike anywhere. *)
ShortLoops == {Code(a, b, 0) : a, b \in 0 .. 27}

(* Programs that keep clear of every named departure: no instruction with    *)
(* the bits of a division that is none, no computed address, no SYSTEM, no   *)
(* illegal word, no jump into the data or out of the memory, and no load     *)
(* from memory right before an access outside it.                            *)
CleanLoops ==
  {Loop(code) : code \in
     {c \in [0 .. 2 -> (0 .. 22) \ {7, 8, 12, 15, 17}] :
        /\ c[2] \notin {13, 14, 16}
        /\ \A a \in 0 .. 1 : ~(c[a] = 6 /\ c[a + 1] \in {9, 11, 22})}}
=============================================================================
