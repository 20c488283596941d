--------------------------- MODULE MCCpuMultiCycle ---------------------------
(***************************************************************************)
(* Small instances of the multi-cycle processor: eight words of memory, four *)
(* words of sim_spram from word 16 on, and the templates of MCPrograms.      *)
(***************************************************************************)
EXTENDS CpuMultiCycleIsa, MCPrograms

(* Two instructions, a jump back to the first, and data. *)
Loop(a, b) ==
  [w \in 0 .. MemSize - 1 |-> <<a, b, 0, 17, 4, 7, 6, 18>>[w + 1]]

AllLoops == {Loop(a, b) : a, b \in 0 .. 29}

=============================================================================
