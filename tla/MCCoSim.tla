------------------------------- MODULE MCCoSim -------------------------------
(***************************************************************************)
(* The co-simulation on the programs of MCCpuPipelined, and on the shortest *)
(* program on which the two sides part.                                      *)
(***************************************************************************)
EXTENDS MCCpuPipelined, CoSim

(* Clean programs; the simulator has no port, so none loads from it after    *)
(* having written to it.                                                     *)
CoSimLoops == {p \in CleanLoops : ~(\E a, b \in 0 .. 2 : p[a] = 9 /\ p[b] = 11)}

OverlapLoops == {Code(6, 22, 0)}      \* lw from memory; lw from nowhere
=============================================================================
