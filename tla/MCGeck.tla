------------------------------- MODULE MCGeck -------------------------------
(***************************************************************************)
(* Programs for the consoles of small instances of Geck.                   *)
(***************************************************************************)
EXTENDS Geck, TLC

CONSTANTS p1, p2, p3, disk

Two   == {p1, p2}
Three == {p1, p2, p3}
Disk  == {disk}

(* Page faults, an I/O and a segmentation fault.                           *)
MixedProgram ==
    p1 :> <<"MOV", disk, "EXIT">> @@ p2 :> <<"MOV", "FAULT">>
       @@ p3 :> <<"MOV", "EXIT">>

(* One process goes to its console, two leave list_RUNNING empty.  The two *)
(* are alike.                                                              *)
QuantumProgram ==
    p1 :> <<"EXIT">> @@ p2 :> <<"CONSOLE", "EXIT">> @@ p3 :> <<"EXIT">>
QuantumSymmetry == Permutations({p1, p3})

(* Page faults next to computation.                                        *)
PagingProgram ==
    p1 :> <<"MOV", "EXIT">> @@ p2 :> <<"MOV", "COMPUTE", "EXIT">>

(* Processes that only compute, all alike.                                 *)
ComputeProgram  == [p \in Process |-> <<"COMPUTE", "EXIT">>]
ComputeSymmetry == Permutations(Process)

(* As geck-pruebas/algoritmos/MEMORIA_1 ends: the screen, then EXIT.       *)
ScreenProgram ==
    p1 :> <<"CONSOLE", "EXIT">> @@ p2 :> <<"CONSOLE", "EXIT">>

=============================================================================
