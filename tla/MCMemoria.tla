----------------------------- MODULE MCMemoria -----------------------------
(***************************************************************************)
(* Segments for a small instance of Memoria.                               *)
(***************************************************************************)
EXTENDS Memoria, TLC

CONSTANTS p1, p2, p3

Three == {p1, p2, p3}

(* One process with more pages than it may have frames, one with as many,  *)
(* one with fewer.                                                         *)
SegmentsOfThree == p1 :> <<2, 1>> @@ p2 :> <<2>> @@ p3 :> <<1>>

=============================================================================
