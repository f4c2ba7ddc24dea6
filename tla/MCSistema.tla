----------------------------- MODULE MCSistema -----------------------------
(***************************************************************************)
(* Programs and segments for small instances of Sistema.                   *)
(***************************************************************************)
EXTENDS Sistema, TLC

CONSTANTS p1, p2

Two == {p1, p2}

Set(r, v) == [op |-> "SET", register |-> r, value |-> v]
Add(r, s) == [op |-> "ADD", register |-> r, from |-> s]
In(r, a)  == [op |-> "MOV_IN", register |-> r, address |-> a]
Out(a, r) == [op |-> "MOV_OUT", address |-> a, register |-> r]
Screen    == [op |-> "I/O", device |-> "CONSOLE"]
Exit      == [op |-> "EXIT"]

Kinds(code) == [p \in Process |-> [k \in DOMAIN code[p] |-> KindOf(p, code[p][k])]]

(* Two programs with more pages than frames, whose faults take turns, as   *)
(* those of MEMORIA_1 and MEMORIA_3 of geck-pruebas/algoritmos: they write  *)
(* pages that leave and come back.  The second goes past its segment.      *)
SharingSegments == p1 :> <<2, 3>> @@ p2 :> <<4, 1>>
SharingCode ==
       p1 :> <<Set("AX", 1), Out(0, "AX"), Out(6, "AX"), In("BX", 4),
               Screen, In("AX", 6), Out(1, "BX"), Exit>>
    @@ p2 :> <<Set("AX", 2), Out(3, "AX"), Add("AX", "AX"), Out(2, "AX"),
               Out(0, "AX"), In("AX", 4), In("BX", 3), In("BX", 5)>>
SharingProgram == Kinds(SharingCode)

(* Like TLB_1 and TLB_2: every page fits, and a quantum may expire between *)
(* any two instructions.                                                   *)
TlbSegments == p1 :> <<2>> @@ p2 :> <<2>>
TlbCode ==
       p1 :> <<Out(1, "AX"), In("BX", 1), Exit>>
    @@ p2 :> <<In("AX", 1), Exit>>
TlbProgram == Kinds(TlbCode)

(* Every instance has the frames and the swap that its programs need.      *)
ASSUME StoresSuffice == EnoughFrames /\ EnoughSwap

=============================================================================
