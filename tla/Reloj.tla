------------------------------- MODULE Reloj -------------------------------
(***************************************************************************)
(* The clock of one process whose frames are all taken                     *)
(* (memoria/src/memoria.c, clock_struct, simple_clock, modified_clock,     *)
(* replace_by_clock): the accesses that set the bits of its pages and the  *)
(* search for the page that leaves, one row per step.                      *)
(*                                                                         *)
(* thread_memory is held during a search, so no access comes in between.   *)
(***************************************************************************)
EXTENDS Reemplazo

VARIABLES
    ALGORITMO_REEMPLAZO,  \* of the configuration; never changes
    bits,                 \* use and modified bits of the page of each row
    pointer,              \* clock->pointer
    clock_pointer,        \* the local variable of the search
    pass,                 \* "none", or the loop the search is in: "turn" of
                          \* simple_clock, "first" or "second" of modified_clock
    before,               \* history: the bits as the search began
    newest                \* history: the row of the page loaded last

vars == <<ALGORITMO_REEMPLAZO, bits, pointer, clock_pointer, pass, before,
          newest>>

TypeOK ==
    /\ ALGORITMO_REEMPLAZO \in Algoritmo
    /\ bits \in [Row -> Bits]
    /\ pointer \in Row
    /\ clock_pointer \in Row
    /\ pass \in {"none", "turn", "first", "second"}
    /\ before \in [Row -> Bits]
    /\ newest \in Row

(* The process has just loaded its last frame.                             *)
Init ==
    /\ ALGORITMO_REEMPLAZO \in Algoritmo
    /\ bits = [i \in Row |-> Loaded]
    /\ pointer = 0
    /\ clock_pointer = 0
    /\ pass = "none"
    /\ before = bits
    /\ newest = MARCOS_POR_PROCESO - 1

-----------------------------------------------------------------------------
(* The accesses of the CPU to the page of row i.  Only a read is a use.    *)

Access(i, b) ==
    /\ pass = "none"
    /\ bits' = [bits EXCEPT ![i] = b]
    /\ before' = bits'
    /\ UNCHANGED <<ALGORITMO_REEMPLAZO, pointer, clock_pointer, pass, newest>>

MovIn(i)  == Access(i, [bits[i] EXCEPT !.use = TRUE])
MovOut(i) == Access(i, [bits[i] EXCEPT !.modified = TRUE])

-----------------------------------------------------------------------------
(* A page fault: the search.                                               *)

Begin ==
    /\ pass = "none"
    /\ clock_pointer' = pointer
    /\ pass' = IF ALGORITMO_REEMPLAZO = "CLOCK" THEN "turn" ELSE "first"
    /\ UNCHANGED <<ALGORITMO_REEMPLAZO, bits, pointer, before, newest>>

Replace_PointerStays ==
    /\ bits' = [bits EXCEPT ![clock_pointer] = Loaded]
    /\ before' = bits'
    /\ pointer' = clock_pointer
    /\ newest' = clock_pointer
    /\ pass' = "none"

(* The page of this row leaves and the one that faulted takes its place.   *)
Replace ==
    /\ bits' = [bits EXCEPT ![clock_pointer] = Loaded]
    /\ before' = bits'
    /\ pointer' = move_to_next_pointer(clock_pointer)
    /\ newest' = clock_pointer
    /\ pass' = "none"

(* This row stays.                                                         *)
Spare    == UNCHANGED <<pointer, before, newest>>
ClearUse == bits' = [bits EXCEPT ![clock_pointer].use = FALSE]

TurnComplete_BeforeMoving == clock_pointer = pointer

TurnComplete == clock_pointer' = pointer

VisitSimple ==
    /\ pass = "turn"
    /\ clock_pointer' = move_to_next_pointer(clock_pointer)
    /\ IF ~bits[clock_pointer].use
         THEN Replace
         ELSE Spare /\ ClearUse /\ pass' = pass
    /\ UNCHANGED ALGORITMO_REEMPLAZO

(* First loop of modified_clock: (0,0).                                    *)
VisitFirst ==
    /\ pass = "first"
    /\ clock_pointer' = move_to_next_pointer(clock_pointer)
    /\ IF ~bits[clock_pointer].use /\ ~bits[clock_pointer].modified
         THEN Replace
         ELSE /\ Spare
              /\ bits' = bits
              /\ pass' = IF TurnComplete THEN "second" ELSE "first"
    /\ UNCHANGED ALGORITMO_REEMPLAZO

VisitSecond_UseKept ==
    /\ pass = "second"
    /\ clock_pointer' = move_to_next_pointer(clock_pointer)
    /\ IF ~bits[clock_pointer].use /\ bits[clock_pointer].modified
         THEN Replace
         ELSE /\ Spare
              /\ bits' = bits
              /\ pass' = IF TurnComplete THEN "first" ELSE "second"
    /\ UNCHANGED ALGORITMO_REEMPLAZO

(* Second loop: (0,1), clearing the use bits it passes.                    *)
VisitSecond ==
    /\ pass = "second"
    /\ clock_pointer' = move_to_next_pointer(clock_pointer)
    /\ IF ~bits[clock_pointer].use /\ bits[clock_pointer].modified
         THEN Replace
         ELSE /\ Spare
              /\ ClearUse
              /\ pass' = IF TurnComplete THEN "first" ELSE "second"
    /\ UNCHANGED ALGORITMO_REEMPLAZO

Search == VisitSimple \/ VisitFirst \/ VisitSecond

Next ==
    \/ \E i \in Row : MovIn(i) \/ MovOut(i)
    \/ Begin
    \/ Search

Spec == Init /\ [][Next]_vars

(* A search is a loop of one thread.                                       *)
FairSpec == Spec /\ WF_vars(Search)

-----------------------------------------------------------------------------
(* Properties.                                                             *)

Replaced == pass # "none" /\ pass' = "none"

(* However many turns a search takes, it ends having done in one step what *)
(* Reemplazo says of the bits it began with: the right page leaves, the    *)
(* right use bits are cleared and the pointer is past the new page         *)
(* (simple_clock, modified_clock).                                         *)
ReplacesAsDecided ==
    [][Replaced =>
        LET v == newest' IN
        /\ IsVictim(ALGORITMO_REEMPLAZO, before, pointer, v)
        /\ bits' = AfterReplacing(ALGORITMO_REEMPLAZO, before, pointer, v)
        /\ pointer' = move_to_next_pointer(v)]_vars

(* With CLOCK and more than one frame, the page that leaves is never the   *)
(* one that came in last, which the process faulted for (simple_clock).    *)
NewestSpared ==
    [][Replaced /\ ALGORITMO_REEMPLAZO = "CLOCK" /\ MARCOS_POR_PROCESO > 1
         => newest' # newest]_vars

(* `hasta que no encuentre uno no para': the search always finds one.      *)
SearchEnds == pass # "none" ~> pass = "none"

=============================================================================
