----------------------------- MODULE Reemplazo -----------------------------
(***************************************************************************)
(* What the replacement algorithms of the memory decide                    *)
(* (memoria/src/memoria.c, simple_clock and modified_clock), as a function *)
(* of the use and modified bits of the pages a process has in memory and   *)
(* of the pointer of its clock.  Module Reloj has the searches themselves, *)
(* one row at a time, and RelojProofs that they decide this.               *)
(***************************************************************************)
EXTENDS Integers

CONSTANT MARCOS_POR_PROCESO   \* frames a process may occupy

ASSUME MarcosAssumption == MARCOS_POR_PROCESO \in Nat \ {0}

(* The rows of a full frames_in_memory.                                    *)
Row == 0 .. MARCOS_POR_PROCESO - 1

Algoritmo == {"CLOCK", "CLOCK-M"}

Bits == [use : BOOLEAN, modified : BOOLEAN]

(* The bits of a page that was just loaded.                                *)
Loaded == [use |-> TRUE, modified |-> FALSE]

move_to_next_pointer_PastTheEnd(i) ==
    IF i = MARCOS_POR_PROCESO THEN 0 ELSE i + 1

move_to_next_pointer(i) == IF i + 1 = MARCOS_POR_PROCESO THEN 0 ELSE i + 1

(* How many rows a search that starts at pointer passes before row i.      *)
Distance(pointer, i) ==
    IF i < pointer THEN i - pointer + MARCOS_POR_PROCESO ELSE i - pointer

(* How soon a page is taken: CLOCK asks only whether it was used; CLOCK-M  *)
(* takes first what is neither used nor modified, then what is modified,   *)
(* then what only was used.                                                *)
Rank(algorithm, b) ==
    IF algorithm = "CLOCK"
      THEN IF b.use THEN 1 ELSE 0
      ELSE (IF b.use THEN 2 ELSE 0) + (IF b.modified THEN 1 ELSE 0)

(* Row v is taken: no row ranks lower, and of those of its rank it is the  *)
(* first one from the pointer on.                                          *)
IsVictim(algorithm, bits, pointer, v) ==
    \A i \in Row :
        \/ Rank(algorithm, bits[v]) < Rank(algorithm, bits[i])
        \/ /\ Rank(algorithm, bits[v]) = Rank(algorithm, bits[i])
           /\ Distance(pointer, v) <= Distance(pointer, i)

(* The use bits cleared on the way to row v: all of them when no page was  *)
(* unused; otherwise those passed, except in the first turn of CLOCK-M.    *)
Cleared(algorithm, bits, pointer, v) ==
    {i \in Row : \/ bits[v].use
                 \/ /\ algorithm = "CLOCK" \/ bits[v].modified
                    /\ Distance(pointer, i) < Distance(pointer, v)}

(* The bits after the search, and after the new page is in row v.          *)
AfterReplacing(algorithm, bits, pointer, v) ==
    [i \in Row |->
        IF i = v THEN Loaded
        ELSE [bits[i] EXCEPT
                !.use = @ /\ i \notin Cleared(algorithm, bits, pointer, v)]]

=============================================================================
