----------------------------- MODULE Procesador -----------------------------
(***************************************************************************)
(* What the CPU computes (cpu/src/cpu.c): its registers, the translation   *)
(* of logical addresses and the TLB.  Module Sistema has the steps in      *)
(* which it does so.                                                       *)
(*                                                                         *)
(* Addresses and sizes are counted in words, as in module Memoria.  A word *)
(* is a number below Words, which stands for 2^32, or Unset.               *)
(***************************************************************************)
EXTENDS Integers, Sequences

CONSTANTS
    Segments,             \* the segment table each PCB carries: sizes
    TAM_PAGINA, ENTRADAS_POR_TABLA,   \* what SEND_CONFIG answers
    ENTRADAS_TLB, REEMPLAZO_TLB,      \* the CPU's own configuration
    Register,
    Words, Unset

ASSUME TlbAssumption == /\ ENTRADAS_TLB \in Nat
                        /\ REEMPLAZO_TLB \in {"FIFO", "LRU"}
ASSUME TableAssumption == /\ TAM_PAGINA \in Nat \ {0}
                          /\ ENTRADAS_POR_TABLA \in Nat \ {0}
ASSUME WordsAssumption == Words \in Nat \ {0} /\ Unset \notin Nat

Word == 0 .. Words - 1 \cup {Unset}

-----------------------------------------------------------------------------
(* Registers.                                                              *)

Sum(a, b) == IF Unset \in {a, b} THEN Unset ELSE (a + b) % Words

(* SET adds to the register, too.                                          *)
add_value_to_register(registers, r, value) ==
    [registers EXCEPT ![r] = Sum(@, value)]

Arithmetic == {"SET", "ADD"}

ExecuteArithmetic(registers, i) ==
    add_value_to_register(registers, i.register,
        IF i.op = "SET" THEN i.value ELSE registers[i.from])

-----------------------------------------------------------------------------
(* The MMU.                                                                *)

max_segment_size == ENTRADAS_POR_TABLA * TAM_PAGINA

translate_logical_address(address) ==
    LET offset == address % max_segment_size
    IN  [segment     |-> address \div max_segment_size,
         offset      |-> offset,
         page        |-> offset \div TAM_PAGINA,
         page_offset |-> offset % TAM_PAGINA]

sigsegv(p, address) ==
    LET t == translate_logical_address(address)
    IN  t.offset >= Segments[p][t.segment + 1]

(* The page of an address and its offset in it.                            *)
PageOf(p, address) ==
    LET t == translate_logical_address(address) IN <<p, t.segment, t.page>>
OffsetOf(address) == translate_logical_address(address).page_offset

-----------------------------------------------------------------------------
(* The TLB, kept in the order in which its entries are to leave: that of   *)
(* their loading under FIFO; of their last_reference under LRU, by which   *)
(* add_to_tlb sorts the list.                                              *)

NoPage == <<>>

TlbRow(pg, f) == [page |-> pg, frame |-> f]

(* It is filled with rows no page matches, so it is always full.           *)
init_tlb == [i \in 1 .. ENTRADAS_TLB |-> TlbRow(NoPage, -1)]

(* The row present_in_tlb stops at, if there is one.                       *)
Hits(tlb, pg) == {i \in DOMAIN tlb : /\ tlb[i].page = pg
                                     /\ \A j \in 1 .. i - 1 : tlb[j].page # pg}

FirstHit(tlb, pg) == CHOOSE i \in Hits(tlb, pg) : TRUE

present_in_tlb(tlb, pg) ==
    IF Hits(tlb, pg) = {} THEN -1 ELSE tlb[FirstHit(tlb, pg)].frame

(* A hit makes its row the last one to leave under LRU.                    *)
Referenced(tlb, pg) ==
    IF REEMPLAZO_TLB = "FIFO" THEN tlb
    ELSE LET hit == FirstHit(tlb, pg)
         IN  [i \in DOMAIN tlb |-> IF i < hit THEN tlb[i]
                                  ELSE IF i < Len(tlb) THEN tlb[i + 1]
                                  ELSE tlb[hit]]

add_to_tlb_RowReused(tlb, pg, f) ==
    [i \in DOMAIN tlb |->
        IF i # 1 THEN tlb[i]
        ELSE TlbRow(IF tlb[i].page = NoPage THEN pg ELSE tlb[i].page, f)]

add_to_tlb(tlb, pg, f) ==
    IF ENTRADAS_TLB = 0 THEN tlb ELSE Append(Tail(tlb), TlbRow(pg, f))

=============================================================================
