------------------------------ MODULE Memoria ------------------------------
(***************************************************************************)
(* The memory (memoria/src/memoria.c): the page tables of the processes,   *)
(* the bitmaps of frames and of swap pages, the clocks, the contents of    *)
(* both stores, and what each request of the kernel and of the CPU does to *)
(* them.  Both threads hold thread_memory while they serve a request, so   *)
(* each request is one action.                                             *)
(*                                                                         *)
(* Sizes, offsets and addresses are counted in words of four bytes, and    *)
(* accesses are aligned, as those of geck-pruebas are.                     *)
(*                                                                         *)
(* A page is <<process, segment, page number>>: index_page, the position   *)
(* of a segment's table in all_page_tables, stands for the first two, as   *)
(* a process is initialised once.                                          *)
(***************************************************************************)
EXTENDS Reemplazo, Sequences, FiniteSets

CONSTANTS
    Process,
    Segments,               \* SEGMENTOS of each process: sizes by segment
    TAM_PAGINA,
    Frames,                 \* TAM_MEMORIA / TAM_PAGINA
    SwapPages,              \* TAMANIO_SWAP / TAM_PAGINA
    ALGORITMO_REEMPLAZO,
    Word,                   \* contents of a word
    Zero, Unset             \* words: zero, and one nobody has written

ASSUME SegmentsAssumption == Segments \in [Process -> Seq(Nat)]
ASSUME SizesAssumption    == /\ TAM_PAGINA \in Nat \ {0}
                             /\ Frames \in Nat
                             /\ SwapPages \in Nat
ASSUME AlgoritmoAssumption == ALGORITMO_REEMPLAZO \in Algoritmo
ASSUME WordAssumption      == {Zero, Unset} \subseteq Word

VARIABLES
    structures,        \* processes initialised and not deleted
    row,               \* Page_table_row of each page
    clock_structures,  \* dictionary of the clocks, by process
    bitmap_memory, bitmap_swap,      \* the bits that are set
    principal_memory, swap,          \* contents of each frame and swap page
    memory_alive       \* FALSE once the memory used an index out of range

memoriaVars == <<structures, row, clock_structures, bitmap_memory,
                 bitmap_swap, principal_memory, swap, memory_alive>>

Frame    == 0 .. Frames - 1
Position == 0 .. SwapPages - 1
Offset   == 0 .. TAM_PAGINA - 1

calculate_frames_of_segment(size) ==
    size \div TAM_PAGINA + (IF size % TAM_PAGINA # 0 THEN 1 ELSE 0)

(* The page tables of the segments of a process.                           *)
Page_table(p, s) ==
    {<<p, s, n>> : n \in 0 .. calculate_frames_of_segment(Segments[p][s + 1]) - 1}

PagesOf(p) == UNION {Page_table(p, s) : s \in 0 .. Len(Segments[p]) - 1}
Page       == UNION {PagesOf(p) : p \in Process}
Owner(pg)  == pg[1]

(* The contents of a frame or of a page of the swap.                       *)
Contents == [Offset -> Word]

PageRow == [frame_number : Frame \cup {-1}, presence : BOOLEAN, use : BOOLEAN,
            modified : BOOLEAN, swap_position : Position \cup {-1}]

ClockRow == [frame_number : Frame, page : Page]
Clock    == [frames_in_memory : Seq(ClockRow), pointer : Row]

-----------------------------------------------------------------------------

(* What find_page_free answers: i, the first clear bit of as many bits as  *)
(* the swap has pages, whichever bitmap it is.  (-1 if there is none.)     *)
find_page_free(bitmap, i) ==
    /\ i \in Position \ bitmap
    /\ \A j \in Position : j < i => j \in bitmap

(* A position outside the bitmap, a page at a negative address, a row that *)
(* is NULL: nothing is said of what the memory does from here on.          *)
MemoryDies ==
    /\ memory_alive' = FALSE
    /\ UNCHANGED <<structures, row, clock_structures, bitmap_memory,
                   bitmap_swap, principal_memory, swap>>

-----------------------------------------------------------------------------
(* INIT_PROCESS_STRUCTURES_MEMORY: init_process_structures, with           *)
(* builder_page_table for each segment.                                    *)

(* The order in which the pages of a process are given their swap pages.   *)
Precedes(a, b) == a[2] < b[2] \/ (a[2] = b[2] /\ a[3] < b[3])
Before(pg)     == {q \in PagesOf(Owner(pg)) : Precedes(q, pg)}

Assigned_BitNotSet(p, position) ==
    \A pg \in PagesOf(p) : find_page_free(bitmap_swap, position[pg])

(* position is what find_page_free answers for each page of p, as the bits *)
(* of the pages before it have been set.                                   *)
Assigned(p, position) ==
    \A pg \in PagesOf(p) :
        find_page_free(bitmap_swap \cup {position[q] : q \in Before(pg)},
                       position[pg])

NewRow_PositionFromOne(i) ==
    [frame_number |-> -1, presence |-> FALSE, use |-> FALSE,
     modified |-> FALSE, swap_position |-> i + 1]

NewRow(i) == [frame_number |-> -1, presence |-> FALSE, use |-> FALSE,
              modified |-> FALSE, swap_position |-> i]

BuildTables(p) ==
    \E position \in [PagesOf(p) -> Position \ bitmap_swap] :
        /\ Assigned(p, position)
        /\ structures' = structures \cup {p}
        /\ row' = [pg \in Page |-> IF pg \in PagesOf(p) THEN NewRow(position[pg])
                                                       ELSE row[pg]]
        /\ bitmap_swap' = bitmap_swap \cup {position[pg] : pg \in PagesOf(p)}
        /\ clock_structures' =
              [q \in DOMAIN clock_structures \cup {p} |->
                 IF q = p THEN [frames_in_memory |-> <<>>, pointer |-> 0]
                          ELSE clock_structures[q]]
        /\ UNCHANGED <<bitmap_memory, principal_memory, swap, memory_alive>>

(* SE LLENO EL SWAP, and the bit -1 is set nevertheless.                   *)
SwapFull(p) ==
    /\ Cardinality(PagesOf(p)) > Cardinality(Position \ bitmap_swap)
    /\ MemoryDies

init_process_structures(p) == BuildTables(p) \/ SwapFull(p)

-----------------------------------------------------------------------------
(* REQUEST_PAGE_FAULT.                                                     *)

In_PresenceForgotten(r, f) == [r EXCEPT !.frame_number = f, !.use = TRUE]

In(r, f) == [r EXCEPT !.frame_number = f, !.presence = TRUE, !.use = TRUE]

FramesOf(p) == clock_structures[p].frames_in_memory

add_page_to_clock_structure_Appends(c, f, pg) ==
    Append(c, [frame_number |-> f, page |-> pg])

(* The row that has the frame is given the page; a frame that is new to    *)
(* the clock goes to its end.                                              *)
add_page_to_clock_structure(c, f, pg) ==
    LET holding == {i \in DOMAIN c : c[i].frame_number = f}
    IN  IF holding = {} THEN Append(c, [frame_number |-> f, page |-> pg])
        ELSE LET first == CHOOSE i \in holding : \A j \in holding : i <= j
             IN  [c EXCEPT ![first].page = pg]

(* The process has not taken all its frames: the first free one, at the    *)
(* end of its clock.                                                       *)
LoadInFreeFrame(pg) ==
    LET p == Owner(pg) IN
    \E f \in Frame :
        /\ Len(FramesOf(p)) # MARCOS_POR_PROCESO
        /\ find_page_free(bitmap_memory, f)
        /\ principal_memory' =
              [principal_memory EXCEPT ![f] = swap[row[pg].swap_position]]
        /\ bitmap_memory' = bitmap_memory \cup {f}
        /\ row' = [row EXCEPT ![pg] = In(@, f)]
        /\ clock_structures' = [clock_structures EXCEPT ![p].frames_in_memory =
                                  add_page_to_clock_structure(@, f, pg)]
        /\ UNCHANGED <<structures, bitmap_swap, swap, memory_alive>>

LoadNowhere(pg) ==
    /\ Len(FramesOf(Owner(pg))) # MARCOS_POR_PROCESO
    /\ \A f \in Frame : ~find_page_free(bitmap_memory, f)
    /\ MemoryDies

(* What the clock of p says of its rows.                                   *)
PageAt(p, i) == FramesOf(p)[i + 1].page
BitsOf(p)    == [i \in Row |-> [use      |-> row[PageAt(p, i)].use,
                                modified |-> row[PageAt(p, i)].modified]]

Out(r) == [r EXCEPT !.presence = FALSE, !.use = FALSE, !.modified = FALSE]

SwapAfterEviction_NotWritten(out) == swap

(* replace_by_clock: only a modified page goes back to the swap.           *)
SwapAfterEviction(out) ==
    IF row[out].modified
      THEN [swap EXCEPT ![row[out].swap_position] =
                            principal_memory[row[out].frame_number]]
      ELSE swap

RowsAfterReplacing(pg, out, f, cleared) ==
    [q \in Page |-> IF q = pg THEN In(row[q], f)
                    ELSE IF q = out THEN Out(row[q])
                    ELSE IF q \in cleared THEN [row[q] EXCEPT !.use = FALSE]
                    ELSE row[q]]

(* The page in row v of the clock of p leaves.                             *)
Replace(p, pg, v) ==
    LET c   == clock_structures[p]
        out == PageAt(p, v)
        f   == FramesOf(p)[v + 1].frame_number
        cleared == {PageAt(p, i) : i \in
                       Cleared(ALGORITMO_REEMPLAZO, BitsOf(p), c.pointer, v)}
    IN  /\ IsVictim(ALGORITMO_REEMPLAZO, BitsOf(p), c.pointer, v)
        /\ swap' = SwapAfterEviction(out)
        /\ principal_memory' =
              [principal_memory EXCEPT ![f] = swap'[row[pg].swap_position]]
        /\ bitmap_memory' = (bitmap_memory \ {row[out].frame_number}) \cup {f}
        /\ row' = RowsAfterReplacing(pg, out, f, cleared)
        /\ clock_structures' = [clock_structures EXCEPT ![p] =
              [frames_in_memory |->
                   add_page_to_clock_structure(@.frames_in_memory, f, pg),
               pointer |-> move_to_next_pointer(v)]]
        /\ UNCHANGED <<structures, bitmap_swap, memory_alive>>

(* It has: the page of one of its own rows leaves, whichever process the   *)
(* CPU is running.                                                         *)
LoadByReplacing(pg) ==
    /\ Len(FramesOf(Owner(pg))) = MARCOS_POR_PROCESO
    /\ \E v \in Row : Replace(Owner(pg), pg, v)

request_page_fault(pg) ==
    LoadInFreeFrame(pg) \/ LoadByReplacing(pg) \/ LoadNowhere(pg)

-----------------------------------------------------------------------------
(* END_STRUCTURES.  The tables and the clock stay where they are.          *)

delete_process_FramesKept(p) ==
    /\ structures' = structures \ {p}
    /\ bitmap_swap' = bitmap_swap \ {row[pg].swap_position : pg \in PagesOf(p)}
    /\ UNCHANGED <<row, clock_structures, bitmap_memory, principal_memory,
                   swap, memory_alive>>

delete_process(p) ==
    /\ structures' = structures \ {p}
    /\ bitmap_memory' = bitmap_memory \ {row[pg].frame_number : pg \in
                                {q \in PagesOf(p) : row[q].presence}}
    /\ bitmap_swap' = bitmap_swap \ {row[pg].swap_position : pg \in PagesOf(p)}
    /\ UNCHANGED <<row, clock_structures, principal_memory, swap, memory_alive>>

-----------------------------------------------------------------------------
(* The requests of the CPU.                                                *)

get_frame_number_RAM_ByUse(pg) == IF row[pg].use THEN row[pg].frame_number ELSE -1

get_frame_number_RAM_PresenceIgnored(pg) == row[pg].frame_number

(* FRAME_REQUEST; -1 is the answer PAGE_FAULT.                             *)
get_frame_number_RAM(pg) == IF row[pg].presence THEN row[pg].frame_number ELSE -1

read_value_in_principal_memory(f, o) == principal_memory[f][o]

(* MOV_IN: update_page_use looks for the frame of the page in the clock.   *)
mov_in(pg) ==
    LET c == FramesOf(Owner(pg))
        found == {i \in DOMAIN c : c[i].frame_number = row[pg].frame_number}
        used  == {c[i].page : i \in found}
    IN  /\ row' = [q \in Page |-> IF q \in used THEN [row[q] EXCEPT !.use = TRUE]
                                                ELSE row[q]]
        /\ UNCHANGED <<structures, clock_structures, bitmap_memory, bitmap_swap,
                       principal_memory, swap, memory_alive>>

(* The pages of a segment that are in a frame.                             *)
InFrame(p, s, f) == {pg \in Page_table(p, s) :
                        row[pg].presence /\ row[pg].frame_number = f}

(* MOV_OUT: the row is looked for by its frame in the table of the segment. *)
save_value_in_memory(p, s, f, o, value) ==
    /\ InFrame(p, s, f) # {}
    /\ principal_memory' = [principal_memory EXCEPT ![f][o] = value]
    /\ LET pg == CHOOSE q \in InFrame(p, s, f) :
                    \A r \in InFrame(p, s, f) : q[3] <= r[3]
       IN  row' = [row EXCEPT ![pg].modified = TRUE]
    /\ UNCHANGED <<structures, clock_structures, bitmap_memory, bitmap_swap,
                   swap, memory_alive>>

(* Past the last row list_get returns NULL, and it is read.                *)
NoRowForFrame(p, s, f) == InFrame(p, s, f) = {} /\ MemoryDies

mov_out(p, s, f, o, value) ==
    save_value_in_memory(p, s, f, o, value) \/ NoRowForFrame(p, s, f)

-----------------------------------------------------------------------------
(* main: init_principal_memory_and_swap_file, init_global_lists.           *)

(* create_swap puts a zero in the first word of each page, and whatever    *)
(* was in its stack in the others.                                         *)
NewSwapPage == [o \in Offset |-> IF o = 0 THEN Zero ELSE Unset]

Init ==
    /\ structures = {}
    /\ row = [pg \in Page |-> NewRow(-1)]
    /\ clock_structures = [p \in {} |-> <<>>]
    /\ bitmap_memory = {} /\ bitmap_swap = {}
    /\ principal_memory = [f \in Frame |-> [o \in Offset |-> Unset]]
    /\ swap = [i \in Position |-> NewSwapPage]
    /\ memory_alive = TRUE

(* How the kernel and the CPU use the memory: a process is initialised     *)
(* once; only pages of a live process are accessed, and only one that is   *)
(* absent is asked for; nothing is promised of the frame a MOV comes with. *)
Next ==
    /\ memory_alive
    /\ \/ \E p \in Process \ DOMAIN clock_structures : init_process_structures(p)
       \/ \E p \in structures : delete_process(p)
       \/ \E p \in structures : \E pg \in PagesOf(p) :
             \/ ~row[pg].presence /\ request_page_fault(pg)
             \/ mov_in(pg)
             \/ \E f \in Frame, o \in Offset, value \in Word :
                   mov_out(p, pg[2], f, o, value)

Spec == Init /\ [][Next]_memoriaVars

-----------------------------------------------------------------------------
(* Properties.                                                             *)

TypeOK ==
    /\ structures \subseteq DOMAIN clock_structures
    /\ DOMAIN clock_structures \subseteq Process
    /\ row \in [Page -> PageRow]
    /\ clock_structures \in [DOMAIN clock_structures -> Clock]
    /\ bitmap_memory \subseteq Frame /\ bitmap_swap \subseteq Position
    /\ principal_memory \in [Frame -> Contents]
    /\ swap \in [Position -> Contents]
    /\ memory_alive \in BOOLEAN

Live    == UNION {PagesOf(p) : p \in structures}
Present == {pg \in Live : row[pg].presence}

(* No two pages of live processes are in one frame, and every frame that   *)
(* has a page is marked as taken, and only those: frames are neither       *)
(* shared nor lost (find_page_free, replace_by_clock, delete_process).     *)
FrameHasOneOwner ==
    /\ \A a, b \in Present :
          row[a].frame_number = row[b].frame_number => a = b
    /\ bitmap_memory = {row[pg].frame_number : pg \in Present}

(* No two pages of live processes share a page of the swap, and exactly    *)
(* those are marked as taken (builder_page_table, delete_process).         *)
SwapHasOneOwner ==
    /\ \A a, b \in Live : row[a].swap_position = row[b].swap_position => a = b
    /\ bitmap_swap = {row[pg].swap_position : pg \in Live}

ClockMatches(p) ==
    LET c == FramesOf(p) IN
    /\ Len(c) <= MARCOS_POR_PROCESO
    /\ Len(c) < MARCOS_POR_PROCESO => clock_structures[p].pointer = 0
    /\ \A i \in DOMAIN c : /\ c[i].page \in PagesOf(p)
                           /\ row[c[i].page].presence
                           /\ row[c[i].page].frame_number = c[i].frame_number
    /\ \A i, j \in DOMAIN c : c[i].page = c[j].page => i = j
    /\ \A pg \in PagesOf(p) : row[pg].presence => \E i \in DOMAIN c : c[i].page = pg

(* The clock of a live process lists exactly its pages in memory, each     *)
(* once and in its frame, never more than MARCOS_POR_PROCESO, and its      *)
(* pointer does not move before it is full (add_page_to_clock_structure,   *)
(* replace_by_clock).                                                      *)
ClockMatchesTables == \A p \in structures : ClockMatches(p)

=============================================================================
