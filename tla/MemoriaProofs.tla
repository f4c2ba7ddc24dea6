--------------------------- MODULE MemoriaProofs ---------------------------
(***************************************************************************)
(* Module Memoria proved for any processes, segments, sizes and either     *)
(* algorithm: its type invariant, and that frames and swap pages are       *)
(* neither shared nor lost and every clock agrees with the page tables.    *)
(*                                                                         *)
(* The four properties and Placed are inductive only together: a frame has *)
(* one owner because the row the clock gives up was the only one in it,    *)
(* which only ClockMatchesTables says, and that needs FrameHasOneOwner for *)
(* the frame that is taken to be in no other clock.                        *)
(*                                                                         *)
(* What a page holds (Stored) is then moved but changed by nothing except  *)
(* MOV_OUT: a page that is not written back was as in the swap (Clean).    *)
(***************************************************************************)
EXTENDS Memoria, TLAPS

(* Every page of a live process has its place in the swap.                 *)
Placed == \A pg \in Live : row[pg].swap_position \in Position

IInv == /\ TypeOK
        /\ Placed
        /\ FrameHasOneOwner
        /\ SwapHasOneOwner
        /\ ClockMatchesTables

-----------------------------------------------------------------------------
(* Pages.                                                                  *)

LEMMA PageFacts ==
    ASSUME NEW p \in Process, NEW pg \in PagesOf(p)
    PROVE  /\ pg \in Page
           /\ Owner(pg) = p
           /\ pg = <<p, pg[2], pg[3]>>
           /\ pg[2] \in Int
           /\ pg[3] \in Int
<1>1. PICK s \in 0 .. Len(Segments[p]) - 1 : pg \in Page_table(p, s)
  BY DEF PagesOf
<1>2. s \in Int
  BY SegmentsAssumption
<1>3. Segments[p][s + 1] \in Nat
  BY <1>1, SegmentsAssumption
<1>4. calculate_frames_of_segment(Segments[p][s + 1]) \in Int
  BY <1>3, SizesAssumption DEF calculate_frames_of_segment
<1>5. PICK n \in 0 .. calculate_frames_of_segment(Segments[p][s + 1]) - 1 :
          pg = <<p, s, n>>
  BY <1>1 DEF Page_table
<1>6. n \in Int
  BY <1>4, <1>5
<1>7. pg \in Page
  BY DEF Page
<1> QED
  BY <1>2, <1>5, <1>6, <1>7 DEF Owner

LEMMA PagesApart ==
    ASSUME NEW p \in Process, NEW q \in Process, p # q
    PROVE  PagesOf(p) \cap PagesOf(q) = {}
BY PageFacts

LEMMA PagesOrdered ==
    ASSUME NEW p \in Process, NEW a \in PagesOf(p), NEW b \in PagesOf(p), a # b
    PROVE  Precedes(a, b) \/ Precedes(b, a)
<1>1. a = <<p, a[2], a[3]>> /\ a[2] \in Int /\ a[3] \in Int
  BY PageFacts
<1>2. b = <<p, b[2], b[3]>> /\ b[2] \in Int /\ b[3] \in Int
  BY PageFacts
<1>3. a[2] # b[2] \/ a[3] # b[3]
  BY <1>1, <1>2
<1> QED
  BY <1>1, <1>2, <1>3 DEF Precedes

LEMMA LiveFacts ==
    ASSUME TypeOK, NEW pg \in Live
    PROVE  /\ pg \in Page
           /\ Owner(pg) \in structures
           /\ Owner(pg) \in Process
           /\ pg \in PagesOf(Owner(pg))
<1>1. PICK p \in structures : pg \in PagesOf(p)
  BY DEF Live
<1>2. p \in Process
  BY DEF TypeOK
<1> QED
  BY <1>1, <1>2, PageFacts

-----------------------------------------------------------------------------
(* Steps that change no more than use and modified bits and contents.      *)

LEMMA BitsAndContents ==
    ASSUME IInv,
           UNCHANGED <<structures, clock_structures, bitmap_memory, bitmap_swap>>,
           row' \in [Page -> PageRow],
           \A pg \in Page : /\ row'[pg].frame_number = row[pg].frame_number
                            /\ row'[pg].presence = row[pg].presence
                            /\ row'[pg].swap_position = row[pg].swap_position,
           principal_memory' \in [Frame -> Contents],
           swap' \in [Position -> Contents],
           memory_alive' \in BOOLEAN
    PROVE  IInv'
<1> USE DEF IInv
<1>1. TypeOK'
  BY DEF TypeOK
<1>2. Live' = Live
  BY DEF Live
<1>3. Live \subseteq Page
  BY LiveFacts
<1>4. Present' = Present
  BY <1>2, <1>3 DEF Present
<1>5. Placed'
  BY <1>2, <1>3 DEF Placed
<1>6. Present \subseteq Page
  BY <1>3 DEF Present
<1>7. {row'[pg].frame_number : pg \in Present} = {row[pg].frame_number : pg \in Present}
  BY <1>6
<1>8. FrameHasOneOwner'
  BY <1>4, <1>6, <1>7 DEF FrameHasOneOwner
<1>9. {row'[pg].swap_position : pg \in Live} = {row[pg].swap_position : pg \in Live}
  BY <1>3
<1>10. SwapHasOneOwner'
  BY <1>2, <1>3, <1>9 DEF SwapHasOneOwner
<1>11. ASSUME NEW p \in structures PROVE ClockMatches(p)'
  <2>1. p \in Process
    BY DEF TypeOK
  <2>2. \A pg \in PagesOf(p) : pg \in Page
    BY <2>1, PageFacts
  <2>3. FramesOf(p)' = FramesOf(p)
    BY DEF FramesOf
  <2>4. ClockMatches(p)
    BY DEF ClockMatchesTables
  <2> QED
    BY <2>2, <2>3, <2>4 DEF ClockMatches
<1>12. ClockMatchesTables'
  BY <1>11 DEF ClockMatchesTables
<1> QED
  BY <1>1, <1>5, <1>8, <1>10, <1>12

LEMMA MovInKeeps ==
    ASSUME IInv, NEW p \in structures, NEW pg \in PagesOf(p), mov_in(pg)
    PROVE  IInv'
<1>1. row \in [Page -> PageRow] /\ principal_memory \in [Frame -> Contents]
      /\ swap \in [Position -> Contents] /\ memory_alive \in BOOLEAN
  BY DEF IInv, TypeOK
<1>2. PICK used : row' = [q \in Page |-> IF q \in used
                                           THEN [row[q] EXCEPT !.use = TRUE]
                                           ELSE row[q]]
  BY DEF mov_in
<1>3. row' \in [Page -> PageRow]
  BY <1>1, <1>2 DEF PageRow
<1>4. \A q \in Page : /\ row'[q].frame_number = row[q].frame_number
                      /\ row'[q].presence = row[q].presence
                      /\ row'[q].swap_position = row[q].swap_position
  BY <1>1, <1>2 DEF PageRow
<1> QED
  BY <1>1, <1>3, <1>4, BitsAndContents DEF mov_in

LEMMA MovOutKeeps ==
    ASSUME IInv, NEW p \in structures, NEW s \in Int, NEW f \in Frame,
           NEW o \in Offset, NEW value \in Word, mov_out(p, s, f, o, value)
    PROVE  IInv'
<1>1. row \in [Page -> PageRow] /\ principal_memory \in [Frame -> Contents]
      /\ swap \in [Position -> Contents] /\ memory_alive \in BOOLEAN
  BY DEF IInv, TypeOK
<1>2. CASE save_value_in_memory(p, s, f, o, value)
  <2>1. PICK q : row' = [row EXCEPT ![q].modified = TRUE]
    BY <1>2 DEF save_value_in_memory
  <2>2. row' \in [Page -> PageRow]
    BY <1>1, <2>1 DEF PageRow
  <2>3. \A r \in Page : /\ row'[r].frame_number = row[r].frame_number
                        /\ row'[r].presence = row[r].presence
                        /\ row'[r].swap_position = row[r].swap_position
    BY <1>1, <2>1 DEF PageRow
  <2>4. principal_memory' = [principal_memory EXCEPT ![f][o] = value]
    BY <1>2 DEF save_value_in_memory
  <2>5. principal_memory' \in [Frame -> Contents]
    BY <1>1, <2>4 DEF Contents
  <2> QED
    BY <1>1, <1>2, <2>2, <2>3, <2>5, BitsAndContents DEF save_value_in_memory
<1>3. CASE NoRowForFrame(p, s, f)
  BY <1>1, <1>3, BitsAndContents DEF NoRowForFrame, MemoryDies
<1> QED
  BY <1>2, <1>3 DEF mov_out

LEMMA MemoryDiesKeeps == ASSUME IInv, MemoryDies PROVE IInv'
<1>1. row \in [Page -> PageRow] /\ principal_memory \in [Frame -> Contents]
      /\ swap \in [Position -> Contents]
  BY DEF IInv, TypeOK
<1> QED
  BY <1>1, BitsAndContents DEF MemoryDies

-----------------------------------------------------------------------------
(* INIT_PROCESS_STRUCTURES_MEMORY.                                         *)

LEMMA PositionsApart ==
    ASSUME NEW p \in Process,
           NEW position \in [PagesOf(p) -> Position \ bitmap_swap],
           Assigned(p, position),
           NEW a \in PagesOf(p), NEW b \in PagesOf(p), a # b
    PROVE  position[a] # position[b]
<1>1. ASSUME NEW c \in PagesOf(p), NEW d \in PagesOf(p), Precedes(c, d)
      PROVE  position[c] # position[d]
  <2>1. c \in Before(d)
    BY <1>1, PageFacts DEF Before
  <2>2. position[d] \notin bitmap_swap \cup {position[q] : q \in Before(d)}
    BY DEF Assigned, find_page_free
  <2> QED
    BY <2>1, <2>2
<1> QED
  BY <1>1, PagesOrdered

LEMMA BuildTablesKeeps ==
    ASSUME IInv, NEW p \in Process \ DOMAIN clock_structures, BuildTables(p)
    PROVE  IInv'
<1>0. PICK position \in [PagesOf(p) -> Position \ bitmap_swap] :
        /\ Assigned(p, position)
        /\ structures' = structures \cup {p}
        /\ row' = [pg \in Page |-> IF pg \in PagesOf(p) THEN NewRow(position[pg])
                                                       ELSE row[pg]]
        /\ bitmap_swap' = bitmap_swap \cup {position[pg] : pg \in PagesOf(p)}
        /\ clock_structures' =
              [q \in DOMAIN clock_structures \cup {p} |->
                 IF q = p THEN [frames_in_memory |-> <<>>, pointer |-> 0]
                          ELSE clock_structures[q]]
        /\ UNCHANGED <<bitmap_memory, principal_memory, swap, memory_alive>>
  BY DEF BuildTables
<1>1. p \notin structures /\ structures \subseteq Process
  BY DEF IInv, TypeOK
<1>2. PagesOf(p) \subseteq Page /\ Live \subseteq Page
  BY PageFacts, LiveFacts DEF IInv
<1>3. PagesOf(p) \cap Live = {}
  BY <1>1, PagesApart DEF Live
<1>4. Live' = Live \cup PagesOf(p)
  BY <1>0 DEF Live
<1>5. \A pg \in PagesOf(p) : row'[pg] = NewRow(position[pg])
  BY <1>0, <1>2
<1>6. \A pg \in Live : row'[pg] = row[pg]
  BY <1>0, <1>2, <1>3
<1>7. TypeOK'
  <2>1. row' \in [Page -> PageRow]
    <3>1. \A pg \in PagesOf(p) : NewRow(position[pg]) \in PageRow
      BY DEF NewRow, PageRow
    <3> QED
      BY <1>0, <3>1 DEF IInv, TypeOK
  <2>2. [frames_in_memory |-> <<>>, pointer |-> 0] \in Clock
    BY MarcosAssumption DEF Clock, Row
  <2>3. DOMAIN clock_structures' = DOMAIN clock_structures \cup {p}
    BY <1>0
  <2>4. clock_structures' \in [DOMAIN clock_structures' -> Clock]
    BY <1>0, <2>2, <2>3 DEF IInv, TypeOK
  <2> QED
    BY <1>0, <2>1, <2>3, <2>4 DEF IInv, TypeOK
<1>8. \A pg \in PagesOf(p) : row'[pg].swap_position = position[pg] /\ ~row'[pg].presence
  <2>1. ASSUME NEW i PROVE NewRow(i).swap_position = i /\ NewRow(i).presence = FALSE
    BY DEF NewRow
  <2> QED
    BY <1>5, <2>1
<1>9. Placed'
  <2>1. \A pg \in PagesOf(p) : row'[pg].swap_position \in Position
    BY <1>8
  <2>2. \A pg \in Live : row'[pg].swap_position \in Position
    BY <1>6 DEF Placed, IInv
  <2> QED
    BY <1>4, <2>1, <2>2 DEF Placed
<1>10. Present' = Present
  BY <1>4, <1>6, <1>8 DEF Present
<1>11. \A pg \in Present : row'[pg] = row[pg]
  BY <1>6 DEF Present
<1>12. {row'[pg].frame_number : pg \in Present} = {row[pg].frame_number : pg \in Present}
  BY <1>11
<1>13. FrameHasOneOwner'
  <2>1. FrameHasOneOwner /\ bitmap_memory' = bitmap_memory
    BY <1>0 DEF IInv
  <2> QED
    BY <1>10, <1>11, <1>12, <2>1 DEF FrameHasOneOwner
<1>14. SwapHasOneOwner'
  <2>1. SwapHasOneOwner
    BY DEF IInv
  <2>2. \A pg \in Live : row'[pg].swap_position \in bitmap_swap
    BY <1>6, <2>1 DEF SwapHasOneOwner
  <2>3. \A a, b \in Live : row'[a].swap_position = row'[b].swap_position => a = b
    BY <1>6, <2>1 DEF SwapHasOneOwner
  <2>4. \A a, b \in PagesOf(p) : row'[a].swap_position = row'[b].swap_position => a = b
    <3>1. Assigned(p, position)
      BY <1>0
    <3>2. \A a, b \in PagesOf(p) : a # b => position[a] # position[b]
      BY <3>1, PositionsApart
    <3> QED
      BY <1>8, <3>2
  <2>5. \A a \in PagesOf(p) : row'[a].swap_position \notin bitmap_swap
    BY <1>8
  <2>6. \A a, b \in Live' : row'[a].swap_position = row'[b].swap_position => a = b
    BY <1>4, <2>2, <2>3, <2>4, <2>5
  <2>7. {row'[pg].swap_position : pg \in Live} = bitmap_swap
    BY <1>6, <2>1 DEF SwapHasOneOwner
  <2>8. {row'[pg].swap_position : pg \in PagesOf(p)} = {position[pg] : pg \in PagesOf(p)}
    BY <1>8
  <2>9. bitmap_swap' = {row'[pg].swap_position : pg \in Live'}
    BY <1>0, <1>4, <2>7, <2>8
  <2> QED
    BY <2>6, <2>9 DEF SwapHasOneOwner
<1>15. ASSUME NEW q \in structures PROVE ClockMatches(q)'
  <2>1. q \in DOMAIN clock_structures /\ q # p
    BY <1>1 DEF IInv, TypeOK
  <2>2. clock_structures'[q] = clock_structures[q]
    BY <1>0, <2>1
  <2>3. \A pg \in PagesOf(q) : row'[pg] = row[pg]
    BY <1>6 DEF Live
  <2>4. ClockMatches(q)
    BY DEF ClockMatchesTables, IInv
  <2>5. FramesOf(q)' = FramesOf(q)
    BY <2>2 DEF FramesOf
  <2> QED
    BY <2>2, <2>3, <2>4, <2>5 DEF ClockMatches
<1>16. ClockMatches(p)'
  <2>1. clock_structures'[p] = [frames_in_memory |-> <<>>, pointer |-> 0]
    BY <1>0
  <2>2. FramesOf(p)' = <<>> /\ clock_structures'[p].pointer = 0
    BY <2>1 DEF FramesOf
  <2>3. DOMAIN FramesOf(p)' = {} /\ Len(FramesOf(p)') = 0
    BY <2>2
  <2> QED
    BY <1>8, <2>2, <2>3, MarcosAssumption DEF ClockMatches
<1>17. ClockMatchesTables'
  BY <1>0, <1>15, <1>16 DEF ClockMatchesTables
<1> QED
  BY <1>7, <1>9, <1>13, <1>14, <1>17 DEF IInv

-----------------------------------------------------------------------------
(* END_STRUCTURES.                                                         *)

LEMMA DeleteKeeps ==
    ASSUME IInv, NEW p \in structures, delete_process(p)
    PROVE  IInv'
<1> USE DEF IInv
<1>1. structures \subseteq Process /\ structures' = structures \ {p}
  BY DEF TypeOK, delete_process
<1>2. row' = row /\ clock_structures' = clock_structures
  BY DEF delete_process
<1>3. Live' = Live \ PagesOf(p) /\ PagesOf(p) \subseteq Live
  BY <1>1, PagesApart DEF Live
<1>4. TypeOK'
  BY DEF TypeOK, delete_process
<1>5. Placed'
  BY <1>2, <1>3 DEF Placed
<1>6. FrameHasOneOwner'
  <2>1. Present' = Present \ PagesOf(p)
    BY <1>2, <1>3 DEF Present
  <2>2. {q \in PagesOf(p) : row[q].presence} = Present \cap PagesOf(p)
    BY <1>3 DEF Present
  <2>3. bitmap_memory' = bitmap_memory \ {row[pg].frame_number : pg \in
                                              Present \cap PagesOf(p)}
    BY <2>2 DEF delete_process
  <2>4. bitmap_memory' = {row[pg].frame_number : pg \in Present'}
    BY <2>1, <2>3 DEF FrameHasOneOwner
  <2> QED
    BY <1>2, <2>1, <2>4 DEF FrameHasOneOwner
<1>7. SwapHasOneOwner'
  <2>1. bitmap_swap' = {row[pg].swap_position : pg \in Live'}
    BY <1>3 DEF SwapHasOneOwner, delete_process
  <2> QED
    BY <1>2, <1>3, <2>1 DEF SwapHasOneOwner
<1>8. ClockMatchesTables'
  BY <1>1, <1>2 DEF ClockMatchesTables, ClockMatches, FramesOf
<1> QED
  BY <1>4, <1>5, <1>6, <1>7, <1>8

-----------------------------------------------------------------------------
(* REQUEST_PAGE_FAULT.                                                     *)

LEMMA ClockFacts ==
    ASSUME IInv, NEW p \in structures, NEW i \in DOMAIN FramesOf(p)
    PROVE  /\ FramesOf(p) \in Seq(ClockRow)
           /\ FramesOf(p)[i].frame_number \in Frame
           /\ FramesOf(p)[i].page \in PagesOf(p)
           /\ FramesOf(p)[i].page \in Present
           /\ row[FramesOf(p)[i].page].frame_number = FramesOf(p)[i].frame_number
<1>1. ClockMatches(p)
  BY DEF IInv, ClockMatchesTables
<1>2. p \in DOMAIN clock_structures
  BY DEF IInv, TypeOK
<1>3. FramesOf(p) \in Seq(ClockRow)
  BY <1>2 DEF IInv, TypeOK, Clock, FramesOf
<1>4. FramesOf(p)[i] \in ClockRow
  BY <1>3
<1>5. FramesOf(p)[i].page \in Live
  BY <1>1 DEF ClockMatches, Live
<1> QED
  BY <1>1, <1>3, <1>4, <1>5 DEF ClockMatches, ClockRow, Present

(* What a page fault changes in the tables of other processes: nothing.    *)
LEMMA OtherClocks ==
    ASSUME IInv, NEW p \in structures, NEW q \in structures, q # p,
           structures' = structures,
           clock_structures'[q] = clock_structures[q],
           \A pg \in Page \ PagesOf(p) : row'[pg] = row[pg]
    PROVE  ClockMatches(q)'
<1>1. p \in Process /\ q \in Process
  BY DEF IInv, TypeOK
<1>2. \A pg \in PagesOf(q) : row'[pg] = row[pg]
  BY <1>1, PagesApart, PageFacts
<1>3. FramesOf(q)' = FramesOf(q)
  BY DEF FramesOf
<1>4. ClockMatches(q)
  BY DEF IInv, ClockMatchesTables
<1> QED
  BY <1>2, <1>3, <1>4 DEF ClockMatches

(* No page keeps its place in the swap for long, but none loses it here.   *)
LEMMA SwapStays ==
    ASSUME IInv, structures' = structures, bitmap_swap' = bitmap_swap,
           \A pg \in Page : row'[pg].swap_position = row[pg].swap_position
    PROVE  Placed' /\ SwapHasOneOwner'
<1>1. Live' = Live /\ Live \subseteq Page
  BY LiveFacts DEF Live, IInv
<1>2. \A pg \in Live : row'[pg].swap_position = row[pg].swap_position
  BY <1>1
<1>3. {row'[pg].swap_position : pg \in Live} = {row[pg].swap_position : pg \in Live}
  BY <1>2
<1>4. Placed /\ SwapHasOneOwner
  BY DEF IInv
<1>5. Placed'
  BY <1>1, <1>2, <1>4 DEF Placed
<1>6. SwapHasOneOwner'
  BY <1>1, <1>2, <1>3, <1>4 DEF SwapHasOneOwner
<1> QED
  BY <1>5, <1>6

LEMMA FreeFrameKeeps ==
    ASSUME IInv, NEW p \in structures, NEW pg \in PagesOf(p), ~row[pg].presence,
           LoadInFreeFrame(pg)
    PROVE  IInv'
<1>1. /\ p \in Process /\ pg \in Page /\ Owner(pg) = p
      /\ p \in DOMAIN clock_structures
  BY PageFacts DEF IInv, TypeOK
<1>2. PICK f \in Frame :
        /\ Len(FramesOf(p)) # MARCOS_POR_PROCESO
        /\ find_page_free(bitmap_memory, f)
        /\ principal_memory' =
              [principal_memory EXCEPT ![f] = swap[row[pg].swap_position]]
        /\ bitmap_memory' = bitmap_memory \cup {f}
        /\ row' = [row EXCEPT ![pg] = In(@, f)]
        /\ clock_structures' = [clock_structures EXCEPT ![p].frames_in_memory =
                                  add_page_to_clock_structure(@, f, pg)]
        /\ UNCHANGED <<structures, bitmap_swap, swap, memory_alive>>
  BY <1>1 DEF LoadInFreeFrame
<1>3. pg \in Live /\ Live \subseteq Page /\ Live' = Live
  BY <1>2, LiveFacts DEF Live, IInv
<1>4. row \in [Page -> PageRow]
  BY DEF IInv, TypeOK
<1>5. row'[pg] = In(row[pg], f) /\ \A q \in Page : q # pg => row'[q] = row[q]
  BY <1>1, <1>2, <1>4
<1>6. row[pg] \in PageRow
  BY <1>1, <1>4
<1>7. /\ row'[pg] \in PageRow
      /\ row'[pg].frame_number = f
      /\ row'[pg].presence
      /\ row'[pg].swap_position = row[pg].swap_position
  BY <1>5, <1>6 DEF In, PageRow
<1>8. f \notin bitmap_memory
  BY <1>2 DEF find_page_free
<1> DEFINE c == FramesOf(p)
           e == [frame_number |-> f, page |-> pg]
<1>9. c \in Seq(ClockRow) /\ e \in ClockRow
  BY <1>1 DEF IInv, TypeOK, Clock, FramesOf, ClockRow
<1> DEFINE d == add_page_to_clock_structure(c, f, pg)
<1>10. /\ clock_structures'[p] = [clock_structures[p] EXCEPT
                                     !.frames_in_memory = d]
       /\ \A q \in DOMAIN clock_structures : q # p =>
             clock_structures'[q] = clock_structures[q]
       /\ DOMAIN clock_structures' = DOMAIN clock_structures
  BY <1>1, <1>2 DEF FramesOf
<1>11. clock_structures[p] \in Clock /\ d = Append(c, e)
  <2>1. FrameHasOneOwner
    BY DEF IInv
  <2>2. \A i \in DOMAIN c : c[i].frame_number \in bitmap_memory
    BY <2>1, ClockFacts DEF FrameHasOneOwner
  <2>3. d = Append(c, e)
    BY <1>8, <2>2 DEF add_page_to_clock_structure
  <2> QED
    BY <1>1, <2>3 DEF IInv, TypeOK
<1>12. /\ FramesOf(p)' = Append(c, e)
       /\ clock_structures'[p].pointer = clock_structures[p].pointer
       /\ clock_structures'[p] \in Clock
  <2>1. clock_structures'[p] = [clock_structures[p] EXCEPT
                                  !.frames_in_memory = Append(c, e)]
    BY <1>10, <1>11
  <2>2. Append(c, e) \in Seq(ClockRow)
    BY <1>9
  <2> HIDE DEF c, e, d
  <2> QED
    BY <1>11, <2>1, <2>2 DEF FramesOf, Clock
<1>13. TypeOK'
  <2>1. row' \in [Page -> PageRow]
    BY <1>2, <1>4, <1>7
  <2>2. clock_structures' \in [DOMAIN clock_structures' -> Clock]
    <3>1. clock_structures \in [DOMAIN clock_structures -> Clock]
      BY DEF IInv, TypeOK
    <3> QED
      BY <1>2, <1>10, <1>12, <3>1
  <2>3. principal_memory' \in [Frame -> Contents]
    <3>1. row[pg].swap_position \in Position
      BY <1>3 DEF IInv, Placed
    <3> QED
      BY <1>2, <3>1 DEF IInv, TypeOK
  <2> QED
    BY <1>2, <1>10, <2>1, <2>2, <2>3 DEF IInv, TypeOK
<1>14. Placed' /\ SwapHasOneOwner'
  BY <1>2, <1>5, <1>7, SwapStays
<1>15. FrameHasOneOwner'
  <2>1. Present' = Present \cup {pg} /\ pg \notin Present
    BY <1>3, <1>5, <1>7 DEF Present
  <2>2. FrameHasOneOwner
    BY DEF IInv
  <2>3. \A q \in Present : row'[q].frame_number = row[q].frame_number
                           /\ row'[q].frame_number \in bitmap_memory
    BY <1>3, <1>5, <2>1, <2>2 DEF Present, FrameHasOneOwner
  <2>4. \A a, b \in Present' : row'[a].frame_number = row'[b].frame_number => a = b
    BY <1>7, <1>8, <2>1, <2>2, <2>3 DEF FrameHasOneOwner
  <2>5. {row'[q].frame_number : q \in Present} = bitmap_memory
    BY <2>2, <2>3 DEF FrameHasOneOwner
  <2>6. bitmap_memory' = {row'[q].frame_number : q \in Present'}
    BY <1>2, <1>7, <2>1, <2>5
  <2> QED
    BY <2>4, <2>6 DEF FrameHasOneOwner
<1>16. ClockMatches(p)'
  <2>1. ClockMatches(p)
    BY DEF IInv, ClockMatchesTables
  <2>2. /\ Len(c) <= MARCOS_POR_PROCESO
        /\ Len(c) < MARCOS_POR_PROCESO => clock_structures[p].pointer = 0
        /\ \A i \in DOMAIN c : /\ c[i].page \in PagesOf(p)
                               /\ row[c[i].page].presence
                               /\ row[c[i].page].frame_number = c[i].frame_number
        /\ \A i, j \in DOMAIN c : c[i].page = c[j].page => i = j
        /\ \A q \in PagesOf(p) : row[q].presence => \E i \in DOMAIN c : c[i].page = q
    BY <2>1 DEF ClockMatches
  <2>3. \A i \in DOMAIN c : c[i].page # pg /\ row'[c[i].page] = row[c[i].page]
    BY <1>1, <1>5, <2>2, PageFacts
  <2>4. /\ Len(c) \in Nat /\ Len(d) = Len(c) + 1
        /\ DOMAIN d = DOMAIN c \cup {Len(c) + 1}
        /\ Len(c) + 1 \notin DOMAIN c
        /\ \A i \in DOMAIN c : d[i] = c[i]
        /\ d[Len(c) + 1] = e
    BY <1>9, <1>11
  <2>5. e.page = pg /\ e.frame_number = f
    OBVIOUS
  <2> HIDE DEF c, e, d
  <2>6. Len(d) <= MARCOS_POR_PROCESO /\ clock_structures'[p].pointer = 0
    BY <1>2, <1>12, <2>2, <2>4, MarcosAssumption DEF c
  <2>7. \A i \in DOMAIN d : /\ d[i].page \in PagesOf(p)
                            /\ row'[d[i].page].presence
                            /\ row'[d[i].page].frame_number = d[i].frame_number
    BY <1>7, <2>2, <2>3, <2>4, <2>5
  <2>8. \A i, j \in DOMAIN d : d[i].page = d[j].page => i = j
    BY <2>2, <2>3, <2>4, <2>5
  <2>9. ASSUME NEW q \in PagesOf(p), row'[q].presence
        PROVE  \E i \in DOMAIN d : d[i].page = q
    <3>1. CASE q = pg
      BY <2>4, <2>5, <3>1
    <3>2. CASE q # pg
      <4>1. row'[q] = row[q]
        BY <1>1, <1>5, <3>2, PageFacts
      <4>2. PICK i \in DOMAIN c : c[i].page = q
        BY <2>2, <2>9, <4>1
      <4> QED
        BY <2>4, <4>2
    <3> QED
      BY <3>1, <3>2
  <2>10. FramesOf(p)' = d
    BY <1>11, <1>12 DEF c, d, e
  <2> QED
    BY <2>6, <2>7, <2>8, <2>9, <2>10 DEF ClockMatches
<1>17. ASSUME NEW q \in structures, q # p PROVE ClockMatches(q)'
  <2>1. q \in DOMAIN clock_structures
    BY DEF IInv, TypeOK
  <2>2. \A r \in Page \ PagesOf(p) : row'[r] = row[r]
    BY <1>5
  <2>3. clock_structures'[q] = clock_structures[q] /\ structures' = structures
    BY <1>2, <1>10, <1>17, <2>1
  <2> QED
    BY <1>17, <2>2, <2>3, OtherClocks
<1>18. ClockMatchesTables'
  BY <1>2, <1>16, <1>17 DEF ClockMatchesTables
<1> QED
  BY <1>13, <1>14, <1>15, <1>18 DEF IInv

LEMMA ReplacingKeeps ==
    ASSUME IInv, NEW p \in structures, NEW pg \in PagesOf(p), ~row[pg].presence,
           LoadByReplacing(pg)
    PROVE  IInv'
<1>1. /\ p \in Process /\ pg \in Page /\ Owner(pg) = p
      /\ p \in DOMAIN clock_structures
  BY PageFacts DEF IInv, TypeOK
<1> DEFINE c == FramesOf(p)
<1>2. PICK v \in Row : Replace(p, pg, v)
  BY <1>1 DEF LoadByReplacing
<1>3. UNCHANGED <<structures, bitmap_swap, memory_alive>>
      /\ Len(c) = MARCOS_POR_PROCESO
  BY <1>1, <1>2 DEF LoadByReplacing, Replace
<1> DEFINE out == PageAt(p, v)
           f   == c[v + 1].frame_number
           cleared == {PageAt(p, i) : i \in Cleared(ALGORITMO_REEMPLAZO,
                                   BitsOf(p), clock_structures[p].pointer, v)}
<1>4. c \in Seq(ClockRow) /\ v + 1 \in DOMAIN c /\ v + 1 \in 1 .. Len(c)
  <2>1. c \in Seq(ClockRow)
    BY <1>1 DEF IInv, TypeOK, Clock, FramesOf
  <2> QED
    BY <1>3, <2>1, MarcosAssumption DEF Row
<1>5. /\ f \in Frame /\ out \in PagesOf(p) /\ out \in Present
      /\ row[out].frame_number = f
  BY <1>4, ClockFacts DEF PageAt
<1>6. /\ pg \in Live /\ out \in Live /\ Live \subseteq Page /\ Live' = Live
      /\ out \in Page /\ pg # out /\ pg \notin Present
  BY <1>3, <1>5, LiveFacts DEF Live, IInv, Present
<1>7. row \in [Page -> PageRow] /\ row[pg] \in PageRow /\ row[out] \in PageRow
  BY <1>1, <1>6 DEF IInv, TypeOK
<1>8. /\ row' = [q \in Page |-> IF q = pg THEN In(row[q], f)
                    ELSE IF q = out THEN Out(row[q])
                    ELSE IF q \in cleared THEN [row[q] EXCEPT !.use = FALSE]
                    ELSE row[q]]
  BY <1>2 DEF Replace, RowsAfterReplacing
<1>9. /\ row'[pg] \in PageRow
      /\ row'[pg].frame_number = f
      /\ row'[pg].presence
      /\ row'[pg].swap_position = row[pg].swap_position
  <2>1. row'[pg] = In(row[pg], f)
    BY <1>1, <1>8
  <2> QED
    BY <1>5, <1>7, <2>1 DEF In, PageRow
<1>10. /\ row'[out] \in PageRow
       /\ ~row'[out].presence
       /\ row'[out].swap_position = row[out].swap_position
  <2>1. row'[out] = Out(row[out])
    BY <1>6, <1>8
  <2>2. row'[out].presence = FALSE
    BY <1>7, <2>1 DEF Out, PageRow
  <2> QED
    BY <1>7, <2>1, <2>2 DEF Out, PageRow
<1>11. ASSUME NEW q \in Page, q # pg, q # out
       PROVE  /\ row'[q] \in PageRow
              /\ row'[q].frame_number = row[q].frame_number
              /\ row'[q].presence = row[q].presence
              /\ row'[q].swap_position = row[q].swap_position
  <2>1. row[q] \in PageRow
    BY <1>7
  <2>2. row'[q] = row[q] \/ row'[q] = [row[q] EXCEPT !.use = FALSE]
    BY <1>8, <1>11
  <2> QED
    BY <2>1, <2>2 DEF PageRow
<1> DEFINE d == [c EXCEPT ![v + 1].page = pg]
<1>12. clock_structures'[p] = [frames_in_memory |-> d,
                               pointer |-> move_to_next_pointer(v)]
  <2> DEFINE holding == {i \in DOMAIN c : c[i].frame_number = f}
  <2>1. ClockMatches(p) /\ FrameHasOneOwner
    BY DEF IInv, ClockMatchesTables
  <2>2. ASSUME NEW i \in holding PROVE i = v + 1
    <3>1. c[i].page \in Present /\ row[c[i].page].frame_number = f
      BY ClockFacts
    <3>2. c[i].page = c[v + 1].page
      BY <1>5, <2>1, <3>1 DEF FrameHasOneOwner, PageAt
    <3> QED
      BY <1>4, <2>1, <3>2 DEF ClockMatches
  <2>3. holding = {v + 1}
    BY <1>4, <2>2
  <2>4. v + 1 \in Nat
    BY <1>4
  <2>5. (CHOOSE i \in holding : \A j \in holding : i <= j) = v + 1
    BY <2>3, <2>4
  <2>6. add_page_to_clock_structure(c, f, pg) = d
    BY <2>3, <2>5 DEF add_page_to_clock_structure
  <2> QED
    BY <1>1, <1>2, <2>6 DEF Replace, FramesOf
<1>13. FramesOf(p)' = d /\ clock_structures'[p].pointer = move_to_next_pointer(v)
  BY <1>12 DEF FramesOf
<1>14. /\ DOMAIN clock_structures' = DOMAIN clock_structures
       /\ \A q \in DOMAIN clock_structures : q # p =>
             clock_structures'[q] = clock_structures[q]
  BY <1>2 DEF Replace
<1>15. /\ c[v + 1] \in ClockRow
       /\ d[v + 1] = [frame_number |-> f, page |-> pg]
       /\ \A i \in DOMAIN c : i # v + 1 => d[i] = c[i]
       /\ DOMAIN d = DOMAIN c /\ Len(d) = Len(c) /\ d \in Seq(ClockRow)
  <2>1. c[v + 1] \in ClockRow
    BY <1>4
  <2>2. d[v + 1] = [frame_number |-> f, page |-> pg]
    BY <1>4, <2>1 DEF ClockRow
  <2>3. d[v + 1] \in ClockRow
    BY <1>1, <1>5, <2>2 DEF ClockRow
  <2>4. \A i \in DOMAIN c : i # v + 1 => d[i] = c[i]
    OBVIOUS
  <2>5. d = [i \in 1 .. Len(c) |-> IF i = v + 1 THEN d[v + 1] ELSE c[i]]
    BY <1>4
  <2>6. \A i \in 1 .. Len(c) : d[i] \in ClockRow
    BY <1>4, <2>3, <2>4
  <2>7. Len(c) \in Nat
    BY <1>4
  <2>8. d \in Seq(ClockRow) /\ Len(d) = Len(c) /\ DOMAIN d = DOMAIN c
    BY <1>4, <2>5, <2>6, <2>7
  <2> QED
    BY <2>1, <2>2, <2>4, <2>8
<1>16. TypeOK'
  <2>1. row' \in [Page -> PageRow]
    BY <1>8, <1>9, <1>10, <1>11
  <2>2. move_to_next_pointer(v) \in Row
    BY MarcosAssumption DEF move_to_next_pointer, Row
  <2>3. clock_structures'[p] \in Clock
    BY <1>12, <1>15, <2>2 DEF Clock
  <2>4. clock_structures' \in [DOMAIN clock_structures' -> Clock]
    <3>1. clock_structures \in [DOMAIN clock_structures -> Clock]
      BY DEF IInv, TypeOK
    <3> QED
      BY <1>2, <1>14, <2>3, <3>1 DEF Replace
  <2>5. swap' \in [Position -> Contents]
    <3>1. swap \in [Position -> Contents] /\ principal_memory \in [Frame -> Contents]
      BY DEF IInv, TypeOK
    <3> QED
      BY <1>2, <1>5, <3>1 DEF Replace, SwapAfterEviction
  <2>6. principal_memory' \in [Frame -> Contents]
    <3>1. row[pg].swap_position \in Position
      BY <1>6 DEF IInv, Placed
    <3>2. principal_memory \in [Frame -> Contents]
      BY DEF IInv, TypeOK
    <3> QED
      BY <1>2, <2>5, <3>1, <3>2 DEF Replace
  <2>7. bitmap_memory' \subseteq Frame
    BY <1>2, <1>5 DEF Replace, IInv, TypeOK
  <2> QED
    BY <1>3, <1>14, <2>1, <2>4, <2>5, <2>6, <2>7 DEF IInv, TypeOK
<1>17. Placed' /\ SwapHasOneOwner'
  BY <1>3, <1>9, <1>10, <1>11, SwapStays
<1>18. FrameHasOneOwner'
  <2>1. FrameHasOneOwner
    BY DEF IInv
  <2>2. Present' = (Present \ {out}) \cup {pg}
    BY <1>6, <1>9, <1>10, <1>11 DEF Present
  <2>3. \A q \in Present \ {out} : /\ row'[q].frame_number = row[q].frame_number
                                   /\ row'[q].frame_number # f
                                   /\ row'[q].frame_number \in bitmap_memory
    BY <1>5, <1>6, <1>11, <2>1 DEF FrameHasOneOwner, Present
  <2>4. \A a, b \in Present' : row'[a].frame_number = row'[b].frame_number => a = b
    BY <1>9, <2>1, <2>2, <2>3 DEF FrameHasOneOwner
  <2>5. bitmap_memory' = bitmap_memory
    BY <1>2, <1>5, <2>1 DEF Replace, FrameHasOneOwner
  <2>6. bitmap_memory = {row[q].frame_number : q \in Present \ {out}} \cup {f}
    BY <1>5, <2>1 DEF FrameHasOneOwner
  <2>7. {row'[q].frame_number : q \in Present \ {out}}
          = {row[q].frame_number : q \in Present \ {out}}
    BY <2>3
  <2>8. {row'[q].frame_number : q \in Present'}
          = {row'[q].frame_number : q \in Present \ {out}} \cup {f}
    BY <1>9, <2>2
  <2> QED
    BY <2>4, <2>5, <2>6, <2>7, <2>8 DEF FrameHasOneOwner
<1>19. ClockMatches(p)'
  <2>1. ClockMatches(p)
    BY DEF IInv, ClockMatchesTables
  <2>2. /\ \A i \in DOMAIN c : /\ c[i].page \in PagesOf(p)
                               /\ row[c[i].page].presence
                               /\ row[c[i].page].frame_number = c[i].frame_number
        /\ \A i, j \in DOMAIN c : c[i].page = c[j].page => i = j
        /\ \A q \in PagesOf(p) : row[q].presence => \E i \in DOMAIN c : c[i].page = q
    BY <2>1 DEF ClockMatches
  <2>3. c[v + 1].page = out
    BY DEF PageAt
  <2>4. /\ d[v + 1].page = pg /\ d[v + 1].frame_number = f
        /\ \A i \in DOMAIN c : i # v + 1 => d[i].page = c[i].page
                                            /\ d[i].frame_number = c[i].frame_number
        /\ DOMAIN d = DOMAIN c /\ Len(d) = Len(c)
        /\ v + 1 \in DOMAIN c
    BY <1>4, <1>15
  <2>5. PagesOf(p) \subseteq Page
    BY <1>1, PageFacts
  <2>6. Len(d) = MARCOS_POR_PROCESO
    BY <1>3, <2>4
  <2> HIDE DEF c, d, out, f
  <2>7. \A i \in DOMAIN c : i # v + 1 => c[i].page # pg /\ c[i].page # out
    BY <1>6, <2>2, <2>3, <2>4
  <2>8. \A i \in DOMAIN d : /\ d[i].page \in PagesOf(p)
                            /\ row'[d[i].page].presence
                            /\ row'[d[i].page].frame_number = d[i].frame_number
    BY <1>9, <1>11, <2>2, <2>4, <2>5, <2>7
  <2>9. \A i, j \in DOMAIN d : d[i].page = d[j].page => i = j
    BY <2>2, <2>4, <2>7
  <2>10. ASSUME NEW q \in PagesOf(p), row'[q].presence
         PROVE  \E i \in DOMAIN d : d[i].page = q
    <3>1. CASE q = pg
      BY <2>4, <3>1
    <3>2. CASE q # pg
      <4>1. q # out
        BY <1>10, <2>10
      <4>2. row[q].presence
        BY <1>11, <2>5, <2>10, <3>2, <4>1
      <4>3. PICK i \in DOMAIN c : c[i].page = q
        BY <2>2, <4>2
      <4>4. i # v + 1
        BY <2>3, <4>1, <4>3
      <4> QED
        BY <2>4, <4>3, <4>4
    <3> QED
      BY <3>1, <3>2
  <2>11. FramesOf(p)' = d
    BY <1>13
  <2>12. MARCOS_POR_PROCESO \in Nat
    BY MarcosAssumption
  <2> QED
    BY <2>6, <2>8, <2>9, <2>10, <2>11, <2>12 DEF ClockMatches
<1>20. ASSUME NEW q \in structures, q # p PROVE ClockMatches(q)'
  <2>1. q \in DOMAIN clock_structures
    BY DEF IInv, TypeOK
  <2>2. \A r \in Page \ PagesOf(p) : row'[r] = row[r]
    <3>1. \A i \in Row : i + 1 \in DOMAIN c
      BY <1>3, <1>4, MarcosAssumption DEF Row
    <3>2. \A i \in Row : PageAt(p, i) \in PagesOf(p)
      BY <3>1, ClockFacts DEF PageAt
    <3>3. cleared \subseteq PagesOf(p)
      BY <3>2 DEF Cleared
    <3> QED
      BY <1>5, <1>8, <3>3
  <2>3. clock_structures'[q] = clock_structures[q] /\ structures' = structures
    BY <1>3, <1>14, <1>20, <2>1
  <2> QED
    BY <1>20, <2>2, <2>3, OtherClocks
<1>21. ClockMatchesTables'
  BY <1>3, <1>19, <1>20 DEF ClockMatchesTables
<1> QED
  BY <1>16, <1>17, <1>18, <1>21 DEF IInv

-----------------------------------------------------------------------------
(* Which pages come in.                                                    *)

(* A page fault of a process brings in no page of another one.             *)
LEMMA OthersStayOut ==
    ASSUME IInv, NEW p \in structures, NEW pg \in PagesOf(p), request_page_fault(pg),
           NEW q \in Page \ PagesOf(p)
    PROVE  row'[q].presence = row[q].presence
<1>1. p \in Process /\ pg \in Page /\ Owner(pg) = p /\ row \in [Page -> PageRow]
  BY PageFacts DEF IInv, TypeOK
<1>2. CASE LoadByReplacing(pg)
  <2>1. PICK v \in Row : Replace(p, pg, v)
    BY <1>1, <1>2 DEF LoadByReplacing
  <2> DEFINE out == PageAt(p, v)
             cleared == {PageAt(p, i) : i \in Cleared(ALGORITMO_REEMPLAZO,
                                     BitsOf(p), clock_structures[p].pointer, v)}
  <2>2. out \in PagesOf(p)
    <3>1. FramesOf(p) \in Seq(ClockRow) /\ Len(FramesOf(p)) = MARCOS_POR_PROCESO
      BY <1>1, <1>2 DEF LoadByReplacing, IInv, TypeOK, Clock, FramesOf
    <3>2. v + 1 \in DOMAIN FramesOf(p)
      BY <3>1, MarcosAssumption DEF Row
    <3> QED
      BY <3>2, ClockFacts DEF PageAt
  <2>3. row'[q] = IF q \in cleared THEN [row[q] EXCEPT !.use = FALSE] ELSE row[q]
    BY <2>1, <2>2 DEF Replace, RowsAfterReplacing
  <2> HIDE DEF cleared
  <2> QED
    BY <1>1, <2>3 DEF PageRow
<1>3. CASE LoadInFreeFrame(pg) \/ LoadNowhere(pg)
  BY <1>1, <1>3 DEF LoadInFreeFrame, LoadNowhere, MemoryDies
<1> QED
  BY <1>2, <1>3 DEF request_page_fault

(* No other request brings in a page.                                      *)
LEMMA NoneComesIn ==
    ASSUME IInv, NEW q \in Page, row'[q].presence,
           \/ \E p \in Process : BuildTables(p) \/ SwapFull(p) \/ delete_process(p)
           \/ \E pg \in Page : mov_in(pg)
           \/ \E p \in Process : \E s, f, o, value : mov_out(p, s, f, o, value)
    PROVE  row[q].presence
<1>1. row \in [Page -> PageRow]
  BY DEF IInv, TypeOK
<1>2. CASE \E p \in Process : BuildTables(p) \/ SwapFull(p) \/ delete_process(p)
  BY <1>2 DEF BuildTables, SwapFull, delete_process, MemoryDies, NewRow
<1>3. ASSUME NEW pg \in Page, mov_in(pg) PROVE row[q].presence
  BY <1>1, <1>3 DEF mov_in, PageRow
<1>4. ASSUME NEW p \in Process, NEW s, NEW f, NEW o, NEW value, mov_out(p, s, f, o, value)
      PROVE  row[q].presence
  <2>1. CASE save_value_in_memory(p, s, f, o, value)
    <3>1. PICK pg : row' = [row EXCEPT ![pg].modified = TRUE]
      BY <2>1 DEF save_value_in_memory
    <3>2. row'[q] = row[q] \/ row'[q] = [row[q] EXCEPT !.modified = TRUE]
      BY <1>1, <3>1
    <3> QED
      BY <1>1, <3>2 DEF PageRow
  <2>2. CASE NoRowForFrame(p, s, f)
    BY <2>2 DEF NoRowForFrame, MemoryDies
  <2> QED
    BY <1>4, <2>1, <2>2 DEF mov_out
<1> QED
  BY <1>2, <1>3, <1>4

-----------------------------------------------------------------------------
(* What a page holds, wherever it is.                                      *)

Stored(pg) == IF row[pg].presence THEN principal_memory[row[pg].frame_number]
                                  ELSE swap[row[pg].swap_position]

(* A page that was not written since it came in is as it is in the swap.   *)
Clean ==
    \A pg \in Present :
        ~row[pg].modified
          => principal_memory[row[pg].frame_number] = swap[row[pg].swap_position]

LEMMA StoredType ==
    ASSUME IInv, NEW pg \in Live
    PROVE  Stored(pg) \in Contents
<1>1. /\ principal_memory \in [Frame -> Contents] /\ swap \in [Position -> Contents]
      /\ row[pg].swap_position \in Position
  BY DEF IInv, TypeOK, Placed
<1>2. row[pg].presence => row[pg].frame_number \in Frame
  BY DEF IInv, TypeOK, FrameHasOneOwner, Present
<1> QED
  BY <1>1, <1>2 DEF Stored

(* A step that moves no page and writes no contents.                       *)
LEMMA NothingMoves ==
    ASSUME IInv, Clean, Live' \subseteq Live, UNCHANGED <<principal_memory, swap>>,
           \A pg \in Live' : /\ row'[pg].frame_number = row[pg].frame_number
                             /\ row'[pg].presence = row[pg].presence
                             /\ row'[pg].modified = row[pg].modified
                             /\ row'[pg].swap_position = row[pg].swap_position
    PROVE  Clean' /\ \A pg \in Live' : Stored(pg)' = Stored(pg)
  BY DEF Clean, Stored, Present

(* MOV_IN changes a use bit.                                               *)
LEMMA MovInStores ==
    ASSUME IInv, Clean, NEW pg, mov_in(pg)
    PROVE  /\ Clean' /\ \A q \in Live : Stored(q)' = Stored(q)
           /\ \A q \in Page : /\ row'[q].frame_number = row[q].frame_number
                              /\ row'[q].presence = row[q].presence
<1>1. row \in [Page -> PageRow] /\ Live \subseteq Page /\ Live' = Live
  BY LiveFacts DEF IInv, TypeOK, mov_in, Live
<1>2. PICK used : row' = [q \in Page |-> IF q \in used
                                           THEN [row[q] EXCEPT !.use = TRUE]
                                           ELSE row[q]]
  BY DEF mov_in
<1>3. \A q \in Page : /\ row'[q].frame_number = row[q].frame_number
                      /\ row'[q].presence = row[q].presence
                      /\ row'[q].modified = row[q].modified
                      /\ row'[q].swap_position = row[q].swap_position
  BY <1>1, <1>2 DEF PageRow
<1> QED
  BY <1>1, <1>3, NothingMoves DEF mov_in

(* MOV_OUT writes one word of the page that is in the frame, and marks it. *)
LEMMA MovOutStores ==
    ASSUME IInv, Clean, NEW p \in structures, NEW pg \in PagesOf(p), row[pg].presence,
           NEW s, pg \in Page_table(p, s),
           NEW o \in Offset, NEW value \in Word,
           mov_out(p, s, row[pg].frame_number, o, value)
    PROVE  /\ Clean'
           /\ Stored(pg)' = [Stored(pg) EXCEPT ![o] = value]
           /\ \A q \in Live \ {pg} : Stored(q)' = Stored(q)
           /\ \A q \in Page : /\ row'[q].frame_number = row[q].frame_number
                              /\ row'[q].presence = row[q].presence
           /\ UNCHANGED <<structures, clock_structures, bitmap_memory, bitmap_swap, memory_alive>>
<1> DEFINE f == row[pg].frame_number
<1>1. /\ row \in [Page -> PageRow] /\ principal_memory \in [Frame -> Contents]
      /\ Live \subseteq Page /\ pg \in Live /\ pg \in Present /\ f \in Frame
      /\ pg \in Page /\ p \in Process
  BY LiveFacts DEF IInv, TypeOK, Live, Present, FrameHasOneOwner
<1>2. InFrame(p, s, f) = {pg}
  <2>1. pg \in InFrame(p, s, f)
    BY DEF InFrame
  <2>2. ASSUME NEW q \in InFrame(p, s, f) PROVE q = pg
    <3>1. q \in Page_table(p, s) /\ row[q].presence /\ row[q].frame_number = f
      BY DEF InFrame
    <3>2. \E n : q = <<p, s, n>>
      BY <3>1 DEF Page_table
    <3>3. s \in 0 .. Len(Segments[p]) - 1
      <4>1. PICK t \in 0 .. Len(Segments[p]) - 1 : pg \in Page_table(p, t)
        BY DEF PagesOf
      <4>2. pg[2] = s /\ pg[2] = t
        BY <4>1 DEF Page_table
      <4> QED
        BY <4>1, <4>2
    <3>4. q \in Present
      BY <3>1, <3>3 DEF Present, Live, PagesOf
    <3> QED
      BY <1>1, <3>1, <3>4 DEF IInv, FrameHasOneOwner
  <2> QED
    BY <2>1, <2>2
<1>3. save_value_in_memory(p, s, f, o, value)
  BY <1>2 DEF mov_out, NoRowForFrame
<1>4. (CHOOSE q \in InFrame(p, s, f) : \A r \in InFrame(p, s, f) : q[3] <= r[3]) = pg
  <2>1. pg[3] <= pg[3]
    BY <1>1, PageFacts
  <2> QED
    BY <1>2, <2>1
<1>5. /\ row' = [row EXCEPT ![pg].modified = TRUE]
      /\ principal_memory' = [principal_memory EXCEPT ![f][o] = value]
      /\ UNCHANGED <<structures, swap>> /\ Live' = Live
      /\ UNCHANGED <<structures, clock_structures, bitmap_memory, bitmap_swap, memory_alive>>
  BY <1>3, <1>4 DEF save_value_in_memory, Live
<1>6. /\ \A q \in Page : /\ row'[q].frame_number = row[q].frame_number
                         /\ row'[q].presence = row[q].presence
                         /\ row'[q].swap_position = row[q].swap_position
                         /\ q # pg => row'[q].modified = row[q].modified
      /\ row'[pg].modified
  BY <1>1, <1>5 DEF PageRow
<1>7. \A q \in Present \ {pg} : row[q].frame_number # f
  BY <1>1 DEF IInv, FrameHasOneOwner
<1>8. /\ principal_memory'[f] = [principal_memory[f] EXCEPT ![o] = value]
      /\ \A g \in Frame : g # f => principal_memory'[g] = principal_memory[g]
  BY <1>1, <1>5
<1>9. \A q \in Present : row[q].frame_number \in Frame
  BY DEF IInv, TypeOK, FrameHasOneOwner
<1>10. Stored(pg)' = [Stored(pg) EXCEPT ![o] = value]
  BY <1>1, <1>6, <1>8 DEF Stored, Present
<1>11. \A q \in Live \ {pg} : Stored(q)' = Stored(q)
  BY <1>1, <1>5, <1>6, <1>7, <1>8, <1>9 DEF Stored, Present
<1>12. Present' = Present /\ Present \subseteq Page
  BY <1>1, <1>5, <1>6 DEF Present
<1>13. Clean'
  BY <1>5, <1>6, <1>7, <1>8, <1>9, <1>12 DEF Clean
<1> QED
  BY <1>5, <1>6, <1>10, <1>11, <1>13

(* New tables have nothing in memory.                                      *)
LEMMA BuildTablesStores ==
    ASSUME IInv, Clean, NEW p \in Process \ DOMAIN clock_structures, BuildTables(p)
    PROVE  /\ Clean' /\ \A q \in Live : Stored(q)' = Stored(q)
           /\ \A q \in Page \ PagesOf(p) : row'[q] = row[q]
           /\ structures' = structures \cup {p} /\ UNCHANGED memory_alive
           /\ \A pg \in PagesOf(p) : ~row'[pg].presence
<1>1. PICK position \in [PagesOf(p) -> Position \ bitmap_swap] :
        /\ row' = [pg \in Page |-> IF pg \in PagesOf(p) THEN NewRow(position[pg])
                                                       ELSE row[pg]]
        /\ structures' = structures \cup {p}
        /\ UNCHANGED <<principal_memory, swap, memory_alive>>
  BY DEF BuildTables
<1>2. PagesOf(p) \subseteq Page /\ Live \subseteq Page /\ PagesOf(p) \cap Live = {}
      /\ Live' = Live \cup PagesOf(p)
  BY <1>1, PageFacts, LiveFacts, PagesApart DEF IInv, TypeOK, Live
<1>3. \A pg \in PagesOf(p) : ~row'[pg].presence
  BY <1>1, <1>2 DEF NewRow
<1>4. \A pg \in Live : row'[pg] = row[pg]
  BY <1>1, <1>2
<1>5. Present' = Present
  BY <1>2, <1>3, <1>4 DEF Present
<1>6. Clean' /\ \A q \in Live : Stored(q)' = Stored(q)
  BY <1>1, <1>4, <1>5 DEF Clean, Stored, Present
<1> QED
  BY <1>1, <1>3, <1>6

LEMMA DeleteStores ==
    ASSUME IInv, Clean, NEW p \in structures, delete_process(p)
    PROVE  /\ Clean' /\ \A q \in Live' : Stored(q)' = Stored(q)
           /\ structures' = structures \ {p} /\ UNCHANGED <<row, memory_alive>>
  BY NothingMoves DEF delete_process, Live

(* A page that comes in to a free frame brings what it had in the swap.    *)
LEMMA FreeFrameStores ==
    ASSUME IInv, Clean, NEW p \in structures, NEW pg \in PagesOf(p), ~row[pg].presence,
           LoadInFreeFrame(pg)
    PROVE  /\ Clean' /\ \A q \in Live : Stored(q)' = Stored(q)
           /\ \A q \in Page \ {pg} : row'[q] = row[q]
           /\ UNCHANGED <<structures, memory_alive>>
<1>1. p \in Process /\ pg \in Page /\ Owner(pg) = p
  BY PageFacts DEF IInv, TypeOK
<1>2. PICK f \in Frame :
        /\ find_page_free(bitmap_memory, f)
        /\ principal_memory' =
              [principal_memory EXCEPT ![f] = swap[row[pg].swap_position]]
        /\ row' = [row EXCEPT ![pg] = In(@, f)]
        /\ UNCHANGED <<structures, bitmap_swap, swap, memory_alive>>
  BY <1>1 DEF LoadInFreeFrame
<1>3. /\ row \in [Page -> PageRow] /\ principal_memory \in [Frame -> Contents]
      /\ pg \in Live /\ Live \subseteq Page /\ Live' = Live
  BY <1>2, LiveFacts DEF IInv, TypeOK, Live
<1>4. row'[pg] = In(row[pg], f) /\ \A q \in Page \ {pg} : row'[q] = row[q]
  BY <1>1, <1>2, <1>3
<1>5. row'[pg].frame_number = f /\ row'[pg].presence
      /\ row'[pg].swap_position = row[pg].swap_position
  BY <1>1, <1>3, <1>4 DEF In, PageRow
<1>6. \A q \in Present : row[q].frame_number # f /\ row[q].frame_number \in Frame
  BY <1>2 DEF IInv, TypeOK, FrameHasOneOwner, find_page_free
<1>7. /\ principal_memory'[f] = swap[row[pg].swap_position]
      /\ \A g \in Frame : g # f => principal_memory'[g] = principal_memory[g]
  BY <1>2, <1>3
<1>8. Present' = Present \cup {pg} /\ pg \notin Present
  BY <1>3, <1>4, <1>5 DEF Present
<1>9. Clean'
  BY <1>2, <1>3, <1>4, <1>5, <1>6, <1>7, <1>8 DEF Clean, Present
<1>10. Stored(pg)' = Stored(pg)
  BY <1>2, <1>5, <1>7 DEF Stored
<1>11. \A q \in Live \ {pg} : Stored(q)' = Stored(q)
  BY <1>2, <1>3, <1>4, <1>6, <1>7 DEF Stored, Present
<1> QED
  BY <1>2, <1>4, <1>9, <1>10, <1>11

(* The page that leaves a frame goes to the swap if it was written, and is *)
(* there already if it was not; no other page loses its contents.          *)
LEMMA ReplacingStores ==
    ASSUME IInv, Clean, NEW p \in structures, NEW pg \in PagesOf(p), ~row[pg].presence,
           LoadByReplacing(pg)
    PROVE  /\ Clean' /\ \A q \in Live : Stored(q)' = Stored(q)
           /\ \A q \in Page \ PagesOf(p) : row'[q] = row[q]
           /\ UNCHANGED <<structures, memory_alive>>
           /\ Len(FramesOf(p)) = MARCOS_POR_PROCESO
<1>1. p \in Process /\ pg \in Page /\ Owner(pg) = p /\ p \in DOMAIN clock_structures
  BY PageFacts DEF IInv, TypeOK
<1> DEFINE c == FramesOf(p)
<1>2. Len(c) = MARCOS_POR_PROCESO /\ c \in Seq(ClockRow)
  BY <1>1 DEF LoadByReplacing, IInv, TypeOK, Clock, FramesOf
<1>3. PICK v \in Row : Replace(p, pg, v)
  BY <1>1 DEF LoadByReplacing
<1>4. \A i \in Row : i + 1 \in DOMAIN c
  BY <1>2, MarcosAssumption DEF Row
<1>5. PICK out \in Present, f \in Frame, cleared \in SUBSET PagesOf(p) :
        /\ out \in PagesOf(p) /\ row[out].frame_number = f
        /\ swap' = IF row[out].modified
                     THEN [swap EXCEPT ![row[out].swap_position] = principal_memory[f]]
                     ELSE swap
        /\ principal_memory' = [principal_memory EXCEPT ![f] = swap'[row[pg].swap_position]]
        /\ row' = [q \in Page |-> IF q = pg THEN In(row[q], f)
                      ELSE IF q = out THEN Out(row[q])
                      ELSE IF q \in cleared THEN [row[q] EXCEPT !.use = FALSE]
                      ELSE row[q]]
  <2> DEFINE out == PageAt(p, v)
             f   == c[v + 1].frame_number
             cleared == {PageAt(p, i) : i \in Cleared(ALGORITMO_REEMPLAZO,
                                     BitsOf(p), clock_structures[p].pointer, v)}
  <2>1. /\ f \in Frame /\ out \in PagesOf(p) /\ out \in Present
        /\ row[out].frame_number = f
    BY <1>4, ClockFacts DEF PageAt
  <2>2. cleared \in SUBSET PagesOf(p)
    BY <1>4, ClockFacts DEF PageAt, Cleared
  <2>3. /\ swap' = IF row[out].modified
                     THEN [swap EXCEPT ![row[out].swap_position] =
                                           principal_memory[row[out].frame_number]]
                     ELSE swap
        /\ principal_memory' = [principal_memory EXCEPT ![f] = swap'[row[pg].swap_position]]
        /\ row' = [q \in Page |-> IF q = pg THEN In(row[q], f)
                      ELSE IF q = out THEN Out(row[q])
                      ELSE IF q \in cleared THEN [row[q] EXCEPT !.use = FALSE]
                      ELSE row[q]]
    BY <1>3 DEF Replace, SwapAfterEviction, RowsAfterReplacing
  <2> HIDE DEF out, f, cleared
  <2> QED
    BY <2>1, <2>2, <2>3
<1>6. UNCHANGED <<structures, memory_alive>>
  BY <1>3 DEF Replace
<1>7. out \in Live
  BY DEF Present
<1> HIDE DEF c
<1>8. /\ row \in [Page -> PageRow] /\ principal_memory \in [Frame -> Contents]
      /\ swap \in [Position -> Contents]
      /\ pg \in Live /\ Live \subseteq Page /\ Live' = Live /\ pg # out
  BY <1>5, <1>6, <1>7, LiveFacts DEF IInv, TypeOK, Live, Present
<1>9. /\ row[pg].swap_position \in Position /\ row[out].swap_position \in Position
      /\ \A q \in Live : row[q].swap_position \in Position
      /\ \A q \in Live \ {out} : row[q].swap_position # row[out].swap_position
  BY <1>7, <1>8 DEF IInv, Placed, SwapHasOneOwner
<1>10. /\ row'[pg].frame_number = f /\ row'[pg].presence
       /\ row'[pg].swap_position = row[pg].swap_position
  <2>1. row'[pg] = In(row[pg], f) /\ row[pg] \in PageRow
    BY <1>1, <1>5, <1>8
  <2> QED
    BY <2>1 DEF In, PageRow
<1>11. ~row'[out].presence /\ row'[out].swap_position = row[out].swap_position
  <2>1. row'[out] = Out(row[out]) /\ row[out] \in PageRow
    BY <1>5, <1>7, <1>8
  <2>2. row'[out].presence = FALSE /\ row'[out].swap_position = row[out].swap_position
    BY <2>1 DEF Out, PageRow
  <2> QED
    BY <2>2
<1>12. ASSUME NEW q \in Page \ {pg, out}
       PROVE  /\ row'[q].frame_number = row[q].frame_number
              /\ row'[q].presence = row[q].presence
              /\ row'[q].modified = row[q].modified
              /\ row'[q].swap_position = row[q].swap_position
  <2>1. row[q] \in PageRow
    BY <1>8
  <2>2. row'[q] = row[q] \/ row'[q] = [row[q] EXCEPT !.use = FALSE]
    BY <1>5
  <2> QED
    BY <2>1, <2>2 DEF PageRow
<1>13. /\ swap'[row[out].swap_position] = principal_memory[f]
       /\ \A i \in Position : i # row[out].swap_position => swap'[i] = swap[i]
  <2>1. ~row[out].modified => principal_memory[f] = swap[row[out].swap_position]
    BY <1>5 DEF Clean
  <2> QED
    BY <1>5, <1>8, <1>9, <2>1
<1>14. /\ principal_memory'[f] = swap[row[pg].swap_position]
       /\ principal_memory'[f] = swap'[row[pg].swap_position]
       /\ \A g \in Frame : g # f => principal_memory'[g] = principal_memory[g]
  BY <1>5, <1>8, <1>9, <1>13
<1>15. /\ \A q \in Present : row[q].frame_number \in Frame
       /\ \A q \in Present \ {out} : row[q].frame_number # f
  BY <1>5 DEF IInv, TypeOK, FrameHasOneOwner
<1>16. Stored(pg)' = Stored(pg) /\ Stored(out)' = Stored(out)
  BY <1>5, <1>10, <1>11, <1>13, <1>14 DEF Stored, Present
<1>17. ASSUME NEW q \in Live \ {pg, out} PROVE Stored(q)' = Stored(q)
  <2>1. /\ row'[q].frame_number = row[q].frame_number
        /\ row'[q].presence = row[q].presence
        /\ row'[q].swap_position = row[q].swap_position
    BY <1>8, <1>12
  <2>2. swap'[row[q].swap_position] = swap[row[q].swap_position]
    BY <1>9, <1>13
  <2>3. row[q].presence => principal_memory'[row[q].frame_number]
                             = principal_memory[row[q].frame_number]
    BY <1>14, <1>15 DEF Present
  <2> QED
    BY <2>1, <2>2, <2>3 DEF Stored
<1>18. Clean'
  <2>1. Present' = (Present \ {out}) \cup {pg}
    BY <1>7, <1>8, <1>10, <1>11, <1>12 DEF Present
  <2>2. ASSUME NEW q \in Present \ {out}, q # pg, ~row'[q].modified
        PROVE  principal_memory'[row'[q].frame_number] = swap'[row'[q].swap_position]
    <3>1. q \in Live /\ q \in Page
      BY <1>8 DEF Present
    <3>2. /\ row'[q].frame_number = row[q].frame_number
          /\ row'[q].modified = row[q].modified
          /\ row'[q].swap_position = row[q].swap_position
      BY <1>12, <2>2, <3>1
    <3>3. principal_memory[row[q].frame_number] = swap[row[q].swap_position]
      BY <2>2, <3>2 DEF Clean
    <3> QED
      BY <1>9, <1>13, <1>14, <1>15, <3>1, <3>2, <3>3
  <2> QED
    BY <1>10, <1>14, <2>1, <2>2 DEF Clean
<1>19. \A q \in Page \ PagesOf(p) : row'[q] = row[q]
  BY <1>5
<1> QED
  BY <1>2, <1>6, <1>16, <1>17, <1>18, <1>19 DEF c

(* A page fault changes what no page holds, and takes a page out of its    *)
(* frame only when all the frames of its process are taken.                *)
LEMMA FaultStores ==
    ASSUME IInv, Clean, NEW p \in structures, NEW pg \in PagesOf(p), ~row[pg].presence,
           request_page_fault(pg)
    PROVE  /\ Clean' /\ \A q \in Live : Stored(q)' = Stored(q)
           /\ UNCHANGED structures
           /\ \A q \in Page \ PagesOf(p) : row'[q] = row[q]
           /\ \/ \A q \in Page \ {pg} : row'[q] = row[q]
              \/ LoadByReplacing(pg) /\ Len(FramesOf(p)) = MARCOS_POR_PROCESO
           /\ memory_alive' = memory_alive \/ LoadNowhere(pg)
<1>1. CASE LoadInFreeFrame(pg)
  BY <1>1, FreeFrameStores
<1>2. CASE LoadByReplacing(pg)
  BY <1>2, ReplacingStores
<1>3. CASE LoadNowhere(pg)
  <2>1. MemoryDies
    BY <1>3 DEF LoadNowhere
  <2>2. Live' = Live
    BY <2>1 DEF MemoryDies, Live
  <2> QED
    BY <1>3, <2>1, <2>2, NothingMoves DEF MemoryDies
<1> QED
  BY <1>1, <1>2, <1>3 DEF request_page_fault

-----------------------------------------------------------------------------
(* The theorems.                                                           *)

LEMMA InitIInv == Init => IInv
<1> SUFFICES ASSUME Init PROVE IInv
  OBVIOUS
<1>1. structures = {} /\ DOMAIN clock_structures = {} /\ Live = {} /\ Present = {}
  BY DEF Init, Live, Present
<1>2. TypeOK
  <2>1. NewRow(-1) \in PageRow
    BY DEF NewRow, PageRow
  <2>2. NewSwapPage \in Contents
    BY WordAssumption DEF NewSwapPage, Contents
  <2>3. [o \in Offset |-> Unset] \in Contents
    BY WordAssumption DEF Contents
  <2> QED
    BY <1>1, <2>1, <2>2, <2>3 DEF Init, TypeOK
<1>3. Placed /\ ClockMatchesTables
  BY <1>1 DEF Placed, ClockMatchesTables
<1>4. FrameHasOneOwner /\ SwapHasOneOwner
  BY <1>1 DEF Init, FrameHasOneOwner, SwapHasOneOwner
<1> QED
  BY <1>2, <1>3, <1>4 DEF IInv

LEMMA NextKeeps == IInv /\ [Next]_memoriaVars => IInv'
<1> SUFFICES ASSUME IInv, [Next]_memoriaVars PROVE IInv'
  OBVIOUS
<1>1. CASE UNCHANGED memoriaVars
  <2>1. row \in [Page -> PageRow] /\ principal_memory \in [Frame -> Contents]
        /\ swap \in [Position -> Contents] /\ memory_alive \in BOOLEAN
    BY DEF IInv, TypeOK
  <2> QED
    BY <1>1, <2>1, BitsAndContents DEF memoriaVars
<1>2. ASSUME NEW p \in Process \ DOMAIN clock_structures,
             init_process_structures(p)
      PROVE  IInv'
  BY <1>2, BuildTablesKeeps, MemoryDiesKeeps DEF init_process_structures, SwapFull
<1>3. ASSUME NEW p \in structures, delete_process(p) PROVE IInv'
  BY <1>3, DeleteKeeps
<1>4. ASSUME NEW p \in structures, NEW pg \in PagesOf(p), ~row[pg].presence,
             request_page_fault(pg)
      PROVE  IInv'
  <2>1. CASE LoadInFreeFrame(pg)
    BY <1>4, <2>1, FreeFrameKeeps
  <2>2. CASE LoadByReplacing(pg)
    BY <1>4, <2>2, ReplacingKeeps
  <2>3. CASE LoadNowhere(pg)
    BY <2>3, MemoryDiesKeeps DEF LoadNowhere
  <2> QED
    BY <1>4, <2>1, <2>2, <2>3 DEF request_page_fault
<1>5. ASSUME NEW p \in structures, NEW pg \in PagesOf(p), mov_in(pg) PROVE IInv'
  BY <1>5, MovInKeeps
<1>6. ASSUME NEW p \in structures, NEW pg \in PagesOf(p), NEW f \in Frame,
             NEW o \in Offset, NEW value \in Word, mov_out(p, pg[2], f, o, value)
      PROVE  IInv'
  <2>1. pg[2] \in Int
    BY PageFacts DEF IInv, TypeOK
  <2> QED
    BY <1>6, <2>1, MovOutKeeps
<1> QED
  BY <1>1, <1>2, <1>3, <1>4, <1>5, <1>6 DEF Next

(* Every variable of the memory keeps its type, whatever the kernel and    *)
(* the CPU ask of it in whatever order.                                    *)
THEOREM Typed == Spec => []TypeOK
<1>1. IInv => TypeOK
  BY DEF IInv
<1> QED
  BY <1>1, InitIInv, NextKeeps, PTL DEF Spec

(* Frames are neither shared by two pages nor lost: find_page_free,        *)
(* replace_by_clock and delete_process keep the bitmap and the tables in   *)
(* agreement.                                                              *)
THEOREM FramesOwned == Spec => []FrameHasOneOwner
<1>1. IInv => FrameHasOneOwner
  BY DEF IInv
<1> QED
  BY <1>1, InitIInv, NextKeeps, PTL DEF Spec

(* The same of the pages of the swap (builder_page_table, delete_process). *)
THEOREM SwapOwned == Spec => []SwapHasOneOwner
<1>1. IInv => SwapHasOneOwner
  BY DEF IInv
<1> QED
  BY <1>1, InitIInv, NextKeeps, PTL DEF Spec

(* The clock of each process and its page tables tell of the same pages.   *)
THEOREM ClocksMatch == Spec => []ClockMatchesTables
<1>1. IInv => ClockMatchesTables
  BY DEF IInv
<1> QED
  BY <1>1, InitIInv, NextKeeps, PTL DEF Spec
=============================================================================
