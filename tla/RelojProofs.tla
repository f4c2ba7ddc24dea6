---------------------------- MODULE RelojProofs ----------------------------
(***************************************************************************)
(* Module Reloj proved for any number of frames: whatever accesses come    *)
(* before it and however many turns it takes, a search of simple_clock or  *)
(* of modified_clock decides what Reemplazo, and with it Memoria, says.    *)
(*                                                                         *)
(* The invariant says, for each loop of a search, what is known of the     *)
(* rows it has passed in this turn, and of all of them when it is not the  *)
(* first turn.                                                             *)
(***************************************************************************)
EXTENDS Reloj, TLAPS

(* The rows passed in this turn.                                           *)
Passed == {i \in Row : Distance(pointer, i) < Distance(pointer, clock_pointer)}

(* The use bits of these rows have been cleared, and nothing else.         *)
Swept(rows) ==
    \A i \in Row : bits[i] = IF i \in rows THEN [before[i] EXCEPT !.use = FALSE]
                                           ELSE before[i]

TurnInv ==
    pass = "turn" =>
        /\ ALGORITMO_REEMPLAZO = "CLOCK"
        /\ \/ Swept(Passed) /\ \A i \in Passed : before[i].use
           \/ /\ clock_pointer = pointer /\ Swept(Row)
              /\ \A i \in Row : before[i].use

FirstInv ==
    pass = "first" =>
        /\ ALGORITMO_REEMPLAZO = "CLOCK-M"
        /\ \/ /\ Swept({})
              /\ \A i \in Passed : before[i].use \/ before[i].modified
           \/ /\ Swept(Row)
              /\ \A i \in Row : before[i].use
              /\ \A i \in Passed : before[i].modified

SecondInv ==
    pass = "second" =>
        /\ ALGORITMO_REEMPLAZO = "CLOCK-M"
        /\ \/ /\ Swept(Passed)
              /\ \A i \in Row : before[i].use \/ before[i].modified
              /\ \A i \in Passed : before[i].use
           \/ /\ clock_pointer = pointer /\ Swept(Row)
              /\ \A i \in Row : before[i].use /\ before[i].modified

(* The page loaded last is behind the pointer, and it has been used.       *)
NewestInv == pointer = move_to_next_pointer(newest) /\ before[newest].use

IInv == /\ TypeOK
        /\ pass = "none" => before = bits
        /\ TurnInv /\ FirstInv /\ SecondInv
        /\ NewestInv

-----------------------------------------------------------------------------
(* Going round.                                                            *)

LEMMA NextInRow == \A i \in Row : move_to_next_pointer(i) \in Row
BY MarcosAssumption DEF move_to_next_pointer, Row

LEMMA DistanceFacts ==
    ASSUME NEW p \in Row, NEW c \in Row
    PROVE  /\ Distance(p, c) \in Nat
           /\ Distance(p, p) = 0
           /\ \A i \in Row : Distance(p, i) = Distance(p, c) => i = c
BY MarcosAssumption DEF Distance, Row

(* A step leaves one more row behind, or it ends the turn and leaves all   *)
(* of them behind.                                                         *)
LEMMA PassedGrows ==
    ASSUME NEW p \in Row, NEW c \in Row, NEW i \in Row
    PROVE  LET n == move_to_next_pointer(c) IN
           /\ n # p => (Distance(p, i) < Distance(p, n)
                           <=> Distance(p, i) < Distance(p, c) \/ i = c)
           /\ n = p => Distance(p, i) < Distance(p, c) \/ i = c
BY MarcosAssumption DEF Distance, Row, move_to_next_pointer

LEMMA BitsFacts ==
    ASSUME TypeOK, NEW i \in Row
    PROVE  /\ before[i].use \in BOOLEAN /\ before[i].modified \in BOOLEAN
           /\ bits[i].use \in BOOLEAN /\ bits[i].modified \in BOOLEAN
           /\ before[i] \in Bits /\ bits[i] \in Bits
BY DEF TypeOK, Bits

(* The bits as far as they are known.                                      *)
LEMMA SweptFacts ==
    ASSUME TypeOK, NEW rows, Swept(rows), NEW i \in Row
    PROVE  /\ bits[i].modified = before[i].modified
           /\ i \in rows => bits[i].use = FALSE
           /\ i \notin rows => bits[i] = before[i]
BY BitsFacts DEF Swept, Bits

-----------------------------------------------------------------------------
(* The end of a search.                                                    *)

(* What is decided when the page of row v leaves.                          *)
Decided(v) == /\ IsVictim(ALGORITMO_REEMPLAZO, before, pointer, v)
              /\ [bits EXCEPT ![v] = Loaded]
                    = AfterReplacing(ALGORITMO_REEMPLAZO, before, pointer, v)

LEMMA AfterFacts ==
    ASSUME TypeOK, NEW v \in Row,
           NEW rows, Swept(rows),
           rows \ {v} = Cleared(ALGORITMO_REEMPLAZO, before, pointer, v) \ {v}
    PROVE  [bits EXCEPT ![v] = Loaded]
             = AfterReplacing(ALGORITMO_REEMPLAZO, before, pointer, v)
<1> DEFINE cleared == Cleared(ALGORITMO_REEMPLAZO, before, pointer, v)
<1>1. ASSUME NEW i \in Row, i # v
      PROVE  bits[i] = [before[i] EXCEPT !.use = @ /\ i \notin cleared]
  <2>1. before[i] \in Bits /\ before[i].use \in BOOLEAN
    BY BitsFacts
  <2>2. CASE i \in rows
    <3>1. bits[i] = [before[i] EXCEPT !.use = FALSE]
      BY <2>2 DEF Swept
    <3>2. (before[i].use /\ i \notin cleared) = FALSE
      BY <1>1, <2>2
    <3> QED
      BY <3>1, <3>2
  <2>3. CASE i \notin rows
    <3>1. bits[i] = before[i]
      BY <2>3 DEF Swept
    <3>2. i \notin cleared
      BY <1>1, <2>3
    <3>3. (before[i].use /\ i \notin cleared) = before[i].use
      BY <2>1, <3>2
    <3>4. before[i] = [before[i] EXCEPT !.use = before[i].use]
      BY <2>1 DEF Bits
    <3> QED
      BY <3>1, <3>3, <3>4
  <2> QED
    BY <2>2, <2>3
<1>2. [bits EXCEPT ![v] = Loaded] = [i \in Row |-> IF i = v THEN Loaded ELSE bits[i]]
  BY DEF TypeOK
<1> QED
  BY <1>1, <1>2 DEF AfterReplacing

LEMMA SimpleDecides ==
    ASSUME IInv, pass = "turn", ~bits[clock_pointer].use
    PROVE  Decided(clock_pointer)
<1> DEFINE v == clock_pointer
<1>1. TypeOK /\ TurnInv /\ v \in Row /\ pointer \in Row /\ ALGORITMO_REEMPLAZO = "CLOCK"
  BY DEF IInv, TypeOK, TurnInv
<1>2. CASE Swept(Passed) /\ \A i \in Passed : before[i].use
  <2>1. v \notin Passed
    BY <1>1, DistanceFacts DEF Passed
  <2>2. before[v].use = FALSE
    BY <1>1, <1>2, <2>1, SweptFacts, BitsFacts
  <2>3. IsVictim(ALGORITMO_REEMPLAZO, before, pointer, v)
    <3> SUFFICES ASSUME NEW i \in Row
                 PROVE  \/ Rank("CLOCK", before[v]) < Rank("CLOCK", before[i])
                        \/ /\ Rank("CLOCK", before[v]) = Rank("CLOCK", before[i])
                           /\ Distance(pointer, v) <= Distance(pointer, i)
      BY <1>1 DEF IsVictim
    <3>1. Rank("CLOCK", before[v]) = 0
      BY <2>2 DEF Rank
    <3>2. CASE i \in Passed
      BY <1>2, <3>1, <3>2 DEF Rank
    <3>3. CASE i \notin Passed
      BY <1>1, <3>1, <3>3, DistanceFacts DEF Passed, Rank
    <3> QED
      BY <3>2, <3>3
  <2>4. Cleared(ALGORITMO_REEMPLAZO, before, pointer, v) = Passed
    BY <1>1, <2>2 DEF Cleared, Passed
  <2> QED
    BY <1>1, <1>2, <2>3, <2>4, AfterFacts DEF Decided
<1>3. CASE v = pointer /\ Swept(Row) /\ \A i \in Row : before[i].use
  <2>1. IsVictim(ALGORITMO_REEMPLAZO, before, pointer, v)
    BY <1>1, <1>3, DistanceFacts DEF IsVictim, Rank
  <2>2. Cleared(ALGORITMO_REEMPLAZO, before, pointer, v) = Row
    BY <1>1, <1>3 DEF Cleared
  <2> QED
    BY <1>1, <1>3, <2>1, <2>2, AfterFacts DEF Decided
<1> QED
  BY <1>1, <1>2, <1>3 DEF IInv, TurnInv

LEMMA FirstDecides ==
    ASSUME IInv, pass = "first",
           ~bits[clock_pointer].use, ~bits[clock_pointer].modified
    PROVE  Decided(clock_pointer)
<1> DEFINE v == clock_pointer
<1>1. TypeOK /\ v \in Row /\ pointer \in Row /\ ALGORITMO_REEMPLAZO = "CLOCK-M"
  BY DEF IInv, TypeOK, FirstInv
<1>2. CASE Swept({}) /\ \A i \in Passed : before[i].use \/ before[i].modified
  <2>1. before[v].use = FALSE /\ before[v].modified = FALSE
    <3>1. bits[v] = before[v]
      BY <1>1, <1>2 DEF Swept
    <3> QED
      BY <1>1, <3>1, BitsFacts
  <2>2. IsVictim(ALGORITMO_REEMPLAZO, before, pointer, v)
    <3> SUFFICES ASSUME NEW i \in Row
                 PROVE  \/ Rank("CLOCK-M", before[v]) < Rank("CLOCK-M", before[i])
                        \/ /\ Rank("CLOCK-M", before[v]) = Rank("CLOCK-M", before[i])
                           /\ Distance(pointer, v) <= Distance(pointer, i)
      BY <1>1 DEF IsVictim
    <3>1. Rank("CLOCK-M", before[v]) = 0
      BY <2>1 DEF Rank
    <3>2. CASE i \in Passed
      BY <1>2, <3>1, <3>2 DEF Rank
    <3>3. CASE i \notin Passed
      BY <1>1, <3>1, <3>3, DistanceFacts DEF Passed, Rank
    <3> QED
      BY <3>2, <3>3
  <2>3. Cleared(ALGORITMO_REEMPLAZO, before, pointer, v) = {}
    BY <1>1, <2>1 DEF Cleared
  <2> QED
    BY <1>1, <1>2, <2>2, <2>3, AfterFacts DEF Decided
<1>3. CASE /\ Swept(Row)
           /\ \A i \in Row : before[i].use
           /\ \A i \in Passed : before[i].modified
  <2>1. before[v].use /\ before[v].modified = FALSE
    BY <1>1, <1>3, SweptFacts, BitsFacts
  <2>2. IsVictim(ALGORITMO_REEMPLAZO, before, pointer, v)
    <3> SUFFICES ASSUME NEW i \in Row
                 PROVE  \/ Rank("CLOCK-M", before[v]) < Rank("CLOCK-M", before[i])
                        \/ /\ Rank("CLOCK-M", before[v]) = Rank("CLOCK-M", before[i])
                           /\ Distance(pointer, v) <= Distance(pointer, i)
      BY <1>1 DEF IsVictim
    <3>1. Rank("CLOCK-M", before[v]) = 2 /\ before[i].use
      BY <1>3, <2>1 DEF Rank
    <3>2. CASE i \in Passed
      BY <1>3, <3>1, <3>2 DEF Rank
    <3>3. CASE i \notin Passed
      BY <1>1, <3>1, <3>3, DistanceFacts DEF Passed, Rank
    <3> QED
      BY <3>2, <3>3
  <2>3. Cleared(ALGORITMO_REEMPLAZO, before, pointer, v) = Row
    BY <1>1, <2>1 DEF Cleared
  <2> QED
    BY <1>1, <1>3, <2>2, <2>3, AfterFacts DEF Decided
<1> QED
  BY <1>2, <1>3 DEF IInv, FirstInv

LEMMA SecondDecides ==
    ASSUME IInv, pass = "second",
           ~bits[clock_pointer].use, bits[clock_pointer].modified
    PROVE  Decided(clock_pointer)
<1> DEFINE v == clock_pointer
<1>1. TypeOK /\ v \in Row /\ pointer \in Row /\ ALGORITMO_REEMPLAZO = "CLOCK-M"
  BY DEF IInv, TypeOK, SecondInv
<1>2. CASE /\ Swept(Passed)
           /\ \A i \in Row : before[i].use \/ before[i].modified
           /\ \A i \in Passed : before[i].use
  <2>1. v \notin Passed
    BY <1>1, DistanceFacts DEF Passed
  <2>2. before[v].use = FALSE /\ before[v].modified
    BY <1>1, <1>2, <2>1, SweptFacts, BitsFacts
  <2>3. IsVictim(ALGORITMO_REEMPLAZO, before, pointer, v)
    <3> SUFFICES ASSUME NEW i \in Row
                 PROVE  \/ Rank("CLOCK-M", before[v]) < Rank("CLOCK-M", before[i])
                        \/ /\ Rank("CLOCK-M", before[v]) = Rank("CLOCK-M", before[i])
                           /\ Distance(pointer, v) <= Distance(pointer, i)
      BY <1>1 DEF IsVictim
    <3>1. Rank("CLOCK-M", before[v]) = 1
      BY <2>2 DEF Rank
    <3>2. CASE i \in Passed
      BY <1>2, <3>1, <3>2 DEF Rank
    <3>3. CASE i \notin Passed
      BY <1>1, <1>2, <3>1, <3>3, DistanceFacts DEF Passed, Rank
    <3> QED
      BY <3>2, <3>3
  <2>4. Cleared(ALGORITMO_REEMPLAZO, before, pointer, v) = Passed
    BY <1>1, <2>2 DEF Cleared, Passed
  <2> QED
    BY <1>1, <1>2, <2>3, <2>4, AfterFacts DEF Decided
<1>3. CASE /\ v = pointer /\ Swept(Row)
           /\ \A i \in Row : before[i].use /\ before[i].modified
  <2>1. IsVictim(ALGORITMO_REEMPLAZO, before, pointer, v)
    BY <1>1, <1>3, DistanceFacts DEF IsVictim, Rank
  <2>2. Cleared(ALGORITMO_REEMPLAZO, before, pointer, v) = Row
    BY <1>1, <1>3 DEF Cleared
  <2> QED
    BY <1>1, <1>3, <2>1, <2>2, AfterFacts DEF Decided
<1> QED
  BY <1>2, <1>3 DEF IInv, SecondInv

-----------------------------------------------------------------------------
(* The steps.                                                              *)

LEMMA AccessKeeps ==
    ASSUME IInv, NEW i \in Row, MovIn(i) \/ MovOut(i)
    PROVE  IInv'
<1>1. PICK b \in Bits : Access(i, b) /\ (bits[i].use => b.use)
  <2>1. bits[i] \in Bits /\ bits[i].use \in BOOLEAN /\ bits[i].modified \in BOOLEAN
    BY BitsFacts DEF IInv
  <2>2. CASE MovIn(i)
    <3>1. [bits[i] EXCEPT !.use = TRUE] \in Bits
          /\ [bits[i] EXCEPT !.use = TRUE].use
      BY <2>1 DEF Bits
    <3> QED
      BY <2>2, <3>1 DEF MovIn
  <2>3. CASE MovOut(i)
    <3>1. [bits[i] EXCEPT !.modified = TRUE] \in Bits
          /\ [bits[i] EXCEPT !.modified = TRUE].use = bits[i].use
      BY <2>1 DEF Bits
    <3> QED
      BY <2>1, <2>3, <3>1 DEF MovOut
  <2> QED
    BY <2>2, <2>3
<1>2. pass = "none" /\ before = bits /\ bits \in [Row -> Bits] /\ newest \in Row
  BY <1>1 DEF IInv, TypeOK, Access
<1>3. TypeOK'
  BY <1>1, <1>2 DEF IInv, TypeOK, Access
<1>4. pass' = "none" /\ before' = bits'
  BY <1>1 DEF Access
<1>5. NewestInv'
  <2>1. bits'[newest].use
    BY <1>1, <1>2 DEF IInv, NewestInv, Access
  <2> QED
    BY <1>1, <1>4, <2>1 DEF IInv, NewestInv, Access
<1> QED
  BY <1>3, <1>4, <1>5 DEF IInv, TurnInv, FirstInv, SecondInv

LEMMA BeginKeeps == ASSUME IInv, Begin PROVE IInv'
<1>1. pass = "none" /\ before = bits /\ pointer \in Row /\ bits \in [Row -> Bits]
  BY DEF IInv, TypeOK, Begin
<1>2. TypeOK'
  BY DEF IInv, TypeOK, Begin
<1>3. Passed' = {}
  BY <1>1, DistanceFacts DEF Begin, Passed
<1>4. Swept({})'
  BY <1>1 DEF Begin, Swept
<1>5. NewestInv'
  BY DEF IInv, NewestInv, Begin
<1>6. ALGORITMO_REEMPLAZO' = "CLOCK" \/ ALGORITMO_REEMPLAZO' = "CLOCK-M"
  BY <1>2 DEF TypeOK, Algoritmo
<1>7. TurnInv'
  BY <1>3, <1>4 DEF Begin, TurnInv
<1>8. FirstInv'
  BY <1>3, <1>4, <1>6 DEF Begin, FirstInv
<1>9. pass' # "none" /\ pass' # "second"
  BY DEF Begin
<1> QED
  BY <1>2, <1>5, <1>7, <1>8, <1>9 DEF IInv, SecondInv

LEMMA ReplaceKeeps ==
    ASSUME IInv, Replace, ALGORITMO_REEMPLAZO' = ALGORITMO_REEMPLAZO,
           clock_pointer' = move_to_next_pointer(clock_pointer)
    PROVE  IInv'
<1>1. TypeOK'
  BY NextInRow DEF IInv, TypeOK, Replace, Loaded, Bits
<1>2. pass' = "none" /\ before' = bits'
  BY DEF Replace
<1>3. NewestInv'
  BY DEF IInv, TypeOK, NewestInv, Replace, Loaded
<1> QED
  BY <1>1, <1>2, <1>3 DEF IInv, TurnInv, FirstInv, SecondInv

(* What all steps that spare a row do to the rows passed.                  *)
LEMMA SpareFacts ==
    ASSUME TypeOK, Spare, clock_pointer' = move_to_next_pointer(clock_pointer)
    PROVE  /\ clock_pointer' # pointer => Passed' = Passed \cup {clock_pointer}
           /\ clock_pointer' = pointer => /\ Passed \cup {clock_pointer} = Row
                                          /\ Passed' = {}
<1>1. pointer \in Row /\ clock_pointer \in Row /\ clock_pointer' \in Row
  BY NextInRow DEF TypeOK
<1>2. pointer' = pointer
  BY DEF Spare
<1>3. CASE clock_pointer' # pointer
  <2>1. \A i \in Row : Distance(pointer, i) < Distance(pointer, clock_pointer')
                  <=> Distance(pointer, i) < Distance(pointer, clock_pointer)
                      \/ i = clock_pointer
    BY <1>1, <1>3, PassedGrows
  <2> QED
    BY <1>1, <1>2, <1>3, <2>1 DEF Passed
<1>4. CASE clock_pointer' = pointer
  <2>1. \A i \in Row : Distance(pointer, i) < Distance(pointer, clock_pointer)
                       \/ i = clock_pointer
    BY <1>1, <1>4, PassedGrows
  <2>2. Passed' = {}
    BY <1>1, <1>2, <1>4, DistanceFacts DEF Passed
  <2> QED
    BY <1>1, <1>4, <2>1, <2>2 DEF Passed
<1> QED
  BY <1>3, <1>4

LEMMA ClearFacts ==
    ASSUME TypeOK, Spare, ClearUse, NEW rows \in SUBSET Row, Swept(rows),
           NEW c, c = clock_pointer
    PROVE  bits' \in [Row -> Bits] /\ Swept(rows \cup {c})'
<1>1. c \in Row /\ bits \in [Row -> Bits] /\ before \in [Row -> Bits] /\ before' = before
  BY DEF TypeOK, Spare
<1>2. bits'[c] = [bits[c] EXCEPT !.use = FALSE]
      /\ \A i \in Row : i # c => bits'[i] = bits[i]
  BY <1>1 DEF ClearUse
<1>3. bits[c] \in Bits /\ before[c] \in Bits
  BY <1>1
<1>4. bits[c] = before[c] \/ bits[c] = [before[c] EXCEPT !.use = FALSE]
  BY <1>1 DEF Swept
<1>5. bits'[c] = [before[c] EXCEPT !.use = FALSE]
  BY <1>2, <1>3, <1>4 DEF Bits
<1>6. bits' \in [Row -> Bits]
  BY <1>1, <1>3 DEF ClearUse, Bits
<1>7. \A i \in Row : bits'[i] = IF i \in rows \cup {c}
                                  THEN [before[i] EXCEPT !.use = FALSE]
                                  ELSE before[i]
  BY <1>2, <1>5 DEF Swept
<1> QED
  BY <1>1, <1>6, <1>7 DEF Swept

(* What no step that spares a row changes.                                 *)
LEMMA SpareKeeps ==
    ASSUME IInv, Spare, ALGORITMO_REEMPLAZO' = ALGORITMO_REEMPLAZO,
           clock_pointer' = move_to_next_pointer(clock_pointer),
           bits' \in [Row -> Bits], pass' \in {"turn", "first", "second"}
    PROVE  TypeOK' /\ NewestInv' /\ (pass' = "none" => before' = bits')
BY NextInRow DEF IInv, TypeOK, NewestInv, Spare

LEMMA VisitSimpleKeeps == ASSUME IInv, VisitSimple PROVE IInv'
<1>1. /\ pass = "turn" /\ ALGORITMO_REEMPLAZO' = ALGORITMO_REEMPLAZO
      /\ clock_pointer' = move_to_next_pointer(clock_pointer)
  BY DEF VisitSimple
<1>2. CASE ~bits[clock_pointer].use
  BY <1>1, <1>2, ReplaceKeeps DEF VisitSimple
<1>3. CASE bits[clock_pointer].use
  <2>1. Spare /\ ClearUse /\ pass' = "turn"
    BY <1>1, <1>3 DEF VisitSimple
  <2>2. PICK c \in Row, rows \in SUBSET Row : c = clock_pointer /\ rows = Passed
    BY DEF IInv, TypeOK, Passed
  <2>3. TypeOK /\ TurnInv /\ pointer \in Row
    BY DEF IInv, TypeOK
  <2>4. Swept(rows) /\ \A i \in rows : before[i].use
    <3>1. CASE Swept(Row)
      BY <1>3, <2>2, <2>3, <3>1, SweptFacts
    <3> QED
      BY <1>1, <2>2, <2>3, <3>1 DEF TurnInv
  <2>5. c \notin rows
    BY <2>2, <2>3, DistanceFacts DEF Passed
  <2>6. before[c].use
    BY <1>3, <2>2, <2>3, <2>4, <2>5, SweptFacts
  <2>7. bits' \in [Row -> Bits] /\ Swept(rows \cup {c})'
    BY <2>1, <2>2, <2>3, <2>4, ClearFacts
  <2>8. before' = before /\ pointer' = pointer
    BY <2>1 DEF Spare
  <2>9. TurnInv'
    <3>1. ALGORITMO_REEMPLAZO' = "CLOCK"
      BY <1>1, <2>3 DEF TurnInv
    <3>2. CASE clock_pointer' = pointer
      <4>1. rows \cup {c} = Row
        BY <1>1, <2>1, <2>2, <2>3, <3>2, SpareFacts
      <4> QED
        BY <2>4, <2>6, <2>7, <2>8, <3>1, <3>2, <4>1 DEF TurnInv
    <3>3. CASE clock_pointer' # pointer
      <4>1. rows \cup {c} = Passed'
        BY <1>1, <2>1, <2>2, <2>3, <3>3, SpareFacts
      <4>2. \A i \in rows \cup {c} : before'[i].use
        BY <2>4, <2>6, <2>8
      <4>3. Swept(Passed)' /\ \A i \in Passed' : before'[i].use
        BY <2>7, <4>1, <4>2
      <4> QED
        BY <3>1, <4>3 DEF TurnInv
    <3> QED
      BY <3>2, <3>3
  <2> QED
    BY <1>1, <2>1, <2>7, <2>9, SpareKeeps DEF IInv, FirstInv, SecondInv
<1> QED
  BY <1>2, <1>3

LEMMA VisitFirstKeeps == ASSUME IInv, VisitFirst PROVE IInv'
<1>1. /\ pass = "first" /\ ALGORITMO_REEMPLAZO' = ALGORITMO_REEMPLAZO
      /\ clock_pointer' = move_to_next_pointer(clock_pointer)
  BY DEF VisitFirst
<1>2. CASE ~bits[clock_pointer].use /\ ~bits[clock_pointer].modified
  BY <1>1, <1>2, ReplaceKeeps DEF VisitFirst
<1>3. CASE bits[clock_pointer].use \/ bits[clock_pointer].modified
  <2>1. Spare /\ bits' = bits
        /\ pass' = IF clock_pointer' = pointer THEN "second" ELSE "first"
    BY <1>1, <1>3 DEF VisitFirst, TurnComplete
  <2>2. PICK c \in Row, rows \in SUBSET Row : c = clock_pointer /\ rows = Passed
    BY DEF IInv, TypeOK, Passed
  <2>3. TypeOK /\ FirstInv /\ pointer \in Row /\ bits' \in [Row -> Bits]
    BY <2>1 DEF IInv, TypeOK
  <2>4. before' = before /\ pointer' = pointer /\ ALGORITMO_REEMPLAZO' = "CLOCK-M"
    BY <1>1, <2>1, <2>3 DEF Spare, FirstInv
  <2>5. TypeOK' /\ NewestInv' /\ (pass' = "none" => before' = bits')
    BY <1>1, <2>1, <2>3, SpareKeeps
  <2>6. CASE Swept({}) /\ \A i \in rows : before[i].use \/ before[i].modified
    <3>1. before[c].use \/ before[c].modified
      <4>1. bits[c] = before[c]
        BY <2>6 DEF Swept
      <4> QED
        BY <1>3, <2>2, <4>1
    <3>2. \A i \in rows \cup {c} : before'[i].use \/ before'[i].modified
      BY <2>4, <2>6, <3>1
    <3>3. Swept({})'
      BY <2>1, <2>4, <2>6 DEF Swept
    <3>4. CASE clock_pointer' = pointer
      <4>1. rows \cup {c} = Row /\ Passed' = {}
        BY <1>1, <2>1, <2>2, <2>3, <3>4, SpareFacts
      <4>2. Swept(Passed)' /\ \A i \in Passed' : before'[i].use
        BY <3>3, <4>1
      <4>3. pass' = "second"
        BY <2>1, <3>4
      <4>4. SecondInv'
        BY <2>4, <3>2, <4>1, <4>2 DEF SecondInv
      <4> QED
        BY <2>5, <4>3, <4>4 DEF IInv, TurnInv, FirstInv
    <3>5. CASE clock_pointer' # pointer
      <4>1. rows \cup {c} = Passed' /\ pass' = "first"
        BY <1>1, <2>1, <2>2, <2>3, <3>5, SpareFacts
      <4>2. FirstInv'
        BY <2>4, <3>2, <3>3, <4>1 DEF FirstInv
      <4> QED
        BY <2>5, <4>1, <4>2 DEF IInv, TurnInv, SecondInv
    <3> QED
      BY <3>4, <3>5
  <2>7. CASE /\ Swept(Row) /\ \A i \in Row : before[i].use
             /\ \A i \in rows : before[i].modified
    <3>1. before[c].modified
      BY <1>3, <2>2, <2>3, <2>7, SweptFacts
    <3>2. \A i \in rows \cup {c} : before'[i].modified
      BY <2>4, <2>7, <3>1
    <3>3. Swept(Row)' /\ \A i \in Row : before'[i].use
      BY <2>1, <2>4, <2>7 DEF Swept
    <3>4. CASE clock_pointer' = pointer
      <4>1. rows \cup {c} = Row /\ pass' = "second"
        BY <1>1, <2>1, <2>2, <2>3, <3>4, SpareFacts
      <4>2. SecondInv'
        BY <2>4, <3>2, <3>3, <3>4, <4>1 DEF SecondInv
      <4> QED
        BY <2>5, <4>1, <4>2 DEF IInv, TurnInv, FirstInv
    <3>5. CASE clock_pointer' # pointer
      <4>1. rows \cup {c} = Passed' /\ pass' = "first"
        BY <1>1, <2>1, <2>2, <2>3, <3>5, SpareFacts
      <4>2. FirstInv'
        BY <2>4, <3>2, <3>3, <4>1 DEF FirstInv
      <4> QED
        BY <2>5, <4>1, <4>2 DEF IInv, TurnInv, SecondInv
    <3> QED
      BY <3>4, <3>5
  <2> QED
    BY <1>1, <2>2, <2>3, <2>6, <2>7 DEF FirstInv
<1> QED
  BY <1>2, <1>3

LEMMA VisitSecondKeeps == ASSUME IInv, VisitSecond PROVE IInv'
<1>1. /\ pass = "second" /\ ALGORITMO_REEMPLAZO' = ALGORITMO_REEMPLAZO
      /\ clock_pointer' = move_to_next_pointer(clock_pointer)
  BY DEF VisitSecond
<1>2. CASE ~bits[clock_pointer].use /\ bits[clock_pointer].modified
  BY <1>1, <1>2, ReplaceKeeps DEF VisitSecond
<1>3. CASE bits[clock_pointer].use \/ ~bits[clock_pointer].modified
  <2>1. Spare /\ ClearUse
        /\ pass' = IF clock_pointer' = pointer THEN "first" ELSE "second"
    BY <1>1, <1>3 DEF VisitSecond, TurnComplete
  <2>2. PICK c \in Row, rows \in SUBSET Row : c = clock_pointer /\ rows = Passed
    BY DEF IInv, TypeOK, Passed
  <2>3. TypeOK /\ SecondInv /\ pointer \in Row
    BY DEF IInv, TypeOK
  <2>4. before' = before /\ pointer' = pointer /\ ALGORITMO_REEMPLAZO' = "CLOCK-M"
    BY <1>1, <2>1, <2>3 DEF Spare, SecondInv
  <2>5. /\ Swept(rows)
        /\ \A i \in Row : before[i].use \/ before[i].modified
        /\ \A i \in rows : before[i].use
    <3>1. CASE Swept(Row) /\ \A i \in Row : before[i].modified
      BY <1>3, <2>2, <2>3, <3>1, SweptFacts
    <3> QED
      BY <1>1, <2>2, <2>3, <3>1 DEF SecondInv
  <2>6. c \notin rows
    BY <2>2, <2>3, DistanceFacts DEF Passed
  <2>7. before[c].use
    BY <1>3, <2>2, <2>3, <2>5, <2>6, SweptFacts
  <2>8. bits' \in [Row -> Bits] /\ Swept(rows \cup {c})'
    BY <2>1, <2>2, <2>3, <2>5, ClearFacts
  <2>9. TypeOK' /\ NewestInv' /\ (pass' = "none" => before' = bits')
    BY <1>1, <2>1, <2>8, SpareKeeps
  <2>10. \A i \in rows \cup {c} : before'[i].use
    BY <2>4, <2>5, <2>7
  <2>11. CASE clock_pointer' = pointer
    <3>1. rows \cup {c} = Row /\ Passed' = {} /\ pass' = "first"
      BY <1>1, <2>1, <2>2, <2>3, <2>11, SpareFacts
    <3>2. FirstInv'
      BY <2>4, <2>8, <2>10, <3>1 DEF FirstInv
    <3> QED
      BY <2>9, <3>1, <3>2 DEF IInv, TurnInv, SecondInv
  <2>12. CASE clock_pointer' # pointer
    <3>1. rows \cup {c} = Passed' /\ pass' = "second"
      BY <1>1, <2>1, <2>2, <2>3, <2>12, SpareFacts
    <3>2. Swept(Passed)' /\ \A i \in Passed' : before'[i].use
      BY <2>8, <2>10, <3>1
    <3>3. SecondInv'
      BY <2>4, <2>5, <3>2 DEF SecondInv
    <3> QED
      BY <2>9, <3>1, <3>3 DEF IInv, TurnInv, FirstInv
  <2> QED
    BY <2>11, <2>12
<1> QED
  BY <1>2, <1>3

-----------------------------------------------------------------------------
(* The specification.                                                      *)

LEMMA InitIInv == Init => IInv
<1> SUFFICES ASSUME Init PROVE IInv
  OBVIOUS
<1>1. TypeOK
  BY MarcosAssumption DEF Init, TypeOK, Loaded, Bits, Row
<1>2. NewestInv
  <2>1. pointer = move_to_next_pointer(newest) /\ newest \in Row
    BY MarcosAssumption DEF Init, move_to_next_pointer, Row
  <2>2. before[newest] = Loaded
    BY <2>1 DEF Init
  <2> QED
    BY <2>1, <2>2 DEF NewestInv, Loaded
<1> QED
  BY <1>1, <1>2 DEF Init, IInv, TurnInv, FirstInv, SecondInv

LEMMA NextKeeps == IInv /\ [Next]_vars => IInv'
<1> SUFFICES ASSUME IInv, [Next]_vars PROVE IInv'
  OBVIOUS
<1>1. CASE UNCHANGED vars
  BY <1>1 DEF vars, IInv, TypeOK, TurnInv, FirstInv, SecondInv, NewestInv,
              Swept, Passed
<1>2. ASSUME NEW i \in Row, MovIn(i) \/ MovOut(i) PROVE IInv'
  BY <1>2, AccessKeeps
<1>3. CASE Search
  BY <1>3, VisitSimpleKeeps, VisitFirstKeeps, VisitSecondKeeps DEF Search
<1> QED
  BY <1>1, <1>2, <1>3, BeginKeeps DEF Next

(* Every step that ends a search replaces the page of the row it is at,    *)
(* which is the one that was to leave.                                     *)
LEMMA ReplacingDecides ==
    ASSUME IInv, [Next]_vars, Replaced
    PROVE  Replace /\ newest' = clock_pointer /\ Decided(clock_pointer)
<1>1. pass \in {"turn", "first", "second"} /\ pass' = "none"
  BY DEF IInv, TypeOK, Replaced
<1>2. Search
  BY <1>1 DEF Next, vars, MovIn, MovOut, Access, Begin
<1>3. CASE VisitSimple
  BY <1>1, <1>3, SimpleDecides DEF VisitSimple, Replace
<1>4. CASE VisitFirst
  BY <1>1, <1>4, FirstDecides DEF VisitFirst, Replace
<1>5. CASE VisitSecond
  BY <1>1, <1>5, SecondDecides DEF VisitSecond, Replace
<1> QED
  BY <1>2, <1>3, <1>4, <1>5 DEF Search

(* The pointers and the bits of the clock keep their types.                *)
THEOREM Typed == Spec => []TypeOK
<1>1. IInv => TypeOK
  BY DEF IInv
<1> QED
  BY <1>1, InitIInv, NextKeeps, PTL DEF Spec

(* simple_clock and modified_clock, a row at a time, decide in the end     *)
(* what Reemplazo says of the bits they began with.                        *)
THEOREM SearchDecides == Spec => ReplacesAsDecided
<1> DEFINE A == Replaced =>
        LET v == newest' IN
        /\ IsVictim(ALGORITMO_REEMPLAZO, before, pointer, v)
        /\ bits' = AfterReplacing(ALGORITMO_REEMPLAZO, before, pointer, v)
        /\ pointer' = move_to_next_pointer(v)
<1>1. IInv /\ [Next]_vars => A
  BY ReplacingDecides DEF Decided, Replace
<1>2. IInv /\ [Next]_vars => [A]_vars
  BY <1>1
<1> QED
  BY <1>2, InitIInv, NextKeeps, PTL DEF Spec, ReplacesAsDecided

(* simple_clock never takes the page it took in last, if there is another. *)
THEOREM NewestIsSpared == Spec => NewestSpared
<1> DEFINE A == Replaced /\ ALGORITMO_REEMPLAZO = "CLOCK" /\ MARCOS_POR_PROCESO > 1
                  => newest' # newest
<1>1. ASSUME IInv, [Next]_vars, Replaced, ALGORITMO_REEMPLAZO = "CLOCK",
             MARCOS_POR_PROCESO > 1, newest' = newest
      PROVE  FALSE
  <2>1. IsVictim("CLOCK", before, pointer, newest)
    BY <1>1, ReplacingDecides DEF Decided
  <2>2. /\ pointer = move_to_next_pointer(newest) /\ before[newest].use
        /\ newest \in Row /\ pointer \in Row
    BY <1>1 DEF IInv, TypeOK, NewestInv
  <2>3. pointer # newest
    BY <1>1, <2>2, MarcosAssumption DEF move_to_next_pointer, Row
  <2>4. Distance(pointer, pointer) = 0 /\ Distance(pointer, newest) \in Nat
        /\ Distance(pointer, newest) # 0
    BY <2>2, <2>3, DistanceFacts
  <2>5. Rank("CLOCK", before[newest]) = 1 /\ Rank("CLOCK", before[pointer]) \in {0, 1}
    BY <2>2 DEF Rank
  <2> QED
    BY <2>1, <2>2, <2>4, <2>5 DEF IsVictim
<1>2. IInv /\ [Next]_vars => [A]_vars
  BY <1>1
<1> QED
  BY <1>2, InitIInv, NextKeeps, PTL DEF Spec, NewestSpared

=============================================================================
