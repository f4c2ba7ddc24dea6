--------------------------- MODULE SistemaProofs ---------------------------
(***************************************************************************)
(* The kernel of module Geck and the CPU of module Procesador use the      *)
(* memory as module Memoria supposes, for every instance: Sistema          *)
(* implements Memoria's specification, and inherits what is proved of it.  *)
(*                                                                         *)
(* The kernel goes on as in Geck (KernelInv): what the CPU does that Geck  *)
(* does not know of only moves its event and the program counter           *)
(* (CpuOnly).  A process has its tables from the answer to its INIT to its *)
(* END (Resident), and a page that a PCB faulted for stays absent on the   *)
(* PCB's whole way from the CPU to the memory (FaultsAbsent), as nobody    *)
(* else brings in pages of that process.  The CPU asks for what a live     *)
(* process has, as it has an instruction left (Unfinished) and what it     *)
(* exchanges with the memory is about that instruction (Exchange).         *)
(***************************************************************************)
EXTENDS Sistema, GeckLifecycleProofs

MP == INSTANCE MemoriaProofs WITH Zero <- 0

-----------------------------------------------------------------------------
(* Addresses and pages.                                                    *)

(* Division by a positive number.                                          *)
LEMMA Division ==
    ASSUME NEW a \in Nat, NEW b \in Nat \ {0}
    PROVE  /\ a \div b \in Nat /\ a % b \in 0 .. b - 1
           /\ a = b * (a \div b) + (a % b)
  OBVIOUS

(* Rounding down and up.                                                   *)
LEMMA QuotientBelow ==
    ASSUME NEW a \in Nat, NEW b \in Nat \ {0}, NEW c \in Nat, a < b * c
    PROVE  a \div b < c
  <1>1. a \div b \in Nat /\ a % b \in 0 .. b - 1 /\ a = b * (a \div b) + (a % b)
    BY Division
  <1>2. ASSUME NEW q \in Nat, q >= c PROVE b * q >= b * c
    <2>1. PICK d \in Nat : q = c + d
      <3>1. q - c \in Nat /\ q = c + (q - c)
        BY <1>2
      <3> QED
        BY <3>1
    <2>2. b * q = b * c + b * d /\ b * d \in Nat
      BY <2>1
    <2>3. b * c \in Nat
      OBVIOUS
    <2> QED
      BY <2>2, <2>3
  <1> DEFINE q == a \div b
  <1> HIDE DEF q
  <1>3. b * q >= b * c => FALSE
    <2>1. b * c \in Nat /\ b * q \in Nat /\ q \in Nat
      BY <1>1 DEF q
    <2>2. a = b * q + (a % b) /\ a % b \in Nat
      BY <1>1 DEF q
    <2> QED
      BY <2>1, <2>2
  <1> QED
    BY <1>1, <1>2, <1>3 DEF q

(* A word below the end of a segment is in one of the pages that           *)
(* calculate_frames_of_segment counts, rounding up.                        *)
LEMMA WithinCeiling ==
    ASSUME NEW a \in Nat, NEW n \in Nat, a < n
    PROVE  a \div TAM_PAGINA \in 0 .. Mem!calculate_frames_of_segment(n) - 1
  <1> DEFINE b == TAM_PAGINA
             c == Mem!calculate_frames_of_segment(n)
  <1>1. b \in Nat \ {0}
    BY TableAssumption
  <1>2. n \div b \in Nat /\ n % b \in 0 .. b - 1 /\ n = b * (n \div b) + (n % b)
    BY <1>1, Division
  <1> DEFINE q == n \div b
             r == n % b
  <1>3. c = IF r # 0 THEN q + 1 ELSE q
    BY <1>2 DEF Mem!calculate_frames_of_segment
  <1> HIDE DEF b, c, q, r
  <1>4. /\ q \in Nat /\ r \in 0 .. b - 1 /\ n = b * q + r
        /\ b * q \in Nat /\ b * (q + 1) = b * q + b
    BY <1>1, <1>2 DEF q, r
  <1>5. c \in Nat /\ a < b * c
    BY <1>1, <1>3, <1>4
  <1>6. a \div b < c /\ a \div b \in Nat
    BY <1>1, <1>5, QuotientBelow, Division
  <1> QED
    BY <1>5, <1>6 DEF b, c

(* translate_logical_address of an address that is no segmentation fault   *)
(* gives a page of the process and an offset in it.                        *)
LEMMA PageExists ==
    ASSUME NEW p \in Process, NEW a \in Address(p), ~sigsegv(p, a)
    PROVE  /\ PageOf(p, a) \in Mem!PagesOf(p)
           /\ PageOf(p, a)[2] \in 0 .. Len(Segments[p]) - 1
           /\ OffsetOf(a) \in Mem!Offset
  <1> DEFINE M == max_segment_size
             t == translate_logical_address(a)
             n == Len(Segments[p])
  <1>1. /\ TAM_PAGINA \in Nat \ {0} /\ ENTRADAS_POR_TABLA \in Nat \ {0}
        /\ M \in Nat \ {0} /\ n \in Nat
        /\ \A i \in 1 .. n : Segments[p][i] \in Nat
    <2>1. ENTRADAS_POR_TABLA * TAM_PAGINA # 0
      BY TableAssumption
    <2> QED
      BY <2>1, TableAssumption, MemoryAssumption DEF max_segment_size
  <1>2. a \in Nat /\ a < M * n
    BY <1>1 DEF Address
  <1>3. t.segment = a \div M /\ t.offset = a % M /\ t.page = t.offset \div TAM_PAGINA
        /\ t.page_offset = t.offset % TAM_PAGINA
    BY DEF translate_logical_address
  <1> HIDE DEF M, t, n
  <1>4. t.segment \in 0 .. n - 1
    <2>1. a \div M < n
      BY <1>1, <1>2, QuotientBelow
    <2>2. a \div M \in Nat
      BY <1>1, <1>2, Division
    <2> QED
      BY <1>1, <1>3, <2>1, <2>2
  <1>5. t.offset \in Nat
    BY <1>1, <1>2, <1>3, Division
  <1>6. Segments[p][t.segment + 1] \in Nat /\ t.offset < Segments[p][t.segment + 1]
    <2>1. Segments[p][t.segment + 1] \in Nat
      BY <1>1, <1>4
    <2>2. ~(t.offset >= Segments[p][t.segment + 1])
      BY DEF t, sigsegv
    <2> QED
      BY <1>5, <2>1, <2>2
  <1>7. t.page \in 0 .. Mem!calculate_frames_of_segment(Segments[p][t.segment + 1]) - 1
    BY <1>3, <1>5, <1>6, WithinCeiling
  <1>8. PageOf(p, a) = <<p, t.segment, t.page>>
    BY DEF PageOf, t
  <1>9. PageOf(p, a) \in Mem!Page_table(p, t.segment)
    BY <1>7, <1>8 DEF Mem!Page_table
  <1>10. OffsetOf(a) \in Mem!Offset
    BY <1>1, <1>3, <1>5, Division DEF OffsetOf, t, Mem!Offset
  <1> QED
    BY <1>4, <1>8, <1>9, <1>10 DEF Mem!PagesOf, n

-----------------------------------------------------------------------------
(* The kernel and the tables: a process has them from the answer to its    *)
(* INIT request until the memory has read its END.                         *)

(* The processes in the system, and those that ended until the memory has  *)
(* carried out their deletion.                                             *)
Owed == Inside \cup Leaving \cup Ending

Resident == Owed \subseteq structures

(* An admission the memory has answered.                                   *)
Token == Answered \/ Posted

Prepared == Token => list["NEW"] # <<>> /\ Head(list["NEW"]) \in structures

KernelInv == TypeOK /\ CpuExclusive /\ AdmissionInv /\ PlaceInv

(* Whoever is in list_NEW stays there until it is admitted.                *)
LEMMA NewNext ==
    ASSUME TypeOK, AdmissionInv, Next, \A p \in Process : ~ScheduleNextToReady(p)
    PROVE  \/ list'["NEW"] = list["NEW"]
           \/ \E p \in Process : list'["NEW"] = Append(list["NEW"], p)
  <1> DEFINE Goal == \/ list'["NEW"] = list["NEW"]
                     \/ \E p \in Process : list'["NEW"] = Append(list["NEW"], p)
  <1> USE DEF TypeOK, PcbType, ListName
  <1>1. ASSUME NEW p \in Process, ConsoleThread(p) PROVE Goal
    BY <1>1 DEF ConsoleThread, ReceiveInitProcess, EnterScheduleReady,
       InitStructuresMemory, ReceiveIoResponse, ReceiveDisconnection,
       schedule_next_to, ReadyQueue, pcbVars
  <1>2. CASE Scheduler \/ \E d \in Device : DeviceThread(d)
    BY <1>2 DEF DeviceThread, DeviceBegin, DeviceFinish, schedule_next_to, ReadyQueue,
       Scheduler, WaitProcessInReady, ScheduleNextToRunning, RecordUltimo,
       NextQueue, pcbVars
  <1>3. CASE Dispatch
    BY <1>3 DEF Dispatch, DispatchReceive, DispatchNullUltimo,
       DispatchIoConsole, DispatchIoDefault, DispatchInterruption,
       DispatchPageFault, DispatchEnd, schedule_next_to, RunningWithoutHead,
       PreemptedQueue, pcbVars
  <1>4. CASE ManageMemory
    BY <1>4, HeadReplacedByItself DEF ManageMemory, ReceivePageFaultResponse,
       schedule_next_to, ReadyQueue
  <1>5. CASE \E p \in Process : PageFaultThread(p) \/ Console(p)
    BY <1>5 DEF PageFaultThread, ResolvePageFault, Console, ConsoleStart,
       ConsoleAnswer, ConsoleEnd, pcbVars
  <1>6. CASE Clock \/ Interrupt \/ Cpu \/ CpuInterrupt \/ Memory
    BY <1>6, KernelUnchanged DEF Clock, ClockBegin, ClockRestart, ClockExpire,
       ClockFinish, Interrupt, ManageInterrupt, Cpu, CpuReceive, CpuExecute,
       CpuReturn, CpuInterrupt, Memory, MemoryInit, MemoryLoadPage, MemoryEnd, pcbVars
  <1> QED
    BY <1>1, <1>2, <1>3, <1>4, <1>5, <1>6 DEF Next

(* The head of list_NEW is NEW.                                            *)
LEMMA HeadIsNew ==
    ASSUME TypeOK, PlaceInv, list["NEW"] # <<>>
    PROVE  Head(list["NEW"]) \in Process /\ status[Head(list["NEW"])] = "NEW"
  BY HeadOfQueue, OnlyThere DEF PlaceInv, Queue, Place, StatusAt

(* What a step makes of the status of a process.                           *)
LEMMA StatusNext ==
    ASSUME KernelInv, KernelInv', Next, NEW p \in Process
    PROVE  \/ status'[p] = status[p]
           \/ status[p] = "none" /\ status'[p] = "NEW"
           \/ /\ status[p] = "NEW" /\ p \in Inside'
              /\ p = Head(list["NEW"]) /\ \E q \in Process : ScheduleNextToReady(q)
           \/ p \in Inside /\ status'[p] # "NEW" /\ status'[p] # "none"
  <1>1. /\ TypeOK /\ TypeOK' /\ PlaceInv /\ PlaceInv' /\ CpuExclusive /\ AdmissionInv
    BY DEF KernelInv
  <1>2. /\ Inside  = {q \in Process : StateOf(q)  \in InSystem}
        /\ Inside' = {q \in Process : StateOf(q)' \in InSystem}
    BY <1>1, InsideIs
  <1>3. /\ StateOf(p) \notin InSystem => status[p] = StateOf(p)
        /\ StateOf(p)' \notin InSystem => status'[p] = StateOf(p)'
    BY DEF StateOf, InSystem
  <1>4. /\ status[p]  \in {"none", "NEW", "EXIT"} => StateOf(p) = status[p]
        /\ status'[p] \in {"none", "NEW", "EXIT"} => StateOf(p)' = status'[p]
    BY DEF StateOf
  <1>5. CASE \E q \in Process : ScheduleNextToReady(q)
    <2>1. /\ list["NEW"] # <<>>
          /\ status' = [status EXCEPT ![Head(list["NEW"])] = "READY"]
      BY <1>5 DEF ScheduleNextToReady
    <2>2. Head(list["NEW"]) \in Process /\ status[Head(list["NEW"])] = "NEW"
      BY <1>1, <2>1, HeadIsNew
    <2>3. status' \in [Process -> Status] /\ status \in [Process -> Status]
      BY <1>1 DEF TypeOK, PcbType
    <2> QED
      BY <1>5, <2>1, <2>2, <2>3 DEF Inside
  <1>6. CASE ~ \E q \in Process : ScheduleNextToReady(q)
    <2>1. status[p] = "NEW" => status'[p] = "NEW"
      <3>1. ASSUME status[p] = "NEW" PROVE At(p, "NEW")
        <4>1. PICK x \in Place : Where[p] = {x} /\ status[p] = StatusAt(x)
          BY <1>1, <3>1 DEF PlaceInv, Located
        <4>2. x = "NEW"
          BY <3>1, <4>1 DEF StatusAt, Place, Queue
        <4> QED
          BY <4>1, <4>2 DEF Where
      <3>2. Elements(list["NEW"]) \subseteq Elements(list'["NEW"])
        <4>1. list["NEW"] \in Seq(Process)
          BY <1>1 DEF TypeOK, PcbType, ListName
        <4>2. ASSUME NEW q \in Process
              PROVE  Elements(list["NEW"]) \subseteq Elements(Append(list["NEW"], q))
          BY <4>1, AppendElements
        <4> QED
          BY <1>1, <1>6, <4>2, NewNext
      <3>3. At(p, "NEW") => At(p, "NEW")'
        BY <3>2 DEF At, Queue
      <3>4. At(p, "NEW")' => status'[p] = "NEW"
        <4>1. Located' /\ "NEW" \in Place
          BY <1>1 DEF PlaceInv, Place, Queue
        <4>2. ASSUME At(p, "NEW")' PROVE Where'[p] # {} /\ "NEW" \in Where'[p]
          BY <4>1, <4>2 DEF Where
        <4>3. \A x \in Place : StatusAt(x)' \in Status
          BY DEF StatusAt, Status, Place, Queue
        <4> QED
          BY <4>1, <4>2 DEF Located, StatusAt
      <3> QED
        BY <3>1, <3>3, <3>4
    <2>2. LifeStep
      BY <1>1, LifeNext
    <2>3. CASE Stays
      BY <1>2, <1>3, <1>4, <2>3 DEF Stays, Inside, InSystem
    <2>4. ASSUME NEW q \in Process, NEW s, NEW t, Moves(q, s, t),
                 \/ s = "none" /\ t = "NEW"
                 \/ s = "NEW" /\ t = "READY"
                 \/ s \in InSystem /\ t \in InSystem \cup {"EXIT"}
          PROVE  \/ status'[p] = status[p]
                 \/ status[p] = "none" /\ status'[p] = "NEW"
                 \/ p \in Inside /\ status'[p] # "NEW" /\ status'[p] # "none"
      <3>1. CASE p # q
        <4>1. StateOf(p)' = StateOf(p)
          BY <2>4, <3>1 DEF Moves, OthersStay
        <4> QED
          BY <1>2, <1>3, <1>4, <4>1 DEF InSystem
      <3>2. CASE p = q
        <4>1. StateOf(p) = s /\ StateOf(p)' = t
          BY <2>4, <3>2 DEF Moves
        <4>2. ~(s = "NEW" /\ t = "READY")
          BY <1>3, <1>4, <2>1, <4>1 DEF InSystem
        <4> QED
          BY <1>2, <1>3, <1>4, <2>4, <4>1, <4>2 DEF InSystem
      <3> QED
        BY <3>1, <3>2
    <2> QED
      BY <2>2, <2>3, <2>4 DEF LifeStep, InSystem
  <1> QED
    BY <1>5, <1>6

(* Who leaves was inside, and of whom the memory is told was leaving.      *)
LEMMA LeavingNext ==
    ASSUME KernelInv, Next
    PROVE  Leaving' \subseteq Leaving \cup Inside
  <1>1. CASE DispatchReceive
    <2>1. /\ dispatch' = Head(fromCpu) /\ fromCpu # <<>>
          /\ fromCpu \in Seq(ReturnMessage)
      BY <1>1 DEF DispatchReceive, KernelInv, TypeOK, CpuConnectionType
    <2> DEFINE m == Head(fromCpu)
    <2>2. m \in ReturnMessage /\ m \in Elements(fromCpu)
      BY <2>1, HeadTail, TailElements
    <2>3. m.pcb \in Process /\ At(m.pcb, "cpu") /\ "cpu" \in Place
      BY <2>2 DEF At, HasCpu, Place, ReturnMessage
    <2>4. status[m.pcb] = "RUNNING"
      BY <2>3, OnlyThere DEF KernelInv, PlaceInv, StatusAt, Queue
    <2> QED
      BY <2>1, <2>3, <2>4 DEF Leaving, Inside
  <1>2. CASE ~DispatchReceive
    <2>1. UNCHANGED dispatch \/ dispatch' = Idle
      BY <1>2, KernelUnchanged DEF Next, ConsoleThread, ReceiveInitProcess, EnterScheduleReady,
         InitStructuresMemory, ScheduleNextToReady, ReceiveIoResponse,
         ReceiveDisconnection, PageFaultThread, ResolvePageFault, Console,
         ConsoleStart, ConsoleAnswer, ConsoleEnd, DeviceThread, DeviceBegin,
         DeviceFinish, Scheduler, WaitProcessInReady, ScheduleNextToRunning,
         RecordUltimo, Dispatch, DispatchNullUltimo, DispatchIoConsole,
         DispatchIoDefault, DispatchInterruption, DispatchPageFault,
         DispatchEnd, Clock, ClockBegin, ClockRestart, ClockExpire,
         ClockFinish, Interrupt, ManageInterrupt, ManageMemory,
         ReceiveInitStructures, ReceivePageFaultResponse, Cpu, CpuReceive,
         CpuExecute, CpuReturn, CpuInterrupt, Memory, MemoryInit,
         MemoryLoadPage, MemoryEnd
    <2>2. ~Ends(Idle.op)
      BY DEF Idle, Ends
    <2> QED
      BY <2>1, <2>2 DEF Leaving
  <1> QED
    BY <1>1, <1>2

(* What a step does to the connection to the memory.                       *)
LEMMA RequestsNext ==
    ASSUME KernelInv, Next
    PROVE  \/ UNCHANGED toMemory
           \/ /\ toMemory # <<>> /\ toMemory' = Tail(toMemory) /\ Memory
           \/ \E p \in Process :
                 \/ toMemory' = Append(toMemory, [op |-> InitRequest, pcb |-> p])
                 \/ toMemory' = Append(toMemory, PageRequest(p)) /\ ResolvePageFault(p)
                 \/ /\ toMemory' = Append(toMemory, EndRequest(p))
                    /\ p \in Leaving /\ dispatch' = Idle
  <1> DEFINE Goal ==
           \/ UNCHANGED toMemory
           \/ /\ toMemory # <<>> /\ toMemory' = Tail(toMemory) /\ Memory
           \/ \E p \in Process :
                 \/ toMemory' = Append(toMemory, [op |-> InitRequest, pcb |-> p])
                 \/ toMemory' = Append(toMemory, PageRequest(p)) /\ ResolvePageFault(p)
                 \/ /\ toMemory' = Append(toMemory, EndRequest(p))
                    /\ p \in Leaving /\ dispatch' = Idle
  <1>1. ASSUME NEW p \in Process, ConsoleThread(p) PROVE Goal
    <2>1. CASE InitStructuresMemory(p)
      <3>1. Head(list["NEW"]) \in Process
        BY <2>1, HeadIsNew DEF InitStructuresMemory, KernelInv
      <3> QED
        BY <2>1, <3>1 DEF InitStructuresMemory, InitRequest
    <2>2. CASE ~InitStructuresMemory(p)
      BY <1>1, <2>2 DEF ConsoleThread, ReceiveInitProcess, EnterScheduleReady,
         ScheduleNextToReady, ReceiveIoResponse, ReceiveDisconnection, memoryConnection
    <2> QED
      BY <2>1, <2>2
  <1>2. CASE Scheduler \/ \E d \in Device : DeviceThread(d)
    BY <1>2 DEF DeviceThread, DeviceBegin, DeviceFinish, memoryConnection,
       Scheduler, WaitProcessInReady, ScheduleNextToRunning, RecordUltimo
  <1>3. CASE Dispatch
    <2>1. CASE DispatchEnd
      <3>1. dispatch.pcb \in Process
        BY <2>1, DispatchPcb DEF DispatchEnd, Ends, KernelInv, TypeOK
      <3> QED
        BY <2>1, <3>1 DEF DispatchEnd, EndRequest, Leaving
    <2>2. CASE ~DispatchEnd
      BY <1>3, <2>2 DEF Dispatch, DispatchReceive, DispatchNullUltimo,
         DispatchIoConsole, DispatchIoDefault, DispatchInterruption,
         DispatchPageFault, memoryConnection
    <2> QED
      BY <2>1, <2>2
  <1>4. CASE ManageMemory \/ Clock \/ Interrupt \/ Cpu \/ CpuInterrupt
    BY <1>4, KernelUnchanged DEF ManageMemory, ReceiveInitStructures, ReceivePageFaultResponse,
       Clock, ClockBegin, ClockRestart, ClockExpire, ClockFinish, Interrupt,
       ManageInterrupt, Cpu, CpuReceive, CpuExecute, CpuReturn, CpuInterrupt, memoryConnection
  <1>5. ASSUME NEW p \in Process, PageFaultThread(p) PROVE Goal
    BY <1>5 DEF PageFaultThread, ResolvePageFault, PageRequest
  <1>6. ASSUME NEW p \in Process, Console(p) PROVE Goal
    BY <1>6 DEF Console, ConsoleStart, ConsoleAnswer, ConsoleEnd, memoryConnection
  <1>7. CASE Memory
    BY <1>7 DEF Memory, MemoryInit, MemoryLoadPage, MemoryEnd
  <1> QED
    BY <1>1, <1>2, <1>3, <1>4, <1>5, <1>6, <1>7 DEF Next

(* A process whose END is asked for was leaving.                           *)
LEMMA EndingNext ==
    ASSUME KernelInv, Next
    PROVE  Ending' \subseteq Ending \cup Leaving
  <1>1. toMemory \in Seq(MemoryRequest)
    BY DEF KernelInv, TypeOK, MemoryConnectionType
  <1>2. CASE UNCHANGED toMemory
    BY <1>2 DEF Ending
  <1>3. CASE toMemory # <<>> /\ toMemory' = Tail(toMemory)
    BY <1>1, <1>3, TailElements DEF Ending
  <1>4. ASSUME NEW p \in Process, NEW m \in MemoryRequest, toMemory' = Append(toMemory, m),
               m = EndRequest(p) => p \in Leaving,
               \A q \in Process \ {p} : m # EndRequest(q)
        PROVE  Ending' \subseteq Ending \cup Leaving
    <2>1. Elements(toMemory') = Elements(toMemory) \cup {m}
      BY <1>1, <1>4, AppendElements
    <2> QED
      BY <1>4, <2>1 DEF Ending
  <1>5. ASSUME NEW p \in Process
        PROVE  /\ [op |-> InitRequest, pcb |-> p] \in MemoryRequest
               /\ PageRequest(p) \in MemoryRequest /\ EndRequest(p) \in MemoryRequest
               /\ \A q \in Process : /\ [op |-> InitRequest, pcb |-> p] # EndRequest(q)
                                     /\ PageRequest(p) # EndRequest(q)
                                     /\ q # p => EndRequest(p) # EndRequest(q)
    BY DEF MemoryRequest, PageRequest, EndRequest, InitRequest
  <1>6. ASSUME NEW p \in Process,
               \/ toMemory' = Append(toMemory, [op |-> InitRequest, pcb |-> p])
               \/ toMemory' = Append(toMemory, PageRequest(p))
               \/ toMemory' = Append(toMemory, EndRequest(p)) /\ p \in Leaving
        PROVE  Ending' \subseteq Ending \cup Leaving
    <2>1. CASE toMemory' = Append(toMemory, [op |-> InitRequest, pcb |-> p])
      BY <1>4, <1>5, <2>1
    <2>2. CASE toMemory' = Append(toMemory, PageRequest(p))
      BY <1>4, <1>5, <2>2
    <2>3. CASE toMemory' = Append(toMemory, EndRequest(p)) /\ p \in Leaving
      BY <1>4, <1>5, <2>3
    <2> QED
      BY <1>6, <2>1, <2>2, <2>3
  <1> QED
    BY <1>2, <1>3, <1>6, RequestsNext

(* An admission is answered by the memory, and over once it is admitted.   *)
LEMMA TokenNext ==
    ASSUME KernelInv, KernelInv', Next, Token'
    PROVE  /\ Token \/ MemoryInit
           /\ \A p \in Process : ~ScheduleNextToReady(p)
  <1>1. fromMemory \in Seq(MemoryAnswer)
    BY DEF KernelInv, TypeOK, MemoryConnectionType
  <1>2. ASSUME ~MemoryInit
        PROVE  Token
    <2>1. \/ UNCHANGED fromMemory
          \/ fromMemory # <<>> /\ fromMemory' = Tail(fromMemory)
          \/ \E p \in Process : fromMemory' = Append(fromMemory, PageAnswer(p))
      <3>1. CASE Memory
        <4>1. CASE MemoryLoadPage
          BY <4>1, RequestHead DEF MemoryLoadPage, PageAnswer, KernelInv, TypeOK
        <4> QED
          BY <1>2, <3>1, <4>1 DEF Memory, MemoryEnd
      <3>2. CASE ~Memory
        BY <3>2, KernelUnchanged DEF Next, ConsoleThread, ReceiveInitProcess, EnterScheduleReady,
           InitStructuresMemory, ScheduleNextToReady, ReceiveIoResponse,
           ReceiveDisconnection, PageFaultThread, ResolvePageFault, Console,
           ConsoleStart, ConsoleAnswer, ConsoleEnd, DeviceThread, DeviceBegin,
           DeviceFinish, Scheduler, WaitProcessInReady, ScheduleNextToRunning,
           RecordUltimo, Dispatch, DispatchReceive, DispatchNullUltimo, DispatchIoConsole,
           DispatchIoDefault, DispatchInterruption, DispatchPageFault,
           DispatchEnd, Clock, ClockBegin, ClockRestart, ClockExpire,
           ClockFinish, Interrupt, ManageInterrupt, ManageMemory,
           ReceiveInitStructures, ReceivePageFaultResponse, Cpu, CpuReceive,
           CpuExecute, CpuReturn, CpuInterrupt, memoryConnection
      <3> QED
        BY <3>1, <3>2
    <2>2. Answered' => Answered
      <3>1. ASSUME NEW p \in Process PROVE PageAnswer(p) \in MemoryAnswer
                                           /\ PageAnswer(p).op # "INIT_RESPONSE"
        BY DEF PageAnswer, MemoryAnswer
      <3>2. CASE UNCHANGED fromMemory
        BY <3>2 DEF Answered
      <3>3. CASE fromMemory # <<>> /\ fromMemory' = Tail(fromMemory)
        BY <1>1, <3>3, TailMessage DEF Answered
      <3>4. ASSUME NEW p \in Process, fromMemory' = Append(fromMemory, PageAnswer(p))
            PROVE  Answered' => Answered
        BY <1>1, <3>1, <3>4, AppendMessage DEF Answered
      <3> QED
        BY <2>1, <3>2, <3>3, <3>4
    <2>3. Posted' => Posted \/ Answered
      <3>1. CASE ReceiveInitStructures
        BY <1>1, <3>1, TailElements DEF ReceiveInitStructures, Answered, Sent
      <3>2. CASE ~ReceiveInitStructures
        <4> USE DEF KernelInv, TypeOK, SemType, SemName
        <4> DEFINE Falls == /\ sem'["init_process_memory"] \in Nat
                            /\ sem'["init_process_memory"] <= sem["init_process_memory"]
        <4> SUFFICES Falls
          BY DEF Posted
        <4>1. ASSUME NEW p \in Process, ConsoleThread(p) PROVE Falls
          BY <4>1 DEF ConsoleThread, ReceiveInitProcess, EnterScheduleReady,
             InitStructuresMemory, ScheduleNextToReady, ReceiveIoResponse,
             ReceiveDisconnection, Sem_wait, Sem_post
        <4>2. CASE Scheduler \/ Clock \/ Interrupt
          BY <4>2 DEF Scheduler, WaitProcessInReady, ScheduleNextToRunning,
             RecordUltimo, Clock, ClockBegin, ClockRestart, ClockExpire,
             ClockFinish, Interrupt, ManageInterrupt, Sem_wait, Sem_post
        <4>3. CASE Dispatch
          BY <4>3 DEF Dispatch, DispatchReceive, DispatchNullUltimo, DispatchIoConsole,
             DispatchIoDefault, DispatchInterruption, DispatchPageFault,
             DispatchEnd, FreedBy, Sem_post
        <4>4. CASE ManageMemory \/ \E d \in Device : DeviceThread(d)
          BY <3>2, <4>4 DEF ManageMemory, ReceivePageFaultResponse, DeviceThread,
             DeviceBegin, DeviceFinish, Sem_post
        <4>5. CASE Cpu \/ CpuInterrupt \/ Memory
                     \/ \E p \in Process : PageFaultThread(p) \/ Console(p)
          <5>1. UNCHANGED sem
            BY <4>5, KernelUnchanged DEF PageFaultThread, ResolvePageFault, Console,
               ConsoleStart, ConsoleAnswer, ConsoleEnd, Cpu, CpuReceive, CpuExecute,
               CpuReturn, CpuInterrupt, Memory, MemoryInit, MemoryLoadPage, MemoryEnd
          <5> QED
            BY <5>1
        <4> QED
          BY <3>2, <4>1, <4>2, <4>3, <4>4, <4>5 DEF Next
      <3> QED
        BY <3>1, <3>2
    <2> QED
      BY <2>2, <2>3 DEF Token
  <1>3. ASSUME NEW p \in Process, ScheduleNextToReady(p) PROVE FALSE
    <2>1. thread[p] = "init" /\ thread' = [thread EXCEPT ![p] = "receive"]
          /\ thread \in [Process -> {"receive", "schedule", "grado", "init", "ended"}]
      BY <1>3 DEF ScheduleNextToReady, KernelInv, TypeOK, ThreadType
    <2>2. Admitters = {p}
      BY <2>1, OneAdmitter DEF KernelInv, TypeOK, AdmissionInv, Admitters
    <2>3. \A q \in Process : thread'[q] # "init"
      BY <2>1, <2>2 DEF Admitters
    <2> QED
      BY <2>3 DEF Token, KernelInv, AdmissionInv, SomeoneWaits
  <1> QED
    BY <1>2, <1>3

(* Nothing but the admission itself takes the answer away.                 *)
LEMMA TokenStays ==
    ASSUME KernelInv, Next, Token, \A p \in Process : ~ScheduleNextToReady(p)
    PROVE  Token'
  <1> USE DEF KernelInv, TypeOK, SemType, SemName
  <1> DEFINE Rises == /\ sem'["init_process_memory"] \in Nat
                      /\ sem'["init_process_memory"] >= sem["init_process_memory"]
  <1>1. fromMemory \in Seq(MemoryAnswer)
    BY DEF MemoryConnectionType
  <1>2. CASE ReceiveInitStructures
    BY <1>2 DEF ReceiveInitStructures, Sem_post, Token, Posted
  <1>3. ASSUME Rises, \/ UNCHANGED fromMemory
                      \/ \E m \in MemoryAnswer : fromMemory' = Append(fromMemory, m)
        PROVE  Token'
    <2>1. ASSUME NEW m \in MemoryAnswer, fromMemory' = Append(fromMemory, m)
          PROVE  Answered => Answered'
      BY <1>1, <2>1, AppendMessage DEF Answered
    <2>2. Answered => Answered'
      BY <1>3, <2>1 DEF Answered
    <2>3. Posted => Posted'
      BY <1>3 DEF Posted
    <2> QED
      BY <2>2, <2>3 DEF Token
  <1>4. CASE ReceivePageFaultResponse
    <2>1. Rises /\ fromMemory' = Tail(fromMemory) /\ fromMemory # <<>>
          /\ Head(fromMemory).op # "INIT_RESPONSE"
      BY <1>4 DEF ReceivePageFaultResponse, Sem_post
    <2> QED
      BY <1>1, <2>1, TailMessage DEF Token, Answered, Posted
  <1>5. ASSUME NEW p \in Process, ConsoleThread(p) PROVE Token'
    <2>1. Rises /\ UNCHANGED fromMemory
      BY <1>5 DEF ConsoleThread, ReceiveInitProcess, EnterScheduleReady,
         InitStructuresMemory, ReceiveIoResponse, ReceiveDisconnection,
         Sem_wait, Sem_post, memoryConnection
    <2> QED
      BY <1>3, <2>1
  <1>6. CASE Scheduler \/ Clock \/ Interrupt
    <2>1. Rises /\ UNCHANGED fromMemory
      BY <1>6 DEF Scheduler, WaitProcessInReady, ScheduleNextToRunning,
         RecordUltimo, Clock, ClockBegin, ClockRestart, ClockExpire,
         ClockFinish, Interrupt, ManageInterrupt, Sem_wait, Sem_post, memoryConnection
    <2> QED
      BY <1>3, <2>1
  <1>7. CASE Dispatch \/ \E d \in Device : DeviceThread(d)
    <2>1. Rises /\ UNCHANGED fromMemory
      BY <1>7 DEF Dispatch, DispatchReceive, DispatchNullUltimo, DispatchIoConsole,
         DispatchIoDefault, DispatchInterruption, DispatchPageFault,
         DispatchEnd, FreedBy, DeviceThread, DeviceBegin, DeviceFinish, Sem_post, memoryConnection
    <2> QED
      BY <1>3, <2>1
  <1>8. CASE Cpu \/ CpuInterrupt \/ \E p \in Process : PageFaultThread(p) \/ Console(p)
    <2>1. UNCHANGED <<sem, fromMemory>>
      BY <1>8, KernelUnchanged DEF PageFaultThread, ResolvePageFault, Console,
         ConsoleStart, ConsoleAnswer, ConsoleEnd, Cpu, CpuReceive, CpuExecute,
         CpuReturn, CpuInterrupt, memoryConnection
    <2> QED
      BY <1>3, <2>1
  <1>9. CASE Memory
    <2>1. Rises /\ (toMemory # <<>> => Head(toMemory).pcb \in Process)
      BY <1>9, RequestHead DEF Memory, MemoryInit, MemoryLoadPage, MemoryEnd
    <2>2. \/ UNCHANGED fromMemory
          \/ \E m \in MemoryAnswer : fromMemory' = Append(fromMemory, m)
      BY <1>9, <2>1 DEF Memory, MemoryInit, MemoryLoadPage, MemoryEnd, MemoryAnswer
    <2> QED
      BY <1>3, <2>1, <2>2
  <1> QED
    BY <1>2, <1>4, <1>5, <1>6, <1>7, <1>8, <1>9 DEF Next, ManageMemory

(* The tables are there when a process enters, and go after it has left.   *)
LEMMA ResidentNext ==
    ASSUME KernelInv, KernelInv', Resident, Prepared, Next
    PROVE  Resident' /\ Prepared'
  <1>1. TypeOK /\ PlaceInv /\ toMemory \in Seq(MemoryRequest)
    BY DEF KernelInv, TypeOK, MemoryConnectionType
  <1> DEFINE Newcomer == IF \E q \in Process : ScheduleNextToReady(q)
                           THEN {Head(list["NEW"])} ELSE {}
  <1>2. Owed' \subseteq Owed \cup Newcomer
    <2>1. Inside' \subseteq Inside \cup Newcomer
      BY StatusNext DEF Inside
    <2> QED
      BY <2>1, LeavingNext, EndingNext DEF Owed
  <1>3. Newcomer \subseteq structures
    <2>1. ASSUME NEW q \in Process, ScheduleNextToReady(q) PROVE Token
      BY <2>1 DEF ScheduleNextToReady, Token, Posted
    <2> QED
      BY <2>1 DEF Prepared
  <1>4. Token' => /\ Token \/ MemoryInit
                  /\ Newcomer = {}
    BY TokenNext
  <1>5. Token /\ Token' => /\ list["NEW"] # <<>> /\ list'["NEW"] # <<>>
                           /\ Head(list'["NEW"]) = Head(list["NEW"])
    <2>1. list["NEW"] \in Seq(Process)
      BY <1>1 DEF TypeOK, PcbType, ListName
    <2> QED
      BY <2>1, <1>1, TokenNext, NewNext DEF Prepared, KernelInv
  <1>6. CASE MemoryEnd
    <2>1. PICK p \in Process : /\ Head(toMemory) = EndRequest(p) /\ toMemory # <<>>
                               /\ toMemory' = Tail(toMemory)
                               /\ structures' = structures \ {p}
      <3>1. Head(toMemory) \in MemoryRequest
        BY <1>1, <1>6, HeadTail DEF MemoryEnd
      <3> QED
        BY <1>6, <3>1 DEF MemoryEnd, MemoryRequest, EndRequest
    <2>2. UNCHANGED <<list, status, dispatch>>
      BY <1>6 DEF MemoryEnd, pcbVars
    <2>3. EndRequest(p) \in Elements(toMemory) /\ EndRequest(p) \notin Elements(toMemory')
      BY <1>1, <2>1, TailElements DEF PlaceInv, NoDoubles
    <2>4. p \in Elements(list["EXIT"])
      BY <1>1, <2>3 DEF PlaceInv, SentOnce
    <2>5. At(p, "EXIT") /\ "EXIT" \in Place /\ "dispatch" \in Place
      BY <2>4 DEF At, Queue, Place
    <2>6. status[p] = "EXIT" /\ dispatch.pcb # p
      BY <1>1, <2>5, OnlyThere DEF PlaceInv, StatusAt, At, Queue
    <2>7. p \notin Owed'
      BY <2>2, <2>3, <2>6 DEF Owed, Inside, Leaving, Ending
    <2>8. Newcomer = {}
      <3>1. UNCHANGED thread
        BY <1>6 DEF MemoryEnd
      <3> QED
        BY <3>1, <1>1 DEF ScheduleNextToReady, TypeOK, ThreadType
    <2>9. Resident'
      BY <1>2, <2>1, <2>7, <2>8 DEF Resident
    <2>10. Prepared'
      <3>1. list["NEW"] # <<>> => Head(list["NEW"]) # p
        BY <1>1, <2>6, HeadIsNew
      <3>2. ~MemoryInit
        BY <1>6 DEF MemoryInit, MemoryEnd
      <3> QED
        BY <1>4, <1>5, <2>1, <3>1, <3>2 DEF Prepared
    <2> QED
      BY <2>9, <2>10
  <1>7. CASE ~MemoryEnd
    <2>1. structures \subseteq structures'
      BY <1>7, KernelUnchanged DEF Next, ConsoleThread, PageFaultThread, Console,
         ConsoleStart, ConsoleAnswer, ConsoleEnd, DeviceThread, Scheduler, Dispatch,
         Clock, Interrupt, ManageMemory, Cpu, CpuReceive, CpuExecute, CpuReturn,
         CpuInterrupt, Memory, MemoryInit, MemoryLoadPage, memVars, peerVars
    <2>2. Resident'
      BY <1>2, <1>3, <2>1 DEF Resident
    <2>3. CASE MemoryInit
      <3>1. /\ Head(toMemory) \in Elements(toMemory) /\ Head(toMemory).op = InitRequest
            /\ Head(toMemory).pcb \in structures' /\ UNCHANGED list
        BY <1>1, <2>3, TailElements DEF MemoryInit, InitRequest, pcbVars
      <3>2. list["NEW"] # <<>> /\ Head(list["NEW"]) = Head(toMemory).pcb
        BY <3>1 DEF KernelInv, AdmissionInv, AboutHeadOfNew
      <3> QED
        BY <2>2, <3>1, <3>2 DEF Prepared
    <2>4. CASE ~MemoryInit
      BY <1>4, <1>5, <2>1, <2>2, <2>4 DEF Prepared
    <2> QED
      BY <2>3, <2>4
  <1> QED
    BY <1>6, <1>7

(* No process is initialised before it is its turn.                        *)
Initialised ==
    \A p \in DOMAIN clock_structures :
        /\ status[p] # "none"
        /\ status[p] = "NEW" => Token /\ list["NEW"] # <<>> /\ p = Head(list["NEW"])

(* The memory's clocks of processes grow with the answer to an INIT.       *)
LEMMA InitialisedNext ==
    ASSUME KernelInv, KernelInv', Initialised, Next, DOMAIN clock_structures \subseteq Process,
           \/ DOMAIN clock_structures' = DOMAIN clock_structures
           \/ /\ MemoryInit
              /\ DOMAIN clock_structures' = DOMAIN clock_structures \cup {Head(toMemory).pcb}
    PROVE  Initialised'
  <1>1. TypeOK /\ PlaceInv /\ toMemory \in Seq(MemoryRequest) /\ fromMemory \in Seq(MemoryAnswer)
    BY DEF KernelInv, TypeOK, MemoryConnectionType
  <1>2. CASE MemoryInit /\ DOMAIN clock_structures' = DOMAIN clock_structures \cup {Head(toMemory).pcb}
    <2> DEFINE p == Head(toMemory).pcb
               m == [op |-> "INIT_RESPONSE", pcb |-> p]
    <2>1. /\ Head(toMemory) \in Elements(toMemory) /\ Head(toMemory).op = InitRequest
          /\ Head(toMemory) \in MemoryRequest
          /\ fromMemory' = Append(fromMemory, m) /\ UNCHANGED <<list, status, sem>>
      BY <1>1, <1>2, TailElements, HeadTail DEF MemoryInit, InitRequest, pcbVars
    <2>2. list["NEW"] # <<>> /\ p = Head(list["NEW"]) /\ status[p] = "NEW"
      BY <1>1, <2>1, HeadIsNew DEF KernelInv, AdmissionInv, AboutHeadOfNew
    <2>3. m \in MemoryAnswer /\ m.op = "INIT_RESPONSE"
      BY <2>1 DEF MemoryRequest, MemoryAnswer
    <2>4. Answered'
      BY <1>1, <2>1, <2>3, AppendMessage DEF Answered
    <2>5. Token'
      BY <2>4 DEF Token
    <2> QED
      BY <1>2, <2>1, <2>2, <2>5 DEF Initialised
  <1>3. ASSUME UNCHANGED DOMAIN clock_structures, NEW p \in DOMAIN clock_structures
        PROVE  /\ status'[p] # "none"
               /\ status'[p] = "NEW" => /\ Token' /\ list'["NEW"] # <<>>
                                        /\ p = Head(list'["NEW"])
    <2>1. p \in Process /\ status[p] # "none"
      BY <1>3 DEF Initialised
    <2>2. status'[p] # "none"
      BY <2>1, StatusNext DEF Inside
    <2>3. ASSUME status'[p] = "NEW"
          PROVE  Token' /\ list'["NEW"] # <<>> /\ p = Head(list'["NEW"])
      <3>1. status[p] = "NEW" /\ Token /\ list["NEW"] # <<>> /\ p = Head(list["NEW"])
        BY <2>1, <2>3, <1>3, StatusNext DEF Inside, Initialised
      <3>2. \A q \in Process : ~ScheduleNextToReady(q)
        <4>1. ASSUME NEW q \in Process, ScheduleNextToReady(q) PROVE FALSE
          <5>1. status' = [status EXCEPT ![p] = "READY"] /\ status \in [Process -> Status]
            BY <1>1, <3>1, <4>1 DEF ScheduleNextToReady, TypeOK, PcbType
          <5> QED
            BY <2>1, <2>3, <5>1
        <4> QED
          BY <4>1
      <3>3. list'["NEW"] # <<>> /\ p = Head(list'["NEW"])
        <4>1. list["NEW"] \in Seq(Process)
          BY <1>1 DEF TypeOK, PcbType, ListName
        <4> QED
          BY <1>1, <3>1, <3>2, <4>1, NewNext DEF KernelInv
      <3>4. Token'
        BY <3>1, <3>2, TokenStays
      <3> QED
        BY <3>3, <3>4
    <2> QED
      BY <2>2, <2>3
  <1> QED
    BY <1>2, <1>3 DEF Initialised

-----------------------------------------------------------------------------
(* The kernel of Geck goes on as it was while the CPU executes             *)
(* instructions that Geck does not know of.                                *)

CpuOnly ==
    /\ event' \in (ReturnOp \cup {"none"}) \ {"EXECUTE_INTERRUPTION"}
    /\ program_counter' \in [Process -> Nat]
    /\ UNCHANGED <<kernelVars, console, cpu, check_interruption, memVars>>

(* What such a step leaves alone.                                          *)
LEMMA CpuOnlyLeaves ==
    ASSUME CpuOnly
    PROVE  UNCHANGED <<list, status, sem, thread, dispatch, resolving, deviceVars, pcbVars,
                       toCpu, fromCpu, toMemory, fromMemory, memoryConnection,
                       consoleConnection, console, cpu, structures, loaded>>
  BY DEF CpuOnly, kernelVars, memVars, deviceVars, pcbVars, memoryConnection, consoleConnection

(* The invariant of the kernel is kept by Geck's steps and by these.       *)
LEMMA KernelInvNext ==
    ASSUME KernelInv, Next \/ CpuOnly
    PROVE  KernelInv'
  <1>1. TypeOK /\ CpuExclusive /\ AdmissionInv /\ PlaceInv
    BY DEF KernelInv
  <1>2. CASE Next
    BY <1>1, <1>2, TypeNext, CpuExclusiveNext, AdmissionNext, PlaceNext DEF KernelInv
  <1>3. CASE CpuOnly
    <2>1. UNCHANGED <<pcbVars, sem, faultVars, outVars, thread, scheduler, dispatch,
                      clock, deviceVars, cpuConnection, memoryConnection,
                      consoleConnection, console, memVars>>
      BY <1>3, KernelUnchanged DEF CpuOnly
    <2>2. CpuType'
      BY <1>1, <1>3 DEF CpuOnly, TypeOK, CpuType
    <2>3. TypeOK'
      BY <1>1, <2>1, <2>2, TypeUnchanged DEF TypeOK
    <2>4. CpuExclusive'
      BY <1>1, <1>3, CpuTokenKept, CpuOnlyLeaves
    <2>5. AdmissionInv'
      BY <1>1, <1>3, AdmissionKept, CpuOnlyLeaves
    <2>6. PlaceInv'
      <3>1. \A q \in Process : HasCpu(q)' <=> HasCpu(q)
        BY <1>3, CpuOnlyLeaves DEF HasCpu
      <3> QED
        BY <1>1, <1>3, <3>1, CpuStepPlaces, CpuOnlyLeaves
    <2> QED
      BY <2>3, <2>4, <2>5, <2>6 DEF KernelInv
  <1> QED
    BY <1>2, <1>3

(* These leave the tables and the requests alone, too.                     *)
LEMMA ResidentKept ==
    ASSUME Resident, Prepared, CpuOnly
    PROVE  Resident' /\ Prepared'
  <1>1. UNCHANGED <<Inside, Leaving, Ending, Answered, Posted>>
    BY CpuOnlyLeaves DEF Inside, Leaving, Ending, Answered, Posted
  <1> QED
    BY <1>1, CpuOnlyLeaves DEF Resident, Prepared, Owed, Token

-----------------------------------------------------------------------------
(* What the CPU executes.                                                  *)

LEMMA KindFacts ==
    ASSUME NEW p \in Process, NEW i \in InstructionOf(p)
    PROVE  /\ KindOf(p, i) \in {"COMPUTE", "EXIT", "FAULT", "MOV", "CONSOLE"} \cup Device
           /\ KindOf(p, i) = "MOV" =>
                 /\ i.op \in {"MOV_IN", "MOV_OUT"} /\ i.register \in Register
                 /\ i.address \in Address(p) /\ ~sigsegv(p, i.address)
           /\ i.op \in Arithmetic =>
                 /\ KindOf(p, i) = "COMPUTE" /\ i.register \in Register
                 /\ i.op = "SET" => i.value \in Word
                 /\ i.op # "SET" => i.from \in Register
  BY DeviceIsNoInstruction DEF InstructionOf, KindOf, Arithmetic, Word

(* p has executed the instruction that is its last.                        *)
Finished(p) ==
    \/ status[p] = "EXIT"
    \/ cpu = p /\ Ends(event)
    \/ \E m \in Elements(fromCpu) : m.pcb = p /\ Ends(m.op)

Unfinished ==
    \A p \in Process : Finished(p) \/ program_counter[p] < Len(Code[p])

(* The CPU is at an instruction of the process it runs.                    *)
LEMMA AtInstruction ==
    ASSUME KernelInv, Unfinished, cpu # NoProcess, event = "none"
    PROVE  /\ cpu \in Process /\ cpu \in Inside
           /\ Instr \in InstructionOf(cpu)
           /\ program_counter \in [Process -> Nat]
           /\ program_counter[cpu] < Len(Code[cpu])
           /\ KindOf(cpu, Instr) \notin {"EXIT", "FAULT"}
                => program_counter[cpu] + 1 < Len(Code[cpu])
  <1>1. cpu \in Process /\ Elements(fromCpu) = {}
    BY OnlyRunning DEF KernelInv
  <1>2. At(cpu, "cpu") /\ "cpu" \in Place
    BY <1>1 DEF At, HasCpu, Place
  <1>3. status[cpu] = "RUNNING"
    BY <1>1, <1>2, OnlyThere DEF KernelInv, PlaceInv, StatusAt, Queue
  <1>4. ~Finished(cpu)
    BY <1>1, <1>3 DEF Finished, Ends
  <1>5. program_counter \in [Process -> Nat] /\ program_counter[cpu] < Len(Code[cpu])
    BY <1>1, <1>4 DEF Unfinished, KernelInv, TypeOK, CpuType
  <1>6. /\ Code[cpu] \in Seq(InstructionOf(cpu)) /\ Code[cpu] # <<>>
        /\ KindOf(cpu, Code[cpu][Len(Code[cpu])]) \in {"EXIT", "FAULT"}
    BY <1>1, CodeAssumption
  <1>7. program_counter[cpu] + 1 \in 1 .. Len(Code[cpu]) /\ Len(Code[cpu]) \in Nat
    BY <1>1, <1>5, <1>6
  <1>8. Instr \in InstructionOf(cpu)
    BY <1>6, <1>7 DEF Instr
  <1>9. program_counter[cpu] + 1 = Len(Code[cpu]) => KindOf(cpu, Instr) \in {"EXIT", "FAULT"}
    BY <1>6 DEF Instr
  <1> QED
    BY <1>1, <1>3, <1>5, <1>7, <1>8, <1>9 DEF Inside

(* Who has finished does not run again.                                    *)
LEMMA FinishedStays ==
    ASSUME KernelInv, KernelInv', Next \/ (CpuOnly /\ ~Ends(event)), NEW p \in Process, Finished(p)
    PROVE  Finished(p)'
  <1>1. CASE CpuOnly /\ ~Ends(event)
    BY <1>1, CpuOnlyLeaves DEF Finished
  <1>2. CASE Next /\ status[p] = "EXIT"
    BY <1>2, StatusNext DEF Finished, Inside
  <1>3. CASE Next /\ cpu = p /\ Ends(event)
    <2>1. cpu # NoProcess /\ event # "none" /\ fromCpu \in Seq(ReturnMessage)
      BY <1>3, NoProcessAssumption DEF Ends, KernelInv, TypeOK, CpuConnectionType
    <2>2. CASE CpuReturn
      <3>1. fromCpu' = Append(fromCpu, [op |-> event, pcb |-> cpu])
        BY <2>1, <2>2 DEF CpuReturn
      <3>2. [op |-> event, pcb |-> cpu] \in ReturnMessage
        BY <1>3 DEF ReturnMessage, ReturnOp, Ends
      <3>3. [op |-> event, pcb |-> cpu] \in Elements(fromCpu')
        BY <2>1, <3>1, <3>2, AppendElements
      <3> QED
        BY <1>3, <3>3 DEF Finished
    <2>3. CASE ~CpuReturn
      <3>1. UNCHANGED <<cpu, event>>
        BY <1>3, <2>1, <2>3 DEF Next, ConsoleThread, PageFaultThread, Console,
           ConsoleStart, ConsoleAnswer, ConsoleEnd, DeviceThread, Scheduler, Dispatch,
           Clock, Interrupt, ManageMemory, Cpu, CpuReceive, CpuExecute,
           CpuInterrupt, Memory, MemoryInit, MemoryLoadPage, MemoryEnd, cpuVars, peerVars
      <3> QED
        BY <1>3, <3>1 DEF Finished
    <2> QED
      BY <2>2, <2>3
  <1>4. ASSUME Next, NEW m \in Elements(fromCpu), m.pcb = p, Ends(m.op)
        PROVE  Finished(p)'
    <2>1. fromCpu \in Seq(ReturnMessage) /\ fromCpu # <<>> /\ m \in ReturnMessage
      <3>1. fromCpu \in Seq(ReturnMessage)
        BY DEF KernelInv, TypeOK, CpuConnectionType
      <3> QED
        BY <1>4, <3>1, ElementsType DEF Elements
    <2>2. CASE DispatchReceive
      <3>1. m = Head(fromCpu)
        BY <1>4, <2>1, OnlyInReturn DEF KernelInv
      <3>2. status' = [status EXCEPT ![p] = "EXIT"] /\ status \in [Process -> Status]
        BY <1>4, <2>2, <3>1 DEF DispatchReceive, KernelInv, TypeOK, PcbType
      <3> QED
        BY <3>2 DEF Finished
    <2>3. CASE CpuReturn
      <3> DEFINE e == [op |-> IF event # "none" THEN event ELSE "EXECUTE_INTERRUPTION",
                       pcb |-> cpu]
      <3>1. fromCpu' = Append(fromCpu, e) /\ cpu \in Process
        BY <2>3 DEF CpuReturn, KernelInv, TypeOK, CpuType
      <3>2. e \in ReturnMessage
        BY <3>1 DEF ReturnMessage, ReturnOp, KernelInv, TypeOK, CpuType
      <3>3. Elements(fromCpu) \subseteq Elements(fromCpu')
        BY <2>1, <3>1, <3>2, AppendElements
      <3> QED
        BY <1>4, <3>3 DEF Finished
    <2>4. CASE ~DispatchReceive /\ ~CpuReturn
      <3>1. UNCHANGED fromCpu
        BY <1>4, <2>4, KernelUnchanged DEF Next, ConsoleThread, ReceiveInitProcess, EnterScheduleReady,
           InitStructuresMemory, ScheduleNextToReady, ReceiveIoResponse,
           ReceiveDisconnection, PageFaultThread, ResolvePageFault, Console,
           ConsoleStart, ConsoleAnswer, ConsoleEnd, DeviceThread, DeviceBegin,
           DeviceFinish, Scheduler, WaitProcessInReady, ScheduleNextToRunning,
           RecordUltimo, Dispatch, DispatchNullUltimo, DispatchIoConsole,
           DispatchIoDefault, DispatchInterruption, DispatchPageFault,
           DispatchEnd, Clock, ClockBegin, ClockRestart, ClockExpire,
           ClockFinish, Interrupt, ManageInterrupt, ManageMemory,
           ReceiveInitStructures, ReceivePageFaultResponse, Cpu, CpuReceive,
           CpuExecute, CpuInterrupt, Memory, MemoryInit,
           MemoryLoadPage, MemoryEnd, cpuConnection
      <3> QED
        BY <1>4, <3>1 DEF Finished
    <2> QED
      BY <2>2, <2>3, <2>4
  <1> QED
    BY <1>1, <1>2, <1>3, <1>4 DEF Finished

-----------------------------------------------------------------------------
(* The registers and the TLB.                                              *)

LEMMA WordFacts ==
    /\ 0 \in Word /\ Unset \in Word /\ 0 .. Words - 1 \subseteq Word
    /\ \A a, b \in Word : Sum(a, b) \in Word
  <1>1. 0 \in Word /\ Unset \in Word /\ 0 .. Words - 1 \subseteq Word
    BY WordsAssumption DEF Word
  <1>2. ASSUME NEW a \in Word, NEW b \in Word PROVE Sum(a, b) \in Word
    <2>1. CASE Unset \in {a, b}
      BY <1>1, <2>1 DEF Sum
    <2>2. CASE Unset \notin {a, b}
      <3>1. a + b \in Nat /\ Words \in Nat \ {0}
        BY <2>2, WordsAssumption DEF Word
      <3>2. (a + b) % Words \in 0 .. Words - 1
        BY <3>1, Division
      <3> QED
        BY <1>1, <2>2, <3>2 DEF Sum
    <2> QED
      BY <2>1, <2>2
  <1> QED
    BY <1>1, <1>2

TlbEntry == [page : Mem!Page \cup {NoPage}, frame : Mem!Frame \cup {-1}]

(* A hit brings a frame of the TLB, and leaves a TLB of as many rows.      *)
LEMMA ReferencedType ==
    ASSUME NEW t \in Seq(TlbEntry), NEW pg, Hits(t, pg) # {}
    PROVE  /\ present_in_tlb(t, pg) \in Mem!Frame \cup {-1}
           /\ Referenced(t, pg) \in Seq(TlbEntry) /\ Len(Referenced(t, pg)) = Len(t)
  <1> DEFINE hit == FirstHit(t, pg)
             n == Len(t)
  <1>1. hit \in 1 .. n /\ n \in Nat /\ DOMAIN t = 1 .. n
    BY DEF FirstHit, Hits
  <1>2. t[hit] \in TlbEntry
    BY <1>1
  <1>3. present_in_tlb(t, pg) \in Mem!Frame \cup {-1}
    BY <1>2 DEF present_in_tlb, TlbEntry
  <1>4. CASE REEMPLAZO_TLB = "FIFO"
    BY <1>3, <1>4 DEF Referenced
  <1>5. CASE REEMPLAZO_TLB # "FIFO"
    <2> DEFINE r == [i \in 1 .. n |-> IF i < hit THEN t[i]
                                      ELSE IF i < n THEN t[i + 1] ELSE t[hit]]
    <2>1. Referenced(t, pg) = r
      BY <1>1, <1>5 DEF Referenced
    <2>2. \A i \in 1 .. n : r[i] \in TlbEntry
      BY <1>1, <1>2
    <2>3. r \in [1 .. n -> TlbEntry]
      BY <2>2
    <2> HIDE DEF r
    <2>4. r \in Seq(TlbEntry) /\ Len(r) = n
      BY <1>1, <2>3
    <2> QED
      BY <1>3, <2>1, <2>4
  <1> QED
    BY <1>4, <1>5

(* So does a new row.                                                      *)
LEMMA AddedType ==
    ASSUME NEW t \in Seq(TlbEntry), Len(t) = ENTRADAS_TLB, NEW pg \in Mem!Page, NEW f \in Mem!Frame
    PROVE  add_to_tlb(t, pg, f) \in Seq(TlbEntry) /\ Len(add_to_tlb(t, pg, f)) = ENTRADAS_TLB
  <1>1. TlbRow(pg, f) \in TlbEntry
    BY DEF TlbRow, TlbEntry
  <1>2. CASE t = <<>>
    BY <1>2 DEF add_to_tlb
  <1>3. CASE t # <<>>
    <2>1. Tail(t) \in Seq(TlbEntry) /\ Len(Tail(t)) = Len(t) - 1 /\ Len(t) # 0 /\ Len(t) \in Nat
      BY <1>3, HeadTail
    <2>2. Append(Tail(t), TlbRow(pg, f)) \in Seq(TlbEntry)
          /\ Len(Append(Tail(t), TlbRow(pg, f))) = Len(Tail(t)) + 1
      BY <1>1, <2>1, AppendType
    <2> QED
      BY <2>1, <2>2 DEF add_to_tlb
  <1> QED
    BY <1>2, <1>3

(* The TLB is full from the start.                                         *)
LEMMA FirstTlb == init_tlb \in Seq(TlbEntry) /\ Len(init_tlb) = ENTRADAS_TLB
  <1>1. TlbRow(NoPage, -1) \in TlbEntry
    BY DEF TlbRow, TlbEntry
  <1>2. init_tlb \in [1 .. ENTRADAS_TLB -> TlbEntry] /\ ENTRADAS_TLB \in Nat
    BY <1>1, TlbAssumption DEF init_tlb
  <1> QED
    BY <1>2

-----------------------------------------------------------------------------
(* The memory of module MemoriaProofs is the one of module Sistema.        *)

LEMMA SamePages ==
    /\ \A p : Mem!PagesOf(p) = MP!PagesOf(p)
    /\ \A p, s : Mem!Page_table(p, s) = MP!Page_table(p, s)
    /\ Mem!Page = MP!Page /\ Mem!Frame = MP!Frame /\ Mem!Position = MP!Position
    /\ Mem!Offset = MP!Offset
  BY Zenon DEF Mem!Page, MP!Page, Mem!PagesOf, MP!PagesOf, Mem!Page_table, MP!Page_table,
     Mem!calculate_frames_of_segment, MP!calculate_frames_of_segment, Mem!Frame, MP!Frame,
     Mem!Position, MP!Position, Mem!Offset, MP!Offset

(* The types of both are the same,                                         *)
LEMMA SameTypes == Mem!TypeOK <=> MP!TypeOK
  BY SamePages, Zenon DEF Mem!TypeOK, MP!TypeOK, Mem!PageRow, MP!PageRow, Mem!Clock, MP!Clock,
     Mem!ClockRow, MP!ClockRow, Mem!Contents, MP!Contents, Mem!Row, MP!Row

(* and so are the requests of the kernel that build and delete tables,     *)
LEMMA SameTables ==
    ASSUME NEW p
    PROVE  /\ Mem!BuildTables(p) <=> MP!BuildTables(p)
           /\ Mem!SwapFull(p) <=> MP!SwapFull(p)
           /\ Mem!delete_process(p) <=> MP!delete_process(p)
  <1>1. Mem!BuildTables(p) <=> MP!BuildTables(p)
    BY Zenon DEF Mem!BuildTables, MP!BuildTables, Mem!Owner, MP!Owner, Mem!Assigned, MP!Assigned,
     Mem!find_page_free, MP!find_page_free, Mem!Before, MP!Before,
     Mem!Precedes, MP!Precedes, Mem!NewRow, MP!NewRow, Mem!Cardinality,
     MP!Cardinality, Mem!Page, MP!Page, Mem!PagesOf, MP!PagesOf,
     Mem!Page_table, MP!Page_table, Mem!calculate_frames_of_segment,
     MP!calculate_frames_of_segment, Mem!Frame, MP!Frame, Mem!Position,
     MP!Position, Mem!Offset, MP!Offset
  <1>2. Mem!SwapFull(p) <=> MP!SwapFull(p)
    BY Zenon DEF Mem!SwapFull, MP!SwapFull, Mem!MemoryDies, MP!MemoryDies,
     Mem!Cardinality, MP!Cardinality, Mem!Page, MP!Page, Mem!PagesOf,
     MP!PagesOf, Mem!Page_table, MP!Page_table,
     Mem!calculate_frames_of_segment, MP!calculate_frames_of_segment,
     Mem!Frame, MP!Frame, Mem!Position, MP!Position, Mem!Offset,
     MP!Offset
  <1>3. Mem!delete_process(p) <=> MP!delete_process(p)
    BY Zenon DEF Mem!delete_process, MP!delete_process, Mem!Owner, MP!Owner,
     Mem!MemoryDies, MP!MemoryDies, Mem!FramesOf, MP!FramesOf, Mem!Page,
     MP!Page, Mem!PagesOf, MP!PagesOf, Mem!Page_table, MP!Page_table,
     Mem!calculate_frames_of_segment, MP!calculate_frames_of_segment,
     Mem!Frame, MP!Frame, Mem!Position, MP!Position, Mem!Offset,
     MP!Offset
  <1> QED
    BY <1>1, <1>2, <1>3

(* the page fault,                                                         *)
LEMMA SameFaults ==
    ASSUME NEW pg
    PROVE  Mem!request_page_fault(pg) <=> MP!request_page_fault(pg)
  BY SamePages, Zenon DEF Mem!request_page_fault, MP!request_page_fault,
     Mem!LoadInFreeFrame, MP!LoadInFreeFrame, Mem!LoadByReplacing, MP!LoadByReplacing,
     Mem!LoadNowhere, MP!LoadNowhere, Mem!Replace, MP!Replace, Mem!MemoryDies, MP!MemoryDies,
     Mem!FramesOf, MP!FramesOf, Mem!Owner, MP!Owner, Mem!find_page_free, MP!find_page_free,
     Mem!In, MP!In, Mem!Out, MP!Out, Mem!add_page_to_clock_structure,
     MP!add_page_to_clock_structure, Mem!PageAt, MP!PageAt, Mem!BitsOf, MP!BitsOf,
     Mem!SwapAfterEviction, MP!SwapAfterEviction, Mem!RowsAfterReplacing, MP!RowsAfterReplacing,
     Mem!Cleared, MP!Cleared, Mem!IsVictim, MP!IsVictim, Mem!Rank, MP!Rank, Mem!Distance,
     MP!Distance, Mem!Row, MP!Row, Mem!move_to_next_pointer, MP!move_to_next_pointer

(* the requests of the CPU,                                                *)
LEMMA SameAccesses ==
    /\ \A pg : Mem!mov_in(pg) <=> MP!mov_in(pg)
    /\ \A p, s, f, o, value : Mem!mov_out(p, s, f, o, value) <=> MP!mov_out(p, s, f, o, value)
  <1>1. ASSUME NEW pg PROVE Mem!mov_in(pg) <=> MP!mov_in(pg)
    BY Zenon DEF Mem!mov_in, MP!mov_in, Mem!FramesOf, MP!FramesOf, Mem!Owner, MP!Owner,
     Mem!Page, MP!Page, Mem!PagesOf, MP!PagesOf, Mem!Page_table, MP!Page_table,
     Mem!calculate_frames_of_segment, MP!calculate_frames_of_segment
  <1>2. ASSUME NEW p, NEW s, NEW f, NEW o, NEW value
        PROVE  Mem!mov_out(p, s, f, o, value) <=> MP!mov_out(p, s, f, o, value)
    BY Zenon DEF Mem!mov_out, MP!mov_out, Mem!save_value_in_memory,
     MP!save_value_in_memory, Mem!NoRowForFrame, MP!NoRowForFrame,
     Mem!MemoryDies, MP!MemoryDies, Mem!InFrame, MP!InFrame,
     Mem!FramesOf, MP!FramesOf, Mem!Owner, MP!Owner, Mem!Page, MP!Page,
     Mem!PagesOf, MP!PagesOf, Mem!Page_table, MP!Page_table,
     Mem!calculate_frames_of_segment, MP!calculate_frames_of_segment,
     Mem!Frame, MP!Frame, Mem!Position, MP!Position, Mem!Offset,
     MP!Offset
  <1> QED
    BY <1>1, <1>2

(* and the whole next-state relation.                                      *)
LEMMA SameNext == Mem!Next <=> MP!Next
  <1> DEFINE I(p) == \/ ~row[p].presence /\ Mem!request_page_fault(p)
                     \/ Mem!mov_in(p)
             J(p) == \/ ~row[p].presence /\ MP!request_page_fault(p)
                     \/ MP!mov_in(p)
             O(p, pg, f, o, value) == Mem!mov_out(p, pg[2], f, o, value)
             Q(p, pg, f, o, value) == MP!mov_out(p, pg[2], f, o, value)
             M(p) == \E pg \in MP!PagesOf(p) :
                        I(pg) \/ \E f \in MP!Frame, o \in MP!Offset, value \in Word : O(p, pg, f, o, value)
             N(p) == \E pg \in MP!PagesOf(p) :
                        J(pg) \/ \E f \in MP!Frame, o \in MP!Offset, value \in Word : Q(p, pg, f, o, value)
             A(p) == Mem!init_process_structures(p)
             B(p) == MP!init_process_structures(p)
             C(p) == Mem!delete_process(p)
             D(p) == MP!delete_process(p)
  <1>1. \A pg : I(pg) <=> J(pg)
    BY SameFaults, SameAccesses
  <1>2. \A p, pg, f, o, value : O(p, pg, f, o, value) <=> Q(p, pg, f, o, value)
    BY SameAccesses
  <1>3. \A p : (A(p) <=> B(p)) /\ (C(p) <=> D(p))
    BY SameTables DEF Mem!init_process_structures, MP!init_process_structures
  <1>4. Mem!Next <=> /\ memory_alive
                     /\ \/ \E p \in Process \ DOMAIN clock_structures : A(p)
                        \/ \E p \in structures : C(p)
                        \/ \E p \in structures : M(p)
    <2>1. Mem!Frame = MP!Frame /\ Mem!Offset = MP!Offset /\ \A p : Mem!PagesOf(p) = MP!PagesOf(p)
      BY SamePages
    <2> QED
      BY <2>1, Zenon DEF Mem!Next
  <1>5. MP!Next <=> /\ memory_alive
                    /\ \/ \E p \in Process \ DOMAIN clock_structures : B(p)
                       \/ \E p \in structures : D(p)
                       \/ \E p \in structures : N(p)
    BY Zenon DEF MP!Next
  <1> HIDE DEF I, J, O, Q, A, B, C, D
  <1>6. \A p : M(p) <=> N(p)
    BY <1>1, <1>2
  <1> HIDE DEF M, N
  <1> QED
    BY <1>3, <1>4, <1>5, <1>6, Zenon

(* The assumptions of module Memoria hold of the whole system's memory.    *)
LEMMA MemoriaAssumptions ==
    /\ Segments \in [Process -> Seq(Nat)]
    /\ TAM_PAGINA \in Nat \ {0} /\ Frames \in Nat /\ SwapPages \in Nat
    /\ ALGORITMO_REEMPLAZO \in MP!Algoritmo
    /\ {0, Unset} \subseteq Word
    /\ MARCOS_POR_PROCESO \in Nat \ {0}
  BY MemoryAssumption, TableAssumption, WordFacts DEF Mem!Algoritmo, MP!Algoritmo

(* A step of Sistema's memory keeps Memoria's inductive invariant.         *)
LEMMA MemoriaKept == MP!IInv /\ [Mem!Next]_(Mem!memoriaVars) => MP!IInv'
  <1>1. UNCHANGED Mem!memoriaVars <=> UNCHANGED MP!memoriaVars
    BY DEF Mem!memoriaVars, MP!memoriaVars
  <1>2. MP!IInv /\ [MP!Next]_(MP!memoriaVars) => MP!IInv'
    BY MP!NextKeeps, MemoriaAssumptions
  <1> QED
    BY <1>1, <1>2, SameNext

-----------------------------------------------------------------------------
(* The invariant of the whole system.                                      *)

SocketMessage == [op : {"none", "FRAME_REQUEST", "FRAME_RESPONSE", "PAGE_FAULT",
                   "MOV_IN", "MOV_IN_OK", "MOV_OUT", "MOV_OUT_OK"},
             frame : Mem!Frame \cup {-1}, value : Word]

MmuType ==
    /\ cpu_registers \in [Process -> [Register -> Word]]
    /\ registers \in [Register -> Word]
    /\ tlb \in Seq(TlbEntry) /\ Len(tlb) = ENTRADAS_TLB
    /\ socket_memory \in SocketMessage
    /\ fault \in [Process -> Mem!Page \cup {NoPage}]

Rested == cpu = NoProcess => event = "none"

(* What the CPU and the memory tell each other is about the instruction    *)
(* the CPU is at.                                                          *)
Exchange ==
    socket_memory.op # "none" =>
        /\ cpu # NoProcess /\ event = "none"
        /\ KindOf(cpu, Instr) = "MOV"
        /\ socket_memory.op = "PAGE_FAULT" => ~row[ThePage].presence
        /\ socket_memory.op \in {"FRAME_RESPONSE", "MOV_IN", "MOV_OUT"}
             => socket_memory.frame \in Mem!Frame

(* The page fault of p is on its way, from the CPU to the memory.          *)
Faulted(p) ==
    \/ cpu = p /\ event = "PAGE_FAULT"
    \/ [op |-> "PAGE_FAULT", pcb |-> p] \in Elements(fromCpu)
    \/ dispatch = [op |-> "PAGE_FAULT", pcb |-> p]
    \/ p \in resolving
    \/ PageRequest(p) \in Elements(toMemory)

FaultsAbsent ==
    \A p \in Process :
        Faulted(p) => fault[p] \in Mem!PagesOf(p) /\ ~row[fault[p]].presence

SistemaInv ==
    /\ KernelInv /\ Resident /\ Prepared /\ Initialised
    /\ MP!IInv
    /\ MmuType
    /\ Unfinished /\ Rested /\ Exchange /\ FaultsAbsent

-----------------------------------------------------------------------------
(* The steps of the system, seen from the kernel.                          *)

KernelStep == Next /\ UNCHANGED <<cpu, event, program_counter, structures, newVars>>

(* Every thread that Geck has takes Geck's step and nothing else.          *)
LEMMA SistemaSteps ==
    ASSUME SistemaNext
    PROVE  KernelStep \/ DispatchThread \/ AttendCpu \/ AttendKernel
  <1>1. alive
    BY DEF SistemaNext, Running
  <1>2. ASSUME NEW p \in Process,
               Unchanged(ConsoleThread(p)) \/ Unchanged(PageFaultThread(p)) \/ Unchanged(Console(p))
        PROVE  KernelStep
    BY <1>1, <1>2 DEF Unchanged, KernelStep, Next, ConsoleThread, PageFaultThread, Console,
       ConsoleStart, ConsoleAnswer, ConsoleEnd, peerVars, cpuVars, memVars
  <1>3. ASSUME NEW d \in Device, Unchanged(DeviceThread(d)) PROVE KernelStep
    BY <1>1, <1>3 DEF Unchanged, KernelStep, Next, DeviceThread, peerVars
  <1>4. CASE Unchanged(Scheduler) \/ Unchanged(Dispatch) \/ Unchanged(Clock)
             \/ Unchanged(Interrupt) \/ Unchanged(ManageMemory) \/ Unchanged(CpuInterrupt)
    BY <1>1, <1>4 DEF Unchanged, KernelStep, Next, Scheduler, Dispatch, Clock, Interrupt,
       ManageMemory, CpuInterrupt, peerVars, memVars
  <1> QED
    BY <1>2, <1>3, <1>4 DEF SistemaNext

(* A request of the kernel: Geck's step with Memoria's operation, or the   *)
(* memory's death.                                                         *)
LEMMA AttendKernelSteps ==
    ASSUME AttendKernel, alive
    PROVE  /\ UNCHANGED <<cpu, event, program_counter, mmuVars, pcbRegisters>>
           /\ toMemory # <<>>
           /\ \/ /\ MemoryInit /\ Next /\ Mem!BuildTables(Head(toMemory).pcb)
              \/ /\ Head(toMemory).op = InitRequest
                 /\ Mem!SwapFull(Head(toMemory).pcb) /\ UNCHANGED vars
              \/ MemoryLoadPage /\ Next /\ Mem!request_page_fault(fault[Head(toMemory).pcb])
              \/ MemoryEnd /\ Next /\ Mem!delete_process(Head(toMemory).pcb)
  <1>1. MemoryInit \/ MemoryLoadPage \/ MemoryEnd => Next
    BY DEF Next, Memory
  <1>2. CASE AnswerInit
    BY <1>1, <1>2 DEF AnswerInit, MemoryInit, cpuVars, vars, peerVars, InitRequest
  <1>3. CASE AnswerPageFault
    BY <1>1, <1>3 DEF AnswerPageFault, MemoryLoadPage, cpuVars
  <1>4. CASE ServeEnd
    BY <1>1, <1>4 DEF ServeEnd, MemoryEnd, cpuVars
  <1> QED
    BY <1>2, <1>3, <1>4 DEF AttendKernel

(* An instruction of the CPU, or what the memory answers it.               *)
LEMMA CpuOnlySteps ==
    ASSUME KernelInv,
           \/ AttendCpu
           \/ ExecuteSetOrAdd \/ ExecuteAndLeave \/ TranslateByTlb \/ AskFrame
           \/ ReceiveFrame
           \/ ReceivePageFault
           \/ (ReceiveMovIn \/ ReceiveMovOut) /\ cpu # NoProcess
    PROVE  CpuOnly
  <1>1. /\ event \in (ReturnOp \cup {"none"}) \ {"EXECUTE_INTERRUPTION"}
        /\ program_counter \in [Process -> Nat] /\ cpu \in Process \cup {NoProcess}
    BY DEF KernelInv, TypeOK, CpuType
  <1>2. UNCHANGED vars => CpuOnly
    BY <1>1 DEF vars, peerVars, memVars, CpuOnly
  <1>3. ASSUME cpu # NoProcess, NEW e \in (ReturnOp \cup {"none"}) \ {"EXECUTE_INTERRUPTION"},
               Complete(e)
        PROVE  CpuOnly
    BY <1>1, <1>3 DEF Complete, CpuOnly
  <1>4. "none" \in (ReturnOp \cup {"none"}) \ {"EXECUTE_INTERRUPTION"}
    OBVIOUS
  <1>5. CASE ExecuteSetOrAdd
    BY <1>3, <1>4, <1>5 DEF ExecuteSetOrAdd, Fetching
  <1>6. CASE ExecuteAndLeave
    <2> DEFINE kind == KindOf(cpu, Instr)
    <2>1. /\ cpu # NoProcess
          /\ kind \in {"EXIT", "FAULT", "CONSOLE"} \cup Device
          /\ Complete(EventOf(cpu, kind))
      BY <1>6 DEF ExecuteAndLeave, Fetching
    <2> HIDE DEF kind
    <2>2. EventOf(cpu, kind) \in (ReturnOp \cup {"none"}) \ {"EXECUTE_INTERRUPTION"}
      BY <2>1, DeviceAssumption, DeviceIsNoInstruction DEF EventOf, ReturnOp
    <2> QED
      BY <1>3, <2>1, <2>2
  <1>7. CASE ReceivePageFault
    BY <1>1, <1>7 DEF ReceivePageFault, CpuOnly, ReturnOp
  <1>8. CASE (ReceiveMovIn \/ ReceiveMovOut) /\ cpu # NoProcess
    BY <1>3, <1>4, <1>8 DEF ReceiveMovIn, ReceiveMovOut
  <1>9. CASE TranslateByTlb \/ AskFrame \/ ReceiveFrame \/ AttendCpu
    BY <1>2, <1>9 DEF TranslateByTlb, AskFrame, ReceiveFrame, AttendCpu, AnswerFrameRequest,
       AnswerMovIn, AnswerMovOut
  <1> QED
    BY <1>5, <1>6, <1>7, <1>8, <1>9

(* The CPU is at a MOV: its page is one of a live process.                 *)
LEMMA Accessing ==
    ASSUME SistemaInv, cpu # NoProcess, event = "none", KindOf(cpu, Instr) = "MOV"
    PROVE  /\ cpu \in Process /\ cpu \in structures
           /\ Instr.op \in {"MOV_IN", "MOV_OUT"} /\ Instr.register \in Register
           /\ ThePage \in Mem!PagesOf(cpu) /\ ThePage \in Mem!Page
           /\ ThePage[2] \in 0 .. Len(Segments[cpu]) - 1
           /\ OffsetOf(Instr.address) \in Mem!Offset
  <1>1. /\ cpu \in Process /\ cpu \in Inside /\ Instr \in InstructionOf(cpu)
    BY AtInstruction DEF SistemaInv
  <1>2. /\ Instr.op \in {"MOV_IN", "MOV_OUT"} /\ Instr.register \in Register
        /\ Instr.address \in Address(cpu) /\ ~sigsegv(cpu, Instr.address)
    BY <1>1, KindFacts
  <1>3. cpu \in structures
    BY <1>1 DEF SistemaInv, Resident, Owed
  <1> QED
    BY <1>1, <1>2, <1>3, PageExists DEF ThePage, Mem!Page

(* A page that is present is in a frame.                                   *)
LEMMA InSomeFrame ==
    ASSUME SistemaInv, NEW p \in structures, NEW pg \in Mem!PagesOf(p), row[pg].presence
    PROVE  row[pg].frame_number \in Mem!Frame
  <1>1. structures \subseteq Process
    BY DEF SistemaInv, KernelInv, TypeOK, MemoryType
  <1>2. pg \in MP!PagesOf(p) /\ Mem!Frame = MP!Frame
    BY SamePages
  <1>3. pg \in MP!Live /\ pg \in MP!Present
    BY <1>1, <1>2 DEF MP!Live, MP!Present
  <1>4. row[pg].frame_number \in bitmap_memory
    BY <1>3 DEF SistemaInv, MP!IInv, MP!FrameHasOneOwner
  <1> QED
    BY <1>2, <1>4 DEF SistemaInv, MP!IInv, MP!TypeOK

(* The frame in any row is one of the memory's, or -1.                     *)
LEMMA RowType ==
    ASSUME SistemaInv, NEW pg \in Mem!Page
    PROVE  row[pg].frame_number \in Mem!Frame \cup {-1}
  BY SamePages, SameTypes DEF SistemaInv, MP!IInv, Mem!TypeOK, Mem!PageRow

-----------------------------------------------------------------------------
(* The registers, the TLB and the connection keep their types.             *)

LEMMA MessageType ==
    ASSUME NEW o \in {"none", "FRAME_REQUEST", "FRAME_RESPONSE", "PAGE_FAULT",
                      "MOV_IN", "MOV_IN_OK", "MOV_OUT", "MOV_OUT_OK"},
           NEW f \in Mem!Frame \cup {-1}, NEW v \in Word
    PROVE  Message(o, f, v) \in SocketMessage
  BY DEF Message, SocketMessage

(* The second exchange is well formed.                                     *)
LEMMA RequestType ==
    ASSUME SistemaInv, cpu # NoProcess, event = "none", KindOf(cpu, Instr) = "MOV",
           NEW f \in Mem!Frame
    PROVE  Request(f) \in SocketMessage /\ Request(f).frame = f
           /\ Request(f).op \in {"MOV_IN", "MOV_OUT"}
  <1>1. Instr.op \in {"MOV_IN", "MOV_OUT"} /\ Instr.register \in Register
    BY Accessing
  <1>2. registers[Instr.register] \in Word /\ 0 \in Word
    BY <1>1, WordFacts DEF SistemaInv, MmuType
  <1> QED
    BY <1>1, <1>2, MessageType DEF Request, Message

(* SET and ADD keep the registers words.                                   *)
LEMMA ArithmeticType ==
    ASSUME NEW rs \in [Register -> Word], NEW p \in Process, NEW i \in InstructionOf(p),
           i.op \in Arithmetic
    PROVE  ExecuteArithmetic(rs, i) \in [Register -> Word]
  <1>1. i.register \in Register /\ (i.op = "SET" => i.value \in Word)
        /\ (i.op # "SET" => i.from \in Register)
    BY KindFacts
  <1> DEFINE v == IF i.op = "SET" THEN i.value ELSE rs[i.from]
  <1>2. v \in Word
    BY <1>1
  <1>3. Sum(rs[i.register], v) \in Word
    BY <1>1, <1>2, WordFacts
  <1> HIDE DEF v
  <1>4. add_value_to_register(rs, i.register, v) \in [Register -> Word]
    BY <1>1, <1>3 DEF add_value_to_register
  <1> QED
    BY <1>4 DEF ExecuteArithmetic, v

LEMMA MmuKept == MmuType /\ UNCHANGED <<mmuVars, pcbRegisters>> => MmuType'
  BY DEF MmuType, mmuVars, pcbRegisters

(* The steps of the CPU.                                                   *)
LEMMA MmuDispatch ==
    ASSUME SistemaInv, DispatchThread
    PROVE  MmuType'
  <1>1. MmuType /\ KernelInv
    BY DEF SistemaInv
  <1>2. CASE ExecutePcb
    <2>1. Head(toCpu) \in Process
      BY <1>1, <1>2, HeadTail DEF ExecutePcb, CpuReceive, KernelInv, TypeOK, CpuConnectionType
    <2> QED
      BY <1>1, <1>2, <2>1 DEF ExecutePcb, MmuType, pcbRegisters
  <1>3. CASE GiveBackPcb
    BY <1>1, <1>3 DEF GiveBackPcb, MmuType, mmuVars
  <1>4. CASE ExecuteSetOrAdd
    <2>1. cpu \in Process /\ Instr \in InstructionOf(cpu) /\ Instr.op \in Arithmetic
      BY <1>4, AtInstruction DEF ExecuteSetOrAdd, Fetching, SistemaInv
    <2>2. registers' \in [Register -> Word]
      BY <1>1, <1>4, <2>1, ArithmeticType DEF ExecuteSetOrAdd, MmuType
    <2> QED
      BY <1>1, <1>4, <2>2 DEF ExecuteSetOrAdd, MmuType, pcbRegisters
  <1>5. CASE ExecuteAndLeave
    BY <1>1, <1>5, MmuKept DEF ExecuteAndLeave, newVars
  <1>6. CASE TranslateByTlb
    <2> DEFINE f == present_in_tlb(tlb, ThePage)
    <2>1. Fetching /\ KindOf(cpu, Instr) = "MOV" /\ f # -1
          /\ tlb' = Referenced(tlb, ThePage) /\ socket_memory' = Request(f)
      BY <1>6 DEF TranslateByTlb
    <2>2. Hits(tlb, ThePage) # {}
      BY <2>1 DEF present_in_tlb
    <2>3. f \in Mem!Frame \cup {-1} /\ tlb' \in Seq(TlbEntry) /\ Len(tlb') = Len(tlb)
      BY <1>1, <2>1, <2>2, ReferencedType DEF MmuType
    <2> HIDE DEF f
    <2>4. socket_memory' \in SocketMessage
      BY <2>1, <2>3, RequestType DEF Fetching
    <2> QED
      BY <1>1, <1>6, <2>3, <2>4 DEF TranslateByTlb, MmuType, pcbRegisters
  <1>7. CASE AskFrame
    <2>1. socket_memory' \in SocketMessage
      BY <1>7, MessageType, WordFacts DEF AskFrame
    <2> QED
      BY <1>1, <1>7, <2>1 DEF AskFrame, MmuType, pcbRegisters
  <1>8. CASE ReceiveFrame
    <2>1. /\ cpu # NoProcess /\ event = "none" /\ KindOf(cpu, Instr) = "MOV"
          /\ socket_memory.frame \in Mem!Frame
      BY <1>8 DEF ReceiveFrame, SistemaInv, Exchange
    <2>2. ThePage \in Mem!Page
      BY <2>1, Accessing
    <2>3. tlb' \in Seq(TlbEntry) /\ Len(tlb') = ENTRADAS_TLB
      BY <1>1, <1>8, <2>1, <2>2, AddedType DEF ReceiveFrame, MmuType
    <2>4. socket_memory' \in SocketMessage
      BY <1>8, <2>1, RequestType DEF ReceiveFrame
    <2> QED
      BY <1>1, <1>8, <2>3, <2>4 DEF ReceiveFrame, MmuType, pcbRegisters
  <1>9. Silent \in SocketMessage
    BY WordFacts DEF Silent, SocketMessage
  <1>10. CASE ReceivePageFault
    <2>1. ThePage \in Mem!Page
      BY <1>10, Accessing DEF ReceivePageFault, SistemaInv, Exchange
    <2> QED
      BY <1>1, <1>9, <1>10, <2>1 DEF ReceivePageFault, MmuType
  <1>11. CASE ReceiveMovIn
    <2>1. Instr.register \in Register /\ socket_memory.value \in Word
      BY <1>1, <1>11, Accessing DEF ReceiveMovIn, SistemaInv, Exchange, MmuType, SocketMessage
    <2> QED
      BY <1>1, <1>9, <1>11, <2>1 DEF ReceiveMovIn, MmuType, pcbRegisters
  <1>12. CASE ReceiveMovOut
    BY <1>1, <1>9, <1>12 DEF ReceiveMovOut, MmuType, pcbRegisters
  <1> QED
    BY <1>2, <1>3, <1>4, <1>5, <1>6, <1>7, <1>8, <1>10, <1>11, <1>12 DEF DispatchThread

(* The answers to the CPU.                                                 *)
LEMMA MmuAttendCpu ==
    ASSUME SistemaInv, AttendCpu
    PROVE  MmuType'
  <1>1. MmuType
    BY DEF SistemaInv
  <1>2. /\ cpu # NoProcess /\ event = "none" /\ KindOf(cpu, Instr) = "MOV"
        /\ socket_memory.op \in {"FRAME_REQUEST", "MOV_IN", "MOV_OUT"}
        /\ socket_memory.op # "FRAME_REQUEST" => socket_memory.frame \in Mem!Frame
    BY DEF AttendCpu, AnswerFrameRequest, AnswerMovIn, AnswerMovOut, SistemaInv, Exchange
  <1>3. ThePage \in Mem!Page /\ OffsetOf(Instr.address) \in Mem!Offset
    BY <1>2, Accessing
  <1>4. UNCHANGED <<pcbRegisters, registers, tlb>>
    BY DEF AttendCpu, AnswerFrameRequest, AnswerMovIn, AnswerMovOut
  <1>5. socket_memory' \in SocketMessage
    <2>1. CASE AnswerFrameRequest
      BY <1>3, <2>1, RowType, MessageType, WordFacts DEF AnswerFrameRequest, Mem!get_frame_number_RAM
    <2>2. CASE AnswerMovIn
      <3>1. principal_memory \in [Mem!Frame -> [Mem!Offset -> Word]]
        BY SameTypes DEF SistemaInv, MP!IInv, Mem!TypeOK, Mem!Contents
      <3>2. principal_memory[socket_memory.frame][OffsetOf(Instr.address)] \in Word
        BY <1>2, <1>3, <2>2, <3>1 DEF AnswerMovIn
      <3> QED
        BY <2>2, <3>2, MessageType DEF AnswerMovIn, Mem!read_value_in_principal_memory
    <2>3. CASE AnswerMovOut
      BY <2>3, MessageType, WordFacts DEF AnswerMovOut
    <2> QED
      BY <2>1, <2>2, <2>3 DEF AttendCpu
  <1> QED
    BY <1>1, <1>4, <1>5 DEF MmuType, pcbRegisters

(* Every step.                                                             *)
LEMMA MmuNext ==
    ASSUME SistemaInv, SistemaNext
    PROVE  MmuType'
  <1>1. alive
    BY DEF SistemaNext, Running
  <1>2. CASE KernelStep
    BY <1>2, MmuKept DEF KernelStep, newVars, SistemaInv
  <1>3. CASE AttendKernel
    BY <1>1, <1>3, AttendKernelSteps, MmuKept DEF SistemaInv
  <1> QED
    BY <1>2, <1>3, SistemaSteps, MmuDispatch, MmuAttendCpu

-----------------------------------------------------------------------------
(* The kernel goes on as in Geck.                                          *)

LEMMA KernelOrCpu ==
    ASSUME SistemaInv, SistemaNext
    PROVE  Next \/ CpuOnly
  <1>1. alive /\ KernelInv
    BY DEF SistemaNext, Running, SistemaInv
  <1>2. CASE KernelStep
    BY <1>2 DEF KernelStep
  <1>3. CASE AttendCpu
    BY <1>1, <1>3, CpuOnlySteps
  <1>4. CASE AttendKernel
    <2>1. UNCHANGED vars => CpuOnly
      BY <1>1 DEF KernelInv, TypeOK, CpuType, CpuOnly, vars, peerVars, memVars
    <2> QED
      BY <1>1, <1>4, <2>1, AttendKernelSteps
  <1>5. CASE DispatchThread
    <2>1. CASE ExecutePcb \/ GiveBackPcb
      BY <1>1, <2>1 DEF ExecutePcb, GiveBackPcb, Next, Cpu
    <2>2. ReceiveMovIn \/ ReceiveMovOut => cpu # NoProcess
      BY DEF ReceiveMovIn, ReceiveMovOut, SistemaInv, Exchange
    <2> QED
      BY <1>1, <1>5, <2>1, <2>2, CpuOnlySteps DEF DispatchThread
  <1> QED
    BY <1>2, <1>3, <1>4, <1>5, SistemaSteps

(* So the invariant of the kernel is the system's as well.                 *)
LEMMA SistemaKernel ==
    ASSUME SistemaInv, SistemaNext
    PROVE  KernelInv' /\ Resident' /\ Prepared'
  <1>1. KernelInv /\ Resident /\ Prepared
    BY DEF SistemaInv
  <1>2. KernelInv'
    BY <1>1, KernelOrCpu, KernelInvNext
  <1> QED
    BY <1>1, <1>2, KernelOrCpu, ResidentNext, ResidentKept

-----------------------------------------------------------------------------
(* No program runs past its end.                                           *)

(* The steps in which an instruction is completed.                         *)
Completing == ExecuteSetOrAdd \/ ExecuteAndLeave \/ ReceiveMovIn \/ ReceiveMovOut

(* They move the program counter on, and end a process where its code      *)
(* does.                                                                   *)
LEMMA CompletingFacts ==
    ASSUME SistemaInv, Completing
    PROVE  /\ cpu # NoProcess /\ event = "none"
           /\ program_counter' = [program_counter EXCEPT ![cpu] = @ + 1]
           /\ UNCHANGED <<cpu, storeVars, structures, fault, fromCpu, dispatch, resolving, toMemory>>
           /\ event' \notin {"PAGE_FAULT"}
           /\ socket_memory' = Silent
           /\ KindOf(cpu, Instr) \in {"EXIT", "FAULT"} => Ends(event')
  <1>1. ASSUME NEW e, Complete(e)
        PROVE  /\ program_counter' = [program_counter EXCEPT ![cpu] = @ + 1]
               /\ UNCHANGED <<cpu, structures, fromCpu, dispatch, resolving, toMemory>>
               /\ event' = e
    BY <1>1, KernelUnchanged DEF Complete, memVars, cpuConnection, faultVars, memoryConnection
  <1>2. CASE ExecuteSetOrAdd
    <2>1. Instr \in InstructionOf(cpu) /\ cpu \in Process /\ Instr.op \in Arithmetic
      BY <1>2, AtInstruction DEF ExecuteSetOrAdd, Fetching, SistemaInv
    <2>2. KindOf(cpu, Instr) = "COMPUTE"
      BY <2>1, KindFacts
    <2> QED
      BY <1>1, <1>2, <2>2 DEF ExecuteSetOrAdd, Fetching, pcbRegisters
  <1>3. CASE ExecuteAndLeave
    <2> DEFINE kind == KindOf(cpu, Instr)
    <2>1. /\ kind \in {"EXIT", "FAULT", "CONSOLE"} \cup Device
          /\ Complete(EventOf(cpu, kind)) /\ Fetching /\ UNCHANGED newVars
      BY <1>3 DEF ExecuteAndLeave
    <2> HIDE DEF kind
    <2>2. event' = EventOf(cpu, kind)
      BY <1>1, <2>1
    <2>3. EventOf(cpu, kind) # "PAGE_FAULT" /\ (kind \in {"EXIT", "FAULT"} => Ends(EventOf(cpu, kind)))
      BY <2>1, DeviceAssumption, DeviceIsNoInstruction DEF EventOf, Ends
    <2> QED
      BY <1>1, <2>1, <2>2, <2>3 DEF Fetching, newVars, pcbRegisters, mmuVars, kind
  <1>4. CASE ReceiveMovIn \/ ReceiveMovOut
    <2>1. cpu # NoProcess /\ event = "none" /\ KindOf(cpu, Instr) = "MOV"
      BY <1>4 DEF ReceiveMovIn, ReceiveMovOut, SistemaInv, Exchange
    <2> QED
      BY <1>1, <1>4, <2>1 DEF ReceiveMovIn, ReceiveMovOut, pcbRegisters
  <1> QED
    BY <1>2, <1>3, <1>4 DEF Completing

(* The other steps leave the program counters where they are.              *)
LEMMA CounterStays ==
    ASSUME SistemaNext, ~Completing
    PROVE  UNCHANGED program_counter
  <1>1. alive
    BY DEF SistemaNext, Running
  <1>2. CASE DispatchThread
    BY <1>2 DEF Completing, DispatchThread, ExecutePcb, CpuReceive, GiveBackPcb, CpuReturn,
       TranslateByTlb, AskFrame, ReceiveFrame, ReceivePageFault, vars, peerVars
  <1>3. CASE AttendCpu
    BY <1>3 DEF AttendCpu, AnswerFrameRequest, AnswerMovIn, AnswerMovOut, vars, peerVars
  <1> QED
    BY <1>1, <1>2, <1>3, SistemaSteps, AttendKernelSteps DEF KernelStep

(* Nor does another step take back that a process has finished.            *)
LEMMA FinishedKept ==
    ASSUME SistemaInv, SistemaNext, ~Completing, NEW p \in Process, Finished(p)
    PROVE  Finished(p)'
  <1>1. KernelInv /\ KernelInv'
    BY SistemaKernel DEF SistemaInv
  <1>2. CASE Next
    BY <1>1, <1>2, FinishedStays
  <1>3. CASE CpuOnly
    <2>1. UNCHANGED <<status, cpu, fromCpu>>
      BY <1>3, CpuOnlyLeaves
    <2>2. Ends(event) => event' = event
      <3>1. CASE ReceivePageFault
        BY <3>1 DEF ReceivePageFault, SistemaInv, Exchange, Ends
      <3>2. CASE TranslateByTlb \/ AskFrame \/ ReceiveFrame \/ AttendCpu
        BY <3>2 DEF TranslateByTlb, AskFrame, ReceiveFrame, AttendCpu,
           AnswerFrameRequest, AnswerMovIn, AnswerMovOut, vars, peerVars
      <3>3. CASE KernelStep \/ AttendKernel
        BY <3>3, AttendKernelSteps DEF KernelStep, SistemaNext, Running
      <3>4. CASE ExecutePcb \/ GiveBackPcb
        BY <1>1, <2>1, <3>4 DEF ExecutePcb, CpuReceive, GiveBackPcb, CpuReturn
      <3> QED
        BY <3>1, <3>2, <3>3, <3>4, SistemaSteps DEF DispatchThread, Completing
    <2> QED
      BY <2>1, <2>2 DEF Finished
  <1> QED
    BY <1>2, <1>3, KernelOrCpu

(* A process that has not finished has an instruction left.                *)
LEMMA UnfinishedNext ==
    ASSUME SistemaInv, SistemaNext
    PROVE  Unfinished'
  <1>1. KernelInv /\ KernelInv' /\ Unfinished /\ program_counter \in [Process -> Nat]
    BY SistemaKernel DEF SistemaInv, KernelInv, TypeOK, CpuType
  <1>2. CASE Completing
    <2>1. /\ cpu # NoProcess /\ event = "none" /\ UNCHANGED cpu
          /\ program_counter' = [program_counter EXCEPT ![cpu] = @ + 1]
          /\ KindOf(cpu, Instr) \in {"EXIT", "FAULT"} => Ends(event')
      BY <1>2, CompletingFacts
    <2>2. KindOf(cpu, Instr) \notin {"EXIT", "FAULT"} => program_counter[cpu] + 1 < Len(Code[cpu])
      BY <1>1, <2>1, AtInstruction
    <2>3. CpuOnly
      <3>1. ReceiveMovIn \/ ReceiveMovOut \/ ExecuteSetOrAdd \/ ExecuteAndLeave
        BY <1>2 DEF Completing
      <3> QED
        BY <1>1, <2>1, <3>1, CpuOnlySteps
    <2>4. ASSUME NEW p \in Process PROVE Finished(p)' \/ program_counter'[p] < Len(Code[p])
      <3>1. CASE Finished(p)
        BY <1>1, <2>1, <2>3, <3>1, FinishedStays DEF Ends
      <3>2. CASE p # cpu /\ ~Finished(p)
        BY <1>1, <2>1, <3>2 DEF Unfinished
      <3>3. CASE p = cpu
        BY <1>1, <2>1, <2>2, <3>3 DEF Finished
      <3> QED
        BY <3>1, <3>2, <3>3
    <2> QED
      BY <2>4 DEF Unfinished
  <1>3. CASE ~Completing
    <2>1. UNCHANGED program_counter
      BY <1>3, CounterStays
    <2>2. \A p \in Process : Finished(p) => Finished(p)'
      BY <1>3, FinishedKept
    <2> QED
      BY <1>1, <2>1, <2>2 DEF Unfinished
  <1> QED
    BY <1>2, <1>3

(* The CPU rests with no event pending.                                    *)
LEMMA RestedNext ==
    ASSUME SistemaInv, SistemaNext
    PROVE  Rested'
  <1>1. Rested
    BY DEF SistemaInv
  <1>2. CASE KernelStep \/ AttendKernel
    BY <1>1, <1>2, AttendKernelSteps DEF KernelStep, SistemaNext, Running, Rested
  <1>3. CASE AttendCpu \/ TranslateByTlb \/ AskFrame \/ ReceiveFrame
    BY <1>1, <1>3 DEF TranslateByTlb, AskFrame, ReceiveFrame, AttendCpu,
       AnswerFrameRequest, AnswerMovIn, AnswerMovOut, vars, peerVars, Rested
  <1>4. CASE Completing
    BY <1>4, CompletingFacts DEF Rested
  <1>5. CASE ReceivePageFault
    BY <1>5 DEF ReceivePageFault, SistemaInv, Exchange, Rested
  <1>6. CASE ExecutePcb
    BY <1>1, <1>6 DEF ExecutePcb, CpuReceive, Rested
  <1>7. CASE GiveBackPcb
    BY <1>7 DEF GiveBackPcb, CpuReturn, Rested
  <1> QED
    BY <1>2, <1>3, <1>4, <1>5, <1>6, <1>7, SistemaSteps DEF DispatchThread, Completing

-----------------------------------------------------------------------------
(* Who has a page fault under way.                                         *)

LEMMA FaultedWhere ==
    ASSUME KernelInv, NEW p \in Process, Faulted(p)
    PROVE  /\ \/ At(p, "cpu")
              \/ At(p, "dispatch") /\ dispatch.op = "PAGE_FAULT"
              \/ At(p, "resolving") \/ At(p, "toMemory")
           /\ p \in Inside
  <1>1. Located
    BY DEF KernelInv, PlaceInv
  <1>2. \/ At(p, "cpu")
        \/ At(p, "dispatch") /\ dispatch.op = "PAGE_FAULT"
        \/ At(p, "resolving") \/ At(p, "toMemory")
    BY DEF Faulted, At, HasCpu, Elements, Queue
  <1>3. ASSUME NEW x \in {"cpu", "resolving", "toMemory"}, At(p, x)
        PROVE  p \in Inside
    <2>1. status[p] = StatusAt(x)
      BY <1>1, <1>3, OnlyThere DEF Place
    <2> QED
      BY <2>1 DEF StatusAt, Inside, Queue
  <1>4. CASE At(p, "dispatch") /\ dispatch.op = "PAGE_FAULT"
    <2>1. status[p] = StatusAt("dispatch")
      BY <1>1, <1>4, OnlyThere DEF Place
    <2> QED
      BY <1>4, <2>1 DEF StatusAt, Ends, Inside, Queue
  <1> QED
    BY <1>2, <1>3, <1>4

(* A fault begins only where the CPU receives the answer PAGE_FAULT: the   *)
(* kernel's steps take it on, and none makes one.                          *)
LEMMA KernelFaulted ==
    ASSUME KernelInv, Next, NEW p \in Process, Faulted(p)',
           cpu' = p /\ event' = "PAGE_FAULT" => cpu = p /\ event = "PAGE_FAULT"
    PROVE  Faulted(p)
  <1>1. /\ fromCpu \in Seq(ReturnMessage) /\ resolving \subseteq Process
        /\ toMemory \in Seq(MemoryRequest)
        /\ cpu \in Process \cup {NoProcess}
        /\ event \in (ReturnOp \cup {"none"}) \ {"EXECUTE_INTERRUPTION"}
    BY DEF KernelInv, TypeOK, CpuConnectionType, FaultType, MemoryConnectionType, CpuType
  <1> DEFINE m == [op |-> "PAGE_FAULT", pcb |-> p]
  <1>2. CASE cpu' = p /\ event' = "PAGE_FAULT"
    BY <1>2 DEF Faulted
  <1>3. CASE m \in Elements(fromCpu')
    <2>1. CASE CpuReturn
      <3> DEFINE e == [op |-> IF event # "none" THEN event ELSE "EXECUTE_INTERRUPTION",
                       pcb |-> cpu]
      <3>1. fromCpu' = Append(fromCpu, e) /\ e \in ReturnMessage
        BY <1>1, <2>1 DEF CpuReturn, ReturnMessage, ReturnOp
      <3>2. m \in Elements(fromCpu) \/ m = e
        BY <1>1, <1>3, <3>1, AppendElements
      <3>3. m = e => cpu = p /\ event = "PAGE_FAULT"
        OBVIOUS
      <3> QED
        BY <3>2, <3>3 DEF Faulted
    <2>2. CASE DispatchReceive
      <3>1. fromCpu # <<>> /\ fromCpu' = Tail(fromCpu)
        BY <2>2 DEF DispatchReceive
      <3>2. Elements(Tail(fromCpu)) \subseteq Elements(fromCpu)
        BY <1>1, <3>1, TailElements
      <3> QED
        BY <1>3, <3>1, <3>2 DEF Faulted
    <2>3. CASE ~CpuReturn /\ ~DispatchReceive
      <3>1. UNCHANGED fromCpu
        BY <2>3, KernelUnchanged DEF Next, ConsoleThread, ReceiveInitProcess, EnterScheduleReady,
           InitStructuresMemory, ScheduleNextToReady, ReceiveIoResponse,
           ReceiveDisconnection, PageFaultThread, ResolvePageFault, Console,
           ConsoleStart, ConsoleAnswer, ConsoleEnd, DeviceThread, DeviceBegin,
           DeviceFinish, Scheduler, WaitProcessInReady, ScheduleNextToRunning,
           RecordUltimo, Dispatch, DispatchNullUltimo, DispatchIoConsole,
           DispatchIoDefault, DispatchInterruption, DispatchPageFault,
           DispatchEnd, Clock, ClockBegin, ClockRestart, ClockExpire,
           ClockFinish, Interrupt, ManageInterrupt, ManageMemory,
           ReceiveInitStructures, ReceivePageFaultResponse, Cpu, CpuReceive,
           CpuExecute, CpuInterrupt, Memory, MemoryInit,
           MemoryLoadPage, MemoryEnd, cpuConnection
      <3> QED
        BY <1>3, <3>1 DEF Faulted
    <2> QED
      BY <2>1, <2>2, <2>3
  <1>4. CASE dispatch' = m
    <2>1. CASE DispatchReceive
      <3>1. fromCpu # <<>> /\ Head(fromCpu) = m
        BY <1>4, <2>1 DEF DispatchReceive
      <3>2. m \in Elements(fromCpu)
        BY <1>1, <3>1, TailElements
      <3> QED
        BY <3>2 DEF Faulted
    <2>2. CASE ~DispatchReceive
      <3>1. UNCHANGED dispatch \/ dispatch' = Idle
        BY <2>2, KernelUnchanged DEF Next, ConsoleThread, ReceiveInitProcess, EnterScheduleReady,
           InitStructuresMemory, ScheduleNextToReady, ReceiveIoResponse,
           ReceiveDisconnection, PageFaultThread, ResolvePageFault, Console,
           ConsoleStart, ConsoleAnswer, ConsoleEnd, DeviceThread, DeviceBegin,
           DeviceFinish, Scheduler, WaitProcessInReady, ScheduleNextToRunning,
           RecordUltimo, Dispatch, DispatchNullUltimo, DispatchIoConsole,
           DispatchIoDefault, DispatchInterruption, DispatchPageFault,
           DispatchEnd, Clock, ClockBegin, ClockRestart, ClockExpire,
           ClockFinish, Interrupt, ManageInterrupt, ManageMemory,
           ReceiveInitStructures, ReceivePageFaultResponse, Cpu, CpuReceive, CpuReturn,
           CpuExecute, CpuInterrupt, Memory, MemoryInit,
           MemoryLoadPage, MemoryEnd
      <3> QED
        BY <1>4, <3>1 DEF Faulted, Idle
    <2> QED
      BY <2>1, <2>2
  <1>5. CASE p \in resolving'
    <2>1. CASE DispatchPageFault
      <3>1. resolving' = resolving \cup {dispatch.pcb} /\ dispatch.op = "PAGE_FAULT"
        BY <2>1 DEF DispatchPageFault
      <3>2. dispatch \in ReturnMessage
        BY <3>1 DEF KernelInv, TypeOK, DispatchType, Idle
      <3>3. dispatch = [op |-> "PAGE_FAULT", pcb |-> dispatch.pcb]
        BY <3>1, <3>2 DEF ReturnMessage
      <3> QED
        BY <1>5, <3>1, <3>3 DEF Faulted
    <2>2. CASE ~DispatchPageFault
      <3>1. resolving' \subseteq resolving
        BY <2>2, KernelUnchanged DEF Next, ConsoleThread, ReceiveInitProcess, EnterScheduleReady,
           InitStructuresMemory, ScheduleNextToReady, ReceiveIoResponse,
           ReceiveDisconnection, PageFaultThread, ResolvePageFault, Console,
           ConsoleStart, ConsoleAnswer, ConsoleEnd, DeviceThread, DeviceBegin,
           DeviceFinish, Scheduler, WaitProcessInReady, ScheduleNextToRunning,
           RecordUltimo, Dispatch, DispatchReceive, DispatchNullUltimo, DispatchIoConsole,
           DispatchIoDefault, DispatchInterruption,
           DispatchEnd, Clock, ClockBegin, ClockRestart, ClockExpire,
           ClockFinish, Interrupt, ManageInterrupt, ManageMemory,
           ReceiveInitStructures, ReceivePageFaultResponse, Cpu, CpuReceive, CpuReturn,
           CpuExecute, CpuInterrupt, Memory, MemoryInit,
           MemoryLoadPage, MemoryEnd, faultVars
      <3> QED
        BY <1>5, <3>1 DEF Faulted
    <2> QED
      BY <2>1, <2>2
  <1>6. CASE PageRequest(p) \in Elements(toMemory')
    <2>1. CASE UNCHANGED toMemory
      BY <1>6, <2>1 DEF Faulted
    <2>2. CASE toMemory # <<>> /\ toMemory' = Tail(toMemory)
      <3>1. Elements(Tail(toMemory)) \subseteq Elements(toMemory)
        BY <1>1, <2>2, TailElements
      <3> QED
        BY <1>6, <2>2, <3>1 DEF Faulted
    <2>3. ASSUME NEW q \in Process, NEW r \in MemoryRequest, toMemory' = Append(toMemory, r),
                 r = PageRequest(p) => ResolvePageFault(p)
          PROVE  Faulted(p)
      <3>1. PageRequest(p) \in Elements(toMemory) \/ r = PageRequest(p)
        BY <1>1, <1>6, <2>3, AppendElements
      <3> QED
        BY <2>3, <3>1 DEF Faulted, ResolvePageFault
    <2>4. ASSUME NEW q \in Process
          PROVE  /\ [op |-> InitRequest, pcb |-> q] \in MemoryRequest
                 /\ PageRequest(q) \in MemoryRequest /\ EndRequest(q) \in MemoryRequest
                 /\ [op |-> InitRequest, pcb |-> q] # PageRequest(p)
                 /\ EndRequest(q) # PageRequest(p)
                 /\ PageRequest(q) = PageRequest(p) => q = p
      BY DEF MemoryRequest, InitRequest, PageRequest, EndRequest
    <2> QED
      BY <2>1, <2>2, <2>3, <2>4, RequestsNext
  <1> QED
    BY <1>2, <1>3, <1>4, <1>5, <1>6 DEF Faulted

-----------------------------------------------------------------------------
(* The memory is used as module Memoria supposes.                          *)

(* What the kernel asks the memory for.                                    *)
LEMMA RequestFacts ==
    ASSUME SistemaInv, toMemory # <<>>, NEW p, p = Head(toMemory).pcb
    PROVE  /\ p \in Process
           /\ Head(toMemory).op = InitRequest => p \notin DOMAIN clock_structures
           /\ Head(toMemory).op = "REQUEST_PAGE_FAULT" =>
                 /\ p \in structures /\ At(p, "toMemory")
                 /\ fault[p] \in Mem!PagesOf(p) /\ ~row[fault[p]].presence
           /\ Head(toMemory).op = "END_STRUCTURES" => p \in structures
  <1>1. /\ KernelInv /\ TypeOK /\ PlaceInv /\ Located /\ AdmissionInv
        /\ toMemory \in Seq(MemoryRequest) /\ MemoryConnectionType
    BY DEF SistemaInv, KernelInv, TypeOK, MemoryConnectionType, PlaceInv
  <1>2. /\ Head(toMemory) \in MemoryRequest /\ Head(toMemory) \in Elements(toMemory)
        /\ p \in Process
    BY <1>1, HeadTail, TailElements, RequestHead
  <1>3. ASSUME Head(toMemory).op = InitRequest PROVE p \notin DOMAIN clock_structures
    <2>1. Requested
      BY <1>2, <1>3 DEF Requested, Sent
    <2>2. ~Token
      BY <1>1, <2>1 DEF AdmissionInv, OneToken, Token
    <2>3. list["NEW"] # <<>> /\ Head(list["NEW"]) = p
      BY <1>1, <1>2, <1>3 DEF AdmissionInv, AboutHeadOfNew
    <2>4. status[p] = "NEW"
      BY <1>1, <2>3, HeadIsNew
    <2> QED
      BY <2>2, <2>4 DEF SistemaInv, Initialised, Token
  <1>4. ASSUME Head(toMemory).op = "REQUEST_PAGE_FAULT"
        PROVE  /\ p \in structures /\ At(p, "toMemory")
               /\ fault[p] \in Mem!PagesOf(p) /\ ~row[fault[p]].presence
    <2>1. PageRequest(p) \in Elements(toMemory)
      BY <1>2, <1>4 DEF PageRequest, MemoryRequest
    <2>2. Faulted(p) /\ At(p, "toMemory")
      BY <2>1 DEF Faulted, At, Queue
    <2>3. p \in Inside
      BY <1>1, <1>2, <2>2, FaultedWhere
    <2> QED
      BY <1>2, <2>2, <2>3 DEF SistemaInv, FaultsAbsent, Resident, Owed
  <1>5. ASSUME Head(toMemory).op = "END_STRUCTURES" PROVE p \in structures
    <2>1. EndRequest(p) \in Elements(toMemory)
      BY <1>2, <1>5 DEF EndRequest, MemoryRequest
    <2> QED
      BY <1>2, <2>1 DEF SistemaInv, Resident, Owed, Ending
  <1> QED
    BY <1>2, <1>3, <1>4, <1>5

(* The requests of the kernel come when Memoria expects them.              *)
LEMMA AttendKernelMemory ==
    ASSUME SistemaInv, memory_alive, AttendKernel, alive
    PROVE  Mem!Next
  <1> DEFINE p == Head(toMemory).pcb
  <1>1. toMemory # <<>>
    BY AttendKernelSteps
  <1>2. ASSUME Head(toMemory).op = InitRequest, Mem!init_process_structures(p)
        PROVE  Mem!Next
    <2>1. p \in Process \ DOMAIN clock_structures
      BY <1>1, <1>2, RequestFacts
    <2> QED
      BY <1>2, <2>1, Zenon DEF Mem!Next
  <1>3. ASSUME Head(toMemory).op = "REQUEST_PAGE_FAULT", Mem!request_page_fault(fault[p])
        PROVE  Mem!Next
    <2>1. p \in structures /\ fault[p] \in Mem!PagesOf(p) /\ ~row[fault[p]].presence
      BY <1>1, <1>3, RequestFacts
    <2> QED
      BY <1>3, <2>1, Zenon DEF Mem!Next
  <1>4. ASSUME Head(toMemory).op = "END_STRUCTURES", Mem!delete_process(p)
        PROVE  Mem!Next
    <2>1. p \in structures
      BY <1>1, <1>4, RequestFacts
    <2> QED
      BY <1>4, <2>1, Zenon DEF Mem!Next
  <1>5. /\ MemoryInit => Head(toMemory).op = InitRequest
        /\ MemoryLoadPage => Head(toMemory).op = "REQUEST_PAGE_FAULT"
        /\ MemoryEnd => Head(toMemory).op = "END_STRUCTURES"
    BY DEF MemoryInit, MemoryLoadPage, MemoryEnd, InitRequest
  <1>6. Mem!BuildTables(p) \/ Mem!SwapFull(p) => Mem!init_process_structures(p)
    BY DEF Mem!init_process_structures
  <1> QED
    BY <1>2, <1>3, <1>4, <1>5, <1>6, AttendKernelSteps

(* So do those of the CPU: of a live process and a page it has.            *)
LEMMA AttendCpuMemory ==
    ASSUME SistemaInv, memory_alive, AttendCpu
    PROVE  Mem!Next \/ UNCHANGED Mem!memoriaVars
  <1>1. /\ cpu # NoProcess /\ event = "none" /\ KindOf(cpu, Instr) = "MOV"
        /\ socket_memory.op \in {"MOV_IN", "MOV_OUT"} => socket_memory.frame \in Mem!Frame
    BY DEF AttendCpu, AnswerFrameRequest, AnswerMovIn, AnswerMovOut, SistemaInv, Exchange
  <1>2. /\ cpu \in structures /\ ThePage \in Mem!PagesOf(cpu)
        /\ OffsetOf(Instr.address) \in Mem!Offset
    BY <1>1, Accessing
  <1>3. CASE AnswerFrameRequest
    BY <1>3 DEF AnswerFrameRequest, vars, peerVars, memVars, storeVars, Mem!memoriaVars
  <1>4. CASE AnswerMovIn
    <2>1. Mem!mov_in(ThePage)
      BY <1>4 DEF AnswerMovIn
    <2> QED
      BY <1>2, <2>1, Zenon DEF Mem!Next
  <1>5. CASE AnswerMovOut
    <2>1. /\ Mem!mov_out(cpu, ThePage[2], socket_memory.frame, OffsetOf(Instr.address),
                         socket_memory.value)
          /\ socket_memory.frame \in Mem!Frame /\ socket_memory.value \in Word
      BY <1>1, <1>5 DEF AnswerMovOut, SistemaInv, MmuType, SocketMessage
    <2>2. \E f \in Mem!Frame, o \in Mem!Offset, value \in Word :
             Mem!mov_out(cpu, ThePage[2], f, o, value)
      BY <1>2, <2>1
    <2> QED
      BY <1>2, <2>2, Zenon DEF Mem!Next
  <1> QED
    BY <1>3, <1>4, <1>5 DEF AttendCpu

(* Every step of the system is one the memory may take, or none of its.    *)
LEMMA MemoryStep ==
    ASSUME SistemaInv, SistemaNext
    PROVE  [Mem!Next]_(Mem!memoriaVars)
  <1>1. alive /\ memory_alive
    BY DEF SistemaNext, Running
  <1>2. CASE KernelStep
    BY <1>2 DEF KernelStep, newVars, storeVars, Mem!memoriaVars
  <1>3. CASE DispatchThread
    <2>1. CASE Completing
      BY <2>1, CompletingFacts DEF storeVars, Mem!memoriaVars
    <2>2. CASE ~Completing
      BY <1>3, <2>2 DEF Completing, DispatchThread, ExecutePcb, CpuReceive, GiveBackPcb, CpuReturn,
         TranslateByTlb, AskFrame, ReceiveFrame, ReceivePageFault, vars, peerVars, memVars,
         storeVars, Mem!memoriaVars
    <2> QED
      BY <2>1, <2>2
  <1> QED
    BY <1>1, <1>2, <1>3, SistemaSteps, AttendCpuMemory, AttendKernelMemory

(* So the memory's own invariant holds in the system.                      *)
LEMMA MemoryKeeps ==
    ASSUME SistemaInv, SistemaNext
    PROVE  MP!IInv'
  BY MemoryStep, MemoriaKept DEF SistemaInv

-----------------------------------------------------------------------------
(* Which process has been initialised, and when.                           *)

LEMMA ClocksNext ==
    ASSUME SistemaInv, SistemaNext
    PROVE  \/ DOMAIN clock_structures' = DOMAIN clock_structures
           \/ /\ MemoryInit /\ Next
              /\ DOMAIN clock_structures' = DOMAIN clock_structures \cup {Head(toMemory).pcb}
  <1>1. alive
    BY DEF SistemaNext, Running
  <1>2. CASE UNCHANGED storeVars
    BY <1>2 DEF storeVars
  <1>3. CASE AttendCpu
    BY <1>3, Zenon DEF AttendCpu, AnswerFrameRequest, AnswerMovIn, AnswerMovOut, storeVars,
       Mem!mov_in, Mem!mov_out, Mem!save_value_in_memory, Mem!NoRowForFrame, Mem!MemoryDies
  <1>4. CASE AttendKernel
    <2> DEFINE p == Head(toMemory).pcb
    <2>1. ASSUME MemoryInit, Next, Mem!BuildTables(p)
          PROVE  DOMAIN clock_structures' = DOMAIN clock_structures \cup {p}
      BY <2>1 DEF Mem!BuildTables
    <2>2. ASSUME Mem!SwapFull(p) \/ Mem!delete_process(p)
          PROVE  DOMAIN clock_structures' = DOMAIN clock_structures
      BY <2>2 DEF Mem!SwapFull, Mem!MemoryDies, Mem!delete_process
    <2>3. ASSUME NEW pg, Mem!request_page_fault(pg)
          PROVE  DOMAIN clock_structures' = DOMAIN clock_structures
      <3>1. CASE Mem!LoadInFreeFrame(pg)
        BY <3>1 DEF Mem!LoadInFreeFrame
      <3>2. CASE Mem!LoadByReplacing(pg)
        BY <3>2 DEF Mem!LoadByReplacing, Mem!Replace
      <3>3. CASE Mem!LoadNowhere(pg)
        BY <3>3 DEF Mem!LoadNowhere, Mem!MemoryDies
      <3> QED
        BY <2>3, <3>1, <3>2, <3>3 DEF Mem!request_page_fault
    <2> QED
      BY <1>1, <1>4, <2>1, <2>2, <2>3, AttendKernelSteps
  <1>5. CASE DispatchThread
    <2>1. UNCHANGED storeVars
      <3>1. CASE Completing
        BY <3>1, CompletingFacts
      <3>2. CASE ~Completing
        BY <1>5, <3>2 DEF Completing, DispatchThread, ExecutePcb, GiveBackPcb,
           TranslateByTlb, AskFrame, ReceiveFrame, ReceivePageFault
      <3> QED
        BY <3>1, <3>2
    <2> QED
      BY <1>2, <2>1
  <1> QED
    BY <1>2, <1>3, <1>4, <1>5, SistemaSteps DEF KernelStep, newVars

(* No process is initialised before its turn, whatever the step.           *)
LEMMA SistemaInitialised ==
    ASSUME SistemaInv, SistemaNext
    PROVE  Initialised'
  <1>1. KernelInv /\ KernelInv' /\ Initialised
    BY SistemaKernel DEF SistemaInv
  <1>2. DOMAIN clock_structures \subseteq Process
    BY DEF SistemaInv, MP!IInv, MP!TypeOK
  <1>3. CASE Next
    BY <1>1, <1>2, <1>3, ClocksNext, InitialisedNext
  <1>4. CASE CpuOnly /\ DOMAIN clock_structures' = DOMAIN clock_structures
    <2>1. UNCHANGED <<status, list>> /\ (Token' <=> Token)
      BY <1>4, CpuOnlyLeaves DEF Token, Answered, Posted
    <2>2. ASSUME NEW p \in DOMAIN clock_structures'
          PROVE  /\ status'[p] # "none"
                 /\ status'[p] = "NEW" => Token' /\ list'["NEW"] # <<>> /\ p = Head(list'["NEW"])
      BY <1>1, <1>4, <2>1, <2>2 DEF Initialised
    <2> QED
      BY <2>2 DEF Initialised
  <1> QED
    BY <1>3, <1>4, KernelOrCpu, ClocksNext

-----------------------------------------------------------------------------
(* No page comes in behind the CPU's back.                                 *)

(* In a step of the kernel's side of the memory, a page that comes in is   *)
(* one of the process whose fault is answered.                             *)
LEMMA ComesIn ==
    ASSUME SistemaInv, AttendKernel, alive, NEW q \in Mem!Page,
           row'[q].presence, ~row[q].presence
    PROVE  MemoryLoadPage /\ q \in Mem!PagesOf(Head(toMemory).pcb)
  <1> DEFINE p == Head(toMemory).pcb
  <1>1. toMemory # <<>> /\ MP!IInv /\ q \in MP!Page
    BY AttendKernelSteps, SamePages DEF SistemaInv
  <1>2. p \in Process
    BY <1>1, RequestFacts
  <1>3. ~MP!BuildTables(p) /\ ~MP!SwapFull(p) /\ ~MP!delete_process(p)
    BY <1>1, <1>2, MP!NoneComesIn, MemoriaAssumptions
  <1>4. ~Mem!BuildTables(p) /\ ~Mem!SwapFull(p) /\ ~Mem!delete_process(p)
    BY <1>3, SameTables
  <1>5. MemoryLoadPage /\ Mem!request_page_fault(fault[p])
    BY <1>4, AttendKernelSteps
  <1>6. p \in structures /\ fault[p] \in MP!PagesOf(p) /\ MP!request_page_fault(fault[p])
    BY <1>1, <1>5, RequestFacts, SamePages, SameFaults DEF MemoryLoadPage
  <1>7. q \in MP!PagesOf(p)
    BY <1>1, <1>6, MP!OthersStayOut, MemoriaAssumptions
  <1> QED
    BY <1>5, <1>7, SamePages

(* An access brings no page in.                                            *)
LEMMA AccessBringsNone ==
    ASSUME SistemaInv, AttendCpu, NEW q \in Mem!Page, row'[q].presence
    PROVE  row[q].presence
  <1>1. MP!IInv /\ q \in MP!Page
    BY SamePages DEF SistemaInv
  <1>2. /\ cpu # NoProcess /\ event = "none" /\ KindOf(cpu, Instr) = "MOV"
    BY DEF AttendCpu, AnswerFrameRequest, AnswerMovIn, AnswerMovOut, SistemaInv, Exchange
  <1>3. cpu \in Process /\ ThePage \in MP!Page
    BY <1>2, Accessing, SamePages
  <1>4. CASE AnswerFrameRequest
    BY <1>4 DEF AnswerFrameRequest, storeVars
  <1>5. CASE AnswerMovIn
    <2>1. MP!mov_in(ThePage)
      BY <1>5, SameAccesses DEF AnswerMovIn
    <2> QED
      BY <1>1, <1>3, <2>1, MP!NoneComesIn, MemoriaAssumptions
  <1>6. CASE AnswerMovOut
    <2>1. MP!mov_out(cpu, ThePage[2], socket_memory.frame, OffsetOf(Instr.address),
                     socket_memory.value)
      BY <1>6, SameAccesses DEF AnswerMovOut
    <2>2. \E p \in Process : \E s, f, o, value : MP!mov_out(p, s, f, o, value)
      BY <1>3, <2>1
    <2> QED
      BY <1>1, <2>2, MP!NoneComesIn, MemoriaAssumptions
  <1> QED
    BY <1>4, <1>5, <1>6 DEF AttendCpu

-----------------------------------------------------------------------------
(* The exchange between the CPU and the memory.                            *)

LEMMA ExchangeNext ==
    ASSUME SistemaInv, SistemaNext
    PROVE  Exchange'
  <1>1. Exchange /\ Rested /\ alive /\ MmuType
    BY DEF SistemaInv, SistemaNext, Running
  <1>2. ASSUME UNCHANGED <<cpu, program_counter>>
        PROVE  UNCHANGED <<Instr, ThePage, KindOf(cpu, Instr)>>
    BY <1>2 DEF Instr, ThePage, PageOf, KindOf
  <1>3. CASE KernelStep
    BY <1>1, <1>2, <1>3 DEF KernelStep, newVars, storeVars, mmuVars, Exchange
  <1>4. CASE AttendKernel
    <2>1. UNCHANGED <<cpu, event, program_counter, socket_memory>>
      BY <1>1, <1>4, AttendKernelSteps DEF mmuVars
    <2>2. ASSUME socket_memory.op = "PAGE_FAULT" PROVE ~row'[ThePage].presence
      <3>1. /\ cpu # NoProcess /\ event = "none" /\ KindOf(cpu, Instr) = "MOV"
            /\ ~row[ThePage].presence
        BY <1>1, <2>2 DEF Exchange
      <3>2. cpu \in Process /\ ThePage \in Mem!Page /\ ThePage \in Mem!PagesOf(cpu)
        BY <3>1, Accessing
      <3>3. SUFFICES ASSUME row'[ThePage].presence PROVE FALSE
        OBVIOUS
      <3> DEFINE p == Head(toMemory).pcb
      <3>4. MemoryLoadPage /\ ThePage \in Mem!PagesOf(p) /\ toMemory # <<>>
        BY <1>1, <1>4, <3>1, <3>2, <3>3, ComesIn, AttendKernelSteps
      <3>5. p \in Process /\ At(p, "toMemory")
        BY <3>4, RequestFacts DEF MemoryLoadPage
      <3>6. p = cpu
        BY <3>2, <3>4, <3>5, MP!PagesApart, MemoriaAssumptions, SamePages
      <3>7. At(cpu, "cpu")
        BY DEF At, HasCpu, Queue
      <3>8. Located
        BY DEF SistemaInv, KernelInv, PlaceInv
      <3> QED
        BY <3>2, <3>5, <3>6, <3>7, <3>8, OnlyThere DEF Place
    <2> QED
      BY <1>1, <1>2, <2>1, <2>2 DEF Exchange
  <1>5. CASE AttendCpu
    <2>1. UNCHANGED <<cpu, event, program_counter>>
      BY <1>5 DEF AttendCpu, AnswerFrameRequest, AnswerMovIn, AnswerMovOut, vars, peerVars
    <2>2. /\ cpu # NoProcess /\ event = "none" /\ KindOf(cpu, Instr) = "MOV"
      BY <1>1, <1>5 DEF AttendCpu, AnswerFrameRequest, AnswerMovIn, AnswerMovOut, Exchange
    <2>3. cpu \in structures /\ ThePage \in Mem!PagesOf(cpu) /\ ThePage \in Mem!Page
      BY <2>2, Accessing
    <2>4. CASE AnswerFrameRequest
      <3>1. UNCHANGED row
        BY <2>4 DEF AnswerFrameRequest, storeVars
      <3>2. row[ThePage].presence => row[ThePage].frame_number \in Mem!Frame
        BY <2>3, InSomeFrame
      <3>3. -1 \notin Mem!Frame
        BY DEF Mem!Frame
      <3> DEFINE f == Mem!get_frame_number_RAM(ThePage)
      <3>4. (f = -1 => ~row[ThePage].presence) /\ (f # -1 => f \in Mem!Frame)
        BY <3>2, <3>3 DEF Mem!get_frame_number_RAM
      <3>5. socket_memory' = Message(IF f = -1 THEN "PAGE_FAULT" ELSE "FRAME_RESPONSE", f, 0)
        BY <2>4 DEF AnswerFrameRequest
      <3> HIDE DEF f
      <3> QED
        BY <1>2, <2>1, <2>2, <3>1, <3>4, <3>5 DEF Exchange, Message
    <2>5. CASE AnswerMovIn \/ AnswerMovOut
      <3>1. socket_memory'.op \in {"MOV_IN_OK", "MOV_OUT_OK"}
        BY <2>5 DEF AnswerMovIn, AnswerMovOut, Message
      <3> QED
        BY <1>2, <2>1, <2>2, <3>1 DEF Exchange
    <2> QED
      BY <1>5, <2>4, <2>5 DEF AttendCpu
  <1>6. CASE Completing \/ ReceivePageFault
    <2>1. socket_memory' = Silent
      BY <1>6, CompletingFacts DEF ReceivePageFault
    <2> QED
      BY <2>1 DEF Silent, Exchange
  <1>7. CASE ExecutePcb
    BY <1>1, <1>7 DEF ExecutePcb, CpuReceive, Exchange
  <1>8. CASE GiveBackPcb
    BY <1>8 DEF GiveBackPcb, Silent, mmuVars, Exchange
  <1>9. CASE TranslateByTlb
    <2> DEFINE f == present_in_tlb(tlb, ThePage)
    <2>1. /\ Fetching /\ KindOf(cpu, Instr) = "MOV" /\ f # -1 /\ socket_memory' = Request(f)
          /\ UNCHANGED <<cpu, event, program_counter>>
      BY <1>9 DEF TranslateByTlb, vars, peerVars
    <2>2. Hits(tlb, ThePage) # {}
      BY <2>1 DEF present_in_tlb
    <2>3. f \in Mem!Frame
      BY <1>1, <2>1, <2>2, ReferencedType DEF MmuType
    <2> HIDE DEF f
    <2>4. socket_memory'.frame = f /\ socket_memory'.op \in {"MOV_IN", "MOV_OUT"}
      BY <2>1, <2>3, RequestType DEF Fetching
    <2> QED
      BY <1>2, <2>1, <2>3, <2>4 DEF Exchange, Fetching
  <1>10. CASE AskFrame
    <2>1. /\ Fetching /\ KindOf(cpu, Instr) = "MOV" /\ socket_memory'.op = "FRAME_REQUEST"
          /\ UNCHANGED <<cpu, event, program_counter>>
      BY <1>10 DEF AskFrame, vars, peerVars, Message
    <2> QED
      BY <1>2, <2>1 DEF Exchange, Fetching
  <1>11. CASE ReceiveFrame
    <2>1. /\ cpu # NoProcess /\ event = "none" /\ KindOf(cpu, Instr) = "MOV"
          /\ socket_memory.frame \in Mem!Frame /\ socket_memory' = Request(socket_memory.frame)
          /\ UNCHANGED <<cpu, event, program_counter>>
      BY <1>1, <1>11 DEF ReceiveFrame, vars, peerVars, Exchange
    <2>2. /\ socket_memory'.frame = socket_memory.frame
          /\ socket_memory'.op \in {"MOV_IN", "MOV_OUT"}
      BY <2>1, RequestType
    <2> QED
      BY <1>2, <2>1, <2>2 DEF Exchange
  <1> QED
    BY <1>3, <1>4, <1>5, <1>6, <1>7, <1>8, <1>9, <1>10, <1>11, SistemaSteps
       DEF DispatchThread, Completing

-----------------------------------------------------------------------------
(* The page a process faulted for stays out until it is asked for.         *)

LEMMA ReceivesFault ==
    ASSUME SistemaInv, ReceivePageFault
    PROVE  /\ cpu \in Process /\ event = "none" /\ cpu' = cpu
           /\ fault' = [fault EXCEPT ![cpu] = ThePage]
           /\ UNCHANGED <<fromCpu, dispatch, resolving, toMemory, row>>
           /\ ThePage \in Mem!PagesOf(cpu) /\ ~row[ThePage].presence
  <1>1. /\ cpu # NoProcess /\ event = "none" /\ KindOf(cpu, Instr) = "MOV"
        /\ ~row[ThePage].presence
    BY DEF ReceivePageFault, SistemaInv, Exchange
  <1>2. UNCHANGED <<dispatch, fromCpu, resolving, toMemory>>
    BY KernelUnchanged DEF ReceivePageFault, cpuConnection, faultVars, memoryConnection
  <1> QED
    BY <1>1, <1>2, Accessing DEF ReceivePageFault, storeVars

(* A fault begins only with the memory's answer PAGE_FAULT.                *)
LEMMA FaultBegins ==
    ASSUME SistemaInv, SistemaNext, NEW p \in Process, Faulted(p)'
    PROVE  Faulted(p) \/ (ReceivePageFault /\ p = cpu)
  <1>1. alive /\ KernelInv /\ Rested
    BY DEF SistemaNext, Running, SistemaInv
  <1>2. ASSUME UNCHANGED <<cpu, event, fromCpu, dispatch, resolving, toMemory>>
        PROVE  Faulted(p)
    BY <1>2 DEF Faulted
  <1>3. CASE KernelStep
    BY <1>1, <1>3, KernelFaulted DEF KernelStep
  <1>4. CASE AttendKernel
    <2>1. UNCHANGED <<cpu, event>> /\ (Next \/ UNCHANGED vars)
      BY <1>1, <1>4, AttendKernelSteps
    <2>2. UNCHANGED vars => UNCHANGED <<fromCpu, dispatch, resolving, toMemory>>
      BY KernelUnchanged DEF vars, cpuConnection, faultVars, memoryConnection
    <2> QED
      BY <1>1, <1>2, <2>1, <2>2, KernelFaulted
  <1>5. CASE AttendCpu \/ TranslateByTlb \/ AskFrame \/ ReceiveFrame
    <2>1. UNCHANGED vars
      BY <1>5 DEF TranslateByTlb, AskFrame, ReceiveFrame, AttendCpu, AnswerFrameRequest,
         AnswerMovIn, AnswerMovOut
    <2>2. UNCHANGED <<cpu, event, fromCpu, dispatch, resolving, toMemory>>
      BY <2>1, KernelUnchanged DEF vars, peerVars, cpuConnection, faultVars, memoryConnection
    <2> QED
      BY <1>2, <2>2
  <1>6. CASE Completing
    BY <1>6, CompletingFacts DEF Faulted
  <1>7. CASE ReceivePageFault
    <2>1. p # cpu => Faulted(p)
      BY <1>7, ReceivesFault DEF Faulted
    <2> QED
      BY <1>7, <2>1
  <1>8. CASE ExecutePcb
    <2>1. Next /\ event' = "none"
      BY <1>1, <1>8 DEF ExecutePcb, CpuReceive, Next, Cpu, Rested
    <2> QED
      BY <1>1, <2>1, KernelFaulted
  <1>9. CASE GiveBackPcb
    <2>1. Next /\ event' = "none"
      BY <1>1, <1>9 DEF GiveBackPcb, CpuReturn, Next, Cpu
    <2> QED
      BY <1>1, <2>1, KernelFaulted
  <1> QED
    BY <1>3, <1>4, <1>5, <1>6, <1>7, <1>8, <1>9, SistemaSteps DEF DispatchThread, Completing

(* The page that a PCB carries is written by that answer alone.            *)
LEMMA FaultKept ==
    ASSUME SistemaInv, SistemaNext, ~ReceivePageFault
    PROVE  UNCHANGED fault
  <1>1. alive
    BY DEF SistemaNext, Running
  <1>2. CASE KernelStep \/ AttendKernel
    BY <1>1, <1>2, AttendKernelSteps DEF KernelStep, newVars, pcbRegisters
  <1>3. CASE AttendCpu
    BY <1>3 DEF AttendCpu, AnswerFrameRequest, AnswerMovIn, AnswerMovOut, pcbRegisters
  <1>4. CASE Completing
    BY <1>4, CompletingFacts
  <1>5. CASE DispatchThread /\ ~Completing
    BY <1>5 DEF Completing, DispatchThread, ExecutePcb, GiveBackPcb, TranslateByTlb,
       AskFrame, ReceiveFrame, pcbRegisters
  <1> QED
    BY <1>2, <1>3, <1>4, <1>5, SistemaSteps

(* Once its page is loaded, a process has no fault under way.              *)
LEMMA FaultOver ==
    ASSUME SistemaInv, SistemaNext, MemoryLoadPage, NEW p, p = Head(toMemory).pcb
    PROVE  ~Faulted(p)'
  <1> DEFINE m == [op |-> "RESPONSE_PAGE_FAULT", pcb |-> p]
  <1>1. toMemory # <<>> /\ fromMemory' = Append(fromMemory, m)
    BY DEF MemoryLoadPage
  <1>2. p \in Process
    BY <1>1, RequestFacts
  <1>3. KernelInv' /\ Located' /\ fromMemory \in Seq(MemoryAnswer)
    BY SistemaKernel DEF SistemaInv, KernelInv, PlaceInv, TypeOK, MemoryConnectionType
  <1>4. m \in MemoryAnswer
    BY <1>2 DEF MemoryAnswer
  <1>5. m \in Elements(fromMemory')
    BY <1>1, <1>3, <1>4, AppendElements
  <1>6. At(p, "fromMemory")'
    BY <1>5 DEF At, PageAnswer, Queue
  <1>7. \A y \in Place : At(p, y)' => y = "fromMemory"
    <2>1. Where'[p] = {x \in Place : At(p, x)'}
      BY <1>2 DEF Where
    <2>2. \E x \in Place : Where'[p] = {} \/ Where'[p] = {x}
      BY <1>2, <1>3 DEF Located, Place
    <2>3. "fromMemory" \in Where'[p]
      BY <1>6, <2>1 DEF Place
    <2> QED
      BY <2>1, <2>2, <2>3
  <1>8. /\ ~At(p, "cpu")' /\ ~At(p, "dispatch")' /\ ~At(p, "resolving")'
        /\ ~At(p, "toMemory")'
    BY <1>7 DEF Place
  <1>9. ASSUME Faulted(p)' PROVE FALSE
    <2>1. At(p, "cpu")' \/ At(p, "dispatch")' \/ At(p, "resolving")' \/ At(p, "toMemory")'
      BY <1>9 DEF Faulted, At, HasCpu, Elements, Queue
    <2> QED
      BY <1>8, <2>1
  <1> QED
    BY <1>9

(* So the page a PCB carries is absent until the memory loads it.          *)
LEMMA FaultsAbsentNext ==
    ASSUME SistemaInv, SistemaNext
    PROVE  FaultsAbsent'
  <1>1. alive /\ FaultsAbsent
    BY DEF SistemaNext, Running, SistemaInv
  <1>2. SUFFICES ASSUME NEW p \in Process, Faulted(p)'
                 PROVE  fault'[p] \in Mem!PagesOf(p) /\ ~row'[fault'[p]].presence
    BY DEF FaultsAbsent, Mem!PagesOf, Mem!Page_table, Mem!calculate_frames_of_segment
  <1>3. CASE ReceivePageFault
    <2>1. fault \in [Process -> Mem!Page \cup {NoPage}]
      BY DEF SistemaInv, MmuType
    <2>2. p # cpu => fault[p] \in Mem!PagesOf(p) /\ ~row[fault[p]].presence
      BY <1>1, <1>2, <1>3, FaultBegins DEF FaultsAbsent
    <2>3. p = cpu => fault'[p] = ThePage
      BY <1>3, <2>1, ReceivesFault
    <2>4. p # cpu => fault'[p] = fault[p]
      BY <1>3, <2>1, ReceivesFault
    <2> QED
      BY <1>3, <2>2, <2>3, <2>4, ReceivesFault
  <1>4. CASE ~ReceivePageFault
    <2>1. fault' = fault
      BY <1>4, FaultKept
    <2>2. /\ fault[p] \in Mem!PagesOf(p) /\ ~row[fault[p]].presence
          /\ fault[p] \in Mem!Page
      BY <1>1, <1>2, <1>4, FaultBegins DEF FaultsAbsent, Mem!Page
    <2>3. ASSUME row'[fault[p]].presence PROVE FALSE
      <3>1. CASE UNCHANGED storeVars
        BY <2>2, <2>3, <3>1 DEF storeVars
      <3>2. CASE AttendCpu
        BY <2>2, <2>3, <3>2, AccessBringsNone
      <3>3. CASE AttendKernel
        <4> DEFINE q == Head(toMemory).pcb
        <4>1. MemoryLoadPage /\ fault[p] \in Mem!PagesOf(q) /\ toMemory # <<>>
          BY <1>1, <2>2, <2>3, <3>3, ComesIn, AttendKernelSteps
        <4>2. q \in Process
          BY <4>1, RequestFacts
        <4>3. p = q
          BY <2>2, <4>1, <4>2, MP!PagesApart, MemoriaAssumptions, SamePages
        <4> QED
          BY <1>2, <4>1, <4>3, FaultOver
      <3>4. CASE Completing
        BY <3>1, <3>4, CompletingFacts
      <3>5. CASE KernelStep
        BY <3>1, <3>5 DEF KernelStep, newVars
      <3>6. CASE DispatchThread /\ ~Completing
        <4>1. UNCHANGED storeVars
          BY <3>6 DEF Completing, DispatchThread, ExecutePcb, GiveBackPcb,
             TranslateByTlb, AskFrame, ReceiveFrame, ReceivePageFault
        <4> QED
          BY <3>1, <4>1
      <3> QED
        BY <3>2, <3>3, <3>4, <3>5, <3>6, SistemaSteps
    <2> QED
      BY <2>1, <2>2, <2>3
  <1> QED
    BY <1>3, <1>4

-----------------------------------------------------------------------------
(* The theorems.                                                           *)

LEMMA SistemaInvNext == SistemaInv /\ [SistemaNext]_sistemaVars => SistemaInv'
  <1>1. SistemaInv /\ SistemaNext => SistemaInv'
    BY SistemaKernel, SistemaInitialised, MemoryKeeps, MmuNext, UnfinishedNext, RestedNext,
       ExchangeNext, FaultsAbsentNext DEF SistemaInv
  <1>2. ASSUME SistemaInv, UNCHANGED sistemaVars PROVE SistemaInv'
    <2>1. UNCHANGED vars /\ UNCHANGED newVars
      BY <1>2 DEF sistemaVars
    <2>2. UNCHANGED <<kernelVars, console, cpu, program_counter, event, check_interruption,
                      structures, loaded>>
      BY <2>1 DEF vars, peerVars
    <2>3. CpuOnly
      BY <1>2, <2>2 DEF CpuOnly, memVars, SistemaInv, KernelInv, TypeOK, CpuType
    <2>4. KernelInv' /\ Resident' /\ Prepared'
      BY <1>2, <2>3, KernelInvNext, ResidentKept DEF SistemaInv
    <2>5. UNCHANGED <<status, list, fromCpu, dispatch, resolving, toMemory>>
          /\ (Token' <=> Token)
      BY <2>3, CpuOnlyLeaves DEF Token, Answered, Posted
    <2>6. UNCHANGED <<row, clock_structures, fault, socket_memory>>
          /\ UNCHANGED <<mmuVars, pcbRegisters>>
      BY <2>1 DEF newVars, storeVars, pcbRegisters, mmuVars
    <2>7. Initialised'
      BY <1>2, <2>5, <2>6 DEF SistemaInv, Initialised
    <2>8. MP!IInv'
      <3>1. UNCHANGED Mem!memoriaVars
        BY <2>1, <2>2 DEF newVars, storeVars, Mem!memoriaVars
      <3> QED
        BY <1>2, <3>1, MemoriaKept DEF SistemaInv
    <2>9. MmuType'
      BY <1>2, <2>6, MmuKept DEF SistemaInv
    <2>10. Unfinished'
      BY <1>2, <2>2, <2>5 DEF SistemaInv, Unfinished, Finished
    <2>11. Rested' /\ Exchange'
      BY <1>2, <2>2, <2>6 DEF SistemaInv, Rested, Exchange, Instr, ThePage, PageOf, KindOf
    <2>12. FaultsAbsent'
      BY <1>2, <2>2, <2>5, <2>6 DEF SistemaInv, FaultsAbsent, Faulted, Mem!PagesOf,
         Mem!Page_table, Mem!calculate_frames_of_segment
    <2> QED
      BY <2>4, <2>7, <2>8, <2>9, <2>10, <2>11, <2>12 DEF SistemaInv
  <1> QED
    BY <1>1, <1>2

(* The memory starts as Memoria's does.                                    *)
LEMMA StartsAsMemoria == SistemaInit => Mem!Init /\ MP!Init
  <1>1. SistemaInit => Mem!Init
    BY DEF SistemaInit, Init, Mem!Init
  <1>2. Mem!Init <=> MP!Init
    BY Zenon DEF Mem!Init, MP!Init, Mem!Page, MP!Page, Mem!PagesOf, MP!PagesOf,
       Mem!Page_table, MP!Page_table, Mem!calculate_frames_of_segment,
       MP!calculate_frames_of_segment, Mem!Frame, MP!Frame, Mem!Position, MP!Position,
       Mem!Offset, MP!Offset, Mem!NewRow, MP!NewRow, Mem!NewSwapPage, MP!NewSwapPage
  <1> QED
    BY <1>1, <1>2

(* The invariant holds at the start, and so always.                        *)
LEMMA SistemaInvInit == SistemaInit => SistemaInv
  <1> SUFFICES ASSUME SistemaInit PROVE SistemaInv
    OBVIOUS
  <1>1. Init /\ KernelInit
    BY DEF SistemaInit, Init
  <1>2. TypeOK
    BY <1>1, TypeInit
  <1>3. CpuExclusive
    BY <1>1 DEF Init, KernelInit, CpuExclusive, SemName
  <1>4. AdmissionInv
    BY <1>1, AdmissionInit
  <1>5. PlaceInv
    BY <1>1, PlaceInit
  <1>6. MP!IInv
    BY StartsAsMemoria, MP!InitIInv, MemoriaAssumptions
  <1>7. /\ \A p \in Process : status[p] = "none"
        /\ Inside = {} /\ Leaving = {} /\ Ending = {} /\ ~Token
    <2>1. /\ \A p \in Process : status[p] = "none"
          /\ dispatch = Idle /\ toMemory = <<>> /\ fromMemory = <<>>
          /\ sem["init_process_memory"] = 0
      BY <1>1 DEF KernelInit, SemName
    <2> QED
      BY <2>1, NoProcessAssumption DEF Inside, Leaving, Ending, Token, Answered, Posted, Sent,
         Elements, Idle
  <1>8. Resident /\ Prepared
    BY <1>7 DEF Resident, Prepared, Owed
  <1>9. Initialised
    BY DEF SistemaInit, Initialised
  <1>10. MmuType
    <2>1. Silent \in SocketMessage
      BY WordFacts DEF Silent, SocketMessage
    <2> QED
      BY <2>1, WordFacts, FirstTlb DEF SistemaInit, MmuType
  <1>11. Unfinished
    <2>1. ASSUME NEW p \in Process PROVE program_counter[p] < Len(Code[p])
      <3>1. program_counter[p] = 0
        BY <1>1 DEF Init
      <3>2. Code[p] \in Seq(InstructionOf(p)) /\ Code[p] # <<>>
        BY CodeAssumption
      <3> QED
        BY <3>1, <3>2
    <2> QED
      BY <2>1 DEF Unfinished
  <1>12. Rested /\ Exchange
    BY <1>1 DEF Init, Rested, SistemaInit, Silent, Exchange
  <1>13. FaultsAbsent
    <2>1. /\ cpu = NoProcess /\ fromCpu = <<>> /\ dispatch = Idle /\ resolving = {}
          /\ toMemory = <<>>
      BY <1>1 DEF Init, KernelInit
    <2> QED
      BY <2>1, NoProcessAssumption DEF FaultsAbsent, Faulted, Elements, Idle
  <1> QED
    BY <1>2, <1>3, <1>4, <1>5, <1>6, <1>8, <1>9, <1>10, <1>11, <1>12, <1>13
       DEF SistemaInv, KernelInv

LEMMA SistemaHolds == SistemaSpec => []SistemaInv
  BY SistemaInvInit, SistemaInvNext, PTL DEF SistemaSpec

(* Every variable keeps its type: the CPU's registers and the TLB, the     *)
(* messages between CPU and memory, the page that travels with a PCB, and  *)
(* the whole of the memory.                                                *)
THEOREM SistemaTyped == SistemaSpec => []SistemaTypeOK
  <1>1. ASSUME SistemaInv PROVE SistemaTypeOK
    <2>1. Mem!TypeOK
      BY <1>1, SameTypes DEF SistemaInv, MP!IInv
    <2>2. \A i \in DOMAIN tlb : tlb[i] \in TlbEntry
      BY <1>1 DEF SistemaInv, MmuType
    <2> QED
      BY <1>1, <2>1, <2>2 DEF SistemaInv, SistemaTypeOK, MmuType, TlbEntry, SocketMessage
  <1> QED
    BY <1>1, SistemaHolds, PTL

(* The kernel and the CPU use the memory as module Memoria supposes:       *)
(* manage_memory, resolve_page_fault, manage_dispatch and the MMU          *)
(* initialise no process twice (init_process_structures), touch none after *)
(* delete_process, and ask for a page (request_page_fault) only while it   *)
(* is absent, although each request is decided at one moment and served at *)
(* a later one.                                                            *)
THEOREM MemoryUsedByProtocol == SistemaSpec => KeepsProtocol
  <1>1. SistemaInv /\ [SistemaNext]_sistemaVars => [Mem!Next]_(Mem!memoriaVars)
    <2>1. UNCHANGED sistemaVars => UNCHANGED Mem!memoriaVars
      BY DEF sistemaVars, vars, peerVars, newVars, storeVars, Mem!memoriaVars
    <2> QED
      BY <2>1, MemoryStep
  <1>2. SistemaInit => Mem!Init
    BY StartsAsMemoria
  <1> QED
    BY <1>1, <1>2, SistemaHolds, PTL DEF SistemaSpec, KeepsProtocol, Mem!Spec

(* So what Memoria promises holds under the real kernel and the real CPU:  *)
(* no two pages of live processes share a frame or a page of the swap, and *)
(* the bitmaps are exact.                                                  *)
THEOREM SistemaFrames == SistemaSpec => [](Mem!FrameHasOneOwner /\ Mem!SwapHasOneOwner)
  <1>1. Mem!Live = MP!Live /\ Mem!Present = MP!Present
    BY SamePages, Zenon DEF Mem!Present, MP!Present, Mem!Live, MP!Live
  <1>2. MP!FrameHasOneOwner => Mem!FrameHasOneOwner
    BY <1>1, Zenon DEF Mem!FrameHasOneOwner, MP!FrameHasOneOwner
  <1>3. MP!SwapHasOneOwner => Mem!SwapHasOneOwner
    BY <1>1, Zenon DEF Mem!SwapHasOneOwner, MP!SwapHasOneOwner
  <1>4. SistemaInv => Mem!FrameHasOneOwner /\ Mem!SwapHasOneOwner
    BY <1>2, <1>3 DEF SistemaInv, MP!IInv
  <1> QED
    BY <1>4, SistemaHolds, PTL

=============================================================================
