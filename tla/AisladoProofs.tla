--------------------------- MODULE AisladoProofs ---------------------------
(***************************************************************************)
(* What the programs see of memory and CPU, for every instance: each runs  *)
(* as if it were alone, and the memory does not run out.                   *)
(*                                                                         *)
(* A page stores what is in its frame, or else in its swap page (Stored in *)
(* module MemoriaProofs); page faults and replacements move it and leave   *)
(* that as it is.  So an access is right when its frame is (FrameIsRight), *)
(* and a frame that the TLB gives is right when its entries agree with the *)
(* page tables (TlbRight).  Nothing removes an entry whose page left its   *)
(* frame, which is why TlbIsSafe is needed: with one entry only, the       *)
(* process whose page left is at an access to another page, which takes    *)
(* the entry before the process can come back to the first (Evicted).      *)
(* These and what CPU and memory have to tell each other (Asked, Faulted)  *)
(* make PagingInv, on top of SistemaInv.                                   *)
(*                                                                         *)
(* ReadsRight and TlbIsRight follow from it.  MemoryAlwaysSurvives counts  *)
(* the frames and the swap pages in use by what is proved of the kernel    *)
(* (MemoryInv) and of the clocks.  ProgramsRunAlone maps each step to one  *)
(* of module Aislado for each process; with PagingInv it needs that a      *)
(* process is over for the kernel when it is for its program (OverIff) and *)
(* that none has executed before it has its memory (Rests).                *)
(***************************************************************************)
EXTENDS SistemaProofs, WellFoundedInduction

-----------------------------------------------------------------------------
(* The instruction a process is at.                                        *)

InstrOf(p) == Code[p][program_counter[p] + 1]

(* It is an access, and to which page.                                     *)
AtMov(p)   == program_counter[p] < Len(Code[p]) /\ KindOf(p, InstrOf(p)) = "MOV"
Needs(p)   == PageOf(p, InstrOf(p).address)

(* The last instruction p executed is one that ends it.                    *)
Past(p) == program_counter[p] > 0
           /\ KindOf(p, Code[p][program_counter[p]]) \in {"EXIT", "FAULT"}

(* The process is over for the kernel when it is for its program.          *)
OverIff == \A p \in Process : Finished(p) <=> Past(p)

(* Nobody executes without its tables.                                     *)
Rests == \A p \in Process : p \notin DOMAIN clock_structures => program_counter[p] = 0

(* The page that a PCB carries is the one its instruction needs.           *)
FaultOfInstruction == \A p \in Process : Faulted(p) => AtMov(p) /\ fault[p] = Needs(p)

(* The CPU's own instruction.                                              *)
LEMMA OwnInstr == cpu \in Process => InstrOf(cpu) = Instr /\ Needs(cpu) = ThePage
  BY DEF InstrOf, Instr, Needs, ThePage

LEMMA SameInstr ==
    ASSUME NEW p, program_counter'[p] = program_counter[p]
    PROVE  /\ InstrOf(p)' = InstrOf(p) /\ Needs(p)' = Needs(p)
           /\ AtMov(p)' <=> AtMov(p)
           /\ Past(p)' <=> Past(p)
  BY DEF InstrOf, Needs, AtMov, Past, KindOf, PageOf

(* A process the CPU executes.                                             *)
LEMMA Executing ==
    ASSUME SistemaInv, cpu # NoProcess, event = "none"
    PROVE  /\ cpu \in Process /\ cpu \in structures /\ cpu \in DOMAIN clock_structures
           /\ status[cpu] # "EXIT" /\ ~Finished(cpu) /\ ~Faulted(cpu)
           /\ program_counter \in [Process -> Nat]
           /\ program_counter[cpu] < Len(Code[cpu])
           /\ Instr \in InstructionOf(cpu)
  <1>1. KernelInv /\ Unfinished /\ TypeOK /\ CpuExclusive /\ Located
    BY DEF SistemaInv, KernelInv, PlaceInv
  <1>2. /\ cpu \in Process /\ cpu \in Inside /\ Instr \in InstructionOf(cpu)
        /\ program_counter \in [Process -> Nat] /\ program_counter[cpu] < Len(Code[cpu])
    BY <1>1, AtInstruction
  <1>3. cpu \in structures /\ cpu \in DOMAIN clock_structures
    BY <1>2 DEF SistemaInv, Resident, Owed, MP!IInv, MP!TypeOK
  <1>4. At(cpu, "cpu") /\ Elements(fromCpu) = {}
    BY <1>1, OnlyRunning DEF At, HasCpu, Queue
  <1>5. status[cpu] # "EXIT"
    BY <1>2 DEF Inside
  <1>6. ~Finished(cpu)
    BY <1>4, <1>5 DEF Finished, Ends
  <1>7. ~Faulted(cpu)
    <2>1. ~At(cpu, "dispatch") /\ ~At(cpu, "resolving") /\ ~At(cpu, "toMemory")
      BY <1>1, <1>2, <1>4, OnlyThere DEF Place
    <2> QED
      BY <1>4, <2>1 DEF Faulted, At, Queue
  <1> QED
    BY <1>2, <1>3, <1>5, <1>6, <1>7

(* An instruction moves one program counter.                               *)
LEMMA CounterNext ==
    ASSUME SistemaInv, SistemaNext, NEW p \in Process
    PROVE  \/ program_counter'[p] = program_counter[p] /\ ~(Completing /\ p = cpu)
           \/ Completing /\ p = cpu /\ program_counter'[p] = program_counter[p] + 1
  <1>1. CASE Completing
    <2>1. /\ cpu # NoProcess /\ event = "none"
          /\ program_counter' = [program_counter EXCEPT ![cpu] = @ + 1]
      BY <1>1, CompletingFacts
    <2>2. program_counter \in [Process -> Nat]
      BY <2>1, Executing
    <2> QED
      BY <1>1, <2>1, <2>2
  <1> QED
    BY <1>1, CounterStays

(* The CPU executes, without the memory.                                   *)
LEMMA DispatchLeavesMemory ==
    ASSUME SistemaInv, DispatchThread
    PROVE  UNCHANGED <<storeVars, structures>>
  <1>1. CASE Completing
    BY <1>1, CompletingFacts
  <1>2. CASE ~Completing
    BY <1>2 DEF Completing, DispatchThread, ExecutePcb, CpuReceive, GiveBackPcb, CpuReturn,
       TranslateByTlb, AskFrame, ReceiveFrame, ReceivePageFault, vars, peerVars, memVars
  <1> QED
    BY <1>1, <1>2

-----------------------------------------------------------------------------
(* What does not depend on what the pages hold.                            *)

LEMMA FaultOfInstructionNext ==
    ASSUME SistemaInv, FaultOfInstruction, SistemaNext
    PROVE  FaultOfInstruction'
  <1>1. SUFFICES ASSUME NEW p \in Process, Faulted(p)'
                 PROVE  AtMov(p)' /\ fault'[p] = Needs(p)'
    BY DEF FaultOfInstruction
  <1>2. fault \in [Process -> Mem!Page \cup {NoPage}]
    BY DEF SistemaInv, MmuType
  <1>3. CASE ReceivePageFault /\ p = cpu
    <2>1. /\ cpu # NoProcess /\ event = "none" /\ KindOf(cpu, Instr) = "MOV"
      BY <1>3 DEF ReceivePageFault, SistemaInv, Exchange
    <2>2. /\ fault'[p] = ThePage /\ UNCHANGED program_counter
      BY <1>2, <1>3, ReceivesFault DEF ReceivePageFault
    <2>3. AtMov(p) /\ Needs(p) = ThePage
      BY <1>3, <2>1, Executing, OwnInstr DEF AtMov
    <2> QED
      BY <2>2, <2>3, SameInstr
  <1>4. CASE ~(ReceivePageFault /\ p = cpu)
    <2>1. Faulted(p)
      BY <1>1, <1>4, FaultBegins
    <2>2. program_counter'[p] = program_counter[p]
      BY <2>1, CounterNext, CompletingFacts, Executing
    <2>3. fault'[p] = fault[p]
      BY <1>2, <1>4, FaultKept, ReceivesFault
    <2> QED
      BY <2>1, <2>2, <2>3, SameInstr DEF FaultOfInstruction
  <1> QED
    BY <1>3, <1>4

LEMMA RestsNext ==
    ASSUME SistemaInv, Rests, SistemaNext
    PROVE  Rests'
  <1>1. SUFFICES ASSUME NEW p \in Process, p \notin DOMAIN clock_structures'
                 PROVE  program_counter'[p] = 0
    BY DEF Rests
  <1>2. p \notin DOMAIN clock_structures /\ program_counter[p] = 0
    BY <1>1, ClocksNext DEF Rests
  <1>3. ~(Completing /\ p = cpu)
    BY <1>2, CompletingFacts, Executing
  <1> QED
    BY <1>2, <1>3, CounterNext

(* Only the dispatch thread ends a process.                                *)
LEMMA ExitBegins ==
    ASSUME KernelInv, Next, ~DispatchReceive, NEW p \in Process, status'[p] = "EXIT"
    PROVE  status[p] = "EXIT"
  <1> DEFINE Goal == status'[p] = "EXIT" => status[p] = "EXIT"
  <1>0. status \in [Process -> Status]
    BY DEF KernelInv, TypeOK, PcbType
  <1>1. ASSUME NEW q, NEW s, status' = [status EXCEPT ![q] = s], s # "EXIT" PROVE Goal
    BY <1>0, <1>1
  <1>2. ASSUME UNCHANGED status PROVE Goal
    BY <1>2
  <1>3. ASSUME NEW q \in Process, ConsoleThread(q) PROVE Goal
    BY <1>1, <1>2, <1>3 DEF ConsoleThread, ReceiveInitProcess, EnterScheduleReady,
       InitStructuresMemory, ScheduleNextToReady, ReceiveIoResponse, ReceiveDisconnection,
       schedule_next_to, pcbVars
  <1>4. CASE Scheduler
    BY <1>1, <1>2, <1>4 DEF Scheduler, WaitProcessInReady, ScheduleNextToRunning, RecordUltimo,
       pcbVars
  <1>5. ASSUME NEW d \in Device, DeviceThread(d) PROVE Goal
    BY <1>1, <1>2, <1>5 DEF DeviceThread, DeviceBegin, DeviceFinish, schedule_next_to, pcbVars
  <1>6. CASE Dispatch
    BY <1>1, <1>2, <1>6 DEF Dispatch, DispatchNullUltimo, DispatchIoConsole,
       DispatchIoDefault, DispatchInterruption, DispatchPageFault, DispatchEnd,
       schedule_next_to, pcbVars
  <1>7. CASE ManageMemory
    BY <1>1, <1>2, <1>7 DEF ManageMemory, ReceiveInitStructures, ReceivePageFaultResponse,
       schedule_next_to
  <1>8. ASSUME NEW q \in Process, PageFaultThread(q) \/ Console(q) PROVE Goal
    BY <1>1, <1>2, <1>8 DEF PageFaultThread, ResolvePageFault, Console, ConsoleStart,
       ConsoleAnswer, ConsoleEnd, pcbVars
  <1>9. CASE Clock \/ Interrupt \/ Cpu \/ CpuInterrupt \/ Memory
    <2>1. UNCHANGED pcbVars
      BY <1>9, KernelUnchanged DEF Clock, ClockBegin, ClockRestart, ClockExpire,
         ClockFinish, Interrupt, ManageInterrupt, Cpu, CpuReceive, CpuExecute, CpuReturn,
         CpuInterrupt, Memory, MemoryInit, MemoryLoadPage, MemoryEnd
    <2> QED
      BY <1>2, <2>1 DEF pcbVars
  <1> QED
    BY <1>3, <1>4, <1>5, <1>6, <1>7, <1>8, <1>9 DEF Next

(* What the kernel makes of the messages of the CPU: it ends nobody that   *)
(* the CPU did not end.                                                    *)
LEMMA KernelFinishes ==
    ASSUME KernelInv, Next, Rested, NEW p \in Process, Finished(p)',
           UNCHANGED event \/ event' = "none"
    PROVE  Finished(p)
  <1>1. /\ fromCpu \in Seq(ReturnMessage) /\ cpu \in Process \cup {NoProcess}
        /\ event \in (ReturnOp \cup {"none"}) \ {"EXECUTE_INTERRUPTION"}
    BY DEF KernelInv, TypeOK, CpuConnectionType, CpuType
  <1>2. CASE status'[p] = "EXIT"
    <2>1. CASE DispatchReceive
      <3>1. /\ fromCpu # <<>>
            /\ status' = IF Ends(Head(fromCpu).op)
                           THEN [status EXCEPT ![Head(fromCpu).pcb] = "EXIT"] ELSE status
        BY <2>1 DEF DispatchReceive
      <3>2. Head(fromCpu) \in Elements(fromCpu)
        BY <1>1, <3>1, TailElements
      <3>3. status[p] = "EXIT" \/ (Ends(Head(fromCpu).op) /\ p = Head(fromCpu).pcb)
        BY <1>2, <3>1 DEF KernelInv, TypeOK, PcbType
      <3> QED
        BY <3>2, <3>3 DEF Finished
    <2> QED
      BY <1>2, <2>1, ExitBegins DEF Finished
  <1>3. CASE cpu' = p /\ Ends(event')
    <2>1. Ends(event) /\ event # "none"
      BY <1>3 DEF Ends
    <2>2. CASE CpuReceive
      BY <2>1, <2>2 DEF CpuReceive, Rested
    <2>3. CASE CpuReturn
      BY <1>3, <2>3 DEF CpuReturn, Ends
    <2>4. CASE ~CpuReceive /\ ~CpuReturn
      <3>1. UNCHANGED cpu
        BY <2>4 DEF Next, ConsoleThread, PageFaultThread, Console, ConsoleStart,
           ConsoleAnswer, ConsoleEnd, DeviceThread, Scheduler, Dispatch, Clock, Interrupt,
           ManageMemory, Cpu, CpuExecute, CpuInterrupt, Memory, MemoryInit,
           MemoryLoadPage, MemoryEnd, cpuVars, peerVars
      <3> QED
        BY <1>3, <2>1, <3>1 DEF Finished
    <2> QED
      BY <2>2, <2>3, <2>4
  <1>4. ASSUME NEW m \in Elements(fromCpu'), m.pcb = p, Ends(m.op)
        PROVE  Finished(p)
    <2>1. CASE CpuReturn
      <3> DEFINE e == [op |-> IF event # "none" THEN event ELSE "EXECUTE_INTERRUPTION",
                       pcb |-> cpu]
      <3>1. fromCpu' = Append(fromCpu, e) /\ e \in ReturnMessage
        BY <1>1, <2>1 DEF CpuReturn, ReturnMessage, ReturnOp
      <3>2. m \in Elements(fromCpu) \/ m = e
        BY <1>1, <3>1, AppendElements
      <3>3. m = e => cpu = p /\ Ends(event)
        BY <1>4 DEF Ends
      <3> QED
        BY <1>4, <3>2, <3>3 DEF Finished
    <2>2. CASE ~CpuReturn
      <3>1. Elements(fromCpu') \subseteq Elements(fromCpu)
        <4>1. CASE DispatchReceive
          BY <1>1, <4>1, TailElements DEF DispatchReceive
        <4>2. CASE ~DispatchReceive
          <5>1. UNCHANGED fromCpu
            BY <2>2, <4>2, KernelUnchanged DEF Next, ConsoleThread, ReceiveInitProcess,
               EnterScheduleReady, InitStructuresMemory, ScheduleNextToReady,
               ReceiveIoResponse, ReceiveDisconnection, PageFaultThread, ResolvePageFault,
               Console, ConsoleStart, ConsoleAnswer, ConsoleEnd, DeviceThread, DeviceBegin,
               DeviceFinish, Scheduler, WaitProcessInReady, ScheduleNextToRunning,
               RecordUltimo, Dispatch, DispatchNullUltimo, DispatchIoConsole,
               DispatchIoDefault, DispatchInterruption, DispatchPageFault,
               DispatchEnd, Clock, ClockBegin, ClockRestart, ClockExpire,
               ClockFinish, Interrupt, ManageInterrupt, ManageMemory,
               ReceiveInitStructures, ReceivePageFaultResponse, Cpu, CpuReceive,
               CpuExecute, CpuInterrupt, Memory, MemoryInit,
               MemoryLoadPage, MemoryEnd, cpuConnection
          <5> QED
            BY <5>1
        <4> QED
          BY <4>1, <4>2
      <3> QED
        BY <1>4, <3>1 DEF Finished
    <2> QED
      BY <2>1, <2>2
  <1> QED
    BY <1>2, <1>3, <1>4 DEF Finished

(* The events of the CPU end a process exactly where its program does.     *)
LEMMA EndsOfInstruction ==
    ASSUME SistemaInv, Completing
    PROVE  KindOf(cpu, Instr) \in {"EXIT", "FAULT"} <=> Ends(event')
  <1>1. KindOf(cpu, Instr) \in {"EXIT", "FAULT"} => Ends(event')
    BY CompletingFacts
  <1>2. CASE ExecuteSetOrAdd \/ ReceiveMovIn \/ ReceiveMovOut
    BY <1>1, <1>2 DEF ExecuteSetOrAdd, ReceiveMovIn, ReceiveMovOut, Complete, Ends
  <1>3. CASE ExecuteAndLeave
    <2> DEFINE kind == KindOf(cpu, Instr)
    <2>1. /\ kind \in {"EXIT", "FAULT", "CONSOLE"} \cup Device
          /\ event' = EventOf(cpu, kind)
      BY <1>3 DEF ExecuteAndLeave, Complete
    <2> HIDE DEF kind
    <2>2. kind \notin {"EXIT", "FAULT"} => ~Ends(event')
      BY <2>1, DeviceAssumption, DeviceIsNoInstruction DEF EventOf, Ends
    <2> QED
      BY <1>1, <2>2 DEF kind
  <1> QED
    BY <1>2, <1>3 DEF Completing

LEMMA OverIffNext ==
    ASSUME SistemaInv, OverIff, SistemaNext
    PROVE  OverIff'
  <1>1. SUFFICES ASSUME NEW p \in Process PROVE Finished(p)' <=> Past(p)'
    BY DEF OverIff
  <1>2. KernelInv /\ Rested /\ alive
    BY DEF SistemaInv, SistemaNext, Running
  <1>3. CASE Completing
    <2>1. /\ cpu # NoProcess /\ event = "none"
          /\ UNCHANGED <<cpu, fromCpu>>
      BY <1>3, CompletingFacts
    <2>2. UNCHANGED status
      BY <1>3 DEF Completing, ExecuteSetOrAdd, ExecuteAndLeave, ReceiveMovIn, ReceiveMovOut,
         Complete, kernelVars
    <2>3. CASE p # cpu
      <3>1. Finished(p)' <=> Finished(p)
        BY <2>1, <2>2, <2>3 DEF Finished
      <3> QED
        BY <2>3, <3>1, CounterNext, SameInstr DEF OverIff
    <2>4. CASE p = cpu
      <3>1. /\ program_counter'[p] = program_counter[p] + 1
            /\ program_counter[p] \in Nat
            /\ ~Finished(p)
        BY <1>3, <2>1, <2>4, CounterNext, Executing
      <3>2. Past(p)' <=> KindOf(cpu, Instr) \in {"EXIT", "FAULT"}
        BY <2>1, <2>4, <3>1 DEF Past, Instr, KindOf
      <3>3. Finished(p)' <=> Ends(event')
        BY <2>1, <2>2, <2>4, <3>1 DEF Finished
      <3> QED
        BY <1>3, <3>2, <3>3, EndsOfInstruction
    <2> QED
      BY <2>3, <2>4
  <1>4. CASE ~Completing
    <2>1. Past(p)' <=> Past(p)
      BY <1>4, CounterNext, SameInstr
    <2>2. Finished(p) => Finished(p)'
      BY <1>4, FinishedKept
    <2>3. Finished(p)' => Finished(p)
      <3>1. CASE KernelStep
        BY <1>2, <3>1, KernelFinishes DEF KernelStep
      <3>2. ASSUME UNCHANGED vars PROVE Finished(p)' => Finished(p)
        BY <3>2 DEF vars, kernelVars, peerVars, Finished
      <3>3. CASE AttendKernel
        BY <1>2, <3>2, <3>3, AttendKernelSteps, KernelFinishes
      <3>4. CASE AttendCpu \/ TranslateByTlb \/ AskFrame \/ ReceiveFrame
        BY <3>2, <3>4 DEF TranslateByTlb, AskFrame, ReceiveFrame, AttendCpu,
           AnswerFrameRequest, AnswerMovIn, AnswerMovOut
      <3>5. CASE ReceivePageFault
        BY <3>5 DEF ReceivePageFault, kernelVars, Finished, Ends
      <3>6. CASE ExecutePcb \/ GiveBackPcb
        <4>1. Next /\ (UNCHANGED event \/ event' = "none")
          BY <1>2, <3>6 DEF ExecutePcb, GiveBackPcb, CpuReceive, CpuReturn, Next, Cpu
        <4> QED
          BY <1>2, <4>1, KernelFinishes
      <3> QED
        BY <1>4, <3>1, <3>3, <3>4, <3>5, <3>6, SistemaSteps DEF DispatchThread, Completing
    <2> QED
      BY <2>1, <2>2, <2>3 DEF OverIff
  <1> QED
    BY <1>3, <1>4

-----------------------------------------------------------------------------
(* What each step does to the pages.                                       *)

(* The CPU asks for what its instruction says,                             *)
Asked ==
    /\ socket_memory.op \in {"MOV_IN", "MOV_IN_OK"} => Instr.op = "MOV_IN"
    /\ socket_memory.op \in {"MOV_OUT", "MOV_OUT_OK"} => Instr.op = "MOV_OUT"
    /\ socket_memory.op = "MOV_OUT" => socket_memory.value = registers[Instr.register]

(* and with the frame its page is in.                                      *)
FrameIsRight ==
    socket_memory.op \in {"FRAME_RESPONSE", "MOV_IN", "MOV_OUT"}
      => row[ThePage].presence /\ row[ThePage].frame_number = socket_memory.frame

LEMMA MemoryOf ==
    ASSUME SistemaInv
    PROVE  /\ MP!IInv /\ structures \subseteq Process
           /\ structures \subseteq DOMAIN clock_structures
           /\ MP!Live \subseteq Mem!Page
           /\ \A p \in structures : Mem!PagesOf(p) \subseteq MP!Live
  <1>1. MP!IInv /\ structures \subseteq Process /\ structures \subseteq DOMAIN clock_structures
    BY DEF SistemaInv, MP!IInv, MP!TypeOK
  <1>2. \A p \in structures : Mem!PagesOf(p) \subseteq MP!Live
    BY SamePages DEF MP!Live
  <1>3. \A pg \in MP!Live : pg \in Mem!Page
    BY <1>1, SamePages DEF MP!Live, MP!Page
  <1> QED
    BY <1>1, <1>2, <1>3

(* A live process has its own pages.                                       *)
LEMMA LivePages ==
    ASSUME SistemaInv, NEW pg \in MP!Live
    PROVE  pg[1] \in structures /\ pg \in Mem!PagesOf(pg[1])
  BY MemoryOf, MP!LiveFacts, MemoriaAssumptions, SamePages DEF MP!Owner, MP!IInv

LEMMA PageInTable ==
    ASSUME NEW p, NEW pg \in Mem!PagesOf(p)
    PROVE  pg \in Mem!Page_table(p, pg[2]) /\ pg[1] = p
  BY DEF Mem!PagesOf, Mem!Page_table

(* MOV_OUT writes the word at its address.                                 *)
LEMMA MovOutWrites ==
    ASSUME SistemaInv, MP!Clean, FrameIsRight, AnswerMovOut
    PROVE  /\ MP!Clean'
           /\ ThePage \in MP!Live
           /\ MP!Stored(ThePage)' =
                [MP!Stored(ThePage) EXCEPT ![OffsetOf(Instr.address)] = socket_memory.value]
           /\ \A q \in MP!Live \ {ThePage} : MP!Stored(q)' = MP!Stored(q)
           /\ \A q \in Mem!Page : /\ row'[q].frame_number = row[q].frame_number
                                  /\ row'[q].presence = row[q].presence
           /\ UNCHANGED <<structures, memory_alive>>
  <1>1. /\ cpu # NoProcess /\ event = "none" /\ KindOf(cpu, Instr) = "MOV"
        /\ socket_memory.value \in Word
        /\ row[ThePage].presence /\ row[ThePage].frame_number = socket_memory.frame
    BY DEF AnswerMovOut, SistemaInv, Exchange, FrameIsRight, MmuType, SocketMessage
  <1>2. /\ cpu \in structures /\ ThePage \in MP!PagesOf(cpu)
        /\ OffsetOf(Instr.address) \in MP!Offset
    BY <1>1, Accessing, SamePages
  <1>3. ThePage \in MP!Page_table(cpu, ThePage[2])
    BY <1>2, PageInTable, SamePages
  <1>4. MP!mov_out(cpu, ThePage[2], row[ThePage].frame_number, OffsetOf(Instr.address),
                   socket_memory.value)
    BY <1>1, SameAccesses DEF AnswerMovOut
  <1> DEFINE pg == ThePage
             o  == OffsetOf(Instr.address)
             w  == socket_memory.value
  <1>5. MP!IInv /\ pg \in MP!Live /\ MP!Page = Mem!Page
    BY <1>2, MemoryOf, SamePages
  <1>6. PICK q : q = pg
    OBVIOUS
  <1>7. PICK s : s = q[2]
    OBVIOUS
  <1>8. PICK v : v = w
    OBVIOUS
  <1>9. PICK i : i = o
    OBVIOUS
  <1>10. PICK p : p = cpu
    OBVIOUS
  <1>11. /\ p \in structures /\ q \in MP!PagesOf(p) /\ row[q].presence
         /\ q \in MP!Page_table(p, s) /\ i \in MP!Offset /\ v \in Word
         /\ MP!mov_out(p, s, row[q].frame_number, i, v)
    BY <1>1, <1>2, <1>3, <1>4, <1>6, <1>7, <1>8, <1>9, <1>10
  <1>12. /\ MP!Clean'
         /\ MP!Stored(q)' = [MP!Stored(q) EXCEPT ![i] = v]
         /\ \A r \in MP!Live \ {q} : MP!Stored(r)' = MP!Stored(r)
         /\ \A r \in MP!Page : /\ row'[r].frame_number = row[r].frame_number
                               /\ row'[r].presence = row[r].presence
         /\ UNCHANGED <<structures, memory_alive>>
    BY <1>5, <1>11, MP!MovOutStores, MemoriaAssumptions
  <1>13. UNCHANGED <<ThePage, OffsetOf(Instr.address)>>
    BY DEF AnswerMovOut, vars, peerVars, ThePage, Instr, PageOf, OffsetOf
  <1>14. MP!Stored(ThePage)' = MP!Stored(q)'
    BY <1>6, <1>13 DEF MP!Stored
  <1> QED
    BY <1>5, <1>6, <1>8, <1>9, <1>12, <1>14

(* MOV_IN changes nothing of it.                                           *)
LEMMA MovInLeaves ==
    ASSUME SistemaInv, MP!Clean, AnswerMovIn
    PROVE  /\ MP!Clean'
           /\ \A q \in MP!Live : MP!Stored(q)' = MP!Stored(q)
           /\ \A q \in Mem!Page : /\ row'[q].frame_number = row[q].frame_number
                                  /\ row'[q].presence = row[q].presence
           /\ UNCHANGED <<structures, memory_alive>>
  <1>1. PICK pg : MP!mov_in(pg)
    BY SameAccesses DEF AnswerMovIn
  <1>2. UNCHANGED <<structures, memory_alive>>
    BY <1>1 DEF MP!mov_in
  <1> QED
    BY <1>1, <1>2, MemoryOf, SamePages, MP!MovInStores, MemoriaAssumptions

(* Without a change of the tables or of the stores.                        *)
LEMMA StoresSame ==
    ASSUME SistemaInv, MP!Clean, UNCHANGED <<structures, row, principal_memory, swap>>
    PROVE  MP!Clean' /\ MP!Live' = MP!Live /\ \A q \in MP!Live : MP!Stored(q)' = MP!Stored(q)
  BY DEF MP!Clean, MP!Stored, MP!Present, MP!Live, MP!PagesOf, MP!Page_table,
         MP!calculate_frames_of_segment

(* A request of the kernel moves pages, and changes none.                  *)
LEMMA AttendKernelStores ==
    ASSUME SistemaInv, MP!Clean, alive, AttendKernel
    PROVE  MP!Clean' /\ \A q \in MP!Live : q \in MP!Live' => MP!Stored(q)' = MP!Stored(q)
  <1>1. PICK p : p = Head(toMemory).pcb
    OBVIOUS
  <1>2. MP!IInv /\ toMemory # <<>> /\ p \in Process
    BY <1>1, MemoryOf, AttendKernelSteps, RequestFacts
  <1>3. CASE MemoryInit /\ Mem!BuildTables(p)
    <2>1. p \in Process \ DOMAIN clock_structures /\ MP!BuildTables(p)
      BY <1>1, <1>2, <1>3, RequestFacts, SameTables DEF MemoryInit, InitRequest
    <2> QED
      BY <1>2, <2>1, MP!BuildTablesStores, MemoriaAssumptions
  <1>4. CASE Mem!SwapFull(p)
    BY <1>4, StoresSame DEF Mem!SwapFull, Mem!MemoryDies
  <1>5. CASE MemoryLoadPage /\ Mem!request_page_fault(fault[p])
    <2>1. PICK pg : pg = fault[p]
      OBVIOUS
    <2>2. /\ p \in structures /\ pg \in MP!PagesOf(p) /\ ~row[pg].presence
          /\ MP!request_page_fault(pg)
      BY <1>1, <1>2, <1>5, <2>1, RequestFacts, SameFaults, SamePages DEF MemoryLoadPage
    <2> QED
      BY <1>2, <2>2, MP!FaultStores, MemoriaAssumptions
  <1>6. CASE MemoryEnd /\ Mem!delete_process(p)
    <2>1. p \in structures /\ MP!delete_process(p)
      BY <1>1, <1>2, <1>6, RequestFacts, SameTables DEF MemoryEnd
    <2> QED
      BY <1>2, <2>1, MP!DeleteStores, MemoriaAssumptions
  <1> QED
    BY <1>1, <1>3, <1>4, <1>5, <1>6, AttendKernelSteps

(* No step but MOV_OUT changes what a page of a live process holds.        *)
LEMMA StoresNext ==
    ASSUME SistemaInv, MP!Clean, FrameIsRight, SistemaNext
    PROVE  /\ MP!Clean'
           /\ \A q \in MP!Live : q \in MP!Live' =>
                 MP!Stored(q)' = MP!Stored(q) \/ (AnswerMovOut /\ q = ThePage)
  <1>1. alive
    BY DEF SistemaNext, Running
  <1>2. CASE KernelStep
    BY <1>2, StoresSame DEF KernelStep, newVars, storeVars
  <1>3. CASE DispatchThread
    BY <1>3, DispatchLeavesMemory, StoresSame DEF storeVars
  <1>4. CASE AttendCpu
    <2>1. CASE AnswerFrameRequest
      BY <2>1, StoresSame DEF AnswerFrameRequest, storeVars, vars, peerVars
    <2> QED
      BY <1>4, <2>1, MovInLeaves, MovOutWrites DEF AttendCpu
  <1> QED
    BY <1>1, <1>2, <1>3, <1>4, SistemaSteps, AttendKernelStores

-----------------------------------------------------------------------------
(* When a page may leave its frame.                                        *)

LEMMA PagesFinite ==
    ASSUME NEW p \in Process
    PROVE  IsFiniteSet(Mem!PagesOf(p))
  <1> DEFINE S == 0 .. Len(Segments[p]) - 1
             T == {Mem!Page_table(p, s) : s \in S}
  <1>1. Len(Segments[p]) \in Nat /\ \A s \in S : Segments[p][s + 1] \in Nat
    BY MemoryAssumption
  <1>2. IsFiniteSet(S)
    BY <1>1, FS_Interval
  <1>3. IsFiniteSet(T)
    <2> DEFINE f == [s \in S |-> Mem!Page_table(p, s)]
    <2>1. f \in Surjection(S, T)
      BY Zenon DEF Surjection
    <2> HIDE DEF S, T, f
    <2> QED
      BY <1>2, <2>1, FS_Surjection
  <1>4. ASSUME NEW s \in S PROVE IsFiniteSet(Mem!Page_table(p, s))
    <2> DEFINE n == Mem!calculate_frames_of_segment(Segments[p][s + 1])
               N == 0 .. n - 1
               f == [k \in N |-> <<p, s, k>>]
    <2>1. n \in Int
      <3>1. Segments[p][s + 1] \in Nat
        BY <1>1
      <3>2. Segments[p][s + 1] \div TAM_PAGINA \in Nat
        BY <3>1, Division, TableAssumption
      <3> QED
        BY <3>2 DEF Mem!calculate_frames_of_segment
    <2>2. IsFiniteSet(N)
      <3> HIDE DEF n
      <3> QED
        BY <2>1, FS_Interval
    <2>3. f \in Surjection(N, Mem!Page_table(p, s))
      BY Zenon DEF Surjection, Mem!Page_table
    <2> QED
      BY <2>2, <2>3, FS_Surjection, Zenon
  <1>5. \A t \in T : IsFiniteSet(t)
    BY <1>4, Zenon
  <1>6. IsFiniteSet(UNION T)
    BY <1>3, <1>5, FS_UNION, Zenon
  <1> QED
    BY <1>6 DEF Mem!PagesOf

(* A process replaces only when it has more pages than frames.             *)
LEMMA MustShare ==
    ASSUME SistemaInv, NEW p \in structures, NEW pg \in Mem!PagesOf(p), ~row[pg].presence,
           Len(MP!FramesOf(p)) = MARCOS_POR_PROCESO
    PROVE  Cardinality(Mem!PagesOf(p)) > MARCOS_POR_PROCESO
  <1> DEFINE c == MP!FramesOf(p)
             D == 1 .. MARCOS_POR_PROCESO
             R == Mem!PagesOf(p) \ {pg}
             f == [i \in D |-> c[i].page]
  <1>1. MP!IInv /\ p \in Process /\ MARCOS_POR_PROCESO \in Nat
    BY MemoryOf, MemoryAssumption
  <1>2. c \in Seq(MP!ClockRow)
    BY <1>1 DEF MP!IInv, MP!TypeOK, MP!FramesOf, MP!Clock
  <1>3. DOMAIN c = D
    BY <1>2
  <1>4. MP!ClockMatches(p)
    BY <1>1 DEF MP!IInv, MP!ClockMatchesTables
  <1>5. \A i \in D : c[i].page \in Mem!PagesOf(p) /\ row[c[i].page].presence
    BY <1>3, <1>4, SamePages DEF MP!ClockMatches
  <1>6. \A i, j \in D : c[i].page = c[j].page => i = j
    BY <1>3, <1>4 DEF MP!ClockMatches
  <1>7. f \in Injection(D, R)
    <2> HIDE DEF c, D
    <2>1. f \in [D -> R]
      BY <1>5
    <2>2. \A i, j \in D : f[i] = f[j] => i = j
      BY <1>6
    <2> QED
      BY <2>1, <2>2, Zenon DEF Injection, IsInjective
  <1>8. IsFiniteSet(Mem!PagesOf(p))
    BY <1>1, PagesFinite
  <1> DEFINE n == Cardinality(Mem!PagesOf(p))
  <1>9. IsFiniteSet(R) /\ Cardinality(R) = n - 1 /\ n \in Nat
    BY <1>8, FS_RemoveElement, FS_CardinalityType
  <1>10. Cardinality(D) <= Cardinality(R)
    BY <1>7, <1>9, FS_Injection
  <1>11. Cardinality(D) = MARCOS_POR_PROCESO
    BY <1>1, FS_Interval
  <1> QED
    BY <1>1, <1>9, <1>10, <1>11

(* The tables of a process change with its own page fault alone.           *)
LEMMA PageStays ==
    ASSUME SistemaInv, MP!Clean, FrameIsRight, SistemaNext,
           NEW p \in structures, NEW pg \in Mem!PagesOf(p)
    PROVE  \/ /\ row'[pg].presence = row[pg].presence
              /\ row'[pg].frame_number = row[pg].frame_number
           \/ /\ MemoryLoadPage /\ toMemory # <<>> /\ p = Head(toMemory).pcb /\ Faulted(p)
              /\ ~row[fault[p]].presence
              /\ pg = fault[p] \/ Cardinality(Mem!PagesOf(p)) > MARCOS_POR_PROCESO
  <1>0. alive /\ p \in Process /\ pg \in Mem!Page /\ MP!IInv
    BY MemoryOf, SamePages DEF SistemaNext, Running, Mem!Page
  <1>1. CASE UNCHANGED row
    BY <1>1
  <1>2. CASE KernelStep \/ DispatchThread \/ AnswerFrameRequest
    BY <1>1, <1>2, DispatchLeavesMemory DEF KernelStep, newVars, storeVars, AnswerFrameRequest
  <1>3. CASE AnswerMovIn \/ AnswerMovOut
    BY <1>0, <1>3, MovInLeaves, MovOutWrites
  <1>4. CASE AttendKernel
    <2>1. PICK q : q = Head(toMemory).pcb
      OBVIOUS
    <2>2. toMemory # <<>> /\ q \in Process
      BY <1>0, <1>4, <2>1, AttendKernelSteps, RequestFacts
    <2>3. CASE MemoryInit /\ Mem!BuildTables(q)
      <3>1. q \notin DOMAIN clock_structures /\ MP!BuildTables(q)
        BY <2>1, <2>2, <2>3, RequestFacts, SameTables DEF MemoryInit, InitRequest
      <3>2. q # p
        BY <3>1, MemoryOf
      <3>3. pg \in MP!Page \ MP!PagesOf(q)
        BY <1>0, <2>2, <3>2, MP!PagesApart, MemoriaAssumptions, SamePages
      <3>4. row'[pg] = row[pg]
        BY <1>0, <2>2, <3>1, <3>3, MP!BuildTablesStores, MemoriaAssumptions
      <3> QED
        BY <3>4
    <2>4. CASE Mem!SwapFull(q) \/ Mem!delete_process(q)
      BY <1>1, <2>4 DEF Mem!SwapFull, Mem!MemoryDies, Mem!delete_process
    <2>5. CASE MemoryLoadPage /\ Mem!request_page_fault(fault[q])
      <3>1. PICK r : r = fault[q]
        OBVIOUS
      <3>2. /\ q \in structures /\ r \in MP!PagesOf(q) /\ ~row[r].presence
            /\ MP!request_page_fault(r) /\ Head(toMemory).op = "REQUEST_PAGE_FAULT"
        BY <2>1, <2>2, <2>5, <3>1, RequestFacts, SameFaults, SamePages DEF MemoryLoadPage
      <3>3. /\ \A s \in MP!Page \ MP!PagesOf(q) : row'[s] = row[s]
            /\ \/ \A s \in MP!Page \ {r} : row'[s] = row[s]
               \/ Len(MP!FramesOf(q)) = MARCOS_POR_PROCESO
        BY <1>0, <3>2, MP!FaultStores, MemoriaAssumptions
      <3>4. CASE p # q
        <4>1. pg \in MP!Page \ MP!PagesOf(q)
          BY <1>0, <2>2, <3>4, MP!PagesApart, MemoriaAssumptions, SamePages
        <4> QED
          BY <3>3, <4>1
      <3>5. CASE p = q
        <4>1. Faulted(p)
          <5>1. Head(toMemory) \in Elements(toMemory) /\ Head(toMemory) = PageRequest(p)
            <6>1. toMemory \in Seq(MemoryRequest)
              BY DEF SistemaInv, KernelInv, TypeOK, MemoryConnectionType
            <6>2. Head(toMemory) \in Elements(toMemory)
              BY <2>2, <6>1, TailElements
            <6>3. Head(toMemory) \in MemoryRequest
              BY <2>2, <6>1
            <6> QED
              BY <2>1, <3>2, <3>5, <6>2, <6>3 DEF PageRequest, MemoryRequest
          <5> QED
            BY <5>1 DEF Faulted
        <4>2. pg # r => \/ row'[pg] = row[pg]
                        \/ Cardinality(Mem!PagesOf(p)) > MARCOS_POR_PROCESO
          BY <1>0, <3>2, <3>3, <3>5, MustShare, SamePages
        <4> QED
          BY <2>1, <2>2, <2>5, <3>1, <3>2, <3>5, <4>1, <4>2
      <3> QED
        BY <3>4, <3>5
    <2> QED
      BY <1>0, <1>4, <2>1, <2>3, <2>4, <2>5, AttendKernelSteps
  <1> QED
    BY <1>2, <1>3, <1>4, SistemaSteps DEF AttendCpu

(* Tables appear for a process that never had any.                         *)
LEMMA StructuresNext ==
    ASSUME SistemaInv, SistemaNext
    PROVE  \A p \in structures' : p \in structures \/ p \notin DOMAIN clock_structures
  <1>0. alive
    BY DEF SistemaNext, Running
  <1>1. CASE UNCHANGED structures
    BY <1>1
  <1>2. CASE KernelStep \/ DispatchThread \/ AttendCpu
    BY <1>1, <1>2, DispatchLeavesMemory, MovInLeaves
       DEF KernelStep, AttendCpu, AnswerFrameRequest, AnswerMovIn, AnswerMovOut, vars, peerVars
  <1>3. CASE AttendKernel
    <2>1. PICK q : q = Head(toMemory).pcb
      OBVIOUS
    <2>2. CASE MemoryInit
      <3>1. q \notin DOMAIN clock_structures /\ structures' = structures \cup {q}
        BY <1>0, <1>3, <2>1, <2>2, AttendKernelSteps, RequestFacts DEF MemoryInit, InitRequest
      <3> QED
        BY <3>1
    <2>3. CASE Mem!SwapFull(q) \/ MemoryLoadPage \/ MemoryEnd
      BY <2>3 DEF Mem!SwapFull, Mem!MemoryDies, MemoryLoadPage, MemoryEnd
    <2> QED
      BY <1>0, <1>3, <2>1, <2>2, <2>3, AttendKernelSteps
  <1> QED
    BY <1>2, <1>3, SistemaSteps

-----------------------------------------------------------------------------
(* The TLB.                                                                *)

(* A TLB entry says of its page what the page table says,                  *)
Agrees(e) == row[e.page].presence /\ row[e.page].frame_number = e.frame

(* or its page left to make room for the one that its process is at, which *)
(* will take the only entry before the page is looked for again.           *)
Evicted(e) ==
    /\ ENTRADAS_TLB = 1
    /\ Cardinality(Mem!PagesOf(e.page[1])) > MARCOS_POR_PROCESO
    /\ AtMov(e.page[1]) /\ Needs(e.page[1]) # e.page

TlbRight ==
    \A e \in Elements(tlb) :
        e.page # NoPage /\ e.page[1] \in structures => Agrees(e) \/ Evicted(e)

(* Its pages are of processes that were initialised,                       *)
TlbInitialised ==
    \A e \in Elements(tlb) : e.page # NoPage => e.page[1] \in DOMAIN clock_structures

(* and an only entry is of the page being accessed.                        *)
TlbAtPage ==
    ENTRADAS_TLB = 1 /\ socket_memory.op \in {"MOV_IN", "MOV_IN_OK", "MOV_OUT", "MOV_OUT_OK"}
      => \A e \in Elements(tlb) : e.page = ThePage

LEMMA ReferencedElements ==
    ASSUME NEW t \in Seq(TlbEntry), NEW pg, present_in_tlb(t, pg) # -1
    PROVE  /\ Elements(Referenced(t, pg)) \subseteq Elements(t)
           /\ \E e \in Elements(t) : e.page = pg /\ e.frame = present_in_tlb(t, pg)
           /\ Len(t) = 1 => \A e \in Elements(t) : e.page = pg
  <1> DEFINE hit == FirstHit(t, pg)
             n == Len(t)
  <1>1. Hits(t, pg) # {} /\ present_in_tlb(t, pg) = t[hit].frame
    BY DEF present_in_tlb
  <1>2. hit \in 1 .. n /\ n \in Nat /\ DOMAIN t = 1 .. n /\ t[hit].page = pg
    BY <1>1 DEF FirstHit, Hits
  <1>3. Elements(Referenced(t, pg)) \subseteq Elements(t)
    <2>1. CASE REEMPLAZO_TLB = "FIFO"
      BY <2>1 DEF Referenced
    <2>2. CASE REEMPLAZO_TLB # "FIFO"
      <3> DEFINE r == [i \in 1 .. n |-> IF i < hit THEN t[i]
                                        ELSE IF i < n THEN t[i + 1] ELSE t[hit]]
      <3>1. Referenced(t, pg) = r
        BY <1>2, <2>2 DEF Referenced
      <3>2. \A i \in 1 .. n : \E j \in 1 .. n : r[i] = t[j]
        BY <1>2
      <3>3. DOMAIN r = 1 .. n
        OBVIOUS
      <3> HIDE DEF r, n
      <3>4. Elements(r) \subseteq Elements(t)
        BY <1>2, <3>2, <3>3, Zenon DEF Elements
      <3> QED
        BY <3>1, <3>4
    <2> QED
      BY <2>1, <2>2
  <1>4. t[hit] \in Elements(t)
    BY <1>2, Zenon DEF Elements
  <1>5. n = 1 => \A e \in Elements(t) : e = t[hit]
    <2>1. SUFFICES ASSUME n = 1, NEW i \in DOMAIN t PROVE t[i] = t[hit]
      BY Zenon DEF Elements
    <2>2. i = 1 /\ hit = 1
      BY <1>2, <2>1
    <2> QED
      BY <2>2, Zenon
  <1> QED
    BY <1>1, <1>2, <1>3, <1>4, <1>5

LEMMA AddedElements ==
    ASSUME NEW t \in Seq(TlbEntry), Len(t) = ENTRADAS_TLB, NEW pg \in Mem!Page, NEW f \in Mem!Frame
    PROVE  /\ \A e \in Elements(add_to_tlb(t, pg, f)) : e \in Elements(t) \/ e = TlbRow(pg, f)
           /\ ENTRADAS_TLB = 1 => \A e \in Elements(add_to_tlb(t, pg, f)) : e = TlbRow(pg, f)
  <1>1. TlbRow(pg, f) \in TlbEntry
    BY DEF TlbRow, TlbEntry
  <1>2. CASE t = <<>>
    BY <1>2 DEF add_to_tlb
  <1>3. CASE t # <<>>
    <2>1. Tail(t) \in Seq(TlbEntry) /\ Len(Tail(t)) = Len(t) - 1 /\ Len(t) # 0 /\ Len(t) \in Nat
      BY <1>3, HeadTail
    <2>2. PICK u \in Seq(TlbEntry) : u = Tail(t)
      BY <2>1
    <2>3. PICK r \in TlbEntry : r = TlbRow(pg, f)
      BY <1>1
    <2>4. Elements(u) \subseteq Elements(t)
      BY <1>3, <2>2, TailElements
    <2>5. Elements(Append(u, r)) = Elements(u) \cup {r}
      BY AppendElements
    <2>6. add_to_tlb(t, pg, f) = Append(u, r)
      BY <2>1, <2>2, <2>3 DEF add_to_tlb
    <2>7. ASSUME Len(u) = 0 PROVE Elements(u) = {}
      <3>1. DOMAIN u = 1 .. Len(u)
        OBVIOUS
      <3>2. \A i : i \notin DOMAIN u
        BY <2>7, <3>1
      <3> QED
        BY <3>2, Zenon DEF Elements
    <2>8. ENTRADAS_TLB = 1 => Len(u) = 0
      BY <2>1, <2>2
    <2> QED
      BY <2>3, <2>4, <2>5, <2>6, <2>7, <2>8
  <1> QED
    BY <1>2, <1>3

(* The steps that change the TLB.                                          *)
LEMMA TlbNext ==
    ASSUME SistemaInv, SistemaNext
    PROVE  \/ UNCHANGED tlb
           \/ TranslateByTlb /\ Elements(tlb') \subseteq Elements(tlb)
           \/ /\ ReceiveFrame
              /\ cpu # NoProcess /\ event = "none" /\ KindOf(cpu, Instr) = "MOV"
              /\ \A e \in Elements(tlb') :
                    e \in Elements(tlb) \/ e = TlbRow(ThePage, socket_memory.frame)
              /\ ENTRADAS_TLB = 1 =>
                    \A e \in Elements(tlb') : e = TlbRow(ThePage, socket_memory.frame)
  <1>1. alive /\ tlb \in Seq(TlbEntry) /\ Len(tlb) = ENTRADAS_TLB
    BY DEF SistemaInv, MmuType, SistemaNext, Running
  <1>2. CASE KernelStep \/ AttendCpu \/ AttendKernel
    BY <1>1, <1>2, AttendKernelSteps DEF KernelStep, newVars, mmuVars, AttendCpu,
       AnswerFrameRequest, AnswerMovIn, AnswerMovOut
  <1>3. CASE TranslateByTlb
    BY <1>1, <1>3, ReferencedElements DEF TranslateByTlb
  <1>4. CASE ReceiveFrame
    <2>1. /\ cpu # NoProcess /\ event = "none" /\ KindOf(cpu, Instr) = "MOV"
          /\ socket_memory.frame \in Mem!Frame
      BY <1>4 DEF ReceiveFrame, SistemaInv, Exchange
    <2>2. ThePage \in Mem!Page
      BY <2>1, Accessing
    <2> QED
      BY <1>1, <1>4, <2>1, <2>2, AddedElements DEF ReceiveFrame
  <1>5. CASE DispatchThread /\ ~TranslateByTlb /\ ~ReceiveFrame
    BY <1>5 DEF DispatchThread, ExecutePcb, GiveBackPcb, ExecuteSetOrAdd, ExecuteAndLeave,
       AskFrame, ReceivePageFault, ReceiveMovIn, ReceiveMovOut, newVars, mmuVars
  <1> QED
    BY <1>2, <1>3, <1>4, <1>5, SistemaSteps

LEMMA TlbPages ==
    ASSUME SistemaInv, NEW e \in Elements(tlb), e.page # NoPage
    PROVE  e.page \in Mem!PagesOf(e.page[1])
  <1>1. e \in TlbEntry
    BY ElementsType DEF SistemaInv, MmuType
  <1>2. PICK p \in Process : e.page \in Mem!PagesOf(p)
    BY <1>1 DEF TlbEntry, Mem!Page
  <1> QED
    BY <1>2, PageInTable

LEMMA TlbInitialisedNext ==
    ASSUME SistemaInv, TlbInitialised, SistemaNext
    PROVE  TlbInitialised'
  <1>1. DOMAIN clock_structures \subseteq DOMAIN clock_structures'
    BY ClocksNext
  <1>2. ASSUME NEW e \in Elements(tlb'), e.page # NoPage, e \notin Elements(tlb)
        PROVE  e.page[1] \in DOMAIN clock_structures
    <2>1. /\ e = TlbRow(ThePage, socket_memory.frame)
          /\ cpu # NoProcess /\ event = "none"
      BY <1>2, TlbNext
    <2> QED
      BY <2>1, Executing DEF TlbRow, ThePage, PageOf
  <1> QED
    BY <1>1, <1>2 DEF TlbInitialised

(* A completed access has been through the memory.                         *)
LEMMA CompletedAccess ==
    ASSUME SistemaInv, Completing, KindOf(cpu, Instr) = "MOV"
    PROVE  socket_memory.op \in {"MOV_IN_OK", "MOV_OUT_OK"}
  <1>1. cpu # NoProcess /\ event = "none"
    BY CompletingFacts
  <1>2. CASE ExecuteSetOrAdd
    <2>1. KindOf(cpu, Instr) = "COMPUTE"
      BY <1>1, <1>2, Executing, KindFacts DEF ExecuteSetOrAdd
    <2> QED
      BY <2>1
  <1>3. CASE ExecuteAndLeave
    BY <1>3, DeviceIsNoInstruction DEF ExecuteAndLeave
  <1> QED
    BY <1>2, <1>3 DEF Completing, ReceiveMovIn, ReceiveMovOut

LEMMA TlbRightNext ==
    ASSUME SistemaInv, SistemaNext, MP!Clean, FrameIsRight, FaultOfInstruction, TlbIsSafe,
           TlbInitialised, TlbRight, TlbAtPage
    PROVE  TlbRight'
  <1>0. tlb \in Seq(TlbEntry) /\ Len(tlb) = ENTRADAS_TLB
    BY DEF SistemaInv, MmuType
  <1>1. SUFFICES ASSUME NEW e \in Elements(tlb'), e.page # NoPage, e.page[1] \in structures'
                 PROVE  Agrees(e)' \/ Evicted(e)'
    BY DEF TlbRight
  <1>2. PICK p : p = e.page[1]
    OBVIOUS
  <1>3. PICK pg : pg = e.page
    OBVIOUS
  <1>4. CASE e \in Elements(tlb)
    <2>1. p \in structures /\ pg \in Mem!PagesOf(p) /\ p \in Process
      BY <1>1, <1>2, <1>3, <1>4, StructuresNext, TlbPages, MemoryOf DEF TlbInitialised
    <2>2. Agrees(e) \/ Evicted(e)
      BY <1>1, <1>2, <1>4, <2>1 DEF TlbRight
    <2>3. ENTRADAS_TLB # 0
      <3>1. DOMAIN tlb # {}
        BY <1>4 DEF Elements
      <3> QED
        BY <1>0, <3>1
    <2>4. CASE /\ row'[pg].presence = row[pg].presence
               /\ row'[pg].frame_number = row[pg].frame_number
      <3>1. CASE Agrees(e)
        BY <1>3, <2>4, <3>1 DEF Agrees
      <3>2. CASE Evicted(e)
        <4>1. ~(Completing /\ p = cpu)
          <5>1. SUFFICES ASSUME Completing, p = cpu PROVE FALSE
            OBVIOUS
          <5>2. cpu \in Process /\ InstrOf(cpu) = Instr /\ Needs(cpu) = ThePage
            BY <2>1, <5>1, OwnInstr
          <5>3. KindOf(cpu, Instr) = "MOV" /\ ENTRADAS_TLB = 1 /\ ThePage # pg
            BY <1>2, <1>3, <3>2, <5>1, <5>2 DEF Evicted, AtMov
          <5>4. socket_memory.op \in {"MOV_IN_OK", "MOV_OUT_OK"}
            BY <5>1, <5>3, CompletedAccess
          <5> QED
            BY <1>3, <1>4, <5>3, <5>4 DEF TlbAtPage
        <4>2. program_counter'[p] = program_counter[p]
          BY <2>1, <4>1, CounterNext
        <4> QED
          BY <1>2, <1>3, <3>2, <4>2, SameInstr DEF Evicted
      <3> QED
        BY <2>2, <3>1, <3>2
    <2>5. CASE /\ MemoryLoadPage /\ Faulted(p) /\ ~row[fault[p]].presence
               /\ pg = fault[p] \/ Cardinality(Mem!PagesOf(p)) > MARCOS_POR_PROCESO
      <3>1. AtMov(p) /\ fault[p] = Needs(p)
        BY <2>1, <2>5 DEF FaultOfInstruction
      <3>2. pg # fault[p]
        BY <1>2, <1>3, <2>2, <2>5, <3>1 DEF Agrees, Evicted
      <3>3. ENTRADAS_TLB = 1
        <4>1. ~(Cardinality(Mem!PagesOf(p)) <= MARCOS_POR_PROCESO)
          <5>1. Cardinality(Mem!PagesOf(p)) \in Nat /\ MARCOS_POR_PROCESO \in Nat
            BY <2>1, PagesFinite, FS_CardinalityType, MemoryAssumption
          <5> QED
            BY <2>5, <3>2, <5>1
        <4> QED
          BY <2>1, <2>3, <4>1, TlbAssumption DEF TlbIsSafe
      <3>4. UNCHANGED program_counter
        BY <2>5 DEF MemoryLoadPage, cpuVars
      <3>5. AtMov(p)' /\ Needs(p)' = Needs(p)
        BY <3>1, <3>4, SameInstr
      <3>6. Cardinality(Mem!PagesOf(p)) > MARCOS_POR_PROCESO
        BY <2>5, <3>2
      <3>7. Evicted(e)'
        BY <1>2, <1>3, <3>1, <3>2, <3>3, <3>5, <3>6 DEF Evicted
      <3> QED
        BY <3>7
    <2> QED
      BY <2>1, <2>4, <2>5, PageStays
  <1>5. CASE e \notin Elements(tlb)
    <2>1. /\ ReceiveFrame /\ e = TlbRow(ThePage, socket_memory.frame)
      BY <1>1, <1>5, TlbNext
    <2>2. row[ThePage].presence /\ row[ThePage].frame_number = socket_memory.frame
      BY <2>1 DEF ReceiveFrame, FrameIsRight
    <2>3. UNCHANGED row
      BY <2>1 DEF ReceiveFrame, storeVars
    <2> QED
      BY <2>1, <2>2, <2>3 DEF Agrees, TlbRow
  <1> QED
    BY <1>4, <1>5

(* The steps after which an exchange goes on, and what they leave.         *)
LEMMA GoesOn ==
    ASSUME SistemaInv, SistemaNext, socket_memory'.op # "none"
    PROVE  /\ UNCHANGED <<Instr, ThePage, registers, cpu, event, program_counter>>
           /\ cpu # NoProcess /\ event = "none"
           /\ \/ UNCHANGED <<socket_memory, tlb>> /\ (KernelStep \/ AttendKernel)
              \/ TranslateByTlb
              \/ AskFrame /\ socket_memory'.op = "FRAME_REQUEST"
              \/ ReceiveFrame
              \/ AttendCpu
  <1>0. alive /\ Exchange
    BY DEF SistemaInv, SistemaNext, Running
  <1>1. ASSUME UNCHANGED <<cpu, program_counter>> PROVE UNCHANGED <<Instr, ThePage>>
    BY <1>1 DEF Instr, ThePage, PageOf
  <1>2. CASE KernelStep
    BY <1>0, <1>1, <1>2 DEF KernelStep, newVars, mmuVars, Exchange
  <1>3. CASE AttendKernel
    BY <1>0, <1>1, <1>3, AttendKernelSteps DEF mmuVars, Exchange
  <1>4. CASE AttendCpu
    BY <1>0, <1>1, <1>4 DEF AttendCpu, AnswerFrameRequest, AnswerMovIn, AnswerMovOut,
       vars, peerVars, Exchange
  <1>5. CASE TranslateByTlb \/ AskFrame \/ ReceiveFrame
    BY <1>0, <1>1, <1>5 DEF TranslateByTlb, AskFrame, ReceiveFrame, Fetching, Exchange,
       vars, peerVars, Message
  <1>6. CASE Completing \/ ReceivePageFault \/ GiveBackPcb
    <2>1. socket_memory' = Silent
      BY <1>6, CompletingFacts DEF ReceivePageFault, GiveBackPcb, mmuVars
    <2> QED
      BY <2>1 DEF Silent
  <1>7. CASE ExecutePcb
    BY <1>0, <1>7 DEF ExecutePcb, CpuReceive, Exchange
  <1> QED
    BY <1>2, <1>3, <1>4, <1>5, <1>6, <1>7, SistemaSteps DEF DispatchThread, Completing

LEMMA TlbAtPageNext ==
    ASSUME SistemaInv, SistemaNext, TlbAtPage
    PROVE  TlbAtPage'
  <1>0. tlb \in Seq(TlbEntry) /\ Len(tlb) = ENTRADAS_TLB
    BY DEF SistemaInv, MmuType
  <1> DEFINE Ops == {"MOV_IN", "MOV_IN_OK", "MOV_OUT", "MOV_OUT_OK"}
  <1>1. SUFFICES ASSUME ENTRADAS_TLB = 1, socket_memory'.op \in Ops, NEW e \in Elements(tlb')
                 PROVE  e.page = ThePage'
    BY DEF TlbAtPage
  <1>2. socket_memory'.op # "none" /\ socket_memory'.op # "FRAME_REQUEST"
    BY <1>1
  <1>3. CASE UNCHANGED <<socket_memory, tlb>>
    BY <1>1, <1>2, <1>3, GoesOn DEF TlbAtPage
  <1>4. CASE TranslateByTlb
    <2>1. e \in Elements(tlb) /\ \A d \in Elements(tlb) : d.page = ThePage
      BY <1>0, <1>1, <1>4, ReferencedElements DEF TranslateByTlb
    <2> QED
      BY <1>2, <2>1, GoesOn
  <1>5. CASE ReceiveFrame
    <2>1. tlb' = add_to_tlb(tlb, ThePage, socket_memory.frame)
      BY <1>5 DEF ReceiveFrame
    <2>2. ThePage \in Mem!Page /\ socket_memory.frame \in Mem!Frame
      BY <1>5, Accessing DEF ReceiveFrame, SistemaInv, Exchange
    <2>3. e = TlbRow(ThePage, socket_memory.frame)
      BY <1>0, <1>1, <2>1, <2>2, AddedElements
    <2> QED
      BY <1>2, <2>3, GoesOn DEF TlbRow
  <1>6. CASE AttendCpu
    <2>1. UNCHANGED tlb /\ socket_memory.op \in Ops
      BY <1>1, <1>6 DEF AttendCpu, AnswerFrameRequest, AnswerMovIn, AnswerMovOut, Message
    <2> QED
      BY <1>1, <1>2, <2>1, GoesOn DEF TlbAtPage
  <1> QED
    BY <1>2, <1>3, <1>4, <1>5, <1>6, GoesOn

(* A TLB hit is the frame the page is in.                                  *)
LEMMA HitIsRight ==
    ASSUME SistemaInv, TlbRight, TranslateByTlb
    PROVE  row[ThePage].presence /\ row[ThePage].frame_number = present_in_tlb(tlb, ThePage)
  <1>1. /\ cpu \in Process /\ cpu \in structures /\ ThePage # NoPage /\ ThePage[1] = cpu
        /\ Needs(cpu) = ThePage
    BY Executing, OwnInstr DEF TranslateByTlb, Fetching, ThePage, PageOf, NoPage
  <1>2. tlb \in Seq(TlbEntry) /\ present_in_tlb(tlb, ThePage) # -1
    BY DEF SistemaInv, MmuType, TranslateByTlb
  <1>3. PICK e \in Elements(tlb) : e.page = ThePage /\ e.frame = present_in_tlb(tlb, ThePage)
    BY <1>2, ReferencedElements
  <1>4. Agrees(e)
    BY <1>1, <1>3 DEF TlbRight, Evicted
  <1> QED
    BY <1>3, <1>4 DEF Agrees

LEMMA FrameIsRightNext ==
    ASSUME SistemaInv, SistemaNext, MP!Clean, TlbRight, FrameIsRight
    PROVE  FrameIsRight'
  <1> DEFINE Ops == {"FRAME_RESPONSE", "MOV_IN", "MOV_OUT"}
  <1>1. SUFFICES ASSUME socket_memory'.op \in Ops
                 PROVE  /\ row'[ThePage].presence
                        /\ row'[ThePage].frame_number = socket_memory'.frame
    BY GoesOn DEF FrameIsRight
  <1>2. socket_memory'.op # "none" /\ socket_memory'.op # "FRAME_REQUEST"
    BY <1>1
  <1>3. cpu # NoProcess /\ event = "none"
    BY <1>2, GoesOn
  <1>4. CASE UNCHANGED <<socket_memory, tlb>> /\ (KernelStep \/ AttendKernel)
    <2>1. /\ row[ThePage].presence /\ row[ThePage].frame_number = socket_memory.frame
          /\ KindOf(cpu, Instr) = "MOV"
      BY <1>1, <1>4 DEF FrameIsRight, SistemaInv, Exchange
    <2>2. cpu \in structures /\ ThePage \in Mem!PagesOf(cpu) /\ ~Faulted(cpu)
      BY <1>3, <2>1, Accessing, Executing
    <2>3. PICK pg : pg = ThePage
      OBVIOUS
    <2>4. /\ row'[pg].presence = row[pg].presence
          /\ row'[pg].frame_number = row[pg].frame_number
      BY <2>2, <2>3, PageStays
    <2> QED
      BY <1>4, <2>1, <2>3, <2>4
  <1>5. CASE TranslateByTlb
    <2> DEFINE f == present_in_tlb(tlb, ThePage)
    <2>1. KindOf(cpu, Instr) = "MOV" /\ socket_memory' = Request(f) /\ UNCHANGED row
      BY <1>5 DEF TranslateByTlb, storeVars
    <2>2. row[ThePage].presence /\ row[ThePage].frame_number = f
      BY <1>5, HitIsRight
    <2> QED
      BY <2>1, <2>2 DEF Request, Message
  <1>6. CASE ReceiveFrame
    <2>1. row[ThePage].presence /\ row[ThePage].frame_number = socket_memory.frame
      BY <1>6 DEF ReceiveFrame, FrameIsRight
    <2> QED
      BY <1>6, <2>1 DEF ReceiveFrame, Request, Message, storeVars
  <1>7. CASE AttendCpu
    <2>1. AnswerFrameRequest
      BY <1>1, <1>7 DEF AttendCpu, AnswerMovIn, AnswerMovOut, Message
    <2> DEFINE f == Mem!get_frame_number_RAM(ThePage)
    <2>2. f # -1 /\ socket_memory'.frame = f /\ UNCHANGED row
      BY <1>1, <2>1 DEF AnswerFrameRequest, Message, storeVars
    <2> QED
      BY <2>2 DEF Mem!get_frame_number_RAM
  <1> QED
    BY <1>2, <1>4, <1>5, <1>6, <1>7, GoesOn

LEMMA AskedNext ==
    ASSUME SistemaInv, SistemaNext, Asked
    PROVE  Asked'
  <1>1. SUFFICES ASSUME socket_memory'.op # "none" PROVE Asked'
    BY DEF Asked
  <1>2. UNCHANGED <<Instr, registers, cpu>> /\ cpu # NoProcess
    BY <1>1, GoesOn
  <1>3. CASE UNCHANGED socket_memory
    BY <1>2, <1>3 DEF Asked
  <1>4. CASE TranslateByTlb \/ ReceiveFrame
    <2>1. PICK f : socket_memory' = Request(f)
      BY <1>4 DEF TranslateByTlb, ReceiveFrame
    <2>2. KindOf(cpu, Instr) = "MOV" /\ event = "none"
      BY <1>4 DEF TranslateByTlb, ReceiveFrame, Fetching, SistemaInv, Exchange
    <2>3. Instr.op \in {"MOV_IN", "MOV_OUT"}
      BY <1>2, <2>2, Accessing
    <2> QED
      BY <1>2, <2>1, <2>3 DEF Request, Message, Asked
  <1>5. CASE AskFrame
    BY <1>5 DEF AskFrame, Message, Asked
  <1>6. CASE AnswerFrameRequest
    BY <1>6 DEF AnswerFrameRequest, Message, Asked
  <1>7. CASE AnswerMovIn
    BY <1>2, <1>7 DEF AnswerMovIn, Message, Asked
  <1>8. CASE AnswerMovOut
    BY <1>2, <1>8 DEF AnswerMovOut, Message, Asked
  <1> QED
    BY <1>1, <1>3, <1>4, <1>5, <1>6, <1>7, <1>8, GoesOn DEF AttendCpu

(* Nobody takes the tables of the process that is executing.               *)
LEMMA CpuKeepsTables ==
    ASSUME SistemaInv, SistemaNext, cpu # NoProcess, event = "none"
    PROVE  cpu \in structures /\ cpu \in structures'
  <1>1. cpu \in structures /\ cpu \in Inside /\ alive
    BY Executing, AtInstruction DEF SistemaInv, SistemaNext, Running
  <1>2. CASE UNCHANGED structures
    BY <1>1, <1>2
  <1>3. CASE AttendKernel
    <2>1. UNCHANGED status \/ UNCHANGED vars
      BY <1>1, <1>3, AttendKernelSteps DEF MemoryInit, MemoryLoadPage, MemoryEnd, pcbVars
    <2>2. cpu \in Inside'
      BY <1>1, <2>1 DEF Inside, vars, kernelVars, pcbVars
    <2> QED
      BY <1>1, <2>2, SistemaKernel DEF Resident, Owed
  <1> QED
    BY <1>2, <1>3, SistemaSteps, DispatchLeavesMemory, MovInLeaves
       DEF KernelStep, AttendCpu, AnswerFrameRequest, AnswerMovIn, AnswerMovOut, vars, peerVars

LEMMA ContentIsStored ==
    ASSUME NEW p, NEW a
    PROVE  ContentAt(p, a) = MP!Stored(PageOf(p, a))[OffsetOf(a)]
  BY DEF ContentAt, MP!Stored

LEMMA ReadsNext ==
    ASSUME SistemaInv, SistemaNext, MP!Clean, FrameIsRight, ReadsItsAddress
    PROVE  ReadsItsAddress'
  <1>1. SUFFICES ASSUME socket_memory'.op = "MOV_IN_OK" PROVE ReadsItsAddress'
    BY DEF ReadsItsAddress
  <1>2. UNCHANGED <<Instr, ThePage, cpu>> /\ cpu # NoProcess /\ event = "none"
    BY <1>1, GoesOn
  <1>3. PICK p : p = cpu
    OBVIOUS
  <1>4. PICK a : a = Instr.address
    OBVIOUS
  <1>5. PICK pg : pg = PageOf(p, a) /\ pg = ThePage
    BY <1>3, <1>4 DEF ThePage
  <1>6. CASE UNCHANGED socket_memory /\ (KernelStep \/ AttendKernel)
    <2>1. cpu \in structures /\ cpu \in structures'
      BY <1>2, CpuKeepsTables
    <2>2. ThePage \in Mem!PagesOf(cpu)
      BY <1>1, <1>2, <1>6, Accessing DEF SistemaInv, Exchange
    <2>3. pg \in MP!Live /\ pg \in MP!Live'
      <3>1. pg \in MP!PagesOf(p) /\ p \in structures /\ p \in structures'
        BY <1>3, <1>5, <2>1, <2>2, SamePages
      <3> QED
        BY <3>1 DEF MP!Live, MP!PagesOf, MP!Page_table, MP!calculate_frames_of_segment
    <2>4. ~AnswerMovOut
      BY <1>1, <1>6 DEF AnswerMovOut
    <2>5. MP!Stored(pg)' = MP!Stored(pg)
      BY <2>3, <2>4, StoresNext
    <2>6. ContentAt(p, a)' = ContentAt(p, a)
      BY <1>5, <2>5 DEF ContentAt, MP!Stored, PageOf, OffsetOf
    <2> QED
      BY <1>1, <1>2, <1>3, <1>4, <1>6, <2>6 DEF ReadsItsAddress
  <1>7. CASE AnswerMovIn
    <2>1. row[pg].presence /\ row[pg].frame_number = socket_memory.frame
      BY <1>5, <1>7 DEF AnswerMovIn, FrameIsRight
    <2>2. pg \in Mem!Page
      BY <1>5, <1>7, Accessing DEF AnswerMovIn, SistemaInv, Exchange
    <2>3. row'[pg].presence = row[pg].presence /\ row'[pg].frame_number = row[pg].frame_number
      BY <1>7, <2>2, MovInLeaves
    <2>4. UNCHANGED principal_memory
      BY <1>7 DEF AnswerMovIn, Mem!mov_in
    <2>5. socket_memory'.value = principal_memory[socket_memory.frame][OffsetOf(a)]
      BY <1>4, <1>7 DEF AnswerMovIn, Message, Mem!read_value_in_principal_memory
    <2>6. ContentAt(p, a)' = principal_memory[socket_memory.frame][OffsetOf(a)]
      BY <1>5, <2>1, <2>3, <2>4 DEF ContentAt, PageOf, OffsetOf
    <2> QED
      BY <1>2, <1>3, <1>4, <2>5, <2>6 DEF ReadsItsAddress
  <1>8. ~TranslateByTlb /\ ~ReceiveFrame /\ ~AnswerFrameRequest /\ ~AnswerMovOut
    <2>1. ~AnswerFrameRequest /\ ~AnswerMovOut
      BY <1>1 DEF AnswerFrameRequest, AnswerMovOut, Message
    <2>2. ASSUME TranslateByTlb \/ ReceiveFrame PROVE FALSE
      <3>1. KindOf(cpu, Instr) = "MOV"
        BY <2>2 DEF TranslateByTlb, ReceiveFrame, SistemaInv, Exchange
      <3>2. Instr.op \in {"MOV_IN", "MOV_OUT"}
        BY <1>2, <3>1, Accessing
      <3> QED
        BY <1>1, <2>2, <3>2 DEF TranslateByTlb, ReceiveFrame, Request, Message
    <2> QED
      BY <2>1, <2>2
  <1> QED
    BY <1>1, <1>6, <1>7, <1>8, GoesOn DEF AttendCpu

-----------------------------------------------------------------------------
(* All of it.                                                              *)

PagingInv ==
    /\ SistemaInv
    /\ MP!Clean
    /\ FaultOfInstruction
    /\ Asked /\ FrameIsRight /\ ReadsItsAddress
    /\ TlbInitialised /\ TlbRight /\ TlbAtPage

LEMMA PagingNext == TlbIsSafe /\ PagingInv /\ [SistemaNext]_sistemaVars => PagingInv'
  <1>1. SUFFICES ASSUME TlbIsSafe, PagingInv, [SistemaNext]_sistemaVars PROVE PagingInv'
    OBVIOUS
  <1>2. SistemaInv'
    BY <1>1, SistemaInvNext DEF PagingInv
  <1>3. CASE SistemaNext
    <2>1. MP!Clean'
      BY <1>1, <1>3, StoresNext DEF PagingInv
    <2>2. FaultOfInstruction' /\ Asked' /\ FrameIsRight' /\ ReadsItsAddress'
      BY <1>1, <1>3, FaultOfInstructionNext, AskedNext, FrameIsRightNext, ReadsNext DEF PagingInv
    <2>3. TlbInitialised' /\ TlbRight' /\ TlbAtPage'
      BY <1>1, <1>3, TlbInitialisedNext, TlbRightNext, TlbAtPageNext DEF PagingInv
    <2> QED
      BY <1>2, <2>1, <2>2, <2>3 DEF PagingInv
  <1>4. CASE UNCHANGED sistemaVars
    <2>1. UNCHANGED <<vars, row, clock_structures, principal_memory, swap, registers, tlb,
                      socket_memory, fault>>
      BY <1>4 DEF sistemaVars, newVars, storeVars, mmuVars, pcbRegisters
    <2>2. UNCHANGED <<cpu, event, program_counter, fromCpu, dispatch, resolving, toMemory,
                      structures>>
      BY <2>1 DEF vars, kernelVars, peerVars, cpuConnection, memoryConnection, faultVars
    <2>3. MP!Clean'
      BY <1>1, <2>1, <2>2, StoresSame DEF PagingInv
    <2>4. \A p \in Process : /\ Faulted(p)' <=> Faulted(p)
                             /\ AtMov(p)' <=> AtMov(p)
                             /\ Needs(p)' = Needs(p)
      BY <2>1, <2>2, SameInstr DEF Faulted
    <2>5. FaultOfInstruction'
      BY <1>1, <2>1, <2>4 DEF PagingInv, FaultOfInstruction
    <2>6. Instr' = Instr /\ ThePage' = ThePage
      BY <2>2 DEF Instr, ThePage, PageOf
    <2>7. Asked' /\ FrameIsRight'
      BY <1>1, <2>1, <2>6 DEF PagingInv, Asked, FrameIsRight
    <2>8. ReadsItsAddress'
      BY <1>1, <2>1, <2>2, <2>6 DEF PagingInv, ReadsItsAddress, ContentAt, PageOf, OffsetOf
    <2>9. TlbInitialised' /\ TlbAtPage'
      BY <1>1, <2>1, <2>6 DEF PagingInv, TlbInitialised, TlbAtPage
    <2>10. TlbRight'
      <3>1. \A e : (Agrees(e)' <=> Agrees(e)) /\ (Evicted(e)' <=> Evicted(e))
        BY <2>1, <2>2 DEF Agrees, Evicted, AtMov, Needs, InstrOf, KindOf, PageOf
      <3> QED
        BY <1>1, <2>1, <2>2, <3>1 DEF PagingInv, TlbRight
    <2> QED
      BY <1>2, <2>3, <2>5, <2>7, <2>8, <2>9, <2>10 DEF PagingInv
  <1> QED
    BY <1>1, <1>3, <1>4

LEMMA PagingInit == SistemaInit => PagingInv
  <1>1. SUFFICES ASSUME SistemaInit PROVE PagingInv
    OBVIOUS
  <1>2. SistemaInv
    BY <1>1, SistemaInvInit
  <1>3. /\ structures = {} /\ cpu = NoProcess /\ socket_memory = Silent /\ tlb = init_tlb
        /\ fromCpu = <<>> /\ toMemory = <<>> /\ dispatch = Idle /\ resolving = {}
    BY <1>1 DEF SistemaInit, Init, KernelInit
  <1>4. MP!Clean
    BY <1>3 DEF MP!Clean, MP!Present, MP!Live
  <1>5. FaultOfInstruction
    <2>1. \A p \in Process : ~Faulted(p)
      BY <1>3, NoProcessAssumption DEF Faulted, Elements, Idle
    <2> QED
      BY <2>1 DEF FaultOfInstruction
  <1>6. Asked /\ FrameIsRight /\ ReadsItsAddress /\ TlbAtPage
    BY <1>3 DEF Asked, FrameIsRight, ReadsItsAddress, TlbAtPage, Silent
  <1>7. \A e \in Elements(tlb) : e.page = NoPage
    BY <1>3 DEF init_tlb, Elements, TlbRow
  <1>8. TlbInitialised /\ TlbRight
    BY <1>7 DEF TlbInitialised, TlbRight
  <1> QED
    BY <1>2, <1>4, <1>5, <1>6, <1>8 DEF PagingInv

LEMMA PagingHolds == ASSUME TlbIsSafe PROVE SistemaSpec => []PagingInv
  BY PagingInit, PagingNext, PTL DEF SistemaSpec

(* What MOV_IN brings is what its address holds.                           *)
THEOREM ReadsRight ==
    ASSUME TlbIsSafe
    PROVE  SistemaSpec => []ReadsItsAddress
  <1>1. PagingInv => ReadsItsAddress
    BY DEF PagingInv
  <1> QED
    BY <1>1, PagingHolds, PTL

(* When every process has frames for all its pages, the TLB and the page   *)
(* tables always say the same.                                             *)
THEOREM TlbIsRight ==
    ASSUME \A p \in Process : Cardinality(Mem!PagesOf(p)) <= MARCOS_POR_PROCESO
    PROVE  SistemaSpec => []TlbAgrees
  <1>1. TlbIsSafe
    BY DEF TlbIsSafe
  <1>2. PagingInv => TlbAgrees
    <2>1. SUFFICES ASSUME PagingInv, NEW i \in DOMAIN tlb, tlb[i].page # NoPage,
                          tlb[i].page[1] \in structures
                   PROVE  Agrees(tlb[i])
      BY DEF TlbAgrees, Agrees
    <2>2. tlb[i] \in Elements(tlb) /\ tlb[i].page[1] \in Process
      BY <2>1, MemoryOf DEF Elements, PagingInv
    <2>3. ~(Cardinality(Mem!PagesOf(tlb[i].page[1])) > MARCOS_POR_PROCESO)
      <3> DEFINE n == Cardinality(Mem!PagesOf(tlb[i].page[1]))
      <3>1. n \in Nat /\ n <= MARCOS_POR_PROCESO /\ MARCOS_POR_PROCESO \in Nat
        BY <2>2, PagesFinite, FS_CardinalityType, MemoryAssumption
      <3> HIDE DEF n
      <3>2. ~(n > MARCOS_POR_PROCESO)
        BY <3>1
      <3> QED
        BY <3>2 DEF n
    <2> QED
      BY <2>1, <2>2, <2>3 DEF PagingInv, TlbRight, Evicted
  <1> QED
    BY <1>1, <1>2, PagingHolds, PTL

-----------------------------------------------------------------------------
(* The memory never lacks a frame or a page of the swap.                   *)

(* The kernel's accounts of the processes that own frames: loaded.         *)
FramesLoaded == \A pg \in MP!Present : pg[1] \in loaded

SurvivesInv ==
    /\ PagingInv
    /\ GradeAccounted /\ MemoryInv
    /\ FramesLoaded
    /\ memory_alive

LEMMA Least ==
    ASSUME NEW T \in SUBSET Nat, T # {}
    PROVE  \E m \in T : \A n \in T : m <= n
  <1> DEFINE R == OpToRel(<, Nat)
  <1>1. \A a, b \in Nat : <<a, b>> \in R <=> a < b
    BY Zenon DEF OpToRel
  <1>2. IsWellFoundedOn(R, Nat)
    BY NatLessThanWellFounded, Zenon
  <1> HIDE DEF R
  <1>3. PICK m \in T : \A n \in T : ~(<<n, m>> \in R)
    BY <1>2, WFMin, Zenon
  <1>4. \A n \in T : ~(n < m) /\ n \in Nat /\ m \in Nat
    BY <1>1, <1>3
  <1> QED
    BY <1>4

(* find_page_free finds a bit among the first n when they are not all set. *)
LEMMA FindsPage ==
    ASSUME NEW bitmap, IsFiniteSet(bitmap), NEW n \in Nat, Cardinality(bitmap) < n,
           n <= SwapPages
    PROVE  \E i \in 0 .. n - 1 : MP!find_page_free(bitmap, i)
  <1> DEFINE T == (0 .. n - 1) \ bitmap
  <1>1. SwapPages \in Nat
    BY MemoryAssumption
  <1>2. T # {}
    <2>1. SUFFICES ASSUME 0 .. n - 1 \subseteq bitmap PROVE FALSE
      OBVIOUS
    <2>2. Cardinality(0 .. n - 1) = n
      BY FS_Interval
    <2>3. Cardinality(0 .. n - 1) <= Cardinality(bitmap) /\ Cardinality(bitmap) \in Nat
      BY <2>1, FS_Subset, FS_CardinalityType
    <2> QED
      BY <2>2, <2>3
  <1>3. T \in SUBSET Nat
    OBVIOUS
  <1>4. PICK m \in T : \A k \in T : m <= k
    BY <1>2, <1>3, Least
  <1>5. MP!find_page_free(bitmap, m)
    <2>1. m \in MP!Position \ bitmap
      BY <1>1, <1>4 DEF MP!Position
    <2>2. ASSUME NEW j \in MP!Position, j < m, j \notin bitmap PROVE FALSE
      <3>1. j \in T
        BY <1>1, <1>4, <2>2 DEF MP!Position
      <3>2. m <= j /\ m \in Int /\ j \in Int
        BY <1>4, <3>1
      <3> QED
        BY <2>2, <3>2
    <2> QED
      BY <2>1, <2>2 DEF MP!find_page_free
  <1> QED
    BY <1>4, <1>5

(* The request the memory is about to serve.                               *)
LEMMA FirstRequest ==
    ASSUME SistemaInv, MemoryInv, toMemory # <<>>
    PROVE  /\ Head(toMemory).op = InitRequest => Cardinality(structures) <= Grado
           /\ Head(toMemory).op = PageFault
                => Cardinality(loaded \cup {Head(toMemory).pcb}) <= Grado
  <1>1. toMemory \in Seq(MemoryRequest)
    BY Processes DEF SistemaInv, KernelInv
  <1>2. 1 \in DOMAIN toMemory /\ toMemory[1] = Head(toMemory)
    BY <1>1
  <1>3. EndedBefore(1) = {}
    <2>1. \A j \in DOMAIN toMemory : ~(j < 1)
      BY <1>1
    <2> QED
      BY <2>1 DEF EndedBefore
  <1> QED
    BY <1>2, <1>3 DEF MemoryInv, RoomForStructures, RoomForFrames

LEMMA LiveFinite ==
    ASSUME NEW S \in SUBSET Process
    PROVE  IsFiniteSet(UNION {Mem!PagesOf(p) : p \in S})
  <1> DEFINE T == {Mem!PagesOf(p) : p \in S}
             f == [p \in S |-> Mem!PagesOf(p)]
  <1>1. IsFiniteSet(S)
    BY ProcessAssumption, FS_Subset
  <1>2. f \in Surjection(S, T)
    BY Zenon DEF Surjection
  <1>3. \A t \in T : IsFiniteSet(t)
    BY PagesFinite
  <1> HIDE DEF T, f
  <1>4. IsFiniteSet(T)
    BY <1>1, <1>2, FS_Surjection
  <1>5. IsFiniteSet(UNION T)
    BY <1>3, <1>4, FS_UNION
  <1> QED
    BY <1>5 DEF T

LEMMA SameCardinality == \A S : Mem!Cardinality(S) = Cardinality(S)
  BY Zenon DEF Mem!Cardinality, Cardinality

(* The swap has a page for each page of one process more.                  *)
LEMMA SwapSuffices ==
    ASSUME SistemaInv, EnoughSwap, NEW p \in Process \ structures,
           Cardinality(structures) <= Grado
    PROVE  ~Mem!SwapFull(p)
  <1>1. /\ MP!IInv /\ structures \in SUBSET Process /\ SwapPages \in Nat /\ Grado \in Nat
        /\ TypeOK
    BY MemoryOf, MemoryAssumption, GradoAssumption DEF SistemaInv, KernelInv
  <1> DEFINE L == UNION {Mem!PagesOf(q) : q \in structures}
             P == Mem!PagesOf(p)
             A == UNION {Mem!PagesOf(q) : q \in structures \cup {p}}
             f == [pg \in L |-> row[pg].swap_position]
             B == bitmap_swap
  <1>2. Cardinality(structures \cup {p}) <= Grado + 1
    <2>1. /\ Cardinality(structures \cup {p}) <= Cardinality(structures) + 1
          /\ Cardinality(structures \cup {p}) \in Nat /\ Cardinality(structures) \in Nat
      BY <1>1, Processes
    <2> QED
      BY <1>1, <2>1
  <1>3. Cardinality(A) <= SwapPages
    <2>1. structures \cup {p} \in SUBSET Process
      BY <1>1
    <2> QED
      BY <1>2, <2>1 DEF EnoughSwap
  <1>4. A = L \cup P
    OBVIOUS
  <1>5. L \cap P = {}
    <2>1. \A q \in structures : Mem!PagesOf(q) \cap P = {}
      BY <1>1, MP!PagesApart, MemoriaAssumptions, SamePages
    <2> QED
      BY <2>1
  <1>6. IsFiniteSet(L) /\ IsFiniteSet(P)
    BY <1>1, LiveFinite, PagesFinite
  <1>7. B = {row[pg].swap_position : pg \in L} /\ B \subseteq 0 .. SwapPages - 1
    <2>1. MP!Live = L
      BY SamePages DEF MP!Live
    <2> QED
      BY <1>1, <2>1 DEF MP!IInv, MP!SwapHasOneOwner, MP!TypeOK, MP!Position
  <1>8. f \in Surjection(L, B)
    BY <1>7, Zenon DEF Surjection
  <1> DEFINE l == Cardinality(L)
             n == Cardinality(P)
             b == Cardinality(B)
  <1> HIDE DEF L, P, A, B, f
  <1>9. IsFiniteSet(B) /\ b <= l
    BY <1>6, <1>8, FS_Surjection
  <1>10. l \in Nat /\ n \in Nat /\ b \in Nat
    BY <1>6, <1>9, FS_CardinalityType
  <1>11. l + n <= SwapPages
    <2>1. Cardinality(L \cup P) = Cardinality(L) + Cardinality(P) - Cardinality(L \cap P)
      BY <1>6, FS_Union
    <2>2. Cardinality(L \cap P) = 0
      BY <1>5, FS_EmptySet
    <2> QED
      BY <1>3, <1>4, <1>10, <2>1, <2>2
  <1>12. Cardinality((0 .. SwapPages - 1) \ B) = SwapPages - b
    <2>1. IsFiniteSet(0 .. SwapPages - 1) /\ Cardinality(0 .. SwapPages - 1) = SwapPages
      BY <1>1, FS_Interval
    <2>2. (0 .. SwapPages - 1) \cap B = B
      BY <1>7
    <2> QED
      BY <2>1, <2>2, FS_Difference
  <1> HIDE DEF l, n, b
  <1>13. ~(n > SwapPages - b)
    BY <1>1, <1>9, <1>10, <1>11
  <1>14. ~(n > Cardinality((0 .. SwapPages - 1) \ B))
    BY <1>12, <1>13
  <1>15. ~(Cardinality(Mem!PagesOf(p)) > Cardinality(Mem!Position \ bitmap_swap))
    BY <1>14 DEF Mem!Position, n, P, B
  <1> QED
    BY <1>15, SameCardinality DEF Mem!SwapFull

(* No more than Grado processes own frames, the one whose page is asked    *)
(* for among them, and it has less than its share.                         *)
LEMMA FramesSuffice ==
    ASSUME SistemaInv, FramesLoaded, EnoughFrames, NEW p \in structures,
           Cardinality(loaded \cup {p}) <= Grado, NEW pg \in MP!PagesOf(p)
    PROVE  ~MP!LoadNowhere(pg)
  <1> DEFINE M == MARCOS_POR_PROCESO
             L == loaded \cup {p}
             C == 1 .. M
             X == (L \X C) \ {<<p, M>>}
             S == MP!Present
             IndexOf(q) == CHOOSE i \in DOMAIN MP!FramesOf(q[1]) : MP!FramesOf(q[1])[i].page = q
             g == [q \in S |-> <<q[1], IndexOf(q)>>]
             h == [q \in S |-> row[q].frame_number]
             B == bitmap_memory
  <1>1. /\ MP!IInv /\ structures \subseteq Process /\ p \in Process /\ M \in Nat \ {0}
        /\ Grado \in Nat /\ Frames \in Nat /\ SwapPages \in Nat /\ L \in SUBSET Process
    BY MemoryOf, MemoryAssumption, GradoAssumption
       DEF SistemaInv, KernelInv, TypeOK, MemoryType
  <1>2. SUFFICES ASSUME Len(MP!FramesOf(p)) # M,
                        \A f \in MP!Frame : ~MP!find_page_free(B, f)
                 PROVE  FALSE
    <2>1. MP!Owner(pg) = p
      BY <1>1, MP!PageFacts, MemoriaAssumptions
    <2> QED
      BY <2>1 DEF MP!LoadNowhere, MP!Owner
  <1>3. ASSUME NEW q \in S
        PROVE  /\ q[1] \in L
               /\ IndexOf(q) \in DOMAIN MP!FramesOf(q[1])
               /\ MP!FramesOf(q[1])[IndexOf(q)].page = q
               /\ IndexOf(q) \in C /\ (q[1] = p => IndexOf(q) # M)
    <2>1. q \in MP!Live /\ row[q].presence
      BY DEF MP!Present
    <2>2. q[1] \in structures /\ q \in MP!PagesOf(q[1])
      BY <2>1, LivePages, SamePages
    <2>3. MP!ClockMatches(q[1])
      BY <1>1, <2>2 DEF MP!IInv, MP!ClockMatchesTables
    <2>4. \E i \in DOMAIN MP!FramesOf(q[1]) : MP!FramesOf(q[1])[i].page = q
      BY <2>1, <2>2, <2>3 DEF MP!ClockMatches
    <2>5. IndexOf(q) \in DOMAIN MP!FramesOf(q[1]) /\ MP!FramesOf(q[1])[IndexOf(q)].page = q
      BY <2>4
    <2> HIDE DEF IndexOf
    <2>6. MP!FramesOf(q[1]) \in Seq(MP!ClockRow)
      BY <1>1, <2>2 DEF MP!IInv, MP!TypeOK, MP!FramesOf, MP!Clock
    <2>7. DOMAIN MP!FramesOf(q[1]) = 1 .. Len(MP!FramesOf(q[1])) /\ Len(MP!FramesOf(q[1])) \in Nat
      BY <2>6
    <2>8. Len(MP!FramesOf(q[1])) <= M
      BY <2>3 DEF MP!ClockMatches
    <2>9. IndexOf(q) \in C /\ (q[1] = p => IndexOf(q) # M)
      BY <1>1, <1>2, <2>5, <2>7, <2>8
    <2> QED
      BY <2>1, <2>5, <2>9 DEF FramesLoaded
  <1> HIDE DEF IndexOf
  <1>4. g \in Injection(S, X)
    <2>1. g \in [S -> X]
      <3>1. \A q \in S : <<q[1], IndexOf(q)>> \in X
        BY <1>3
      <3> HIDE DEF X
      <3> QED
        BY <3>1
    <2>2. \A q, r \in S : g[q] = g[r] => q = r
      BY <1>3
    <2> QED
      BY <2>1, <2>2, Zenon DEF Injection, IsInjective
  <1>5. h \in Surjection(S, B)
    <2>1. B = {row[q].frame_number : q \in S}
      BY <1>1 DEF MP!IInv, MP!FrameHasOneOwner
    <2> QED
      BY <2>1, Zenon DEF Surjection
  <1> DEFINE l == Cardinality(L)
             n == Grado * M
  <1>6. IsFiniteSet(X) /\ Cardinality(X) = l * M - 1 /\ l \in Nat
    <2>1. IsFiniteSet(L) /\ IsFiniteSet(C) /\ Cardinality(C) = M
      BY <1>1, ProcessAssumption, FS_Subset, FS_Interval
    <2>2. /\ IsFiniteSet(L \X C) /\ Cardinality(L \X C) = Cardinality(L) * Cardinality(C)
          /\ Cardinality(L) \in Nat
      BY <2>1, FS_Product, FS_CardinalityType
    <2>3. <<p, M>> \in L \X C
      BY <1>1
    <2>4. IsFiniteSet(X) /\ Cardinality(X) = Cardinality(L \X C) - 1
      BY <2>2, <2>3, FS_RemoveElement
    <2> QED
      BY <2>1, <2>2, <2>4
  <1> HIDE DEF L, C, X, S, g, h
  <1>7. /\ IsFiniteSet(S) /\ Cardinality(S) <= l * M - 1
    BY <1>4, <1>6, FS_Injection
  <1>8. IsFiniteSet(B) /\ Cardinality(B) <= Cardinality(S)
    BY <1>5, <1>7, FS_Surjection
  <1>9. Cardinality(B) < n /\ n \in Nat
    <2>1. l <= Grado
      BY DEF L
    <2>2. PICK d \in Nat : Grado = l + d
      <3>1. Grado - l \in Nat /\ Grado = l + (Grado - l)
        BY <1>1, <1>6, <2>1
      <3> QED
        BY <3>1
    <2> HIDE DEF l, n
    <2>3. Grado * M = l * M + d * M /\ d * M \in Nat /\ l * M \in Nat
      BY <1>1, <1>6, <2>2
    <2>4. Cardinality(B) \in Nat /\ Cardinality(S) \in Nat
      BY <1>7, <1>8, FS_CardinalityType
    <2>5. n = l * M + d * M
      BY <2>3 DEF n
    <2> QED
      BY <1>7, <1>8, <2>3, <2>4, <2>5
  <1>10. n <= Frames /\ n <= SwapPages
    BY DEF EnoughFrames, n
  <1> HIDE DEF n, B
  <1>11. PICK i \in 0 .. n - 1 : MP!find_page_free(B, i)
    BY <1>8, <1>9, <1>10, FindsPage
  <1>12. i \in MP!Frame
    BY <1>1, <1>9, <1>10, <1>11 DEF MP!Frame
  <1> QED
    BY <1>2, <1>11, <1>12

(* The accounts of the kernel: a process loses its frames with its tables. *)
LEMMA LoadedNext ==
    ASSUME SistemaInv, SistemaNext
    PROVE  \A p \in loaded : p \in loaded' \/ p \notin structures'
  <1>1. Next \/ CpuOnly
    BY KernelOrCpu
  <1>2. CASE MemoryInit \/ MemoryLoadPage \/ MemoryEnd
    BY <1>2 DEF MemoryInit, MemoryLoadPage, MemoryEnd
  <1>3. CASE Next /\ ~Memory
    <2>1. UNCHANGED loaded
      BY <1>3 DEF Next, ConsoleThread, PageFaultThread, Console, ConsoleStart, ConsoleAnswer,
         ConsoleEnd, DeviceThread, Scheduler, Dispatch, Clock, Interrupt, ManageMemory,
         Cpu, CpuReceive, CpuExecute, CpuReturn, CpuInterrupt, peerVars, memVars
    <2> QED
      BY <2>1
  <1>4. CASE CpuOnly
    BY <1>4, CpuOnlyLeaves
  <1> QED
    BY <1>1, <1>2, <1>3, <1>4 DEF Memory

LEMMA FramesLoadedNext ==
    ASSUME PagingInv, SistemaNext, FramesLoaded
    PROVE  FramesLoaded'
  <1>0. SistemaInv /\ MP!Clean /\ FrameIsRight /\ alive
    BY DEF PagingInv, SistemaNext, Running
  <1>1. SUFFICES ASSUME NEW pg \in MP!Present' PROVE pg[1] \in loaded'
    BY DEF FramesLoaded
  <1>2. PICK p \in structures' : pg \in Mem!PagesOf(p)
    <2>1. pg \in MP!Live'
      BY DEF MP!Present
    <2>2. \E p \in structures' : pg \in MP!PagesOf(p)
      BY <2>1 DEF MP!Live, MP!PagesOf, MP!Page_table, MP!calculate_frames_of_segment
    <2> QED
      BY <2>2, SamePages
  <1>3. pg[1] = p /\ row'[pg].presence
    BY <1>2, PageInTable DEF MP!Present
  <1>4. CASE p \in structures
    <2>1. CASE row'[pg].presence = row[pg].presence
      <3>1. pg \in MP!Present
        BY <1>2, <1>3, <1>4, <2>1, SamePages DEF MP!Present, MP!Live
      <3> QED
        BY <1>0, <1>3, <3>1, LoadedNext DEF FramesLoaded
    <2>2. CASE MemoryLoadPage /\ p = Head(toMemory).pcb
      BY <1>3, <2>2 DEF MemoryLoadPage
    <2> QED
      BY <1>0, <1>2, <1>4, <2>1, <2>2, PageStays
  <1>5. CASE p \notin structures
    <2>1. AttendKernel
      BY <1>0, <1>2, <1>5, SistemaSteps, DispatchLeavesMemory, MovInLeaves, MovOutWrites
         DEF KernelStep, AttendCpu, AnswerFrameRequest, vars, peerVars
    <2>2. PICK q : q = Head(toMemory).pcb
      OBVIOUS
    <2>3. MemoryInit /\ Mem!BuildTables(q)
      BY <1>0, <1>2, <1>5, <2>1, <2>2, AttendKernelSteps
         DEF Mem!SwapFull, Mem!MemoryDies, MemoryLoadPage, MemoryEnd
    <2>4. q \in Process \ DOMAIN clock_structures /\ MP!BuildTables(q) /\ MP!IInv
      BY <1>0, <2>1, <2>2, <2>3, AttendKernelSteps, RequestFacts, SameTables, MemoryOf
         DEF MemoryInit, InitRequest
    <2>5. p = q
      BY <1>2, <1>5, <2>2, <2>3 DEF MemoryInit
    <2>6. ~row'[pg].presence
      BY <1>0, <1>2, <2>4, <2>5, MP!BuildTablesStores, MemoriaAssumptions, SamePages
    <2> QED
      BY <1>3, <2>6
  <1> QED
    BY <1>4, <1>5

LEMMA MemoryStaysAlive ==
    ASSUME PagingInv, MemoryInv, FramesLoaded, EnoughFrames, EnoughSwap, SistemaNext
    PROVE  memory_alive'
  <1>0. SistemaInv /\ MP!Clean /\ FrameIsRight /\ alive /\ memory_alive
    BY DEF PagingInv, SistemaNext, Running
  <1>1. CASE KernelStep \/ DispatchThread \/ AttendCpu
    BY <1>0, <1>1, DispatchLeavesMemory, MovInLeaves, MovOutWrites
       DEF KernelStep, newVars, storeVars, AttendCpu, AnswerFrameRequest
  <1>2. CASE AttendKernel
    <2>1. PICK p : p = Head(toMemory).pcb
      OBVIOUS
    <2>2. toMemory # <<>> /\ p \in Process /\ MP!IInv
      BY <1>0, <1>2, <2>1, AttendKernelSteps, RequestFacts, MemoryOf
    <2>3. CASE MemoryInit /\ Mem!BuildTables(p)
      BY <1>0, <2>3 DEF Mem!BuildTables
    <2>4. CASE Head(toMemory).op = InitRequest /\ Mem!SwapFull(p)
      <3>1. p \notin structures
        BY <1>0, <2>1, <2>2, <2>4, RequestFacts, MemoryOf
      <3> QED
        BY <1>0, <2>2, <2>4, <3>1, FirstRequest, SwapSuffices
    <2>5. CASE MemoryLoadPage /\ Mem!request_page_fault(fault[p])
      <3>1. PICK pg : pg = fault[p]
        OBVIOUS
      <3>2. /\ p \in structures /\ pg \in MP!PagesOf(p) /\ ~row[pg].presence
            /\ MP!request_page_fault(pg) /\ Head(toMemory).op = PageFault
        BY <1>0, <2>1, <2>2, <2>5, <3>1, RequestFacts, SameFaults, SamePages
           DEF MemoryLoadPage, PageFault
      <3>3. ~MP!LoadNowhere(pg)
        BY <1>0, <2>1, <2>2, <3>2, FirstRequest, FramesSuffice
      <3> QED
        BY <1>0, <2>2, <3>2, <3>3, MP!FaultStores, MemoriaAssumptions
    <2>6. CASE Mem!delete_process(p)
      BY <1>0, <2>6 DEF Mem!delete_process
    <2> QED
      BY <1>0, <1>2, <2>1, <2>3, <2>4, <2>5, <2>6, AttendKernelSteps
  <1> QED
    BY <1>1, <1>2, SistemaSteps

(* What the CPU does on its own is no concern of the kernel's accounts.    *)
LEMMA AccountsSame ==
    ASSUME GradeAccounted, MemoryInv, CpuOnly \/ UNCHANGED vars
    PROVE  GradeAccounted' /\ MemoryInv'
  <1>1. UNCHANGED <<status, thread, sem, list, dispatch, resolving, m_resolve_page_fault,
                    toMemory, fromMemory, structures, loaded>>
    BY DEF CpuOnly, vars, kernelVars, peerVars, memVars, pcbVars, faultVars, memoryConnection
  <1> QED
    BY <1>1 DEF GradeAccounted, MemoryInv, MemoryBounded, FramesDue, Held, OneFault,
       RoomForStructures, RoomForFrames, Ending, EndedBefore, Inside, Leaving, Entering,
       InitThreads

LEMMA SurvivesNext ==
    TlbIsSafe /\ EnoughFrames /\ EnoughSwap /\ SurvivesInv /\ [SistemaNext]_sistemaVars
      => SurvivesInv'
  <1>1. SUFFICES ASSUME TlbIsSafe, EnoughFrames, EnoughSwap, SurvivesInv,
                        [SistemaNext]_sistemaVars
                 PROVE  SurvivesInv'
    OBVIOUS
  <1>2. PagingInv' /\ SistemaInv /\ KernelInv /\ KernelInv'
    BY <1>1, PagingNext DEF SurvivesInv, PagingInv, SistemaInv
  <1>3. CASE SistemaNext
    <2>1. GradeAccounted' /\ MemoryInv'
      <3>1. CASE Next
        BY <1>1, <1>2, <3>1, GradeNext, GradeSums, MemoryNext
           DEF SurvivesInv, KernelInv
      <3>2. CASE CpuOnly
        BY <1>1, <3>2, AccountsSame DEF SurvivesInv
      <3> QED
        BY <1>2, <1>3, <3>1, <3>2, KernelOrCpu
    <2>2. FramesLoaded' /\ memory_alive'
      BY <1>1, <1>3, FramesLoadedNext, MemoryStaysAlive DEF SurvivesInv
    <2> QED
      BY <1>2, <2>1, <2>2 DEF SurvivesInv
  <1>4. CASE UNCHANGED sistemaVars
    <2>1. UNCHANGED <<vars, row, memory_alive>>
      BY <1>4 DEF sistemaVars, newVars, storeVars
    <2>2. UNCHANGED <<structures, loaded>>
      BY <2>1 DEF vars, peerVars
    <2>3. FramesLoaded'
      BY <1>1, <2>1, <2>2 DEF SurvivesInv, FramesLoaded, MP!Present, MP!Live, MP!PagesOf,
         MP!Page_table, MP!calculate_frames_of_segment
    <2> QED
      BY <1>1, <1>2, <2>1, <2>3, AccountsSame DEF SurvivesInv
  <1> QED
    BY <1>1, <1>3, <1>4

LEMMA SurvivesInit == SistemaInit => SurvivesInv
  <1>1. SUFFICES ASSUME SistemaInit PROVE SurvivesInv
    OBVIOUS
  <1>2. Init /\ structures = {} /\ memory_alive
    BY <1>1 DEF SistemaInit, Init
  <1>3. FramesLoaded
    BY <1>2 DEF FramesLoaded, MP!Present, MP!Live
  <1> QED
    BY <1>1, <1>2, <1>3, PagingInit, GradeFirst, MemoryFirst DEF SurvivesInv

(* With frames for Grado processes and swap for one more, the memory never *)
(* lacks either, and finds the row of every frame the CPU writes to.       *)
THEOREM MemoryAlwaysSurvives ==
    ASSUME TlbIsSafe, EnoughFrames, EnoughSwap
    PROVE  SistemaSpec => []MemorySurvives
  <1>1. SurvivesInv => MemorySurvives
    BY DEF SurvivesInv, MemorySurvives
  <1> QED
    BY <1>1, SurvivesInit, SurvivesNext, PTL DEF SistemaSpec

-----------------------------------------------------------------------------
(* Each process by itself: what a step does to the state that module       *)
(* Aislado gives it.                                                       *)

CounterOf(p) == program_counter[p] + (IF Done(p) THEN 1 ELSE 0)

InCode == \A p \in Process : program_counter[p] <= Len(Code[p])

AloneInv == PagingInv /\ OverIff /\ Rests /\ InCode

LEMMA AloneInvNext == TlbIsSafe /\ AloneInv /\ [SistemaNext]_sistemaVars => AloneInv'
  <1>1. SUFFICES ASSUME TlbIsSafe, AloneInv, [SistemaNext]_sistemaVars PROVE AloneInv'
    OBVIOUS
  <1>2. PagingInv' /\ SistemaInv
    BY <1>1, PagingNext DEF AloneInv, PagingInv
  <1>3. CASE SistemaNext
    <2>1. OverIff' /\ Rests'
      BY <1>1, <1>2, <1>3, OverIffNext, RestsNext DEF AloneInv
    <2>2. ASSUME NEW p \in Process PROVE program_counter'[p] <= Len(Code[p])
      <3>1. program_counter \in [Process -> Nat] /\ Len(Code[p]) \in Nat
        BY <1>2, CodeAssumption DEF SistemaInv, KernelInv, TypeOK, CpuType
      <3>2. Completing /\ p = cpu => program_counter[p] < Len(Code[p])
        BY <1>2, CompletingFacts, Executing
      <3> QED
        BY <1>1, <1>2, <1>3, <3>1, <3>2, CounterNext DEF AloneInv, InCode
    <2> QED
      BY <1>2, <2>1, <2>2 DEF AloneInv, InCode
  <1>4. CASE UNCHANGED sistemaVars
    <2>1. UNCHANGED <<status, cpu, event, fromCpu, program_counter, clock_structures>>
      BY <1>4 DEF sistemaVars, newVars, storeVars, vars, kernelVars, pcbVars, peerVars,
         cpuConnection
    <2>2. \A p \in Process : (Finished(p)' <=> Finished(p)) /\ (Past(p)' <=> Past(p))
      BY <2>1, SameInstr DEF Finished
    <2> QED
      BY <1>1, <1>2, <2>1, <2>2 DEF AloneInv, OverIff, Rests, InCode
  <1> QED
    BY <1>1, <1>3, <1>4

LEMMA AloneInvInit == SistemaInit => AloneInv
  <1>1. SUFFICES ASSUME SistemaInit PROVE AloneInv
    OBVIOUS
  <1>2. /\ PagingInv /\ fromCpu = <<>> /\ cpu = NoProcess
        /\ \A p \in Process : program_counter[p] = 0 /\ status[p] = "none"
    BY <1>1, PagingInit DEF SistemaInit, Init, KernelInit
  <1>3. ASSUME NEW p \in Process PROVE ~Finished(p) /\ ~Past(p) /\ 0 <= Len(Code[p])
    BY <1>2, CodeAssumption, NoProcessAssumption DEF Finished, Past, Elements
  <1> QED
    BY <1>2, <1>3 DEF AloneInv, OverIff, Rests, InCode

-----------------------------------------------------------------------------
(* The definitions of Aislado, in terms of Sistema's.                      *)

LEMMA SameAddresses ==
    ASSUME NEW p \in Process
    PROVE  Alone(p)!Addresses = AddressesOf(p)
  BY Zenon DEF Alone!Addresses, AddressesOf, Alone!max_segment_size, max_segment_size,
     Alone!sigsegv, sigsegv, Alone!translate_logical_address, translate_logical_address

LEMMA SameComputing ==
    ASSUME NEW p \in Process
    PROVE  /\ \A rs, i : Alone(p)!ExecuteArithmetic(rs, i) = ExecuteArithmetic(rs, i)
           /\ Alone(p)!Arithmetic = Arithmetic
           /\ Alone(p)!Word = Word
  BY Zenon DEF Alone!ExecuteArithmetic, ExecuteArithmetic, Alone!add_value_to_register,
     add_value_to_register, Alone!Sum, Sum, Alone!Arithmetic, Arithmetic, Alone!Word, Word

(* An instruction that is not valid there is a segmentation fault here.    *)
LEMMA ValidKinds ==
    ASSUME NEW p \in Process, NEW i \in InstructionOf(p)
    PROVE  /\ KindOf(p, i) \in {"EXIT", "FAULT"} <=> i.op = "EXIT" \/ ~Alone(p)!Valid(i)
           /\ KindOf(p, i) = "MOV" => Alone(p)!Valid(i) /\ i.address \in AddressesOf(p)
           /\ KindOf(p, i) \in {"EXIT", "FAULT", "CONSOLE"} \cup Device
                => i.op \in {"I/O", "EXIT"} \/ ~Alone(p)!Valid(i)
  <1>1. CASE i.op \in Arithmetic
    <2>1. KindOf(p, i) = "COMPUTE" /\ Alone(p)!Valid(i) /\ i.op # "EXIT"
      BY <1>1, KindFacts DEF Alone!Valid, Arithmetic
    <2> QED
      BY <2>1, DeviceIsNoInstruction
  <1>2. CASE i.op = "I/O"
    <2>1. KindOf(p, i) \in Device \cup {"CONSOLE"}
      BY <1>2 DEF KindOf, Arithmetic, InstructionOf
    <2>2. Alone(p)!Valid(i)
      BY <1>2 DEF Alone!Valid
    <2> QED
      BY <1>2, <2>1, <2>2, DeviceIsNoInstruction
  <1>3. CASE i.op = "EXIT"
    BY <1>3 DEF KindOf, Arithmetic
  <1>4. CASE i.op \in {"MOV_IN", "MOV_OUT"}
    <2>1. i.address \in Address(p)
      BY <1>4 DEF InstructionOf
    <2>2. i.address \in AddressesOf(p) <=> ~sigsegv(p, i.address)
      BY <2>1, Zenon DEF AddressesOf, Address
    <2>3. Alone(p)!Valid(i) <=> ~sigsegv(p, i.address)
      BY <1>4, <2>2, SameAddresses DEF Alone!Valid
    <2>4. KindOf(p, i) = IF sigsegv(p, i.address) THEN "FAULT" ELSE "MOV"
      BY <1>4 DEF KindOf, Arithmetic
    <2> QED
      BY <1>4, <2>2, <2>3, <2>4, DeviceIsNoInstruction
  <1> QED
    BY <1>1, <1>2, <1>3, <1>4 DEF InstructionOf, Arithmetic

LEMMA OverIsPast ==
    ASSUME AloneInv, NEW p \in Process, ~Done(p)
    PROVE  Alone(p)!Over <=> Past(p)
  <1>1. program_counter[p] \in Nat /\ program_counter[p] <= Len(Code[p])
    BY DEF AloneInv, InCode, PagingInv, SistemaInv, KernelInv, TypeOK, CpuType
  <1>2. CounterOf(p) = program_counter[p]
    BY <1>1 DEF CounterOf
  <1>3. Code[p] \in Seq(InstructionOf(p))
    BY CodeAssumption
  <1>4. program_counter[p] > 0 => Code[p][program_counter[p]] \in InstructionOf(p)
    BY <1>1, <1>3
  <1> DEFINE c == program_counter[p]
  <1>5. Alone(p)!Over <=> c > 0 /\ (Code[p][c].op = "EXIT" \/ ~Alone(p)!Valid(Code[p][c]))
    BY <1>1, <1>2 DEF Alone!Over, CounterOf
  <1> QED
    BY <1>4, <1>5, ValidKinds DEF Past

(* A page and an offset in it are of one address.                          *)
LEMMA AddressesApart ==
    ASSUME NEW p, NEW a \in Nat, NEW b \in Nat,
           PageOf(p, a) = PageOf(p, b), OffsetOf(a) = OffsetOf(b)
    PROVE  a = b
  <1> DEFINE M == max_segment_size
             T == TAM_PAGINA
  <1>1. M \in Nat \ {0} /\ T \in Nat \ {0}
    <2>1. ENTRADAS_POR_TABLA * TAM_PAGINA # 0
      BY TableAssumption
    <2> QED
      BY <2>1, TableAssumption DEF max_segment_size
  <1>2. /\ a \div M = b \div M
        /\ (a % M) \div T = (b % M) \div T
        /\ (a % M) % T = (b % M) % T
    BY DEF PageOf, OffsetOf, translate_logical_address
  <1> HIDE DEF M, T
  <1>3. a % M \in Nat /\ b % M \in Nat
    BY <1>1, Division
  <1>4. a % M = T * ((a % M) \div T) + ((a % M) % T)
    BY <1>1, <1>3, Division
  <1>5. b % M = T * ((b % M) \div T) + ((b % M) % T)
    BY <1>1, <1>3, Division
  <1>6. a % M = b % M
    BY <1>2, <1>4, <1>5
  <1>7. a = M * (a \div M) + (a % M) /\ b = M * (b \div M) + (b % M)
    BY <1>1, Division
  <1> QED
    BY <1>2, <1>6, <1>7

(* The addresses of a process are in its pages.                            *)
LEMMA AddressPage ==
    ASSUME SistemaInv, NEW p \in structures, NEW a \in AddressesOf(p)
    PROVE  /\ a \in Nat /\ p \in Process
           /\ PageOf(p, a) \in MP!Live /\ PageOf(p, a)[1] = p /\ OffsetOf(a) \in MP!Offset
  <1>1. p \in Process
    BY MemoryOf
  <1>2. a \in Address(p) /\ ~sigsegv(p, a)
    BY DEF AddressesOf, Address
  <1>3. PageOf(p, a) \in Mem!PagesOf(p) /\ OffsetOf(a) \in MP!Offset
    BY <1>1, <1>2, PageExists, SamePages
  <1>4. a \in Nat
    BY <1>2 DEF Address
  <1> QED
    BY <1>1, <1>3, <1>4, MemoryOf DEF PageOf

(* What it has there are words.                                            *)
LEMMA ContentType ==
    SistemaInv => \A p \in structures : ContentOf(p) \in [AddressesOf(p) -> Word]
  <1>1. SUFFICES ASSUME SistemaInv, NEW p \in structures, NEW a \in AddressesOf(p)
                 PROVE  ContentAt(p, a) \in Word
    BY DEF ContentOf
  <1>2. PageOf(p, a) \in MP!Live /\ OffsetOf(a) \in MP!Offset /\ MP!IInv
    BY <1>1, AddressPage, MemoryOf
  <1>3. MP!Stored(PageOf(p, a)) \in MP!Contents
    BY <1>2, MP!StoredType, MemoriaAssumptions
  <1> QED
    BY <1>2, <1>3, ContentIsStored DEF MP!Contents

LEMMA ContentTypeNext ==
    SistemaInv' => (\A p \in structures : ContentOf(p) \in [AddressesOf(p) -> Word])'
  BY ContentType, PTL
-----------------------------------------------------------------------------
(* The steps that p's program does not see.                                *)

(* What a live process stores changes with its own MOV_OUT alone.          *)
LEMMA ContentStays ==
    ASSUME SistemaInv, SistemaNext, MP!Clean, FrameIsRight, NEW p \in structures,
           p \in structures', ~(AnswerMovOut /\ p = cpu)
    PROVE  ContentOf(p)' = ContentOf(p)
  <1>1. ASSUME NEW a \in AddressesOf(p)
        PROVE  ContentAt(p, a)' = ContentAt(p, a)
    <2>1. PICK pg : pg = PageOf(p, a)
      OBVIOUS
    <2>2. pg \in MP!Live /\ pg[1] = p /\ pg \in MP!PagesOf(p)
      BY <1>1, <2>1, AddressPage, LivePages, SamePages
    <2>3. pg \in MP!Live'
      BY <2>2 DEF MP!Live, MP!PagesOf, MP!Page_table, MP!calculate_frames_of_segment
    <2>4. ~(AnswerMovOut /\ pg = ThePage)
      BY <2>2 DEF ThePage, PageOf
    <2>5. MP!Stored(pg)' = MP!Stored(pg)
      BY <2>2, <2>3, <2>4, StoresNext
    <2> QED
      BY <2>1, <2>5 DEF ContentAt, MP!Stored, PageOf, OffsetOf
  <1> QED
    BY <1>1 DEF ContentOf, AddressesOf, sigsegv, translate_logical_address

(* The memory takes the tables of processes that are over.                 *)
LEMMA LeavesOver ==
    ASSUME SistemaInv, SistemaNext, NEW p \in structures, p \notin structures'
    PROVE  Finished(p) /\ ~Done(p)
  <1>0. alive /\ p \in Process
    BY MemoryOf DEF SistemaNext, Running
  <1>1. CASE KernelStep \/ DispatchThread \/ AttendCpu
    <2>1. UNCHANGED structures
      BY <1>1, DispatchLeavesMemory
         DEF KernelStep, AttendCpu, AnswerFrameRequest, AnswerMovIn, AnswerMovOut, vars,
             peerVars, Mem!mov_in, Mem!mov_out, Mem!save_value_in_memory,
             Mem!NoRowForFrame, Mem!MemoryDies
    <2> QED
      BY <2>1
  <1>2. CASE AttendKernel
    <2>1. toMemory # <<>> /\ toMemory \in Seq(MemoryRequest)
      BY <1>0, <1>2, AttendKernelSteps DEF SistemaInv, KernelInv, TypeOK, MemoryConnectionType
    <2>2. MemoryEnd /\ p = Head(toMemory).pcb
      BY <1>0, <1>2, AttendKernelSteps
         DEF MemoryInit, MemoryLoadPage, MemoryEnd, vars, peerVars, memVars
    <2>3. EndRequest(p) \in Elements(toMemory)
      <3>1. Head(toMemory) \in MemoryRequest /\ Head(toMemory) \in Elements(toMemory)
        BY <2>1, HeadTail, TailElements
      <3>2. Head(toMemory) = EndRequest(p)
        BY <2>2, <3>1 DEF MemoryEnd, MemoryRequest, EndRequest
      <3> QED
        BY <3>1, <3>2
    <2>4. status[p] = "EXIT"
      <3>1. p \in Elements(list["EXIT"])
        BY <1>0, <2>3 DEF SistemaInv, KernelInv, PlaceInv, SentOnce
      <3>2. At(p, "EXIT") /\ "EXIT" \in Place
        BY <3>1 DEF At, Queue, Place
      <3> QED
        BY <1>0, <3>2, OnlyThere DEF SistemaInv, KernelInv, PlaceInv, StatusAt, At, Queue
    <2>5. ~Done(p)
      <3>1. Done(p) => cpu # NoProcess /\ event = "none" /\ p = cpu
        BY DEF Done, SistemaInv, Exchange
      <3> QED
        BY <2>4, <3>1, Executing
    <2> QED
      BY <2>4, <2>5 DEF Finished
  <1> QED
    BY <1>1, <1>2, SistemaSteps

(* A process whose instruction is not in the memory's hands.               *)
LEMMA Idles ==
    ASSUME NEW p, p # cpu \/ socket_memory.op \notin {"MOV_IN_OK", "MOV_OUT_OK"}
    PROVE  /\ ~Done(p)
           /\ ContextOf(p) = IF p # cpu THEN cpu_registers[p] ELSE registers
  BY DEF Done, ContextOf

(* A step in which p executes no instruction begins it, ends it or is none *)
(* of its.                                                                 *)
LEMMA Apart ==
    ASSUME AloneInv, SistemaNext, SistemaInv', NEW p \in Process, ~(AnswerMovOut /\ p = cpu),
           CounterOf(p)' = CounterOf(p), ContextOf(p)' = ContextOf(p)
    PROVE  UNCHANGED Alone(p)!vars \/ Alone(p)!Next
  <1>0. SistemaInv /\ MP!Clean /\ FrameIsRight /\ OverIff /\ Rests
    BY DEF AloneInv, PagingInv
  <1>1. CASE (p \in structures)' = (p \in structures)
    <2>1. ContentOf(p)' = ContentOf(p)
      <3>1. CASE p \in structures
        BY <1>0, <1>1, <3>1, ContentStays
      <3>2. CASE p \notin structures
        BY <1>1, <3>2 DEF ContentOf
      <3> QED
        BY <3>1, <3>2
    <2> QED
      BY <1>1, <2>1 DEF Alone!vars, CounterOf
  <1>2. CASE p \notin structures /\ p \in structures'
    <2>1. p \notin DOMAIN clock_structures
      BY <1>0, <1>2, StructuresNext
    <2>2. program_counter[p] = 0 /\ ~Done(p)
      <3>1. Done(p) => cpu # NoProcess /\ event = "none" /\ p = cpu
        BY <1>0 DEF Done, SistemaInv, Exchange
      <3> QED
        BY <1>0, <2>1, <3>1, Executing DEF Rests
    <2>3. CounterOf(p) = 0
      BY <2>2 DEF CounterOf
    <2>4. ContentOf(p)' \in [AddressesOf(p) -> Word]
      BY <1>2, ContentTypeNext DEF AddressesOf, sigsegv, translate_logical_address
    <2>5. ContentOf(p)' \in [Alone(p)!Addresses -> Alone(p)!Word]
      BY <2>4, SameAddresses, SameComputing
    <2>6. Alone(p)!Start
      BY <1>2, <2>3, <2>5 DEF Alone!Start, CounterOf
    <2> QED
      BY <2>6 DEF Alone!Next
  <1>3. CASE p \in structures /\ p \notin structures'
    <2>1. Finished(p) /\ ~Done(p)
      BY <1>0, <1>3, LeavesOver
    <2>2. Alone(p)!Over
      BY <1>0, <2>1, OverIsPast DEF OverIff
    <2>3. ContentOf(p)' = <<>>
      BY <1>3 DEF ContentOf
    <2>4. Alone(p)!End
      BY <1>3, <2>2, <2>3 DEF Alone!End, Alone!Nothing, CounterOf
    <2> QED
      BY <2>4 DEF Alone!Next
  <1> QED
    BY <1>1, <1>2, <1>3
-----------------------------------------------------------------------------
(* The steps in which an instruction takes effect.                         *)

(* The CPU's process executes the instruction it is at.                    *)
LEMMA Executes ==
    ASSUME AloneInv, SistemaNext, NEW p \in Process, p = cpu, event = "none", ~Done(p),
           CounterOf(p)' = CounterOf(p) + 1,
           \/ Alone(p)!Compute(Instr) \/ Alone(p)!Read(Instr)
           \/ Alone(p)!Write(Instr) \/ Alone(p)!Leave(Instr)
    PROVE  Alone(p)!Next
  <1>1. SistemaInv /\ OverIff /\ cpu # NoProcess
    BY NoProcessAssumption DEF AloneInv, PagingInv
  <1>2. p \in structures /\ p \in structures' /\ ~Finished(p) /\ program_counter[p] \in Nat
    BY <1>1, CpuKeepsTables, Executing
  <1>3. ~Alone(p)!Over
    BY <1>1, <1>2, OverIsPast DEF OverIff
  <1>4. Instr = Code[p][CounterOf(p) + 1]
    BY <1>2 DEF Instr, CounterOf
  <1>5. PICK i : i = Instr
    OBVIOUS
  <1>6. Alone(p)!Compute(i) \/ Alone(p)!Read(i) \/ Alone(p)!Write(i) \/ Alone(p)!Leave(i)
    BY <1>5
  <1>7. i = Code[p][CounterOf(p) + 1]
    BY <1>4, <1>5
  <1>8. Alone(p)!Execute
    BY <1>2, <1>3, <1>6, <1>7 DEF Alone!Execute, CounterOf
  <1> QED
    BY <1>8 DEF Alone!Next

(* SET, ADD, I/O, EXIT and the segmentation fault: within the CPU.         *)
LEMMA ExecutesHere ==
    ASSUME AloneInv, SistemaNext, NEW p \in Process, p = cpu,
           ExecuteSetOrAdd \/ ExecuteAndLeave
    PROVE  Alone(p)!Next
  <1>1. SistemaInv /\ MP!Clean /\ FrameIsRight
    BY DEF AloneInv, PagingInv
  <1>2. /\ cpu # NoProcess /\ event = "none" /\ socket_memory = Silent
        /\ socket_memory' = Silent /\ UNCHANGED cpu
        /\ program_counter' = [program_counter EXCEPT ![p] = @ + 1]
    BY <1>1, CompletingFacts DEF Completing, ExecuteSetOrAdd, ExecuteAndLeave, Fetching
  <1>3. /\ p \in structures /\ p \in structures' /\ Instr \in InstructionOf(p)
        /\ program_counter \in [Process -> Nat]
    BY <1>1, <1>2, CpuKeepsTables, Executing
  <1>4. ~Done(p) /\ ~Done(p)' /\ ContextOf(p) = registers /\ ContextOf(p)' = registers'
    BY <1>2 DEF Done, ContextOf, Silent
  <1>5. CounterOf(p)' = CounterOf(p) + 1
    BY <1>2, <1>3, <1>4 DEF CounterOf
  <1>6. ContentOf(p)' = ContentOf(p)
    <2>1. ~AnswerMovOut
      BY <1>2 DEF AnswerMovOut, Silent
    <2> QED
      BY <1>1, <1>3, <2>1, ContentStays
  <1>7. CASE ExecuteSetOrAdd
    <2>1. Instr.op \in Arithmetic /\ registers' = ExecuteArithmetic(registers, Instr)
      BY <1>7 DEF ExecuteSetOrAdd
    <2>2. PICK i : i = Instr
      OBVIOUS
    <2>3. i.op \in Alone(p)!Arithmetic
          /\ ContextOf(p)' = Alone(p)!ExecuteArithmetic(ContextOf(p), i)
      BY <1>4, <2>1, <2>2, SameComputing
    <2>4. Alone(p)!Compute(i)
      BY <1>6, <2>3 DEF Alone!Compute
    <2> QED
      BY <1>2, <1>4, <1>5, <2>2, <2>4, Executes
  <1>8. CASE ExecuteAndLeave
    <2>1. KindOf(p, Instr) \in {"EXIT", "FAULT", "CONSOLE"} \cup Device /\ UNCHANGED registers
      BY <1>8 DEF ExecuteAndLeave, newVars, mmuVars
    <2>2. PICK i : i = Instr
      OBVIOUS
    <2>3. i.op \in {"I/O", "EXIT"} \/ ~Alone(p)!Valid(i)
      BY <1>3, <2>1, <2>2, ValidKinds
    <2>4. ContextOf(p)' = ContextOf(p)
      BY <1>4, <2>1
    <2>5. Alone(p)!Leave(i)
      BY <1>6, <2>3, <2>4 DEF Alone!Leave
    <2> QED
      BY <1>2, <1>4, <1>5, <2>2, <2>5, Executes
  <1> QED
    BY <1>7, <1>8

(* MOV_IN and MOV_OUT: when the memory has done them.                      *)
LEMMA ExecutesThere ==
    ASSUME AloneInv, AloneInv', SistemaNext, NEW p \in Process, p = cpu,
           AnswerMovIn \/ AnswerMovOut
    PROVE  Alone(p)!Next
  <1>1. /\ SistemaInv /\ MP!Clean /\ FrameIsRight /\ Asked /\ ReadsItsAddress'
    BY DEF AloneInv, PagingInv
  <1>2. /\ cpu # NoProcess /\ event = "none" /\ KindOf(p, Instr) = "MOV"
        /\ socket_memory.op \in {"MOV_IN", "MOV_OUT"}
        /\ socket_memory'.op \in {"MOV_IN_OK", "MOV_OUT_OK"}
        /\ UNCHANGED <<cpu, program_counter, registers, Instr>>
    BY <1>1, GoesOn DEF AnswerMovIn, AnswerMovOut, Message, SistemaInv, Exchange
  <1>3. /\ p \in structures /\ p \in structures' /\ Instr \in InstructionOf(p)
        /\ program_counter \in [Process -> Nat]
    BY <1>1, <1>2, CpuKeepsTables, Executing
  <1>4. ~Done(p) /\ Done(p)' /\ ContextOf(p) = registers
    BY <1>2 DEF Done, ContextOf
  <1>5. CounterOf(p)' = CounterOf(p) + 1
    BY <1>2, <1>3, <1>4 DEF CounterOf
  <1>6. PICK i : i = Instr
    OBVIOUS
  <1>7. i \in InstructionOf(p) /\ Alone(p)!Valid(i) /\ i.address \in AddressesOf(p)
    BY <1>2, <1>3, <1>6, ValidKinds
  <1>8. ContentOf(p) = [a \in AddressesOf(p) |-> ContentAt(p, a)]
    BY <1>3 DEF ContentOf
  <1>9. CASE AnswerMovIn
    <2>1. i.op = "MOV_IN" /\ socket_memory'.op = "MOV_IN_OK"
      BY <1>1, <1>6, <1>9 DEF AnswerMovIn, Asked, Message
    <2>2. ContentOf(p)' = ContentOf(p)
      <3>1. ~AnswerMovOut
        BY <1>9 DEF AnswerMovIn, AnswerMovOut
      <3> QED
        BY <1>1, <1>3, <3>1, ContentStays
    <2>3. socket_memory'.value = ContentOf(p)[i.address]
      <3>1. socket_memory'.value = ContentAt(p, i.address)'
        BY <1>1, <1>2, <1>6, <2>1 DEF ReadsItsAddress
      <3>2. ContentOf(p)' = [a \in AddressesOf(p) |-> ContentAt(p, a)']
        BY <1>3 DEF ContentOf, AddressesOf, sigsegv, translate_logical_address
      <3> QED
        BY <1>7, <2>2, <3>1, <3>2
    <2>4. ContextOf(p)' = [ContextOf(p) EXCEPT ![i.register] = ContentOf(p)[i.address]]
      BY <1>2, <1>4, <1>6, <2>1, <2>3 DEF ContextOf
    <2>5. Alone(p)!Read(i)
      BY <1>7, <2>1, <2>2, <2>4 DEF Alone!Read
    <2> QED
      BY <1>2, <1>4, <1>5, <1>6, <2>5, Executes
  <1>10. CASE AnswerMovOut
    <2>1. /\ i.op = "MOV_OUT" /\ socket_memory'.op = "MOV_OUT_OK"
          /\ socket_memory.value = registers[i.register]
      BY <1>1, <1>6, <1>10 DEF AnswerMovOut, Asked, Message
    <2>2. ContextOf(p)' = ContextOf(p)
      BY <1>2, <1>4, <2>1 DEF ContextOf
    <2>3. PICK v : v = socket_memory.value
      OBVIOUS
    <2>4. PICK h : h = ThePage /\ h = PageOf(p, i.address)
      BY <1>6 DEF ThePage
    <2>5. /\ MP!Stored(h)' = [MP!Stored(h) EXCEPT ![OffsetOf(i.address)] = v]
          /\ \A q \in MP!Live \ {h} : MP!Stored(q)' = MP!Stored(q)
      <3>1. MP!Stored(ThePage)' = MP!Stored(h)'
        <4>1. ThePage' = h
          BY <1>2, <2>4 DEF ThePage, PageOf, Instr
        <4> QED
          BY <4>1 DEF MP!Stored
      <3> QED
        BY <1>1, <1>6, <1>10, <2>3, <2>4, <3>1, MovOutWrites
    <2>6. ASSUME NEW a \in AddressesOf(p)
          PROVE  ContentAt(p, a)' = IF a = i.address THEN v ELSE ContentAt(p, a)
      <3>1. PICK pg : pg = PageOf(p, a)
        OBVIOUS
      <3>2. /\ a \in Nat /\ i.address \in Nat /\ pg \in MP!Live /\ h \in MP!Live
            /\ OffsetOf(a) \in MP!Offset
        BY <1>1, <1>3, <1>7, <2>4, <2>6, <3>1, AddressPage
      <3>3. ContentAt(p, a)' = MP!Stored(pg)'[OffsetOf(a)]
        BY <3>1 DEF ContentAt, MP!Stored, PageOf, OffsetOf
      <3>4. ContentAt(p, a) = MP!Stored(pg)[OffsetOf(a)]
        BY <3>1, ContentIsStored
      <3>5. CASE pg # h
        BY <2>4, <2>5, <3>1, <3>2, <3>3, <3>4, <3>5
      <3>6. CASE pg = h
        <4>1. DOMAIN MP!Stored(h) = MP!Offset
          <5>1. MP!Stored(h) \in MP!Contents
            BY <1>1, <3>2, MemoryOf, MP!StoredType, MemoriaAssumptions
          <5> QED
            BY <5>1 DEF MP!Contents
        <4>2. a = i.address <=> OffsetOf(a) = OffsetOf(i.address)
          BY <2>4, <3>1, <3>2, <3>6, AddressesApart
        <4> QED
          BY <2>5, <3>2, <3>3, <3>4, <3>6, <4>1, <4>2
      <3> QED
        BY <3>5, <3>6
    <2>7. ContentOf(p)' = [ContentOf(p) EXCEPT ![i.address] = v]
      <3>1. ContentOf(p)' = [a \in AddressesOf(p) |-> ContentAt(p, a)']
        BY <1>3 DEF ContentOf, AddressesOf, sigsegv, translate_logical_address
      <3>2. PICK x : x = i.address
        OBVIOUS
      <3> DEFINE A == AddressesOf(p)
                 c == [a \in A |-> ContentAt(p, a)]
                 d == [a \in A |-> IF a = x THEN v ELSE ContentAt(p, a)]
      <3>3. ContentOf(p)' = d
        BY <2>6, <3>1, <3>2, Zenon
      <3>4. [c EXCEPT ![x] = v] = d
        <4> HIDE DEF A
        <4> QED
          OBVIOUS
      <3> QED
        BY <1>8, <3>2, <3>3, <3>4
    <2>8. v = ContextOf(p)[i.register]
      BY <1>4, <2>1, <2>3
    <2>9. Alone(p)!Write(i)
      BY <1>7, <2>1, <2>2, <2>7, <2>8 DEF Alone!Write
    <2> QED
      BY <1>2, <1>4, <1>5, <1>6, <2>9, Executes
  <1> QED
    BY <1>9, <1>10

(* The other steps: the PCB comes and goes with its registers, a page is   *)
(* translated or faulted for, the CPU learns what the memory has done, or  *)
(* it is the kernel's or another process's step.                           *)
LEMMA Unseen ==
    ASSUME SistemaInv, SistemaNext, NEW p \in Process,
           ~(p = cpu /\ (ExecuteSetOrAdd \/ ExecuteAndLeave \/ AnswerMovIn \/ AnswerMovOut))
    PROVE  CounterOf(p)' = CounterOf(p) /\ ContextOf(p)' = ContextOf(p)
  <1>0. alive /\ p # NoProcess /\ program_counter \in [Process -> Nat]
        /\ cpu_registers \in [Process -> [Register -> Word]]
    BY NoProcessAssumption
       DEF SistemaNext, Running, SistemaInv, KernelInv, TypeOK, CpuType, MmuType
  <1> DEFINE Same == CounterOf(p)' = CounterOf(p) /\ ContextOf(p)' = ContextOf(p)
             OK   == {"MOV_IN_OK", "MOV_OUT_OK"}
  <1>1. ASSUME UNCHANGED <<cpu, program_counter, registers, cpu_registers>>,
               \/ UNCHANGED socket_memory
               \/ socket_memory.op \notin OK /\ socket_memory'.op \notin OK
               \/ p # cpu
        PROVE  Same
    BY <1>1 DEF CounterOf, ContextOf, Done, Instr
  <1>2. CASE KernelStep \/ AttendKernel
    BY <1>0, <1>1, <1>2, AttendKernelSteps DEF KernelStep, newVars, mmuVars, pcbRegisters
  <1>3. CASE AttendCpu
    <2>1. UNCHANGED <<cpu, program_counter, registers, cpu_registers>>
      BY <1>3 DEF AttendCpu, AnswerFrameRequest, AnswerMovIn, AnswerMovOut, vars, peerVars,
         pcbRegisters
    <2>2. AnswerFrameRequest => socket_memory.op \notin OK /\ socket_memory'.op \notin OK
      BY DEF AnswerFrameRequest, Message
    <2> QED
      BY <1>1, <1>3, <2>1, <2>2 DEF AttendCpu
  <1>4. CASE TranslateByTlb \/ AskFrame \/ ReceiveFrame
    <2>1. UNCHANGED <<cpu, program_counter, registers, cpu_registers>>
      BY <1>4 DEF TranslateByTlb, AskFrame, ReceiveFrame, vars, peerVars, pcbRegisters
    <2>2. socket_memory.op \notin OK
      BY <1>4 DEF TranslateByTlb, AskFrame, ReceiveFrame, Fetching, Silent
    <2>3. socket_memory'.op \notin OK
      <3>1. CASE AskFrame
        BY <3>1 DEF AskFrame, Message
      <3>2. CASE TranslateByTlb \/ ReceiveFrame
        <4>1. cpu # NoProcess /\ event = "none" /\ KindOf(cpu, Instr) = "MOV"
          BY <3>2 DEF TranslateByTlb, ReceiveFrame, Fetching, SistemaInv, Exchange
        <4>2. Instr.op \in {"MOV_IN", "MOV_OUT"}
          BY <4>1, Accessing
        <4> QED
          BY <3>2, <4>2 DEF TranslateByTlb, ReceiveFrame, Request, Message
      <3> QED
        BY <1>4, <3>1, <3>2
    <2> QED
      BY <1>1, <2>1, <2>2, <2>3
  <1>5. CASE ReceivePageFault
    <2>1. UNCHANGED <<cpu, program_counter, registers, cpu_registers>>
          /\ socket_memory.op \notin OK /\ socket_memory'.op \notin OK
      BY <1>5 DEF ReceivePageFault, Silent
    <2> QED
      BY <1>1, <2>1
  <1>6. CASE ExecutePcb
    <2>1. /\ cpu = NoProcess /\ cpu' = Head(toCpu) /\ registers' = cpu_registers[Head(toCpu)]
          /\ UNCHANGED <<program_counter, cpu_registers, socket_memory>>
          /\ socket_memory.op = "none"
      BY <1>6 DEF ExecutePcb, CpuReceive, SistemaInv, Exchange, pcbRegisters
    <2> QED
      BY <1>0, <2>1 DEF CounterOf, ContextOf, Done
  <1>7. CASE GiveBackPcb
    <2>1. /\ cpu' = NoProcess /\ cpu_registers' = [cpu_registers EXCEPT ![cpu] = registers]
          /\ UNCHANGED <<program_counter, socket_memory>> /\ socket_memory.op = "none"
      BY <1>7 DEF GiveBackPcb, CpuReturn, Silent, mmuVars
    <2> QED
      BY <1>0, <2>1 DEF CounterOf, ContextOf, Done
  <1>8. CASE Completing
    <2>1. /\ UNCHANGED <<cpu, cpu_registers>> /\ socket_memory' = Silent
          /\ program_counter' = [program_counter EXCEPT ![cpu] = @ + 1]
      BY <1>8, CompletingFacts DEF Completing, ExecuteSetOrAdd, ExecuteAndLeave,
         ReceiveMovIn, ReceiveMovOut, pcbRegisters, newVars
    <2>2. CASE p # cpu
      BY <1>0, <2>1, <2>2 DEF CounterOf, ContextOf, Done
    <2>3. CASE p = cpu
      <3>1. \/ socket_memory.op = "MOV_IN_OK" /\ registers' =
                  [registers EXCEPT ![Instr.register] = socket_memory.value]
            \/ socket_memory.op = "MOV_OUT_OK" /\ registers' = registers
        BY <1>8, <2>3 DEF Completing, ReceiveMovIn, ReceiveMovOut
      <3>2. CounterOf(p) = program_counter[p] + 1 /\ CounterOf(p)' = program_counter'[p]
        BY <1>0, <2>1, <2>3, <3>1 DEF CounterOf, Done, Silent
      <3>3. ContextOf(p) = registers' /\ ContextOf(p)' = registers'
        BY <2>1, <2>3, <3>1 DEF ContextOf, Silent
      <3> QED
        BY <1>0, <2>1, <2>3, <3>2, <3>3
    <2> QED
      BY <2>2, <2>3
  <1> QED
    BY <1>2, <1>3, <1>4, <1>5, <1>6, <1>7, <1>8, SistemaSteps DEF DispatchThread, Completing

-----------------------------------------------------------------------------

AloneStarts == \A p \in Process : Alone(p)!Init
AloneSteps  == \A p \in Process : UNCHANGED Alone(p)!vars \/ Alone(p)!Next

LEMMA StartsAlone == SistemaInit => AloneStarts
  <1>1. SUFFICES ASSUME SistemaInit, NEW p \in Process PROVE Alone(p)!Init
    BY DEF AloneStarts
  <1>2. /\ structures = {} /\ cpu = NoProcess /\ p # NoProcess /\ program_counter[p] = 0
        /\ cpu_registers[p] = [r \in Register |-> 0]
    BY <1>1, NoProcessAssumption DEF SistemaInit, Init
  <1>3. ~Done(p) /\ ContextOf(p) = cpu_registers[p] /\ ContentOf(p) = <<>>
    BY <1>2 DEF Done, ContextOf, ContentOf
  <1> QED
    BY <1>2, <1>3 DEF Alone!Init, Alone!Nothing

LEMMA StepsAlone == AloneInv /\ AloneInv' /\ SistemaNext => AloneSteps
  <1>1. SUFFICES ASSUME AloneInv, AloneInv', SistemaNext, NEW p \in Process
                 PROVE  UNCHANGED Alone(p)!vars \/ Alone(p)!Next
    BY DEF AloneSteps
  <1>2. SistemaInv /\ SistemaInv'
    BY <1>1 DEF AloneInv, PagingInv
  <1>3. CASE p = cpu /\ (ExecuteSetOrAdd \/ ExecuteAndLeave)
    BY <1>1, <1>3, ExecutesHere
  <1>4. CASE p = cpu /\ (AnswerMovIn \/ AnswerMovOut)
    BY <1>1, <1>4, ExecutesThere
  <1>5. CASE ~(p = cpu /\ (ExecuteSetOrAdd \/ ExecuteAndLeave \/ AnswerMovIn \/ AnswerMovOut))
    <2>1. CounterOf(p)' = CounterOf(p) /\ ContextOf(p)' = ContextOf(p)
      BY <1>1, <1>2, <1>5, Unseen
    <2> QED
      BY <1>1, <1>2, <1>5, <2>1, Apart
  <1> QED
    BY <1>3, <1>4, <1>5

(* Every process executes its program as if it were alone: paging,         *)
(* replacement, preemption, the TLB and the other processes change neither *)
(* what it reads nor which instruction comes next.                         *)
THEOREM ProgramsRunAlone ==
    ASSUME TlbIsSafe
    PROVE  SistemaSpec => ImplementsAislado
  <1>1. AloneInv /\ [SistemaNext]_sistemaVars => AloneInv'
    BY AloneInvNext
  <1>2. AloneInv /\ AloneInv' /\ [SistemaNext]_sistemaVars => [AloneSteps]_sistemaVars
    BY StepsAlone
  <1>3. SistemaSpec => AloneStarts /\ [][AloneSteps]_sistemaVars
    BY <1>1, <1>2, AloneInvInit, StartsAlone, PTL DEF SistemaSpec
  <1> QED
    BY <1>3 DEF ImplementsAislado, AloneStarts, AloneSteps

=============================================================================
