----------------------------- MODULE GeckProofs -----------------------------
(***************************************************************************)
(* Theorems about module Geck, for every set of processes and devices,     *)
(* every program, every algorithm and every degree of multiprogramming.    *)
(***************************************************************************)
EXTENDS Geck, TLAPS

(* Taking the first element of a sequence.                                 *)
LEMMA HeadTail ==
    ASSUME NEW S, NEW s \in Seq(S), s # <<>>
    PROVE  Head(s) \in S /\ Tail(s) \in Seq(S) /\ Len(Tail(s)) = Len(s) - 1
  OBVIOUS

(* Adding an element at the end of a sequence.                             *)
LEMMA AppendType ==
    ASSUME NEW S, NEW s \in Seq(S), NEW e \in S
    PROVE  Append(s, e) \in Seq(S) /\ Len(Append(s, e)) = Len(s) + 1
  OBVIOUS

(* A part of the state that a step leaves alone keeps its type.            *)
LEMMA TypeUnchanged ==
    /\ PcbType /\ UNCHANGED pcbVars => PcbType'
    /\ SemType /\ UNCHANGED sem => SemType'
    /\ FaultType /\ UNCHANGED faultVars => FaultType'
    /\ OutType /\ UNCHANGED outVars => OutType'
    /\ ThreadType /\ UNCHANGED thread => ThreadType'
    /\ SchedulerType /\ UNCHANGED scheduler => SchedulerType'
    /\ DispatchType /\ UNCHANGED dispatch => DispatchType'
    /\ ClockType /\ UNCHANGED clock => ClockType'
    /\ DeviceType /\ UNCHANGED deviceVars => DeviceType'
    /\ CpuConnectionType /\ UNCHANGED cpuConnection => CpuConnectionType'
    /\ MemoryConnectionType /\ UNCHANGED memoryConnection => MemoryConnectionType'
    /\ ConsoleConnectionType /\ UNCHANGED consoleConnection => ConsoleConnectionType'
    /\ ConsoleType /\ UNCHANGED console => ConsoleType'
    /\ CpuType /\ UNCHANGED cpuVars => CpuType'
    /\ MemoryType /\ UNCHANGED memVars => MemoryType'
    /\ UNCHANGED peerVars => UNCHANGED <<console, cpuVars, memVars>>
  <1>1. PcbType /\ UNCHANGED pcbVars => PcbType'
    BY DEF PcbType, pcbVars
  <1>2. FaultType /\ UNCHANGED faultVars => FaultType'
    BY DEF FaultType, faultVars
  <1>3. OutType /\ UNCHANGED outVars => OutType'
    BY DEF OutType, outVars
  <1>4. DeviceType /\ UNCHANGED deviceVars => DeviceType'
    BY DEF DeviceType, deviceVars
  <1>5. CpuConnectionType /\ UNCHANGED cpuConnection => CpuConnectionType'
    BY DEF CpuConnectionType, cpuConnection
  <1>6. MemoryConnectionType /\ UNCHANGED memoryConnection => MemoryConnectionType'
    BY DEF MemoryConnectionType, memoryConnection
  <1>7. ConsoleConnectionType /\ UNCHANGED consoleConnection => ConsoleConnectionType'
    BY DEF ConsoleConnectionType, consoleConnection
  <1>8. CpuType /\ UNCHANGED cpuVars => CpuType'
    BY DEF CpuType, cpuVars
  <1>9. MemoryType /\ UNCHANGED memVars => MemoryType'
    BY DEF MemoryType, memVars
  <1>10. /\ SemType /\ UNCHANGED sem => SemType'
         /\ ThreadType /\ UNCHANGED thread => ThreadType'
         /\ SchedulerType /\ UNCHANGED scheduler => SchedulerType'
         /\ DispatchType /\ UNCHANGED dispatch => DispatchType'
         /\ ClockType /\ UNCHANGED clock => ClockType'
         /\ ConsoleType /\ UNCHANGED console => ConsoleType'
    BY DEF SemType, ThreadType, SchedulerType, DispatchType, ClockType, ConsoleType, Idle
  <1>11. UNCHANGED peerVars => UNCHANGED <<console, cpuVars, memVars>>
    BY DEF peerVars, cpuVars, memVars
  <1> QED
    BY <1>1, <1>2, <1>3, <1>4, <1>5, <1>6, <1>7, <1>8, <1>9, <1>10, <1>11

(* The kernel leaves every part of its state alone.                        *)
LEMMA KernelUnchanged ==
    ASSUME UNCHANGED kernelVars
    PROVE  UNCHANGED <<pcbVars, sem, faultVars, outVars, thread, scheduler,
                       dispatch, clock, deviceVars, cpuConnection,
                       memoryConnection, consoleConnection>>
  BY DEF kernelVars, pcbVars, faultVars, outVars, deviceVars, cpuConnection,
     memoryConnection, consoleConnection

(* The request the memory reads next is about a process.                   *)
LEMMA RequestHead ==
    ASSUME MemoryConnectionType, toMemory # <<>>
    PROVE  /\ Head(toMemory).pcb \in Process
           /\ Tail(toMemory) \in Seq(MemoryRequest)
  <1>1. Head(toMemory) \in MemoryRequest /\ Tail(toMemory) \in Seq(MemoryRequest)
    BY HeadTail DEF MemoryConnectionType
  <1> QED
    BY <1>1 DEF MemoryRequest

(* So is the answer manage_memory reads next.                              *)
LEMMA AnswerHead ==
    ASSUME MemoryConnectionType, fromMemory # <<>>
    PROVE  /\ Head(fromMemory).pcb \in Process
           /\ Tail(fromMemory) \in Seq(MemoryAnswer)
  <1>1. Head(fromMemory) \in MemoryAnswer /\ Tail(fromMemory) \in Seq(MemoryAnswer)
    BY HeadTail DEF MemoryConnectionType
  <1> QED
    BY <1>1 DEF MemoryAnswer

(* And so is what manage_dispatch is handling, unless it waits.            *)
LEMMA DispatchPcb ==
    ASSUME DispatchType, dispatch.op # "none"
    PROVE  dispatch.pcb \in Process
  BY DEF DispatchType, Idle, ReturnMessage

(* list_RUNNING without its head: the lists stay lists of PCBs.             *)
LEMMA RunningHeadRemoved ==
    ASSUME PcbType, list["RUNNING"] # <<>>
    PROVE  RunningWithoutHead \in [ListName -> Seq(Process)]
  BY HeadTail DEF PcbType, RunningWithoutHead, ListName

(* Types: the steps of receive_console.                                     *)
LEMMA TypeConsoleThread ==
    ASSUME TypeOK, NEW p \in Process, ConsoleThread(p)
    PROVE  TypeOK'
  <1>1. CASE ReceiveInitProcess(p)
    <2>1. PcbType'
      BY <1>1, AppendType DEF TypeOK, PcbType, ReceiveInitProcess,
         schedule_next_to, ReadyQueue, ListName, Status
    <2>2. ThreadType'
      BY <1>1 DEF TypeOK, ThreadType, ReceiveInitProcess
    <2>3. ConsoleConnectionType'
      BY <1>1, HeadTail DEF TypeOK, ConsoleConnectionType,
         ReceiveInitProcess
    <2> QED
      BY <1>1, <2>1, <2>2, <2>3, TypeUnchanged DEF TypeOK,
         ReceiveInitProcess, ConsoleThread
  <1>2. CASE EnterScheduleReady(p)
    <2>1. SemType'
      BY <1>2 DEF TypeOK, SemType, EnterScheduleReady, SemName,
         Sem_wait, Sem_post
    <2>2. ThreadType'
      BY <1>2 DEF TypeOK, ThreadType, EnterScheduleReady
    <2> QED
      BY <1>2, <2>1, <2>2, TypeUnchanged DEF TypeOK,
         EnterScheduleReady, ConsoleThread
  <1>3. CASE InitStructuresMemory(p)
    <2>1. SemType'
      BY <1>3 DEF TypeOK, SemType, InitStructuresMemory, SemName,
         Sem_wait, Sem_post
    <2>2. ThreadType'
      BY <1>3 DEF TypeOK, ThreadType, InitStructuresMemory
    <2>3. MemoryConnectionType'
      BY <1>3, HeadTail, AppendType DEF TypeOK, MemoryConnectionType,
         InitStructuresMemory, PcbType, MemoryRequest, ListName
    <2> QED
      BY <1>3, <2>1, <2>2, <2>3, TypeUnchanged DEF TypeOK,
         InitStructuresMemory, ConsoleThread
  <1>4. CASE ScheduleNextToReady(p)
    <2>1. PcbType'
      BY <1>4, HeadTail, AppendType DEF TypeOK, PcbType,
         ScheduleNextToReady, ReadyQueue, ListName, Status
    <2>2. SemType'
      BY <1>4 DEF TypeOK, SemType, ScheduleNextToReady, SemName
    <2>3. ThreadType'
      BY <1>4 DEF TypeOK, ThreadType, ScheduleNextToReady
    <2> QED
      BY <1>4, <2>1, <2>2, <2>3, TypeUnchanged DEF TypeOK,
         ScheduleNextToReady, ConsoleThread
  <1>5. CASE ReceiveIoResponse(p)
    <2>1. PcbType'
      BY <1>5, AppendType DEF TypeOK, PcbType, ReceiveIoResponse,
         schedule_next_to, ReadyQueue, ListName, Status
    <2>2. SemType'
      BY <1>5 DEF TypeOK, SemType, ReceiveIoResponse, SemName,
         Sem_wait, Sem_post
    <2>3. ConsoleConnectionType'
      BY <1>5, HeadTail DEF TypeOK, ConsoleConnectionType,
         ReceiveIoResponse
    <2> QED
      BY <1>5, <2>1, <2>2, <2>3, TypeUnchanged DEF TypeOK,
         ReceiveIoResponse, ConsoleThread
  <1>6. CASE ReceiveDisconnection(p)
    <2>1. ThreadType'
      BY <1>6 DEF TypeOK, ThreadType, ReceiveDisconnection
    <2>2. ConsoleConnectionType'
      BY <1>6, HeadTail DEF TypeOK, ConsoleConnectionType,
         ReceiveDisconnection
    <2> QED
      BY <1>6, <2>1, <2>2, TypeUnchanged DEF TypeOK,
         ReceiveDisconnection, ConsoleThread
  <1> QED
    BY <1>1, <1>2, <1>3, <1>4, <1>5, <1>6 DEF ConsoleThread

(* Types: the steps of schedule_next_to_running.                            *)
LEMMA TypeScheduler ==
    ASSUME TypeOK, Scheduler
    PROVE  TypeOK'
  <1>1. CASE WaitProcessInReady
    <2>1. SemType'
      BY <1>1 DEF TypeOK, SemType, WaitProcessInReady, SemName,
         Sem_wait, Sem_post
    <2>2. SchedulerType'
      BY <1>1 DEF TypeOK, SchedulerType, WaitProcessInReady
    <2> QED
      BY <1>1, <2>1, <2>2, TypeUnchanged DEF TypeOK,
         WaitProcessInReady, Scheduler
  <1>2. CASE ScheduleNextToRunning
    <2>1. PcbType'
      BY <1>2, HeadTail, AppendType DEF TypeOK, PcbType,
         ScheduleNextToRunning, NextQueue, ListName, Status
    <2>2. SemType'
      BY <1>2 DEF TypeOK, SemType, ScheduleNextToRunning, SemName,
         Sem_wait, Sem_post
    <2>3. SchedulerType'
      BY <1>2 DEF TypeOK, SchedulerType, ScheduleNextToRunning
    <2>4. CpuConnectionType'
      BY <1>2, HeadTail, AppendType DEF TypeOK, CpuConnectionType,
         ScheduleNextToRunning, PcbType, NextQueue, ListName
    <2> QED
      BY <1>2, <2>1, <2>2, <2>3, <2>4, TypeUnchanged DEF TypeOK,
         ScheduleNextToRunning, Scheduler
  <1>3. CASE RecordUltimo
    <2>1. SemType'
      BY <1>3 DEF TypeOK, SemType, RecordUltimo, SemName, Sem_wait,
         Sem_post
    <2>2. SchedulerType'
      BY <1>3 DEF TypeOK, SchedulerType, RecordUltimo
    <2>3. OutType'
      BY <1>3 DEF TypeOK, OutType, RecordUltimo
    <2> QED
      BY <1>3, <2>1, <2>2, <2>3, TypeUnchanged DEF TypeOK,
         RecordUltimo, Scheduler
  <1> QED
    BY <1>1, <1>2, <1>3 DEF Scheduler

(* Types: the steps of manage_dispatch.                                     *)
LEMMA TypeDispatch ==
    ASSUME TypeOK, Dispatch
    PROVE  TypeOK'
  <1>1. CASE DispatchReceive
    <2>1. PcbType'
      BY <1>1, HeadTail DEF TypeOK, PcbType, DispatchReceive,
         CpuConnectionType, ReturnMessage, Status
    <2>2. SemType'
      BY <1>1 DEF TypeOK, SemType, DispatchReceive
    <2>3. DispatchType'
      BY <1>1, HeadTail DEF TypeOK, DispatchType, DispatchReceive,
         CpuConnectionType
    <2>4. CpuConnectionType'
      BY <1>1, HeadTail DEF TypeOK, CpuConnectionType, DispatchReceive
    <2> QED
      BY <1>1, <2>1, <2>2, <2>3, <2>4, TypeUnchanged DEF TypeOK,
         DispatchReceive, Dispatch
  <1>2. CASE DispatchNullUltimo
    <2>1. OutType'
      BY <1>2 DEF TypeOK, OutType, DispatchNullUltimo
    <2> QED
      BY <1>2, <2>1, TypeUnchanged DEF TypeOK, DispatchNullUltimo,
         Dispatch
  <1>3. CASE DispatchIoConsole
    <2>1. PcbType'
      BY <1>3, DispatchPcb DEF TypeOK, PcbType, DispatchIoConsole,
         Status
    <2>2. OutType'
      BY <1>3 DEF TypeOK, OutType, DispatchIoConsole,
         RaiseOutOfRunning
    <2>3. DispatchType'
      BY <1>3 DEF TypeOK, DispatchType, DispatchIoConsole
    <2>4. ConsoleConnectionType'
      BY <1>3, AppendType, DispatchPcb DEF TypeOK,
         ConsoleConnectionType, DispatchIoConsole
    <2>5. ClockType'
      BY <1>3 DEF TypeOK, ClockType, DispatchIoConsole, RaiseOutOfRunning
    <2> QED
      BY <1>3, <2>1, <2>2, <2>3, <2>4, <2>5, TypeUnchanged DEF TypeOK,
         DispatchIoConsole, Dispatch
  <1>4. CASE DispatchIoDefault
    <2>1. PcbType'
      BY <1>4, AppendType, DeviceAssumption DEF TypeOK, PcbType,
         DispatchIoDefault, DispatchType, Idle, ReturnMessage, Status,
         ListName, schedule_next_to
    <2>2. OutType'
      BY <1>4 DEF TypeOK, OutType, DispatchIoDefault,
         RaiseOutOfRunning
    <2>3. DispatchType'
      BY <1>4 DEF TypeOK, DispatchType, DispatchIoDefault
    <2>4. DeviceType'
      BY <1>4, AppendType, DeviceAssumption DEF TypeOK, DeviceType,
         DispatchIoDefault, DispatchType, Idle, ReturnMessage
    <2>5. ClockType'
      BY <1>4 DEF TypeOK, ClockType, DispatchIoDefault, RaiseOutOfRunning
    <2> QED
      BY <1>4, <2>1, <2>2, <2>3, <2>4, <2>5, TypeUnchanged DEF TypeOK,
         DispatchIoDefault, Dispatch
  <1>5. CASE DispatchInterruption
    <2>1. PcbType'
      BY <1>5, RunningHeadRemoved, AppendType, DispatchPcb DEF TypeOK,
         PcbType, DispatchInterruption, Status, ListName,
         PreemptedQueue
    <2>2. SemType'
      BY <1>5 DEF TypeOK, SemType, DispatchInterruption, SemName,
         Sem_wait, Sem_post
    <2>3. DispatchType'
      BY <1>5 DEF TypeOK, DispatchType, DispatchInterruption
    <2> QED
      BY <1>5, <2>1, <2>2, <2>3, TypeUnchanged DEF TypeOK,
         DispatchInterruption, Dispatch
  <1>6. CASE DispatchPageFault
    <2>1. PcbType'
      BY <1>6, RunningHeadRemoved DEF TypeOK, PcbType,
         DispatchPageFault
    <2>2. FaultType'
      BY <1>6, DispatchPcb DEF TypeOK, FaultType, DispatchPageFault
    <2>3. DispatchType'
      BY <1>6 DEF TypeOK, DispatchType, DispatchPageFault
    <2> QED
      BY <1>6, <2>1, <2>2, <2>3, TypeUnchanged DEF TypeOK,
         DispatchPageFault, Dispatch
  <1>7. CASE DispatchEnd
    <2>1. PcbType'
      BY <1>7, RunningHeadRemoved, AppendType, DispatchPcb DEF TypeOK,
         PcbType, DispatchEnd, ListName, Ends
    <2>2. OutType'
      BY <1>7 DEF TypeOK, OutType, DispatchEnd, RaiseOutOfRunning
    <2>3. DispatchType'
      BY <1>7 DEF TypeOK, DispatchType, DispatchEnd
    <2>4. MemoryConnectionType'
      BY <1>7, AppendType, DispatchPcb DEF TypeOK,
         MemoryConnectionType, DispatchEnd, MemoryRequest, Ends
    <2>5. ConsoleConnectionType'
      BY <1>7, AppendType, DispatchPcb DEF TypeOK,
         ConsoleConnectionType, DispatchEnd, Ends
    <2>6. ClockType'
      BY <1>7 DEF TypeOK, ClockType, DispatchEnd, RaiseOutOfRunning
    <2> QED
      BY <1>7, <2>1, <2>2, <2>3, <2>4, <2>5, <2>6, TypeUnchanged DEF TypeOK,
         DispatchEnd, Dispatch
  <1> QED
    BY <1>1, <1>2, <1>3, <1>4, <1>5, <1>6, <1>7 DEF Dispatch

(* Types: the steps of count_quantum_of_RoundRobin.                         *)
LEMMA TypeClock ==
    ASSUME TypeOK, Clock
    PROVE  TypeOK'
  <1>1. CASE ClockBegin
    <2>1. SemType'
      BY <1>1 DEF TypeOK, SemType, ClockBegin, SemName, Sem_wait,
         Sem_post
    <2>2. OutType'
      BY <1>1 DEF TypeOK, OutType, ClockBegin
    <2>3. ClockType'
      BY <1>1 DEF TypeOK, ClockType, ClockBegin
    <2> QED
      BY <1>1, <2>1, <2>2, <2>3, TypeUnchanged DEF TypeOK, ClockBegin,
         Clock
  <1>2. CASE ClockRestart
    <2>1. OutType'
      BY <1>2 DEF TypeOK, OutType, ClockRestart
    <2>2. ClockType'
      BY <1>2 DEF TypeOK, ClockType, ClockRestart
    <2> QED
      BY <1>2, <2>1, <2>2, TypeUnchanged DEF TypeOK, ClockRestart,
         Clock
  <1>3. CASE ClockExpire
    <2>1. SemType'
      BY <1>3 DEF TypeOK, SemType, ClockExpire, SemName, Sem_wait,
         Sem_post
    <2>2. ClockType'
      BY <1>3 DEF TypeOK, ClockType, ClockExpire
    <2> QED
      BY <1>3, <2>1, <2>2, TypeUnchanged DEF TypeOK, ClockExpire,
         Clock
  <1>4. CASE ClockFinish
    <2>1. SemType'
      BY <1>4 DEF TypeOK, SemType, ClockFinish, SemName, Sem_wait,
         Sem_post
    <2>2. ClockType'
      BY <1>4 DEF TypeOK, ClockType, ClockFinish
    <2> QED
      BY <1>4, <2>1, <2>2, TypeUnchanged DEF TypeOK, ClockFinish,
         Clock
  <1> QED
    BY <1>1, <1>2, <1>3, <1>4 DEF Clock

(* Types: the steps of manage_memory.                                       *)
LEMMA TypeManageMemory ==
    ASSUME TypeOK, ManageMemory
    PROVE  TypeOK'
  <1>1. CASE ReceiveInitStructures
    <2>1. PcbType'
      BY <1>1, AnswerHead DEF TypeOK, PcbType, ReceiveInitStructures,
         ListName, list_replace
    <2>2. SemType'
      BY <1>1 DEF TypeOK, SemType, ReceiveInitStructures, SemName,
         Sem_wait, Sem_post
    <2>3. MemoryConnectionType'
      BY <1>1, AnswerHead DEF TypeOK, MemoryConnectionType,
         ReceiveInitStructures
    <2> QED
      BY <1>1, <2>1, <2>2, <2>3, TypeUnchanged DEF TypeOK,
         ReceiveInitStructures, ManageMemory
  <1>2. CASE ReceivePageFaultResponse
    <2>1. PcbType'
      BY <1>2, AnswerHead, AppendType DEF TypeOK, PcbType,
         ReceivePageFaultResponse, schedule_next_to, ReadyQueue,
         ListName, Status
    <2>2. SemType'
      BY <1>2 DEF TypeOK, SemType, ReceivePageFaultResponse, SemName,
         Sem_wait, Sem_post
    <2>3. FaultType'
      BY <1>2 DEF TypeOK, FaultType, ReceivePageFaultResponse
    <2>4. MemoryConnectionType'
      BY <1>2, AnswerHead DEF TypeOK, MemoryConnectionType,
         ReceivePageFaultResponse
    <2> QED
      BY <1>2, <2>1, <2>2, <2>3, <2>4, TypeUnchanged DEF TypeOK,
         ReceivePageFaultResponse, ManageMemory
  <1> QED
    BY <1>1, <1>2 DEF ManageMemory

(* Types: the steps of simulate_io_default.                                 *)
LEMMA TypeDeviceThread ==
    ASSUME TypeOK, NEW d \in Device, DeviceThread(d)
    PROVE  TypeOK'
  <1>1. CASE DeviceBegin(d)
    <2>1. DeviceType'
      BY <1>1, HeadTail DEF TypeOK, DeviceType, DeviceBegin
    <2> QED
      BY <1>1, <2>1, TypeUnchanged DEF TypeOK, DeviceBegin,
         DeviceThread
  <1>2. CASE DeviceFinish(d)
    <2>1. PcbType'
      BY <1>2, AppendType DEF TypeOK, PcbType, DeviceFinish,
         DeviceType, schedule_next_to, ReadyQueue, ListName, Status
    <2>2. SemType'
      BY <1>2 DEF TypeOK, SemType, DeviceFinish, SemName, Sem_wait,
         Sem_post
    <2>3. DeviceType'
      BY <1>2 DEF TypeOK, DeviceType, DeviceFinish
    <2> QED
      BY <1>2, <2>1, <2>2, <2>3, TypeUnchanged DEF TypeOK,
         DeviceFinish, DeviceThread
  <1> QED
    BY <1>1, <1>2 DEF DeviceThread

(* Types: the steps of the console.                                         *)
LEMMA TypeConsole ==
    ASSUME TypeOK, NEW p \in Process, Console(p)
    PROVE  TypeOK'
  <1>1. CASE ConsoleStart(p)
    <2>1. ConsoleConnectionType'
      BY <1>1, AppendType DEF TypeOK, ConsoleConnectionType,
         ConsoleStart
    <2>2. ConsoleType'
      BY <1>1 DEF TypeOK, ConsoleType, ConsoleStart
    <2> QED
      BY <1>1, <2>1, <2>2, TypeUnchanged DEF TypeOK, ConsoleStart
  <1>2. CASE ConsoleAnswer(p)
    <2>1. ConsoleConnectionType'
      BY <1>2, AppendType, HeadTail DEF TypeOK, ConsoleConnectionType,
         ConsoleAnswer
    <2> QED
      BY <1>2, <2>1, TypeUnchanged DEF TypeOK, ConsoleAnswer
  <1>3. CASE ConsoleEnd(p)
    <2>1. ConsoleConnectionType'
      BY <1>3, AppendType, HeadTail DEF TypeOK, ConsoleConnectionType,
         ConsoleEnd
    <2>2. ConsoleType'
      BY <1>3 DEF TypeOK, ConsoleType, ConsoleEnd
    <2> QED
      BY <1>3, <2>1, <2>2, TypeUnchanged DEF TypeOK, ConsoleEnd
  <1> QED
    BY <1>1, <1>2, <1>3 DEF Console

(* Types: the steps of the CPU.                                             *)
LEMMA TypeCpu ==
    ASSUME TypeOK, Cpu
    PROVE  TypeOK'
  <1>1. CASE CpuReceive
    <2>1. CpuConnectionType'
      BY <1>1, HeadTail DEF TypeOK, CpuConnectionType, CpuReceive
    <2>2. CpuType'
      BY <1>1, HeadTail DEF TypeOK, CpuType, CpuReceive,
         CpuConnectionType
    <2> QED
      BY <1>1, <2>1, <2>2, TypeUnchanged DEF TypeOK, CpuReceive
  <1>2. CASE CpuExecute
    <2>1. CpuType'
      BY <1>2, DeviceAssumption DEF TypeOK, CpuType, CpuExecute,
         EventOf, ReturnOp
    <2> QED
      BY <1>2, <2>1, TypeUnchanged, KernelUnchanged, KernelUnchanged
         DEF TypeOK, CpuExecute
  <1>3. CASE CpuReturn
    <2>1. CpuConnectionType'
      BY <1>3, AppendType DEF TypeOK, CpuConnectionType, CpuReturn,
         CpuType, ReturnMessage, ReturnOp
    <2>2. CpuType'
      BY <1>3 DEF TypeOK, CpuType, CpuReturn
    <2> QED
      BY <1>3, <2>1, <2>2, TypeUnchanged DEF TypeOK, CpuReturn
  <1> QED
    BY <1>1, <1>2, <1>3 DEF Cpu

(* Types: the steps of the memory.                                          *)
LEMMA TypeMemory ==
    ASSUME TypeOK, Memory
    PROVE  TypeOK'
  <1>1. CASE MemoryInit
    <2>1. MemoryConnectionType'
      BY <1>1, RequestHead, AppendType DEF TypeOK,
         MemoryConnectionType, MemoryInit, MemoryAnswer
    <2>2. MemoryType'
      BY <1>1, RequestHead DEF TypeOK, MemoryType, MemoryInit
    <2> QED
      BY <1>1, <2>1, <2>2, TypeUnchanged DEF TypeOK, MemoryInit
  <1>2. CASE MemoryLoadPage
    <2>1. MemoryConnectionType'
      BY <1>2, RequestHead, AppendType DEF TypeOK,
         MemoryConnectionType, MemoryLoadPage, MemoryAnswer
    <2>2. MemoryType'
      BY <1>2, RequestHead DEF TypeOK, MemoryType, MemoryLoadPage
    <2> QED
      BY <1>2, <2>1, <2>2, TypeUnchanged DEF TypeOK, MemoryLoadPage
  <1>3. CASE MemoryEnd
    <2>1. MemoryConnectionType'
      BY <1>3, RequestHead DEF TypeOK, MemoryConnectionType, MemoryEnd
    <2>2. MemoryType'
      BY <1>3 DEF TypeOK, MemoryType, MemoryEnd
    <2> QED
      BY <1>3, <2>1, <2>2, TypeUnchanged DEF TypeOK, MemoryEnd
  <1> QED
    BY <1>1, <1>2, <1>3 DEF Memory

(* Types: the steps of manage_interrupt.                                    *)
LEMMA TypeInterrupt ==
    ASSUME TypeOK, Interrupt
    PROVE  TypeOK'
  <1>1. SemType'
    BY DEF TypeOK, SemType, Interrupt, ManageInterrupt, SemName,
       Sem_wait, Sem_post
  <1>2. CpuConnectionType'
    BY DEF TypeOK, CpuConnectionType, Interrupt, ManageInterrupt
  <1> QED
    BY <1>1, <1>2, TypeUnchanged DEF TypeOK, Interrupt, ManageInterrupt

(* Types: the steps of resolve_page_fault.                                  *)
LEMMA TypePageFaultThread ==
    ASSUME TypeOK, NEW p \in Process, PageFaultThread(p)
    PROVE  TypeOK'
  <1>1. PcbType'
    BY DEF TypeOK, PcbType, PageFaultThread, ResolvePageFault,
       FaultType, Status
  <1>2. FaultType'
    BY DEF TypeOK, FaultType, PageFaultThread, ResolvePageFault
  <1>3. MemoryConnectionType'
    BY AppendType DEF TypeOK, MemoryConnectionType, PageFaultThread,
       ResolvePageFault, FaultType, MemoryRequest
  <1> QED
    BY <1>1, <1>2, <1>3, TypeUnchanged DEF TypeOK, PageFaultThread,
       ResolvePageFault

(* Types: the steps of the interrupt thread of the CPU.                     *)
LEMMA TypeCpuInterrupt ==
    ASSUME TypeOK, CpuInterrupt
    PROVE  TypeOK'
  <1>1. CpuConnectionType'
    BY DEF TypeOK, CpuConnectionType, CpuInterrupt
  <1>2. CpuType'
    BY DEF TypeOK, CpuType, CpuInterrupt
  <1> QED
    BY <1>1, <1>2, TypeUnchanged DEF TypeOK, CpuInterrupt

(* The initial state has the right types.                                  *)
LEMMA TypeInit == Init => TypeOK
  <1> SUFFICES ASSUME Init PROVE TypeOK
    OBVIOUS
  <1>1. PcbType
    BY DEF Init, KernelInit, PcbType, Status
  <1>2. SemType
    BY GradoAssumption DEF Init, KernelInit, SemType
  <1>3. FaultType /\ OutType
    BY DEF Init, KernelInit, FaultType, OutType
  <1>4. ThreadType /\ SchedulerType /\ DispatchType /\ ClockType /\ DeviceType
    BY DEF Init, KernelInit, ThreadType, SchedulerType, DispatchType, ClockType,
       DeviceType
  <1>5. CpuConnectionType /\ MemoryConnectionType /\ ConsoleConnectionType
    BY DEF Init, KernelInit, CpuConnectionType, MemoryConnectionType,
       ConsoleConnectionType
  <1>6. ConsoleType /\ CpuType /\ MemoryType
    BY DeviceAssumption DEF Init, ConsoleType, CpuType, MemoryType, ReturnOp
  <1> QED
    BY <1>1, <1>2, <1>3, <1>4, <1>5, <1>6 DEF TypeOK

(* Every step keeps the types.                                             *)
LEMMA TypeNext == TypeOK /\ [Next]_vars => TypeOK'
  <1> SUFFICES ASSUME TypeOK, [Next]_vars PROVE TypeOK'
    OBVIOUS
  <1>1. CASE Next
    BY <1>1, TypeConsoleThread, TypePageFaultThread, TypeConsole,
       TypeDeviceThread, TypeScheduler, TypeDispatch, TypeClock, TypeInterrupt,
       TypeManageMemory, TypeCpu, TypeCpuInterrupt, TypeMemory DEF Next
  <1>2. CASE UNCHANGED vars
    BY <1>2, KernelUnchanged, TypeUnchanged DEF TypeOK, vars
  <1> QED
    BY <1>1, <1>2

(* Every variable keeps its type, whatever the threads do: no list ever    *)
(* holds anything but PCBs, no semaphore is negative and no thread is      *)
(* given an operation it does not handle.                                  *)
THEOREM TypeCorrect == Spec => []TypeOK
  BY TypeInit, TypeNext, PTL DEF Spec

=============================================================================
