-------------------------- MODULE GeckSafetyProofs --------------------------
(***************************************************************************)
(* Safety properties of the kernel for every instance: the CPU has one PCB *)
(* at most, under FIFO and RR the scheduler hears of every ready process,  *)
(* no list is read or shortened while it is empty, and processes are       *)
(* admitted one at a time.                                                 *)
(***************************************************************************)
EXTENDS GeckProofs, FiniteSetTheorems

(* The semaphore of the CPU and the places it stands for are only touched  *)
(* by the scheduler, the dispatch thread and the CPU.                      *)
LEMMA CpuTokenKept ==
    ASSUME TypeOK, CpuExclusive,
           sem'["cpu_free_to_execute"] = sem["cpu_free_to_execute"],
           UNCHANGED <<toCpu, fromCpu, cpu>>
    PROVE  CpuExclusive'
  BY DEF CpuExclusive

(* Whoever posts sem_cpu_free_to_execute has just taken a PCB off the       *)
(* connection, and whoever waits for it puts one on.                       *)
LEMMA CpuExclusiveNext ==
    ASSUME TypeOK, CpuExclusive, Next
    PROVE  CpuExclusive'
  <1> USE DEF TypeOK, SemType, SemName
  <1>1. CASE \E p \in Process : ConsoleThread(p) \/ PageFaultThread(p) \/ Console(p)
    <2>1. sem'["cpu_free_to_execute"] = sem["cpu_free_to_execute"]
      BY <1>1 DEF ConsoleThread, ReceiveInitProcess, EnterScheduleReady,
         InitStructuresMemory, ScheduleNextToReady, ReceiveIoResponse,
         ReceiveDisconnection, Sem_wait, Sem_post, PageFaultThread,
         ResolvePageFault, Console, ConsoleStart, ConsoleAnswer, ConsoleEnd
    <2>2. UNCHANGED <<toCpu, fromCpu, cpu>>
      BY <1>1 DEF ConsoleThread, ReceiveInitProcess, EnterScheduleReady,
         InitStructuresMemory, ScheduleNextToReady, ReceiveIoResponse,
         ReceiveDisconnection, PageFaultThread, ResolvePageFault, Console,
         ConsoleStart, ConsoleAnswer, ConsoleEnd, cpuConnection, peerVars, cpuVars
    <2> QED
      BY <2>1, <2>2, CpuTokenKept
  <1>2. CASE Clock \/ Interrupt \/ ManageMemory \/ \E d \in Device : DeviceThread(d)
    <2>1. sem'["cpu_free_to_execute"] = sem["cpu_free_to_execute"]
      BY <1>2 DEF Clock, ClockBegin, ClockRestart, ClockExpire, ClockFinish,
         Interrupt, ManageInterrupt, ManageMemory, ReceiveInitStructures,
         ReceivePageFaultResponse, DeviceThread, DeviceBegin, DeviceFinish,
         Sem_wait, Sem_post
    <2>2. UNCHANGED <<toCpu, fromCpu, cpu>>
      BY <1>2 DEF Clock, ClockBegin, ClockRestart, ClockExpire, ClockFinish,
         Interrupt, ManageInterrupt, ManageMemory, ReceiveInitStructures,
         ReceivePageFaultResponse, DeviceThread, DeviceBegin, DeviceFinish,
         cpuConnection, peerVars
    <2> QED
      BY <2>1, <2>2, CpuTokenKept
  <1>3. CASE CpuInterrupt \/ Memory
    BY <1>3, CpuTokenKept DEF CpuInterrupt, Memory, MemoryInit, MemoryLoadPage,
       MemoryEnd, cpuConnection, cpuVars
  <1>4. CASE Scheduler
    <2>1. CASE WaitProcessInReady \/ RecordUltimo
      BY <1>4, <2>1, CpuTokenKept DEF Scheduler, WaitProcessInReady,
         RecordUltimo, Sem_wait, Sem_post, cpuConnection, peerVars
    <2>2. CASE ScheduleNextToRunning
      <3>1. Head(list[NextQueue]) \in Process
        BY <2>2, HeadTail DEF ScheduleNextToRunning, PcbType, NextQueue, ListName
      <3>2. Len(toCpu') = Len(toCpu) + 1
        BY <2>2, <3>1, AppendType DEF ScheduleNextToRunning, CpuConnectionType
      <3> QED
        BY <1>4, <2>2, <3>2 DEF Scheduler, ScheduleNextToRunning, Sem_wait,
           CpuExclusive, CpuConnectionType, peerVars
    <2> QED
      BY <1>4, <2>1, <2>2 DEF Scheduler
  <1>5. CASE Dispatch
    <2>1. CASE DispatchReceive
      <3>1. sem'["cpu_free_to_execute"] = sem["cpu_free_to_execute"] + 1
        BY <2>1 DEF DispatchReceive, FreedBy
      <3>2. Len(fromCpu') = Len(fromCpu) - 1
        BY <2>1, HeadTail DEF DispatchReceive, CpuConnectionType
      <3>3. UNCHANGED <<toCpu, cpu>>
        BY <1>5, <2>1 DEF Dispatch, DispatchReceive, peerVars
      <3> QED
        BY <3>1, <3>2, <3>3 DEF CpuExclusive, CpuConnectionType
    <2>2. CASE ~DispatchReceive
      BY <1>5, <2>2, CpuTokenKept DEF Dispatch, DispatchNullUltimo,
         DispatchIoConsole, DispatchIoDefault, DispatchInterruption,
         DispatchPageFault, DispatchEnd, Sem_post, cpuConnection, peerVars
    <2> QED
      BY <2>1, <2>2
  <1>6. CASE Cpu
    <2>1. CASE CpuReceive
      BY <2>1, HeadTail, NoProcessAssumption DEF CpuReceive, CpuExclusive,
         CpuConnectionType
    <2>2. CASE CpuExecute
      BY <2>2, CpuTokenKept, KernelUnchanged DEF CpuExecute, cpuConnection
    <2>3. CASE CpuReturn
      <3>1. Len(fromCpu') = Len(fromCpu) + 1
        <4>1. [op |-> IF event # "none" THEN event ELSE "EXECUTE_INTERRUPTION",
               pcb |-> cpu] \in ReturnMessage
          BY <2>3 DEF CpuReturn, CpuType, ReturnMessage, ReturnOp
        <4> QED
          BY <2>3, <4>1, AppendType DEF CpuReturn, CpuConnectionType
      <3> QED
        BY <2>3, <3>1 DEF CpuReturn, CpuExclusive, CpuConnectionType
    <2> QED
      BY <1>6, <2>1, <2>2, <2>3 DEF Cpu
  <1> QED
    BY <1>1, <1>2, <1>3, <1>4, <1>5, <1>6 DEF Next

(* For every algorithm, program and number of consoles, the scheduler, the *)
(* dispatch thread and the CPU agree on one PCB at a time: the semaphore   *)
(* sem_cpu_free_to_execute is 1 exactly when no PCB is with the CPU or on  *)
(* its dispatch connection.                                                *)
THEOREM CpuIsExclusive == Spec => []CpuExclusive
  <1>1. Init => CpuExclusive
    BY DEF Init, KernelInit, CpuExclusive, SemName
  <1>2. TypeOK /\ CpuExclusive /\ [Next]_vars => CpuExclusive'
    <2>1. ASSUME CpuExclusive, UNCHANGED vars PROVE CpuExclusive'
      BY <2>1 DEF CpuExclusive, vars, kernelVars, peerVars
    <2> QED
      BY <2>1, CpuExclusiveNext
  <1> QED
    BY <1>1, <1>2, TypeCorrect, PTL DEF Spec


-----------------------------------------------------------------------------
(* The lists.  Each part of ListInv is kept by a step that leaves alone    *)
(* what the part speaks of; the steps that touch it are taken one by one.  *)

(* The console threads that wait for an admission can be counted.          *)
LEMMA AdmittingFinite == IsFiniteSet(Admitting) /\ Cardinality(Admitting) \in Nat
  <1>1. IsFiniteSet(Admitting)
    BY ProcessAssumption, FS_Subset DEF Admitting
  <1> QED
    BY <1>1, FS_CardinalityType

(* A console thread creates a PCB and starts to wait for an admission.     *)
LEMMA AdmittingGrows ==
    ASSUME ThreadType, NEW p \in Process, thread[p] = "receive",
           thread' = [thread EXCEPT ![p] = "schedule"]
    PROVE  Cardinality(Admitting') = Cardinality(Admitting) + 1
  <1>1. Admitting' = Admitting \cup {p} /\ p \notin Admitting
    BY DEF Admitting, ThreadType
  <1> QED
    BY <1>1, AdmittingFinite, FS_AddElement

(* It has admitted a PCB and goes back to its console.                     *)
LEMMA AdmittingShrinks ==
    ASSUME ThreadType, NEW p \in Process, thread[p] = "init",
           thread' = [thread EXCEPT ![p] = "receive"]
    PROVE  Cardinality(Admitting') = Cardinality(Admitting) - 1
  <1>1. Admitting' = Admitting \ {p} /\ p \in Admitting
    BY DEF Admitting, ThreadType
  <1> QED
    BY <1>1, AdmittingFinite, FS_RemoveElement

(* The other steps of a console thread leave the set of waiting threads.   *)
LEMMA AdmittingKept ==
    ASSUME ThreadType, NEW p \in Process,
           \/ UNCHANGED thread
           \/ thread[p] = "schedule" /\ thread' = [thread EXCEPT ![p] = "grado"]
           \/ thread[p] = "grado" /\ thread' = [thread EXCEPT ![p] = "init"]
           \/ thread[p] = "receive" /\ thread' = [thread EXCEPT ![p] = "ended"]
    PROVE  Admitting' = Admitting
  BY DEF Admitting, ThreadType

(* What each step does to the lengths of list_NEW and list_RUNNING.        *)
LEMMA NewCoversNext ==
    ASSUME TypeOK, NewCoversAdmitting, Next
    PROVE  NewCoversAdmitting'
  <1> USE DEF TypeOK, NewCoversAdmitting
  <1>1. ASSUME NEW p \in Process, ConsoleThread(p) PROVE NewCoversAdmitting'
    <2>1. CASE ReceiveInitProcess(p)
      <3>1. Len(list'["NEW"]) = Len(list["NEW"]) + 1
        BY <2>1, AppendType DEF ReceiveInitProcess, schedule_next_to, PcbType, ListName
      <3>2. Cardinality(Admitting') = Cardinality(Admitting) + 1
        BY <2>1, AdmittingGrows DEF ReceiveInitProcess
      <3> QED
        BY <3>1, <3>2
    <2>2. CASE ScheduleNextToReady(p)
      <3>1. Len(list'["NEW"]) = Len(list["NEW"]) - 1
        BY <2>2, HeadTail DEF ScheduleNextToReady, ReadyQueue, PcbType, ListName
      <3>2. Cardinality(Admitting') = Cardinality(Admitting) - 1
        BY <2>2, AdmittingShrinks DEF ScheduleNextToReady
      <3> QED
        BY <3>1, <3>2
    <2>3. CASE EnterScheduleReady(p) \/ InitStructuresMemory(p) \/ ReceiveDisconnection(p)
      <3>1. UNCHANGED list
        BY <2>3 DEF EnterScheduleReady, InitStructuresMemory,
           ReceiveDisconnection, pcbVars
      <3>2. Admitting' = Admitting
        BY <2>3, AdmittingKept DEF EnterScheduleReady, InitStructuresMemory,
           ReceiveDisconnection
      <3> QED
        BY <3>1, <3>2
    <2>4. CASE ReceiveIoResponse(p)
      <3>1. Len(list'["NEW"]) = Len(list["NEW"])
        BY <2>4 DEF ReceiveIoResponse, schedule_next_to, ReadyQueue, PcbType, ListName
      <3>2. Admitting' = Admitting
        BY <2>4, AdmittingKept DEF ReceiveIoResponse
      <3> QED
        BY <3>1, <3>2
    <2> QED
      BY <1>1, <2>1, <2>2, <2>3, <2>4 DEF ConsoleThread
  <1>2. ASSUME UNCHANGED thread, Len(list'["NEW"]) = Len(list["NEW"])
        PROVE  NewCoversAdmitting'
    BY <1>2 DEF Admitting
  <1>3. ASSUME NEW p \in Process, PageFaultThread(p) \/ Console(p)
        PROVE  NewCoversAdmitting'
    BY <1>2, <1>3 DEF PageFaultThread, ResolvePageFault, Console, ConsoleStart,
       ConsoleAnswer, ConsoleEnd, pcbVars
  <1>4. CASE Scheduler
    BY <1>2, <1>4 DEF Scheduler, WaitProcessInReady, ScheduleNextToRunning,
       RecordUltimo, NextQueue, pcbVars, PcbType, ListName
  <1>5. CASE Dispatch
    BY <1>2, <1>5 DEF Dispatch, DispatchReceive, DispatchNullUltimo,
       DispatchIoConsole, DispatchIoDefault, DispatchInterruption,
       DispatchPageFault, DispatchEnd, schedule_next_to, RunningWithoutHead,
       PreemptedQueue, pcbVars, PcbType, ListName
  <1>6. CASE Clock \/ Interrupt
    BY <1>2, <1>6 DEF Clock, ClockBegin, ClockRestart, ClockExpire, ClockFinish,
       Interrupt, ManageInterrupt, pcbVars
  <1>7. CASE ManageMemory
    BY <1>2, <1>7 DEF ManageMemory, ReceiveInitStructures, list_replace,
       ReceivePageFaultResponse, schedule_next_to, ReadyQueue, PcbType, ListName
  <1>8. ASSUME NEW d \in Device, DeviceThread(d) PROVE NewCoversAdmitting'
    BY <1>2, <1>8 DEF DeviceThread, DeviceBegin, DeviceFinish, schedule_next_to,
       ReadyQueue, pcbVars, PcbType, ListName
  <1>9. CASE Cpu \/ CpuInterrupt \/ Memory
    BY <1>2, <1>9, KernelUnchanged DEF Cpu, CpuReceive, CpuExecute, CpuReturn,
       CpuInterrupt, Memory, MemoryInit, MemoryLoadPage, MemoryEnd, pcbVars
  <1> QED
    BY <1>1, <1>3, <1>4, <1>5, <1>6, <1>7, <1>8, <1>9 DEF Next

(* Every step leaves the queues of the other algorithm empty.              *)
LEMMA OwnQueuesNext ==
    ASSUME TypeOK, OwnQueues, Next
    PROVE  OwnQueues'
  <1> USE AlgorithmAssumption DEF TypeOK, PcbType, ListName, OwnQueues
  <1>1. ASSUME UNCHANGED list PROVE OwnQueues'
    BY <1>1
  <1>2. ASSUME NEW p \in Process, ConsoleThread(p) PROVE OwnQueues'
    BY <1>2 DEF ConsoleThread, ReceiveInitProcess, EnterScheduleReady,
       InitStructuresMemory, ScheduleNextToReady, ReceiveIoResponse,
       ReceiveDisconnection, schedule_next_to, ReadyQueue, pcbVars
  <1>3. ASSUME NEW p \in Process, PageFaultThread(p) \/ Console(p)
        PROVE  OwnQueues'
    BY <1>1, <1>3 DEF PageFaultThread, ResolvePageFault, Console, ConsoleStart,
       ConsoleAnswer, ConsoleEnd, pcbVars
  <1>4. CASE Scheduler
    BY <1>4 DEF Scheduler, WaitProcessInReady, ScheduleNextToRunning,
       RecordUltimo, NextQueue, pcbVars
  <1>5. CASE Dispatch
    BY <1>5 DEF Dispatch, DispatchReceive, DispatchNullUltimo,
       DispatchIoConsole, DispatchIoDefault, DispatchInterruption,
       DispatchPageFault, DispatchEnd, schedule_next_to, RunningWithoutHead,
       PreemptedQueue, pcbVars
  <1>6. CASE Clock \/ Interrupt
    BY <1>1, <1>6 DEF Clock, ClockBegin, ClockRestart, ClockExpire,
       ClockFinish, Interrupt, ManageInterrupt, pcbVars
  <1>7. CASE ManageMemory
    BY <1>7 DEF ManageMemory, ReceiveInitStructures, list_replace,
       ReceivePageFaultResponse, schedule_next_to, ReadyQueue
  <1>8. ASSUME NEW d \in Device, DeviceThread(d) PROVE OwnQueues'
    BY <1>8 DEF DeviceThread, DeviceBegin, DeviceFinish, schedule_next_to,
       ReadyQueue, pcbVars
  <1>9. CASE Cpu \/ CpuInterrupt \/ Memory
    BY <1>1, <1>9, KernelUnchanged DEF Cpu, CpuReceive, CpuExecute, CpuReturn,
       CpuInterrupt, Memory, MemoryInit, MemoryLoadPage, MemoryEnd, pcbVars
  <1> QED
    BY <1>2, <1>3, <1>4, <1>5, <1>6, <1>7, <1>8, <1>9 DEF Next

(* The count is a number.                                                  *)
LEMMA ReadyCountType == PcbType => ReadyCount \in Nat
  BY DEF PcbType, ListName, ReadyCount

(* If one ready queue changes its length and the others do not, so does    *)
(* the count.                                                              *)
LEMMA ReadyDelta ==
    ASSUME PcbType, PcbType', NEW n \in Int,
           NEW q \in {"READY", "READY_RR", "READY_FIFO"},
           Len(list'[q]) = Len(list[q]) + n,
           \A r \in {"READY", "READY_RR", "READY_FIFO"} \ {q} : list'[r] = list[r]
    PROVE  ReadyCount' = ReadyCount + n
  <1>1. CASE q = "READY"
    <2>1. list'["READY_RR"] = list["READY_RR"] /\ list'["READY_FIFO"] = list["READY_FIFO"]
      BY <1>1
    <2>2. Len(list'["READY"]) = Len(list["READY"]) + n
      BY <1>1
    <2> QED
      BY <2>1, <2>2 DEF ReadyCount, PcbType, ListName
  <1>2. CASE q = "READY_RR"
    <2>1. list'["READY"] = list["READY"] /\ list'["READY_FIFO"] = list["READY_FIFO"]
      BY <1>2
    <2>2. Len(list'["READY_RR"]) = Len(list["READY_RR"]) + n
      BY <1>2
    <2> QED
      BY <2>1, <2>2 DEF ReadyCount, PcbType, ListName
  <1>3. CASE q = "READY_FIFO"
    <2>1. list'["READY"] = list["READY"] /\ list'["READY_RR"] = list["READY_RR"]
      BY <1>3
    <2>2. Len(list'["READY_FIFO"]) = Len(list["READY_FIFO"]) + n
      BY <1>3
    <2> QED
      BY <2>1, <2>2 DEF ReadyCount, PcbType, ListName
  <1> QED
    BY <1>1, <1>2, <1>3

(* A PCB more in a ready queue, and nothing else about the queues.         *)
LEMMA ReadyGrows ==
    ASSUME PcbType, PcbType', NEW p \in Process, NEW q \in {"READY", "READY_RR", "READY_FIFO"},
           list' = [list EXCEPT ![q] = Append(@, p)]
    PROVE  ReadyCount' = ReadyCount + 1
  <1>1. list[q] \in Seq(Process) /\ list'[q] = Append(list[q], p)
    BY DEF PcbType, ListName
  <1>2. Len(list'[q]) = Len(list[q]) + 1
    BY <1>1, AppendType
  <1>3. \A r \in {"READY", "READY_RR", "READY_FIFO"} \ {q} : list'[r] = list[r]
    BY DEF PcbType, ListName
  <1>4. 1 \in Int
    OBVIOUS
  <1> QED
    BY <1>2, <1>3, <1>4, ReadyDelta, Zenon

(* The same when other lists change too.                                   *)
LEMMA ReadyTakes ==
    ASSUME PcbType, PcbType', NEW p \in Process,
           NEW q \in {"READY", "READY_RR", "READY_FIFO"},
           list'[q] = Append(list[q], p),
           \A r \in {"READY", "READY_RR", "READY_FIFO"} \ {q} : list'[r] = list[r]
    PROVE  ReadyCount' = ReadyCount + 1
  <1>1. list[q] \in Seq(Process)
    BY DEF PcbType, ListName
  <1>2. Len(list'[q]) = Len(list[q]) + 1
    BY <1>1, AppendType
  <1>3. 1 \in Int
    OBVIOUS
  <1> QED
    BY <1>2, <1>3, ReadyDelta, Zenon

(* A PCB fewer, which goes to list_RUNNING.                                *)
LEMMA ReadyGives ==
    ASSUME PcbType, PcbType', NEW p \in Process,
           NEW q \in {"READY", "READY_RR", "READY_FIFO"}, list[q] # <<>>,
           list' = [list EXCEPT ![q] = Tail(@), !["RUNNING"] = Append(@, p)]
    PROVE  ReadyCount' = ReadyCount + (-1)
  <1>1. list[q] \in Seq(Process) /\ list'[q] = Tail(list[q])
    BY DEF PcbType, ListName
  <1>2. Len(list'[q]) = Len(list[q]) + (-1)
    BY <1>1, HeadTail
  <1>3. \A r \in {"READY", "READY_RR", "READY_FIFO"} \ {q} : list'[r] = list[r]
    BY DEF PcbType, ListName
  <1>4. (-1) \in Int
    OBVIOUS
  <1> QED
    BY <1>2, <1>3, <1>4, ReadyDelta, Zenon

(* Lists other than the ready ones change.                                 *)
LEMMA ReadyKept ==
    ASSUME list'["READY"] = list["READY"], list'["READY_RR"] = list["READY_RR"],
           list'["READY_FIFO"] = list["READY_FIFO"]
    PROVE  ReadyCount' = ReadyCount
  BY DEF ReadyCount

(* What a step may do to the tokens of the scheduler and to the ready      *)
(* queues.                                                                 *)
ReadyMoves ==
    \/ ReadyTokens' = ReadyTokens /\ ReadyCount' = ReadyCount
    \/ ReadyTokens' = ReadyTokens + 1 /\ ReadyCount' = ReadyCount + 1
    \/ ReadyTokens' = ReadyTokens + (-1) /\ ReadyCount' = ReadyCount + (-1)
    \/ /\ Algorithm = "FEEDBACK"
       /\ ReadyTokens' = ReadyTokens /\ ReadyCount' = ReadyCount + 1

(* A token of the scheduler is posted with the PCB it is for, except for a *)
(* resolved page fault under FEEDBACK, and goes when a PCB is removed.     *)
LEMMA ReadyStep ==
    ASSUME TypeOK, Next
    PROVE  ReadyMoves
  <1>0. PcbType'
    BY TypeNext DEF TypeOK
  <1> USE DEF TypeOK, SemType, SemName
  <1>1. ASSUME UNCHANGED <<list, scheduler>>,
               sem'["process_in_ready"] = sem["process_in_ready"]
        PROVE  ReadyMoves
    BY <1>1 DEF ReadyMoves, ReadyTokens, ReadyCount
  <1>2. ASSUME ReadyCount' = ReadyCount + 1, UNCHANGED scheduler,
               sem'["process_in_ready"] = sem["process_in_ready"] + 1
        PROVE  ReadyMoves
    <2>1. ReadyTokens' = ReadyTokens + 1
      BY <1>2 DEF ReadyTokens
    <2> QED
      BY <1>2, <2>1 DEF ReadyMoves
  <1>3. ASSUME ReadyCount' = ReadyCount, UNCHANGED scheduler,
               sem'["process_in_ready"] = sem["process_in_ready"]
        PROVE  ReadyMoves
    BY <1>3 DEF ReadyMoves, ReadyTokens
  <1>4. ReadyQueue \in {"READY", "READY_RR", "READY_FIFO"}
        /\ PreemptedQueue \in {"READY", "READY_RR", "READY_FIFO"}
        /\ NextQueue \in {"READY", "READY_RR", "READY_FIFO"}
    BY DEF ReadyQueue, PreemptedQueue, NextQueue
  <1>5. ASSUME NEW p \in Process, ConsoleThread(p) PROVE ReadyMoves
    <2>1. CASE ReceiveInitProcess(p)
      <3>1. ReadyCount' = ReadyCount
        BY <2>1, ReadyKept DEF ReceiveInitProcess, schedule_next_to, PcbType, ListName
      <3> QED
        BY <2>1, <3>1, <1>3 DEF ReceiveInitProcess
    <2>2. CASE EnterScheduleReady(p) \/ InitStructuresMemory(p) \/ ReceiveDisconnection(p)
      BY <2>2, <1>1 DEF EnterScheduleReady, InitStructuresMemory,
         ReceiveDisconnection, Sem_wait, pcbVars
    <2>3. CASE ScheduleNextToReady(p)
      <3>1. Head(list["NEW"]) \in Process
        BY <2>3, HeadTail DEF ScheduleNextToReady, PcbType, ListName
      <3>2. /\ list'[ReadyQueue] = Append(list[ReadyQueue], Head(list["NEW"]))
            /\ \A r \in {"READY", "READY_RR", "READY_FIFO"} \ {ReadyQueue} :
                  list'[r] = list[r]
        BY <2>3, <1>4 DEF ScheduleNextToReady, PcbType, ListName
      <3>3. ReadyCount' = ReadyCount + 1
        BY <3>1, <3>2, <1>4, <1>0, ReadyTakes
      <3> QED
        BY <2>3, <3>3, <1>2 DEF ScheduleNextToReady
    <2>4. CASE ReceiveIoResponse(p)
      <3>1. ReadyCount' = ReadyCount + 1
        BY <2>4, <1>4, <1>0, ReadyGrows DEF ReceiveIoResponse, schedule_next_to
      <3> QED
        BY <2>4, <3>1, <1>2 DEF ReceiveIoResponse, Sem_post
    <2> QED
      BY <1>5, <2>1, <2>2, <2>3, <2>4 DEF ConsoleThread
  <1>6. ASSUME NEW p \in Process, PageFaultThread(p) \/ Console(p)
        PROVE  ReadyMoves
    BY <1>1, <1>6 DEF PageFaultThread, ResolvePageFault, Console, ConsoleStart,
       ConsoleAnswer, ConsoleEnd, pcbVars
  <1>7. CASE Scheduler
    <2>1. CASE WaitProcessInReady
      <3>1. ReadyCount' = ReadyCount
        BY <2>1 DEF WaitProcessInReady, pcbVars, ReadyCount
      <3> QED
        BY <2>1, <3>1 DEF WaitProcessInReady, Sem_wait, ReadyMoves, ReadyTokens
    <2>2. CASE ScheduleNextToRunning
      <3>1. list[NextQueue] \in Seq(Process) /\ list[NextQueue] # <<>>
        <4>1. CASE NextQueue = "READY"
          BY <2>2, <4>1 DEF ScheduleNextToRunning, PcbType, ListName
        <4>2. CASE NextQueue = "READY_RR"
          BY <2>2, <4>2 DEF ScheduleNextToRunning, PcbType, ListName
        <4>3. CASE NextQueue = "READY_FIFO"
          BY <2>2, <4>3 DEF ScheduleNextToRunning, PcbType, ListName
        <4> QED
          BY <1>4, <4>1, <4>2, <4>3
      <3>2. Head(list[NextQueue]) \in Process
        BY <3>1, HeadTail
      <3>3. ReadyCount' = ReadyCount + (-1)
        BY <2>2, <3>1, <3>2, <1>4, <1>0, ReadyGives DEF ScheduleNextToRunning
      <3> QED
        BY <2>2, <3>3 DEF ScheduleNextToRunning, Sem_wait, ReadyMoves, ReadyTokens
    <2>3. CASE RecordUltimo
      <3>1. ReadyCount' = ReadyCount
        BY <2>3 DEF RecordUltimo, pcbVars, ReadyCount
      <3> QED
        BY <2>3, <3>1 DEF RecordUltimo, Sem_post, ReadyMoves, ReadyTokens
    <2> QED
      BY <1>7, <2>1, <2>2, <2>3 DEF Scheduler
  <1>8. CASE Dispatch
    <2>1. CASE DispatchReceive
      BY <2>1, <1>1 DEF DispatchReceive, FreedBy
    <2>2. CASE DispatchNullUltimo \/ DispatchIoConsole
      BY <2>2, <1>1 DEF DispatchNullUltimo, DispatchIoConsole, pcbVars
    <2>3. CASE DispatchIoDefault \/ DispatchPageFault \/ DispatchEnd
      <3>1. ReadyCount' = ReadyCount
        BY <2>3, ReadyKept DEF DispatchIoDefault, DispatchPageFault, DispatchEnd,
           schedule_next_to, RunningWithoutHead, PcbType, ListName
      <3> QED
        BY <2>3, <3>1, <1>3 DEF DispatchIoDefault, DispatchPageFault, DispatchEnd
    <2>4. CASE DispatchInterruption
      <3>1. dispatch.pcb \in Process
        BY <2>4, DispatchPcb DEF DispatchInterruption
      <3>2. PreemptedQueue # "RUNNING"
        BY <1>4
      <3>3. /\ list'[PreemptedQueue] = Append(list[PreemptedQueue], dispatch.pcb)
            /\ \A r \in {"READY", "READY_RR", "READY_FIFO"} \ {PreemptedQueue} :
                  list'[r] = list[r]
        BY <2>4, <1>4, <3>2 DEF DispatchInterruption, RunningWithoutHead, PcbType, ListName
      <3>4. ReadyCount' = ReadyCount + 1
        BY <3>1, <3>3, <1>4, <1>0, ReadyTakes
      <3> QED
        BY <2>4, <3>4, <1>2 DEF DispatchInterruption, Sem_post
    <2> QED
      BY <1>8, <2>1, <2>2, <2>3, <2>4 DEF Dispatch
  <1>9. CASE Clock \/ Interrupt
    BY <1>1, <1>9 DEF Clock, ClockBegin, ClockRestart, ClockExpire, ClockFinish,
       Interrupt, ManageInterrupt, Sem_wait, Sem_post, pcbVars
  <1>10. CASE ManageMemory
    <2>1. CASE ReceiveInitStructures
      <3>1. ReadyCount' = ReadyCount
        BY <2>1, ReadyKept DEF ReceiveInitStructures, PcbType, ListName
      <3> QED
        BY <2>1, <3>1, <1>3 DEF ReceiveInitStructures, Sem_post
    <2>2. CASE ReceivePageFaultResponse
      <3>1. ReadyCount' = ReadyCount + 1
        BY <2>2, <1>4, <1>0, ReadyGrows, AnswerHead DEF ReceivePageFaultResponse,
           schedule_next_to
      <3> QED
        BY <2>2, <3>1, <1>2 DEF ReceivePageFaultResponse, Sem_post,
           PageFaultAnnounced, ReadyMoves, ReadyTokens
    <2> QED
      BY <1>10, <2>1, <2>2 DEF ManageMemory
  <1>11. ASSUME NEW d \in Device, DeviceThread(d) PROVE ReadyMoves
    <2>1. CASE DeviceBegin(d)
      BY <2>1, <1>1 DEF DeviceBegin, pcbVars
    <2>2. CASE DeviceFinish(d)
      <3>1. serving[d] \in Process
        BY <2>2 DEF DeviceFinish, DeviceType
      <3>2. ReadyCount' = ReadyCount + 1
        BY <2>2, <3>1, <1>4, <1>0, ReadyGrows DEF DeviceFinish, schedule_next_to
      <3> QED
        BY <2>2, <3>2, <1>2 DEF DeviceFinish, Sem_post
    <2> QED
      BY <1>11, <2>1, <2>2 DEF DeviceThread
  <1>12. CASE Cpu \/ CpuInterrupt \/ Memory
    BY <1>1, <1>12, KernelUnchanged DEF Cpu, CpuReceive, CpuExecute, CpuReturn,
       CpuInterrupt, Memory, MemoryInit, MemoryLoadPage, MemoryEnd, pcbVars
  <1> QED
    BY <1>5, <1>6, <1>7, <1>8, <1>9, <1>10, <1>11, <1>12 DEF Next

(* Nothing is removed without its token...                                 *)
LEMMA ReadyCoversNext ==
    ASSUME TypeOK, ReadyCoversTokens, Next
    PROVE  ReadyCoversTokens'
  <1>1. ReadyMoves /\ ReadyCount \in Nat /\ ReadyTokens \in Nat
    BY ReadyStep, ReadyCountType DEF TypeOK, SemType, SemName, ReadyTokens
  <1> QED
    BY <1>1 DEF ReadyMoves, ReadyCoversTokens

(* ... and, but for that page fault, nothing is left without one.          *)
LEMMA ReadyAnnouncedNext ==
    ASSUME Algorithm # "FEEDBACK", TypeOK, ReadyAnnounced, Next
    PROVE  ReadyAnnounced'
  <1>1. ReadyMoves
    BY ReadyStep
  <1> QED
    BY <1>1 DEF ReadyMoves, ReadyAnnounced

(* Under FIFO and RR, for every program and number of consoles, no wake-up *)
(* of the scheduler is lost or doubled: its tokens are as many as the PCBs *)
(* in the ready queue.                                                     *)
THEOREM ReadyIsAnnounced ==
    ASSUME Algorithm # "FEEDBACK" PROVE Spec => []ReadyAnnounced
  <1>1. Init => ReadyAnnounced
    BY DEF Init, KernelInit, ReadyAnnounced, ReadyTokens, ReadyCount, SemName, ListName
  <1>2. TypeOK /\ ReadyAnnounced /\ [Next]_vars => ReadyAnnounced'
    <2>1. ASSUME ReadyAnnounced, UNCHANGED vars PROVE ReadyAnnounced'
      BY <2>1 DEF ReadyAnnounced, ReadyTokens, ReadyCount, vars, kernelVars
    <2> QED
      BY <2>1, ReadyAnnouncedNext
  <1> QED
    BY <1>1, <1>2, TypeCorrect, PTL DEF Spec

(* A step that moves no PCB to, from or inside the CPU's connection leaves *)
(* RunningCoversCpu alone if list_RUNNING stays as it is.                  *)
LEMMA RunningKept ==
    ASSUME RunningCoversCpu, UNCHANGED <<toCpu, fromCpu, cpu, dispatch>>,
           list'["RUNNING"] = list["RUNNING"]
    PROVE  RunningCoversCpu'
  BY DEF RunningCoversCpu, OutOfLists

(* A PCB enters list_RUNNING before it is sent to the CPU, and its entry   *)
(* goes only after manage_dispatch has it.                                 *)
LEMMA RunningCoversNext ==
    ASSUME TypeOK, RunningCoversCpu, Next
    PROVE  RunningCoversCpu'
  <1> USE DEF TypeOK, PcbType, ListName, CpuConnectionType
  <1>1. ASSUME NEW p \in Process, ConsoleThread(p) PROVE RunningCoversCpu'
    <2>1. list'["RUNNING"] = list["RUNNING"]
      BY <1>1 DEF ConsoleThread, ReceiveInitProcess, EnterScheduleReady,
         InitStructuresMemory, ScheduleNextToReady, ReceiveIoResponse,
         ReceiveDisconnection, schedule_next_to, ReadyQueue, pcbVars
    <2>2. UNCHANGED <<toCpu, fromCpu, cpu, dispatch>>
      BY <1>1 DEF ConsoleThread, ReceiveInitProcess, EnterScheduleReady,
         InitStructuresMemory, ScheduleNextToReady, ReceiveIoResponse,
         ReceiveDisconnection, cpuConnection, peerVars
    <2> QED
      BY <2>1, <2>2, RunningKept
  <1>2. ASSUME NEW p \in Process, PageFaultThread(p) \/ Console(p)
        PROVE  RunningCoversCpu'
    BY <1>2, RunningKept DEF PageFaultThread, ResolvePageFault, Console,
       ConsoleStart, ConsoleAnswer, ConsoleEnd, pcbVars, cpuConnection,
       peerVars, cpuVars
  <1>3. ASSUME NEW d \in Device, DeviceThread(d) PROVE RunningCoversCpu'
    <2>1. list'["RUNNING"] = list["RUNNING"]
      BY <1>3 DEF DeviceThread, DeviceBegin, DeviceFinish, schedule_next_to,
         ReadyQueue, pcbVars
    <2>2. UNCHANGED <<toCpu, fromCpu, cpu, dispatch>>
      BY <1>3 DEF DeviceThread, DeviceBegin, DeviceFinish, cpuConnection, peerVars
    <2> QED
      BY <2>1, <2>2, RunningKept
  <1>4. CASE Scheduler
    <2>1. CASE WaitProcessInReady \/ RecordUltimo
      BY <1>4, <2>1, RunningKept DEF Scheduler, WaitProcessInReady,
         RecordUltimo, pcbVars, cpuConnection, peerVars
    <2>2. CASE ScheduleNextToRunning
      <3>1. NextQueue \in {"READY", "READY_RR", "READY_FIFO"}
        BY DEF NextQueue
      <3>2. list[NextQueue] \in Seq(Process) /\ list[NextQueue] # <<>>
        BY <2>2, <3>1 DEF ScheduleNextToRunning
      <3>3. Head(list[NextQueue]) \in Process
        BY <3>2, HeadTail
      <3>4. list'["RUNNING"] = Append(list["RUNNING"], Head(list[NextQueue]))
        BY <2>2, <3>1 DEF ScheduleNextToRunning
      <3>5. Len(list'["RUNNING"]) = Len(list["RUNNING"]) + 1
        BY <3>3, <3>4, AppendType
      <3>6. Len(toCpu') = Len(toCpu) + 1
        BY <2>2, <3>3, AppendType DEF ScheduleNextToRunning
      <3>7. UNCHANGED <<fromCpu, cpu, dispatch>>
        BY <1>4, <2>2 DEF Scheduler, ScheduleNextToRunning, peerVars
      <3> QED
        BY <3>5, <3>6, <3>7 DEF RunningCoversCpu, OutOfLists
    <2> QED
      BY <1>4, <2>1, <2>2 DEF Scheduler
  <1>5. CASE Dispatch
    <2>1. CASE DispatchReceive
      <3>1. Len(fromCpu') = Len(fromCpu) - 1
        BY <2>1, HeadTail DEF DispatchReceive
      <3>2. UNCHANGED <<toCpu, cpu, list>> /\ dispatch = Idle
        BY <1>5, <2>1 DEF Dispatch, DispatchReceive, peerVars
      <3> QED
        BY <3>1, <3>2 DEF RunningCoversCpu, OutOfLists
    <2>2. CASE DispatchNullUltimo
      BY <1>5, <2>2, RunningKept DEF Dispatch, DispatchNullUltimo, pcbVars,
         cpuConnection, peerVars
    <2>3. CASE DispatchIoConsole \/ DispatchIoDefault
      <3>1. list'["RUNNING"] = list["RUNNING"]
        BY <2>3 DEF DispatchIoConsole, DispatchIoDefault, schedule_next_to
      <3>2. UNCHANGED <<toCpu, fromCpu, cpu>> /\ dispatch' = Idle
        BY <1>5, <2>3 DEF Dispatch, DispatchIoConsole, DispatchIoDefault,
           cpuConnection, peerVars
      <3> QED
        BY <3>1, <3>2 DEF RunningCoversCpu, OutOfLists
    <2>4. CASE DispatchInterruption \/ DispatchPageFault \/ DispatchEnd
      <3>1. dispatch # Idle
        BY <2>4 DEF DispatchInterruption, DispatchPageFault, DispatchEnd, Ends, Idle
      <3>2. list["RUNNING"] # <<>> /\ list'["RUNNING"] = Tail(list["RUNNING"])
        BY <2>4 DEF DispatchInterruption, DispatchPageFault, DispatchEnd,
           RunningWithoutHead, PreemptedQueue
      <3>3. Len(list'["RUNNING"]) = Len(list["RUNNING"]) - 1
        BY <3>2, HeadTail
      <3>4. UNCHANGED <<toCpu, fromCpu, cpu>> /\ dispatch' = Idle
        BY <1>5, <2>4 DEF Dispatch, DispatchInterruption, DispatchPageFault,
           DispatchEnd, cpuConnection, peerVars
      <3> QED
        BY <3>1, <3>3, <3>4 DEF RunningCoversCpu, OutOfLists
    <2> QED
      BY <1>5, <2>1, <2>2, <2>3, <2>4 DEF Dispatch
  <1>6. CASE Clock \/ Interrupt \/ CpuInterrupt \/ Memory
    BY <1>6, RunningKept DEF Clock, ClockBegin, ClockRestart, ClockExpire,
       ClockFinish, Interrupt, ManageInterrupt, CpuInterrupt, Memory,
       MemoryInit, MemoryLoadPage, MemoryEnd, pcbVars, cpuConnection,
       peerVars, cpuVars
  <1>7. CASE ManageMemory
    <2>1. list'["RUNNING"] = list["RUNNING"]
      BY <1>7 DEF ManageMemory, ReceiveInitStructures, list_replace,
         ReceivePageFaultResponse, schedule_next_to, ReadyQueue
    <2>2. UNCHANGED <<toCpu, fromCpu, cpu, dispatch>>
      BY <1>7 DEF ManageMemory, ReceiveInitStructures,
         ReceivePageFaultResponse, cpuConnection, peerVars
    <2> QED
      BY <2>1, <2>2, RunningKept
  <1>8. CASE Cpu
    <2>1. CASE CpuReceive
      <3>1. Len(toCpu') = Len(toCpu) - 1
        BY <2>1, HeadTail DEF CpuReceive
      <3>2. UNCHANGED <<fromCpu, dispatch, list>> /\ cpu = NoProcess
        BY <2>1 DEF CpuReceive, pcbVars
      <3> QED
        BY <3>1, <3>2 DEF RunningCoversCpu, OutOfLists
    <2>2. CASE CpuExecute
      BY <2>2, KernelUnchanged, RunningKept DEF CpuExecute, cpuConnection, pcbVars
    <2>3. CASE CpuReturn
      <3>1. [op |-> IF event # "none" THEN event ELSE "EXECUTE_INTERRUPTION",
             pcb |-> cpu] \in ReturnMessage
        BY <2>3 DEF CpuReturn, CpuType, ReturnMessage, ReturnOp
      <3>2. Len(fromCpu') = Len(fromCpu) + 1
        BY <2>3, <3>1, AppendType DEF CpuReturn
      <3>3. UNCHANGED <<toCpu, dispatch, list>> /\ cpu # NoProcess /\ cpu' = NoProcess
        BY <2>3 DEF CpuReturn, pcbVars
      <3> QED
        BY <3>2, <3>3 DEF RunningCoversCpu, OutOfLists
    <2> QED
      BY <1>8, <2>1, <2>2, <2>3 DEF Cpu
  <1> QED
    BY <1>1, <1>2, <1>3, <1>4, <1>5, <1>6, <1>7, <1>8 DEF Next

(* The four parts together.                                                *)
LEMMA ListInvNext == TypeOK /\ ListInv /\ [Next]_vars => ListInv'
  <1>1. ASSUME ListInv, UNCHANGED vars PROVE ListInv'
    BY <1>1 DEF ListInv, OwnQueues, NewCoversAdmitting, Admitting,
       ReadyCoversTokens, ReadyTokens, ReadyCount, RunningCoversCpu,
       OutOfLists, vars, kernelVars, peerVars
  <1>2. ASSUME TypeOK, ListInv, Next PROVE ListInv'
    BY <1>2, OwnQueuesNext, NewCoversNext, ReadyCoversNext, RunningCoversNext
       DEF ListInv
  <1> QED
    BY <1>1, <1>2

(* No list holds anything at the start.                                    *)
LEMMA ListInvInit == Init => ListInv
  <1> SUFFICES ASSUME Init PROVE ListInv
    OBVIOUS
  <1>1. list = [l \in ListName |-> <<>>] /\ sem["process_in_ready"] = 0
        /\ scheduler = "ready"
    BY DEF Init, KernelInit, SemName
  <1>2. OwnQueues /\ ReadyCoversTokens
    BY <1>1 DEF OwnQueues, ListName, ReadyCoversTokens, ReadyTokens, ReadyCount
  <1>3. NewCoversAdmitting
    <2>1. Admitting = {}
      BY DEF Init, KernelInit, Admitting
    <2> QED
      BY <1>1, <2>1, FS_EmptySet DEF NewCoversAdmitting, ListName
  <1>4. RunningCoversCpu
    BY <1>1 DEF Init, KernelInit, RunningCoversCpu, OutOfLists, ListName
  <1> QED
    BY <1>2, <1>3, <1>4 DEF ListInv

(* What ListInv is for.                                                    *)
LEMMA ListInvEnough == TypeOK /\ ListInv => NoEmptyRemove
  <1> SUFFICES ASSUME TypeOK, ListInv PROVE NoEmptyRemove
    OBVIOUS
  <1> USE DEF TypeOK, PcbType, ListName
  <1>1. ASSUME NEW p \in Process, thread[p] \in {"grado", "init"}
        PROVE  list["NEW"] # <<>>
    <2>1. p \in Admitting
      BY <1>1 DEF Admitting
    <2>2. Cardinality(Admitting) # 0
      BY <2>1, AdmittingFinite, FS_EmptySet
    <2> QED
      BY <2>2 DEF ListInv, NewCoversAdmitting
  <1>2. ReadyTokens <= ReadyCount
    BY DEF ListInv, ReadyCoversTokens
  <1>3. ASSUME scheduler = "cpu" PROVE list[NextQueue] # <<>>
    <2>1. ReadyCount >= 1
      BY <1>2, <1>3, ReadyCountType DEF ReadyTokens, SemType, SemName
    <2>2. CASE Algorithm # "FEEDBACK"
      BY <2>1, <2>2 DEF NextQueue, ListInv, OwnQueues, ReadyCount
    <2>3. CASE Algorithm = "FEEDBACK"
      BY <2>1, <2>3 DEF NextQueue, ListInv, OwnQueues, ReadyCount
    <2> QED
      BY <2>2, <2>3
  <1>4. ASSUME dispatch.op \notin ({"none", "IO_CONSOLE"} \cup Device)
        PROVE  list["RUNNING"] # <<>>
    <2>1. dispatch # Idle
      BY <1>4 DEF Idle
    <2> QED
      BY <2>1 DEF ListInv, RunningCoversCpu, OutOfLists, CpuConnectionType
  <1> QED
    BY <1>1, <1>2, <1>3, <1>4 DEF NoEmptyRemove

(* For every algorithm, program and number of consoles, no thread of the   *)
(* kernel reads or shortens an empty list: list_get and list_remove never  *)
(* hand it a NULL.                                                         *)
THEOREM ListsNeverEmpty == Spec => []NoEmptyRemove
  <1>1. Spec => []ListInv
    BY ListInvInit, ListInvNext, TypeCorrect, PTL DEF Spec
  <1> QED
    BY <1>1, ListInvEnough, TypeCorrect, PTL

-----------------------------------------------------------------------------
(* The admission: one console thread at a time is between                  *)
(* sem_schedule_ready and its post, and what it asked the memory, what the *)
(* memory answered and what manage_memory overwrites is the head of        *)
(* list_NEW.                                                               *)
(*                                                                         *)
(* AdmissionExclusive is not inductive: that the head of list_NEW stays    *)
(* while a request or an answer about it is under way needs that the one   *)
(* thread that could remove it waits for a post which only follows the     *)
(* answer.  AdmissionInv says that the request, the answer and the post    *)
(* are never two, and that a thread waits for them.                        *)

(* Some message in s is an o.                                              *)
Sent(s, o) == \E m \in Elements(s) : m.op = o

(* At most one message in s is an o.                                       *)
Once(s, o) == \A i, j \in DOMAIN s : s[i].op = o /\ s[j].op = o => i = j

InitRequest == "INIT_PROCESS_STRUCTURES_MEMORY"

(* A request in the memory's connection, an answer on its way back, or the *)
(* post that manage_memory makes of it.                                    *)
Requested == Sent(toMemory, InitRequest)
Answered  == Sent(fromMemory, "INIT_RESPONSE")
Posted    == sem["init_process_memory"] > 0

(* The console threads past sem_schedule_ready.                            *)
Admitters == {p \in Process : thread[p] \in {"grado", "init"}}

OneAdmits == sem["schedule_ready"] + Cardinality(Admitters) = 1

AboutHeadOfNew ==
    \A m \in Elements(toMemory) \cup Elements(fromMemory) :
       m.op \in {InitRequest, "INIT_RESPONSE"}
         => list["NEW"] # <<>> /\ Head(list["NEW"]) = m.pcb

OneToken ==
    /\ Once(toMemory, InitRequest)
    /\ Once(fromMemory, "INIT_RESPONSE")
    /\ sem["init_process_memory"] <= 1
    /\ ~(Requested /\ Answered)
    /\ ~(Posted /\ (Requested \/ Answered))

SomeoneWaits ==
    Requested \/ Answered \/ Posted => \E p \in Process : thread[p] = "init"

AdmissionInv == OneAdmits /\ AboutHeadOfNew /\ OneToken /\ SomeoneWaits

-----------------------------------------------------------------------------
(* Sequences: the elements of a queue as one more enters and the first one *)
(* leaves.                                                                 *)

NoRepeats(s) == \A i, j \in DOMAIN s : s[i] = s[j] => i = j

LEMMA AppendElements ==
    ASSUME NEW S, NEW s \in Seq(S), NEW e \in S
    PROVE  /\ Elements(Append(s, e)) = Elements(s) \cup {e}
           /\ NoRepeats(s) /\ e \notin Elements(s) => NoRepeats(Append(s, e))
  <1>1. /\ DOMAIN Append(s, e) = 1 .. Len(s) + 1
        /\ DOMAIN s = 1 .. Len(s) /\ Len(s) \in Nat
        /\ \A i \in 1 .. Len(s) : Append(s, e)[i] = s[i]
        /\ Append(s, e)[Len(s) + 1] = e
    OBVIOUS
  <1>2. Elements(Append(s, e)) = Elements(s) \cup {e}
    BY <1>1 DEF Elements
  <1>3. ASSUME NoRepeats(s), e \notin Elements(s) PROVE NoRepeats(Append(s, e))
    <2>1. \A i \in 1 .. Len(s) : s[i] # e
      BY <1>1, <1>3 DEF Elements
    <2> QED
      BY <1>1, <1>3, <2>1 DEF NoRepeats
  <1> QED
    BY <1>2, <1>3

LEMMA TailElements ==
    ASSUME NEW S, NEW s \in Seq(S), s # <<>>
    PROVE  /\ Head(s) \in Elements(s)
           /\ Elements(s) = Elements(Tail(s)) \cup {Head(s)}
           /\ NoRepeats(s) => /\ NoRepeats(Tail(s))
                              /\ Head(s) \notin Elements(Tail(s))
  <1>1. /\ DOMAIN Tail(s) = 1 .. Len(s) - 1
        /\ DOMAIN s = 1 .. Len(s) /\ Len(s) \in Nat \ {0}
        /\ \A i \in 1 .. Len(s) - 1 : Tail(s)[i] = s[i + 1]
        /\ Head(s) = s[1]
    OBVIOUS
  <1>2. Elements(s) = Elements(Tail(s)) \cup {Head(s)}
    <2>1. ASSUME NEW i \in DOMAIN s PROVE s[i] \in Elements(Tail(s)) \cup {Head(s)}
      <3>1. CASE i = 1
        BY <1>1, <3>1
      <3>2. CASE i # 1
        <4>1. i - 1 \in DOMAIN Tail(s) /\ Tail(s)[i - 1] = s[i]
          BY <1>1, <3>2
        <4> QED
          BY <4>1 DEF Elements
      <3> QED
        BY <3>1, <3>2
    <2>2. Elements(Tail(s)) \cup {Head(s)} \subseteq Elements(s)
      BY <1>1 DEF Elements
    <2> QED
      BY <2>1, <2>2 DEF Elements
  <1>3. ASSUME NoRepeats(s) PROVE NoRepeats(Tail(s)) /\ Head(s) \notin Elements(Tail(s))
    BY <1>1, <1>3 DEF NoRepeats, Elements
  <1> QED
    BY <1>2, <1>3

LEMMA ElementsType ==
    ASSUME NEW S, NEW s \in Seq(S)
    PROVE  Elements(s) \subseteq S
  BY DEF Elements

(* The messages of one kind as one more enters and the first one leaves.   *)
LEMMA AppendMessage ==
    ASSUME NEW S, NEW s \in Seq(S), NEW e \in S, NEW o
    PROVE  /\ Sent(Append(s, e), o) <=> Sent(s, o) \/ e.op = o
           /\ Once(s, o) /\ (e.op # o \/ ~Sent(s, o)) => Once(Append(s, e), o)
  <1>1. /\ DOMAIN Append(s, e) = 1 .. Len(s) + 1
        /\ DOMAIN s = 1 .. Len(s) /\ Len(s) \in Nat
        /\ \A i \in 1 .. Len(s) : Append(s, e)[i] = s[i]
        /\ Append(s, e)[Len(s) + 1] = e
    OBVIOUS
  <1>2. Sent(Append(s, e), o) <=> Sent(s, o) \/ e.op = o
    BY AppendElements DEF Sent
  <1>3. ASSUME Once(s, o), e.op # o \/ ~Sent(s, o) PROVE Once(Append(s, e), o)
    <2>1. e.op = o => \A i \in 1 .. Len(s) : s[i].op # o
      BY <1>1, <1>3 DEF Sent, Elements
    <2> QED
      BY <1>1, <1>3, <2>1 DEF Once
  <1> QED
    BY <1>2, <1>3

LEMMA TailMessage ==
    ASSUME NEW S, NEW s \in Seq(S), s # <<>>, NEW o
    PROVE  /\ Sent(s, o) <=> Sent(Tail(s), o) \/ Head(s).op = o
           /\ Once(s, o) => /\ Once(Tail(s), o)
                            /\ Head(s).op = o => ~Sent(Tail(s), o)
  <1>1. /\ DOMAIN Tail(s) = 1 .. Len(s) - 1
        /\ DOMAIN s = 1 .. Len(s) /\ Len(s) \in Nat \ {0}
        /\ \A i \in 1 .. Len(s) - 1 : Tail(s)[i] = s[i + 1]
        /\ Head(s) = s[1]
    OBVIOUS
  <1>2. Sent(s, o) <=> Sent(Tail(s), o) \/ Head(s).op = o
    BY TailElements DEF Sent
  <1>3. ASSUME Once(s, o) PROVE Once(Tail(s), o)
    BY <1>1, <1>3 DEF Once
  <1>4. ASSUME Once(s, o), Head(s).op = o PROVE ~Sent(Tail(s), o)
    <2>1. \A i \in 1 .. Len(s) - 1 : s[i + 1].op # o
      BY <1>1, <1>4 DEF Once
    <2> QED
      BY <1>1, <2>1 DEF Sent, Elements
  <1> QED
    BY <1>2, <1>3, <1>4

-----------------------------------------------------------------------------
(* The threads past sem_schedule_ready.                                    *)

LEMMA AdmittersFinite == IsFiniteSet(Admitters) /\ Cardinality(Admitters) \in Nat
  <1>1. IsFiniteSet(Admitters)
    BY ProcessAssumption, FS_Subset DEF Admitters
  <1> QED
    BY <1>1, FS_CardinalityType

(* With OneAdmits they are one at most, and none while the semaphore is up. *)
LEMMA OneAdmitter ==
    ASSUME SemType, OneAdmits, NEW p \in Admitters
    PROVE  Admitters = {p} /\ sem["schedule_ready"] = 0
  <1>1. Cardinality(Admitters) <= 1
    BY AdmittersFinite DEF OneAdmits, SemType, SemName
  <1>2. IsFiniteSet(Admitters \ {p})
        /\ Cardinality(Admitters \ {p}) = Cardinality(Admitters) - 1
    BY AdmittersFinite, FS_RemoveElement
  <1>3. Cardinality(Admitters \ {p}) \in Nat
    BY <1>2, FS_CardinalityType
  <1>4. Cardinality(Admitters \ {p}) = 0 /\ Cardinality(Admitters) = 1
    BY <1>1, <1>2, <1>3, AdmittersFinite
  <1>5. Admitters \ {p} = {}
    BY <1>2, <1>4, FS_EmptySet
  <1> QED
    BY <1>4, <1>5 DEF OneAdmits, SemType, SemName

(* A thread enters when none is there, and leaves them empty.              *)
LEMMA AdmitterEnters ==
    ASSUME SemType, ThreadType, OneAdmits, NEW p \in Process,
           thread[p] = "schedule", thread' = [thread EXCEPT ![p] = "grado"],
           Sem_wait("schedule_ready")
    PROVE  OneAdmits'
  <1>1. Admitters' = Admitters \cup {p} /\ p \notin Admitters
    BY DEF Admitters, ThreadType
  <1>2. Cardinality(Admitters') = Cardinality(Admitters) + 1
    BY <1>1, AdmittersFinite, FS_AddElement
  <1>3. sem'["schedule_ready"] = sem["schedule_ready"] - 1
    BY DEF Sem_wait, SemType, SemName
  <1> QED
    BY <1>2, <1>3, AdmittersFinite DEF OneAdmits, SemType, SemName

LEMMA AdmitterLeaves ==
    ASSUME SemType, ThreadType, OneAdmits, NEW p \in Process,
           thread[p] = "init", thread' = [thread EXCEPT ![p] = "receive"],
           sem'["schedule_ready"] = sem["schedule_ready"] + 1
    PROVE  OneAdmits' /\ Admitters' = {}
  <1>1. Admitters' = Admitters \ {p} /\ p \in Admitters
    BY DEF Admitters, ThreadType
  <1>2. Admitters = {p} /\ sem["schedule_ready"] = 0
    BY <1>1, OneAdmitter
  <1>3. Admitters' = {}
    BY <1>1, <1>2
  <1> QED
    BY <1>2, <1>3, FS_EmptySet DEF OneAdmits

LEMMA AdmittersStay ==
    ASSUME ThreadType, OneAdmits, NEW p \in Process,
           sem'["schedule_ready"] = sem["schedule_ready"],
           \/ UNCHANGED thread
           \/ thread[p] = "grado" /\ thread' = [thread EXCEPT ![p] = "init"]
           \/ thread[p] = "receive" /\ thread' = [thread EXCEPT ![p] = "schedule"]
           \/ thread[p] = "receive" /\ thread' = [thread EXCEPT ![p] = "ended"]
    PROVE  OneAdmits'
  <1>1. Admitters' = Admitters
    BY DEF Admitters, ThreadType
  <1> QED
    BY <1>1 DEF OneAdmits

-----------------------------------------------------------------------------
(* The steps that have no part in an admission.                            *)

LEMMA AdmissionKept ==
    ASSUME TypeOK, AdmissionInv, UNCHANGED <<thread, memoryConnection>>,
           list'["NEW"] = list["NEW"],
           sem'["schedule_ready"] = sem["schedule_ready"],
           sem'["init_process_memory"] = sem["init_process_memory"]
    PROVE  AdmissionInv'
  <1>1. Admitters' = Admitters
    BY DEF Admitters
  <1>2. OneAdmits'
    BY <1>1 DEF AdmissionInv, OneAdmits
  <1>3. AboutHeadOfNew'
    BY DEF AdmissionInv, AboutHeadOfNew, memoryConnection
  <1>4. OneToken' /\ SomeoneWaits'
    BY DEF AdmissionInv, OneToken, SomeoneWaits, Requested, Answered, Posted,
       memoryConnection
  <1> QED
    BY <1>2, <1>3, <1>4 DEF AdmissionInv

(* A request of another kind joins the connection.                         *)
LEMMA OtherRequest ==
    ASSUME TypeOK, AdmissionInv, UNCHANGED <<thread, fromMemory, sem>>,
           list'["NEW"] = list["NEW"],
           NEW m \in MemoryRequest, m.op # InitRequest,
           toMemory' = Append(toMemory, m)
    PROVE  AdmissionInv'
  <1>1. toMemory \in Seq(MemoryRequest)
    BY DEF TypeOK, MemoryConnectionType
  <1>2. Elements(toMemory') = Elements(toMemory) \cup {m}
    BY <1>1, AppendElements
  <1>3. /\ Requested' <=> Requested
        /\ Once(toMemory, InitRequest) => Once(toMemory', InitRequest)
    BY <1>1, AppendMessage DEF Requested
  <1>4. m.op # "INIT_RESPONSE"
    BY DEF MemoryRequest
  <1>5. AboutHeadOfNew'
    BY <1>2, <1>4 DEF AdmissionInv, AboutHeadOfNew
  <1>6. Admitters' = Admitters /\ OneAdmits'
    BY DEF Admitters, AdmissionInv, OneAdmits
  <1>7. OneToken' /\ SomeoneWaits'
    BY <1>3 DEF AdmissionInv, OneToken, SomeoneWaits, Answered, Posted
  <1> QED
    BY <1>5, <1>6, <1>7 DEF AdmissionInv

(* What is still in a connection when its first message is read.           *)
LEMMA RequestRead ==
    ASSUME TypeOK, AdmissionInv, toMemory # <<>>
    PROVE  /\ Head(toMemory) \in MemoryRequest
           /\ Elements(Tail(toMemory)) \subseteq Elements(toMemory)
           /\ Head(toMemory) \in Elements(toMemory)
           /\ Once(Tail(toMemory), InitRequest)
           /\ Requested <=> Sent(Tail(toMemory), InitRequest)
                              \/ Head(toMemory).op = InitRequest
           /\ Head(toMemory).op = InitRequest => ~Sent(Tail(toMemory), InitRequest)
  <1>1. toMemory \in Seq(MemoryRequest)
    BY DEF TypeOK, MemoryConnectionType
  <1>2. Head(toMemory) \in MemoryRequest
    BY <1>1, HeadTail
  <1>3. Once(toMemory, InitRequest)
    BY DEF AdmissionInv, OneToken
  <1> QED
    BY <1>1, <1>2, <1>3, TailElements, TailMessage DEF Requested

LEMMA AnswerRead ==
    ASSUME TypeOK, AdmissionInv, fromMemory # <<>>
    PROVE  /\ Head(fromMemory) \in MemoryAnswer
           /\ Elements(Tail(fromMemory)) \subseteq Elements(fromMemory)
           /\ Head(fromMemory) \in Elements(fromMemory)
           /\ Once(Tail(fromMemory), "INIT_RESPONSE")
           /\ Answered <=> Sent(Tail(fromMemory), "INIT_RESPONSE")
                             \/ Head(fromMemory).op = "INIT_RESPONSE"
           /\ Head(fromMemory).op = "INIT_RESPONSE"
                => ~Sent(Tail(fromMemory), "INIT_RESPONSE")
  <1>1. fromMemory \in Seq(MemoryAnswer)
    BY DEF TypeOK, MemoryConnectionType
  <1>2. Head(fromMemory) \in MemoryAnswer
    BY <1>1, HeadTail
  <1>3. Once(fromMemory, "INIT_RESPONSE")
    BY DEF AdmissionInv, OneToken
  <1> QED
    BY <1>1, <1>2, <1>3, TailElements, TailMessage DEF Answered

-----------------------------------------------------------------------------
(* receive_console, step by step.                                          *)

LEMMA ReceiveInitProcessAdmission ==
    ASSUME TypeOK, AdmissionInv, NEW p \in Process, ReceiveInitProcess(p)
    PROVE  AdmissionInv'
  <1>1. /\ UNCHANGED <<sem, toMemory, fromMemory>>
        /\ thread[p] = "receive"
        /\ thread' = [thread EXCEPT ![p] = "schedule"]
        /\ list'["NEW"] = Append(list["NEW"], p)
    BY DEF ReceiveInitProcess, schedule_next_to, memoryConnection, TypeOK,
       PcbType, ListName
  <1>2. OneAdmits'
    BY <1>1, AdmittersStay DEF TypeOK, AdmissionInv
  <1>3. list["NEW"] # <<>> =>
          list'["NEW"] # <<>> /\ Head(list'["NEW"]) = Head(list["NEW"])
    <2>1. list["NEW"] \in Seq(Process)
      BY DEF TypeOK, PcbType, ListName
    <2> QED
      BY <1>1, <2>1
  <1>4. AboutHeadOfNew'
    BY <1>1, <1>3 DEF AdmissionInv, AboutHeadOfNew
  <1>5. \A q \in Process : thread[q] = "init" => thread'[q] = "init"
    BY <1>1 DEF TypeOK, ThreadType
  <1>6. OneToken' /\ SomeoneWaits'
    BY <1>1, <1>5 DEF AdmissionInv, OneToken, SomeoneWaits, Requested,
       Answered, Posted
  <1> QED
    BY <1>2, <1>4, <1>6 DEF AdmissionInv

LEMMA EnterScheduleReadyAdmission ==
    ASSUME TypeOK, AdmissionInv, NEW p \in Process, EnterScheduleReady(p)
    PROVE  AdmissionInv'
  <1>1. /\ UNCHANGED <<toMemory, fromMemory, list>>
        /\ thread[p] = "schedule"
        /\ thread' = [thread EXCEPT ![p] = "grado"]
        /\ Sem_wait("schedule_ready")
    BY DEF EnterScheduleReady, memoryConnection, pcbVars
  <1>2. OneAdmits'
    BY <1>1, AdmitterEnters DEF TypeOK, AdmissionInv
  <1>3. sem'["init_process_memory"] = sem["init_process_memory"]
    BY <1>1 DEF Sem_wait, TypeOK, SemType, SemName
  <1>4. \A q \in Process : thread[q] = "init" => thread'[q] = "init"
    BY <1>1 DEF TypeOK, ThreadType
  <1>5. AboutHeadOfNew' /\ OneToken' /\ SomeoneWaits'
    BY <1>1, <1>3, <1>4 DEF AdmissionInv, AboutHeadOfNew, OneToken,
       SomeoneWaits, Requested, Answered, Posted
  <1> QED
    BY <1>2, <1>5 DEF AdmissionInv

(* While a thread is about to ask, nothing is under way: it is the only    *)
(* one that could have waited for it.                                      *)
LEMMA NothingUnderWay ==
    ASSUME TypeOK, AdmissionInv, NEW p \in Process, thread[p] = "grado"
    PROVE  ~Requested /\ ~Answered /\ ~Posted
  <1>1. \A q \in Process : thread[q] = "init" => q \in Admitters
    BY DEF Admitters
  <1>2. p \in Admitters
    BY DEF Admitters
  <1>3. \A q \in Process : thread[q] # "init"
    BY <1>1, <1>2, OneAdmitter DEF TypeOK, AdmissionInv
  <1> QED
    BY <1>3 DEF AdmissionInv, SomeoneWaits

LEMMA InitStructuresMemoryAdmission ==
    ASSUME TypeOK, AdmissionInv, NEW p \in Process, InitStructuresMemory(p)
    PROVE  AdmissionInv'
  <1> DEFINE m == [op |-> InitRequest, pcb |-> Head(list["NEW"])]
  <1>1. /\ UNCHANGED <<fromMemory, list>>
        /\ thread[p] = "grado"
        /\ thread' = [thread EXCEPT ![p] = "init"]
        /\ Sem_wait("grado_multiprogamacion")
        /\ list["NEW"] # <<>>
        /\ toMemory' = Append(toMemory, m)
    BY DEF InitStructuresMemory, pcbVars, InitRequest
  <1>2. list["NEW"] \in Seq(Process) /\ toMemory \in Seq(MemoryRequest)
    BY DEF TypeOK, PcbType, ListName, MemoryConnectionType
  <1>3. m \in MemoryRequest
    BY <1>1, <1>2, HeadTail DEF MemoryRequest, InitRequest
  <1>4. UNCHANGED <<sem["schedule_ready"], sem["init_process_memory"]>>
    BY <1>1 DEF Sem_wait, TypeOK, SemType, SemName
  <1>5. OneAdmits'
    BY <1>1, <1>4, AdmittersStay DEF TypeOK, AdmissionInv
  <1>6. ~Requested /\ ~Answered /\ ~Posted
    BY <1>1, NothingUnderWay
  <1>7. Elements(toMemory') = Elements(toMemory) \cup {m} /\ Once(toMemory', InitRequest)
    BY <1>1, <1>2, <1>3, <1>6, AppendElements, AppendMessage
       DEF Requested, AdmissionInv, OneToken
  <1>8. AboutHeadOfNew'
    BY <1>1, <1>7 DEF AdmissionInv, AboutHeadOfNew
  <1>9. OneToken'
    BY <1>1, <1>4, <1>6, <1>7 DEF AdmissionInv, OneToken, Answered, Posted
  <1>10. SomeoneWaits'
    BY <1>1 DEF SomeoneWaits, TypeOK, ThreadType
  <1> QED
    BY <1>5, <1>8, <1>9, <1>10 DEF AdmissionInv

(* The post arrived: no request or answer is left that speaks of the head. *)
LEMMA ScheduleNextToReadyAdmission ==
    ASSUME TypeOK, AdmissionInv, NEW p \in Process, ScheduleNextToReady(p)
    PROVE  AdmissionInv'
  <1>1. /\ UNCHANGED <<toMemory, fromMemory>>
        /\ thread[p] = "init"
        /\ thread' = [thread EXCEPT ![p] = "receive"]
        /\ sem["init_process_memory"] > 0
    BY DEF ScheduleNextToReady, memoryConnection
  <1>2. /\ sem'["schedule_ready"] = sem["schedule_ready"] + 1
        /\ sem'["init_process_memory"] = sem["init_process_memory"] - 1
    BY DEF ScheduleNextToReady, TypeOK, SemType, SemName
  <1>3. OneAdmits'
    BY <1>1, <1>2, AdmitterLeaves DEF TypeOK, AdmissionInv
  <1>4. ~Requested /\ ~Answered /\ sem["init_process_memory"] = 1
    BY <1>1 DEF AdmissionInv, OneToken, Posted, TypeOK, SemType, SemName
  <1>5. ~Requested' /\ ~Answered' /\ sem'["init_process_memory"] = 0
    BY <1>1, <1>2, <1>4 DEF Requested, Answered
  <1>6. AboutHeadOfNew'
    <2>1. \A m \in Elements(toMemory) : m.op \in {InitRequest, "INIT_RESPONSE"} => FALSE
      <3>1. \A m \in Elements(toMemory) : m.op # "INIT_RESPONSE"
        BY ElementsType DEF TypeOK, MemoryConnectionType, MemoryRequest
      <3> QED
        BY <1>4, <3>1 DEF Requested, Sent
    <2>2. \A m \in Elements(fromMemory) : m.op \in {InitRequest, "INIT_RESPONSE"} => FALSE
      <3>1. \A m \in Elements(fromMemory) : m.op # InitRequest
        BY ElementsType DEF TypeOK, MemoryConnectionType, MemoryAnswer, InitRequest
      <3> QED
        BY <1>4, <3>1 DEF Answered, Sent
    <2> QED
      BY <1>1, <2>1, <2>2 DEF AboutHeadOfNew
  <1>7. OneToken' /\ SomeoneWaits'
    BY <1>1, <1>5 DEF AdmissionInv, OneToken, SomeoneWaits, Posted
  <1> QED
    BY <1>3, <1>6, <1>7 DEF AdmissionInv

LEMMA ReceiveDisconnectionAdmission ==
    ASSUME TypeOK, AdmissionInv, NEW p \in Process, ReceiveDisconnection(p)
    PROVE  AdmissionInv'
  <1>1. /\ UNCHANGED <<sem, toMemory, fromMemory, list>>
        /\ thread[p] = "receive"
        /\ thread' = [thread EXCEPT ![p] = "ended"]
    BY DEF ReceiveDisconnection, memoryConnection, pcbVars
  <1>2. OneAdmits'
    BY <1>1, AdmittersStay DEF TypeOK, AdmissionInv
  <1>3. \A q \in Process : thread[q] = "init" => thread'[q] = "init"
    BY <1>1 DEF TypeOK, ThreadType
  <1>4. AboutHeadOfNew' /\ OneToken' /\ SomeoneWaits'
    BY <1>1, <1>3 DEF AdmissionInv, AboutHeadOfNew, OneToken, SomeoneWaits,
       Requested, Answered, Posted
  <1> QED
    BY <1>2, <1>4 DEF AdmissionInv

LEMMA ConsoleThreadAdmission ==
    ASSUME TypeOK, AdmissionInv, NEW p \in Process, ConsoleThread(p)
    PROVE  AdmissionInv'
  <1>1. CASE ReceiveIoResponse(p)
    BY <1>1, AdmissionKept DEF ReceiveIoResponse, schedule_next_to, ReadyQueue,
       Sem_post, TypeOK, PcbType, ListName, SemType, SemName
  <1> QED
    BY <1>1, ReceiveInitProcessAdmission, EnterScheduleReadyAdmission,
       InitStructuresMemoryAdmission, ScheduleNextToReadyAdmission,
       ReceiveDisconnectionAdmission DEF ConsoleThread

-----------------------------------------------------------------------------
(* manage_memory and the memory.                                           *)

(* The answer is about the head, so the head is replaced by itself; the    *)
(* post takes the place of the answer.                                     *)
LEMMA HeadReplacedByItself ==
    ASSUME TypeOK, AdmissionInv, ReceiveInitStructures
    PROVE  list' = list
  <1>1. Head(fromMemory) \in Elements(fromMemory)
    BY AnswerRead DEF ReceiveInitStructures
  <1>2. list["NEW"] # <<>> /\ Head(list["NEW"]) = Head(fromMemory).pcb
    BY <1>1 DEF ReceiveInitStructures, AdmissionInv, AboutHeadOfNew
  <1>3. list["NEW"] \in Seq(Process)
    BY DEF TypeOK, PcbType, ListName
  <1>4. list_replace(list["NEW"], Head(fromMemory).pcb) = list["NEW"]
    BY <1>2, <1>3 DEF list_replace
  <1>5. list' = [list EXCEPT !["NEW"] = list["NEW"]]
    BY <1>4 DEF ReceiveInitStructures
  <1> QED
    BY <1>5 DEF TypeOK, PcbType, ListName

LEMMA ManageMemoryAdmission ==
    ASSUME TypeOK, AdmissionInv, ManageMemory
    PROVE  AdmissionInv'
  <1>1. CASE ReceiveInitStructures
    <2>1. UNCHANGED <<list, thread, toMemory>>
          /\ fromMemory # <<>> /\ Head(fromMemory).op = "INIT_RESPONSE"
          /\ fromMemory' = Tail(fromMemory)
      BY <1>1, HeadReplacedByItself DEF ReceiveInitStructures
    <2>2. /\ sem'["schedule_ready"] = sem["schedule_ready"]
          /\ sem'["init_process_memory"] = sem["init_process_memory"] + 1
      BY <1>1 DEF ReceiveInitStructures, Sem_post, TypeOK, SemType, SemName
    <2>3. /\ Answered /\ ~Answered' /\ Once(fromMemory', "INIT_RESPONSE")
          /\ Elements(fromMemory') \subseteq Elements(fromMemory)
      BY <2>1, AnswerRead DEF Answered
    <2>4. ~Requested /\ ~Requested' /\ ~Posted
      BY <2>1, <2>3 DEF AdmissionInv, OneToken, Requested
    <2>5. sem'["init_process_memory"] = 1
      BY <2>2, <2>4 DEF Posted, TypeOK, SemType, SemName
    <2>6. OneAdmits' /\ AboutHeadOfNew'
      BY <2>1, <2>2, <2>3 DEF AdmissionInv, OneAdmits, Admitters, AboutHeadOfNew
    <2>7. OneToken' /\ SomeoneWaits'
      BY <2>1, <2>3, <2>4, <2>5 DEF AdmissionInv, OneToken, SomeoneWaits
    <2> QED
      BY <2>6, <2>7 DEF AdmissionInv
  <1>2. CASE ReceivePageFaultResponse
    <2>1. UNCHANGED <<thread, toMemory>>
          /\ fromMemory # <<>> /\ Head(fromMemory).op # "INIT_RESPONSE"
          /\ fromMemory' = Tail(fromMemory)
      BY <1>2 DEF ReceivePageFaultResponse
    <2>2. /\ sem'["schedule_ready"] = sem["schedule_ready"]
          /\ sem'["init_process_memory"] = sem["init_process_memory"]
          /\ list'["NEW"] = list["NEW"]
      BY <1>2 DEF ReceivePageFaultResponse, schedule_next_to, ReadyQueue,
         Sem_post, TypeOK, SemType, SemName, PcbType, ListName
    <2>3. /\ Answered' <=> Answered
          /\ Once(fromMemory', "INIT_RESPONSE")
          /\ Elements(fromMemory') \subseteq Elements(fromMemory)
      BY <2>1, AnswerRead DEF Answered
    <2>4. OneAdmits' /\ AboutHeadOfNew'
      BY <2>1, <2>2, <2>3 DEF AdmissionInv, OneAdmits, Admitters, AboutHeadOfNew
    <2>5. OneToken' /\ SomeoneWaits'
      BY <2>1, <2>2, <2>3 DEF AdmissionInv, OneToken, SomeoneWaits, Requested, Posted
    <2> QED
      BY <2>4, <2>5 DEF AdmissionInv
  <1> QED
    BY <1>1, <1>2 DEF ManageMemory

LEMMA MemoryAdmission ==
    ASSUME TypeOK, AdmissionInv, Memory
    PROVE  AdmissionInv'
  <1>1. /\ UNCHANGED <<sem, thread, list>>
        /\ toMemory # <<>> /\ toMemory' = Tail(toMemory)
    BY DEF Memory, MemoryInit, MemoryLoadPage, MemoryEnd, pcbVars
  <1>2. OneAdmits'
    BY <1>1 DEF AdmissionInv, OneAdmits, Admitters
  <1>3. /\ Once(toMemory', InitRequest)
        /\ Elements(toMemory') \subseteq Elements(toMemory)
        /\ Requested <=> Requested' \/ Head(toMemory).op = InitRequest
        /\ Head(toMemory).op = InitRequest => ~Requested'
    BY <1>1, RequestRead DEF Requested
  <1>4. fromMemory \in Seq(MemoryAnswer)
    BY DEF TypeOK, MemoryConnectionType
  <1>5. CASE MemoryInit
    <2> DEFINE m == [op |-> "INIT_RESPONSE", pcb |-> Head(toMemory).pcb]
    <2>1. m \in MemoryAnswer /\ fromMemory' = Append(fromMemory, m)
          /\ Head(toMemory).op = InitRequest
      BY <1>1, <1>5, RequestRead DEF MemoryInit, MemoryAnswer, MemoryRequest, InitRequest
    <2>2. Requested /\ ~Answered /\ ~Posted /\ ~Requested'
      BY <1>3, <2>1 DEF AdmissionInv, OneToken
    <2>3. Once(fromMemory', "INIT_RESPONSE")
          /\ Elements(fromMemory') = Elements(fromMemory) \cup {m}
      BY <1>4, <2>1, <2>2, AppendMessage, AppendElements
         DEF Answered, AdmissionInv, OneToken
    <2>4. list["NEW"] # <<>> /\ Head(list["NEW"]) = m.pcb
      BY <1>1, <2>1, RequestRead DEF AdmissionInv, AboutHeadOfNew
    <2>5. AboutHeadOfNew'
      BY <1>1, <1>3, <2>3, <2>4 DEF AdmissionInv, AboutHeadOfNew
    <2>6. OneToken' /\ SomeoneWaits'
      BY <1>1, <1>3, <2>2, <2>3 DEF AdmissionInv, OneToken, SomeoneWaits, Posted
    <2> QED
      BY <1>2, <2>5, <2>6 DEF AdmissionInv
  <1>6. CASE MemoryLoadPage
    <2> DEFINE m == [op |-> "RESPONSE_PAGE_FAULT", pcb |-> Head(toMemory).pcb]
    <2>1. m \in MemoryAnswer /\ fromMemory' = Append(fromMemory, m)
          /\ Head(toMemory).op # InitRequest
      BY <1>1, <1>6, RequestRead DEF MemoryLoadPage, MemoryAnswer, MemoryRequest, InitRequest
    <2>2. /\ Requested' <=> Requested
          /\ Once(fromMemory', "INIT_RESPONSE")
          /\ Answered' <=> Answered
          /\ Elements(fromMemory') = Elements(fromMemory) \cup {m}
      BY <1>3, <1>4, <2>1, AppendMessage, AppendElements
         DEF Answered, AdmissionInv, OneToken
    <2>3. AboutHeadOfNew'
      BY <1>1, <1>3, <2>2 DEF AdmissionInv, AboutHeadOfNew, InitRequest
    <2>4. OneToken' /\ SomeoneWaits'
      BY <1>1, <1>3, <2>2 DEF AdmissionInv, OneToken, SomeoneWaits, Posted
    <2> QED
      BY <1>2, <2>3, <2>4 DEF AdmissionInv
  <1>7. CASE MemoryEnd
    <2>1. fromMemory' = fromMemory /\ Head(toMemory).op # InitRequest
      BY <1>7 DEF MemoryEnd, InitRequest
    <2>2. AboutHeadOfNew'
      BY <1>1, <1>3, <2>1 DEF AdmissionInv, AboutHeadOfNew
    <2>3. OneToken' /\ SomeoneWaits'
      BY <1>1, <1>3, <2>1 DEF AdmissionInv, OneToken, SomeoneWaits, Posted, Answered
    <2> QED
      BY <1>2, <2>2, <2>3 DEF AdmissionInv
  <1> QED
    BY <1>5, <1>6, <1>7 DEF Memory

-----------------------------------------------------------------------------
(* Every step.                                                             *)

LEMMA DispatchAdmission ==
    ASSUME TypeOK, AdmissionInv, Dispatch
    PROVE  AdmissionInv'
  <1>1. CASE DispatchEnd
    <2> DEFINE m == [op |-> "END_STRUCTURES", pcb |-> dispatch.pcb]
    <2>1. m \in MemoryRequest /\ m.op # InitRequest
      BY <1>1, DispatchPcb DEF DispatchEnd, Ends, TypeOK, MemoryRequest, InitRequest
    <2>2. UNCHANGED <<thread, fromMemory, sem>> /\ list'["NEW"] = list["NEW"]
          /\ toMemory' = Append(toMemory, m)
      BY <1>1 DEF DispatchEnd, RunningWithoutHead, TypeOK, PcbType, ListName
    <2> QED
      BY <2>1, <2>2, OtherRequest
  <1>2. CASE ~DispatchEnd
    <2>1. UNCHANGED <<thread, memoryConnection>>
      BY <1>2 DEF Dispatch, DispatchReceive, DispatchNullUltimo,
         DispatchIoConsole, DispatchIoDefault, DispatchInterruption,
         DispatchPageFault
    <2>2. list'["NEW"] = list["NEW"]
      BY <1>2 DEF Dispatch, DispatchReceive, DispatchNullUltimo,
         DispatchIoConsole, DispatchIoDefault, DispatchInterruption,
         DispatchPageFault, schedule_next_to, RunningWithoutHead,
         PreemptedQueue, pcbVars, TypeOK, PcbType, ListName
    <2>3. /\ sem'["schedule_ready"] = sem["schedule_ready"]
          /\ sem'["init_process_memory"] = sem["init_process_memory"]
      BY <1>2 DEF Dispatch, DispatchReceive, DispatchNullUltimo,
         DispatchIoConsole, DispatchIoDefault, DispatchInterruption,
         DispatchPageFault, FreedBy, Sem_post, TypeOK, SemType, SemName
    <2> QED
      BY <2>1, <2>2, <2>3, AdmissionKept
  <1> QED
    BY <1>1, <1>2

LEMMA AdmissionNext ==
    ASSUME TypeOK, AdmissionInv, Next
    PROVE  AdmissionInv'
  <1> USE DEF TypeOK, PcbType, ListName, SemType, SemName
  <1>1. ASSUME NEW p \in Process, PageFaultThread(p) PROVE AdmissionInv'
    <2>1. [op |-> "REQUEST_PAGE_FAULT", pcb |-> p] \in MemoryRequest
      BY DEF MemoryRequest
    <2> QED
      BY <1>1, <2>1, OtherRequest DEF PageFaultThread, ResolvePageFault, InitRequest
  <1>2. ASSUME NEW p \in Process, Console(p) PROVE AdmissionInv'
    BY <1>2, AdmissionKept DEF Console, ConsoleStart, ConsoleAnswer, ConsoleEnd, pcbVars
  <1>3. ASSUME NEW d \in Device, DeviceThread(d) PROVE AdmissionInv'
    BY <1>3, AdmissionKept DEF DeviceThread, DeviceBegin, DeviceFinish,
       schedule_next_to, ReadyQueue, Sem_post, pcbVars
  <1>4. CASE Scheduler
    BY <1>4, AdmissionKept DEF Scheduler, WaitProcessInReady,
       ScheduleNextToRunning, RecordUltimo, NextQueue, Sem_wait, Sem_post, pcbVars
  <1>5. CASE Clock \/ Interrupt
    BY <1>5, AdmissionKept DEF Clock, ClockBegin, ClockRestart, ClockExpire,
       ClockFinish, Interrupt, ManageInterrupt, Sem_wait, Sem_post, pcbVars
  <1>6. CASE Cpu \/ CpuInterrupt
    BY <1>6, AdmissionKept, KernelUnchanged DEF Cpu, CpuReceive, CpuExecute,
       CpuReturn, CpuInterrupt, pcbVars
  <1> QED
    BY <1>1, <1>2, <1>3, <1>4, <1>5, <1>6, ConsoleThreadAdmission,
       DispatchAdmission, ManageMemoryAdmission, MemoryAdmission DEF Next

LEMMA AdmissionInit == Init => AdmissionInv
  <1> SUFFICES ASSUME Init PROVE AdmissionInv
    OBVIOUS
  <1>1. /\ sem["schedule_ready"] = 1 /\ sem["init_process_memory"] = 0
        /\ toMemory = <<>> /\ fromMemory = <<>>
        /\ \A p \in Process : thread[p] = "receive"
    BY DEF Init, KernelInit, SemName
  <1>2. Elements(toMemory) = {} /\ Elements(fromMemory) = {}
    BY <1>1 DEF Elements
  <1>3. OneAdmits
    <2>1. Admitters = {}
      BY <1>1 DEF Admitters
    <2> QED
      BY <1>1, <2>1, FS_EmptySet DEF OneAdmits
  <1>4. AboutHeadOfNew /\ OneToken /\ SomeoneWaits
    BY <1>1, <1>2 DEF AboutHeadOfNew, OneToken, SomeoneWaits, Requested,
       Answered, Posted, Sent, Once
  <1> QED
    BY <1>3, <1>4 DEF AdmissionInv

LEMMA AdmissionAlways == Spec => []AdmissionInv
  <1>1. TypeOK /\ AdmissionInv /\ [Next]_vars => AdmissionInv'
    <2>1. ASSUME AdmissionInv, UNCHANGED vars PROVE AdmissionInv'
      BY <2>1 DEF AdmissionInv, OneAdmits, Admitters, AboutHeadOfNew, OneToken,
         SomeoneWaits, Requested, Answered, Posted, vars, kernelVars
    <2> QED
      BY <2>1, AdmissionNext
  <1> QED
    BY <1>1, AdmissionInit, TypeCorrect, PTL DEF Spec

(* For every number of consoles and places, every algorithm and program:   *)
(* one thread admits at a time, and the head of list_NEW is what its       *)
(* request, the answer and manage_memory are about.  So list_replace       *)
(* overwrites an entry with the updated PCB of the same process.           *)
THEOREM AdmissionIsExclusive == Spec => []AdmissionExclusive
  <1>1. AdmissionInv => AdmissionExclusive
    BY DEF AdmissionInv, OneAdmits, Admitters, AboutHeadOfNew,
       AdmissionExclusive, InitRequest
  <1> QED
    BY <1>1, AdmissionAlways, PTL

=============================================================================
