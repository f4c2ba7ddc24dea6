-------------------------------- MODULE Geck --------------------------------
(***************************************************************************)
(* The kernel of module Kernel with the processes it talks to: the CPU     *)
(* (cpu/src/cpu.c), the memory (memoria/src/memoria.c) and one console per *)
(* process (consola/src/consola.c), each reduced to what the kernel can    *)
(* see of it.  Every connection is a FIFO channel.                         *)
(*                                                                         *)
(* An instruction is abstracted to what it makes the CPU do:               *)
(*   "COMPUTE"  SET, ADD: goes on to the next instruction                  *)
(*   "MOV"      an access to the page of the process, which faults until   *)
(*              the memory has loaded it                                   *)
(*   "FAULT"    an access past the end of its segment                      *)
(*   "CONSOLE"  I/O PANTALLA, I/O TECLADO                                  *)
(*   a device   I/O on that device                                         *)
(*   "EXIT"                                                                *)
(***************************************************************************)
EXTENDS Kernel

CONSTANT Program    \* the instructions each console sends

Instruction == {"COMPUTE", "MOV", "FAULT", "CONSOLE", "EXIT"} \cup Device

ASSUME ProgramAssumption == Program \in [Process -> Seq(Instruction)]
ASSUME DeviceIsNoInstruction ==
    Device \cap {"COMPUTE", "MOV", "FAULT", "CONSOLE", "EXIT"} = {}

VARIABLES
    console,             \* each console: "new", "waiting", "ended"
    cpu,                 \* the PCB execute_process runs, or NoProcess
    program_counter,     \* of each PCB
    event,               \* which of end_process, input_ouput, page_fault,
                         \* sigsegv is set, as the operation it will send
    check_interruption,
    structures,          \* processes whose page tables the memory holds
    loaded               \* processes whose page is in a frame

peerVars == <<console, cpu, program_counter, event, check_interruption,
              structures, loaded>>
cpuVars  == <<cpu, program_counter, event, check_interruption>>
memVars  == <<structures, loaded>>
vars     == <<kernelVars, peerVars>>

-----------------------------------------------------------------------------
(* The console.                                                            *)

ConsoleStart(p) ==
    /\ console[p] = "new"
    /\ console' = [console EXCEPT ![p] = "waiting"]
    /\ fromConsole' = [fromConsole EXCEPT ![p] = Append(@, "INIT_PROCESS")]
    /\ UNCHANGED <<pcbVars, sem, faultVars, outVars, thread, scheduler,
                   dispatch, clock, deviceVars, cpuConnection,
                   memoryConnection, toConsole, cpuVars, memVars>>

ConsoleAnswer(p) ==
    /\ console[p] = "waiting"
    /\ toConsole[p] # <<>> /\ Head(toConsole[p]) = "IO_REQUEST"
    /\ toConsole' = [toConsole EXCEPT ![p] = Tail(@)]
    /\ fromConsole' = [fromConsole EXCEPT ![p] = Append(@, "IO_RESPONSE")]
    /\ UNCHANGED <<pcbVars, sem, faultVars, outVars, thread, scheduler,
                   dispatch, clock, deviceVars, cpuConnection,
                   memoryConnection, console, cpuVars, memVars>>

ConsoleEnd(p) ==
    /\ console[p] = "waiting"
    /\ toConsole[p] # <<>> /\ Head(toConsole[p]) = "END_CONSOLE"
    /\ console' = [console EXCEPT ![p] = "ended"]
    /\ toConsole' = [toConsole EXCEPT ![p] = Tail(@)]
    /\ fromConsole' = [fromConsole EXCEPT ![p] = Append(@, "CLOSED")]
    /\ UNCHANGED <<pcbVars, sem, faultVars, outVars, thread, scheduler,
                   dispatch, clock, deviceVars, cpuConnection,
                   memoryConnection, cpuVars, memVars>>

-----------------------------------------------------------------------------
(* The CPU: process_dispatch, execute_process and process_interrupt.       *)

CpuReceive ==
    /\ cpu = NoProcess
    /\ toCpu # <<>>
    /\ cpu' = Head(toCpu)
    /\ toCpu' = Tail(toCpu)
    /\ UNCHANGED <<pcbVars, sem, faultVars, outVars, thread, scheduler,
                   dispatch, clock, deviceVars, fromCpu, interrupt,
                   memoryConnection, consoleConnection, console,
                   program_counter, event, check_interruption, memVars>>

EventOf_OpCode(p, i) == IF i \in {"COMPUTE", "MOV"} THEN "none" ELSE i

(* What the running instruction will have the CPU send back, if anything.  *)
EventOf(p, i) ==
    CASE i = "EXIT"    -> "END_PROCESS"
      [] i = "FAULT"   -> "SEG_FAULT"
      [] i = "CONSOLE" -> "IO_CONSOLE"
      [] i \in Device  -> i
      [] i = "MOV"     -> IF p \in loaded THEN "none" ELSE "PAGE_FAULT"
      [] OTHER         -> "none"

(* One turn of the loop of execute_process: the program counter moves on   *)
(* unless the page was missing.                                            *)
CpuExecute ==
    /\ cpu # NoProcess
    /\ event = "none" /\ ~check_interruption
    /\ event' = EventOf(cpu, Program[cpu][program_counter[cpu] + 1])
    /\ program_counter' = [program_counter EXCEPT
                               ![cpu] = IF event' = "PAGE_FAULT" THEN @ ELSE @ + 1]
    /\ UNCHANGED <<kernelVars, console, cpu, check_interruption, memVars>>

(* After the loop: end, I/O, page fault and segmentation fault go before   *)
(* an interruption, which is forgotten.                                    *)
CpuReturn ==
    /\ cpu # NoProcess
    /\ event # "none" \/ check_interruption
    /\ fromCpu' = Append(fromCpu,
                    [op  |-> IF event # "none" THEN event
                                               ELSE "EXECUTE_INTERRUPTION",
                     pcb |-> cpu])
    /\ event' = "none"
    /\ check_interruption' = FALSE
    /\ cpu' = NoProcess
    /\ UNCHANGED <<pcbVars, sem, faultVars, outVars, thread, scheduler,
                   dispatch, clock, deviceVars, toCpu, interrupt,
                   memoryConnection, consoleConnection, console,
                   program_counter, memVars>>

(* The interrupt thread of the CPU does not look at what is running.       *)
CpuInterrupt ==
    /\ interrupt > 0
    /\ interrupt' = interrupt - 1
    /\ check_interruption' = TRUE
    /\ UNCHANGED <<pcbVars, sem, faultVars, outVars, thread, scheduler,
                   dispatch, clock, deviceVars, toCpu, fromCpu,
                   memoryConnection, consoleConnection, console, cpu,
                   program_counter, event, memVars>>

-----------------------------------------------------------------------------
(* The memory: attend_kernel, one request at a time.                       *)

MemoryInit ==
    /\ toMemory # <<>> /\ Head(toMemory).op = "INIT_PROCESS_STRUCTURES_MEMORY"
    /\ structures' = structures \cup {Head(toMemory).pcb}
    /\ fromMemory' = Append(fromMemory, [op  |-> "INIT_RESPONSE",
                                         pcb |-> Head(toMemory).pcb])
    /\ toMemory' = Tail(toMemory)
    /\ UNCHANGED <<pcbVars, sem, faultVars, outVars, thread, scheduler,
                   dispatch, clock, deviceVars, cpuConnection,
                   consoleConnection, console, cpuVars, loaded>>

MemoryLoadPage ==
    /\ toMemory # <<>> /\ Head(toMemory).op = "REQUEST_PAGE_FAULT"
    /\ loaded' = loaded \cup {Head(toMemory).pcb}
    /\ fromMemory' = Append(fromMemory, [op  |-> "RESPONSE_PAGE_FAULT",
                                         pcb |-> Head(toMemory).pcb])
    /\ toMemory' = Tail(toMemory)
    /\ UNCHANGED <<pcbVars, sem, faultVars, outVars, thread, scheduler,
                   dispatch, clock, deviceVars, cpuConnection,
                   consoleConnection, console, cpuVars, structures>>

MemoryEnd ==
    /\ toMemory # <<>> /\ Head(toMemory).op = "END_STRUCTURES"
    /\ structures' = structures \ {Head(toMemory).pcb}
    /\ loaded' = loaded \ {Head(toMemory).pcb}
    /\ toMemory' = Tail(toMemory)
    /\ UNCHANGED <<pcbVars, sem, faultVars, outVars, thread, scheduler,
                   dispatch, clock, deviceVars, cpuConnection, fromMemory,
                   consoleConnection, console, cpuVars>>

-----------------------------------------------------------------------------
(* The system.                                                             *)

Init ==
    /\ KernelInit
    /\ console = [p \in Process |-> "new"]
    /\ cpu = NoProcess
    /\ program_counter = [p \in Process |-> 0]
    /\ event = "none"
    /\ check_interruption = FALSE
    /\ structures = {}
    /\ loaded = {}

ConsoleThread(p) ==
    /\ \/ ReceiveInitProcess(p)
       \/ EnterScheduleReady(p)
       \/ InitStructuresMemory(p)
       \/ ScheduleNextToReady(p)
       \/ ReceiveIoResponse(p)
       \/ ReceiveDisconnection(p)
    /\ UNCHANGED peerVars

Scheduler ==
    /\ WaitProcessInReady \/ ScheduleNextToRunning \/ RecordUltimo
    /\ UNCHANGED peerVars

Dispatch ==
    /\ \/ DispatchReceive
       \/ DispatchNullUltimo
       \/ DispatchIoConsole
       \/ DispatchIoDefault
       \/ DispatchInterruption
       \/ DispatchPageFault
       \/ DispatchEnd
    /\ UNCHANGED peerVars

Clock ==
    /\ ClockBegin \/ ClockRestart \/ ClockExpire \/ ClockFinish
    /\ UNCHANGED peerVars

Interrupt == ManageInterrupt /\ UNCHANGED peerVars

ManageMemory ==
    /\ ReceiveInitStructures \/ ReceivePageFaultResponse
    /\ UNCHANGED peerVars

PageFaultThread(p) == ResolvePageFault(p) /\ UNCHANGED peerVars

DeviceThread(d) ==
    /\ DeviceBegin(d) \/ DeviceFinish(d)
    /\ UNCHANGED peerVars

Console(p) == ConsoleStart(p) \/ ConsoleAnswer(p) \/ ConsoleEnd(p)
Cpu        == CpuReceive \/ CpuExecute \/ CpuReturn
Memory     == MemoryInit \/ MemoryLoadPage \/ MemoryEnd

Next ==
    /\ alive
    /\ \/ \E p \in Process : ConsoleThread(p) \/ PageFaultThread(p) \/ Console(p)
       \/ \E d \in Device : DeviceThread(d)
       \/ Scheduler
       \/ Dispatch
       \/ Clock
       \/ Interrupt
       \/ ManageMemory
       \/ Cpu
       \/ CpuInterrupt
       \/ Memory

Spec == Init /\ [][Next]_vars

(* Every thread and every process that can go on does: the operating       *)
(* system schedules them all, and no console stays closed for ever.        *)
Fairness ==
    /\ \A p \in Process : /\ WF_vars(alive /\ ConsoleThread(p))
                          /\ WF_vars(alive /\ PageFaultThread(p))
                          /\ WF_vars(alive /\ Console(p))
    /\ \A d \in Device : WF_vars(alive /\ DeviceThread(d))
    /\ WF_vars(alive /\ Scheduler)
    /\ WF_vars(alive /\ Dispatch)
    /\ WF_vars(alive /\ Clock)
    /\ WF_vars(alive /\ Interrupt)
    /\ WF_vars(alive /\ ManageMemory)
    /\ WF_vars(alive /\ Cpu)
    /\ WF_vars(alive /\ CpuInterrupt)
    /\ WF_vars(alive /\ Memory)

FairSpec == Spec /\ Fairness

-----------------------------------------------------------------------------
(* Properties.                                                             *)

ReturnMessage == [op : ReturnOp, pcb : Process]
MemoryRequest == [op : {"INIT_PROCESS_STRUCTURES_MEMORY",
                        "REQUEST_PAGE_FAULT", "END_STRUCTURES"},
                  pcb : Process]
MemoryAnswer  == [op : {"INIT_RESPONSE", "RESPONSE_PAGE_FAULT"},
                  pcb : Process]

PcbType     == /\ list \in [ListName -> Seq(Process)]
               /\ status \in [Process -> Status]
SemType     == sem \in [SemName -> Nat]
FaultType   == /\ m_resolve_page_fault \in BOOLEAN
               /\ resolving \subseteq Process
OutType     == /\ flag_out_of_Running \in BOOLEAN
               /\ ultimo \in {"NULL", "RR", "FIFO"}
               /\ alive \in BOOLEAN
ThreadType  == thread \in [Process ->
                             {"receive", "schedule", "grado", "init", "ended"}]
SchedulerType == scheduler \in {"ready", "cpu", "RR", "FIFO"}
DispatchType  == dispatch \in {Idle} \cup ReturnMessage
ClockType     == clock \in {"begin", "count", "overlapped", "finish", "unlocked"}
DeviceType  == /\ queue \in [Device -> Seq(Process)]
               /\ serving \in [Device -> Process \cup {NoProcess}]
CpuConnectionType     == /\ toCpu \in Seq(Process)
                         /\ fromCpu \in Seq(ReturnMessage)
                         /\ interrupt \in Nat
MemoryConnectionType  == /\ toMemory \in Seq(MemoryRequest)
                         /\ fromMemory \in Seq(MemoryAnswer)
ConsoleConnectionType ==
    /\ toConsole \in [Process -> Seq({"IO_REQUEST", "END_CONSOLE"})]
    /\ fromConsole \in [Process -> Seq({"INIT_PROCESS", "IO_RESPONSE", "CLOSED"})]
ConsoleType == console \in [Process -> {"new", "waiting", "ended"}]
CpuType     == /\ cpu \in Process \cup {NoProcess}
               /\ program_counter \in [Process -> Nat]
               /\ event \in (ReturnOp \cup {"none"}) \ {"EXECUTE_INTERRUPTION"}
               /\ check_interruption \in BOOLEAN
MemoryType  == structures \subseteq Process /\ loaded \subseteq Process

(* Every variable keeps its type: the lists hold nothing but PCBs, no      *)
(* semaphore goes below zero, and nobody receives an operation it has no   *)
(* handler for.                                                            *)
TypeOK ==
    /\ PcbType /\ SemType /\ FaultType /\ OutType
    /\ ThreadType /\ SchedulerType /\ DispatchType /\ ClockType
    /\ DeviceType
    /\ CpuConnectionType /\ MemoryConnectionType /\ ConsoleConnectionType
    /\ ConsoleType /\ CpuType /\ MemoryType

Elements(s) == {s[i] : i \in DOMAIN s}

(* The places a PCB of p can be found and used from.  list_BLOCKED and     *)
(* list_RUNNING are not among them: the kernel never takes a PCB from the  *)
(* first and only drops entries of the second.                             *)
Copies(p) ==
    LET At(place, s)       == {<<place, i>> : i \in {j \in DOMAIN s : s[j] = p}}
        Sent(place, s, op) == {<<place, i>> : i \in {j \in DOMAIN s :
                                               s[j].pcb = p /\ s[j].op \in op}}
    IN  (UNION {At(l, list[l]) : l \in ListName \ {"BLOCKED", "RUNNING"}})
        \cup At("toCpu", toCpu)
        \cup {<<"cpu", 0>> : x \in {cpu} \cap {p}}
        \cup Sent("fromCpu", fromCpu, ReturnOp)
        \cup {<<"dispatch", 0>> : x \in {dispatch.pcb} \cap {p}}
        \cup (UNION {At(d, queue[d]) : d \in Device})
        \cup {<<d, 0>> : d \in {e \in Device : serving[e] = p}}
        \cup {<<"resolving", 0>> : x \in resolving \cap {p}}
        \cup Sent("toMemory", toMemory, {"REQUEST_PAGE_FAULT"})
        \cup Sent("fromMemory", fromMemory, {"RESPONSE_PAGE_FAULT"})
        \cup {<<"toConsole", i>> : i \in {j \in DOMAIN toConsole[p] :
                                          toConsole[p][j] = "IO_REQUEST"}}
        \cup {<<"fromConsole", i>> : i \in {j \in DOMAIN fromConsole[p] :
                                          fromConsole[p][j] = "IO_RESPONSE"}}

(* A process is never lost and never doubled: from its creation on, exactly *)
(* one list, message or thread holds its PCB, although the kernel copies   *)
(* the PCB over five connections and keeps the originals.                  *)
OneCopy ==
    \A p \in Process :
        Cardinality(Copies(p)) = IF status[p] = "none" THEN 0 ELSE 1

(* The degree of multiprogramming is accounted for: every place is free,   *)
(* taken by a process in the system, or by the admission under way.        *)
GradeAccounted ==
    sem["grado_multiprogamacion"]
      + Cardinality({p \in Process : status[p] \in {"READY", "RUNNING", "BLOCKED"}})
      + Cardinality({p \in Process : thread[p] = "init"})
    = Grado

(* What the comment on sem_post(&sem_grado_multiprogamacion) says: a       *)
(* process whose place another one takes is no longer in memory.           *)
PlaceMeansMemory == Cardinality(structures) <= Grado

(* Although the place of a process is given back before the memory is told *)
(* that it ended, at most one process too many has its page tables in      *)
(* memory, and never more than Grado processes own frames.                 *)
MemoryBounded ==
    /\ Cardinality(structures) <= Grado + 1
    /\ Cardinality(loaded) <= Grado

(* One thread admits at a time, and what it sends to the memory, what the  *)
(* memory answers and what manage_memory overwrites is the head of NEW.    *)
AdmissionExclusive ==
    /\ sem["schedule_ready"]
         + Cardinality({p \in Process : thread[p] \in {"grado", "init"}}) = 1
    /\ \A m \in Elements(toMemory) \cup Elements(fromMemory) :
          m.op \in {"INIT_PROCESS_STRUCTURES_MEMORY", "INIT_RESPONSE"}
            => list["NEW"] # <<>> /\ Head(list["NEW"]) = m.pcb

(* The CPU has one PCB at most, counting both directions of its connection, *)
(* and the semaphore knows.                                                *)
CpuExclusive ==
    sem["cpu_free_to_execute"] + Len(toCpu) + Len(fromCpu)
      + (IF cpu = NoProcess THEN 0 ELSE 1) = 1

ReadyCount == Len(list["READY"]) + Len(list["READY_RR"]) + Len(list["READY_FIFO"])

ReadyTokens == sem["process_in_ready"] + (IF scheduler = "cpu" THEN 1 ELSE 0)

(* FIFO and RR: the scheduler is told of every ready process exactly once. *)
ReadyAnnounced == ReadyTokens = ReadyCount

(* Under every algorithm no list is read or shortened while it is empty:   *)
(* list_get and list_remove would return NULL and the kernel would use it. *)
NoEmptyRemove ==
    /\ (\E p \in Process : thread[p] \in {"grado", "init"}) => list["NEW"] # <<>>
    /\ ReadyTokens <= ReadyCount
    /\ scheduler = "cpu" => list[NextQueue] # <<>>
    /\ dispatch.op \notin ({"none", "IO_CONSOLE"} \cup Device)
         => list["RUNNING"] # <<>>

(* What makes NoEmptyRemove inductive: each algorithm uses its own queues, *)
(* every admission under way left an entry in list_NEW, every token of the *)
(* scheduler an entry in a ready queue, and every PCB the CPU or the       *)
(* dispatch thread has an entry in list_RUNNING.                           *)
OwnQueues ==
    IF Algorithm = "FEEDBACK" THEN list["READY"] = <<>>
    ELSE list["READY_RR"] = <<>> /\ list["READY_FIFO"] = <<>>

Admitting == {p \in Process : thread[p] \in {"schedule", "grado", "init"}}

NewCoversAdmitting == Len(list["NEW"]) = Cardinality(Admitting)

ReadyCoversTokens == ReadyTokens <= ReadyCount

OutOfLists == Len(toCpu) + Len(fromCpu) + (IF cpu = NoProcess THEN 0 ELSE 1)
                + (IF dispatch = Idle THEN 0 ELSE 1)

RunningCoversCpu == OutOfLists <= Len(list["RUNNING"])

ListInv == OwnQueues /\ NewCoversAdmitting /\ ReadyCoversTokens /\ RunningCoversCpu

-----------------------------------------------------------------------------
(* The kernel implements the five-state life of processes.  A process      *)
(* executes while the CPU or its dispatch connection has its PCB.          *)

HasCpu(p) == p = cpu \/ p \in Elements(toCpu)
                \/ \E m \in Elements(fromCpu) : m.pcb = p

StateOf(p) ==
    IF status[p] # "RUNNING" THEN status[p]
    ELSE IF HasCpu(p) THEN "EXEC"
    ELSE IF dispatch = [op |-> "EXECUTE_INTERRUPTION", pcb |-> p] THEN "READY"
    ELSE "BLOCKED"

Life == INSTANCE Lifecycle WITH state <- [p \in Process |-> StateOf(p)]

(* The kernel implements Lifecycle: a process enters the system only from  *)
(* NEW and within the degree, runs alone, and never leaves EXIT.           *)
ImplementsLifecycle == Life!Spec

Ended == \A p \in Process : status[p] = "EXIT" /\ console[p] = "ended"

(* The system only comes to rest when every process has ended and its      *)
(* console knows: no set of threads waits for each other, and none for a   *)
(* semaphore nobody will post.  (A kernel that died is no concern here.)   *)
NoStandstill == alive /\ ~(ENABLED Next) => Ended

(* Nobody will post what the clock waits for, and the dispatch thread      *)
(* waits for the mutex that the clock keeps meanwhile.                     *)
HangsAtClock ==
    /\ m_out_of_Running
    /\ sem["interruption_quantum"] = 0
    /\ sem["interruption_quantum_finish"] = 0
    /\ Ends(dispatch.op) \/ Blocks(dispatch.op)

(* What the code keeps of NoStandstill under preemption: of all the waits  *)
(* of its threads, the clock's at kernel.c:467 is the only one in which    *)
(* the system can come to rest before every process has ended.             *)
HangsOnlyAtClock == alive /\ ~(ENABLED Next) => Ended \/ HangsAtClock

(* Unless the kernel died reading `ultimo' too early, every process that   *)
(* its console starts reaches EXIT and its console is told.                *)
EveryProcessEnds ==
    (<>~alive) \/ \A p \in Process : <>(status[p] = "EXIT" /\ console[p] = "ended")

=============================================================================
