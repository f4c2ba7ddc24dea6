------------------------------- MODULE Kernel -------------------------------
(***************************************************************************)
(* The kernel of GECK (kernel/src/kernel.c): the threads that admit        *)
(* processes, choose the next one to run, take back the PCBs the CPU       *)
(* returns, attend the devices, the memory and the consoles, and count the *)
(* quantum.  They share eight lists of PCBs, ten semaphores, two mutexes   *)
(* that matter (m_out_of_Running, m_resolve_page_fault) and the flags      *)
(* flag_out_of_Running and `ultimo'.                                       *)
(*                                                                         *)
(* Each action is what one thread does from one call that can block it to  *)
(* the next one.  The CPU, the memory and the consoles are at the other    *)
(* end of the channels declared here; module Geck adds them.               *)
(*                                                                         *)
(* A process is identified with the console that started it: there is one  *)
(* receive_console thread, one PCB and one program for each.               *)
(*                                                                         *)
(* list[...] # <<>> guards the places where list_get or list_remove would  *)
(* return NULL, and where schedule_next_to_ready or _to_running would do   *)
(* nothing: NoEmptyRemove of module Geck is that they never hold a thread  *)
(* up.                                                                     *)
(***************************************************************************)
EXTENDS Integers, Sequences, FiniteSets

CONSTANTS
    Process,      \* consoles that connect, and the processes they create
    Device,       \* DISPOSITIVOS_IO of the configuration
    Algorithm,    \* ALGORITMO_PLANIFICACION
    Grado,        \* GRADO_MAX_MULTIPROGRAMACION
    NoProcess     \* "no PCB here"

(* What the CPU says of a PCB it gives back.  IO_CONSOLE stands for both   *)
(* IO_SCREEN and IO_KEYBOARD, which share a handler; IO_DEFAULT is the     *)
(* name of the device.                                                     *)
ReturnOp == {"IO_CONSOLE", "EXECUTE_INTERRUPTION", "SEG_FAULT",
             "PAGE_FAULT", "END_PROCESS"} \cup Device

ASSUME ProcessAssumption   == IsFiniteSet(Process)
ASSUME AlgorithmAssumption == Algorithm \in {"FIFO", "RR", "FEEDBACK"}
ASSUME GradoAssumption     == Grado \in Nat \ {0}
ASSUME NoProcessAssumption == NoProcess \notin Process
ASSUME DeviceAssumption    ==
    Device \cap {"IO_CONSOLE", "EXECUTE_INTERRUPTION", "SEG_FAULT",
                 "PAGE_FAULT", "END_PROCESS", "none"} = {}

VARIABLES
    list,       \* list_NEW, list_READY, list_READY_RR, ... by name
    status,     \* pcb->status of the live copy of each PCB
    sem,        \* value of each semaphore
    m_resolve_page_fault,  \* TRUE while that mutex is locked
    flag_out_of_Running, ultimo,
    alive,      \* FALSE once the kernel died reading ultimo before it was set
    thread,     \* where receive_console stands, for each console
    scheduler,  \* where schedule_next_to_running stands
    dispatch,   \* what manage_dispatch is handling
    clock,      \* where count_quantum_of_RoundRobin stands
    queue, serving,        \* each device: PCBs waiting, PCB being served
    resolving,  \* PCBs whose resolve_page_fault thread waits for the mutex
    toCpu, fromCpu, interrupt,        \* dispatch and interrupt connections
    toMemory, fromMemory,             \* memory_connection
    toConsole, fromConsole            \* one client_socket per console

(* The variables, grouped for UNCHANGED.                                  *)
pcbVars           == <<list, status>>
outVars           == <<flag_out_of_Running, ultimo, alive>>
faultVars         == <<m_resolve_page_fault, resolving>>
deviceVars        == <<queue, serving>>
cpuConnection     == <<toCpu, fromCpu, interrupt>>
memoryConnection  == <<toMemory, fromMemory>>
consoleConnection == <<toConsole, fromConsole>>

kernelVars == <<list, status, sem, m_resolve_page_fault, flag_out_of_Running,
                ultimo, alive, thread, scheduler, dispatch, clock, queue,
                serving, resolving, toCpu, fromCpu, interrupt, toMemory,
                fromMemory, toConsole, fromConsole>>

ListName == {"NEW", "READY", "READY_RR", "READY_FIFO", "BLOCKED", "RUNNING",
             "EXIT"}
Status   == {"none", "NEW", "READY", "RUNNING", "BLOCKED", "EXIT"}
SemName  == {"grado_multiprogamacion", "process_in_ready",
             "cpu_free_to_execute", "schedule_ready", "init_process_memory",
             "beggin_quantum", "interruption_quantum",
             "interruption_quantum_finish"}

(* The clock holds m_out_of_Running while it waits for the interruption it *)
(* asked for, unless the dispatch thread unlocked it ("unlocked").         *)
m_out_of_Running == clock = "finish"

Idle == [op |-> "none", pcb |-> NoProcess]

-----------------------------------------------------------------------------
(* Semaphores and lists.  An operator whose name continues another's after *)
(* an underscore and a capital is that operator with a bug in it: the      *)
(* checks of the project substitute it to see that they notice.            *)

(* sem_wait may return EINTR without the semaphore, and nobody checks.     *)
Sem_wait_Interrupted(s) ==
    sem' = [sem EXCEPT ![s] = IF @ > 0 THEN @ - 1 ELSE 0]

Sem_wait(s) == sem[s] > 0 /\ sem' = [sem EXCEPT ![s] = @ - 1]
Sem_post(s) == sem' = [sem EXCEPT ![s] = @ + 1]

(* Where a PCB that wakes up, or is admitted, becomes ready.               *)
ReadyQueue == IF Algorithm = "FEEDBACK" THEN "READY_RR" ELSE "READY"

PreemptedQueue_Lost == "BLOCKED"

(* Where a PCB goes when its quantum expires (FIFO has none).              *)
PreemptedQueue == IF Algorithm = "FEEDBACK" THEN "READY_FIFO" ELSE "READY"

NextQueue_Swapped == IF list["READY_FIFO"] # <<>> THEN "READY_RR" ELSE "READY_FIFO"

(* The queue schedule_next_to_running takes the next PCB from.             *)
NextQueue == IF Algorithm # "FEEDBACK" THEN "READY"
             ELSE IF list["READY_RR"] # <<>> THEN "READY_RR" ELSE "READY_FIFO"

schedule_next_to_StateOnly(p, state, name) ==
    list' = list /\ status' = [status EXCEPT ![p] = state]

schedule_next_to(p, state, name) ==
    /\ list'   = [list EXCEPT ![name] = Append(@, p)]
    /\ status' = [status EXCEPT ![p] = state]

(* The queues as a PCB leaves list_RUNNING, by position and not by name.   *)
RunningWithoutHead == [list EXCEPT !["RUNNING"] = Tail(@)]

-----------------------------------------------------------------------------
(* receive_console: one thread per console.                                *)

ReceiveInitProcess(p) ==
    /\ thread[p] = "receive"
    /\ fromConsole[p] # <<>> /\ Head(fromConsole[p]) = "INIT_PROCESS"
    /\ fromConsole' = [fromConsole EXCEPT ![p] = Tail(@)]
    /\ schedule_next_to(p, "NEW", "NEW")
    /\ thread' = [thread EXCEPT ![p] = "schedule"]
    /\ UNCHANGED <<sem, faultVars, outVars, scheduler, dispatch, clock,
                   deviceVars, cpuConnection, memoryConnection, toConsole>>

EnterScheduleReady(p) ==
    /\ thread[p] = "schedule"
    /\ Sem_wait("schedule_ready")
    /\ thread' = [thread EXCEPT ![p] = "grado"]
    /\ UNCHANGED <<pcbVars, faultVars, outVars, scheduler, dispatch,
                   clock, deviceVars, cpuConnection, memoryConnection,
                   consoleConnection>>

(* With a place in the degree of multiprogramming, the PCB at the head of  *)
(* list_NEW is sent to the memory; it need not be this thread's own.       *)
InitStructuresMemory(p) ==
    /\ thread[p] = "grado"
    /\ Sem_wait("grado_multiprogamacion")
    /\ list["NEW"] # <<>>
    /\ toMemory' = Append(toMemory, [op |-> "INIT_PROCESS_STRUCTURES_MEMORY",
                                     pcb |-> Head(list["NEW"])])
    /\ thread' = [thread EXCEPT ![p] = "init"]
    /\ UNCHANGED <<pcbVars, faultVars, outVars, scheduler, dispatch,
                   clock, deviceVars, cpuConnection, fromMemory,
                   consoleConnection>>

(* Once the memory has answered, the head of list_NEW becomes ready.       *)
ScheduleNextToReady(p) ==
    /\ thread[p] = "init"
    /\ sem["init_process_memory"] > 0
    /\ list["NEW"] # <<>>
    /\ LET q == Head(list["NEW"])
       IN  /\ list' = [list EXCEPT !["NEW"] = Tail(@),
                                   ![ReadyQueue] = Append(@, q)]
           /\ status' = [status EXCEPT ![q] = "READY"]
    /\ sem' = [sem EXCEPT !["init_process_memory"] = @ - 1,
                          !["process_in_ready"] = @ + 1,
                          !["schedule_ready"] = @ + 1]
    /\ thread' = [thread EXCEPT ![p] = "receive"]
    /\ UNCHANGED <<faultVars, outVars, scheduler, dispatch, clock,
                   deviceVars, cpuConnection, memoryConnection,
                   consoleConnection>>

(* IO_SCREEN_RESPONSE and IO_KEYBOARD_RESPONSE bring the PCB back.         *)
ReceiveIoResponse(p) ==
    /\ thread[p] = "receive"
    /\ fromConsole[p] # <<>> /\ Head(fromConsole[p]) = "IO_RESPONSE"
    /\ fromConsole' = [fromConsole EXCEPT ![p] = Tail(@)]
    /\ schedule_next_to(p, "READY", ReadyQueue)
    /\ Sem_post("process_in_ready")
    /\ UNCHANGED <<faultVars, outVars, thread, scheduler, dispatch,
                   clock, deviceVars, cpuConnection, memoryConnection,
                   toConsole>>

(* The console closed its socket: the thread ends.                         *)
ReceiveDisconnection(p) ==
    /\ thread[p] = "receive"
    /\ fromConsole[p] # <<>> /\ Head(fromConsole[p]) = "CLOSED"
    /\ fromConsole' = [fromConsole EXCEPT ![p] = Tail(@)]
    /\ thread' = [thread EXCEPT ![p] = "ended"]
    /\ UNCHANGED <<pcbVars, sem, faultVars, outVars, scheduler,
                   dispatch, clock, deviceVars, cpuConnection,
                   memoryConnection, toConsole>>

-----------------------------------------------------------------------------
(* schedule_next_to_running: the short-term scheduler.                     *)

WaitProcessInReady ==
    /\ scheduler = "ready"
    /\ Sem_wait("process_in_ready")
    /\ scheduler' = "cpu"
    /\ UNCHANGED <<pcbVars, faultVars, outVars, thread, dispatch, clock,
                   deviceVars, cpuConnection, memoryConnection,
                   consoleConnection>>

(* With a CPU free, the head of a ready queue is sent to it.               *)
ScheduleNextToRunning ==
    /\ scheduler = "cpu"
    /\ Sem_wait("cpu_free_to_execute")
    /\ list[NextQueue] # <<>>
    /\ LET p == Head(list[NextQueue])
       IN  /\ list' = [list EXCEPT ![NextQueue] = Tail(@),
                                   !["RUNNING"] = Append(@, p)]
           /\ status' = [status EXCEPT ![p] = "RUNNING"]
           /\ toCpu' = Append(toCpu, p)
    /\ scheduler' = IF Algorithm = "FIFO" \/ NextQueue = "READY_FIFO"
                      THEN "FIFO" ELSE "RR"
    /\ UNCHANGED <<faultVars, outVars, thread, dispatch, clock,
                   deviceVars, fromCpu, interrupt, memoryConnection,
                   consoleConnection>>

(* Only after the PCB is on its way are the clock started and `ultimo'     *)
(* told which discipline it runs under.                                    *)
RecordUltimo ==
    /\ scheduler \in {"RR", "FIFO"}
    /\ ultimo' = scheduler
    /\ scheduler' = "ready"
    /\ IF scheduler = "RR" THEN Sem_post("beggin_quantum") ELSE sem' = sem
    /\ UNCHANGED <<pcbVars, faultVars, flag_out_of_Running, alive,
                   thread, dispatch, clock, deviceVars, cpuConnection,
                   memoryConnection, consoleConnection>>

-----------------------------------------------------------------------------
(* manage_dispatch: what the CPU gives back.                               *)

Ends(op)   == op \in {"END_PROCESS", "SEG_FAULT"}
Blocks(op) == op = "IO_CONSOLE" \/ op \in Device

FreedBy_SegFaultForgotten(op) ==
    {"cpu_free_to_execute"} \cup
        IF op = "END_PROCESS" THEN {"grado_multiprogamacion"} ELSE {}

FreedBy_BlockedLeaves(op) ==
    {"cpu_free_to_execute"} \cup
        IF op # "EXECUTE_INTERRUPTION" THEN {"grado_multiprogamacion"} ELSE {}

FreedBy_CpuKept(op) ==
    IF Ends(op) THEN {"cpu_free_to_execute", "grado_multiprogamacion"} ELSE {}

(* The semaphores posted as soon as the CPU gives a PCB back.              *)
FreedBy(op) ==
    {"cpu_free_to_execute"} \cup
        IF Ends(op) THEN {"grado_multiprogamacion"} ELSE {}

(* The CPU is free before anything else is done with the PCB; a process    *)
(* that ends gives back its place here too.                                *)
DispatchReceive ==
    /\ dispatch = Idle
    /\ fromCpu # <<>>
    /\ dispatch' = Head(fromCpu)
    /\ fromCpu' = Tail(fromCpu)
    /\ sem' = [s \in SemName |->
                 IF s \in FreedBy(Head(fromCpu).op) THEN sem[s] + 1 ELSE sem[s]]
    /\ status' = IF Ends(Head(fromCpu).op)
                   THEN [status EXCEPT ![Head(fromCpu).pcb] = "EXIT"]
                   ELSE status
    /\ UNCHANGED <<list, faultVars, outVars, thread, scheduler, clock,
                   deviceVars, toCpu, interrupt, memoryConnection,
                   consoleConnection>>

(* lock; if(!strcmp(ultimo,"RR")) flag_out_of_Running = 1; unlock.  Where  *)
(* the clock unlocked the mutex in between, its reset came before or after. *)
RaiseOutOfRunning ==
    /\ ~m_out_of_Running
    /\ ultimo # "NULL"
    /\ \/ flag_out_of_Running' = (flag_out_of_Running \/ ultimo = "RR")
       \/ clock = "overlapped" /\ UNCHANGED flag_out_of_Running
    /\ clock' = IF clock = "overlapped" THEN "count" ELSE clock

(* strcmp of a pointer nobody has set yet: the kernel dies.                *)
DispatchNullUltimo ==
    /\ Ends(dispatch.op) \/ Blocks(dispatch.op)
    /\ ~m_out_of_Running
    /\ ultimo = "NULL"
    /\ alive' = FALSE
    /\ UNCHANGED <<pcbVars, sem, faultVars, flag_out_of_Running, ultimo,
                   thread, scheduler, dispatch, clock, deviceVars,
                   cpuConnection, memoryConnection, consoleConnection>>

(* IO_SCREEN, IO_KEYBOARD: the PCB travels to its console and back, and    *)
(* list_RUNNING keeps its entry.                                           *)
DispatchIoConsole ==
    /\ dispatch.op = "IO_CONSOLE"
    /\ RaiseOutOfRunning
    /\ status' = [status EXCEPT ![dispatch.pcb] = "BLOCKED"]
    /\ toConsole' = [toConsole EXCEPT ![dispatch.pcb] = Append(@, "IO_REQUEST")]
    /\ dispatch' = Idle
    /\ UNCHANGED <<list, sem, faultVars, ultimo, alive, thread,
                   scheduler, deviceVars, cpuConnection,
                   memoryConnection, fromConsole>>

(* IO_DEFAULT: the PCB joins list_BLOCKED, for good, and the device.       *)
DispatchIoDefault ==
    /\ dispatch.op \in Device
    /\ RaiseOutOfRunning
    /\ schedule_next_to(dispatch.pcb, "BLOCKED", "BLOCKED")
    /\ queue' = [queue EXCEPT ![dispatch.op] = Append(@, dispatch.pcb)]
    /\ dispatch' = Idle
    /\ UNCHANGED <<sem, faultVars, ultimo, alive, thread, scheduler,
                   serving, cpuConnection, memoryConnection,
                   consoleConnection>>

(* EXECUTE_INTERRUPTION: end of quantum.                                   *)
DispatchInterruption ==
    /\ dispatch.op = "EXECUTE_INTERRUPTION"
    /\ list["RUNNING"] # <<>>
    /\ list' = [RunningWithoutHead EXCEPT ![PreemptedQueue] =
                                                Append(@, dispatch.pcb)]
    /\ status' = [status EXCEPT ![dispatch.pcb] = "READY"]
    /\ Sem_post("process_in_ready")
    /\ dispatch' = Idle
    /\ UNCHANGED <<faultVars, outVars, thread, scheduler, clock,
                   deviceVars, cpuConnection, memoryConnection,
                   consoleConnection>>

(* PAGE_FAULT: a thread of its own takes the PCB; nobody tells the clock.  *)
DispatchPageFault ==
    /\ dispatch.op = "PAGE_FAULT"
    /\ list["RUNNING"] # <<>>
    /\ list' = RunningWithoutHead
    /\ resolving' = resolving \cup {dispatch.pcb}
    /\ dispatch' = Idle
    /\ UNCHANGED <<status, sem, m_resolve_page_fault, outVars, thread,
                   scheduler, clock, deviceVars, cpuConnection,
                   memoryConnection, consoleConnection>>

(* END_PROCESS and SEG_FAULT, after the place was given back: the memory   *)
(* and the console are told.                                               *)
DispatchEnd ==
    /\ Ends(dispatch.op)
    /\ RaiseOutOfRunning
    /\ list["RUNNING"] # <<>>
    /\ list' = [RunningWithoutHead EXCEPT !["EXIT"] = Append(@, dispatch.pcb)]
    /\ toMemory' = Append(toMemory, [op |-> "END_STRUCTURES",
                                     pcb |-> dispatch.pcb])
    /\ toConsole' = [toConsole EXCEPT ![dispatch.pcb] =
                                                Append(@, "END_CONSOLE")]
    /\ dispatch' = Idle
    /\ UNCHANGED <<status, sem, faultVars, ultimo, alive, thread,
                   scheduler, deviceVars, cpuConnection, fromMemory,
                   fromConsole>>

-----------------------------------------------------------------------------
(* count_quantum_of_RoundRobin and manage_interrupt.  Time is not          *)
(* measured: the quantum may elapse at any moment of the count.            *)

(* The clock unlocks a mutex it does not hold.  If the dispatch thread     *)
(* does, their sections overlap, and the unlock of the dispatch thread is  *)
(* of the mutex that the clock locks next.                                 *)
ClockBegin ==
    /\ clock = "begin"
    /\ Sem_wait("beggin_quantum")
    /\ flag_out_of_Running' = FALSE
    /\ \/ clock' = "count"
       \/ (Ends(dispatch.op) \/ Blocks(dispatch.op)) /\ clock' = "overlapped"
    /\ UNCHANGED <<pcbVars, faultVars, ultimo, alive, thread, scheduler,
                   dispatch, deviceVars, cpuConnection, memoryConnection,
                   consoleConnection>>

ClockRestart ==
    /\ clock = "count" /\ flag_out_of_Running
    /\ flag_out_of_Running' = FALSE
    /\ clock' = "begin"
    /\ UNCHANGED <<pcbVars, sem, faultVars, ultimo, alive, thread,
                   scheduler, dispatch, deviceVars, cpuConnection,
                   memoryConnection, consoleConnection>>

(* m_out_of_Running stays locked from here to ClockFinish, but for that.   *)
ClockExpire ==
    /\ clock \in {"count", "overlapped"} /\ ~flag_out_of_Running
    /\ Sem_post("interruption_quantum")
    /\ clock' = IF clock = "count" THEN "finish" ELSE "unlocked"
    /\ UNCHANGED <<pcbVars, faultVars, outVars, thread, scheduler,
                   dispatch, deviceVars, cpuConnection, memoryConnection,
                   consoleConnection>>

ClockFinish ==
    /\ clock \in {"finish", "unlocked"}
    /\ Sem_wait("interruption_quantum_finish")
    /\ clock' = "begin"
    /\ UNCHANGED <<pcbVars, faultVars, outVars, thread, scheduler,
                   dispatch, deviceVars, cpuConnection, memoryConnection,
                   consoleConnection>>

Interruptible == list["RUNNING"] # <<>>

(* The clock hears of the interruption only if list_RUNNING has entries.   *)
ManageInterrupt ==
    /\ sem["interruption_quantum"] > 0
    /\ IF Interruptible
         THEN /\ interrupt' = interrupt + 1
              /\ sem' = [sem EXCEPT !["interruption_quantum"] = @ - 1,
                                    !["interruption_quantum_finish"] = @ + 1]
         ELSE /\ Sem_wait("interruption_quantum")
              /\ UNCHANGED interrupt
    /\ UNCHANGED <<pcbVars, faultVars, outVars, thread, scheduler,
                   dispatch, clock, deviceVars, toCpu, fromCpu,
                   memoryConnection, consoleConnection>>

-----------------------------------------------------------------------------
(* manage_memory: the answers of the memory.                               *)

list_replace_Last(l, p) == [l EXCEPT ![Len(l)] = p]
list_replace(l, p)      == [l EXCEPT ![1] = p]

(* The updated PCB replaces whatever is at the head of list_NEW.           *)
ReceiveInitStructures ==
    /\ fromMemory # <<>> /\ Head(fromMemory).op = "INIT_RESPONSE"
    /\ list["NEW"] # <<>>
    /\ list' = [list EXCEPT !["NEW"] = list_replace(@, Head(fromMemory).pcb)]
    /\ Sem_post("init_process_memory")
    /\ fromMemory' = Tail(fromMemory)
    /\ UNCHANGED <<status, faultVars, outVars, thread, scheduler,
                   dispatch, clock, deviceVars, cpuConnection, toMemory,
                   consoleConnection>>

PageFaultAnnounced_Never == FALSE
PageFaultAnnounced       == Algorithm # "FEEDBACK"

(* A resolved page fault: under FEEDBACK nobody tells the scheduler.  That *)
(* the status is written once more after that is left out: no thread       *)
(* decides anything by it.                                                 *)
ReceivePageFaultResponse ==
    /\ fromMemory # <<>> /\ Head(fromMemory).op = "RESPONSE_PAGE_FAULT"
    /\ schedule_next_to(Head(fromMemory).pcb, "READY", ReadyQueue)
    /\ IF PageFaultAnnounced THEN Sem_post("process_in_ready") ELSE sem' = sem
    /\ m_resolve_page_fault' = FALSE
    /\ fromMemory' = Tail(fromMemory)
    /\ UNCHANGED <<outVars, thread, scheduler, dispatch, clock,
                   deviceVars, resolving, cpuConnection, toMemory,
                   consoleConnection>>

(* resolve_page_fault: one request to the memory at a time; its mutex is   *)
(* released by manage_memory.                                              *)
ResolvePageFault(p) ==
    /\ p \in resolving
    /\ ~m_resolve_page_fault
    /\ m_resolve_page_fault' = TRUE
    /\ resolving' = resolving \ {p}
    /\ status' = [status EXCEPT ![p] = "BLOCKED"]
    /\ toMemory' = Append(toMemory, [op |-> "REQUEST_PAGE_FAULT", pcb |-> p])
    /\ UNCHANGED <<list, sem, outVars, thread, scheduler, dispatch,
                   clock, deviceVars, cpuConnection, fromMemory,
                   consoleConnection>>

-----------------------------------------------------------------------------
(* simulate_io_default: one thread per device.                             *)

DeviceBegin(d) ==
    /\ serving[d] = NoProcess
    /\ queue[d] # <<>>
    /\ serving' = [serving EXCEPT ![d] = Head(queue[d])]
    /\ queue' = [queue EXCEPT ![d] = Tail(@)]
    /\ UNCHANGED <<pcbVars, sem, faultVars, outVars, thread, scheduler,
                   dispatch, clock, cpuConnection, memoryConnection,
                   consoleConnection>>

DeviceFinish(d) ==
    /\ serving[d] # NoProcess
    /\ schedule_next_to(serving[d], "READY", ReadyQueue)
    /\ Sem_post("process_in_ready")
    /\ serving' = [serving EXCEPT ![d] = NoProcess]
    /\ UNCHANGED <<faultVars, outVars, thread, scheduler, dispatch,
                   clock, queue, cpuConnection, memoryConnection,
                   consoleConnection>>

-----------------------------------------------------------------------------
(* init_semaphores, init_global_lists, init_scheduling.                    *)

KernelInit ==
    /\ list = [l \in ListName |-> <<>>]
    /\ status = [p \in Process |-> "none"]
    /\ sem = [s \in SemName |->
                CASE s = "grado_multiprogamacion" -> Grado
                  [] s \in {"cpu_free_to_execute", "schedule_ready"} -> 1
                  [] s = "interruption_quantum_finish" /\ Algorithm # "FIFO" -> 1
                  [] OTHER -> 0]
    /\ m_resolve_page_fault = FALSE
    /\ flag_out_of_Running = FALSE
    /\ ultimo = "NULL"
    /\ alive = TRUE
    /\ thread = [p \in Process |-> "receive"]
    /\ scheduler = "ready"
    /\ dispatch = Idle
    /\ clock = "begin"
    /\ queue = [d \in Device |-> <<>>]
    /\ serving = [d \in Device |-> NoProcess]
    /\ resolving = {}
    /\ toCpu = <<>> /\ fromCpu = <<>> /\ interrupt = 0
    /\ toMemory = <<>> /\ fromMemory = <<>>
    /\ toConsole = [p \in Process |-> <<>>]
    /\ fromConsole = [p \in Process |-> <<>>]

=============================================================================
