------------------------------ MODULE Sistema ------------------------------
(***************************************************************************)
(* The whole system: the kernel, the consoles and the connections of       *)
(* module Geck, with the memory of module Memoria and the CPU of module    *)
(* Procesador in the place of Geck's single page per process.              *)
(*                                                                         *)
(* Every step of the kernel and of the consoles is Geck's, unchanged.  An  *)
(* access to memory takes the CPU two exchanges over socket_memory, and    *)
(* the kernel's requests may come in before, between and after them.       *)
(***************************************************************************)
EXTENDS Geck, Procesador

CONSTANTS
    Code,                 \* the instructions of each console, in detail
    Frames, SwapPages, MARCOS_POR_PROCESO, ALGORITMO_REEMPLAZO

(* What Geck's programs say of an instruction.                             *)
KindOf(p, i) ==
    CASE i.op \in Arithmetic -> "COMPUTE"
      [] i.op = "I/O"        -> i.device
      [] i.op = "EXIT"       -> "EXIT"
      [] OTHER -> IF sigsegv(p, i.address) THEN "FAULT" ELSE "MOV"

(* An address of a segment that p has, inside its limit or past it: what   *)
(* translate_logical_address does with others is undefined (cpu.c:520).    *)
Address(p) == 0 .. Len(Segments[p]) * max_segment_size - 1

InstructionOf(p) ==
    [op : {"SET"}, register : Register, value : 0 .. Words - 1]
    \cup [op : {"ADD"}, register : Register, from : Register]
    \cup [op : {"MOV_IN", "MOV_OUT"}, register : Register, address : Address(p)]
    \cup [op : {"I/O"}, device : Device \cup {"CONSOLE"}]
    \cup [op : {"EXIT"}]

(* A program ends where it says: past its last instruction the CPU reads   *)
(* through NULL.                                                           *)
ASSUME CodeAssumption ==
    \A p \in Process :
        /\ Code[p] \in Seq(InstructionOf(p))
        /\ Code[p] # <<>> /\ KindOf(p, Code[p][Len(Code[p])]) \in {"EXIT", "FAULT"}
        /\ Program[p] = [k \in DOMAIN Code[p] |-> KindOf(p, Code[p][k])]
        /\ \A s \in DOMAIN Segments[p] : Segments[p][s] <= max_segment_size

VARIABLES
    row, clock_structures, bitmap_memory, bitmap_swap,
    principal_memory, swap, memory_alive,     \* see module Memoria
    cpu_registers,    \* the registers in each PCB
    registers,        \* those of the CPU
    tlb,
    socket_memory,    \* the request or the answer between CPU and memory
    fault             \* numeroSegmentoGlobalPageFault and
                      \* numeroPaginaGlobalPageFault, as they travel with a
                      \* PCB from the CPU to the memory

Mem == INSTANCE Memoria WITH Zero <- 0

(* The memory's own configuration, and the segments of the processes.      *)
ASSUME MemoryAssumption ==
    /\ Segments \in [Process -> Seq(Nat)]
    /\ Frames \in Nat /\ SwapPages \in Nat
    /\ MARCOS_POR_PROCESO \in Nat \ {0}
    /\ ALGORITMO_REEMPLAZO \in Mem!Algoritmo

pcbRegisters == <<cpu_registers, fault>>
mmuVars      == <<registers, tlb, socket_memory>>
storeVars    == <<row, clock_structures, bitmap_memory, bitmap_swap,
                  principal_memory, swap, memory_alive>>
newVars      == <<storeVars, pcbRegisters, mmuVars>>
sistemaVars  == <<vars, newVars>>

Silent == [op |-> "none", frame |-> -1, value |-> 0]

Message(op, f, value) == [op |-> op, frame |-> f, value |-> value]

-----------------------------------------------------------------------------
(* The CPU: process_dispatch and execute_process.                          *)

ExecutePcb_RegistersKept ==
    /\ CpuReceive
    /\ UNCHANGED newVars

(* EXECUTE_PCB: receive_pcb, set_registers.                                *)
ExecutePcb ==
    /\ CpuReceive
    /\ registers' = cpu_registers[Head(toCpu)]
    /\ UNCHANGED <<storeVars, pcbRegisters, tlb, socket_memory>>

(* Out of the loop: save_context_pcb, and the PCB goes back.  An           *)
(* instruction under way is not interrupted.                               *)
GiveBackPcb ==
    /\ socket_memory = Silent
    /\ CpuReturn
    /\ cpu_registers' = [cpu_registers EXCEPT ![cpu] = registers]
    /\ UNCHANGED <<storeVars, mmuVars, fault>>

Fetching ==
    /\ cpu # NoProcess
    /\ event = "none" /\ ~check_interruption
    /\ socket_memory = Silent

Instr  == Code[cpu][program_counter[cpu] + 1]
ThePage == PageOf(cpu, Instr.address)

(* The instruction is over: update_program_counter.                        *)
Complete(e) ==
    /\ event' = e
    /\ program_counter' = [program_counter EXCEPT ![cpu] = @ + 1]
    /\ UNCHANGED <<kernelVars, console, cpu, check_interruption, memVars>>

ExecuteSetOrAdd ==
    /\ Fetching /\ Instr.op \in Arithmetic
    /\ registers' = ExecuteArithmetic(registers, Instr)
    /\ Complete("none")
    /\ UNCHANGED <<storeVars, pcbRegisters, tlb, socket_memory>>

(* I/O, EXIT, and an access past the end of its segment.                   *)
ExecuteAndLeave ==
    /\ Fetching
    /\ LET kind == KindOf(cpu, Instr) IN
       /\ kind \in {"EXIT", "FAULT", "CONSOLE"} \cup Device
       /\ Complete(EventOf(cpu, kind))
    /\ UNCHANGED newVars

(* The second exchange: MOV_IN or MOV_OUT, with the frame that was found.  *)
Request(f) ==
    Message(Instr.op, f,
            IF Instr.op = "MOV_OUT" THEN registers[Instr.register] ELSE 0)

(* build_physical_address: a TLB hit is not checked with the memory.       *)
TranslateByTlb ==
    /\ Fetching /\ KindOf(cpu, Instr) = "MOV"
    /\ present_in_tlb(tlb, ThePage) # -1
    /\ tlb' = Referenced(tlb, ThePage)
    /\ socket_memory' = Request(present_in_tlb(tlb, ThePage))
    /\ UNCHANGED <<vars, storeVars, pcbRegisters, registers>>

(* find_frame.                                                             *)
AskFrame ==
    /\ Fetching /\ KindOf(cpu, Instr) = "MOV"
    /\ present_in_tlb(tlb, ThePage) = -1
    /\ socket_memory' = Message("FRAME_REQUEST", -1, 0)
    /\ UNCHANGED <<vars, storeVars, pcbRegisters, registers, tlb>>

ReceiveFrame ==
    /\ socket_memory.op = "FRAME_RESPONSE"
    /\ tlb' = add_to_tlb(tlb, ThePage, socket_memory.frame)
    /\ socket_memory' = Request(socket_memory.frame)
    /\ UNCHANGED <<vars, storeVars, pcbRegisters, registers>>

(* The instruction will be executed again: the program counter stays.      *)
ReceivePageFault ==
    /\ socket_memory.op = "PAGE_FAULT"
    /\ fault' = [fault EXCEPT ![cpu] = ThePage]
    /\ event' = "PAGE_FAULT"
    /\ socket_memory' = Silent
    /\ UNCHANGED <<kernelVars, console, cpu, program_counter,
                   check_interruption, memVars>>
    /\ UNCHANGED <<storeVars, cpu_registers, registers, tlb>>

(* store_value_in_register.                                                *)
ReceiveMovIn ==
    /\ socket_memory.op = "MOV_IN_OK"
    /\ registers' = [registers EXCEPT ![Instr.register] = socket_memory.value]
    /\ Complete("none")
    /\ socket_memory' = Silent
    /\ UNCHANGED <<storeVars, pcbRegisters, tlb>>

ReceiveMovOut ==
    /\ socket_memory.op = "MOV_OUT_OK"
    /\ Complete("none")
    /\ socket_memory' = Silent
    /\ UNCHANGED <<storeVars, pcbRegisters, registers, tlb>>

-----------------------------------------------------------------------------
(* The memory, attend_cpu.  The CPU waits: what it asked for is the        *)
(* instruction it is at.                                                   *)

AnswerFrameRequest ==
    /\ socket_memory.op = "FRAME_REQUEST"
    /\ LET f == Mem!get_frame_number_RAM(ThePage) IN
       socket_memory' =
           Message(IF f = -1 THEN "PAGE_FAULT" ELSE "FRAME_RESPONSE", f, 0)
    /\ UNCHANGED <<vars, storeVars, pcbRegisters, registers, tlb>>

AnswerMovIn ==
    /\ socket_memory.op = "MOV_IN"
    /\ Mem!mov_in(ThePage)
    /\ socket_memory' =
         Message("MOV_IN_OK", -1,
                 Mem!read_value_in_principal_memory(socket_memory.frame,
                                                    OffsetOf(Instr.address)))
    /\ UNCHANGED <<vars, pcbRegisters, registers, tlb>>

AnswerMovOut ==
    /\ socket_memory.op = "MOV_OUT"
    /\ Mem!mov_out(cpu, ThePage[2], socket_memory.frame,
                   OffsetOf(Instr.address), socket_memory.value)
    /\ socket_memory' = Message("MOV_OUT_OK", -1, 0)
    /\ UNCHANGED <<vars, pcbRegisters, registers, tlb>>

(* The memory, attend_kernel.                                              *)

(* When the swap is full, nothing is said of what the kernel is answered.  *)
AnswerInit ==
    /\ toMemory # <<>> /\ Head(toMemory).op = "INIT_PROCESS_STRUCTURES_MEMORY"
    /\ LET p == Head(toMemory).pcb IN
       \/ MemoryInit /\ Mem!BuildTables(p)
       \/ Mem!SwapFull(p) /\ UNCHANGED vars
    /\ UNCHANGED <<pcbRegisters, mmuVars>>

AnswerPageFault ==
    /\ MemoryLoadPage
    /\ Mem!request_page_fault(fault[Head(toMemory).pcb])
    /\ UNCHANGED <<pcbRegisters, mmuVars>>

ServeEnd ==
    /\ MemoryEnd
    /\ Mem!delete_process(Head(toMemory).pcb)
    /\ UNCHANGED <<pcbRegisters, mmuVars>>

-----------------------------------------------------------------------------
(* The system.                                                             *)

SistemaInit ==
    /\ Init
    /\ row = [pg \in Mem!Page |-> Mem!NewRow(-1)]
    /\ clock_structures = [p \in {} |-> <<>>]
    /\ bitmap_memory = {} /\ bitmap_swap = {}
    /\ principal_memory = [f \in Mem!Frame |-> [o \in Mem!Offset |-> Unset]]
    /\ swap = [i \in Mem!Position |-> Mem!NewSwapPage]
    /\ memory_alive = TRUE
    /\ cpu_registers = [p \in Process |-> [r \in Register |-> 0]]
    /\ registers = [r \in Register |-> 0]
    /\ tlb = init_tlb
    /\ socket_memory = Silent
    /\ fault = [p \in Process |-> NoPage]

Unchanged(A) == A /\ UNCHANGED newVars

DispatchThread == ExecutePcb \/ GiveBackPcb \/ ExecuteSetOrAdd
                  \/ ExecuteAndLeave \/ TranslateByTlb \/ AskFrame
                  \/ ReceiveFrame \/ ReceivePageFault \/ ReceiveMovIn
                  \/ ReceiveMovOut
AttendCpu      == AnswerFrameRequest \/ AnswerMovIn \/ AnswerMovOut
AttendKernel   == AnswerInit \/ AnswerPageFault \/ ServeEnd

Running == alive /\ memory_alive

SistemaNext ==
    /\ Running
    /\ \/ \E p \in Process : \/ Unchanged(ConsoleThread(p))
                             \/ Unchanged(PageFaultThread(p))
                             \/ Unchanged(Console(p))
       \/ \E d \in Device : Unchanged(DeviceThread(d))
       \/ Unchanged(Scheduler)
       \/ Unchanged(Dispatch)
       \/ Unchanged(Clock)
       \/ Unchanged(Interrupt)
       \/ Unchanged(ManageMemory)
       \/ Unchanged(CpuInterrupt)
       \/ DispatchThread
       \/ AttendCpu
       \/ AttendKernel

SistemaSpec == SistemaInit /\ [][SistemaNext]_sistemaVars

(* As in Geck: every thread that can go on does.                           *)
SistemaFairness ==
    /\ \A p \in Process :
          /\ WF_sistemaVars(Running /\ Unchanged(ConsoleThread(p)))
          /\ WF_sistemaVars(Running /\ Unchanged(PageFaultThread(p)))
          /\ WF_sistemaVars(Running /\ Unchanged(Console(p)))
    /\ \A d \in Device : WF_sistemaVars(Running /\ Unchanged(DeviceThread(d)))
    /\ WF_sistemaVars(Running /\ Unchanged(Scheduler))
    /\ WF_sistemaVars(Running /\ Unchanged(Dispatch))
    /\ WF_sistemaVars(Running /\ Unchanged(Clock))
    /\ WF_sistemaVars(Running /\ Unchanged(Interrupt))
    /\ WF_sistemaVars(Running /\ Unchanged(ManageMemory))
    /\ WF_sistemaVars(Running /\ Unchanged(CpuInterrupt))
    /\ WF_sistemaVars(Running /\ DispatchThread)
    /\ WF_sistemaVars(Running /\ AttendCpu)
    /\ WF_sistemaVars(Running /\ AttendKernel)

FairSistema == SistemaSpec /\ SistemaFairness

-----------------------------------------------------------------------------
(* Properties.                                                             *)

(* Every new variable keeps its type.                                      *)
SistemaTypeOK ==
    /\ Mem!TypeOK
    /\ cpu_registers \in [Process -> [Register -> Word]]
    /\ registers \in [Register -> Word]
    /\ Len(tlb) = ENTRADAS_TLB
    /\ \A i \in DOMAIN tlb :
          tlb[i] \in [page : Mem!Page \cup {NoPage}, frame : Mem!Frame \cup {-1}]
    /\ socket_memory \in
         [op : {"none", "FRAME_REQUEST", "FRAME_RESPONSE", "PAGE_FAULT",
                "MOV_IN", "MOV_IN_OK", "MOV_OUT", "MOV_OUT_OK"},
          frame : Mem!Frame \cup {-1}, value : Word]
    /\ fault \in [Process -> Mem!Page \cup {NoPage}]

(* The kernel and the CPU use the memory as module Memoria supposes: no    *)
(* process is initialised twice, none is touched after delete_process, and *)
(* a page is only asked for while it is absent.                            *)
KeepsProtocol == Mem!Spec

(* What the configuration of the memory must be for its stores to suffice. *)
(* find_page_free looks no further than the size of the swap, in the       *)
(* bitmap of the frames too (memoria.c:550),                               *)
EnoughFrames ==
    Grado * MARCOS_POR_PROCESO <= Frames /\ Grado * MARCOS_POR_PROCESO <= SwapPages

(* and a process more than Grado may have its tables in memory.            *)
EnoughSwap ==
    \A S \in SUBSET Process :
        Cardinality(S) <= Grado + 1
          => Cardinality(UNION {Mem!PagesOf(p) : p \in S}) <= SwapPages

(* With EnoughFrames and EnoughSwap, the memory never lacks a frame or a   *)
(* page of the swap, and finds the row of each frame the CPU writes to.    *)
MemorySurvives == memory_alive

(* What the configuration of the CPU must be for its TLB not to be wrong:  *)
(* no more than one entry, or no page that ever leaves its frame.          *)
TlbIsSafe ==
    \/ ENTRADAS_TLB <= 1
    \/ \A p \in Process : Cardinality(Mem!PagesOf(p)) <= MARCOS_POR_PROCESO

(* What a process would read at an address.                                *)
ContentAt(p, a) ==
    LET r == row[PageOf(p, a)]
        o == OffsetOf(a)
    IN  IF r.presence THEN principal_memory[r.frame_number][o]
                      ELSE swap[r.swap_position][o]

(* A MOV_IN or MOV_OUT the memory has done, and the CPU does not know yet. *)
Done(p) == cpu = p /\ socket_memory.op \in {"MOV_IN_OK", "MOV_OUT_OK"}

ContextOf(p) ==
    IF p # cpu THEN cpu_registers[p]
    ELSE IF socket_memory.op = "MOV_IN_OK"
      THEN [registers EXCEPT ![Instr.register] = socket_memory.value]
    ELSE registers

(* The addresses of p, up to the end of its last segment.                  *)
AddressesOf(p) == {a \in 0 .. Len(Segments[p]) * max_segment_size - 1 :
                      ~sigsegv(p, a)}

ContentOf(p) == IF p \in structures
                  THEN [a \in AddressesOf(p) |-> ContentAt(p, a)]
                  ELSE <<>>

Alone(p) == INSTANCE Aislado WITH
    Self     <- p,
    Code     <- Code[p],
    resident <- p \in structures,
    counter  <- program_counter[p] + (IF Done(p) THEN 1 ELSE 0),
    context  <- ContextOf(p),
    content  <- ContentOf(p)

(* Every process executes its program as if it were alone: paging,         *)
(* replacement, preemption, the TLB and the other processes change neither *)
(* what it reads nor which instruction comes next.  (Alone(p)!Spec for     *)
(* each p, written as one formula.)                                        *)
ImplementsAislado ==
    /\ \A p \in Process : Alone(p)!Init
    /\ [][\A p \in Process :
            UNCHANGED Alone(p)!vars \/ Alone(p)!Next]_sistemaVars

(* While no page leaves its frame, what the TLB says of a live process is  *)
(* what its page table says.                                               *)
TlbAgrees ==
    \A i \in DOMAIN tlb :
        tlb[i].page # NoPage /\ tlb[i].page[1] \in structures
          => /\ row[tlb[i].page].presence
             /\ row[tlb[i].page].frame_number = tlb[i].frame

(* `Lee el valor de memoria del segmento de Datos correspondiente a la     *)
(* Direccion Logica': what MOV_IN brings is what is at its address.        *)
ReadsItsAddress ==
    socket_memory.op = "MOV_IN_OK"
      => socket_memory.value = ContentAt(cpu, Instr.address)

(* Page faults, replacements and all, every process that its console       *)
(* starts ends (unless the kernel dies first): nobody else can take the    *)
(* page it faulted for before it runs again.                               *)
EveryProgramEnds ==
    (<>~alive) \/ \A p \in Process : <>(status[p] = "EXIT" /\ console[p] = "ended")

=============================================================================
