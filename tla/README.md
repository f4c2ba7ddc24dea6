# GECK in TLA+

GECK is a small distributed simulation of an operating system: consoles send
programs to a **kernel**, which schedules them as processes on a **CPU** whose
addresses a **memory** translates, loads and swaps. Each of the four is a
process of its own and they talk over TCP. This directory holds TLA+ modules
that model the code, TLC configurations that check them on small instances, and
theorems TLAPS proves for every instance.

    tlc -workers 2 -config fifo.cfg MCGeck        # a check
    tlc -workers 2 -config paginas.cfg MCSistema
    tlapm MemoriaProofs.tla                       # a proof

## The system

| component | code | state | operations |
|---|---|---|---|
| consoles and long-term scheduler | `kernel.c` `receive_console` (102), `schedule_next_to_ready` (289), `init_structures_memory` (838) | `list_NEW`, `sem_schedule_ready`, `sem_grado_multiprogamacion`, `sem_init_process_memory`, one thread per console | create a PCB, wait for a place, have the memory build its tables, make it ready; take back the PCB that did an I/O on the console |
| short-term scheduler | `schedule_next_to_running` (337) | `list_READY`, `list_READY_RR`, `list_READY_FIFO`, `list_RUNNING`, `sem_process_in_ready`, `sem_cpu_free_to_execute`, `ultimo` | send the next PCB to the CPU, start the clock |
| dispatch | `manage_dispatch` (475) | `list_BLOCKED`, `list_EXIT`, `flag_out_of_Running` | take back a PCB: I/O, end of quantum, page fault, end, segmentation fault |
| quantum | `count_quantum_of_RoundRobin` (438), `manage_interrupt` (659) | `m_out_of_Running`, three semaphores | count, interrupt the CPU, forget the count |
| page faults | `resolve_page_fault` (859), `manage_memory` (676) | `m_resolve_page_fault`, one thread per fault | ask the memory for a page, make the process ready again |
| devices | `execute_io_default` (825), `simulate_io_default` (785) | one queue, semaphore and thread per device | serve one PCB after another |
| CPU cycle | `cpu.c` `process_dispatch` (124), `execute_process` (193), `process_interrupt` (158) | event flags, `check_interruption`, registers | run a PCB until an event, send it back |
| CPU address translation, TLB | `cpu.c` 469-577, 643-743 | TLB entries with their times | translate, fault, replace FIFO or LRU |
| memory, kernel side | `memoria.c` `attend_kernel` (281) | page tables, bitmaps, swap, clocks | build the tables of a process, load a page, delete a process |
| memory, CPU side | `memoria.c` `attend_cpu` (170) | frames, use and modified bits | frame of a page, read, write |
| console | `consola.c` | - | send a program, show or type a register, end |
| sockets, serialization | `shared.c` | descriptors | packages, PCBs |

The threads of the kernel meet in the lists of PCBs, ten semaphores and two
flags. A PCB is copied at every connection it crosses (kernel - CPU - kernel -
memory or console - kernel); the kernel keeps the copies it sent in
`list_RUNNING` and `list_BLOCKED` and drops entries of `list_RUNNING` by
position.

What makes it hard: every wait of one thread is another thread's post; the
console's thread both admits processes and reads the answers of one; the CPU
is declared free before its PCB is put anywhere; `ultimo` and the clock learn
of a process after it was sent; a quantum can expire after the process it
counts for has left; the place of a process is given back before the memory
forgets it; one fault at a time is resolved, under a mutex that one thread
locks and another unlocks; an access to memory is two exchanges with the memory
between which the kernel may ask it to move or delete pages; a page fault makes
an instruction start again; the TLB is a copy of page tables that change.

What would make it correct, part by part: no PCB is lost or doubled; the degree
of multiprogramming is what it says; one PCB at most is with the CPU; every
ready process is announced to the scheduler exactly once; no thread takes a PCB
from an empty list; admissions do not mix; threads do not end up waiting for
each other; every process ends and its console is told; a translated address
is in a frame of the process that owns the page; a page comes back from swap as
it was written; a frame has one owner.

## Modules

| module | models |
|---|---|
| `Kernel` | the threads of `kernel.c`, one action for what a thread does from one call that can block it to the next |
| `Lifecycle` | what the kernel promises: the five-state life of processes, one executing at a time, at most `Grado` admitted |
| `Geck` | `Kernel` with the CPU, the memory and the consoles at the ends of its connections; the properties; the refinement of `Lifecycle` |
| `MCGeck` | programs and sets for TLC |
| `Reemplazo` | what CLOCK and CLOCK-M decide, as a relation on the bits of the pages |
| `Reloj` | their searches, one row of the clock per step |
| `Memoria` | `memoria.c`: page tables, frames, swap, clocks, one action per request |
| `Procesador` | `cpu.c`: registers, translation of addresses, TLB |
| `Aislado` | what a process is promised: its instructions, one after the other, on registers and a memory of its own |
| `Sistema` | `Geck` with `Memoria` and `Procesador` in the place of one abstract page per process; the refinement of `Aislado` |
| `MCSistema`, `MCMemoria` | programs and segments for TLC |
| `GeckProofs` | type correctness of `Geck` |
| `GeckSafetyProofs` | `CpuExclusive`, `ReadyAnnounced`, `NoEmptyRemove` and `AdmissionExclusive` |
| `GeckPlaceProofs` | `OneCopy` |
| `GeckLifecycleProofs` | `GradeAccounted`, `MemoryBounded`, and that `Geck` implements `Lifecycle` |
| `MemoriaProofs` | types, owners of frames and of swap pages, clocks and tables; what a request does to what the pages hold |
| `RelojProofs` | the searches do what `Reemplazo` says |
| `SistemaProofs` | `SistemaTypeOK`, `KeepsProtocol`, and what `Memoria` promises, of `Sistema` |
| `AisladoProofs` | `ReadsItsAddress`, `TlbAgrees`, `MemorySurvives`, and that `Sistema` implements `Aislado` |

`Sistema` extends `Geck`: every step of the kernel and of the consoles is
`Geck`'s, with the new variables unchanged. `Memoria` is instantiated twice over
its own variables: for its operators, and as a specification that `Sistema` must
implement (`KeepsProtocol`), because its `Next` says how it may be used. That is
what carries the theorems about `Memoria` over to the system, and it is proved
(`MemoryUsedByProtocol`).

### State

`list` is the lists by name, `sem` the semaphores by name (without `sem_`).
`thread`, `scheduler`, `dispatch` and `clock` say where each thread stands:
`thread[p]` is `"receive"` in `receive_operation`, `"schedule"` before
`sem_schedule_ready`, `"grado"` before the place, `"init"` before the answer of
the memory. `clock = "finish"` is the wait at kernel.c:467, the only one with
`m_out_of_Running` locked, so the mutex is defined from it. The clock begins with
an unlock of a mutex it does not hold (kernel.c:447). With the default mutexes of
glibc, if the dispatch thread holds it, that thread's section goes on beside the
count (`"overlapped"`): what it writes to the flag may be lost to the reset of 448,
and if the quantum expires before its unlock, that unlock is of the clock's lock and
the wait of 467 has the mutex open (`"unlocked"`). A connection is a
FIFO sequence of messages; `interrupt` counts those on the interrupt connection,
which all say the same. A process is named by its console, and a program is a
sequence of what its instructions make the CPU do: compute, access its page,
access past its segment, use the console, use a device, end.

`alive` becomes FALSE when the dispatch thread reads `ultimo` before the
scheduler ever wrote it (`strcmp` of NULL, kernel.c:493): the kernel dies there
and nothing moves after.

In `Memoria` a page is `<<process, segment, number>>`, `row` is its
`Page_table_row`, a bitmap is the set of its bits that are 1, a clock is the
sequence of its frames and a pointer, and `structures` are the processes
initialised and not deleted; rows and clocks of the deleted ones stay, as in
the code. `memory_alive` becomes FALSE where the code goes on with an index it
should not have: the swap is full (memoria.c:486), no frame is free (348), a
MOV_OUT finds no row for its frame (932).

In `Sistema`, `socket_memory` holds the request or the answer between CPU and
memory (the CPU sends one at a time and waits), `registers` and `tlb` are the
CPU's, `cpu_registers` the copy in each PCB, `fault` the segment and page that
travel with a PCB from the CPU through the kernel to the memory.

### Actions

`ConsoleThread(p)`, `Scheduler`, `Dispatch`, `Clock`, `Interrupt`,
`ManageMemory`, `PageFaultThread(p)` and `DeviceThread(d)` are the threads of
the kernel, `Console(p)`, `Cpu`, `CpuInterrupt` and `Memory` the others.
`PROJECT.json` maps each action to its lines. Time is not measured: the quantum
may elapse at any moment of the count and a device may take any time.

The CPU's step of `Geck` becomes, in `Sistema`, the steps of `DispatchThread`:
fetch and execute (`ExecuteSetOrAdd`, `ExecuteAndLeave`), or translate
(`TranslateByTlb`, or `AskFrame` and its answers `ReceiveFrame`,
`ReceivePageFault`), then the access and its answer (`ReceiveMovIn`,
`ReceiveMovOut`). The memory answers the CPU (`AttendCpu`) and the kernel
(`AttendKernel`) in any order, one request at a time, as `thread_memory` has it.

A replacement is one action of `Memoria`: the search runs under the mutex, and
`Reemplazo` says which page it takes and which use bits it clears. That the
loops of the code come to the same is the subject of `Reloj`.

An operator whose name continues another's after an underscore and a capital
(`FreedBy_CpuKept`) is that operator with a bug in it. Substituting it must make
the property it is listed with fail.

### Abstractions

* List operations are atomic. The mutex that should make them so is passed by
  value (kernel.c:275) and protects nothing; see
  Not modelled.
* What goes on between two waits of one thread is one step; posts of several
  semaphores and sends on several connections in it happen together.
* `status` is the state of the copy of the PCB in use. The second write of
  READY at kernel.c:703 is joined to the first: nothing reads the field but logs.
* In `Geck` a process has one page and no values; `Sistema` has the rest.
* Sizes, offsets and addresses are counted in words of four bytes: accesses are
  aligned and stay in their page, as those of `geck-pruebas` do. A word is a
  number below `Words`, which stands for 2^32, or `Unset`, a word nobody wrote:
  `malloc` gives the frames, and `create_swap` copies a page's worth of bytes
  from a four-byte variable, so only the first word of a swap page is zero.
* `index_page` is the position of a table in `all_page_tables`, which grows in
  the order of initialisation; process and segment stand for it.
* The rows of the TLB are kept in the order in which they are to leave, which is
  what the times they carry are for; two equal times do not occur.
* A value typed at the console for an I/O does not change a register in
  `Sistema`; the program of `paginas` that uses its console shows on the screen.
* The programs of `Sistema` use addresses of segments they have, inside the limit
  or past it, and end in EXIT or in a segmentation fault: the segment of another
  address, and the instruction after the last, are read through NULL.
* Disconnections other than a console that ends, and malformed configurations,
  end a module at once and are not modelled.

## Properties

| property | says |
|---|---|
| `TypeOK` | types; no semaphore below zero; no operation without a handler |
| `OneCopy` | exactly one list, message or thread holds the PCB of each process created |
| `GradeAccounted` | free places, processes in the system and the admission under way add up to the degree |
| `MemoryBounded` | at most one process too many has page tables; frames belong to at most `Grado` processes |
| `AdmissionExclusive` | one admission at a time; what travels to and from the memory is the head of `list_NEW` |
| `CpuExclusive` | the semaphore of the CPU and the PCBs with it or on its connection add up to one |
| `ReadyAnnounced` | tokens of the scheduler = entries of the ready queues (FIFO and RR) |
| `NoEmptyRemove` | no list is read or shortened while empty; tokens never exceed entries |
| `ImplementsLifecycle` | the kernel refines `Lifecycle` |
| `NoStandstill` | when nothing can move, every process has ended and its console too; the code does not keep it |
| `HangsOnlyAtClock` | the same, but for the clock's wait at kernel.c:467 while the dispatch thread needs its mutex |
| `EveryProcessEnds` | every process reaches EXIT and its console is told, unless the kernel dies |
| `PlaceMeansMemory` | what the comment of kernel.c:616 says, which the code does not keep |
| `SistemaTypeOK` | types of memory, CPU and what travels between them |
| `FrameHasOneOwner` | no two pages of live processes in a frame; the taken frames are exactly those with a page |
| `SwapHasOneOwner` | the same of the swap |
| `ClockMatchesTables` | a clock lists exactly the present pages of its process, each in its frame |
| `MemorySurvives` | with `EnoughFrames` and `EnoughSwap`, the memory never runs out of frames or swap, and finds the row of every frame written to |
| `KeepsProtocol` | the kernel and the CPU use the memory as `Memoria` supposes |
| `ImplementsAislado` | each process executes as if it were alone |
| `EveryProgramEnds` | page faults and replacements included, every program ends |
| `TlbAgrees` | without replacement, the TLB says what the page tables say |
| `ReadsItsAddress` | what the comment of cpu.c:339 says of MOV_IN, which fails with a TLB of several entries and replacement, and is proved without the one or the other |
| `ReplacesAsDecided` | a search ends having done in one step what `Reemplazo` says |
| `NewestSpared` | CLOCK never takes the page loaded last |
| `SearchEnds` | a search ends |

In the refinement of `Lifecycle`, a process executes while the CPU or its dispatch connection
has its PCB; when the dispatch thread has taken a preempted PCB it is READY, one
that faulted or does an I/O BLOCKED, and one that ended EXIT, which is the step
where the place is given back.

In the refinement of `Aislado`, the memory of a process is, at each of its
addresses, what is in the frame of the page or else in its swap page, and an
instruction takes effect when the memory serves it, before the CPU knows
(`Done`, `ContextOf`). A process that is initialised finds anything in its
memory, also what the last owner of its swap pages left. That it has its memory
(`resident`) is a variable of its own: a process whose segments are empty has
memory, too, and no content.

## Runs

All instances have one device at most, and two or three processes.

| run | instance | shows |
|---|---|---|
| `fifo` | FIFO, 3 processes, `Grado` 2; page faults, a device, a segmentation fault | `TypeOK`, `OneCopy`, `GradeAccounted`, `MemoryBounded`, `AdmissionExclusive`, `ReadyAnnounced`, `ImplementsLifecycle`, `EveryProcessEnds` hold |
| `rr` | RR, 3 processes, `Grado` 2, one uses its console | `OneCopy`, `CpuExclusive`, `ReadyAnnounced`, `HangsOnlyAtClock` hold |
| `feedback` | FEEDBACK, 3 processes that compute, `Grado` 2 | `NoEmptyRemove`, `CpuExclusive`, `HangsOnlyAtClock`, `ImplementsLifecycle` hold |
| `feedback_starves` | FEEDBACK with page faults | `NoStandstill` fails: kernel.c:696 posts nothing |
| `screen_hangs` | FIFO, `Grado` 1, screen | `NoStandstill` fails: the thread that must read the answer waits for the place |
| `quantum_hangs` | RR, 3 processes that compute | `NoStandstill` fails: two quanta expire over an empty list, and the clock waits with the mutex locked |
| `place_memory` | as `fifo` | `PlaceMeansMemory` fails: one process too many has tables |
| `reloj` | four frames, both algorithms, every combination of bits | `TypeOK`, `ReplacesAsDecided`, `NewestSpared`, `SearchEnds` hold |
| `tablas` | `Memoria` alone: 3 processes, 6 pages, 3 frames, 4 swap pages, CLOCK-M | `TypeOK`, `FrameHasOneOwner`, `SwapHasOneOwner`, `ClockMatchesTables` hold |
| `paginas` | FIFO, 2 processes together, three pages and two frames each, CLOCK, a TLB of one entry; a screen, a segmentation fault | `SistemaTypeOK`, `MemorySurvives`, `ReadsItsAddress`, `KeepsProtocol`, `ImplementsAislado`, `EveryProgramEnds` hold |
| `tlb` | RR, 2 processes, a TLB of one entry, LRU, a frame for every page | `TlbAgrees`, `ImplementsAislado` hold |
| `tlb_stale` | as `paginas`, a TLB of four entries, LRU | `ReadsItsAddress` fails: nothing removes an entry whose page left |

Bounds. In `fifo` the third process waits for a place while another ends, so that
admissions queue, meet and overtake. In `rr` and `feedback` it is needed by the
clock: `sem_interruption_quantum_finish` starts at 1, so it takes two quanta that
expire over an empty `list_RUNNING` to hold the clock up, which two processes that
end can bring about, and a third one that wants to leave to be held up with it.
With two processes everyone has ended by then. `NoStandstill` fails in both
instances, so the exception of `HangsOnlyAtClock` is one that they reach; what the
runs add to `quantum_hangs` is that there is no other. Programs have one to three
instructions: an event, and what comes before and after it; a process can be
preempted before its first instruction, so a program of EXIT alone can too.
Processes with the same program are interchangeable (`SYMMETRY`); the
properties of these two runs are invariants and the steps of `Lifecycle`, which
name no process. Page faults are in `fifo` and not in `feedback`, because of the
standstill `feedback_starves` shows. In `rr` and `feedback` at most one process uses
its console: when all that hold a place wait for an answer, the standstill is that
of `screen_hangs`. No counter is capped. The programs are finite; each quantum is
posted for one dispatch of a PCB, so no semaphore grows without one.

Memory. `tablas` has every request in every order `Memoria!Next` allows, and too
little of both stores, so that the swap fills up, no frame is free, and a MOV_OUT
comes with a frame that has changed hands; its pages have one word of one value,
as none of its properties speaks of contents. In `paginas`, frames and swap are
the least that two processes together need. Programs fault, write, come back to
pages that were replaced, and write a part of one; pages have two words. A TLB of
one entry is safe with replacement, because the instruction that faulted is
executed again before its process can use what it lost, and `paginas` shows it;
with more entries `ReadsItsAddress` fails. So the run where a TLB entry is hit
after others ran, `tlb`, has a frame for each page. Both are instances of
`TlbIsSafe`, and `tlb_stale` is the least that is not; `EnoughFrames` and
`EnoughSwap` are evaluated for all three (`StoresSuffice`). Round robin is in `tlb`
only, for the standstill of `quantum_hangs`. The order of LRU among several
entries is seen in `tlb_stale` only.

Deadlock is not checked by TLC because the system comes to rest when the
programs have ended; `NoStandstill` says when it may, and `HangsOnlyAtClock` when it
does.

Liveness is checked where nothing preempts, in `fifo` and `paginas`. Under RR it
does not hold of the model: time is not measured, and a quantum that expires
before each first instruction keeps a process from ever executing. Under FEEDBACK
the same behaviours end in `list_READY_FIFO`, but three processes with fairness are
more than TLC can explore in reasonable time, and two do not reach the
clock's wait; only `HangsOnlyAtClock` is checked there.

Fairness. Weak fairness of each thread of the kernel, each console, the CPU and
the memory: these are threads and processes the operating system schedules, a
thread whose wait can be satisfied goes on, and a console starts when its user
starts it. `sem_wait` and mutexes need no strong fairness here, each having one
waiter that matters at a time or waiters that are only once in line. The fairness
is on a thread as a whole, not on each of its actions. In `Sistema` the CPU and the
two threads of the memory are fair in the same way; both exchanges of an access
are with a thread that does nothing else, and the mutex it needs is held for one
request. `Reloj` has weak fairness of the search alone, a loop of one thread.

## Proofs

The modules whose names begin with `Geck` prove, for every finite set of
processes, set of devices, program, algorithm and degree:

* `TypeCorrect`: `Spec => []TypeOK`. One lemma per thread; each takes that
  thread's actions one by one and looks at the parts of `TypeOK` an action
  touches. `TypeUnchanged` settles the parts it leaves alone.
* `CpuIsExclusive`: `Spec => []CpuExclusive`. With the types the sum is
  inductive: the scheduler trades the token for a message, the CPU moves the PCB
  along, the dispatch thread trades a message for the token.
* `ReadyIsAnnounced`: under FIFO and RR, `Spec => []ReadyAnnounced`. `ReadyStep`
  says what a step may do to tokens and queues together: nothing, one more of
  each, one fewer of each, or, under FEEDBACK only, an entry without a token.
  The last is the page fault of `feedback_starves`, and the reason for the
  theorem's assumption.
* `ListsNeverEmpty`: `Spec => []NoEmptyRemove`. `NoEmptyRemove` is not inductive:
  that `list_RUNNING` has an entry when the dispatch thread removes one depends
  on every PCB still on its way. `ListInv` counts instead: `list_NEW` is as long
  as there are threads with an admission under way (`NewCoversAdmitting`), ready
  queues have an entry for each token (`ReadyCoversTokens`), `list_RUNNING` an
  entry for each PCB between the scheduler and the end of its handling
  (`RunningCoversCpu`), and each algorithm leaves the other's queues empty
  (`OwnQueues`), which makes the queue `NextQueue` picks a non-empty one.

* `AdmissionIsExclusive`: `Spec => []AdmissionExclusive`. That the request of an
  admission and its answer are about the head of `list_NEW` does not say that a
  second admission cannot begin meanwhile. `AdmissionInv` says why it cannot:
  request, answer, post of `sem_init_process_memory` and free
  `sem_schedule_ready` are one thing in one of four places, a thread waits for
  the answer as long as it is not the last, and the other threads of consoles do
  not stand where they could take the head.
* `NoneLostOrDoubled`: `Spec => []OneCopy`. `OneCopy` counts over lists,
  connections and threads. `PlaceInv` says it of each process instead: a
  process has one place, named by its state, its thread or the message that
  carries it; no sequence has it twice; it is in no two of them; and what was
  sent to a console or a device was sent once. Each action is then a move from
  one place to another, and the theorem counts the places.
* `DegreeIsAccounted`: `Spec => []GradeAccounted`. `GradeStep` looks at what each
  action does to the states of the PCBs, by the same moves: only the step of
  `schedule_next_to_ready` takes a place and only the dispatch thread's EXIT
  gives one back.
* `MemoryIsBounded`: `Spec => []MemoryBounded`. The place is given back before the
  memory forgets the process, so nothing in the present state says that only one
  such process has tables. `MemoryInv` speaks of what is still on the connection
  to the memory: for each request that builds tables, or takes frames, the
  bound holds with the requests to delete that precede it carried out. It rests
  on who holds tables (those inside, those ending or being admitted), on one page
  fault at a time (`m_resolve_page_fault`), and on the order of the queue
  (`RoomForStructures`, `RoomForFrames`, `Held`, `OneFault`).
* `KernelImplementsLifecycle`: `ImplementsLifecycle`. `PlaceInv` says that a
  process with the CPU is not in a list of another state, `CpuExclusive` that
  there is one, `GradeAccounted` that an admission finds a place
  (`RoomForOne`); with them `LifeStep` maps each action to one of `Lifecycle`'s
  or to a stutter.

`MemoriaProofs`, for every set of processes, segments, page size, number of
frames and swap pages, and algorithm, of `Memoria!Spec`:

* `Typed`, `FramesOwned`, `SwapOwned`, `ClocksMatch`: `[]TypeOK`,
  `[]FrameHasOneOwner`, `[]SwapHasOneOwner`, `[]ClockMatchesTables`. None of the
  four is inductive alone. A replacement keeps frames apart only because the
  clock it looks in lists pages of its own process that are present
  (`ClockMatchesTables`); a clock stays true to the tables only because the free
  frame that is appended is nobody's (`FrameHasOneOwner`); and `Placed` adds
  that a present page has a frame and every live page a place in the swap.
  `IInv` is their conjunction with the types. One lemma per request
  and conjunct; lemmas on `add_page_to_clock_structure` say which row of the
  clock it changes.

`RelojProofs`, for every number of frames, of `Reloj!Spec`:

* `Typed`, `SearchDecides`, `NewestIsSpared`: `[]TypeOK`, `ReplacesAsDecided`,
  `NewestSpared`. The invariant says, in each loop, what the rows already passed
  were and what has become of their use bits; `Distance` turns the circle into
  a line. With CLOCK, the pointer is always past the newest page, which is why
  that page is the last one a search comes to.

`SistemaProofs`, for all of these at once, and every code, number of registers
and size of the TLB:

* `SistemaTyped`: `SistemaSpec => []SistemaTypeOK`.
* `MemoryUsedByProtocol`: `SistemaSpec => KeepsProtocol`. Each step of the system
  is one that `Memoria!Next` allows, or leaves the memory alone. What makes this
  hard is that a request is decided in one state and served in a later one. So
  `SistemaInv` says of everything under way what will make it legal:
  + `Resident`: a process has its tables from the answer to its INIT until its
    END is served, the time in which it ended but is still to be deleted included;
    `Prepared` carries this over the admission, whose answer comes before the
    process is READY. A process is initialised once because it is NEW until then
    (`Initialised`).
  + `FaultsAbsent`: the page a PCB faulted for is one of its process and absent,
    from the moment the CPU notes the fault, through the dispatch thread and the
    queue to the memory. Only a page fault brings pages in, and the
    process has one under way at most. A replacement takes pages out, never in.
  + `Exchange`: what CPU and memory have exchanged is about the instruction
    that the counter is at, so the pages the CPU asks for exist (`PageExists`:
    an address below the limit of its segment lies in one of the pages that
    `calculate_frames_of_segment` counts, rounding up), and a page fault that was
    answered and not yet received is of an absent page.
  + `Unfinished`: a process with the CPU, or to come back to it, has an
    instruction left; only EXIT and a segmentation fault end the program.
    `Rested`: an idle CPU has no event pending.
  + the invariants of `Geck` (`KernelInv`) and of `Memoria` (`IInv`). What the CPU does
    in `Sistema` moves only its event and counter in `Geck`'s terms (`CpuOnly`),
    so the former stay; by the protocol itself the latter do, the two being proved
    together.
* `SistemaFrames`: `SistemaSpec => [](FrameHasOneOwner /\ SwapHasOneOwner)`, which
  `Memoria` keeps when used as it supposes.

`AisladoProofs`, for the same, is about what the programs see:

* `ReadsRight`: if `TlbIsSafe`, `SistemaSpec => []ReadsItsAddress`. `Stored(pg)` is
  what a page holds, in its frame or else in the swap. Page faults and
  replacements move a page and leave that alone, because a page that was not
  written since it came in is in the swap as it is in its frame (`Clean`), and
  one that was is written back; `MemoriaProofs` has a lemma per request. MOV_OUT
  changes one word of one page (`MovOutWrites`). That it is the right page is
  `FrameIsRight`: the frame that travels between CPU and memory is the one the
  page is in, from the translation to the access, as only a page fault of the
  same process moves its pages, and a process at an access has none under way
  (`PageStays`). The frame comes from the page table or from the TLB; so the TLB
  must be right (`TlbRight`).
* `TlbIsRight`: if no process has more pages than frames,
  `SistemaSpec => []TlbAgrees`. No page leaves its frame then, for a process whose
  clock is full has no page outside of it (`MustShare`), and an entry stays what
  it was when the memory answered it.
* Why `TlbIsSafe`: nothing removes an entry whose page left. It asks that pages do
  not leave, or that the TLB has one entry at most. In the latter case the entry
  may be wrong (`Evicted`), but only while its process is at an access to another
  page, the one it faulted for, and that page takes the entry before the
  access is completed (`TlbAtPage`). So `PagingInv`
  relates the page fault under way to the instruction of its process
  (`FaultOfInstruction`), across the queues of the kernel.
* `MemoryAlwaysSurvives`: if `TlbIsSafe`, `EnoughFrames` and `EnoughSwap`,
  `SistemaSpec => []MemorySurvives`. The memory has three ways to die. Swap: the
  bits that are set are the pages of the processes with tables, `Grado + 1` at
  most when one is being initialised (`MemoryInv`), so `find_page_free` finds
  as many as are missing (`SwapSuffices`). Frames: the processes with frames are
  those the kernel counts as loaded (`FramesLoaded`), `Grado` at most, each with
  at most `MARCOS_POR_PROCESO`, and the one that faulted with fewer when the free
  frame is looked for. `EnoughFrames` asks it of the swap as well, because
  `find_page_free` reads as many bits of the frames as the swap has pages
  (memoria.c:550). The row of a frame: by `FrameIsRight` it is there.
* `ProgramsRunAlone`: if `TlbIsSafe`, `SistemaSpec => ImplementsAislado`. For each
  process, SET, ADD, I/O, EXIT and the segmentation fault are executed in
  the CPU's step (`ExecutesHere`), MOV_IN and MOV_OUT in the memory's
  (`ExecutesThere`), and all other steps are a stutter, or the beginning or end of
  its memory (`Unseen`, `Apart`). Two invariants are needed besides
  `PagingInv`: the kernel takes a process for finished exactly when its program is
  over (`OverIff`), from the event of the CPU through its queue to the state of
  the PCB, so that the memory is deleted after the last instruction and none is
  executed after it; and a process that was not initialised has executed nothing
  (`Rests`). An address is one page and one offset, and no two addresses share
  both (`AddressesApart`), so that a MOV_OUT is seen at its address only. The
  memory may have died in this theorem: nothing moves then.

The proofs about `Geck` rest on the assumptions named in `Kernel` and `Geck`: the processes are
finitely many, the algorithm is one of three, the degree is positive, devices
are not called like operations; those about `Memoria` and `Reloj` on theirs:
segments are sequences of sizes, a page has at least one word, a process at
least one frame, the algorithm is one of two. Those about `Sistema` rest on all
of these and on `CodeAssumption`: instructions are well formed, programs are as under
Abstractions, a segment is no longer than its table (`ENTRADAS_POR_TABLA` pages,
as in the configurations of the repository: an address could not name what is
past it). TLC evaluates them in every run.

Model-checked only: `HangsOnlyAtClock`, which speaks of ENABLED, and
`EveryProcessEnds`, `EveryProgramEnds` and `SearchEnds`, which are liveness under
fairness. TLAPS reasons about neither. `ReadsItsAddress`, which `tlb_stale`
refutes, is a theorem under the hypothesis that run breaks; `PlaceMeansMemory` and
`NoStandstill` are refuted, and `MemoryIsBounded` and `HangsOnlyAtClock` are what
holds instead.

## Not modelled

* The lists as unprotected data: `add_to_list_with_sems` locks a copy of its
  mutex (kernel.c:275), and what two threads do to a `t_list` at once is
  undefined in the library, not here.
* `shared.c`: packages, buffers and descriptors, the one that is closed twice
  (kernel.c:158) included. It is bytes in an agreed order; messages are whole.
* Start-up, configuration, logs, and what a module does when another one
  disconnects: the process ends.
* Addresses past the last segment (cpu.c:520 reads through NULL), unaligned
  accesses, other algorithms than the two (memoria.c:690 answers -1).
* Bitmaps whose size is not a multiple of eight.

## Plan

1. Further runs: FIFO and LRU among several entries of the TLB where every page
   has a frame, which `TlbIsRight` and `ProgramsRunAlone` cover and no run shows;
   three processes for two places in `Sistema`.
2. What `NoStandstill` says, for FIFO with a place for each process, stated by the guards of the threads instead
   of ENABLED: from `PlaceInv`, that wherever the PCB of a process is, some thread
   can take it on.
