------------------------ MODULE GeckLifecycleProofs ------------------------
(***************************************************************************)
(* The kernel implements the five-state life of processes, the degree of   *)
(* multiprogramming is accounted for, and the memory holds no more than it *)
(* allows and one process, for every instance.                             *)
(*                                                                         *)
(* PlaceInv says where the process is that a step is about; the place says *)
(* in which of the five states it is (LifeAt).  So each step either leaves *)
(* all of them in their state or takes one of them to another, and those   *)
(* that enter or leave the system are the ones that take or give back a    *)
(* place (GradeStep).  What the memory holds lags behind by the requests   *)
(* that are on their way to it, and MemoryInv says by how much.            *)
(***************************************************************************)
EXTENDS GeckPlaceProofs

InSystem == {"READY", "EXEC", "BLOCKED"}

(* The state of a process that is at x.                                    *)
LifeAt(x) ==
    CASE x \in {"NEW", "EXIT"} -> x
      [] x \in {"READY", "READY_RR", "READY_FIFO"} -> "READY"
      [] x = "cpu" -> "EXEC"
      [] x = "dispatch" -> IF Ends(dispatch.op) THEN "EXIT"
                           ELSE IF dispatch.op = "EXECUTE_INTERRUPTION" THEN "READY"
                           ELSE "BLOCKED"
      [] OTHER -> "BLOCKED"

OthersStay(p) == \A q \in Process \ {p} : StateOf(q)' = StateOf(q)

Moves(p, from, to) == StateOf(p) = from /\ StateOf(p)' = to /\ OthersStay(p)

Stays == \A q \in Process : StateOf(q)' = StateOf(q)

-----------------------------------------------------------------------------
(* The state of a process.                                                 *)

LEMMA StateAt ==
    ASSUME TypeOK, PlaceInv, NEW p \in Process, NEW x \in Place, At(p, x)
    PROVE  StateOf(p) = LifeAt(x)
  <1>1. /\ status[p] = StatusAt(x)
        /\ \A y \in Place : At(p, y) => y = x
    BY OnlyThere DEF PlaceInv
  <1>2. HasCpu(p) <=> x = "cpu"
    BY <1>1 DEF At, Place, Queue
  <1>3. dispatch.pcb = p <=> x = "dispatch"
    BY <1>1 DEF At, Place, Queue
  <1>4. CASE x = "dispatch"
    <2>1. dispatch.op = "EXECUTE_INTERRUPTION"
            <=> dispatch = [op |-> "EXECUTE_INTERRUPTION", pcb |-> p]
      BY <1>3, <1>4, NoProcessAssumption DEF TypeOK, DispatchType, ReturnMessage, Idle
    <2>2. status[p] = IF Ends(dispatch.op) THEN "EXIT" ELSE "RUNNING"
      BY <1>1, <1>4 DEF StatusAt
    <2>3. LifeAt(x) = IF Ends(dispatch.op) THEN "EXIT"
                      ELSE IF dispatch.op = "EXECUTE_INTERRUPTION" THEN "READY"
                      ELSE "BLOCKED"
      BY <1>4 DEF LifeAt
    <2> QED
      BY <1>2, <1>4, <2>1, <2>2, <2>3 DEF StateOf
  <1>5. CASE x # "dispatch"
    <2>1. dispatch # [op |-> "EXECUTE_INTERRUPTION", pcb |-> p]
      BY <1>3, <1>5
    <2> QED
      BY <1>1, <1>2, <1>5, <2>1 DEF StateOf, StatusAt, LifeAt
  <1> QED
    BY <1>4, <1>5

LEMMA StateKept ==
    ASSUME UNCHANGED <<status, dispatch>>, \A q \in Process : HasCpu(q)' <=> HasCpu(q)
    PROVE  Stays
  BY DEF Stays, StateOf

(* Some thread writes the status of p, which is not, or no longer, on the  *)
(* CPU.                                                                    *)
LEMMA StatusWritten ==
    ASSUME TypeOK, NEW p \in Process, NEW s \in Status \ {"RUNNING"},
           status' = [status EXCEPT ![p] = s],
           \A q \in Process : HasCpu(q)' <=> HasCpu(q),
           UNCHANGED dispatch \/ (dispatch' = Idle /\ dispatch.pcb = p)
    PROVE  StateOf(p)' = s /\ OthersStay(p)
  <1>1. status'[p] = s /\ \A q \in Process \ {p} : status'[q] = status[q]
    BY DEF TypeOK, PcbType
  <1>2. ASSUME NEW q \in Process \ {p}
        PROVE  dispatch' = [op |-> "EXECUTE_INTERRUPTION", pcb |-> q]
                 <=> dispatch = [op |-> "EXECUTE_INTERRUPTION", pcb |-> q]
    BY DEF Idle
  <1> QED
    BY <1>1, <1>2 DEF StateOf, OthersStay, Status

-----------------------------------------------------------------------------
(* Where each thread takes a process.                                      *)

LEMMA CreateStep ==
    ASSUME TypeOK, PlaceInv, NEW p \in Process, ReceiveInitProcess(p), UNCHANGED peerVars
    PROVE  Moves(p, "none", "NEW")
  <1>1. /\ UNCHANGED <<dispatch, toCpu, fromCpu, cpu>>
        /\ fromConsole[p] # <<>> /\ Head(fromConsole[p]) = "INIT_PROCESS"
        /\ fromConsole' = [fromConsole EXCEPT ![p] = Tail(fromConsole[p])]
        /\ status' = [status EXCEPT ![p] = "NEW"]
    BY DEF ReceiveInitProcess, schedule_next_to, cpuConnection, peerVars
  <1>2. "INIT_PROCESS" \in Elements(fromConsole[p])
    BY <1>1, ConsoleReads
  <1>3. status[p] = "none"
    BY <1>2 DEF PlaceInv, SentOnce
  <1>4. StateOf(p) = "none"
    BY <1>3 DEF StateOf
  <1>5. StateOf(p)' = "NEW" /\ OthersStay(p)
    BY <1>1, StatusWritten DEF HasCpu, Status
  <1> QED
    BY <1>4, <1>5 DEF Moves

LEMMA AdmitStep ==
    ASSUME TypeOK, PlaceInv, NEW c \in Process, ScheduleNextToReady(c), UNCHANGED peerVars
    PROVE  \E p \in Process : Moves(p, "NEW", "READY")
  <1> DEFINE p == Head(list["NEW"])
  <1>1. /\ UNCHANGED <<dispatch, toCpu, fromCpu, cpu>>
        /\ list["NEW"] # <<>>
        /\ status' = [status EXCEPT ![p] = "READY"]
    BY DEF ScheduleNextToReady, cpuConnection, peerVars
  <1>2. p \in Process /\ At(p, "NEW") /\ "NEW" \in Place
    BY <1>1, HeadOfQueue DEF Queue
  <1>3. StateOf(p) = "NEW"
    BY <1>2, StateAt DEF LifeAt
  <1>4. PICK q \in Process : q = p
    BY <1>2
  <1>5. StateOf(q)' = "READY" /\ OthersStay(q)
    BY <1>1, <1>4, StatusWritten DEF HasCpu, Status
  <1> QED
    BY <1>3, <1>4, <1>5 DEF Moves

(* A process that waits for its console, its device or its page.           *)
LEMMA WakeStep ==
    ASSUME TypeOK, PlaceInv,
           \/ \E p \in Process : ReceiveIoResponse(p)
           \/ \E d \in Device : DeviceFinish(d)
           \/ ReceivePageFaultResponse,
           UNCHANGED peerVars
    PROVE  \E p \in Process : Moves(p, "BLOCKED", "READY")
  <1>1. ASSUME NEW p \in Process, NEW x \in {"fromConsole", "serving", "fromMemory"},
               At(p, x), status' = [status EXCEPT ![p] = "READY"],
               UNCHANGED <<dispatch, toCpu, fromCpu, cpu>>
        PROVE  Moves(p, "BLOCKED", "READY")
    <2>1. x \in Place /\ LifeAt(x) = "BLOCKED"
      BY DEF Place, LifeAt
    <2>2. StateOf(p) = "BLOCKED"
      BY <1>1, <2>1, StateAt
    <2>3. StateOf(p)' = "READY" /\ OthersStay(p)
      BY <1>1, StatusWritten DEF HasCpu, Status
    <2> QED
      BY <2>2, <2>3 DEF Moves
  <1>2. ASSUME NEW p \in Process, ReceiveIoResponse(p)
        PROVE  \E q \in Process : Moves(q, "BLOCKED", "READY")
    <2>1. /\ UNCHANGED <<dispatch, toCpu, fromCpu, cpu>>
          /\ fromConsole[p] # <<>> /\ Head(fromConsole[p]) = "IO_RESPONSE"
          /\ fromConsole' = [fromConsole EXCEPT ![p] = Tail(fromConsole[p])]
          /\ status' = [status EXCEPT ![p] = "READY"]
      BY <1>2 DEF ReceiveIoResponse, schedule_next_to, cpuConnection, peerVars
    <2>2. At(p, "fromConsole")
      BY <2>1, ConsoleReads DEF At
    <2> QED
      BY <1>1, <2>1, <2>2
  <1>3. ASSUME NEW d \in Device, DeviceFinish(d)
        PROVE  \E q \in Process : Moves(q, "BLOCKED", "READY")
    <2>1. /\ UNCHANGED <<dispatch, toCpu, fromCpu, cpu>>
          /\ serving[d] # NoProcess
          /\ status' = [status EXCEPT ![serving[d]] = "READY"]
      BY <1>3 DEF DeviceFinish, schedule_next_to, cpuConnection, peerVars
    <2>2. PICK p \in Process : p = serving[d]
      BY <2>1 DEF TypeOK, DeviceType
    <2>3. At(p, "serving")
      BY <2>2 DEF At
    <2> QED
      BY <1>1, <2>1, <2>2, <2>3
  <1>4. ASSUME ReceivePageFaultResponse
        PROVE  \E q \in Process : Moves(q, "BLOCKED", "READY")
    <2>1. /\ UNCHANGED <<dispatch, toCpu, fromCpu, cpu>>
          /\ fromMemory # <<>> /\ Head(fromMemory).op = "RESPONSE_PAGE_FAULT"
          /\ status' = [status EXCEPT ![Head(fromMemory).pcb] = "READY"]
      BY <1>4 DEF ReceivePageFaultResponse, schedule_next_to, cpuConnection, peerVars
    <2>2. fromMemory \in Seq(MemoryAnswer)
      BY DEF TypeOK, MemoryConnectionType
    <2>3. Head(fromMemory) \in MemoryAnswer /\ Head(fromMemory) \in Elements(fromMemory)
      BY <2>1, <2>2, HeadTail, TailElements
    <2>4. PICK p \in Process : p = Head(fromMemory).pcb /\ Head(fromMemory) = PageAnswer(p)
      BY <2>1, <2>3 DEF MemoryAnswer, PageAnswer
    <2>5. At(p, "fromMemory")
      BY <2>3, <2>4 DEF At
    <2> QED
      BY <1>1, <2>1, <2>4, <2>5
  <1> QED
    BY <1>2, <1>3, <1>4

(* Only one process executes.                                              *)
LEMMA ExecuteStep ==
    ASSUME TypeOK, CpuExclusive, PlaceInv, ScheduleNextToRunning, UNCHANGED peerVars
    PROVE  /\ \E p \in Process : Moves(p, "READY", "EXEC")
           /\ \A q \in Process : StateOf(q) # "EXEC"
  <1>1. PICK a \in Queue \ {"NEW", "EXIT"} : a = NextQueue
    BY NextQueueIs
  <1>2. /\ UNCHANGED <<dispatch, fromCpu, cpu>>
        /\ sem["cpu_free_to_execute"] > 0
        /\ list[a] # <<>>
        /\ status' = [status EXCEPT ![Head(list[a])] = "RUNNING"]
        /\ toCpu' = Append(toCpu, Head(list[a]))
    BY <1>1 DEF ScheduleNextToRunning, Sem_wait, peerVars
  <1>3. Head(list[a]) \in Process /\ At(Head(list[a]), a) /\ a \in Place
    BY <1>2, HeadOfQueue
  <1>4. PICK p \in Process : p = Head(list[a])
    BY <1>3
  <1>5. StateOf(p) = "READY"
    <2>1. LifeAt(a) = "READY"
      BY DEF LifeAt, Queue
    <2> QED
      BY <1>3, <1>4, <2>1, StateAt
  <1>6. Elements(toCpu) = {} /\ Elements(fromCpu) = {} /\ cpu = NoProcess
    BY <1>2, CpuFree
  <1>7. Elements(toCpu') = {p}
    <2>1. toCpu \in Seq(Process)
      BY DEF TypeOK, CpuConnectionType
    <2> QED
      BY <1>2, <1>4, <1>6, <2>1, AppendElements
  <1>8. ASSUME NEW q \in Process PROVE ~HasCpu(q) /\ (HasCpu(q)' <=> q = p)
    BY <1>2, <1>6, <1>7, NoProcessAssumption DEF HasCpu
  <1>9. status'[p] = "RUNNING" /\ \A q \in Process \ {p} : status'[q] = status[q]
    BY <1>2, <1>4 DEF TypeOK, PcbType
  <1>10. StateOf(p)' = "EXEC" /\ OthersStay(p)
    BY <1>2, <1>8, <1>9 DEF StateOf, OthersStay
  <1>11. \A q \in Process : StateOf(q) # "EXEC"
    BY <1>8 DEF StateOf, TypeOK, PcbType, Status
  <1> QED
    BY <1>5, <1>10, <1>11 DEF Moves

(* What the CPU said decides where a process goes when it leaves it.       *)
LEMMA LeaveStep ==
    ASSUME TypeOK, CpuExclusive, PlaceInv, DispatchReceive, UNCHANGED peerVars
    PROVE  \E p \in Process :
              Moves(p, "EXEC", IF Ends(dispatch'.op) THEN "EXIT"
                               ELSE IF dispatch'.op = "EXECUTE_INTERRUPTION" THEN "READY"
                               ELSE "BLOCKED")
  <1> DEFINE m == Head(fromCpu)
  <1>1. /\ UNCHANGED <<toCpu, cpu>> /\ dispatch = Idle /\ fromCpu # <<>> /\ dispatch' = m
        /\ fromCpu' = Tail(fromCpu)
        /\ status' = IF Ends(m.op) THEN [status EXCEPT ![m.pcb] = "EXIT"] ELSE status
    BY DEF DispatchReceive, cpuConnection, peerVars
  <1>2. m \in ReturnMessage
    BY <1>1, HeadTail DEF TypeOK, CpuConnectionType
  <1>3. PICK p \in Process : p = m.pcb
    BY <1>2 DEF ReturnMessage
  <1>4. /\ Elements(fromCpu) = {m} /\ Elements(fromCpu') = {}
        /\ Elements(toCpu) = {} /\ cpu = NoProcess
    BY <1>1, OnlyInReturn
  <1> HIDE DEF m
  <1>5. ASSUME NEW q \in Process PROVE (HasCpu(q) <=> q = p) /\ ~HasCpu(q)'
    BY <1>1, <1>3, <1>4, NoProcessAssumption DEF HasCpu
  <1>6. At(p, "cpu") /\ "cpu" \in Place
    BY <1>5 DEF At, Place
  <1>7. StateOf(p) = "EXEC" /\ status[p] = "RUNNING"
    BY <1>6, StateAt, OnlyThere DEF LifeAt, PlaceInv, StatusAt
  <1>8. /\ status'[p] = IF Ends(m.op) THEN "EXIT" ELSE "RUNNING"
        /\ \A q \in Process \ {p} : status'[q] = status[q]
    BY <1>1, <1>3, <1>7 DEF TypeOK, PcbType
  <1>9. ASSUME NEW q \in Process
        PROVE  /\ dispatch # [op |-> "EXECUTE_INTERRUPTION", pcb |-> q]
               /\ dispatch' = [op |-> "EXECUTE_INTERRUPTION", pcb |-> q]
                    <=> q = p /\ m.op = "EXECUTE_INTERRUPTION"
    BY <1>1, <1>2, <1>3, NoProcessAssumption DEF Idle, ReturnMessage
  <1>10. StateOf(p)' = IF Ends(dispatch'.op) THEN "EXIT"
                       ELSE IF dispatch'.op = "EXECUTE_INTERRUPTION" THEN "READY"
                       ELSE "BLOCKED"
    BY <1>1, <1>5, <1>8, <1>9 DEF StateOf
  <1>11. OthersStay(p)
    BY <1>5, <1>8, <1>9 DEF OthersStay, StateOf
  <1> QED
    BY <1>7, <1>10, <1>11 DEF Moves

-----------------------------------------------------------------------------
(* The steps that take nobody anywhere: what the dispatch thread does with *)
(* a PCB was decided when it received it.                                  *)

LEMMA DispatchStays ==
    ASSUME TypeOK, PlaceInv, UNCHANGED peerVars,
           \/ DispatchNullUltimo \/ DispatchIoConsole \/ DispatchIoDefault
           \/ DispatchInterruption \/ DispatchPageFault \/ DispatchEnd
    PROVE  Stays
  <1>1. UNCHANGED <<toCpu, fromCpu, cpu>>
    BY DEF DispatchNullUltimo, DispatchIoConsole, DispatchIoDefault,
       DispatchInterruption, DispatchPageFault, DispatchEnd, cpuConnection, peerVars
  <1>2. \A q \in Process : HasCpu(q)' <=> HasCpu(q)
    BY <1>1 DEF HasCpu
  <1>3. ASSUME dispatch.op # "none"
        PROVE  /\ dispatch.pcb \in Process /\ ~HasCpu(dispatch.pcb)
               /\ StateOf(dispatch.pcb) = LifeAt("dispatch")
    BY <1>3, Dispatched, StateAt DEF PlaceInv, Place, Queue, At
  <1>4. ASSUME NEW s \in Status \ {"RUNNING"}, dispatch.op # "none",
               LifeAt("dispatch") = s, dispatch' = Idle,
               status' = [status EXCEPT ![dispatch.pcb] = s]
        PROVE  Stays
    <2>1. PICK p \in Process : p = dispatch.pcb
      BY <1>3, <1>4
    <2>2. StateOf(p)' = s /\ OthersStay(p) /\ StateOf(p) = s
      BY <1>2, <1>3, <1>4, <2>1, StatusWritten
    <2> QED
      BY <2>2 DEF Stays, OthersStay
  <1>5. CASE DispatchNullUltimo
    BY <1>2, <1>5, StateKept DEF DispatchNullUltimo, pcbVars
  <1>6. CASE DispatchIoConsole
    <2>1. LifeAt("dispatch") = "BLOCKED"
      BY <1>6 DEF DispatchIoConsole, LifeAt, Ends
    <2> QED
      BY <1>4, <1>6, <2>1 DEF DispatchIoConsole, Status
  <1>7. CASE DispatchIoDefault
    <2>1. LifeAt("dispatch") = "BLOCKED" /\ dispatch.op # "none"
      BY <1>7, DeviceAssumption DEF DispatchIoDefault, LifeAt, Ends
    <2> QED
      BY <1>4, <1>7, <2>1 DEF DispatchIoDefault, schedule_next_to, Status
  <1>8. CASE DispatchInterruption
    <2>1. LifeAt("dispatch") = "READY"
      BY <1>8 DEF DispatchInterruption, LifeAt, Ends
    <2> QED
      BY <1>4, <1>8, <2>1 DEF DispatchInterruption, Status
  <1>9. ASSUME dispatch.op # "none", dispatch.op # "EXECUTE_INTERRUPTION",
               dispatch' = Idle, status' = status
        PROVE  Stays
    <2>1. ASSUME NEW q \in Process
          PROVE  /\ dispatch # [op |-> "EXECUTE_INTERRUPTION", pcb |-> q]
                 /\ dispatch' # [op |-> "EXECUTE_INTERRUPTION", pcb |-> q]
      BY <1>9, NoProcessAssumption DEF Idle
    <2> QED
      BY <1>2, <1>9, <2>1 DEF Stays, StateOf
  <1>10. CASE DispatchPageFault
    BY <1>9, <1>10 DEF DispatchPageFault
  <1>11. CASE DispatchEnd
    BY <1>9, <1>11 DEF DispatchEnd, Ends
  <1> QED
    BY <1>5, <1>6, <1>7, <1>8, <1>10, <1>11

LEMMA ResolveStays ==
    ASSUME TypeOK, PlaceInv, NEW p \in Process, PageFaultThread(p)
    PROVE  Stays
  <1>1. /\ UNCHANGED <<dispatch, toCpu, fromCpu, cpu>> /\ p \in resolving
        /\ status' = [status EXCEPT ![p] = "BLOCKED"]
    BY DEF PageFaultThread, ResolvePageFault, cpuConnection, peerVars
  <1>2. At(p, "resolving") /\ "resolving" \in Place
    BY <1>1 DEF At, Place
  <1>3. StateOf(p) = "BLOCKED"
    BY <1>2, StateAt DEF LifeAt
  <1>4. StateOf(p)' = "BLOCKED" /\ OthersStay(p)
    BY <1>1, StatusWritten DEF HasCpu, Status
  <1> QED
    BY <1>3, <1>4 DEF Stays, OthersStay

LEMMA CpuStays ==
    ASSUME TypeOK, CpuExclusive, Cpu
    PROVE  Stays
  <1>1. UNCHANGED <<status, dispatch>>
    BY KernelUnchanged DEF Cpu, CpuReceive, CpuExecute, CpuReturn, pcbVars
  <1>2. CASE CpuReceive
    <2>1. /\ toCpu # <<>> /\ toCpu' = Tail(toCpu) /\ cpu' = Head(toCpu)
          /\ fromCpu' = fromCpu
      BY <1>2 DEF CpuReceive
    <2>2. \A q \in Process : HasCpu(q)' <=> HasCpu(q)
      BY <2>1, OnlyOnItsWay, NoProcessAssumption DEF HasCpu
    <2> QED
      BY <1>1, <2>2, StateKept
  <1>3. CASE CpuExecute
    BY <1>1, <1>3, KernelUnchanged, StateKept DEF CpuExecute, HasCpu, cpuConnection
  <1>4. CASE CpuReturn
    <2> DEFINE m == [op  |-> IF event # "none" THEN event ELSE "EXECUTE_INTERRUPTION",
                     pcb |-> cpu]
    <2>1. /\ toCpu' = toCpu /\ cpu # NoProcess /\ cpu' = NoProcess
          /\ fromCpu' = Append(fromCpu, m)
      BY <1>4 DEF CpuReturn
    <2>2. cpu \in Process /\ Elements(toCpu) = {} /\ Elements(fromCpu) = {}
      BY <2>1, OnlyRunning
    <2>3. m \in ReturnMessage /\ fromCpu \in Seq(ReturnMessage)
      BY <2>2 DEF ReturnMessage, ReturnOp, TypeOK, CpuType, CpuConnectionType
    <2>4. m.pcb = cpu
      OBVIOUS
    <2> HIDE DEF m
    <2>5. Elements(fromCpu') = {m}
      BY <2>1, <2>2, <2>3, AppendElements
    <2>6. \A q \in Process : HasCpu(q)' <=> HasCpu(q)
      BY <2>1, <2>2, <2>4, <2>5, NoProcessAssumption DEF HasCpu
    <2> QED
      BY <1>1, <2>6, StateKept
  <1> QED
    BY <1>2, <1>3, <1>4 DEF Cpu

LEMMA RestStays ==
    ASSUME \/ \E p \in Process : /\ \/ EnterScheduleReady(p)
                                    \/ InitStructuresMemory(p)
                                    \/ ReceiveDisconnection(p)
                                 /\ UNCHANGED peerVars
           \/ \E p \in Process : Console(p)
           \/ \E d \in Device : DeviceBegin(d) /\ UNCHANGED peerVars
           \/ (WaitProcessInReady \/ RecordUltimo) /\ UNCHANGED peerVars
           \/ Clock \/ Interrupt \/ CpuInterrupt \/ Memory
           \/ ReceiveInitStructures /\ UNCHANGED peerVars
    PROVE  Stays
  <1>1. UNCHANGED <<status, dispatch, toCpu, fromCpu, cpu>>
    BY DEF EnterScheduleReady, InitStructuresMemory, ReceiveDisconnection,
       Console, ConsoleStart, ConsoleAnswer, ConsoleEnd, DeviceBegin,
       WaitProcessInReady, RecordUltimo, Clock, ClockBegin, ClockRestart,
       ClockExpire, ClockFinish, Interrupt, ManageInterrupt, CpuInterrupt,
       Memory, MemoryInit, MemoryLoadPage, MemoryEnd, ReceiveInitStructures,
       pcbVars, cpuConnection, cpuVars, peerVars
  <1> QED
    BY <1>1, StateKept DEF HasCpu

-----------------------------------------------------------------------------
(* The degree of multiprogramming.                                         *)

InitThreads == {p \in Process : thread[p] = "init"}
Inside      == {p \in Process : status[p] \in {"READY", "RUNNING", "BLOCKED"}}

LEMMA CountsFinite ==
    /\ IsFiniteSet(InitThreads) /\ Cardinality(InitThreads) \in Nat
    /\ IsFiniteSet(Inside) /\ Cardinality(Inside) \in Nat
  <1>1. IsFiniteSet(InitThreads) /\ IsFiniteSet(Inside)
    BY ProcessAssumption, FS_Subset DEF InitThreads, Inside
  <1> QED
    BY <1>1, FS_CardinalityType

(* Admitted and not ended, as the status says it and as the state does.    *)
LEMMA InsideIs ==
    ASSUME TypeOK, TypeOK'
    PROVE  /\ Inside  = {p \in Process : StateOf(p)  \in InSystem}
           /\ Inside' = {p \in Process : StateOf(p)' \in InSystem}
  <1>1. ASSUME NEW p \in Process
        PROVE  StateOf(p) \in InSystem <=> status[p] \in {"READY", "RUNNING", "BLOCKED"}
    BY DEF StateOf, InSystem, TypeOK, PcbType, Status
  <1>2. ASSUME NEW p \in Process
        PROVE  StateOf(p)' \in InSystem <=> status'[p] \in {"READY", "RUNNING", "BLOCKED"}
    BY DEF StateOf, InSystem, TypeOK, PcbType, Status
  <1>3. Inside' = {p \in Process : status'[p] \in {"READY", "RUNNING", "BLOCKED"}}
    BY DEF Inside
  <1> QED
    BY <1>1, <1>2, <1>3 DEF Inside

LEMMA InsideKept ==
    ASSUME TypeOK, TypeOK',
           Stays \/ \E p \in Process : \E s, t : /\ Moves(p, s, t)
                                                 /\ s \in InSystem <=> t \in InSystem
    PROVE  Cardinality(Inside') = Cardinality(Inside)
  <1>1. \A q \in Process : StateOf(q)' \in InSystem <=> StateOf(q) \in InSystem
    BY DEF Stays, Moves, OthersStay
  <1>2. Inside' = Inside
    BY <1>1, InsideIs
  <1> QED
    BY <1>2

LEMMA InsideGrows ==
    ASSUME TypeOK, TypeOK', NEW p \in Process, NEW s, NEW t,
           Moves(p, s, t), s \notin InSystem, t \in InSystem
    PROVE  Cardinality(Inside') = Cardinality(Inside) + 1
  <1>1. Inside' = Inside \cup {p} /\ p \notin Inside
    BY InsideIs DEF Moves, OthersStay
  <1> QED
    BY <1>1, CountsFinite, FS_AddElement

LEMMA InsideShrinks ==
    ASSUME TypeOK, TypeOK', NEW p \in Process, NEW s, NEW t,
           Moves(p, s, t), s \in InSystem, t \notin InSystem
    PROVE  Cardinality(Inside') = Cardinality(Inside) - 1
  <1>1. Inside' = Inside \ {p} /\ p \in Inside
    BY InsideIs DEF Moves, OthersStay
  <1> QED
    BY <1>1, CountsFinite, FS_RemoveElement

LEMMA AdmissionBegins ==
    ASSUME ThreadType, NEW p \in Process, thread[p] # "init",
           thread' = [thread EXCEPT ![p] = "init"]
    PROVE  Cardinality(InitThreads') = Cardinality(InitThreads) + 1
  <1>1. InitThreads' = InitThreads \cup {p} /\ p \notin InitThreads
    BY DEF InitThreads, ThreadType
  <1> QED
    BY <1>1, CountsFinite, FS_AddElement

LEMMA AdmissionEnds ==
    ASSUME ThreadType, NEW p \in Process, thread[p] = "init",
           thread' = [thread EXCEPT ![p] = "receive"]
    PROVE  Cardinality(InitThreads') = Cardinality(InitThreads) - 1
  <1>1. InitThreads' = InitThreads \ {p} /\ p \in InitThreads
    BY DEF InitThreads, ThreadType
  <1> QED
    BY <1>1, CountsFinite, FS_RemoveElement

LEMMA InitThreadsKept ==
    ASSUME ThreadType,
           \/ UNCHANGED thread
           \/ \E p \in Process : \E s :
                 /\ thread[p] # "init" /\ s # "init"
                 /\ thread' = [thread EXCEPT ![p] = s]
    PROVE  Cardinality(InitThreads') = Cardinality(InitThreads)
  <1>1. InitThreads' = InitThreads
    BY DEF InitThreads, ThreadType
  <1> QED
    BY <1>1

(* What a step does to the three parts of the degree.                      *)
GradeStep ==
    LET g == sem["grado_multiprogamacion"]
        i == Cardinality(InitThreads)
        n == Cardinality(Inside)
    IN  \/ g' = g /\ i' = i /\ n' = n
        \/ g' = g - 1 /\ i' = i + 1 /\ n' = n
        \/ g' = g /\ i' = i - 1 /\ n' = n + 1
        \/ g' = g + 1 /\ i' = i /\ n' = n - 1

LEMMA GradeKept ==
    ASSUME TypeOK, TypeOK',
           sem'["grado_multiprogamacion"] = sem["grado_multiprogamacion"],
           \/ UNCHANGED thread
           \/ \E p \in Process : \E s :
                 /\ thread[p] # "init" /\ s # "init"
                 /\ thread' = [thread EXCEPT ![p] = s],
           Stays \/ \E p \in Process : \E s, t : /\ Moves(p, s, t)
                                                 /\ s \in InSystem <=> t \in InSystem
    PROVE  GradeStep
  <1>1. Cardinality(Inside') = Cardinality(Inside)
    BY InsideKept
  <1>2. Cardinality(InitThreads') = Cardinality(InitThreads)
    BY InitThreadsKept DEF TypeOK
  <1> QED
    BY <1>1, <1>2 DEF GradeStep

LEMMA ConsoleThreadGrade ==
    ASSUME TypeOK, TypeOK', PlaceInv, NEW p \in Process, ConsoleThread(p)
    PROVE  GradeStep
  <1> USE DEF TypeOK, SemType, SemName
  <1>1. UNCHANGED peerVars
    BY DEF ConsoleThread
  <1>2. CASE ReceiveInitProcess(p)
    <2>1. /\ UNCHANGED sem /\ thread[p] # "init"
          /\ thread' = [thread EXCEPT ![p] = "schedule"]
      BY <1>2 DEF ReceiveInitProcess
    <2>2. Moves(p, "none", "NEW")
      BY <1>1, <1>2, CreateStep
    <2>3. "none" \in InSystem <=> "NEW" \in InSystem
      BY DEF InSystem
    <2> QED
      BY <2>1, <2>2, <2>3, GradeKept
  <1>3. CASE EnterScheduleReady(p)
    <2>1. /\ thread[p] # "init" /\ thread' = [thread EXCEPT ![p] = "grado"]
          /\ sem'["grado_multiprogamacion"] = sem["grado_multiprogamacion"]
      BY <1>3 DEF EnterScheduleReady, Sem_wait
    <2> QED
      BY <1>1, <1>3, <2>1, RestStays, GradeKept
  <1>4. CASE InitStructuresMemory(p)
    <2>1. /\ thread[p] # "init" /\ thread' = [thread EXCEPT ![p] = "init"]
          /\ sem'["grado_multiprogamacion"] = sem["grado_multiprogamacion"] - 1
      BY <1>4 DEF InitStructuresMemory, Sem_wait
    <2>2. Cardinality(InitThreads') = Cardinality(InitThreads) + 1
      BY <2>1, AdmissionBegins
    <2>3. Cardinality(Inside') = Cardinality(Inside)
      BY <1>1, <1>4, RestStays, InsideKept
    <2> QED
      BY <2>1, <2>2, <2>3 DEF GradeStep
  <1>5. CASE ScheduleNextToReady(p)
    <2>1. /\ thread[p] = "init" /\ thread' = [thread EXCEPT ![p] = "receive"]
          /\ sem'["grado_multiprogamacion"] = sem["grado_multiprogamacion"]
      BY <1>5 DEF ScheduleNextToReady
    <2>2. Cardinality(InitThreads') = Cardinality(InitThreads) - 1
      BY <2>1, AdmissionEnds
    <2>3. Cardinality(Inside') = Cardinality(Inside) + 1
      BY <1>1, <1>5, AdmitStep, InsideGrows DEF InSystem
    <2> QED
      BY <2>1, <2>2, <2>3 DEF GradeStep
  <1>6. CASE ReceiveIoResponse(p)
    <2>1. /\ UNCHANGED thread
          /\ sem'["grado_multiprogamacion"] = sem["grado_multiprogamacion"]
      BY <1>6 DEF ReceiveIoResponse, Sem_post
    <2>2. \E q \in Process : Moves(q, "BLOCKED", "READY")
      BY <1>1, <1>6, WakeStep
    <2> QED
      BY <2>1, <2>2, GradeKept DEF InSystem
  <1>7. CASE ReceiveDisconnection(p)
    <2>1. /\ UNCHANGED sem /\ thread[p] # "init"
          /\ thread' = [thread EXCEPT ![p] = "ended"]
      BY <1>7 DEF ReceiveDisconnection
    <2> QED
      BY <1>1, <1>7, <2>1, RestStays, GradeKept
  <1> QED
    BY <1>2, <1>3, <1>4, <1>5, <1>6, <1>7 DEF ConsoleThread

LEMMA DispatchGrade ==
    ASSUME TypeOK, TypeOK', CpuExclusive, PlaceInv, Dispatch
    PROVE  GradeStep
  <1> USE DEF TypeOK, SemType, SemName
  <1>1. UNCHANGED <<peerVars, thread>>
    BY DEF Dispatch, DispatchReceive, DispatchNullUltimo, DispatchIoConsole,
       DispatchIoDefault, DispatchInterruption, DispatchPageFault, DispatchEnd
  <1>2. CASE DispatchReceive /\ Ends(Head(fromCpu).op)
    <2>1. sem'["grado_multiprogamacion"] = sem["grado_multiprogamacion"] + 1
          /\ Ends(dispatch'.op)
      BY <1>2 DEF DispatchReceive, FreedBy
    <2>2. \E p \in Process : Moves(p, "EXEC", "EXIT")
      BY <1>1, <1>2, <2>1, LeaveStep
    <2>3. Cardinality(Inside') = Cardinality(Inside) - 1
      BY <2>2, InsideShrinks DEF InSystem
    <2>4. Cardinality(InitThreads') = Cardinality(InitThreads)
      BY <1>1, InitThreadsKept
    <2> QED
      BY <2>1, <2>3, <2>4 DEF GradeStep
  <1>3. CASE DispatchReceive /\ ~Ends(Head(fromCpu).op)
    <2>1. sem'["grado_multiprogamacion"] = sem["grado_multiprogamacion"]
          /\ ~Ends(dispatch'.op)
      BY <1>3 DEF DispatchReceive, FreedBy
    <2>2. \E p \in Process : \E t \in {"READY", "BLOCKED"} : Moves(p, "EXEC", t)
      BY <1>1, <1>3, <2>1, LeaveStep
    <2> QED
      BY <1>1, <2>1, <2>2, GradeKept DEF InSystem
  <1>4. CASE ~DispatchReceive
    <2>1. sem'["grado_multiprogamacion"] = sem["grado_multiprogamacion"]
      BY <1>4 DEF Dispatch, DispatchNullUltimo, DispatchIoConsole,
         DispatchIoDefault, DispatchInterruption, DispatchPageFault, DispatchEnd, Sem_post
    <2>2. Stays
      BY <1>1, <1>4, DispatchStays DEF Dispatch
    <2> QED
      BY <1>1, <2>1, <2>2, GradeKept
  <1> QED
    BY <1>2, <1>3, <1>4

LEMMA GradeNext ==
    ASSUME TypeOK, TypeOK', CpuExclusive, PlaceInv, Next
    PROVE  GradeStep
  <1> DEFINE Same == /\ UNCHANGED thread
                     /\ sem'["grado_multiprogamacion"] = sem["grado_multiprogamacion"]
  <1>1. CASE Scheduler
    <2>1. Same
      BY <1>1 DEF Scheduler, WaitProcessInReady, ScheduleNextToRunning,
         RecordUltimo, Sem_wait, Sem_post, TypeOK, SemType, SemName
    <2>2. CASE ScheduleNextToRunning
      <3>1. \E p \in Process : Moves(p, "READY", "EXEC")
        BY <1>1, <2>2, ExecuteStep DEF Scheduler
      <3> QED
        BY <2>1, <3>1, GradeKept DEF InSystem
    <2>3. CASE ~ScheduleNextToRunning
      BY <1>1, <2>1, <2>3, RestStays, GradeKept DEF Scheduler
    <2> QED
      BY <2>2, <2>3
  <1>2. CASE Clock \/ Interrupt \/ CpuInterrupt \/ Memory
    <2>1. Same
      BY <1>2 DEF Clock, ClockBegin, ClockRestart, ClockExpire, ClockFinish,
         Interrupt, ManageInterrupt, CpuInterrupt, Memory, MemoryInit,
         MemoryLoadPage, MemoryEnd, Sem_wait, Sem_post, TypeOK, SemType, SemName
    <2> QED
      BY <1>2, <2>1, RestStays, GradeKept
  <1>3. CASE Cpu
    <2>1. Same
      BY <1>3, KernelUnchanged DEF Cpu, CpuReceive, CpuExecute, CpuReturn
    <2> QED
      BY <1>3, <2>1, CpuStays, GradeKept
  <1>4. CASE ManageMemory
    <2>1. Same
      BY <1>4 DEF ManageMemory, ReceiveInitStructures, ReceivePageFaultResponse,
         Sem_post, TypeOK, SemType, SemName
    <2>2. CASE ReceiveInitStructures
      BY <1>4, <2>1, <2>2, RestStays, GradeKept DEF ManageMemory
    <2>3. CASE ReceivePageFaultResponse
      <3>1. \E p \in Process : Moves(p, "BLOCKED", "READY")
        BY <1>4, <2>3, WakeStep DEF ManageMemory
      <3> QED
        BY <2>1, <3>1, GradeKept DEF InSystem
    <2> QED
      BY <1>4, <2>2, <2>3 DEF ManageMemory
  <1>5. ASSUME NEW d \in Device, DeviceThread(d) PROVE GradeStep
    <2>1. Same
      BY <1>5 DEF DeviceThread, DeviceBegin, DeviceFinish, Sem_post, TypeOK, SemType, SemName
    <2>2. CASE DeviceBegin(d)
      BY <1>5, <2>1, <2>2, RestStays, GradeKept DEF DeviceThread
    <2>3. CASE DeviceFinish(d)
      <3>1. \E p \in Process : Moves(p, "BLOCKED", "READY")
        BY <1>5, <2>3, WakeStep DEF DeviceThread
      <3> QED
        BY <2>1, <3>1, GradeKept DEF InSystem
    <2> QED
      BY <1>5, <2>2, <2>3 DEF DeviceThread
  <1>6. ASSUME NEW p \in Process, PageFaultThread(p) PROVE GradeStep
    <2>1. Same
      BY <1>6 DEF PageFaultThread, ResolvePageFault
    <2> QED
      BY <1>6, <2>1, ResolveStays, GradeKept
  <1>7. ASSUME NEW p \in Process, Console(p) PROVE GradeStep
    <2>1. Same
      BY <1>7 DEF Console, ConsoleStart, ConsoleAnswer, ConsoleEnd
    <2> QED
      BY <1>7, <2>1, RestStays, GradeKept
  <1> QED
    BY <1>1, <1>2, <1>3, <1>4, <1>5, <1>6, <1>7, ConsoleThreadGrade,
       DispatchGrade DEF Next

LEMMA GradeFirst == Init => GradeAccounted
  <1> SUFFICES ASSUME Init PROVE GradeAccounted
    OBVIOUS
  <1>1. sem["grado_multiprogamacion"] = Grado
    BY DEF Init, KernelInit, SemName
  <1>2. Inside = {} /\ InitThreads = {}
    BY DEF Init, KernelInit, Inside, InitThreads
  <1> QED
    BY <1>1, <1>2, FS_EmptySet, GradoAssumption DEF GradeAccounted, Inside, InitThreads

LEMMA GradeSums ==
    ASSUME TypeOK, TypeOK', GradeAccounted, GradeStep
    PROVE  GradeAccounted'
  <1> DEFINE g == sem["grado_multiprogamacion"]
             i == Cardinality(InitThreads)
             n == Cardinality(Inside)
  <1>1. g \in Int /\ i \in Int /\ n \in Int
    BY CountsFinite DEF TypeOK, SemType, SemName
  <1>2. g + n + i = Grado
    BY DEF GradeAccounted, Inside, InitThreads
  <1>3. GradeAccounted' <=> g' + n' + i' = Grado
    BY DEF GradeAccounted, Inside, InitThreads
  <1>4. \/ g' = g /\ i' = i /\ n' = n
        \/ g' = g - 1 /\ i' = i + 1 /\ n' = n
        \/ g' = g /\ i' = i - 1 /\ n' = n + 1
        \/ g' = g + 1 /\ i' = i /\ n' = n - 1
    BY DEF GradeStep
  <1> HIDE DEF g, i, n
  <1>5. g' + n' + i' = Grado
    BY <1>1, <1>2, <1>4
  <1> QED
    BY <1>3, <1>5

(* For every degree, number of processes, algorithm and program: a place   *)
(* in the degree of multiprogramming is free, held by a process between    *)
(* its admission and its end, or by the admission under way.               *)
THEOREM DegreeIsAccounted == Spec => []GradeAccounted
  <1>1. TypeOK /\ TypeOK' /\ CpuExclusive /\ PlaceInv /\ GradeAccounted
          /\ [Next]_vars => GradeAccounted'
    <2>1. ASSUME GradeAccounted, UNCHANGED vars PROVE GradeAccounted'
      BY <2>1 DEF GradeAccounted, vars, kernelVars
    <2> QED
      BY <2>1, GradeSums, GradeNext
  <1> QED
    BY <1>1, GradeFirst, TypeCorrect, CpuIsExclusive, PlaceAlways, PTL DEF Spec

-----------------------------------------------------------------------------
(* The refinement: each step of the kernel is one of Lifecycle or none.    *)

LifeStep ==
    \/ Stays
    \/ \E p \in Process :
          \/ Moves(p, "none", "NEW")
          \/ Moves(p, "NEW", "READY") /\ InitThreads # {}
          \/ Moves(p, "READY", "EXEC") /\ \A q \in Process : StateOf(q) # "EXEC"
          \/ \E t \in {"READY", "BLOCKED", "EXIT"} : Moves(p, "EXEC", t)
          \/ Moves(p, "BLOCKED", "READY")

LEMMA LifeNext ==
    ASSUME TypeOK, CpuExclusive, PlaceInv, Next
    PROVE  LifeStep
  <1> USE DEF LifeStep
  <1>1. ASSUME NEW p \in Process, ConsoleThread(p) PROVE LifeStep
    <2>1. CASE ReceiveInitProcess(p)
      BY <1>1, <2>1, CreateStep DEF ConsoleThread
    <2>2. CASE ScheduleNextToReady(p)
      <3>1. p \in InitThreads
        BY <2>2 DEF ScheduleNextToReady, InitThreads
      <3>2. \E q \in Process : Moves(q, "NEW", "READY")
        BY <1>1, <2>2, AdmitStep DEF ConsoleThread
      <3> QED
        BY <3>1, <3>2
    <2>3. CASE ReceiveIoResponse(p)
      BY <1>1, <2>3, WakeStep DEF ConsoleThread
    <2>4. CASE EnterScheduleReady(p) \/ InitStructuresMemory(p) \/ ReceiveDisconnection(p)
      BY <1>1, <2>4, RestStays DEF ConsoleThread
    <2> QED
      BY <1>1, <2>1, <2>2, <2>3, <2>4 DEF ConsoleThread
  <1>2. CASE Scheduler
    BY <1>2, ExecuteStep, RestStays DEF Scheduler
  <1>3. CASE Dispatch
    <2>1. CASE DispatchReceive
      BY <1>3, <2>1, LeaveStep DEF Dispatch
    <2>2. CASE ~DispatchReceive
      BY <1>3, <2>2, DispatchStays DEF Dispatch
    <2> QED
      BY <2>1, <2>2
  <1>4. CASE ManageMemory
    BY <1>4, WakeStep, RestStays DEF ManageMemory
  <1>5. ASSUME NEW d \in Device, DeviceThread(d) PROVE LifeStep
    BY <1>5, WakeStep, RestStays DEF DeviceThread
  <1>6. ASSUME NEW p \in Process, PageFaultThread(p) \/ Console(p) PROVE LifeStep
    BY <1>6, ResolveStays, RestStays
  <1>7. CASE Cpu
    BY <1>7, CpuStays
  <1>8. CASE Clock \/ Interrupt \/ CpuInterrupt \/ Memory
    BY <1>8, RestStays
  <1> QED
    BY <1>1, <1>2, <1>3, <1>4, <1>5, <1>6, <1>7, <1>8 DEF Next

States == [p \in Process |-> StateOf(p)]

LEMMA MovesIsMove ==
    ASSUME NEW p \in Process, NEW s, NEW t, Moves(p, s, t)
    PROVE  Life!Move(p, s, t)
  <1>1. States' = [States EXCEPT ![p] = t] /\ States[p] = s
    BY DEF States, Moves, OthersStay
  <1> QED
    BY <1>1 DEF Life!Move, States

(* The admission under way holds the place the process takes. Lifecycle has *)
(* a copy of Cardinality of its own, which is the same operator.           *)
LEMMA RoomForOne ==
    ASSUME TypeOK, GradeAccounted, InitThreads # {}
    PROVE  Life!Cardinality(Life!Admitted) < Grado
  <1>1. Life!Admitted = Inside
    BY DEF Life!Admitted, Life!InSystem, Inside, StateOf, TypeOK, PcbType, Status
  <1>2. Cardinality(InitThreads) # 0
    BY CountsFinite, FS_EmptySet
  <1>3. sem["grado_multiprogamacion"] + Cardinality(Inside)
          + Cardinality(InitThreads) = Grado
    BY DEF GradeAccounted, Inside, InitThreads
  <1>4. sem["grado_multiprogamacion"] \in Nat
    BY DEF TypeOK, SemType, SemName
  <1> DEFINE g == sem["grado_multiprogamacion"]
             i == Cardinality(InitThreads)
             n == Cardinality(Inside)
  <1>5. g \in Nat /\ i \in Nat /\ n \in Nat /\ i # 0 /\ g + n + i = Grado
    BY <1>2, <1>3, <1>4, CountsFinite
  <1> HIDE DEF g, i, n
  <1>6. n < Grado
    BY <1>5
  <1>7. Life!Cardinality(Inside) = Cardinality(Inside)
    BY DEF Life!Cardinality, Cardinality
  <1> QED
    BY <1>1, <1>6, <1>7 DEF n

LEMMA LifeStepImplements ==
    ASSUME TypeOK, GradeAccounted, LifeStep
    PROVE  [Life!Next]_States
  <1>1. CASE Stays
    BY <1>1 DEF Stays, States
  <1>2. ASSUME NEW p \in Process, Moves(p, "none", "NEW") PROVE Life!Next
    BY <1>2, MovesIsMove DEF Life!Next, Life!Create
  <1>3. ASSUME NEW p \in Process, Moves(p, "NEW", "READY"), InitThreads # {} PROVE Life!Next
    <2>1. Life!Cardinality(Life!Admitted) < Grado
      BY <1>3, RoomForOne
    <2>2. Life!Move(p, "NEW", "READY")
      BY <1>3, MovesIsMove
    <2> QED
      BY <2>1, <2>2 DEF Life!Next, Life!Admit
  <1>4. ASSUME NEW p \in Process, Moves(p, "READY", "EXEC"),
               \A q \in Process : StateOf(q) # "EXEC"
        PROVE  Life!Next
    BY <1>4, MovesIsMove DEF Life!Next, Life!Execute
  <1>5. ASSUME NEW p \in Process, NEW t \in {"READY", "BLOCKED", "EXIT"}, Moves(p, "EXEC", t)
        PROVE  Life!Next
    BY <1>5, MovesIsMove DEF Life!Next, Life!Preempt, Life!Block, Life!Finish
  <1>6. ASSUME NEW p \in Process, Moves(p, "BLOCKED", "READY") PROVE Life!Next
    BY <1>6, MovesIsMove DEF Life!Next, Life!Wake
  <1> QED
    BY <1>1, <1>2, <1>3, <1>4, <1>5, <1>6 DEF LifeStep

(* For every instance, the threads, lists, semaphores and messages of the  *)
(* kernel show the five-state life of a process and nothing else: created  *)
(* once, admitted within the degree, one executing at a time, woken only   *)
(* when it was blocked, and never back from EXIT.                          *)
THEOREM KernelImplementsLifecycle == Spec => ImplementsLifecycle
  <1>1. Init => Life!Init
    BY DEF Init, KernelInit, Life!Init, StateOf
  <1>2. TypeOK /\ CpuExclusive /\ PlaceInv /\ GradeAccounted /\ [Next]_vars
          => [Life!Next]_States
    <2>1. ASSUME UNCHANGED vars PROVE UNCHANGED States
      BY <2>1 DEF States, StateOf, HasCpu, vars, kernelVars, peerVars
    <2> QED
      BY <2>1, LifeNext, LifeStepImplements
  <1>3. TypeOK /\ CpuExclusive /\ PlaceInv /\ GradeAccounted /\ [Next]_vars
          => [Life!Next]_[p \in Process |-> StateOf(p)]
    BY <1>2 DEF States
  <1> QED
    BY <1>1, <1>3, TypeCorrect, CpuIsExclusive, PlaceAlways, DegreeIsAccounted, PTL
       DEF Spec, ImplementsLifecycle, Life!Spec


-----------------------------------------------------------------------------
(* What the memory holds.  The bounds of MemoryBounded follow from what    *)
(* was true when a request was sent, so they are stated of each request    *)
(* with the end requests before it carried out.                            *)

PageFault == "REQUEST_PAGE_FAULT"
PageThere == "RESPONSE_PAGE_FAULT"

(* The processes that ended and of which the memory has been told so, or   *)
(* not yet; and the one being admitted.                                    *)
Ending   == {p \in Process : EndRequest(p) \in Elements(toMemory)}
Leaving  == {p \in Process : dispatch.pcb = p /\ Ends(dispatch.op)}
Entering == {p \in Process : /\ InitThreads # {} /\ list["NEW"] # <<>>
                             /\ p = Head(list["NEW"])}

EndedBefore(k) ==
    {p \in Process : \E j \in DOMAIN toMemory : j < k /\ toMemory[j] = EndRequest(p)}

(* The processes that have frames, or asked for one, and will keep them.   *)
FramesDue == (loaded \ Ending) \cup resolving
                \cup {p \in Process : PageRequest(p) \in Elements(toMemory)}

Held ==
    /\ structures \ Ending \subseteq Inside \cup Leaving \cup Entering
    /\ FramesDue \subseteq Inside \cup Leaving

(* m_resolve_page_fault lets one page fault through to the memory.         *)
OneFault ==
    /\ Once(toMemory, PageFault)
    /\ Once(fromMemory, PageThere)
    /\ Sent(toMemory, PageFault) \/ Sent(fromMemory, PageThere) => m_resolve_page_fault
    /\ ~(Sent(toMemory, PageFault) /\ Sent(fromMemory, PageThere))

RoomForStructures ==
    \A k \in DOMAIN toMemory :
        toMemory[k].op = InitRequest => Cardinality(structures \ EndedBefore(k)) <= Grado

RoomForFrames ==
    \A k \in DOMAIN toMemory :
        toMemory[k].op = PageFault
          => Cardinality((loaded \ EndedBefore(k)) \cup {toMemory[k].pcb}) <= Grado

MemoryInv ==
    /\ MemoryBounded /\ Cardinality(FramesDue) <= Grado
    /\ Held /\ OneFault /\ RoomForStructures /\ RoomForFrames


LEMMA Processes ==
    ASSUME TypeOK
    PROVE  /\ \A S \in SUBSET Process : IsFiniteSet(S) /\ Cardinality(S) \in Nat
           /\ \A S, T \in SUBSET Process : S \subseteq T => Cardinality(S) <= Cardinality(T)
           /\ \A S \in SUBSET Process : \A p \in Process :
                  Cardinality(S \cup {p}) <= Cardinality(S) + 1
           /\ structures \in SUBSET Process /\ loaded \in SUBSET Process
           /\ FramesDue \in SUBSET Process
           /\ toMemory \in Seq(MemoryRequest) /\ fromMemory \in Seq(MemoryAnswer)
  <1>1. ASSUME NEW S \in SUBSET Process PROVE IsFiniteSet(S) /\ Cardinality(S) \in Nat
    BY ProcessAssumption, FS_Subset, FS_CardinalityType
  <1>2. ASSUME NEW S \in SUBSET Process, NEW T \in SUBSET Process, S \subseteq T
        PROVE  Cardinality(S) <= Cardinality(T)
    BY <1>1, <1>2, FS_Subset
  <1>3. ASSUME NEW S \in SUBSET Process, NEW p \in Process
        PROVE  Cardinality(S \cup {p}) <= Cardinality(S) + 1
    BY <1>1, FS_AddElement
  <1>4. /\ structures \in SUBSET Process /\ loaded \in SUBSET Process
        /\ resolving \in SUBSET Process
        /\ toMemory \in Seq(MemoryRequest) /\ fromMemory \in Seq(MemoryAnswer)
    BY DEF TypeOK, MemoryType, FaultType, MemoryConnectionType
  <1>5. FramesDue \in SUBSET Process
    BY <1>4 DEF FramesDue
  <1> QED
    BY <1>1, <1>2, <1>3, <1>4, <1>5

-----------------------------------------------------------------------------
(* The requests as one more is sent and as the memory takes the first.     *)

LEMMA RequestSent ==
    ASSUME TypeOK, TypeOK', NEW m \in MemoryRequest, toMemory' = Append(toMemory, m),
           UNCHANGED memVars, RoomForStructures, RoomForFrames,
           m.op = InitRequest => Cardinality(structures \ Ending) <= Grado,
           m.op = PageFault => Cardinality((loaded \ Ending) \cup {m.pcb}) <= Grado
    PROVE  RoomForStructures' /\ RoomForFrames'
  <1>1. toMemory \in Seq(MemoryRequest) /\ UNCHANGED <<structures, loaded>>
    BY Processes DEF memVars
  <1> PICK n \in Nat : n = Len(toMemory)
    BY <1>1
  <1>2. /\ DOMAIN toMemory' = 1 .. n + 1 /\ DOMAIN toMemory = 1 .. n
        /\ \A i \in 1 .. n : toMemory'[i] = toMemory[i]
        /\ toMemory'[n + 1] = m
    BY <1>1
  <1>3. ASSUME NEW k \in 1 .. n PROVE EndedBefore(k)' = EndedBefore(k)
    <2>1. ASSUME NEW p \in Process
          PROVE  (\E j \in DOMAIN toMemory' : j < k /\ toMemory'[j] = EndRequest(p))
                   <=> (\E j \in DOMAIN toMemory : j < k /\ toMemory[j] = EndRequest(p))
      BY <1>2
    <2> QED
      BY <2>1 DEF EndedBefore
  <1>4. EndedBefore(n + 1)' = Ending
    <2>1. ASSUME NEW p \in Process
          PROVE  (\E j \in DOMAIN toMemory' : j < n + 1 /\ toMemory'[j] = EndRequest(p))
                   <=> EndRequest(p) \in Elements(toMemory)
      BY <1>2 DEF Elements
    <2> QED
      BY <2>1 DEF Ending, EndedBefore
  <1>5. \A k \in DOMAIN toMemory' : k \in 1 .. n \/ k = n + 1
    BY <1>2
  <1> QED
    BY <1>1, <1>2, <1>3, <1>4, <1>5 DEF RoomForStructures, RoomForFrames

(* What was asked of the memory keeps its room while the memory does what  *)
(* came before.                                                            *)
LEMMA RequestTaken ==
    ASSUME TypeOK, TypeOK', toMemory # <<>>, toMemory' = Tail(toMemory)
    PROVE  \A k \in DOMAIN toMemory' :
              /\ k + 1 \in DOMAIN toMemory /\ toMemory'[k] = toMemory[k + 1]
              /\ EndedBefore(k + 1) \subseteq EndedBefore(k)'
                   \cup {p \in Process : Head(toMemory) = EndRequest(p)}
  <1>1. toMemory \in Seq(MemoryRequest)
    BY Processes
  <1> PICK n \in Nat \ {0} : n = Len(toMemory)
    BY <1>1
  <1>2. /\ DOMAIN toMemory' = 1 .. n - 1 /\ DOMAIN toMemory = 1 .. n
        /\ \A i \in 1 .. n - 1 : toMemory'[i] = toMemory[i + 1]
        /\ Head(toMemory) = toMemory[1]
    BY <1>1
  <1>3. ASSUME NEW k \in DOMAIN toMemory', NEW p \in EndedBefore(k + 1),
               Head(toMemory) # EndRequest(p)
        PROVE  p \in EndedBefore(k)'
    <2>1. PICK j \in 1 .. n : j < k + 1 /\ toMemory[j] = EndRequest(p)
      BY <1>2 DEF EndedBefore
    <2>2. j # 1
      BY <1>2, <1>3, <2>1
    <2>3. j - 1 \in 1 .. n - 1 /\ j - 1 < k
      BY <1>2, <2>1, <2>2
    <2>4. toMemory'[j - 1] = EndRequest(p)
      BY <1>2, <2>1, <2>3
    <2> QED
      BY <1>2, <2>3, <2>4 DEF EndedBefore
  <1>4. \A k \in DOMAIN toMemory' : EndedBefore(k + 1) \subseteq Process
    BY DEF EndedBefore
  <1> QED
    BY <1>2, <1>3, <1>4


-----------------------------------------------------------------------------
(* The steps that send the memory nothing.                                 *)

LEMMA MemoryKept ==
    ASSUME TypeOK, TypeOK', MemoryInv, UNCHANGED <<toMemory, memVars>>, OneFault',
           resolving' \subseteq resolving,
           Inside \cup Leaving \subseteq Inside' \cup Leaving',
           Entering \subseteq Inside' \cup Entering'
    PROVE  MemoryInv'
  <1>1. UNCHANGED <<structures, loaded, toMemory>>
    BY DEF memVars
  <1>2. Ending' = Ending /\ \A k \in DOMAIN toMemory : EndedBefore(k)' = EndedBefore(k)
    BY <1>1 DEF Ending, EndedBefore
  <1>3. FramesDue' \subseteq FramesDue
    BY <1>1, <1>2 DEF FramesDue
  <1>4. Cardinality(FramesDue') <= Grado
    <2>1. FramesDue \in SUBSET Process /\ FramesDue' \in SUBSET Process
      BY <1>3, Processes
    <2>2. /\ Cardinality(FramesDue') <= Cardinality(FramesDue)
          /\ Cardinality(FramesDue) \in Nat /\ Cardinality(FramesDue') \in Nat
      BY <1>3, <2>1, Processes
    <2> QED
      BY <2>2, GradoAssumption DEF MemoryInv
  <1>5. Held'
    BY <1>1, <1>2, <1>3 DEF MemoryInv, Held
  <1>6. RoomForStructures' /\ RoomForFrames' /\ MemoryBounded'
    BY <1>1, <1>2 DEF MemoryInv, RoomForStructures, RoomForFrames, MemoryBounded
  <1> QED
    BY <1>4, <1>5, <1>6 DEF MemoryInv

LEMMA EnteringKept ==
    ASSUME TypeOK, \A p \in Process : thread[p] = "init" => thread'[p] = "init",
           \/ list'["NEW"] = list["NEW"]
           \/ \E p \in Process : list'["NEW"] = Append(list["NEW"], p)
    PROVE  Entering \subseteq Entering'
  <1>1. list["NEW"] \in Seq(Process)
    BY DEF TypeOK, PcbType, ListName
  <1>2. list["NEW"] # <<>> => /\ list'["NEW"] # <<>>
                              /\ Head(list'["NEW"]) = Head(list["NEW"])
    BY <1>1
  <1>3. InitThreads # {} => InitThreads' # {}
    BY DEF InitThreads
  <1> QED
    BY <1>2, <1>3 DEF Entering

LEMMA NewKept ==
    ASSUME TypeOK, NEW p, NEW b \in Queue \ {"NEW", "EXIT"},
           \/ list' = [list EXCEPT ![b] = Append(@, p)]
           \/ list' = [RunningWithoutHead EXCEPT ![b] = Append(@, p)]
           \/ list' = [list EXCEPT ![b] = Tail(@), !["RUNNING"] = Append(@, p)]
    PROVE  list'["NEW"] = list["NEW"]
  BY DEF TypeOK, PcbType, ListName, Queue, RunningWithoutHead

(* A process goes on being in the system.                                  *)
LEMMA InsideOnly ==
    ASSUME TypeOK, MemoryInv, TypeOK', UNCHANGED <<toMemory, memVars>>, OneFault',
           resolving' \subseteq resolving,
           \A p \in Process : thread[p] = "init" => thread'[p] = "init",
           \/ UNCHANGED status
           \/ \E p \in Process : \E s \in {"READY", "RUNNING", "BLOCKED"} :
                 status' = [status EXCEPT ![p] = s],
           UNCHANGED dispatch \/ ~Ends(dispatch.op),
           list'["NEW"] = list["NEW"]
    PROVE  MemoryInv'
  <1>1. Inside \subseteq Inside'
    BY DEF Inside, TypeOK, PcbType
  <1>2. Leaving \subseteq Leaving'
    BY DEF Leaving
  <1>3. Entering \subseteq Entering'
    BY EnteringKept
  <1> QED
    BY <1>1, <1>2, <1>3, MemoryKept

LEMMA FaultsKept ==
    ASSUME MemoryInv, UNCHANGED <<memoryConnection, m_resolve_page_fault>>
    PROVE  OneFault'
  BY DEF MemoryInv, OneFault, memoryConnection


LEMMA SchedulerMemory ==
    ASSUME TypeOK, TypeOK', MemoryInv, Scheduler
    PROVE  MemoryInv'
  <1>1. /\ UNCHANGED <<toMemory, memVars, resolving, thread, dispatch>>
        /\ UNCHANGED <<memoryConnection, m_resolve_page_fault>>
    BY DEF Scheduler, WaitProcessInReady, ScheduleNextToRunning, RecordUltimo,
       faultVars, memoryConnection, peerVars, memVars
  <1>2. OneFault'
    BY <1>1, FaultsKept
  <1>3. CASE ScheduleNextToRunning
    <2>1. /\ status' = [status EXCEPT ![Head(list[NextQueue])] = "RUNNING"]
          /\ list' = [list EXCEPT ![NextQueue] = Tail(@),
                                  !["RUNNING"] = Append(@, Head(list[NextQueue]))]
          /\ list[NextQueue] # <<>>
      BY <1>3 DEF ScheduleNextToRunning
    <2>2. Head(list[NextQueue]) \in Process
      BY <2>1, NextQueueIs, HeadTail DEF TypeOK, PcbType, ListName, Queue
    <2>3. list'["NEW"] = list["NEW"]
      BY <2>1, NextQueueIs, NewKept
    <2> QED
      BY <1>1, <1>2, <2>1, <2>2, <2>3, InsideOnly
  <1>4. CASE WaitProcessInReady \/ RecordUltimo
    <2>1. UNCHANGED pcbVars
      BY <1>4 DEF WaitProcessInReady, RecordUltimo
    <2> QED
      BY <1>1, <1>2, <2>1, InsideOnly DEF pcbVars
  <1> QED
    BY <1>3, <1>4 DEF Scheduler

LEMMA DeviceMemory ==
    ASSUME TypeOK, TypeOK', MemoryInv, NEW d \in Device, DeviceThread(d)
    PROVE  MemoryInv'
  <1>1. /\ UNCHANGED <<toMemory, memVars, resolving, thread, dispatch>>
        /\ UNCHANGED <<memoryConnection, m_resolve_page_fault>>
    BY DEF DeviceThread, DeviceBegin, DeviceFinish, faultVars, memoryConnection,
       peerVars, memVars
  <1>2. OneFault'
    BY <1>1, FaultsKept
  <1>3. CASE DeviceFinish(d)
    <2>1. /\ status' = [status EXCEPT ![serving[d]] = "READY"]
          /\ list' = [list EXCEPT ![ReadyQueue] = Append(@, serving[d])]
          /\ serving[d] # NoProcess
      BY <1>3 DEF DeviceFinish, schedule_next_to
    <2>2. serving[d] \in Process
      BY <2>1 DEF TypeOK, DeviceType
    <2>3. list'["NEW"] = list["NEW"]
      BY <2>1, ReadyQueueIs, NewKept
    <2> QED
      BY <1>1, <1>2, <2>1, <2>2, <2>3, InsideOnly
  <1>4. CASE DeviceBegin(d)
    BY <1>1, <1>2, <1>4, InsideOnly DEF DeviceBegin, pcbVars
  <1> QED
    BY <1>3, <1>4 DEF DeviceThread

LEMMA RestMemory ==
    ASSUME TypeOK, TypeOK', MemoryInv,
           Clock \/ Interrupt \/ Cpu \/ CpuInterrupt \/ \E p \in Process : Console(p)
    PROVE  MemoryInv'
  <1>1. UNCHANGED <<toMemory, memVars, resolving, thread, dispatch, status, list,
                    memoryConnection, m_resolve_page_fault>>
    <2>1. CASE Clock \/ Interrupt
      BY <2>1 DEF Clock, ClockBegin, ClockRestart, ClockExpire, ClockFinish,
         Interrupt, ManageInterrupt, pcbVars, faultVars, memoryConnection,
         peerVars, memVars
    <2>2. CASE Cpu
      BY <2>2, KernelUnchanged DEF Cpu, CpuReceive, CpuExecute, CpuReturn, pcbVars,
         faultVars, memoryConnection, memVars
    <2>3. CASE CpuInterrupt \/ \E p \in Process : Console(p)
      BY <2>3 DEF CpuInterrupt, Console, ConsoleStart, ConsoleAnswer, ConsoleEnd,
         pcbVars, faultVars, memoryConnection, memVars
    <2> QED
      BY <2>1, <2>2, <2>3
  <1> QED
    BY <1>1, FaultsKept, InsideOnly

(* The answers.                                                            *)
LEMMA ManageMemoryMemory ==
    ASSUME TypeOK, TypeOK', AdmissionInv, MemoryInv, ManageMemory
    PROVE  MemoryInv'
  <1>1. /\ UNCHANGED <<toMemory, memVars, resolving, thread, dispatch>>
        /\ fromMemory # <<>> /\ fromMemory' = Tail(fromMemory)
    BY DEF ManageMemory, ReceiveInitStructures, ReceivePageFaultResponse,
       peerVars, memVars, faultVars
  <1>2. fromMemory \in Seq(MemoryAnswer) /\ Head(fromMemory) \in MemoryAnswer
    BY <1>1, Processes, HeadTail
  <1>3. /\ Sent(fromMemory', PageThere) => Sent(fromMemory, PageThere)
        /\ Once(fromMemory', PageThere)
        /\ Head(fromMemory).op = PageThere => Sent(fromMemory, PageThere)
                                              /\ ~Sent(fromMemory', PageThere)
    BY <1>1, <1>2, TailMessage DEF MemoryInv, OneFault
  <1>4. CASE ReceiveInitStructures
    <2>1. UNCHANGED <<status, m_resolve_page_fault>>
      BY <1>4 DEF ReceiveInitStructures, faultVars
    <2>2. list' = list
      BY <1>4, HeadReplacedByItself
    <2>3. OneFault'
      BY <1>1, <1>3, <2>1 DEF MemoryInv, OneFault
    <2> QED
      BY <1>1, <2>1, <2>2, <2>3, InsideOnly
  <1>5. CASE ReceivePageFaultResponse
    <2>1. /\ Head(fromMemory).op = PageThere
          /\ status' = [status EXCEPT ![Head(fromMemory).pcb] = "READY"]
          /\ list' = [list EXCEPT ![ReadyQueue] = Append(@, Head(fromMemory).pcb)]
      BY <1>5 DEF ReceivePageFaultResponse, schedule_next_to, PageThere
    <2>2. Head(fromMemory).pcb \in Process
      BY <1>2 DEF MemoryAnswer
    <2>3. list'["NEW"] = list["NEW"]
      BY <2>1, ReadyQueueIs, NewKept
    <2>4. OneFault'
      BY <1>1, <1>3, <2>1 DEF MemoryInv, OneFault
    <2> QED
      BY <1>1, <1>5, <2>1, <2>2, <2>3, <2>4, InsideOnly
  <1> QED
    BY <1>4, <1>5 DEF ManageMemory


(* At the moment the request is sent no admission is under way, so nothing *)
(* holds page tables but the processes inside, one fewer than the degree   *)
(* allows, the one that leaves, and those whose end is requested before.   *)
LEMMA AdmissionSent ==
    ASSUME TypeOK, TypeOK', AdmissionInv, GradeAccounted, MemoryInv, NEW p \in Process,
           InitStructuresMemory(p),
           UNCHANGED <<memVars, resolving, dispatch, fromMemory, m_resolve_page_fault>>
    PROVE  MemoryInv'
  <1> DEFINE m == [op |-> InitRequest, pcb |-> Head(list["NEW"])]
  <1>1. /\ thread[p] = "grado" /\ thread' = [thread EXCEPT ![p] = "init"]
        /\ sem["grado_multiprogamacion"] > 0
        /\ list["NEW"] # <<>> /\ UNCHANGED <<list, status>>
        /\ toMemory' = Append(toMemory, m)
    BY DEF InitStructuresMemory, Sem_wait, pcbVars, InitRequest
  <1>2. /\ m \in MemoryRequest /\ m.op = InitRequest /\ m.op # PageFault
        /\ \A q \in Process : m # EndRequest(q) /\ m # PageRequest(q)
    <2>1. Head(list["NEW"]) \in Process
      BY <1>1, HeadTail DEF TypeOK, PcbType, ListName
    <2> QED
      BY <2>1 DEF MemoryRequest, InitRequest, PageFault, EndRequest, PageRequest
  <1> HIDE DEF m
  <1>3. UNCHANGED <<structures, loaded>> /\ toMemory \in Seq(MemoryRequest)
    BY Processes DEF memVars
  <1>4. Elements(toMemory') = Elements(toMemory) \cup {m}
    BY <1>1, <1>2, <1>3, AppendElements
  <1>5. Ending' = Ending /\ FramesDue' = FramesDue
    BY <1>2, <1>3, <1>4 DEF Ending, FramesDue
  <1>6. /\ Inside' = Inside /\ Leaving' = Leaving /\ Entering = {}
    <2>1. InitThreads = {}
      <3>1. p \in Admitters
        BY <1>1 DEF Admitters
      <3>2. Admitters = {p}
        BY <3>1, OneAdmitter DEF TypeOK, AdmissionInv
      <3> QED
        BY <1>1, <3>2 DEF Admitters, InitThreads
    <2> QED
      BY <1>1, <2>1 DEF Inside, Leaving, Entering
  <1>7. Held'
    BY <1>3, <1>5, <1>6 DEF MemoryInv, Held
  <1>8. OneFault'
    BY <1>1, <1>2, <1>3, AppendMessage DEF MemoryInv, OneFault
  <1>9. Cardinality(structures \ Ending) <= Grado
    <2> DEFINE n == Cardinality(Inside)
               c == Cardinality(structures \ Ending)
               g == sem["grado_multiprogamacion"]
               i == Cardinality(InitThreads)
    <2>1. structures \ Ending \subseteq Inside \cup Leaving
      BY <1>6 DEF MemoryInv, Held
    <2>2. PICK q \in Process : Leaving \subseteq {q}
      BY DEF Leaving
    <2>3. /\ Inside \in SUBSET Process /\ Inside \cup {q} \in SUBSET Process
          /\ structures \ Ending \in SUBSET Process
      BY Processes DEF Inside
    <2>4. c <= Cardinality(Inside \cup {q}) /\ Cardinality(Inside \cup {q}) <= n + 1
      BY <2>1, <2>2, <2>3, Processes
    <2>5. c \in Nat /\ Cardinality(Inside \cup {q}) \in Nat /\ n \in Nat /\ i \in Nat
          /\ g \in Nat /\ g > 0
      BY <1>1, <2>3, Processes, CountsFinite DEF TypeOK, SemType, SemName
    <2>6. g + n + i = Grado
      BY DEF GradeAccounted, Inside, InitThreads
    <2> HIDE DEF n, c, g, i
    <2>7. c <= Grado
      BY <2>4, <2>5, <2>6, GradoAssumption
    <2> QED
      BY <2>7 DEF c
  <1>10. RoomForStructures' /\ RoomForFrames'
    BY <1>1, <1>2, <1>9, RequestSent DEF MemoryInv
  <1>11. MemoryBounded'
    BY <1>3 DEF MemoryInv, MemoryBounded
  <1> QED
    BY <1>5, <1>7, <1>8, <1>10, <1>11 DEF MemoryInv


LEMMA ConsoleThreadMemory ==
    ASSUME TypeOK, TypeOK', PlaceInv, AdmissionInv, GradeAccounted, MemoryInv,
           NEW p \in Process, ConsoleThread(p)
    PROVE  MemoryInv'
  <1>1. UNCHANGED <<memVars, resolving, dispatch, fromMemory, m_resolve_page_fault>>
    BY DEF ConsoleThread, ReceiveInitProcess, EnterScheduleReady, InitStructuresMemory,
       ScheduleNextToReady, ReceiveIoResponse, ReceiveDisconnection, faultVars,
       memoryConnection, peerVars, memVars
  <1>2. ASSUME UNCHANGED toMemory PROVE OneFault'
    BY <1>1, <1>2, FaultsKept DEF memoryConnection
  <1>3. CASE ReceiveInitProcess(p)
    <2>1. /\ UNCHANGED toMemory /\ thread[p] = "receive"
          /\ thread' = [thread EXCEPT ![p] = "schedule"]
          /\ fromConsole[p] # <<>> /\ Head(fromConsole[p]) = "INIT_PROCESS"
          /\ fromConsole' = [fromConsole EXCEPT ![p] = Tail(fromConsole[p])]
          /\ list' = [list EXCEPT !["NEW"] = Append(@, p)]
          /\ status' = [status EXCEPT ![p] = "NEW"]
      BY <1>3 DEF ReceiveInitProcess, schedule_next_to, memoryConnection
    <2>2. status[p] = "none"
      BY <2>1, ConsoleReads DEF PlaceInv, SentOnce
    <2>3. Inside \subseteq Inside' /\ Leaving \subseteq Leaving'
      BY <1>1, <2>1, <2>2 DEF Inside, Leaving, TypeOK, PcbType
    <2>4. Entering \subseteq Entering'
      <3>1. list'["NEW"] = Append(list["NEW"], p)
        BY <2>1 DEF TypeOK, PcbType, ListName
      <3>2. \A q \in Process : thread[q] = "init" => thread'[q] = "init"
        BY <2>1 DEF TypeOK, ThreadType
      <3> QED
        BY <3>1, <3>2, EnteringKept
    <2> QED
      BY <1>1, <1>2, <2>1, <2>3, <2>4, MemoryKept
  <1>4. CASE EnterScheduleReady(p) \/ ReceiveDisconnection(p)
    <2>1. /\ UNCHANGED <<toMemory, status, list>> /\ thread[p] # "init"
          /\ \E s : thread' = [thread EXCEPT ![p] = s]
      BY <1>4 DEF EnterScheduleReady, ReceiveDisconnection, memoryConnection, pcbVars
    <2>2. \A q \in Process : thread[q] = "init" => thread'[q] = "init"
      BY <2>1 DEF TypeOK, ThreadType
    <2> QED
      BY <1>1, <1>2, <2>1, <2>2, InsideOnly
  <1>5. CASE ReceiveIoResponse(p)
    <2>1. /\ UNCHANGED <<toMemory, thread>>
          /\ status' = [status EXCEPT ![p] = "READY"]
          /\ list' = [list EXCEPT ![ReadyQueue] = Append(@, p)]
      BY <1>5 DEF ReceiveIoResponse, schedule_next_to, memoryConnection
    <2>2. list'["NEW"] = list["NEW"]
      BY <2>1, ReadyQueueIs, NewKept
    <2> QED
      BY <1>1, <1>2, <2>1, <2>2, InsideOnly
  <1>6. CASE ScheduleNextToReady(p)
    <2>1. /\ UNCHANGED toMemory
          /\ list["NEW"] # <<>>
          /\ status' = [status EXCEPT ![Head(list["NEW"])] = "READY"]
      BY <1>6 DEF ScheduleNextToReady, memoryConnection
    <2>2. Inside \subseteq Inside' /\ Leaving \subseteq Leaving' /\ Entering \subseteq Inside'
      BY <1>1, <2>1 DEF Inside, Leaving, Entering, TypeOK, PcbType
    <2> QED
      BY <1>1, <1>2, <2>1, <2>2, MemoryKept
  <1>7. CASE InitStructuresMemory(p)
    BY <1>1, <1>7, AdmissionSent
  <1> QED
    BY <1>3, <1>4, <1>5, <1>6, <1>7 DEF ConsoleThread


(* A process faults while the dispatch thread has nobody's end to tell: it *)
(* and all that have frames are then among the Grado that are inside.      *)
LEMMA FaultMemory ==
    ASSUME TypeOK, TypeOK', PlaceInv, GradeAccounted, MemoryInv,
           DispatchPageFault, UNCHANGED peerVars
    PROVE  MemoryInv'
  <1>1. PICK p \in Process : p = dispatch.pcb
    BY Dispatched DEF DispatchPageFault, PlaceInv
  <1>2. /\ dispatch.op = "PAGE_FAULT" /\ dispatch' = Idle
        /\ list' = RunningWithoutHead
        /\ resolving' = resolving \cup {p}
        /\ UNCHANGED <<status, thread, memoryConnection, memVars, m_resolve_page_fault>>
    BY <1>1 DEF DispatchPageFault, peerVars, memVars
  <1>3. UNCHANGED <<structures, loaded, toMemory>>
    BY <1>2 DEF memVars, memoryConnection
  <1>4. Ending' = Ending /\ \A k \in DOMAIN toMemory : EndedBefore(k)' = EndedBefore(k)
    BY <1>3 DEF Ending, EndedBefore
  <1>5. FramesDue' = FramesDue \cup {p}
    BY <1>2, <1>3, <1>4 DEF FramesDue
  <1>6. Leaving = {} /\ Leaving' = {} /\ Inside' = Inside /\ Entering' = Entering
    <2>1. list'["NEW"] = list["NEW"]
      BY <1>2 DEF TypeOK, PcbType, ListName, RunningWithoutHead
    <2> QED
      BY <1>2, <2>1 DEF Leaving, Inside, Entering, InitThreads, Ends, Idle
  <1>7. p \in Inside
    <2>1. At(p, "dispatch") /\ "dispatch" \in Place
      BY <1>1 DEF At, Place
    <2>2. status[p] = "RUNNING"
      BY <1>2, <2>1, OnlyThere DEF PlaceInv, StatusAt, Ends
    <2> QED
      BY <2>2 DEF Inside
  <1>8. Held'
    BY <1>3, <1>4, <1>5, <1>6, <1>7 DEF MemoryInv, Held
  <1>9. OneFault'
    BY <1>2, FaultsKept
  <1>10. Cardinality(FramesDue') <= Grado
    <2> DEFINE n == Cardinality(Inside)
               c == Cardinality(FramesDue \cup {p})
               g == sem["grado_multiprogamacion"]
               i == Cardinality(InitThreads)
    <2>1. FramesDue \cup {p} \subseteq Inside
      BY <1>6, <1>7 DEF MemoryInv, Held
    <2>2. Inside \in SUBSET Process /\ FramesDue \cup {p} \in SUBSET Process
      BY <2>1 DEF Inside
    <2>3. c <= n /\ c \in Nat
      BY <2>1, <2>2, Processes
    <2>4. g \in Nat /\ n \in Nat /\ i \in Nat
      BY CountsFinite DEF TypeOK, SemType, SemName
    <2>5. g + n + i = Grado
      BY DEF GradeAccounted, Inside, InitThreads
    <2> HIDE DEF n, c, g, i
    <2>6. c <= Grado
      BY <2>3, <2>4, <2>5, GradoAssumption
    <2> QED
      BY <1>5, <2>6 DEF c
  <1>11. RoomForStructures' /\ RoomForFrames' /\ MemoryBounded'
    BY <1>3, <1>4 DEF MemoryInv, RoomForStructures, RoomForFrames, MemoryBounded
  <1> QED
    BY <1>8, <1>9, <1>10, <1>11 DEF MemoryInv


(* A page fault is asked for by a process that has its place and wanted    *)
(* its frame before.                                                       *)
LEMMA PageFaultMemory ==
    ASSUME TypeOK, TypeOK', MemoryInv, NEW p \in Process, PageFaultThread(p)
    PROVE  MemoryInv'
  <1> DEFINE m == PageRequest(p)
  <1>1. /\ p \in resolving /\ ~m_resolve_page_fault /\ m_resolve_page_fault'
        /\ resolving' = resolving \ {p}
        /\ status' = [status EXCEPT ![p] = "BLOCKED"]
        /\ toMemory' = Append(toMemory, m)
        /\ UNCHANGED <<list, thread, dispatch, fromMemory, memVars>>
    BY DEF PageFaultThread, ResolvePageFault, PageRequest, peerVars, memVars
  <1>2. /\ m \in MemoryRequest /\ m.op = PageFault /\ m.op # InitRequest /\ m.pcb = p
        /\ \A q \in Process : /\ m # EndRequest(q)
                              /\ m = PageRequest(q) => q = p
    BY DEF MemoryRequest, InitRequest, PageFault, EndRequest, PageRequest
  <1> HIDE DEF m
  <1>3. UNCHANGED <<structures, loaded>> /\ toMemory \in Seq(MemoryRequest)
    BY <1>1, Processes DEF memVars
  <1>4. Elements(toMemory') = Elements(toMemory) \cup {m}
    BY <1>1, <1>2, <1>3, AppendElements
  <1>5. Ending' = Ending
    BY <1>2, <1>4 DEF Ending
  <1>6. FramesDue' \subseteq FramesDue
    BY <1>1, <1>2, <1>3, <1>4, <1>5 DEF FramesDue
  <1>7. /\ Inside \subseteq Inside' /\ Leaving \subseteq Leaving'
        /\ Entering \subseteq Entering'
    BY <1>1 DEF Inside, Leaving, Entering, InitThreads, TypeOK, PcbType
  <1>8. Held'
    BY <1>3, <1>5, <1>6, <1>7 DEF MemoryInv, Held
  <1>9. OneFault'
    BY <1>1, <1>2, <1>3, AppendMessage DEF MemoryInv, OneFault
  <1>10. /\ Cardinality(FramesDue') <= Grado
         /\ Cardinality((loaded \ Ending) \cup {p}) <= Grado
    <2>1. /\ (loaded \ Ending) \cup {p} \subseteq FramesDue
          /\ FramesDue \in SUBSET Process /\ FramesDue' \in SUBSET Process
      BY <1>1, <1>6, Processes DEF FramesDue
    <2>2. (loaded \ Ending) \cup {p} \in SUBSET Process
      BY <2>1
    <2>3. /\ Cardinality(FramesDue') <= Cardinality(FramesDue)
          /\ Cardinality((loaded \ Ending) \cup {p}) <= Cardinality(FramesDue)
          /\ Cardinality(FramesDue) \in Nat /\ Cardinality(FramesDue') \in Nat
          /\ Cardinality((loaded \ Ending) \cup {p}) \in Nat
      BY <1>6, <2>1, <2>2, Processes
    <2> QED
      BY <2>3, GradoAssumption DEF MemoryInv
  <1>11. RoomForStructures' /\ RoomForFrames'
    BY <1>1, <1>2, <1>10, RequestSent DEF MemoryInv
  <1>12. MemoryBounded'
    BY <1>3 DEF MemoryInv, MemoryBounded
  <1> QED
    BY <1>8, <1>9, <1>10, <1>11, <1>12 DEF MemoryInv

(* The end of a process: it no longer leaves, its end is requested.        *)
LEMMA EndMemory ==
    ASSUME TypeOK, TypeOK', PlaceInv, MemoryInv, DispatchEnd, UNCHANGED peerVars
    PROVE  MemoryInv'
  <1>1. PICK p \in Process : p = dispatch.pcb
    BY Dispatched DEF DispatchEnd, Ends, PlaceInv
  <1> DEFINE m == EndRequest(p)
  <1>2. /\ Ends(dispatch.op) /\ dispatch' = Idle
        /\ list' = [RunningWithoutHead EXCEPT !["EXIT"] = Append(@, p)]
        /\ toMemory' = Append(toMemory, m)
        /\ UNCHANGED <<status, thread, fromMemory, memVars, resolving, m_resolve_page_fault>>
    BY <1>1 DEF DispatchEnd, EndRequest, faultVars, peerVars, memVars
  <1>3. /\ m \in MemoryRequest /\ m.op # PageFault /\ m.op # InitRequest
        /\ \A q \in Process : /\ m = EndRequest(q) <=> q = p
                              /\ m # PageRequest(q)
    BY DEF MemoryRequest, InitRequest, PageFault, EndRequest, PageRequest
  <1> HIDE DEF m
  <1>4. UNCHANGED <<structures, loaded>> /\ toMemory \in Seq(MemoryRequest)
    BY <1>2, Processes DEF memVars
  <1>5. Elements(toMemory') = Elements(toMemory) \cup {m}
    BY <1>2, <1>3, <1>4, AppendElements
  <1>6. Ending' = Ending \cup {p}
    BY <1>3, <1>5 DEF Ending
  <1>7. Leaving = {p} /\ Inside' = Inside /\ Entering' = Entering
    <2>1. list'["NEW"] = list["NEW"]
      BY <1>2 DEF TypeOK, PcbType, ListName, RunningWithoutHead
    <2> QED
      BY <1>1, <1>2, <2>1 DEF Leaving, Inside, Entering, InitThreads
  <1>8. p \notin resolving /\ PageRequest(p) \notin Elements(toMemory)
    <2>1. At(p, "dispatch") /\ "dispatch" \in Place
      BY <1>1 DEF At, Place
    <2>2. \A y \in Place : At(p, y) => y = "dispatch"
      BY <2>1, OnlyThere DEF PlaceInv
    <2>3. "resolving" \in Place /\ "toMemory" \in Place
      BY DEF Place
    <2> QED
      BY <2>2, <2>3 DEF At
  <1>9. FramesDue' \subseteq FramesDue /\ p \notin FramesDue'
    BY <1>2, <1>3, <1>4, <1>5, <1>6, <1>8 DEF FramesDue
  <1>10. Held'
    BY <1>4, <1>6, <1>7, <1>9 DEF MemoryInv, Held
  <1>11. OneFault'
    BY <1>2, <1>3, <1>4, AppendMessage DEF MemoryInv, OneFault
  <1>12. Cardinality(FramesDue') <= Grado
    <2>1. FramesDue \in SUBSET Process /\ FramesDue' \in SUBSET Process
      BY <1>9, Processes
    <2>2. /\ Cardinality(FramesDue') <= Cardinality(FramesDue)
          /\ Cardinality(FramesDue) \in Nat /\ Cardinality(FramesDue') \in Nat
      BY <1>9, <2>1, Processes
    <2> QED
      BY <2>2, GradoAssumption DEF MemoryInv
  <1>13. RoomForStructures' /\ RoomForFrames'
    BY <1>2, <1>3, RequestSent DEF MemoryInv
  <1>14. MemoryBounded'
    BY <1>4 DEF MemoryInv, MemoryBounded
  <1> QED
    BY <1>10, <1>11, <1>12, <1>13, <1>14 DEF MemoryInv

LEMMA DispatchMemory ==
    ASSUME TypeOK, TypeOK', PlaceInv, GradeAccounted, MemoryInv, Dispatch
    PROVE  MemoryInv'
  <1>1. UNCHANGED <<memVars, thread, fromMemory, m_resolve_page_fault>> /\ UNCHANGED peerVars
    BY DEF Dispatch, DispatchReceive, DispatchNullUltimo, DispatchIoConsole,
       DispatchIoDefault, DispatchInterruption, DispatchPageFault, DispatchEnd,
       faultVars, memoryConnection, peerVars, memVars
  <1>2. ASSUME UNCHANGED toMemory PROVE OneFault'
    BY <1>1, <1>2, FaultsKept DEF memoryConnection
  <1>3. CASE DispatchReceive
    <2>1. /\ UNCHANGED <<toMemory, list, resolving>>
          /\ dispatch = Idle /\ dispatch' = Head(fromCpu)
          /\ status' = IF Ends(Head(fromCpu).op)
                         THEN [status EXCEPT ![Head(fromCpu).pcb] = "EXIT"] ELSE status
      BY <1>3 DEF DispatchReceive, memoryConnection, faultVars
    <2>2. Leaving = {}
      BY <2>1 DEF Leaving, Idle, Ends
    <2>3. Inside \subseteq Inside' \cup Leaving'
      BY <2>1 DEF Inside, Leaving, TypeOK, PcbType
    <2>4. Entering' = Entering
      BY <1>1, <2>1 DEF Entering, InitThreads
    <2> QED
      BY <1>1, <1>2, <2>1, <2>2, <2>3, <2>4, MemoryKept
  <1>4. CASE DispatchNullUltimo
    BY <1>1, <1>2, <1>4, InsideOnly DEF DispatchNullUltimo, memoryConnection, pcbVars, faultVars
  <1>5. ASSUME dispatch.op # "none" PROVE dispatch.pcb \in Process
    BY <1>5, Dispatched DEF PlaceInv
  <1>6. CASE DispatchIoConsole
    <2>1. /\ UNCHANGED <<toMemory, list, resolving>>
          /\ dispatch.op = "IO_CONSOLE"
          /\ status' = [status EXCEPT ![dispatch.pcb] = "BLOCKED"]
      BY <1>6 DEF DispatchIoConsole, memoryConnection, faultVars
    <2>2. ~Ends(dispatch.op) /\ dispatch.pcb \in Process
      BY <1>5, <2>1 DEF Ends
    <2> QED
      BY <1>1, <1>2, <2>1, <2>2, InsideOnly
  <1>7. CASE DispatchIoDefault
    <2>1. /\ UNCHANGED <<toMemory, resolving>>
          /\ dispatch.op \in Device
          /\ status' = [status EXCEPT ![dispatch.pcb] = "BLOCKED"]
          /\ list' = [list EXCEPT !["BLOCKED"] = Append(@, dispatch.pcb)]
      BY <1>7 DEF DispatchIoDefault, schedule_next_to, memoryConnection, faultVars
    <2>2. ~Ends(dispatch.op) /\ dispatch.pcb \in Process
      BY <1>5, <2>1, DeviceAssumption DEF Ends
    <2>3. list'["NEW"] = list["NEW"]
      BY <2>1 DEF TypeOK, PcbType, ListName
    <2> QED
      BY <1>1, <1>2, <2>1, <2>2, <2>3, InsideOnly
  <1>8. CASE DispatchInterruption
    <2>1. /\ UNCHANGED <<toMemory, resolving>>
          /\ dispatch.op = "EXECUTE_INTERRUPTION"
          /\ status' = [status EXCEPT ![dispatch.pcb] = "READY"]
          /\ list' = [RunningWithoutHead EXCEPT ![PreemptedQueue] =
                                                   Append(@, dispatch.pcb)]
      BY <1>8 DEF DispatchInterruption, memoryConnection, faultVars
    <2>2. ~Ends(dispatch.op) /\ dispatch.pcb \in Process
      BY <1>5, <2>1 DEF Ends
    <2>3. PreemptedQueue \in Queue \ {"NEW", "EXIT"}
      BY DEF PreemptedQueue, Queue
    <2>4. list'["NEW"] = list["NEW"]
      BY <2>1, <2>3, NewKept
    <2> QED
      BY <1>1, <1>2, <2>1, <2>2, <2>4, InsideOnly
  <1>9. CASE DispatchEnd
    BY <1>1, <1>9, EndMemory
  <1>10. CASE DispatchPageFault
    BY <1>1, <1>2, <1>10, FaultMemory
  <1> QED
    BY <1>3, <1>4, <1>6, <1>7, <1>8, <1>9, <1>10 DEF Dispatch


-----------------------------------------------------------------------------
(* What the memory does with a request.                                    *)

(* What is left of the requests, whichever the first one was.              *)
LEMMA RoomKept ==
    ASSUME TypeOK, TypeOK', MemoryInv, toMemory # <<>>, toMemory' = Tail(toMemory),
           NEW e, e = IF Head(toMemory).op = "END_STRUCTURES"
                        THEN {Head(toMemory).pcb} ELSE {},
           Sent(toMemory', InitRequest) => structures' \subseteq structures \ e,
           Sent(toMemory', PageFault) => loaded' \subseteq loaded \ e
    PROVE  RoomForStructures' /\ RoomForFrames'
  <1>1. /\ toMemory \in Seq(MemoryRequest) /\ toMemory' \in Seq(MemoryRequest)
        /\ structures \in SUBSET Process /\ loaded \in SUBSET Process
    BY Processes DEF TypeOK, MemoryConnectionType
  <1>2. \A p \in Process : Head(toMemory) = EndRequest(p) => e = {p}
    BY DEF EndRequest
  <1>3. ASSUME NEW k \in DOMAIN toMemory'
        PROVE  /\ k + 1 \in DOMAIN toMemory /\ toMemory'[k] = toMemory[k + 1]
               /\ toMemory'[k] \in Elements(toMemory') /\ toMemory'[k] \in MemoryRequest
               /\ EndedBefore(k + 1) \subseteq EndedBefore(k)' \cup e
    <2>1. /\ k + 1 \in DOMAIN toMemory /\ toMemory'[k] = toMemory[k + 1]
          /\ EndedBefore(k + 1) \subseteq EndedBefore(k)'
               \cup {p \in Process : Head(toMemory) = EndRequest(p)}
      BY RequestTaken
    <2>2. toMemory'[k] \in Elements(toMemory') /\ toMemory'[k] \in MemoryRequest
      BY <1>1 DEF Elements
    <2> QED
      BY <1>2, <2>1, <2>2
  <1>4. ASSUME NEW k \in DOMAIN toMemory', toMemory'[k].op = InitRequest
        PROVE  Cardinality(structures' \ EndedBefore(k)') <= Grado
    <2>1. structures' \subseteq structures \ e
      BY <1>3, <1>4 DEF Sent
    <2>2. structures' \ EndedBefore(k)' \subseteq structures \ EndedBefore(k + 1)
      BY <1>3, <2>1
    <2>3. /\ structures' \ EndedBefore(k)' \in SUBSET Process
          /\ structures \ EndedBefore(k + 1) \in SUBSET Process
      BY <1>1, <2>2
    <2>4. Cardinality(structures \ EndedBefore(k + 1)) <= Grado
      BY <1>3, <1>4 DEF MemoryInv, RoomForStructures
    <2>5. /\ Cardinality(structures' \ EndedBefore(k)')
                <= Cardinality(structures \ EndedBefore(k + 1))
          /\ Cardinality(structures' \ EndedBefore(k)') \in Nat
          /\ Cardinality(structures \ EndedBefore(k + 1)) \in Nat
      BY <2>2, <2>3, Processes
    <2> QED
      BY <2>4, <2>5, GradoAssumption
  <1>5. ASSUME NEW k \in DOMAIN toMemory', toMemory'[k].op = PageFault
        PROVE  Cardinality((loaded' \ EndedBefore(k)') \cup {toMemory'[k].pcb}) <= Grado
    <2> DEFINE p == toMemory'[k].pcb
    <2>1. loaded' \subseteq loaded \ e /\ p \in Process
      BY <1>3, <1>5 DEF Sent, MemoryRequest
    <2>2. (loaded' \ EndedBefore(k)') \cup {p}
             \subseteq (loaded \ EndedBefore(k + 1)) \cup {toMemory[k + 1].pcb}
      BY <1>3, <2>1
    <2>3. /\ (loaded' \ EndedBefore(k)') \cup {p} \in SUBSET Process
          /\ (loaded \ EndedBefore(k + 1)) \cup {toMemory[k + 1].pcb} \in SUBSET Process
      BY <1>1, <1>3, <2>1, <2>2
    <2>4. Cardinality((loaded \ EndedBefore(k + 1)) \cup {toMemory[k + 1].pcb}) <= Grado
      BY <1>3, <1>5 DEF MemoryInv, RoomForFrames
    <2>5. /\ Cardinality((loaded' \ EndedBefore(k)') \cup {p})
                <= Cardinality((loaded \ EndedBefore(k + 1)) \cup {toMemory[k + 1].pcb})
          /\ Cardinality((loaded' \ EndedBefore(k)') \cup {p}) \in Nat
          /\ Cardinality((loaded \ EndedBefore(k + 1)) \cup {toMemory[k + 1].pcb}) \in Nat
      BY <2>2, <2>3, Processes
    <2> QED
      BY <2>4, <2>5, GradoAssumption
  <1> QED
    BY <1>4, <1>5 DEF RoomForStructures, RoomForFrames


LEMMA MemoryMemory ==
    ASSUME TypeOK, TypeOK', AdmissionInv, MemoryInv, Memory
    PROVE  MemoryInv'
  <1> DEFINE m == Head(toMemory)
             r == Head(toMemory).pcb
  <1>1. /\ toMemory # <<>> /\ toMemory' = Tail(toMemory)
        /\ UNCHANGED <<list, status, thread, dispatch, resolving, m_resolve_page_fault>>
    BY DEF Memory, MemoryInit, MemoryLoadPage, MemoryEnd, pcbVars, faultVars
  <1>2. /\ toMemory \in Seq(MemoryRequest) /\ fromMemory \in Seq(MemoryAnswer)
        /\ m \in MemoryRequest /\ r \in Process
        /\ structures \in SUBSET Process /\ loaded \in SUBSET Process
    <2>1. toMemory \in Seq(MemoryRequest)
      BY Processes
    <2>2. m \in MemoryRequest
      BY <1>1, <2>1, HeadTail
    <2> QED
      BY <2>1, <2>2, Processes DEF MemoryRequest
  <1>3. Elements(toMemory) = Elements(toMemory') \cup {m} /\ m \in Elements(toMemory)
    BY <1>1, <1>2, TailElements
  <1>4. \A p \in Process : /\ m = EndRequest(p) <=> m.op = "END_STRUCTURES" /\ r = p
                           /\ m = PageRequest(p) <=> m.op = PageFault /\ r = p
    BY <1>2 DEF MemoryRequest, EndRequest, PageRequest, PageFault
  <1>5. Inside' = Inside /\ Leaving' = Leaving /\ Entering' = Entering
    BY <1>1 DEF Inside, Leaving, Entering, InitThreads
  <1>6. /\ Sent(toMemory', PageFault) => Sent(toMemory, PageFault)
        /\ Once(toMemory', PageFault)
        /\ m.op = PageFault => Sent(toMemory, PageFault) /\ ~Sent(toMemory', PageFault)
        /\ m.op = InitRequest => Sent(toMemory, InitRequest) /\ ~Sent(toMemory', InitRequest)
    BY <1>1, <1>2, TailMessage DEF MemoryInv, OneFault, AdmissionInv, OneToken
  <1>7. EndedBefore(1) = {} /\ 1 \in DOMAIN toMemory /\ toMemory[1] = m
    BY <1>1, <1>2 DEF EndedBefore
  <1>8. Cardinality(structures) \in Nat /\ Cardinality(loaded) \in Nat
    BY <1>2, Processes
  <1> HIDE DEF m, r
  <1>9. ASSUME FramesDue' \subseteq FramesDue PROVE Cardinality(FramesDue') <= Grado
    <2>1. FramesDue \in SUBSET Process /\ FramesDue' \in SUBSET Process
      BY <1>9, Processes
    <2>2. /\ Cardinality(FramesDue') <= Cardinality(FramesDue)
          /\ Cardinality(FramesDue) \in Nat /\ Cardinality(FramesDue') \in Nat
      BY <1>9, <2>1, Processes
    <2> QED
      BY <2>2, GradoAssumption DEF MemoryInv
  <1>10. CASE MemoryInit
    <2>1. /\ m.op = InitRequest /\ structures' = structures \cup {r} /\ loaded' = loaded
          /\ fromMemory' = Append(fromMemory, [op |-> "INIT_RESPONSE", pcb |-> r])
      BY <1>10 DEF MemoryInit, InitRequest, m, r
    <2>2. m.op # "END_STRUCTURES" /\ m.op # PageFault
      BY <2>1 DEF InitRequest, PageFault
    <2>3. Ending' = Ending /\ FramesDue' \subseteq FramesDue
      BY <1>1, <1>3, <1>4, <2>1, <2>2 DEF Ending, FramesDue
    <2>4. r \in Entering
      <3>1. list["NEW"] # <<>> /\ Head(list["NEW"]) = r
        BY <1>3, <2>1 DEF AdmissionInv, AboutHeadOfNew, r, m
      <3>2. InitThreads # {}
        BY <1>6, <2>1 DEF AdmissionInv, SomeoneWaits, Requested, InitThreads
      <3> QED
        BY <1>2, <3>1, <3>2 DEF Entering
    <2>5. Held'
      BY <1>5, <2>1, <2>3, <2>4 DEF MemoryInv, Held
    <2>6. OneFault'
      <3> DEFINE a == [op |-> "INIT_RESPONSE", pcb |-> r]
      <3>1. a \in MemoryAnswer /\ a.op # PageThere
        BY <1>2 DEF MemoryAnswer, PageThere
      <3> HIDE DEF a
      <3>2. fromMemory' = Append(fromMemory, a)
        BY <2>1 DEF a
      <3> QED
        BY <1>1, <1>2, <1>6, <3>1, <3>2, AppendMessage DEF MemoryInv, OneFault
    <2>7. RoomForStructures' /\ RoomForFrames'
      BY <1>1, <1>6, <2>1, <2>2, RoomKept DEF m
    <2>8. MemoryBounded'
      <3>1. Cardinality(structures) <= Grado
        BY <1>7, <2>1 DEF MemoryInv, RoomForStructures
      <3>2. /\ Cardinality(structures') <= Cardinality(structures) + 1
            /\ Cardinality(structures') \in Nat
        BY <1>2, <2>1, Processes
      <3>3. Cardinality(structures') <= Grado + 1
        BY <1>8, <3>1, <3>2, GradoAssumption
      <3> QED
        BY <2>1, <3>3 DEF MemoryInv, MemoryBounded
    <2> QED
      BY <1>9, <2>3, <2>5, <2>6, <2>7, <2>8 DEF MemoryInv
  <1>11. CASE MemoryLoadPage
    <2>1. /\ m.op = PageFault /\ loaded' = loaded \cup {r} /\ structures' = structures
          /\ fromMemory' = Append(fromMemory, [op |-> PageThere, pcb |-> r])
      BY <1>11 DEF MemoryLoadPage, PageFault, PageThere, m, r
    <2>2. m.op # "END_STRUCTURES" /\ m.op # InitRequest
      BY <2>1 DEF InitRequest, PageFault
    <2>3. Ending' = Ending
      BY <1>3, <1>4, <2>2 DEF Ending
    <2>4. r \in FramesDue /\ FramesDue' \subseteq FramesDue
      BY <1>1, <1>2, <1>3, <1>4, <2>1, <2>3 DEF FramesDue
    <2>5. Held'
      BY <1>5, <2>1, <2>3, <2>4 DEF MemoryInv, Held
    <2>6. OneFault'
      <3> DEFINE a == [op |-> PageThere, pcb |-> r]
      <3>1. a \in MemoryAnswer /\ a.op = PageThere
        BY <1>2 DEF MemoryAnswer, PageThere
      <3> HIDE DEF a
      <3>2. fromMemory' = Append(fromMemory, a)
        BY <2>1 DEF a
      <3> QED
        BY <1>1, <1>2, <1>6, <2>1, <3>1, <3>2, AppendMessage DEF MemoryInv, OneFault
    <2>7. RoomForStructures' /\ RoomForFrames'
      BY <1>1, <1>6, <2>1, <2>2, RoomKept DEF m
    <2>8. MemoryBounded'
      <3>1. loaded \ EndedBefore(1) = loaded /\ toMemory[1].pcb = r
        BY <1>7 DEF m, r
      <3>2. Cardinality(loaded') <= Grado
        BY <1>7, <2>1, <3>1 DEF MemoryInv, RoomForFrames
      <3> QED
        BY <2>1, <3>2 DEF MemoryInv, MemoryBounded
    <2> QED
      BY <1>9, <2>4, <2>5, <2>6, <2>7, <2>8 DEF MemoryInv
  <1>12. CASE MemoryEnd
    <2>1. /\ m.op = "END_STRUCTURES" /\ UNCHANGED fromMemory
          /\ structures' = structures \ {r} /\ loaded' = loaded \ {r}
      BY <1>12 DEF MemoryEnd, m, r
    <2>2. Ending \subseteq Ending' \cup {r}
      BY <1>3, <1>4 DEF Ending
    <2>3. FramesDue' \subseteq FramesDue
      BY <1>1, <1>3, <2>1, <2>2 DEF FramesDue
    <2>4. Held'
      BY <1>5, <2>1, <2>2, <2>3 DEF MemoryInv, Held
    <2>5. OneFault'
      BY <1>1, <1>6, <2>1 DEF MemoryInv, OneFault
    <2>6. RoomForStructures' /\ RoomForFrames'
      BY <1>1, <2>1, RoomKept DEF m, r
    <2>7. MemoryBounded'
      <3>1. /\ Cardinality(structures') <= Cardinality(structures)
            /\ Cardinality(loaded') <= Cardinality(loaded)
            /\ Cardinality(structures') \in Nat /\ Cardinality(loaded') \in Nat
        BY <1>2, <2>1, Processes
      <3> QED
        BY <1>8, <3>1, GradoAssumption DEF MemoryInv, MemoryBounded
    <2> QED
      BY <1>9, <2>3, <2>4, <2>5, <2>6, <2>7 DEF MemoryInv
  <1> QED
    BY <1>10, <1>11, <1>12 DEF Memory

-----------------------------------------------------------------------------
LEMMA MemoryNext ==
    ASSUME TypeOK, TypeOK', PlaceInv, AdmissionInv, GradeAccounted, MemoryInv, Next
    PROVE  MemoryInv'
  BY ConsoleThreadMemory, PageFaultMemory, RestMemory, DeviceMemory, SchedulerMemory,
     DispatchMemory, ManageMemoryMemory, MemoryMemory DEF Next

LEMMA MemoryFirst == Init => MemoryInv
  <1> SUFFICES ASSUME Init PROVE MemoryInv
    OBVIOUS
  <1>1. /\ structures = {} /\ loaded = {} /\ resolving = {}
        /\ toMemory = <<>> /\ fromMemory = <<>>
    BY DEF Init, KernelInit
  <1>2. Elements(toMemory) = {} /\ DOMAIN toMemory = {} /\ Elements(fromMemory) = {}
        /\ DOMAIN fromMemory = {}
    BY <1>1 DEF Elements
  <1>3. FramesDue = {}
    BY <1>1, <1>2 DEF FramesDue
  <1>4. Held /\ OneFault /\ RoomForStructures /\ RoomForFrames
    BY <1>1, <1>2, <1>3 DEF Held, OneFault, Once, Sent, RoomForStructures, RoomForFrames
  <1>5. MemoryBounded /\ Cardinality(FramesDue) <= Grado
    BY <1>1, <1>3, FS_EmptySet, GradoAssumption DEF MemoryBounded
  <1> QED
    BY <1>4, <1>5 DEF MemoryInv

(* For every degree and number of processes: although the place of a       *)
(* process is given away before the memory is told of its end, the page    *)
(* tables of one process too many are in the memory at most, and no more   *)
(* than Grado processes own frames.                                        *)
THEOREM MemoryIsBounded == Spec => []MemoryBounded
  <1>1. TypeOK /\ TypeOK' /\ PlaceInv /\ AdmissionInv /\ GradeAccounted /\ MemoryInv
          /\ [Next]_vars => MemoryInv'
    <2>1. ASSUME MemoryInv, UNCHANGED vars PROVE MemoryInv'
      BY <2>1 DEF vars, kernelVars, peerVars, MemoryInv, MemoryBounded, FramesDue, Held,
         OneFault, RoomForStructures, RoomForFrames, Ending, EndedBefore, Inside, Leaving,
         Entering, InitThreads
    <2> QED
      BY <2>1, MemoryNext
  <1>2. MemoryInv => MemoryBounded
    BY DEF MemoryInv
  <1> QED
    BY <1>1, <1>2, MemoryFirst, TypeCorrect, PlaceAlways, AdmissionAlways,
       DegreeIsAccounted, PTL DEF Spec

=============================================================================
