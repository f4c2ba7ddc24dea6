--------------------------- MODULE GeckPlaceProofs ---------------------------
(***************************************************************************)
(* No PCB is lost and none is doubled, for every instance.                 *)
(*                                                                         *)
(* OneCopy counts positions, and every step that takes the head of a queue *)
(* moves all the positions behind it.  PlaceInv speaks of places instead:  *)
(* a list, a connection, a thread.  A process that was created is at       *)
(* exactly one place, the place says what its status is, and no queue      *)
(* holds it twice.  Each action then is a move from one place to another.  *)
(***************************************************************************)
EXTENDS GeckSafetyProofs

Queue == {"NEW", "READY", "READY_RR", "READY_FIFO", "EXIT"}

Place == Queue \cup {"cpu", "dispatch", "resolving", "queue", "serving",
                     "toMemory", "fromMemory", "toConsole", "fromConsole"}

PageRequest(p) == [op |-> "REQUEST_PAGE_FAULT", pcb |-> p]
PageAnswer(p)  == [op |-> "RESPONSE_PAGE_FAULT", pcb |-> p]
EndRequest(p)  == [op |-> "END_STRUCTURES", pcb |-> p]

At(p, x) ==
    \/ x \in Queue         /\ p \in Elements(list[x])
    \/ x = "cpu"           /\ HasCpu(p)
    \/ x = "dispatch"      /\ dispatch.pcb = p
    \/ x = "resolving"     /\ p \in resolving
    \/ x = "queue"         /\ \E d \in Device : p \in Elements(queue[d])
    \/ x = "serving"       /\ \E d \in Device : serving[d] = p
    \/ x = "toMemory"      /\ PageRequest(p) \in Elements(toMemory)
    \/ x = "fromMemory"    /\ PageAnswer(p) \in Elements(fromMemory)
    \/ x = "toConsole"     /\ "IO_REQUEST" \in Elements(toConsole[p])
    \/ x = "fromConsole"   /\ "IO_RESPONSE" \in Elements(fromConsole[p])

Where == [p \in Process |-> {x \in Place : At(p, x)}]

(* What status says of a PCB at a place: "RUNNING" from the moment it is   *)
(* sent to the CPU until some thread takes charge of it again.             *)
StatusAt(x) ==
    CASE x \in {"NEW", "EXIT"} -> x
      [] x \in {"READY", "READY_RR", "READY_FIFO"} -> "READY"
      [] x \in {"cpu", "resolving"} -> "RUNNING"
      [] x = "dispatch" -> IF Ends(dispatch.op) THEN "EXIT" ELSE "RUNNING"
      [] OTHER -> "BLOCKED"

Located ==
    \A p \in Process :
        \/ status[p] = "none" /\ Where[p] = {}
        \/ \E x \in Place : Where[p] = {x} /\ status[p] = StatusAt(x)

Attends(d, p) == p \in Elements(queue[d]) \/ serving[d] = p

OneDevice ==
    \A p \in Process : \A d, e \in Device : Attends(d, p) /\ Attends(e, p) => d = e

NoDoubles ==
    /\ \A l \in Queue : NoRepeats(list[l])
    /\ \A d \in Device : NoRepeats(queue[d])
    /\ NoRepeats(toMemory) /\ NoRepeats(fromMemory)
    /\ \A p \in Process : NoRepeats(toConsole[p]) /\ NoRepeats(fromConsole[p])

(* What the messages that are sent once per process say of it.             *)
SentOnce ==
    \A p \in Process :
        /\ console[p] = "new" => status[p] = "none" /\ fromConsole[p] = <<>>
        /\ "INIT_PROCESS" \in Elements(fromConsole[p]) => status[p] = "none"
        /\ "CLOSED" \in Elements(fromConsole[p]) => console[p] = "ended"
        /\ "END_CONSOLE" \in Elements(toConsole[p]) => p \in Elements(list["EXIT"])
        /\ EndRequest(p) \in Elements(toMemory) => p \in Elements(list["EXIT"])

PlaceInv == Located /\ OneDevice /\ NoDoubles /\ SentOnce

-----------------------------------------------------------------------------
(* Moves.                                                                  *)

(* A process at a place is nowhere else.                                   *)
LEMMA OnlyThere ==
    ASSUME Located, NEW p \in Process, NEW x \in Place, At(p, x)
    PROVE  /\ Where[p] = {x} /\ status[p] = StatusAt(x)
           /\ \A y \in Place : At(p, y) => y = x
  <1>1. x \in Where[p]
    BY DEF Where
  <1>2. Where[p] = {x} /\ status[p] = StatusAt(x)
    BY <1>1 DEF Located
  <1> QED
    BY <1>2 DEF Where

LEMMA NotCreated ==
    ASSUME Located, NEW p \in Process, status[p] = "none"
    PROVE  \A x \in Place : ~At(p, x)
  <1>1. \A x \in Place : StatusAt(x) # "none"
    BY DEF StatusAt, Place, Queue
  <1>2. Where[p] = {}
    BY <1>1 DEF Located
  <1> QED
    BY <1>2 DEF Where

(* Only p goes to another place, and its status with it.                   *)
LEMMA Relocated ==
    ASSUME Located, NEW p \in Process, NEW b \in Place,
           \A q \in Process : \A x \in Place :
               At(q, x)' <=> IF q = p THEN x = b ELSE At(q, x),
           \A q \in Process \ {p} : status'[q] = status[q],
           UNCHANGED dispatch \/ \A q \in Process \ {p} : ~At(q, "dispatch"),
           status'[p] = StatusAt(b)'
    PROVE  Located'
  <1>1. Where' = [q \in Process |-> {x \in Place : At(q, x)'}]
    BY DEF Where
  <1>2. Where'[p] = {b}
    BY <1>1
  <1>3. ASSUME NEW q \in Process \ {p} PROVE Where'[q] = Where[q]
    BY <1>1 DEF Where
  <1>4. ASSUME NEW q \in Process \ {p}, NEW x \in Where[q]
        PROVE  StatusAt(x)' = StatusAt(x)
    BY DEF StatusAt, Where
  <1> QED
    BY <1>2, <1>3, <1>4 DEF Located

(* Only p goes, from one place to another, and its status with it.         *)
LEMMA Moved ==
    ASSUME Located, NEW p \in Process, NEW a \in Place, NEW b \in Place,
           a # b, At(p, a),
           \A q \in Process : \A x \in Place \ {a, b} : At(q, x)' <=> At(q, x),
           \A q \in Process : At(q, a)' <=> q # p /\ At(q, a),
           \A q \in Process : At(q, b)' <=> q = p \/ At(q, b),
           \A q \in Process \ {p} : status'[q] = status[q],
           UNCHANGED dispatch \/ \A q \in Process \ {p} : ~At(q, "dispatch"),
           status'[p] = StatusAt(b)'
    PROVE  /\ Located'
           /\ \A q \in Process : status[q] = "none" => status'[q] = "none"
  <1>1. \A y \in Place : At(p, y) => y = a
    BY OnlyThere
  <1>2. \A q \in Process : \A x \in Place :
            At(q, x)' <=> IF q = p THEN x = b ELSE At(q, x)
    BY <1>1
  <1>3. Located'
    BY <1>2, Relocated
  <1>4. status[p] # "none"
    <2>1. \A x \in Place : StatusAt(x) # "none"
      BY DEF StatusAt, Place, Queue
    <2> QED
      BY <2>1, OnlyThere
  <1> QED
    BY <1>3, <1>4

(* Nobody goes anywhere.                                                   *)
LEMMA Unmoved ==
    ASSUME Located, UNCHANGED <<status, dispatch>>,
           \A q \in Process : \A x \in Place : At(q, x)' <=> At(q, x)
    PROVE  Located'
  <1>1. Where' = [q \in Process |-> {x \in Place : At(q, x)'}]
    BY DEF Where
  <1>2. Where' = Where
    BY <1>1 DEF Where
  <1>3. \A x \in Place : StatusAt(x)' = StatusAt(x)
    BY DEF StatusAt
  <1> QED
    BY <1>2, <1>3 DEF Located

-----------------------------------------------------------------------------
(* What keeps the other parts of PlaceInv.                                 *)

LEMMA OneDeviceKept ==
    ASSUME OneDevice, UNCHANGED deviceVars
    PROVE  OneDevice'
  BY DEF OneDevice, Attends, deviceVars

LEMMA SentOnceKept ==
    ASSUME SentOnce, UNCHANGED <<console, consoleConnection>>,
           \A p \in Process : status[p] = "none" => status'[p] = "none",
           Elements(list["EXIT"]) \subseteq Elements(list'["EXIT"]),
           \A p \in Process : EndRequest(p) \in Elements(toMemory')
                                => EndRequest(p) \in Elements(toMemory)
    PROVE  SentOnce'
  BY DEF SentOnce, consoleConnection

(* A step that touches none of the places.                                 *)
LEMMA PlacesKept ==
    ASSUME PlaceInv,
           UNCHANGED <<pcbVars, dispatch, resolving, deviceVars, toCpu, fromCpu,
                       cpu, memoryConnection, consoleConnection, console>>
    PROVE  PlaceInv'
  <1>1. \A q \in Process : \A x \in Place : At(q, x)' <=> At(q, x)
    BY DEF At, HasCpu, pcbVars, deviceVars, memoryConnection, consoleConnection
  <1>2. Located'
    BY <1>1, Unmoved DEF PlaceInv, pcbVars
  <1>3. OneDevice' /\ SentOnce'
    BY OneDeviceKept, SentOnceKept DEF PlaceInv, pcbVars, memoryConnection
  <1>4. NoDoubles'
    BY DEF PlaceInv, NoDoubles, pcbVars, deviceVars, memoryConnection, consoleConnection
  <1> QED
    BY <1>2, <1>3, <1>4 DEF PlaceInv

-----------------------------------------------------------------------------
(* The devices.                                                            *)

LEMMA DeviceBeginPlaces ==
    ASSUME TypeOK, PlaceInv, NEW d \in Device, DeviceBegin(d), UNCHANGED peerVars
    PROVE  PlaceInv'
  <1> DEFINE p == Head(queue[d])
  <1>1. /\ UNCHANGED <<pcbVars, dispatch, resolving, toCpu, fromCpu, cpu,
                       memoryConnection, consoleConnection, console>>
        /\ serving[d] = NoProcess /\ queue[d] # <<>>
        /\ queue' = [queue EXCEPT ![d] = Tail(queue[d])]
        /\ serving' = [serving EXCEPT ![d] = p]
    BY DEF DeviceBegin, faultVars, cpuConnection, peerVars
  <1>2. queue \in [Device -> Seq(Process)] /\ serving \in [Device -> Process \cup {NoProcess}]
    BY DEF TypeOK, DeviceType
  <1>3. /\ Elements(queue[d]) = Elements(Tail(queue[d])) \cup {p}
        /\ p \notin Elements(Tail(queue[d])) /\ NoRepeats(Tail(queue[d]))
    BY <1>1, <1>2, TailElements DEF PlaceInv, NoDoubles
  <1>4. p \in Process
    BY <1>1, <1>2, HeadTail
  <1>5. At(p, "queue")
    BY <1>3, <1>4 DEF At
  <1>6. \A e \in Device : Attends(e, p) => e = d
    BY <1>3, <1>4 DEF PlaceInv, OneDevice, Attends
  <1>7. ASSUME NEW q \in Process, NEW x \in Place \ {"queue", "serving"}
        PROVE  At(q, x)' <=> At(q, x)
    BY <1>1 DEF At, HasCpu, pcbVars, memoryConnection, consoleConnection
  <1>8. ASSUME NEW q \in Process PROVE At(q, "queue")' <=> q # p /\ At(q, "queue")
    BY <1>1, <1>2, <1>3, <1>6 DEF At, Attends, Queue
  <1>9. ASSUME NEW q \in Process PROVE At(q, "serving")' <=> q = p \/ At(q, "serving")
    BY <1>1, <1>2, NoProcessAssumption DEF At, Queue
  <1>10. status'[p] = StatusAt("serving")'
    <2>1. status[p] = "BLOCKED"
      BY <1>4, <1>5, OnlyThere DEF PlaceInv, StatusAt, Place, Queue
    <2> QED
      BY <1>1, <2>1 DEF StatusAt, pcbVars
  <1>11. Located'
    <2>1. Located
      BY DEF PlaceInv
    <2>2. "queue" \in Place /\ "serving" \in Place
      BY DEF Place
    <2> QED
      BY <1>1, <1>4, <1>5, <1>7, <1>8, <1>9, <1>10, <2>1, <2>2, Moved DEF pcbVars
  <1>12. OneDevice'
    BY <1>1, <1>2, <1>3, <1>6 DEF PlaceInv, OneDevice, Attends
  <1>13. NoDoubles'
    BY <1>1, <1>2, <1>3 DEF PlaceInv, NoDoubles, pcbVars, memoryConnection, consoleConnection
  <1>14. SentOnce'
    BY <1>1, SentOnceKept DEF PlaceInv, pcbVars, memoryConnection
  <1> QED
    BY <1>11, <1>12, <1>13, <1>14 DEF PlaceInv

-----------------------------------------------------------------------------
(* A PCB joins one of the lists.                                           *)

LEMMA ListGains ==
    ASSUME TypeOK, NoDoubles, NEW p \in Process, NEW b \in Queue,
           \/ list' = [list EXCEPT ![b] = Append(@, p)]
           \/ list' = [RunningWithoutHead EXCEPT ![b] = Append(@, p)]
    PROVE  /\ \A l \in Queue : Elements(list'[l]) =
                 IF l = b THEN Elements(list[l]) \cup {p} ELSE Elements(list[l])
           /\ p \notin Elements(list[b]) => \A l \in Queue : NoRepeats(list'[l])
  <1>1. \A l \in Queue : list[l] \in Seq(Process) /\ l \in DOMAIN list
    BY DEF TypeOK, PcbType, ListName, Queue
  <1>2. /\ list'[b] = Append(list[b], p)
        /\ \A l \in Queue \ {b} : list'[l] = list[l]
    BY <1>1 DEF RunningWithoutHead, Queue
  <1>3. /\ Elements(list'[b]) = Elements(list[b]) \cup {p}
        /\ p \notin Elements(list[b]) => NoRepeats(list'[b])
    BY <1>1, <1>2, AppendElements DEF NoDoubles
  <1>4. ASSUME NEW l \in Queue \ {b}
        PROVE  Elements(list'[l]) = Elements(list[l]) /\ NoRepeats(list'[l])
    BY <1>2 DEF NoDoubles
  <1> QED
    BY <1>3, <1>4

(* The lists a PCB that is at none of them joins.                          *)
LEMMA JoinsReady ==
    ASSUME TypeOK, PlaceInv, NEW p \in Process, NEW a \in Place \ Queue, At(p, a),
           NEW b \in Queue \ {"NEW", "EXIT"},
           \/ list' = [list EXCEPT ![b] = Append(@, p)]
           \/ list' = [RunningWithoutHead EXCEPT ![b] = Append(@, p)],
           status' = [status EXCEPT ![p] = "READY"],
           \A q \in Process : \A x \in Place \ (Queue \cup {a}) :
               At(q, x)' <=> At(q, x),
           \A q \in Process : At(q, a)' <=> q # p /\ At(q, a),
           UNCHANGED dispatch \/ \A q \in Process \ {p} : ~At(q, "dispatch")
    PROVE  /\ Located'
           /\ \A q \in Process : status[q] = "none" => status'[q] = "none"
           /\ \A l \in Queue : NoRepeats(list'[l])
           /\ Elements(list'["EXIT"]) = Elements(list["EXIT"])
  <1> USE DEF PlaceInv
  <1>1. b \in Place /\ a # b /\ "EXIT" \in Queue /\ b # "EXIT"
    BY DEF Place, Queue
  <1>2. ~At(p, b)
    BY <1>1, OnlyThere
  <1>3. p \notin Elements(list[b])
    BY <1>2 DEF At
  <1>4. /\ \A l \in Queue : Elements(list'[l]) =
              IF l = b THEN Elements(list[l]) \cup {p} ELSE Elements(list[l])
        /\ \A l \in Queue : NoRepeats(list'[l])
    BY <1>3, ListGains
  <1>5. \A q \in Process : \A l \in Queue :
            (At(q, l) <=> q \in Elements(list[l])) /\ (At(q, l)' <=> q \in Elements(list'[l]))
    BY DEF At, Queue
  <1>6. \A q \in Process : \A x \in Place \ {a, b} : At(q, x)' <=> At(q, x)
    BY <1>4, <1>5
  <1>7. ASSUME NEW q \in Process PROVE At(q, b)' <=> q = p \/ At(q, b)
    <2>1. Elements(list'[b]) = Elements(list[b]) \cup {p}
      BY <1>4
    <2>2. (At(q, b) <=> q \in Elements(list[b])) /\ (At(q, b)' <=> q \in Elements(list'[b]))
      BY <1>5
    <2> QED
      BY <2>1, <2>2
  <1>8. StatusAt(b)' = "READY"
    BY DEF StatusAt, Queue
  <1>9. status'[p] = StatusAt(b)' /\ \A q \in Process \ {p} : status'[q] = status[q]
    BY <1>8 DEF TypeOK, PcbType
  <1>10. Located' /\ \A q \in Process : status[q] = "none" => status'[q] = "none"
    BY <1>1, <1>6, <1>7, <1>9, Moved
  <1> QED
    BY <1>1, <1>4, <1>10

LEMMA ReadyQueueIs == ReadyQueue \in Queue \ {"NEW", "EXIT"}
  BY DEF ReadyQueue, Queue

LEMMA DeviceFinishPlaces ==
    ASSUME TypeOK, PlaceInv, NEW d \in Device, DeviceFinish(d), UNCHANGED peerVars
    PROVE  PlaceInv'
  <1> DEFINE p == serving[d]
  <1>1. /\ UNCHANGED <<dispatch, resolving, queue, toCpu, fromCpu, cpu,
                       memoryConnection, consoleConnection, console>>
        /\ p # NoProcess
        /\ list' = [list EXCEPT ![ReadyQueue] = Append(@, p)]
        /\ status' = [status EXCEPT ![p] = "READY"]
        /\ serving' = [serving EXCEPT ![d] = NoProcess]
    BY DEF DeviceFinish, schedule_next_to, faultVars, cpuConnection, peerVars
  <1>2. queue \in [Device -> Seq(Process)] /\ serving \in [Device -> Process \cup {NoProcess}]
    BY DEF TypeOK, DeviceType
  <1>3. p \in Process
    BY <1>1, <1>2
  <1>4. At(p, "serving") /\ "serving" \in Place \ Queue
    BY <1>3 DEF At, Place, Queue
  <1>5. \A e \in Device : Attends(e, p) => e = d
    BY <1>3 DEF PlaceInv, OneDevice, Attends
  <1>6. ASSUME NEW q \in Process, NEW x \in Place \ (Queue \cup {"serving"})
        PROVE  At(q, x)' <=> At(q, x)
    BY <1>1 DEF At, HasCpu, memoryConnection, consoleConnection
  <1>7. ASSUME NEW q \in Process PROVE At(q, "serving")' <=> q # p /\ At(q, "serving")
    BY <1>1, <1>2, <1>5, NoProcessAssumption DEF At, Attends, Queue
  <1>8. /\ Located'
        /\ \A q \in Process : status[q] = "none" => status'[q] = "none"
        /\ \A l \in Queue : NoRepeats(list'[l])
        /\ Elements(list'["EXIT"]) = Elements(list["EXIT"])
    BY <1>1, <1>3, <1>4, <1>6, <1>7, ReadyQueueIs, JoinsReady
  <1>9. OneDevice'
    BY <1>1, <1>2, NoProcessAssumption DEF PlaceInv, OneDevice, Attends
  <1>10. NoDoubles'
    BY <1>1, <1>8 DEF PlaceInv, NoDoubles, memoryConnection, consoleConnection
  <1>11. SentOnce'
    BY <1>1, <1>8, SentOnceKept DEF PlaceInv, memoryConnection
  <1> QED
    BY <1>8, <1>9, <1>10, <1>11 DEF PlaceInv

-----------------------------------------------------------------------------
(* The answers.                                                            *)

(* Messages may be read.                                                   *)
LEMMA SentOnceRead ==
    ASSUME SentOnce, UNCHANGED console,
           \A p \in Process : status[p] = "none" => status'[p] = "none",
           \A p \in Process : /\ fromConsole[p] = <<>> => fromConsole'[p] = <<>>
                              /\ Elements(fromConsole'[p]) \subseteq Elements(fromConsole[p])
                              /\ Elements(toConsole'[p]) \subseteq Elements(toConsole[p]),
           Elements(list["EXIT"]) \subseteq Elements(list'["EXIT"]),
           \A p \in Process : EndRequest(p) \in Elements(toMemory')
                                => EndRequest(p) \in Elements(toMemory)
    PROVE  SentOnce'
  BY DEF SentOnce

LEMMA ReceiveIoResponsePlaces ==
    ASSUME TypeOK, PlaceInv, NEW p \in Process, ReceiveIoResponse(p), UNCHANGED peerVars
    PROVE  PlaceInv'
  <1>1. /\ UNCHANGED <<dispatch, resolving, deviceVars, toCpu, fromCpu, cpu,
                       memoryConnection, toConsole, console>>
        /\ fromConsole[p] # <<>> /\ Head(fromConsole[p]) = "IO_RESPONSE"
        /\ fromConsole' = [fromConsole EXCEPT ![p] = Tail(fromConsole[p])]
        /\ list' = [list EXCEPT ![ReadyQueue] = Append(@, p)]
        /\ status' = [status EXCEPT ![p] = "READY"]
    BY DEF ReceiveIoResponse, schedule_next_to, faultVars, cpuConnection, peerVars
  <1> DEFINE S == {"INIT_PROCESS", "IO_RESPONSE", "CLOSED"}
  <1>2. fromConsole \in [Process -> Seq(S)]
    BY DEF TypeOK, ConsoleConnectionType
  <1> HIDE DEF S
  <1>3. /\ Elements(fromConsole[p]) = Elements(Tail(fromConsole[p])) \cup {"IO_RESPONSE"}
        /\ "IO_RESPONSE" \notin Elements(Tail(fromConsole[p]))
        /\ NoRepeats(Tail(fromConsole[p]))
    BY <1>1, <1>2, TailElements DEF PlaceInv, NoDoubles
  <1>4. At(p, "fromConsole") /\ "fromConsole" \in Place \ Queue
    BY <1>3 DEF At, Place, Queue
  <1>5. ASSUME NEW q \in Process, NEW x \in Place \ (Queue \cup {"fromConsole"})
        PROVE  At(q, x)' <=> At(q, x)
    BY <1>1 DEF At, HasCpu, deviceVars, memoryConnection
  <1>6. ASSUME NEW q \in Process PROVE At(q, "fromConsole")' <=> q # p /\ At(q, "fromConsole")
    BY <1>1, <1>2, <1>3 DEF At, Queue
  <1>7. /\ Located'
        /\ \A q \in Process : status[q] = "none" => status'[q] = "none"
        /\ \A l \in Queue : NoRepeats(list'[l])
        /\ Elements(list'["EXIT"]) = Elements(list["EXIT"])
    BY <1>1, <1>4, <1>5, <1>6, ReadyQueueIs, JoinsReady
  <1>8. OneDevice'
    BY <1>1, OneDeviceKept DEF PlaceInv
  <1>9. NoDoubles'
    BY <1>1, <1>2, <1>3, <1>7 DEF PlaceInv, NoDoubles, deviceVars, memoryConnection
  <1>10. SentOnce'
    BY <1>1, <1>2, <1>3, <1>7, SentOnceRead DEF PlaceInv, memoryConnection
  <1> QED
    BY <1>7, <1>8, <1>9, <1>10 DEF PlaceInv

LEMMA ReceivePageFaultResponsePlaces ==
    ASSUME TypeOK, PlaceInv, ReceivePageFaultResponse, UNCHANGED peerVars
    PROVE  PlaceInv'
  <1> DEFINE p == Head(fromMemory).pcb
  <1>1. /\ UNCHANGED <<dispatch, resolving, deviceVars, toCpu, fromCpu, cpu,
                       toMemory, consoleConnection, console>>
        /\ fromMemory # <<>> /\ Head(fromMemory).op = "RESPONSE_PAGE_FAULT"
        /\ fromMemory' = Tail(fromMemory)
        /\ list' = [list EXCEPT ![ReadyQueue] = Append(@, p)]
        /\ status' = [status EXCEPT ![p] = "READY"]
    BY DEF ReceivePageFaultResponse, schedule_next_to, cpuConnection, peerVars
  <1>2. fromMemory \in Seq(MemoryAnswer)
    BY DEF TypeOK, MemoryConnectionType
  <1>3. p \in Process /\ Head(fromMemory) = PageAnswer(p)
    <2>1. Head(fromMemory) \in MemoryAnswer
      BY <1>1, <1>2, HeadTail
    <2> QED
      BY <1>1, <2>1 DEF MemoryAnswer, PageAnswer
  <1> HIDE DEF p
  <1>4. /\ Elements(fromMemory) = Elements(fromMemory') \cup {PageAnswer(p)}
        /\ PageAnswer(p) \notin Elements(fromMemory')
        /\ NoRepeats(fromMemory')
    BY <1>1, <1>2, <1>3, TailElements DEF PlaceInv, NoDoubles
  <1>5. At(p, "fromMemory") /\ "fromMemory" \in Place \ Queue
    BY <1>4 DEF At, Place, Queue
  <1>6. ASSUME NEW q \in Process, NEW x \in Place \ (Queue \cup {"fromMemory"})
        PROVE  At(q, x)' <=> At(q, x)
    BY <1>1 DEF At, HasCpu, deviceVars, consoleConnection
  <1>7. ASSUME NEW q \in Process PROVE At(q, "fromMemory")' <=> q # p /\ At(q, "fromMemory")
    <2>1. PageAnswer(q) = PageAnswer(p) <=> q = p
      BY DEF PageAnswer
    <2> QED
      BY <1>4, <2>1 DEF At, Queue
  <1>8. /\ Located'
        /\ \A q \in Process : status[q] = "none" => status'[q] = "none"
        /\ \A l \in Queue : NoRepeats(list'[l])
        /\ Elements(list'["EXIT"]) = Elements(list["EXIT"])
    BY <1>1, <1>3, <1>5, <1>6, <1>7, ReadyQueueIs, JoinsReady
  <1>9. OneDevice'
    BY <1>1, OneDeviceKept DEF PlaceInv
  <1>10. NoDoubles'
    BY <1>1, <1>4, <1>8 DEF PlaceInv, NoDoubles, deviceVars, consoleConnection
  <1>11. SentOnce'
    BY <1>1, <1>8, SentOnceKept DEF PlaceInv
  <1> QED
    BY <1>8, <1>9, <1>10, <1>11 DEF PlaceInv

-----------------------------------------------------------------------------
(* manage_dispatch.                                                        *)

(* What the dispatch thread handles is nowhere else, and it is alone.      *)
LEMMA Dispatched ==
    ASSUME TypeOK, Located, dispatch.op # "none"
    PROVE  /\ dispatch.pcb \in Process /\ At(dispatch.pcb, "dispatch")
           /\ "dispatch" \in Place \ Queue
           /\ \A q \in Process : At(q, "dispatch") <=> q = dispatch.pcb
           /\ status[dispatch.pcb] = IF Ends(dispatch.op) THEN "EXIT" ELSE "RUNNING"
           /\ \A x \in Place : At(dispatch.pcb, x) => x = "dispatch"
  <1>1. dispatch.pcb \in Process
    BY DispatchPcb DEF TypeOK
  <1>2. \A q \in Process : At(q, "dispatch") <=> q = dispatch.pcb
    BY DEF At, Queue
  <1>3. "dispatch" \in Place \ Queue
    BY DEF Place, Queue
  <1>4. /\ status[dispatch.pcb] = StatusAt("dispatch")
        /\ \A x \in Place : At(dispatch.pcb, x) => x = "dispatch"
    BY <1>1, <1>2, <1>3, OnlyThere
  <1> QED
    BY <1>1, <1>2, <1>3, <1>4 DEF StatusAt

LEMMA IdleAtNobody == dispatch' = Idle => \A q \in Process : ~At(q, "dispatch")'
  BY NoProcessAssumption DEF At, Idle, Queue

LEMMA DispatchInterruptionPlaces ==
    ASSUME TypeOK, PlaceInv, DispatchInterruption, UNCHANGED peerVars
    PROVE  PlaceInv'
  <1> DEFINE p == dispatch.pcb
  <1>1. /\ UNCHANGED <<resolving, deviceVars, toCpu, fromCpu, cpu,
                       memoryConnection, consoleConnection, console>>
        /\ dispatch.op = "EXECUTE_INTERRUPTION" /\ dispatch' = Idle
        /\ list' = [RunningWithoutHead EXCEPT ![PreemptedQueue] = Append(@, p)]
        /\ status' = [status EXCEPT ![p] = "READY"]
    BY DEF DispatchInterruption, faultVars, cpuConnection, peerVars
  <1>2. /\ p \in Process /\ At(p, "dispatch") /\ "dispatch" \in Place \ Queue
        /\ \A q \in Process : At(q, "dispatch") <=> q = p
    BY <1>1, Dispatched DEF PlaceInv
  <1>3. ASSUME NEW q \in Process, NEW x \in Place \ (Queue \cup {"dispatch"})
        PROVE  At(q, x)' <=> At(q, x)
    BY <1>1 DEF At, HasCpu, deviceVars, memoryConnection, consoleConnection
  <1>4. ASSUME NEW q \in Process PROVE At(q, "dispatch")' <=> q # p /\ At(q, "dispatch")
    BY <1>1, <1>2, IdleAtNobody
  <1>5. PreemptedQueue \in Queue \ {"NEW", "EXIT"}
    BY DEF PreemptedQueue, Queue
  <1>6. /\ Located'
        /\ \A q \in Process : status[q] = "none" => status'[q] = "none"
        /\ \A l \in Queue : NoRepeats(list'[l])
        /\ Elements(list'["EXIT"]) = Elements(list["EXIT"])
    BY <1>1, <1>2, <1>3, <1>4, <1>5, JoinsReady
  <1>7. OneDevice'
    BY <1>1, OneDeviceKept DEF PlaceInv
  <1>8. NoDoubles'
    BY <1>1, <1>6 DEF PlaceInv, NoDoubles, deviceVars, memoryConnection, consoleConnection
  <1>9. SentOnce'
    BY <1>1, <1>6, SentOnceKept DEF PlaceInv, memoryConnection
  <1> QED
    BY <1>6, <1>7, <1>8, <1>9 DEF PlaceInv

(* list_RUNNING, which loses its head, is none of the queues.              *)
LEMMA DispatchPageFaultPlaces ==
    ASSUME TypeOK, PlaceInv, DispatchPageFault, UNCHANGED peerVars
    PROVE  PlaceInv'
  <1> DEFINE p == dispatch.pcb
  <1>1. /\ UNCHANGED <<status, deviceVars, toCpu, fromCpu, cpu,
                       memoryConnection, consoleConnection, console>>
        /\ dispatch.op = "PAGE_FAULT" /\ dispatch' = Idle
        /\ list' = RunningWithoutHead
        /\ resolving' = resolving \cup {p}
    BY DEF DispatchPageFault, cpuConnection, peerVars
  <1>2. /\ p \in Process /\ At(p, "dispatch") /\ "dispatch" \in Place
        /\ \A q \in Process : At(q, "dispatch") <=> q = p
        /\ status[p] = "RUNNING"
    BY <1>1, Dispatched DEF PlaceInv, Ends
  <1>3. \A l \in Queue : list'[l] = list[l]
    BY <1>1 DEF RunningWithoutHead, TypeOK, PcbType, ListName, Queue
  <1>4. ASSUME NEW q \in Process, NEW x \in Place \ {"dispatch", "resolving"}
        PROVE  At(q, x)' <=> At(q, x)
    BY <1>1, <1>3 DEF At, HasCpu, deviceVars, memoryConnection, consoleConnection
  <1>5. ASSUME NEW q \in Process PROVE At(q, "dispatch")' <=> q # p /\ At(q, "dispatch")
    BY <1>1, <1>2, IdleAtNobody
  <1>6. ASSUME NEW q \in Process PROVE At(q, "resolving")' <=> q = p \/ At(q, "resolving")
    BY <1>1 DEF At, Queue
  <1>7. status'[p] = StatusAt("resolving")' /\ "resolving" \in Place
    BY <1>1, <1>2 DEF StatusAt, Place
  <1>8. Located'
    <2>1. Located
      BY DEF PlaceInv
    <2> QED
      BY <1>1, <1>2, <1>4, <1>5, <1>6, <1>7, <2>1, Moved
  <1>9. OneDevice' /\ SentOnce'
    BY <1>1, <1>3, OneDeviceKept, SentOnceKept DEF PlaceInv, memoryConnection, Queue
  <1>10. NoDoubles'
    BY <1>1, <1>3 DEF PlaceInv, NoDoubles, deviceVars, memoryConnection, consoleConnection
  <1> QED
    BY <1>8, <1>9, <1>10 DEF PlaceInv

LEMMA ResolvePageFaultPlaces ==
    ASSUME TypeOK, PlaceInv, NEW p \in Process, ResolvePageFault(p), UNCHANGED peerVars
    PROVE  PlaceInv'
  <1>1. /\ UNCHANGED <<list, dispatch, deviceVars, toCpu, fromCpu, cpu,
                       fromMemory, consoleConnection, console>>
        /\ p \in resolving /\ resolving' = resolving \ {p}
        /\ status' = [status EXCEPT ![p] = "BLOCKED"]
        /\ toMemory' = Append(toMemory, PageRequest(p))
    BY DEF ResolvePageFault, cpuConnection, peerVars, PageRequest
  <1>2. toMemory \in Seq(MemoryRequest) /\ PageRequest(p) \in MemoryRequest
    BY DEF TypeOK, MemoryConnectionType, MemoryRequest, PageRequest
  <1>3. At(p, "resolving") /\ "resolving" \in Place /\ "toMemory" \in Place
    BY <1>1 DEF At, Place
  <1>4. ~At(p, "toMemory")
    BY <1>3, OnlyThere DEF PlaceInv
  <1>5. Elements(toMemory') = Elements(toMemory) \cup {PageRequest(p)} /\ NoRepeats(toMemory')
    BY <1>1, <1>2, <1>4, AppendElements DEF At, PlaceInv, NoDoubles
  <1>6. ASSUME NEW q \in Process, NEW x \in Place \ {"resolving", "toMemory"}
        PROVE  At(q, x)' <=> At(q, x)
    BY <1>1 DEF At, HasCpu, deviceVars, consoleConnection
  <1>7. ASSUME NEW q \in Process PROVE At(q, "resolving")' <=> q # p /\ At(q, "resolving")
    BY <1>1 DEF At, Queue
  <1>8. ASSUME NEW q \in Process PROVE At(q, "toMemory")' <=> q = p \/ At(q, "toMemory")
    <2>1. PageRequest(q) = PageRequest(p) <=> q = p
      BY DEF PageRequest
    <2> QED
      BY <1>5, <2>1 DEF At, Queue
  <1>9. status'[p] = StatusAt("toMemory")' /\ \A q \in Process \ {p} : status'[q] = status[q]
    BY <1>1 DEF StatusAt, TypeOK, PcbType
  <1>10. Located' /\ \A q \in Process : status[q] = "none" => status'[q] = "none"
    <2>1. Located
      BY DEF PlaceInv
    <2> QED
      BY <1>1, <1>3, <1>6, <1>7, <1>8, <1>9, <2>1, Moved
  <1>11. OneDevice'
    BY <1>1, OneDeviceKept DEF PlaceInv
  <1>12. SentOnce'
    <2>1. \A q \in Process : EndRequest(q) # PageRequest(p)
      BY DEF EndRequest, PageRequest
    <2> QED
      BY <1>1, <1>5, <1>10, <2>1, SentOnceKept DEF PlaceInv
  <1>13. NoDoubles'
    BY <1>1, <1>5 DEF PlaceInv, NoDoubles, deviceVars, consoleConnection
  <1> QED
    BY <1>10, <1>11, <1>12, <1>13 DEF PlaceInv

LEMMA DispatchIoConsolePlaces ==
    ASSUME TypeOK, PlaceInv, DispatchIoConsole, UNCHANGED peerVars
    PROVE  PlaceInv'
  <1> DEFINE p == dispatch.pcb
  <1>1. /\ UNCHANGED <<list, resolving, deviceVars, toCpu, fromCpu, cpu,
                       memoryConnection, fromConsole, console>>
        /\ dispatch.op = "IO_CONSOLE" /\ dispatch' = Idle
        /\ status' = [status EXCEPT ![p] = "BLOCKED"]
        /\ toConsole' = [toConsole EXCEPT ![p] = Append(toConsole[p], "IO_REQUEST")]
    BY DEF DispatchIoConsole, faultVars, cpuConnection, peerVars
  <1>2. /\ p \in Process /\ At(p, "dispatch")
        /\ "dispatch" \in Place /\ "toConsole" \in Place
        /\ \A q \in Process : At(q, "dispatch") <=> q = p
    BY <1>1, Dispatched DEF PlaceInv, Place
  <1> DEFINE S == {"IO_REQUEST", "END_CONSOLE"}
  <1>3. toConsole \in [Process -> Seq(S)]
    BY DEF TypeOK, ConsoleConnectionType
  <1> HIDE DEF S, p
  <1>4. "IO_REQUEST" \notin Elements(toConsole[p])
    BY <1>2, OnlyThere DEF PlaceInv, At
  <1>5. /\ Elements(toConsole'[p]) = Elements(toConsole[p]) \cup {"IO_REQUEST"}
        /\ NoRepeats(toConsole'[p])
        /\ \A q \in Process \ {p} : toConsole'[q] = toConsole[q]
    <2>1. "IO_REQUEST" \in S /\ toConsole[p] \in Seq(S)
      BY <1>2, <1>3 DEF S
    <2>2. toConsole'[p] = Append(toConsole[p], "IO_REQUEST")
      BY <1>1, <1>2, <1>3
    <2> QED
      BY <1>1, <1>2, <1>3, <1>4, <2>1, <2>2, AppendElements DEF PlaceInv, NoDoubles
  <1>6. ASSUME NEW q \in Process, NEW x \in Place \ {"dispatch", "toConsole"}
        PROVE  At(q, x)' <=> At(q, x)
    BY <1>1 DEF At, HasCpu, deviceVars, memoryConnection
  <1>7. ASSUME NEW q \in Process PROVE At(q, "dispatch")' <=> q # p /\ At(q, "dispatch")
    BY <1>1, <1>2, IdleAtNobody
  <1>8. ASSUME NEW q \in Process PROVE At(q, "toConsole")' <=> q = p \/ At(q, "toConsole")
    BY <1>5 DEF At, Queue
  <1>9. status'[p] = StatusAt("toConsole")' /\ \A q \in Process \ {p} : status'[q] = status[q]
    BY <1>1, <1>2 DEF StatusAt, TypeOK, PcbType
  <1>10. Located' /\ \A q \in Process : status[q] = "none" => status'[q] = "none"
    <2>1. Located
      BY DEF PlaceInv
    <2> QED
      BY <1>1, <1>2, <1>6, <1>7, <1>8, <1>9, <2>1, Moved
  <1>11. OneDevice'
    BY <1>1, OneDeviceKept DEF PlaceInv
  <1>12. SentOnce'
    BY <1>1, <1>5, <1>10 DEF PlaceInv, SentOnce, memoryConnection
  <1>13. NoDoubles'
    BY <1>1, <1>5 DEF PlaceInv, NoDoubles, deviceVars, memoryConnection
  <1> QED
    BY <1>10, <1>11, <1>12, <1>13 DEF PlaceInv

LEMMA DispatchIoDefaultPlaces ==
    ASSUME TypeOK, PlaceInv, DispatchIoDefault, UNCHANGED peerVars
    PROVE  PlaceInv'
  <1> DEFINE p == dispatch.pcb
             d == dispatch.op
  <1>1. /\ UNCHANGED <<resolving, serving, toCpu, fromCpu, cpu,
                       memoryConnection, consoleConnection, console>>
        /\ d \in Device /\ dispatch' = Idle
        /\ list' = [list EXCEPT !["BLOCKED"] = Append(@, p)]
        /\ status' = [status EXCEPT ![p] = "BLOCKED"]
        /\ queue' = [queue EXCEPT ![d] = Append(queue[d], p)]
    BY DEF DispatchIoDefault, schedule_next_to, faultVars, cpuConnection, peerVars
  <1>2. /\ p \in Process /\ At(p, "dispatch")
        /\ "dispatch" \in Place /\ "queue" \in Place
        /\ \A q \in Process : At(q, "dispatch") <=> q = p
    <2>1. d # "none"
      BY <1>1, DeviceAssumption
    <2> QED
      BY <2>1, Dispatched DEF PlaceInv, Place
  <1> HIDE DEF p, d
  <1>3. queue \in [Device -> Seq(Process)]
    BY DEF TypeOK, DeviceType
  <1>4. \A e \in Device : ~Attends(e, p)
    <2>1. ~At(p, "queue") /\ ~At(p, "serving")
      BY <1>2, OnlyThere DEF PlaceInv, Place
    <2> QED
      BY <2>1 DEF At, Attends, Queue
  <1>5. /\ Elements(queue'[d]) = Elements(queue[d]) \cup {p}
        /\ NoRepeats(queue'[d])
        /\ \A e \in Device \ {d} : queue'[e] = queue[e]
    <2>1. queue'[d] = Append(queue[d], p) /\ queue[d] \in Seq(Process)
      BY <1>1, <1>3
    <2> QED
      BY <1>1, <1>2, <1>3, <1>4, <2>1, AppendElements DEF PlaceInv, NoDoubles, Attends
  <1>6. \A l \in Queue : list'[l] = list[l]
    BY <1>1 DEF TypeOK, PcbType, ListName, Queue
  <1>7. ASSUME NEW q \in Process, NEW x \in Place \ {"dispatch", "queue"}
        PROVE  At(q, x)' <=> At(q, x)
    BY <1>1, <1>6 DEF At, HasCpu, memoryConnection, consoleConnection
  <1>8. ASSUME NEW q \in Process PROVE At(q, "dispatch")' <=> q # p /\ At(q, "dispatch")
    BY <1>1, <1>2, IdleAtNobody
  <1>9. ASSUME NEW q \in Process PROVE At(q, "queue")' <=> q = p \/ At(q, "queue")
    BY <1>1, <1>5 DEF At, Queue
  <1>10. status'[p] = StatusAt("queue")' /\ \A q \in Process \ {p} : status'[q] = status[q]
    BY <1>1, <1>2 DEF StatusAt, TypeOK, PcbType
  <1>11. Located' /\ \A q \in Process : status[q] = "none" => status'[q] = "none"
    <2>1. Located
      BY DEF PlaceInv
    <2> QED
      BY <1>1, <1>2, <1>7, <1>8, <1>9, <1>10, <2>1, Moved
  <1>12. OneDevice'
    BY <1>1, <1>4, <1>5 DEF PlaceInv, OneDevice, Attends
  <1>13. SentOnce'
    BY <1>1, <1>6, <1>11, SentOnceKept DEF PlaceInv, memoryConnection, Queue
  <1>14. NoDoubles'
    BY <1>1, <1>5, <1>6 DEF PlaceInv, NoDoubles, memoryConnection, consoleConnection
  <1> QED
    BY <1>11, <1>12, <1>13, <1>14 DEF PlaceInv

-----------------------------------------------------------------------------
(* The CPU and its connection: with CpuExclusive, one PCB at most.         *)

LEMMA OnlyInReturn ==
    ASSUME TypeOK, CpuExclusive, fromCpu # <<>>
    PROVE  /\ Elements(fromCpu) = {Head(fromCpu)} /\ Elements(Tail(fromCpu)) = {}
           /\ DOMAIN fromCpu = {1}
           /\ Elements(toCpu) = {} /\ cpu = NoProcess
  <1>1. /\ fromCpu \in Seq(ReturnMessage) /\ toCpu \in Seq(Process)
        /\ sem["cpu_free_to_execute"] \in Nat
    BY DEF TypeOK, CpuConnectionType, SemType, SemName
  <1>2. Len(fromCpu) = 1 /\ Len(toCpu) = 0 /\ cpu = NoProcess
    <2> DEFINE a == sem["cpu_free_to_execute"]
               b == Len(toCpu)
               c == Len(fromCpu)
               n == IF cpu = NoProcess THEN 0 ELSE 1
    <2>1. a \in Nat /\ b \in Nat /\ c \in Nat /\ c # 0
      BY <1>1
    <2>2. n \in {0, 1} /\ (n = 0 => cpu = NoProcess)
      OBVIOUS
    <2>3. a + b + c + n = 1
      BY DEF CpuExclusive
    <2> HIDE DEF n
    <2> HIDE DEF a, b, c
    <2>4. (b # 0 => b = 1 /\ c = 0 /\ n = 0) /\ (c # 0 => b = 0 /\ c = 1 /\ n = 0)
      BY <2>1, <2>2, <2>3
    <2> QED
      BY <2>1, <2>2, <2>4 DEF b, c
  <1>3. DOMAIN fromCpu = {1} /\ Head(fromCpu) = fromCpu[1]
        /\ DOMAIN Tail(fromCpu) = {} /\ DOMAIN toCpu = {}
    BY <1>1, <1>2
  <1> QED
    BY <1>2, <1>3 DEF Elements

LEMMA OnlyOnItsWay ==
    ASSUME TypeOK, CpuExclusive, toCpu # <<>>
    PROVE  /\ Elements(toCpu) = {Head(toCpu)} /\ Elements(Tail(toCpu)) = {}
           /\ DOMAIN toCpu = {1}
           /\ Elements(fromCpu) = {} /\ cpu = NoProcess
           /\ Head(toCpu) \in Process
  <1>1. /\ fromCpu \in Seq(ReturnMessage) /\ toCpu \in Seq(Process)
        /\ sem["cpu_free_to_execute"] \in Nat
    BY DEF TypeOK, CpuConnectionType, SemType, SemName
  <1>2. Len(toCpu) = 1 /\ Len(fromCpu) = 0 /\ cpu = NoProcess
    <2> DEFINE a == sem["cpu_free_to_execute"]
               b == Len(toCpu)
               c == Len(fromCpu)
               n == IF cpu = NoProcess THEN 0 ELSE 1
    <2>1. a \in Nat /\ b \in Nat /\ c \in Nat /\ b # 0
      BY <1>1
    <2>2. n \in {0, 1} /\ (n = 0 => cpu = NoProcess)
      OBVIOUS
    <2>3. a + b + c + n = 1
      BY DEF CpuExclusive
    <2> HIDE DEF n
    <2> HIDE DEF a, b, c
    <2>4. (b # 0 => b = 1 /\ c = 0 /\ n = 0) /\ (c # 0 => b = 0 /\ c = 1 /\ n = 0)
      BY <2>1, <2>2, <2>3
    <2> QED
      BY <2>1, <2>2, <2>4 DEF b, c
  <1>3. DOMAIN toCpu = {1} /\ Head(toCpu) = toCpu[1]
        /\ DOMAIN Tail(toCpu) = {} /\ DOMAIN fromCpu = {}
    BY <1>1, <1>2
  <1> QED
    BY <1>1, <1>2, <1>3 DEF Elements

LEMMA OnlyRunning ==
    ASSUME TypeOK, CpuExclusive, cpu # NoProcess
    PROVE  Elements(toCpu) = {} /\ Elements(fromCpu) = {} /\ cpu \in Process
  <1>1. /\ fromCpu \in Seq(ReturnMessage) /\ toCpu \in Seq(Process)
        /\ sem["cpu_free_to_execute"] \in Nat
    BY DEF TypeOK, CpuConnectionType, SemType, SemName
  <1>2. Len(toCpu) = 0 /\ Len(fromCpu) = 0
    BY <1>1 DEF CpuExclusive
  <1>3. DOMAIN toCpu = {} /\ DOMAIN fromCpu = {}
    BY <1>1, <1>2
  <1> QED
    BY <1>3 DEF Elements, TypeOK, CpuType

LEMMA CpuFree ==
    ASSUME TypeOK, CpuExclusive, sem["cpu_free_to_execute"] > 0
    PROVE  /\ Elements(toCpu) = {} /\ Elements(fromCpu) = {} /\ cpu = NoProcess
           /\ toCpu = <<>>
  <1>1. /\ fromCpu \in Seq(ReturnMessage) /\ toCpu \in Seq(Process)
        /\ sem["cpu_free_to_execute"] \in Nat
    BY DEF TypeOK, CpuConnectionType, SemType, SemName
  <1>2. Len(toCpu) = 0 /\ Len(fromCpu) = 0 /\ cpu = NoProcess
    BY <1>1 DEF CpuExclusive
  <1>3. DOMAIN toCpu = {} /\ DOMAIN fromCpu = {} /\ toCpu = <<>>
    BY <1>1, <1>2
  <1> QED
    BY <1>2, <1>3 DEF Elements

(* The process that ends is told of to the memory and to its console, for  *)
(* the first time: it was not in list_EXIT yet.                            *)
LEMMA DispatchEndPlaces ==
    ASSUME TypeOK, PlaceInv, DispatchEnd, UNCHANGED peerVars
    PROVE  PlaceInv'
  <1> DEFINE p == dispatch.pcb
  <1>1. /\ UNCHANGED <<status, resolving, deviceVars, toCpu, fromCpu, cpu,
                       fromMemory, fromConsole, console>>
        /\ Ends(dispatch.op) /\ dispatch' = Idle
        /\ list' = [RunningWithoutHead EXCEPT !["EXIT"] = Append(@, p)]
        /\ toMemory' = Append(toMemory, EndRequest(p))
        /\ toConsole' = [toConsole EXCEPT ![p] = Append(toConsole[p], "END_CONSOLE")]
    BY DEF DispatchEnd, faultVars, cpuConnection, peerVars, EndRequest
  <1>2. /\ p \in Process /\ At(p, "dispatch")
        /\ "dispatch" \in Place /\ "EXIT" \in Place /\ "EXIT" \in Queue
        /\ \A q \in Process : At(q, "dispatch") <=> q = p
        /\ status[p] = "EXIT"
    <2>1. dispatch.op # "none"
      BY <1>1 DEF Ends
    <2> QED
      BY <1>1, <2>1, Dispatched DEF PlaceInv, Place, Queue
  <1> DEFINE S == {"IO_REQUEST", "END_CONSOLE"}
  <1>3. /\ toConsole \in [Process -> Seq(S)]
        /\ toMemory \in Seq(MemoryRequest)
        /\ EndRequest(p) \in MemoryRequest
    BY <1>2 DEF TypeOK, ConsoleConnectionType, MemoryConnectionType,
       MemoryRequest, EndRequest
  <1> HIDE DEF S, p
  <1>4. p \notin Elements(list["EXIT"])
    BY <1>2, OnlyThere DEF PlaceInv, At
  <1>5. /\ \A l \in Queue : Elements(list'[l]) =
              IF l = "EXIT" THEN Elements(list[l]) \cup {p} ELSE Elements(list[l])
        /\ \A l \in Queue : NoRepeats(list'[l])
    BY <1>1, <1>2, <1>4, ListGains DEF PlaceInv
  <1>6. "END_CONSOLE" \notin Elements(toConsole[p]) /\ EndRequest(p) \notin Elements(toMemory)
    BY <1>2, <1>4 DEF PlaceInv, SentOnce
  <1>7. /\ Elements(toConsole'[p]) = Elements(toConsole[p]) \cup {"END_CONSOLE"}
        /\ NoRepeats(toConsole'[p])
        /\ \A q \in Process \ {p} : toConsole'[q] = toConsole[q]
    <2>1. "END_CONSOLE" \in S /\ toConsole[p] \in Seq(S)
      BY <1>2, <1>3 DEF S
    <2>2. toConsole'[p] = Append(toConsole[p], "END_CONSOLE")
      BY <1>1, <1>2, <1>3
    <2> QED
      BY <1>1, <1>2, <1>3, <1>6, <2>1, <2>2, AppendElements DEF PlaceInv, NoDoubles
  <1>8. /\ Elements(toMemory') = Elements(toMemory) \cup {EndRequest(p)}
        /\ NoRepeats(toMemory')
    BY <1>1, <1>3, <1>6, AppendElements DEF PlaceInv, NoDoubles
  <1>9. ASSUME NEW q \in Process, NEW x \in Place \ {"dispatch", "EXIT"}
        PROVE  At(q, x)' <=> At(q, x)
    <2>1. CASE x \in Queue
      BY <1>5, <1>9, <2>1 DEF At, Queue
    <2>2. CASE x = "toMemory"
      <3>1. PageRequest(q) # EndRequest(p)
        BY DEF PageRequest, EndRequest
      <3> QED
        BY <1>8, <2>2, <3>1 DEF At, Queue
    <2>3. CASE x = "toConsole"
      BY <1>7, <2>3 DEF At, Queue
    <2>4. CASE x \notin Queue \cup {"toMemory", "toConsole"}
      BY <1>1, <1>9, <2>4 DEF At, HasCpu, deviceVars
    <2> QED
      BY <2>1, <2>2, <2>3, <2>4
  <1>10. ASSUME NEW q \in Process PROVE At(q, "dispatch")' <=> q # p /\ At(q, "dispatch")
    BY <1>1, <1>2, IdleAtNobody
  <1>11. ASSUME NEW q \in Process PROVE At(q, "EXIT")' <=> q = p \/ At(q, "EXIT")
    <2>1. Elements(list'["EXIT"]) = Elements(list["EXIT"]) \cup {p}
      BY <1>2, <1>5
    <2> QED
      BY <2>1 DEF At, Queue
  <1>12. status'[p] = StatusAt("EXIT")'
    BY <1>1, <1>2 DEF StatusAt
  <1>13. Located'
    <2>1. Located
      BY DEF PlaceInv
    <2> QED
      BY <1>1, <1>2, <1>9, <1>10, <1>11, <1>12, <2>1, Moved
  <1>14. OneDevice'
    BY <1>1, OneDeviceKept DEF PlaceInv
  <1>15. SentOnce'
    <2>1. Elements(list'["EXIT"]) = Elements(list["EXIT"]) \cup {p}
      BY <1>2, <1>5
    <2>2. \A q \in Process : EndRequest(q) = EndRequest(p) => q = p
      BY DEF EndRequest
    <2> QED
      BY <1>1, <1>7, <1>8, <2>1, <2>2 DEF PlaceInv, SentOnce
  <1>16. NoDoubles'
    BY <1>1, <1>5, <1>7, <1>8 DEF PlaceInv, NoDoubles, deviceVars
  <1> QED
    BY <1>13, <1>14, <1>15, <1>16 DEF PlaceInv

(* The PCB goes from the connection to the thread; if it ends, its status  *)
(* is written here.                                                        *)
LEMMA DispatchReceivePlaces ==
    ASSUME TypeOK, CpuExclusive, PlaceInv, DispatchReceive, UNCHANGED peerVars
    PROVE  PlaceInv'
  <1> DEFINE m == Head(fromCpu)
  <1>1. /\ UNCHANGED <<list, resolving, deviceVars, toCpu, cpu,
                       memoryConnection, consoleConnection, console>>
        /\ dispatch = Idle /\ fromCpu # <<>> /\ dispatch' = m
        /\ fromCpu' = Tail(fromCpu)
        /\ status' = IF Ends(m.op) THEN [status EXCEPT ![m.pcb] = "EXIT"] ELSE status
    BY DEF DispatchReceive, faultVars, cpuConnection, peerVars
  <1>2. fromCpu \in Seq(ReturnMessage) /\ m \in ReturnMessage
    BY <1>1, HeadTail DEF TypeOK, CpuConnectionType
  <1>3. m.pcb \in Process
    BY <1>2 DEF ReturnMessage
  <1>4. /\ Elements(fromCpu) = {m} /\ Elements(fromCpu') = {}
        /\ Elements(toCpu) = {} /\ cpu = NoProcess
    BY <1>1, <1>2, OnlyInReturn
  <1> HIDE DEF m
  <1>5. ASSUME NEW q \in Process PROVE HasCpu(q) <=> q = m.pcb
    BY <1>4, NoProcessAssumption DEF HasCpu
  <1>6. ASSUME NEW q \in Process PROVE ~HasCpu(q)'
    BY <1>1, <1>4, NoProcessAssumption DEF HasCpu
  <1>7. ASSUME NEW q \in Process, NEW x \in Place \ {"cpu", "dispatch"}
        PROVE  At(q, x)' <=> At(q, x)
    BY <1>1 DEF At, deviceVars, memoryConnection, consoleConnection
  <1>8. ASSUME NEW q \in Process PROVE At(q, "cpu")' <=> q # m.pcb /\ At(q, "cpu")
    BY <1>5, <1>6 DEF At, Queue
  <1>9. ASSUME NEW q \in Process PROVE ~At(q, "dispatch")
    BY <1>1, NoProcessAssumption DEF At, Idle, Queue
  <1>10. ASSUME NEW q \in Process PROVE At(q, "dispatch")' <=> q = m.pcb \/ At(q, "dispatch")
    BY <1>1, <1>9 DEF At, Queue
  <1>11. At(m.pcb, "cpu") /\ "cpu" \in Place /\ "dispatch" \in Place
    BY <1>3, <1>5 DEF At, Place
  <1>12. status[m.pcb] = "RUNNING"
    BY <1>3, <1>11, OnlyThere DEF PlaceInv, StatusAt
  <1>13. /\ status'[m.pcb] = StatusAt("dispatch")'
         /\ \A q \in Process \ {m.pcb} : status'[q] = status[q]
    BY <1>1, <1>3, <1>12 DEF StatusAt, TypeOK, PcbType
  <1>14. Located' /\ \A q \in Process : status[q] = "none" => status'[q] = "none"
    <2>1. Located
      BY DEF PlaceInv
    <2> QED
      BY <1>3, <1>7, <1>8, <1>9, <1>10, <1>11, <1>13, <2>1, Moved
  <1>15. OneDevice'
    BY <1>1, OneDeviceKept DEF PlaceInv
  <1>16. SentOnce'
    BY <1>1, <1>14, SentOnceKept DEF PlaceInv, memoryConnection
  <1>17. NoDoubles'
    BY <1>1 DEF PlaceInv, NoDoubles, deviceVars, memoryConnection, consoleConnection
  <1> QED
    BY <1>14, <1>15, <1>16, <1>17 DEF PlaceInv

(* HasCpu does not tell where between the kernel and the CPU a PCB is.     *)
LEMMA CpuStepPlaces ==
    ASSUME PlaceInv, \A q \in Process : HasCpu(q)' <=> HasCpu(q),
           UNCHANGED <<pcbVars, dispatch, resolving, deviceVars,
                       memoryConnection, consoleConnection, console>>
    PROVE  PlaceInv'
  <1>1. \A q \in Process : \A x \in Place : At(q, x)' <=> At(q, x)
    BY DEF At, pcbVars, deviceVars, memoryConnection, consoleConnection
  <1>2. Located'
    BY <1>1, Unmoved DEF PlaceInv, pcbVars
  <1>3. OneDevice' /\ SentOnce'
    BY OneDeviceKept, SentOnceKept DEF PlaceInv, pcbVars, memoryConnection
  <1>4. NoDoubles'
    BY DEF PlaceInv, NoDoubles, pcbVars, deviceVars, memoryConnection, consoleConnection
  <1> QED
    BY <1>2, <1>3, <1>4 DEF PlaceInv

LEMMA CpuPlaces ==
    ASSUME TypeOK, CpuExclusive, PlaceInv, Cpu
    PROVE  PlaceInv'
  <1>1. CASE CpuReceive
    <2>1. /\ UNCHANGED <<pcbVars, dispatch, resolving, deviceVars, fromCpu,
                         memoryConnection, consoleConnection, console>>
          /\ toCpu # <<>> /\ toCpu' = Tail(toCpu) /\ cpu' = Head(toCpu)
      BY <1>1 DEF CpuReceive, faultVars
    <2>2. \A q \in Process : HasCpu(q)' <=> HasCpu(q)
      BY <2>1, OnlyOnItsWay, NoProcessAssumption DEF HasCpu
    <2> QED
      BY <2>1, <2>2, CpuStepPlaces
  <1>2. CASE CpuExecute
    BY <1>2, KernelUnchanged, PlacesKept DEF CpuExecute, faultVars, cpuConnection
  <1>3. CASE CpuReturn
    <2> DEFINE m == [op  |-> IF event # "none" THEN event ELSE "EXECUTE_INTERRUPTION",
                     pcb |-> cpu]
    <2>1. /\ UNCHANGED <<pcbVars, dispatch, resolving, deviceVars, toCpu,
                         memoryConnection, consoleConnection, console>>
          /\ cpu # NoProcess /\ cpu' = NoProcess /\ fromCpu' = Append(fromCpu, m)
      BY <1>3 DEF CpuReturn, faultVars
    <2>2. cpu \in Process /\ Elements(toCpu) = {} /\ Elements(fromCpu) = {}
      BY <2>1, OnlyRunning
    <2>3. m \in ReturnMessage /\ fromCpu \in Seq(ReturnMessage)
      BY <2>2 DEF ReturnMessage, ReturnOp, TypeOK, CpuType, CpuConnectionType
    <2>4. m.pcb = cpu
      OBVIOUS
    <2> HIDE DEF m
    <2>5. Elements(fromCpu') = {m}
      BY <2>1, <2>2, <2>3, AppendElements
    <2>6. \A q \in Process : HasCpu(q)' <=> HasCpu(q)
      BY <2>1, <2>2, <2>4, <2>5, NoProcessAssumption DEF HasCpu
    <2> QED
      BY <2>1, <2>6, CpuStepPlaces
  <1> QED
    BY <1>1, <1>2, <1>3 DEF Cpu

-----------------------------------------------------------------------------
(* The schedulers: the head of a queue goes.                               *)

LEMMA HeadOfQueue ==
    ASSUME TypeOK, PlaceInv, NEW a \in Queue, list[a] # <<>>
    PROVE  /\ Head(list[a]) \in Process /\ At(Head(list[a]), a)
           /\ Elements(list[a]) = Elements(Tail(list[a])) \cup {Head(list[a])}
           /\ Head(list[a]) \notin Elements(Tail(list[a])) /\ NoRepeats(Tail(list[a]))
           /\ a \in Place
  <1>1. list[a] \in Seq(Process)
    BY DEF TypeOK, PcbType, ListName, Queue
  <1> QED
    BY <1>1, HeadTail, TailElements DEF PlaceInv, NoDoubles, At, Place

LEMMA NextQueueIs == NextQueue \in Queue \ {"NEW", "EXIT"}
  BY DEF NextQueue, Queue

LEMMA ScheduleNextToRunningPlaces ==
    ASSUME TypeOK, CpuExclusive, PlaceInv, ScheduleNextToRunning, UNCHANGED peerVars
    PROVE  PlaceInv'
  <1>2. PICK a \in Queue \ {"NEW", "EXIT"} : a = NextQueue
    BY NextQueueIs
  <1> DEFINE p == Head(list[a])
  <1>1. /\ UNCHANGED <<dispatch, resolving, deviceVars, fromCpu, cpu,
                       memoryConnection, consoleConnection, console>>
        /\ sem["cpu_free_to_execute"] > 0
        /\ list[a] # <<>>
        /\ list' = [list EXCEPT ![a] = Tail(list[a]), !["RUNNING"] = Append(@, p)]
        /\ status' = [status EXCEPT ![p] = "RUNNING"]
        /\ toCpu' = Append(toCpu, p)
    BY <1>2 DEF ScheduleNextToRunning, Sem_wait, faultVars, peerVars
  <1>3. /\ p \in Process /\ At(p, a) /\ a \in Place /\ "cpu" \in Place /\ a # "cpu"
        /\ Elements(list[a]) = Elements(Tail(list[a])) \cup {p}
        /\ p \notin Elements(Tail(list[a])) /\ NoRepeats(Tail(list[a]))
    BY <1>1, <1>2, HeadOfQueue DEF Place, Queue
  <1>4. /\ list'[a] = Tail(list[a])
        /\ \A l \in Queue \ {a} : list'[l] = list[l]
    BY <1>1, <1>2 DEF TypeOK, PcbType, ListName, Queue
  <1> HIDE DEF p
  <1>5. Elements(toCpu) = {} /\ Elements(fromCpu) = {} /\ cpu = NoProcess
    BY <1>1, CpuFree
  <1>6. Elements(toCpu') = {p}
    <2>1. toCpu \in Seq(Process)
      BY DEF TypeOK, CpuConnectionType
    <2> QED
      BY <1>1, <1>3, <1>5, <2>1, AppendElements
  <1>7. ASSUME NEW q \in Process PROVE ~HasCpu(q) /\ (HasCpu(q)' <=> q = p)
    BY <1>1, <1>5, <1>6, NoProcessAssumption DEF HasCpu
  <1>8. ASSUME NEW q \in Process, NEW x \in Place \ {a, "cpu"}
        PROVE  At(q, x)' <=> At(q, x)
    BY <1>1, <1>2, <1>4 DEF At, deviceVars, memoryConnection, consoleConnection
  <1>9. ASSUME NEW q \in Process PROVE At(q, a)' <=> q # p /\ At(q, a)
    BY <1>2, <1>3, <1>4 DEF At, Queue
  <1>10. ASSUME NEW q \in Process PROVE At(q, "cpu")' <=> q = p \/ At(q, "cpu")
    BY <1>7 DEF At, Queue
  <1>11. status'[p] = StatusAt("cpu")' /\ \A q \in Process \ {p} : status'[q] = status[q]
    BY <1>1, <1>3 DEF StatusAt, TypeOK, PcbType
  <1>12. Located' /\ \A q \in Process : status[q] = "none" => status'[q] = "none"
    <2>1. Located
      BY DEF PlaceInv
    <2> QED
      BY <1>1, <1>3, <1>8, <1>9, <1>10, <1>11, <2>1, Moved
  <1>13. OneDevice'
    BY <1>1, OneDeviceKept DEF PlaceInv
  <1>14. SentOnce'
    <2>1. list'["EXIT"] = list["EXIT"]
      BY <1>2, <1>4 DEF Queue
    <2> QED
      BY <1>1, <1>12, <2>1, SentOnceKept DEF PlaceInv, memoryConnection
  <1>15. NoDoubles'
    BY <1>1, <1>3, <1>4 DEF PlaceInv, NoDoubles, deviceVars, memoryConnection, consoleConnection
  <1> QED
    BY <1>12, <1>13, <1>14, <1>15 DEF PlaceInv

LEMMA ScheduleNextToReadyPlaces ==
    ASSUME TypeOK, PlaceInv, NEW c \in Process, ScheduleNextToReady(c), UNCHANGED peerVars
    PROVE  PlaceInv'
  <1> DEFINE b == ReadyQueue
             p == Head(list["NEW"])
  <1>1. /\ UNCHANGED <<dispatch, resolving, deviceVars, toCpu, fromCpu, cpu,
                       memoryConnection, consoleConnection, console>>
        /\ list["NEW"] # <<>>
        /\ list' = [list EXCEPT !["NEW"] = Tail(list["NEW"]), ![b] = Append(@, p)]
        /\ status' = [status EXCEPT ![p] = "READY"]
    BY DEF ScheduleNextToReady, faultVars, cpuConnection, peerVars
  <1>2. b \in Queue \ {"NEW", "EXIT"} /\ "NEW" \in Queue /\ b \in Place /\ "NEW" \in Place
    BY ReadyQueueIs DEF Queue, Place
  <1> HIDE DEF b
  <1>3. /\ p \in Process /\ At(p, "NEW")
        /\ Elements(list["NEW"]) = Elements(Tail(list["NEW"])) \cup {p}
        /\ p \notin Elements(Tail(list["NEW"])) /\ NoRepeats(Tail(list["NEW"]))
    BY <1>1, <1>2, HeadOfQueue
  <1> HIDE DEF p
  <1>4. p \notin Elements(list[b])
    <2>1. ~At(p, b)
      BY <1>2, <1>3, OnlyThere DEF PlaceInv
    <2> QED
      BY <1>2, <2>1 DEF At
  <1>5. /\ list'["NEW"] = Tail(list["NEW"])
        /\ list'[b] = Append(list[b], p) /\ list[b] \in Seq(Process)
        /\ \A l \in Queue \ {"NEW", b} : list'[l] = list[l]
    BY <1>1, <1>2 DEF TypeOK, PcbType, ListName, Queue
  <1>6. Elements(list'[b]) = Elements(list[b]) \cup {p} /\ NoRepeats(list'[b])
    BY <1>2, <1>3, <1>4, <1>5, AppendElements DEF PlaceInv, NoDoubles
  <1>7. ASSUME NEW q \in Process, NEW x \in Place \ {"NEW", b}
        PROVE  At(q, x)' <=> At(q, x)
    BY <1>1, <1>5 DEF At, HasCpu, deviceVars, memoryConnection, consoleConnection
  <1>8. ASSUME NEW q \in Process PROVE At(q, "NEW")' <=> q # p /\ At(q, "NEW")
    BY <1>3, <1>5 DEF At, Queue
  <1>9. ASSUME NEW q \in Process PROVE At(q, b)' <=> q = p \/ At(q, b)
    BY <1>2, <1>6 DEF At, Queue
  <1>10. status'[p] = StatusAt(b)' /\ \A q \in Process \ {p} : status'[q] = status[q]
    <2>1. StatusAt(b)' = "READY"
      BY <1>2 DEF StatusAt, Queue
    <2> QED
      BY <1>1, <1>3, <2>1 DEF TypeOK, PcbType
  <1>11. Located' /\ \A q \in Process : status[q] = "none" => status'[q] = "none"
    <2>1. Located
      BY DEF PlaceInv
    <2> QED
      BY <1>1, <1>2, <1>3, <1>7, <1>8, <1>9, <1>10, <2>1, Moved
  <1>12. OneDevice'
    BY <1>1, OneDeviceKept DEF PlaceInv
  <1>13. SentOnce'
    <2>1. list'["EXIT"] = list["EXIT"]
      BY <1>2, <1>5 DEF Queue
    <2> QED
      BY <1>1, <1>11, <2>1, SentOnceKept DEF PlaceInv, memoryConnection
  <1>14. NoDoubles'
    BY <1>1, <1>3, <1>5, <1>6 DEF PlaceInv, NoDoubles, deviceVars, memoryConnection, consoleConnection
  <1> QED
    BY <1>11, <1>12, <1>13, <1>14 DEF PlaceInv

-----------------------------------------------------------------------------
(* The consoles and their threads.                                         *)

(* The messages of a console that has just been told, or read, something.  *)
LEMMA ConsoleReads ==
    ASSUME TypeOK, PlaceInv, NEW p \in Process, fromConsole[p] # <<>>,
           fromConsole' = [fromConsole EXCEPT ![p] = Tail(fromConsole[p])]
    PROVE  /\ Elements(fromConsole[p]) = Elements(fromConsole'[p]) \cup {Head(fromConsole[p])}
           /\ Head(fromConsole[p]) \notin Elements(fromConsole'[p])
           /\ \A q \in Process \ {p} : fromConsole'[q] = fromConsole[q]
           /\ \A q \in Process : NoRepeats(fromConsole'[q])
  <1> DEFINE S == {"INIT_PROCESS", "IO_RESPONSE", "CLOSED"}
  <1>1. fromConsole \in [Process -> Seq(S)]
    BY DEF TypeOK, ConsoleConnectionType
  <1> HIDE DEF S
  <1>2. fromConsole[p] \in Seq(S) /\ fromConsole'[p] = Tail(fromConsole[p])
        /\ \A q \in Process \ {p} : fromConsole'[q] = fromConsole[q]
    BY <1>1
  <1>3. /\ Elements(fromConsole[p]) = Elements(fromConsole'[p]) \cup {Head(fromConsole[p])}
        /\ Head(fromConsole[p]) \notin Elements(fromConsole'[p])
        /\ NoRepeats(fromConsole'[p])
    BY <1>2, TailElements DEF PlaceInv, NoDoubles
  <1> QED
    BY <1>2, <1>3 DEF PlaceInv, NoDoubles

LEMMA ConsoleIsRead ==
    ASSUME TypeOK, PlaceInv, NEW p \in Process, toConsole[p] # <<>>,
           toConsole' = [toConsole EXCEPT ![p] = Tail(toConsole[p])]
    PROVE  /\ Elements(toConsole[p]) = Elements(toConsole'[p]) \cup {Head(toConsole[p])}
           /\ Head(toConsole[p]) \notin Elements(toConsole'[p])
           /\ \A q \in Process \ {p} : toConsole'[q] = toConsole[q]
           /\ \A q \in Process : NoRepeats(toConsole'[q])
  <1> DEFINE S == {"IO_REQUEST", "END_CONSOLE"}
  <1>1. toConsole \in [Process -> Seq(S)]
    BY DEF TypeOK, ConsoleConnectionType
  <1> HIDE DEF S
  <1>2. toConsole[p] \in Seq(S) /\ toConsole'[p] = Tail(toConsole[p])
        /\ \A q \in Process \ {p} : toConsole'[q] = toConsole[q]
    BY <1>1
  <1>3. /\ Elements(toConsole[p]) = Elements(toConsole'[p]) \cup {Head(toConsole[p])}
        /\ Head(toConsole[p]) \notin Elements(toConsole'[p])
        /\ NoRepeats(toConsole'[p])
    BY <1>2, TailElements DEF PlaceInv, NoDoubles
  <1> QED
    BY <1>2, <1>3 DEF PlaceInv, NoDoubles

LEMMA ConsoleWrites ==
    ASSUME TypeOK, PlaceInv, NEW p \in Process,
           NEW m \in {"INIT_PROCESS", "IO_RESPONSE", "CLOSED"},
           m \notin Elements(fromConsole[p]),
           fromConsole' = [fromConsole EXCEPT ![p] = Append(fromConsole[p], m)]
    PROVE  /\ Elements(fromConsole'[p]) = Elements(fromConsole[p]) \cup {m}
           /\ \A q \in Process \ {p} : fromConsole'[q] = fromConsole[q]
           /\ \A q \in Process : NoRepeats(fromConsole'[q])
  <1> DEFINE S == {"INIT_PROCESS", "IO_RESPONSE", "CLOSED"}
  <1>1. fromConsole \in [Process -> Seq(S)] /\ m \in S
    BY DEF TypeOK, ConsoleConnectionType
  <1> HIDE DEF S
  <1>2. fromConsole[p] \in Seq(S) /\ fromConsole'[p] = Append(fromConsole[p], m)
        /\ \A q \in Process \ {p} : fromConsole'[q] = fromConsole[q]
    BY <1>1
  <1>3. /\ Elements(fromConsole'[p]) = Elements(fromConsole[p]) \cup {m}
        /\ NoRepeats(fromConsole'[p])
    BY <1>1, <1>2, AppendElements DEF PlaceInv, NoDoubles
  <1> QED
    BY <1>2, <1>3 DEF PlaceInv, NoDoubles

LEMMA ConsoleStartPlaces ==
    ASSUME TypeOK, PlaceInv, NEW p \in Process, ConsoleStart(p)
    PROVE  PlaceInv'
  <1>1. /\ UNCHANGED <<pcbVars, dispatch, resolving, deviceVars, toCpu, fromCpu, cpu,
                       memoryConnection, toConsole>>
        /\ console[p] = "new"
        /\ console' = [console EXCEPT ![p] = "waiting"]
        /\ fromConsole' = [fromConsole EXCEPT ![p] = Append(fromConsole[p], "INIT_PROCESS")]
    BY DEF ConsoleStart, faultVars, cpuConnection, cpuVars
  <1>2. status[p] = "none" /\ Elements(fromConsole[p]) = {}
    BY <1>1 DEF PlaceInv, SentOnce, Elements
  <1>3. /\ Elements(fromConsole'[p]) = {"INIT_PROCESS"}
        /\ \A q \in Process \ {p} : fromConsole'[q] = fromConsole[q]
        /\ \A q \in Process : NoRepeats(fromConsole'[q])
    BY <1>1, <1>2, ConsoleWrites
  <1>4. ASSUME NEW q \in Process, NEW x \in Place PROVE At(q, x)' <=> At(q, x)
    BY <1>1, <1>2, <1>3 DEF At, HasCpu, pcbVars, deviceVars, memoryConnection
  <1>5. Located' /\ OneDevice'
    BY <1>1, <1>4, Unmoved, OneDeviceKept DEF PlaceInv, pcbVars
  <1>6. NoDoubles'
    BY <1>1, <1>3 DEF PlaceInv, NoDoubles, pcbVars, deviceVars, memoryConnection
  <1>7. SentOnce'
    <2>1. console'[p] = "waiting" /\ \A q \in Process \ {p} : console'[q] = console[q]
      BY <1>1 DEF TypeOK, ConsoleType
    <2> QED
      BY <1>1, <1>2, <1>3, <2>1 DEF PlaceInv, SentOnce, pcbVars, memoryConnection
  <1> QED
    BY <1>5, <1>6, <1>7 DEF PlaceInv

LEMMA ConsoleAnswerPlaces ==
    ASSUME TypeOK, PlaceInv, NEW p \in Process, ConsoleAnswer(p)
    PROVE  PlaceInv'
  <1>1. /\ UNCHANGED <<pcbVars, dispatch, resolving, deviceVars, toCpu, fromCpu, cpu,
                       memoryConnection, console>>
        /\ console[p] = "waiting"
        /\ toConsole[p] # <<>> /\ Head(toConsole[p]) = "IO_REQUEST"
        /\ toConsole' = [toConsole EXCEPT ![p] = Tail(toConsole[p])]
        /\ fromConsole' = [fromConsole EXCEPT ![p] = Append(fromConsole[p], "IO_RESPONSE")]
    BY DEF ConsoleAnswer, faultVars, cpuConnection, cpuVars
  <1>2. /\ Elements(toConsole[p]) = Elements(toConsole'[p]) \cup {"IO_REQUEST"}
        /\ "IO_REQUEST" \notin Elements(toConsole'[p])
        /\ \A q \in Process \ {p} : toConsole'[q] = toConsole[q]
        /\ \A q \in Process : NoRepeats(toConsole'[q])
    BY <1>1, ConsoleIsRead
  <1>3. At(p, "toConsole") /\ "toConsole" \in Place /\ "fromConsole" \in Place
    BY <1>2 DEF At, Place
  <1>4. "IO_RESPONSE" \notin Elements(fromConsole[p])
    <2>1. ~At(p, "fromConsole")
      BY <1>3, OnlyThere DEF PlaceInv
    <2> QED
      BY <2>1 DEF At
  <1>5. /\ Elements(fromConsole'[p]) = Elements(fromConsole[p]) \cup {"IO_RESPONSE"}
        /\ \A q \in Process \ {p} : fromConsole'[q] = fromConsole[q]
        /\ \A q \in Process : NoRepeats(fromConsole'[q])
    BY <1>1, <1>4, ConsoleWrites
  <1>6. ASSUME NEW q \in Process, NEW x \in Place \ {"toConsole", "fromConsole"}
        PROVE  At(q, x)' <=> At(q, x)
    BY <1>1 DEF At, HasCpu, pcbVars, deviceVars, memoryConnection
  <1>7. ASSUME NEW q \in Process PROVE At(q, "toConsole")' <=> q # p /\ At(q, "toConsole")
    BY <1>2 DEF At, Queue
  <1>8. ASSUME NEW q \in Process PROVE At(q, "fromConsole")' <=> q = p \/ At(q, "fromConsole")
    BY <1>5 DEF At, Queue
  <1>9. status'[p] = StatusAt("fromConsole")'
    <2>1. status[p] = "BLOCKED"
      BY <1>3, OnlyThere DEF PlaceInv, StatusAt
    <2> QED
      BY <1>1, <2>1 DEF StatusAt, pcbVars
  <1>10. Located'
    <2>1. Located
      BY DEF PlaceInv
    <2> QED
      BY <1>1, <1>3, <1>6, <1>7, <1>8, <1>9, <2>1, Moved DEF pcbVars
  <1>11. OneDevice'
    BY <1>1, OneDeviceKept DEF PlaceInv
  <1>12. NoDoubles'
    BY <1>1, <1>2, <1>5 DEF PlaceInv, NoDoubles, pcbVars, deviceVars, memoryConnection
  <1>13. SentOnce'
    BY <1>1, <1>2, <1>5 DEF PlaceInv, SentOnce, pcbVars, memoryConnection
  <1> QED
    BY <1>10, <1>11, <1>12, <1>13 DEF PlaceInv

LEMMA ConsoleEndPlaces ==
    ASSUME TypeOK, PlaceInv, NEW p \in Process, ConsoleEnd(p)
    PROVE  PlaceInv'
  <1>1. /\ UNCHANGED <<pcbVars, dispatch, resolving, deviceVars, toCpu, fromCpu, cpu,
                       memoryConnection>>
        /\ console[p] = "waiting"
        /\ console' = [console EXCEPT ![p] = "ended"]
        /\ toConsole[p] # <<>> /\ Head(toConsole[p]) = "END_CONSOLE"
        /\ toConsole' = [toConsole EXCEPT ![p] = Tail(toConsole[p])]
        /\ fromConsole' = [fromConsole EXCEPT ![p] = Append(fromConsole[p], "CLOSED")]
    BY DEF ConsoleEnd, faultVars, cpuConnection, cpuVars
  <1>2. /\ Elements(toConsole[p]) = Elements(toConsole'[p]) \cup {"END_CONSOLE"}
        /\ \A q \in Process \ {p} : toConsole'[q] = toConsole[q]
        /\ \A q \in Process : NoRepeats(toConsole'[q])
    BY <1>1, ConsoleIsRead
  <1>3. "CLOSED" \notin Elements(fromConsole[p])
    BY <1>1 DEF PlaceInv, SentOnce
  <1>4. /\ Elements(fromConsole'[p]) = Elements(fromConsole[p]) \cup {"CLOSED"}
        /\ \A q \in Process \ {p} : fromConsole'[q] = fromConsole[q]
        /\ \A q \in Process : NoRepeats(fromConsole'[q])
    BY <1>1, <1>3, ConsoleWrites
  <1>5. ASSUME NEW q \in Process, NEW x \in Place PROVE At(q, x)' <=> At(q, x)
    BY <1>1, <1>2, <1>4 DEF At, HasCpu, pcbVars, deviceVars, memoryConnection
  <1>6. Located' /\ OneDevice'
    BY <1>1, <1>5, Unmoved, OneDeviceKept DEF PlaceInv, pcbVars
  <1>7. NoDoubles'
    BY <1>1, <1>2, <1>4 DEF PlaceInv, NoDoubles, pcbVars, deviceVars, memoryConnection
  <1>8. SentOnce'
    <2>1. console'[p] = "ended" /\ \A q \in Process \ {p} : console'[q] = console[q]
      BY <1>1 DEF TypeOK, ConsoleType
    <2> QED
      BY <1>1, <1>2, <1>4, <2>1 DEF PlaceInv, SentOnce, pcbVars, memoryConnection
  <1> QED
    BY <1>6, <1>7, <1>8 DEF PlaceInv

(* The process is created: it was nowhere, and INIT_PROCESS came once.     *)
LEMMA ReceiveInitProcessPlaces ==
    ASSUME TypeOK, PlaceInv, NEW p \in Process, ReceiveInitProcess(p), UNCHANGED peerVars
    PROVE  PlaceInv'
  <1>1. /\ UNCHANGED <<dispatch, resolving, deviceVars, toCpu, fromCpu, cpu,
                       memoryConnection, toConsole, console>>
        /\ fromConsole[p] # <<>> /\ Head(fromConsole[p]) = "INIT_PROCESS"
        /\ fromConsole' = [fromConsole EXCEPT ![p] = Tail(fromConsole[p])]
        /\ list' = [list EXCEPT !["NEW"] = Append(@, p)]
        /\ status' = [status EXCEPT ![p] = "NEW"]
    BY DEF ReceiveInitProcess, schedule_next_to, faultVars, cpuConnection, peerVars
  <1>2. /\ Elements(fromConsole[p]) = Elements(fromConsole'[p]) \cup {"INIT_PROCESS"}
        /\ "INIT_PROCESS" \notin Elements(fromConsole'[p])
        /\ \A q \in Process \ {p} : fromConsole'[q] = fromConsole[q]
        /\ \A q \in Process : NoRepeats(fromConsole'[q])
    BY <1>1, ConsoleReads
  <1>3. status[p] = "none" /\ console[p] # "new"
    BY <1>1, <1>2 DEF PlaceInv, SentOnce
  <1>4. \A x \in Place : ~At(p, x)
    BY <1>3, NotCreated DEF PlaceInv
  <1>5. "NEW" \in Queue /\ "NEW" \in Place
    BY DEF Place, Queue
  <1>6. /\ \A l \in Queue : Elements(list'[l]) =
              IF l = "NEW" THEN Elements(list[l]) \cup {p} ELSE Elements(list[l])
        /\ \A l \in Queue : NoRepeats(list'[l])
    <2>1. p \notin Elements(list["NEW"])
      BY <1>4, <1>5 DEF At
    <2> QED
      BY <1>1, <1>5, <2>1, ListGains DEF PlaceInv
  <1>7. ASSUME NEW q \in Process, NEW x \in Place
        PROVE  At(q, x)' <=> At(q, x) \/ (q = p /\ x = "NEW")
    <2>1. CASE x \in Queue
      BY <1>6, <2>1 DEF At, Queue
    <2>2. CASE x = "fromConsole"
      BY <1>2, <2>2 DEF At, Queue
    <2>3. CASE x \notin Queue \cup {"fromConsole"}
      BY <1>1, <1>7, <2>3, <1>5 DEF At, HasCpu, deviceVars, memoryConnection
    <2> QED
      BY <2>1, <2>2, <2>3
  <1>8. status'[p] = StatusAt("NEW")' /\ \A q \in Process \ {p} : status'[q] = status[q]
    BY <1>1 DEF StatusAt, TypeOK, PcbType
  <1>9. Located'
    <2>1. Located
      BY DEF PlaceInv
    <2>2. \A q \in Process : \A x \in Place :
              At(q, x)' <=> IF q = p THEN x = "NEW" ELSE At(q, x)
      BY <1>4, <1>7
    <2> QED
      BY <1>1, <1>5, <1>8, <2>1, <2>2, Relocated
  <1>10. OneDevice'
    BY <1>1, OneDeviceKept DEF PlaceInv
  <1>11. NoDoubles'
    BY <1>1, <1>2, <1>6 DEF PlaceInv, NoDoubles, deviceVars, memoryConnection
  <1>12. SentOnce'
    <2>1. Elements(list'["EXIT"]) = Elements(list["EXIT"])
      BY <1>6 DEF Queue
    <2> QED
      BY <1>1, <1>2, <1>3, <1>8, <2>1 DEF PlaceInv, SentOnce, memoryConnection
  <1> QED
    BY <1>9, <1>10, <1>11, <1>12 DEF PlaceInv

LEMMA ReceiveDisconnectionPlaces ==
    ASSUME TypeOK, PlaceInv, NEW p \in Process, ReceiveDisconnection(p), UNCHANGED peerVars
    PROVE  PlaceInv'
  <1>1. /\ UNCHANGED <<pcbVars, dispatch, resolving, deviceVars, toCpu, fromCpu, cpu,
                       memoryConnection, toConsole, console>>
        /\ fromConsole[p] # <<>> /\ Head(fromConsole[p]) = "CLOSED"
        /\ fromConsole' = [fromConsole EXCEPT ![p] = Tail(fromConsole[p])]
    BY DEF ReceiveDisconnection, faultVars, cpuConnection, peerVars
  <1>2. /\ Elements(fromConsole[p]) = Elements(fromConsole'[p]) \cup {"CLOSED"}
        /\ \A q \in Process \ {p} : fromConsole'[q] = fromConsole[q]
        /\ \A q \in Process : NoRepeats(fromConsole'[q])
    BY <1>1, ConsoleReads
  <1>3. ASSUME NEW q \in Process, NEW x \in Place PROVE At(q, x)' <=> At(q, x)
    BY <1>1, <1>2 DEF At, HasCpu, pcbVars, deviceVars, memoryConnection
  <1>4. Located' /\ OneDevice'
    BY <1>1, <1>3, Unmoved, OneDeviceKept DEF PlaceInv, pcbVars
  <1>5. NoDoubles'
    BY <1>1, <1>2 DEF PlaceInv, NoDoubles, pcbVars, deviceVars, memoryConnection
  <1>6. SentOnce'
    BY <1>1, <1>2 DEF PlaceInv, SentOnce, pcbVars, memoryConnection
  <1> QED
    BY <1>4, <1>5, <1>6 DEF PlaceInv

-----------------------------------------------------------------------------
(* The memory and manage_memory.                                           *)

LEMMA InitStructuresMemoryPlaces ==
    ASSUME TypeOK, AdmissionInv, PlaceInv, NEW p \in Process,
           InitStructuresMemory(p), UNCHANGED peerVars
    PROVE  PlaceInv'
  <1> DEFINE m == [op |-> InitRequest, pcb |-> Head(list["NEW"])]
  <1>1. /\ UNCHANGED <<pcbVars, dispatch, resolving, deviceVars, toCpu, fromCpu, cpu,
                       fromMemory, consoleConnection, console>>
        /\ thread[p] = "grado" /\ list["NEW"] # <<>>
        /\ toMemory' = Append(toMemory, m)
    BY DEF InitStructuresMemory, faultVars, cpuConnection, peerVars, InitRequest
  <1>2. toMemory \in Seq(MemoryRequest) /\ m \in MemoryRequest
    <2>1. list["NEW"] \in Seq(Process)
      BY DEF TypeOK, PcbType, ListName
    <2>2. Head(list["NEW"]) \in Process
      BY <1>1, <2>1, HeadTail
    <2> QED
      BY <2>2 DEF TypeOK, MemoryConnectionType, MemoryRequest, InitRequest
  <1>3. m \notin Elements(toMemory)
    BY <1>1, NothingUnderWay DEF Requested, Sent
  <1>4. \A q \in Process : m # PageRequest(q) /\ m # EndRequest(q)
    BY DEF PageRequest, EndRequest, InitRequest
  <1> HIDE DEF m
  <1>5. Elements(toMemory') = Elements(toMemory) \cup {m} /\ NoRepeats(toMemory')
    BY <1>1, <1>2, <1>3, AppendElements DEF PlaceInv, NoDoubles
  <1>6. ASSUME NEW q \in Process, NEW x \in Place PROVE At(q, x)' <=> At(q, x)
    BY <1>1, <1>4, <1>5 DEF At, HasCpu, pcbVars, deviceVars, consoleConnection
  <1>7. Located' /\ OneDevice'
    BY <1>1, <1>6, Unmoved, OneDeviceKept DEF PlaceInv, pcbVars
  <1>8. NoDoubles'
    BY <1>1, <1>5 DEF PlaceInv, NoDoubles, pcbVars, deviceVars, consoleConnection
  <1>9. SentOnce'
    BY <1>1, <1>4, <1>5, SentOnceKept DEF PlaceInv, pcbVars
  <1> QED
    BY <1>7, <1>8, <1>9 DEF PlaceInv

LEMMA ReceiveInitStructuresPlaces ==
    ASSUME TypeOK, AdmissionInv, PlaceInv, ReceiveInitStructures, UNCHANGED peerVars
    PROVE  PlaceInv'
  <1>1. /\ UNCHANGED <<list, status, dispatch, resolving, deviceVars, toCpu, fromCpu, cpu,
                       toMemory, consoleConnection, console>>
        /\ fromMemory # <<>> /\ Head(fromMemory).op = "INIT_RESPONSE"
        /\ fromMemory' = Tail(fromMemory)
    BY HeadReplacedByItself DEF ReceiveInitStructures, faultVars, cpuConnection, peerVars
  <1>2. Elements(fromMemory) = Elements(fromMemory') \cup {Head(fromMemory)} /\ NoRepeats(fromMemory')
    <2>1. fromMemory \in Seq(MemoryAnswer)
      BY DEF TypeOK, MemoryConnectionType
    <2> QED
      BY <1>1, <2>1, TailElements DEF PlaceInv, NoDoubles
  <1>3. \A q \in Process : Head(fromMemory) # PageAnswer(q)
    BY <1>1 DEF PageAnswer
  <1>4. ASSUME NEW q \in Process, NEW x \in Place PROVE At(q, x)' <=> At(q, x)
    BY <1>1, <1>2, <1>3 DEF At, HasCpu, deviceVars, consoleConnection
  <1>5. Located' /\ OneDevice'
    BY <1>1, <1>4, Unmoved, OneDeviceKept DEF PlaceInv
  <1>6. NoDoubles'
    BY <1>1, <1>2 DEF PlaceInv, NoDoubles, deviceVars, consoleConnection
  <1>7. SentOnce'
    BY <1>1, SentOnceKept DEF PlaceInv
  <1> QED
    BY <1>5, <1>6, <1>7 DEF PlaceInv

LEMMA MemoryPlaces ==
    ASSUME TypeOK, AdmissionInv, PlaceInv, Memory
    PROVE  PlaceInv'
  <1> DEFINE r == Head(toMemory)
  <1>1. /\ UNCHANGED <<pcbVars, dispatch, resolving, deviceVars, toCpu, fromCpu, cpu,
                       consoleConnection, console>>
        /\ toMemory # <<>> /\ toMemory' = Tail(toMemory)
    BY DEF Memory, MemoryInit, MemoryLoadPage, MemoryEnd, faultVars, cpuConnection, cpuVars
  <1>2. toMemory \in Seq(MemoryRequest) /\ fromMemory \in Seq(MemoryAnswer)
    BY DEF TypeOK, MemoryConnectionType
  <1>3. /\ r \in MemoryRequest /\ NoRepeats(toMemory')
        /\ Elements(toMemory) = Elements(toMemory') \cup {r}
        /\ r \notin Elements(toMemory')
    BY <1>1, <1>2, HeadTail, TailElements DEF PlaceInv, NoDoubles
  <1>4. OneDevice'
    BY <1>1, OneDeviceKept DEF PlaceInv
  <1>5. SentOnce'
    BY <1>1, <1>3, SentOnceKept DEF PlaceInv, pcbVars
  <1>6. CASE MemoryInit
    <2> DEFINE m == [op |-> "INIT_RESPONSE", pcb |-> r.pcb]
    <2>1. r.op = InitRequest /\ fromMemory' = Append(fromMemory, m)
      BY <1>6 DEF MemoryInit, InitRequest
    <2>2. m \in MemoryAnswer /\ m \notin Elements(fromMemory)
      <3>1. m \in MemoryAnswer
        BY <1>3 DEF MemoryAnswer, MemoryRequest
      <3>2. Requested
        BY <1>3, <2>1 DEF Requested, Sent
      <3>3. ~Answered
        BY <3>2 DEF AdmissionInv, OneToken
      <3> QED
        BY <3>1, <3>3 DEF Answered, Sent
    <2>3. \A q \in Process : m # PageAnswer(q) /\ r # PageRequest(q)
      BY <2>1 DEF PageAnswer, PageRequest, InitRequest
    <2> HIDE DEF m, r
    <2>4. Elements(fromMemory') = Elements(fromMemory) \cup {m} /\ NoRepeats(fromMemory')
      BY <1>2, <2>1, <2>2, AppendElements DEF PlaceInv, NoDoubles
    <2>5. ASSUME NEW q \in Process, NEW x \in Place PROVE At(q, x)' <=> At(q, x)
      BY <1>1, <1>3, <2>3, <2>4 DEF At, HasCpu, pcbVars, deviceVars, consoleConnection
    <2>6. Located'
      BY <1>1, <2>5, Unmoved DEF PlaceInv, pcbVars
    <2>7. NoDoubles'
      BY <1>1, <1>3, <2>4 DEF PlaceInv, NoDoubles, pcbVars, deviceVars, consoleConnection
    <2> QED
      BY <1>4, <1>5, <2>6, <2>7 DEF PlaceInv
  <1>7. CASE MemoryLoadPage
    <2> DEFINE p == r.pcb
    <2>1. p \in Process /\ r = PageRequest(p) /\ fromMemory' = Append(fromMemory, PageAnswer(p))
      BY <1>3, <1>7 DEF MemoryLoadPage, MemoryRequest, PageRequest, PageAnswer
    <2> HIDE DEF p, r
    <2>2. At(p, "toMemory") /\ "toMemory" \in Place /\ "fromMemory" \in Place
      BY <1>3, <2>1 DEF At, Place
    <2>3. PageAnswer(p) \in MemoryAnswer /\ PageAnswer(p) \notin Elements(fromMemory)
      <3>1. ~At(p, "fromMemory")
        BY <2>1, <2>2, OnlyThere DEF PlaceInv
      <3> QED
        BY <2>1, <3>1 DEF At, MemoryAnswer, PageAnswer
    <2>4. Elements(fromMemory') = Elements(fromMemory) \cup {PageAnswer(p)} /\ NoRepeats(fromMemory')
      BY <1>2, <2>1, <2>3, AppendElements DEF PlaceInv, NoDoubles
    <2>5. ASSUME NEW q \in Process
          PROVE  (PageRequest(q) = PageRequest(p) <=> q = p) /\ (PageAnswer(q) = PageAnswer(p) <=> q = p)
      BY DEF PageRequest, PageAnswer
    <2>6. ASSUME NEW q \in Process, NEW x \in Place \ {"toMemory", "fromMemory"}
          PROVE  At(q, x)' <=> At(q, x)
      BY <1>1 DEF At, HasCpu, pcbVars, deviceVars, consoleConnection
    <2>7. ASSUME NEW q \in Process PROVE At(q, "toMemory")' <=> q # p /\ At(q, "toMemory")
      BY <1>3, <2>1, <2>5 DEF At, Queue
    <2>8. ASSUME NEW q \in Process PROVE At(q, "fromMemory")' <=> q = p \/ At(q, "fromMemory")
      BY <2>4, <2>5 DEF At, Queue
    <2>9. status'[p] = StatusAt("fromMemory")'
      <3>1. status[p] = "BLOCKED"
        BY <2>1, <2>2, OnlyThere DEF PlaceInv, StatusAt
      <3> QED
        BY <1>1, <3>1 DEF StatusAt, pcbVars
    <2>10. Located'
      <3>1. Located
        BY DEF PlaceInv
      <3> QED
        BY <1>1, <2>1, <2>2, <2>6, <2>7, <2>8, <2>9, <3>1, Moved DEF pcbVars
    <2>11. NoDoubles'
      BY <1>1, <1>3, <2>4 DEF PlaceInv, NoDoubles, pcbVars, deviceVars, consoleConnection
    <2> QED
      BY <1>4, <1>5, <2>10, <2>11 DEF PlaceInv
  <1>8. CASE MemoryEnd
    <2>1. fromMemory' = fromMemory /\ \A q \in Process : r # PageRequest(q)
      BY <1>8 DEF MemoryEnd, PageRequest
    <2> HIDE DEF r
    <2>2. ASSUME NEW q \in Process, NEW x \in Place PROVE At(q, x)' <=> At(q, x)
      BY <1>1, <1>3, <2>1 DEF At, HasCpu, pcbVars, deviceVars, consoleConnection
    <2>3. Located'
      BY <1>1, <2>2, Unmoved DEF PlaceInv, pcbVars
    <2>4. NoDoubles'
      BY <1>1, <1>3, <2>1 DEF PlaceInv, NoDoubles, pcbVars, deviceVars, consoleConnection
    <2> QED
      BY <1>4, <1>5, <2>3, <2>4 DEF PlaceInv
  <1> QED
    BY <1>6, <1>7, <1>8 DEF Memory

-----------------------------------------------------------------------------
(* Every step.                                                             *)

LEMMA ConsoleThreadPlaces ==
    ASSUME TypeOK, AdmissionInv, PlaceInv, NEW p \in Process, ConsoleThread(p)
    PROVE  PlaceInv'
  <1>1. CASE EnterScheduleReady(p)
    BY <1>1, PlacesKept DEF ConsoleThread, EnterScheduleReady, faultVars,
       cpuConnection, peerVars
  <1> QED
    BY <1>1, ReceiveInitProcessPlaces, InitStructuresMemoryPlaces,
       ScheduleNextToReadyPlaces, ReceiveIoResponsePlaces,
       ReceiveDisconnectionPlaces DEF ConsoleThread

LEMMA SchedulerPlaces ==
    ASSUME TypeOK, CpuExclusive, PlaceInv, Scheduler
    PROVE  PlaceInv'
  <1>1. CASE WaitProcessInReady \/ RecordUltimo
    BY <1>1, PlacesKept DEF Scheduler, WaitProcessInReady, RecordUltimo,
       faultVars, cpuConnection, peerVars
  <1> QED
    BY <1>1, ScheduleNextToRunningPlaces DEF Scheduler

LEMMA DispatchPlaces ==
    ASSUME TypeOK, CpuExclusive, PlaceInv, Dispatch
    PROVE  PlaceInv'
  <1>1. CASE DispatchNullUltimo
    BY <1>1, PlacesKept DEF Dispatch, DispatchNullUltimo, faultVars,
       cpuConnection, peerVars
  <1> QED
    BY <1>1, DispatchReceivePlaces, DispatchIoConsolePlaces,
       DispatchIoDefaultPlaces, DispatchInterruptionPlaces,
       DispatchPageFaultPlaces, DispatchEndPlaces DEF Dispatch

LEMMA ClockPlaces ==
    ASSUME PlaceInv, Clock \/ Interrupt \/ CpuInterrupt
    PROVE  PlaceInv'
  <1>1. UNCHANGED <<pcbVars, dispatch, resolving, deviceVars, toCpu, fromCpu,
                    cpu, memoryConnection, consoleConnection, console>>
    BY DEF Clock, ClockBegin, ClockRestart, ClockExpire, ClockFinish,
       Interrupt, ManageInterrupt, CpuInterrupt, faultVars, cpuConnection, peerVars
  <1> QED
    BY <1>1, PlacesKept

LEMMA PlaceNext ==
    ASSUME TypeOK, CpuExclusive, AdmissionInv, PlaceInv, Next
    PROVE  PlaceInv'
  <1>1. ASSUME NEW p \in Process, Console(p) PROVE PlaceInv'
    BY <1>1, ConsoleStartPlaces, ConsoleAnswerPlaces, ConsoleEndPlaces DEF Console
  <1>2. ASSUME NEW p \in Process, PageFaultThread(p) PROVE PlaceInv'
    BY <1>2, ResolvePageFaultPlaces DEF PageFaultThread
  <1>3. ASSUME NEW d \in Device, DeviceThread(d) PROVE PlaceInv'
    BY <1>3, DeviceBeginPlaces, DeviceFinishPlaces DEF DeviceThread
  <1>4. CASE ManageMemory
    BY <1>4, ReceiveInitStructuresPlaces, ReceivePageFaultResponsePlaces DEF ManageMemory
  <1> QED
    BY <1>1, <1>2, <1>3, <1>4, ConsoleThreadPlaces, SchedulerPlaces,
       DispatchPlaces, ClockPlaces, CpuPlaces, MemoryPlaces DEF Next

LEMMA PlaceInit == Init => PlaceInv
  <1> SUFFICES ASSUME Init PROVE PlaceInv
    OBVIOUS
  <1>1. /\ \A l \in Queue : list[l] = <<>>
        /\ \A p \in Process : /\ status[p] = "none" /\ toConsole[p] = <<>>
                              /\ fromConsole[p] = <<>> /\ console[p] = "new"
        /\ \A d \in Device : queue[d] = <<>> /\ serving[d] = NoProcess
        /\ resolving = {} /\ dispatch = Idle /\ cpu = NoProcess
        /\ toCpu = <<>> /\ fromCpu = <<>> /\ toMemory = <<>> /\ fromMemory = <<>>
    BY DEF Init, KernelInit, Queue, ListName
  <1>2. Elements(<<>>) = {} /\ NoRepeats(<<>>)
    BY DEF Elements, NoRepeats
  <1>3. Located
    <2>1. ASSUME NEW p \in Process, NEW x \in Place PROVE ~At(p, x)
      BY <1>1, <1>2, NoProcessAssumption DEF At, HasCpu, Idle, Queue
    <2> QED
      BY <1>1, <2>1 DEF Located, Where
  <1>4. OneDevice /\ NoDoubles /\ SentOnce
    BY <1>1, <1>2, NoProcessAssumption DEF OneDevice, Attends, NoDoubles, SentOnce, Queue
  <1> QED
    BY <1>3, <1>4 DEF PlaceInv

LEMMA PlaceAlways == Spec => []PlaceInv
  <1>1. TypeOK /\ CpuExclusive /\ AdmissionInv /\ PlaceInv /\ [Next]_vars => PlaceInv'
    <2>1. ASSUME PlaceInv, UNCHANGED vars PROVE PlaceInv'
      BY <2>1, PlacesKept DEF vars, kernelVars, peerVars, pcbVars, deviceVars,
         memoryConnection, consoleConnection
    <2> QED
      BY <2>1, PlaceNext
  <1> QED
    BY <1>1, PlaceInit, TypeCorrect, CpuIsExclusive, AdmissionAlways, PTL DEF Spec

-----------------------------------------------------------------------------
(* OneCopy: the positions of a PCB, place by place.                        *)

Positions(place, s, m) == {<<place, i>> : i \in {j \in DOMAIN s : s[j] = m}}

InLists(p)     == UNION {Positions(l, list[l], p) : l \in ListName \ {"BLOCKED", "RUNNING"}}
OnTheWay(p)    == Positions("toCpu", toCpu, p)
BeingRun(p)     == {<<"cpu", 0>> : x \in {cpu} \cap {p}}
Returned(p)    == {<<"fromCpu", i>> : i \in {j \in DOMAIN fromCpu :
                      fromCpu[j].pcb = p /\ fromCpu[j].op \in ReturnOp}}
OnCpu(p)       == OnTheWay(p) \cup BeingRun(p) \cup Returned(p)
InDispatch(p)  == {<<"dispatch", 0>> : x \in {dispatch.pcb} \cap {p}}
InDevices(p)   == UNION {Positions(d, queue[d], p) : d \in Device}
BeingServed(p) == {<<d, 0>> : d \in {e \in Device : serving[e] = p}}
InResolving(p) == {<<"resolving", 0>> : x \in resolving \cap {p}}
InRequests(p)  == {<<"toMemory", i>> : i \in {j \in DOMAIN toMemory :
                      toMemory[j].pcb = p /\ toMemory[j].op \in {"REQUEST_PAGE_FAULT"}}}
InAnswers(p)   == {<<"fromMemory", i>> : i \in {j \in DOMAIN fromMemory :
                      fromMemory[j].pcb = p /\ fromMemory[j].op \in {"RESPONSE_PAGE_FAULT"}}}
ToConsole(p)   == Positions("toConsole", toConsole[p], "IO_REQUEST")
FromConsole(p) == Positions("fromConsole", fromConsole[p], "IO_RESPONSE")

LEMMA CopiesByPlace ==
    ASSUME NEW p
    PROVE  Copies(p) = InLists(p) \cup OnCpu(p) \cup InDispatch(p)
             \cup InDevices(p) \cup BeingServed(p) \cup InResolving(p)
             \cup InRequests(p) \cup InAnswers(p) \cup ToConsole(p) \cup FromConsole(p)
  <1>1. Copies(p) = InLists(p) \cup OnTheWay(p) \cup BeingRun(p) \cup Returned(p)
             \cup InDispatch(p) \cup InDevices(p) \cup BeingServed(p)
             \cup InResolving(p) \cup InRequests(p) \cup InAnswers(p)
             \cup ToConsole(p) \cup FromConsole(p)
    BY Zenon DEF Copies, InLists, OnTheWay, BeingRun, Returned, InDispatch,
       InDevices, BeingServed, InResolving, InRequests, InAnswers, ToConsole,
       FromConsole, Positions
  <1> QED
    BY <1>1 DEF OnCpu

(* What is in a sequence without repetitions has one position in it.       *)
LEMMA OnePosition ==
    ASSUME NEW place, NEW s, NEW m
    PROVE  /\ m \notin Elements(s) => Positions(place, s, m) = {}
           /\ NoRepeats(s) /\ m \in Elements(s) => \E c : Positions(place, s, m) = {c}
  <1>1. ASSUME m \notin Elements(s) PROVE Positions(place, s, m) = {}
    BY <1>1 DEF Positions, Elements
  <1>2. ASSUME NoRepeats(s), m \in Elements(s)
        PROVE  \E c : Positions(place, s, m) = {c}
    <2>1. PICK i \in DOMAIN s : s[i] = m
      BY <1>2 DEF Elements
    <2>2. {j \in DOMAIN s : s[j] = m} = {i}
      BY <1>2, <2>1 DEF NoRepeats
    <2>3. Positions(place, s, m) = {<<place, i>>}
      BY <2>2 DEF Positions
    <2> QED
      BY <2>3
  <1> QED
    BY <1>1, <1>2

IsOne(S) == \E c : S = {c}

LEMMA ListCopies ==
    ASSUME PlaceInv, NEW p \in Process
    PROVE  /\ (\A l \in Queue : ~At(p, l)) => InLists(p) = {}
           /\ \A l \in Queue : At(p, l) => IsOne(InLists(p))
  <1>1. ListName \ {"BLOCKED", "RUNNING"} = Queue
    BY DEF ListName, Queue
  <1>2. ASSUME NEW l \in Queue
        PROVE  /\ ~At(p, l) => Positions(l, list[l], p) = {}
               /\ At(p, l) => IsOne(Positions(l, list[l], p))
    BY <1>2, OnePosition DEF At, Queue, IsOne, PlaceInv, NoDoubles
  <1>3. ASSUME \A l \in Queue : ~At(p, l) PROVE InLists(p) = {}
    BY <1>1, <1>2, <1>3 DEF InLists
  <1>4. ASSUME NEW l \in Queue, At(p, l) PROVE IsOne(InLists(p))
    <2>1. l \in Place /\ Queue \subseteq Place
      BY DEF Place
    <2>2. \A k \in Queue \ {l} : Positions(k, list[k], p) = {}
      BY <1>2, <1>4, <2>1, OnlyThere DEF PlaceInv
    <2>3. InLists(p) = Positions(l, list[l], p)
      BY <1>1, <2>2 DEF InLists
    <2> QED
      BY <1>2, <1>4, <2>3
  <1> QED
    BY <1>3, <1>4

LEMMA CpuCopies ==
    ASSUME TypeOK, CpuExclusive, NEW p \in Process
    PROVE  /\ ~At(p, "cpu") => OnCpu(p) = {}
           /\ At(p, "cpu") => IsOne(OnCpu(p))
  <1>1. At(p, "cpu") <=> HasCpu(p)
    BY DEF At, Queue
  <1>2. BeingRun(p) = IF cpu = p THEN {<<"cpu", 0>>} ELSE {}
    BY DEF BeingRun
  <1>3. /\ p \notin Elements(toCpu) => OnTheWay(p) = {}
        /\ (\A m \in Elements(fromCpu) : m.pcb # p) => Returned(p) = {}
    BY OnePosition DEF OnTheWay, Returned, Elements
  <1>4. ASSUME ~HasCpu(p) PROVE OnCpu(p) = {}
    BY <1>2, <1>3, <1>4 DEF HasCpu, OnCpu
  <1>5. CASE p = cpu
    <2>1. OnTheWay(p) = {} /\ Returned(p) = {}
      BY <1>3, <1>5, OnlyRunning, NoProcessAssumption
    <2> QED
      BY <1>1, <1>2, <1>5, <2>1 DEF OnCpu, IsOne, HasCpu
  <1>6. CASE p \in Elements(toCpu)
    <2>1. toCpu # <<>>
      BY <1>6 DEF Elements
    <2>2. Elements(fromCpu) = {} /\ cpu = NoProcess
      BY <2>1, OnlyOnItsWay
    <2>3. BeingRun(p) = {} /\ Returned(p) = {}
      BY <1>2, <1>3, <2>2, NoProcessAssumption
    <2>4. NoRepeats(toCpu)
      BY <2>1, OnlyOnItsWay DEF NoRepeats
    <2>5. IsOne(OnTheWay(p))
      BY <1>6, <2>4, OnePosition DEF OnTheWay, IsOne
    <2> QED
      BY <1>1, <1>6, <2>3, <2>5 DEF OnCpu, HasCpu
  <1>7. CASE \E m \in Elements(fromCpu) : m.pcb = p
    <2>1. fromCpu # <<>>
      BY <1>7 DEF Elements
    <2>2. Elements(toCpu) = {} /\ cpu = NoProcess /\ Elements(fromCpu) = {Head(fromCpu)}
      BY <2>1, OnlyInReturn
    <2>3. BeingRun(p) = {} /\ OnTheWay(p) = {}
      BY <1>2, <1>3, <2>2, NoProcessAssumption
    <2>4. DOMAIN fromCpu = {1}
      BY <2>1, OnlyInReturn
    <2>5. fromCpu[1].pcb = p /\ fromCpu[1].op \in ReturnOp
      <3>1. fromCpu[1] \in ReturnMessage
        <4>1. fromCpu \in Seq(ReturnMessage)
          BY DEF TypeOK, CpuConnectionType
        <4>2. Elements(fromCpu) \subseteq ReturnMessage
          BY <4>1, ElementsType
        <4> QED
          BY <2>4, <4>2 DEF Elements
      <3> QED
        BY <1>7, <2>4, <3>1 DEF Elements, ReturnMessage
    <2>6. {j \in DOMAIN fromCpu : fromCpu[j].pcb = p /\ fromCpu[j].op \in ReturnOp} = {1}
      BY <2>4, <2>5
    <2>7. Returned(p) = {<<"fromCpu", 1>>}
      BY <2>6 DEF Returned
    <2> QED
      BY <1>1, <1>7, <2>3, <2>7 DEF OnCpu, HasCpu, IsOne
  <1> QED
    BY <1>1, <1>4, <1>5, <1>6, <1>7 DEF HasCpu

LEMMA ThreadCopies ==
    ASSUME NEW p \in Process
    PROVE  /\ ~At(p, "dispatch") => InDispatch(p) = {}
           /\ At(p, "dispatch") => IsOne(InDispatch(p))
           /\ ~At(p, "resolving") => InResolving(p) = {}
           /\ At(p, "resolving") => IsOne(InResolving(p))
  <1>1. InDispatch(p) = IF dispatch.pcb = p THEN {<<"dispatch", 0>>} ELSE {}
    BY DEF InDispatch
  <1>2. InResolving(p) = IF p \in resolving THEN {<<"resolving", 0>>} ELSE {}
    BY DEF InResolving
  <1> QED
    BY <1>1, <1>2 DEF At, Queue, IsOne

LEMMA DeviceCopies ==
    ASSUME PlaceInv, NEW p \in Process
    PROVE  /\ ~At(p, "queue") => InDevices(p) = {}
           /\ At(p, "queue") => IsOne(InDevices(p))
           /\ ~At(p, "serving") => BeingServed(p) = {}
           /\ At(p, "serving") => IsOne(BeingServed(p))
  <1>1. ASSUME NEW d \in Device
        PROVE  /\ p \notin Elements(queue[d]) => Positions(d, queue[d], p) = {}
               /\ p \in Elements(queue[d]) => IsOne(Positions(d, queue[d], p))
    BY OnePosition DEF IsOne, PlaceInv, NoDoubles
  <1>2. ASSUME ~At(p, "queue") PROVE InDevices(p) = {}
    BY <1>1, <1>2 DEF At, Queue, InDevices
  <1>3. ASSUME At(p, "queue") PROVE IsOne(InDevices(p))
    <2>1. PICK d \in Device : p \in Elements(queue[d])
      BY <1>3 DEF At, Queue
    <2>2. \A e \in Device \ {d} : Positions(e, queue[e], p) = {}
      BY <1>1, <2>1 DEF PlaceInv, OneDevice, Attends
    <2>3. InDevices(p) = Positions(d, queue[d], p)
      BY <2>2 DEF InDevices
    <2> QED
      BY <1>1, <2>1, <2>3
  <1>4. ASSUME ~At(p, "serving") PROVE BeingServed(p) = {}
    BY <1>4 DEF At, Queue, BeingServed
  <1>5. ASSUME At(p, "serving") PROVE IsOne(BeingServed(p))
    <2>1. PICK d \in Device : serving[d] = p
      BY <1>5 DEF At, Queue
    <2>2. {e \in Device : serving[e] = p} = {d}
      BY <2>1 DEF PlaceInv, OneDevice, Attends
    <2>3. BeingServed(p) = {<<d, 0>>}
      BY <2>2 DEF BeingServed
    <2> QED
      BY <2>3 DEF IsOne
  <1> QED
    BY <1>2, <1>3, <1>4, <1>5

LEMMA MessageCopies ==
    ASSUME TypeOK, PlaceInv, NEW p \in Process
    PROVE  /\ ~At(p, "toMemory") => InRequests(p) = {}
           /\ At(p, "toMemory") => IsOne(InRequests(p))
           /\ ~At(p, "fromMemory") => InAnswers(p) = {}
           /\ At(p, "fromMemory") => IsOne(InAnswers(p))
           /\ ~At(p, "toConsole") => ToConsole(p) = {}
           /\ At(p, "toConsole") => IsOne(ToConsole(p))
           /\ ~At(p, "fromConsole") => FromConsole(p) = {}
           /\ At(p, "fromConsole") => IsOne(FromConsole(p))
  <1>1. InRequests(p) = Positions("toMemory", toMemory, PageRequest(p))
    <2>1. \A j \in DOMAIN toMemory : toMemory[j] \in MemoryRequest
      BY DEF TypeOK, MemoryConnectionType
    <2>2. \A j \in DOMAIN toMemory :
              toMemory[j].pcb = p /\ toMemory[j].op \in {"REQUEST_PAGE_FAULT"}
                <=> toMemory[j] = PageRequest(p)
      BY <2>1 DEF MemoryRequest, PageRequest
    <2>3. {j \in DOMAIN toMemory :
              toMemory[j].pcb = p /\ toMemory[j].op \in {"REQUEST_PAGE_FAULT"}}
            = {j \in DOMAIN toMemory : toMemory[j] = PageRequest(p)}
      BY <2>2
    <2> QED
      BY <2>3 DEF InRequests, Positions
  <1>2. InAnswers(p) = Positions("fromMemory", fromMemory, PageAnswer(p))
    <2>1. \A j \in DOMAIN fromMemory : fromMemory[j] \in MemoryAnswer
      BY DEF TypeOK, MemoryConnectionType
    <2>2. \A j \in DOMAIN fromMemory :
              fromMemory[j].pcb = p /\ fromMemory[j].op \in {"RESPONSE_PAGE_FAULT"}
                <=> fromMemory[j] = PageAnswer(p)
      BY <2>1 DEF MemoryAnswer, PageAnswer
    <2>3. {j \in DOMAIN fromMemory :
              fromMemory[j].pcb = p /\ fromMemory[j].op \in {"RESPONSE_PAGE_FAULT"}}
            = {j \in DOMAIN fromMemory : fromMemory[j] = PageAnswer(p)}
      BY <2>2
    <2> QED
      BY <2>3 DEF InAnswers, Positions
  <1>3. /\ NoRepeats(toMemory) /\ NoRepeats(fromMemory)
        /\ NoRepeats(toConsole[p]) /\ NoRepeats(fromConsole[p])
    BY DEF PlaceInv, NoDoubles
  <1>4. /\ At(p, "toMemory") <=> PageRequest(p) \in Elements(toMemory)
        /\ At(p, "fromMemory") <=> PageAnswer(p) \in Elements(fromMemory)
        /\ At(p, "toConsole") <=> "IO_REQUEST" \in Elements(toConsole[p])
        /\ At(p, "fromConsole") <=> "IO_RESPONSE" \in Elements(fromConsole[p])
    BY DEF At, Queue
  <1>5. (~At(p, "toMemory") => InRequests(p) = {})
        /\ (At(p, "toMemory") => IsOne(InRequests(p)))
    BY <1>1, <1>3, <1>4, OnePosition DEF IsOne
  <1>6. (~At(p, "fromMemory") => InAnswers(p) = {})
        /\ (At(p, "fromMemory") => IsOne(InAnswers(p)))
    BY <1>2, <1>3, <1>4, OnePosition DEF IsOne
  <1>7. (~At(p, "toConsole") => ToConsole(p) = {})
        /\ (At(p, "toConsole") => IsOne(ToConsole(p)))
    BY <1>3, <1>4, OnePosition DEF IsOne, ToConsole
  <1>8. (~At(p, "fromConsole") => FromConsole(p) = {})
        /\ (At(p, "fromConsole") => IsOne(FromConsole(p)))
    BY <1>3, <1>4, OnePosition DEF IsOne, FromConsole
  <1> QED
    BY <1>5, <1>6, <1>7, <1>8

(* For every number of processes and devices, every algorithm and program: *)
(* a process that was created is in exactly one list, queue, connection or *)
(* thread, at one position, and one that was not created is in none.       *)
THEOREM NoneLostOrDoubled == Spec => []OneCopy
  <1>1. ASSUME TypeOK, CpuExclusive, PlaceInv PROVE OneCopy
    <2> SUFFICES ASSUME NEW p \in Process
                 PROVE  Cardinality(Copies(p)) = IF status[p] = "none" THEN 0 ELSE 1
      BY DEF OneCopy
    <2>1. CASE status[p] = "none"
      <3>1. \A x \in Place : ~At(p, x)
        BY <1>1, <2>1, NotCreated DEF PlaceInv
      <3>2. Copies(p) = {}
        BY <1>1, <3>1, CopiesByPlace, ListCopies, CpuCopies, ThreadCopies,
           DeviceCopies, MessageCopies DEF Place
      <3> QED
        BY <2>1, <3>2, FS_EmptySet
    <2>2. CASE status[p] # "none"
      <3>1. PICK x \in Place : Where[p] = {x}
        BY <1>1, <2>2 DEF PlaceInv, Located
      <3>2. /\ At(p, x)
            /\ \A y \in Place : At(p, y) => y = x
        BY <3>1 DEF Where
      <3>3. IsOne(Copies(p))
        <4> USE <1>1, <3>2, CopiesByPlace, ListCopies, CpuCopies, ThreadCopies,
                DeviceCopies, MessageCopies
        <4>1. CASE x \in Queue
          BY <4>1 DEF Place, Queue
        <4>2. CASE x = "cpu"
          BY <4>2 DEF Place, Queue
        <4>3. CASE x = "dispatch" \/ x = "resolving"
          BY <4>3 DEF Place, Queue
        <4>4. CASE x = "queue" \/ x = "serving"
          BY <4>4 DEF Place, Queue
        <4>5. CASE x = "toMemory" \/ x = "fromMemory"
          BY <4>5 DEF Place, Queue
        <4>6. CASE x = "toConsole" \/ x = "fromConsole"
          BY <4>6 DEF Place, Queue
        <4> QED
          BY <4>1, <4>2, <4>3, <4>4, <4>5, <4>6 DEF Place
      <3> QED
        BY <2>2, <3>3, FS_Singleton DEF IsOne
    <2> QED
      BY <2>1, <2>2
  <1> QED
    BY <1>1, TypeCorrect, CpuIsExclusive, PlaceAlways, PTL

=============================================================================
