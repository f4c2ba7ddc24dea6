----------------------------- MODULE Lifecycle -----------------------------
(***************************************************************************)
(* What the kernel promises: the five-state life of a process, with one    *)
(* process executing at a time and at most Grado processes admitted, and   *)
(* no lists, semaphores, threads or messages.                              *)
(***************************************************************************)
EXTENDS Integers, FiniteSets

CONSTANTS Process, Grado

VARIABLE state      \* of each process

State    == {"none", "NEW", "READY", "EXEC", "BLOCKED", "EXIT"}
InSystem == {"READY", "EXEC", "BLOCKED"}

Admitted == {p \in Process : state[p] \in InSystem}

Move(p, from, to) == state[p] = from /\ state' = [state EXCEPT ![p] = to]

Create(p)   == Move(p, "none", "NEW")
Admit(p)    == Cardinality(Admitted) < Grado /\ Move(p, "NEW", "READY")
Execute(p)  == (\A q \in Process : state[q] # "EXEC") /\ Move(p, "READY", "EXEC")
Preempt(p)  == Move(p, "EXEC", "READY")
Block(p)    == Move(p, "EXEC", "BLOCKED")
Wake(p)     == Move(p, "BLOCKED", "READY")
Finish(p)   == Move(p, "EXEC", "EXIT")

Init == state = [p \in Process |-> "none"]

Next == \E p \in Process :
            \/ Create(p) \/ Admit(p) \/ Execute(p) \/ Preempt(p)
            \/ Block(p) \/ Wake(p) \/ Finish(p)

Spec == Init /\ [][Next]_state

=============================================================================
