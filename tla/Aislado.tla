------------------------------ MODULE Aislado ------------------------------
(***************************************************************************)
(* What the CPU, the memory and the kernel promise a process together:     *)
(* that its instructions take effect one after the other, once each, on    *)
(* registers and on a memory of its own, as if there were no other         *)
(* process, no page and no preemption.                                     *)
(***************************************************************************)
EXTENDS Procesador

CONSTANTS
    Self,       \* the process
    Code        \* its instructions

VARIABLES
    resident,   \* it has its memory
    counter,    \* instructions it has executed
    context,    \* its registers
    content     \* its memory: a function on its addresses, or Nothing

vars == <<resident, counter, context, content>>

Nothing == <<>>

Addresses == {a \in 0 .. Len(Segments[Self]) * max_segment_size - 1 :
                 ~sigsegv(Self, a)}

Valid(i) == i.op \in {"MOV_IN", "MOV_OUT"} => i.address \in Addresses

(* The process has executed EXIT, or an access out of its segments.        *)
Over ==
    /\ counter > 0
    /\ Code[counter].op = "EXIT" \/ ~Valid(Code[counter])

(* The memory of a process holds anything at first.                        *)
Start ==
    /\ ~resident /\ counter = 0
    /\ resident' = TRUE
    /\ content' \in [Addresses -> Word]
    /\ UNCHANGED <<counter, context>>

Compute(i) ==
    /\ i.op \in Arithmetic
    /\ context' = ExecuteArithmetic(context, i)
    /\ UNCHANGED content

Read(i) ==
    /\ i.op = "MOV_IN" /\ Valid(i)
    /\ context' = [context EXCEPT ![i.register] = content[i.address]]
    /\ UNCHANGED content

Write(i) ==
    /\ i.op = "MOV_OUT" /\ Valid(i)
    /\ content' = [content EXCEPT ![i.address] = context[i.register]]
    /\ UNCHANGED context

(* I/O, EXIT, and the access that ends it.                                 *)
Leave(i) ==
    /\ i.op \in {"I/O", "EXIT"} \/ ~Valid(i)
    /\ UNCHANGED <<context, content>>

Execute ==
    /\ resident /\ ~Over
    /\ counter' = counter + 1
    /\ UNCHANGED resident
    /\ LET i == Code[counter + 1]
       IN  Compute(i) \/ Read(i) \/ Write(i) \/ Leave(i)

End ==
    /\ resident /\ Over
    /\ resident' = FALSE
    /\ content' = Nothing
    /\ UNCHANGED <<counter, context>>

Init ==
    /\ resident = FALSE
    /\ counter = 0
    /\ context = [r \in Register |-> 0]
    /\ content = Nothing

Next == Start \/ Execute \/ End

Spec == Init /\ [][Next]_vars

=============================================================================
