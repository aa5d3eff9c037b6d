---------------------------- MODULE RegisterFile ----------------------------
(***************************************************************************)
(* What tu_cs_emit_write_reg() promises the code that calls it: the GPU    *)
(* that executes the command stream has the value in the register from     *)
(* here on.  It says nothing of caches and packets.                        *)
(***************************************************************************)
CONSTANTS
    Regs,      \* registers
    Values,    \* what a register holds
    Promised   \* registers, of Regs, for which the promise is made

VARIABLES
    gpu,       \* the registers as the GPU has them at this point of the stream
    request    \* the last operation of the driver

vars == <<gpu, request>>

Init ==
    /\ gpu \in [Regs -> Values]
    /\ request = <<"reset">>

\* A write asked for lands; an unpromised one may get lost.
Write(r, v) ==
    /\ request' = <<"write", r, v>>
    /\ \/ gpu' = [gpu EXCEPT ![r] = v]
       \/ r \notin Promised /\ UNCHANGED gpu

\* Another emitter of the stream writes the register.
Other(r, v) ==
    /\ request' = <<"other", r, v>>
    /\ gpu' = [gpu EXCEPT ![r] = v]

\* A stream begun anew knows nothing of the registers.
Restart ==
    /\ request' = <<"reset">>
    /\ gpu' \in [Regs -> Values]

Next ==
    \/ \E r \in Regs, v \in Values : Write(r, v) \/ Other(r, v)
    \/ Restart

Spec == Init /\ [][Next]_vars
=============================================================================
