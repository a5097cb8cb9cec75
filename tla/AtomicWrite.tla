----------------------------- MODULE AtomicWrite -----------------------------
(***************************************************************************)
(* What a call of createOrUpdate promises its caller, whatever it does     *)
(* inside: between the call and its answer the object takes the built      *)
(* value at most once, in one step; never over a change the call has not   *)
(* looked at; and the answer is "ok" only if it did.  Others may change    *)
(* the object at any time.                                                 *)
(***************************************************************************)
EXTENDS Naturals

CONSTANTS Versions,   \* the states of the object
          Absent      \* the one in which it is not there

VARIABLES
    obj,      \* the object in the API server
    built,    \* what the call is to write
    call,     \* "idle" or "pending"
    answer,   \* of the last call: "none" as long as there is none
    fresh,    \* the call has looked since anyone else changed the object
    writes    \* how often the call has written

avars == <<obj, built, call, answer, fresh, writes>>

AInit ==
    /\ obj = Absent /\ built = Absent
    /\ call = "idle" /\ answer = "none" /\ fresh = FALSE /\ writes = 0

Ask ==
    /\ call = "idle" /\ call' = "pending"
    /\ built' \in Versions \ {Absent}
    /\ answer' = "none" /\ fresh' = FALSE /\ writes' = 0
    /\ UNCHANGED obj

Look ==
    /\ call = "pending" /\ fresh' = TRUE
    /\ UNCHANGED <<obj, built, call, answer, writes>>

\* The write, and the answer with it.  An error does not tell whether the
\* write was applied.
Effect ==
    /\ call = "pending" /\ writes = 0
    /\ fresh \/ obj = Absent
    /\ obj' = built /\ writes' = 1
    /\ call' = "idle" /\ answer' \in {"ok", "error"}
    /\ UNCHANGED <<built, fresh>>

GiveUp ==
    /\ call = "pending" /\ call' = "idle" /\ answer' = "error"
    /\ UNCHANGED <<obj, built, fresh, writes>>

Others ==
    /\ obj' \in Versions /\ fresh' = FALSE
    /\ UNCHANGED <<built, call, answer, writes>>

ANext == Ask \/ Look \/ Effect \/ GiveUp \/ Others

ASpec == AInit /\ [][ANext]_avars
=============================================================================
