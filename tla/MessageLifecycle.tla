-------------------------- MODULE MessageLifecycle --------------------------
(***************************************************************************)
(* What the message server promises to whoever reads its tables: the life  *)
(* of a message, without handlers, jobs, queries or crashes.               *)
(*                                                                         *)
(* A row is created, handed to the provider once, settled once by what is  *)
(* known of the provider's answer; an accepted one may be concluded once,  *)
(* with the counts of its delivery, and then the client may be told, once. *)
(* MessageServer implements this.                                          *)
(***************************************************************************)
CONSTANT Messages

VARIABLES
    status,   \* Message.status, "NONE" before there is a row
    handed,   \* a request for it has left for the provider
    counted,  \* a DeliveryResult is stored
    told      \* the webhook has reached the client

vars == <<status, handed, counted, told>>

\* README's diagram of the message states, and one arrow that is not in it:
\* an accepted SMS reservation goes back to SCHEDULED.
Settlements == {"ACCEPTED", "SCHEDULED", "PENDING", "FAILED"}
Conclusions == {"DELIVERED", "FAILED"}

Init ==
    /\ status = [m \in Messages |-> "NONE"]
    /\ handed = [m \in Messages |-> FALSE]
    /\ counted = [m \in Messages |-> FALSE]
    /\ told = [m \in Messages |-> FALSE]

Become(m, st) == status' = [status EXCEPT ![m] = st]

Create(m) ==
    /\ status[m] = "NONE"
    /\ Become(m, "DISPATCHING")
    /\ UNCHANGED <<handed, counted, told>>

HandOver(m) ==
    /\ status[m] = "DISPATCHING" /\ ~handed[m]
    /\ handed' = [handed EXCEPT ![m] = TRUE]
    /\ UNCHANGED <<status, counted, told>>

Settle(m) ==
    /\ status[m] = "DISPATCHING" /\ handed[m]
    /\ \E st \in Settlements : Become(m, st)
    /\ UNCHANGED <<handed, counted, told>>

Conclude(m) ==
    /\ status[m] = "ACCEPTED" /\ ~counted[m]
    /\ \E st \in Conclusions : Become(m, st)
    /\ counted' = [counted EXCEPT ![m] = TRUE]
    /\ UNCHANGED <<handed, told>>

Tell(m) ==
    /\ counted[m] /\ ~told[m]
    /\ told' = [told EXCEPT ![m] = TRUE]
    /\ UNCHANGED <<status, handed, counted>>

Next ==
    \E m \in Messages :
        Create(m) \/ HandOver(m) \/ Settle(m) \/ Conclude(m) \/ Tell(m)

Spec == Init /\ [][Next]_vars
=============================================================================
