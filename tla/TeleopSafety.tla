------------------------------ MODULE TeleopSafety ------------------------------
(***************************************************************************)
(* What the gateway promises about permission to move, without envelopes,  *)
(* rejections or a neck: one holder at a time has permission, under an     *)
(* identifier that never had it before; permission is engaged within the   *)
(* handshake time, is kept by orders of increasing number that are never a *)
(* lease apart, and is lost for good; a latch ends it all.                 *)
(*                                                                         *)
(* signal is what the latest step told the actuators: nothing, a motion    *)
(* order, or to stop.                                                      *)
(***************************************************************************)
EXTENDS Integers

CONSTANTS
    Holder,     \* who may hold permission
    Nobody,
    Number,     \* numbers of orders
    Handshake,  \* time to engage
    Lease       \* time without an order after which permission is void

VARIABLES
    phase,      \* "off", "arming", "on" or "latched"
    holder,
    known,      \* holders so far
    number,     \* number of the latest order of the holder
    begun,      \* when the holder began
    heard,      \* when the holder's latest order was obeyed
    clock,
    signal

vars == <<phase, holder, known, number, begun, heard, clock, signal>>

Init ==
    /\ phase = "off"
    /\ holder = Nobody /\ number = Nobody /\ begun = Nobody /\ heard = Nobody
    /\ known = {}
    /\ clock \in Nat
    /\ signal = "quiet"

Vacate == holder' = Nobody /\ number' = Nobody /\ begun' = Nobody /\ heard' = Nobody

(* A holder that never was one begins, also in place of another.           *)
Begin(h, n) ==
    /\ phase # "latched"
    /\ h \notin known
    /\ phase' = "arming"
    /\ holder' = h /\ known' = known \cup {h}
    /\ number' = n /\ begun' = clock /\ heard' = clock
    /\ signal' = "quiet"
    /\ UNCHANGED clock

(* An order of the holder is obeyed: it comes in time and in sequence.     *)
Obey(n) ==
    /\ n > number
    /\ phase = "arming" => clock - begun < Handshake
    /\ phase = "on" => clock - heard < Lease
    /\ number' = n /\ heard' = clock
    /\ UNCHANGED <<holder, known, begun, clock>>

Engage(n) ==
    /\ phase \in {"arming", "on"}
    /\ Obey(n)
    /\ phase' = "on" /\ signal' = "quiet"

Keep(n) ==
    /\ phase \in {"arming", "on"}
    /\ Obey(n)
    /\ signal' = "quiet" /\ UNCHANGED phase

Move(n) ==
    /\ phase = "on"
    /\ Obey(n)
    /\ signal' = "move" /\ UNCHANGED phase

(* Permission ends; the actuators are told to stop if it was engaged.      *)
End ==
    /\ phase \in {"arming", "on"}
    /\ phase' = "off"
    /\ Vacate
    /\ signal' \in {"quiet", "stop"}
    /\ phase = "on" => signal' = "stop"
    /\ UNCHANGED <<known, clock>>

Latch ==
    /\ phase' = "latched"
    /\ Vacate
    /\ signal' = "stop"
    /\ UNCHANGED <<known, clock>>

Ignore ==
    /\ signal' = "quiet"
    /\ UNCHANGED <<phase, holder, known, number, begun, heard, clock>>

Elapse ==
    /\ clock' = clock + 1
    /\ UNCHANGED <<phase, holder, known, number, begun, heard, signal>>

Next ==
    \/ \E h \in Holder, n \in Number : Begin(h, n)
    \/ \E n \in Number : Engage(n) \/ Keep(n) \/ Move(n)
    \/ End \/ Latch \/ Ignore \/ Elapse

Spec == Init /\ [][Next]_vars
================================================================================
