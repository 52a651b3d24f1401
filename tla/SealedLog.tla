------------------------------ MODULE SealedLog ------------------------------
(***************************************************************************)
(* What a task event log promises its readers: facts are only ever added,  *)
(* each numbered above all the others, until one of them is the outcome of *)
(* the task, which is final.                                               *)
(***************************************************************************)
EXTENDS Integers

CONSTANTS
    Number,     \* the numbers facts carry
    Type,       \* the types of facts
    Outcome     \* those that end the task

VARIABLES
    recorded,   \* the facts, as pairs of number and type
    outcome     \* the outcome of the task, or "none" while it is open

vars == <<recorded, outcome>>

Init == recorded = {} /\ outcome = "none"

Record(n, t) ==
    /\ outcome = "none"
    /\ \A fact \in recorded : n > fact[1]
    /\ recorded' = recorded \cup {<<n, t>>}
    /\ outcome' = IF t \in Outcome THEN t ELSE "none"

Next == \E n \in Number, t \in Type : Record(n, t)

Spec == Init /\ [][Next]_vars
================================================================================
