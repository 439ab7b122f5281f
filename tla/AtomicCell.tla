----------------------------- MODULE AtomicCell -----------------------------
(***************************************************************************)
(* What a transactional store of one value promises: between two readings  *)
(* the value changes at most to the one being written, an answer "written" *)
(* comes only once the value is there, and an interruption leaves the old  *)
(* value or the new one.                                                   *)
(***************************************************************************)
CONSTANTS Contents,   \* the values of the cell
          Empty       \* its value before the first write

VARIABLES cell,       \* what a reader finds
          writing,    \* the set with the value being written, or {}
          written     \* the set with the value just confirmed, or {}

vars == <<cell, writing, written>>

Init == cell = Empty /\ writing = {} /\ written = {}

Begin(v) == /\ writing = {}
            /\ writing' = {v}
            /\ written' = {}
            /\ UNCHANGED cell

Write == /\ writing # {}
         /\ cell' \in {cell} \cup writing
         /\ writing' \in {writing, {}}
         /\ written' = {} \/ (writing' = {} /\ written' = writing /\ cell' \in writing)

Forget == written' = {} /\ UNCHANGED <<cell, writing>>

Next == (\E v \in Contents : Begin(v)) \/ Write \/ Forget
Spec == Init /\ [][Next]_vars
=============================================================================
