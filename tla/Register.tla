------------------------------ MODULE Register ------------------------------
(* What a stored key promises whoever does not wait for it: each write takes  *)
(* effect once, at one instant between its call and its answer, or is refused *)
(* or cut off and has none; a read is answered with what was there at one     *)
(* instant between its call and its answer, or with nothing if it fails.      *)
CONSTANTS Writers, Values, NoValue

VARIABLES value,    \* NoValue until something is written
          writing,  \* [Writers -> the value whose write is under way, in a set]
          written,  \* [Writers -> how the last write ended]
          reading,  \* whether a read is under way
          read      \* its answer

rvars == <<value, writing, written, reading, read>>

RInit ==
    /\ value = NoValue /\ read = NoValue
    /\ writing = [w \in Writers |-> {}]
    /\ written = [w \in Writers |-> "none"]
    /\ reading = FALSE

Write(w) ==
    /\ writing[w] = {}
    /\ \E v \in Values : writing' = [writing EXCEPT ![w] = {v}]
    /\ written' = [written EXCEPT ![w] = "none"]
    /\ UNCHANGED <<value, reading, read>>

Takes(w) ==
    /\ value' \in writing[w]
    /\ writing' = [writing EXCEPT ![w] = {}]
    /\ written' = [written EXCEPT ![w] = "fulfilled"]
    /\ UNCHANGED <<reading, read>>

Refused(w) ==
    /\ writing[w] # {}
    /\ writing' = [writing EXCEPT ![w] = {}]
    /\ written' = [written EXCEPT ![w] = "rejected"]
    /\ UNCHANGED <<value, reading, read>>

Read ==
    /\ ~reading
    /\ reading' = TRUE
    /\ UNCHANGED <<value, writing, written, read>>

Answers ==
    /\ reading
    /\ reading' = FALSE
    /\ read' \in {value, NoValue}
    /\ UNCHANGED <<value, writing, written>>

CutOff ==
    /\ writing' = [w \in Writers |-> {}]
    /\ written' = [w \in Writers |-> "none"]
    /\ reading' = FALSE /\ read' = NoValue
    /\ UNCHANGED value

RNext ==
    \/ \E w \in Writers : Write(w) \/ Takes(w) \/ Refused(w)
    \/ Read \/ Answers \/ CutOff

RSpec == RInit /\ [][RNext]_rvars

=============================================================================
