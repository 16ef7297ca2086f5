----------------------------- MODULE Semaphore -----------------------------
(***************************************************************************)
(* What zemaphore.h promises: counting semaphores.  A thread asks to go    *)
(* down and gets through, in one step, when the value is positive; going   *)
(* up raises the value in one step.                                        *)
(***************************************************************************)
EXTENDS Integers

CONSTANTS Threads, Zems, InitialValue

VARIABLES
  value,     \* the permits of each semaphore
  waiting    \* the pairs <<thread, semaphore>> of threads inside zem_down

Init == value = InitialValue /\ waiting = {}

Ask(t, z) ==
  /\ \A y \in Zems : <<t, y>> \notin waiting
  /\ waiting' = waiting \cup {<<t, z>>}
  /\ UNCHANGED value

Down(t, z) ==
  /\ <<t, z>> \in waiting
  /\ value[z] > 0
  /\ value' = [value EXCEPT ![z] = @ - 1]
  /\ waiting' = waiting \ {<<t, z>>}

Up(z) ==
  /\ value' = [value EXCEPT ![z] = @ + 1]
  /\ UNCHANGED waiting

Next == \E z \in Zems : Up(z) \/ \E t \in Threads : Ask(t, z) \/ Down(t, z)

vars == <<value, waiting>>
Spec == Init /\ [][Next]_vars
=============================================================================
