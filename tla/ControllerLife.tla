-------------------------- MODULE ControllerLife --------------------------
(***************************************************************************)
(* What Stimulus promises about the controllers of a page: those that are  *)
(* connected change only by being brought in line, in one step, with those *)
(* the document asks for, and they are brought in line again and again for *)
(* as long as the document changes.                                        *)
(***************************************************************************)
VARIABLES wanted, connected

life == <<wanted, connected>>

Init == connected = {}

Next == connected' \in {connected, wanted'}

Synced == connected = wanted

Spec == Init /\ [][Next]_life /\ []<>Synced
===========================================================================
