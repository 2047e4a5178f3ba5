------------------------------- MODULE MCPanel -------------------------------
(* Small instances of Panel for TLC.                                        *)
EXTENDS Panel, TLC

(* A wall-clock schedule every two units and an interval of one             *)
Clock    == [kind |-> "clock", every |-> 2]
Interval == [kind |-> "interval", every |-> 1]
Both     == {Clock, Interval}
OnlyClock == {Clock}

(* Ticks run the same code, and so do requests.                             *)
Symmetry == Permutations(Ticks) \cup Permutations(Requests)

=============================================================================
