------------------------------ MODULE MCScreen ------------------------------
(***************************************************************************)
(* Screen with at most MaxOutputs characters printed, erased or cleared.   *)
(***************************************************************************)
EXTENDS Screen

CONSTANT MaxOutputs

VARIABLE outputs

MCInit == Init /\ outputs = 0

Output == Write \/ EchoKey \/ Backspace \/ CtrlL
Switch == Tick \/ \E n \in Terms : AltF(n)

MCNext ==
  \/ outputs < MaxOutputs /\ Output /\ outputs' = outputs + 1
  \/ Switch /\ UNCHANGED outputs

MCSpec == MCInit /\ [][MCNext]_<<vars, outputs>>

=============================================================================
