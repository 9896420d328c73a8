------------------------------ MODULE MCEngine ------------------------------
(***************************************************************************)
(* Instances of EngineSystem for TLC.                                      *)
(***************************************************************************)
EXTENDS EngineSystem

AllDisplays(raw) == [d \in Displays |-> raw]

Max100 == AllDisplays(100)   \* the usual DDC range

Max50  == AllDisplays(50)    \* a panel with a coarser range

Start50  == AllDisplays(50)
Start40  == AllDisplays(40)
Start120 == AllDisplays(120)   \* a panel that reads above its maximum

=============================================================================
