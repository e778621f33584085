---------------------------- MODULE MCController ----------------------------
(***************************************************************************)
(* The instances of Controller that TLC checks.  The constants are given   *)
(* in the configurations; the symmetry set is used only where no switch or *)
(* controller is named in a constant, and no node except in BootWritable.  *)
(***************************************************************************)
EXTENDS ControllerInv, TLC

SwitchSymmetry ==
  Permutations(Switches) \cup Permutations(Nodes \ BootWritable)
    \cup Permutations(Controllers)
=============================================================================
