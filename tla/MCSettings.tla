------------------------------- MODULE MCSettings -------------------------------
(* Settings for TLC: two values of each; the programs are interchangeable.  *)
EXTENDS Settings, TLC

MCDefault ==
  [mode |-> "TCP", tcp |-> 4001, serial |-> "COM1",
   plain |-> "default", unsaved |-> "default", other |-> "default"]

ProgramSymmetry == Permutations(Programs)
=============================================================================
