-------------------------------- MODULE MCCrc --------------------------------
(* Crc for TLC: bytes that reach every value of the register.               *)
EXTENDS Crc

MCData == {0, 1, 81}
=============================================================================
