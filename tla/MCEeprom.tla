------------------------------ MODULE MCEeprom ------------------------------
(***************************************************************************)
(* TLC instance of Eeprom.  Save threads are interchangeable.              *)
(***************************************************************************)
EXTENDS Eeprom, TLC

SaverSymmetry == Permutations(Savers)

=============================================================================
