------------------------------ MODULE MCEeprom ------------------------------
(* Model checking of the EEPROM emulation: the instance of EepromRefinement *)
(* its configurations give values to, and the mutations of its actions.     *)
EXTENDS EepromRefinement
============================================================================
