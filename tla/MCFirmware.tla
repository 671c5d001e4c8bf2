------------------------------ MODULE MCFirmware ------------------------------
(* A device of two possible identities, a counter that wraps after two     *)
(* intervals, and two restarts.                                            *)
EXTENDS Firmware

CONSTANTS u1, u2

MCIdentities == {u1, u2}

=============================================================================
