---------------------------- MODULE MCBaseIndex ----------------------------
(* Files f and g with symbols a and b.                                      *)
EXTENDS BaseIndex

CONSTANTS i, f, g, a, b
=============================================================================
