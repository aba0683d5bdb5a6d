--------------------------- MODULE MCControlPlane ---------------------------
(* Three releases from two services: the second adds a priority config, the  *)
(* third drops the first one.                                                *)
EXTENDS ControlPlane

CONSTANTS a, b

MCKey == {a, b}
MCKeysOf(r) == CASE r = 1 -> {a} [] r = 2 -> {a, b} [] OTHER -> {b}
=============================================================================
