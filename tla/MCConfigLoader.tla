--------------------------- MODULE MCConfigLoader ---------------------------
(* Five contents of the main configuration: two that can be used, with a     *)
(* refused one, one whose variables cannot all be set and one that cannot be *)
(* decoded among them. The process starts with any prefix of them written.   *)
EXTENDS ConfigLoader

CONSTANTS k1, k2

MCKey == {k1, k2}
MCUndecodable == {4}
MCBadEnv == {3}
MCRejected == {2}
MCEnvKeys(v) == IF v = 1 THEN {k1} ELSE {k1, k2}
=============================================================================
