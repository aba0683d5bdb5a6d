-------------------------- MODULE MCHealthChecker --------------------------
(* HealthChecker with the production threshold of three failures. *)
EXTENDS HealthChecker

CONSTANTS a1, a2

MCAddr == {a1, a2}
MCMaxFailures == 3
MCCountCap == 3
=============================================================================
