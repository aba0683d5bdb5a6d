---------------------------- MODULE MCFileReload ----------------------------
(* Each file has three contents. The second model cannot be built from, the  *)
(* third does not go with the second policy, and the third policy is empty,  *)
(* which validate refuses; the second certificate has no RSA key. Crashes,   *)
(* restarts and streams that end may happen any number of times.             *)
EXTENDS FileReload

CONSTANTS q1, q2

MCRequest == {q1, q2}
MCMalformed(f, v) == <<f, v>> \in {<<"policy", 3>>}
MCLoads(u, c) ==
    IF u = "jwt" THEN c["key"] # 2
    ELSE c["model"] # 2 /\ (c["model"] = 3 => c["policy"] # 2)
=============================================================================
