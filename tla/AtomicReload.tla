---------------------------- MODULE AtomicReload ----------------------------
(***************************************************************************)
(* What the gateway's configuration loader promises: the configuration     *)
(* that is served and the environment variables it brings change together  *)
(* in one step, and only to a configuration that can be used. A refused    *)
(* configuration is never seen.                                            *)
(***************************************************************************)
CONSTANTS
    Bootable,     \* main configurations a process can start with
    Usable,       \* main configurations a reload accepts
    Overlay,      \* contents of the priority directory that may be merged
    Key,          \* names of environment variables
    EnvKeys(_)    \* the variables a main configuration sets

VARIABLES served, env

Nothing == [main |-> 0, prio |-> 0]

\* Variables the new configuration does not name keep their values.
Overridden(e, c) == [k \in Key |-> IF k \in EnvKeys(c) THEN c ELSE e[k]]

Init ==
    /\ served = Nothing
    /\ env = [k \in Key |-> 0]

Serve(c) ==
    /\ \E p \in Overlay : served' = [main |-> c, prio |-> p]
    /\ env' = Overridden(env, c)

Boot == served = Nothing /\ \E c \in Bootable : Serve(c)

Reload == served # Nothing /\ \E c \in Usable : Serve(c)

Next == Boot \/ Reload

Spec == Init /\ [][Next]_<<served, env>>
=============================================================================
