-------------------------- MODULE MCServiceWatcher --------------------------
(* Two clients of one service: the second may subscribe while the first is   *)
(* still served, or after the first one's status was removed.                *)
EXTENDS ServiceWatcher

CONSTANTS p1, p2

MCApplier == {p1, p2}
MCMaxStatus == 2
MCMaxVersion == 2
=============================================================================
