-------------------------- MODULE MCRequestHandler --------------------------
(* Two nodes and one backup node under three attempts: a node may be left to *)
(* try, or all may have been tried. One of the statuses is retried, or none. *)
EXTENDS RequestHandler, TLC

CONSTANTS n1, n2, b1

MCNode == {n1, n2}
MCBackupNode == {b1}
MCAttempts == 3
MCStatuses == {200, 502}
MCBreakStatus == 503
MCRetryOn == {{}, {502}, {502, 503}}

\* The endpoint's nodes are interchangeable; all properties are invariants.
MCSymmetry == Permutations(MCNode)
=============================================================================
