---------------------------- MODULE MCRouterSwap ----------------------------
(* Two Updates of up to two endpoints, so that a router with clients is      *)
(* swapped out, with two requests that may load, enter and leave at any time.*)
EXTENDS RouterSwap

CONSTANTS q1, q2

MCSizes == <<{2}, {0, 1}>>
MCRequest == {q1, q2}
=============================================================================
