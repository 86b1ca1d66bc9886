----------------------------- MODULE MCNetesto ------------------------------
(* The netesto link with a few controllers, hosts and connections.          *)
EXTENDS Netesto, TLC

CONSTANTS c1, c2, c3, h1, h2, s1, s2, s3

(* Bound: all but c1 issue one command in their life.                       *)
OthersOnce == \A c \in Controllers \ {c1} : ctl[c].id <= 1
=============================================================================
