------------------------------ MODULE MCCompT -------------------------------
(***************************************************************************)
(* Model checking of CompT with a 4-bit fraction and 2-bit exponents; the  *)
(* inputs reach past the largest number the format can hold (16 * 4 ^ 4).  *)
(* The encoder stops when it has returned: deadlock is not an error.       *)
(***************************************************************************)
EXTENDS CompT
=============================================================================
