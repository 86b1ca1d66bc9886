----------------------------- MODULE MCBsdacctd -----------------------------
(***************************************************************************)
(* Model checking of Bsdacctd: a record is two units so that a write can   *)
(* be cut short, a block two records, the buffer two blocks, and the file  *)
(* may grow to five buffers, enough for three trims between truncations.   *)
(***************************************************************************)
EXTENDS Bsdacctd
=============================================================================
