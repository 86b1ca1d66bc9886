------------------------------- MODULE CompT --------------------------------
(***************************************************************************)
(* encode_comp_t (bsdacctd/bsdacctd.c): the loop that packs a count into a *)
(* 16-bit floating number with a 13-bit fraction and a 3-bit exponent in   *)
(* base 8, as the accounting records hold times, faults and memory.        *)
(*                                                                         *)
(* The two widths appear only through their powers of two: Frac is         *)
(* 1 << mantsize and Base is 1 << expsize, which is both the base of the   *)
(* exponent and the number of exponents the format has.                    *)
(***************************************************************************)
EXTENDS Integers

CONSTANTS Frac, Base,
          Tick,       (* microseconds in a tick of accounting time         *)
          MaxInput    (* bound: largest count given to the encoder         *)

ASSUME CompTAssumption ==
  /\ Frac \in Nat \ {0}
  /\ Base \in Nat /\ Base % 2 = 0 /\ Base >= 2
  /\ Frac % Base = 0
  /\ Tick \in Nat \ {0}
  /\ MaxInput \in Nat

VARIABLES
  input,   (* the count being encoded                                      *)
  value,   (* what is left of it                                           *)
  exp,     (* how often it was divided by Base                             *)
  rnd,     (* was the last part cut off half of a unit or more             *)
  pc,      (* where encode_comp_t is                                       *)
  comp,    (* the comp_t returned                                          *)
  unit     (* Base ^ exp: serves to state properties                       *)

vars == <<input, value, exp, rnd, pc, comp, unit>>

(* Mutant: the limit is one digit too small.                               *)
maxfractShort == Frac \div Base

(* 1UL << mantsize, the largest value the loop leaves alone.               *)
maxfract == Frac

(* Times are counted in ticks.                                             *)
usec_to_AHZ(usec) == usec \div Tick

Init ==
  /\ \E n \in 0 .. MaxInput : input \in {n, usec_to_AHZ(n)}
  /\ value = input
  /\ exp = 0
  /\ rnd = FALSE
  /\ pc = "loop"
  /\ comp = 0
  /\ unit = 1

(* Mutant: the low bit of the digit.                                       *)
LowBit(v) == v % 2 = 1

(* rnd is the top bit of the digit shifted out.                            *)
TopBit(v) == v % Base >= Base \div 2

Shift ==
  /\ pc = "loop"
  /\ value > maxfract
  /\ rnd' = TopBit(value)
  /\ value' = value \div Base
  /\ exp' = exp + 1
  /\ unit' = unit * Base
  /\ UNCHANGED <<input, pc, comp>>

Round ==
  /\ pc = "loop"
  /\ value <= maxfract
  /\ pc' = "pack"
  /\ \/ /\ ~rnd
        /\ UNCHANGED <<value, exp, unit>>
     \/ /\ rnd
        /\ value + 1 <= maxfract
        /\ value' = value + 1
        /\ UNCHANGED <<exp, unit>>
     \/ /\ rnd
        /\ value + 1 > maxfract
        /\ value' = (value + 1) \div Base
        /\ exp' = exp + 1
        /\ unit' = unit * Base
  /\ UNCHANGED <<input, rnd, comp>>

(* Mutant: the fields overlap.                                             *)
PackOverlapping ==
  /\ pc = "pack"
  /\ comp' = (exp * Base + value) % (Frac * Base)
  /\ pc' = "done"
  /\ UNCHANGED <<input, value, exp, rnd, unit>>

(* (exp << mantsize) + value, cut to the 16 bits of a comp_t.              *)
Pack ==
  /\ pc = "pack"
  /\ comp' = (exp * Frac + value) % (Frac * Base)
  /\ pc' = "done"
  /\ UNCHANGED <<input, value, exp, rnd, unit>>

Next == Shift \/ Round \/ Pack

Spec == Init /\ [][Next]_vars

-----------------------------------------------------------------------------

Within(x, y, e) == -e <= 2 * (x - y) /\ 2 * (x - y) <= e

(* The pair the loop arrives at is the input rounded to the nearest        *)
(* multiple of its unit, and its fraction is at most 1 << mantsize.        *)
Nearest ==
  pc # "loop" => /\ Within(value * unit, input, unit)
                 /\ value <= Frac

(* Base ^ e for the exponents that the format has.                         *)
Power[e \in 0 .. (Base - 1)] == IF e = 0 THEN 1 ELSE Base * Power[e - 1]

(* What a reader of the record decodes.                                    *)
Decode(c) == (c % Frac) * Power[c \div Frac]

(* A fraction and an exponent that fit their fields decode to the rounded  *)
(* input.                                                                  *)
RoundTrip ==
  pc = "done" /\ value < Frac /\ exp < Base => Within(Decode(comp), input, unit)

(* The loop divides no more often than it must: an input that it has       *)
(* divided still has a digit in the leading place of the fraction.         *)
Tight == pc # "loop" /\ exp > 0 => Base * value >= Frac

-----------------------------------------------------------------------------
(* "we store the largest value of VSIZE the task ever saw"                 *)
(* (bsdacctd.c:432): whatever has an exponent that fits can be read back.  *)
StoresInput == pc = "done" /\ exp < Base => Within(Decode(comp), input, unit)
=============================================================================
