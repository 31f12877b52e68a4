----------------------------- MODULE Alignment -----------------------------
(***************************************************************************)
(* The functions of src/math/alignment.hpp, on values that are not negative *)
(* and alignments that are a power of two: "& (alignment - 1)" is then the  *)
(* remainder, here of the negated value.                                    *)
(***************************************************************************)
EXTENDS Integers

\* math::padding(value, alignment)
Padding(value, alignment) == (alignment - (value % alignment)) % alignment

=============================================================================
