--------------------------- MODULE MCAddressParser ---------------------------
(***************************************************************************)
(* AddressParser for TLC, with a six-bit unsigned type: "11" and "18" fit, *)
(* "81" does not, and "8" is too large for a bit index.                    *)
(***************************************************************************)
EXTENDS AddressParser

SixBits == 2 ^ 6 - 1
Characters == {"%", "I", "q", "x", "B", "D", ".", "1", "8", " "}

=============================================================================
