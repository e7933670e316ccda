----------------------------- MODULE MCLogging -------------------------------
EXTENDS Logging

(* 16-bit values around the changes of sign and of the number of digits.   *)
SomeInts == {-32768, -100, -9, 0, 10, 32767}
=============================================================================
