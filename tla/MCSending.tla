----------------------------- MODULE MCSending -------------------------------
(* Model values of Sending: bytes that are no header decode to a length    *)
(* below -sizeof(int), to one above it, to zero or to a small one.         *)
EXTENDS Sending

MCAnyLens == {-3, -2, -1, 0, 1}
=============================================================================
