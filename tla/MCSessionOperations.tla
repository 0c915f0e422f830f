------------------------ MODULE MCSessionOperations ------------------------
(* A block of four bytes, a tag of three; a filter of Botan collects eight    *)
(* bytes; a counter of two bits; CK_ULONG has 10 bits and int 6.              *)
EXTENDS SessionOperations
=============================================================================
