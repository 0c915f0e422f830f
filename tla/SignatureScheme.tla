--------------------------- MODULE SignatureScheme ---------------------------
(****************************************************************************)
(* What a signing token promises, whatever computes the signatures: the      *)
(* signature an application is given is the one the standard defines for     *)
(* what it asked, and a verification accepts a signature exactly when it is  *)
(* the one the standard defines for what the verification was asked. Where   *)
(* the standard defines none, nothing is signed and nothing is accepted.     *)
(*                                                                           *)
(* Signatures are ideal: StandardSignature(request) is the same value every  *)
(* time, and differs for requests that the standard tells apart.             *)
(****************************************************************************)
CONSTANTS
  StandardSignature(_),  \* of a mechanism with its parameter, a key and data
  NoSignature            \* of a request the standard defines no signature for

VARIABLES
  issued,    \* what the application holds: [request, value]
  verdict    \* of the last verification: [known, request, accepted, fault]

Init == issued.value = NoSignature /\ ~verdict.known

Issue ==
  /\ issued'.value # NoSignature
  /\ issued'.value = StandardSignature(issued'.request)
  /\ UNCHANGED verdict

\* A cryptographic library that fails may make the verification fail, never succeed.
Check ==
  /\ verdict'.known
  /\ verdict'.accepted <=> /\ ~verdict'.fault
                           /\ issued.value = StandardSignature(verdict'.request)
                           /\ issued.value # NoSignature
  /\ UNCHANGED issued

\* The application goes on to its next question, or lets go of its signature.
Ask     == ~verdict'.known /\ UNCHANGED issued
Discard == ~verdict'.known /\ issued'.value = NoSignature

Next == Issue \/ Check \/ Ask \/ Discard

Spec == Init /\ [][Next]_<<issued, verdict>>
=============================================================================
