-------------------------- MODULE AttributePolicy --------------------------
(***************************************************************************)
(* The attribute policy of P11Attributes.cpp for the flags of a secret or  *)
(* private key that decide whether its value may leave the token: which of *)
(* them a template may change, in which operation, and what else changes.  *)
(***************************************************************************)
EXTENDS Naturals

CreationOps == {"CREATE", "GENERATE", "DERIVE", "UNWRAP", "DECAPSULATE"}
Ops         == CreationOps \union {"SET", "COPY"}

Flags == {"MODIFIABLE", "COPYABLE", "SENSITIVE", "EXTRACTABLE",
          "ALWAYS_SENSITIVE", "NEVER_EXTRACTABLE", "WRAP_WITH_TRUSTED"}

FlagsType == [Flags -> BOOLEAN]

\* setDefault of each attribute.
Defaults ==
  [f \in Flags |-> f \in {"MODIFIABLE", "COPYABLE", "EXTRACTABLE", "NEVER_EXTRACTABLE"}]

\* The footnotes of PKCS #11 that the constructors of the attributes give them.
checks ==
  [f \in Flags |->
     CASE f = "MODIFIABLE"        -> {17}
       [] f = "COPYABLE"          -> {12}
       [] f = "SENSITIVE"         -> {8, 9, 11}
       [] f = "EXTRACTABLE"       -> {8, 9, 12}
       [] f = "WRAP_WITH_TRUSTED" -> {11}
       [] OTHER                   -> {2, 4, 6}]

\* P11Attribute::update, down to its calls of updateAttr: may an attribute with these
\* footnotes be written?  A trusted certificate counts as not modifiable.
MayUpdate(cks, op, modifiable, certificate) ==
  /\ modifiable \/ op \in {"GENERATE", "CREATE", "UNWRAP", "DECAPSULATE"}
  /\ ~ (2 \in cks /\ op = "CREATE")
  /\ ~ (4 \in cks /\ op = "GENERATE")
  /\ ~ (6 \in cks /\ op = "UNWRAP")
  /\ \/ op \in {"SET", "COPY"} /\ cks \intersect {8, 11} # {}
     \/ op = "SET" /\ 10 \in cks /\ certificate
     \/ op = "COPY" /\ 17 \in cks
     \/ op \in CreationOps

Updatable(flags, f, op) == MayUpdate(checks[f], op, flags["MODIFIABLE"], FALSE)

\* Mutant: an existing key may be made readable or extractable again.
AcceptsReturn(flags, f, v, op) ==
  f \notin {"ALWAYS_SENSITIVE", "NEVER_EXTRACTABLE"}

\* The checks of the updateAttr of each attribute.
Accepts(flags, f, v, op) ==
  /\ f \notin {"ALWAYS_SENSITIVE", "NEVER_EXTRACTABLE"}
  /\ f = "COPYABLE" => (v => flags["COPYABLE"])
  /\ op \in {"SET", "COPY"} =>
       /\ f = "SENSITIVE" => ~ flags["SENSITIVE"]
       /\ f = "EXTRACTABLE" => flags["EXTRACTABLE"]
       /\ f = "WRAP_WITH_TRUSTED" => ~ flags["WRAP_WITH_TRUSTED"]

\* What P11AttrSensitive::updateAttr stores in CKA_ALWAYS_SENSITIVE and
\* P11AttrExtractable::updateAttr in CKA_NEVER_EXTRACTABLE.
Remembered(flags, f, v, op) ==
  [flags EXCEPT
     !["ALWAYS_SENSITIVE"] =
        IF f # "SENSITIVE" THEN @
        ELSE v /\ (@ \/ op \in {"GENERATE", "DERIVE"}),
     !["NEVER_EXTRACTABLE"] = @ /\ ~ (f = "EXTRACTABLE" /\ v)]

Allowed(flags, f, v, op) == Updatable(flags, f, op) /\ Accepts(flags, f, v, op)
Updated(flags, f, v, op) == [Remembered(flags, f, v, op) EXCEPT ![f] = v]

\* P11Attribute::retrieve, of an attribute with footnote 7: CKA_VALUE and the like.
Retrievable(flags) == ~ flags["SENSITIVE"] /\ flags["EXTRACTABLE"]
=============================================================================
