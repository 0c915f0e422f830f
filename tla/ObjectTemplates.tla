-------------------------- MODULE ObjectTemplates --------------------------
(***************************************************************************)
(* How objects of every class come to be and change: the functions of      *)
(* SoftHSM.cpp that take a template (C_CreateObject, C_GenerateKey,        *)
(* C_GenerateKeyPair, C_UnwrapKey, C_DeriveKey, C_EncapsulateKey,          *)
(* C_DecapsulateKey, C_CopyObject, C_SetAttributeValue), P11Object::       *)
(* saveTemplate and the updateAttr of the attributes, in one session; and  *)
(* the command line tools, which make objects in a process of their own.   *)
(*                                                                         *)
(* The values of byte strings are not modelled, only whether one is there, *)
(* and whether it is stored in clear or encrypted under the key of the     *)
(* token.  A template maps attributes to one of "some", "other", "empty",  *)
(* "true" and "false", or to "short" and "long" for a number that says how *)
(* long another attribute is; "other" is a CKA_CHECK_VALUE that is not the *)
(* one of the key, "malformed" a value of a size the attribute never has.  *)
(***************************************************************************)
EXTENDS AttributePolicy, KeyMaterial, KeyImport, Functions, FiniteSetsExt

CONSTANTS
  MaxObjects, \* how many objects there may be at a time
  NoObject,
  Entries,    \* the entries, <<attribute, value>>, a template may have beyond those it must have
  Changes,    \* those with which an object is copied or changed
  MaxMade,    \* how many objects (or pairs) the application makes
  MaxCalls    \* how often it copies, changes or destroys one

VARIABLES
  object,    \* the object of each member of Objects, or NoObject
  role,      \* who is logged in: "none", "user" or "so"
  made, calls

vars == <<object, role, made, calls>>

Objects == 1..MaxObjects

Lengths == {"short", "long"}

Live == {o \in Objects : object[o] # NoObject}
Gone == Objects \ Live

\* Where the next object and the one after it go.
Next1 == Min(Gone)
Next2 == Min(Gone \ {Next1})
-----------------------------------------------------------------------------
(* The attributes: what updateAttr refuses *)

\* The length of the value: one Boolean, one number or date, whole entries of a list.
TakesBoolean(a, v) == a \in Booleans => v \in {"true", "false"}
TakesNumber(a, v)  == a \in Numbers \union Dates => v # "malformed"
TakesList(a, v) ==
  /\ a \in Lists => v # "malformed"
  /\ a = "ALLOWED_MECHANISMS" => v # "empty"

\* Set by the library alone.
TakesInternal(a) == a \notin SetByFunctions

TakesSize(a, op) ==
  /\ a = "VALUE_LEN" => op \in {"GENERATE", "DERIVE", "DECAPSULATE"}
  /\ a \in Sizes \ {"VALUE_LEN"} => op = "GENERATE"

TakesParameterSet(a, op) == a = "PARAMETER_SET" => op \in {"GENERATE", "CREATE"}

\* Mutant: anyone may declare an object to be trusted.
TakesTrustedFromAnyone(a, v, op) == TRUE

TakesTrusted(a, v, op) ==
  a = "TRUSTED" /\ (op = "SET" \/ v = "true") => role = "so"

TakesAuthenticate(a, v, isPrivate) ==
  a = "ALWAYS_AUTHENTICATE" /\ v = "true" => isPrivate

TakesCopyable(o, a, v) == a = "COPYABLE" /\ v = "true" => "COPYABLE" \in o.on

\* The kinds of key P11AttrValue::updateAttr and P11AttrCheckValue::updateAttr know how
\* to compute a check value of.
Checkable == {"Generic", "AES", "DES"}

\* Mutant: the check value is not compared with the key.
TakesAnyCheckValue(o, t, op) == TRUE

\* What is compared is the value as stored at that point: C_CreateObject sees to it
\* that CKA_VALUE comes first, and in a key that C_UnwrapKey or C_DeriveKey fills
\* later there is none yet.
TakesCheckValue(o, t, op) ==
  LET stored == IF "VALUE" \in DOMAIN t THEN t["VALUE"] = "some" ELSE "VALUE" \in o.filled IN
  "CHECK_VALUE" \in DOMAIN t /\ t["CHECK_VALUE"] # "empty" =>
    \/ o.kind = "GOST28147"
    \/ o.kind \in Checkable /\ stored /\ t["CHECK_VALUE"] = "some"

Takes(o, t, a, isPrivate, op) ==
  /\ a \in Attributes(o.kind)
  /\ MayUpdate(Footnotes(o.kind, a), op,
               "MODIFIABLE" \in o.on /\ ~ (IsCertificate(o.kind) /\ "TRUSTED" \in o.on),
               IsCertificate(o.kind))
  /\ TakesInternal(a)
  /\ TakesBoolean(a, t[a]) /\ TakesNumber(a, t[a]) /\ TakesList(a, t[a])
  /\ TakesSize(a, op)
  /\ TakesParameterSet(a, op)
  /\ TakesTrusted(a, t[a], op)
  /\ TakesAuthenticate(a, t[a], isPrivate)
  /\ TakesCopyable(o, a, t[a])
  /\ a = "CHECK_VALUE" => TakesCheckValue(o, t, op)

Mandatory(kind, op) ==
  {a \in Attributes(kind) :
     \/ 1 \in Footnotes(kind, a) /\ op = "CREATE"
     \/ 3 \in Footnotes(kind, a) /\ op = "GENERATE"
     \/ 5 \in Footnotes(kind, a) /\ op \in {"UNWRAP", "DECAPSULATE"}}
-----------------------------------------------------------------------------
(* The attributes: what updateAttr stores *)

Valued(t, v) == {a \in DOMAIN t : t[a] = v}

\* What the size of an object of this kind is the size of.
Measured(kind) ==
  IF "MODULUS_BITS" \in Attributes(kind) THEN "MODULUS"
  ELSE IF "PRIME_BITS" \in Attributes(kind) THEN "PRIME"
  ELSE "VALUE"
IsSized(kind) == Attributes(kind) \intersect Sizes # {}

\* P11AttrValue::updateAttr computes a check value, too; for some kinds of key an
\* empty one.
ComputesCheck(kind, t, op) ==
  /\ "VALUE" \in DOMAIN t
  /\ IsCertificate(kind) \/ (op = "CREATE" /\ IsSecret(kind))
HasCheck(kind) == IsCertificate(kind) \/ kind \in Checkable

StoredCheck(o, t, op) ==
  IF "CHECK_VALUE" \in DOMAIN t
    THEN CASE t["CHECK_VALUE"] = "some" -> "right" [] t["CHECK_VALUE"] = "other" -> "other"
           [] OTHER -> "none"
  ELSE IF ~ ComputesCheck(o.kind, t, op) THEN o.check
  ELSE IF HasCheck(o.kind) THEN "right" ELSE "none"

\* The size an entry of the template says, or that updateAttr takes from the byte
\* string itself on C_CreateObject; len is the length of that.
StoredSize(o, t, op, len) ==
  LET said == DOMAIN t \intersect Sizes
      m    == Measured(o.kind)
  IN  IF said # {} THEN t[CHOOSE a \in said : TRUE]
      ELSE IF op = "CREATE" /\ IsSized(o.kind) /\ m \in DOMAIN t /\ t[m] = "some" THEN len
      ELSE o.size

\* P11Attribute::updateAttr: a byte string of a private object is encrypted.
Seals(o, bytes, isPrivate) ==
  IF isPrivate THEN o.sealed \union bytes ELSE o.sealed \ bytes

\* What P11Object::saveTemplate leaves when no entry is refused.
Saved(o, t, isPrivate, op, len) ==
  LET check   == IF ComputesCheck(o.kind, t, op) THEN {"CHECK_VALUE"} ELSE {}
      version == IF op \in {"SET", "COPY"} /\ t # <<>> THEN o.version + 1 ELSE o.version
  IN
  [o EXCEPT
     !.private = IF "PRIVATE" \in DOMAIN t THEN t["PRIVATE"] = "true" ELSE @,
     !.token   = IF "TOKEN" \in DOMAIN t THEN t["TOKEN"] = "true" ELSE @,
     !.on      = ((@ \ Valued(t, "false")) \union Valued(t, "true")) \ {"PRIVATE", "TOKEN"},
     !.filled  = (((@ \union (IF HasCheck(o.kind) THEN check ELSE {})) \ Valued(t, "empty"))
                    \union Valued(t, "some") \union Valued(t, "other"))
                   \intersect (ByteStrings \union {"PARAMETER_SET"}),
     !.sealed  = Seals(o, (DOMAIN t \union check) \intersect ByteStrings, isPrivate),
     !.length  = IF op = "CREATE" THEN len ELSE @,
     !.size    = StoredSize(o, t, op, len),
     !.check   = StoredCheck(o, t, op),
     !.given   = IF op \in CreationOps THEN DOMAIN t ELSE @,
     !.version = version,
     !.vouched = IF "TRUSTED" \in Valued(t, "true")
                   THEN IF role = "so" THEN version ELSE MaxCalls + 1
                   ELSE @]

Acceptable(o, t, isPrivate, op) ==
  /\ op = "SET" => "MODIFIABLE" \in o.on
  /\ op = "COPY" => "COPYABLE" \in o.on
  /\ \A a \in DOMAIN t : Takes(o, t, a, isPrivate, op)
  /\ Mandatory(o.kind, op) \subseteq DOMAIN t
-----------------------------------------------------------------------------
(* CreateObject *)

\* In a read/write session: private objects are for the user alone.
haveWrite(isPrivate) == isPrivate => role = "user"
haveRead(isPrivate)  == isPrivate => role = "user"

\* Is the object to be private?  The functions that make keys start from the same
\* defaults and then put the answer in the template of the object.
extractObjectInformation(kind, t) ==
  IF "PRIVATE" \in DOMAIN t THEN t["PRIVATE"] = "true"
  ELSE ~ (IsCertificate(kind) \/ kind \in DOMAIN PublicKeys)

\* The object as P11Object::init leaves it: the flags that are on, of those that matter
\* here; the byte strings that are not empty, and those that are ciphertext; how long
\* the value is and which length another attribute says; whether the check value is
\* that of the value; the other half of a pair.  The rest is history: the attributes the
\* application gave, what made the object, how often it was changed, the version the
\* SO declared to be trusted (MaxCalls + 1: none), whether the application took a pair
\* apart, and whether the function that made the object failed without destroying it.
Initial(kind, onToken, op) ==
  [kind |-> kind, token |-> onToken, private |-> DefaultPrivate(kind),
   on |-> {"MODIFIABLE", "COPYABLE", "DESTROYABLE"}, filled |-> {}, sealed |-> {},
   length |-> "none", size |-> "none", check |-> "none", made |-> op, given |-> {},
   version |-> 0, vouched |-> MaxCalls + 1, half |-> NoObject, apart |-> FALSE, left |-> "no"]

\* When the template is refused or cannot be stored, the object stays behind: on the
\* token as it was before the transaction, in a session, where nothing is rolled back,
\* with the entries that came before the one refused.  In the template of the
\* application CKA_PRIVATE may come after that one.
LeftOver(kind, t, isPrivate, onToken, op, len, some) ==
  LET o      == Initial(kind, onToken, op)
      last   == IF op = "CREATE" THEN {"PRIVATE"} ELSE {}
      before == {a \in DOMAIN t \ last : Takes(o, t, a, isPrivate, op)}
  IN  IF some /\ ~ onToken
        THEN [Saved(o, Restrict(t, before), isPrivate, op, len) EXCEPT !.left = "partial"]
        ELSE [o EXCEPT !.left = "clean"]

\* The template CreateObject gets from the function op; only C_CreateObject hands on
\* what the application said about CKA_PRIVATE, the others what they made of it.
Handed(t, isPrivate, onToken, op) ==
  ("TOKEN" :> (IF onToken THEN "true" ELSE "false"))
    @@ (IF op = "CREATE" THEN <<>> ELSE "PRIVATE" :> (IF isPrivate THEN "true" ELSE "false"))
    @@ t

Creatable(kind, t, isPrivate, onToken, op) ==
  Acceptable(Initial(kind, onToken, op), Handed(t, isPrivate, onToken, op), isPrivate, op)

Created(kind, t, isPrivate, onToken, op, len) ==
  Saved(Initial(kind, onToken, op), Handed(t, isPrivate, onToken, op), isPrivate, op, len)

\* What a function that makes a key stores in it afterwards.
Filled(o, stores, length, size) ==
  [o EXCEPT !.filled = @ \union stores, !.sealed = Seals(o, stores, o.private),
            !.length = length, !.size = size]
-----------------------------------------------------------------------------
(* The templates of the application *)

Given(a, len) == IF a \in Sizes THEN len ELSE "some"

Sufficient(kind, op, len) ==
  [a \in Mandatory(kind, op) \union {"LABEL"} |-> Given(a, len)]

Types == {"CLASS", "KEY_TYPE", "CERTIFICATE_TYPE"}

\* Enough for the object, or one entry less or more, or with another value.
Templates(kind, op, len) ==
  LET t == Sufficient(kind, op, len) IN
  {t} \union {Restrict(t, DOMAIN t \ {a}) : a \in DOMAIN t \ Types}
      \union {(e[1] :> e[2]) @@ t : e \in Entries}

\* Of a template for a key that is generated or derived, a check value is either absent
\* or empty (then the key gets none), and never handed on.
NoCheckValue(t)   == "CHECK_VALUE" \in DOMAIN t => t["CHECK_VALUE"] = "empty"
WithoutCheck(t)   == Restrict(t, DOMAIN t \ {"CHECK_VALUE"})
ChecksWanted(t)   == "CHECK_VALUE" \notin DOMAIN t
LengthSaid(t)     == IF "VALUE_LEN" \in DOMAIN t THEN t["VALUE_LEN"] ELSE "long"
LengthsOf(kind)   == IF IsSized(kind) THEN Lengths ELSE {"long"}
-----------------------------------------------------------------------------
(* The functions *)

Make(x) ==
  /\ object' = [object EXCEPT ![Next1] = x]
  /\ made' = made + 1
  /\ UNCHANGED <<role, calls>>

CreateObject(kind, t, isPrivate, onToken, len, fault, some) ==
  IF ~ fault /\ Creatable(kind, t, isPrivate, onToken, "CREATE")
    THEN Created(kind, t, isPrivate, onToken, "CREATE", len)
    ELSE LeftOver(kind, Handed(t, isPrivate, onToken, "CREATE"), isPrivate, onToken,
                  "CREATE", len, some)

C_CreateObject ==
  /\ made < MaxMade
  /\ \E kind \in Kinds, onToken, fault, some \in BOOLEAN :
         \E len \in LengthsOf(kind) : \E t \in Templates(kind, "CREATE", len) :
           LET isPrivate == extractObjectInformation(kind, t) IN
           /\ haveWrite(isPrivate)
           /\ Make(CreateObject(kind, t, isPrivate, onToken, len, fault, some))

\* The object with the value and, unless the application does not want one, the check
\* value that its function stores afterwards; sized, with the length of the value too.
After(stores, length, sized, check) ==
  [stores |-> stores, length |-> length, sized |-> sized, check |-> check]

Completed(o, after) ==
  LET kcv  == IF after.check = "none" THEN {} ELSE {"CHECK_VALUE"}
      size == IF after.sized THEN after.length ELSE o.size
  IN  [Filled(o, after.stores \union kcv, after.length, size) EXCEPT
         !.check = IF after.check = "none" THEN @ ELSE after.check]

Wanted(t, check) == IF ChecksWanted(t) THEN check ELSE "none"

\* CreateObject and the attributes stored after it, for a function that makes one
\* object: if the first fails the object is left, if the second fails it is destroyed
\* (and nothing is to be seen).
MakeKey(kind, t, isPrivate, op, tokens, after) ==
  \E onToken \in tokens, fault, some \in BOOLEAN :
    /\ haveWrite(isPrivate)
    /\ Make(IF ~ fault /\ Creatable(kind, t, isPrivate, onToken, op)
                 THEN Completed(Created(kind, t, isPrivate, onToken, op, "none"), after)
                 ELSE LeftOver(kind, Handed(t, isPrivate, onToken, op), isPrivate, onToken, op,
                               "none", some))

C_GenerateKey ==
  /\ made < MaxMade
  /\ \E g \in SecretGenerators : \E kind \in g.kinds : \E len \in LengthsOf(kind) :
         \E t \in Templates(kind, "GENERATE", len) :
           /\ g.needs \subseteq DOMAIN t
           /\ NoCheckValue(t)
           /\ MakeKey(kind, WithoutCheck(t), extractObjectInformation(kind, t), "GENERATE", BOOLEAN,
                      After({"VALUE"}, LengthSaid(t), FALSE, Wanted(t, "right")))

C_GenerateParameters ==
  /\ made < MaxMade
  /\ \E h \in {generateDSAParameters, generateDHParameters}, len \in Lengths :
         \E t \in Templates(h.kind, "GENERATE", len) :
           /\ "PRIME_BITS" \in DOMAIN t
           /\ MakeKey(h.kind, t, extractObjectInformation(h.kind, t), "GENERATE", BOOLEAN,
                      After(h.stores, t["PRIME_BITS"], FALSE, "none"))

C_UnwrapKey ==
  /\ made < MaxMade
  /\ \E kind \in DOMAIN Unwrapped : \E t \in Templates(kind, "UNWRAP", "long") :
         MakeKey(kind, t, extractObjectInformation(kind, t), "UNWRAP", BOOLEAN,
                 After(Unwrapped[kind], "long", FALSE, "none"))

\* The check value of the functions that truncate the secret they derived, or that
\* take one of a generic secret for one of a block cipher's key.
DerivedCheck(d, kind, length) ==
  IF (d.plain /\ kind # "Generic") \/ (d.check = "whole" /\ length = "short")
    THEN "other" ELSE "right"

\* What storeDerivedGOSTSecret makes is never truncated and has no check value.
C_DeriveKey ==
  /\ made < MaxMade
  /\ \E d \in Derivers : \E kind \in d.kinds : \E t \in Templates(kind, d.op, "long") :
         LET said   == "VALUE_LEN" \in DOMAIN t
             gost   == d.check = "none"
             handed == IF gost THEN Restrict(t, DOMAIN t \ {"VALUE_LEN"})
                                    @@ With(d.adds \intersect Attributes(kind), "some")
                               ELSE WithoutCheck(t)
             length == IF gost THEN "long" ELSE LengthSaid(t)
             check  == IF gost THEN "none" ELSE Wanted(t, DerivedCheck(d, kind, length))
         IN  /\ "VALUE" \notin DOMAIN t
             /\ IF said THEN kind \notin d.refusesLength ELSE kind \notin d.needsLength
             /\ gost \/ NoCheckValue(t)
             /\ MakeKey(kind, handed, extractObjectInformation(kind, t), d.op, d.tokens,
                        After({"VALUE"}, length, gost /\ IsSized(kind), check))

\* Mutant: the public key is kept although there is no private one.
AbandonNothing(p, q, x, y) == [object EXCEPT ![p] = x, ![q] = y]

\* The public key is destroyed when the private one cannot be made.
Abandon(p, q, x, y) == [object EXCEPT ![q] = y]

\* The entries of the application for one half, as they are handed to CreateObject.
HalfTemplate(g, h, t) ==
  LET added == IF h = g.public THEN g.params.adds ELSE {} IN
  Restrict(t, DOMAIN t \ h.drops) @@ With(added, "some")

\* One of the two templates is just sufficient.
PairTemplates(pub, priv, len) ==
  LET t == Sufficient(pub, "GENERATE", len)
      u == Sufficient(priv, "GENERATE", len)
  IN  {<<tt, u>> : tt \in Templates(pub, "GENERATE", len)}
        \union {<<t, uu>> : uu \in Templates(priv, "GENERATE", len)}

C_GenerateKeyPair ==
  /\ made < MaxMade
  /\ \E g \in Pairs, onToken, some \in BOOLEAN, len \in Lengths,
        fault \in {"none", "public", "private", "store"} :
       \E templates \in PairTemplates(g.public.kind, g.private.kind, len) :
         LET pub  == g.public.kind
             priv == g.private.kind
             p    == Next1
             q    == Next2
             t    == templates[1]
             u    == templates[2]
             tp   == HalfTemplate(g, g.public, t)
             tq   == HalfTemplate(g, g.private, u)
             pubPrivate  == extractObjectInformation(pub, t)
             privPrivate == extractObjectInformation(priv, u)
             bits == IF "VALUE_BITS" \in DOMAIN u THEN u["VALUE_BITS"] ELSE len
             x == [Filled(Created(pub, tp, pubPrivate, onToken, "GENERATE", "none"),
                          g.public.stores, len, IF IsSized(pub) THEN len ELSE "none")
                     EXCEPT !.made = "PAIR", !.half = q]
             y == [Filled(Created(priv, tq, privPrivate, onToken, "GENERATE", "none"),
                          g.private.stores, bits, IF IsSized(priv) THEN bits ELSE "none")
                     EXCEPT !.made = "PAIR", !.half = p]
             left(kind, tt, isPrivate) ==
               [LeftOver(kind, Handed(tt, isPrivate, onToken, "GENERATE"), isPrivate, onToken,
                         "GENERATE", "none", some) EXCEPT !.made = "PAIR"]
         IN
         /\ haveWrite(pubPrivate \/ privPrivate)
         /\ g.params.needs \subseteq DOMAIN t \ Valued(t, "empty")
         /\ object' =
              IF fault = "public" \/ ~ Creatable(pub, tp, pubPrivate, onToken, "GENERATE")
                THEN [object EXCEPT ![p] = left(pub, tp, pubPrivate)]
              ELSE IF fault = "private" \/ ~ Creatable(priv, tq, privPrivate, onToken, "GENERATE")
                THEN Abandon(p, q, [x EXCEPT !.half = NoObject], left(priv, tq, privPrivate))
              ELSE IF fault = "store" THEN object
              ELSE [object EXCEPT ![p] = x, ![q] = y]
  /\ made' = made + 1
  /\ UNCHANGED <<role, calls>>
-----------------------------------------------------------------------------
(* Objects that exist *)

Call == calls < MaxCalls /\ calls' = calls + 1 /\ UNCHANGED <<role, made>>

\* Mutant: what was in clear is copied in clear.
CopiesBytesAsTheyAre(o, isPrivate) == o.sealed

CopiedBytes(o, isPrivate) ==
  IF ~ o.private /\ isPrivate THEN o.sealed \union (o.filled \intersect ByteStrings) ELSE o.sealed

OneEntry == {<<>>} \union {e[1] :> e[2] : e \in Changes}
              \union {"TOKEN" :> v : v \in {"true", "false"}}

CopyPrivate(o, t) == IF "PRIVATE" \in DOMAIN t THEN t["PRIVATE"] = "true" ELSE o.private
CopiedAs(o, isPrivate) ==
  [o EXCEPT !.sealed = CopiedBytes(o, isPrivate), !.half = NoObject, !.apart = TRUE]

\* Otherwise the copy is destroyed.
CopyAcceptable(o, t) ==
  Acceptable(CopiedAs(o, CopyPrivate(o, t)), t, CopyPrivate(o, t), "COPY")

C_CopyObject ==
  \E o \in Live : \E t \in {t \in OneEntry : CopyAcceptable(object[o], t)} :
    LET x         == object[o]
        isPrivate == CopyPrivate(x, t)
        copy      == CopiedAs(x, isPrivate)
    IN
    /\ Call /\ Gone # {}
    /\ haveRead(x.private)
    /\ ~ (x.private /\ ~ isPrivate)
    /\ haveWrite(isPrivate)
    /\ object' = [object EXCEPT ![Next1] = Saved(copy, t, isPrivate, "COPY", "none")]

C_SetAttributeValue ==
  \E o \in Live : \E t \in {t \in OneEntry : Acceptable(object[o], t, object[o].private, "SET")} :
    /\ Call
    /\ haveWrite(object[o].private)
    /\ object' = [object EXCEPT ![o] = Saved(@, t, @.private, "SET", "none")]

\* The object map without the objects of the set.
Without(gone) ==
  [o \in Objects |->
     IF o \in gone \/ object[o] = NoObject THEN NoObject
     ELSE IF object[o].half \in gone THEN [object[o] EXCEPT !.half = NoObject, !.apart = TRUE]
     ELSE object[o]]

C_DestroyObject ==
  \E o \in Live :
    /\ Call
    /\ haveWrite(object[o].private)
    /\ "DESTROYABLE" \in object[o].on
    /\ object' = Without({o})

C_Login ==
  /\ role = "none" /\ role' \in {"user", "so"}
  /\ UNCHANGED <<object, made, calls>>

\* The private objects of the session are destroyed.
C_Logout ==
  /\ role # "none" /\ role' = "none"
  /\ object' = Without({o \in Live : object[o].private /\ ~ object[o].token})
  /\ UNCHANGED <<made, calls>>
-----------------------------------------------------------------------------
(* The command line tools.  A tool opens a session of its own and logs the user in; *)
(* whatever it makes in that session is gone when it ends.                          *)

searchObject(kinds) ==
  \E o \in Live : object[o].token /\ object[o].kind \in kinds /\ "ID" \in object[o].filled

\* The private key comes first and is destroyed when there is no public one.
importKeyPair ==
  /\ made < MaxMade /\ made' = made + 1
  /\ \E k \in ImportablePairs,
        noPublicKey, forceExec \in BOOLEAN, fault \in {"none", "private", "public"}, len \in Lengths :
       LET p == Next1
           q == Next2
           t == k.privateTemplate
           u == k.publicTemplate
           left(kind, tt, isPrivate) ==
             [LeftOver(kind, Handed(tt, isPrivate, TRUE, "CREATE"), isPrivate, TRUE, "CREATE",
                       len, FALSE) EXCEPT !.made = "PAIR"]
           x == [Created(k.private, t, TRUE, TRUE, "CREATE", len) EXCEPT
                   !.made = "PAIR", !.half = IF noPublicKey THEN NoObject ELSE q,
                   !.apart = noPublicKey]
           y == [Created(k.public, u, FALSE, TRUE, "CREATE", len) EXCEPT
                   !.made = "PAIR", !.half = p]
       IN
       /\ forceExec \/ ~ searchObject(DOMAIN PrivateKeys)
       /\ object' =
            IF fault = "private" \/ ~ Creatable(k.private, t, TRUE, TRUE, "CREATE")
              THEN [object EXCEPT ![p] = left(k.private, t, TRUE)]
            ELSE IF fault = "public" \/ ~ Creatable(k.public, u, FALSE, ~ noPublicKey, "CREATE")
              THEN IF noPublicKey THEN object
                   ELSE Abandon(p, q, [x EXCEPT !.half = NoObject], left(k.public, u, FALSE))
            ELSE IF noPublicKey THEN [object EXCEPT ![p] = x]
            ELSE [object EXCEPT ![p] = x, ![q] = y]
  /\ UNCHANGED <<role, calls>>

importSecretKey ==
  /\ made < MaxMade
  /\ \E t \in ImportableSecrets, len \in Lengths, fault \in BOOLEAN :
       Make(CreateObject("AES", t, extractObjectInformation("AES", t), TRUE, len, fault, FALSE))

importCertificate ==
  /\ made < MaxMade
  /\ \E t \in ImportableCertificates, fault, forceExec \in BOOLEAN :
       /\ forceExec \/ ~ searchObject(DOMAIN Certificates)
       /\ Make(CreateObject("X509", t, FALSE, TRUE, "long", fault, FALSE))

\* One object of the old database.
migrate ==
  /\ made < MaxMade
  /\ \E m \in MigratedKeys, fault \in BOOLEAN, len \in Lengths :
       Make(CreateObject(m[1], m[2], extractObjectInformation(m[1], m[2]), TRUE, len, fault, FALSE))
-----------------------------------------------------------------------------
Init ==
  /\ object = [o \in Objects |-> NoObject]
  /\ role = "none" /\ made = 0 /\ calls = 0

Next ==
  \/ C_CreateObject \/ C_GenerateKey \/ C_GenerateParameters \/ C_GenerateKeyPair
  \/ C_UnwrapKey \/ C_DeriveKey
  \/ C_CopyObject \/ C_SetAttributeValue \/ C_DestroyObject \/ C_Login \/ C_Logout
  \/ importKeyPair \/ importSecretKey \/ importCertificate \/ migrate

Spec == Init /\ [][Next]_vars
-----------------------------------------------------------------------------
(* Properties *)

\* The readers of an object decide by its CKA_PRIVATE whether to decrypt a byte string
\* (P11Attribute::retrieve, get*Key): whatever function wrote a byte string, with whatever
\* notion of the object being private, decided in the same way.  Except for what a
\* refused template leaves in a session.
StoredAsRead ==
  \A o \in Live :
    LET x == object[o] IN
    x.left # "partial" =>
      IF x.private THEN x.filled \intersect ByteStrings \subseteq x.sealed ELSE x.sealed = {}

\* What the functions that use a key cannot do without is in every key that exists,
\* unless the application itself gave an empty value.  C_CreateObject does not
\* insist on the seed of a private ML-KEM key, which getMLKEMPrivateKey needs.
KeyComplete ==
  \A o \in Live :
    LET x == object[o] IN
    IsKey(x.kind) /\ x.left = "no" =>
      Reads[x.kind] \ x.filled
        \subseteq x.given \union (IF x.made = "CREATE" THEN {"SEED"} ELSE {})

\* CKA_VALUE_LEN, CKA_MODULUS_BITS and the like say the length of what they describe or
\* nothing, and CKA_CHECK_VALUE is the check value of the key or nothing.  The check
\* value of a GOST 28147 key is not looked at, and that of a derived key may be that of
\* a longer secret (DerivedCheck).
ValueDescribed ==
  \A o \in Live :
    LET x == object[o] IN
    x.left # "partial" =>
      /\ x.size \in {"none", x.length}
      /\ x.check = "other" => x.kind = "GOST28147" \/ x.made \in {"DERIVE", "DECAPSULATE"}

\* A trusted object was declared so by the SO, or is a copy of one that was; a trusted
\* certificate is still what the SO saw.
TrustedBySO ==
  \A o \in Live :
    LET x == object[o] IN
    "TRUSTED" \in x.on =>
      /\ x.vouched <= MaxCalls
      /\ IsCertificate(x.kind) => x.version = x.vouched

\* No half of a key pair has its value without the other half, unless the application
\* destroyed or copied it, or did not want it: C_GenerateKeyPair and softhsm2-util make
\* both or none.
NoHalfPair ==
  \A o \in Live :
    LET x == object[o] IN
    x.made = "PAIR" /\ ~ x.apart /\ Reads[x.kind] \subseteq x.filled =>
      /\ x.half \in Live
      /\ object[x.half].half = o
=============================================================================
