--------------------------- MODULE KeyAttributes ---------------------------
(***************************************************************************)
(* The life of secret and private key objects: how C_CreateObject, the     *)
(* generating, unwrapping, deriving and encapsulating functions, and       *)
(* C_CopyObject make them, what C_SetAttributeValue may change in them,    *)
(* and how their values leave the token (C_GetAttributeValue, C_WrapKey).  *)
(*                                                                         *)
(* A call that makes or changes an object takes several steps, and calls   *)
(* of other threads come between them: the checks and the new object, one  *)
(* step for each entry of the template (saveTemplate), the commit and the  *)
(* new handle, the look-up of that handle, and the storing of the value.   *)
(* The other calls take one step.  A call that fails its first checks      *)
(* changes nothing and is no action.                                       *)
(*                                                                         *)
(* A value is the set of the secrets that can be read off it.  The public  *)
(* half of a key pair holds none and is left out, as are usage flags such  *)
(* as CKA_DERIVE: an application may set them as it likes.                 *)
(***************************************************************************)
EXTENDS AttributePolicy

CONSTANTS
  Threads, Objects,
  Gone,         \* an object that has been invalidated
  Places,       \* where objects are made: pairs of CKA_TOKEN and CKA_PRIVATE
  Entries,      \* what the entries of a template may be: pairs of a flag and a value
  MaxSecrets,   \* bound on the secrets generated or derived
  MaxEntries,   \* bound on the entries of a template
  MaxCalls      \* bound on the calls that make or change an object

ASSUME GoneAssumption  == Gone \notin Objects
ASSUME EntryAssumption == Places \subseteq BOOLEAN \X BOOLEAN /\ Entries \subseteq Flags \X BOOLEAN
ASSUME BoundAssumption == MaxSecrets \in Nat /\ MaxEntries \in Nat /\ MaxCalls \in Nat

VARIABLES
  object,       \* the objects of the token and of the session object store
  call,         \* the call each thread is in the middle of
  user,         \* the user is logged in
  secrets,      \* the number of secrets made so far
  calls,        \* the number of calls that make or change an object
  disclosed,    \* history: the secrets the application has had in clear
  wrapped,      \* history: the secrets C_WrapKey has returned, encrypted
  unaccounted   \* history: secrets whose flags are not to be relied on

vars == <<object, call, calls, user, secrets, disclosed, wrapped, unaccounted>>

Known   == 0               \* the one secret an application brings along
Secrets == 0..MaxSecrets

ObjectType ==
  [state : {"free", "making", "ready", "left"}, \* left: a failed call has forgotten it
   token : BOOLEAN, private : BOOLEAN, flags : FlagsType,
   value : SUBSET Secrets,    \* what can be read off CKA_VALUE
   origin : SUBSET Secrets]   \* and what it was computed from

Rules == {"as is", "local", "neither", "inherit", "data", "key"}

\* How a function makes an object: the operation it gives saveTemplate, the rule
\* for CKA_ALWAYS_SENSITIVE and CKA_NEVER_EXTRACTABLE, and whether it looks at what
\* token->encrypt returns.
MakerType == [op : Ops, rule : Rules, checked : BOOLEAN]

CallType ==
  [phase : {"none", "template", "look up", "store"},
   make : MakerType,
   object : Objects \union {Gone},
   base : Objects \union {Gone}, other : Objects \union {Gone},
   value : SUBSET Secrets, origin : SUBSET Secrets,
   before : FlagsType,     \* the committed flags of the object
   handle : BOOLEAN,       \* the handle of the new object is still known
   entries : Nat]

Maker(op, rule, checked) == [op |-> op, rule |-> rule, checked |-> checked]

FreeObject ==
  [state |-> "free", token |-> FALSE, private |-> FALSE, flags |-> Defaults,
   value |-> {}, origin |-> {}]
NoCall ==
  [phase |-> "none", make |-> Maker("SET", "as is", FALSE), object |-> Gone,
   base |-> Gone, other |-> Gone, value |-> {}, origin |-> {},
   before |-> Defaults, handle |-> FALSE, entries |-> 0]

Init ==
  /\ object = [o \in Objects |-> FreeObject]
  /\ call = [t \in Threads |-> NoCall]
  /\ user = FALSE
  /\ secrets = 0
  /\ calls = 0
  /\ disclosed = {Known}
  /\ wrapped = {}
  /\ unaccounted = {}
-----------------------------------------------------------------------------
(* Objects and credentials *)

\* haveRead and haveWrite, in a read/write session.
Permitted(private) == private => user

\* C_FindObjects finds an object that is being made, too, but no application uses
\* it before it has its handle: an assumption.
Present(o) == object[o].state \in {"ready", "left"}
Usable(o)  == Present(o) /\ Permitted(object[o].private)

\* No call is in the middle of changing the object.  For a token object this is the
\* transaction; for a session object, which has none, it is an assumption.
Exclusive(o) == \A t \in Threads : call[t].object # o

\* What a call sees of the object after it has been destroyed: isValid is false.
Forget(c, gone) ==
  [c EXCEPT !.object = IF @ \in gone THEN Gone ELSE @,
            !.base = IF @ \in gone THEN Gone ELSE @,
            !.other = IF @ \in gone THEN Gone ELSE @]

\* A boolean of an object that may have been invalidated: getBooleanValue.
Flag(o, f, default) == IF o = Gone THEN default ELSE object[o].flags[f]

History == <<disclosed, wrapped, unaccounted>>
-----------------------------------------------------------------------------
(* Calls of one step *)

C_Login ==
  /\ ~ user
  /\ user' = TRUE
  /\ UNCHANGED <<object, call, calls, secrets, History>>

\* The private session objects go, and the handles of the private objects.
C_Logout ==
  LET gone == {o \in Objects : object[o].private /\ ~ object[o].token}
  IN  /\ user
      /\ user' = FALSE
      /\ object' = [o \in Objects |-> IF o \in gone THEN FreeObject ELSE object[o]]
      /\ call' = [t \in Threads |->
           LET c == call[t]
               loses == c.object \in Objects /\ object[c.object].private
           IN  [Forget(c, gone) EXCEPT !.handle = @ /\ ~ loses]]
      /\ UNCHANGED <<calls, secrets, History>>

C_DestroyObject(o) ==
  /\ Usable(o)
  /\ object' = [object EXCEPT ![o] = FreeObject]
  /\ call' = [t \in Threads |-> Forget(call[t], {o})]
  /\ UNCHANGED <<calls, user, secrets, History>>

C_GetAttributeValue(o) ==
  /\ Usable(o)
  /\ Retrievable(object[o].flags)
  /\ disclosed' = disclosed \union object[o].value
  /\ UNCHANGED <<object, call, calls, user, secrets, wrapped, unaccounted>>

\* WrapKeySym, WrapKeyAsym, WrapMechRsaAesKw: the value leaves, encrypted; and what
\* UnwrapKeySym, UnwrapKeyAsym and UnwrapMechRsaAesKw can make of what they are given.
Wrapping(o)  == object[o].value \ {Known}
Unwrappable  == wrapped \union {Known}

\* Mutant: CKA_EXTRACTABLE is not looked at.
WrapsAny(o, trusted) ==
  /\ Usable(o)
  /\ object[o].flags["WRAP_WITH_TRUSTED"] => trusted
  /\ wrapped' = wrapped \union Wrapping(o)
  /\ UNCHANGED <<object, call, calls, user, secrets, disclosed, unaccounted>>

\* The wrapping key is any other key, marked CKA_TRUSTED or not.
C_WrapKey(o, trusted) ==
  /\ Usable(o)
  /\ object[o].flags["EXTRACTABLE"]
  /\ object[o].flags["WRAP_WITH_TRUSTED"] => trusted
  /\ wrapped' = wrapped \union Wrapping(o)
  /\ UNCHANGED <<object, call, calls, user, secrets, disclosed, unaccounted>>
-----------------------------------------------------------------------------
(* How each function makes its key *)

Generator(checked) == Maker("GENERATE", "local", checked)

generateGeneric  == Generator(FALSE)
generateGeneric_GOST28147 == Maker("GENERATE", "neither", FALSE)  \* Rutoken profile
generateAES      == Generator(FALSE)
generateDES      == Generator(FALSE)
generateDES2     == Generator(FALSE)
generateDES3     == Generator(FALSE)
generateRSA      == Generator(FALSE)
generateDSA      == Generator(FALSE)
generateEC       == Generator(FALSE)
generateED       == Generator(FALSE)
generateMLDSA    == Generator(FALSE)
generateMLKEM    == Generator(FALSE)
generateDH       == Generator(FALSE)
generateGOST     == Generator(FALSE)
generateGOST2012 == Generator(TRUE)

\* C_GenerateKey, C_GenerateKeyPair: the mechanisms and their functions.  The
\* entries ForcedSensitivity adds to a template are entries like any other.
SecretKeyGenerators == {generateGeneric, generateGeneric_GOST28147, generateAES,
                        generateDES, generateDES2, generateDES3}
KeyPairGenerators   == {generateRSA, generateDSA, generateEC, generateED, generateMLDSA,
                        generateMLKEM, generateDH, generateGOST, generateGOST2012}

\* storeDerivedGOSTSecret is the only one of the deriving functions that looks at
\* the result of token->encrypt.
storeDerivedGOSTSecret(inheritProtection) ==
  Maker("DERIVE", IF inheritProtection THEN "inherit" ELSE "neither", TRUE)

deriveGOSTKEG     == storeDerivedGOSTSecret(TRUE)
deriveGOSTVKO     == storeDerivedGOSTSecret(FALSE)
deriveGOSTKDF     == storeDerivedGOSTSecret(FALSE)
deriveDH          == Maker("DERIVE", "inherit", FALSE)
deriveECDH        == Maker("DERIVE", "inherit", FALSE)
deriveEDDSA       == Maker("DERIVE", "inherit", FALSE)
deriveSymmetric   == Maker("DERIVE", "inherit", FALSE)
ConcatenateData   == Maker("DERIVE", "data", FALSE)
ConcatenateKey    == Maker("DERIVE", "key", FALSE)

\* C_DeriveKey: those that compute a value from the base key's.
Computed == {deriveGOSTKEG, deriveGOSTVKO, deriveGOSTKDF, deriveDH, deriveECDH,
             deriveEDDSA, deriveSymmetric}
-----------------------------------------------------------------------------
(* Calls that make or change an object: the first step *)

Begin(t) ==
  /\ call[t] = NoCall
  /\ calls < MaxCalls
  /\ calls' = calls + 1

\* The checks on the credentials, and the new object with its default attributes.
Make(t, make, new, token, private, base, other, value, origin) ==
  /\ Begin(t)
  /\ Permitted(private)
  /\ object[new].state = "free"
  /\ object' = [object EXCEPT ![new] =
       [state |-> "making", token |-> token, private |-> private,
        flags |-> Defaults, value |-> {}, origin |-> {}]]
  /\ call' = [call EXCEPT ![t] =
       [phase |-> "template", make |-> make, object |-> new, base |-> base,
        other |-> other, value |-> value, origin |-> origin, before |-> Defaults,
        handle |-> FALSE, entries |-> 0]]
  /\ UNCHANGED <<user, History>>

Fresh == secrets + 1
MakeFresh(t, make, new, token, private, base, origin) ==
  /\ secrets < MaxSecrets
  /\ secrets' = Fresh
  /\ Make(t, make, new, token, private, base, Gone, {Fresh}, origin \union {Fresh})

C_CreateObject(t, new, token, private) ==
  /\ Make(t, Maker("CREATE", "neither", FALSE), new, token, private,
          Gone, Gone, {Known}, {Known})
  /\ UNCHANGED secrets

C_GenerateKey(t, make, new, token, private) ==
  /\ make \in SecretKeyGenerators
  /\ MakeFresh(t, make, new, token, private, Gone, {})

C_GenerateKeyPair(t, make, new, token, private) ==
  /\ make \in KeyPairGenerators
  /\ MakeFresh(t, make, new, token, private, Gone, {})

\* What is unwrapped is something that has been wrapped, or a part of it (a deriving
\* function cuts its result as the template says), or comes from the application.
C_UnwrapKey(t, value, new, token, private) ==
  /\ value # {} /\ value \subseteq Unwrappable
  /\ Make(t, Maker("UNWRAP", "neither", FALSE), new, token, private,
          Gone, Gone, value, value)
  /\ UNCHANGED secrets

C_EncapsulateKey(t, new, token, private) ==
  MakeFresh(t, Maker("DERIVE", "neither", FALSE), new, token, private, Gone, {})

C_DecapsulateKey(t, new, token, private) ==
  MakeFresh(t, Maker("DECAPSULATE", "neither", FALSE), new, token, private, Gone, {})

\* The value of the base key is read before the new object is created.
C_DeriveKey(t, make, base, new, token, private) ==
  /\ make \in Computed
  /\ Usable(base)
  /\ object[base].value # {}
  /\ MakeFresh(t, make, new, token, private, base, object[base].origin)

\* deriveSymmetric with CKM_CONCATENATE_BASE_AND_DATA or ..._DATA_AND_BASE: the
\* value of the base key can be read off the new one.
C_DeriveKey_Data(t, base, new, token, private) ==
  /\ Usable(base)
  /\ object[base].value # {}
  /\ Make(t, ConcatenateData, new, token, private, base, Gone,
          object[base].value, object[base].origin)
  /\ UNCHANGED secrets

\* With CKM_CONCATENATE_BASE_AND_KEY.
C_DeriveKey_Key(t, base, other, new, token, private) ==
  /\ Usable(base) /\ Usable(other)
  /\ object[base].value # {} /\ object[other].value # {}
  /\ Make(t, ConcatenateKey, new, token, private, base, other,
          object[base].value \union object[other].value,
          object[base].origin \union object[other].origin)
  /\ UNCHANGED secrets

\* C_CopyObject: all attributes are copied before the template is applied.  Entries
\* for CKA_TOKEN and CKA_PRIVATE are refused like others when the copy, like the
\* original, is not modifiable.
C_CopyObject(t, o, new, token, private) ==
  LET old == object[o]
  IN  /\ Begin(t)
      /\ Usable(o)
      /\ old.flags["COPYABLE"]
      /\ old.private => private
      /\ Permitted(private)
      /\ old.flags["MODIFIABLE"] \/ (token = old.token /\ private = old.private)
      /\ object[new].state = "free"
      /\ object' = [object EXCEPT ![new] =
           [old EXCEPT !.state = "making", !.token = token, !.private = private]]
      /\ call' = [call EXCEPT ![t] =
           [NoCall EXCEPT !.phase = "template", !.make = Maker("COPY", "as is", FALSE),
                          !.object = new, !.before = old.flags]]
      /\ UNCHANGED <<user, secrets, History>>

C_SetAttributeValue(t, o) ==
  /\ Begin(t)
  /\ Usable(o)
  /\ Exclusive(o)
  /\ object[o].flags["MODIFIABLE"]
  /\ call' = [call EXCEPT ![t] =
       [NoCall EXCEPT !.phase = "template", !.object = o, !.before = object[o].flags]]
  /\ UNCHANGED <<object, user, secrets, History>>
-----------------------------------------------------------------------------
(* saveTemplate *)

Entry(t, f, v) ==
  LET c == call[t]
  IN  /\ c.phase = "template"
      /\ c.object # Gone
      /\ c.entries < MaxEntries
      /\ Allowed(object[c.object].flags, f, v, c.make.op)
      /\ object' = [object EXCEPT ![c.object].flags = Updated(@, f, v, c.make.op)]
      /\ call' = [call EXCEPT ![t].entries = @ + 1]
      /\ UNCHANGED <<calls, user, secrets, History>>

\* An entry is refused.  abortTransaction brings back the flags of a token object,
\* and does nothing to a session object.  C_CopyObject destroys its copy; the object
\* of the other creating functions stays, and a session object of C_CreateObject
\* with its value, if the entry for that came first.
Refuse(t, f, v, valued) ==
  LET c   == call[t]
      o   == c.object
      op  == c.make.op
      old == object[o]
  IN  /\ c.phase = "template"
      /\ o # Gone
      /\ ~ Allowed(old.flags, f, v, op)
      /\ valued => op = "CREATE" /\ ~ old.token
      /\ object' = [object EXCEPT ![o] =
           CASE op = "COPY" -> FreeObject
             [] op = "SET"  -> [old EXCEPT !.flags = IF old.token THEN c.before ELSE @]
             [] op \notin {"SET", "COPY"} ->
                  [old EXCEPT !.state = "left",
                              !.private = @ \/ old.token,
                              !.flags = IF old.token THEN c.before ELSE @,
                              !.value = IF valued THEN c.value ELSE {},
                              !.origin = IF valued THEN c.origin ELSE {}]]
      /\ call' = [s \in Threads |-> IF s = t THEN NoCall
                                    ELSE IF op = "COPY" THEN Forget(call[s], {o})
                                    ELSE call[s]]
      /\ unaccounted' = unaccounted \union (IF valued THEN c.value ELSE {})
      /\ UNCHANGED <<calls, user, secrets, disclosed, wrapped>>

\* What C_CreateObject makes of its object, at the end.
Created(c, old) ==
  [old EXCEPT !.state = "ready", !.value = c.value, !.origin = c.origin,
              !.flags = [@ EXCEPT !["ALWAYS_SENSITIVE"] = FALSE, !["NEVER_EXTRACTABLE"] = FALSE]]

\* The template has been applied: the transaction is committed.  C_CreateObject then
\* clears CKA_ALWAYS_SENSITIVE and CKA_NEVER_EXTRACTABLE; the others give the new
\* object its handle and have its value still to store.
Commit(t) ==
  LET c == call[t]
      o == c.object
  IN  /\ c.phase = "template"
      /\ o # Gone
      /\ \/ /\ c.make.op = "SET"
            /\ call' = [call EXCEPT ![t] = NoCall]
            /\ UNCHANGED object
         \/ /\ c.make.op = "COPY"
            /\ call' = [call EXCEPT ![t] = NoCall]
            /\ object' = [object EXCEPT ![o].state = "ready"]
         \/ /\ c.make.op = "CREATE"
            /\ call' = [call EXCEPT ![t] = NoCall]
            /\ object' = [object EXCEPT ![o] = Created(c, @)]
         \/ /\ c.make.op \notin {"SET", "COPY", "CREATE"}
            /\ call' = [call EXCEPT ![t].phase = "look up", ![t].handle = TRUE]
            /\ UNCHANGED object
      /\ UNCHANGED <<calls, user, secrets, History>>
-----------------------------------------------------------------------------
(* Storing the value *)

\* The object of the handle, still there: its second transaction is started.
LookUp(t) ==
  /\ call[t].phase = "look up"
  /\ call[t].handle
  /\ call' = [call EXCEPT ![t].phase = "store"]
  /\ UNCHANGED <<object, calls, user, secrets, History>>

\* The object has been invalidated, or its handle has gone, and a call fails.  What
\* is left of the object cannot be removed without its handle.
Lost(t) ==
  LET c == call[t]
  IN  /\ \/ c.phase = "template" /\ c.object = Gone
         \/ c.phase = "look up" /\ ~ c.handle
         \/ c.phase = "store" /\ c.object = Gone
      /\ object' = IF c.object = Gone THEN object
                   ELSE [object EXCEPT ![c.object].state = "left"]
      /\ call' = [call EXCEPT ![t] = NoCall]
      /\ UNCHANGED <<calls, user, secrets, History>>

\* The last flags of a new key.  The else-if chain of deriveSymmetric is in the
\* last three; the defaults are for a base key that has been destroyed meanwhile.
Protected(c, flags) ==
  LET Base(f, default)  == Flag(c.base, f, default)
      Other(f, default) == Flag(c.other, f, default)
      Set(sensitive, extractable, always, never) ==
        [flags EXCEPT !["SENSITIVE"] = sensitive, !["EXTRACTABLE"] = extractable,
                      !["ALWAYS_SENSITIVE"] = always, !["NEVER_EXTRACTABLE"] = never]
      sensitive   == flags["SENSITIVE"]
      extractable == flags["EXTRACTABLE"]
  IN  CASE c.make.rule = "local" ->
             Set(sensitive, extractable, sensitive, ~ extractable)
        [] c.make.rule = "neither" ->
             Set(sensitive, extractable, FALSE, FALSE)
        [] c.make.rule = "inherit" ->
             Set(sensitive, extractable,
                 Base("ALWAYS_SENSITIVE", FALSE) /\ sensitive,
                 Base("NEVER_EXTRACTABLE", TRUE) /\ ~ extractable)
        [] c.make.rule = "data" ->
             Set(sensitive \/ Base("SENSITIVE", TRUE),
                 extractable /\ Base("EXTRACTABLE", FALSE),
                 Base("ALWAYS_SENSITIVE", FALSE),
                 Base("NEVER_EXTRACTABLE", FALSE))
        [] c.make.rule = "key" ->
             \* CKA_ALWAYS_SENSITIVE is set twice, CKA_NEVER_EXTRACTABLE never.
             Set(sensitive \/ Base("SENSITIVE", TRUE) \/ Other("SENSITIVE", TRUE),
                 extractable /\ Base("EXTRACTABLE", TRUE) /\ Other("EXTRACTABLE", TRUE),
                 Base("NEVER_EXTRACTABLE", FALSE) /\ Other("NEVER_EXTRACTABLE", FALSE),
                 flags["NEVER_EXTRACTABLE"])
        [] OTHER -> flags

\* token->encrypt works while the user is logged in; where its failure goes
\* unnoticed the key is stored, without a value.
Encrypts(o) == object[o].private => user

Stored(c, old) ==
  [old EXCEPT !.state = "ready", !.flags = Protected(c, @),
              !.value = IF Encrypts(c.object) THEN c.value ELSE {},
              !.origin = IF Encrypts(c.object) THEN c.origin ELSE {}]

Store(t) ==
  LET c == call[t]
  IN  /\ c.phase = "store"
      /\ c.object # Gone
      /\ Encrypts(c.object) \/ ~ c.make.checked
      /\ object' = [object EXCEPT ![c.object] = Stored(c, @)]
      /\ call' = [call EXCEPT ![t] = NoCall]
      /\ unaccounted' = unaccounted \union (IF c.make.rule = "key" THEN c.origin ELSE {})
      /\ UNCHANGED <<calls, user, secrets, disclosed, wrapped>>

\* A failure that is noticed: of token->encrypt where it is looked at, a derived
\* secret that is too short, an attribute that cannot be stored.  The transaction is
\* aborted and the object destroyed, if it still has its handle.
StoreFails(t) ==
  LET c == call[t]
      o == c.object
  IN  /\ c.phase = "store"
      /\ o # Gone
      /\ object' = [object EXCEPT ![o] = IF c.handle THEN FreeObject
                                         ELSE [@ EXCEPT !.state = "left"]]
      /\ call' = [s \in Threads |-> IF s = t THEN NoCall
                                    ELSE IF c.handle THEN Forget(call[s], {o})
                                    ELSE call[s]]
      /\ UNCHANGED <<calls, user, secrets, History>>
-----------------------------------------------------------------------------
Creates(t) ==
  \E new \in Objects, place \in Places : LET token == place[1] private == place[2] IN
    \/ C_CreateObject(t, new, token, private)
    \/ \E make \in SecretKeyGenerators : C_GenerateKey(t, make, new, token, private)
    \/ \E make \in KeyPairGenerators : C_GenerateKeyPair(t, make, new, token, private)
    \/ \E value \in SUBSET Secrets : C_UnwrapKey(t, value, new, token, private)
    \/ C_EncapsulateKey(t, new, token, private)
    \/ C_DecapsulateKey(t, new, token, private)
    \/ \E base \in Objects :
         \/ \E make \in Computed : C_DeriveKey(t, make, base, new, token, private)
         \/ C_DeriveKey_Data(t, base, new, token, private)
         \/ \E other \in Objects : C_DeriveKey_Key(t, base, other, new, token, private)
         \/ C_CopyObject(t, base, new, token, private)

Continues(t) ==
  \/ \E entry \in Entries :
       \/ Entry(t, entry[1], entry[2])
       \/ \E valued \in BOOLEAN : Refuse(t, entry[1], entry[2], valued)
  \/ Commit(t)
  \/ LookUp(t)
  \/ Lost(t)
  \/ Store(t)
  \/ StoreFails(t)

Next ==
  \/ C_Login
  \/ C_Logout
  \/ \E o \in Objects :
       \/ C_DestroyObject(o)
       \/ C_GetAttributeValue(o)
       \/ \E trusted \in BOOLEAN : C_WrapKey(o, trusted)
  \/ \E t \in Threads :
       \/ Creates(t)
       \/ \E o \in Objects : C_SetAttributeValue(t, o)
       \/ Continues(t)

Spec == Init /\ [][Next]_vars
-----------------------------------------------------------------------------
(* Properties *)

\* The types.  A free object is empty, an object in the making belongs to the call
\* that makes it, and no call works with an object that is not there.
TypeOK ==
  /\ object \in [Objects -> ObjectType]
  /\ \A o \in Objects : object[o].state = "free" => object[o] = FreeObject
  /\ call \in [Threads -> CallType]
  /\ \A t \in Threads :
       /\ call[t].phase = "none" => call[t] = NoCall
       /\ call[t].object # Gone =>
            object[call[t].object].state \in
              IF call[t].make.op = "SET" THEN {"ready", "left"} ELSE {"making"}
  /\ user \in BOOLEAN
  /\ secrets \in Secrets
  /\ calls \in 0..MaxCalls
  /\ disclosed \subseteq Secrets
  /\ wrapped \subseteq Secrets
  /\ unaccounted \subseteq Secrets

\* A key that says CKA_NEVER_EXTRACTABLE has a value no secret of which has ever left
\* the token, read or wrapped, from this object or from any other that was copied,
\* unwrapped, or put together with it.
NeverExtractableTrue ==
  \A o \in Objects :
    object[o].state = "ready" /\ object[o].flags["NEVER_EXTRACTABLE"]
      => object[o].value \intersect (disclosed \union wrapped) \subseteq unaccounted

\* A key that says CKA_ALWAYS_SENSITIVE, and the keys it was derived from, have never
\* been read in clear, unless they came back from a wrapping.
AlwaysSensitiveTrue ==
  \A o \in Objects :
    object[o].state = "ready" /\ object[o].flags["ALWAYS_SENSITIVE"]
      => object[o].origin \intersect disclosed \subseteq unaccounted \union wrapped

\* The flags of an object that count: during a transaction the ones before it.
Committed(o) ==
  LET inside == {t \in Threads : call[t].phase = "template" /\ call[t].object = o}
  IN  IF object[o].token /\ inside # {} THEN call[CHOOSE t \in inside : TRUE].before
      ELSE object[o].flags

\* No flag of a key ever goes back: CKA_SENSITIVE, CKA_WRAP_WITH_TRUSTED stay TRUE,
\* CKA_EXTRACTABLE, CKA_COPYABLE, CKA_ALWAYS_SENSITIVE and CKA_NEVER_EXTRACTABLE stay
\* FALSE, and a key that is not modifiable stays as it is, whatever templates are
\* applied, refused half way, committed or taken back.
Tightened(a, b) ==
  /\ \A f \in {"SENSITIVE", "WRAP_WITH_TRUSTED"} : a[f] => b[f]
  /\ \A f \in {"EXTRACTABLE", "COPYABLE", "ALWAYS_SENSITIVE", "NEVER_EXTRACTABLE"} :
       b[f] => a[f]
  /\ a["MODIFIABLE"] \/ a = b

AttributesOneWay ==
  [][\A o \in Objects :
       object[o].state = "ready" /\ object'[o].state = "ready"
         => Tightened(Committed(o), Committed(o)')]_vars
-----------------------------------------------------------------------------
(* The invariant by which these are proved, in KeyAttributes_proofs *)

\* The flags by which an object may come to be judged: those it has, and those a
\* refused C_SetAttributeValue would bring back.
Sets(t, o)  == call[t].object = o /\ call[t].make.op = "SET"
Views(o)    == {object[o].flags} \union {call[t].before : t \in {s \in Threads : Sets(s, o)}}
Claims(o, f) == \E w \in Views(o) : w[f]
Reads(o)    == \E w \in Views(o) : Retrievable(w)

\* Which calls there are: what they have computed is in no object yet, and the base key
\* of a derivation, if it has not been destroyed, is as it was.
CallOK(t) ==
  LET c == call[t]
  IN  /\ c.make.op \in {"SET", "COPY"} <=> c.make.rule = "as is"
      /\ c.make.op \in {"SET", "COPY"} => c.phase \in {"none", "template"}
      /\ c.make.op = "CREATE" =>
           c.make.rule = "neither" /\ c.phase = "template" /\ c.origin = c.value
      /\ c.value \subseteq c.origin /\ c.origin \subseteq 0..secrets
      /\ c.object # Gone /\ c.make.op \notin {"SET", "COPY"} =>
           object[c.object].value = {} /\ object[c.object].origin = {}
      /\ c.base # Gone => Present(c.base)
      /\ c.base # Gone /\ c.make.rule = "data" =>
           c.value = object[c.base].value /\ c.origin = object[c.base].origin
      /\ c.base # Gone /\ c.make.rule = "inherit" =>
           c.origin = object[c.base].origin \union c.value
      /\ c.make.rule = "local" => c.origin = c.value

CallsOK == \A t \in Threads : CallOK(t)

\* An object is changed by one call at a time.
OneChanger ==
  \A s, t \in Threads : call[s].object = call[t].object /\ call[s].object # Gone => s = t

\* A value is part of what it was computed from, and of what there is.
ValuesOK ==
  /\ \A o \in Objects :
       object[o].value \subseteq object[o].origin /\ object[o].origin \subseteq 0..secrets
  /\ disclosed \subseteq 0..secrets /\ wrapped \subseteq 0..secrets
  /\ Known \in disclosed

\* A value that has been generated or derived and not been stored yet is new.
FreshOK ==
  \A t \in Threads : call[t].make.rule \in {"local", "inherit"} =>
    /\ call[t].value \intersect (disclosed \union wrapped) = {}
    /\ \A o \in Objects : call[t].value \intersect object[o].origin = {}
    /\ \A s \in Threads : s # t => call[t].value \intersect call[s].origin = {}

\* A key that says CKA_NEVER_EXTRACTABLE shares no secret with what has left the token,
\* with a key that may still leave it, or with one that is coming in from outside.
NeverOK ==
  \A o \in Objects : Claims(o, "NEVER_EXTRACTABLE") =>
    /\ object[o].value \intersect (disclosed \union wrapped) \subseteq unaccounted
    /\ \A q \in Objects : Claims(q, "EXTRACTABLE") =>
         object[o].value \intersect object[q].value \subseteq unaccounted
    /\ \A t \in Threads : call[t].make.rule = "neither" =>
         object[o].value \intersect call[t].value \subseteq unaccounted

\* The same of a key that says CKA_ALWAYS_SENSITIVE, and of reading.
AlwaysOK ==
  \A o \in Objects : Claims(o, "ALWAYS_SENSITIVE") =>
    /\ object[o].origin \intersect disclosed \subseteq unaccounted \union wrapped
    /\ \A q \in Objects : Reads(q) =>
         object[o].origin \intersect object[q].value \subseteq unaccounted \union wrapped
    /\ \A t \in Threads : call[t].make.rule = "neither" =>
         object[o].origin \intersect call[t].value \subseteq unaccounted \union wrapped

\* The flags of a transaction of C_SetAttributeValue, and those before it.
ChangesOK ==
  \A t \in Threads : call[t].object # Gone /\ call[t].make.op = "SET" =>
    /\ call[t].phase = "template" /\ call[t].before["MODIFIABLE"]
    /\ object[call[t].object].flags["MODIFIABLE"]
    /\ Tightened(call[t].before, object[call[t].object].flags)

Inv ==
  /\ TypeOK /\ CallsOK /\ OneChanger /\ ValuesOK
  /\ FreshOK /\ NeverOK /\ AlwaysOK /\ ChangesOK
=============================================================================
