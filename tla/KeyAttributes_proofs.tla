----------------------- MODULE KeyAttributes_proofs -----------------------
(***************************************************************************)
(* Proofs about KeyAttributes for any number of threads that make and      *)
(* change objects at once, of objects, secrets, calls and entries of       *)
(* templates: what a key says of itself, in CKA_NEVER_EXTRACTABLE and      *)
(* CKA_ALWAYS_SENSITIVE, is true, and its flags never go back.             *)
(***************************************************************************)
EXTENDS KeyAttributes, TLAPS

(* The policy *)

LEMMA ChecksAre ==
  /\ checks["MODIFIABLE"] = {17} /\ checks["COPYABLE"] = {12}
  /\ checks["SENSITIVE"] = {8, 9, 11} /\ checks["EXTRACTABLE"] = {8, 9, 12}
  /\ checks["WRAP_WITH_TRUSTED"] = {11}
BY DEF checks, Flags

LEMMA UpdatedType ==
  ASSUME NEW flags \in FlagsType, NEW f \in Flags, NEW v \in BOOLEAN, NEW op
  PROVE  Updated(flags, f, v, op) \in FlagsType
<1>1. Remembered(flags, f, v, op) \in FlagsType
  BY DEF Remembered, FlagsType, Flags
<1> QED BY <1>1 DEF Updated, FlagsType

\* What each flag is after an entry.
LEMMA UpdatedFlags ==
  ASSUME NEW flags \in FlagsType, NEW f \in Flags, NEW v \in BOOLEAN, NEW op,
         f \notin {"ALWAYS_SENSITIVE", "NEVER_EXTRACTABLE"}
  PROVE  LET new == Updated(flags, f, v, op)
         IN  /\ new["ALWAYS_SENSITIVE"] => (IF f # "SENSITIVE" THEN flags["ALWAYS_SENSITIVE"]
                  ELSE v /\ (flags["ALWAYS_SENSITIVE"] \/ op \in {"GENERATE", "DERIVE"}))
             /\ new["NEVER_EXTRACTABLE"] => flags["NEVER_EXTRACTABLE"]
             /\ new[f] = v
             /\ \A g \in Flags \ {"ALWAYS_SENSITIVE", "NEVER_EXTRACTABLE", f} : new[g] = flags[g]
<1> DEFINE r == Remembered(flags, f, v, op)
<1>1. /\ r \in FlagsType
      /\ r["ALWAYS_SENSITIVE"] = (IF f # "SENSITIVE" THEN flags["ALWAYS_SENSITIVE"]
           ELSE v /\ (flags["ALWAYS_SENSITIVE"] \/ op \in {"GENERATE", "DERIVE"}))
      /\ r["NEVER_EXTRACTABLE"] = (flags["NEVER_EXTRACTABLE"] /\ ~ (f = "EXTRACTABLE" /\ v))
      /\ \A g \in Flags \ {"ALWAYS_SENSITIVE", "NEVER_EXTRACTABLE"} : r[g] = flags[g]
  BY DEF Remembered, FlagsType, Flags
<1>2. Updated(flags, f, v, op) = [r EXCEPT ![f] = v]
  BY DEF Updated
<1> HIDE DEF r
<1> QED BY <1>1, <1>2 DEF FlagsType, Flags

\* A flag record that says no more, and permits no more, than another.
Less(w, x) ==
  /\ \A f \in {"NEVER_EXTRACTABLE", "ALWAYS_SENSITIVE", "EXTRACTABLE"} : x[f] => w[f]
  /\ w["SENSITIVE"] => x["SENSITIVE"]

LEMMA LessItself == \A w : Less(w, w)
BY DEF Less

\* C_SetAttributeValue and C_CopyObject only tighten.
LEMMA AllowedTightens ==
  ASSUME NEW flags \in FlagsType, NEW f \in Flags, NEW v \in BOOLEAN, NEW op \in {"SET", "COPY"},
         Allowed(flags, f, v, op)
  PROVE  /\ Less(flags, Updated(flags, f, v, op))
         /\ op = "SET" => Tightened(flags, Updated(flags, f, v, op))
         /\ op = "SET" => flags["MODIFIABLE"] /\ Updated(flags, f, v, op)["MODIFIABLE"]
<1> DEFINE new == Updated(flags, f, v, op)
<1>1. /\ f \notin {"ALWAYS_SENSITIVE", "NEVER_EXTRACTABLE"}
      /\ f = "SENSITIVE" => ~ flags["SENSITIVE"]
      /\ f = "EXTRACTABLE" => flags["EXTRACTABLE"]
      /\ f = "WRAP_WITH_TRUSTED" => ~ flags["WRAP_WITH_TRUSTED"]
      /\ f = "COPYABLE" => (v => flags["COPYABLE"])
  BY DEF Allowed, Accepts
<1>2. op = "SET" => flags["MODIFIABLE"] /\ f # "MODIFIABLE"
  BY ChecksAre DEF Allowed, Updatable, MayUpdate, CreationOps
<1>3. /\ new["ALWAYS_SENSITIVE"] => flags["ALWAYS_SENSITIVE"]
      /\ new["NEVER_EXTRACTABLE"] => flags["NEVER_EXTRACTABLE"]
      /\ new[f] = v
      /\ \A g \in Flags \ {"ALWAYS_SENSITIVE", "NEVER_EXTRACTABLE", f} : new[g] = flags[g]
  BY <1>1, UpdatedFlags
<1> HIDE DEF new
<1>4. \A g \in {"SENSITIVE", "WRAP_WITH_TRUSTED"} : flags[g] => new[g]
  BY <1>1, <1>3 DEF Flags
<1>5. \A g \in {"EXTRACTABLE", "COPYABLE"} : new[g] => flags[g]
  BY <1>1, <1>3 DEF Flags
<1>6. op = "SET" => new["MODIFIABLE"] = flags["MODIFIABLE"]
  BY <1>2, <1>3 DEF Flags
<1> QED BY <1>2, <1>3, <1>4, <1>5, <1>6 DEF Less, Tightened, new

\* A key that may change, changed twice.
LEMMA TightenedTwice ==
  ASSUME NEW a, NEW b, NEW c, Tightened(a, b), Tightened(b, c), a["MODIFIABLE"]
  PROVE  Tightened(a, c)
BY DEF Tightened
-----------------------------------------------------------------------------
(* Secrets *)

\* After the step, o is to be judged as q was before it.
From(o, q) ==
  /\ object'[o].value = object[q].value /\ object'[o].origin = object[q].origin
  /\ \A f \in {"NEVER_EXTRACTABLE", "ALWAYS_SENSITIVE", "EXTRACTABLE"} : Claims(o, f)' => Claims(q, f)
  /\ Reads(o)' => Reads(q)

LEMMA ViewsFrom ==
  ASSUME NEW o \in Objects, NEW q \in Objects,
         object'[o].value = object[q].value, object'[o].origin = object[q].origin,
         \A x \in Views(o)' : \E w \in Views(q) : Less(w, x)
  PROVE  From(o, q)
<1>1. ASSUME NEW f \in {"NEVER_EXTRACTABLE", "ALWAYS_SENSITIVE", "EXTRACTABLE"}, Claims(o, f)'
      PROVE  Claims(q, f)
  <2>1. PICK x \in Views(o)' : x[f]
    BY <1>1 DEF Claims
  <2>2. PICK w \in Views(q) : Less(w, x)
    BY <2>1
  <2> QED BY <2>1, <2>2 DEF Claims, Less
<1>2. ASSUME Reads(o)' PROVE Reads(q)
  <2>1. PICK x \in Views(o)' : Retrievable(x)
    BY <1>2 DEF Reads
  <2>2. PICK w \in Views(q) : Less(w, x)
    BY <2>1
  <2> QED BY <2>1, <2>2 DEF Reads, Less, Retrievable
<1> QED BY <1>1, <1>2 DEF From

\* The common case: the flags are one of the object's views, or less than its flags, and
\* no new call changes it.
LEMMA FromItself ==
  ASSUME NEW o \in Objects,
         object'[o].value = object[o].value, object'[o].origin = object[o].origin,
         object'[o].flags \in Views(o) \/ Less(object[o].flags, object'[o].flags),
         \A t \in Threads : Sets(t, o)' =>
           \/ Sets(t, o) /\ call'[t].before = call[t].before
           \/ call'[t].before = object[o].flags
  PROVE  From(o, o)
<1>1. object[o].flags \in Views(o) /\ \A t \in Threads : Sets(t, o) => call[t].before \in Views(o)
  BY DEF Views
<1>2. ASSUME NEW x \in Views(o)' PROVE \E w \in Views(o) : Less(w, x)
  <2>1. x = object'[o].flags \/ \E t \in Threads : Sets(t, o)' /\ x = call'[t].before
    BY <1>2 DEF Views
  <2>2. CASE x = object'[o].flags
    BY <1>1, <2>2, LessItself
  <2>3. ASSUME NEW t \in Threads, Sets(t, o)', x = call'[t].before
        PROVE  \E w \in Views(o) : Less(w, x)
    BY <1>1, <2>3, LessItself
  <2> QED BY <2>1, <2>2, <2>3
<1> QED BY <1>2, ViewsFrom

LEMMA FromTheSame ==
  ASSUME NEW o \in Objects, object'[o] = object[o],
         \A t \in Threads : Sets(t, o)' => Sets(t, o) /\ call'[t].before = call[t].before
  PROVE  From(o, o)
<1>1. object[o].flags \in Views(o)
  BY DEF Views
<1> QED BY <1>1, FromItself

\* An object whose flags say nothing of the past and keep the value inside.
Closed(o) ==
  \A f \in {"NEVER_EXTRACTABLE", "ALWAYS_SENSITIVE", "EXTRACTABLE"} : ~ Claims(o, f)

\* A value from outside, or a new one.
Harmless(v) ==
  v \subseteq disclosed \union wrapped \/ \A o \in Objects : v \intersect object[o].origin = {}

LEMMA SecretsKept ==
  ASSUME Inv, UNCHANGED <<disclosed, wrapped>>, unaccounted \subseteq unaccounted',
         \A o \in Objects :
           /\ object'[o].value \subseteq object'[o].origin
           /\ \/ object'[o].origin \subseteq unaccounted'
              \/ Closed(o)'
              \/ \E q \in Objects : From(o, q),
         \A t \in Threads : call'[t].make.rule = "neither" =>
           \/ call[t].make.rule = "neither" /\ call'[t].value = call[t].value
           \/ Harmless(call'[t].value)
  PROVE  NeverOK' /\ AlwaysOK'
<1> DEFINE acc == unaccounted' \union wrapped
<1>1. ASSUME NEW o \in Objects, Claims(o, "NEVER_EXTRACTABLE")'
      PROVE  /\ object'[o].value \intersect (disclosed \union wrapped) \subseteq unaccounted'
             /\ \A q \in Objects : Claims(q, "EXTRACTABLE")' =>
                  object'[o].value \intersect object'[q].value \subseteq unaccounted'
             /\ \A t \in Threads : call'[t].make.rule = "neither" =>
                  object'[o].value \intersect call'[t].value \subseteq unaccounted'
  <2>1. CASE object'[o].origin \subseteq unaccounted'
    BY <2>1
  <2>2. ASSUME NEW p \in Objects, From(o, p)
        PROVE  /\ object'[o].value \intersect (disclosed \union wrapped) \subseteq unaccounted'
               /\ \A q \in Objects : Claims(q, "EXTRACTABLE")' =>
                    object'[o].value \intersect object'[q].value \subseteq unaccounted'
               /\ \A t \in Threads : call'[t].make.rule = "neither" =>
                    object'[o].value \intersect call'[t].value \subseteq unaccounted'
    <3>1. Claims(p, "NEVER_EXTRACTABLE") /\ object'[o].value = object[p].value
      BY <1>1, <2>2 DEF From
    <3>2. /\ object[p].value \intersect (disclosed \union wrapped) \subseteq unaccounted
          /\ \A q \in Objects : Claims(q, "EXTRACTABLE") =>
               object[p].value \intersect object[q].value \subseteq unaccounted
          /\ \A t \in Threads : call[t].make.rule = "neither" =>
               object[p].value \intersect call[t].value \subseteq unaccounted
      BY <3>1 DEF Inv, NeverOK
    <3>3. ASSUME NEW q \in Objects, Claims(q, "EXTRACTABLE")'
          PROVE  object'[o].value \intersect object'[q].value \subseteq unaccounted'
      <4>1. ~ Closed(q)'
        BY <3>3 DEF Closed
      <4>2. CASE object'[q].origin \subseteq unaccounted'
        BY <4>2
      <4>3. ASSUME NEW r \in Objects, From(q, r)
            PROVE  object'[o].value \intersect object'[q].value \subseteq unaccounted'
        BY <3>1, <3>2, <3>3, <4>3 DEF From
      <4> QED BY <4>1, <4>2, <4>3
    <3>4. ASSUME NEW t \in Threads, call'[t].make.rule = "neither"
          PROVE  object'[o].value \intersect call'[t].value \subseteq unaccounted'
      <4>1. CASE call[t].make.rule = "neither" /\ call'[t].value = call[t].value
        BY <3>1, <3>2, <4>1
      <4>2. CASE call'[t].value \subseteq disclosed \union wrapped
        BY <3>1, <3>2, <4>2
      <4>3. CASE \A q \in Objects : call'[t].value \intersect object[q].origin = {}
        <5>1. object[p].value \subseteq object[p].origin
          BY DEF Inv, ValuesOK
        <5> QED BY <3>1, <4>3, <5>1
      <4> QED BY <3>4, <4>1, <4>2, <4>3 DEF Harmless
    <3> QED BY <3>1, <3>2, <3>3, <3>4
  <2>3. ~ Closed(o)'
    BY <1>1 DEF Closed
  <2> QED BY <2>1, <2>2, <2>3
<1>2. ASSUME NEW o \in Objects, Claims(o, "ALWAYS_SENSITIVE")'
      PROVE  /\ object'[o].origin \intersect disclosed \subseteq acc
             /\ \A q \in Objects : Reads(q)' =>
                  object'[o].origin \intersect object'[q].value \subseteq acc
             /\ \A t \in Threads : call'[t].make.rule = "neither" =>
                  object'[o].origin \intersect call'[t].value \subseteq acc
  <2>1. CASE object'[o].origin \subseteq unaccounted'
    BY <2>1
  <2>2. ASSUME NEW p \in Objects, From(o, p)
        PROVE  /\ object'[o].origin \intersect disclosed \subseteq acc
               /\ \A q \in Objects : Reads(q)' =>
                    object'[o].origin \intersect object'[q].value \subseteq acc
               /\ \A t \in Threads : call'[t].make.rule = "neither" =>
                    object'[o].origin \intersect call'[t].value \subseteq acc
    <3>1. Claims(p, "ALWAYS_SENSITIVE") /\ object'[o].origin = object[p].origin
      BY <1>2, <2>2 DEF From
    <3>2. /\ object[p].origin \intersect disclosed \subseteq unaccounted \union wrapped
          /\ \A q \in Objects : Reads(q) =>
               object[p].origin \intersect object[q].value \subseteq unaccounted \union wrapped
          /\ \A t \in Threads : call[t].make.rule = "neither" =>
               object[p].origin \intersect call[t].value \subseteq unaccounted \union wrapped
      BY <3>1 DEF Inv, AlwaysOK
    <3>3. ASSUME NEW q \in Objects, Reads(q)'
          PROVE  object'[o].origin \intersect object'[q].value \subseteq acc
      <4>1. ~ Closed(q)'
        BY <3>3 DEF Closed, Claims, Reads, Retrievable
      <4>2. CASE object'[q].origin \subseteq unaccounted'
        BY <4>2
      <4>3. ASSUME NEW r \in Objects, From(q, r)
            PROVE  object'[o].origin \intersect object'[q].value \subseteq acc
        BY <3>1, <3>2, <3>3, <4>3 DEF From
      <4> QED BY <4>1, <4>2, <4>3
    <3>4. ASSUME NEW t \in Threads, call'[t].make.rule = "neither"
          PROVE  object'[o].origin \intersect call'[t].value \subseteq acc
      <4>1. CASE call[t].make.rule = "neither" /\ call'[t].value = call[t].value
        BY <3>1, <3>2, <4>1
      <4>2. CASE call'[t].value \subseteq disclosed \union wrapped
        BY <3>1, <3>2, <4>2
      <4>3. CASE \A q \in Objects : call'[t].value \intersect object[q].origin = {}
        BY <3>1, <4>3
      <4> QED BY <3>4, <4>1, <4>2, <4>3 DEF Harmless
    <3> QED BY <3>1, <3>2, <3>3, <3>4
  <2>3. ~ Closed(o)'
    BY <1>2 DEF Closed
  <2> QED BY <2>1, <2>2, <2>3
<1> QED BY <1>1, <1>2 DEF NeverOK, AlwaysOK
-----------------------------------------------------------------------------
(* The constants *)

LEMMA Empties ==
  /\ Defaults \in FlagsType /\ FreeObject \in ObjectType /\ NoCall \in CallType
  /\ FreeObject.state = "free" /\ FreeObject.value = {} /\ FreeObject.origin = {}
  /\ NoCall.phase = "none" /\ NoCall.object = Gone /\ NoCall.base = Gone
  /\ NoCall.make.op = "SET" /\ NoCall.make.rule = "as is"
  /\ NoCall.value = {} /\ NoCall.origin = {} /\ NoCall.other = Gone /\ NoCall.handle = FALSE
<1>1. Defaults \in FlagsType
  BY DEF Defaults, FlagsType
<1>2. FreeObject \in ObjectType
  BY <1>1 DEF FreeObject, ObjectType
<1>3. NoCall \in CallType
  BY <1>1 DEF NoCall, CallType, Maker, MakerType, Ops, Rules
<1> QED BY <1>1, <1>2, <1>3 DEF FreeObject, NoCall, Maker

\* Types as they are used.
LEMMA Typed ==
  ASSUME Inv
  PROVE  /\ object \in [Objects -> ObjectType] /\ call \in [Threads -> CallType]
         /\ \A t \in Threads : call[t].object \in Objects \union {Gone} /\ call[t].base \in Objects \union {Gone}
         /\ \A o \in Objects : object[o].flags \in FlagsType
         /\ secrets \in Nat /\ secrets \in Secrets /\ MaxSecrets \in Nat
<1>1. object \in [Objects -> ObjectType] /\ call \in [Threads -> CallType] /\ secrets \in Secrets
  BY DEF Inv, TypeOK
<1>2. \A t \in Threads : call[t].object \in Objects \union {Gone} /\ call[t].base \in Objects \union {Gone}
  BY <1>1 DEF CallType
<1>3. \A o \in Objects : object[o].flags \in FlagsType
  BY <1>1 DEF ObjectType
<1>4. secrets \in Nat
  BY <1>1, BoundAssumption DEF Secrets
<1> QED BY <1>1, <1>2, <1>3, <1>4, BoundAssumption
-----------------------------------------------------------------------------
(* Steps by which objects go *)

\* A call without what has gone, perhaps in a later phase.
Forgotten(t, gone) ==
  /\ call'[t] \in CallType
  /\ call'[t].make = call[t].make
  /\ \/ call'[t].phase = call[t].phase
     \/ call[t].make.op \notin {"SET", "COPY", "CREATE"} /\ call'[t].phase # "none"
  /\ call'[t].value = call[t].value /\ call'[t].origin = call[t].origin
  /\ call'[t].before = call[t].before
  /\ call'[t].object = IF call[t].object \in gone THEN Gone ELSE call[t].object
  /\ call'[t].base = IF call[t].base \in gone THEN Gone ELSE call[t].base
  /\ call[t] = NoCall => call'[t] = NoCall

LEMMA ForgetForgets ==
  ASSUME Inv, NEW t \in Threads, NEW gone \in SUBSET Objects, NEW h \in BOOLEAN,
         h => call[t].handle, call'[t] = [Forget(call[t], gone) EXCEPT !.handle = h]
  PROVE  Forgotten(t, gone)
<1> DEFINE c == call[t]
           f == Forget(c, gone)
<1>1. c \in CallType
  BY Typed
<1>2. /\ f \in CallType /\ f.phase = c.phase /\ f.make = c.make /\ f.value = c.value
      /\ f.origin = c.origin /\ f.before = c.before
      /\ f.object = IF c.object \in gone THEN Gone ELSE c.object
      /\ f.base = IF c.base \in gone THEN Gone ELSE c.base
  BY <1>1 DEF Forget, CallType
<1>3. c = NoCall => f = c /\ ~ c.handle
  <2>1. SUFFICES ASSUME c = NoCall PROVE f = c /\ ~ c.handle
    OBVIOUS
  <2>2. c.object = Gone /\ c.base = Gone /\ c.other = Gone /\ c.handle = FALSE
    BY <2>1, Empties
  <2> HIDE DEF c
  <2> QED BY <1>1, <2>2, GoneAssumption DEF Forget, CallType
<1>6. f \in CallType /\ f.handle = FALSE => [f EXCEPT !.handle = FALSE] = f
  <2> HIDE DEF f
  <2> QED BY DEF CallType
<1>7. call'[t] = [f EXCEPT !.handle = h]
  OBVIOUS
<1> HIDE DEF f, c
<1>4. /\ call'[t] \in CallType /\ call'[t].phase = f.phase /\ call'[t].make = f.make
      /\ call'[t].value = f.value /\ call'[t].origin = f.origin /\ call'[t].before = f.before
      /\ call'[t].object = f.object /\ call'[t].base = f.base
  BY <1>2, <1>7 DEF CallType
<1>5. c = NoCall => call'[t] = c
  <2>1. ~ c.handle => ~ h
    BY DEF c
  <2>2. c = NoCall => h = FALSE /\ f.handle = FALSE
    BY <1>1, <1>3, <2>1 DEF CallType
  <2> QED BY <1>2, <1>3, <1>6, <1>7, <2>2
<1> QED BY <1>2, <1>4, <1>5 DEF Forgotten, c

LEMMA Invalidated ==
  ASSUME Inv, NEW gone \in SUBSET Objects,
         object' = [o \in Objects |-> IF o \in gone THEN FreeObject ELSE object[o]],
         call' = [t \in Threads |-> call'[t]],
         \A t \in Threads : call'[t] = NoCall \/ Forgotten(t, gone),
         user' \in BOOLEAN, UNCHANGED <<calls, secrets, disclosed, wrapped, unaccounted>>
  PROVE  Inv'
<1>1. \A o \in Objects : object'[o] = IF o \in gone THEN FreeObject ELSE object[o]
  OBVIOUS
<1>2. \A t \in Threads : call'[t] \in CallType
  BY Empties DEF Forgotten
<1>3. \A t \in Threads : call'[t].object # Gone =>
         /\ Forgotten(t, gone) /\ call'[t].object = call[t].object
         /\ call[t].object \in Objects \ gone
  BY Typed, Empties DEF Forgotten
<1>4. TypeOK'
  <2>1. object' \in [Objects -> ObjectType] /\ call' \in [Threads -> CallType]
    BY <1>2, Typed, Empties
  <2>2. \A o \in Objects : object'[o].state = "free" => object'[o] = FreeObject
    BY <1>1 DEF Inv, TypeOK
  <2>3. \A t \in Threads : call'[t].phase = "none" => call'[t] = NoCall
    BY DEF Forgotten, Inv, TypeOK
  <2>4. ASSUME NEW t \in Threads, call'[t].object # Gone
        PROVE  object'[call'[t].object].state \in
                 IF call'[t].make.op = "SET" THEN {"ready", "left"} ELSE {"making"}
    <3>1. call'[t].object = call[t].object /\ call'[t].make = call[t].make /\ call[t].object # Gone
          /\ object'[call[t].object] = object[call[t].object]
      BY <1>1, <1>3, <2>4, GoneAssumption DEF Forgotten
    <3> QED BY <3>1 DEF Inv, TypeOK
  <2> QED BY <2>1, <2>2, <2>3, <2>4 DEF Inv, TypeOK
<1>5. CallsOK'
  <2>1. SUFFICES ASSUME NEW t \in Threads PROVE CallOK(t)'
    BY DEF CallsOK
  <2>2. CASE call'[t] = NoCall
    BY <2>2, Empties DEF CallOK
  <2>3. CASE Forgotten(t, gone)
    <3>1. CallOK(t)
      BY DEF Inv, CallsOK
    <3>2. call'[t].base # Gone => call'[t].base = call[t].base /\ call[t].base \in Objects \ gone
      BY <2>3, Typed DEF Forgotten
    <3>3. call'[t].base # Gone => object'[call[t].base] = object[call[t].base]
      BY <1>1, <3>2
    <3>4. call'[t].object # Gone => object'[call[t].object] = object[call[t].object]
      BY <1>1, <1>3
    <3> QED BY <1>3, <2>3, <3>1, <3>2, <3>3, <3>4 DEF CallOK, Forgotten, Present
  <2> QED BY <2>2, <2>3
<1>6. OneChanger'
  BY <1>3 DEF Inv, OneChanger
<1>7. ValuesOK'
  BY <1>1, Empties DEF Inv, ValuesOK
<1>8. \A t \in Threads : call'[t].make.rule # "as is" => Forgotten(t, gone)
  BY Empties
<1>9. FreshOK'
  <2>1. SUFFICES ASSUME NEW t \in Threads, call'[t].make.rule \in {"local", "inherit"}
                 PROVE  /\ call'[t].value \intersect (disclosed \union wrapped) = {}
                        /\ \A o \in Objects : call'[t].value \intersect object'[o].origin = {}
                        /\ \A s \in Threads : s # t => call'[t].value \intersect call'[s].origin = {}
    BY DEF FreshOK
  <2>2. call'[t].value = call[t].value /\ call[t].make.rule \in {"local", "inherit"}
    BY <1>8, <2>1 DEF Forgotten
  <2>3. \A o \in Objects : object'[o].origin = {} \/ object'[o].origin = object[o].origin
    BY <1>1, Empties
  <2>4. \A s \in Threads : call'[s].origin = {} \/ call'[s].origin = call[s].origin
    BY Empties DEF Forgotten
  <2> QED BY <2>2, <2>3, <2>4 DEF Inv, FreshOK
<1>10. NeverOK' /\ AlwaysOK'
  <2>1. ASSUME NEW o \in Objects
        PROVE  /\ object'[o].value \subseteq object'[o].origin
               /\ object'[o].origin \subseteq unaccounted' \/ From(o, o)
    <3>1. CASE o \in gone
      BY <1>1, <3>1, Empties
    <3>2. CASE o \notin gone
      <4>1. \A t \in Threads : Sets(t, o)' => Sets(t, o) /\ call'[t].before = call[t].before
        BY <1>3, GoneAssumption DEF Sets, Forgotten
      <4> QED BY <1>1, <3>2, <4>1, FromTheSame DEF Inv, ValuesOK
    <3> QED BY <3>1, <3>2
  <2>2. \A t \in Threads : call'[t].make.rule = "neither" =>
          call[t].make.rule = "neither" /\ call'[t].value = call[t].value
    BY <1>8 DEF Forgotten
  <2> QED BY <2>1, <2>2, SecretsKept
<1>11. ChangesOK'
  <2>1. SUFFICES ASSUME NEW t \in Threads, call'[t].object # Gone, call'[t].make.op = "SET"
                 PROVE  /\ call'[t].phase = "template" /\ call'[t].before["MODIFIABLE"]
                        /\ object'[call'[t].object].flags["MODIFIABLE"]
                        /\ Tightened(call'[t].before, object'[call'[t].object].flags)
    BY DEF ChangesOK, Tightened
  <2>2. /\ Forgotten(t, gone) /\ call'[t].object = call[t].object /\ call[t].object # Gone
        /\ object'[call[t].object] = object[call[t].object]
    BY <1>1, <1>3, <2>1
  <2> QED BY <2>1, <2>2 DEF Inv, ChangesOK, Forgotten
<1> QED BY <1>4, <1>5, <1>6, <1>7, <1>9, <1>10, <1>11 DEF Inv

LEMMA C_LogoutStep ==
  ASSUME Inv, C_Logout
  PROVE  Inv'
<1> DEFINE gone == {o \in Objects : object[o].private /\ ~ object[o].token}
           h(t) == call[t].handle /\ ~ (call[t].object \in Objects /\ object[call[t].object].private)
<1>1. /\ object' = [o \in Objects |-> IF o \in gone THEN FreeObject ELSE object[o]]
      /\ call' = [t \in Threads |-> [Forget(call[t], gone) EXCEPT !.handle = @ /\
                    ~ (call[t].object \in Objects /\ object[call[t].object].private)]]
      /\ user' = FALSE /\ UNCHANGED <<calls, secrets, disclosed, wrapped, unaccounted>>
  BY DEF C_Logout, History
<1>2. ASSUME NEW t \in Threads PROVE Forgotten(t, gone)
  <2>1. call[t] \in CallType
    BY Typed
  <2>2. Forget(call[t], gone).handle = call[t].handle
    BY <2>1 DEF Forget, CallType
  <2>3. h(t) \in BOOLEAN /\ (h(t) => call[t].handle)
    BY <2>1 DEF CallType
  <2>4. call'[t] = [Forget(call[t], gone) EXCEPT !.handle = h(t)]
    BY <1>1, <2>2
  <2> HIDE DEF gone, h
  <2>5. gone \in SUBSET Objects
    BY DEF gone
  <2> QED BY <2>3, <2>4, <2>5, ForgetForgets
<1>3. gone \in SUBSET Objects /\ call' = [t \in Threads |-> call'[t]]
  BY <1>1
<1> HIDE DEF gone
<1> QED BY <1>1, <1>2, <1>3, Invalidated

\* One object goes, and with it, perhaps, the call that was making it.
LEMMA OneGone ==
  ASSUME Inv, NEW o \in Objects, NEW ended \in SUBSET Threads,
         object' = [object EXCEPT ![o] = FreeObject],
         call' = [s \in Threads |-> IF s \in ended THEN NoCall ELSE Forget(call[s], {o})],
         UNCHANGED <<calls, user, secrets, disclosed, wrapped, unaccounted>>
  PROVE  Inv'
<1>1. object' = [u \in Objects |-> IF u \in {o} THEN FreeObject ELSE object[u]]
  BY Typed
<1>2. ASSUME NEW t \in Threads PROVE call'[t] = NoCall \/ Forgotten(t, {o})
  <2>1. CASE t \in ended
    BY <2>1
  <2>2. CASE t \notin ended
    <3> DEFINE f == Forget(call[t], {o})
    <3>1. call[t] \in CallType /\ call'[t] = f
      BY <2>2, Typed
    <3>2. f \in CallType /\ f.handle = call[t].handle /\ call[t].handle \in BOOLEAN
      BY <3>1 DEF Forget, CallType
    <3>3. call'[t] = [f EXCEPT !.handle = call[t].handle]
      <4> HIDE DEF f
      <4> QED BY <3>1, <3>2 DEF CallType
    <3> QED BY <3>2, <3>3, ForgetForgets
  <2> QED BY <2>1, <2>2
<1>3. call' = [t \in Threads |-> call'[t]]
  OBVIOUS
<1>4. user' \in BOOLEAN
  BY DEF Inv, TypeOK
<1>5. {o} \in SUBSET Objects
  OBVIOUS
<1> QED BY <1>1, <1>2, <1>3, <1>4, <1>5, Invalidated

LEMMA C_DestroyObjectStep ==
  ASSUME Inv, NEW o \in Objects, C_DestroyObject(o)
  PROVE  Inv'
<1>1. call' = [s \in Threads |-> IF s \in {} THEN NoCall ELSE Forget(call[s], {o})]
  BY DEF C_DestroyObject
<1>2. {} \in SUBSET Threads
  OBVIOUS
<1> HIDE DEF Inv
<1>3. object' = [object EXCEPT ![o] = FreeObject]
      /\ UNCHANGED <<calls, user, secrets, disclosed, wrapped, unaccounted>>
  BY DEF C_DestroyObject, History
<1> QED BY <1>1, <1>2, <1>3, OneGone
-----------------------------------------------------------------------------
(* Steps of a call on its own object *)

\* A call whose object and base key are as they were, perhaps in a later phase.
LEMMA CallStays ==
  ASSUME NEW s \in Threads, CallOK(s), 0..secrets \subseteq 0..secrets',
         call'[s].make = call[s].make, call'[s].value = call[s].value,
         call'[s].origin = call[s].origin, call'[s].object = call[s].object,
         call'[s].base = call[s].base,
         call'[s].phase = call[s].phase \/ call[s].make.op \notin {"SET", "COPY", "CREATE"},
         call[s].object # Gone =>
           /\ object'[call[s].object].value = object[call[s].object].value
           /\ object'[call[s].object].origin = object[call[s].object].origin,
         call[s].base # Gone =>
           /\ object'[call[s].base].state = object[call[s].base].state
           /\ object'[call[s].base].value = object[call[s].base].value
           /\ object'[call[s].base].origin = object[call[s].base].origin
  PROVE  CallOK(s)'
<1>1. call[s].value \subseteq call[s].origin /\ call[s].origin \subseteq 0..secrets'
  BY DEF CallOK
<1>2. call[s].object # Gone /\ call[s].make.op \notin {"SET", "COPY"} =>
        object'[call[s].object].value = {} /\ object'[call[s].object].origin = {}
  BY DEF CallOK
<1>3. call[s].base # Gone => object'[call[s].base].state \in {"ready", "left"}
  BY DEF CallOK, Present
<1>4. /\ call[s].base # Gone /\ call[s].make.rule = "data" =>
           call[s].value = object'[call[s].base].value /\ call[s].origin = object'[call[s].base].origin
      /\ call[s].base # Gone /\ call[s].make.rule = "inherit" =>
           call[s].origin = object'[call[s].base].origin \union call[s].value
      /\ call[s].make.rule = "local" => call[s].origin = call[s].value
  BY DEF CallOK
<1>5. /\ call[s].make.op \in {"SET", "COPY"} <=> call[s].make.rule = "as is"
      /\ call[s].make.op \in {"SET", "COPY"} => call'[s].phase \in {"none", "template"}
      /\ call[s].make.op = "CREATE" =>
           call[s].make.rule = "neither" /\ call'[s].phase = "template" /\ call[s].origin = call[s].value
  BY DEF CallOK
<1> QED BY <1>1, <1>2, <1>3, <1>4, <1>5 DEF CallOK, Present

\* The types and the calls, when call t and the object o that is nobody else's change.
LEMMA LocalStep ==
  ASSUME Inv, NEW t \in Threads, NEW o \in Objects, NEW x \in ObjectType, NEW c \in CallType,
         object' = [object EXCEPT ![o] = x], call' = [call EXCEPT ![t] = c],
         \A s \in Threads : s # t => call[s].object # o,
         x.state # "free",
         Present(o) => x.state = object[o].state /\ x.value = object[o].value /\ x.origin = object[o].origin,
         c.phase = "none" => c = NoCall, c.object \in {o, Gone},
         c.object = o => x.state \in IF c.make.op = "SET" THEN {"ready", "left"} ELSE {"making"},
         CallOK(t)', x.value \subseteq x.origin, x.origin \subseteq 0..secrets',
         secrets' \in {secrets, secrets + 1}, secrets' \in Secrets,
         calls' \in 0..MaxCalls, user' \in BOOLEAN,
         unaccounted' \subseteq Secrets, UNCHANGED <<disclosed, wrapped>>,
         c.object = o /\ c.make.op = "SET" =>
           /\ c.phase = "template" /\ c.before["MODIFIABLE"] /\ x.flags["MODIFIABLE"]
           /\ Tightened(c.before, x.flags)
  PROVE  TypeOK' /\ CallsOK' /\ OneChanger' /\ ValuesOK' /\ ChangesOK'
<1>1. object'[o] = x /\ \A u \in Objects : u # o => object'[u] = object[u]
  BY Typed
<1>2. call'[t] = c /\ \A s \in Threads : s # t => call'[s] = call[s]
  BY Typed
<1>3. \A s \in Threads : s # t /\ call[s].object # Gone =>
         call[s].object \in Objects /\ object'[call[s].object] = object[call[s].object]
  BY <1>1, Typed
<1>4. TypeOK'
  <2>1. object' \in [Objects -> ObjectType] /\ call' \in [Threads -> CallType]
    BY Typed
  <2>2. \A u \in Objects : object'[u].state = "free" => object'[u] = FreeObject
    BY <1>1 DEF Inv, TypeOK
  <2>3. \A s \in Threads : call'[s].phase = "none" => call'[s] = NoCall
    BY <1>2 DEF Inv, TypeOK
  <2>4. ASSUME NEW s \in Threads, call'[s].object # Gone
        PROVE  object'[call'[s].object].state \in
                 IF call'[s].make.op = "SET" THEN {"ready", "left"} ELSE {"making"}
    <3>1. CASE s = t
      BY <1>1, <1>2, <2>4, <3>1
    <3>2. CASE s # t
      BY <1>2, <1>3, <2>4, <3>2 DEF Inv, TypeOK
    <3> QED BY <3>1, <3>2
  <2> QED BY <2>1, <2>2, <2>3, <2>4 DEF Inv, TypeOK
<1>5. CallsOK'
  <2>1. SUFFICES ASSUME NEW s \in Threads PROVE CallOK(s)'
    BY DEF CallsOK
  <2>2. CASE s = t
    BY <2>2
  <2>3. CASE s # t
    <3>1. CallOK(s) /\ call'[s] = call[s]
      BY <1>2, <2>3 DEF Inv, CallsOK
    <3>2. call[s].base # Gone =>
            /\ object'[call[s].base].state = object[call[s].base].state
            /\ object'[call[s].base].value = object[call[s].base].value
            /\ object'[call[s].base].origin = object[call[s].base].origin
      <4>1. SUFFICES ASSUME call[s].base # Gone
                     PROVE  /\ object'[call[s].base].state = object[call[s].base].state
                            /\ object'[call[s].base].value = object[call[s].base].value
                            /\ object'[call[s].base].origin = object[call[s].base].origin
        OBVIOUS
      <4>2. call[s].base \in Objects /\ Present(call[s].base)
        BY <3>1, <4>1, Typed DEF CallOK
      <4> QED BY <1>1, <4>2
    <3>3. 0..secrets \subseteq 0..secrets'
      BY Typed
    <3>4. call[s].object # Gone => object'[call[s].object] = object[call[s].object]
      BY <1>3, <2>3
    <3> QED BY <3>1, <3>2, <3>3, <3>4, CallStays
  <2> QED BY <2>2, <2>3
<1>6. OneChanger'
  BY <1>2 DEF Inv, OneChanger
<1>7. ValuesOK'
  <2>1. 0..secrets \subseteq 0..secrets'
    BY Typed
  <2> QED BY <1>1, <2>1 DEF Inv, ValuesOK
<1>8. ChangesOK'
  <2>1. SUFFICES ASSUME NEW s \in Threads, call'[s].object # Gone, call'[s].make.op = "SET"
                 PROVE  /\ call'[s].phase = "template" /\ call'[s].before["MODIFIABLE"]
                        /\ object'[call'[s].object].flags["MODIFIABLE"]
                        /\ Tightened(call'[s].before, object'[call'[s].object].flags)
    BY DEF ChangesOK, Tightened
  <2>2. CASE s = t
    BY <1>1, <1>2, <2>1, <2>2
  <2>3. CASE s # t
    BY <1>2, <1>3, <2>1, <2>3 DEF Inv, ChangesOK
  <2> QED BY <2>2, <2>3
<1> QED BY <1>4, <1>5, <1>6, <1>7, <1>8

\* What a call in the middle has computed stays new.
LEMMA LocalFresh ==
  ASSUME Inv, NEW t \in Threads, NEW o \in Objects, NEW x \in ObjectType, NEW c \in CallType,
         object' = [object EXCEPT ![o] = x], call' = [call EXCEPT ![t] = c],
         UNCHANGED <<disclosed, wrapped>>,
         c.make.rule \in {"local", "inherit"} =>
           call[t].make.rule \in {"local", "inherit"} /\ c.value = call[t].value,
         c.origin \subseteq call[t].origin,
         \/ \E q \in Objects : x.origin \subseteq object[q].origin
         \/ c.make.rule \notin {"local", "inherit"} /\ x.origin \subseteq call[t].origin
  PROVE  FreshOK'
<1>1. object'[o] = x /\ \A u \in Objects : u # o => object'[u] = object[u]
  BY Typed
<1>2. call'[t] = c /\ \A s \in Threads : s # t => call'[s] = call[s]
  BY Typed
<1>3. SUFFICES ASSUME NEW r \in Threads, call'[r].make.rule \in {"local", "inherit"}
               PROVE  /\ call'[r].value \intersect (disclosed \union wrapped) = {}
                      /\ \A u \in Objects : call'[r].value \intersect object'[u].origin = {}
                      /\ \A s \in Threads : s # r => call'[r].value \intersect call'[s].origin = {}
  BY DEF FreshOK
<1>4. call'[r].value = call[r].value /\ call[r].make.rule \in {"local", "inherit"}
  BY <1>2, <1>3
<1>5. /\ call[r].value \intersect (disclosed \union wrapped) = {}
      /\ \A u \in Objects : call[r].value \intersect object[u].origin = {}
      /\ \A s \in Threads : s # r => call[r].value \intersect call[s].origin = {}
  BY <1>4 DEF Inv, FreshOK
<1>6. \A s \in Threads : call'[s].origin \subseteq call[s].origin
  BY <1>2
<1>7. call[r].value \intersect x.origin = {}
  <2>1. ASSUME NEW q \in Objects, x.origin \subseteq object[q].origin
        PROVE  call[r].value \intersect x.origin = {}
    BY <1>5, <2>1
  <2>2. CASE c.make.rule \notin {"local", "inherit"} /\ x.origin \subseteq call[t].origin
    BY <1>2, <1>3, <1>5, <2>2
  <2> QED BY <2>1, <2>2
<1> QED BY <1>1, <1>4, <1>5, <1>6, <1>7

\* The secrets, likewise: all depends on the one object.
LEMMA LocalSecrets ==
  ASSUME Inv, NEW t \in Threads, NEW o \in Objects, NEW x \in ObjectType, NEW c \in CallType,
         object' = [object EXCEPT ![o] = x], call' = [call EXCEPT ![t] = c], c.object \in {o, Gone},
         UNCHANGED <<disclosed, wrapped>>, unaccounted \subseteq unaccounted',
         x.value \subseteq x.origin,
         \/ x.origin \subseteq unaccounted'
         \/ Closed(o)'
         \/ \E q \in Objects : From(o, q),
         c.make.rule = "neither" =>
           \/ call[t].make.rule = "neither" /\ c.value = call[t].value
           \/ Harmless(c.value)
  PROVE  NeverOK' /\ AlwaysOK'
<1>1. object'[o] = x /\ \A u \in Objects : u # o => object'[u] = object[u]
  BY Typed
<1>2. call'[t] = c /\ \A s \in Threads : s # t => call'[s] = call[s]
  BY Typed
<1>3. ASSUME NEW u \in Objects, u # o PROVE From(u, u)
  <2>1. \A s \in Threads : Sets(s, u)' => Sets(s, u) /\ call'[s].before = call[s].before
    BY <1>2, <1>3, GoneAssumption DEF Sets
  <2> QED BY <1>1, <1>3, <2>1, FromTheSame
<1>4. ASSUME NEW u \in Objects
      PROVE  /\ object'[u].value \subseteq object'[u].origin
             /\ \/ object'[u].origin \subseteq unaccounted'
                \/ Closed(u)'
                \/ \E q \in Objects : From(u, q)
  <2>1. CASE u = o
    BY <1>1, <2>1
  <2>2. CASE u # o
    BY <1>1, <1>3, <2>2 DEF Inv, ValuesOK
  <2> QED BY <2>1, <2>2
<1>5. \A s \in Threads : call'[s].make.rule = "neither" =>
         \/ call[s].make.rule = "neither" /\ call'[s].value = call[s].value
         \/ Harmless(call'[s].value)
  BY <1>2
<1> QED BY <1>4, <1>5, SecretsKept
-----------------------------------------------------------------------------
(* The template *)

\* What is known of the object of a call.
LEMMA ItsObject ==
  ASSUME Inv, NEW t \in Threads, NEW o, o = call[t].object, o # Gone
  PROVE  /\ o \in Objects /\ object[o] \in ObjectType /\ call[t] \in CallType
         /\ call[t].phase # "none" /\ object[o].state # "free"
         /\ object[o].state \in (IF call[t].make.op = "SET" THEN {"ready", "left"} ELSE {"making"})
         /\ (Present(o) <=> call[t].make.op = "SET")
         /\ \A s \in Threads : s # t => call[s].object # o
         /\ object[o].value \subseteq object[o].origin /\ object[o].origin \subseteq 0..secrets
         /\ CallOK(t)
         /\ call[t].make.op \notin {"SET", "COPY"} => object[o].value = {} /\ object[o].origin = {}
<1>1. o \in Objects /\ object[o] \in ObjectType /\ call[t] \in CallType
  BY Typed
<1>2. object[o].state \in (IF call[t].make.op = "SET" THEN {"ready", "left"} ELSE {"making"})
  BY DEF Inv, TypeOK
<1>3. call[t].phase # "none"
  BY Empties DEF Inv, TypeOK
<1>4. CallOK(t)
  BY DEF Inv, CallsOK
<1>5. call[t].make.op \notin {"SET", "COPY"} => object[o].value = {} /\ object[o].origin = {}
  BY <1>4 DEF CallOK
<1> QED BY <1>1, <1>2, <1>3, <1>4, <1>5 DEF Inv, OneChanger, ValuesOK, Present

LEMMA OneEntryMore ==
  ASSUME NEW old \in CallType
  PROVE  LET c == [old EXCEPT !.entries = @ + 1]
         IN  /\ c \in CallType /\ c.phase = old.phase /\ c.make = old.make /\ c.object = old.object
             /\ c.base = old.base /\ c.value = old.value /\ c.origin = old.origin
             /\ c.before = old.before
<1> DEFINE n == old.entries + 1
           c == [old EXCEPT !.entries = n]
<1>1. n \in Nat
  <2>1. old.entries \in Nat
    BY DEF CallType
  <2> QED BY <2>1
<1> HIDE DEF n
<1>2. c \in CallType
  BY <1>1 DEF CallType
<1>3. /\ c.phase = old.phase /\ c.make = old.make /\ c.object = old.object
      /\ c.base = old.base /\ c.value = old.value /\ c.origin = old.origin
      /\ c.before = old.before
  BY DEF CallType
<1> QED BY <1>2, <1>3 DEF n

LEMMA EntryStep ==
  ASSUME Inv, NEW t \in Threads, NEW f \in Flags, NEW v \in BOOLEAN, Entry(t, f, v)
  PROVE  Inv'
<1>a. PICK o : o = call[t].object
  OBVIOUS
<1>b. PICK op : op = call[t].make.op
  OBVIOUS
<1> DEFINE new == Updated(object[o].flags, f, v, op)
           x == [object[o] EXCEPT !.flags = new]
           c == [call[t] EXCEPT !.entries = @ + 1]
<1>1. /\ call[t].phase = "template" /\ o # Gone /\ Allowed(object[o].flags, f, v, op)
      /\ UNCHANGED <<calls, user, secrets, disclosed, wrapped, unaccounted>>
  BY <1>a, <1>b DEF Entry, History
<1>2. /\ o \in Objects /\ object[o] \in ObjectType /\ call[t] \in CallType /\ object[o].state # "free"
      /\ object[o].state \in (IF op = "SET" THEN {"ready", "left"} ELSE {"making"})
      /\ (Present(o) <=> op = "SET")
      /\ \A s \in Threads : s # t => call[s].object # o
      /\ object[o].value \subseteq object[o].origin /\ object[o].origin \subseteq 0..secrets
      /\ CallOK(t)
      /\ op \notin {"SET", "COPY"} => object[o].value = {} /\ object[o].origin = {}
  BY <1>a, <1>b, <1>1, ItsObject
<1>3. object' = [object EXCEPT ![o] = x] /\ call' = [call EXCEPT ![t] = c]
  BY <1>a, <1>b, <1>2, Typed DEF Entry
<1>4. new \in FlagsType /\ object[o].flags \in FlagsType
  BY <1>2, UpdatedType DEF ObjectType
<1>5. op \in {"SET", "COPY"} => Less(object[o].flags, new)
  BY <1>1, <1>4, AllowedTightens
<1>6. op = "SET" => /\ Tightened(object[o].flags, new) /\ new["MODIFIABLE"]
  BY <1>1, <1>4, AllowedTightens
<1> HIDE DEF new
<1>7. /\ x \in ObjectType /\ x.flags = new /\ x.state = object[o].state
      /\ x.value = object[o].value /\ x.origin = object[o].origin
  BY <1>2, <1>4 DEF ObjectType
<1>8. /\ c \in CallType /\ c.phase = call[t].phase /\ c.make = call[t].make /\ c.object = o
      /\ c.base = call[t].base /\ c.value = call[t].value /\ c.origin = call[t].origin
      /\ c.before = call[t].before
  BY <1>a, <1>2, OneEntryMore
<1> HIDE DEF x, c
<1>9. /\ object'[o] = x /\ \A u \in Objects : u # o => object'[u] = object[u]
      /\ call'[t] = c /\ \A s \in Threads : s # t => call'[s] = call[s]
  BY <1>2, <1>3, Typed
<1>10. CallOK(t)'
  <2>1. \A u \in Objects : object'[u].state = object[u].state /\ object'[u].value = object[u].value
                           /\ object'[u].origin = object[u].origin
    BY <1>7, <1>9
  <2> QED BY <1>a, <1>1, <1>2, <1>8, <1>9, <2>1, Typed, CallStays
<1>11. op = "SET" => /\ c.before["MODIFIABLE"] /\ x.flags["MODIFIABLE"]
                     /\ Tightened(c.before, x.flags)
  <2>1. op = "SET" => call[t].before["MODIFIABLE"] /\ Tightened(call[t].before, object[o].flags)
    BY <1>a, <1>b, <1>1 DEF Inv, ChangesOK
  <2> QED BY <1>6, <1>7, <1>8, <2>1, TightenedTwice
<1>12. TypeOK' /\ CallsOK' /\ OneChanger' /\ ValuesOK' /\ ChangesOK'
  <2>1. calls' \in 0..MaxCalls /\ user' \in BOOLEAN /\ unaccounted' \subseteq Secrets /\ secrets' \in Secrets
    BY <1>1 DEF Inv, TypeOK
  <2>2. /\ c.object \in {o, Gone} /\ c.phase = "template" /\ c.make.op = op
        /\ x.state # "free" /\ x.state \in (IF op = "SET" THEN {"ready", "left"} ELSE {"making"})
        /\ x.value \subseteq x.origin /\ x.origin \subseteq 0..secrets' /\ secrets' = secrets
    BY <1>a, <1>b, <1>1, <1>2, <1>7, <1>8
  <2> QED BY <1>1, <1>2, <1>3, <1>7, <1>8, <1>10, <1>11, <2>1, <2>2, LocalStep
<1>13. FreshOK'
  BY <1>1, <1>2, <1>3, <1>7, <1>8, LocalFresh
<1>14. x.origin \subseteq unaccounted' \/ From(o, o)
  <2>1. CASE op \in {"SET", "COPY"}
    <3>1. \A s \in Threads : Sets(s, o)' => Sets(s, o) /\ call'[s].before = call[s].before
      BY <1>a, <1>8, <1>9 DEF Sets
    <3>2. Less(object[o].flags, object'[o].flags)
      BY <1>5, <1>7, <1>9, <2>1
    <3>3. object'[o].value = object[o].value /\ object'[o].origin = object[o].origin
      BY <1>7, <1>9
    <3> QED BY <1>2, <3>1, <3>2, <3>3, FromItself
  <2>2. CASE op \notin {"SET", "COPY"}
    BY <1>2, <1>7, <2>2
  <2> QED BY <2>1, <2>2
<1>15. NeverOK' /\ AlwaysOK'
  BY <1>1, <1>2, <1>3, <1>7, <1>8, <1>14, LocalSecrets
<1> QED BY <1>12, <1>13, <1>15 DEF Inv

\* A call that ends and leaves its object as x: all but what the flags say.
LEMMA EndStep ==
  ASSUME Inv, NEW t \in Threads, NEW o, o = call[t].object, o # Gone, NEW x \in ObjectType,
         object' = [object EXCEPT ![o] = x], call' = [call EXCEPT ![t] = NoCall],
         x.state # "free",
         call[t].make.op = "SET" => /\ x.state = object[o].state
                                    /\ x.value = object[o].value /\ x.origin = object[o].origin,
         x.value \subseteq x.origin,
         x.origin \subseteq object[o].origin \/ x.origin \subseteq call[t].origin,
         UNCHANGED <<calls, user, secrets, disclosed, wrapped>>,
         unaccounted' \subseteq Secrets
  PROVE  TypeOK' /\ CallsOK' /\ OneChanger' /\ ValuesOK' /\ ChangesOK' /\ FreshOK'
<1>1. /\ o \in Objects /\ (Present(o) <=> call[t].make.op = "SET")
      /\ \A s \in Threads : s # t => call[s].object # o
      /\ object[o].origin \subseteq 0..secrets /\ CallOK(t)
  BY ItsObject
<1>2. call'[t] = NoCall
  BY Typed
<1>3. CallOK(t)'
  BY <1>2, Empties DEF CallOK
<1>4. x.origin \subseteq 0..secrets'
  BY <1>1 DEF CallOK
<1>5. calls' \in 0..MaxCalls /\ user' \in BOOLEAN /\ secrets' \in Secrets
  BY DEF Inv, TypeOK
<1>6. Present(o) => x.state = object[o].state /\ x.value = object[o].value /\ x.origin = object[o].origin
  BY <1>1
<1>7. TypeOK' /\ CallsOK' /\ OneChanger' /\ ValuesOK' /\ ChangesOK'
  BY <1>1, <1>3, <1>4, <1>5, <1>6, Empties, LocalStep
<1>8. FreshOK'
  <2>1. \/ \E q \in Objects : x.origin \subseteq object[q].origin
        \/ NoCall.make.rule \notin {"local", "inherit"} /\ x.origin \subseteq call[t].origin
    BY <1>1, Empties
  <2> QED BY <1>1, <2>1, Empties, LocalFresh
<1> QED BY <1>7, <1>8

\* And all.
LEMMA EndSecrets ==
  ASSUME Inv, NEW t \in Threads, NEW o, o = call[t].object, o # Gone, NEW x \in ObjectType,
         object' = [object EXCEPT ![o] = x], call' = [call EXCEPT ![t] = NoCall],
         x.state # "free",
         call[t].make.op = "SET" => /\ x.state = object[o].state
                                    /\ x.value = object[o].value /\ x.origin = object[o].origin,
         x.value \subseteq x.origin,
         x.origin \subseteq object[o].origin \/ x.origin \subseteq call[t].origin,
         UNCHANGED <<calls, user, secrets, disclosed, wrapped>>,
         unaccounted \subseteq unaccounted', unaccounted' \subseteq Secrets,
         \/ x.origin \subseteq unaccounted'
         \/ Closed(o)'
         \/ \E q \in Objects : From(o, q)
  PROVE  Inv'
<1>1. TypeOK' /\ CallsOK' /\ OneChanger' /\ ValuesOK' /\ ChangesOK' /\ FreshOK'
  BY EndStep
<1>2. o \in Objects /\ NoCall \in CallType /\ NoCall.object \in {o, Gone} /\ NoCall.make.rule = "as is"
  BY ItsObject, Empties
<1>3. NeverOK' /\ AlwaysOK'
  BY <1>2, LocalSecrets
<1> QED BY <1>1, <1>3 DEF Inv

\* Only a call changes: it ends, or goes on.
LEMMA CallOnly ==
  ASSUME Inv, NEW t \in Threads, NEW c, call' = [call EXCEPT ![t] = c],
         \/ c = NoCall
         \/ /\ c \in CallType /\ c.make = call[t].make /\ c.phase # "none" /\ call[t].phase # "none"
            /\ c.value = call[t].value /\ c.origin = call[t].origin /\ c.before = call[t].before
            /\ c.object = call[t].object /\ c.base = call[t].base
            /\ call[t].make.op \notin {"SET", "COPY", "CREATE"},
         UNCHANGED <<object, calls, user, secrets, disclosed, wrapped, unaccounted>>
  PROVE  Inv'
<1>1. object' = [o \in Objects |-> IF o \in {} THEN FreeObject ELSE object[o]]
  BY Typed
<1>2. call'[t] = c /\ \A s \in Threads : s # t => call'[s] = call[s]
  BY Typed
<1>3. call' = [s \in Threads |-> call'[s]]
  BY Typed
<1>4. ASSUME NEW s \in Threads PROVE call'[s] = NoCall \/ Forgotten(s, {})
  <2>1. CASE s # t
    BY <1>2, <2>1, Typed DEF Forgotten
  <2>2. CASE s = t /\ c # NoCall
    <3>1. call[t] # NoCall
      BY <2>2, Empties
    <3> QED BY <1>2, <2>2, <3>1 DEF Forgotten
  <2> QED BY <1>2, <2>1, <2>2
<1>5. {} \in SUBSET Objects /\ user' \in BOOLEAN
  BY DEF Inv, TypeOK
<1> QED BY <1>1, <1>3, <1>4, <1>5, Invalidated

\* Nobody else has the object in hand: it is judged by the flags it has been left with.
LEMMA EndSets ==
  ASSUME Inv, NEW t \in Threads, NEW o, o = call[t].object, o # Gone,
         call' = [call EXCEPT ![t] = NoCall]
  PROVE  \A s \in Threads : ~ Sets(s, o)'
<1>1. o \in Objects /\ \A s \in Threads : s # t => call[s].object # o
  BY ItsObject
<1>2. call'[t] = NoCall /\ \A s \in Threads : s # t => call'[s] = call[s]
  BY <1>1, Typed
<1> QED BY <1>1, <1>2, Empties DEF Sets

LEMMA EndViews ==
  ASSUME NEW o, \A s \in Threads : ~ Sets(s, o)'
  PROVE  /\ \A f \in Flags : Claims(o, f)' <=> object'[o].flags[f]
         /\ Reads(o)' <=> Retrievable(object'[o].flags)
         /\ \A w \in Views(o)' : w = object'[o].flags
<1>1. Views(o)' = {object'[o].flags}
  BY DEF Views
<1> QED BY <1>1 DEF Claims, Reads

LEMMA RefuseStep ==
  ASSUME Inv, NEW t \in Threads, NEW f \in Flags, NEW v \in BOOLEAN, NEW valued \in BOOLEAN,
         Refuse(t, f, v, valued)
  PROVE  Inv'
<1>a. PICK o : o = call[t].object
  OBVIOUS
<1>b. PICK op : op = call[t].make.op
  OBVIOUS
<1>1. /\ call[t].phase = "template" /\ o # Gone
      /\ valued => op = "CREATE" /\ ~ object[o].token
      /\ unaccounted' = unaccounted \union (IF valued THEN call[t].value ELSE {})
      /\ UNCHANGED <<calls, user, secrets, disclosed, wrapped>>
  BY <1>a, <1>b DEF Refuse
<1>2. /\ o \in Objects /\ object[o] \in ObjectType /\ call[t] \in CallType /\ object[o].state # "free"
      /\ object[o].value \subseteq object[o].origin /\ CallOK(t)
      /\ op \notin {"SET", "COPY"} => object[o].value = {} /\ object[o].origin = {}
  BY <1>a, <1>b, <1>1, ItsObject
<1>3. unaccounted \subseteq unaccounted' /\ unaccounted' \subseteq Secrets
  BY <1>1, <1>2 DEF Inv, TypeOK, CallType
<1>4. CASE op = "COPY"
  <2>1. object' = [object EXCEPT ![o] = FreeObject]
    BY <1>a, <1>b, <1>4 DEF Refuse
  <2>2. call' = [s \in Threads |-> IF s \in {t} THEN NoCall ELSE Forget(call[s], {o})]
    BY <1>a, <1>b, <1>4 DEF Refuse
  <2>3. {t} \in SUBSET Threads /\ unaccounted' = unaccounted
    BY <1>1, <1>4
  <2> QED BY <1>1, <1>2, <2>1, <2>2, <2>3, OneGone
<1>5. op # "COPY" => call' = [call EXCEPT ![t] = NoCall]
  BY <1>b, Typed DEF Refuse
<1>6. CASE op = "SET"
  <2> DEFINE new == IF object[o].token THEN call[t].before ELSE object[o].flags
             x == [object[o] EXCEPT !.flags = new]
  <2>1. object' = [object EXCEPT ![o] = x]
    BY <1>a, <1>b, <1>6 DEF Refuse
  <2>2. new \in FlagsType
    BY <1>2 DEF ObjectType, CallType
  <2>3. new \in Views(o)
    BY <1>a, <1>b, <1>6 DEF Views, Sets
  <2> HIDE DEF new
  <2>4. /\ x \in ObjectType /\ x.flags = new /\ x.state = object[o].state
        /\ x.value = object[o].value /\ x.origin = object[o].origin
    BY <1>2, <2>2 DEF ObjectType
  <2> HIDE DEF x
  <2>5. /\ \A s \in Threads : ~ Sets(s, o)'
        /\ object'[o] = x
    BY <1>a, <1>1, <1>2, <1>5, <1>6, <2>1, Typed, EndSets
  <2>6. From(o, o)
    BY <1>2, <2>3, <2>4, <2>5, FromItself
  <2> QED BY <1>a, <1>1, <1>2, <1>3, <1>5, <1>6, <2>1, <2>4, <2>6, EndSecrets
<1>7. CASE op \notin {"SET", "COPY"}
  <2> DEFINE new == IF object[o].token THEN call[t].before ELSE object[o].flags
             val == IF valued THEN call[t].value ELSE {}
             org == IF valued THEN call[t].origin ELSE {}
             prv == object[o].private \/ object[o].token
             x == [object[o] EXCEPT !.state = "left", !.private = prv, !.flags = new,
                                    !.value = val, !.origin = org]
  <2>1. object' = [object EXCEPT ![o] = x]
    BY <1>a, <1>b, <1>2, <1>7 DEF Refuse, ObjectType
  <2>2. new \in FlagsType /\ prv \in BOOLEAN
    BY <1>2 DEF ObjectType, CallType
  <2>3. val \in SUBSET Secrets /\ org \in SUBSET Secrets
    BY <1>2 DEF CallType
  <2>4. val \subseteq org /\ org \subseteq unaccounted' /\ org \subseteq call[t].origin
    BY <1>b, <1>1, <1>2 DEF CallOK
  <2> HIDE DEF new, val, org, prv
  <2>5. x \in ObjectType /\ x.state = "left" /\ x.value = val /\ x.origin = org
    BY <1>2, <2>2, <2>3 DEF ObjectType
  <2> HIDE DEF x
  <2> QED BY <1>a, <1>b, <1>1, <1>2, <1>3, <1>5, <1>7, <2>1, <2>4, <2>5, EndSecrets
<1> QED BY <1>4, <1>6, <1>7

LEMMA LookUpStep ==
  ASSUME Inv, NEW t \in Threads, LookUp(t)
  PROVE  Inv'
<1> DEFINE c == [call[t] EXCEPT !.phase = "store"]
<1>1. call[t] \in CallType /\ CallOK(t)
  BY Typed DEF Inv, CallsOK
<1>2. call[t].make.op \notin {"SET", "COPY", "CREATE"} /\ call[t].phase # "none"
  BY <1>1 DEF LookUp, CallOK
<1>3. /\ c \in CallType /\ c.phase # "none" /\ c.make = call[t].make /\ c.object = call[t].object
      /\ c.base = call[t].base /\ c.value = call[t].value /\ c.origin = call[t].origin
      /\ c.before = call[t].before
  BY <1>1 DEF CallType
<1>4. call' = [call EXCEPT ![t] = c]
      /\ UNCHANGED <<object, calls, user, secrets, disclosed, wrapped, unaccounted>>
  BY DEF LookUp, History
<1> HIDE DEF c
<1> QED BY <1>2, <1>3, <1>4, CallOnly

LEMMA LostStep ==
  ASSUME Inv, NEW t \in Threads, Lost(t)
  PROVE  Inv'
<1>a. PICK o : o = call[t].object
  OBVIOUS
<1>1. /\ call' = [call EXCEPT ![t] = NoCall]
      /\ UNCHANGED <<calls, user, secrets, disclosed, wrapped, unaccounted>>
  BY DEF Lost, History
<1>2. CASE o = Gone
  BY <1>a, <1>1, <1>2, CallOnly DEF Lost
<1>3. CASE o # Gone
  <2> DEFINE x == [object[o] EXCEPT !.state = "left"]
  <2>1. object' = [object EXCEPT ![o] = x]
    BY <1>a, <1>3 DEF Lost
  <2>2. /\ o \in Objects /\ object[o] \in ObjectType /\ CallOK(t)
        /\ call[t].make.op \notin {"SET", "COPY"} => object[o].value = {} /\ object[o].origin = {}
    BY <1>a, <1>3, ItsObject
  <2>3. call[t].make.op \notin {"SET", "COPY"}
    BY <1>a, <1>3, <2>2 DEF Lost, CallOK
  <2>4. x \in ObjectType /\ x.state = "left" /\ x.value = {} /\ x.origin = {}
    BY <2>2, <2>3 DEF ObjectType
  <2>5. unaccounted' \subseteq Secrets
    BY <1>1 DEF Inv, TypeOK
  <2> HIDE DEF x
  <2> QED BY <1>a, <1>1, <1>3, <2>1, <2>3, <2>4, <2>5, EndSecrets
<1> QED BY <1>2, <1>3

LEMMA StoreFailsStep ==
  ASSUME Inv, NEW t \in Threads, StoreFails(t)
  PROVE  Inv'
<1>a. PICK o : o = call[t].object
  OBVIOUS
<1>1. /\ call[t].phase = "store" /\ o # Gone
      /\ UNCHANGED <<calls, user, secrets, disclosed, wrapped, unaccounted>>
  BY <1>a DEF StoreFails, History
<1>2. /\ o \in Objects /\ object[o] \in ObjectType /\ CallOK(t)
      /\ call[t].make.op \notin {"SET", "COPY"} => object[o].value = {} /\ object[o].origin = {}
  BY <1>a, <1>1, ItsObject
<1>3. CASE call[t].handle
  <2>1. /\ object' = [object EXCEPT ![o] = FreeObject]
        /\ call' = [s \in Threads |-> IF s \in {t} THEN NoCall ELSE Forget(call[s], {o})]
    BY <1>a, <1>3 DEF StoreFails
  <2>2. {t} \in SUBSET Threads
    OBVIOUS
  <2> QED BY <1>1, <1>2, <2>1, <2>2, OneGone
<1>4. CASE ~ call[t].handle
  <2> DEFINE x == [object[o] EXCEPT !.state = "left"]
  <2>1. object' = [object EXCEPT ![o] = x] /\ call' = [call EXCEPT ![t] = NoCall]
    BY <1>a, <1>4, Typed DEF StoreFails
  <2>2. call[t].make.op \notin {"SET", "COPY"}
    BY <1>1, <1>2 DEF CallOK
  <2>3. x \in ObjectType /\ x.state = "left" /\ x.value = {} /\ x.origin = {}
    BY <1>2, <2>2 DEF ObjectType
  <2>4. unaccounted' \subseteq Secrets
    BY <1>1 DEF Inv, TypeOK
  <2> HIDE DEF x
  <2> QED BY <1>a, <1>1, <2>1, <2>2, <2>3, <2>4, EndSecrets
<1> QED BY <1>3, <1>4
-----------------------------------------------------------------------------
(* The value *)

\* The flags of a new key say nothing of the past but what its rule permits.
NewFlags(c, flags) ==
  /\ c.make.rule = "neither" => ~ flags["NEVER_EXTRACTABLE"] /\ ~ flags["ALWAYS_SENSITIVE"]
  /\ flags["NEVER_EXTRACTABLE"] => ~ flags["EXTRACTABLE"]
  /\ flags["ALWAYS_SENSITIVE"] => flags["SENSITIVE"]
  /\ c.make.rule = "inherit" /\ flags["ALWAYS_SENSITIVE"] =>
       c.base # Gone /\ object[c.base].flags["ALWAYS_SENSITIVE"]

\* A new key with the value its call has computed, or brought from outside.
LEMMA StoreNew ==
  ASSUME Inv, NEW t \in Threads, NEW o, o = call[t].object, o # Gone, NEW x \in ObjectType,
         object' = [object EXCEPT ![o] = x], call' = [call EXCEPT ![t] = NoCall],
         x.state # "free", call[t].make.op \notin {"SET", "COPY"},
         x.value = call[t].value, x.origin = call[t].origin,
         UNCHANGED <<calls, user, secrets, disclosed, wrapped, unaccounted>>,
         call[t].make.rule \in {"local", "neither", "inherit"},
         NewFlags(call[t], x.flags)
  PROVE  Inv'
<1> DEFINE new == call[t].make.rule \in {"local", "inherit"}
<1>1. /\ o \in Objects /\ CallOK(t) /\ call[t].value \subseteq call[t].origin
      /\ \A s \in Threads : s # t => call[s].object # o
  <2>1. o \in Objects /\ CallOK(t) /\ \A s \in Threads : s # t => call[s].object # o
    BY ItsObject
  <2> QED BY <2>1 DEF CallOK
<1>2. TypeOK' /\ CallsOK' /\ OneChanger' /\ ValuesOK' /\ ChangesOK' /\ FreshOK'
  <2>1. unaccounted' \subseteq Secrets
    BY DEF Inv, TypeOK
  <2> QED BY <1>1, <2>1, EndStep
<1>3. /\ object'[o] = x
      /\ Claims(o, "NEVER_EXTRACTABLE")' <=> x.flags["NEVER_EXTRACTABLE"]
      /\ Claims(o, "ALWAYS_SENSITIVE")' <=> x.flags["ALWAYS_SENSITIVE"]
      /\ Claims(o, "EXTRACTABLE")' <=> x.flags["EXTRACTABLE"]
      /\ Reads(o)' <=> Retrievable(x.flags)
  <2>1. \A s \in Threads : ~ Sets(s, o)'
    BY EndSets
  <2>2. object'[o] = x
    BY <1>1, Typed
  <2> QED BY <2>1, <2>2, EndViews DEF Flags
<1>4. /\ call'[t] = NoCall /\ \A s \in Threads : s # t => call'[s] = call[s]
      /\ \A u \in Objects : u # o => object'[u] = object[u]
  BY <1>1, Typed
<1>5. ASSUME NEW u \in Objects, u # o
      PROVE  /\ \A f \in {"NEVER_EXTRACTABLE", "ALWAYS_SENSITIVE", "EXTRACTABLE"} :
                  Claims(u, f)' => Claims(u, f)
             /\ Reads(u)' => Reads(u)
  <2>1. \A s \in Threads : Sets(s, u)' => Sets(s, u) /\ call'[s].before = call[s].before
    <3>1. call'[t].object # u
      BY <1>4, Empties, GoneAssumption
    <3> QED BY <1>4, <3>1 DEF Sets
  <2>2. From(u, u)
    BY <1>4, <1>5, <2>1, FromTheSame
  <2> QED BY <2>2 DEF From
<1>6. new => /\ call[t].value \intersect (disclosed \union wrapped) = {}
             /\ \A u \in Objects : call[t].value \intersect object[u].origin = {}
             /\ \A s \in Threads : s # t => call[t].value \intersect call[s].origin = {}
  BY DEF Inv, FreshOK
<1>7. /\ \A u \in Objects : object[u].value \subseteq object[u].origin
      /\ \A s \in Threads : call[s].value \subseteq call[s].origin
  BY DEF Inv, ValuesOK, CallsOK, CallOK
<1>8. \A s \in Threads : call'[s].make.rule = "neither" =>
         s # t /\ call[s].make.rule = "neither" /\ call'[s].value = call[s].value
  BY <1>4, Empties
<1>9. ASSUME NEW u \in Objects, Claims(u, "NEVER_EXTRACTABLE")'
      PROVE  /\ object'[u].value \intersect (disclosed \union wrapped) \subseteq unaccounted
             /\ \A q \in Objects : Claims(q, "EXTRACTABLE")' =>
                  object'[u].value \intersect object'[q].value \subseteq unaccounted
             /\ \A s \in Threads : call'[s].make.rule = "neither" =>
                  object'[u].value \intersect call'[s].value \subseteq unaccounted
  <2>1. CASE u # o
    <3>1. Claims(u, "NEVER_EXTRACTABLE") /\ object'[u].value = object[u].value
      BY <1>4, <1>5, <1>9, <2>1
    <3>2. /\ object[u].value \intersect (disclosed \union wrapped) \subseteq unaccounted
          /\ \A q \in Objects : Claims(q, "EXTRACTABLE") =>
               object[u].value \intersect object[q].value \subseteq unaccounted
          /\ \A s \in Threads : call[s].make.rule = "neither" =>
               object[u].value \intersect call[s].value \subseteq unaccounted
      BY <3>1 DEF Inv, NeverOK
    <3>3. object[u].value \intersect call[t].value \subseteq unaccounted
      BY <1>6, <1>7, <3>2
    <3>4. ASSUME NEW q \in Objects, Claims(q, "EXTRACTABLE")'
          PROVE  object[u].value \intersect object'[q].value \subseteq unaccounted
      BY <1>3, <1>4, <1>5, <3>2, <3>3, <3>4
    <3> QED BY <1>8, <3>1, <3>2, <3>4
  <2>2. CASE u = o
    <3>1. new /\ ~ x.flags["EXTRACTABLE"] /\ object'[u].value = call[t].value
      BY <1>3, <1>9, <2>2 DEF NewFlags
    <3>2. \A q \in Objects : Claims(q, "EXTRACTABLE")' => call[t].value \intersect object'[q].value = {}
      BY <1>3, <1>4, <1>6, <1>7, <3>1
    <3>3. \A s \in Threads : call'[s].make.rule = "neither" => call[t].value \intersect call'[s].value = {}
      BY <1>6, <1>7, <1>8, <3>1
    <3> QED BY <1>6, <3>1, <3>2, <3>3
  <2> QED BY <2>1, <2>2
<1>10. ASSUME NEW u \in Objects, Claims(u, "ALWAYS_SENSITIVE")'
       PROVE  /\ object'[u].origin \intersect disclosed \subseteq unaccounted \union wrapped
              /\ \A q \in Objects : Reads(q)' =>
                   object'[u].origin \intersect object'[q].value \subseteq unaccounted \union wrapped
              /\ \A s \in Threads : call'[s].make.rule = "neither" =>
                   object'[u].origin \intersect call'[s].value \subseteq unaccounted \union wrapped
  <2>0. ASSUME NEW p \in Objects, Claims(p, "ALWAYS_SENSITIVE")
        PROVE  /\ object[p].origin \intersect disclosed \subseteq unaccounted \union wrapped
               /\ \A q \in Objects : Reads(q)' =>
                    object[p].origin \intersect object'[q].value \subseteq unaccounted \union wrapped
               /\ \A s \in Threads : call'[s].make.rule = "neither" =>
                    object[p].origin \intersect call'[s].value \subseteq unaccounted \union wrapped
    <3>2. /\ object[p].origin \intersect disclosed \subseteq unaccounted \union wrapped
          /\ \A q \in Objects : Reads(q) =>
               object[p].origin \intersect object[q].value \subseteq unaccounted \union wrapped
          /\ \A s \in Threads : call[s].make.rule = "neither" =>
               object[p].origin \intersect call[s].value \subseteq unaccounted \union wrapped
      BY <2>0 DEF Inv, AlwaysOK
    <3>3. object[p].origin \intersect call[t].value \subseteq unaccounted \union wrapped
      BY <1>6, <3>2
    <3>4. ASSUME NEW q \in Objects, Reads(q)'
          PROVE  object[p].origin \intersect object'[q].value \subseteq unaccounted \union wrapped
      BY <1>3, <1>4, <1>5, <3>2, <3>3, <3>4
    <3> QED BY <1>8, <3>2, <3>4
  <2>1. CASE u # o
    <3>1. Claims(u, "ALWAYS_SENSITIVE") /\ object'[u].origin = object[u].origin
      BY <1>4, <1>5, <1>10, <2>1
    <3> QED BY <2>0, <3>1
  <2>2. CASE u = o
    <3>1. /\ new /\ x.flags["ALWAYS_SENSITIVE"] /\ x.flags["SENSITIVE"]
          /\ ~ Reads(o)' /\ object'[u].origin = call[t].origin
      BY <1>3, <1>10, <2>2 DEF Retrievable, NewFlags
    <3>2. /\ call[t].value \intersect disclosed = {}
          /\ \A q \in Objects : Reads(q)' => call[t].value \intersect object'[q].value = {}
          /\ \A s \in Threads : call'[s].make.rule = "neither" => call[t].value \intersect call'[s].value = {}
      BY <1>3, <1>4, <1>6, <1>7, <1>8, <3>1
    <3>3. CASE call[t].make.rule = "local"
      BY <1>1, <3>1, <3>2, <3>3 DEF CallOK
    <3>4. CASE call[t].make.rule = "inherit"
      <4>1. PICK p : p = call[t].base
        OBVIOUS
      <4>2. p \in Objects /\ object[p].flags["ALWAYS_SENSITIVE"] /\ p # Gone
        BY <3>1, <3>4, <4>1, Typed DEF NewFlags
      <4>3. Claims(p, "ALWAYS_SENSITIVE")
        BY <4>2 DEF Claims, Views
      <4>4. call[t].origin = object[p].origin \union call[t].value
        BY <1>1, <3>4, <4>1, <4>2 DEF CallOK
      <4> QED BY <2>0, <3>1, <3>2, <4>2, <4>3, <4>4
    <3> QED BY <3>1, <3>3, <3>4
  <2> QED BY <2>1, <2>2
<1>11. NeverOK' /\ AlwaysOK'
  BY <1>9, <1>10 DEF NeverOK, AlwaysOK
<1> QED BY <1>2, <1>11 DEF Inv

\* What the last flags of a key are, by the rule of the function that makes it.
LEMMA ProtectedFlags ==
  ASSUME NEW c, NEW flags \in FlagsType, NEW new, new = Protected(c, flags),
         c.make.rule \in Rules \ {"as is"},
         c.base # Gone => object[c.base].flags \in FlagsType,
         c.other # Gone => object[c.other].flags \in FlagsType
  PROVE  /\ new \in FlagsType
         /\ c.make.rule \in {"local", "neither", "inherit"} => NewFlags(c, new)
         /\ c.make.rule = "data" /\ c.base # Gone => Less(object[c.base].flags, new)
         /\ c.make.rule = "data" /\ c.base = Gone =>
              \A f \in {"NEVER_EXTRACTABLE", "ALWAYS_SENSITIVE", "EXTRACTABLE"} : ~ new[f]
<1> DEFINE Set(s, e, a, n) ==
             [flags EXCEPT !["SENSITIVE"] = s, !["EXTRACTABLE"] = e,
                           !["ALWAYS_SENSITIVE"] = a, !["NEVER_EXTRACTABLE"] = n]
<1>2. flags["SENSITIVE"] \in BOOLEAN /\ flags["EXTRACTABLE"] \in BOOLEAN /\ flags["NEVER_EXTRACTABLE"] \in BOOLEAN
  BY DEF FlagsType, Flags
<1>3. ASSUME NEW f \in Flags, NEW d \in BOOLEAN
      PROVE  Flag(c.base, f, d) \in BOOLEAN /\ Flag(c.other, f, d) \in BOOLEAN
  BY DEF Flag, FlagsType
<1>4. CASE c.make.rule = "local"
  <2>0. PICK n \in BOOLEAN : n <=> ~ flags["EXTRACTABLE"]
    OBVIOUS
  <2>1. new = Set(flags["SENSITIVE"], flags["EXTRACTABLE"], flags["SENSITIVE"], n)
    BY <1>4, <2>0 DEF Protected
  <2>2. new \in FlagsType /\ new["SENSITIVE"] = flags["SENSITIVE"] /\ new["EXTRACTABLE"] = flags["EXTRACTABLE"]
    BY <1>2, <2>1 DEF FlagsType, Flags
  <2>3. new["ALWAYS_SENSITIVE"] = flags["SENSITIVE"] /\ new["NEVER_EXTRACTABLE"] = n
    BY <1>2, <2>1 DEF FlagsType, Flags
  <2> QED BY <1>4, <2>0, <2>2, <2>3 DEF NewFlags
<1>5. CASE c.make.rule = "neither"
  <2>1. new = Set(flags["SENSITIVE"], flags["EXTRACTABLE"], FALSE, FALSE)
    BY <1>5 DEF Protected
  <2>2. new \in FlagsType /\ ~ new["ALWAYS_SENSITIVE"] /\ ~ new["NEVER_EXTRACTABLE"]
    BY <1>2, <2>1 DEF FlagsType, Flags
  <2>3. new["SENSITIVE"] = flags["SENSITIVE"] /\ new["EXTRACTABLE"] = flags["EXTRACTABLE"]
    BY <1>2, <2>1 DEF FlagsType, Flags
  <2> QED BY <1>5, <2>2, <2>3 DEF NewFlags
<1>6. CASE c.make.rule = "inherit"
  <2>a. PICK a \in BOOLEAN : a <=> (Flag(c.base, "ALWAYS_SENSITIVE", FALSE) /\ flags["SENSITIVE"])
    OBVIOUS
  <2>n. PICK n \in BOOLEAN : n <=> (Flag(c.base, "NEVER_EXTRACTABLE", TRUE) /\ ~ flags["EXTRACTABLE"])
    OBVIOUS
  <2>1. new = Set(flags["SENSITIVE"], flags["EXTRACTABLE"], a, n)
    BY <1>6, <2>a, <2>n DEF Protected
  <2>4. a => c.base # Gone /\ object[c.base].flags["ALWAYS_SENSITIVE"]
    BY <2>a DEF Flag
  <2>5. /\ new \in FlagsType /\ new["SENSITIVE"] = flags["SENSITIVE"]
        /\ new["EXTRACTABLE"] = flags["EXTRACTABLE"] /\ new["ALWAYS_SENSITIVE"] = a
        /\ new["NEVER_EXTRACTABLE"] = n
    <3>1. new \in FlagsType
      BY <1>2, <2>1 DEF FlagsType, Flags
    <3>2. new["SENSITIVE"] = flags["SENSITIVE"] /\ new["EXTRACTABLE"] = flags["EXTRACTABLE"]
      BY <1>2, <2>1 DEF FlagsType, Flags
    <3>3. new["ALWAYS_SENSITIVE"] = a
      BY <1>2, <2>1 DEF FlagsType, Flags
    <3>4. new["NEVER_EXTRACTABLE"] = n
      BY <1>2, <2>1 DEF FlagsType, Flags
    <3> QED BY <3>1, <3>2, <3>3, <3>4
  <2> QED BY <1>6, <2>a, <2>n, <2>4, <2>5 DEF NewFlags
<1>7. CASE c.make.rule = "data"
  <2>s. PICK s \in BOOLEAN : s <=> (flags["SENSITIVE"] \/ Flag(c.base, "SENSITIVE", TRUE))
    OBVIOUS
  <2>e. PICK e \in BOOLEAN : e <=> (flags["EXTRACTABLE"] /\ Flag(c.base, "EXTRACTABLE", FALSE))
    OBVIOUS
  <2>a. PICK a \in BOOLEAN : a = Flag(c.base, "ALWAYS_SENSITIVE", FALSE)
    BY <1>3 DEF Flags
  <2>n. PICK n \in BOOLEAN : n = Flag(c.base, "NEVER_EXTRACTABLE", FALSE)
    BY <1>3 DEF Flags
  <2>1. new = Set(s, e, a, n)
    BY <1>7, <2>s, <2>e, <2>a, <2>n DEF Protected
  <2>3. c.base # Gone => /\ object[c.base].flags["SENSITIVE"] => s
                         /\ e => object[c.base].flags["EXTRACTABLE"]
                         /\ a => object[c.base].flags["ALWAYS_SENSITIVE"]
                         /\ n => object[c.base].flags["NEVER_EXTRACTABLE"]
    BY <2>s, <2>e, <2>a, <2>n DEF Flag
  <2>4. c.base = Gone => ~ e /\ ~ a /\ ~ n
    BY <2>e, <2>a, <2>n DEF Flag
  <2>5. /\ new \in FlagsType /\ new["SENSITIVE"] = s
        /\ new["EXTRACTABLE"] = e /\ new["ALWAYS_SENSITIVE"] = a
        /\ new["NEVER_EXTRACTABLE"] = n
    <3>1. new \in FlagsType
      BY <2>1 DEF FlagsType, Flags
    <3>2. new["SENSITIVE"] = s /\ new["EXTRACTABLE"] = e
      BY <2>1 DEF FlagsType, Flags
    <3>3. new["ALWAYS_SENSITIVE"] = a
      BY <2>1 DEF FlagsType, Flags
    <3>4. new["NEVER_EXTRACTABLE"] = n
      BY <2>1 DEF FlagsType, Flags
    <3> QED BY <3>1, <3>2, <3>3, <3>4
  <2> QED BY <1>7, <2>3, <2>4, <2>5 DEF Less
<1>8. CASE c.make.rule = "key"
  <2> DEFINE s == flags["SENSITIVE"] \/ Flag(c.base, "SENSITIVE", TRUE) \/ Flag(c.other, "SENSITIVE", TRUE)
             e == flags["EXTRACTABLE"] /\ Flag(c.base, "EXTRACTABLE", TRUE) /\ Flag(c.other, "EXTRACTABLE", TRUE)
             a == Flag(c.base, "NEVER_EXTRACTABLE", FALSE) /\ Flag(c.other, "NEVER_EXTRACTABLE", FALSE)
             n == flags["NEVER_EXTRACTABLE"]
  <2>1. new = Set(s, e, a, n)
    BY <1>8 DEF Protected
  <2>2. s \in BOOLEAN /\ e \in BOOLEAN /\ a \in BOOLEAN /\ n \in BOOLEAN
    BY <1>2
  <2> HIDE DEF s, e, a, n
  <2> QED BY <1>8, <2>1, <2>2 DEF FlagsType, Flags
<1> QED BY <1>4, <1>5, <1>6, <1>7, <1>8 DEF Rules

LEMMA StoreStep ==
  ASSUME Inv, NEW t \in Threads, Store(t)
  PROVE  Inv'
<1>a. PICK o : o = call[t].object
  OBVIOUS
<1>r. PICK rule : rule = call[t].make.rule
  OBVIOUS
<1>n. PICK new : new = Protected(call[t], object[o].flags)
  OBVIOUS
<1> DEFINE val == IF Encrypts(o) THEN call[t].value ELSE {}
           org == IF Encrypts(o) THEN call[t].origin ELSE {}
           x == [object[o] EXCEPT !.state = "ready", !.flags = new, !.value = val, !.origin = org]
<1>1. /\ call[t].phase = "store" /\ o # Gone
      /\ call' = [call EXCEPT ![t] = NoCall]
      /\ unaccounted' = unaccounted \union (IF rule = "key" THEN call[t].origin ELSE {})
      /\ UNCHANGED <<calls, user, secrets, disclosed, wrapped>>
  BY <1>a, <1>r DEF Store
<1>2. /\ o \in Objects /\ object[o] \in ObjectType /\ call[t] \in CallType
      /\ object[o].value \subseteq object[o].origin /\ CallOK(t)
  BY <1>a, <1>1, ItsObject
<1>3. call[t].make.op \notin {"SET", "COPY"} /\ rule # "as is" /\ rule \in Rules
  BY <1>r, <1>1, <1>2 DEF CallOK, CallType, MakerType
<1>4. object' = [object EXCEPT ![o] = x]
  BY <1>a, <1>n DEF Store, Stored
<1>5. /\ val \in SUBSET Secrets /\ org \in SUBSET Secrets
      /\ val \subseteq org /\ org \subseteq call[t].origin
  BY <1>2 DEF CallOK, CallType
<1>6. /\ new \in FlagsType
      /\ rule \in {"local", "neither", "inherit"} => NewFlags(call[t], new)
      /\ rule = "data" /\ call[t].base # Gone => Less(object[call[t].base].flags, new)
      /\ rule = "data" /\ call[t].base = Gone =>
           \A f \in {"NEVER_EXTRACTABLE", "ALWAYS_SENSITIVE", "EXTRACTABLE"} : ~ new[f]
  <2>1. object[o].flags \in FlagsType /\ rule \in Rules \ {"as is"}
    BY <1>2, <1>3 DEF ObjectType
  <2>2. call[t].base # Gone => object[call[t].base].flags \in FlagsType
    BY Typed
  <2>3. call[t].other # Gone => object[call[t].other].flags \in FlagsType
    BY <1>2, Typed DEF CallType
  <2> QED BY <1>r, <1>n, <2>1, <2>2, <2>3, ProtectedFlags
<1> HIDE DEF val, org
<1>7. /\ x \in ObjectType /\ x.state = "ready" /\ x.flags = new /\ x.value = val /\ x.origin = org
  BY <1>2, <1>5, <1>6 DEF ObjectType
<1> HIDE DEF x
<1>8. unaccounted \subseteq unaccounted' /\ unaccounted' \subseteq Secrets
  BY <1>1, <1>2 DEF Inv, TypeOK, CallType
<1>9. object'[o] = x /\ \A s \in Threads : ~ Sets(s, o)'
  BY <1>a, <1>1, <1>2, <1>4, EndSets, Typed
<1>10. (org \subseteq unaccounted' \/ Closed(o)' \/ \E q \in Objects : From(o, q)) => Inv'
  BY <1>a, <1>1, <1>3, <1>4, <1>5, <1>7, <1>8, EndSecrets
<1>11. CASE ~ Encrypts(o)
  BY <1>10, <1>11 DEF org
<1>12. CASE rule = "key"
  BY <1>1, <1>5, <1>10, <1>12
<1>13. CASE Encrypts(o) /\ rule = "data"
  <2>1. PICK q : q = call[t].base
    OBVIOUS
  <2>2. CASE q # Gone
    <3>1. q \in Objects
      BY <2>1, <2>2, Typed
    <3>2. val = object[q].value /\ org = object[q].origin
      BY <1>r, <1>2, <1>13, <2>1, <2>2 DEF CallOK, val, org
    <3>3. \A w \in Views(o)' : w = new
      BY <1>7, <1>9, EndViews
    <3>4. Less(object[q].flags, new) /\ object[q].flags \in Views(q)
      BY <1>6, <1>13, <2>1, <2>2 DEF Views
    <3>5. From(o, q)
      BY <1>2, <1>7, <1>9, <3>1, <3>2, <3>3, <3>4, ViewsFrom
    <3> QED BY <1>10, <3>1, <3>5
  <2>3. CASE q = Gone
    <3>1. \A f \in {"NEVER_EXTRACTABLE", "ALWAYS_SENSITIVE", "EXTRACTABLE"} : ~ new[f]
      BY <1>6, <1>13, <2>1, <2>3
    <3>2. \A f \in Flags : Claims(o, f)' <=> new[f]
      BY <1>7, <1>9, EndViews
    <3>3. Closed(o)'
      BY <3>1, <3>2 DEF Closed, Flags
    <3> QED BY <1>10, <3>3
  <2> QED BY <2>2, <2>3
<1>14. CASE Encrypts(o) /\ rule \in {"local", "neither", "inherit"}
  <2>1. x.value = call[t].value /\ x.origin = call[t].origin
    BY <1>7, <1>14 DEF val, org
  <2>2. NewFlags(call[t], x.flags) /\ UNCHANGED unaccounted
    BY <1>1, <1>6, <1>7, <1>14
  <2> QED BY <1>a, <1>r, <1>1, <1>3, <1>4, <1>7, <1>14, <2>1, <2>2, StoreNew
<1> QED BY <1>3, <1>11, <1>12, <1>13, <1>14 DEF Rules

LEMMA CommitStep ==
  ASSUME Inv, NEW t \in Threads, Commit(t)
  PROVE  Inv'
<1>a. PICK o : o = call[t].object
  OBVIOUS
<1>1. /\ call[t].phase = "template" /\ o # Gone
      /\ UNCHANGED <<calls, user, secrets, disclosed, wrapped, unaccounted>>
  BY <1>a DEF Commit, History
<1>2. /\ o \in Objects /\ object[o] \in ObjectType /\ call[t] \in CallType /\ CallOK(t)
      /\ object[o].value \subseteq object[o].origin
  BY <1>a, <1>1, ItsObject
<1>3. unaccounted' \subseteq Secrets
  BY <1>1 DEF Inv, TypeOK
<1>4. CASE call[t].make.op = "SET"
  <2>1. call' = [call EXCEPT ![t] = NoCall] /\ UNCHANGED object
    BY <1>4 DEF Commit
  <2> QED BY <1>1, <2>1, CallOnly
<1>5. CASE call[t].make.op = "COPY"
  <2> DEFINE x == [object[o] EXCEPT !.state = "ready"]
  <2>1. call' = [call EXCEPT ![t] = NoCall] /\ object' = [object EXCEPT ![o] = x]
    BY <1>a, <1>5 DEF Commit
  <2>2. /\ x \in ObjectType /\ x.state = "ready" /\ x.flags = object[o].flags
        /\ x.value = object[o].value /\ x.origin = object[o].origin
    BY <1>2 DEF ObjectType
  <2> HIDE DEF x
  <2>3. object'[o] = x /\ \A s \in Threads : ~ Sets(s, o)'
    BY <1>a, <1>1, <1>2, <2>1, EndSets, Typed
  <2>4. object[o].flags \in Views(o)
    BY DEF Views
  <2>5. From(o, o)
    BY <1>2, <2>2, <2>3, <2>4, FromItself
  <2> QED BY <1>a, <1>1, <1>2, <1>3, <1>5, <2>1, <2>2, <2>5, EndSecrets
<1>6. CASE call[t].make.op = "CREATE"
  <2> DEFINE x == Created(call[t], object[o])
  <2>1. call' = [call EXCEPT ![t] = NoCall] /\ object' = [object EXCEPT ![o] = x]
    BY <1>a, <1>6 DEF Commit
  <2>2. object[o].flags \in FlagsType
    BY <1>2 DEF ObjectType
  <2>3. /\ x \in ObjectType /\ x.state = "ready"
        /\ x.value = call[t].value /\ x.origin = call[t].origin
        /\ x.flags = [object[o].flags EXCEPT !["ALWAYS_SENSITIVE"] = FALSE, !["NEVER_EXTRACTABLE"] = FALSE]
    BY <1>2, <2>2 DEF Created, ObjectType, CallType, FlagsType
  <2> HIDE DEF x
  <2>4. ~ x.flags["ALWAYS_SENSITIVE"] /\ ~ x.flags["NEVER_EXTRACTABLE"]
    BY <2>2, <2>3 DEF FlagsType, Flags
  <2>5. call[t].make.rule = "neither"
    BY <1>2, <1>6 DEF CallOK
  <2>6. NewFlags(call[t], x.flags)
    BY <2>4, <2>5 DEF NewFlags
  <2> QED BY <1>a, <1>1, <1>6, <2>1, <2>3, <2>5, <2>6, StoreNew
<1>7. CASE call[t].make.op \notin {"SET", "COPY", "CREATE"}
  <2> DEFINE c == [call[t] EXCEPT !.phase = "look up", !.handle = TRUE]
  <2>1. call' = [call EXCEPT ![t] = c] /\ UNCHANGED object
    BY <1>2, <1>7, Typed DEF Commit
  <2>2. /\ c \in CallType /\ c.phase # "none" /\ c.make = call[t].make /\ c.object = call[t].object
        /\ c.base = call[t].base /\ c.value = call[t].value /\ c.origin = call[t].origin
        /\ c.before = call[t].before
    BY <1>2 DEF CallType
  <2> HIDE DEF c
  <2> QED BY <1>1, <1>7, <2>1, <2>2, CallOnly
<1> QED BY <1>4, <1>5, <1>6, <1>7
-----------------------------------------------------------------------------
(* New calls *)

\* What a call starts with, before any object has changed.
Brought(c) ==
  /\ c.make.op \notin {"SET", "COPY"} /\ c.make.rule # "as is"
  /\ c.make.op = "CREATE" => c.make.rule = "neither" /\ c.origin = c.value
  /\ c.value \subseteq c.origin
  /\ c.base # Gone => c.base \in Objects /\ Present(c.base)
  /\ c.base # Gone /\ c.make.rule = "data" =>
       c.value = object[c.base].value /\ c.origin = object[c.base].origin
  /\ c.base # Gone /\ c.make.rule = "inherit" =>
       c.origin = object[c.base].origin \union c.value
  /\ c.make.rule = "local" => c.origin = c.value
  /\ c.make.rule = "neither" => Harmless(c.value)

\* And what it has to do with the secrets there are.
Apart(c) ==
  /\ \A r \in Threads : call[r].make.rule \in {"local", "inherit"} =>
       call[r].value \intersect c.origin = {}
  /\ c.make.rule \in {"local", "inherit"} =>
       /\ c.value \intersect (disclosed \union wrapped) = {}
       /\ \A u \in Objects : c.value \intersect object[u].origin = {}
       /\ \A r \in Threads : c.value \intersect call[r].origin = {}

\* An object that is free is nobody's.
LEMMA FreeObjects ==
  ASSUME Inv, NEW o \in Objects, object[o].state = "free"
  PROVE  /\ ~ Present(o) /\ object[o].value = {} /\ object[o].origin = {}
         /\ \A s \in Threads : call[s].object # o
<1>1. object[o] = FreeObject
  BY DEF Inv, TypeOK
<1>2. \A s \in Threads : call[s].object # o
  BY GoneAssumption DEF Inv, TypeOK
<1> QED BY <1>1, <1>2, Empties DEF Present

LEMMA NewObject ==
  ASSUME Inv, NEW t \in Threads, NEW o \in Objects, NEW x \in ObjectType, NEW c \in CallType,
         object[o].state = "free", object' = [object EXCEPT ![o] = x], call' = [call EXCEPT ![t] = c],
         x.state = "making", x.value = {}, x.origin = {},
         c.phase = "template", c.object = o, Brought(c), Apart(c), c.origin \subseteq 0..secrets',
         secrets' \in {secrets, secrets + 1}, secrets' \in Secrets, calls' \in 0..MaxCalls,
         UNCHANGED <<user, disclosed, wrapped, unaccounted>>
  PROVE  Inv'
<1>1. /\ ~ Present(o) /\ object[o].value = {} /\ object[o].origin = {}
      /\ \A s \in Threads : call[s].object # o
  BY FreeObjects
<1>2. /\ object'[o] = x /\ \A u \in Objects : u # o => object'[u] = object[u]
      /\ call'[t] = c /\ \A s \in Threads : s # t => call'[s] = call[s]
  BY Typed
<1>3. CallOK(t)'
  <2>1. c.base # Gone => c.base \in Objects /\ c.base # o /\ object'[c.base] = object[c.base]
    BY <1>1, <1>2 DEF Brought
  <2> QED BY <1>2, <2>1 DEF Brought, CallOK, Present
<1>4. TypeOK' /\ CallsOK' /\ OneChanger' /\ ValuesOK' /\ ChangesOK'
  <2>1. user' \in BOOLEAN /\ unaccounted' \subseteq Secrets
    BY DEF Inv, TypeOK
  <2>2. c.make.op # "SET" /\ x.value \subseteq x.origin /\ x.origin \subseteq 0..secrets'
    BY DEF Brought
  <2> QED BY <1>1, <1>3, <2>1, <2>2, LocalStep
<1>5. FreshOK'
  <2>1. SUFFICES ASSUME NEW r \in Threads, call'[r].make.rule \in {"local", "inherit"}
                 PROVE  /\ call'[r].value \intersect (disclosed \union wrapped) = {}
                        /\ \A u \in Objects : call'[r].value \intersect object'[u].origin = {}
                        /\ \A s \in Threads : s # r => call'[r].value \intersect call'[s].origin = {}
    BY DEF FreshOK
  <2>2. \A u \in Objects : object'[u].origin \subseteq object[u].origin
    BY <1>1, <1>2
  <2>3. CASE r = t
    <3>1. /\ c.value \intersect (disclosed \union wrapped) = {}
          /\ \A u \in Objects : c.value \intersect object[u].origin = {}
          /\ \A s \in Threads : c.value \intersect call[s].origin = {}
      BY <1>2, <2>1, <2>3 DEF Apart
    <3> QED BY <1>2, <2>2, <2>3, <3>1
  <2>4. CASE r # t
    <3>1. /\ call[r].value \intersect (disclosed \union wrapped) = {}
          /\ \A u \in Objects : call[r].value \intersect object[u].origin = {}
          /\ \A s \in Threads : s # r => call[r].value \intersect call[s].origin = {}
      BY <1>2, <2>1, <2>4 DEF Inv, FreshOK
    <3>2. call[r].value \intersect c.origin = {}
      BY <1>2, <2>1, <2>4 DEF Apart
    <3> QED BY <1>2, <2>2, <2>4, <3>1, <3>2
  <2> QED BY <2>3, <2>4
<1>6. NeverOK' /\ AlwaysOK'
  <2>1. c.make.rule = "neither" => Harmless(c.value)
    BY DEF Brought
  <2>2. x.origin \subseteq unaccounted' /\ x.value \subseteq x.origin /\ c.object \in {o, Gone}
    OBVIOUS
  <2> QED BY <2>1, <2>2, LocalSecrets
<1> QED BY <1>4, <1>5, <1>6 DEF Inv

\* The call Make starts.
LEMMA MakeStep ==
  ASSUME Inv, NEW t \in Threads, NEW make \in MakerType, NEW new \in Objects,
         NEW token \in BOOLEAN, NEW private \in BOOLEAN,
         NEW base \in Objects \union {Gone}, NEW other \in Objects \union {Gone},
         NEW value \in SUBSET Secrets, NEW origin \in SUBSET Secrets,
         Make(t, make, new, token, private, base, other, value, origin),
         \A c : /\ c.make = make /\ c.base = base /\ c.value = value /\ c.origin = origin
                => Brought(c) /\ Apart(c),
         origin \subseteq 0..secrets', secrets' \in {secrets, secrets + 1}, secrets' \in Secrets
  PROVE  Inv'
<1> DEFINE x == [state |-> "making", token |-> token, private |-> private,
                 flags |-> Defaults, value |-> {}, origin |-> {}]
           c == [phase |-> "template", make |-> make, object |-> new, base |-> base,
                 other |-> other, value |-> value, origin |-> origin, before |-> Defaults,
                 handle |-> FALSE, entries |-> 0]
<1>1. /\ object[new].state = "free" /\ object' = [object EXCEPT ![new] = x]
      /\ call' = [call EXCEPT ![t] = c]
      /\ calls < MaxCalls /\ calls' = calls + 1
      /\ UNCHANGED <<user, disclosed, wrapped, unaccounted>>
  BY DEF Make, Begin, History
<1>2. calls' \in 0..MaxCalls
  BY <1>1, BoundAssumption DEF Inv, TypeOK
<1>3. x \in ObjectType /\ x.state = "making" /\ x.value = {} /\ x.origin = {}
  BY Empties DEF ObjectType
<1>4. /\ c.phase = "template" /\ c.object = new /\ c.make = make /\ c.base = base
      /\ c.value = value /\ c.origin = origin
  OBVIOUS
<1>5. c \in CallType
  BY Empties DEF CallType
<1> HIDE DEF x, c
<1>6. Brought(c) /\ Apart(c)
  BY <1>4
<1> QED BY <1>1, <1>2, <1>3, <1>4, <1>5, <1>6, NewObject

\* What the secrets of a call that has computed a new value are apart from.
LEMMA FreshApart ==
  ASSUME Inv, NEW r \in Threads, call[r].make.rule \in {"local", "inherit"}
  PROVE  /\ call[r].value \intersect (disclosed \union wrapped) = {}
         /\ \A u \in Objects : call[r].value \intersect object[u].origin = {}
         /\ call[r].value \subseteq 0..secrets
<1>1. call[r].value \subseteq 0..secrets
  BY DEF Inv, CallsOK, CallOK
<1> QED BY <1>1 DEF Inv, FreshOK

LEMMA MakeFreshStep ==
  ASSUME Inv, NEW t \in Threads, NEW make \in MakerType, NEW new \in Objects,
         NEW token \in BOOLEAN, NEW private \in BOOLEAN,
         NEW base \in Objects \union {Gone}, NEW from \in SUBSET Secrets,
         MakeFresh(t, make, new, token, private, base, from),
         make.op \notin {"SET", "COPY", "CREATE"}, make.rule \in {"local", "neither", "inherit"},
         \/ base = Gone /\ from = {} /\ make.rule # "inherit"
         \/ base # Gone /\ from = object[base].origin /\ Present(base) /\ make.rule # "local"
  PROVE  Inv'
<1>1. /\ secrets < MaxSecrets /\ secrets' = secrets + 1
      /\ Make(t, make, new, token, private, base, Gone, {Fresh}, from \union {Fresh})
  BY DEF MakeFresh, Fresh
<1>2. secrets \in Nat /\ MaxSecrets \in Nat /\ secrets' \in Secrets
  BY <1>1, Typed DEF Secrets
<1>3. Fresh \notin 0..secrets /\ Fresh \in 0..secrets' /\ Fresh \in Secrets /\ 0..secrets \subseteq 0..secrets'
  BY <1>1, <1>2 DEF Fresh, Secrets
<1> HIDE DEF Fresh
<1>4. /\ disclosed \subseteq 0..secrets /\ wrapped \subseteq 0..secrets
      /\ \A u \in Objects : object[u].origin \subseteq 0..secrets
      /\ \A s \in Threads : call[s].origin \subseteq 0..secrets
  BY DEF Inv, ValuesOK, CallsOK, CallOK
<1>5. from \subseteq 0..secrets
  BY <1>4
<1>6. ASSUME NEW c, c.make = make, c.base = base, c.value = {Fresh}, c.origin = from \union {Fresh}
      PROVE  Brought(c) /\ Apart(c)
  <2>1. Harmless({Fresh})
    BY <1>3, <1>4 DEF Harmless
  <2>2. Brought(c)
    <3>1. base # Gone => base \in Objects /\ Present(base)
      OBVIOUS
    <3>2. make.rule = "inherit" => from = object[base].origin
      OBVIOUS
    <3>3. make.rule = "local" => from = {}
      OBVIOUS
    <3> QED BY <1>6, <2>1, <3>1, <3>2, <3>3 DEF Brought
  <2>3. ASSUME NEW r \in Threads, call[r].make.rule \in {"local", "inherit"}
        PROVE  call[r].value \intersect c.origin = {}
    <3>1. /\ \A u \in Objects : call[r].value \intersect object[u].origin = {}
          /\ call[r].value \subseteq 0..secrets
      BY <2>3, FreshApart
    <3> QED BY <1>3, <1>6, <3>1
  <2>4. /\ c.value \intersect (disclosed \union wrapped) = {}
        /\ \A u \in Objects : c.value \intersect object[u].origin = {}
        /\ \A r \in Threads : c.value \intersect call[r].origin = {}
    BY <1>3, <1>4, <1>6
  <2> QED BY <2>2, <2>3, <2>4 DEF Apart
<1>7. /\ {Fresh} \in SUBSET Secrets /\ from \union {Fresh} \in SUBSET Secrets
      /\ from \union {Fresh} \subseteq 0..secrets' /\ Gone \in Objects \union {Gone}
      /\ secrets' \in {secrets, secrets + 1}
  BY <1>1, <1>3, <1>5
<1>8. PICK value \in SUBSET Secrets : value = {Fresh}
  BY <1>7
<1>9. PICK origin \in SUBSET Secrets : origin = from \union {Fresh}
  BY <1>7
<1>10. Make(t, make, new, token, private, base, Gone, value, origin)
  BY <1>1, <1>8, <1>9, Zenon
<1>11. \A c : c.make = make /\ c.base = base /\ c.value = value /\ c.origin = origin
             => Brought(c) /\ Apart(c)
  BY <1>6, <1>8, <1>9, Zenon
<1>12. origin \subseteq 0..secrets'
  BY <1>7, <1>9, Zenon
<1>13. Gone \in Objects \union {Gone} /\ secrets' \in {secrets, secrets + 1} /\ secrets' \in Secrets
  BY <1>2, <1>7, Zenon
<1> QED BY <1>10, <1>11, <1>12, <1>13, MakeStep, Zenon

LEMMA C_CreateObjectStep ==
  ASSUME Inv, NEW t \in Threads, NEW new \in Objects, NEW token \in BOOLEAN, NEW private \in BOOLEAN,
         C_CreateObject(t, new, token, private)
  PROVE  Inv'
<1> DEFINE make == Maker("CREATE", "neither", FALSE)
<1>1. /\ Make(t, make, new, token, private, Gone, Gone, {Known}, {Known}) /\ secrets' = secrets
  BY DEF C_CreateObject
<1>2. make \in MakerType /\ make.op = "CREATE" /\ make.rule = "neither"
  BY DEF Maker, MakerType, Ops, CreationOps, Rules
<1>3. Known \in 0..secrets /\ Known \in disclosed /\ {Known} \in SUBSET Secrets
  BY Typed DEF Inv, ValuesOK, Known, Secrets
<1> HIDE DEF make
<1>4. ASSUME NEW c, c.make = make, c.base = Gone, c.value = {Known}, c.origin = {Known}
      PROVE  Brought(c) /\ Apart(c)
  <2>1. Harmless({Known})
    BY <1>3 DEF Harmless
  <2>2. Brought(c)
    BY <1>2, <1>4, <2>1 DEF Brought
  <2>3. \A r \in Threads : call[r].make.rule \in {"local", "inherit"} => call[r].value \intersect c.origin = {}
    BY <1>3, <1>4, FreshApart
  <2> QED BY <1>2, <1>4, <2>2, <2>3 DEF Apart
<1>5. Gone \in Objects \union {Gone} /\ {Known} \subseteq 0..secrets' /\ secrets' \in {secrets, secrets + 1}
      /\ secrets' \in Secrets
  BY <1>1, <1>3, Typed
<1> QED BY <1>1, <1>2, <1>3, <1>4, <1>5, MakeStep

LEMMA C_UnwrapKeyStep ==
  ASSUME Inv, NEW t \in Threads, NEW new \in Objects, NEW token \in BOOLEAN, NEW private \in BOOLEAN,
         NEW value \in SUBSET Secrets, C_UnwrapKey(t, value, new, token, private)
  PROVE  Inv'
<1> DEFINE make == Maker("UNWRAP", "neither", FALSE)
<1>1. /\ Make(t, make, new, token, private, Gone, Gone, value, value) /\ secrets' = secrets
      /\ value \subseteq wrapped \union {Known}
  BY DEF C_UnwrapKey, Unwrappable
<1>2. make \in MakerType /\ make.op = "UNWRAP" /\ make.rule = "neither"
  BY DEF Maker, MakerType, Ops, CreationOps, Rules
<1>3. value \subseteq disclosed \union wrapped /\ value \subseteq 0..secrets
  BY <1>1 DEF Inv, ValuesOK
<1> HIDE DEF make
<1>4. ASSUME NEW c, c.make = make, c.base = Gone, c.value = value, c.origin = value
      PROVE  Brought(c) /\ Apart(c)
  <2>1. Harmless(value)
    BY <1>3 DEF Harmless
  <2>2. Brought(c)
    BY <1>2, <1>4, <2>1 DEF Brought
  <2>3. \A r \in Threads : call[r].make.rule \in {"local", "inherit"} => call[r].value \intersect c.origin = {}
    BY <1>3, <1>4, FreshApart
  <2> QED BY <1>2, <1>4, <2>2, <2>3 DEF Apart
<1>5. Gone \in Objects \union {Gone} /\ secrets' \in {secrets, secrets + 1} /\ secrets' \in Secrets
  BY <1>1, Typed
<1> QED BY <1>1, <1>2, <1>3, <1>4, <1>5, MakeStep

LEMMA C_DeriveKey_DataStep ==
  ASSUME Inv, NEW t \in Threads, NEW new \in Objects, NEW token \in BOOLEAN, NEW private \in BOOLEAN,
         NEW base \in Objects, C_DeriveKey_Data(t, base, new, token, private)
  PROVE  Inv'
<1> DEFINE value == object[base].value
           origin == object[base].origin
<1>1. /\ Make(t, ConcatenateData, new, token, private, base, Gone, value, origin) /\ secrets' = secrets
      /\ Present(base)
  BY DEF C_DeriveKey_Data, Usable
<1>2. ConcatenateData \in MakerType /\ ConcatenateData.op = "DERIVE" /\ ConcatenateData.rule = "data"
  BY DEF ConcatenateData, Maker, MakerType, Ops, CreationOps, Rules
<1>3. /\ value \in SUBSET Secrets /\ origin \in SUBSET Secrets
      /\ value \subseteq origin /\ origin \subseteq 0..secrets
  <2>1. object[base] \in ObjectType
    BY Typed
  <2> QED BY <2>1 DEF Inv, ValuesOK, ObjectType
<1>4. ASSUME NEW c, c.make = ConcatenateData, c.base = base, c.value = value, c.origin = origin
      PROVE  Brought(c) /\ Apart(c)
  <2>1. Brought(c)
    BY <1>1, <1>2, <1>3, <1>4, GoneAssumption DEF Brought
  <2>2. \A r \in Threads : call[r].make.rule \in {"local", "inherit"} => call[r].value \intersect c.origin = {}
    BY <1>4, FreshApart
  <2> QED BY <1>2, <1>4, <2>1, <2>2 DEF Apart
<1>5. Gone \in Objects \union {Gone} /\ secrets' \in {secrets, secrets + 1} /\ secrets' \in Secrets
      /\ origin \subseteq 0..secrets' /\ base \in Objects \union {Gone}
  BY <1>1, <1>3, Typed
<1> HIDE DEF value, origin
<1> QED BY <1>1, <1>2, <1>3, <1>4, <1>5, MakeStep

LEMMA C_DeriveKey_KeyStep ==
  ASSUME Inv, NEW t \in Threads, NEW new \in Objects, NEW token \in BOOLEAN, NEW private \in BOOLEAN,
         NEW base \in Objects, NEW other \in Objects, C_DeriveKey_Key(t, base, other, new, token, private)
  PROVE  Inv'
<1> DEFINE value == object[base].value \union object[other].value
           origin == object[base].origin \union object[other].origin
<1>1. /\ Make(t, ConcatenateKey, new, token, private, base, other, value, origin) /\ secrets' = secrets
      /\ Present(base)
  BY DEF C_DeriveKey_Key, Usable
<1>2. ConcatenateKey \in MakerType /\ ConcatenateKey.op = "DERIVE" /\ ConcatenateKey.rule = "key"
  BY DEF ConcatenateKey, Maker, MakerType, Ops, CreationOps, Rules
<1>3. /\ value \in SUBSET Secrets /\ origin \in SUBSET Secrets
      /\ value \subseteq origin /\ origin \subseteq 0..secrets
  <2>1. object[base] \in ObjectType /\ object[other] \in ObjectType
    BY Typed
  <2>2. /\ object[base].value \subseteq object[base].origin /\ object[base].origin \subseteq 0..secrets
        /\ object[other].value \subseteq object[other].origin /\ object[other].origin \subseteq 0..secrets
    BY DEF Inv, ValuesOK
  <2> QED BY <2>1, <2>2 DEF ObjectType
<1>4. ASSUME NEW c, c.make = ConcatenateKey, c.base = base, c.value = value, c.origin = origin
      PROVE  Brought(c) /\ Apart(c)
  <2>1. Brought(c)
    BY <1>1, <1>2, <1>3, <1>4 DEF Brought
  <2>2. \A r \in Threads : call[r].make.rule \in {"local", "inherit"} => call[r].value \intersect c.origin = {}
    BY <1>4, FreshApart
  <2> QED BY <1>2, <1>4, <2>1, <2>2 DEF Apart
<1>5. secrets' \in {secrets, secrets + 1} /\ secrets' \in Secrets /\ origin \subseteq 0..secrets'
      /\ base \in Objects \union {Gone} /\ other \in Objects \union {Gone}
  BY <1>1, <1>3, Typed
<1> HIDE DEF value, origin
<1> QED BY <1>1, <1>2, <1>3, <1>4, <1>5, MakeStep

LEMMA Makers ==
  /\ \A make \in SecretKeyGenerators \union KeyPairGenerators :
       /\ make \in MakerType /\ make.op = "GENERATE" /\ make.rule \in {"local", "neither"}
  /\ \A make \in Computed :
       /\ make \in MakerType /\ make.op = "DERIVE" /\ make.rule \in {"neither", "inherit"}
<1>1. ASSUME NEW checked \in BOOLEAN
      PROVE  /\ Generator(checked) \in MakerType /\ Generator(checked).op = "GENERATE"
             /\ Generator(checked).rule = "local"
  BY DEF Generator, Maker, MakerType, Ops, CreationOps, Rules
<1>2. /\ generateGeneric_GOST28147 \in MakerType /\ generateGeneric_GOST28147.op = "GENERATE"
      /\ generateGeneric_GOST28147.rule = "neither"
  BY DEF generateGeneric_GOST28147, Maker, MakerType, Ops, CreationOps, Rules
<1>3. ASSUME NEW rule \in {"inherit", "neither"}, NEW checked \in BOOLEAN
      PROVE  /\ Maker("DERIVE", rule, checked) \in MakerType /\ Maker("DERIVE", rule, checked).op = "DERIVE"
             /\ Maker("DERIVE", rule, checked).rule = rule
  BY DEF Maker, MakerType, Ops, CreationOps, Rules
<1>4. \A make \in SecretKeyGenerators \union KeyPairGenerators :
         make \in {Generator(TRUE), Generator(FALSE), generateGeneric_GOST28147}
  BY DEF SecretKeyGenerators, KeyPairGenerators, generateGeneric, generateAES, generateDES,
         generateDES2, generateDES3, generateRSA, generateDSA, generateEC, generateED,
         generateMLDSA, generateMLKEM, generateDH, generateGOST, generateGOST2012
<1>5. \A make \in Computed : make \in {Maker("DERIVE", "inherit", TRUE),
         Maker("DERIVE", "neither", TRUE), Maker("DERIVE", "inherit", FALSE)}
  BY DEF Computed, deriveGOSTKEG, deriveGOSTVKO, deriveGOSTKDF, deriveDH, deriveECDH,
         deriveEDDSA, deriveSymmetric, storeDerivedGOSTSecret
<1> QED BY <1>1, <1>2, <1>3, <1>4, <1>5

LEMMA GeneratedStep ==
  ASSUME Inv, NEW t \in Threads, NEW new \in Objects, NEW token \in BOOLEAN, NEW private \in BOOLEAN,
         NEW make \in MakerType,
         make.op \notin {"SET", "COPY", "CREATE"}, make.rule \in {"local", "neither"},
         MakeFresh(t, make, new, token, private, Gone, {})
  PROVE  Inv'
<1>1. {} \in SUBSET Secrets /\ Gone \in Objects \union {Gone}
  OBVIOUS
<1> QED BY <1>1, MakeFreshStep

LEMMA C_DeriveKeyStep ==
  ASSUME Inv, NEW t \in Threads, NEW new \in Objects, NEW token \in BOOLEAN, NEW private \in BOOLEAN,
         NEW make \in Computed, NEW base \in Objects, C_DeriveKey(t, make, base, new, token, private)
  PROVE  Inv'
<1>1. Present(base) /\ MakeFresh(t, make, new, token, private, base, object[base].origin)
  BY DEF C_DeriveKey, Usable
<1>2. make \in MakerType /\ make.op = "DERIVE" /\ make.rule \in {"neither", "inherit"}
  BY Makers
<1>3. object[base].origin \in SUBSET Secrets
  BY Typed DEF ObjectType
<1>4. base \in Objects \union {Gone} /\ base # Gone
  BY GoneAssumption
<1> QED BY <1>1, <1>2, <1>3, <1>4, MakeFreshStep

LEMMA C_CopyObjectStep ==
  ASSUME Inv, NEW t \in Threads, NEW o \in Objects, NEW new \in Objects,
         NEW token \in BOOLEAN, NEW private \in BOOLEAN, C_CopyObject(t, o, new, token, private)
  PROVE  Inv'
<1> DEFINE x == [object[o] EXCEPT !.state = "making", !.token = token, !.private = private]
           c == [NoCall EXCEPT !.phase = "template", !.make = Maker("COPY", "as is", FALSE),
                               !.object = new, !.before = object[o].flags]
<1>1. /\ object[new].state = "free" /\ object' = [object EXCEPT ![new] = x]
      /\ call' = [call EXCEPT ![t] = c]
      /\ calls < MaxCalls /\ calls' = calls + 1
      /\ UNCHANGED <<user, secrets, disclosed, wrapped, unaccounted>>
  BY DEF C_CopyObject, Begin, History
<1>2. calls' \in 0..MaxCalls /\ user' \in BOOLEAN /\ unaccounted' \subseteq Secrets /\ secrets' \in Secrets
  BY <1>1, BoundAssumption DEF Inv, TypeOK
<1>3. object[o] \in ObjectType /\ object[o].flags \in FlagsType
  BY Typed
<1>4. /\ x \in ObjectType /\ x.state = "making" /\ x.flags = object[o].flags
      /\ x.value = object[o].value /\ x.origin = object[o].origin
  BY <1>3 DEF ObjectType
<1>5. Maker("COPY", "as is", FALSE) \in MakerType /\ Maker("COPY", "as is", FALSE).op = "COPY"
      /\ Maker("COPY", "as is", FALSE).rule = "as is"
  BY DEF Maker, MakerType, Ops, Rules
<1>6. /\ c \in CallType /\ c.phase = "template" /\ c.make = Maker("COPY", "as is", FALSE)
      /\ c.object = new /\ c.base = NoCall.base /\ c.value = NoCall.value /\ c.origin = NoCall.origin
  BY <1>3, <1>5, Empties DEF CallType
<1> HIDE DEF x, c
<1>7. /\ c.make.op = "COPY" /\ c.make.rule = "as is"
      /\ c.base = Gone /\ c.value = {} /\ c.origin = {}
  BY <1>5, <1>6, Empties
<1>8. /\ ~ Present(new) /\ \A s \in Threads : call[s].object # new
  BY <1>1, FreeObjects
<1>9. /\ object'[new] = x
      /\ call'[t] = c /\ \A s \in Threads : s # t => call'[s] = call[s]
  BY <1>1, Typed
<1>10. CallOK(t)'
  BY <1>6, <1>7, <1>9 DEF CallOK
<1>11. x.value \subseteq x.origin /\ x.origin \subseteq 0..secrets' /\ secrets' = secrets
  BY <1>1, <1>4 DEF Inv, ValuesOK
<1>12. TypeOK' /\ CallsOK' /\ OneChanger' /\ ValuesOK' /\ ChangesOK'
  BY <1>1, <1>2, <1>4, <1>6, <1>7, <1>8, <1>10, <1>11, LocalStep
<1>13. FreshOK'
  BY <1>1, <1>4, <1>6, <1>7, LocalFresh
<1>14. From(new, o)
  <2>1. \A s \in Threads : ~ Sets(s, new)'
    BY <1>7, <1>8, <1>9 DEF Sets
  <2>2. \A w \in Views(new)' : w = object[o].flags
    BY <1>4, <1>9, <2>1, EndViews
  <2>3. object[o].flags \in Views(o)
    BY DEF Views
  <2> QED BY <1>4, <1>9, <2>2, <2>3, LessItself, ViewsFrom
<1>15. NeverOK' /\ AlwaysOK'
  BY <1>1, <1>4, <1>6, <1>7, <1>11, <1>14, LocalSecrets
<1> QED BY <1>12, <1>13, <1>15 DEF Inv

LEMMA C_SetAttributeValueStep ==
  ASSUME Inv, NEW t \in Threads, NEW o \in Objects, C_SetAttributeValue(t, o)
  PROVE  Inv'
<1> DEFINE c == [NoCall EXCEPT !.phase = "template", !.object = o, !.before = object[o].flags]
           x == object[o]
<1>1. /\ call' = [call EXCEPT ![t] = c] /\ object' = object /\ Present(o) /\ object[o].flags["MODIFIABLE"]
      /\ calls < MaxCalls /\ calls' = calls + 1 /\ \A s \in Threads : call[s].object # o
      /\ UNCHANGED <<user, secrets, disclosed, wrapped, unaccounted>>
  BY DEF C_SetAttributeValue, Begin, Usable, Exclusive, History
<1>2. calls' \in 0..MaxCalls /\ user' \in BOOLEAN /\ unaccounted' \subseteq Secrets /\ secrets' \in Secrets
  BY <1>1, BoundAssumption DEF Inv, TypeOK
<1>3. x \in ObjectType /\ x.flags \in FlagsType /\ x.state \in {"ready", "left"} /\ x = object[o]
  BY <1>1, Typed DEF Present
<1>4. object' = [object EXCEPT ![o] = x]
  BY <1>1, Typed
<1>5. /\ c \in CallType /\ c.phase = "template" /\ c.make = NoCall.make
      /\ c.object = o /\ c.base = NoCall.base /\ c.value = NoCall.value /\ c.origin = NoCall.origin
      /\ c.before = x.flags
  BY <1>3, Empties DEF CallType
<1>6. /\ c.make.op = "SET" /\ c.make.rule = "as is"
      /\ c.base = Gone /\ c.value = {} /\ c.origin = {}
  BY <1>5, Empties
<1>7. x.value \subseteq x.origin /\ x.origin \subseteq 0..secrets' /\ secrets' = secrets
  BY <1>1 DEF Inv, ValuesOK
<1> HIDE DEF x, c
<1>8. call'[t] = c /\ \A s \in Threads : s # t => call'[s] = call[s]
  BY <1>1, Typed
<1>9. CallOK(t)'
  BY <1>5, <1>6, <1>8 DEF CallOK
<1>10. c.before["MODIFIABLE"] /\ x.flags["MODIFIABLE"] /\ Tightened(c.before, x.flags)
  BY <1>1, <1>3, <1>5 DEF Tightened
<1>11. TypeOK' /\ CallsOK' /\ OneChanger' /\ ValuesOK' /\ ChangesOK'
  BY <1>1, <1>2, <1>3, <1>4, <1>5, <1>6, <1>7, <1>9, <1>10, LocalStep
<1>12. FreshOK'
  BY <1>1, <1>3, <1>4, <1>5, <1>6, LocalFresh
<1>13. From(o, o)
  <2>1. \A s \in Threads : Sets(s, o)' => call'[s].before = object[o].flags
    BY <1>1, <1>3, <1>5, <1>8 DEF Sets
  <2>2. object[o].flags \in Views(o)
    BY DEF Views
  <2> QED BY <1>1, <2>1, <2>2, FromItself
<1>14. NeverOK' /\ AlwaysOK'
  BY <1>1, <1>3, <1>4, <1>5, <1>6, <1>7, <1>13, LocalSecrets
<1> QED BY <1>11, <1>12, <1>14 DEF Inv
-----------------------------------------------------------------------------
(* Logging in, and values that leave *)

\* The objects and the calls are as they were.
LEMMA Still ==
  ASSUME Inv, UNCHANGED <<object, call, secrets, unaccounted>>
  PROVE  /\ CallsOK' /\ OneChanger' /\ ChangesOK'
         /\ \A o \in Objects : \A f : Claims(o, f)' <=> Claims(o, f)
         /\ \A o \in Objects : Reads(o)' <=> Reads(o)
<1>1. CallsOK'
  BY DEF Inv, CallsOK, CallOK, Present
<1>2. OneChanger' /\ ChangesOK'
  BY DEF Inv, OneChanger, ChangesOK, Tightened
<1>3. \A o \in Objects : Views(o)' = Views(o)
  BY DEF Views, Sets
<1> QED BY <1>1, <1>2, <1>3 DEF Claims, Reads

LEMMA C_LoginStep ==
  ASSUME Inv, C_Login
  PROVE  Inv'
<1>1. user' = TRUE /\ UNCHANGED <<object, call, calls, secrets, disclosed, wrapped, unaccounted>>
  BY DEF C_Login, History
<1>2. TypeOK' /\ ValuesOK' /\ FreshOK'
  BY <1>1 DEF Inv, TypeOK, ValuesOK, FreshOK
<1>3. /\ CallsOK' /\ OneChanger' /\ ChangesOK'
      /\ \A o \in Objects : \A f : Claims(o, f)' <=> Claims(o, f)
      /\ \A o \in Objects : Reads(o)' <=> Reads(o)
  BY <1>1, Still
<1>4. NeverOK' /\ AlwaysOK'
  BY <1>1, <1>3 DEF Inv, NeverOK, AlwaysOK
<1> QED BY <1>2, <1>3, <1>4 DEF Inv

\* What can be read is extractable; what leaves was in no key that says otherwise.
LEMMA C_GetAttributeValueStep ==
  ASSUME Inv, NEW p \in Objects, C_GetAttributeValue(p)
  PROVE  Inv'
<1> DEFINE v == object[p].value
<1>1. /\ disclosed' = disclosed \union v /\ Retrievable(object[p].flags)
      /\ UNCHANGED <<object, call, calls, user, secrets, wrapped, unaccounted>>
  BY DEF C_GetAttributeValue
<1>2. v \subseteq object[p].origin /\ v \subseteq 0..secrets /\ v \subseteq Secrets
  BY Typed DEF Inv, ValuesOK, ObjectType
<1>3. Claims(p, "EXTRACTABLE") /\ Reads(p)
  BY <1>1 DEF Claims, Reads, Views, Retrievable
<1>4. TypeOK' /\ ValuesOK'
  BY <1>1, <1>2 DEF Inv, TypeOK, ValuesOK
<1>5. /\ CallsOK' /\ OneChanger' /\ ChangesOK'
      /\ \A o \in Objects : \A f : Claims(o, f)' <=> Claims(o, f)
      /\ \A o \in Objects : Reads(o)' <=> Reads(o)
  BY <1>1, Still
<1>6. FreshOK'
  <2>1. \A r \in Threads : call[r].make.rule \in {"local", "inherit"} => call[r].value \intersect v = {}
    BY <1>2, FreshApart
  <2> QED BY <1>1, <2>1 DEF Inv, FreshOK
<1>7. \A o \in Objects : Claims(o, "NEVER_EXTRACTABLE") => object[o].value \intersect v \subseteq unaccounted
  BY <1>3 DEF Inv, NeverOK
<1>8. \A o \in Objects : Claims(o, "ALWAYS_SENSITIVE") =>
         object[o].origin \intersect v \subseteq unaccounted \union wrapped
  BY <1>3 DEF Inv, AlwaysOK
<1> HIDE DEF v
<1>9. NeverOK'
  BY <1>1, <1>5, <1>7 DEF Inv, NeverOK
<1>10. AlwaysOK'
  BY <1>1, <1>5, <1>8 DEF Inv, AlwaysOK
<1> QED BY <1>4, <1>5, <1>6, <1>9, <1>10 DEF Inv

LEMMA C_WrapKeyStep ==
  ASSUME Inv, NEW p \in Objects, NEW trusted, C_WrapKey(p, trusted)
  PROVE  Inv'
<1> DEFINE v == Wrapping(p)
<1>1. /\ wrapped' = wrapped \union v /\ object[p].flags["EXTRACTABLE"]
      /\ UNCHANGED <<object, call, calls, user, secrets, disclosed, unaccounted>>
  BY DEF C_WrapKey
<1>2. v \subseteq object[p].value /\ v \subseteq object[p].origin /\ v \subseteq 0..secrets /\ v \subseteq Secrets
  BY Typed DEF Wrapping, Inv, ValuesOK, ObjectType
<1>3. Claims(p, "EXTRACTABLE")
  BY <1>1 DEF Claims, Views
<1> HIDE DEF v
<1>4. TypeOK' /\ ValuesOK'
  BY <1>1, <1>2 DEF Inv, TypeOK, ValuesOK
<1>5. /\ CallsOK' /\ OneChanger' /\ ChangesOK'
      /\ \A o \in Objects : \A f : Claims(o, f)' <=> Claims(o, f)
      /\ \A o \in Objects : Reads(o)' <=> Reads(o)
  BY <1>1, Still
<1>6. FreshOK'
  <2>1. \A r \in Threads : call[r].make.rule \in {"local", "inherit"} => call[r].value \intersect v = {}
    BY <1>2, FreshApart
  <2> QED BY <1>1, <2>1 DEF Inv, FreshOK
<1>7. \A o \in Objects : Claims(o, "NEVER_EXTRACTABLE") => object[o].value \intersect v \subseteq unaccounted
  BY <1>2, <1>3 DEF Inv, NeverOK
<1>8. NeverOK'
  BY <1>1, <1>5, <1>7 DEF Inv, NeverOK
<1>9. AlwaysOK'
  BY <1>1, <1>5 DEF Inv, AlwaysOK
<1> QED BY <1>4, <1>5, <1>6, <1>8, <1>9 DEF Inv
-----------------------------------------------------------------------------
(* The specification *)

LEMMA InitInv == Init => Inv
<1> SUFFICES ASSUME Init PROVE Inv
  OBVIOUS
<1>1. /\ \A o \in Objects : object[o] = FreeObject
      /\ \A t \in Threads : call[t] = NoCall
      /\ object \in [Objects -> ObjectType] /\ call \in [Threads -> CallType]
  BY Empties DEF Init
<1>2. /\ user = FALSE /\ secrets = 0 /\ calls = 0
      /\ disclosed = {Known} /\ wrapped = {} /\ unaccounted = {}
  BY DEF Init
<1>3. 0 \in Secrets /\ 0 \in 0..MaxCalls /\ Known \in 0..secrets
  BY <1>2, BoundAssumption DEF Secrets, Known
<1>4. TypeOK
  BY <1>1, <1>2, <1>3, Empties DEF TypeOK, Known
<1>5. CallsOK /\ OneChanger
  BY <1>1, Empties DEF CallsOK, CallOK, OneChanger
<1>6. ValuesOK
  BY <1>1, <1>2, <1>3, Empties DEF ValuesOK
<1>7. FreshOK /\ ChangesOK
  BY <1>1, Empties DEF FreshOK, ChangesOK
<1>8. NeverOK /\ AlwaysOK
  BY <1>1, Empties DEF NeverOK, AlwaysOK
<1> QED BY <1>4, <1>5, <1>6, <1>7, <1>8 DEF Inv

LEMMA CreatesInv ==
  ASSUME Inv, NEW t \in Threads, Creates(t)
  PROVE  Inv'
<1>1. PICK new \in Objects, place \in Places :
        \/ C_CreateObject(t, new, place[1], place[2])
        \/ \E make \in SecretKeyGenerators : C_GenerateKey(t, make, new, place[1], place[2])
        \/ \E make \in KeyPairGenerators : C_GenerateKeyPair(t, make, new, place[1], place[2])
        \/ \E value \in SUBSET Secrets : C_UnwrapKey(t, value, new, place[1], place[2])
        \/ C_EncapsulateKey(t, new, place[1], place[2])
        \/ C_DecapsulateKey(t, new, place[1], place[2])
        \/ \E base \in Objects :
             \/ \E make \in Computed : C_DeriveKey(t, make, base, new, place[1], place[2])
             \/ C_DeriveKey_Data(t, base, new, place[1], place[2])
             \/ \E other \in Objects : C_DeriveKey_Key(t, base, other, new, place[1], place[2])
             \/ C_CopyObject(t, base, new, place[1], place[2])
  BY DEF Creates
<1>2. PICK token \in BOOLEAN, private \in BOOLEAN : token = place[1] /\ private = place[2]
  BY EntryAssumption
<1>3. ASSUME NEW make \in SecretKeyGenerators \union KeyPairGenerators,
             MakeFresh(t, make, new, token, private, Gone, {})
      PROVE  Inv'
  BY <1>3, Makers, GeneratedStep
<1>4. ASSUME NEW op \in {"DERIVE", "DECAPSULATE"},
             MakeFresh(t, Maker(op, "neither", FALSE), new, token, private, Gone, {})
      PROVE  Inv'
  <2>1. Maker(op, "neither", FALSE) \in MakerType /\ Maker(op, "neither", FALSE).op = op
        /\ Maker(op, "neither", FALSE).rule = "neither"
    BY DEF Maker, MakerType, Ops, CreationOps, Rules
  <2> QED BY <1>4, <2>1, GeneratedStep
<1>5. CASE C_CreateObject(t, new, token, private)
  BY <1>5, C_CreateObjectStep
<1>6. CASE \/ \E make \in SecretKeyGenerators : C_GenerateKey(t, make, new, token, private)
           \/ \E make \in KeyPairGenerators : C_GenerateKeyPair(t, make, new, token, private)
  BY <1>3, <1>6 DEF C_GenerateKey, C_GenerateKeyPair
<1>7. CASE \E value \in SUBSET Secrets : C_UnwrapKey(t, value, new, token, private)
  BY <1>7, C_UnwrapKeyStep
<1>8. CASE C_EncapsulateKey(t, new, token, private) \/ C_DecapsulateKey(t, new, token, private)
  BY <1>4, <1>8 DEF C_EncapsulateKey, C_DecapsulateKey
<1>9. ASSUME NEW base \in Objects,
             \/ \E make \in Computed : C_DeriveKey(t, make, base, new, token, private)
             \/ C_DeriveKey_Data(t, base, new, token, private)
             \/ \E other \in Objects : C_DeriveKey_Key(t, base, other, new, token, private)
             \/ C_CopyObject(t, base, new, token, private)
      PROVE  Inv'
  BY <1>9, C_DeriveKeyStep, C_DeriveKey_DataStep, C_DeriveKey_KeyStep, C_CopyObjectStep
<1> QED BY <1>1, <1>2, <1>5, <1>6, <1>7, <1>8, <1>9

LEMMA ContinuesInv ==
  ASSUME Inv, NEW t \in Threads, Continues(t)
  PROVE  Inv'
<1>1. CASE \E entry \in Entries :
             \/ Entry(t, entry[1], entry[2])
             \/ \E valued \in BOOLEAN : Refuse(t, entry[1], entry[2], valued)
  <2>1. PICK entry \in Entries :
          \/ Entry(t, entry[1], entry[2])
          \/ \E valued \in BOOLEAN : Refuse(t, entry[1], entry[2], valued)
    BY <1>1
  <2>2. entry[1] \in Flags /\ entry[2] \in BOOLEAN
    BY EntryAssumption
  <2> QED BY <2>1, <2>2, EntryStep, RefuseStep
<1> QED BY <1>1, CommitStep, LookUpStep, LostStep, StoreStep, StoreFailsStep DEF Continues

LEMMA NextInv == Inv /\ [Next]_vars => Inv'
<1> SUFFICES ASSUME Inv, [Next]_vars PROVE Inv'
  OBVIOUS
<1>1. CASE UNCHANGED vars
  <2>1. UNCHANGED <<object, call, calls, user, secrets, disclosed, wrapped, unaccounted>>
    BY <1>1 DEF vars
  <2>2. TypeOK' /\ ValuesOK' /\ FreshOK'
    BY <2>1 DEF Inv, TypeOK, ValuesOK, FreshOK
  <2>3. /\ CallsOK' /\ OneChanger' /\ ChangesOK'
        /\ \A o \in Objects : \A f : Claims(o, f)' <=> Claims(o, f)
        /\ \A o \in Objects : Reads(o)' <=> Reads(o)
    BY <2>1, Still
  <2>4. NeverOK' /\ AlwaysOK'
    BY <2>1, <2>3 DEF Inv, NeverOK, AlwaysOK
  <2> QED BY <2>2, <2>3, <2>4 DEF Inv
<1>2. CASE C_Login \/ C_Logout
  BY <1>2, C_LoginStep, C_LogoutStep
<1>3. ASSUME NEW o \in Objects,
             \/ C_DestroyObject(o) \/ C_GetAttributeValue(o)
             \/ \E trusted \in BOOLEAN : C_WrapKey(o, trusted)
      PROVE  Inv'
  BY <1>3, C_DestroyObjectStep, C_GetAttributeValueStep, C_WrapKeyStep
<1>4. ASSUME NEW t \in Threads,
             Creates(t) \/ (\E o \in Objects : C_SetAttributeValue(t, o)) \/ Continues(t)
      PROVE  Inv'
  BY <1>4, CreatesInv, C_SetAttributeValueStep, ContinuesInv
<1> QED BY <1>1, <1>2, <1>3, <1>4 DEF Next

\* Nothing the application can see contradicts what the keys say of themselves, in any
\* state C_CreateObject, C_GenerateKey, C_DeriveKey, C_SetAttributeValue and the other
\* functions reach, with calls of any number of threads between their steps.
THEOREM InvariantHolds == Spec => []Inv
BY InitInv, NextInv, PTL DEF Spec

\* The types, and: a free object is empty, an object in the making belongs to the call
\* that makes it, and no call works with an object that is not there.
THEOREM TypeCorrect == Spec => []TypeOK
<1>1. Inv => TypeOK
  BY DEF Inv
<1> QED BY <1>1, InvariantHolds, PTL

\* Whatever copies, derivations and wrappings a key has been through, one that says
\* CKA_NEVER_EXTRACTABLE has a value that has not left the token.
THEOREM NeverExtractable == Spec => []NeverExtractableTrue
<1>1. Inv => NeverExtractableTrue
  <2> SUFFICES ASSUME Inv, NEW o \in Objects, object[o].flags["NEVER_EXTRACTABLE"]
               PROVE  object[o].value \intersect (disclosed \union wrapped) \subseteq unaccounted
    BY DEF NeverExtractableTrue
  <2>1. Claims(o, "NEVER_EXTRACTABLE")
    BY DEF Claims, Views
  <2> QED BY <2>1 DEF Inv, NeverOK
<1> QED BY <1>1, InvariantHolds, PTL

\* And one that says CKA_ALWAYS_SENSITIVE has not been read in clear, nor a key it was
\* derived from.
THEOREM AlwaysSensitive == Spec => []AlwaysSensitiveTrue
<1>1. Inv => AlwaysSensitiveTrue
  <2> SUFFICES ASSUME Inv, NEW o \in Objects, object[o].flags["ALWAYS_SENSITIVE"]
               PROVE  object[o].origin \intersect disclosed \subseteq unaccounted \union wrapped
    BY DEF AlwaysSensitiveTrue
  <2>1. Claims(o, "ALWAYS_SENSITIVE")
    BY DEF Claims, Views
  <2> QED BY <2>1 DEF Inv, AlwaysOK
<1> QED BY <1>1, InvariantHolds, PTL
-----------------------------------------------------------------------------
(* One way *)

\* The committed flags of a key that is ready, in this state and in the next.
LEMMA CommittedIs ==
  ASSUME Inv, NEW o \in Objects, object[o].state = "ready"
  PROVE  /\ (\A t \in Threads : call[t].object # o) => Committed(o) = object[o].flags
         /\ \A t \in Threads : call[t].object = o =>
              /\ call[t].make.op = "SET"
              /\ Committed(o) = IF object[o].token THEN call[t].before ELSE object[o].flags
<1> DEFINE inside == {t \in Threads : call[t].phase = "template" /\ call[t].object = o}
<1>1. (\A t \in Threads : call[t].object # o) => Committed(o) = object[o].flags
  BY DEF Committed
<1>2. ASSUME NEW t \in Threads, call[t].object = o
      PROVE  /\ call[t].make.op = "SET"
             /\ Committed(o) = IF object[o].token THEN call[t].before ELSE object[o].flags
  <2>1. o # Gone
    BY GoneAssumption
  <2>2. call[t].make.op = "SET"
    BY <1>2, <2>1 DEF Inv, TypeOK
  <2>3. call[t].phase = "template"
    BY <1>2, <2>1, <2>2 DEF Inv, ChangesOK
  <2>4. inside = {t}
    BY <1>2, <2>1, <2>3 DEF Inv, OneChanger
  <2>5. Committed(o) = IF object[o].token /\ inside # {} THEN call[CHOOSE s \in inside : TRUE].before
                       ELSE object[o].flags
    BY DEF Committed
  <2> HIDE DEF inside
  <2>6. (CHOOSE s \in inside : TRUE) = t /\ inside # {}
    BY <2>4
  <2> QED BY <2>2, <2>5, <2>6
<1> QED BY <1>1, <1>2

LEMMA CommittedNext ==
  ASSUME Inv', NEW o \in Objects, object'[o].state = "ready"
  PROVE  /\ (\A t \in Threads : call'[t].object # o) => Committed(o)' = object'[o].flags
         /\ \A t \in Threads : call'[t].object = o =>
              Committed(o)' = IF object'[o].token THEN call'[t].before ELSE object'[o].flags
<1> DEFINE inside == {t \in Threads : call'[t].phase = "template" /\ call'[t].object = o}
<1>1. (\A t \in Threads : call'[t].object # o) => Committed(o)' = object'[o].flags
  BY DEF Committed
<1>2. ASSUME NEW t \in Threads, call'[t].object = o
      PROVE  Committed(o)' = IF object'[o].token THEN call'[t].before ELSE object'[o].flags
  <2>1. o # Gone
    BY GoneAssumption
  <2>2. call'[t].make.op = "SET"
    BY <1>2, <2>1 DEF Inv, TypeOK
  <2>3. call'[t].phase = "template"
    BY <1>2, <2>1, <2>2 DEF Inv, ChangesOK
  <2>4. inside = {t}
    BY <1>2, <2>1, <2>3 DEF Inv, OneChanger
  <2>5. Committed(o)' = IF object'[o].token /\ inside # {} THEN call'[CHOOSE s \in inside : TRUE].before
                        ELSE object'[o].flags
    BY DEF Committed
  <2> HIDE DEF inside
  <2>6. (CHOOSE s \in inside : TRUE) = t /\ inside # {}
    BY <2>4
  <2> QED BY <2>5, <2>6
<1> QED BY <1>1, <1>2

\* The object, and the transaction it is in, are as they were.
Kept(o) ==
  /\ object'[o] = object[o]
  /\ \A t \in Threads : /\ call'[t].object = o <=> call[t].object = o
                        /\ call[t].object = o => call'[t].before = call[t].before

LEMMA TightenedItself == \A w : Tightened(w, w)
BY DEF Tightened

LEMMA KeptStays ==
  ASSUME Inv, Inv', NEW o \in Objects, object[o].state = "ready", Kept(o)
  PROVE  Tightened(Committed(o), Committed(o)')
<1>1. object'[o].state = "ready" /\ object'[o] = object[o]
  BY DEF Kept
<1>2. Committed(o)' = Committed(o)
  <2>1. CASE \A t \in Threads : call[t].object # o
    <3>1. \A t \in Threads : call'[t].object # o
      BY <2>1 DEF Kept
    <3> QED BY <1>1, <2>1, <3>1, CommittedIs, CommittedNext
  <2>2. ASSUME NEW t \in Threads, call[t].object = o PROVE Committed(o)' = Committed(o)
    <3>1. call'[t].object = o /\ call'[t].before = call[t].before
      BY <2>2 DEF Kept
    <3>2. Committed(o) = IF object[o].token THEN call[t].before ELSE object[o].flags
      BY <2>2, CommittedIs
    <3>3. Committed(o)' = IF object'[o].token THEN call'[t].before ELSE object'[o].flags
      BY <1>1, <3>1, CommittedNext
    <3> QED BY <1>1, <3>1, <3>2, <3>3
  <2> QED BY <2>1, <2>2
<1> QED BY <1>2, TightenedItself

\* Objects go, but not this one.
LEMMA KeptByForget ==
  ASSUME Inv, NEW o \in Objects, NEW gone, o \notin gone, object'[o] = object[o],
         \A s \in Threads : \/ call'[s] = call[s]
                            \/ call'[s].object # o /\ call[s].object # o
                            \/ /\ call'[s].object = Forget(call[s], gone).object
                               /\ call'[s].before = call[s].before
  PROVE  Kept(o)
<1>1. ASSUME NEW s \in Threads
      PROVE  /\ call'[s].object = o <=> call[s].object = o
             /\ call[s].object = o => call'[s].before = call[s].before
  <2>1. call[s] \in CallType /\ o # Gone
    BY Typed, GoneAssumption
  <2>2. Forget(call[s], gone).object = IF call[s].object \in gone THEN Gone ELSE call[s].object
    BY <2>1 DEF Forget, CallType
  <2> QED BY <2>1, <2>2
<1> QED BY <1>1 DEF Kept

\* A call that begins with a new object.
Begins(t, new) ==
  /\ object[new].state = "free" /\ \A u \in Objects : u # new => object'[u] = object[u]
  /\ call[t] = NoCall /\ call'[t].object = new
  /\ \A s \in Threads : s # t => call'[s] = call[s]

LEMMA MakeBegins ==
  ASSUME Inv, NEW t \in Threads, NEW make, NEW new \in Objects, NEW token, NEW private,
         NEW base, NEW other, NEW value, NEW origin,
         Make(t, make, new, token, private, base, other, value, origin)
  PROVE  Begins(t, new)
BY Typed DEF Make, Begin, Begins

LEMMA CopyBegins ==
  ASSUME Inv, NEW t \in Threads, NEW o \in Objects, NEW new \in Objects, NEW token, NEW private,
         C_CopyObject(t, o, new, token, private)
  PROVE  Begins(t, new)
<1> DEFINE c == [NoCall EXCEPT !.phase = "template", !.make = Maker("COPY", "as is", FALSE),
                               !.object = new, !.before = object[o].flags]
           x == [object[o] EXCEPT !.state = "making", !.token = token, !.private = private]
<1>1. /\ object[new].state = "free" /\ object' = [object EXCEPT ![new] = x]
      /\ call[t] = NoCall /\ call' = [call EXCEPT ![t] = c]
  BY DEF C_CopyObject, Begin
<1>2. c.object = new
  BY Empties DEF CallType
<1> HIDE DEF c, x
<1> QED BY <1>1, <1>2, Typed DEF Begins

LEMMA KeptByCreates ==
  ASSUME Inv, NEW t \in Threads, Creates(t), NEW o \in Objects, object[o].state = "ready"
  PROVE  Kept(o)
<1>1. PICK new \in Objects : Begins(t, new)
  <2>1. PICK new \in Objects, place \in Places :
          \/ C_CreateObject(t, new, place[1], place[2])
          \/ \E make \in SecretKeyGenerators : C_GenerateKey(t, make, new, place[1], place[2])
          \/ \E make \in KeyPairGenerators : C_GenerateKeyPair(t, make, new, place[1], place[2])
          \/ \E value \in SUBSET Secrets : C_UnwrapKey(t, value, new, place[1], place[2])
          \/ C_EncapsulateKey(t, new, place[1], place[2])
          \/ C_DecapsulateKey(t, new, place[1], place[2])
          \/ \E base \in Objects :
               \/ \E make \in Computed : C_DeriveKey(t, make, base, new, place[1], place[2])
               \/ C_DeriveKey_Data(t, base, new, place[1], place[2])
               \/ \E other \in Objects : C_DeriveKey_Key(t, base, other, new, place[1], place[2])
               \/ C_CopyObject(t, base, new, place[1], place[2])
    BY DEF Creates
  <2>0. PICK token, private : token = place[1] /\ private = place[2]
    OBVIOUS
  <2>2. \A make, base, from : MakeFresh(t, make, new, token, private, base, from) => Begins(t, new)
    BY MakeBegins DEF MakeFresh
  <2>3. CASE C_CreateObject(t, new, token, private)
    BY <2>3, MakeBegins DEF C_CreateObject
  <2>4. ASSUME NEW value, C_UnwrapKey(t, value, new, token, private) PROVE Begins(t, new)
    BY <2>4, MakeBegins DEF C_UnwrapKey
  <2>5. ASSUME NEW base, C_DeriveKey_Data(t, base, new, token, private) PROVE Begins(t, new)
    BY <2>5, MakeBegins DEF C_DeriveKey_Data
  <2>6. ASSUME NEW base, NEW other, C_DeriveKey_Key(t, base, other, new, token, private)
        PROVE  Begins(t, new)
    BY <2>6, MakeBegins DEF C_DeriveKey_Key
  <2>7. ASSUME NEW make, NEW base, C_DeriveKey(t, make, base, new, token, private)
        PROVE  Begins(t, new)
    BY <2>2, <2>7 DEF C_DeriveKey
  <2>8. ASSUME NEW make, C_GenerateKey(t, make, new, token, private)
                         \/ C_GenerateKeyPair(t, make, new, token, private)
        PROVE  Begins(t, new)
    BY <2>2, <2>8 DEF C_GenerateKey, C_GenerateKeyPair
  <2>9. CASE C_EncapsulateKey(t, new, token, private) \/ C_DecapsulateKey(t, new, token, private)
    BY <2>2, <2>9 DEF C_EncapsulateKey, C_DecapsulateKey
  <2> QED BY <2>0, <2>1, <2>3, <2>4, <2>5, <2>6, <2>7, <2>8, <2>9, CopyBegins
<1>2. o # new /\ o # Gone
  BY <1>1, GoneAssumption DEF Begins
<1> QED BY <1>1, <1>2, Empties DEF Begins, Kept

\* A call that goes on, but not with this object.
LEMMA KeptByOthers ==
  ASSUME Inv, NEW t \in Threads, Continues(t), NEW o \in Objects, call[t].object # o
  PROVE  Kept(o)
<1>a. PICK p : p = call[t].object
  OBVIOUS
<1>1. p # o /\ call[t] \in CallType /\ (p # Gone => p \in Objects)
  BY <1>a, Typed
<1>2. object'[o] = object[o]
  <2>1. \/ UNCHANGED object
        \/ p # Gone /\ \E x : object' = [object EXCEPT ![p] = x]
    BY <1>a DEF Continues, Entry, Refuse, Commit, LookUp, Lost, Store, StoreFails
  <2> QED BY <1>1, <2>1, Typed
<1>3. ASSUME NEW s \in Threads, s # t
      PROVE  call'[s] = call[s] \/ (p # Gone /\ call'[s] = Forget(call[s], {p}))
  <2>1. call \in [Threads -> CallType]
    BY Typed
  <2>2. ASSUME NEW f, NEW v, NEW valued, Refuse(t, f, v, valued)
        PROVE  call'[s] = call[s] \/ (p # Gone /\ call'[s] = Forget(call[s], {p}))
    BY <1>a, <1>3, <2>2 DEF Refuse
  <2>3. CASE StoreFails(t)
    BY <1>a, <1>3, <2>3 DEF StoreFails
  <2>4. ASSUME NEW f, NEW v, Entry(t, f, v) PROVE call'[s] = call[s]
    BY <1>3, <2>1, <2>4 DEF Entry
  <2>5. CASE Commit(t) \/ LookUp(t)
    BY <1>3, <2>1, <2>5 DEF Commit, LookUp
  <2>6. CASE Lost(t) \/ Store(t)
    BY <1>3, <2>1, <2>6 DEF Lost, Store
  <2> QED BY <2>2, <2>3, <2>4, <2>5, <2>6 DEF Continues
<1>4. call'[t].object \in {p, Gone}
  <2>1. CASE call'[t] = NoCall
    BY <2>1, Empties
  <2>2. CASE call'[t] # NoCall
    <3>1. \/ call'[t] = [call[t] EXCEPT !.entries = @ + 1]
          \/ call'[t] = [call[t] EXCEPT !.phase = "look up", !.handle = TRUE]
          \/ call'[t] = [call[t] EXCEPT !.phase = "store"]
      BY <2>2, Typed DEF Continues, Entry, Refuse, Commit, LookUp, Lost, Store, StoreFails
    <3> QED BY <1>a, <1>1, <3>1 DEF CallType
  <2> QED BY <2>1, <2>2
<1>5. ASSUME NEW s \in Threads
      PROVE  \/ call'[s] = call[s]
             \/ call'[s].object # o /\ call[s].object # o
             \/ /\ call'[s].object = Forget(call[s], {p}).object
                /\ call'[s].before = call[s].before
  <2>1. CASE s = t
    BY <1>a, <1>1, <1>4, <2>1, GoneAssumption
  <2>2. CASE s # t /\ call'[s] = Forget(call[s], {p})
    <3>1. Forget(call[s], {p}).before = call[s].before
      BY Typed DEF Forget, CallType
    <3> QED BY <2>2, <3>1
  <2> QED BY <1>3, <2>1, <2>2
<1> QED BY <1>1, <1>2, <1>5, KeptByForget
\* A step of the C_SetAttributeValue that has the object in hand.
LEMMA SetTightens ==
  ASSUME Inv, Inv', NEW t \in Threads, Continues(t), NEW o \in Objects, call[t].object = o,
         object[o].state = "ready", object'[o].state = "ready"
  PROVE  Tightened(Committed(o), Committed(o)')
<1>1. /\ o # Gone /\ call[t].make.op = "SET"
      /\ Committed(o) = IF object[o].token THEN call[t].before ELSE object[o].flags
  BY CommittedIs, GoneAssumption
<1>2. /\ object[o] \in ObjectType /\ call[t] \in CallType
      /\ \A s \in Threads : s # t => call[s].object # o
  BY <1>1, ItsObject
<1>3. call[t].phase = "template" /\ Tightened(call[t].before, object[o].flags)
  BY <1>1 DEF Inv, ChangesOK
<1>4. ASSUME call'[t] = NoCall, \A s \in Threads : s # t => call'[s] = call[s]
      PROVE  Committed(o)' = object'[o].flags
  <2>1. \A s \in Threads : call'[s].object # o
    BY <1>1, <1>2, <1>4, Empties
  <2> QED BY <2>1, CommittedNext
<1>5. ASSUME NEW f \in Flags, NEW v \in BOOLEAN, Entry(t, f, v)
      PROVE  Tightened(Committed(o), Committed(o)')
  <2> DEFINE new == Updated(object[o].flags, f, v, "SET")
             x == [object[o] EXCEPT !.flags = new]
             c == [call[t] EXCEPT !.entries = @ + 1]
  <2>1. /\ Allowed(object[o].flags, f, v, "SET") /\ object' = [object EXCEPT ![o] = x]
        /\ call' = [call EXCEPT ![t] = c]
    BY <1>1, <1>5 DEF Entry
  <2>2. object[o].flags \in FlagsType
    BY <1>2 DEF ObjectType
  <2>3. Tightened(object[o].flags, new)
    BY <2>1, <2>2, AllowedTightens
  <2> HIDE DEF new
  <2>4. x.flags = new /\ x.token = object[o].token
    BY <1>2 DEF ObjectType
  <2>5. c.object = o /\ c.before = call[t].before
    BY <1>2, OneEntryMore
  <2> HIDE DEF x, c
  <2>6. object'[o] = x /\ call'[t] = c
    BY <2>1, Typed
  <2>7. Committed(o)' = IF object[o].token THEN call[t].before ELSE new
    BY <2>4, <2>5, <2>6, CommittedNext
  <2> QED BY <1>1, <2>3, <2>7, TightenedItself
<1>6. ASSUME NEW f, NEW v, NEW valued, Refuse(t, f, v, valued)
      PROVE  Tightened(Committed(o), Committed(o)')
  <2> DEFINE new == IF object[o].token THEN call[t].before ELSE object[o].flags
             x == [object[o] EXCEPT !.flags = new]
  <2>1. object' = [object EXCEPT ![o] = x] /\ call' = [call EXCEPT ![t] = NoCall]
    BY <1>1, <1>6, Typed DEF Refuse
  <2> HIDE DEF new
  <2>2. x.flags = new
    BY <1>2 DEF ObjectType
  <2> HIDE DEF x
  <2>3. object'[o] = x /\ call'[t] = NoCall /\ \A s \in Threads : s # t => call'[s] = call[s]
    BY <2>1, Typed
  <2>4. Committed(o)' = Committed(o)
    BY <1>1, <1>4, <2>2, <2>3 DEF new
  <2> QED BY <2>4, TightenedItself
<1>7. CASE Commit(t)
  <2>1. call' = [call EXCEPT ![t] = NoCall] /\ object' = object
    BY <1>1, <1>7 DEF Commit
  <2>2. call'[t] = NoCall /\ \A s \in Threads : s # t => call'[s] = call[s]
    BY <2>1, Typed
  <2>3. Committed(o)' = object[o].flags
    BY <1>4, <2>1, <2>2
  <2> QED BY <1>1, <1>3, <2>3, TightenedItself
<1>8. ~ (LookUp(t) \/ Lost(t) \/ Store(t) \/ StoreFails(t))
  BY <1>1, <1>3 DEF LookUp, Lost, Store, StoreFails
<1>9. CASE \E entry \in Entries :
             \/ Entry(t, entry[1], entry[2])
             \/ \E valued \in BOOLEAN : Refuse(t, entry[1], entry[2], valued)
  BY <1>5, <1>6, <1>9, EntryAssumption
<1> QED BY <1>7, <1>8, <1>9 DEF Continues

LEMMA SetBegins ==
  ASSUME Inv, Inv', NEW t \in Threads, NEW p \in Objects, C_SetAttributeValue(t, p),
         NEW o \in Objects, object[o].state = "ready"
  PROVE  Tightened(Committed(o), Committed(o)')
<1> DEFINE c == [NoCall EXCEPT !.phase = "template", !.object = p, !.before = object[p].flags]
<1>1. /\ call' = [call EXCEPT ![t] = c] /\ object' = object /\ \A s \in Threads : call[s].object # p
      /\ call[t] = NoCall
  BY DEF C_SetAttributeValue, Begin, Exclusive
<1>2. c.object = p /\ c.before = object[p].flags
  BY Empties DEF CallType
<1> HIDE DEF c
<1>3. call'[t] = c /\ \A s \in Threads : s # t => call'[s] = call[s]
  BY <1>1, Typed
<1>4. CASE o = p
  <2>1. Committed(o) = object[o].flags
    BY <1>1, <1>4, CommittedIs
  <2>2. Committed(o)' = IF object'[o].token THEN call'[t].before ELSE object'[o].flags
    BY <1>1, <1>2, <1>3, <1>4, CommittedNext
  <2>3. Committed(o)' = Committed(o)
    BY <1>1, <1>2, <1>3, <1>4, <2>1, <2>2
  <2> QED BY <2>3, TightenedItself
<1>5. CASE o # p
  <2>1. Kept(o)
    BY <1>1, <1>2, <1>3, <1>5, Empties, GoneAssumption DEF Kept
  <2> QED BY <2>1, KeptStays
<1> QED BY <1>4, <1>5

LEMMA KeptByOneStep ==
  ASSUME Inv, NEW o \in Objects, object[o].state = "ready", object'[o].state = "ready",
         \/ C_Login \/ C_Logout
         \/ \E p \in Objects : \/ C_DestroyObject(p) \/ C_GetAttributeValue(p)
                               \/ \E trusted \in BOOLEAN : C_WrapKey(p, trusted)
         \/ UNCHANGED vars
  PROVE  Kept(o)
<1>1. CASE UNCHANGED <<object, call>>
  BY <1>1 DEF Kept
<1>2. CASE C_Logout
  <2> DEFINE gone == {p \in Objects : object[p].private /\ ~ object[p].token}
  <2>1. /\ object' = [p \in Objects |-> IF p \in gone THEN FreeObject ELSE object[p]]
        /\ call' = [s \in Threads |-> [Forget(call[s], gone) EXCEPT !.handle = @ /\
             ~ (call[s].object \in Objects /\ object[call[s].object].private)]]
    BY <1>2 DEF C_Logout
  <2>2. ASSUME NEW s \in Threads
        PROVE  /\ call'[s].object = Forget(call[s], gone).object
               /\ call'[s].before = call[s].before
    <3>1. PICK c : c = Forget(call[s], gone)
      OBVIOUS
    <3>2. c \in CallType /\ c.before = call[s].before
      <4>1. call[s] \in CallType
        BY Typed
      <4> QED BY <3>1, <4>1 DEF Forget, CallType
    <3>3. PICK h : call'[s] = [c EXCEPT !.handle = h]
      BY <2>1, <3>1
    <3>4. call'[s].object = c.object /\ call'[s].before = c.before
      BY <3>2, <3>3 DEF CallType
    <3> QED BY <3>1, <3>2, <3>4
  <2>3. o \notin gone /\ object'[o] = object[o]
    BY <2>1, Empties
  <2> HIDE DEF gone
  <2> QED BY <2>2, <2>3, KeptByForget
<1>3. ASSUME NEW p \in Objects, C_DestroyObject(p) PROVE Kept(o)
  <2>1. object' = [object EXCEPT ![p] = FreeObject] /\ call' = [s \in Threads |-> Forget(call[s], {p})]
    BY <1>3 DEF C_DestroyObject
  <2>2. o \notin {p} /\ object'[o] = object[o]
    BY <2>1, Typed, Empties
  <2>3. \A s \in Threads : call'[s].object = Forget(call[s], {p}).object /\ call'[s].before = call[s].before
    BY <2>1, Typed DEF Forget, CallType
  <2> QED BY <2>2, <2>3, KeptByForget
<1> QED BY <1>1, <1>2, <1>3 DEF C_Login, C_GetAttributeValue, C_WrapKey, vars

\* The flags of a key never go back, over all the calls and transactions it goes through:
\* not by a template, not by one refused half way, not by what abortTransaction restores.
THEOREM OneWay == Spec => AttributesOneWay
<1>1. ASSUME Inv, Inv', [Next]_vars, NEW o \in Objects, object[o].state = "ready", object'[o].state = "ready"
      PROVE  Tightened(Committed(o), Committed(o)')
  <2>1. ASSUME NEW t \in Threads, Creates(t) PROVE Tightened(Committed(o), Committed(o)')
    BY <1>1, <2>1, KeptByCreates, KeptStays
  <2>2. ASSUME NEW t \in Threads, NEW p \in Objects, C_SetAttributeValue(t, p)
        PROVE  Tightened(Committed(o), Committed(o)')
    BY <1>1, <2>2, SetBegins
  <2>3. ASSUME NEW t \in Threads, Continues(t) PROVE Tightened(Committed(o), Committed(o)')
    <3>1. CASE call[t].object = o
      BY <1>1, <2>3, <3>1, SetTightens
    <3>2. CASE call[t].object # o
      BY <1>1, <2>3, <3>2, KeptByOthers, KeptStays
    <3> QED BY <3>1, <3>2
  <2>4. CASE \/ C_Login \/ C_Logout
             \/ \E p \in Objects : \/ C_DestroyObject(p) \/ C_GetAttributeValue(p)
                                   \/ \E trusted \in BOOLEAN : C_WrapKey(p, trusted)
             \/ UNCHANGED vars
    BY <1>1, <2>4, KeptByOneStep, KeptStays
  <2> QED BY <1>1, <2>1, <2>2, <2>3, <2>4 DEF Next
<1>2. Inv /\ Inv' /\ [Next]_vars =>
        [\A o \in Objects : object[o].state = "ready" /\ object'[o].state = "ready"
           => Tightened(Committed(o), Committed(o)')]_vars
  BY <1>1
<1> QED BY <1>2, InvariantHolds, PTL DEF Spec, AttributesOneWay
=============================================================================
