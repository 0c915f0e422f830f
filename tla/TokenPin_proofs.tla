-------------------------- MODULE TokenPin_proofs --------------------------
(***************************************************************************)
(* Proofs about TokenPin for any PINs, policies and numbers of keys and    *)
(* crashes: no write of any operation separates the two PINs from their    *)
(* one master key, every wrong PIN is counted, and a locked user PIN opens *)
(* only at the hands of the SO or over an empty token.                     *)
(***************************************************************************)
EXTENDS TokenPin, SequenceTheorems, TLAPS

\* What is true of the token after every single write.
TokenSound(d) ==
  /\ d \in Tokens
  /\ d.exists => d.max \in Budgets
  /\ ~ d.exists => d = NoToken
  /\ \A u \in Users : d.left[u] <= d.max[u]
  /\ KeysTogether(d)

Spent(d, u) == d.max[u] - d.left[u]

\* The manager s belongs to the token d.
Mirrors(s, d) ==
  /\ s \in Managers
  /\ s.blob = d.blob
  /\ s.who # "none" =>
       session # "none" /\ s.blob[s.who] # NoBlob /\ s.key = s.blob[s.who].key

\* The invariant, by the parts that a write may disturb.
LEMMA InvParts ==
  Inv <=> /\ TokenSound(disk) /\ Mirrors(sdm, disk)
          /\ session \in {"none", "RO", "RW"}
          /\ session # "none" => disk.exists
          /\ keys \in 0..MaxKeys /\ torn \in 0..MaxCrashes
          /\ wrong \in [Users -> Nat]
          /\ AttemptsCounted
BY DEF Inv, TypeOK, TokenSound, Mirrors, ManagerMirrors

\* A blob is none, or has a PIN and a key.
LEMMA BlobTypes ==
  /\ NoBlob \in Blobs
  /\ \A pin \in Pins, k \in 1..MaxKeys : Seal(pin, k) \in Blobs /\ Seal(pin, k) # NoBlob
                                         /\ Seal(pin, k).key = k /\ Seal(pin, k).pin = pin
  /\ \A b \in Blobs : b # NoBlob => b.key \in 1..MaxKeys /\ b.pin \in Pins
  /\ NoBlob.key = 0
BY DEF Blobs, NoBlob, Seal

\* The fields of a token after each kind of write.
LEMMA SetBlobFields ==
  ASSUME NEW d \in Tokens, NEW u \in Users, NEW b \in Blobs
  PROVE  LET e == SetBlob(d, u, b)
         IN  /\ e \in Tokens
             /\ e.blob = [d.blob EXCEPT ![u] = b]
             /\ e.exists = d.exists /\ e.max = d.max /\ e.left = d.left
             /\ e.change = d.change /\ e.sealed = d.sealed
BY DEF SetBlob, Tokens

LEMMA RefillFields ==
  ASSUME NEW d \in Tokens, NEW u \in Users
  PROVE  LET e == Refill(d, u)
         IN  /\ e \in Tokens
             /\ e.left = [d.left EXCEPT ![u] = d.max[u]]
             /\ e.exists = d.exists /\ e.max = d.max /\ e.blob = d.blob
             /\ e.change = d.change /\ e.sealed = d.sealed
BY DEF Refill, Tokens

LEMMA PolicyFields ==
  ASSUME NEW d \in Tokens, NEW budget \in Budgets, NEW change \in SUBSET Users
  PROVE  LET e == SetPolicy(d, budget, change)
         IN  /\ e \in Tokens
             /\ e.left = budget /\ e.max = budget /\ e.change = change
             /\ e.exists = d.exists /\ e.blob = d.blob /\ e.sealed = d.sealed
<1>1. budget \in [Users -> Nat]
  BY ConstantsOK
<1> QED BY <1>1 DEF SetPolicy, Tokens

LEMMA AdvanceFields ==
  ASSUME NEW d, TokenSound(d), NEW u \in Users, NEW success \in BOOLEAN, d.left[u] # 0
  PROVE  LET e == advancePinPolicy(d, u, success)
         IN  /\ e \in Tokens
             /\ e.left = [d.left EXCEPT ![u] = IF success THEN d.max[u] ELSE d.left[u] - 1]
             /\ e.left[u] \in Nat
             /\ e.exists = d.exists /\ e.max = d.max /\ e.blob = d.blob
             /\ e.change = d.change /\ e.sealed = d.sealed
<1>1. d.left[u] \in Nat /\ d.max[u] \in Nat
  BY DEF TokenSound, Tokens
<1> QED BY <1>1 DEF advancePinPolicy, Tokens, TokenSound

\* A token with the same PINs and objects and sound counters is sound.
LEMMA SameKeys ==
  ASSUME NEW d, NEW e \in Tokens, TokenSound(d), d.exists, e.exists,
         e.blob = d.blob, e.sealed = d.sealed, e.max \in Budgets,
         \A u \in Users : e.left[u] <= e.max[u]
  PROVE  TokenSound(e)
BY DEF TokenSound, KeysTogether

\* A sequence with three more writes.
LEMMA ConcatThree ==
  ASSUME NEW S, NEW q \in Seq(S), NEW r \in Seq(S), Len(r) = 3
  PROVE  q \o r \in Seq(S) /\ Len(q \o r) = Len(q) + 3 /\ (q \o r)[Len(q) + 3] = r[3]
<1>1. /\ q \o r \in Seq(S) /\ Len(q \o r) = Len(q) + Len(r)
      /\ \A i \in 1..Len(q) + Len(r) : (q \o r)[i] = IF i <= Len(q) THEN q[i] ELSE r[i - Len(q)]
  BY ConcatProperties, Zenon
<1>2. Len(q) + 3 \in 1..Len(q) + Len(r) /\ ~ (Len(q) + 3 <= Len(q)) /\ Len(q) + 3 - Len(q) = 3
  OBVIOUS
<1> QED BY <1>1, <1>2

\* What a sequence of writes may leave on disk.
LEMMA StoreShape ==
  ASSUME NEW W, NEW writes \in Seq(W), writes # <<>>, NEW s, Store(writes, s)
  PROVE  \/ /\ disk' = Last(writes) /\ sdm' = s /\ Last(writes) \in W
            /\ UNCHANGED <<session, torn>>
         \/ /\ torn < MaxCrashes /\ torn' = torn + 1
            /\ disk' = disk \/ disk' \in W
            /\ sdm' = Load(disk') /\ session' = "none"
<1>1. Last(writes) \in W
  BY DEF Last
<1>2. ASSUME NEW k \in 0..Len(writes) - 1
      PROVE  (<<disk>> \o writes)[k + 1] = disk \/ (<<disk>> \o writes)[k + 1] \in W
  <2>1. CASE k = 0
    BY <2>1
  <2>2. CASE k # 0
    <3>1. (<<disk>> \o writes)[k + 1] = writes[k]
      BY <2>2
    <3>2. writes[k] \in W
      BY <2>2
    <3> QED BY <3>1, <3>2
  <2> QED BY <2>1, <2>2
<1> QED BY <1>1, <1>2 DEF Store

\* The manager that is built from a sound token belongs to it.
LEMMA LoadMirrors ==
  ASSUME NEW d, TokenSound(d) PROVE Mirrors(Load(d), d) /\ Load(d).who = "none"
<1>1. d.blob \in [Users -> Blobs] /\ "so" \in Users /\ "user" \in Users
  BY DEF TokenSound, Tokens, Users
<1>2. d.blob["so"] = NoBlob => d.blob = [u \in Users |-> NoBlob]
  BY <1>1 DEF TokenSound, KeysTogether, Users
<1>3. Load(d).blob = d.blob /\ Load(d).who = "none" /\ Load(d).key = 0
  BY <1>2 DEF Load
<1>4. Load(d) \in Managers
  BY <1>1, <1>2, ConstantsOK DEF Load, Managers
<1> QED BY <1>3, <1>4 DEF Mirrors

\* An operation preserves the invariant if each of its writes leaves a sound token with
\* no fewer tries spent than were made, but for one, and if the last write and the new
\* manager agree.
LEMMA StoreInv ==
  ASSUME Inv, NEW W, NEW writes \in Seq(W), writes # <<>>, NEW s, Store(writes, s),
         \A d \in W : TokenSound(d) /\ d.exists,
         wrong' \in [Users -> Nat], keys' \in 0..MaxKeys,
         \A u \in Users : wrong'[u] <= wrong[u] + 1,
         \A d \in W, u \in Users : wrong'[u] <= Spent(d, u) + torn + 1,
         Mirrors(s, Last(writes)),
         \A u \in Users : /\ wrong'[u] <= Spent(Last(writes), u) + torn
                          /\ torn = 0 => wrong'[u] = Spent(Last(writes), u)
  PROVE  Inv'
<1>1. /\ TokenSound(disk) /\ torn \in 0..MaxCrashes /\ wrong \in [Users -> Nat]
      /\ session \in {"none", "RO", "RW"} /\ AttemptsCounted
      /\ session # "none" => disk.exists
  BY InvParts
<1>2. CASE /\ disk' = Last(writes) /\ sdm' = s /\ Last(writes) \in W
           /\ UNCHANGED <<session, torn>>
  <2>1. TokenSound(disk)' /\ disk'.exists
    BY <1>2 DEF TokenSound, KeysTogether
  <2>2. Mirrors(sdm, disk)'
    BY <1>2 DEF Mirrors
  <2>3. AttemptsCounted'
    BY <1>2 DEF AttemptsCounted, Spent
  <2> QED BY <1>1, <1>2, <2>1, <2>2, <2>3 DEF Inv, TypeOK, TokenSound, Mirrors, ManagerMirrors
<1>3. CASE /\ torn < MaxCrashes /\ torn' = torn + 1
           /\ disk' = disk \/ disk' \in W
           /\ sdm' = Load(disk') /\ session' = "none"
  <2>1. TokenSound(disk')
    BY <1>1, <1>3
  <2>2. TokenSound(disk)'
    BY <2>1 DEF TokenSound, KeysTogether
  <2>3. Mirrors(sdm, disk)'
    BY <1>3, <2>1, LoadMirrors DEF Mirrors
  <2>4. ASSUME disk'.exists, NEW u \in Users
        PROVE  wrong'[u] <= Spent(disk', u) + torn'
    <3>1. /\ wrong[u] \in Nat /\ wrong'[u] \in Nat /\ torn \in Nat
          /\ disk'.max[u] \in Nat /\ disk'.left[u] \in Nat
      BY <1>1, <2>1, ConstantsOK DEF TokenSound, Tokens
    <3>2. CASE disk' = disk
      <4>1. wrong[u] <= disk.max[u] - disk.left[u] + torn
        BY <1>1, <2>4, <3>2 DEF AttemptsCounted
      <4> QED BY <1>3, <3>1, <3>2, <4>1 DEF Spent
    <3>3. CASE disk' \in W
      BY <1>3, <3>1, <3>3 DEF Spent
    <3> QED BY <1>3, <3>2, <3>3
  <2>5. AttemptsCounted'
    BY <1>1, <1>3, <2>4, ConstantsOK DEF AttemptsCounted, Spent
  <2>6. torn' \in 0..MaxCrashes
    BY <1>1, <1>3, ConstantsOK
  <2> QED BY <1>3, <2>2, <2>3, <2>5, <2>6 DEF Inv, TypeOK, TokenSound, Mirrors, ManagerMirrors
<1> QED BY <1>2, <1>3, StoreShape

\* The initial token does not exist.
LEMMA InitInv == Init => Inv
<1> SUFFICES ASSUME Init PROVE Inv
  OBVIOUS
<1>1. NoToken \in Tokens
  BY BlobTypes DEF NoToken, Tokens
<1>2. TokenSound(NoToken)
  BY <1>1, BlobTypes DEF TokenSound, KeysTogether, NoToken, Users
<1>3. Mirrors(sdm, disk)
  BY <1>2, LoadMirrors DEF Init
<1>4. AttemptsCounted
  BY DEF Init, AttemptsCounted, NoToken
<1> QED BY <1>2, <1>3, <1>4, ConstantsOK, InvParts DEF Init, NoToken

\* What the actions start from.
LEMMA InvFacts ==
  ASSUME Inv
  PROVE  /\ TokenSound(disk) /\ Mirrors(sdm, disk) /\ disk \in Tokens
         /\ session # "none" => disk.exists
         /\ sdm.who # "none" => session # "none"
         /\ keys \in 0..MaxKeys /\ torn \in Nat /\ wrong \in [Users -> Nat]
         /\ "so" \in Users /\ "user" \in Users
         /\ \A u \in Users : disk.left[u] \in Nat /\ disk.max[u] \in Nat
         /\ disk.exists => \A u \in Users : /\ wrong[u] <= Spent(disk, u) + torn
                                            /\ torn = 0 => wrong[u] = Spent(disk, u)
BY InvParts, ConstantsOK DEF TokenSound, Mirrors, AttemptsCounted, Spent, Users, Tokens

\* A token that nobody has written to, with a manager that has logged out or is new.
LEMMA QuietInv ==
  ASSUME Inv, UNCHANGED <<disk, keys, torn, wrong>>, Mirrors(sdm, disk)',
         session' \in {"none", "RO", "RW"}, session' # "none" => disk.exists
  PROVE  Inv'
BY DEF Inv, TypeOK, Mirrors, ManagerMirrors, KeysTogether, AttemptsCounted

\* A manager that logs out or in has its type.
LEMMA LoginFields ==
  ASSUME NEW s \in Managers, NEW w \in Users \union {"none"}, NEW k \in 0..MaxKeys
  PROVE  [s EXCEPT !.who = w, !.key = k] \in Managers
BY DEF Managers

\* A manager that logs out still belongs to its token.
LEMMA LoggedOutMirrors ==
  ASSUME NEW d, NEW s, Mirrors(s, d)
  PROVE  /\ Mirrors(LoggedOut(s), d) /\ LoggedOut(s).who = "none"
         /\ LoggedOut(s).blob = d.blob
<1>1. LoggedOut(s).blob = s.blob /\ LoggedOut(s).who = "none" /\ LoggedOut(s).key = 0
  BY DEF Mirrors, LoggedOut, Managers
<1>2. LoggedOut(s) \in Managers
  <2>1. s \in Managers /\ "none" \in Users \union {"none"} /\ 0 \in 0..MaxKeys
    BY ConstantsOK DEF Mirrors
  <2> QED BY <2>1, LoginFields DEF LoggedOut
<1> QED BY <1>1, <1>2 DEF Mirrors

\* Sessions come and go, the process starts again.
LEMMA SessionsInv ==
  ASSUME Inv, \/ \E kind \in {"RO", "RW"} : C_OpenSession(kind)
              \/ C_CloseSession \/ C_Logout \/ Restart
  PROVE  Inv'
<1>1. ASSUME NEW kind \in {"RO", "RW"}, C_OpenSession(kind) PROVE Inv'
  BY <1>1, InvFacts, QuietInv DEF C_OpenSession, Mirrors
<1>2. CASE C_CloseSession
  BY <1>2, InvFacts, LoggedOutMirrors, QuietInv DEF C_CloseSession, Mirrors
<1>3. CASE C_Logout
  <2>1. session \in {"none", "RO", "RW"}
    BY DEF Inv, TypeOK
  <2> QED BY <1>3, <2>1, InvFacts, LoggedOutMirrors, QuietInv DEF C_Logout, Mirrors
<1>4. CASE Restart
  BY <1>4, InvFacts, LoadMirrors, QuietInv DEF Restart, Mirrors
<1> QED BY <1>1, <1>2, <1>3, <1>4

\* The result of presenting a PIN that is not locked is counted.
LEMMA PinResultInv ==
  ASSUME Inv, NEW u \in Users, NEW success \in BOOLEAN, NEW s, pinResult(u, success, s),
         ~ pinLocked(u), disk.exists, Mirrors(s, disk), UNCHANGED keys
  PROVE  Inv'
<1> DEFINE after == advancePinPolicy(disk, u, success)
           new   == IF after.left[u] = 0 THEN LoggedOut(s) ELSE s
           W     == {after}
           writes == <<after>>
<1>1. /\ after \in Tokens /\ after.exists /\ after.max = disk.max /\ after.blob = disk.blob
      /\ after.sealed = disk.sealed
      /\ after.left = [disk.left EXCEPT ![u] = IF success THEN disk.max[u] ELSE disk.left[u] - 1]
      /\ after.left[u] \in Nat
  BY InvFacts, AdvanceFields DEF pinLocked
<1>2. disk.left \in [Users -> Nat] /\ disk.max \in [Users -> Nat] /\ disk.max \in Budgets
  BY InvFacts DEF TokenSound, Tokens
<1>3. TokenSound(after)
  <2>1. \A v \in Users : after.left[v] <= after.max[v]
    BY <1>1, <1>2, InvFacts DEF TokenSound
  <2> QED BY <1>1, <1>2, <2>1, InvFacts, SameKeys
<1>4. Mirrors(new, after)
  BY <1>1, LoggedOutMirrors DEF Mirrors
<1>5. /\ Store(writes, new)
      /\ wrong' = [wrong EXCEPT ![u] = IF success THEN 0 ELSE @ + 1]
  BY DEF pinResult
<1>6. wrong' \in [Users -> Nat] /\ \A v \in Users : wrong'[v] <= wrong[v] + 1
  BY <1>5, InvFacts
<1>7. ASSUME NEW v \in Users
      PROVE  /\ wrong'[v] <= Spent(after, v) + torn
             /\ torn = 0 => wrong'[v] = Spent(after, v)
             /\ wrong'[v] <= Spent(after, v) + torn + 1
  <2>1. /\ wrong[v] <= Spent(disk, v) + torn /\ torn = 0 => wrong[v] = Spent(disk, v)
        /\ wrong[v] \in Nat /\ torn \in Nat
    BY InvFacts
  <2> QED BY <1>1, <1>2, <1>5, <2>1, InvFacts DEF Spent
<1>8. writes \in Seq(W) /\ writes # <<>> /\ Last(writes) = after
  BY DEF Last
<1> HIDE DEF after, new, writes
<1>9. /\ \A d \in W : TokenSound(d) /\ d.exists
      /\ \A d \in W, v \in Users : wrong'[v] <= Spent(d, v) + torn + 1
      /\ keys' \in 0..MaxKeys
      /\ Mirrors(new, Last(writes))
      /\ \A v \in Users : /\ wrong'[v] <= Spent(Last(writes), v) + torn
                          /\ torn = 0 => wrong'[v] = Spent(Last(writes), v)
  BY <1>1, <1>3, <1>4, <1>7, <1>8, InvFacts
<1> HIDE DEF W
<1> QED BY <1>5, <1>6, <1>8, <1>9, StoreInv

\* C_Login and the re-authentication.
LEMMA LoginInv ==
  ASSUME Inv, \/ \E u \in Users, pin \in Pins : C_Login(u, pin)
              \/ \E pin \in Pins : reAuthenticate(pin)
  PROVE  Inv'
<1>1. sdm \in Managers /\ sdm.blob = disk.blob
  BY InvFacts DEF Mirrors
<1>2. ASSUME NEW u \in Users, NEW pin \in Pins, C_Login(u, pin) PROVE Inv'
  <2>1. session # "none" /\ disk.exists /\ ~ pinLocked(u) /\ UNCHANGED keys
    BY <1>2, InvFacts DEF C_Login
  <2>2. CASE Opens(pin, sdm.blob[u]) /\ pinResult(u, TRUE, LoggedIn(sdm, u))
    <3>1. sdm.blob[u] # NoBlob /\ sdm.blob[u] \in Blobs
      BY <1>1, <2>2 DEF Opens, Managers
    <3>2. /\ LoggedIn(sdm, u) \in Managers
          /\ LoggedIn(sdm, u).blob = sdm.blob /\ LoggedIn(sdm, u).who = u
          /\ LoggedIn(sdm, u).key = sdm.blob[u].key
      <4>1. sdm.blob[u].key \in 0..MaxKeys
        BY <3>1, BlobTypes, ConstantsOK
      <4>2. [sdm EXCEPT !.who = u, !.key = sdm.blob[u].key] \in Managers
        BY <1>1, <4>1, LoginFields
      <4> QED BY <1>1, <4>2 DEF LoggedIn, Managers
    <3>3. Mirrors(LoggedIn(sdm, u), disk)
      BY <1>1, <2>1, <3>1, <3>2 DEF Mirrors
    <3> QED BY <2>1, <2>2, <3>3, PinResultInv
  <2>3. CASE pinResult(u, FALSE, LoggedOut(sdm))
    BY <2>1, <2>3, InvFacts, LoggedOutMirrors, PinResultInv
  <2> QED BY <1>2, <2>2, <2>3 DEF C_Login
<1>3. ASSUME NEW pin \in Pins, reAuthenticate(pin) PROVE Inv'
  <2>1. /\ disk.exists /\ sdm.who \in Users /\ ~ pinLocked(sdm.who) /\ UNCHANGED keys
        /\ pinResult(sdm.who, Opens(pin, sdm.blob[sdm.who]), sdm)
        /\ Opens(pin, sdm.blob[sdm.who]) \in BOOLEAN
    BY <1>1, <1>3, InvFacts DEF reAuthenticate, Managers, Opens
  <2> QED BY <2>1, InvFacts, PinResultInv
<1> QED BY <1>2, <1>3

\* A PIN that seals the master key of the token may be installed.
LEMMA KeyKept ==
  ASSUME NEW d, TokenSound(d), d.exists, NEW u \in Users, NEW b \in Blobs, b # NoBlob,
         u = "user" => d.blob["so"] # NoBlob,
         u = "user" \/ d.blob["user"] # NoBlob => b.key = d.blob["so"].key
  PROVE  TokenSound(SetBlob(d, u, b))
<1>1. /\ d \in Tokens /\ d.blob \in [Users -> Blobs] /\ "so" \in Users /\ "user" \in Users
      /\ "so" # "user"
  BY DEF TokenSound, Tokens, Users
<1>2. SetBlob(d, u, b).blob = [d.blob EXCEPT ![u] = b]
  BY <1>1, SetBlobFields
<1>3. KeysTogether(SetBlob(d, u, b))
  <2>1. CASE u = "user"
    BY <1>1, <1>2, <2>1, SetBlobFields DEF TokenSound, KeysTogether
  <2>2. CASE u = "so"
    BY <1>1, <1>2, <2>2, SetBlobFields DEF TokenSound, KeysTogether
  <2> QED BY <2>1, <2>2 DEF Users
<1> QED BY <1>1, <1>3, SetBlobFields DEF TokenSound

\* The manager with a new blob belongs to the token with the same one.
LEMMA NewBlobMirrors ==
  ASSUME NEW s, NEW d, NEW e, NEW u \in Users, NEW b \in Blobs, Mirrors(s, d),
         e.blob = [d.blob EXCEPT ![u] = b], b # NoBlob,
         s.who = u => b.key = s.blob[u].key
  PROVE  Mirrors([s EXCEPT !.blob[u] = b], e)
<1>1. s \in Managers /\ s.blob \in [Users -> Blobs] /\ s.blob = d.blob
  BY DEF Mirrors, Managers
<1>2. /\ [s EXCEPT !.blob[u] = b].blob = [s.blob EXCEPT ![u] = b]
      /\ [s EXCEPT !.blob[u] = b].who = s.who /\ [s EXCEPT !.blob[u] = b].key = s.key
  BY <1>1 DEF Managers
<1>3. [s EXCEPT !.blob[u] = b] \in Managers
  BY <1>1 DEF Managers
<1>4. s.who # "none" => [s.blob EXCEPT ![u] = b][s.who] # NoBlob
                        /\ s.key = [s.blob EXCEPT ![u] = b][s.who].key
  BY <1>1 DEF Mirrors, Managers
<1>5. s.who # "none" => session # "none"
  BY DEF Mirrors
<1> QED BY <1>1, <1>2, <1>3, <1>4, <1>5 DEF Mirrors

\* Two writes after which the counter of u is full and nothing else is counted anew.
LEMMA RefilledInv ==
  ASSUME Inv, disk.exists, NEW u \in Users, NEW a, NEW b, NEW s, Store(<<a, b>>, s),
         TokenSound(a), TokenSound(b), a.exists, b.exists, Mirrors(s, b),
         a.max = disk.max, b.max = disk.max, a.left = disk.left,
         b.left = [disk.left EXCEPT ![u] = disk.max[u]],
         wrong' = [wrong EXCEPT ![u] = 0], UNCHANGED keys
  PROVE  Inv'
<1> DEFINE W == {a, b}
           writes == <<a, b>>
<1>1. disk.left \in [Users -> Nat] /\ disk.max \in [Users -> Nat]
  BY InvFacts DEF TokenSound, Tokens
<1>2. wrong' \in [Users -> Nat] /\ \A v \in Users : wrong'[v] <= wrong[v] + 1
  BY InvFacts
<1>3. ASSUME NEW v \in Users
      PROVE  /\ wrong'[v] <= Spent(a, v) + torn + 1
             /\ wrong'[v] <= Spent(b, v) + torn + 1
             /\ wrong'[v] <= Spent(b, v) + torn
             /\ torn = 0 => wrong'[v] = Spent(b, v)
  <2>1. /\ wrong[v] <= disk.max[v] - disk.left[v] + torn
        /\ torn = 0 => wrong[v] = disk.max[v] - disk.left[v]
        /\ disk.left[v] <= disk.max[v] /\ disk.left[v] \in Nat /\ disk.max[v] \in Nat
        /\ wrong[v] \in Nat /\ torn \in Nat
    BY InvFacts DEF TokenSound, Spent
  <2>2. /\ wrong'[v] = IF v = u THEN 0 ELSE wrong[v]
        /\ b.left[v] = IF v = u THEN disk.max[v] ELSE disk.left[v]
    BY <1>1, InvFacts
  <2> QED BY <2>1, <2>2 DEF Spent
<1>4. writes \in Seq(W) /\ writes # <<>> /\ Last(writes) = b
  BY DEF Last
<1>5. /\ \A d \in W : TokenSound(d) /\ d.exists
      /\ \A d \in W, v \in Users : wrong'[v] <= Spent(d, v) + torn + 1
      /\ keys' \in 0..MaxKeys /\ Store(writes, s)
  BY <1>3, InvFacts
<1>6. /\ Mirrors(s, Last(writes))
      /\ \A v \in Users : /\ wrong'[v] <= Spent(Last(writes), v) + torn
                          /\ torn = 0 => wrong'[v] = Spent(Last(writes), v)
  BY <1>3, <1>4
<1> HIDE DEF W, writes
<1> QED BY <1>2, <1>4, <1>5, <1>6, StoreInv

\* C_SetPIN
LEMMA SetPINInv ==
  ASSUME Inv, NEW pin \in Pins, NEW newPin \in Pins, C_SetPIN(pin, newPin)
  PROVE  Inv'
<1> DEFINE u == IF sdm.who = "so" THEN "so" ELSE "user"
           blob == Seal(newPin, sdm.blob[u].key)
           stored == SetBlob(disk, u, blob)
           after == advancePinPolicy(stored, u, TRUE)
<1>1. /\ u \in Users /\ disk.exists /\ ~ pinLocked(u) /\ UNCHANGED keys
      /\ sdm \in Managers /\ sdm.blob = disk.blob /\ Mirrors(sdm, disk) /\ TokenSound(disk)
  BY InvFacts DEF C_SetPIN, Mirrors, Users
<1>2. CASE /\ Opens(pin, sdm.blob[u])
           /\ Store(Installed(disk, u, blob), [sdm EXCEPT !.blob[u] = blob])
           /\ wrong' = [wrong EXCEPT ![u] = 0]
  <2>1. sdm.blob[u] \in Blobs /\ sdm.blob[u] # NoBlob
    BY <1>1, <1>2 DEF Opens, Managers
  <2>2. blob \in Blobs /\ blob # NoBlob /\ blob.key = sdm.blob[u].key
    BY <2>1, BlobTypes
  <2>3. /\ u = "user" => disk.blob["so"] # NoBlob
        /\ u = "user" \/ disk.blob["user"] # NoBlob => blob.key = disk.blob["so"].key
    BY <1>1, <2>1, <2>2 DEF TokenSound, KeysTogether, Users
  <2> HIDE DEF u, blob
  <2>4. TokenSound(stored)
    BY <1>1, <2>2, <2>3, KeyKept
  <2>5. /\ stored.exists /\ stored.max = disk.max /\ stored.left = disk.left
        /\ stored.sealed = disk.sealed
        /\ stored.blob = [disk.blob EXCEPT ![u] = blob] /\ disk \in Tokens
    BY <1>1, <2>2, SetBlobFields DEF TokenSound
  <2>6. stored.left[u] # 0
    BY <1>1, <2>5 DEF pinLocked
  <2> HIDE DEF stored
  <2>7. /\ after \in Tokens /\ after.exists /\ after.max = disk.max /\ after.blob = stored.blob
        /\ after.sealed = stored.sealed
        /\ after.left = [disk.left EXCEPT ![u] = disk.max[u]]
    <3>1. /\ after \in Tokens /\ after.exists = stored.exists /\ after.max = stored.max
          /\ after.blob = stored.blob /\ after.sealed = stored.sealed
          /\ after.left = [stored.left EXCEPT ![u] = stored.max[u]]
      BY <1>1, <2>4, <2>6, AdvanceFields
    <3> HIDE DEF after
    <3> QED BY <2>5, <3>1
  <2>8. Store(<<stored, after>>, [sdm EXCEPT !.blob[u] = blob])
    BY <1>2 DEF Installed, stored
  <2> HIDE DEF after
  <2>9. TokenSound(after)
    <3>1. \A v \in Users : after.left[v] <= after.max[v]
      <4>1. disk.left \in [Users -> Nat] /\ disk.max \in [Users -> Nat]
        BY <1>1 DEF TokenSound, Tokens
      <4> QED BY <1>1, <2>7, <4>1 DEF TokenSound
    <3>2. after.max \in Budgets
      BY <1>1, <2>7 DEF TokenSound
    <3> QED BY <2>4, <2>5, <2>7, <3>1, <3>2, SameKeys
  <2>10. Mirrors([sdm EXCEPT !.blob[u] = blob], after)
    BY <1>1, <2>2, <2>5, <2>7, NewBlobMirrors
  <2> QED BY <1>1, <1>2, <2>4, <2>5, <2>7, <2>8, <2>9, <2>10, RefilledInv
<1>3. CASE pinResult(u, FALSE, sdm)
  BY <1>1, <1>3, PinResultInv
<1> QED BY <1>2, <1>3 DEF C_SetPIN

\* C_InitPIN
LEMMA InitPINInv ==
  ASSUME Inv, NEW newPin \in Pins, C_InitPIN(newPin) PROVE Inv'
<1> DEFINE blob   == Seal(newPin, sdm.key)
           stored == SetBlob(disk, "user", blob)
           after  == Refill(stored, "user")
<1>1. /\ disk.exists /\ UNCHANGED keys /\ "user" \in Users /\ "so" \in Users
      /\ sdm \in Managers /\ sdm.blob = disk.blob /\ Mirrors(sdm, disk) /\ TokenSound(disk)
      /\ sdm.who = "so" /\ wrong' = [wrong EXCEPT !["user"] = 0]
      /\ Store(<<stored, after>>, [sdm EXCEPT !.blob["user"] = blob])
  BY InvFacts DEF C_InitPIN, Mirrors
<1>2. disk.blob["so"] \in Blobs /\ disk.blob["so"] # NoBlob /\ sdm.key = disk.blob["so"].key
  BY <1>1 DEF Mirrors, Managers
<1>3. blob \in Blobs /\ blob # NoBlob /\ blob.key = disk.blob["so"].key
  BY <1>2, BlobTypes
<1> HIDE DEF blob
<1>4. TokenSound(stored)
  BY <1>1, <1>2, <1>3, KeyKept
<1>5. /\ stored.exists /\ stored.max = disk.max /\ stored.left = disk.left /\ stored \in Tokens
      /\ stored.sealed = disk.sealed
      /\ stored.blob = [disk.blob EXCEPT !["user"] = blob] /\ disk \in Tokens
  BY <1>1, <1>3, SetBlobFields DEF TokenSound
<1> HIDE DEF stored
<1>6. /\ after \in Tokens /\ after.exists /\ after.max = disk.max /\ after.blob = stored.blob
      /\ after.sealed = stored.sealed
      /\ after.left = [disk.left EXCEPT !["user"] = disk.max["user"]]
  <2>1. /\ after \in Tokens /\ after.exists = stored.exists /\ after.max = stored.max
        /\ after.blob = stored.blob /\ after.sealed = stored.sealed
        /\ after.left = [stored.left EXCEPT !["user"] = stored.max["user"]]
    BY <1>1, <1>5, RefillFields
  <2> HIDE DEF after
  <2> QED BY <1>5, <2>1
<1> HIDE DEF after
<1>7. TokenSound(after)
  <2>1. \A v \in Users : after.left[v] <= after.max[v]
    BY <1>1, <1>6 DEF TokenSound, Tokens
  <2>2. after.max \in Budgets
    BY <1>1, <1>6 DEF TokenSound
  <2> QED BY <1>4, <1>5, <1>6, <2>1, <2>2, SameKeys
<1>8. Mirrors([sdm EXCEPT !.blob["user"] = blob], after)
  BY <1>1, <1>3, <1>5, <1>6, NewBlobMirrors
<1> QED BY <1>1, <1>4, <1>5, <1>6, <1>7, <1>8, RefilledInv

\* C_EX_UnblockUserPIN
LEMMA UnblockInv == Inv /\ C_EX_UnblockUserPIN => Inv'
<1> SUFFICES ASSUME Inv, C_EX_UnblockUserPIN PROVE Inv'
  OBVIOUS
<1> DEFINE after == Refill(disk, "user")
           W == {after}
           writes == <<after>>
<1>1. /\ disk.exists /\ UNCHANGED keys /\ "user" \in Users /\ disk \in Tokens
      /\ Mirrors(sdm, disk) /\ TokenSound(disk)
      /\ wrong' = [wrong EXCEPT !["user"] = 0] /\ Store(writes, sdm)
  BY InvFacts DEF C_EX_UnblockUserPIN
<1>2. /\ after \in Tokens /\ after.exists /\ after.max = disk.max /\ after.blob = disk.blob
      /\ after.sealed = disk.sealed
      /\ after.left = [disk.left EXCEPT !["user"] = disk.max["user"]]
  BY <1>1, RefillFields
<1>3. writes \in Seq(W) /\ writes # <<>> /\ Last(writes) = after
  BY DEF Last
<1> HIDE DEF after, writes
<1>4. TokenSound(after)
  <2>1. \A v \in Users : after.left[v] <= after.max[v]
    BY <1>1, <1>2 DEF TokenSound, Tokens
  <2>2. after.max \in Budgets
    BY <1>1, <1>2 DEF TokenSound
  <2> QED BY <1>1, <1>2, <2>1, <2>2, SameKeys
<1>5. Mirrors(sdm, after)
  BY <1>1, <1>2 DEF Mirrors
<1>6. wrong' \in [Users -> Nat] /\ \A v \in Users : wrong'[v] <= wrong[v] + 1
  BY <1>1, InvFacts
<1>7. ASSUME NEW v \in Users
      PROVE  /\ wrong'[v] <= Spent(after, v) + torn + 1
             /\ wrong'[v] <= Spent(after, v) + torn
             /\ torn = 0 => wrong'[v] = Spent(after, v)
  <2>1. /\ wrong[v] <= disk.max[v] - disk.left[v] + torn
        /\ torn = 0 => wrong[v] = disk.max[v] - disk.left[v]
        /\ disk.left[v] <= disk.max[v] /\ disk.left[v] \in Nat /\ disk.max[v] \in Nat
        /\ wrong[v] \in Nat /\ torn \in Nat
    BY <1>1, InvFacts DEF TokenSound, Spent
  <2>2. /\ wrong'[v] = IF v = "user" THEN 0 ELSE wrong[v]
        /\ after.left[v] = IF v = "user" THEN disk.max[v] ELSE disk.left[v]
    BY <1>1, <1>2, InvFacts DEF Tokens
  <2> QED BY <1>2, <2>1, <2>2 DEF Spent
<1>8. /\ \A d \in W : TokenSound(d) /\ d.exists
      /\ \A d \in W, v \in Users : wrong'[v] <= Spent(d, v) + torn + 1
      /\ keys' \in 0..MaxKeys
  BY <1>1, <1>2, <1>4, <1>7, InvFacts
<1>9. /\ Mirrors(sdm, Last(writes))
      /\ \A v \in Users : /\ wrong'[v] <= Spent(Last(writes), v) + torn
                          /\ torn = 0 => wrong'[v] = Spent(Last(writes), v)
  BY <1>3, <1>5, <1>7
<1> HIDE DEF W
<1> QED BY <1>1, <1>3, <1>6, <1>8, <1>9, StoreInv

\* The user seals an object with the master key.
LEMMA CreatePrivateObjectInv == Inv /\ CreatePrivateObject => Inv'
<1> SUFFICES ASSUME Inv, CreatePrivateObject PROVE Inv'
  OBVIOUS
<1> DEFINE new == [disk EXCEPT !.sealed = @ \union {sdm.key}]
<1>1. /\ TokenSound(disk) /\ Mirrors(sdm, disk) /\ disk.exists /\ disk \in Tokens
      /\ sdm.who = "user" /\ disk' = new /\ UNCHANGED <<sdm, session, keys, torn, wrong>>
  BY InvFacts DEF CreatePrivateObject
<1>2. /\ disk.blob["user"] # NoBlob /\ sdm.key = disk.blob["user"].key
      /\ disk.blob["user"] \in Blobs
  BY <1>1 DEF Mirrors, Tokens, Users
<1>3. sdm.key \in 1..MaxKeys
  BY <1>2, BlobTypes
<1>4. /\ new \in Tokens /\ new.sealed = disk.sealed \union {sdm.key}
      /\ new.exists = disk.exists /\ new.blob = disk.blob
      /\ new.max = disk.max /\ new.left = disk.left
  BY <1>1, <1>3 DEF Tokens
<1> HIDE DEF new
<1>5. TokenSound(disk)'
  BY <1>1, <1>2, <1>4 DEF TokenSound, KeysTogether
<1>6. Mirrors(sdm, disk)' /\ AttemptsCounted'
  BY <1>1, <1>4, InvParts DEF Mirrors, AttemptsCounted
<1> QED BY <1>1, <1>4, <1>5, <1>6, InvParts
        DEF Inv, TypeOK, TokenSound, Mirrors, ManagerMirrors

\* An initialisation whose every write leaves a sound token, the last one with full
\* counters.
LEMMA FormatInv ==
  ASSUME Inv, NEW W, NEW writes \in Seq(W), writes # <<>>, Format(writes),
         \A d \in W : TokenSound(d) /\ d.exists,
         \A u \in Users : Last(writes).left[u] = Last(writes).max[u], keys' \in 0..MaxKeys
  PROVE  Inv'
<1>1. Store(writes, Load(Last(writes))) /\ wrong' = [u \in Users |-> 0]
  BY DEF Format
<1>2. Last(writes) \in W
  BY DEF Last
<1>3. Mirrors(Load(Last(writes)), Last(writes))
  BY <1>2, LoadMirrors
<1>4. \A d \in W, u \in Users : Spent(d, u) \in Nat
  BY DEF TokenSound, Tokens, Spent
<1>5. \A u \in Users : Spent(Last(writes), u) = 0
  BY <1>2 DEF TokenSound, Tokens, Spent
<1>6. /\ wrong' \in [Users -> Nat] /\ torn \in Nat
      /\ \A u \in Users : wrong'[u] = 0 /\ wrong'[u] <= wrong[u] + 1
  BY <1>1, InvFacts
<1>7. \A d \in W, u \in Users : wrong'[u] <= Spent(d, u) + torn + 1
  BY <1>4, <1>6
<1>8. \A u \in Users : /\ wrong'[u] <= Spent(Last(writes), u) + torn
                       /\ torn = 0 => wrong'[u] = Spent(Last(writes), u)
  BY <1>5, <1>6
<1> QED BY <1>1, <1>3, <1>6, <1>7, <1>8, StoreInv

\* A token that was emptied first loses its user PIN next.
LEMMA ResetSound ==
  ASSUME NEW d, TokenSound(d), d.exists
  PROVE  \E e, n : /\ resetToken(d) = <<e, n>>
                   /\ TokenSound(e) /\ TokenSound(n) /\ e.exists /\ n.exists
                   /\ n.sealed = {} /\ n.blob["user"] = NoBlob /\ n.blob["so"] = d.blob["so"]
                   /\ e.sealed = {} /\ e.left = d.left /\ n.left = d.left
<1> DEFINE e == [d EXCEPT !.sealed = {}]
           n == SetBlob(e, "user", NoBlob)
<1>1. d \in Tokens /\ "user" \in Users /\ "so" \in Users /\ "so" # "user"
  BY DEF TokenSound, Users
<1>2. /\ e \in Tokens /\ e.sealed = {} /\ e.exists = d.exists /\ e.blob = d.blob
      /\ e.max = d.max /\ e.left = d.left
  BY <1>1 DEF Tokens
<1>3. resetToken(d) = <<e, n>>
  BY DEF resetToken
<1> HIDE DEF e
<1>4. /\ n \in Tokens /\ n.sealed = e.sealed /\ n.exists = e.exists
      /\ n.blob = [e.blob EXCEPT !["user"] = NoBlob] /\ n.max = e.max /\ n.left = e.left
  <2>1. NoBlob \in Blobs
    BY BlobTypes
  <2>2. e \in Tokens
    BY <1>2
  <2> QED BY <1>1, <2>1, <2>2, SetBlobFields
<1> HIDE DEF n
<1>5. n.blob["user"] = NoBlob /\ n.blob["so"] = d.blob["so"]
  BY <1>1, <1>2, <1>4 DEF Tokens
<1>6. TokenSound(e)
  BY <1>2 DEF TokenSound, KeysTogether
<1>7. TokenSound(n)
  BY <1>2, <1>4, <1>5 DEF TokenSound, KeysTogether
<1> QED BY <1>2, <1>3, <1>4, <1>5, <1>6, <1>7

\* A new policy fills the counters.
LEMMA PolicySound ==
  ASSUME NEW d, TokenSound(d), d.exists, NEW budget \in Budgets, NEW change \in SUBSET Users
  PROVE  LET e == SetPolicy(d, budget, change)
         IN  /\ TokenSound(e) /\ e.exists /\ e.sealed = d.sealed
             /\ \A u \in Users : e.left[u] = e.max[u]
<1>1. budget \in [Users -> Nat] /\ d \in Tokens
  BY ConstantsOK DEF TokenSound
<1> DEFINE e == SetPolicy(d, budget, change)
<1>2. /\ e \in Tokens /\ e.left = budget /\ e.max = budget
      /\ e.exists = d.exists /\ e.blob = d.blob /\ e.sealed = d.sealed
  BY <1>1, PolicyFields
<1> HIDE DEF e
<1>3. TokenSound(e)
  <2>1. \A u \in Users : e.left[u] <= e.max[u]
    BY <1>1, <1>2
  <2> QED BY <1>2, <2>1, SameKeys
<1> QED BY <1>2, <1>3 DEF e

\* The token that Token::createToken makes.
LEMMA NewTokenSound ==
  ASSUME Inv, ~ disk.exists
  PROVE  /\ TokenSound(NewToken) /\ NewToken.exists /\ NewToken.sealed = {}
         /\ NewToken.blob["user"] = NoBlob
<1>1. disk = NoToken /\ disk \in Tokens
  BY InvFacts DEF TokenSound
<1>2. Default \in [Users -> Nat] /\ Default \in Budgets
  BY ConstantsOK
<1>3. /\ NewToken \in Tokens /\ NewToken.exists /\ NewToken.max = Default
      /\ NewToken.left = Default /\ NewToken.blob = disk.blob /\ NewToken.sealed = disk.sealed
  BY <1>1, <1>2 DEF NewToken, Tokens
<1>4. /\ disk.sealed = {} /\ disk.blob["user"] = NoBlob /\ disk.blob["so"] = NoBlob
      /\ "user" \in Users /\ "so" \in Users
  BY <1>1 DEF NoToken, Users
<1> QED BY <1>2, <1>3, <1>4 DEF TokenSound, KeysTogether

\* A first PIN of a token without a user PIN and without objects: any key will do.
LEMMA FirstPin ==
  ASSUME NEW d, TokenSound(d), d.exists, d.sealed = {}, d.blob["user"] = NoBlob,
         NEW pin \in Pins, NEW k \in 1..MaxKeys
  PROVE  LET e == SetBlob(d, "so", Seal(pin, k))
         IN  /\ TokenSound(e) /\ e.exists /\ e.sealed = {}
             /\ e.blob["so"] = Seal(pin, k) /\ e.blob["user"] = NoBlob
             /\ e.left = d.left
<1>1. /\ d \in Tokens /\ "so" \in Users /\ "user" \in Users /\ "so" # "user"
      /\ Seal(pin, k) \in Blobs /\ Seal(pin, k) # NoBlob
  BY BlobTypes DEF TokenSound, Users
<1> DEFINE e == SetBlob(d, "so", Seal(pin, k))
<1>2. /\ e.exists = d.exists /\ e.sealed = d.sealed /\ e.left = d.left
      /\ e.blob = [d.blob EXCEPT !["so"] = Seal(pin, k)]
  BY <1>1, SetBlobFields
<1>3. TokenSound(e)
  BY <1>1, KeyKept
<1> HIDE DEF e
<1> QED BY <1>1, <1>2, <1>3 DEF Tokens, e

\* C_InitToken of the spare slot.
LEMMA InitTokenNewInv ==
  ASSUME Inv, NEW pin \in Pins, NEW budget \in Budgets, C_InitToken_New(pin, budget)
  PROVE  Inv'
<1> DEFINE new    == NewToken
           stored == SetBlob(NewToken, "so", Seal(pin, keys + 1))
           last   == SetPolicy(stored, budget, Users)
           W      == {new, stored, last}
           writes == <<new, stored, last>>
<1>1. /\ ~ disk.exists /\ keys' \in 0..MaxKeys /\ keys + 1 \in 1..MaxKeys
      /\ Format(writes)
  BY InvFacts, ConstantsOK DEF C_InitToken_New
<1>2. /\ TokenSound(new) /\ new.exists /\ new.sealed = {} /\ new.blob["user"] = NoBlob
  BY <1>1, NewTokenSound
<1>3. TokenSound(stored) /\ stored.exists
  BY <1>1, <1>2, FirstPin
<1>4. TokenSound(last) /\ last.exists /\ \A u \in Users : last.left[u] = last.max[u]
  BY <1>3, PolicySound
<1>5. writes \in Seq(W) /\ writes # <<>> /\ Last(writes) = last
  BY DEF Last
<1> HIDE DEF new, stored, last, writes
<1>6. \A d \in W : TokenSound(d) /\ d.exists
  BY <1>2, <1>3, <1>4
<1> HIDE DEF W
<1> QED BY <1>1, <1>4, <1>5, <1>6, FormatInv

\* C_InitToken of a token that exists.
LEMMA InitTokenExistingInv ==
  ASSUME Inv, NEW pin \in Pins, NEW budget \in Budgets, C_InitToken_Existing(pin, budget)
  PROVE  Inv'
<1>1. /\ disk.exists /\ ~ pinLocked("so") /\ keys' \in 0..MaxKeys /\ UNCHANGED keys
      /\ "so" \in Users /\ TokenSound(disk) /\ Mirrors(sdm, disk)
  BY InvFacts DEF C_InitToken_Existing
<1>2. CASE Format(resetToken(disk) \o <<SetPolicy(Last(resetToken(disk)), budget, Users)>>)
  <2>1. PICK e, n : /\ resetToken(disk) = <<e, n>>
                    /\ TokenSound(e) /\ TokenSound(n) /\ e.exists /\ n.exists
    BY <1>1, ResetSound
  <2> DEFINE last   == SetPolicy(n, budget, Users)
             W      == {e, n, last}
             writes == <<e, n>> \o <<last>>
  <2>2. Last(<<e, n>>) = n
    BY DEF Last
  <2>3. Format(writes)
    BY <1>2, <2>1, <2>2
  <2>4. TokenSound(last) /\ last.exists /\ \A u \in Users : last.left[u] = last.max[u]
    BY <2>1, PolicySound
  <2>5. writes \in Seq(W) /\ writes # <<>> /\ Last(writes) = last
    BY DEF Last
  <2> HIDE DEF last, writes
  <2>6. \A d \in W : TokenSound(d) /\ d.exists
    BY <2>1, <2>4
  <2> HIDE DEF W
  <2> QED BY <1>1, <2>3, <2>4, <2>5, <2>6, FormatInv
<1>3. CASE pinResult("so", FALSE, LoggedOut(sdm))
  BY <1>1, <1>3, LoggedOutMirrors, PinResultInv
<1> QED BY <1>2, <1>3 DEF C_InitToken_Existing

\* C_EX_InitToken
LEMMA InitTokenExtendedInv ==
  ASSUME Inv, NEW repair \in BOOLEAN, NEW pin \in Pins, NEW so \in Pins, NEW user \in Pins,
         NEW budget \in Budgets, NEW change \in SUBSET Users,
         C_EX_InitToken(repair, pin, so, user, budget, change)
  PROVE  Inv'
<1>1. /\ keys' \in 0..MaxKeys /\ keys + 1 \in 1..MaxKeys /\ TokenSound(disk)
      /\ "so" \in Users /\ "user" \in Users /\ "so" # "user"
  BY InvFacts, ConstantsOK DEF C_EX_InitToken, FormatFresh, Users
<1>2. ASSUME NEW P, NEW prefix \in Seq(P), prefix # <<>>, \A d \in P : TokenSound(d) /\ d.exists,
             Last(prefix).sealed = {}, Last(prefix).blob["user"] = NoBlob,
             Format(prefix \o Fresh(Last(prefix), so, user, budget, change))
      PROVE  Inv'
  <2> DEFINE b == Last(prefix)
             s == SetBlob(b, "so", Seal(so, keys + 1))
             u == SetBlob(s, "user", Seal(user, keys + 1))
             p == SetPolicy(u, budget, change)
             W == P \union {s, u, p}
             fresh == <<s, u, p>>
             writes == prefix \o fresh
  <2>1. b \in P
    BY <1>2 DEF Last
  <2>2. /\ TokenSound(s) /\ s.exists /\ s.blob["so"] = Seal(so, keys + 1)
    BY <1>1, <1>2, <2>1, FirstPin
  <2>3. TokenSound(u) /\ u.exists
    <3>1. /\ Seal(user, keys + 1) \in Blobs /\ Seal(user, keys + 1) # NoBlob
          /\ Seal(so, keys + 1) # NoBlob
          /\ Seal(user, keys + 1).key = Seal(so, keys + 1).key
      BY <1>1, BlobTypes
    <3>2. s \in Tokens
      BY <2>2 DEF TokenSound
    <3> HIDE DEF s
    <3> QED BY <1>1, <2>2, <3>1, <3>2, KeyKept, SetBlobFields
  <2>4. TokenSound(p) /\ p.exists /\ \A v \in Users : p.left[v] = p.max[v]
    <3> HIDE DEF u
    <3> QED BY <2>3, PolicySound
  <2>5. Format(writes)
    BY <1>2 DEF Fresh
  <2> HIDE DEF s, u, p
  <2>6. writes \in Seq(W) /\ writes # <<>> /\ Last(writes) = p
    <3>1. prefix \in Seq(W) /\ fresh \in Seq(W) /\ Len(fresh) = 3 /\ fresh[3] = p
      BY <1>2
    <3> HIDE DEF fresh, W
    <3>2. /\ writes \in Seq(W) /\ Len(writes) = Len(prefix) + 3
          /\ writes[Len(prefix) + 3] = fresh[3]
      BY <3>1, ConcatThree
    <3>3. Len(prefix) \in Nat
      BY <1>2
    <3> HIDE DEF writes
    <3> QED BY <3>1, <3>2, <3>3 DEF Last
  <2> HIDE DEF writes
  <2>7. \A d \in W : TokenSound(d) /\ d.exists
    BY <1>2, <2>2, <2>3, <2>4
  <2> HIDE DEF W
  <2> QED BY <1>1, <2>4, <2>5, <2>6, <2>7, FormatInv
<1>3. CASE disk.exists
  <2>1. PICK e, n : /\ resetToken(disk) = <<e, n>>
                    /\ TokenSound(e) /\ TokenSound(n) /\ e.exists /\ n.exists
                    /\ n.sealed = {} /\ n.blob["user"] = NoBlob
    BY <1>1, <1>3, ResetSound
  <2>2. /\ resetToken(disk) \in Seq({e, n}) /\ resetToken(disk) # <<>>
        /\ Last(resetToken(disk)) = n
    BY <2>1 DEF Last
  <2>3. Format(resetToken(disk) \o Fresh(Last(resetToken(disk)), so, user, budget, change))
    BY <1>3 DEF C_EX_InitToken, FormatFresh
  <2>4. \A d \in {e, n} : TokenSound(d) /\ d.exists
    BY <2>1
  <2> QED BY <1>2, <2>1, <2>2, <2>3, <2>4
<1>4. CASE ~ disk.exists
  <2> DEFINE prefix == <<NewToken>>
  <2>1. prefix \in Seq({NewToken}) /\ prefix # <<>> /\ Last(prefix) = NewToken
    BY DEF Last
  <2>2. Format(prefix \o Fresh(Last(prefix), so, user, budget, change))
    BY <1>4 DEF C_EX_InitToken, FormatFresh
  <2> HIDE DEF prefix
  <2>3. /\ \A d \in {NewToken} : TokenSound(d) /\ d.exists
        /\ NewToken.sealed = {} /\ NewToken.blob["user"] = NoBlob
    BY <1>4, NewTokenSound
  <2> QED BY <1>2, <2>1, <2>2, <2>3
<1> QED BY <1>3, <1>4

\* C_EX_InitToken with a wrong SO PIN.
LEMMA InitTokenWrongInv ==
  ASSUME Inv, NEW pin \in Pins, C_EX_InitToken_Wrong(pin) PROVE Inv'
BY InvFacts, PinResultInv DEF C_EX_InitToken_Wrong

\* One operation of the application.
LEMMA NextInv == Inv /\ [Next]_vars => Inv'
<1> SUFFICES ASSUME Inv, [Next]_vars PROVE Inv'
  OBVIOUS
<1>1. CASE UNCHANGED vars
  BY <1>1 DEF vars, Inv, TypeOK, KeysTogether, ManagerMirrors, AttemptsCounted
<1> QED
  BY <1>1, SessionsInv, LoginInv, SetPINInv, InitPINInv, UnblockInv, CreatePrivateObjectInv,
     InitTokenNewInv, InitTokenExistingInv, InitTokenExtendedInv, InitTokenWrongInv DEF Next

\* The invariant holds in every reachable state, for all constants.
THEOREM InvariantHolds == Spec => []Inv
BY InitInv, NextInv, PTL DEF Spec

\* The token, its manager and its counters have their types, and no counter exceeds its
\* policy.
THEOREM TypeCorrect == Spec => []TypeOK
<1>1. Inv => TypeOK
  BY DEF Inv
<1> QED BY <1>1, InvariantHolds, PTL

\* Whatever PIN changes, resets, initialisations and crashes there were, both PINs open
\* one master key, which is the key of all private objects and of whoever is logged in.
THEOREM MasterKeyKept == Spec => []OneMasterKey
<1>1. Inv => OneMasterKey
  BY DEF Inv, TypeOK, KeysTogether, ManagerMirrors, OneMasterKey, Managers, Users
<1> QED BY <1>1, InvariantHolds, PTL

\* Every wrong PIN is counted, and a crash gives back at most one try.
THEOREM TriesCounted == Spec => []AttemptsCounted
<1>1. Inv => AttemptsCounted
  BY DEF Inv
<1> QED BY <1>1, InvariantHolds, PTL

\* What a sequence of writes may do to a locked user PIN: open it only if one of them
\* does.
LEMMA StoreLocked ==
  ASSUME NEW W, NEW writes \in Seq(W), writes # <<>>, NEW s, Store(writes, s),
         disk.left["user"] = 0, disk'.left["user"] > 0
  PROVE  disk' \in W /\ disk'.left["user"] > 0
BY StoreShape

\* A locked user PIN opens only at the hands of the SO, or when nobody has a session and
\* the private objects are gone.
THEOREM UnlockedBySO == Spec => LockedUserNeedsSO
<1> DEFINE A == disk.exists /\ disk.left["user"] = 0 /\ disk'.left["user"] > 0 =>
                  \/ sdm.who = "so"
                  \/ session = "none" /\ disk'.sealed = {}
<1>1. ASSUME Inv, Next, disk.exists, disk.left["user"] = 0, disk'.left["user"] > 0,
             sdm.who # "so"
      PROVE  session = "none" /\ disk'.sealed = {}
  <2> USE <1>1
  <2>1. /\ TokenSound(disk) /\ disk \in Tokens /\ "so" \in Users /\ "user" \in Users
        /\ "so" # "user" /\ disk' # disk
    BY InvFacts DEF Users
  <2>2. ASSUME NEW u \in Users, NEW success \in BOOLEAN, NEW s, pinResult(u, success, s),
               ~ pinLocked(u)
        PROVE  FALSE
    <3> DEFINE after == advancePinPolicy(disk, u, success)
               W == {after}
               writes == <<after>>
    <3>1. u = "so"
      BY <2>1, <2>2 DEF pinLocked, Users
    <3>2. after.left["user"] = disk.left["user"]
      <4>1. after.left = [disk.left EXCEPT ![u] = IF success THEN disk.max[u] ELSE disk.left[u] - 1]
        BY <2>1, <2>2, AdvanceFields DEF pinLocked
      <4>2. disk.left \in [Users -> Nat]
        BY <2>1 DEF Tokens
      <4> HIDE DEF after
      <4> QED BY <2>1, <3>1, <4>1, <4>2
    <3>3. \E r : Store(writes, r)
      BY <2>2 DEF pinResult
    <3>4. writes \in Seq(W) /\ writes # <<>> /\ \A d \in W : d = after
      OBVIOUS
    <3> HIDE DEF after, writes, W
    <3>5. disk' = after
      BY <3>3, <3>4, StoreLocked
    <3> QED BY <3>2, <3>5
  <2>3. ASSUME NEW P, NEW prefix \in Seq(P), prefix # <<>>, NEW W, NEW rest \in Seq(W),
               NEW s, Store(prefix \o rest, s),
               \A d \in P : d.left["user"] = 0, \A d \in W : d.sealed = {}
        PROVE  disk'.sealed = {}
    <3> DEFINE writes == prefix \o rest
    <3>1. writes \in Seq(P \union W) /\ writes # <<>>
      <4>1. prefix \in Seq(P \union W) /\ rest \in Seq(P \union W)
        BY <2>3
      <4>2. Len(writes) # 0
        BY <2>3
      <4> QED BY <4>1, <4>2
    <3> HIDE DEF writes
    <3>2. disk' \in P \union W
      BY <2>3, <3>1, StoreLocked DEF writes
    <3> QED BY <2>3, <3>2
  <2>4. PICK e, n : /\ resetToken(disk) = <<e, n>>
                    /\ TokenSound(e) /\ TokenSound(n) /\ e.exists /\ n.exists
                    /\ n.sealed = {} /\ n.blob["user"] = NoBlob
                    /\ e.sealed = {} /\ e.left = disk.left /\ n.left = disk.left
    BY <2>1, ResetSound
  <2>5. /\ resetToken(disk) \in Seq({e, n}) /\ resetToken(disk) # <<>>
        /\ Last(resetToken(disk)) = n
        /\ \A d \in {e, n} : d.left["user"] = 0
    BY <2>4 DEF Last
  <2>6. CASE \E pin \in Pins, budget \in Budgets : C_InitToken_Existing(pin, budget)
    <3>1. PICK pin \in Pins, budget \in Budgets : C_InitToken_Existing(pin, budget)
      BY <2>6
    <3> DEFINE last == SetPolicy(n, budget, Users)
               rest == <<last>>
    <3>2. session = "none" /\ ~ pinLocked("so")
      BY <3>1 DEF C_InitToken_Existing
    <3>3. CASE Format(resetToken(disk) \o rest)
      <4>1. last.sealed = {}
        BY <2>4, PolicySound
      <4>2. rest \in Seq({last}) /\ \A d \in {last} : d.sealed = {}
        BY <4>1
      <4> HIDE DEF last, rest
      <4> QED BY <2>3, <2>5, <3>2, <3>3, <4>2 DEF Format
    <3> QED BY <2>1, <2>2, <2>5, <3>1, <3>2, <3>3 DEF C_InitToken_Existing
  <2>7. CASE \E repair \in BOOLEAN, pin, so, user \in Pins, budget \in Budgets,
               change \in SUBSET Users \ {{}} :
               C_EX_InitToken(repair, pin, so, user, budget, change)
    <3>1. PICK repair \in BOOLEAN, pin \in Pins, so \in Pins, user \in Pins,
               budget \in Budgets, change \in SUBSET Users :
               C_EX_InitToken(repair, pin, so, user, budget, change)
      BY <2>7
    <3> DEFINE s == SetBlob(n, "so", Seal(so, keys + 1))
               u == SetBlob(s, "user", Seal(user, keys + 1))
               p == SetPolicy(u, budget, change)
               rest == <<s, u, p>>
    <3>2. session = "none" /\ Format(resetToken(disk) \o rest) /\ keys + 1 \in 1..MaxKeys
      BY <2>5, <3>1, InvFacts, ConstantsOK DEF C_EX_InitToken, FormatFresh, Fresh
    <3>3. s \in Tokens /\ s.sealed = {}
      <4>1. n \in Tokens /\ Seal(so, keys + 1) \in Blobs
        BY <2>4, <3>2, BlobTypes DEF TokenSound
      <4> QED BY <2>1, <2>4, <4>1, SetBlobFields
    <3> HIDE DEF s
    <3>4. u \in Tokens /\ u.sealed = {}
      <4>1. Seal(user, keys + 1) \in Blobs
        BY <3>2, BlobTypes
      <4> QED BY <2>1, <3>3, <4>1, SetBlobFields
    <3> HIDE DEF u
    <3>5. p.sealed = {}
      BY <3>4, PolicyFields
    <3> HIDE DEF p
    <3>6. rest \in Seq({s, u, p}) /\ \A d \in {s, u, p} : d.sealed = {}
      BY <3>3, <3>4, <3>5
    <3> HIDE DEF rest
    <3> QED BY <2>3, <2>5, <3>2, <3>6 DEF Format
  <2>8. CASE \/ \E kind \in {"RO", "RW"} : C_OpenSession(kind)
             \/ C_CloseSession \/ C_Logout \/ Restart
    BY <2>1, <2>8 DEF C_OpenSession, C_CloseSession, C_Logout, Restart
  <2>9. CASE \E u \in Users, pin \in Pins : C_Login(u, pin)
    BY <2>2, <2>9 DEF C_Login
  <2>10. CASE \E pin \in Pins : reAuthenticate(pin) \/ C_InitPIN(pin) \/ C_EX_InitToken_Wrong(pin)
    <3>1. PICK pin \in Pins : reAuthenticate(pin) \/ C_InitPIN(pin) \/ C_EX_InitToken_Wrong(pin)
      BY <2>10
    <3>2. CASE reAuthenticate(pin)
      <4>1. /\ sdm.who \in Users /\ Opens(pin, sdm.blob[sdm.who]) \in BOOLEAN
            /\ pinResult(sdm.who, Opens(pin, sdm.blob[sdm.who]), sdm) /\ ~ pinLocked(sdm.who)
        BY <3>2, InvFacts DEF reAuthenticate, Mirrors, Managers, Opens
      <4> QED BY <2>2, <4>1
    <3> QED BY <2>1, <2>2, <3>1, <3>2 DEF C_InitPIN, C_EX_InitToken_Wrong
  <2>11. CASE \E pin, newPin \in Pins : C_SetPIN(pin, newPin)
    <3>1. PICK pin \in Pins, newPin \in Pins : C_SetPIN(pin, newPin)
      BY <2>11
    <3> QED BY <3>1 DEF C_SetPIN, pinLocked
  <2>12. CASE C_EX_UnblockUserPIN \/ CreatePrivateObject
    <3>1. CASE CreatePrivateObject
      BY <2>1, <3>1 DEF CreatePrivateObject, Tokens
    <3> QED BY <2>12, <3>1 DEF C_EX_UnblockUserPIN
  <2>13. CASE \E pin \in Pins, budget \in Budgets : C_InitToken_New(pin, budget)
    BY <2>13 DEF C_InitToken_New
  <2> QED BY <2>6, <2>7, <2>8, <2>9, <2>10, <2>11, <2>12, <2>13 DEF Next
<1>2. Inv /\ [Next]_vars => [A]_vars
  BY <1>1
<1> QED BY <1>2, InvariantHolds, PTL DEF Spec, LockedUserNeedsSO
=============================================================================
