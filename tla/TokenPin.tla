------------------------------ MODULE TokenPin ------------------------------
(***************************************************************************)
(* src/lib/slot_mgr/Token.cpp, data_mgr/SecureDataManager.cpp and the PIN  *)
(* attributes of object_store/OSToken.cpp, driven by the PIN functions of  *)
(* SoftHSM.cpp: one token, one process, one session.                       *)
(*                                                                         *)
(* tokenMutex makes each Token operation atomic for the other threads, but *)
(* it stores its results one attribute at a time, and the process may stop *)
(* between two of them.  So an operation is described by the sequence of   *)
(* states that its writes give the token on disk; either all of it happens *)
(* or the process crashes after a proper prefix and starts again.  A write *)
(* of one attribute, and the creation of an empty token, are atomic here.  *)
(* The flags CKF_*_PIN_COUNT_LOW, FINAL_TRY and LOCKED are stored as well, *)
(* but nothing depends on them: Token::getTokenInfo masks them out and     *)
(* derives the ones it reports from the counters.  They are left out.      *)
(*                                                                         *)
(* The master key of a token is sealed under a PIN in a blob: it opens     *)
(* with that PIN and no other.                                             *)
(***************************************************************************)
EXTENDS Naturals, Sequences, SequencesExt

CONSTANTS
  Pins,
  Budgets,     \* PIN policies: the retries of "so" and of "user"
  Default,     \* the policy of a token that has no policy attribute
  Profile,     \* fakeRutokenECP
  MaxKeys,     \* bound on the master keys ever generated
  MaxCrashes   \* bound on the crashes in the middle of an operation

Users == {"so", "user"}

ASSUME ConstantsOK ==
  /\ Budgets \subseteq [Users -> 3..15]
  /\ Default \in Budgets
  /\ Profile \in BOOLEAN
  /\ MaxKeys \in Nat /\ MaxCrashes \in Nat

VARIABLES
  disk,     \* the token object, and the keys its private objects are sealed with
  sdm,      \* Token::sdm
  session,  \* the application's session: none, RO or RW
  keys,     \* master keys generated so far
  torn,     \* operations that a crash has cut short
  wrong     \* wrong PINs tried since the PIN was last given right or reset

vars == <<disk, sdm, session, keys, torn, wrong>>

NoBlob  == [pin |-> "none", key |-> 0]
Seal(p, k) == [pin |-> p, key |-> k]
Opens(pin, blob) == blob # NoBlob /\ blob.pin = pin

NoToken ==
  [exists |-> FALSE, blob |-> [u \in Users |-> NoBlob],
   max |-> [u \in Users |-> 0], left |-> [u \in Users |-> 0],
   change |-> {}, sealed |-> {}]

\* SecureDataManager(soPINBlob, userPINBlob), as Token's constructor and the
\* initialisations build it: the user's blob is read only if the SO's exists.
Load(d) ==
  [blob |-> IF d.blob["so"] = NoBlob THEN [u \in Users |-> NoBlob] ELSE d.blob,
   who |-> "none", key |-> 0]

LoggedOut(s)     == [s EXCEPT !.who = "none", !.key = 0]
LoggedIn(s, u)   == [s EXCEPT !.who = u, !.key = s.blob[u].key]

Init ==
  /\ disk = NoToken
  /\ sdm = Load(NoToken)
  /\ session = "none"
  /\ keys = 0
  /\ torn = 0
  /\ wrong = [u \in Users |-> 0]
-----------------------------------------------------------------------------
(* Writes to the token object *)

\* OSToken::createToken: no PIN and no policy attribute.
NewToken ==
  [disk EXCEPT !.exists = TRUE, !.max = Default, !.left = Default, !.change = Users]

\* OSToken::setSOPIN and setUserPIN
SetBlob(d, u, b) == [d EXCEPT !.blob[u] = b]
Refill(d, u)     == [d EXCEPT !.left[u] = d.max[u]]

\* setPinPolicy with new parameters
SetPolicy(d, budget, change) ==
  [d EXCEPT !.max = budget, !.left = budget, !.change = change]

advancePinPolicy(d, u, success) ==
  IF d.left[u] = 0 THEN d
  ELSE [d EXCEPT !.left[u] = IF success THEN d.max[u] ELSE @ - 1]

\* Mutant: the user PIN goes before the objects it protects.
resetToken_PinFirst(d) ==
  LET noPin == SetBlob(d, "user", NoBlob) IN <<noPin, [noPin EXCEPT !.sealed = {}]>>

\* OSToken::resetToken: the objects, then the user PIN.
resetToken(d) ==
  LET emptied == [d EXCEPT !.sealed = {}] IN <<emptied, SetBlob(emptied, "user", NoBlob)>>

\* All the writes happen and the manager becomes s, or the process crashes
\* before the last one and starts again with what is on disk.
Store(writes, s) ==
  \/ /\ disk' = Last(writes) /\ sdm' = s
     /\ UNCHANGED <<session, torn>>
  \/ /\ torn < MaxCrashes
     /\ \E k \in 0..Len(writes) - 1 : disk' = (<<disk>> \o writes)[k + 1]
     /\ torn' = torn + 1
     /\ sdm' = Load(disk') /\ session' = "none"

\* Token::pinResult, with s the manager after the PIN was tried.
pinResult(u, success, s) ==
  LET after == advancePinPolicy(disk, u, success)
  IN  /\ Store(<<after>>, IF after.left[u] = 0 THEN LoggedOut(s) ELSE s)
      /\ wrong' = [wrong EXCEPT ![u] = IF success THEN 0 ELSE @ + 1]

pinLocked(u) == disk.left[u] = 0
-----------------------------------------------------------------------------
(* Sessions *)

C_OpenSession(kind) ==
  /\ disk.exists /\ session = "none"
  /\ session' = kind
  /\ UNCHANGED <<disk, sdm, keys, torn, wrong>>

\* The last session of the slot: the token is logged out.
C_CloseSession ==
  /\ session # "none"
  /\ session' = "none"
  /\ sdm' = LoggedOut(sdm)
  /\ UNCHANGED <<disk, keys, torn, wrong>>

C_Logout ==
  /\ session # "none" /\ sdm.who # "none"
  /\ sdm' = LoggedOut(sdm)
  /\ UNCHANGED <<disk, session, keys, torn, wrong>>

\* C_Finalize and C_Initialize, or a crash between two operations.
Restart ==
  /\ session' = "none"
  /\ sdm' = Load(disk)
  /\ UNCHANGED <<disk, keys, torn, wrong>>
-----------------------------------------------------------------------------
(* Presenting a PIN *)

\* Token::loginSO and loginUser: SecureDataManager::login logs out first.
C_Login(u, pin) ==
  /\ u = "so" => session # "RO"
  /\ session # "none" /\ sdm.who = "none"
  /\ u = "user" => sdm.blob["user"] # NoBlob
  /\ ~ pinLocked(u)
  /\ IF Opens(pin, sdm.blob[u]) THEN pinResult(u, TRUE, LoggedIn(sdm, u))
                                ELSE pinResult(u, FALSE, LoggedOut(sdm))
  /\ UNCHANGED keys

\* Mutant: a wrong PIN costs nothing when the user is already logged in.
reAuthenticate_Free(pin) ==
  /\ session # "none" /\ sdm.who # "none"
  /\ ~ pinLocked(sdm.who)
  /\ IF Opens(pin, sdm.blob[sdm.who]) THEN pinResult(sdm.who, TRUE, sdm)
     ELSE wrong' = [wrong EXCEPT ![sdm.who] = @ + 1] /\ UNCHANGED <<disk, sdm, session, torn>>
  /\ UNCHANGED keys

\* C_Login with CKU_CONTEXT_SPECIFIC, when an operation asks for it.
reAuthenticate(pin) ==
  /\ session # "none" /\ sdm.who # "none"
  /\ ~ pinLocked(sdm.who)
  /\ pinResult(sdm.who, Opens(pin, sdm.blob[sdm.who]), sdm)
  /\ UNCHANGED keys

\* The new PIN, then the counter.
Installed(d, u, b) ==
  LET stored == SetBlob(d, u, b) IN <<stored, advancePinPolicy(stored, u, TRUE)>>

\* C_SetPIN in a R/W session: setSOPIN if the SO is logged in, or else
\* setUserPIN, which needs nobody to be logged in, only the old PIN.
C_SetPIN(pin, newPin) ==
  LET u    == IF sdm.who = "so" THEN "so" ELSE "user"
      blob == Seal(newPin, sdm.blob[u].key)
  IN  /\ session = "RW"
      /\ Profile /\ u = "user" => "user" \in disk.change
      /\ ~ pinLocked(u)
      /\ IF Opens(pin, sdm.blob[u])
           THEN /\ Store(Installed(disk, u, blob), [sdm EXCEPT !.blob[u] = blob])
                /\ wrong' = [wrong EXCEPT ![u] = 0]
           ELSE pinResult(u, FALSE, sdm)
      /\ UNCHANGED keys
-----------------------------------------------------------------------------
(* What the SO may do for the user *)

C_InitPIN(newPin) ==
  LET blob   == Seal(newPin, sdm.key)
      stored == SetBlob(disk, "user", blob)
  IN  /\ session # "none" /\ sdm.who = "so"
      /\ Profile => "so" \in disk.change
      /\ Store(<<stored, Refill(stored, "user")>>, [sdm EXCEPT !.blob["user"] = blob])
      /\ wrong' = [wrong EXCEPT !["user"] = 0]
      /\ UNCHANGED keys

\* Mutant: nobody asks who is logged in.
C_EX_UnblockUserPIN_Anyone ==
  /\ Profile
  /\ session # "none"
  /\ Store(<<Refill(disk, "user")>>, sdm)
  /\ wrong' = [wrong EXCEPT !["user"] = 0]
  /\ UNCHANGED keys

C_EX_UnblockUserPIN ==
  /\ Profile
  /\ session # "none" /\ sdm.who = "so"
  /\ Store(<<Refill(disk, "user")>>, sdm)
  /\ wrong' = [wrong EXCEPT !["user"] = 0]
  /\ UNCHANGED keys

\* A private token object: the user's R/W session seals it with the master key.
CreatePrivateObject ==
  /\ session = "RW" /\ sdm.who = "user"
  /\ disk' = [disk EXCEPT !.sealed = @ \union {sdm.key}]
  /\ UNCHANGED <<sdm, session, keys, torn, wrong>>
-----------------------------------------------------------------------------
(* Initialising the token: no session may be open *)

\* The writes of a whole initialisation, and the manager that reads them back.
Format(writes) ==
  /\ Store(writes, Load(Last(writes)))
  /\ wrong' = [u \in Users |-> 0]

\* Token::createToken for the spare slot.
C_InitToken_New(pin, budget) ==
  LET stored == SetBlob(NewToken, "so", Seal(pin, keys + 1))
  IN  /\ ~ disk.exists
      /\ keys < MaxKeys /\ keys' = keys + 1
      /\ Format(<<NewToken, stored, SetPolicy(stored, budget, Users)>>)

\* Token::createToken for a token that exists: the SO PIN stays, and a token
\* that has none is reset without being given one.
C_InitToken_Existing(pin, budget) ==
  LET reset == resetToken(disk)
  IN  /\ disk.exists /\ session = "none"
      /\ Profile => "so" \in disk.change
      /\ ~ pinLocked("so")
      /\ IF disk.blob["so"] = NoBlob \/ Opens(pin, sdm.blob["so"])
           THEN Format(reset \o <<SetPolicy(Last(reset), budget, Users)>>)
           ELSE pinResult("so", FALSE, LoggedOut(sdm))
      /\ UNCHANGED keys

\* Both new PINs over the token d, then the policy.
Fresh(d, so, user, budget, change) ==
  LET s == SetBlob(d, "so", Seal(so, keys + 1))
      u == SetBlob(s, "user", Seal(user, keys + 1))
  IN  <<s, u, SetPolicy(u, budget, change)>>

FormatFresh(writes, so, user, budget, change) ==
  /\ keys < MaxKeys /\ keys' = keys + 1
  /\ Format(writes \o Fresh(Last(writes), so, user, budget, change))

\* Token::initTokenExtended, authorised by the SO PIN, or by its being locked
\* in repair mode; a token without a SO PIN needs no authorisation. The call
\* grants at most ten tries, C_InitToken's setting up to fifteen.
C_EX_InitToken(repair, pin, so, user, budget, change) ==
  /\ Profile /\ session = "none" /\ budget \in [Users -> 3..10]
  /\ disk.exists /\ repair => pinLocked("so")
  /\ disk.exists /\ ~ repair /\ disk.blob["so"] # NoBlob =>
       ~ pinLocked("so") /\ Opens(pin, sdm.blob["so"])
  /\ FormatFresh(IF disk.exists THEN resetToken(disk) ELSE <<NewToken>>,
                 so, user, budget, change)

C_EX_InitToken_Wrong(pin) ==
  /\ Profile /\ disk.exists /\ session = "none"
  /\ disk.blob["so"] # NoBlob /\ ~ pinLocked("so") /\ ~ Opens(pin, sdm.blob["so"])
  /\ pinResult("so", FALSE, sdm)
  /\ UNCHANGED keys

Next ==
  \/ \E kind \in {"RO", "RW"} : C_OpenSession(kind)
  \/ C_CloseSession \/ C_Logout \/ Restart
  \/ \E u \in Users, pin \in Pins : C_Login(u, pin)
  \/ \E pin \in Pins : reAuthenticate(pin) \/ C_InitPIN(pin) \/ C_EX_InitToken_Wrong(pin)
  \/ \E pin, newPin \in Pins : C_SetPIN(pin, newPin)
  \/ C_EX_UnblockUserPIN \/ CreatePrivateObject
  \/ \E pin \in Pins, budget \in Budgets :
       C_InitToken_New(pin, budget) \/ C_InitToken_Existing(pin, budget)
  \/ \E repair \in BOOLEAN, pin, so, user \in Pins, budget \in Budgets,
        change \in SUBSET Users \ {{}} :
       C_EX_InitToken(repair, pin, so, user, budget, change)

Spec == Init /\ [][Next]_vars
-----------------------------------------------------------------------------
Blobs  == {NoBlob} \union [pin : Pins, key : 1..MaxKeys]
Tokens ==
  [exists : BOOLEAN, blob : [Users -> Blobs], max : [Users -> Nat], left : [Users -> Nat],
   change : SUBSET Users, sealed : SUBSET (1..MaxKeys)]
Managers == [blob : [Users -> Blobs], who : Users \union {"none"}, key : 0..MaxKeys]

\* Types; a counter never exceeds the number of tries of its own PIN.
TypeOK ==
  /\ disk \in Tokens
  /\ sdm \in Managers
  /\ session \in {"none", "RO", "RW"}
  /\ keys \in 0..MaxKeys /\ torn \in 0..MaxCrashes
  /\ wrong \in [Users -> Nat]
  /\ disk.exists => disk.max \in Budgets
  /\ \A u \in Users : disk.left[u] <= disk.max[u]

\* Nothing is sealed under a key that is lost: whatever PIN changes, resets and
\* crashes there were, both PINs open the same master key, it is the key of
\* every private object, the user can still get at those objects, and the
\* manager of a user who is logged in holds that key.
OneMasterKey ==
  disk.exists =>
    LET so == disk.blob["so"]  user == disk.blob["user"]
    IN  /\ user # NoBlob => so # NoBlob /\ user.key = so.key
        /\ disk.sealed # {} => user # NoBlob /\ disk.sealed = {user.key}
        /\ sdm.who # "none" => sdm.key = so.key

\* Every way of presenting a PIN counts: the tries left are those of the policy
\* less the wrong PINs tried since, and a crash gives back at most one.  In
\* particular a restart gives back none ("The selected policy and remaining
\* attempts persist with the token").
AttemptsCounted ==
  disk.exists => \A u \in Users :
    LET spent == disk.max[u] - disk.left[u]
    IN  /\ wrong[u] <= spent + torn
        /\ torn = 0 => wrong[u] = spent

\* A user PIN that is locked opens again only at the hands of the SO, or over
\* a token whose objects are gone.
LockedUserNeedsSO ==
  [][disk.exists /\ disk.left["user"] = 0 /\ disk'.left["user"] > 0 =>
       \/ sdm.who = "so"
       \/ session = "none" /\ disk'.sealed = {}]_vars

\* The part of OneMasterKey that is about the token alone: it holds after every single
\* write of every operation.
KeysTogether(d) ==
  LET so == d.blob["so"]  user == d.blob["user"]
  IN  /\ user # NoBlob => so # NoBlob /\ user.key = so.key
      /\ d.sealed # {} => user # NoBlob /\ d.sealed = {user.key}

\* What the manager in memory says of the PINs is what the token has, and whoever is
\* logged in opened a blob and has its key.
ManagerMirrors ==
  /\ sdm.blob = disk.blob
  /\ sdm.who # "none" =>
       session # "none" /\ sdm.blob[sdm.who] # NoBlob /\ sdm.key = sdm.blob[sdm.who].key
  /\ session # "none" => disk.exists

\* The inductive invariant.
Inv ==
  /\ TypeOK
  /\ ~ disk.exists => disk = NoToken
  /\ KeysTogether(disk)
  /\ ManagerMirrors
  /\ AttemptsCounted
=============================================================================
