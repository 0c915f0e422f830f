--------------------------- MODULE SessionManager ---------------------------
(***************************************************************************)
(* src/lib/session_mgr/SessionManager.cpp: the vector of open sessions,    *)
(* with the login state of the token in each slot, which the manager reads *)
(* when it opens a session and clears when it closes the last one.  Every  *)
(* operation runs under sessionsMutex and is one action.                   *)
(***************************************************************************)
EXTENDS Naturals, Sequences

CONSTANTS Slots, MaxSessions  \* MaxSessions bounds the sessions ever opened

VARIABLES
  sessions,  \* vector of Session*, NULL where a session was closed
  heap,      \* the Session objects in the order they were allocated
  login      \* who is logged in on the token of each slot

NULL  == 0
Freed == [live |-> FALSE]
Users == {"public", "user", "so"}

SessionsInit ==
  /\ sessions = <<>>
  /\ heap     = <<>>
  /\ login    = [s \in Slots |-> "public"]

OpenOn(slot) ==
  {i \in DOMAIN sessions : sessions[i] # NULL /\ heap[sessions[i]].slot = slot}

\* Session::getState: with the SO logged in it is CKS_RW_SO_FUNCTIONS, whatever
\* the session's own flag says.
getState(p) ==
  LET user == login[heap[p].slot]
  IN  [rw |-> heap[p].rw \/ user = "so", user |-> user]

FirstEmptySpot(i) ==
  /\ i \in 1..Len(sessions) + 1
  /\ i <= Len(sessions) => sessions[i] = NULL
  /\ \A j \in 1..i - 1 : sessions[j] # NULL

\* A new session goes into spot i, its index plus one being its own handle.
openSession(slot, rw, i) ==
  /\ rw \/ login[slot] # "so"
  /\ Len(heap) < MaxSessions
  /\ FirstEmptySpot(i)
  /\ LET p == Len(heap) + 1
     IN  /\ heap'     = Append(heap, [live |-> TRUE, slot |-> slot, rw |-> rw])
         /\ sessions' = [j \in 1..Len(sessions) \union {i} |-> IF j = i THEN p ELSE sessions[j]]
  /\ UNCHANGED login

getSession(i) == sessions[i]

haveROSession(slot) == \E i \in OpenOn(slot) : ~ heap[sessions[i]].rw

\* delete the sessions in the given spots
Delete(spots) ==
  /\ heap'     = [p \in DOMAIN heap |-> IF \E i \in spots : sessions[i] = p THEN Freed ELSE heap[p]]
  /\ sessions' = [i \in DOMAIN sessions |-> IF i \in spots THEN NULL ELSE sessions[i]]

\* Closing the last session of a slot logs its token out.
closeSession(i) ==
  LET slot == heap[sessions[i]].slot
  IN  /\ login' = IF OpenOn(slot) = {i} THEN [login EXCEPT ![slot] = "public"] ELSE login
      /\ Delete({i})

closeAllSessions(slot) ==
  /\ Delete(OpenOn(slot))
  /\ login' = [login EXCEPT ![slot] = "public"]

\* Token::loginSO and Token::loginUser, for a PIN that is right: nobody else
\* may be logged in.
loginToken(slot, user) ==
  /\ login[slot] = "public"
  /\ login' = [login EXCEPT ![slot] = user]

\* Token::logout
logoutToken(slot) == login' = [login EXCEPT ![slot] = "public"]
=============================================================================
