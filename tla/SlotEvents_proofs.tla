------------------------- MODULE SlotEvents_proofs -------------------------
(***************************************************************************)
(* Proofs about SlotEvents for any threads, slots and bounds, also when    *)
(* two threads initialise the same slot at once: no event is lost or       *)
(* duplicated, no wake-up is lost, at most one caller is parked, and it    *)
(* hears of its own epoch.                                                 *)
(***************************************************************************)
EXTENDS SlotEvents, TLAPS

\* An event that moves from the queue to a caller, and one that joins the queue.
LEMMA QueueMoves ==
  ASSUME NEW S, NEW h \in Seq(S), NEW p \in Seq(S)
  PROVE  /\ p # <<>> => /\ Head(p) \in S /\ Tail(p) \in Seq(S)
                        /\ Append(h, Head(p)) \o Tail(p) = h \o p
         /\ \A s \in S : h \o Append(p, s) = Append(h \o p, s)
<1>1. ASSUME p # <<>>
      PROVE  Append(h, Head(p)) \o Tail(p) = h \o p
  BY <1>1
<1>2. ASSUME NEW s \in S PROVE h \o Append(p, s) = Append(h \o p, s)
  OBVIOUS
<1>3. ASSUME p # <<>> PROVE Head(p) \in S /\ Tail(p) \in Seq(S)
  BY <1>3
<1> QED BY <1>1, <1>2, <1>3

\* What the type invariant says of one thread's call.
LEMMA CallTypes ==
  ASSUME TypeOK, NEW t \in Threads
  PROVE  /\ call[t] \in Calls
         /\ Parked(t) => call[t].epoch \in Nat
         /\ In(t, "initToken") => call[t].slot \in Slots /\ call[t].wasInitialised \in BOOLEAN
         /\ In(t, "postSlotEvent") => call[t].slot \in Slots
BY DEF TypeOK, Calls, Idle, Parked, In

\* What a thread may be doing.
LEMMA CallForms ==
  /\ Idle \in Calls
  /\ \A e \in Nat : [at |-> "parked", epoch |-> e] \in Calls
  /\ \A s \in Slots, b \in BOOLEAN :
       [at |-> "initToken", slot |-> s, wasInitialised |-> b] \in Calls
  /\ \A s \in Slots : [at |-> "postSlotEvent", slot |-> s] \in Calls
BY DEF Calls

\* A step that neither creates nor reports a token.
LEMMA ReportsKept ==
  ASSUME NoEventLost, UNCHANGED <<joined, posted>>, (posted = heard \o pending)',
         \A u \in Threads : In(u, "postSlotEvent") =>
           In(u, "postSlotEvent")' /\ call'[u].slot = call[u].slot
  PROVE  NoEventLost'
<1>1. ASSUME NEW s \in joined
      PROVE  \/ \E i \in 1..Len(posted) : posted[i] = s
             \/ \E u \in Threads : In(u, "postSlotEvent")' /\ call'[u].slot = s
  BY DEF NoEventLost
<1> QED BY <1>1 DEF NoEventLost

\* Nothing is initialised and nobody waits.
LEMMA InitInv == Init => Inv
<1> SUFFICES ASSUME Init PROVE Inv
  OBVIOUS
<1>1. TypeOK
  <2>1. <<>> \in Seq(Slots)
    OBVIOUS
  <2>2. call \in [Threads -> Calls] /\ result \in [Threads -> Results]
    BY CallForms DEF Init, Results
  <2> QED BY <2>1, <2>2 DEF Init, TypeOK
<1>2. NoEventLost
  BY DEF Init, NoEventLost
<1>3. NoLostWakeup /\ OneReader
  BY DEF Init, NoLostWakeup, OneReader, Parked, Idle
<1>4. ClosedIsQuiet /\ TokensStay
  BY DEF Init, ClosedIsQuiet, TokensStay, In, Idle
<1> QED BY <1>1, <1>2, <1>3, <1>4 DEF Inv

\* C_Initialize opens an epoch.
LEMMA BeginEpochInv == Inv /\ beginSlotEventEpoch => Inv'
<1> SUFFICES ASSUME Inv, beginSlotEventEpoch PROVE Inv'
  OBVIOUS
<1> USE DEF Inv, beginSlotEventEpoch, history
<1>1. TypeOK'
  BY DEF TypeOK
<1>2. NoEventLost'
  BY DEF NoEventLost, In
<1>3. NoLostWakeup' /\ OneReader'
  BY DEF NoLostWakeup, OneReader, Parked, HasNews
<1>4. ClosedIsQuiet' /\ TokensStay'
  BY DEF ClosedIsQuiet, TokensStay, In
<1> QED BY <1>1, <1>2, <1>3, <1>4

\* C_Finalize closes it and wakes whoever is parked.
LEMMA EndEpochInv == Inv /\ endSlotEventEpoch => Inv'
<1> SUFFICES ASSUME Inv, endSlotEventEpoch PROVE Inv'
  OBVIOUS
<1> USE DEF Inv, endSlotEventEpoch, NotifyAll
<1>1. TypeOK'
  <2>1. <<>> \in Seq(Slots)
    OBVIOUS
  <2>2. notified' \subseteq Threads /\ {} \subseteq Slots
    OBVIOUS
  <2>3. epoch' \in Nat
    BY DEF TypeOK
  <2> QED BY <2>1, <2>2, <2>3 DEF TypeOK
<1>2. NoEventLost'
  BY DEF NoEventLost
<1>3. NoLostWakeup' /\ OneReader'
  BY DEF NoLostWakeup, OneReader, Parked, HasNews
<1>4. ClosedIsQuiet' /\ TokensStay'
  BY DEF ClosedIsQuiet, TokensStay, In, Parked
<1> QED BY <1>1, <1>2, <1>3, <1>4

\* C_InitToken looks whether there is a token.
LEMMA BeginInitTokenInv ==
  ASSUME Inv, NEW t \in Threads, NEW s \in Slots, BeginInitToken(t, s) PROVE Inv'
<1> USE DEF Inv, BeginInitToken, state, history
<1> DEFINE w == s \in tokens
<1>1. /\ w \in BOOLEAN
      /\ w <=> s \in tokens
      /\ call' = [call EXCEPT ![t] = [at |-> "initToken", slot |-> s, wasInitialised |-> w]]
  OBVIOUS
<1> HIDE DEF w
<1>2. /\ call'[t] = [at |-> "initToken", slot |-> s, wasInitialised |-> w]
      /\ \A u \in Threads \ {t} : call'[u] = call[u]
  BY <1>1 DEF TypeOK
<1>3. /\ ~ In(t, "postSlotEvent") /\ ~ Parked(t) /\ ~ Parked(t)'
      /\ ~ In(t, "postSlotEvent")' /\ open
  BY <1>2 DEF In, Parked
<1>4. TypeOK'
  BY <1>1, CallForms DEF TypeOK
<1>5. NoEventLost'
  BY <1>3, <1>2, ReportsKept DEF NoEventLost, In
<1>6. NoLostWakeup' /\ OneReader'
  BY <1>2, <1>3 DEF NoLostWakeup, OneReader, Parked, HasNews
<1>7. ClosedIsQuiet' /\ TokensStay'
  BY <1>1, <1>2, <1>3 DEF ClosedIsQuiet, TokensStay, In
<1> QED BY <1>4, <1>5, <1>6, <1>7

\* The token is created or reset, or nothing happens.
LEMMA InitTokenInv ==
  ASSUME Inv, NEW t \in Threads, InitToken(t) PROVE Inv'
<1> DEFINE s == call[t].slot
<1> USE DEF Inv
<1>1. /\ In(t, "initToken") /\ ~ In(t, "postSlotEvent") /\ ~ Parked(t)
      /\ s \in Slots /\ call[t].wasInitialised \in BOOLEAN
  BY CallTypes DEF InitToken, In, Parked
<1>2. /\ UNCHANGED <<open, pending, waiting, epoch, notified, result, posted, heard>>
      /\ \A u \in Threads \ {t} : call'[u] = call[u]
      /\ open
  BY <1>1 DEF InitToken, state, TypeOK, ClosedIsQuiet, In, Parked
<1>3. CASE /\ tokens' = tokens \union {s}
           /\ joined' = IF s \in tokens THEN joined ELSE joined \union {s}
           /\ call'   = [call EXCEPT ![t] = IF call[t].wasInitialised THEN Idle
                                            ELSE [at |-> "postSlotEvent", slot |-> s]]
  <2>1. /\ call[t].wasInitialised => call'[t] = Idle
        /\ ~ call[t].wasInitialised => call'[t] = [at |-> "postSlotEvent", slot |-> s]
    BY <1>3 DEF TypeOK
  <2>2. ~ Parked(t)'
    BY <1>1, <2>1 DEF Parked, Idle
  <2>3. s \notin tokens => In(t, "postSlotEvent")' /\ call'[t].slot = s
    BY <1>1, <2>1 DEF In, TokensStay
  <2>4. TypeOK'
    BY <1>1, <1>2, <1>3, CallForms DEF TypeOK
  <2>5. NoEventLost'
    <3>1. (posted = heard \o pending)'
      BY <1>2 DEF NoEventLost
    <3>2. ASSUME NEW r \in joined'
          PROVE  \/ \E i \in 1..Len(posted) : posted[i] = r
                 \/ \E u \in Threads : In(u, "postSlotEvent")' /\ call'[u].slot = r
      <4>1. CASE r \in joined
        BY <1>1, <1>2, <4>1 DEF NoEventLost, In
      <4>2. CASE r \notin joined
        BY <1>3, <2>3, <3>2, <4>2
      <4> QED BY <4>1, <4>2
    <3> QED BY <1>2, <3>1, <3>2 DEF NoEventLost
  <2>6. NoLostWakeup' /\ OneReader'
    BY <1>1, <1>2, <2>2 DEF NoLostWakeup, OneReader, Parked, HasNews
  <2>7. ClosedIsQuiet' /\ TokensStay'
    <3>1. ~ In(t, "initToken")'
      BY <1>1, <2>1 DEF In, Idle
    <3> QED BY <1>2, <1>3, <3>1 DEF ClosedIsQuiet, TokensStay, In
  <2> QED BY <2>4, <2>5, <2>6, <2>7
<1>4. CASE call' = [call EXCEPT ![t] = Idle] /\ UNCHANGED <<tokens, joined>>
  <2>1. call'[t] = Idle
    BY <1>4 DEF TypeOK
  <2>2. ~ Parked(t)' /\ ~ In(t, "postSlotEvent")' /\ ~ In(t, "initToken")'
    BY <2>1 DEF Parked, In, Idle
  <2>3. TypeOK'
    BY <1>2, <1>4, CallForms DEF TypeOK
  <2>4. NoEventLost'
    BY <1>1, <1>2, <1>4, <2>2, ReportsKept DEF NoEventLost, In
  <2>5. NoLostWakeup' /\ OneReader'
    BY <1>1, <1>2, <2>2 DEF NoLostWakeup, OneReader, Parked, HasNews
  <2>6. ClosedIsQuiet' /\ TokensStay'
    BY <1>2, <1>4, <2>2 DEF ClosedIsQuiet, TokensStay, In
  <2> QED BY <2>3, <2>4, <2>5, <2>6
<1> QED BY <1>3, <1>4 DEF InitToken

\* The new token is reported, and whoever is parked is woken.
LEMMA PostInv ==
  ASSUME Inv, NEW t \in Threads, postSlotEvent(t) PROVE Inv'
<1> DEFINE s == call[t].slot
<1> USE DEF Inv, postSlotEvent, NotifyAll
<1>1. In(t, "postSlotEvent") /\ ~ Parked(t) /\ s \in Slots
  BY CallTypes DEF In, Parked
<1>2. /\ call'[t] = Idle /\ \A u \in Threads \ {t} : call'[u] = call[u]
      /\ open
  BY <1>1 DEF TypeOK, ClosedIsQuiet, In, Parked
<1>3. ~ Parked(t)' /\ ~ In(t, "initToken")'
  BY <1>2 DEF Parked, In, Idle
<1>4. TypeOK'
  BY <1>1, CallForms DEF TypeOK
<1>5. NoEventLost'
  <2>1. (posted = heard \o pending)'
    BY <1>1, QueueMoves DEF NoEventLost, TypeOK
  <2>2. ASSUME NEW r \in joined
        PROVE  \/ \E i \in 1..Len(posted') : posted'[i] = r
               \/ \E u \in Threads : In(u, "postSlotEvent")' /\ call'[u].slot = r
    <3>1. CASE r = s
      <4>1. posted'[Len(posted) + 1] = s /\ Len(posted') = Len(posted) + 1
        BY <1>1 DEF TypeOK
      <4> QED BY <3>1, <4>1 DEF TypeOK
    <3>2. CASE \E i \in 1..Len(posted) : posted[i] = r
      <4>1. \A i \in 1..Len(posted) : i \in 1..Len(posted') /\ posted'[i] = posted[i]
        BY <1>1 DEF TypeOK
      <4> QED BY <3>2, <4>1
    <3>3. CASE r # s /\ \E u \in Threads : In(u, "postSlotEvent") /\ call[u].slot = r
      BY <1>2, <3>3 DEF In
    <3> QED BY <3>1, <3>2, <3>3 DEF NoEventLost
  <2> QED BY <2>1, <2>2 DEF NoEventLost
<1>6. NoLostWakeup' /\ OneReader'
  BY <1>1, <1>2, <1>3 DEF NoLostWakeup, OneReader, Parked
<1>7. ClosedIsQuiet' /\ TokensStay'
  BY <1>2, <1>3 DEF ClosedIsQuiet, TokensStay, In
<1> QED BY <1>4, <1>5, <1>6, <1>7

\* A caller that takes the first event.
LEMMA TakeFrontKeeps ==
  ASSUME TypeOK, posted = heard \o pending, pending # <<>>, TakeFront, UNCHANGED posted
  PROVE  /\ pending' \in Seq(Slots) /\ heard' \in Seq(Slots)
         /\ (posted = heard \o pending)'
BY QueueMoves DEF TypeOK, TakeFront

\* C_WaitForSlotEvent returns at once, or parks.
LEMMA AwaitInv ==
  ASSUME Inv, NEW t \in Threads, NEW dontBlock \in BOOLEAN, awaitSlotEvent(t, dontBlock)
  PROVE  Inv'
<1> USE DEF Inv
<1>1. /\ In(t, "idle") /\ ~ Parked(t) /\ ~ In(t, "postSlotEvent") /\ ~ In(t, "initToken")
      /\ UNCHANGED <<notified, tokens, joined, posted, open, epoch>>
  BY DEF awaitSlotEvent, In, Parked, state, Return
<1>2. ASSUME NEW rv \in Results, Return(t, rv), UNCHANGED waiting,
             pending' \in Seq(Slots), heard' \in Seq(Slots), (posted = heard \o pending)',
             pending = <<>> => pending' = <<>>
      PROVE  Inv'
  <2>1. call'[t] = Idle /\ \A u \in Threads \ {t} : call'[u] = call[u]
    BY <1>2 DEF Return, TypeOK
  <2>2. ~ Parked(t)' /\ ~ In(t, "postSlotEvent")' /\ ~ In(t, "initToken")'
    BY <2>1 DEF Parked, In, Idle
  <2>3. TypeOK'
    BY <1>1, <1>2, CallForms DEF TypeOK, Return
  <2>4. NoEventLost'
    BY <1>1, <1>2, <2>1, <2>2, ReportsKept DEF In
  <2>5. NoLostWakeup' /\ OneReader'
    BY <1>1, <1>2, <2>1, <2>2 DEF NoLostWakeup, OneReader, Parked, HasNews
  <2>6. ClosedIsQuiet'
    <3>1. In(t, "idle")'
      BY <2>1 DEF In, Idle
    <3>2. \A u \in Threads \ {t} : (In(u, "idle") => In(u, "idle")') /\ (Parked(u) => Parked(u)')
      BY <2>1 DEF In, Parked
    <3> QED BY <1>1, <1>2, <3>1, <3>2 DEF ClosedIsQuiet
  <2>7. TokensStay'
    BY <1>1, <1>2, <2>1, <2>2 DEF TokensStay, In
  <2> QED BY <2>3, <2>4, <2>5, <2>6, <2>7
<1>3. CASE ~ open /\ Return(t, "CKR_CRYPTOKI_NOT_INITIALIZED") /\ UNCHANGED <<state, heard>>
  BY <1>1, <1>2, <1>3 DEF state, TypeOK, NoEventLost, Results
<1>4. CASE open /\ pending # <<>> /\ TakeFront /\ Return(t, "CKR_OK") /\ UNCHANGED waiting
  BY <1>1, <1>2, <1>4, TakeFrontKeeps DEF NoEventLost, Results
<1>5. CASE /\ open /\ pending = <<>> /\ UNCHANGED <<pending, heard, waiting>>
           /\ Return(t, "CKR_NO_EVENT") \/ Return(t, "CKR_FUNCTION_FAILED")
  BY <1>1, <1>2, <1>5 DEF TypeOK, NoEventLost, Results
<1>6. CASE /\ open /\ pending = <<>> /\ UNCHANGED <<pending, heard, result>>
           /\ ~ waiting /\ waiting' = TRUE
           /\ call' = [call EXCEPT ![t] = [at |-> "parked", epoch |-> epoch]]
  <2>1. /\ call'[t] = [at |-> "parked", epoch |-> epoch]
        /\ \A u \in Threads \ {t} : call'[u] = call[u]
    BY <1>6 DEF TypeOK
  <2>2. Parked(t)' /\ ~ In(t, "postSlotEvent")' /\ ~ In(t, "initToken")'
    BY <2>1 DEF Parked, In
  <2>3. TypeOK'
    BY <1>1, <1>6, CallForms DEF TypeOK
  <2>4. NoEventLost'
    BY <1>1, <1>6, <2>1, <2>2, ReportsKept DEF NoEventLost, In
  <2>5. NoLostWakeup'
    BY <1>1, <1>6, <2>1 DEF NoLostWakeup, Parked, HasNews
  <2>6. OneReader'
    BY <1>1, <1>6, <2>1, <2>2 DEF OneReader, Parked
  <2>7. ClosedIsQuiet' /\ TokensStay'
    BY <1>1, <1>6, <2>1, <2>2 DEF ClosedIsQuiet, TokensStay, In
  <2> QED BY <2>3, <2>4, <2>5, <2>6, <2>7
<1> QED BY <1>3, <1>4, <1>5, <1>6 DEF awaitSlotEvent, TypeOK

\* A notified thread sleeps on, or returns.
LEMMA WakeInv ==
  ASSUME Inv, NEW t \in Threads, Wake(t) PROVE Inv'
<1> DEFINE e == call[t].epoch
<1> USE DEF Inv
<1>1. /\ Parked(t) /\ ~ In(t, "postSlotEvent") /\ ~ In(t, "initToken")
      /\ notified' = notified \ {t} /\ t \in notified
      /\ UNCHANGED <<open, epoch, tokens, joined, posted>>
  BY DEF Wake, In, Parked
<1>2. ASSUME NEW rv \in Results, Return(t, rv), waiting' = FALSE,
             pending' \in Seq(Slots), heard' \in Seq(Slots), (posted = heard \o pending)',
             pending = <<>> => pending' = <<>>
      PROVE  Inv'
  <2>1. call'[t] = Idle /\ \A u \in Threads \ {t} : call'[u] = call[u]
    BY <1>2 DEF Return, TypeOK
  <2>2. ~ Parked(t)' /\ ~ In(t, "postSlotEvent")' /\ ~ In(t, "initToken")' /\ In(t, "idle")'
    BY <2>1 DEF Parked, In, Idle
  <2>3. TypeOK'
    BY <1>1, <1>2, CallForms DEF TypeOK, Return
  <2>4. NoEventLost'
    BY <1>1, <1>2, <2>1, <2>2, ReportsKept DEF In
  <2>5. \A u \in Threads : ~ Parked(u)'
    BY <1>1, <2>1, <2>2 DEF OneReader, Parked
  <2>6. NoLostWakeup' /\ OneReader'
    BY <1>2, <2>5 DEF NoLostWakeup, OneReader
  <2>7. ClosedIsQuiet' /\ TokensStay'
    BY <1>1, <1>2, <2>1, <2>2 DEF ClosedIsQuiet, TokensStay, In, Parked
  <2> QED BY <2>3, <2>4, <2>6, <2>7
<1>3. CASE ~ HasNews(e) /\ UNCHANGED <<pending, waiting, call, result, heard>>
  <2>1. TypeOK'
    BY <1>1, <1>3 DEF TypeOK
  <2>2. NoEventLost' /\ OneReader' /\ ClosedIsQuiet' /\ TokensStay'
    BY <1>1, <1>3 DEF NoEventLost, OneReader, ClosedIsQuiet, TokensStay, In, Parked
  <2>3. NoLostWakeup'
    BY <1>1, <1>3 DEF NoLostWakeup, HasNews, Parked
  <2> QED BY <2>1, <2>2, <2>3
<1>4. CASE /\ waiting' = FALSE /\ Return(t, "CKR_CRYPTOKI_NOT_INITIALIZED")
           /\ UNCHANGED <<pending, heard>>
  BY <1>1, <1>2, <1>4 DEF TypeOK, NoEventLost, Results
<1>5. CASE pending # <<>> /\ waiting' = FALSE /\ TakeFront /\ Return(t, "CKR_OK")
  BY <1>1, <1>2, <1>5, TakeFrontKeeps DEF NoEventLost, Results
<1> QED BY <1>3, <1>4, <1>5 DEF Wake

\* One step of any thread.
LEMMA NextInv == Inv /\ [Next]_vars => Inv'
<1> SUFFICES ASSUME Inv, [Next]_vars PROVE Inv'
  OBVIOUS
<1>1. CASE UNCHANGED vars
  BY <1>1 DEF vars, state, history, Inv, TypeOK, NoEventLost, NoLostWakeup, OneReader,
              ClosedIsQuiet, TokensStay, Parked, In, HasNews
<1>2. ASSUME NEW t \in Threads,
             \/ \E s \in Slots : BeginInitToken(t, s)
             \/ InitToken(t) \/ postSlotEvent(t)
             \/ \E dontBlock \in BOOLEAN : awaitSlotEvent(t, dontBlock)
             \/ Wake(t)
      PROVE  Inv'
  BY <1>2, BeginInitTokenInv, InitTokenInv, PostInv, AwaitInv, WakeInv
<1> QED BY <1>1, <1>2, BeginEpochInv, EndEpochInv DEF Next

\* The invariant holds in every reachable state, for all constants.
THEOREM InvariantHolds == Spec => []Inv
BY InitInv, NextInv, PTL DEF Spec

\* The state of the slot events has its types.
THEOREM TypeCorrect == Spec => []TypeOK
<1>1. Inv => TypeOK
  BY DEF Inv
<1> QED BY <1>1, InvariantHolds, PTL

\* The callers of C_WaitForSlotEvent together hear each event once and in order, and
\* every token created in an epoch is reported.
THEOREM EventsKept == Spec => []NoEventLost
<1>1. Inv => NoEventLost
  BY DEF Inv
<1> QED BY <1>1, InvariantHolds, PTL

\* A caller that waits on the condition variable is notified of all that it waits for.
THEOREM WakeupsKept == Spec => []NoLostWakeup
<1>1. Inv => NoLostWakeup
  BY DEF Inv
<1> QED BY <1>1, InvariantHolds, PTL

\* At most one caller is parked, across C_Finalize and C_Initialize too, and
\* SlotEventState::waiting says whether one is.
THEOREM SingleReader == Spec => []OneReader
<1>1. Inv => OneReader
  BY DEF Inv
<1> QED BY <1>1, InvariantHolds, PTL

\* A parked caller returns with an event of its own epoch, or hears that it is over.
THEOREM OwnEpochHeard == Spec => HearsOwnEpoch
<1>1. ASSUME Inv, [Next]_vars
      PROVE  [\A t \in Threads : Parked(t) /\ ~ Parked(t)' =>
                result'[t] = IF call[t].epoch = epoch THEN "CKR_OK"
                             ELSE "CKR_CRYPTOKI_NOT_INITIALIZED"]_vars
  <2> SUFFICES ASSUME Next, NEW t \in Threads, Parked(t), ~ Parked(t)'
               PROVE  result'[t] = IF call[t].epoch = epoch THEN "CKR_OK"
                                   ELSE "CKR_CRYPTOKI_NOT_INITIALIZED"
    BY <1>1
  <2>1. ~ UNCHANGED call
    BY DEF Parked
  <2>2. ASSUME NEW u \in Threads, NEW c, call' = [call EXCEPT ![u] = c] PROVE u = t
    BY <1>1, <2>2 DEF Parked, Inv, TypeOK
  <2>3. Wake(t)
    <3>1. PICK u \in Threads :
            \/ \E s \in Slots : BeginInitToken(u, s)
            \/ InitToken(u) \/ postSlotEvent(u)
            \/ \E dontBlock \in BOOLEAN : awaitSlotEvent(u, dontBlock)
            \/ Wake(u)
      BY <2>1 DEF Next, beginSlotEventEpoch, endSlotEventEpoch
    <3>2. \E c : call' = [call EXCEPT ![u] = c]
      BY <3>1, <2>1 DEF BeginInitToken, InitToken, postSlotEvent, awaitSlotEvent, Return, Wake, TypeOK
    <3>3. u = t
      BY <2>2, <3>2
    <3>4. ~ In(t, "idle") /\ ~ In(t, "initToken") /\ ~ In(t, "postSlotEvent")
      BY DEF Parked, In
    <3> QED BY <3>1, <3>3, <3>4 DEF BeginInitToken, InitToken, postSlotEvent, awaitSlotEvent
  <2> QED BY <1>1, <2>1, <2>3 DEF Wake, Return, HasNews, Inv, TypeOK
<1> QED BY <1>1, InvariantHolds, PTL DEF Spec, HearsOwnEpoch
=============================================================================
