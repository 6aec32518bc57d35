--------------------------- MODULE BringUpProofs ---------------------------
(***************************************************************************)
(* Proofs about the bring-up of a unit: the configuration AP it opens with *)
(* its captive DNS (Wifi, CaptiveDns), and its enrolment with the IE       *)
(* (Provisioning). The two specifications share no state; what is proved   *)
(* about each is proved for every value of its constants.                  *)
(***************************************************************************)
EXTENDS Wifi, Provisioning, SequenceTheorems, FiniteSetTheorems, TLAPS

(***************************************************************************)
(* Enrolment: any set of credential keys, any order of reading and writing *)
(* them and any number of power failures.                                  *)
(***************************************************************************)

(* The keys have an order with a last one. *)
LEMMA WriteOrderLen == Len(WriteOrder) \in Nat \ {0} /\ DOMAIN WriteOrder = 1 .. Len(WriteOrder)
<1>1. Len(WriteOrder) \in Nat /\ DOMAIN WriteOrder = 1 .. Len(WriteOrder)
  BY ProvConstants, SMTT(30)
<1>2. LoadOrder \in Seq(Fields) /\ LoadOrder # <<>>
  BY CredConstants
<1>3. 1 \in DOMAIN LoadOrder
  BY <1>2, SMTT(30)
<1>4. Fields # {}
  BY <1>3 DEF Fields
<1>5. Len(WriteOrder) # 0
  <2>1. PICK f \in Fields : TRUE
    BY <1>4
  <2>2. PICK i \in DOMAIN WriteOrder : WriteOrder[i] = f
    BY ProvConstants
  <2>3. QED
    BY <1>1, <2>2, SMT
<1>6. QED
  BY <1>1, <1>5

(* "No answer" is an answer without credentials. *)
LEMMA NoReplyType ==
    /\ NoReply \in [creds : 0 .. MaxVersion, token : 0 .. MaxTokens, state : States]
    /\ NoReply.token = 0
  BY CredConstants, ProvConstants, SMT DEF NoReply, States

(* The program starts in the invariant: provisioning_init. *)
LEMMA InitIInv == Init => IInv
<1> SUFFICES ASSUME Init PROVE IInv
  OBVIOUS
<1>1. TypeOK
  <2>1. Len(<<>>) <= Len(LoadOrder) /\ 0 \in 0 .. Len(WriteOrder) - 1 /\ MaxVersion \in Nat
    BY CredConstants, WriteOrderLen, SMT
  <2>2. CredTypeOK
    BY <2>1, SMT DEF Init, CredInit, CredTypeOK
  <2>3. NoReply \in [creds : 0 .. MaxVersion, token : 0 .. MaxTokens, state : States]
    BY NoReplyType
  <2>4. [creds |-> 1, token |-> 0] \in [creds : 1 .. MaxVersion, token : 0 .. MaxTokens]
    BY CredConstants, ProvConstants, SMT
  <2>5. QED
    BY <2>1, <2>2, <2>3, <2>4, ProvConstants, SMT DEF Init, TypeOK, States, Unclaimed, Points
<1>2. Ledger /\ EnrolledIsKnown
  BY DEF Init, Ledger, EnrolledIsKnown, Enrolling, NoReply, Unclaimed, Provisioned
<1>3. QED
  BY <1>1, <1>2 DEF IInv

(* A step of the caster session leaves what provisioning keeps alone. *)
LEMMA SessionIInv == ASSUME IInv, SessionTask \/ ConnectionBreaks PROVE IInv'
<1> USE DEF IInv
<1>1. stored' = stored /\ reconnect_gen' = reconnect_gen /\ UNCHANGED <<nvs, task, ie, crashes>>
  BY DEF SessionTask, ConnectionBreaks, SessStart, SessLoad, SessSnapshot, SessUp,
         SessDialFails, SessReconnects, SessBreaks, SessEnds, store
<1>2. CredTypeOK'
  <2> USE DEF TypeOK, CredTypeOK
  <2>1. CASE SessStart
    BY <2>1, <1>1 DEF SessStart
  <2>2. CASE SessLoad
    <3>1. Len(loaded) \in Nat /\ Len(loaded) + 1 \in 1 .. Len(LoadOrder)
      BY <2>2, CredConstants, SMTT(30) DEF SessLoad, Complete
    <3>2. LoadOrder[Len(loaded) + 1] \in Fields
      BY <3>1, CredConstants, SMT
    <3>3. stored[LoadOrder[Len(loaded) + 1]] \in 0 .. MaxVersion
      BY <3>2
    <3> DEFINE x == stored[LoadOrder[Len(loaded) + 1]]
    <3>4. loaded' = Append(loaded, x) /\ sess' = sess /\ conn_gen' = conn_gen
      BY <2>2 DEF SessLoad
    <3> HIDE DEF x
    <3>5. loaded' \in Seq(0 .. MaxVersion) /\ Len(loaded') <= Len(LoadOrder)
      BY <3>1, <3>3, <3>4, SMT DEF x
    <3>6. QED
      BY <3>4, <3>5, <1>1
  <2>3. CASE SessSnapshot
    BY <2>3, <1>1 DEF SessSnapshot
  <2>4. CASE sess = "dial" /\ Accepts /\ SessUp
    BY <2>4, <1>1 DEF SessUp
  <2>5. CASE SessEnds
    <3>1. Len(<<>>) <= Len(LoadOrder)
      BY CredConstants, SMT
    <3>2. loaded' = <<>> /\ sess' = "idle" /\ conn_gen' = conn_gen
      BY <2>5 DEF SessEnds
    <3>3. QED
      BY <3>1, <3>2, <1>1
  <2>6. QED
    BY <2>1, <2>2, <2>3, <2>4, <2>5
    DEF SessionTask, ConnectionBreaks, SessDialFails, SessReconnects, SessBreaks
<1>3. TypeOK'
  BY <1>1, <1>2 DEF TypeOK, nvs, task
<1>4. Ledger' /\ EnrolledIsKnown'
  BY <1>1 DEF Ledger, EnrolledIsKnown, Enrolling, nvs, task
<1>5. QED
  BY <1>3, <1>4

(* Enrolment, write by write. *)
LEMMA EnrollIInv == ASSUME IInv, Enroll PROVE IInv'
<1> USE ProvConstants DEF IInv, TypeOK, Ledger, EnrolledIsKnown, Enrolling, Points, States,
        Provisioned, Unclaimed, NoReply, nvs
<1>1. ASSUME NEW delivered \in BOOLEAN, EnrollServed(delivered) PROVE IInv'
  <2>1. ie.token < MaxTokens /\ rtk_state < Provisioned /\ ~Enrolling
    BY <1>1, SMT DEF EnrollServed
  <2>2. /\ ie' = [creds |-> ie.creds, token |-> ie.token + 1]
        /\ ie' \in [creds : 1 .. MaxVersion, token : 0 .. MaxTokens]
    <3>1. ie' = [ie EXCEPT !.token = ie.token + 1]
      BY <1>1 DEF EnrollServed
    <3>2. /\ ie \in [creds : 1 .. MaxVersion, token : 0 .. MaxTokens]
          /\ ie.token + 1 \in 0 .. MaxTokens
      BY <2>1, SMT
    <3>3. QED
      BY <3>1, <3>2
  <2>6. CredTypeOK'
    BY <1>1 DEF EnrollServed, credVars, store, session, CredTypeOK
  <2>7. /\ p = "choose" /\ state = rtk_state
        /\ UNCHANGED <<rtk_state, rtk_token, k, state, s_token, crashes>>
    BY <1>1 DEF EnrollServed
  <2>3. CASE delivered
    <3>1. reply' = [creds |-> ie.creds, token |-> ie.token + 1, state |-> 1] /\ p' = "write"
      BY <1>1, <2>3 DEF EnrollServed
    <3>2. reply' \in [creds : 0 .. MaxVersion, token : 0 .. MaxTokens, state : 0 .. 3]
      BY <2>1, <3>1, SMT
    <3>3. TypeOK'
      BY <2>2, <2>6, <2>7, <3>1, <3>2
    <3>4. (Ledger /\ EnrolledIsKnown)'
      BY <2>1, <2>2, <2>7, <3>1, SMT
    <3>5. QED
      BY <3>3, <3>4
  <2>4. CASE ~delivered
    <3>1. reply' = reply /\ p' = p
      BY <1>1, <2>4 DEF EnrollServed
    <3>2. TypeOK'
      BY <2>2, <2>6, <2>7, <3>1
    <3>3. (Ledger /\ EnrolledIsKnown)'
      BY <2>1, <2>2, <2>7, <3>1, SMT
    <3>4. QED
      BY <3>2, <3>3
  <2>5. QED
    BY <2>3, <2>4
<1>2. CASE WriteCasterCreds
  <2>1. k + 1 \in DOMAIN WriteOrder /\ k \in Nat
    BY WriteOrderLen, SMT
  <2>2. WriteOrder[k + 1] \in Fields
    BY <2>1
  <2>3. reply.creds \in 0 .. MaxVersion
    OBVIOUS
  <2>4. stored' \in [Fields -> 0 .. MaxVersion]
    BY <1>2, <2>2, <2>3 DEF WriteCasterCreds, CredTypeOK
  <2>5. CredTypeOK'
    BY <1>2, <2>4 DEF WriteCasterCreds, CredTypeOK, session
  <2>6. k' \in 0 .. Len(WriteOrder) - 1
    BY <1>2, <2>1, WriteOrderLen, SMTT(30) DEF WriteCasterCreds
  <2>7. p' \in {"write", "token", "reconnect"} /\ (p' = "token" => Enrolling) /\ (p' = "reconnect" => ~Enrolling)
    BY <1>2 DEF WriteCasterCreds
  <2>8. p = "write" /\ UNCHANGED <<nvs, state, s_token, reply, ie, crashes>>
    BY <1>2 DEF WriteCasterCreds
  <2>9. QED
    BY <2>5, <2>6, <2>7, <2>8
<1>3. CASE StoreToken
  BY <1>3 DEF StoreToken, credVars, store, session, CredTypeOK
<1>4. CASE StoreState
  BY <1>4, SMT DEF StoreState, credVars, store, session, CredTypeOK
<1>5. CASE TellSessions
  BY <1>5, SMT DEF TellSessions, session, CredTypeOK
<1>6. CASE EnrollDone
  <2>1. reply' = NoReply /\ state' = 1 /\ p' = "choose" /\ p = "promote"
    BY <1>6 DEF EnrollDone
  <2>2. UNCHANGED <<credVars, nvs, k, s_token, ie, crashes>>
    BY <1>6 DEF EnrollDone
  <2>3. TypeOK'
    BY <2>1, <2>2, NoReplyType DEF credVars, store, session, CredTypeOK
  <2>4. (Ledger /\ EnrolledIsKnown)'
    BY <2>1, <2>2, NoReplyType
  <2>5. QED
    BY <2>3, <2>4
<1>7. QED
  BY <1>1, <1>2, <1>3, <1>4, <1>5, <1>6 DEF Enroll

(* A heartbeat and the application of its answer. *)
LEMMA HeartbeatIInv == ASSUME IInv, Heartbeat PROVE IInv'
<1> USE DEF IInv, TypeOK, Ledger, EnrolledIsKnown, Enrolling, Points, States,
        Provisioned, Unclaimed, NoReply, nvs, credVars, store, session, CredTypeOK
<1>1. CASE HeartbeatAnswered
  <2>1. PICK promoted \in 1 .. 3 : reply' = [creds |-> ie.creds, token |-> 0, state |-> promoted]
    BY <1>1 DEF HeartbeatAnswered
  <2>2. reply' \in [creds : 0 .. MaxVersion, token : 0 .. MaxTokens, state : 0 .. 3]
    BY <2>1, ProvConstants, SMTT(30)
  <2>3. QED
    BY <1>1, <2>1, <2>2, SMT DEF HeartbeatAnswered
<1>2. CASE HeartbeatFails
  BY <1>2, SMT DEF HeartbeatFails
<1>3. CASE ApplyReply
  BY <1>3, SMT DEF ApplyReply
<1>4. CASE PersistState
  <2>1. reply' = NoReply /\ rtk_state' = reply.state /\ p' = "reread" /\ p = "persist"
    BY <1>4 DEF PersistState
  <2>2. UNCHANGED <<credVars, rtk_token, k, state, s_token, ie, crashes>>
    BY <1>4 DEF PersistState
  <2>3. TypeOK'
    BY <2>1, <2>2, NoReplyType
  <2>4. (Ledger /\ EnrolledIsKnown)'
    BY <2>1, <2>2, NoReplyType
  <2>5. QED
    BY <2>3, <2>4
<1>5. CASE RereadState
  BY <1>5, SMT DEF RereadState
<1>6. QED
  BY <1>1, <1>2, <1>3, <1>4, <1>5 DEF Heartbeat

(* The start of the task, the IE and the power supply. *)
LEMMA OthersIInv == ASSUME IInv, LoadIdentity \/ Repoint \/ Crash PROVE IInv'
<1> USE DEF IInv, TypeOK, Ledger, EnrolledIsKnown, Enrolling, Points, States,
        Provisioned, Unclaimed, NoReply, nvs, credVars, store, session, CredTypeOK
<1>1. CASE LoadIdentity
  BY <1>1, SMT DEF LoadIdentity
<1>2. CASE Repoint
  <2>1. ie' = [creds |-> ie.creds + 1, token |-> ie.token] /\ ie.creds < MaxVersion /\ MaxVersion \in Nat
    BY <1>2, CredConstants DEF Repoint
  <2>2. ie' \in [creds : 1 .. MaxVersion, token : 0 .. MaxTokens]
    BY <2>1, SMT
  <2>3. QED
    BY <1>2, <2>1, <2>2 DEF Repoint, task
<1>3. CASE Crash
  <2>1. Len(<<>>) <= Len(LoadOrder) /\ 0 \in 0 .. Len(WriteOrder) - 1
    BY CredConstants, WriteOrderLen, SMT
  <2>2. /\ reply' = NoReply /\ p' = "boot" /\ k' = 0 /\ state' = 0 /\ s_token' = 0
        /\ sess' = "idle" /\ loaded' = <<>> /\ conn_gen' = 0 /\ reconnect_gen' = 0
        /\ UNCHANGED <<stored, rtk_state, rtk_token, ie>>
    BY <1>3 DEF Crash
  <2>3. crashes' \in 0 .. MaxCrashes /\ s_token' \in 0 .. MaxTokens
    BY <1>3, <2>2, ProvConstants, SMT DEF Crash
  <2>4. CredTypeOK'
    BY <2>1, <2>2
  <2>5. TypeOK'
    BY <2>1, <2>2, <2>3, <2>4, NoReplyType
  <2>6. (Ledger /\ EnrolledIsKnown)'
    BY <2>2, NoReplyType
  <2>7. QED
    BY <2>5, <2>6
<1>4. QED
  BY <1>1, <1>2, <1>3

(* The invariant is inductive. *)
THEOREM ProvInvariant == Spec => []IInv
<1>1. IInv /\ [Next]_vars => IInv'
  <2> SUFFICES ASSUME IInv, [Next]_vars PROVE IInv'
    OBVIOUS
  <2>1. CASE Next
    BY <2>1, SessionIInv, EnrollIInv, HeartbeatIInv, OthersIInv DEF Next
  <2>2. CASE UNCHANGED vars
    BY <2>2 DEF vars, credVars, store, session, nvs, task, IInv, TypeOK, CredTypeOK, Ledger,
                EnrolledIsKnown, Enrolling
  <2>3. QED
    BY <2>1, <2>2
<1>2. QED
  BY <1>1, InitIInv, PTL DEF Spec

(* Every variable of provisioning_task and of the session keeps its type; no
   token, version or position in the list of keys runs over. *)
THEOREM ProvTypeCorrect == Spec => []TypeOK
<1>1. IInv => TypeOK
  BY DEF IInv
<1>2. QED
  BY <1>1, ProvInvariant, PTL

(* A station recorded as enrolled holds the token the IE accepts, however many
   requests were lost and wherever the power failed: enroll stores the token
   before the state. *)
THEOREM EnrolmentDurable == Spec => []EnrolledIsKnown
<1>1. IInv => EnrolledIsKnown
  BY DEF IInv
<1>2. QED
  BY <1>1, ProvInvariant, PTL

(***************************************************************************)
(* The configuration AP and the event queue: any set of clients, any window, *)
(* any number of rearms, and events queued to any length.                  *)
(***************************************************************************)

(* Handling the first event of a queue. *)
LEMMA TailQueue ==
    ASSUME NEW q \in Seq(Events), q # <<>>
    PROVE  /\ Tail(q) \in Seq(Events)
           /\ \A e : Has(Tail(q), e) => Has(q, e)
           /\ \A e : Has(q, e) /\ Head(q) # e => Has(Tail(q), e)
           /\ \A e, f : Followed(q, e, f) => Followed(Tail(q), e, f)
           /\ \A e, f : Followed(q, e, f) /\ Head(q) = e => Has(Tail(q), f)
           /\ JoinsLast(q) => JoinsLast(Tail(q)) \/ ~Has(Tail(q), "ap_stop")
           /\ JoinsLast(q) /\ Head(q) # "joined" => JoinsLast(Tail(q))
<1> DEFINE n == Len(q)
           r == Tail(q)
<1>1. /\ n \in Nat /\ n > 0 /\ r \in Seq(Events) /\ Len(r) = n - 1 /\ Head(q) = q[1]
      /\ \A i \in 1 .. n - 1 : r[i] = q[i + 1]
  OBVIOUS
<1> HIDE DEF r
<1>2. \A e : Has(r, e) => Has(q, e)
  BY <1>1 DEF Has
<1>3. \A e : Has(q, e) /\ Head(q) # e => Has(r, e)
  <2> SUFFICES ASSUME NEW e, NEW i \in 1 .. n, q[i] = e, q[1] # e PROVE Has(r, e)
    BY <1>1 DEF Has
  <2>1. i - 1 \in 1 .. n - 1 /\ r[i - 1] = e
    BY <1>1
  <2>2. QED
    BY <1>1, <2>1 DEF Has
<1>4. \A e, f : Followed(q, e, f) => Followed(r, e, f)
  <2> SUFFICES ASSUME NEW e, NEW f, Followed(q, e, f), NEW i \in 1 .. Len(r), r[i] = e
               PROVE  \E j \in i + 1 .. Len(r) : r[j] = f
    BY Zenon DEF Followed
  <2>1. i + 1 \in 1 .. n /\ q[i + 1] = e
    BY <1>1
  <2>2. PICK j \in i + 1 + 1 .. n : q[j] = f
    BY <2>1, Zenon DEF Followed
  <2>3. j - 1 \in i + 1 .. Len(r) /\ r[j - 1] = f
    BY <1>1, <2>2
  <2>4. QED
    BY <2>3
<1>5. \A e, f : Followed(q, e, f) /\ Head(q) = e => Has(r, f)
  <2> SUFFICES ASSUME NEW e, NEW f, Followed(q, e, f), q[1] = e PROVE Has(r, f)
    BY <1>1
  <2>1. PICK j \in 1 + 1 .. n : q[j] = f
    BY <1>1 DEF Followed
  <2>2. j - 1 \in 1 .. n - 1 /\ r[j - 1] = f
    BY <1>1, <2>1
  <2>3. QED
    BY <1>1, <2>2 DEF Has
<1>6. ASSUME JoinsLast(q)
      PROVE  /\ JoinsLast(r) \/ ~Has(r, "ap_stop")
             /\ Head(q) # "joined" => JoinsLast(r)
  <2>1. PICK i \in 1 .. n : q[i] = "joined" /\ \A j \in i + 1 .. n : q[j] # "ap_stop"
    BY <1>6, Zenon DEF JoinsLast
  <2>2. CASE i = 1
    <3>1. \A j \in 1 .. n - 1 : r[j] # "ap_stop"
      BY <1>1, <2>1, <2>2
    <3>2. QED
      BY <1>1, <2>1, <2>2, <3>1 DEF Has
  <2>3. CASE i # 1
    <3>1. i - 1 \in 1 .. n - 1 /\ r[i - 1] = "joined"
      BY <1>1, <2>1, <2>3
    <3>2. \A j \in i - 1 + 1 .. n - 1 : r[j] # "ap_stop"
      BY <1>1, <2>1, <2>3
    <3>3. JoinsLast(r)
      BY <1>1, <3>1, <3>2, Zenon DEF JoinsLast
    <3>4. QED
      BY <3>3
  <2>4. QED
    BY <2>2, <2>3
<1>7. QED
  BY <1>1, <1>2, <1>3, <1>4, <1>5, <1>6, Zenon DEF r

(* Posting events behind a queue. *)
LEMMA PostQueue ==
    ASSUME NEW q \in Seq(Events), NEW evs \in Seq(Events)
    PROVE  /\ q \o evs \in Seq(Events)
           /\ \A e : Has(q \o evs, e) <=> Has(q, e) \/ Has(evs, e)
           /\ \A e, f : /\ Followed(evs, e, f)
                        /\ Followed(q, e, f) \/ Has(evs, f)
                        => Followed(q \o evs, e, f)
           /\ JoinsLast(q) /\ ~Has(evs, "ap_stop") => JoinsLast(q \o evs)
           /\ JoinsLast(evs) => JoinsLast(q \o evs)
           /\ q # <<>> => q \o evs # <<>> /\ Head(q \o evs) = Head(q)
<1> DEFINE n == Len(q)
           m == Len(evs)
           r == q \o evs
<1>1. /\ n \in Nat /\ m \in Nat /\ r \in Seq(Events) /\ Len(r) = n + m
      /\ \A i \in 1 .. n : r[i] = q[i]
      /\ \A i \in 1 .. m : r[n + i] = evs[i]
  OBVIOUS
<1>2. q # <<>> => r # <<>> /\ Head(r) = Head(q)
  OBVIOUS
<1> HIDE DEF r, n, m
<1>3. \A i \in 1 .. n + m : i \in 1 .. n \/ (i - n \in 1 .. m /\ r[i] = evs[i - n])
  <2> TAKE i \in 1 .. n + m
  <2>1. i > n => i - n \in 1 .. m /\ n + (i - n) = i
    BY <1>1
  <2>2. QED
    BY <1>1, <2>1
<1>4. \A e : Has(r, e) <=> Has(q, e) \/ Has(evs, e)
  <2> TAKE e
  <2>1. Has(r, e) => Has(q, e) \/ Has(evs, e)
    BY <1>1, <1>3 DEF Has, n, m
  <2>2. Has(q, e) => Has(r, e)
    BY <1>1 DEF Has, n, m
  <2>3. ASSUME Has(evs, e) PROVE Has(r, e)
    <3>1. PICK i \in 1 .. m : evs[i] = e
      BY <2>3 DEF Has, m
    <3>2. n + i \in 1 .. n + m /\ r[n + i] = e
      BY <1>1, <3>1
    <3>3. QED
      BY <1>1, <3>2 DEF Has
  <2>4. QED
    BY <2>1, <2>2, <2>3
<1>5. ASSUME NEW e, NEW f, Followed(evs, e, f), Followed(q, e, f) \/ Has(evs, f)
      PROVE  Followed(r, e, f)
  <2> SUFFICES ASSUME NEW i \in 1 .. n + m, r[i] = e
               PROVE  \E j \in i + 1 .. n + m : r[j] = f
    BY <1>1 DEF Followed
  <2>1. CASE i \in 1 .. n /\ Followed(q, e, f)
    <3>1. PICK j \in i + 1 .. n : q[j] = f
      <4>1. q[i] = e
        BY <1>1, <2>1
      <4>2. QED
        BY <2>1, <4>1, Zenon DEF Followed, n
    <3>2. j \in i + 1 .. n + m /\ r[j] = f
      BY <1>1, <2>1, <3>1
    <3>3. QED
      BY <3>2
  <2>2. CASE i \in 1 .. n /\ Has(evs, f)
    <3>1. PICK j \in 1 .. m : evs[j] = f
      BY <2>2 DEF Has, m
    <3>2. n + j \in i + 1 .. n + m /\ r[n + j] = f
      BY <1>1, <2>2, <3>1
    <3>3. QED
      BY <3>2
  <2>3. CASE i \notin 1 .. n
    <3>1. i - n \in 1 .. m /\ evs[i - n] = e
      BY <1>3, <2>3
    <3>2. PICK j \in i - n + 1 .. m : evs[j] = f
      BY <1>5, <3>1, Zenon DEF Followed, m
    <3>3. n + j \in i + 1 .. n + m /\ r[n + j] = f
      BY <1>1, <3>1, <3>2
    <3>4. QED
      BY <3>3
  <2>4. QED
    BY <1>5, <2>1, <2>2, <2>3
<1>6. ASSUME JoinsLast(q), ~Has(evs, "ap_stop") PROVE JoinsLast(r)
  <2>1. PICK i \in 1 .. n : q[i] = "joined" /\ \A j \in i + 1 .. n : q[j] # "ap_stop"
    BY <1>6, Zenon DEF JoinsLast, n
  <2>2. \A j \in 1 .. m : evs[j] # "ap_stop"
    BY <1>6, Zenon DEF Has, m
  <2>3. i \in 1 .. n + m /\ r[i] = "joined"
    BY <1>1, <2>1
  <2>4. \A j \in i + 1 .. n + m : r[j] # "ap_stop"
    <3> TAKE j \in i + 1 .. n + m
    <3>1. CASE j \in 1 .. n
      BY <1>1, <2>1, <3>1
    <3>2. CASE j \notin 1 .. n
      <4>1. j \in 1 .. n + m
        BY <1>1, <2>1
      <4>2. j - n \in 1 .. m /\ r[j] = evs[j - n]
        BY <1>3, <3>2, <4>1, Zenon
      <4>3. QED
        BY <2>2, <4>2, Zenon
    <3>3. QED
      BY <3>1, <3>2
  <2>5. QED
    BY <1>1, <2>3, <2>4, Zenon DEF JoinsLast
<1>7. ASSUME JoinsLast(evs) PROVE JoinsLast(r)
  <2>1. PICK i \in 1 .. m : evs[i] = "joined" /\ \A j \in i + 1 .. m : evs[j] # "ap_stop"
    BY <1>7, Zenon DEF JoinsLast, m
  <2>2. n + i \in 1 .. n + m /\ r[n + i] = "joined"
    BY <1>1, <2>1
  <2>3. \A j \in n + i + 1 .. n + m : r[j] # "ap_stop"
    <3> TAKE j \in n + i + 1 .. n + m
    <3>1. j \in 1 .. n + m /\ j \notin 1 .. n /\ j - n \in i + 1 .. m
      BY <1>1, <2>1
    <3>2. r[j] = evs[j - n]
      BY <1>3, <3>1, Zenon
    <3>3. QED
      BY <2>1, <3>1, <3>2, Zenon
  <2>4. QED
    BY <1>1, <2>2, <2>3, Zenon DEF JoinsLast
<1>8. QED
  BY <1>1, <1>2, <1>4, <1>5, <1>6, <1>7, Zenon DEF r

(* A queue whose first event is an e holds the f that follows it. *)
LEMMA HeadFollowed ==
    ASSUME NEW q \in Seq(Events), q # <<>>, NEW e, NEW f, Head(q) = e, Followed(q, e, f)
    PROVE  Has(q, e) /\ Has(q, f)
<1>1. Len(q) \in Nat /\ 1 \in 1 .. Len(q) /\ q[1] = e
  OBVIOUS
<1>2. Has(q, e)
  BY <1>1, Zenon DEF Has
<1>3. Has(q, f)
  BY <1>2, TailQueue
<1>4. QED
  BY <1>2, <1>3

(* The sequences of events that are posted. *)
LEMMA EmptyQueue ==
    /\ <<>> \in Seq(Events) /\ ~JoinsLast(<<>>)
    /\ \A e : ~Has(<<>>, e)
    /\ \A e, f : Followed(<<>>, e, f)
<1>1. Len(<<>>) = 0 /\ 1 .. 0 = {}
  OBVIOUS
<1>2. QED
  BY <1>1 DEF Has, Followed, JoinsLast

(* A queue of one event. *)
LEMMA OneEvent ==
    ASSUME NEW e \in Events
    PROVE  /\ <<e>> \in Seq(Events)
           /\ \A f : Has(<<e>>, f) <=> f = e
           /\ \A f, g : f # e => Followed(<<e>>, f, g)
           /\ e = "joined" => JoinsLast(<<e>>)
<1> DEFINE q == <<e>>
<1>1. q \in Seq(Events) /\ Len(q) = 1 /\ q[1] = e /\ 1 .. 1 = {1}
  OBVIOUS
<1>2. \A j \in 1 + 1 .. 1 : FALSE
  OBVIOUS
<1> HIDE DEF q
<1>3. QED
  BY <1>1, <1>2 DEF Has, Followed, JoinsLast, q

(* The driver's start with an access point. *)
LEMMA StartEvents ==
    /\ <<"sta_start", "ap_start">> \in Seq(Events)
    /\ Has(<<"sta_start", "ap_start">>, "ap_start")
    /\ ~Has(<<"sta_start", "ap_start">>, "ap_stop")
    /\ Followed(<<"sta_start", "ap_start">>, "ap_stop", "ap_start")
<1> DEFINE q == <<"sta_start", "ap_start">>
<1>1. q \in Seq(Events) /\ Len(q) = 2 /\ q[1] = "sta_start" /\ q[2] = "ap_start"
  BY DEF Events
<1>2. 1 .. 2 = {1, 2}
  OBVIOUS
<1> HIDE DEF q
<1>3. QED
  BY <1>1, <1>2 DEF Has, Followed, q

(* Closing an access point: its clients leave first. *)
LEMMA StopEvents ==
    ASSUME IsFiniteSet(clients), ApUp
    PROVE  /\ ApStopped \in Seq(Events)
           /\ Has(ApStopped, "ap_stop")
           /\ ~Has(ApStopped, "ap_start")
           /\ Followed(ApStopped, "ap_start", "ap_stop")
<1> DEFINE n == Cardinality(clients)
           l == [i \in 1 .. n |-> "left"]
           q == Append(l, "ap_stop")
<1>1. n \in Nat
  BY FS_CardinalityType
<1> HIDE DEF n
<1>2. l \in Seq(Events) /\ Len(l) = n /\ \A i \in 1 .. n : l[i] = "left"
  BY <1>1 DEF Events
<1> HIDE DEF l
<1>3. /\ q \in Seq(Events) /\ Len(q) = n + 1 /\ q[n + 1] = "ap_stop"
      /\ \A i \in 1 .. n : q[i] = "left"
  BY <1>1, <1>2 DEF Events
<1> HIDE DEF q
<1>4. Has(q, "ap_stop")
  BY <1>1, <1>3 DEF Has
<1>5. \A i \in 1 .. n + 1 : q[i] # "ap_start"
  BY <1>1, <1>3
<1>6. ~Has(q, "ap_start") /\ Followed(q, "ap_start", "ap_stop")
  BY <1>3, <1>5, Zenon DEF Has, Followed
<1>7. ApStopped = q
  BY Zenon DEF ApStopped, Left, q, l, n
<1>8. QED
  BY <1>3, <1>4, <1>6, <1>7, Zenon

(* The constants as plain numbers. *)
LEMMA WifiNumbers ==
    /\ AP_AUTO_OFF \in Nat /\ AP_AUTO_OFF > 0 /\ AP_MAX_REARMS \in Nat
    /\ MAX_FAILED \in Nat /\ IsFiniteSet(Clients)
    /\ MaxFaults \in Nat /\ MaxJoins \in Nat /\ MaxReboots \in Nat
  BY WifiConstants, SMT

(* A window of w ticks, used c + 1 times. *)
LEMMA Windows ==
    ASSUME NEW w \in Nat, NEW m \in Nat, NEW c \in 0 .. m
    PROVE  /\ (c + 1) * w \in Nat /\ (m + 1) * w \in Nat
           /\ w <= (c + 1) * w /\ (c + 1) * w <= (m + 1) * w
           /\ (c + 1 + 1) * w = (c + 1) * w + w /\ (0 + 1) * w = w
<1>1. c * w \in Nat /\ m * w \in Nat /\ (m - c) * w \in Nat
  BY SMT
<1>2. (c + 1) * w = c * w + w /\ (m + 1) * w = m * w + w
  BY SMT
<1>3. m * w = c * w + (m - c) * w
  BY SMT
<1>4. (c + 1 + 1) * w = c * w + w + w /\ (0 + 1) * w = w
  BY SMT
<1>5. QED
  BY <1>2, <1>3, <1>4, SMT

(* The AP's events in the queue are kept. *)
ApKept ==
    /\ events' \in Seq(Events)
    /\ Has(events', "ap_start") <=> Has(events, "ap_start")
    /\ Has(events', "ap_stop") <=> Has(events, "ap_stop")
    /\ Followed(events, "ap_stop", "ap_start") => Followed(events', "ap_stop", "ap_start")
    /\ Followed(events, "ap_start", "ap_stop") => Followed(events', "ap_start", "ap_stop")
    /\ loop = "stopping" /\ events # <<>> => events' # <<>> /\ Head(events') = Head(events)

(* So is the last word on the AP's clients. *)
JoinKept == JoinsLast(events) => JoinsLast(events')

(* Events about anything else may be handled and posted. *)
LEMMA NeutralQueue ==
    ASSUME events \in Seq(Events), NEW r, NEW evs \in Seq(Events),
           \/ r = events
           \/ /\ loop = "free" /\ events # <<>> /\ r = Tail(events)
              /\ Head(events) # "ap_start" /\ Head(events) # "ap_stop",
           events' = r \o evs, ~Has(evs, "ap_start"), ~Has(evs, "ap_stop")
    PROVE  ApKept /\ (r = events \/ Head(events) # "joined" => JoinKept)
<1>1. /\ r \in Seq(Events)
      /\ Has(r, "ap_start") <=> Has(events, "ap_start")
      /\ Has(r, "ap_stop") <=> Has(events, "ap_stop")
      /\ Followed(events, "ap_stop", "ap_start") => Followed(r, "ap_stop", "ap_start")
      /\ Followed(events, "ap_start", "ap_stop") => Followed(r, "ap_start", "ap_stop")
      /\ r = events \/ Head(events) # "joined" => (JoinsLast(events) => JoinsLast(r))
      /\ loop = "stopping" => r = events
  <2>1. CASE r = events
    BY <2>1, Zenon
  <2>2. CASE r # events
    <3>1. /\ loop = "free" /\ events # <<>> /\ r = Tail(events)
          /\ Head(events) # "ap_start" /\ Head(events) # "ap_stop"
      BY <2>2, Zenon
    <3>2. loop # "stopping"
      BY <3>1
    <3>3. QED
      BY <2>2, <3>1, <3>2, TailQueue, Zenon
  <2>3. QED
    BY <2>1, <2>2, Zenon
<1>2. Followed(evs, "ap_stop", "ap_start") /\ Followed(evs, "ap_start", "ap_stop")
  BY Zenon DEF Has, Followed
<1>3. events' \in Seq(Events)
  BY <1>1, PostQueue, Zenon
<1>4. /\ Has(events', "ap_start") <=> Has(events, "ap_start")
      /\ Has(events', "ap_stop") <=> Has(events, "ap_stop")
  BY <1>1, PostQueue, Zenon
<1>5. /\ Followed(r, "ap_stop", "ap_start") => Followed(r \o evs, "ap_stop", "ap_start")
      /\ Followed(r, "ap_start", "ap_stop") => Followed(r \o evs, "ap_start", "ap_stop")
  BY <1>1, <1>2, PostQueue, Zenon
<1>6. loop = "stopping" /\ events # <<>> => events' # <<>> /\ Head(events') = Head(events)
  BY <1>1, PostQueue, Zenon
<1>7. JoinsLast(r) => JoinsLast(events')
  BY <1>1, PostQueue, Zenon
<1>8. QED
  BY <1>1, <1>3, <1>4, <1>5, <1>6, <1>7, Zenon DEF ApKept, JoinKept

(* The special cases: nothing, one event posted, one handled. *)
LEMMA SameQueue ==
    ASSUME events \in Seq(Events), events' = events
    PROVE  ApKept /\ JoinKept
  BY Zenon DEF ApKept, JoinKept

(* One event posted. *)
LEMMA PostOne ==
    ASSUME events \in Seq(Events), NEW e \in Events \ {"ap_start", "ap_stop"},
           events' = events \o <<e>>
    PROVE  ApKept /\ JoinKept
<1>1. <<e>> \in Seq(Events) /\ ~Has(<<e>>, "ap_start") /\ ~Has(<<e>>, "ap_stop")
  BY OneEvent, Zenon
<1>2. QED
  BY <1>1, NeutralQueue, Zenon

(* One event handled. *)
LEMMA HandleOne ==
    ASSUME events \in Seq(Events), NEW e \in Events \ {"ap_start", "ap_stop"},
           Handles(e), events' = Tail(events)
    PROVE  ApKept /\ (e # "joined" => JoinKept)
<1>1. loop = "free" /\ events # <<>> /\ Head(events) = e
  BY DEF Handles
<1>2. Tail(events) \in Seq(Events) /\ Head(events) # "ap_start" /\ Head(events) # "ap_stop"
  BY <1>1, TailQueue, Zenon
<1>3. Tail(events) \o <<>> = Tail(events)
  BY <1>2
<1>4. events' = Tail(events) \o <<>>
  BY <1>3, Zenon
<1>5. QED
  BY <1>1, <1>2, <1>4, EmptyQueue, NeutralQueue, Zenon

(* What a step keeps that leaves the AP's events alone. *)
LEMMA LastKept ==
    ASSUME LastApEvent, ApKept, running' = running, apsta' = apsta, loop' = loop
    PROVE  LastApEvent'
  BY Zenon DEF LastApEvent, ApKept, ApUp

(* Who has been seen stays seen. *)
LEMMA SeenKept ==
    ASSUME SeenOrQueued, ApKept, JoinKept, running' = running, apsta' = apsta,
           clients' # {} => clients # {}, clients' # {} /\ client_bit => client_bit'
    PROVE  SeenOrQueued'
  BY Zenon DEF SeenOrQueued, ApKept, JoinKept, ApUp

(* A window that is paid for stays paid for. *)
LEMMA PaidKept ==
    ASSUME WindowPaid, ApKept, running' = running, apsta' = apsta, open' = open,
           timer' = timer, ap_rearm_count' = ap_rearm_count,
           due_bit \/ ctrl # "wait" => due_bit' \/ ctrl' # "wait"
    PROVE  WindowPaid'
  BY Zenon DEF WindowPaid, ApBounded, ApKept, ApUp

(* The DNS answers go with the AP as before. *)
LEMMA DnsKept ==
    ASSUME DnsLives, ApKept, running' = running, apsta' = apsta, loop' = loop,
           UNCHANGED dnsVars
    PROVE  DnsLives'
<1>1. /\ s_run' = s_run /\ s_sock' = s_sock /\ s_dns_task' = s_dns_task /\ dns' = dns
      /\ dns_failed' = dns_failed
  BY Zenon DEF dnsVars
<1>2. QED
  BY <1>1, Zenon DEF DnsLives, ApKept, ApUp

(* The part of WifiInv that says something about the AP. *)
ApInv == LastApEvent /\ SeenOrQueued /\ WindowPaid /\ DnsLives

(* All of it. *)
LEMMA AllKept ==
    ASSUME ApInv, ApKept, JoinKept,
           UNCHANGED dnsVars, running' = running, apsta' = apsta, clients' = clients,
           loop' = loop, client_bit' = client_bit, due_bit' = due_bit, ctrl' = ctrl,
           ap_rearm_count' = ap_rearm_count, timer' = timer, open' = open
    PROVE  ApInv'
<1>1. LastApEvent /\ SeenOrQueued /\ WindowPaid /\ DnsLives
  BY DEF ApInv
<1>2. LastApEvent'
  BY <1>1, LastKept
<1>3. WindowPaid'
  <2>1. due_bit \/ ctrl # "wait" => due_bit' \/ ctrl' # "wait"
    BY Zenon
  <2>2. QED
    BY <1>1, <2>1, PaidKept
<1>4. DnsLives'
  BY <1>1, DnsKept
<1>5. SeenOrQueued'
  <2>1. (clients' # {} => clients # {}) /\ (clients' # {} /\ client_bit => client_bit')
    BY Zenon
  <2>2. QED
    BY <1>1, <2>1, SeenKept
<1>6. QED
  BY <1>2, <1>3, <1>4, <1>5 DEF ApInv

(***************************************************************************)
(* Types.                                                                  *)
(***************************************************************************)

(* The part of the type invariant that the rest of the proof uses. *)
Core ==
    /\ clients \subseteq Clients
    /\ events \in Seq(Events) /\ loop \in {"free", "stopping"}
    /\ ap_rearm_count \in 0 .. AP_MAX_REARMS /\ timer \in 0 .. AP_AUTO_OFF /\ open \in Nat
    /\ ctrl \in {"wait", "test", "stop"}

(* The part about the driver's flags, the station and the bounds. *)
Rest ==
    /\ DnsTypeOK
    /\ provisioned \in BOOLEAN /\ net \in BOOLEAN
    /\ running \in BOOLEAN /\ apsta \in BOOLEAN /\ link \in {"off", "trying", "assoc", "ip"}
    /\ client_bit \in BOOLEAN /\ due_bit \in BOOLEAN /\ ip_bit \in BOOLEAN
    /\ ap_active \in BOOLEAN /\ sta_active \in BOOLEAN /\ sta_connected \in BOOLEAN
    /\ failed_attempts \in 0 .. MAX_FAILED + 1
    /\ restarting \subseteq {"reconnect", "supervisor"}
    /\ restart_due \in BOOLEAN
    /\ faults \in 0 .. MaxFaults /\ joins \in 0 .. MaxJoins /\ reboots \in 0 .. MaxReboots
    /\ RestartCounted

(* The two are the whole of it. *)
LEMMA TypeParts == WifiTypeOK /\ RestartCounted <=> Core /\ Rest
  BY Zenon DEF WifiTypeOK, Core, Rest

(* The handlers keep every flag and every step of the DNS task in its set. *)
LEMMA EventLoopRest == ASSUME Rest, EventLoop PROVE Rest'
<1>1. CASE HandleStaStart
  <2>1. sta_active' \in BOOLEAN /\ link' \in {"off", "trying", "assoc", "ip"}
    BY <1>1, Zenon DEF HandleStaStart, Connect, Rest, DnsTypeOK, driver, flags
  <2>2. UNCHANGED <<s_run, s_sock, s_dns_task, dns, dns_failed, provisioned, net, running,
                    apsta, client_bit, due_bit, ip_bit, ap_active, sta_connected,
                    failed_attempts, restarting, restart_due, faults, joins, reboots>>
    BY <1>1, Zenon DEF HandleStaStart, Connect, dnsVars, world, driver, bits, flags, recon,
       bounds
  <2>3. QED
    BY <2>1, <2>2 DEF Rest, DnsTypeOK, RestartCounted
<1>2. CASE HandleStaStop
  <2>1. sta_active' \in BOOLEAN
    BY <1>2, Zenon DEF HandleStaStop, Rest, DnsTypeOK, flags
  <2>2. UNCHANGED <<s_run, s_sock, s_dns_task, dns, dns_failed, provisioned, net, running,
                    apsta, link, client_bit, due_bit, ip_bit, ap_active, sta_connected,
                    failed_attempts, restarting, restart_due, faults, joins, reboots>>
    BY <1>2, Zenon DEF HandleStaStop, dnsVars, world, driver, bits, flags, recon, bounds
  <2>3. QED
    BY <2>1, <2>2 DEF Rest, DnsTypeOK, RestartCounted
<1>3. CASE HandleStaConnected
  <2>1. sta_connected' \in BOOLEAN
    BY <1>3, Zenon DEF HandleStaConnected, Rest, DnsTypeOK, flags
  <2>2. UNCHANGED <<s_run, s_sock, s_dns_task, dns, dns_failed, provisioned, net, running,
                    apsta, link, client_bit, due_bit, ip_bit, ap_active, sta_active,
                    failed_attempts, restarting, restart_due, faults, joins, reboots>>
    BY <1>3, Zenon DEF HandleStaConnected, dnsVars, world, driver, bits, flags, recon, bounds
  <2>3. QED
    BY <2>1, <2>2 DEF Rest, DnsTypeOK, RestartCounted
<1>4. CASE HandleStaDisconnected
  <2>1. sta_connected' \in BOOLEAN /\ ip_bit' \in BOOLEAN /\ apsta' \in BOOLEAN /\
        ap_active' \in BOOLEAN
    BY <1>4, Zenon DEF HandleStaDisconnected, ApStartOnly, Rest, DnsTypeOK, driver, bits, flags
  <2>2. UNCHANGED <<s_run, s_sock, s_dns_task, dns, dns_failed, provisioned, net, running,
                    link, client_bit, due_bit, sta_active, failed_attempts, restarting,
                    restart_due, faults, joins, reboots>>
    BY <1>4, Zenon DEF HandleStaDisconnected, ApStartOnly, dnsVars, world, driver, bits, flags, recon, bounds
  <2>3. QED
    BY <2>1, <2>2 DEF Rest, DnsTypeOK, RestartCounted
<1>5. CASE HandleApStart
  <2>1. ap_active' \in BOOLEAN /\ s_run' \in BOOLEAN /\ s_sock' \in BOOLEAN /\ s_dns_task'
        \in BOOLEAN /\ dns' \in {"none", "socket", "check", "recv", "exit"} /\ dns_failed'
        \in BOOLEAN
    BY <1>5, Zenon DEF HandleApStart, dns_start, dnsVars, Rest, DnsTypeOK, dnsVars, flags
  <2>2. UNCHANGED <<provisioned, net, running, apsta, link, client_bit, due_bit, ip_bit,
                    sta_active, sta_connected, failed_attempts, restarting, restart_due,
                    faults, joins, reboots>>
    BY <1>5, Zenon DEF HandleApStart, dns_start, dnsVars, world, driver, bits, flags, recon,
       bounds
  <2>3. QED
    BY <2>1, <2>2 DEF Rest, DnsTypeOK, RestartCounted
<1>6. CASE HandleApStop
  <2>1. s_run' \in BOOLEAN /\ s_sock' \in BOOLEAN /\ s_dns_task' \in BOOLEAN /\ dns' \in
        {"none", "socket", "check", "recv", "exit"} /\ dns_failed' \in BOOLEAN
    BY <1>6, Zenon DEF HandleApStop, dns_stop, dnsVars, Rest, DnsTypeOK, dnsVars
  <2>2. UNCHANGED <<provisioned, net, running, apsta, link, client_bit, due_bit, ip_bit,
                    ap_active, sta_active, sta_connected, failed_attempts, restarting,
                    restart_due, faults, joins, reboots>>
    BY <1>6, Zenon DEF HandleApStop, dns_stop, dnsVars, world, driver, bits, flags, recon,
       bounds
  <2>3. QED
    BY <2>1, <2>2 DEF Rest, DnsTypeOK, RestartCounted
<1>7. CASE ApStopEnds
  <2>1. client_bit' \in BOOLEAN /\ ap_active' \in BOOLEAN
    BY <1>7, Zenon DEF ApStopEnds, Rest, DnsTypeOK, bits, flags
  <2>2. UNCHANGED <<s_run, s_sock, s_dns_task, dns, dns_failed, provisioned, net, running,
                    apsta, link, due_bit, ip_bit, sta_active, sta_connected,
                    failed_attempts, restarting, restart_due, faults, joins, reboots>>
    BY <1>7, Zenon DEF ApStopEnds, dnsVars, world, driver, bits, flags, recon, bounds
  <2>3. QED
    BY <2>1, <2>2 DEF Rest, DnsTypeOK, RestartCounted
<1>8. CASE HandleApStaConnected
  <2>1. client_bit' \in BOOLEAN
    BY <1>8, Zenon DEF HandleApStaConnected, Rest, DnsTypeOK, bits
  <2>2. UNCHANGED <<s_run, s_sock, s_dns_task, dns, dns_failed, provisioned, net, running,
                    apsta, link, due_bit, ip_bit, ap_active, sta_active, sta_connected,
                    failed_attempts, restarting, restart_due, faults, joins, reboots>>
    BY <1>8, Zenon DEF HandleApStaConnected, dnsVars, world, driver, bits, flags, recon, bounds
  <2>3. QED
    BY <2>1, <2>2 DEF Rest, DnsTypeOK, RestartCounted
<1>9. CASE HandleApStaDisconnected
  <2>1. client_bit' \in BOOLEAN
    BY <1>9, Zenon DEF HandleApStaDisconnected, Rest, DnsTypeOK, bits
  <2>2. UNCHANGED <<s_run, s_sock, s_dns_task, dns, dns_failed, provisioned, net, running,
                    apsta, link, due_bit, ip_bit, ap_active, sta_active, sta_connected,
                    failed_attempts, restarting, restart_due, faults, joins, reboots>>
    BY <1>9, Zenon DEF HandleApStaDisconnected, dnsVars, world, driver, bits, flags, recon,
       bounds
  <2>3. QED
    BY <2>1, <2>2 DEF Rest, DnsTypeOK, RestartCounted
<1>10. CASE HandleStaGotIp
  <2>1. ip_bit' \in BOOLEAN
    BY <1>10, Zenon DEF HandleStaGotIp, Rest, DnsTypeOK, bits
  <2>2. UNCHANGED <<s_run, s_sock, s_dns_task, dns, dns_failed, provisioned, net, running,
                    apsta, link, client_bit, due_bit, ap_active, sta_active, sta_connected,
                    failed_attempts, restarting, restart_due, faults, joins, reboots>>
    BY <1>10, Zenon DEF HandleStaGotIp, dnsVars, world, driver, bits, flags, recon, bounds
  <2>3. QED
    BY <2>1, <2>2 DEF Rest, DnsTypeOK, RestartCounted
<1>11. CASE HandleStaLostIp
  <2>1. ip_bit' \in BOOLEAN /\ link' \in {"off", "trying", "assoc", "ip"}
    BY <1>11, Zenon DEF HandleStaLostIp, Rest, DnsTypeOK, driver, bits
  <2>2. UNCHANGED <<s_run, s_sock, s_dns_task, dns, dns_failed, provisioned, net, running,
                    apsta, client_bit, due_bit, ap_active, sta_active, sta_connected,
                    failed_attempts, restarting, restart_due, faults, joins, reboots>>
    BY <1>11, Zenon DEF HandleStaLostIp, dnsVars, world, driver, bits, flags, recon, bounds
  <2>3. QED
    BY <2>1, <2>2 DEF Rest, DnsTypeOK, RestartCounted
<1>12. QED
  BY <1>1, <1>2, <1>3, <1>4, <1>5, <1>6, <1>7, <1>8, <1>9, <1>10, <1>11, Zenon DEF EventLoop

(* A fault is counted within its bound. *)
LEMMA FaultType ==
    ASSUME faults \in 0 .. MaxFaults, Fault \/ faults' = faults
    PROVE  faults' \in 0 .. MaxFaults
  BY WifiNumbers, SMT DEF Fault

(* The task that closes the AP, and time. *)
LEMMA ControlRest == ASSUME Rest, Control \/ Tick \/ ApStopNow PROVE Rest'
<1>1. CASE CtrlWakes
  <2>1. due_bit' \in BOOLEAN
    BY <1>1, Zenon DEF CtrlWakes, Rest, DnsTypeOK, bits
  <2>2. UNCHANGED <<s_run, s_sock, s_dns_task, dns, dns_failed, provisioned, net, running,
                    apsta, link, client_bit, ip_bit, ap_active, sta_active, sta_connected,
                    failed_attempts, restarting, restart_due, faults, joins, reboots>>
    BY <1>1, Zenon DEF CtrlWakes, dnsVars, world, driver, bits, flags, recon, bounds
  <2>3. QED
    BY <2>1, <2>2 DEF Rest, DnsTypeOK, RestartCounted
<1>2. CASE CtrlTests
  <2>1. UNCHANGED <<s_run, s_sock, s_dns_task, dns, dns_failed, provisioned, net, running,
                    apsta, link, client_bit, due_bit, ip_bit, ap_active, sta_active,
                    sta_connected, failed_attempts, restarting, restart_due, faults, joins,
                    reboots>>
    BY <1>2, Zenon DEF CtrlTests, dnsVars, world, driver, bits, flags, recon, bounds
  <2>2. QED
    BY <2>1 DEF Rest, DnsTypeOK, RestartCounted
<1>3. CASE CtrlStops
  <2>1. apsta' \in BOOLEAN /\ ap_active' \in BOOLEAN
    BY <1>3, Zenon DEF CtrlStops, Rest, DnsTypeOK, driver, flags
  <2>2. UNCHANGED <<s_run, s_sock, s_dns_task, dns, dns_failed, provisioned, net, running,
                    link, client_bit, due_bit, ip_bit, sta_active, sta_connected,
                    failed_attempts, restarting, restart_due, faults, joins, reboots>>
    BY <1>3, Zenon DEF CtrlStops, dnsVars, world, driver, bits, flags, recon, bounds
  <2>3. QED
    BY <2>1, <2>2 DEF Rest, DnsTypeOK, RestartCounted
<1>4. CASE Tick
  <2>1. due_bit' \in BOOLEAN
    BY <1>4, Zenon DEF Tick, Rest, DnsTypeOK, bits
  <2>2. UNCHANGED <<s_run, s_sock, s_dns_task, dns, dns_failed, provisioned, net, running,
                    apsta, link, client_bit, ip_bit, ap_active, sta_active, sta_connected,
                    failed_attempts, restarting, restart_due, faults, joins, reboots>>
    BY <1>4, Zenon DEF Tick, dnsVars, world, driver, bits, flags, recon, bounds
  <2>3. QED
    BY <2>1, <2>2 DEF Rest, DnsTypeOK, RestartCounted
<1>5. CASE ApStopNow
  <2>1. due_bit' \in BOOLEAN
    BY <1>5, Zenon DEF ApStopNow, Rest, DnsTypeOK, bits
  <2>2. faults' \in 0 .. MaxFaults
    BY <1>5, FaultType DEF ApStopNow, Rest
  <2>3. UNCHANGED <<s_run, s_sock, s_dns_task, dns, dns_failed, provisioned, net, running,
                    apsta, link, client_bit, ip_bit, ap_active, sta_active, sta_connected,
                    failed_attempts, restarting, restart_due, joins, reboots>>
    BY <1>5, Zenon DEF ApStopNow, dnsVars, world, driver, bits, flags, recon, bounds
  <2>4. QED
    BY <2>1, <2>2, <2>3 DEF Rest, DnsTypeOK, RestartCounted
<1>6. QED
  BY <1>1, <1>2, <1>3, <1>4, <1>5, Zenon DEF Control

(* Stopping and starting the driver. *)
LEMMA DriverRest ==
    ASSUME Rest, NEW t \in {"reconnect", "supervisor"},
           (DriverStop(t) /\ (Fault \/ faults' = faults)) \/ DriverStart(t)
    PROVE  Rest'
<1>1. CASE DriverStop(t) /\ (Fault \/ faults' = faults)
  <2>1. running' \in BOOLEAN /\ link' \in {"off", "trying", "assoc", "ip"}
    BY <1>1, Zenon DEF DriverStop, Rest, DnsTypeOK, driver
  <2>2. restarting' \subseteq {"reconnect", "supervisor"}
    BY <1>1 DEF DriverStop, Rest
  <2>3. faults' \in 0 .. MaxFaults
    BY <1>1, FaultType DEF Rest
  <2>4. UNCHANGED <<s_run, s_sock, s_dns_task, dns, dns_failed, provisioned, net, apsta,
                    client_bit, due_bit, ip_bit, ap_active, sta_active, sta_connected,
                    failed_attempts, restart_due, joins, reboots>>
    BY <1>1, Zenon DEF DriverStop, dnsVars, world, driver, bits, flags, recon, bounds
  <2>5. QED
    BY <2>1, <2>2, <2>3, <2>4 DEF Rest, DnsTypeOK, RestartCounted
<1>2. CASE DriverStart(t)
  <2>1. running' \in BOOLEAN
    BY <1>2, Zenon DEF DriverStart, Rest, DnsTypeOK, driver
  <2>2. restarting' \subseteq {"reconnect", "supervisor"}
    BY <1>2 DEF DriverStart, Rest
  <2>3. failed_attempts' \in 0 .. MAX_FAILED + 1
    BY <1>2, WifiNumbers DEF DriverStart, Rest
  <2>4. UNCHANGED <<s_run, s_sock, s_dns_task, dns, dns_failed, provisioned, net, apsta,
                    link, client_bit, due_bit, ip_bit, ap_active, sta_active, sta_connected,
                    restart_due, faults, joins, reboots>>
    BY <1>2, Zenon DEF DriverStart, dnsVars, world, driver, bits, flags, bounds
  <2>5. QED
    BY <2>1, <2>2, <2>3, <2>4 DEF Rest, DnsTypeOK, RestartCounted
<1>3. QED
  BY <1>1, <1>2, Zenon

(* The reconnecting task. *)
LEMMA ReconnectRest == ASSUME Rest, Reconnecting PROVE Rest'
<1>1. CASE Reconnect
  <2>1. link' \in {"off", "trying", "assoc", "ip"}
    BY <1>1, Zenon DEF Reconnect, Connect, Rest, DnsTypeOK, driver
  <2>2. failed_attempts' \in 0 .. MAX_FAILED + 1
    BY <1>1, WifiNumbers DEF Reconnect, Rest
  <2>3. UNCHANGED <<s_run, s_sock, s_dns_task, dns, dns_failed, provisioned, net, running,
                    apsta, client_bit, due_bit, ip_bit, ap_active, sta_active,
                    sta_connected, restarting, restart_due, faults, joins, reboots>>
    BY <1>1, Zenon DEF Reconnect, Connect, dnsVars, world, driver, bits, flags, recon, bounds
  <2>4. QED
    BY <2>1, <2>2, <2>3 DEF Rest, DnsTypeOK, RestartCounted
<1>2. CASE ReconnectIdle
  <2>1. failed_attempts' \in 0 .. MAX_FAILED + 1
    BY <1>2, WifiNumbers DEF ReconnectIdle, Rest
  <2>2. UNCHANGED <<s_run, s_sock, s_dns_task, dns, dns_failed, provisioned, net, running,
                    apsta, link, client_bit, due_bit, ip_bit, ap_active, sta_active,
                    sta_connected, restarting, restart_due, faults, joins, reboots>>
    BY <1>2, Zenon DEF ReconnectIdle, dnsVars, world, driver, bits, flags, recon, bounds
  <2>3. QED
    BY <2>1, <2>2 DEF Rest, DnsTypeOK, RestartCounted
<1>3. CASE ReconnectStops \/ DriverStart("reconnect")
  <2>1. (DriverStop("reconnect") /\ faults' = faults) \/ DriverStart("reconnect")
    BY <1>3, Zenon DEF ReconnectStops
  <2>2. QED
    BY <2>1, DriverRest
<1>4. QED
  BY <1>1, <1>2, <1>3, Zenon DEF Reconnecting

(* The driver, the network, the clients and the DNS task. *)
LEMMA WorldRest ==
    ASSUME Rest, Station \/ LoseAddress \/ NetworkChanges \/ Reconfigure \/ DnsTask
    PROVE  Rest'
<1>1. CASE Associate
  <2>1. link' \in {"off", "trying", "assoc", "ip"}
    BY <1>1, Zenon DEF Associate, Rest, DnsTypeOK, driver
  <2>2. UNCHANGED <<s_run, s_sock, s_dns_task, dns, dns_failed, provisioned, net, running,
                    apsta, client_bit, due_bit, ip_bit, ap_active, sta_active,
                    sta_connected, failed_attempts, restarting, restart_due, faults, joins,
                    reboots>>
    BY <1>1, Zenon DEF Associate, dnsVars, world, driver, bits, flags, recon, bounds
  <2>3. QED
    BY <2>1, <2>2 DEF Rest, DnsTypeOK, RestartCounted
<1>2. CASE Refused
  <2>1. link' \in {"off", "trying", "assoc", "ip"}
    BY <1>2, Zenon DEF Refused, Rest, DnsTypeOK, driver
  <2>2. UNCHANGED <<s_run, s_sock, s_dns_task, dns, dns_failed, provisioned, net, running,
                    apsta, client_bit, due_bit, ip_bit, ap_active, sta_active,
                    sta_connected, failed_attempts, restarting, restart_due, faults, joins,
                    reboots>>
    BY <1>2, Zenon DEF Refused, dnsVars, world, driver, bits, flags, recon, bounds
  <2>3. QED
    BY <2>1, <2>2 DEF Rest, DnsTypeOK, RestartCounted
<1>3. CASE ObtainIp
  <2>1. link' \in {"off", "trying", "assoc", "ip"}
    BY <1>3, Zenon DEF ObtainIp, Rest, DnsTypeOK, driver
  <2>2. UNCHANGED <<s_run, s_sock, s_dns_task, dns, dns_failed, provisioned, net, running,
                    apsta, client_bit, due_bit, ip_bit, ap_active, sta_active,
                    sta_connected, failed_attempts, restarting, restart_due, faults, joins,
                    reboots>>
    BY <1>3, Zenon DEF ObtainIp, dnsVars, world, driver, bits, flags, recon, bounds
  <2>3. QED
    BY <2>1, <2>2 DEF Rest, DnsTypeOK, RestartCounted
<1>4. CASE LoseAddress
  <2>1. link' \in {"off", "trying", "assoc", "ip"}
    BY <1>4, Zenon DEF LoseAddress, Rest, DnsTypeOK, driver
  <2>2. faults' \in 0 .. MaxFaults
    BY <1>4, FaultType DEF LoseAddress, Rest
  <2>3. UNCHANGED <<s_run, s_sock, s_dns_task, dns, dns_failed, provisioned, net, running,
                    apsta, client_bit, due_bit, ip_bit, ap_active, sta_active,
                    sta_connected, failed_attempts, restarting, restart_due, joins, reboots>>
    BY <1>4, Zenon DEF LoseAddress, dnsVars, world, driver, bits, flags, recon, bounds
  <2>4. QED
    BY <2>1, <2>2, <2>3 DEF Rest, DnsTypeOK, RestartCounted
<1>5. CASE NetworkChanges
  <2>1. net' \in BOOLEAN /\ link' \in {"off", "trying", "assoc", "ip"}
    BY <1>5, Zenon DEF NetworkChanges, Rest, DnsTypeOK, world, driver
  <2>2. faults' \in 0 .. MaxFaults
    BY <1>5, FaultType, Zenon DEF NetworkChanges, Rest
  <2>3. UNCHANGED <<s_run, s_sock, s_dns_task, dns, dns_failed, provisioned, running, apsta,
                    client_bit, due_bit, ip_bit, ap_active, sta_active, sta_connected,
                    failed_attempts, restarting, restart_due, joins, reboots>>
    BY <1>5, Zenon DEF NetworkChanges, dnsVars, world, driver, bits, flags, recon, bounds
  <2>4. QED
    BY <2>1, <2>2, <2>3 DEF Rest, DnsTypeOK, RestartCounted
<1>6. CASE Reconfigure
  <2>1. provisioned' \in BOOLEAN /\ restart_due' \in BOOLEAN
    BY <1>6, Zenon DEF Reconfigure, Rest, DnsTypeOK, world
  <2>2. RestartCounted'
    BY <1>6, Zenon DEF Reconfigure, bounds, RestartCounted
  <2>3. UNCHANGED <<s_run, s_sock, s_dns_task, dns, dns_failed, net, running, apsta, link,
                    client_bit, due_bit, ip_bit, ap_active, sta_active, sta_connected,
                    failed_attempts, restarting, faults, joins, reboots>>
    BY <1>6, Zenon DEF Reconfigure, dnsVars, world, driver, bits, flags, recon, bounds
  <2>4. QED
    BY <2>1, <2>2, <2>3 DEF Rest, DnsTypeOK
<1>7. CASE DnsTask
  <2>1. s_run' \in BOOLEAN /\ s_sock' \in BOOLEAN /\ s_dns_task' \in BOOLEAN /\ dns' \in
        {"none", "socket", "check", "recv", "exit"} /\ dns_failed' \in BOOLEAN
    BY <1>7, Zenon DEF DnsTask, DnsStep, DnsSocket, DnsCheck, DnsRecv, DnsExit, DnsFails, Rest,
       DnsTypeOK,
        dnsVars
  <2>2. faults' \in 0 .. MaxFaults
    BY <1>7, FaultType, Zenon DEF DnsTask, Rest
  <2>3. UNCHANGED <<provisioned, net, running, apsta, link, client_bit, due_bit, ip_bit,
                    ap_active, sta_active, sta_connected, failed_attempts, restarting,
                    restart_due, joins, reboots>>
    BY <1>7, Zenon DEF DnsTask, DnsStep, DnsSocket, DnsCheck, DnsRecv, DnsExit, DnsFails,
       world, driver,
        bits, flags, recon, bounds
  <2>4. QED
    BY <2>1, <2>2, <2>3 DEF Rest, DnsTypeOK, RestartCounted
<1>8. QED
  BY <1>1, <1>2, <1>3, <1>4, <1>5, <1>6, <1>7, Zenon DEF Station

(* A client comes or goes. *)
LEMMA ClientRest == ASSUME Rest, NEW c, Join(c) \/ Leave(c) PROVE Rest'
<1>1. CASE Join(c)
  <2>1. joins' \in 0 .. MaxJoins
    BY <1>1, WifiNumbers DEF Join, Rest
  <2>2. UNCHANGED <<s_run, s_sock, s_dns_task, dns, dns_failed, provisioned, net, running,
                    apsta, link, client_bit, due_bit, ip_bit, ap_active, sta_active,
                    sta_connected, failed_attempts, restarting, restart_due, faults, reboots>>
    BY <1>1, Zenon DEF Join, dnsVars, world, driver, bits, flags, recon, bounds
  <2>3. QED
    BY <2>1, <2>2 DEF Rest, DnsTypeOK, RestartCounted
<1>2. CASE Leave(c)
  <2>1. faults' \in 0 .. MaxFaults
    BY <1>2, FaultType, Zenon DEF Leave, Rest
  <2>2. UNCHANGED <<s_run, s_sock, s_dns_task, dns, dns_failed, provisioned, net, running,
                    apsta, link, client_bit, due_bit, ip_bit, ap_active, sta_active,
                    sta_connected, failed_attempts, restarting, restart_due, joins, reboots>>
    BY <1>2, Zenon DEF Leave, dnsVars, world, driver, bits, flags, recon, bounds
  <2>3. QED
    BY <2>1, <2>2 DEF Rest, DnsTypeOK, RestartCounted
<1>3. QED
  BY <1>1, <1>2, Zenon

(* A restart of the program. *)
LEMMA RestartRest == ASSUME Rest, Restart PROVE Rest'
<1>1. DnsTypeOK'
  BY Zenon DEF Restart, DnsTypeOK
<1>2. /\ running' \in BOOLEAN /\ apsta' \in BOOLEAN /\ client_bit' \in BOOLEAN
      /\ due_bit' \in BOOLEAN /\ ip_bit' \in BOOLEAN /\ ap_active' \in BOOLEAN
      /\ sta_active' \in BOOLEAN /\ sta_connected' \in BOOLEAN /\ restart_due' \in BOOLEAN
      /\ provisioned' \in BOOLEAN /\ net' \in BOOLEAN /\ ~restart_due'
  BY Zenon DEF Restart, Rest
<1>3. link' = "off" /\ restarting' = {} /\ failed_attempts' = 0
  BY Zenon DEF Restart
<1>4. reboots' \in 0 .. MaxReboots
  <2>1. reboots < MaxReboots /\ reboots' = reboots + 1 /\ reboots \in 0 .. MaxReboots
    BY Zenon DEF Restart, Rest, RestartCounted
  <2>2. QED
    BY <2>1, WifiNumbers
<1>5. faults' \in 0 .. MaxFaults /\ joins' \in 0 .. MaxJoins
  BY Zenon DEF Restart, Rest
<1>6. 0 \in 0 .. MAX_FAILED + 1
  BY WifiNumbers
<1>7. RestartCounted'
  BY <1>2, Zenon DEF RestartCounted
<1>8. QED
  BY <1>1, <1>2, <1>3, <1>4, <1>5, <1>6, <1>7, Zenon DEF Rest

(***************************************************************************)
(* The driver, the queue and the handlers.                                 *)
(***************************************************************************)

(* A step that handles or posts an event about something else, or none. *)
LEMMA Neutral ==
    ASSUME Core, ApInv, ApKept, JoinKept,
           UNCHANGED dnsVars, running' = running, apsta' = apsta, clients' = clients, loop'
           = loop, client_bit' = client_bit, due_bit' = due_bit, ctrl' = ctrl,
           ap_rearm_count' = ap_rearm_count, timer' = timer, open' = open
    PROVE  Core' /\ ApInv'
<1>1. ApInv'
  BY AllKept
<1>2. Core'
  BY DEF Core, ApKept
<1>3. QED
  BY <1>1, <1>2

(* Handlers that only concern the station. *)
LEMMA StationHandled ==
    ASSUME Core, ApInv,
           HandleStaStart \/ HandleStaStop \/ HandleStaGotIp \/ HandleStaLostIp
    PROVE  Core' /\ ApInv'
<1>1. CASE HandleStaStart
  <2>1. ApKept /\ JoinKept
    <3>1. Handles("sta_start") /\ events' = Tail(events)
      BY <1>1, Zenon DEF HandleStaStart
    <3>2. "sta_start" \in Events \ {"ap_start", "ap_stop"} /\ "sta_start" # "joined"
      BY DEF Events
    <3>3. events \in Seq(Events)
      BY Zenon DEF Core
    <3>4. QED
      BY <3>1, <3>2, <3>3, HandleOne, Zenon
  <2>2. UNCHANGED dnsVars /\ running' = running /\ apsta' = apsta /\ clients' = clients /\
        loop' = loop /\ client_bit' = client_bit /\ due_bit' = due_bit /\ ctrl' = ctrl /\
        ap_rearm_count' = ap_rearm_count /\ timer' = timer /\ open' = open
    BY <1>1, Zenon DEF HandleStaStart, bits, apTimer
  <2>3. QED
    BY <2>1, <2>2, Neutral
<1>2. CASE HandleStaStop
  <2>1. ApKept /\ JoinKept
    <3>1. Handles("sta_stop") /\ events' = Tail(events)
      BY <1>2, Zenon DEF HandleStaStop
    <3>2. "sta_stop" \in Events \ {"ap_start", "ap_stop"} /\ "sta_stop" # "joined"
      BY DEF Events
    <3>3. events \in Seq(Events)
      BY Zenon DEF Core
    <3>4. QED
      BY <3>1, <3>2, <3>3, HandleOne, Zenon
  <2>2. UNCHANGED dnsVars /\ running' = running /\ apsta' = apsta /\ clients' = clients /\
        loop' = loop /\ client_bit' = client_bit /\ due_bit' = due_bit /\ ctrl' = ctrl /\
        ap_rearm_count' = ap_rearm_count /\ timer' = timer /\ open' = open
    BY <1>2, Zenon DEF HandleStaStop, driver, bits, apTimer
  <2>3. QED
    BY <2>1, <2>2, Neutral
<1>3. CASE HandleStaGotIp
  <2>1. ApKept /\ JoinKept
    <3>1. Handles("got_ip") /\ events' = Tail(events)
      BY <1>3, Zenon DEF HandleStaGotIp
    <3>2. "got_ip" \in Events \ {"ap_start", "ap_stop"} /\ "got_ip" # "joined"
      BY DEF Events
    <3>3. events \in Seq(Events)
      BY Zenon DEF Core
    <3>4. QED
      BY <3>1, <3>2, <3>3, HandleOne, Zenon
  <2>2. UNCHANGED dnsVars /\ running' = running /\ apsta' = apsta /\ clients' = clients /\
        loop' = loop /\ client_bit' = client_bit /\ due_bit' = due_bit /\ ctrl' = ctrl /\
        ap_rearm_count' = ap_rearm_count /\ timer' = timer /\ open' = open
    BY <1>3, Zenon DEF HandleStaGotIp, driver, apTimer
  <2>3. QED
    BY <2>1, <2>2, Neutral
<1>4. CASE HandleStaLostIp
  <2>1. ApKept /\ JoinKept
    <3> DEFINE evs == IF link \in {"assoc", "ip"} THEN <<"sta_disconnected">> ELSE <<>>
    <3>1. Handles("lost_ip") /\ events' = Tail(events) \o evs
      BY <1>4, Zenon DEF HandleStaLostIp
    <3>2. loop = "free" /\ events # <<>> /\ Head(events) = "lost_ip" /\ events \in Seq(Events)
      BY <3>1, Zenon DEF Handles, Core
    <3>3. Head(events) # "ap_start" /\ Head(events) # "ap_stop" /\ Head(events) # "joined"
      BY <3>2
    <3>4. evs \in Seq(Events) /\ ~Has(evs, "ap_start") /\ ~Has(evs, "ap_stop")
      <4>1. "sta_disconnected" \in Events
        BY DEF Events
      <4>2. QED
        BY <4>1, OneEvent, EmptyQueue, Zenon
    <3> HIDE DEF evs
    <3>5. QED
      BY <3>1, <3>2, <3>3, <3>4, NeutralQueue, Zenon
  <2>2. UNCHANGED dnsVars /\ running' = running /\ apsta' = apsta /\ clients' = clients /\
        loop' = loop /\ client_bit' = client_bit /\ due_bit' = due_bit /\ ctrl' = ctrl /\
        ap_rearm_count' = ap_rearm_count /\ timer' = timer /\ open' = open
    BY <1>4, Zenon DEF HandleStaLostIp, apTimer
  <2>3. QED
    BY <2>1, <2>2, Neutral
<1>5. QED
  BY <1>1, <1>2, <1>3, <1>4, Zenon

(* Steps of the station, of the network and of the configuration. *)
LEMMA StationSteps ==
    ASSUME Core, ApInv,
           \/ Reconnect \/ ReconnectIdle \/ Reconfigure \/ UNCHANGED wifiVars
           \/ Station \/ LoseAddress \/ NetworkChanges
    PROVE  Core' /\ ApInv'
<1>1. CASE Reconnect
  <2>1. ApKept /\ JoinKept
    <3>1. events' = events
      BY <1>1, Zenon DEF Reconnect
    <3>2. QED
      BY <3>1, SameQueue, Zenon DEF Core
  <2>2. UNCHANGED dnsVars /\ running' = running /\ apsta' = apsta /\ clients' = clients /\
        loop' = loop /\ client_bit' = client_bit /\ due_bit' = due_bit /\ ctrl' = ctrl /\
        ap_rearm_count' = ap_rearm_count /\ timer' = timer /\ open' = open
    BY <1>1, Zenon DEF Reconnect, bits, apTimer
  <2>3. QED
    BY <2>1, <2>2, Neutral
<1>2. CASE ReconnectIdle
  <2>1. ApKept /\ JoinKept
    <3>1. events' = events
      BY <1>2, Zenon DEF ReconnectIdle
    <3>2. QED
      BY <3>1, SameQueue, Zenon DEF Core
  <2>2. UNCHANGED dnsVars /\ running' = running /\ apsta' = apsta /\ clients' = clients /\
        loop' = loop /\ client_bit' = client_bit /\ due_bit' = due_bit /\ ctrl' = ctrl /\
        ap_rearm_count' = ap_rearm_count /\ timer' = timer /\ open' = open
    BY <1>2, Zenon DEF ReconnectIdle, driver, bits, apTimer
  <2>3. QED
    BY <2>1, <2>2, Neutral
<1>3. CASE Reconfigure
  <2>1. ApKept /\ JoinKept
    <3>1. events' = events
      BY <1>3, Zenon DEF Reconfigure
    <3>2. QED
      BY <3>1, SameQueue, Zenon DEF Core
  <2>2. UNCHANGED dnsVars /\ running' = running /\ apsta' = apsta /\ clients' = clients /\
        loop' = loop /\ client_bit' = client_bit /\ due_bit' = due_bit /\ ctrl' = ctrl /\
        ap_rearm_count' = ap_rearm_count /\ timer' = timer /\ open' = open
    BY <1>3, Zenon DEF Reconfigure, driver, bits, apTimer
  <2>3. QED
    BY <2>1, <2>2, Neutral
<1>4. CASE UNCHANGED wifiVars
  <2>1. ApKept /\ JoinKept
    <3>1. events' = events
      BY <1>4, Zenon DEF wifiVars
    <3>2. QED
      BY <3>1, SameQueue, Zenon DEF Core
  <2>2. UNCHANGED dnsVars /\ running' = running /\ apsta' = apsta /\ clients' = clients /\
        loop' = loop /\ client_bit' = client_bit /\ due_bit' = due_bit /\ ctrl' = ctrl /\
        ap_rearm_count' = ap_rearm_count /\ timer' = timer /\ open' = open
    BY <1>4, Zenon DEF wifiVars, driver, bits, apTimer
  <2>3. QED
    BY <2>1, <2>2, Neutral
<1>5. CASE Associate
  <2>1. ApKept /\ JoinKept
    <3>1. events' = events \o <<"sta_connected">>
      BY <1>5, Zenon DEF Associate, DriverPosts, Post
    <3>2. "sta_connected" \in Events \ {"ap_start", "ap_stop"}
      BY DEF Events
    <3>3. QED
      BY <3>1, <3>2, PostOne, Zenon DEF Core
  <2>2. UNCHANGED dnsVars /\ running' = running /\ apsta' = apsta /\ clients' = clients /\
        loop' = loop /\ client_bit' = client_bit /\ due_bit' = due_bit /\ ctrl' = ctrl /\
        ap_rearm_count' = ap_rearm_count /\ timer' = timer /\ open' = open
    BY <1>5, Zenon DEF Associate, bits, apTimer
  <2>3. QED
    BY <2>1, <2>2, Neutral
<1>6. CASE Refused
  <2>1. ApKept /\ JoinKept
    <3>1. events' = events \o <<"sta_disconnected">>
      BY <1>6, Zenon DEF Refused, DriverPosts, Post
    <3>2. "sta_disconnected" \in Events \ {"ap_start", "ap_stop"}
      BY DEF Events
    <3>3. QED
      BY <3>1, <3>2, PostOne, Zenon DEF Core
  <2>2. UNCHANGED dnsVars /\ running' = running /\ apsta' = apsta /\ clients' = clients /\
        loop' = loop /\ client_bit' = client_bit /\ due_bit' = due_bit /\ ctrl' = ctrl /\
        ap_rearm_count' = ap_rearm_count /\ timer' = timer /\ open' = open
    BY <1>6, Zenon DEF Refused, bits, apTimer
  <2>3. QED
    BY <2>1, <2>2, Neutral
<1>7. CASE ObtainIp
  <2>1. ApKept /\ JoinKept
    <3>1. events' = events \o <<"got_ip">>
      BY <1>7, Zenon DEF ObtainIp, DriverPosts, Post
    <3>2. "got_ip" \in Events \ {"ap_start", "ap_stop"}
      BY DEF Events
    <3>3. QED
      BY <3>1, <3>2, PostOne, Zenon DEF Core
  <2>2. UNCHANGED dnsVars /\ running' = running /\ apsta' = apsta /\ clients' = clients /\
        loop' = loop /\ client_bit' = client_bit /\ due_bit' = due_bit /\ ctrl' = ctrl /\
        ap_rearm_count' = ap_rearm_count /\ timer' = timer /\ open' = open
    BY <1>7, Zenon DEF ObtainIp, bits, apTimer
  <2>3. QED
    BY <2>1, <2>2, Neutral
<1>8. CASE LoseAddress
  <2>1. ApKept /\ JoinKept
    <3>1. events' = events \o <<"lost_ip">>
      BY <1>8, Zenon DEF LoseAddress, DriverPosts, Post
    <3>2. "lost_ip" \in Events \ {"ap_start", "ap_stop"}
      BY DEF Events
    <3>3. QED
      BY <3>1, <3>2, PostOne, Zenon DEF Core
  <2>2. UNCHANGED dnsVars /\ running' = running /\ apsta' = apsta /\ clients' = clients /\
        loop' = loop /\ client_bit' = client_bit /\ due_bit' = due_bit /\ ctrl' = ctrl /\
        ap_rearm_count' = ap_rearm_count /\ timer' = timer /\ open' = open
    BY <1>8, Zenon DEF LoseAddress, bits, apTimer
  <2>3. QED
    BY <2>1, <2>2, Neutral
<1>9. CASE NetworkChanges
  <2>1. ApKept /\ JoinKept
    <3>1. events' = events \/ events' = events \o <<"sta_disconnected">>
      BY <1>9, Zenon DEF NetworkChanges, DriverPosts, Post
    <3>2. "sta_disconnected" \in Events \ {"ap_start", "ap_stop"}
      BY DEF Events
    <3>3. QED
      BY <3>1, <3>2, PostOne, SameQueue, Zenon DEF Core
  <2>2. UNCHANGED dnsVars /\ running' = running /\ apsta' = apsta /\ clients' = clients /\
        loop' = loop /\ client_bit' = client_bit /\ due_bit' = due_bit /\ ctrl' = ctrl /\
        ap_rearm_count' = ap_rearm_count /\ timer' = timer /\ open' = open
    BY <1>9, Zenon DEF NetworkChanges, bits, apTimer
  <2>3. QED
    BY <2>1, <2>2, Neutral
<1>10. QED
  BY <1>1, <1>2, <1>3, <1>4, <1>5, <1>6, <1>7, <1>8, <1>9, Zenon DEF Station

(* A step that changes the window only. *)
LEMMA WindowStep ==
    ASSUME Core, ApInv, ApKept, JoinKept, WindowPaid',
           UNCHANGED dnsVars, running' = running, apsta' = apsta, clients' = clients,
           loop' = loop, client_bit' = client_bit,
           ap_rearm_count' \in 0 .. AP_MAX_REARMS, timer' \in 0 .. AP_AUTO_OFF, open' \in Nat,
           ctrl' \in {"wait", "test", "stop"}
    PROVE  Core' /\ ApInv'
<1>1. LastApEvent /\ SeenOrQueued /\ DnsLives
  BY DEF ApInv
<1>2. LastApEvent'
  BY <1>1, LastKept
<1>3. DnsLives'
  BY <1>1, DnsKept
<1>4. SeenOrQueued'
  <2>1. (clients' # {} => clients # {}) /\ (clients' # {} /\ client_bit => client_bit')
    BY Zenon
  <2>2. QED
    BY <1>1, <2>1, SeenKept
<1>5. Core'
  BY DEF Core, ApKept
<1>6. QED
  BY <1>2, <1>3, <1>4, <1>5 DEF ApInv

(* The numbers of the window. *)
LEMMA WindowFacts ==
    ASSUME Core
    PROVE  /\ ap_rearm_count \in 0 .. AP_MAX_REARMS /\ timer \in 0 .. AP_AUTO_OFF
           /\ open \in Nat
           /\ ap_rearm_count \in Nat /\ timer \in Nat
           /\ AP_AUTO_OFF \in Nat /\ AP_AUTO_OFF > 0 /\ AP_MAX_REARMS \in Nat
           /\ (ap_rearm_count + 1) * AP_AUTO_OFF \in Nat
           /\ (AP_MAX_REARMS + 1) * AP_AUTO_OFF \in Nat
           /\ AP_AUTO_OFF <= (ap_rearm_count + 1) * AP_AUTO_OFF
           /\ (ap_rearm_count + 1) * AP_AUTO_OFF <= (AP_MAX_REARMS + 1) * AP_AUTO_OFF
           /\ (ap_rearm_count + 1 + 1) * AP_AUTO_OFF
                 = (ap_rearm_count + 1) * AP_AUTO_OFF + AP_AUTO_OFF
           /\ (0 + 1) * AP_AUTO_OFF = AP_AUTO_OFF
<1>1. /\ ap_rearm_count \in 0 .. AP_MAX_REARMS /\ timer \in 0 .. AP_AUTO_OFF /\ open \in Nat
  BY DEF Core
<1>2. AP_AUTO_OFF \in Nat /\ AP_AUTO_OFF > 0 /\ AP_MAX_REARMS \in Nat
  BY WifiNumbers
<1>3. ap_rearm_count \in Nat /\ timer \in Nat
  BY <1>1, <1>2
<1>4. QED
  BY <1>1, <1>2, <1>3, Windows

(* The window runs out: the control task is told, and it decides. *)
LEMMA ControlDecides ==
    ASSUME Core, ApInv, CtrlWakes \/ CtrlTests \/ ApStopNow
    PROVE  Core' /\ ApInv'
<1>1. /\ UNCHANGED dnsVars /\ running' = running /\ apsta' = apsta /\ clients' = clients
      /\ loop' = loop /\ client_bit' = client_bit /\ events' = events /\ open' = open
  BY Zenon DEF CtrlWakes, CtrlTests, ApStopNow, driver, bits
<1>2. ApKept /\ JoinKept
  BY <1>1, SameQueue, Zenon DEF Core
<1>3. WindowPaid
  BY DEF ApInv
<1>4. CASE CtrlWakes
  <2>1. timer' = timer /\ ap_rearm_count' = ap_rearm_count /\ ctrl' = "test"
    BY <1>4, Zenon DEF CtrlWakes, apTimer
  <2>2. ctrl' # "wait"
    BY <2>1
  <2>3. WindowPaid'
    BY <1>1, <1>2, <1>3, <2>1, <2>2, PaidKept, Zenon
  <2>4. QED
    BY <1>1, <1>2, <2>1, <2>3, WindowStep DEF Core
<1>5. CASE ApStopNow
  <2>1. timer' = timer /\ ap_rearm_count' = ap_rearm_count /\ ctrl' = ctrl /\ due_bit'
    BY <1>5, Zenon DEF ApStopNow, apTimer
  <2>2. WindowPaid'
    BY <1>1, <1>2, <1>3, <2>1, PaidKept, Zenon
  <2>3. QED
    BY <1>1, <1>2, <2>1, <2>2, WindowStep DEF Core
<1>6. CASE CtrlTests /\ ~MayRearm
  <2>1. timer' = timer /\ ap_rearm_count' = ap_rearm_count /\ ctrl' = "stop"
    BY <1>6, Zenon DEF CtrlTests, apTimer
  <2>2. ctrl' # "wait"
    BY <2>1
  <2>3. WindowPaid'
    BY <1>1, <1>2, <1>3, <2>1, <2>2, PaidKept, Zenon
  <2>4. QED
    BY <1>1, <1>2, <2>1, <2>3, WindowStep DEF Core
<1>7. CASE CtrlTests /\ MayRearm
  <2>1. /\ ap_rearm_count' = ap_rearm_count + 1 /\ timer' = AP_AUTO_OFF /\ ctrl' = "wait"
        /\ ap_rearm_count < AP_MAX_REARMS
    BY <1>7, Zenon DEF CtrlTests, MayRearm
  <2>2. ap_rearm_count' \in 0 .. AP_MAX_REARMS /\ timer' \in 0 .. AP_AUTO_OFF /\ timer' # 0
    BY <2>1, WindowFacts
  <2>3. ASSUME running, apsta, ~Has(events, "ap_start")
        PROVE  open + AP_AUTO_OFF <= (ap_rearm_count + 1 + 1) * AP_AUTO_OFF
    <3>1. open + timer <= (ap_rearm_count + 1) * AP_AUTO_OFF
      BY <1>3, <2>3, Zenon DEF WindowPaid, ApUp
    <3> DEFINE now == (ap_rearm_count + 1) * AP_AUTO_OFF
               next == (ap_rearm_count + 1 + 1) * AP_AUTO_OFF
    <3>2. now \in Nat /\ next = now + AP_AUTO_OFF /\ open + timer <= now
      BY <3>1, WindowFacts
    <3>3. open \in Nat /\ timer \in Nat /\ AP_AUTO_OFF \in Nat
      BY WindowFacts
    <3> HIDE DEF now, next
    <3>4. open + AP_AUTO_OFF <= next
      BY <3>2, <3>3
    <3>5. QED
      BY <3>4 DEF next
  <2>4. WindowPaid'
    <3>1. ApBounded'
      BY <1>1, <1>3, Zenon DEF WindowPaid, ApBounded
    <3>2. QED
      BY <1>1, <2>1, <2>2, <2>3, <3>1, Zenon DEF WindowPaid, ApUp
  <2>5. QED
    BY <1>1, <1>2, <2>1, <2>2, <2>4, WindowStep, WindowFacts
<1>8. QED
  BY <1>4, <1>5, <1>6, <1>7, Zenon

(* Time passes only while it is paid for. *)
LEMMA TickPaid ==
    ASSUME Core, ApInv, Tick
    PROVE  Core' /\ ApInv'
<1>1. /\ UNCHANGED dnsVars /\ running' = running /\ apsta' = apsta /\ clients' = clients
      /\ loop' = loop /\ client_bit' = client_bit /\ events' = events
      /\ ap_rearm_count' = ap_rearm_count /\ ctrl' = ctrl
  BY Zenon DEF Tick, driver
<1>2. /\ events = <<>> /\ ctrl = "wait" /\ ~due_bit /\ (timer > 0 \/ ApUp)
      /\ timer' = IF timer > 0 THEN timer - 1 ELSE 0
      /\ due_bit' = (timer = 1)
      /\ open' = IF ApUp THEN open + 1 ELSE open
  BY Zenon DEF Tick, Quiet
<1>3. ApKept /\ JoinKept
  BY <1>1, SameQueue, Zenon DEF Core
<1>4. WindowPaid
  BY DEF ApInv
<1>5. ~Has(events, "ap_start")
  BY <1>2, EmptyQueue, Zenon
<1>6. timer > 0
  <2>1. ASSUME ~(timer > 0) PROVE FALSE
    <3>1. ApUp
      BY <1>2, <2>1, Zenon
    <3>2. timer = 0
      BY <2>1, WindowFacts
    <3>3. due_bit \/ ctrl # "wait"
      BY <1>4, <3>1, <3>2, Zenon DEF WindowPaid, ApUp
    <3>4. QED
      BY <1>2, <3>3, Zenon
  <2>2. QED
    BY <2>1
<1>7. timer' = timer - 1 /\ timer' \in 0 .. AP_AUTO_OFF /\ (timer' = 0 => timer = 1)
  <2>1. timer' = timer - 1
    BY <1>2, <1>6, Zenon
  <2>2. QED
    BY <1>6, <2>1, WindowFacts
<1>8. apsta' /\ timer' = 0 => due_bit' \/ ctrl' # "wait"
  BY <1>2, <1>7, Zenon
<1>9. CASE ApUp
  <2> DEFINE now == (ap_rearm_count + 1) * AP_AUTO_OFF
             most == (AP_MAX_REARMS + 1) * AP_AUTO_OFF
  <2>1. open + timer <= now
    BY <1>4, <1>5, <1>9, Zenon DEF WindowPaid
  <2>2. open + 1 <= most /\ open + 1 + (timer - 1) <= now
    <3>1. /\ now \in Nat /\ most \in Nat /\ AP_AUTO_OFF \in Nat /\ timer \in Nat /\ open \in Nat
          /\ AP_AUTO_OFF <= now /\ now <= most /\ timer \in 0 .. AP_AUTO_OFF
      BY WindowFacts
    <3> HIDE DEF now, most
    <3>2. QED
      BY <1>6, <2>1, <3>1
  <2>3. open' = open + 1 /\ open' \in Nat
    <3>1. open' = open + 1
      BY <1>2, <1>9, Zenon
    <3>2. QED
      BY <3>1, WindowFacts
  <2>4. WindowPaid'
    BY <1>1, <1>7, <1>8, <2>2, <2>3, Zenon DEF WindowPaid, ApBounded
  <2>5. QED
    BY <1>1, <1>3, <1>7, <2>3, <2>4, WindowStep DEF Core
<1>10. CASE ~ApUp
  <2>1. open' = open
    BY <1>2, <1>10, Zenon
  <2>2. ~ApUp'
    BY <1>1, <1>10, Zenon DEF ApUp
  <2>3. WindowPaid'
    BY <1>4, <1>8, <2>1, <2>2, Zenon DEF WindowPaid, ApBounded
  <2>4. QED
    BY <1>1, <1>3, <1>7, <2>1, <2>3, WindowStep DEF Core
<1>11. QED
  BY <1>9, <1>10

(* The station connects: the window starts again. *)
LEMMA ConnectedPaid ==
    ASSUME Core, ApInv, HandleStaConnected
    PROVE  Core' /\ ApInv'
<1>1. /\ UNCHANGED dnsVars /\ running' = running /\ apsta' = apsta /\ clients' = clients
      /\ loop' = loop /\ client_bit' = client_bit /\ ctrl' = ctrl
      /\ ap_rearm_count' = ap_rearm_count /\ timer' = AP_AUTO_OFF /\ open' = 0
      /\ Handles("sta_connected") /\ events' = Tail(events)
  BY Zenon DEF HandleStaConnected, driver, bits
<1>2. ApKept /\ JoinKept
  <2>1. "sta_connected" \in Events \ {"ap_start", "ap_stop"} /\ "sta_connected" # "joined"
    BY DEF Events
  <2>2. QED
    BY <1>1, <2>1, HandleOne, Zenon DEF Core
<1>3. /\ 0 + AP_AUTO_OFF <= (ap_rearm_count + 1) * AP_AUTO_OFF
      /\ 0 <= (AP_MAX_REARMS + 1) * AP_AUTO_OFF /\ AP_AUTO_OFF # 0
      /\ AP_AUTO_OFF \in 0 .. AP_AUTO_OFF
  BY WindowFacts
<1>4. WindowPaid'
  BY <1>1, <1>3, Zenon DEF WindowPaid, ApBounded
<1>5. QED
  BY <1>1, <1>2, <1>3, <1>4, WindowStep DEF Core

(* A step that changes who is on the AP or whether that is seen. *)
LEMMA ClientStep ==
    ASSUME Core, ApInv, ApKept, SeenOrQueued', clients' \subseteq Clients,
           UNCHANGED dnsVars, running' = running, apsta' = apsta, loop' = loop,
           due_bit' = due_bit, ctrl' = ctrl, ap_rearm_count' = ap_rearm_count,
           timer' = timer, open' = open
    PROVE  Core' /\ ApInv'
<1>1. LastApEvent /\ WindowPaid /\ DnsLives
  BY DEF ApInv
<1>2. LastApEvent'
  BY <1>1, LastKept
<1>3. DnsLives'
  BY <1>1, DnsKept
<1>4. WindowPaid'
  <2>1. due_bit \/ ctrl # "wait" => due_bit' \/ ctrl' # "wait"
    BY Zenon
  <2>2. QED
    BY <1>1, <2>1, PaidKept
<1>5. Core'
  BY DEF Core, ApKept
<1>6. QED
  BY <1>2, <1>3, <1>4, <1>5 DEF ApInv

(* The handlers of joining and leaving. *)
LEMMA ClientsHandled ==
    ASSUME Core, ApInv, HandleApStaConnected \/ HandleApStaDisconnected
    PROVE  Core' /\ ApInv'
<1>1. /\ UNCHANGED dnsVars /\ running' = running /\ apsta' = apsta /\ loop' = loop
      /\ due_bit' = due_bit /\ ctrl' = ctrl /\ ap_rearm_count' = ap_rearm_count
      /\ timer' = timer /\ open' = open /\ clients' = clients /\ events' = Tail(events)
  BY Zenon DEF HandleApStaConnected, HandleApStaDisconnected, driver, apTimer
<1>2. clients' \subseteq Clients /\ events \in Seq(Events) /\ SeenOrQueued
  BY <1>1 DEF Core, ApInv
<1>3. CASE HandleApStaConnected
  <2>1. Handles("joined") /\ client_bit'
    BY <1>3, Zenon DEF HandleApStaConnected
  <2>2. ApKept
    <3>1. "joined" \in Events \ {"ap_start", "ap_stop"}
      BY DEF Events
    <3>2. QED
      BY <1>1, <1>2, <2>1, <3>1, HandleOne, Zenon
  <2>3. events # <<>>
    BY <2>1, Zenon DEF Handles
  <2>4. JoinsLast(events) => JoinsLast(events') \/ ~Has(events', "ap_stop")
    BY <1>1, <1>2, <2>3, TailQueue, Zenon
  <2>5. SeenOrQueued'
    BY <1>1, <1>2, <2>1, <2>2, <2>4, Zenon DEF SeenOrQueued, ApUp, ApKept
  <2>6. QED
    BY <1>1, <1>2, <2>2, <2>5, ClientStep
<1>4. CASE HandleApStaDisconnected
  <2>1. Handles("left") /\ client_bit' = IF clients = {} THEN FALSE ELSE client_bit
    BY <1>4, Zenon DEF HandleApStaDisconnected, NobodyLeft
  <2>2. ApKept /\ JoinKept
    <3>1. "left" \in Events \ {"ap_start", "ap_stop"} /\ "left" # "joined"
      BY DEF Events
    <3>2. QED
      BY <1>1, <1>2, <2>1, <3>1, HandleOne, Zenon
  <2>3. SeenOrQueued'
    <3>1. (clients' # {} => clients # {}) /\ (clients' # {} /\ client_bit => client_bit')
      BY <1>1, <2>1, Zenon
    <3>2. QED
      BY <1>1, <1>2, <2>2, <3>1, SeenKept
  <2>4. QED
    BY <1>1, <1>2, <2>2, <2>3, ClientStep
<1>5. QED
  BY <1>3, <1>4

(* Clients come and go. *)
LEMMA ClientsMove ==
    ASSUME Core, ApInv, NEW c \in Clients, Join(c) \/ Leave(c)
    PROVE  Core' /\ ApInv'
<1>1. /\ UNCHANGED dnsVars /\ running' = running /\ apsta' = apsta /\ loop' = loop
      /\ due_bit' = due_bit /\ ctrl' = ctrl /\ ap_rearm_count' = ap_rearm_count
      /\ timer' = timer /\ open' = open /\ client_bit' = client_bit
  BY Zenon DEF Join, Leave, bits, apTimer
<1>2. clients \subseteq Clients /\ events \in Seq(Events) /\ SeenOrQueued
  BY DEF Core, ApInv
<1>3. CASE Join(c)
  <2>1. ApUp /\ clients' = clients \cup {c} /\ events' = events \o <<"joined">>
    BY <1>3, Zenon DEF Join, DriverPosts, Post
  <2>2. "joined" \in Events \ {"ap_start", "ap_stop"} /\ "joined" \in Events
    BY DEF Events
  <2>3. ApKept
    BY <1>2, <2>1, <2>2, PostOne, Zenon
  <2>4. JoinsLast(events')
    <3>1. <<"joined">> \in Seq(Events) /\ JoinsLast(<<"joined">>)
      BY <2>2, OneEvent, Zenon
    <3>2. QED
      BY <1>2, <2>1, <3>1, PostQueue, Zenon
  <2>5. ApUp'
    BY <1>1, <2>1, Zenon DEF ApUp
  <2>6. SeenOrQueued'
    BY <2>4, <2>5, Zenon DEF SeenOrQueued
  <2>7. clients' \subseteq Clients
    BY <1>2, <2>1
  <2>8. QED
    BY <1>1, <2>3, <2>6, <2>7, ClientStep
<1>4. CASE Leave(c)
  <2>1. /\ clients' = clients \ {c}
        /\ events' = events \/ events' = events \o <<"left">>
    BY <1>4, Zenon DEF Leave, DriverPosts, Post
  <2>2. ApKept /\ JoinKept
    <3>1. "left" \in Events \ {"ap_start", "ap_stop"}
      BY DEF Events
    <3>2. QED
      BY <1>2, <2>1, <3>1, PostOne, SameQueue, Zenon
  <2>3. clients' \subseteq Clients /\ (clients' # {} => clients # {})
    BY <1>2, <2>1
  <2>4. SeenOrQueued'
    BY <1>1, <1>2, <2>2, <2>3, SeenKept
  <2>5. QED
    BY <1>1, <2>2, <2>3, <2>4, ClientStep
<1>5. QED
  BY <1>3, <1>4

(* The steps of the DNS task. *)
LEMMA DnsRuns ==
    ASSUME Core, ApInv, DnsTask
    PROVE  Core' /\ ApInv'
<1>1. /\ running' = running /\ apsta' = apsta /\ clients' = clients /\ loop' = loop
      /\ client_bit' = client_bit /\ due_bit' = due_bit /\ ctrl' = ctrl
      /\ ap_rearm_count' = ap_rearm_count /\ timer' = timer /\ open' = open /\ events' = events
  BY Zenon DEF DnsTask, driver, bits, apTimer
<1>2. ApKept /\ JoinKept
  BY <1>1, SameQueue, Zenon DEF Core
<1>3. LastApEvent /\ SeenOrQueued /\ WindowPaid /\ DnsLives /\ events \in Seq(Events)
      /\ loop \in {"free", "stopping"}
  BY DEF ApInv, Core
<1>4. LastApEvent' /\ SeenOrQueued' /\ WindowPaid'
  <2>1. LastApEvent'
    BY <1>1, <1>2, <1>3, LastKept
  <2>2. SeenOrQueued'
    <3>1. (clients' # {} => clients # {}) /\ (clients' # {} /\ client_bit => client_bit')
      BY <1>1, Zenon
    <3>2. QED
      BY <1>1, <1>2, <1>3, <3>1, SeenKept
  <2>3. WindowPaid'
    <3>1. due_bit \/ ctrl # "wait" => due_bit' \/ ctrl' # "wait"
      BY <1>1, Zenon
    <3>2. QED
      BY <1>1, <1>2, <1>3, <3>1, PaidKept
  <2>4. QED
    BY <2>1, <2>2, <2>3
<1>5. loop = "stopping" => Has(events, "ap_stop") /\ (ApUp => Has(events, "ap_start"))
  <2> SUFFICES ASSUME loop = "stopping"
               PROVE  Has(events, "ap_stop") /\ (ApUp => Has(events, "ap_start"))
    OBVIOUS
  <2>1. events # <<>> /\ Head(events) = "ap_stop"
    BY <1>3, Zenon DEF LastApEvent
  <2>2. Has(events, "ap_stop")
    <3>1. Len(events) \in Nat /\ 1 \in 1 .. Len(events) /\ events[1] = "ap_stop"
      BY <1>3, <2>1
    <3>2. QED
      BY <3>1, Zenon DEF Has
  <2>3. ApUp => Has(events, "ap_start")
    BY <1>3, <2>1, HeadFollowed, Zenon DEF LastApEvent
  <2>4. QED
    BY <2>2, <2>3
<1>6. loop = "free" \/ loop = "stopping"
  BY <1>3
<1>7. ApUp' <=> ApUp
  BY <1>1, Zenon DEF ApUp
<1>8. DnsLives'
  <2>1. CASE DnsSocket
    <3>1. dns = "socket" /\ s_sock' /\ dns' = "check" /\ s_run' = s_run
          /\ s_dns_task' = s_dns_task /\ dns_failed' = dns_failed
      BY <2>1, Zenon DEF DnsSocket
    <3>2. QED
      BY <1>1, <1>3, <1>6, <1>7, <3>1, Zenon DEF DnsLives
  <2>2. CASE DnsCheck
    <3>1. dns = "check" /\ (s_run => dns' = "recv") /\ (~s_run => dns' = "exit")
          /\ s_run' = s_run /\ s_sock' = s_sock
          /\ s_dns_task' = s_dns_task /\ dns_failed' = dns_failed
      BY <2>2, Zenon DEF DnsCheck
    <3>2. CASE s_run
      BY <1>1, <1>3, <1>6, <1>7, <3>1, <3>2, Zenon DEF DnsLives
    <3>3. CASE ~s_run
      BY <1>1, <1>3, <1>6, <1>7, <3>1, <3>3, Zenon DEF DnsLives
    <3>4. QED
      BY <3>2, <3>3
  <2>3. CASE DnsRecv
    <3>1. dns = "recv" /\ ~s_sock /\ dns' = "exit" /\ s_run' = s_run /\ s_sock' = s_sock
          /\ s_dns_task' = s_dns_task /\ dns_failed' = dns_failed
      BY <2>3, Zenon DEF DnsRecv
    <3>2. QED
      BY <1>1, <1>3, <1>6, <1>7, <3>1, Zenon DEF DnsLives
  <2>4. CASE DnsExit
    <3>1. dns = "exit" /\ dns' = "none" /\ ~s_dns_task' /\ ~s_sock'
      BY <2>4, Zenon DEF DnsExit
    <3>2. loop = "stopping"
      BY <1>3, <1>6, <3>1, Zenon DEF DnsLives
    <3>3. QED
      BY <1>1, <1>3, <1>5, <1>7, <3>1, <3>2, Zenon DEF DnsLives
  <2>5. CASE DnsFails
    <3>1. dns' = "none" /\ ~s_dns_task' /\ ~s_sock' /\ dns_failed'
      BY <2>5, Zenon DEF DnsFails
    <3>2. QED
      BY <1>1, <1>3, <1>6, <1>7, <3>1, Zenon DEF DnsLives
  <2>6. QED
    BY <2>1, <2>2, <2>3, <2>4, <2>5, Zenon DEF DnsTask, DnsStep
<1>9. Core'
  BY <1>1 DEF Core
<1>10. QED
  BY <1>4, <1>8, <1>9 DEF ApInv

(* The station is lost.  A unit without an SSID opens its AP, with a new window. *)
LEMMA DisconnectedOpens ==
    ASSUME Core, ApInv, HandleStaDisconnected
    PROVE  Core' /\ ApInv'
<1>1. /\ UNCHANGED dnsVars /\ running' = running /\ clients' = clients /\ loop' = loop
      /\ client_bit' = client_bit /\ due_bit' = due_bit /\ ctrl' = ctrl
      /\ ap_rearm_count' = ap_rearm_count /\ Handles("sta_disconnected")
  BY Zenon DEF HandleStaDisconnected, ApStartOnly
<1>2. LastApEvent /\ SeenOrQueued /\ WindowPaid /\ DnsLives /\ events \in Seq(Events)
  BY DEF ApInv, Core
<1>3. loop = "free" /\ events # <<>> /\ Head(events) = "sta_disconnected"
  BY <1>1, Zenon DEF Handles
<1>4. /\ "sta_disconnected" \in Events \ {"ap_start", "ap_stop"}
      /\ "sta_disconnected" # "joined" /\ "ap_start" \in Events
      /\ "ap_start" # "ap_stop"
  BY DEF Events
<1>5. CASE provisioned
  <2>1. apsta' = apsta /\ timer' = timer /\ open' = open /\ events' = Tail(events)
    BY <1>5, Zenon DEF HandleStaDisconnected, ApStartOnly
  <2>2. ApKept /\ JoinKept
    BY <1>1, <1>2, <1>4, <2>1, HandleOne, Zenon
  <2>3. QED
    BY <1>1, <2>1, <2>2, Neutral
<1>6. CASE ~provisioned /\ (apsta \/ ~running)
  <2>1. /\ apsta' \in BOOLEAN /\ (apsta => apsta')
        /\ timer' = AP_AUTO_OFF /\ open' = 0 /\ events' = Tail(events)
    BY <1>6, Zenon DEF HandleStaDisconnected, ApStartOnly
  <2>2. ApKept /\ JoinKept
    BY <1>1, <1>2, <1>4, <2>1, HandleOne, Zenon
  <2>3. ApUp' <=> ApUp
    BY <1>1, <1>6, <2>1, Zenon DEF ApUp
  <2>4. LastApEvent'
    BY <1>1, <1>2, <2>2, <2>3, Zenon DEF LastApEvent, ApKept
  <2>5. SeenOrQueued'
    BY <1>1, <1>2, <2>2, <2>3, Zenon DEF SeenOrQueued, ApKept, JoinKept
  <2>6. /\ 0 + AP_AUTO_OFF <= (ap_rearm_count + 1) * AP_AUTO_OFF
        /\ 0 <= (AP_MAX_REARMS + 1) * AP_AUTO_OFF /\ AP_AUTO_OFF # 0
        /\ AP_AUTO_OFF \in 0 .. AP_AUTO_OFF
    BY WindowFacts
  <2>7. WindowPaid'
    BY <1>1, <2>1, <2>6, Zenon DEF WindowPaid, ApBounded
  <2>8. DnsLives'
    <3>1. /\ s_run' = s_run /\ s_sock' = s_sock /\ s_dns_task' = s_dns_task /\ dns' = dns
          /\ dns_failed' = dns_failed
      BY <1>1, Zenon DEF dnsVars
    <3>2. QED
      BY <1>1, <1>2, <2>2, <2>3, <3>1, Zenon DEF DnsLives, ApKept
  <2>9. Core'
    BY <1>1, <2>1, <2>2, <2>6 DEF Core, ApKept
  <2>10. QED
    BY <2>4, <2>5, <2>7, <2>8, <2>9 DEF ApInv
<1>7. CASE ~provisioned /\ running /\ ~apsta
  <2> DEFINE r == Tail(events)
  <2>1. /\ apsta' = TRUE /\ timer' = AP_AUTO_OFF /\ open' = 0
        /\ events' = Append(r, "ap_start")
    BY <1>7, Zenon DEF HandleStaDisconnected, ApStartOnly
  <2>2. r \in Seq(Events)
    BY <1>2, <1>3, TailQueue, Zenon
  <2>3. events' = r \o <<"ap_start">>
    BY <2>1, <2>2
  <2> HIDE DEF r
  <2>4. /\ <<"ap_start">> \in Seq(Events) /\ Has(<<"ap_start">>, "ap_start")
        /\ Followed(<<"ap_start">>, "ap_stop", "ap_start")
    BY <1>4, OneEvent, Zenon
  <2>5. /\ events' \in Seq(Events) /\ Has(events', "ap_start")
        /\ Followed(events', "ap_stop", "ap_start")
    BY <2>2, <2>3, <2>4, PostQueue, Zenon
  <2>6. ApUp' /\ ~ApUp /\ loop' # "stopping"
    <3>1. ApUp' /\ ~ApUp
      BY <1>1, <1>7, <2>1, Zenon DEF ApUp
    <3>2. loop' # "stopping"
      BY <1>1, <1>3
    <3>3. QED
      BY <3>1, <3>2
  <2>7. LastApEvent'
    BY <2>5, <2>6, Zenon DEF LastApEvent
  <2>8. SeenOrQueued'
    BY <1>1, <1>2, <2>6, Zenon DEF SeenOrQueued
  <2>9. /\ 0 <= (AP_MAX_REARMS + 1) * AP_AUTO_OFF /\ AP_AUTO_OFF # 0
        /\ AP_AUTO_OFF \in 0 .. AP_AUTO_OFF
    BY WindowFacts
  <2>10. WindowPaid'
    BY <2>1, <2>5, <2>9, Zenon DEF WindowPaid, ApBounded
  <2>11. DnsLives'
    <3>1. /\ s_run' = s_run /\ s_sock' = s_sock /\ s_dns_task' = s_dns_task /\ dns' = dns
          /\ dns_failed' = dns_failed
      BY <1>1, Zenon DEF dnsVars
    <3>2. QED
      BY <1>1, <1>2, <2>5, <2>6, <3>1, Zenon DEF DnsLives
  <2>12. Core'
    BY <1>1, <2>1, <2>5, <2>9 DEF Core
  <2>13. QED
    BY <2>7, <2>8, <2>10, <2>11, <2>12 DEF ApInv
<1>8. QED
  BY <1>5, <1>6, <1>7, Zenon

(* The AP's start is handled: rounds and time are counted from here. *)
LEMMA StartHandled ==
    ASSUME Core, ApInv, HandleApStart
    PROVE  Core' /\ ApInv'
<1>1. /\ running' = running /\ apsta' = apsta /\ clients' = clients /\ loop' = loop
      /\ client_bit' = client_bit /\ due_bit' = due_bit /\ ctrl' = ctrl
      /\ timer' = timer /\ ap_rearm_count' = 0 /\ open' = 0 /\ events' = Tail(events)
      /\ Handles("ap_start") /\ dns_start
  BY Zenon DEF HandleApStart, driver, bits
<1>2. LastApEvent /\ SeenOrQueued /\ WindowPaid /\ DnsLives /\ events \in Seq(Events)
  BY DEF ApInv, Core
<1>3. loop = "free" /\ events # <<>> /\ Head(events) = "ap_start"
  BY <1>1, Zenon DEF Handles
<1>4. "ap_start" # "ap_stop" /\ "ap_start" # "joined" /\ loop' # "stopping"
  BY <1>1, <1>3
<1>5. /\ events' \in Seq(Events)
      /\ Has(events', "ap_stop") => Has(events, "ap_stop")
      /\ Followed(events, "ap_stop", "ap_start") => Followed(events', "ap_stop", "ap_start")
      /\ Followed(events, "ap_start", "ap_stop") =>
           Followed(events', "ap_start", "ap_stop") /\ Has(events', "ap_stop")
      /\ JoinsLast(events) => JoinsLast(events')
  BY <1>1, <1>2, <1>3, <1>4, TailQueue, Zenon
<1>6. ApUp' <=> ApUp
  BY <1>1, Zenon DEF ApUp
<1>7. LastApEvent'
  BY <1>2, <1>4, <1>5, <1>6, Zenon DEF LastApEvent
<1>8. SeenOrQueued'
  BY <1>1, <1>2, <1>5, <1>6, Zenon DEF SeenOrQueued
<1>9. /\ 0 + timer <= (0 + 1) * AP_AUTO_OFF /\ 0 <= (AP_MAX_REARMS + 1) * AP_AUTO_OFF
      /\ 0 \in 0 .. AP_MAX_REARMS
  BY WindowFacts
<1>10. WindowPaid'
  BY <1>1, <1>2, <1>9, Zenon DEF WindowPaid, ApBounded
<1>11. DnsLives'
  <2>1. CASE s_dns_task
    <3>1. /\ s_run' = s_run /\ s_sock' = s_sock /\ s_dns_task' = s_dns_task /\ dns' = dns
          /\ dns_failed' = dns_failed
      BY <1>1, <2>1, Zenon DEF dns_start, dnsVars
    <3>2. dns # "none"
      BY <1>2, <2>1, Zenon DEF DnsLives
    <3>3. ~ApUp => Has(events', "ap_stop")
      BY <1>2, <1>5, Zenon DEF LastApEvent
    <3>4. QED
      BY <1>1, <1>2, <1>3, <1>4, <1>6, <3>1, <3>2, <3>3, Zenon DEF DnsLives
  <2>2. CASE ~s_dns_task
    <3>1. s_run' /\ s_dns_task' /\ dns' = "socket" /\ ~dns_failed'
      BY <1>1, <2>2, Zenon DEF dns_start
    <3>2. ~ApUp => Has(events', "ap_stop")
      BY <1>2, <1>5, Zenon DEF LastApEvent
    <3>3. QED
      BY <1>4, <1>6, <3>1, <3>2, Zenon DEF DnsLives
  <2>3. QED
    BY <2>1, <2>2
<1>12. Core'
  BY <1>1, <1>5, <1>9 DEF Core
<1>13. QED
  BY <1>7, <1>8, <1>10, <1>11, <1>12 DEF ApInv

(* The AP's end is handled in two steps: the DNS task is told ... *)
LEMMA StopBegins ==
    ASSUME Core, ApInv, HandleApStop
    PROVE  Core' /\ ApInv'
<1>1. /\ running' = running /\ apsta' = apsta /\ clients' = clients
      /\ client_bit' = client_bit /\ due_bit' = due_bit /\ ctrl' = ctrl
      /\ timer' = timer /\ ap_rearm_count' = ap_rearm_count /\ open' = open
      /\ events' = events /\ Handles("ap_stop") /\ dns_stop /\ loop' = "stopping"
  BY Zenon DEF HandleApStop, driver, bits, apTimer
<1>2. LastApEvent /\ SeenOrQueued /\ WindowPaid /\ DnsLives /\ events \in Seq(Events)
  BY DEF ApInv, Core
<1>3. loop = "free" /\ events # <<>> /\ Head(events) = "ap_stop" /\ loop' # "free"
  <2>1. loop = "free" /\ events # <<>> /\ Head(events) = "ap_stop"
    BY <1>1, Zenon DEF Handles
  <2>2. QED
    BY <1>1, <2>1
<1>4. ApKept /\ JoinKept
  BY <1>1, <1>2, SameQueue
<1>5. ApUp' <=> ApUp
  BY <1>1, Zenon DEF ApUp
<1>6. LastApEvent'
  BY <1>1, <1>2, <1>3, <1>5, Zenon DEF LastApEvent
<1>7. SeenOrQueued'
  BY <1>1, <1>2, <1>5, Zenon DEF SeenOrQueued
<1>8. WindowPaid'
  BY <1>1, <1>2, <1>5, Zenon DEF WindowPaid, ApBounded
<1>9. DnsLives'
  <2>1. CASE s_dns_task
    <3>1. ~s_run' /\ ~s_sock' /\ s_dns_task' = s_dns_task /\ dns' = dns /\ dns_failed' = dns_failed
      BY <1>1, <2>1, Zenon DEF dns_stop
    <3>2. QED
      BY <1>1, <1>2, <1>3, <1>5, <3>1, Zenon DEF DnsLives
  <2>2. CASE ~s_dns_task
    <3>1. s_dns_task' = s_dns_task /\ dns' = dns /\ dns_failed' = dns_failed
      BY <1>1, <2>2, Zenon DEF dns_stop, dnsVars
    <3>2. dns = "none"
      BY <1>2, <2>2, Zenon DEF DnsLives
    <3>3. QED
      BY <1>1, <1>2, <1>3, <1>5, <3>1, <3>2, Zenon DEF DnsLives
  <2>3. QED
    BY <2>1, <2>2
<1>10. Core'
  BY <1>1 DEF Core
<1>11. QED
  BY <1>6, <1>7, <1>8, <1>9, <1>10 DEF ApInv

(* ... and has ended. *)
LEMMA StopHandled ==
    ASSUME Core, ApInv, ApStopEnds
    PROVE  Core' /\ ApInv'
<1>1. /\ UNCHANGED dnsVars /\ running' = running /\ apsta' = apsta /\ clients' = clients
      /\ due_bit' = due_bit /\ ctrl' = ctrl /\ timer' = timer /\ ap_rearm_count' = 0
      /\ open' = open /\ events' = Tail(events) /\ loop = "stopping" /\ loop' = "free"
      /\ dns = "none"
  BY Zenon DEF ApStopEnds, driver
<1>2. LastApEvent /\ SeenOrQueued /\ WindowPaid /\ DnsLives /\ events \in Seq(Events)
  BY DEF ApInv, Core
<1>3. events # <<>> /\ Head(events) = "ap_stop"
  BY <1>1, <1>2, Zenon DEF LastApEvent
<1>4. "ap_stop" # "joined" /\ "ap_stop" # "ap_start" /\ loop' # "stopping"
  BY <1>1
<1>5. /\ events' \in Seq(Events)
      /\ Followed(events, "ap_stop", "ap_start") =>
           Followed(events', "ap_stop", "ap_start") /\ Has(events', "ap_start")
      /\ Followed(events, "ap_start", "ap_stop") => Followed(events', "ap_start", "ap_stop")
      /\ JoinsLast(events) => JoinsLast(events')
  BY <1>1, <1>2, <1>3, <1>4, TailQueue, Zenon
<1>6. ApUp' <=> ApUp
  BY <1>1, Zenon DEF ApUp
<1>7. LastApEvent'
  BY <1>2, <1>4, <1>5, <1>6, Zenon DEF LastApEvent
<1>8. Has(events, "ap_stop")
  <2>1. Len(events) \in Nat /\ 1 \in 1 .. Len(events) /\ events[1] = "ap_stop"
    BY <1>2, <1>3
  <2>2. QED
    BY <2>1, Zenon DEF Has
<1>9. SeenOrQueued'
  BY <1>1, <1>2, <1>5, <1>6, <1>8, Zenon DEF SeenOrQueued
<1>10. ApUp' => Has(events', "ap_start")
  BY <1>2, <1>5, <1>6, Zenon DEF LastApEvent
<1>11. WindowPaid'
  BY <1>1, <1>2, <1>10, Zenon DEF WindowPaid, ApBounded
<1>12. DnsLives'
  <2>1. /\ s_run' = s_run /\ s_sock' = s_sock /\ s_dns_task' = s_dns_task /\ dns' = dns
        /\ dns_failed' = dns_failed
    BY <1>1, Zenon DEF dnsVars
  <2>2. QED
    BY <1>1, <1>2, <1>4, <1>10, <2>1, Zenon DEF DnsLives
<1>13. Core'
  BY <1>1, <1>5, WindowFacts DEF Core
<1>14. QED
  BY <1>7, <1>9, <1>11, <1>12, <1>13 DEF ApInv

(* The AP goes down with the mode or with the driver: its last event says so. *)
LEMMA ApCloses ==
    ASSUME Core, ApInv, NEW pre \in Seq(Events), ~Has(pre, "ap_start"), ~Has(pre, "ap_stop"),
           events' = events \o (pre \o ApStopped), ~ApUp', clients' = {},
           UNCHANGED dnsVars, loop' = loop, open' = open, timer' = timer,
           ap_rearm_count' = ap_rearm_count, ctrl' \in {"wait", "test", "stop"},
           apsta' /\ timer' = 0 => due_bit' \/ ctrl' # "wait"
    PROVE  Core' /\ ApInv'
<1> DEFINE evs == pre \o ApStopped
<1>1. LastApEvent /\ SeenOrQueued /\ WindowPaid /\ DnsLives /\ events \in Seq(Events)
      /\ clients \subseteq Clients
  BY DEF ApInv, Core
<1>2. Followed(pre, "ap_start", "ap_stop")
  BY Zenon DEF Has, Followed
<1>3. /\ evs \in Seq(Events) /\ Followed(evs, "ap_start", "ap_stop")
      /\ ApUp => Has(evs, "ap_stop")
  <2>1. CASE ApUp
    <3>1. IsFiniteSet(clients)
      BY <1>1, WifiNumbers, FS_Subset
    <3>2. /\ ApStopped \in Seq(Events) /\ Has(ApStopped, "ap_stop")
          /\ Followed(ApStopped, "ap_start", "ap_stop")
      BY <2>1, <3>1, StopEvents
    <3>3. QED
      BY <1>2, <3>2, PostQueue, Zenon
  <2>2. CASE ~ApUp
    <3>1. ApStopped = <<>>
      BY <2>2, Zenon DEF ApStopped
    <3>2. QED
      BY <1>2, <2>2, <3>1, EmptyQueue, PostQueue, Zenon
  <2>3. QED
    BY <2>1, <2>2
<1>4. events' = events \o evs
  OBVIOUS
<1> HIDE DEF evs
<1>5. events' \in Seq(Events)
  BY <1>1, <1>3, <1>4, PostQueue, ZenonT(30)
<1>6. Followed(events', "ap_start", "ap_stop")
  <2>1. Followed(events, "ap_start", "ap_stop") \/ Has(evs, "ap_stop")
    BY <1>1, <1>3, Zenon DEF LastApEvent
  <2>2. Followed(events \o evs, "ap_start", "ap_stop")
    BY <1>1, <1>3, <2>1, PostQueue, Zenon
  <2>3. QED
    BY <1>4, <2>2, Zenon
<1>7. (ApUp \/ Has(events, "ap_stop")) => Has(events', "ap_stop")
  <2>1. Has(events, "ap_stop") \/ Has(evs, "ap_stop") => Has(events \o evs, "ap_stop")
    BY <1>1, <1>3, PostQueue, Zenon
  <2>2. QED
    BY <1>3, <1>4, <2>1, Zenon
<1>8. events # <<>> => events' # <<>> /\ Head(events') = Head(events)
  BY <1>1, <1>3, <1>4, PostQueue, Zenon
<1>9. LastApEvent'
  BY <1>1, <1>6, <1>8, Zenon DEF LastApEvent
<1>10. SeenOrQueued'
  BY Zenon DEF SeenOrQueued
<1>11. WindowPaid'
  BY <1>1, Zenon DEF WindowPaid, ApBounded
<1>12. DnsLives'
  <2>1. /\ s_run' = s_run /\ s_sock' = s_sock /\ s_dns_task' = s_dns_task /\ dns' = dns
        /\ dns_failed' = dns_failed
    BY Zenon DEF dnsVars
  <2>2. QED
    BY <1>1, <1>7, <2>1, Zenon DEF DnsLives
<1>13. Core'
  <2>1. {} \subseteq Clients
    OBVIOUS
  <2>2. QED
    BY <1>5, <2>1 DEF Core
<1>14. QED
  BY <1>9, <1>10, <1>11, <1>12, <1>13 DEF ApInv

(* wifi_ap_stop_only *)
LEMMA ControlCloses ==
    ASSUME Core, ApInv, CtrlStops
    PROVE  Core' /\ ApInv'
<1>1. /\ ctrl' = "wait" /\ ~apsta' /\ clients' = {} /\ events' = events \o ApStopped
      /\ UNCHANGED dnsVars /\ loop' = loop /\ open' = open /\ timer' = timer
      /\ ap_rearm_count' = ap_rearm_count
  BY Zenon DEF CtrlStops, Post, apTimer
<1>2. ~ApUp'
  BY <1>1, Zenon DEF ApUp
<1>3. <<>> \in Seq(Events) /\ ~Has(<<>>, "ap_start") /\ ~Has(<<>>, "ap_stop")
  BY EmptyQueue
<1>4. events' = events \o (<<>> \o ApStopped)
  <2>1. ApStopped \in Seq(Events)
    <3>1. CASE ApUp
      <4>1. IsFiniteSet(clients)
        BY WifiNumbers, FS_Subset DEF Core
      <4>2. QED
        BY <3>1, <4>1, StopEvents
    <3>2. CASE ~ApUp
      BY <1>3, <3>2, Zenon DEF ApStopped
    <3>3. QED
      BY <3>1, <3>2
  <2>2. <<>> \o ApStopped = ApStopped
    BY <2>1
  <2>3. QED
    BY <1>1, <2>2, Zenon
<1>5. ctrl' \in {"wait", "test", "stop"} /\ (apsta' /\ timer' = 0 => due_bit' \/ ctrl' # "wait")
  BY <1>1, Zenon
<1>6. QED
  BY <1>1, <1>2, <1>3, <1>4, <1>5, ApCloses

(* esp_wifi_stop *)
LEMMA DriverCloses ==
    ASSUME Core, ApInv, NEW t, DriverStop(t)
    PROVE  Core' /\ ApInv'
<1> DEFINE a == IF link # "off" THEN <<"sta_disconnected">> ELSE <<>>
           b == IF running THEN <<"sta_stop">> ELSE <<>>
           pre == a \o b
<1>1. /\ ~running' /\ clients' = {} /\ events' = events \o (pre \o ApStopped)
      /\ UNCHANGED dnsVars /\ loop' = loop /\ open' = open /\ timer' = timer
      /\ ap_rearm_count' = ap_rearm_count /\ apsta' = apsta /\ due_bit' = due_bit
      /\ ctrl' = ctrl
  BY Zenon DEF DriverStop, Post, bits, apTimer
<1>2. ~ApUp'
  BY <1>1, Zenon DEF ApUp
<1>3. /\ "sta_disconnected" \in Events /\ "sta_stop" \in Events
      /\ "sta_disconnected" # "ap_start" /\ "sta_disconnected" # "ap_stop"
      /\ "sta_stop" # "ap_start" /\ "sta_stop" # "ap_stop"
  BY DEF Events
<1>4. a \in Seq(Events) /\ ~Has(a, "ap_start") /\ ~Has(a, "ap_stop")
  BY <1>3, OneEvent, EmptyQueue, Zenon
<1>5. b \in Seq(Events) /\ ~Has(b, "ap_start") /\ ~Has(b, "ap_stop")
  BY <1>3, OneEvent, EmptyQueue, Zenon
<1> HIDE DEF a, b
<1>6. pre \in Seq(Events) /\ ~Has(pre, "ap_start") /\ ~Has(pre, "ap_stop")
  BY <1>4, <1>5, PostQueue, Zenon
<1> HIDE DEF pre
<1>7. /\ ctrl' \in {"wait", "test", "stop"}
      /\ apsta' /\ timer' = 0 => due_bit' \/ ctrl' # "wait"
  <2>1. ctrl \in {"wait", "test", "stop"} /\ WindowPaid
    BY DEF Core, ApInv
  <2>2. QED
    BY <1>1, <2>1, Zenon DEF WindowPaid
<1>8. QED
  BY <1>1, <1>2, <1>6, <1>7, ApCloses

(* esp_wifi_start *)
LEMMA DriverOpens ==
    ASSUME Core, ApInv, NEW t, DriverStart(t)
    PROVE  Core' /\ ApInv'
<1>1. /\ running' = TRUE /\ apsta' = apsta /\ clients' = clients /\ loop' = loop
      /\ client_bit' = client_bit /\ due_bit' = due_bit /\ ctrl' = ctrl /\ UNCHANGED dnsVars
      /\ timer' = timer /\ ap_rearm_count' = ap_rearm_count /\ open' = open
      /\ events' = events \o IF running THEN <<>> ELSE Started
  BY Zenon DEF DriverStart, Post, bits, apTimer
<1>2. LastApEvent /\ SeenOrQueued /\ WindowPaid /\ DnsLives /\ events \in Seq(Events)
  BY DEF ApInv, Core
<1>3. CASE running
  <2>1. events' = events \o <<>>
    BY <1>1, <1>3, Zenon
  <2>2. ApKept /\ JoinKept
    BY <1>2, <2>1, EmptyQueue, NeutralQueue, Zenon
  <2>3. ApUp' <=> ApUp
    BY <1>1, <1>3, Zenon DEF ApUp
  <2>4. LastApEvent' /\ SeenOrQueued' /\ WindowPaid'
    BY <1>1, <1>2, <2>2, <2>3, Zenon DEF LastApEvent, SeenOrQueued, WindowPaid, ApBounded,
       ApKept, JoinKept
  <2>5. DnsLives'
    <3>1. /\ s_run' = s_run /\ s_sock' = s_sock /\ s_dns_task' = s_dns_task /\ dns' = dns
          /\ dns_failed' = dns_failed
      BY <1>1, Zenon DEF dnsVars
    <3>2. QED
      BY <1>1, <1>2, <2>2, <2>3, <3>1, Zenon DEF DnsLives, ApKept
  <2>6. Core'
    BY <1>1, <2>2 DEF Core, ApKept
  <2>7. QED
    BY <2>4, <2>5, <2>6 DEF ApInv
<1>4. CASE ~running /\ apsta
  <2> DEFINE evs == <<"sta_start", "ap_start">>
  <2>1. events' = events \o evs
    BY <1>1, <1>4, Zenon DEF Started
  <2>2. evs \in Seq(Events) /\ Has(evs, "ap_start") /\ Followed(evs, "ap_stop", "ap_start")
    BY StartEvents
  <2> HIDE DEF evs
  <2>3. /\ events' \in Seq(Events) /\ Has(events', "ap_start")
        /\ Followed(events', "ap_stop", "ap_start")
        /\ events # <<>> => events' # <<>> /\ Head(events') = Head(events)
    BY <1>2, <2>1, <2>2, PostQueue, Zenon
  <2>4. ApUp' /\ ~ApUp
    BY <1>1, <1>4, Zenon DEF ApUp
  <2>5. LastApEvent'
    BY <1>1, <1>2, <2>3, <2>4, Zenon DEF LastApEvent
  <2>6. SeenOrQueued'
    BY <1>1, <1>2, <2>4, Zenon DEF SeenOrQueued
  <2>7. WindowPaid'
    BY <1>1, <1>2, <2>3, Zenon DEF WindowPaid, ApBounded
  <2>8. DnsLives'
    <3>1. /\ s_run' = s_run /\ s_sock' = s_sock /\ s_dns_task' = s_dns_task /\ dns' = dns
          /\ dns_failed' = dns_failed
      BY <1>1, Zenon DEF dnsVars
    <3>2. QED
      BY <1>1, <1>2, <2>3, <2>4, <3>1, Zenon DEF DnsLives
  <2>9. Core'
    BY <1>1, <2>3 DEF Core
  <2>10. QED
    BY <2>5, <2>6, <2>7, <2>8, <2>9 DEF ApInv
<1>5. CASE ~running /\ ~apsta
  <2>1. events' = events \o <<"sta_start">>
    BY <1>1, <1>5, Zenon DEF Started
  <2>2. "sta_start" \in Events \ {"ap_start", "ap_stop"}
    BY DEF Events
  <2>3. ApKept /\ JoinKept
    BY <1>2, <2>1, <2>2, PostOne, Zenon
  <2>4. ~ApUp' /\ ~ApUp
    BY <1>1, <1>5, Zenon DEF ApUp
  <2>5. LastApEvent' /\ SeenOrQueued' /\ WindowPaid'
    BY <1>1, <1>2, <2>3, <2>4, Zenon DEF LastApEvent, SeenOrQueued, WindowPaid, ApBounded,
       ApKept, JoinKept
  <2>6. DnsLives'
    <3>1. /\ s_run' = s_run /\ s_sock' = s_sock /\ s_dns_task' = s_dns_task /\ dns' = dns
          /\ dns_failed' = dns_failed
      BY <1>1, Zenon DEF dnsVars
    <3>2. QED
      BY <1>1, <1>2, <2>3, <2>4, <3>1, Zenon DEF DnsLives, ApKept
  <2>7. Core'
    BY <1>1, <2>3 DEF Core, ApKept
  <2>8. QED
    BY <2>5, <2>6, <2>7 DEF ApInv
<1>6. QED
  BY <1>3, <1>4, <1>5

(* What a program finds that has just started, as far as the AP is concerned. *)
Fresh ==
    /\ dns = "none" /\ ~s_dns_task /\ running /\ apsta /\ clients = {} /\ loop = "free"
    /\ events = <<"sta_start", "ap_start">>
    /\ ap_rearm_count = 0 /\ timer = AP_AUTO_OFF /\ ctrl = "wait" /\ open = 0

(* A program that starts finds its own AP starting. *)
LEMMA FirstState == Fresh => Core /\ ApInv
<1> SUFFICES ASSUME Fresh PROVE Core /\ ApInv
  OBVIOUS
<1> USE DEF Fresh
<1>1. events \in Seq(Events) /\ Has(events, "ap_start")
      /\ Followed(events, "ap_stop", "ap_start")
  BY StartEvents
<1>2. ApUp
  BY Zenon DEF ApUp
<1>3. loop # "stopping" /\ dns # "exit" /\ dns # "check" /\ dns # "recv"
  OBVIOUS
<1>4. LastApEvent /\ SeenOrQueued
  BY <1>1, <1>2, <1>3, Zenon DEF LastApEvent, SeenOrQueued
<1>5. DnsLives
  BY <1>1, <1>2, <1>3, Zenon DEF DnsLives
<1>6. /\ AP_AUTO_OFF \in Nat /\ AP_AUTO_OFF > 0 /\ AP_MAX_REARMS \in Nat
      /\ 0 <= (AP_MAX_REARMS + 1) * AP_AUTO_OFF
  <2>1. AP_AUTO_OFF \in Nat /\ AP_AUTO_OFF > 0 /\ AP_MAX_REARMS \in Nat
    BY WifiNumbers
  <2>2. 0 \in 0 .. AP_MAX_REARMS
    BY <2>1
  <2>3. (AP_MAX_REARMS + 1) * AP_AUTO_OFF \in Nat
    BY <2>1, <2>2, Windows
  <2>4. QED
    BY <2>1, <2>3
<1>7. timer # 0
  BY <1>6
<1>8. WindowPaid
  BY <1>1, <1>6, <1>7, Zenon DEF WindowPaid, ApBounded
<1>9. Core
  BY <1>1, <1>6 DEF Core
<1>10. QED
  BY <1>4, <1>5, <1>8, <1>9 DEF ApInv

(* A configuration change restarts the program in such a state. *)
LEMMA RestartOK ==
    ASSUME Restart
    PROVE  Core' /\ ApInv'
<1>1. Fresh'
  BY Zenon DEF Restart, Fresh
<1>2. QED
  BY <1>1, FirstState, PTL

(* The initial state satisfies the invariant. *)
LEMMA WifiInitOK == WifiInit => Core /\ Rest /\ ApInv
<1> SUFFICES ASSUME WifiInit PROVE Core /\ Rest /\ ApInv
  OBVIOUS
<1>1. Fresh
  BY Zenon DEF WifiInit, DnsInit, Fresh
<1>2. Core /\ ApInv
  BY <1>1, FirstState
<1>3. DnsTypeOK
  BY Zenon DEF WifiInit, DnsInit, DnsTypeOK
<1>4. /\ provisioned \in BOOLEAN /\ net \in BOOLEAN /\ restart_due \in BOOLEAN /\ ~restart_due
      /\ running \in BOOLEAN /\ apsta \in BOOLEAN /\ client_bit \in BOOLEAN
      /\ due_bit \in BOOLEAN /\ ip_bit \in BOOLEAN /\ ap_active \in BOOLEAN
      /\ sta_active \in BOOLEAN /\ sta_connected \in BOOLEAN
  BY Zenon DEF WifiInit
<1>5. /\ link = "off" /\ failed_attempts = 0 /\ restarting = {} /\ faults = 0 /\ joins = 0
      /\ reboots = 0
  BY Zenon DEF WifiInit
<1>6. /\ 0 \in 0 .. MAX_FAILED + 1 /\ 0 \in 0 .. MaxFaults /\ 0 \in 0 .. MaxJoins
      /\ 0 \in 0 .. MaxReboots
  BY WifiNumbers
<1>7. Rest
  BY <1>3, <1>4, <1>5, <1>6, Zenon DEF Rest, RestartCounted
<1>8. QED
  BY <1>2, <1>7

(* Every step keeps the types. *)
LEMMA RestNext == ASSUME Rest, [WifiNext]_wifiVars PROVE Rest'
<1>1. CASE UNCHANGED wifiVars
  <2>1. UNCHANGED <<s_run, s_sock, s_dns_task, dns, dns_failed, provisioned, net, running,
                    apsta, link, client_bit, due_bit, ip_bit, ap_active, sta_active,
                    sta_connected, failed_attempts, restarting, restart_due, faults, joins,
                    reboots>>
    BY <1>1, Zenon DEF wifiVars, dnsVars, world, driver, bits, flags, recon, bounds
  <2>2. QED
    BY <2>1 DEF Rest, DnsTypeOK, RestartCounted
<1>2. CASE SupervisorStops \/ DriverStart("supervisor")
  <2>1. (DriverStop("supervisor") /\ Fault) \/ DriverStart("supervisor")
    BY <1>2, Zenon DEF SupervisorStops
  <2>2. QED
    BY <2>1, DriverRest
<1>3. QED
  BY <1>1, <1>2, EventLoopRest, ControlRest, ReconnectRest, WorldRest, ClientRest, RestartRest,
     Zenon DEF WifiNext, Others

(* Every step keeps the driver, the queue and the handlers together. *)
LEMMA ApNext == ASSUME Core, ApInv, [WifiNext]_wifiVars PROVE Core' /\ ApInv'
<1>1. CASE EventLoop
  BY <1>1, StationHandled, ConnectedPaid, DisconnectedOpens, StartHandled, StopBegins,
     StopHandled, ClientsHandled, Zenon DEF EventLoop
<1>2. CASE Control \/ Tick \/ ApStopNow
  BY <1>2, ControlDecides, ControlCloses, TickPaid, Zenon DEF Control
<1>3. CASE Reconnecting \/ DriverStart("supervisor") \/ SupervisorStops
  BY <1>3, StationSteps, DriverCloses, DriverOpens, Zenon DEF Reconnecting, ReconnectStops,
     SupervisorStops
<1>4. CASE Station \/ LoseAddress \/ NetworkChanges \/ Reconfigure \/ UNCHANGED wifiVars
  BY <1>4, StationSteps, Zenon
<1>5. CASE DnsTask \/ Restart \/ \E c \in Clients : Join(c) \/ Leave(c)
  BY <1>5, DnsRuns, RestartOK, ClientsMove, Zenon
<1>6. QED
  BY <1>1, <1>2, <1>3, <1>4, <1>5, Zenon DEF WifiNext, Others

(* The inductive invariant of the Wi-Fi driver, its event loop, the control task
   and the captive DNS: the queue makes up for what the handlers have not yet
   seen. *)
THEOREM WifiInvariant == WifiSpec => []WifiInv
<1>1. WifiInv <=> Core /\ Rest /\ ApInv
  BY TypeParts, Zenon DEF WifiInv, ApInv
<1>2. WifiInit => WifiInv
  BY <1>1, WifiInitOK
<1>3. WifiInv /\ [WifiNext]_wifiVars => WifiInv'
  <2> SUFFICES ASSUME Core, Rest, ApInv, [WifiNext]_wifiVars PROVE Core' /\ Rest' /\ ApInv'
    BY <1>1, PTL
  <2>1. QED
    BY RestNext, ApNext
<1>4. QED
  BY <1>2, <1>3, PTL DEF WifiSpec

(* Every flag, counter and position of the Wi-Fi model stays in its set; no
   counter passes its bound. *)
THEOREM WifiTypeCorrect == WifiSpec => []WifiTypeOK
<1>1. WifiInv => WifiTypeOK
  BY DEF WifiInv
<1>2. QED
  BY <1>1, WifiInvariant, PTL

(* Once the events are handled, the bit that keeps the AP open is set whenever
   somebody is on it, however joining, leaving, closing and driver restarts
   were interleaved. *)
THEOREM ClientsAreSeen == WifiSpec => []ClientIsSeen
<1>1. WifiInv => ClientIsSeen
  <2> SUFFICES ASSUME SeenOrQueued, clients # {}, events = <<>> PROVE client_bit
    BY Zenon DEF WifiInv, ClientIsSeen
  <2>1. ~JoinsLast(events)
    BY EmptyQueue, Zenon
  <2>2. QED
    BY <2>1, Zenon DEF SeenOrQueued
<1>2. QED
  BY <1>1, WifiInvariant, PTL

(* The AP is up for at most 1 + AP_MAX_REARMS windows after it started or the
   station last connected, for every length of the window and every number of
   rounds, clients, faults and restarts. *)
THEOREM ApIsBounded == WifiSpec => []ApBounded
<1>1. WifiInv => ApBounded
  BY Zenon DEF WifiInv, WindowPaid
<1>2. QED
  BY <1>1, WifiInvariant, PTL

(* When all is handled the captive DNS serves an open AP, unless it failed
   itself, and no task is left behind a closed one. *)
THEOREM DnsIsWithAp == WifiSpec => []DnsFollowsAp
<1>1. WifiInv => DnsFollowsAp
  <2> SUFFICES ASSUME DnsLives, loop = "free", events = <<>>, dns \in {"none", "recv"}
               PROVE  IF ApUp THEN dns_failed \/ (dns = "recv" /\ s_sock /\ s_run)
                              ELSE dns = "none"
    BY Zenon DEF WifiInv, DnsFollowsAp, Quiet
  <2>1. ~Has(events, "ap_start") /\ ~Has(events, "ap_stop")
    BY EmptyQueue, Zenon
  <2>2. CASE ApUp
    <3>1. dns # "none" \/ dns_failed
      BY <2>1, <2>2, Zenon DEF DnsLives
    <3>2. dns = "recv" => s_sock /\ s_run
      BY Zenon DEF DnsLives
    <3>3. QED
      BY <2>2, <3>1, <3>2, Zenon
  <2>3. CASE ~ApUp
    BY <2>1, <2>3, Zenon DEF DnsLives
  <2>4. QED
    BY <2>2, <2>3
<1>2. QED
  BY <1>1, WifiInvariant, PTL

=============================================================================
