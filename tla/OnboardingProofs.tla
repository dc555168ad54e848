--------------------------- MODULE OnboardingProofs ---------------------------
(***************************************************************************)
(* Proofs about Onboarding for every set of threads, addresses, accounts,  *)
(* passwords and uploads, and any number of codes, failed mails and        *)
(* restarts.                                                               *)
(***************************************************************************)
EXTENDS Onboarding, SequenceTheorems, TLAPS

(***************************************************************************)
(* What the tables and the requests hold, which is more than TypeOK says:  *)
(* what a request works on depends on how far it is.                       *)
(***************************************************************************)
UserRow ==
    [email : Email, code : Nat \ {0}, completed : BOOLEAN, account : Account \cup {None}]

InstitutionRow ==
    [email : Email, code : Nat \ {0}, completed : BOOLEAN, password : Password \cup {None}]

Uploading   == {"setupMail", "saveUser"}
Inviting    == {"activationMail", "saveInstitution"}
Activating  == {"createdMail", "saveActivation", "createUser"}
Busy        == Uploading \cup {"register"} \cup Inviting \cup Activating

RequestTyped(r) ==
    /\ DOMAIN r = {"step", "emails", "next", "code", "value", "entity"}
    /\ r.step \in {"idle", "saveQualification"} \cup Busy
    /\ r.emails \in Seq(Email) /\ r.next \in Nat \ {0}
    /\ r.step \in Busy => r.next \in DOMAIN r.emails
    /\ r.step \in {"saveUser", "saveInstitution"} => r.code \in 1 .. lastCode
    /\ r.step = "register" => r.value \in Account /\ r.entity \in UserRow \cup {None}
    /\ r.step \in Activating => r.value \in DOMAIN institutions /\ r.entity \in InstitutionRow

Typed ==
    /\ lastCode \in Nat
    /\ users \in Seq(UserRow) /\ institutions \in Seq(InstitutionRow)
    /\ transcripts \in Seq(Email)
    /\ DOMAIN req = Thread
    /\ \A t \in Thread : RequestTyped(req[t])

(***************************************************************************)
(* What is in the logins and in the mails, and that codes were generated.  *)
(***************************************************************************)
NamesTyped ==
    /\ DOMAIN logins \subseteq Email \cup Predefined
    /\ \A m \in mails : m.to \in Email /\ m.code \in (1 .. lastCode) \cup {None}
    /\ \A i \in DOMAIN users : users[i].code <= lastCode
    /\ \A i \in DOMAIN institutions : institutions[i].code <= lastCode
    /\ \A t \in Thread : /\ req[t].step = "register" /\ req[t].entity # None =>
                                req[t].entity.code <= lastCode
                         /\ req[t].step \in Activating => req[t].entity.code <= lastCode

(***************************************************************************)
(* The transcripts of an upload have owners up to the recipient it is at.  *)
(***************************************************************************)
UploadsHaveOwners ==
    \A t \in Thread :
        /\ req[t].step \in Uploading =>
               \A j \in 1 .. req[t].next - 1 : Rows(users, req[t].emails[j]) # {}
        /\ req[t].step = "saveQualification" =>
               \A j \in DOMAIN req[t].emails : Rows(users, req[t].emails[j]) # {}
        /\ req[t].step = "register" /\ req[t].entity # None => req[t].entity.email = Recipient(t)

OwnersInv == UploadsHaveOwners /\ TranscriptsHaveOwners

(***************************************************************************)
(* Whatever a request is about to save was mailed, and so was what it read.*)
(***************************************************************************)
SetupMailed(email, code) == [kind |-> "setup", to |-> email, code |-> code] \in mails

ActivationMailed(email, code) == [kind |-> "activate", to |-> email, code |-> code] \in mails

RequestsWereMailed ==
    \A t \in Thread :
        /\ req[t].step = "saveUser" => SetupMailed(Recipient(t), req[t].code)
        /\ req[t].step = "saveInstitution" => ActivationMailed(Recipient(t), req[t].code)
        /\ req[t].step = "register" /\ req[t].entity # None =>
               SetupMailed(req[t].entity.email, req[t].entity.code)
        /\ req[t].step \in Activating =>
               ActivationMailed(req[t].entity.email, req[t].entity.code)

MailedInv == RequestsWereMailed /\ RowsWereMailed

(***************************************************************************)
(* What holds while requests come one at a time: the row an activation     *)
(* works on stays the only one of its address, and not completed until the *)
(* activation saves it; the logins are those of the completed rows, but    *)
(* for the row just saved.                                                 *)
(***************************************************************************)
Alone == \A t, s \in Thread : req[t].step # "idle" /\ req[s].step # "idle" => t = s

RegisterIsFirst ==
    \A t \in Thread : req[t].step = "register" =>
        \A i \in Rows(users, Recipient(t)) : ~users[i].completed

ActivationIsFirst ==
    \A t \in Thread :
        /\ req[t].step \in Activating =>
               /\ Rows(institutions, Recipient(t)) = {req[t].value}
               /\ req[t].entity.email = Recipient(t) /\ req[t].entity.completed
        /\ req[t].step \in {"createdMail", "saveActivation"} =>
               ~institutions[req[t].value].completed
        /\ req[t].step = "createUser" =>
               /\ institutions[req[t].value] = req[t].entity
               /\ Recipient(t) \in DOMAIN logins => Recipient(t) \in Predefined

HasLogin(r) == r.email \in DOMAIN logins /\ logins[r.email] = r.password

LoginsAreRows ==
    /\ \A i \in DOMAIN institutions :
           institutions[i].completed /\ institutions[i].email \notin Predefined =>
               \/ HasLogin(institutions[i])
               \/ \E t \in Thread : req[t].step = "createUser" /\ req[t].value = i
    /\ \A name \in DOMAIN logins \ Predefined :
           \E i \in DOMAIN institutions :
               institutions[i].completed /\ institutions[i].email = name

OneAtATime == ~overlapped =>
    Alone /\ RegisterIsFirst /\ ActivationIsFirst /\ LoginsAreRows

(***************************************************************************)
(* What holds also while requests overlap: an activation works on a row of *)
(* its address, which stays one of that address whatever row another       *)
(* activation saves over it; the names in the login table are those of the *)
(* configuration, which keep their password, and of the completed rows,    *)
(* but for the rows just saved.                                            *)
(***************************************************************************)
ActivationOf(t) ==
    req[t].step \in Activating =>
        /\ req[t].entity.email = Recipient(t) /\ req[t].entity.completed
        /\ institutions[req[t].value].email = Recipient(t)
        /\ req[t].step = "createUser" => institutions[req[t].value].completed

ConfiguredStay ==
    Predefined \subseteq DOMAIN logins /\ \A name \in Predefined : logins[name] = None

RowsHaveNames ==
    \A i \in DOMAIN institutions : institutions[i].completed =>
        \/ institutions[i].email \in DOMAIN logins
        \/ \E t \in Thread : req[t].step = "createUser" /\ req[t].value = i

NamesHaveRows ==
    \A name \in DOMAIN logins \ Predefined :
        \E i \in DOMAIN institutions : institutions[i].completed /\ institutions[i].email = name

LoginsInv ==
    (\A t \in Thread : ActivationOf(t)) /\ ConfiguredStay /\ RowsHaveNames /\ NamesHaveRows

-----------------------------------------------------------------------------
(***************************************************************************)
(* A step of one thread leaves the other requests as they are              *)
(* (UserServiceImpl.java, AdminServiceImpl.java).                          *)
(***************************************************************************)
LEMMA OneRequestTyped ==
    ASSUME Typed, NEW t \in Thread, lastCode' \in Nat, lastCode' >= lastCode,
           users' \in Seq(UserRow), institutions' \in Seq(InstitutionRow),
           DOMAIN institutions \subseteq DOMAIN institutions', transcripts' \in Seq(Email),
           DOMAIN req' = Thread, \A u \in Thread : u # t => req'[u] = req[u],
           RequestTyped(req[t])'
    PROVE  Typed'
<1>1. ASSUME NEW u \in Thread, u # t PROVE RequestTyped(req[u])'
  <2>1. RequestTyped(req[u]) /\ req'[u] = req[u]
    BY <1>1 DEF Typed
  <2>2. \A n \in 1 .. lastCode : n \in 1 .. lastCode'
    BY DEF Typed
  <2> QED
    BY <2>1, <2>2 DEF RequestTyped
<1> QED
  BY <1>1 DEF Typed

\* A thread that has answered is idle again.
LEMMA AnsweredTyped ==
    ASSUME Typed, NEW t \in Thread, Answered(t)
    PROVE  /\ DOMAIN req' = Thread /\ \A u \in Thread : u # t => req'[u] = req[u]
           /\ req'[t] = Idle
           /\ RequestTyped(req[t])'
<1>1. /\ DOMAIN req' = Thread /\ \A u \in Thread : u # t => req'[u] = req[u]
      /\ req'[t] = Idle
  BY DEF Answered, Typed
<1>2. RequestTyped(req[t])'
  BY <1>1 DEF Idle, RequestTyped, Uploading, Inviting, Activating, Busy
<1> QED
  BY <1>1, <1>2

\* Where a query by address finds a row it has that address.
LEMMA RowsFound ==
    ASSUME NEW S, NEW table \in Seq(S), NEW email
    PROVE  /\ Rows(table, email) \subseteq 1 .. Len(table)
           /\ \A i \in Rows(table, email) : table[i] \in S /\ table[i].email = email
BY DEF Rows

LEMMA RequestStaysTyped ==
    ASSUME Typed, NEW t \in Thread, Request(t)
    PROVE  Typed'
<1> USE DEF Uploading, Inviting, Activating, Busy
<1>0. RequestTyped(req[t]) /\ DOMAIN req = Thread
  BY DEF Typed
<1>1. ASSUME NEW emails \in Upload, UploadQualification(t, emails) PROVE Typed'
  <2>1. emails \in Seq(Email) /\ (emails # <<>> => 1 \in DOMAIN emails)
    BY UploadAssumption
  <2>2. /\ req'[t].emails = emails /\ req'[t].next = 1
        /\ req'[t].step = IF emails = <<>> THEN "saveQualification" ELSE "setupMail"
        /\ DOMAIN req'[t] = {"step", "emails", "next", "code", "value", "entity"}
        /\ DOMAIN req' = Thread /\ \A u \in Thread : u # t => req'[u] = req[u]
    BY <1>0, <1>1 DEF UploadQualification, Idle
  <2>3. RequestTyped(req[t])'
    BY <2>1, <2>2 DEF RequestTyped
  <2> QED
    BY <1>1, <2>2, <2>3, OneRequestTyped DEF UploadQualification, Typed
<1>2. ASSUME NEW email \in Email, NEW code \in TypedCode, NEW account \in Account,
             IsRegistered(t, email, code, account)
      PROVE  Typed'
  <2> DEFINE rows == Rows(users, email)
             found == IF rows = {} THEN None ELSE users[CHOOSE i \in rows : TRUE]
  <2>1. found \in UserRow \cup {None}
    BY RowsFound DEF Typed
  <2>2. /\ req'[t].emails = <<email>> /\ req'[t].next = 1 /\ req'[t].step = "register"
        /\ req'[t].value = account /\ req'[t].entity = found
        /\ DOMAIN req'[t] = {"step", "emails", "next", "code", "value", "entity"}
        /\ DOMAIN req' = Thread /\ \A u \in Thread : u # t => req'[u] = req[u]
    BY <1>0, <1>2 DEF IsRegistered, Idle
  <2> HIDE DEF found
  <2>3. RequestTyped(req[t])'
    BY <2>1, <2>2 DEF RequestTyped
  <2> QED
    <3>1. UNCHANGED <<users, institutions, transcripts, lastCode>>
      BY <1>2 DEF IsRegistered
    <3> QED
      BY <2>2, <2>3, <3>1, OneRequestTyped DEF Typed
<1>3. ASSUME NEW email \in Email, RegisterAccount(t, email) PROVE Typed'
  <2>1. /\ req'[t].emails = <<email>> /\ req'[t].next = 1 /\ req'[t].step = "activationMail"
        /\ DOMAIN req'[t] = {"step", "emails", "next", "code", "value", "entity"}
        /\ DOMAIN req' = Thread /\ \A u \in Thread : u # t => req'[u] = req[u]
    BY <1>0, <1>3 DEF RegisterAccount, Idle
  <2>2. RequestTyped(req[t])'
    BY <2>1 DEF RequestTyped
  <2> QED
    BY <1>3, <2>1, <2>2, OneRequestTyped DEF RegisterAccount, Typed
<1>4. ASSUME NEW email \in Email, NEW code \in TypedCode, NEW password \in Password,
             NEW repeated \in Password,
             CompleteInstitutionRegistration(t, email, code, password, repeated)
      PROVE  Typed'
  <2>1. PICK i \in DOMAIN institutions :
            req' = [req EXCEPT ![t] = [Idle EXCEPT
                  !.step = "createdMail", !.emails = <<email>>, !.value = i,
                  !.entity = [institutions[i] EXCEPT !.completed = TRUE, !.password = password]]]
    BY <1>4 DEF CompleteInstitutionRegistration
  <2> DEFINE entity == [institutions[i] EXCEPT !.completed = TRUE, !.password = password]
  <2>2. entity \in InstitutionRow
    <3> DEFINE half == [institutions[i] EXCEPT !.completed = TRUE]
    <3>1. institutions[i] \in InstitutionRow
      BY DEF Typed
    <3>2. half \in InstitutionRow
      BY <3>1 DEF InstitutionRow
    <3>3. entity = [half EXCEPT !.password = password]
      OBVIOUS
    <3> HIDE DEF half, entity
    <3> QED
      BY <3>2, <3>3 DEF InstitutionRow
  <2>3. /\ req'[t].emails = <<email>> /\ req'[t].next = 1 /\ req'[t].step = "createdMail"
        /\ req'[t].value = i /\ req'[t].entity = entity
        /\ DOMAIN req'[t] = {"step", "emails", "next", "code", "value", "entity"}
        /\ DOMAIN req' = Thread /\ \A u \in Thread : u # t => req'[u] = req[u]
    BY <1>0, <2>1 DEF Idle
  <2>4. institutions' = institutions
    BY <1>4 DEF CompleteInstitutionRegistration
  <2> HIDE DEF entity
  <2>5. RequestTyped(req[t])'
    BY <2>2, <2>3, <2>4 DEF RequestTyped
  <2> QED
    BY <1>4, <2>3, <2>5, OneRequestTyped DEF CompleteInstitutionRegistration, Typed
<1> QED
  BY <1>1, <1>2, <1>3, <1>4 DEF Request

(***************************************************************************)
(* Every step of a request keeps it typed (UserServiceImpl.java:195-213,   *)
(* AdminServiceImpl.java:178-188).                                         *)
(***************************************************************************)
LEMMA StepStaysTyped ==
    ASSUME Typed, NEW t \in Thread, Step(t)
    PROVE  Typed'
<1> USE DEF Uploading, Inviting, Activating, Busy
<1>0. RequestTyped(req[t]) /\ DOMAIN req = Thread /\ lastCode \in Nat
  BY DEF Typed
<1>1. CASE SetupMail(t) \/ ActivationMail(t)
  <2>1. /\ req'[t].step \in {"saveUser", "saveInstitution"} /\ req'[t].code = lastCode'
        /\ req'[t].emails = req[t].emails /\ req'[t].next = req[t].next
        /\ req[t].step \in Busy
        /\ DOMAIN req'[t] = {"step", "emails", "next", "code", "value", "entity"}
        /\ DOMAIN req' = Thread /\ \A u \in Thread : u # t => req'[u] = req[u]
    BY <1>0, <1>1 DEF SetupMail, ActivationMail, RequestTyped
  <2>2. lastCode' = lastCode + 1 /\ UNCHANGED <<users, institutions, transcripts>>
    BY <1>1 DEF SetupMail, ActivationMail
  <2>3. RequestTyped(req[t])'
    <3>1. lastCode' \in 1 .. lastCode'
      BY <1>0, <2>2
    <3>2. \A n \in 1 .. lastCode : n \in 1 .. lastCode'
      BY <1>0, <2>2
    <3> QED
      BY <1>0, <2>1, <2>2, <3>1, <3>2 DEF RequestTyped
  <2> QED
    BY <1>0, <2>1, <2>2, <2>3, OneRequestTyped DEF Typed
<1>2. CASE SetupMailFails(t) \/ ActivationMailFails(t)
  <2>1. Answered(t) /\ lastCode' = lastCode + 1 /\ UNCHANGED <<users, institutions, transcripts>>
    BY <1>2 DEF SetupMailFails, ActivationMailFails
  <2> QED
    BY <1>0, <2>1, AnsweredTyped, OneRequestTyped DEF Typed
<1>3. CASE SaveUser(t)
  <2>1. /\ req'[t].step = IF req[t].next < Len(req[t].emails)
                          THEN "setupMail" ELSE "saveQualification"
        /\ req'[t].emails = req[t].emails /\ req'[t].next = req[t].next + 1
        /\ req[t].step = "saveUser"
        /\ DOMAIN req'[t] = {"step", "emails", "next", "code", "value", "entity"}
        /\ DOMAIN req' = Thread /\ \A u \in Thread : u # t => req'[u] = req[u]
    BY <1>0, <1>3 DEF SaveUser, RequestTyped
  <2>2. /\ users' = Append(users, NewUser(Recipient(t), req[t].code))
        /\ UNCHANGED <<institutions, transcripts, lastCode>>
    BY <1>3 DEF SaveUser
  <2>3. NewUser(Recipient(t), req[t].code) \in UserRow
    BY <1>0, <2>1 DEF RequestTyped, NewUser, UserRow, Recipient
  <2>4. users' \in Seq(UserRow)
    BY <2>2, <2>3 DEF Typed
  <2>5. RequestTyped(req[t])'
    BY <1>0, <2>1 DEF RequestTyped
  <2> QED
    BY <1>0, <2>1, <2>2, <2>4, <2>5, OneRequestTyped DEF Typed
<1>4. CASE SaveQualification(t)
  <2>1. Answered(t) /\ transcripts' \in Seq(Email) /\ UNCHANGED <<users, institutions, lastCode>>
    BY <1>0, <1>4 DEF SaveQualification, RequestTyped, Typed
  <2> QED
    BY <1>0, <2>1, AnsweredTyped, OneRequestTyped DEF Typed
<1>5. CASE Register(t)
  <2>1. PICK i \in Rows(users, Recipient(t)) :
            users' = [users EXCEPT ![i] =
                         [Owner(t, i) EXCEPT !.account = req[t].value, !.completed = TRUE]]
    BY <1>5 DEF Register
  <2>2. Owner(t, i) \in UserRow /\ req[t].value \in Account /\ i \in DOMAIN users
    BY <1>0, <1>5, <2>1, RowsFound DEF Register, Owner, RequestTyped, Typed, Rows
  <2> DEFINE half == [Owner(t, i) EXCEPT !.account = req[t].value]
             row == [Owner(t, i) EXCEPT !.account = req[t].value, !.completed = TRUE]
  <2>3. half \in UserRow
    BY <2>2 DEF UserRow
  <2>4. row = [half EXCEPT !.completed = TRUE]
    OBVIOUS
  <2> HIDE DEF half, row
  <2>5. row \in UserRow
    BY <2>3, <2>4 DEF UserRow
  <2>6. users' \in Seq(UserRow)
    BY <2>1, <2>2, <2>5 DEF Typed, row
  <2>7. Answered(t) /\ UNCHANGED <<transcripts, institutions, lastCode>>
    BY <1>5 DEF Register
  <2> QED
    BY <1>0, <2>6, <2>7, AnsweredTyped, OneRequestTyped DEF Typed
<1>6. CASE RefuseRegistration(t)
  <2>1. Answered(t) /\ UNCHANGED <<users, transcripts, institutions, lastCode>>
    BY <1>6 DEF RefuseRegistration
  <2> QED
    BY <1>0, <2>1, AnsweredTyped, OneRequestTyped DEF Typed
<1>7. CASE SaveInstitution(t)
  <2>1. /\ institutions' = Append(institutions, NewInstitution(Recipient(t), req[t].code))
        /\ Answered(t) /\ UNCHANGED <<users, transcripts, lastCode>>
        /\ req[t].step = "saveInstitution"
    BY <1>7 DEF SaveInstitution
  <2>2. NewInstitution(Recipient(t), req[t].code) \in InstitutionRow
    BY <1>0, <2>1 DEF RequestTyped, NewInstitution, InstitutionRow, Recipient
  <2>3. institutions' \in Seq(InstitutionRow) /\ DOMAIN institutions \subseteq DOMAIN institutions'
    BY <2>1, <2>2 DEF Typed
  <2> QED
    BY <1>0, <2>1, <2>3, AnsweredTyped, OneRequestTyped DEF Typed
<1>8. CASE CreatedMail(t)
  <2>1. /\ req'[t].step = "saveActivation" /\ req[t].step = "createdMail"
        /\ req'[t].emails = req[t].emails /\ req'[t].next = req[t].next
        /\ req'[t].value = req[t].value /\ req'[t].entity = req[t].entity
        /\ DOMAIN req'[t] = {"step", "emails", "next", "code", "value", "entity"}
        /\ DOMAIN req' = Thread /\ \A u \in Thread : u # t => req'[u] = req[u]
    BY <1>0, <1>8 DEF CreatedMail, RequestTyped
  <2>2. UNCHANGED <<users, institutions, transcripts, lastCode>>
    BY <1>8 DEF CreatedMail
  <2>3. RequestTyped(req[t])'
    BY <1>0, <2>1, <2>2 DEF RequestTyped
  <2> QED
    BY <1>0, <2>1, <2>2, <2>3, OneRequestTyped DEF Typed
<1>9. CASE CreatedMailFails(t) \/ CreateUser(t) \/ CreateUserThrows(t)
  <2>1. Answered(t) /\ UNCHANGED <<users, transcripts, institutions, lastCode>>
    BY <1>9 DEF CreatedMailFails, CreateUser, CreateUserThrows
  <2> QED
    BY <1>0, <2>1, AnsweredTyped, OneRequestTyped DEF Typed
<1>10. CASE SaveActivation(t)
  <2>1. /\ req'[t].step = "createUser" /\ req[t].step = "saveActivation"
        /\ req'[t].emails = req[t].emails /\ req'[t].next = req[t].next
        /\ req'[t].value = req[t].value /\ req'[t].entity = req[t].entity
        /\ DOMAIN req'[t] = {"step", "emails", "next", "code", "value", "entity"}
        /\ DOMAIN req' = Thread /\ \A u \in Thread : u # t => req'[u] = req[u]
    BY <1>0, <1>10 DEF SaveActivation, RequestTyped
  <2>2. /\ institutions' = [institutions EXCEPT ![req[t].value] = req[t].entity]
        /\ req[t].value \in DOMAIN institutions /\ req[t].entity \in InstitutionRow
        /\ UNCHANGED <<users, transcripts, lastCode>>
    BY <1>0, <1>10 DEF SaveActivation, RequestTyped
  <2>3. institutions' \in Seq(InstitutionRow) /\ DOMAIN institutions' = DOMAIN institutions
    BY <2>2 DEF Typed
  <2>4. RequestTyped(req[t])'
    BY <1>0, <2>1, <2>2, <2>3 DEF RequestTyped
  <2> QED
    BY <1>0, <2>1, <2>2, <2>3, <2>4, OneRequestTyped DEF Typed
<1> QED
  BY <1>1, <1>2, <1>3, <1>4, <1>5, <1>6, <1>7, <1>8, <1>9, <1>10 DEF Step

\* A restart forgets all of it.
LEMMA RestartIsTyped ==
    ASSUME Typed, Restart
    PROVE  Typed'
<1>1. \A t \in Thread : RequestTyped(Idle)'
  BY DEF Idle, RequestTyped, Uploading, Inviting, Activating, Busy
<1>2. DOMAIN req' = Thread /\ \A t \in Thread : req'[t] = Idle
  BY DEF Restart
<1>3. \A t \in Thread : RequestTyped(req[t])'
  BY <1>1, <1>2
<1> QED
  BY <1>2, <1>3 DEF Restart, Typed

(***************************************************************************)
(* Tables and requests stay typed (UserServiceImpl.java,                   *)
(* AdminServiceImpl.java).                                                 *)
(***************************************************************************)
LEMMA RequestsTyped == Spec => []Typed
<1>1. Init => Typed
  <2> SUFFICES ASSUME Init PROVE Typed
    OBVIOUS
  <2>1. \A t \in Thread : req[t] = Idle
    BY DEF Init
  <2>2. RequestTyped(Idle)
    BY DEF Idle, RequestTyped, Uploading, Inviting, Activating, Busy
  <2> QED
    BY <2>1, <2>2 DEF Init, Typed
<1>2. Typed /\ [Next]_vars => Typed'
  <2> SUFFICES ASSUME Typed, [Next]_vars PROVE Typed'
    OBVIOUS
  <2>1. CASE UNCHANGED vars
    BY <2>1 DEF vars, Typed, RequestTyped
  <2> QED
    BY <2>1, RestartIsTyped, RequestStaysTyped, StepStaysTyped DEF Next
<1> QED
  BY <1>1, <1>2, PTL DEF Spec

-----------------------------------------------------------------------------
(***************************************************************************)
(* What a step does to the requests, and what it leaves of them.           *)
(***************************************************************************)
OthersKept(t) == \A u \in Thread : u # t => req'[u] = req[u]

Proceeds(t, step) ==
    /\ req'[t].step = step /\ req'[t].emails = req[t].emails
    /\ req'[t].value = req[t].value /\ req'[t].entity = req[t].entity

(***************************************************************************)
(* The order of the steps of a request (UserServiceImpl.java:195-213,      *)
(* 88-105, AdminServiceImpl.java:178-188).                                 *)
(***************************************************************************)
LEMMA StepsInOrder ==
    ASSUME Typed, NEW t \in Thread, Step(t)
    PROVE  /\ OthersKept(t)
           /\ req[t].step # "idle"
           /\ \/ req'[t] = Idle
              \/ /\ SetupMail(t) /\ Proceeds(t, "saveUser") /\ req'[t].next = req[t].next
                 /\ req'[t].code = lastCode'
              \/ /\ SaveUser(t) /\ req'[t].next = req[t].next + 1
                 /\ Proceeds(t, IF req[t].next < Len(req[t].emails)
                                THEN "setupMail" ELSE "saveQualification")
              \/ /\ ActivationMail(t) /\ Proceeds(t, "saveInstitution")
                 /\ req'[t].next = req[t].next /\ req'[t].code = lastCode'
              \/ CreatedMail(t) /\ Proceeds(t, "saveActivation") /\ req'[t].next = req[t].next
              \/ SaveActivation(t) /\ Proceeds(t, "createUser") /\ req'[t].next = req[t].next
<1>0. RequestTyped(req[t]) /\ DOMAIN req = Thread
  BY DEF Typed
<1>1. ASSUME Answered(t) PROVE OthersKept(t) /\ req'[t] = Idle
  BY <1>1, AnsweredTyped DEF OthersKept
<1>2. CASE SetupMail(t)
  BY <1>0, <1>2 DEF SetupMail, OthersKept, Proceeds, RequestTyped
<1>3. CASE SaveUser(t)
  BY <1>0, <1>3 DEF SaveUser, OthersKept, Proceeds, RequestTyped
<1>4. CASE ActivationMail(t)
  BY <1>0, <1>4 DEF ActivationMail, OthersKept, Proceeds, RequestTyped
<1>5. CASE CreatedMail(t)
  BY <1>0, <1>5 DEF CreatedMail, OthersKept, Proceeds, RequestTyped
<1>6. CASE SaveActivation(t)
  BY <1>0, <1>6 DEF SaveActivation, OthersKept, Proceeds, RequestTyped
<1>7. CASE \/ SetupMailFails(t) \/ SaveQualification(t) \/ Register(t) \/ RefuseRegistration(t)
           \/ ActivationMailFails(t) \/ SaveInstitution(t) \/ CreatedMailFails(t)
           \/ CreateUser(t) \/ CreateUserThrows(t)
  <2>1. Answered(t) /\ req[t].step # "idle"
    BY <1>7 DEF SetupMailFails, SaveQualification, Register, RefuseRegistration,
           ActivationMailFails, SaveInstitution, CreatedMailFails, CreateUser, CreateUserThrows
  <2> QED
    BY <1>1, <2>1
<1> QED
  BY <1>2, <1>3, <1>4, <1>5, <1>6, <1>7 DEF Step

(***************************************************************************)
(* What a request starts with: an upload at its first recipient; the row   *)
(* found for who registers, not completed; the address of an institution   *)
(* to be invited; the changed row of the one that activates its account    *)
(* (UnilogResource.java:86-104, UserServiceImpl.java:79-105).              *)
(***************************************************************************)
Starts(t) ==
    \/ req'[t].step \in {"setupMail", "activationMail"} /\ req'[t].next = 1
    \/ req'[t].step = "saveQualification" /\ req'[t].emails = <<>>
    \/ /\ req'[t].step = "register" /\ req'[t].next = 1
       /\ \A i \in Rows(users, req'[t].emails[1]) : ~users[i].completed
       /\ \/ req'[t].entity = None
          \/ \E i \in Rows(users, req'[t].emails[1]) : req'[t].entity = users[i]
    \/ /\ req'[t].step = "createdMail" /\ req'[t].next = 1
       /\ Rows(institutions, req'[t].emails[1]) = {req'[t].value}
       /\ req'[t].value \in DOMAIN institutions
       /\ ~institutions[req'[t].value].completed
       /\ req'[t].entity.completed
       /\ req'[t].entity.email = institutions[req'[t].value].email
       /\ req'[t].entity.code = institutions[req'[t].value].code

LEMMA RequestStarts ==
    ASSUME Typed, NEW t \in Thread, Request(t)
    PROVE  /\ OthersKept(t) /\ Starts(t) /\ MayStart(t)
           /\ UNCHANGED <<users, institutions, transcripts, logins, mails, lastCode>>
<1>0. DOMAIN req = Thread
  BY DEF Typed
<1>1. ASSUME NEW emails \in Upload, UploadQualification(t, emails)
      PROVE  OthersKept(t) /\ Starts(t)
  BY <1>0, <1>1 DEF UploadQualification, Idle, OthersKept, Starts
<1>2. ASSUME NEW email \in Email, NEW code \in TypedCode, NEW account \in Account,
             IsRegistered(t, email, code, account)
      PROVE  OthersKept(t) /\ Starts(t)
  <2> DEFINE rows == Rows(users, email)
             found == IF rows = {} THEN None ELSE users[CHOOSE i \in rows : TRUE]
  <2>1. /\ req'[t].emails = <<email>> /\ req'[t].next = 1 /\ req'[t].step = "register"
        /\ req'[t].entity = found /\ \A i \in rows : ~users[i].completed
        /\ OthersKept(t)
    BY <1>0, <1>2 DEF IsRegistered, Idle, OthersKept
  <2>2. found = None \/ \E i \in rows : found = users[i]
    OBVIOUS
  <2> HIDE DEF found
  <2> QED
    BY <2>1, <2>2 DEF Starts
<1>3. ASSUME NEW email \in Email, RegisterAccount(t, email) PROVE OthersKept(t) /\ Starts(t)
  BY <1>0, <1>3 DEF RegisterAccount, Idle, OthersKept, Starts
<1>4. ASSUME NEW email \in Email, NEW code \in TypedCode, NEW password \in Password,
             NEW repeated \in Password,
             CompleteInstitutionRegistration(t, email, code, password, repeated)
      PROVE  OthersKept(t) /\ Starts(t)
  <2>1. PICK i \in DOMAIN institutions :
            /\ Rows(institutions, email) = {i} /\ ~institutions[i].completed
            /\ req' = [req EXCEPT ![t] = [Idle EXCEPT
                  !.step = "createdMail", !.emails = <<email>>, !.value = i,
                  !.entity = [institutions[i] EXCEPT !.completed = TRUE, !.password = password]]]
    BY <1>4 DEF CompleteInstitutionRegistration
  <2> DEFINE entity == [institutions[i] EXCEPT !.completed = TRUE, !.password = password]
  <2>2. institutions[i] \in InstitutionRow
    BY DEF Typed
  <2>3. /\ entity.completed /\ entity.email = institutions[i].email
        /\ entity.code = institutions[i].code
    BY <2>2 DEF InstitutionRow
  <2>4. /\ req'[t].emails = <<email>> /\ req'[t].next = 1 /\ req'[t].step = "createdMail"
        /\ req'[t].value = i /\ req'[t].entity = entity
        /\ OthersKept(t)
    BY <1>0, <2>1 DEF Idle, OthersKept
  <2> HIDE DEF entity
  <2> QED
    BY <2>1, <2>3, <2>4 DEF Starts
<1>5. /\ MayStart(t)
      /\ UNCHANGED <<users, institutions, transcripts, logins, mails, lastCode>>
  BY DEF Request, UploadQualification, IsRegistered, RegisterAccount,
         CompleteInstitutionRegistration
<1> QED
  BY <1>1, <1>2, <1>3, <1>4, <1>5 DEF Request

-----------------------------------------------------------------------------
\* An address that has rows keeps them when a row is added.
LEMMA RowAdded ==
    ASSUME NEW S, NEW table \in Seq(S), NEW row \in S, NEW email
    PROVE  /\ Rows(table, email) \subseteq Rows(Append(table, row), email)
           /\ Rows(Append(table, row), row.email) # {}
           /\ \A i \in Rows(Append(table, row), email) :
                  i \in Rows(table, email) \/ (i = Len(table) + 1 /\ row.email = email)
<1>1. /\ DOMAIN table = 1 .. Len(table) /\ Len(table) \in Nat
      /\ DOMAIN Append(table, row) = 1 .. Len(table) + 1
      /\ \A i \in 1 .. Len(table) : Append(table, row)[i] = table[i]
      /\ Append(table, row)[Len(table) + 1] = row
  OBVIOUS
<1>2. Len(table) + 1 \in Rows(Append(table, row), row.email)
  BY <1>1 DEF Rows
<1>3. \A i \in 1 .. Len(table) + 1 : i \in 1 .. Len(table) \/ i = Len(table) + 1
  BY <1>1
<1> QED
  BY <1>1, <1>2, <1>3 DEF Rows

(***************************************************************************)
(* What happens to the users: one is added, or the row of an address is    *)
(* replaced by one of the same address with the code the request has read  *)
(* (UserServiceImpl.java:145-160, 195-213).                                *)
(***************************************************************************)
LEMMA UserSteps ==
    ASSUME Typed, OwnersInv, NEW t \in Thread, Step(t)
    PROVE  \/ users' = users
           \/ /\ SaveUser(t) /\ users' = Append(users, NewUser(Recipient(t), req[t].code))
              /\ NewUser(Recipient(t), req[t].code) \in UserRow
              /\ req[t].step = "saveUser"
           \/ /\ Register(t) /\ req[t].step = "register"
              /\ DOMAIN users' = DOMAIN users
              /\ \E i \in Rows(users, Recipient(t)) :
                     /\ \A j \in DOMAIN users : j # i => users'[j] = users[j]
                     /\ users'[i].email = users[i].email
                     /\ users'[i].code = Owner(t, i).code
                     /\ Rows(users, Recipient(t)) = {i}
<1>0. RequestTyped(req[t])
  BY DEF Typed
<1>1. CASE SaveUser(t)
  <2>1. NewUser(Recipient(t), req[t].code) \in UserRow
    BY <1>0, <1>1 DEF SaveUser, RequestTyped, NewUser, UserRow, Recipient, Busy, Uploading
  <2> QED
    BY <1>1, <2>1 DEF SaveUser
<1>2. CASE Register(t)
  <2>1. PICK i \in Rows(users, Recipient(t)) :
            users' = [users EXCEPT ![i] =
                         [Owner(t, i) EXCEPT !.account = req[t].value, !.completed = TRUE]]
    BY <1>2 DEF Register
  <2>2. i \in DOMAIN users /\ users[i].email = Recipient(t) /\ req[t].step = "register"
    BY <1>2, <2>1 DEF Rows, Register
  <2>3. Owner(t, i) \in UserRow /\ Owner(t, i).email = Recipient(t)
    BY <1>0, <2>2 DEF Owner, RequestTyped, Typed, OwnersInv, UploadsHaveOwners
  <2> DEFINE row == [Owner(t, i) EXCEPT !.account = req[t].value, !.completed = TRUE]
  <2>4. row.email = Owner(t, i).email /\ row.code = Owner(t, i).code
    BY <2>3 DEF UserRow
  <2> HIDE DEF row
  <2>5. users'[i] = row /\ DOMAIN users' = DOMAIN users
        /\ \A j \in DOMAIN users : j # i => users'[j] = users[j]
    BY <2>1, <2>2 DEF row
  <2>6. Rows(users, Recipient(t)) = {i}
    BY <1>2, <2>1 DEF Register, MayRegister
  <2> QED
    BY <1>2, <2>1, <2>2, <2>3, <2>4, <2>5, <2>6
<1>3. CASE ~SaveUser(t) /\ ~Register(t)
  BY <1>3 DEF Step, SetupMail, SetupMailFails, SaveQualification, RefuseRegistration,
         ActivationMail, ActivationMailFails, SaveInstitution, CreatedMail, CreatedMailFails,
         SaveActivation, CreateUser, CreateUserThrows
<1> QED
  BY <1>1, <1>2, <1>3

\* No address loses its last row but by a restart.
LEMMA RowsRemain ==
    ASSUME Typed, OwnersInv, NEW t \in Thread, Step(t), NEW email, Rows(users, email) # {}
    PROVE  Rows(users, email)' # {}
<1>1. CASE users' = users
  BY <1>1
<1>2. ASSUME users' = Append(users, NewUser(Recipient(t), req[t].code)),
             NewUser(Recipient(t), req[t].code) \in UserRow
      PROVE  Rows(users, email)' # {}
  BY <1>2, RowAdded DEF Typed
<1>3. ASSUME DOMAIN users' = DOMAIN users, NEW i \in Rows(users, Recipient(t)),
             \A j \in DOMAIN users : j # i => users'[j] = users[j],
             users'[i].email = users[i].email
      PROVE  Rows(users, email)' # {}
  BY <1>3 DEF Rows
<1> QED
  BY <1>1, <1>2, <1>3, UserSteps

(***************************************************************************)
(* An upload has users for the recipients behind it, and the saved         *)
(* transcripts have users (UserServiceImpl.java:43-61, 195-213).           *)
(***************************************************************************)
LEMMA OwnersStay == Spec => []OwnersInv
<1>1. Init => OwnersInv
  BY DEF Init, Idle, OwnersInv, UploadsHaveOwners, TranscriptsHaveOwners, Uploading
<1>2. Typed /\ Typed' /\ OwnersInv /\ [Next]_vars => OwnersInv'
  <2> SUFFICES ASSUME Typed, Typed', OwnersInv, [Next]_vars PROVE OwnersInv'
    OBVIOUS
  <2>1. CASE Restart
    BY <2>1 DEF Restart, Idle, OwnersInv, UploadsHaveOwners, TranscriptsHaveOwners, Uploading
  <2>2. ASSUME NEW t \in Thread, Request(t) PROVE OwnersInv'
    <3>1. /\ OthersKept(t) /\ Starts(t) /\ UNCHANGED <<users, transcripts>>
      BY <2>2, RequestStarts
    <3>2. ASSUME NEW u \in Thread, u # t
          PROVE  /\ (req[u].step \in Uploading =>
                        \A j \in 1 .. req[u].next - 1 : Rows(users, req[u].emails[j]) # {})'
                 /\ (req[u].step = "saveQualification" =>
                        \A j \in DOMAIN req[u].emails : Rows(users, req[u].emails[j]) # {})'
                 /\ (req[u].step = "register" /\ req[u].entity # None =>
                        req[u].entity.email = Recipient(u))'
      BY <3>1, <3>2 DEF OwnersInv, UploadsHaveOwners, OthersKept, Recipient
    <3>3. /\ (req[t].step \in Uploading =>
                 \A j \in 1 .. req[t].next - 1 : Rows(users, req[t].emails[j]) # {})'
          /\ (req[t].step = "saveQualification" =>
                 \A j \in DOMAIN req[t].emails : Rows(users, req[t].emails[j]) # {})'
      BY <3>1 DEF Starts, Uploading
    <3>4. (req[t].step = "register" /\ req[t].entity # None => req[t].entity.email = Recipient(t))'
      BY <3>1 DEF Starts, Rows, Recipient
    <3> QED
      BY <3>1, <3>2, <3>3, <3>4 DEF OwnersInv, UploadsHaveOwners, TranscriptsHaveOwners
  <2>3. ASSUME NEW t \in Thread, Step(t) PROVE OwnersInv'
    <3>1. OthersKept(t)
      BY <2>3, StepsInOrder
    <3>2. ASSUME NEW u \in Thread, u # t
          PROVE  /\ (req[u].step \in Uploading =>
                        \A j \in 1 .. req[u].next - 1 : Rows(users, req[u].emails[j]) # {})'
                 /\ (req[u].step = "saveQualification" =>
                        \A j \in DOMAIN req[u].emails : Rows(users, req[u].emails[j]) # {})'
                 /\ (req[u].step = "register" /\ req[u].entity # None =>
                        req[u].entity.email = Recipient(u))'
      BY <2>3, <3>1, <3>2, RowsRemain DEF OwnersInv, UploadsHaveOwners, OthersKept, Recipient
    <3>3. /\ (req[t].step \in Uploading =>
                 \A j \in 1 .. req[t].next - 1 : Rows(users, req[t].emails[j]) # {})'
          /\ (req[t].step = "saveQualification" =>
                 \A j \in DOMAIN req[t].emails : Rows(users, req[t].emails[j]) # {})'
      <4>1. CASE SaveUser(t)
        <5>1. /\ req'[t].emails = req[t].emails /\ req'[t].next = req[t].next + 1
              /\ req[t].step = "saveUser"
              /\ req'[t].step = IF req[t].next < Len(req[t].emails)
                                THEN "setupMail" ELSE "saveQualification"
          BY <4>1 DEF SaveUser, Typed, RequestTyped
        <5>2. /\ req[t].next \in DOMAIN req[t].emails /\ req[t].emails \in Seq(Email)
              /\ \A j \in 1 .. req[t].next - 1 : Rows(users, req[t].emails[j]) # {}
          BY <5>1 DEF Typed, RequestTyped, OwnersInv, UploadsHaveOwners, Busy, Uploading
        <5> DEFINE row == NewUser(Recipient(t), req[t].code)
        <5>3. users' = Append(users, row) /\ row \in UserRow /\ row.email = req[t].emails[req[t].next]
          BY <4>1, <5>1, <5>2 DEF SaveUser, NewUser, Recipient, UserRow, Typed, RequestTyped
        <5>4. Rows(users', req[t].emails[req[t].next]) # {}
          <6> HIDE DEF row
          <6> QED
            BY <5>3, RowAdded DEF Typed
        <5>5. \A j \in 1 .. req[t].next : Rows(users', req[t].emails[j]) # {}
          <6>1. SUFFICES ASSUME NEW j \in 1 .. req[t].next - 1
                         PROVE  Rows(users', req[t].emails[j]) # {}
            BY <5>2, <5>4
          <6>2. PICK email : email = req[t].emails[j]
            OBVIOUS
          <6>3. Rows(users, email)' # {}
            BY <2>3, <5>2, <6>2, RowsRemain
          <6> QED
            BY <6>2, <6>3
        <5> QED
          <6>1. CASE req[t].next < Len(req[t].emails)
            BY <5>1, <5>2, <5>5, <6>1 DEF Uploading
          <6>2. CASE ~(req[t].next < Len(req[t].emails))
            <7>1. \A j \in DOMAIN req[t].emails : j \in 1 .. req[t].next
              BY <5>2, <6>2
            <7> QED
              BY <5>1, <5>5, <6>2, <7>1 DEF Uploading
          <6> QED
            BY <6>1, <6>2
      <4>2. CASE ~SaveUser(t)
        <5>1. /\ req'[t].step \in Uploading =>
                     /\ req[t].step \in Uploading
                     /\ req'[t].next = req[t].next /\ req'[t].emails = req[t].emails
              /\ req'[t].step # "saveQualification"
          <6>1. SetupMail(t) => req[t].step = "setupMail"
            BY DEF SetupMail
          <6>2. Idle.step = "idle"
            BY DEF Idle
          <6> QED
            BY <2>3, <4>2, <6>1, <6>2, StepsInOrder DEF Proceeds, Uploading
        <5>2. SUFFICES ASSUME req'[t].step \in Uploading, NEW j \in 1 .. req[t].next - 1
                       PROVE  Rows(users', req[t].emails[j]) # {}
          BY <5>1
        <5>3. PICK email : email = req[t].emails[j]
          OBVIOUS
        <5>4. Rows(users, email) # {}
          BY <5>1, <5>2, <5>3 DEF OwnersInv, UploadsHaveOwners
        <5>5. Rows(users, email)' # {}
          BY <2>3, <5>4, RowsRemain
        <5> QED
          BY <5>3, <5>5
      <4> QED
        BY <4>1, <4>2
    <3>4. (req[t].step = "register" /\ req[t].entity # None => req[t].entity.email = Recipient(t))'
      BY <2>3, StepsInOrder DEF Proceeds, Idle
    <3>5. TranscriptsHaveOwners'
      <4>1. ASSUME NEW i \in DOMAIN transcripts, transcripts'[i] = transcripts[i]
            PROVE  Rows(users', transcripts'[i]) # {}
        <5>1. PICK email : email = transcripts[i]
          OBVIOUS
        <5>2. Rows(users, email)' # {}
          BY <2>3, <5>1, RowsRemain DEF OwnersInv, TranscriptsHaveOwners
        <5> QED
          BY <4>1, <5>1, <5>2
      <4>2. CASE SaveQualification(t)
        <5>1. /\ transcripts' = transcripts \o req[t].emails /\ users' = users
              /\ req[t].emails \in Seq(Email) /\ transcripts \in Seq(Email)
              /\ \A j \in DOMAIN req[t].emails : Rows(users, req[t].emails[j]) # {}
          BY <4>2 DEF SaveQualification, Typed, RequestTyped, OwnersInv, UploadsHaveOwners
        <5>2. \A i \in DOMAIN transcripts' :
                  \/ i \in DOMAIN transcripts /\ transcripts'[i] = transcripts[i]
                  \/ \E j \in DOMAIN req[t].emails : transcripts'[i] = req[t].emails[j]
          BY <5>1, ConcatProperties
        <5> QED
          BY <4>1, <5>1, <5>2 DEF TranscriptsHaveOwners
      <4>3. CASE ~SaveQualification(t)
        <5>1. transcripts' = transcripts
          BY <2>3, <4>3 DEF Step, SetupMail, SetupMailFails, SaveUser, Register,
                 RefuseRegistration, ActivationMail, ActivationMailFails, SaveInstitution,
                 CreatedMail, CreatedMailFails, SaveActivation, CreateUser, CreateUserThrows
        <5> QED
          BY <4>1, <5>1 DEF TranscriptsHaveOwners
      <4> QED
        BY <4>2, <4>3
    <3> QED
      BY <3>2, <3>3, <3>4, <3>5 DEF OwnersInv, UploadsHaveOwners
  <2>4. CASE UNCHANGED vars
    BY <2>4 DEF vars, OwnersInv, UploadsHaveOwners, TranscriptsHaveOwners, Recipient
  <2> QED
    BY <2>1, <2>2, <2>3, <2>4 DEF Next
<1> QED
  BY <1>1, <1>2, RequestsTyped, PTL DEF Spec

(***************************************************************************)
(* Every saved transcript has an owner who can be invited                  *)
(* (UserServiceImpl.java:43-61, 195-213).                                  *)
(***************************************************************************)
THEOREM EveryTranscriptHasOwner == Spec => []TranscriptsHaveOwners
<1>1. OwnersInv => TranscriptsHaveOwners
  BY DEF OwnersInv
<1> QED
  BY <1>1, OwnersStay, PTL

-----------------------------------------------------------------------------
(***************************************************************************)
(* What happens to the institutions: one is added, or one is replaced by   *)
(* the row its activation works on                                         *)
(* (UserServiceImpl.java:88-105, AdminServiceImpl.java:178-188).           *)
(***************************************************************************)
LEMMA InstitutionSteps ==
    ASSUME Typed, NEW t \in Thread, Step(t)
    PROVE  \/ institutions' = institutions /\ ~SaveInstitution(t) /\ ~SaveActivation(t)
           \/ /\ SaveInstitution(t) /\ req[t].step = "saveInstitution"
              /\ institutions' = Append(institutions, NewInstitution(Recipient(t), req[t].code))
              /\ NewInstitution(Recipient(t), req[t].code) \in InstitutionRow
           \/ /\ SaveActivation(t) /\ req[t].step = "saveActivation"
              /\ req[t].value \in DOMAIN institutions /\ req[t].entity \in InstitutionRow
              /\ institutions' = [institutions EXCEPT ![req[t].value] = req[t].entity]
              /\ DOMAIN institutions' = DOMAIN institutions
<1>0. RequestTyped(req[t])
  BY DEF Typed
<1>1. CASE SaveInstitution(t)
  <2>1. NewInstitution(Recipient(t), req[t].code) \in InstitutionRow
    BY <1>0, <1>1
       DEF SaveInstitution, RequestTyped, NewInstitution, InstitutionRow, Recipient, Busy, Inviting
  <2> QED
    BY <1>1, <2>1 DEF SaveInstitution
<1>2. CASE SaveActivation(t)
  BY <1>0, <1>2 DEF SaveActivation, RequestTyped, Activating
<1>3. CASE ~SaveInstitution(t) /\ ~SaveActivation(t)
  BY <1>3 DEF Step, SetupMail, SetupMailFails, SaveUser, SaveQualification, Register,
         RefuseRegistration, ActivationMail, ActivationMailFails, CreatedMail, CreatedMailFails,
         CreateUser, CreateUserThrows
<1> QED
  BY <1>1, <1>2, <1>3

\* No mail is unsent.
LEMMA MailsRemain ==
    ASSUME [Next]_vars
    PROVE  mails \subseteq mails'
<1>1. CASE Restart \/ UNCHANGED vars
  BY <1>1 DEF Restart, vars
<1>2. ASSUME NEW t \in Thread, Request(t) PROVE mails' = mails
  BY <1>2 DEF Request, UploadQualification, IsRegistered, RegisterAccount,
         CompleteInstitutionRegistration
<1>3. ASSUME NEW t \in Thread, Step(t) PROVE mails \subseteq mails'
  BY <1>3 DEF Step, SetupMail, SetupMailFails, SaveUser, SaveQualification, Register,
         RefuseRegistration, ActivationMail, ActivationMailFails, SaveInstitution, CreatedMail,
         CreatedMailFails, SaveActivation, CreateUser, CreateUserThrows, MailSent, MailFails
<1> QED
  BY <1>1, <1>2, <1>3 DEF Next

(***************************************************************************)
(* What is about to be saved, and what is saved, was mailed                *)
(* (UserServiceImpl.java:204-211, AdminServiceImpl.java:178-188).          *)
(***************************************************************************)
LocalMailed(t) ==
    /\ req[t].step = "saveUser" => SetupMailed(Recipient(t), req[t].code)
    /\ req[t].step = "saveInstitution" => ActivationMailed(Recipient(t), req[t].code)
    /\ req[t].step = "register" /\ req[t].entity # None =>
           SetupMailed(req[t].entity.email, req[t].entity.code)
    /\ req[t].step \in Activating =>
           ActivationMailed(req[t].entity.email, req[t].entity.code)

LEMMA MailsComeFirst == Spec => []MailedInv
<1>1. Init => MailedInv
  BY DEF Init, Idle, MailedInv, RequestsWereMailed, RowsWereMailed, Activating
<1>2. Typed /\ Typed' /\ OwnersInv /\ MailedInv /\ [Next]_vars => MailedInv'
  <2> SUFFICES ASSUME Typed, Typed', OwnersInv, MailedInv, [Next]_vars PROVE MailedInv'
    OBVIOUS
  <2>0. mails \subseteq mails'
    BY MailsRemain
  <2>1. CASE Restart
    BY <2>1 DEF Restart, Idle, MailedInv, RequestsWereMailed, RowsWereMailed, Activating
  <2>2. ASSUME NEW t \in Thread, OthersKept(t), LocalMailed(t)' PROVE RequestsWereMailed'
    <3>1. ASSUME NEW u \in Thread PROVE LocalMailed(u)'
      <4>1. CASE u = t
        BY <2>2, <4>1
      <4>2. CASE u # t
        BY <2>0, <2>2, <4>2 DEF OthersKept, MailedInv, RequestsWereMailed, LocalMailed, SetupMailed,
               ActivationMailed, Recipient
      <4> QED
        BY <4>1, <4>2
    <3> QED
      BY <3>1 DEF LocalMailed, RequestsWereMailed
  <2>3. ASSUME NEW t \in Thread, Request(t) PROVE MailedInv'
    <3>1. /\ OthersKept(t) /\ Starts(t) /\ UNCHANGED <<users, institutions, mails>>
      BY <2>3, RequestStarts
    <3>2. LocalMailed(t)'
      BY <3>1 DEF Starts, LocalMailed, Rows, MailedInv, RowsWereMailed, SetupMailed,
             ActivationMailed, Activating
    <3>3. RowsWereMailed'
      BY <3>1 DEF MailedInv, RowsWereMailed
    <3> QED
      BY <2>2, <3>1, <3>2, <3>3 DEF MailedInv
  <2>4. ASSUME NEW t \in Thread, Step(t) PROVE MailedInv'
    <3>1. OthersKept(t)
      BY <2>4, StepsInOrder
    <3>2. LocalMailed(t)'
      <4>1. CASE SetupMail(t)
        <5>1. /\ req'[t].step = "saveUser" /\ req'[t].code = lastCode'
              /\ req'[t].emails = req[t].emails /\ req'[t].next = req[t].next
              /\ Sent(t, "setup", lastCode') \in mails'
          BY <4>1 DEF SetupMail, MailSent, Typed, RequestTyped
        <5> QED
          BY <5>1 DEF LocalMailed, SetupMailed, Recipient, Sent, Activating
      <4>2. CASE ActivationMail(t)
        <5>1. /\ req'[t].step = "saveInstitution" /\ req'[t].code = lastCode'
              /\ req'[t].emails = req[t].emails /\ req'[t].next = req[t].next
              /\ Sent(t, "activate", lastCode') \in mails'
          BY <4>2 DEF ActivationMail, MailSent, Typed, RequestTyped
        <5> QED
          BY <5>1 DEF LocalMailed, ActivationMailed, Recipient, Sent, Activating
      <4>3. CASE CreatedMail(t) \/ SaveActivation(t)
        <5>1. /\ req'[t].step \in {"saveActivation", "createUser"}
              /\ req'[t].entity = req[t].entity /\ req[t].step \in Activating
          BY <4>3 DEF CreatedMail, SaveActivation, Typed, RequestTyped, Activating
        <5> QED
          BY <2>0, <5>1 DEF LocalMailed, MailedInv, RequestsWereMailed, ActivationMailed
      <4>4. CASE ~SetupMail(t) /\ ~ActivationMail(t) /\ ~CreatedMail(t) /\ ~SaveActivation(t)
        <5>1. req'[t].step \in {"idle", "setupMail", "saveQualification"}
          BY <2>4, <4>4, StepsInOrder DEF Proceeds, Idle
        <5> QED
          BY <5>1 DEF LocalMailed, Activating
      <4> QED
        BY <4>1, <4>2, <4>3, <4>4
    <3>3. \A i \in DOMAIN users' : SetupMailed(users[i].email, users[i].code)'
      <4>0. \A i \in DOMAIN users : SetupMailed(users[i].email, users[i].code)
        BY DEF MailedInv, RowsWereMailed, SetupMailed
      <4>1. CASE users' = users
        BY <2>0, <4>0, <4>1 DEF SetupMailed
      <4>2. ASSUME users' = Append(users, NewUser(Recipient(t), req[t].code)),
                   req[t].step = "saveUser"
            PROVE  \A i \in DOMAIN users' : SetupMailed(users[i].email, users[i].code)'
        <5>1. SetupMailed(Recipient(t), req[t].code)
          BY <4>2 DEF MailedInv, RequestsWereMailed
        <5>2. \A i \in DOMAIN users' : \/ i \in DOMAIN users /\ users'[i] = users[i]
                                      \/ users'[i] = NewUser(Recipient(t), req[t].code)
          BY <4>2 DEF Typed
        <5> QED
          BY <2>0, <4>0, <5>1, <5>2 DEF SetupMailed, NewUser
      <4>3. ASSUME req[t].step = "register", DOMAIN users' = DOMAIN users,
                   NEW i \in Rows(users, Recipient(t)),
                   \A j \in DOMAIN users : j # i => users'[j] = users[j],
                   users'[i].email = users[i].email, users'[i].code = Owner(t, i).code
            PROVE  \A j \in DOMAIN users' : SetupMailed(users[j].email, users[j].code)'
        <5>1. i \in DOMAIN users /\ users[i].email = Recipient(t)
          BY DEF Rows
        <5>2. SetupMailed(users[i].email, Owner(t, i).code)
          BY <4>0, <4>3, <5>1
             DEF Owner, OwnersInv, UploadsHaveOwners, MailedInv, RequestsWereMailed
        <5> QED
          BY <2>0, <4>0, <4>3, <5>2 DEF SetupMailed
      <4> QED
        BY <2>4, <4>1, <4>2, <4>3, UserSteps
    <3>4. \A i \in DOMAIN institutions' :
              ActivationMailed(institutions[i].email, institutions[i].code)'
      <4>0. \A i \in DOMAIN institutions :
                ActivationMailed(institutions[i].email, institutions[i].code)
        BY DEF MailedInv, RowsWereMailed, ActivationMailed
      <4>1. CASE institutions' = institutions
        BY <2>0, <4>0, <4>1 DEF ActivationMailed
      <4>2. ASSUME req[t].step = "saveInstitution",
                   institutions' = Append(institutions, NewInstitution(Recipient(t), req[t].code))
            PROVE  \A i \in DOMAIN institutions' :
                       ActivationMailed(institutions[i].email, institutions[i].code)'
        <5>1. ActivationMailed(Recipient(t), req[t].code)
          BY <4>2 DEF MailedInv, RequestsWereMailed
        <5>2. \A i \in DOMAIN institutions' :
                  \/ i \in DOMAIN institutions /\ institutions'[i] = institutions[i]
                  \/ institutions'[i] = NewInstitution(Recipient(t), req[t].code)
          BY <4>2 DEF Typed
        <5> QED
          BY <2>0, <4>0, <5>1, <5>2 DEF ActivationMailed, NewInstitution
      <4>3. ASSUME req[t].step = "saveActivation", req[t].value \in DOMAIN institutions,
                   institutions' = [institutions EXCEPT ![req[t].value] = req[t].entity]
            PROVE  \A i \in DOMAIN institutions' :
                       ActivationMailed(institutions[i].email, institutions[i].code)'
        <5>1. ActivationMailed(req[t].entity.email, req[t].entity.code)
          BY <4>3 DEF MailedInv, RequestsWereMailed, Activating
        <5> QED
          BY <2>0, <4>0, <4>3, <5>1 DEF ActivationMailed
      <4> QED
        BY <2>4, <4>1, <4>2, <4>3, InstitutionSteps
    <3>5. RowsWereMailed'
      BY <3>3, <3>4 DEF RowsWereMailed, SetupMailed, ActivationMailed
    <3> QED
      BY <2>2, <3>1, <3>2, <3>5, <2>4 DEF MailedInv
  <2>5. CASE UNCHANGED vars
    BY <2>5 DEF vars, MailedInv, RequestsWereMailed, RowsWereMailed, SetupMailed,
           ActivationMailed, Recipient
  <2> QED
    BY <2>1, <2>3, <2>4, <2>5 DEF Next
<1> QED
  BY <1>1, <1>2, RequestsTyped, OwnersStay, PTL DEF Spec

(***************************************************************************)
(* Nobody is in a table whose code did not leave in a mail to that very    *)
(* address (UserServiceImpl.java:204-211, AdminServiceImpl.java:178-188).  *)
(***************************************************************************)
THEOREM NobodyWaitsForACode == Spec => []RowsWereMailed
<1>1. MailedInv => RowsWereMailed
  BY DEF MailedInv
<1> QED
  BY <1>1, MailsComeFirst, PTL

-----------------------------------------------------------------------------
\* What OneAtATime says of one request.
FirstOf(t) ==
    /\ req[t].step = "register" => \A i \in Rows(users, Recipient(t)) : ~users[i].completed
    /\ req[t].step \in Activating =>
           /\ Rows(institutions, Recipient(t)) = {req[t].value}
           /\ req[t].entity.email = Recipient(t) /\ req[t].entity.completed
    /\ req[t].step \in {"createdMail", "saveActivation"} =>
           ~institutions[req[t].value].completed
    /\ req[t].step = "createUser" =>
           /\ institutions[req[t].value] = req[t].entity
           /\ Recipient(t) \in DOMAIN logins => Recipient(t) \in Predefined

\* While requests come one at a time, only the one in progress is anywhere.
LEMMA AloneIsEnough ==
    ASSUME NEW t \in Thread, \A u \in Thread : u # t => req'[u].step = "idle", FirstOf(t)'
    PROVE  (Alone /\ RegisterIsFirst /\ ActivationIsFirst)'
<1>1. Alone'
  BY DEF Alone
<1>2. \A u \in Thread : u = t \/ req'[u].step = "idle"
  OBVIOUS
<1>3. RegisterIsFirst'
  BY <1>2 DEF RegisterIsFirst, FirstOf
<1>4. ActivationIsFirst'
  BY <1>2 DEF ActivationIsFirst, FirstOf, Activating
<1> QED
  BY <1>1, <1>3, <1>4

(***************************************************************************)
(* A request that starts while no other is in progress                     *)
(* (UserServiceImpl.java:79-105, UnilogResource.java:86-104).              *)
(***************************************************************************)
LEMMA FirstAtStart ==
    ASSUME Typed, Typed', OneAtATime, ~overlapped', NEW t \in Thread, Request(t)
    PROVE  OneAtATime'
<1>1. /\ OthersKept(t) /\ Starts(t) /\ MayStart(t)
      /\ UNCHANGED <<users, institutions, transcripts, logins>>
  BY RequestStarts
<1>2. ~overlapped /\ \A u \in Thread : req[u].step = "idle"
  BY <1>1 DEF MayStart
<1>3. \A u \in Thread : u # t => req'[u].step = "idle"
  BY <1>1, <1>2 DEF OthersKept
<1>4. FirstOf(t)'
  BY <1>1 DEF Starts, FirstOf, Recipient, Rows, Activating
<1>5. LoginsAreRows'
  BY <1>1, <1>2 DEF OneAtATime, LoginsAreRows, HasLogin
<1>6. (Alone /\ RegisterIsFirst /\ ActivationIsFirst)'
  BY <1>3, <1>4, AloneIsEnough
<1> QED
  BY <1>5, <1>6 DEF OneAtATime

(***************************************************************************)
(* The row an activation has read is still the only one of its address,    *)
(* and nobody has the login it is going to create                          *)
(* (UserServiceImpl.java:88-105).                                          *)
(***************************************************************************)
LEMMA FirstWhileActivating ==
    ASSUME Typed, OneAtATime, ~overlapped, NEW t \in Thread, Step(t)
    PROVE  FirstOf(t)'
<1>0. RequestTyped(req[t]) /\ FirstOf(t)
  BY DEF Typed, OneAtATime, RegisterIsFirst, ActivationIsFirst, FirstOf
<1>1. CASE CreatedMail(t)
  <2>1. /\ req'[t].step = "saveActivation" /\ req[t].step = "createdMail"
        /\ req'[t].emails = req[t].emails /\ req'[t].next = req[t].next
        /\ req'[t].value = req[t].value /\ req'[t].entity = req[t].entity
        /\ institutions' = institutions
    BY <1>0, <1>1 DEF CreatedMail, Typed, RequestTyped
  <2> QED
    BY <1>0, <2>1 DEF FirstOf, Recipient, Activating
<1>2. CASE SaveActivation(t)
  <2>1. /\ req'[t].step = "createUser" /\ req[t].step = "saveActivation"
        /\ req'[t].emails = req[t].emails /\ req'[t].next = req[t].next
        /\ req'[t].value = req[t].value /\ req'[t].entity = req[t].entity
        /\ logins' = logins
    BY <1>0, <1>2 DEF SaveActivation, Typed, RequestTyped
  <2>2. /\ req[t].value \in DOMAIN institutions /\ DOMAIN institutions' = DOMAIN institutions
        /\ institutions' = [institutions EXCEPT ![req[t].value] = req[t].entity]
    BY <1>0, <1>2, <2>1 DEF SaveActivation, RequestTyped, Activating
  <2>3. /\ Rows(institutions, Recipient(t)) = {req[t].value}
        /\ req[t].entity.email = Recipient(t) /\ req[t].entity.completed
        /\ ~institutions[req[t].value].completed
    BY <1>0, <2>1 DEF FirstOf, Activating
  <2>4. Recipient(t)' = Recipient(t)
    BY <2>1 DEF Recipient
  <2>5. Rows(institutions', Recipient(t)) = {req[t].value}
    BY <2>2, <2>3 DEF Rows
  <2>6. Recipient(t) \in DOMAIN logins => Recipient(t) \in Predefined
    <3>1. SUFFICES ASSUME Recipient(t) \in DOMAIN logins \ Predefined PROVE FALSE
      OBVIOUS
    <3>2. PICK i \in DOMAIN institutions :
              institutions[i].completed /\ institutions[i].email = Recipient(t)
      BY <3>1 DEF OneAtATime, LoginsAreRows
    <3>3. i = req[t].value
      BY <2>3, <3>2 DEF Rows
    <3> QED
      BY <2>3, <3>2, <3>3
  <2>7. institutions'[req[t].value] = req[t].entity
    BY <2>2
  <2> QED
    BY <2>1, <2>3, <2>4, <2>5, <2>6, <2>7 DEF FirstOf, Activating
<1>3. CASE ~CreatedMail(t) /\ ~SaveActivation(t)
  <2>1. req'[t].step \in {"idle", "setupMail", "saveUser", "saveQualification", "saveInstitution"}
    BY <1>3, StepsInOrder DEF Proceeds, Idle
  <2> QED
    BY <2>1 DEF FirstOf, Activating
<1> QED
  BY <1>1, <1>2, <1>3

(***************************************************************************)
(* The logins follow the completed rows (UserServiceImpl.java:88-105).     *)
(***************************************************************************)
LEMMA LoginsFollow ==
    ASSUME Typed, OneAtATime, ~overlapped, NEW t \in Thread, Step(t)
    PROVE  LoginsAreRows'
<1>0. /\ RequestTyped(req[t]) /\ FirstOf(t) /\ LoginsAreRows
      /\ \A u \in Thread : u # t => req[u].step = "idle"
  BY StepsInOrder DEF Typed, OneAtATime, Alone, RegisterIsFirst, ActivationIsFirst, FirstOf
<1>1. ASSUME req[t].step # "createUser"
      PROVE  \A i \in DOMAIN institutions :
                 institutions[i].completed /\ institutions[i].email \notin Predefined =>
                     HasLogin(institutions[i])
  BY <1>0, <1>1 DEF LoginsAreRows
<1>2. CASE SaveActivation(t)
  <2>1. /\ req'[t].step = "createUser" /\ req[t].step = "saveActivation"
        /\ req'[t].value = req[t].value
        /\ logins' = logins
    BY <1>0, <1>2 DEF SaveActivation, Typed, RequestTyped
  <2>2. /\ req[t].value \in DOMAIN institutions /\ DOMAIN institutions' = DOMAIN institutions
        /\ institutions'[req[t].value] = req[t].entity
        /\ \A i \in DOMAIN institutions : i # req[t].value => institutions'[i] = institutions[i]
    BY <1>0, <1>2, <2>1 DEF SaveActivation, RequestTyped, Activating
  <2>3. ~institutions[req[t].value].completed
    BY <1>0, <2>1 DEF FirstOf
  <2>4. ASSUME NEW i \in DOMAIN institutions', institutions'[i].completed,
               institutions'[i].email \notin Predefined
        PROVE  HasLogin(institutions[i])' \/ (req'[t].step = "createUser" /\ req'[t].value = i)
    BY <1>1, <2>1, <2>2, <2>4 DEF HasLogin
  <2>5. ASSUME NEW name \in DOMAIN logins' \ Predefined
        PROVE  \E i \in DOMAIN institutions' :
                   institutions'[i].completed /\ institutions'[i].email = name
    <3>1. PICK i \in DOMAIN institutions :
              institutions[i].completed /\ institutions[i].email = name
      BY <1>0, <2>1 DEF LoginsAreRows
    <3> QED
      BY <2>2, <2>3, <3>1
  <2> QED
    BY <2>4, <2>5 DEF LoginsAreRows
<1>3. CASE SaveInstitution(t)
  <2>1. /\ institutions' = Append(institutions, NewInstitution(Recipient(t), req[t].code))
        /\ logins' = logins /\ req[t].step = "saveInstitution"
    BY <1>3 DEF SaveInstitution
  <2>2. /\ DOMAIN institutions \subseteq DOMAIN institutions'
        /\ \A i \in DOMAIN institutions : institutions'[i] = institutions[i]
        /\ \A i \in DOMAIN institutions' \ DOMAIN institutions : ~institutions'[i].completed
    <3> DEFINE row == NewInstitution(Recipient(t), req[t].code)
    <3>1. ~row.completed
      BY DEF NewInstitution
    <3> HIDE DEF row
    <3>2. institutions' = Append(institutions, row) /\ institutions \in Seq(InstitutionRow)
      BY <2>1 DEF row, Typed
    <3> QED
      BY <3>1, <3>2
  <2> QED
    BY <1>0, <1>1, <2>1, <2>2 DEF LoginsAreRows, HasLogin
<1>4. CASE CreateUser(t)
  <2>1. /\ req[t].step = "createUser" /\ Recipient(t) \notin DOMAIN logins
        /\ DOMAIN logins' = DOMAIN logins \cup {Recipient(t)}
        /\ logins'[Recipient(t)] = req[t].entity.password
        /\ \A name \in DOMAIN logins : logins'[name] = logins[name]
        /\ institutions' = institutions
    BY <1>4 DEF CreateUser
  <2>2. /\ institutions[req[t].value] = req[t].entity /\ req[t].value \in DOMAIN institutions
        /\ req[t].entity.email = Recipient(t) /\ req[t].entity.completed
    BY <1>0, <2>1 DEF FirstOf, RequestTyped, Activating
  <2>3. ASSUME NEW i \in DOMAIN institutions, institutions[i].completed,
               institutions[i].email \notin Predefined
        PROVE  HasLogin(institutions[i])'
    <3>1. HasLogin(institutions[i]) \/ i = req[t].value
      BY <1>0, <2>3 DEF LoginsAreRows
    <3> QED
      BY <2>1, <2>2, <3>1 DEF HasLogin
  <2>4. \A name \in DOMAIN logins' \ Predefined :
            \E i \in DOMAIN institutions :
                institutions[i].completed /\ institutions[i].email = name
    BY <1>0, <2>1, <2>2 DEF LoginsAreRows
  <2> QED
    BY <2>1, <2>3, <2>4 DEF LoginsAreRows
<1>5. CASE CreateUserThrows(t)
  <2>1. /\ req[t].step = "createUser" /\ Recipient(t) \in DOMAIN logins
        /\ UNCHANGED <<logins, institutions>>
    BY <1>5 DEF CreateUserThrows
  <2>2. institutions[req[t].value].email \in Predefined
    BY <1>0, <2>1 DEF FirstOf, Activating
  <2>3. \A i \in DOMAIN institutions :
            institutions[i].completed /\ institutions[i].email \notin Predefined =>
                HasLogin(institutions[i])
    BY <1>0, <2>2 DEF LoginsAreRows
  <2> QED
    BY <1>0, <2>1, <2>3 DEF LoginsAreRows, HasLogin
<1>6. CASE \/ SetupMail(t) \/ SetupMailFails(t) \/ SaveUser(t) \/ SaveQualification(t)
           \/ Register(t) \/ RefuseRegistration(t) \/ ActivationMail(t)
           \/ ActivationMailFails(t) \/ CreatedMail(t) \/ CreatedMailFails(t)
  <2>1. UNCHANGED <<logins, institutions>> /\ req[t].step # "createUser"
    BY <1>6 DEF SetupMail, SetupMailFails, SaveUser, SaveQualification, Register,
           RefuseRegistration, ActivationMail, ActivationMailFails, CreatedMail, CreatedMailFails
  <2> QED
    BY <1>0, <1>1, <2>1 DEF LoginsAreRows, HasLogin
<1> QED
  BY <1>2, <1>3, <1>4, <1>5, <1>6 DEF Step

(***************************************************************************)
(* What holds while requests come one at a time goes on to hold            *)
(* (UserServiceImpl.java:79-105, UnilogResource.java:86-104).              *)
(***************************************************************************)
LEMMA FirstStays ==
    ASSUME Typed, Typed', OneAtATime, [Next]_vars
    PROVE  OneAtATime'
<1>1. SUFFICES ASSUME ~overlapped' PROVE OneAtATime'
  BY DEF OneAtATime
<1>2. CASE Restart
  <2>1. \A t \in Thread : req'[t].step = "idle"
    BY <1>2 DEF Restart, Idle
  <2>2. LoginsAreRows'
    BY <1>2 DEF Restart, ConfiguredLogins, LoginsAreRows
  <2> QED
    BY <2>1, <2>2 DEF OneAtATime, Alone, RegisterIsFirst, ActivationIsFirst, Activating
<1>3. ASSUME NEW t \in Thread, Request(t) PROVE OneAtATime'
  BY <1>1, <1>3, FirstAtStart
<1>4. ASSUME NEW t \in Thread, Step(t) PROVE OneAtATime'
  <2>1. ~overlapped
    BY <1>1, <1>4 DEF Step, SetupMail, SetupMailFails, SaveUser, SaveQualification, Register,
           RefuseRegistration, ActivationMail, ActivationMailFails, SaveInstitution, CreatedMail,
           CreatedMailFails, SaveActivation, CreateUser, CreateUserThrows
  <2>2. OthersKept(t) /\ req[t].step # "idle"
    BY <1>4, StepsInOrder
  <2>3. \A u \in Thread : u # t => req'[u].step = "idle"
    BY <2>1, <2>2 DEF OneAtATime, Alone, OthersKept
  <2>4. FirstOf(t)' /\ LoginsAreRows'
    BY <1>4, <2>1, FirstWhileActivating, LoginsFollow
  <2>5. (Alone /\ RegisterIsFirst /\ ActivationIsFirst)'
    BY <2>3, <2>4, AloneIsEnough
  <2> QED
    BY <2>4, <2>5 DEF OneAtATime
<1>5. CASE UNCHANGED vars
  BY <1>5 DEF vars, OneAtATime, Alone, RegisterIsFirst, ActivationIsFirst, LoginsAreRows,
         HasLogin, Recipient
<1> QED
  BY <1>2, <1>3, <1>4, <1>5 DEF Next

LEMMA FirstIsInvariant == Spec => []OneAtATime
<1>1. Init => OneAtATime
  BY DEF Init, Idle, OneAtATime, Alone, RegisterIsFirst, ActivationIsFirst, LoginsAreRows,
         ConfiguredLogins, Activating
<1>2. Typed /\ Typed' /\ OneAtATime /\ [Next]_vars => OneAtATime'
  BY FirstStays
<1> QED
  BY <1>1, <1>2, RequestsTyped, PTL DEF Spec

-----------------------------------------------------------------------------
(***************************************************************************)
(* No step takes a row or its completion away, and only an activation that *)
(* saves its row completes one (UserServiceImpl.java:88-105).              *)
(***************************************************************************)
RowsKept ==
    /\ DOMAIN institutions \subseteq DOMAIN institutions'
    /\ \A i \in DOMAIN institutions :
          /\ institutions'[i].email = institutions[i].email
          /\ institutions[i].completed => institutions'[i].completed

LEMMA RowsAreKept ==
    ASSUME Typed, LoginsInv, NEW t \in Thread, Step(t)
    PROVE  /\ RowsKept
           /\ \A i \in DOMAIN institutions' : institutions'[i].completed =>
                 /\ i \in DOMAIN institutions
                 /\ institutions[i].completed \/ (SaveActivation(t) /\ i = req[t].value)
<1>1. CASE institutions' = institutions
  BY <1>1 DEF RowsKept
<1>2. CASE institutions' = Append(institutions, NewInstitution(Recipient(t), req[t].code))
  <2> DEFINE row == NewInstitution(Recipient(t), req[t].code)
  <2>1. ~row.completed
    BY DEF NewInstitution
  <2> HIDE DEF row
  <2>2. institutions' = Append(institutions, row) /\ institutions \in Seq(InstitutionRow)
    BY <1>2 DEF row, Typed
  <2>3. /\ DOMAIN institutions = 1 .. Len(institutions) /\ Len(institutions) \in Nat
        /\ DOMAIN institutions' = 1 .. Len(institutions) + 1
        /\ \A i \in 1 .. Len(institutions) : institutions'[i] = institutions[i]
        /\ institutions'[Len(institutions) + 1] = row
    BY <2>2
  <2>4. \A i \in 1 .. Len(institutions) + 1 : i \in 1 .. Len(institutions) \/ i = Len(institutions) + 1
    BY <2>3
  <2>5. \A i \in 1 .. Len(institutions) : i \in 1 .. Len(institutions) + 1
    BY <2>3
  <2> QED
    BY <2>1, <2>3, <2>4, <2>5 DEF RowsKept
<1>3. CASE /\ SaveActivation(t) /\ req[t].step = "saveActivation"
           /\ req[t].value \in DOMAIN institutions
           /\ institutions' = [institutions EXCEPT ![req[t].value] = req[t].entity]
           /\ DOMAIN institutions' = DOMAIN institutions
  <2>1. /\ req[t].entity.email = institutions[req[t].value].email /\ req[t].entity.completed
    BY <1>3 DEF LoginsInv, ActivationOf, Activating
  <2>2. /\ institutions'[req[t].value] = req[t].entity
        /\ \A i \in DOMAIN institutions : i # req[t].value => institutions'[i] = institutions[i]
    BY <1>3
  <2> QED
    BY <1>3, <2>1, <2>2 DEF RowsKept
<1> QED
  BY <1>1, <1>2, <1>3, InstitutionSteps

(***************************************************************************)
(* The rows that activations work on (UserServiceImpl.java:79-105).        *)
(***************************************************************************)
LEMMA ActivationStays ==
    ASSUME Typed, LoginsInv, NEW t \in Thread, Step(t), NEW u \in Thread
    PROVE  ActivationOf(u)'
<1>0. RequestTyped(req[u]) /\ ActivationOf(u) /\ RowsKept
  BY RowsAreKept DEF Typed, LoginsInv
<1>1. CASE u # t
  <2>1. req'[u] = req[u]
    BY <1>1, StepsInOrder DEF OthersKept
  <2> QED
    BY <1>0, <2>1 DEF ActivationOf, RowsKept, RequestTyped, Recipient, Activating
<1>2. CASE u = t /\ CreatedMail(t)
  <2>1. /\ req'[t].step = "saveActivation" /\ req[t].step = "createdMail"
        /\ req'[t].emails = req[t].emails /\ req'[t].next = req[t].next
        /\ req'[t].value = req[t].value /\ req'[t].entity = req[t].entity
    BY <1>0, <1>2 DEF CreatedMail, Typed, RequestTyped
  <2> QED
    BY <1>0, <1>2, <2>1 DEF ActivationOf, RowsKept, RequestTyped, Recipient, Activating
<1>3. CASE u = t /\ SaveActivation(t)
  <2>1. /\ req'[t].step = "createUser" /\ req[t].step = "saveActivation"
        /\ req'[t].emails = req[t].emails /\ req'[t].next = req[t].next
        /\ req'[t].value = req[t].value /\ req'[t].entity = req[t].entity
    BY <1>0, <1>3 DEF SaveActivation, Typed, RequestTyped
  <2>2. req[t].value \in DOMAIN institutions
    BY <1>0, <1>3, <2>1 DEF RequestTyped, Activating
  <2>3. institutions'[req[t].value] = req[t].entity
    BY <1>3, <2>2 DEF SaveActivation
  <2> QED
    BY <1>0, <1>3, <2>1, <2>3 DEF ActivationOf, Recipient, Activating
<1>4. CASE u = t /\ ~CreatedMail(t) /\ ~SaveActivation(t)
  <2>1. req'[t].step \in {"idle", "setupMail", "saveUser", "saveQualification", "saveInstitution"}
    BY <1>4, StepsInOrder DEF Proceeds, Idle
  <2> QED
    BY <1>4, <2>1 DEF ActivationOf, Activating
<1> QED
  BY <1>1, <1>2, <1>3, <1>4

(***************************************************************************)
(* A step adds at most the name of the activation that created its login,  *)
(* and no name that exists changes (UserServiceImpl.java:105).             *)
(***************************************************************************)
LEMMA LoginsGrow ==
    ASSUME NEW t \in Thread, Step(t)
    PROVE  /\ DOMAIN logins \subseteq DOMAIN logins'
           /\ \A name \in DOMAIN logins : logins'[name] = logins[name]
           /\ \A name \in DOMAIN logins' :
                 name \in DOMAIN logins \/ (req[t].step = "createUser" /\ name = Recipient(t))
           /\ req[t].step = "createUser" => Recipient(t) \in DOMAIN logins'
<1>1. CASE CreateUser(t)
  <2>1. /\ req[t].step = "createUser" /\ Recipient(t) \notin DOMAIN logins
        /\ DOMAIN logins' = DOMAIN logins \cup {Recipient(t)}
        /\ \A name \in DOMAIN logins : logins'[name] = logins[name]
    BY <1>1 DEF CreateUser
  <2> QED
    BY <2>1
<1>2. CASE CreateUserThrows(t)
  BY <1>2 DEF CreateUserThrows
<1>3. CASE ~CreateUser(t) /\ ~CreateUserThrows(t)
  BY <1>3 DEF Step, SetupMail, SetupMailFails, SaveUser, SaveQualification, Register,
         RefuseRegistration, ActivationMail, ActivationMailFails, SaveInstitution, CreatedMail,
         CreatedMailFails, SaveActivation
<1> QED
  BY <1>1, <1>2, <1>3

LEMMA NamesFollow ==
    ASSUME Typed, LoginsInv, NEW t \in Thread, Step(t)
    PROVE  LoginsInv'
<1>1. /\ RowsKept
      /\ \A i \in DOMAIN institutions' : institutions'[i].completed =>
            /\ i \in DOMAIN institutions
            /\ institutions[i].completed \/ (SaveActivation(t) /\ i = req[t].value)
  BY RowsAreKept
<1>2. \A u \in Thread : ActivationOf(u)'
  BY ActivationStays
<1>3. RequestTyped(req[t]) /\ ActivationOf(t) /\ OthersKept(t)
  BY StepsInOrder DEF Typed, LoginsInv
<1>4. ConfiguredStay'
  BY LoginsGrow DEF LoginsInv, ConfiguredStay
<1>5. RowsHaveNames'
  <2> SUFFICES ASSUME NEW i \in DOMAIN institutions', institutions'[i].completed
               PROVE  \/ institutions'[i].email \in DOMAIN logins'
                      \/ \E u \in Thread : req'[u].step = "createUser" /\ req'[u].value = i
    BY DEF RowsHaveNames
  <2>1. i \in DOMAIN institutions /\ institutions'[i].email = institutions[i].email
    BY <1>1 DEF RowsKept
  <2>2. CASE institutions[i].completed
    <3>1. CASE institutions[i].email \in DOMAIN logins
      BY <2>1, <3>1, LoginsGrow
    <3>2. ASSUME NEW u \in Thread, req[u].step = "createUser", req[u].value = i, u # t
          PROVE  req'[u].step = "createUser" /\ req'[u].value = i
      BY <1>3, <3>2 DEF OthersKept
    <3>3. CASE req[t].step = "createUser" /\ req[t].value = i
      BY <1>3, <2>1, <3>3, LoginsGrow DEF ActivationOf, Activating
    <3> QED
      BY <2>1, <2>2, <3>1, <3>2, <3>3 DEF LoginsInv, RowsHaveNames
  <2>3. CASE SaveActivation(t) /\ i = req[t].value
    BY <1>3, <2>3 DEF SaveActivation, Typed, RequestTyped
  <2> QED
    BY <1>1, <2>2, <2>3
<1>6. NamesHaveRows'
  <2> SUFFICES ASSUME NEW name \in DOMAIN logins', name \notin Predefined
               PROVE  \E i \in DOMAIN institutions' :
                          institutions'[i].completed /\ institutions'[i].email = name
    BY DEF NamesHaveRows
  <2>1. CASE name \in DOMAIN logins
    <3>1. PICK i \in DOMAIN institutions : institutions[i].completed /\ institutions[i].email = name
      BY <2>1 DEF LoginsInv, NamesHaveRows
    <3> QED
      BY <1>1, <3>1 DEF RowsKept
  <2>2. CASE req[t].step = "createUser" /\ name = Recipient(t)
    <3>1. /\ req[t].value \in DOMAIN institutions /\ institutions[req[t].value].email = name
          /\ institutions[req[t].value].completed
      BY <1>3, <2>2 DEF ActivationOf, Activating, RequestTyped
    <3> QED
      BY <1>1, <3>1 DEF RowsKept
  <2> QED
    BY <2>1, <2>2, LoginsGrow
<1> QED
  BY <1>2, <1>4, <1>5, <1>6 DEF LoginsInv

LEMMA LoginsStay ==
    ASSUME Typed, LoginsInv, [Next]_vars
    PROVE  LoginsInv'
<1>1. CASE Restart
  <2>1. \A t \in Thread : req'[t].step = "idle"
    BY <1>1 DEF Restart, Idle
  <2>2. logins' = ConfiguredLogins /\ institutions' = <<>>
    BY <1>1 DEF Restart
  <2> QED
    BY <2>1, <2>2 DEF LoginsInv, ActivationOf, ConfiguredStay, RowsHaveNames, NamesHaveRows,
           ConfiguredLogins, Activating
<1>2. ASSUME NEW t \in Thread, Request(t) PROVE LoginsInv'
  <2>1. OthersKept(t) /\ Starts(t) /\ MayStart(t) /\ UNCHANGED <<institutions, logins>>
    BY <1>2, RequestStarts
  <2>2. ASSUME NEW u \in Thread, u # t PROVE ActivationOf(u)'
    BY <2>1, <2>2 DEF LoginsInv, ActivationOf, OthersKept, Recipient
  <2>3. ActivationOf(t)'
    BY <2>1 DEF Starts, ActivationOf, Recipient, Rows, Activating
  <2>4. \A u \in Thread : req[u].step = "createUser" =>
            req'[u].step = "createUser" /\ req'[u].value = req[u].value
    BY <2>1 DEF MayStart, OthersKept
  <2> QED
    BY <2>1, <2>2, <2>3, <2>4 DEF LoginsInv, ConfiguredStay, RowsHaveNames, NamesHaveRows
<1>3. ASSUME NEW t \in Thread, Step(t) PROVE LoginsInv'
  BY <1>3, NamesFollow
<1>4. CASE UNCHANGED vars
  BY <1>4 DEF vars, LoginsInv, ActivationOf, ConfiguredStay, RowsHaveNames, NamesHaveRows, Recipient
<1> QED
  BY <1>1, <1>2, <1>3, <1>4 DEF Next

LEMMA LoginsAreInvariant == Spec => []LoginsInv
<1>1. Init => LoginsInv
  BY DEF Init, Idle, LoginsInv, ActivationOf, ConfiguredStay, RowsHaveNames, NamesHaveRows,
         ConfiguredLogins, Activating
<1>2. Typed /\ LoginsInv /\ [Next]_vars => LoginsInv'
  BY LoginsStay
<1> QED
  BY <1>1, <1>2, RequestsTyped, PTL DEF Spec

(***************************************************************************)
(* When no request is in progress, the names in the login table are        *)
(* exactly those of the configuration, which keep their password, and of   *)
(* the completed institutions of the database, however requests            *)
(* overlapped; if they came one at a time, every other name has the        *)
(* password that is stored in its row (UserServiceImpl.java:88-105,        *)
(* application.properties:21).                                             *)
(***************************************************************************)
THEOREM LoginsAreInTheDatabase == Spec => []LoginMatchesDatabase
<1>1. LoginsInv /\ OneAtATime => LoginMatchesDatabase
  <2> SUFFICES ASSUME LoginsInv, OneAtATime, Quiet PROVE LoginMatchesDatabase
    BY DEF LoginMatchesDatabase
  <2>1. \A t \in Thread : req[t].step # "createUser"
    BY DEF Quiet
  <2>2. \A r \in Completed : r.email \in DOMAIN logins
    BY <2>1 DEF LoginsInv, RowsHaveNames, Completed
  <2>3. \A name \in DOMAIN logins \ Predefined : \E r \in Completed : r.email = name
    BY DEF LoginsInv, NamesHaveRows, Completed
  <2>4. DOMAIN logins = Predefined \cup {r.email : r \in Completed}
    BY <2>2, <2>3 DEF LoginsInv, ConfiguredStay
  <2>5. ~overlapped => \A r \in Completed : r.email \notin Predefined => logins[r.email] = r.password
    BY <2>1 DEF OneAtATime, LoginsAreRows, Completed, HasLogin
  <2> QED
    BY <2>4, <2>5 DEF LoginMatchesDatabase, LoginsInv, ConfiguredStay
<1> QED
  BY <1>1, FirstIsInvariant, LoginsAreInvariant, PTL

(***************************************************************************)
(* When requests come one at a time, the first account an owner registers  *)
(* is the one that stays (UnilogResource.java:98).                         *)
(***************************************************************************)
THEOREM FirstAccountStays == Spec => FirstRegistrationStands
<1> DEFINE Kept == ~overlapped => \A i \in DOMAIN users :
                        users[i].completed /\ i \in DOMAIN users' => users'[i] = users[i]
<1>1. Typed /\ OwnersInv /\ OneAtATime /\ [Next]_vars => [Kept]_vars
  <2> SUFFICES ASSUME Typed, OwnersInv, OneAtATime, Next, ~overlapped
               PROVE  \A i \in DOMAIN users :
                          users[i].completed /\ i \in DOMAIN users' => users'[i] = users[i]
    OBVIOUS
  <2>1. CASE Restart
    BY <2>1 DEF Restart
  <2>2. ASSUME NEW t \in Thread, Request(t) PROVE users' = users
    BY <2>2, RequestStarts
  <2>3. ASSUME NEW t \in Thread, Step(t), NEW i \in DOMAIN users, users[i].completed
        PROVE  users'[i] = users[i]
    <3>1. CASE users' = users
      BY <3>1
    <3>2. CASE users' = Append(users, NewUser(Recipient(t), req[t].code))
      BY <3>2 DEF Typed
    <3>3. ASSUME req[t].step = "register", NEW j \in Rows(users, Recipient(t)),
                 \A k \in DOMAIN users : k # j => users'[k] = users[k]
          PROVE  users'[i] = users[i]
      <4>1. ~users[j].completed
        BY <3>3 DEF OneAtATime, RegisterIsFirst
      <4> QED
        BY <2>3, <3>3, <4>1
    <3> QED
      BY <2>3, <3>1, <3>2, <3>3, UserSteps
  <2> QED
    BY <2>1, <2>2, <2>3 DEF Next
<1> QED
  BY <1>1, RequestsTyped, OwnersStay, FirstIsInvariant, PTL DEF Spec, FirstRegistrationStands

-----------------------------------------------------------------------------
\* A sequence whose elements are all in a smaller set is a sequence over it.
LEMMA SeqNarrows ==
    ASSUME NEW S, NEW T, NEW s \in Seq(S), \A i \in DOMAIN s : s[i] \in T
    PROVE  s \in Seq(T)
<1>1. s \in [1 .. Len(s) -> T] /\ Len(s) \in Nat
  OBVIOUS
<1> QED
  BY <1>1, SeqDef

\* A step only ever generates codes, and the mails it sends have addresses.
LEMMA MailsAreTyped ==
    ASSUME Typed, NamesTyped, NEW t \in Thread, Step(t)
    PROVE  /\ lastCode' \in Nat /\ lastCode' >= lastCode
           /\ \A m \in mails' : m.to \in Email /\ m.code \in (1 .. lastCode') \cup {None}
<1>0. /\ lastCode \in Nat /\ RequestTyped(req[t])
      /\ \A m \in mails : m.to \in Email /\ m.code \in (1 .. lastCode) \cup {None}
  BY DEF Typed, NamesTyped
<1>1. ASSUME NEW kind, NEW code \in (1 .. lastCode') \cup {None}, req[t].step \in Busy,
             lastCode' \in {lastCode, lastCode + 1}, mails' \subseteq mails \cup {Sent(t, kind, code)}
      PROVE  /\ lastCode' \in Nat /\ lastCode' >= lastCode
             /\ \A m \in mails' : m.to \in Email /\ m.code \in (1 .. lastCode') \cup {None}
  <2>1. Recipient(t) \in Email
    BY <1>0, <1>1 DEF RequestTyped, Recipient
  <2>2. Sent(t, kind, code).to \in Email /\ Sent(t, kind, code).code = code
    BY <2>1 DEF Sent
  <2>3. \A n \in (1 .. lastCode) \cup {None} : n \in (1 .. lastCode') \cup {None}
    BY <1>0, <1>1
  <2>4. ASSUME NEW m \in mails' PROVE m.to \in Email /\ m.code \in (1 .. lastCode') \cup {None}
    BY <1>0, <1>1, <2>2, <2>3, <2>4
  <2> QED
    BY <1>0, <1>1, <2>4
<1>2. CASE SetupMail(t) \/ SetupMailFails(t)
  <2>1. /\ req[t].step \in Busy /\ lastCode' = lastCode + 1
        /\ mails' \subseteq mails \cup {Sent(t, "setup", lastCode')}
    BY <1>2 DEF SetupMail, SetupMailFails, MailSent, MailFails, Busy, Uploading
  <2>2. lastCode' \in 1 .. lastCode'
    BY <1>0, <2>1
  <2> QED
    BY <1>1, <2>1, <2>2
<1>3. CASE ActivationMail(t) \/ ActivationMailFails(t)
  <2>1. /\ req[t].step \in Busy /\ lastCode' = lastCode + 1
        /\ mails' \subseteq mails \cup {Sent(t, "activate", lastCode')}
    BY <1>3 DEF ActivationMail, ActivationMailFails, MailSent, MailFails, Busy, Inviting
  <2>2. lastCode' \in 1 .. lastCode'
    BY <1>0, <2>1
  <2> QED
    BY <1>1, <2>1, <2>2
<1>4. CASE CreatedMail(t) \/ CreatedMailFails(t)
  <2>1. /\ req[t].step \in Busy /\ lastCode' = lastCode
        /\ mails' \subseteq mails \cup {Sent(t, "created", None)}
    BY <1>4 DEF CreatedMail, CreatedMailFails, MailSent, MailFails, Busy, Activating
  <2> QED
    BY <1>1, <2>1
<1>5. CASE \/ SaveUser(t) \/ SaveQualification(t) \/ Register(t) \/ RefuseRegistration(t)
           \/ SaveInstitution(t) \/ SaveActivation(t) \/ CreateUser(t) \/ CreateUserThrows(t)
  <2>1. mails' = mails /\ lastCode' = lastCode
    BY <1>5 DEF SaveUser, SaveQualification, Register, RefuseRegistration, SaveInstitution,
           SaveActivation, CreateUser, CreateUserThrows
  <2> QED
    BY <1>0, <2>1
<1> QED
  BY <1>2, <1>3, <1>4, <1>5 DEF Step

\* What a request has read has a code that was generated.
CodeKnown(t) ==
    /\ req[t].step = "register" /\ req[t].entity # None => req[t].entity.code <= lastCode
    /\ req[t].step \in Activating => req[t].entity.code <= lastCode

(***************************************************************************)
(* Codes in tables and requests were generated, logins have names          *)
(* (UserServiceImpl.java:88-105, 195-213).                                 *)
(***************************************************************************)
LEMMA NamesStayTyped == Spec => []NamesTyped
<1>1. Init => NamesTyped
  BY DEF Init, Idle, NamesTyped, ConfiguredLogins, Activating
<1>2. Typed /\ Typed' /\ OwnersInv /\ NamesTyped /\ [Next]_vars => NamesTyped'
  <2> SUFFICES ASSUME Typed, Typed', OwnersInv, NamesTyped, [Next]_vars PROVE NamesTyped'
    OBVIOUS
  <2>0. /\ lastCode \in Nat /\ \A u \in Thread : CodeKnown(u) /\ RequestTyped(req[u])
        /\ \A i \in DOMAIN users : users[i].code \in Nat /\ users[i].code <= lastCode
        /\ \A i \in DOMAIN institutions :
               institutions[i].code \in Nat /\ institutions[i].code <= lastCode
    <3>1. /\ lastCode \in Nat /\ \A u \in Thread : RequestTyped(req[u])
          /\ \A i \in DOMAIN users : users[i] \in UserRow
          /\ \A i \in DOMAIN institutions : institutions[i] \in InstitutionRow
      BY DEF Typed
    <3>2. /\ \A u \in Thread : CodeKnown(u)
          /\ \A i \in DOMAIN users : users[i].code <= lastCode
          /\ \A i \in DOMAIN institutions : institutions[i].code <= lastCode
      BY DEF NamesTyped, CodeKnown
    <3> QED
      BY <3>1, <3>2 DEF UserRow, InstitutionRow
  <2>1. CASE Restart
    BY <2>1 DEF Restart, Idle, NamesTyped, ConfiguredLogins, Activating
  <2>2. ASSUME NEW t \in Thread, Request(t) PROVE NamesTyped'
    <3>1. /\ OthersKept(t) /\ Starts(t)
          /\ UNCHANGED <<users, institutions, logins, mails, lastCode>>
      BY <2>2, RequestStarts
    <3>2. CodeKnown(t)'
      BY <2>0, <3>1 DEF Starts, CodeKnown, Activating, Rows
    <3>3. ASSUME NEW u \in Thread, u # t PROVE CodeKnown(u)'
      BY <2>0, <3>1, <3>3 DEF OthersKept, CodeKnown
    <3>4. \A u \in Thread : CodeKnown(u)'
      BY <3>2, <3>3
    <3> QED
      BY <3>1, <3>4 DEF NamesTyped, CodeKnown
  <2>3. ASSUME NEW t \in Thread, Step(t) PROVE NamesTyped'
    <3>1. /\ lastCode' \in Nat /\ lastCode' >= lastCode
          /\ \A m \in mails' : m.to \in Email /\ m.code \in (1 .. lastCode') \cup {None}
      BY <2>3, MailsAreTyped
    <3>2. DOMAIN logins' \subseteq Email \cup Predefined
      <4>1. CASE CreateUser(t)
        <5>1. DOMAIN logins' = DOMAIN logins \cup {Recipient(t)} /\ req[t].step = "createUser"
          BY <4>1 DEF CreateUser
        <5>2. Recipient(t) \in Email
          BY <2>0, <5>1 DEF RequestTyped, Recipient, Busy, Activating
        <5> QED
          BY <5>1, <5>2 DEF NamesTyped
      <4>2. CASE ~CreateUser(t)
        <5>1. logins' = logins
          BY <2>3, <4>2 DEF Step, SetupMail, SetupMailFails, SaveUser, SaveQualification,
                 Register, RefuseRegistration, ActivationMail, ActivationMailFails,
                 SaveInstitution, CreatedMail, CreatedMailFails, SaveActivation, CreateUserThrows
        <5> QED
          BY <5>1 DEF NamesTyped
      <4> QED
        BY <4>1, <4>2
    <3>3. \A i \in DOMAIN users' : users'[i].code <= lastCode'
      <4>0. \A i \in DOMAIN users : users[i].code <= lastCode'
        BY <2>0, <3>1
      <4>1. CASE users' = users
        BY <4>0, <4>1
      <4>2. ASSUME users' = Append(users, NewUser(Recipient(t), req[t].code)),
                   req[t].step = "saveUser"
            PROVE  \A i \in DOMAIN users' : users'[i].code <= lastCode'
        <5>1. NewUser(Recipient(t), req[t].code).code <= lastCode'
          BY <2>0, <3>1, <4>2 DEF NewUser, RequestTyped
        <5>2. \A i \in DOMAIN users' : \/ i \in DOMAIN users /\ users'[i] = users[i]
                                      \/ users'[i] = NewUser(Recipient(t), req[t].code)
          BY <4>2 DEF Typed
        <5> QED
          BY <4>0, <5>1, <5>2
      <4>3. ASSUME req[t].step = "register", DOMAIN users' = DOMAIN users,
                   NEW i \in Rows(users, Recipient(t)),
                   \A j \in DOMAIN users : j # i => users'[j] = users[j],
                   users'[i].code = Owner(t, i).code
            PROVE  \A j \in DOMAIN users' : users'[j].code <= lastCode'
        <5>1. Owner(t, i) \in UserRow /\ Owner(t, i).code <= lastCode
          BY <2>0, <4>3 DEF Owner, CodeKnown, Rows, RequestTyped, Typed
        <5>2. Owner(t, i).code <= lastCode'
          BY <2>0, <3>1, <5>1 DEF UserRow
        <5> QED
          BY <4>0, <4>3, <5>2
      <4> QED
        BY <2>3, <4>1, <4>2, <4>3, UserSteps
    <3>4. \A i \in DOMAIN institutions' : institutions'[i].code <= lastCode'
      <4>0. \A i \in DOMAIN institutions : institutions[i].code <= lastCode'
        BY <2>0, <3>1
      <4>1. CASE institutions' = institutions
        BY <4>0, <4>1
      <4>2. ASSUME institutions' = Append(institutions, NewInstitution(Recipient(t), req[t].code)),
                   req[t].step = "saveInstitution"
            PROVE  \A i \in DOMAIN institutions' : institutions'[i].code <= lastCode'
        <5>1. NewInstitution(Recipient(t), req[t].code).code <= lastCode'
          BY <2>0, <3>1, <4>2 DEF NewInstitution, RequestTyped
        <5>2. \A i \in DOMAIN institutions' :
                  \/ i \in DOMAIN institutions /\ institutions'[i] = institutions[i]
                  \/ institutions'[i] = NewInstitution(Recipient(t), req[t].code)
          BY <4>2 DEF Typed
        <5> QED
          BY <4>0, <5>1, <5>2
      <4>3. ASSUME req[t].step = "saveActivation", req[t].value \in DOMAIN institutions,
                   institutions' = [institutions EXCEPT ![req[t].value] = req[t].entity]
            PROVE  \A i \in DOMAIN institutions' : institutions'[i].code <= lastCode'
        <5>1. req[t].entity \in InstitutionRow /\ req[t].entity.code <= lastCode
          BY <2>0, <4>3 DEF CodeKnown, RequestTyped, Activating
        <5>2. req[t].entity.code <= lastCode'
          BY <2>0, <3>1, <5>1 DEF InstitutionRow
        <5> QED
          BY <4>0, <4>3, <5>2
      <4> QED
        BY <2>3, <4>1, <4>2, <4>3, InstitutionSteps
    <3>5. \A u \in Thread : CodeKnown(u)'
      <4>1. ASSUME NEW u \in Thread, req'[u].entity = req[u].entity,
                   req'[u].step = "register" => req[u].step = "register",
                   req'[u].step \in Activating => req[u].step \in Activating
            PROVE  CodeKnown(u)'
        BY <2>0, <3>1, <4>1 DEF CodeKnown, RequestTyped, UserRow, InstitutionRow
      <4>2. ASSUME NEW u \in Thread, u # t PROVE CodeKnown(u)'
        BY <2>3, <4>1, <4>2, StepsInOrder DEF OthersKept
      <4>3. CodeKnown(t)'
        <5>1. /\ CreatedMail(t) => req[t].step \in Activating
              /\ SaveActivation(t) => req[t].step \in Activating
              /\ Idle.step = "idle"
          BY DEF CreatedMail, SaveActivation, Activating, Idle
        <5>2. CASE req'[t].step \notin {"register"} \cup Activating
          BY <5>2 DEF CodeKnown
        <5>3. CASE req'[t].step \in {"register"} \cup Activating
          <6>1. /\ req'[t].entity = req[t].entity /\ req[t].step \in Activating
                /\ req'[t].step # "register"
            BY <2>3, <5>1, <5>3, StepsInOrder DEF Proceeds, Activating
          <6> QED
            BY <4>1, <6>1
        <5> QED
          BY <5>2, <5>3
      <4> QED
        BY <4>2, <4>3
    <3> QED
      BY <3>1, <3>2, <3>3, <3>4, <3>5 DEF NamesTyped, CodeKnown
  <2>4. CASE UNCHANGED vars
    BY <2>4 DEF vars, NamesTyped
  <2> QED
    BY <2>1, <2>2, <2>3, <2>4 DEF Next
<1> QED
  BY <1>1, <1>2, RequestsTyped, OwnersStay, PTL DEF Spec

(***************************************************************************)
(* Tables, logins, mails and requests are what the code declares them to   *)
(* be (UserServiceImpl.java, AdminServiceImpl.java, WebSecurityConfig.java)*)
(***************************************************************************)
THEOREM OnboardingTypeCorrect == Spec => []TypeOK
<1>1. Typed /\ NamesTyped => TypeOK
  <2> SUFFICES ASSUME Typed, NamesTyped PROVE TypeOK
    OBVIOUS
  <2>1. users \in Seq([email : Email, code : 1 .. lastCode,
                       completed : BOOLEAN, account : Account \cup {None}])
    <3>1. \A i \in DOMAIN users :
              users[i] \in [email : Email, code : 1 .. lastCode,
                            completed : BOOLEAN, account : Account \cup {None}]
      <4>1. ASSUME NEW i \in DOMAIN users
            PROVE  users[i] \in UserRow /\ users[i].code \in 1 .. lastCode
        <5>1. users[i] \in UserRow /\ users[i].code <= lastCode
          BY DEF Typed, NamesTyped
        <5> QED
          BY <5>1 DEF UserRow, Typed
      <4> QED
        BY <4>1 DEF UserRow
    <3> QED
      BY <3>1, SeqNarrows DEF Typed
  <2>2. institutions \in Seq([email : Email, code : 1 .. lastCode,
                              completed : BOOLEAN, password : Password \cup {None}])
    <3>1. \A i \in DOMAIN institutions :
              institutions[i] \in [email : Email, code : 1 .. lastCode,
                                   completed : BOOLEAN, password : Password \cup {None}]
      <4>1. ASSUME NEW i \in DOMAIN institutions
            PROVE  institutions[i] \in InstitutionRow /\ institutions[i].code \in 1 .. lastCode
        <5>1. institutions[i] \in InstitutionRow /\ institutions[i].code <= lastCode
          BY DEF Typed, NamesTyped
        <5> QED
          BY <5>1 DEF InstitutionRow, Typed
      <4> QED
        BY <4>1 DEF InstitutionRow
    <3> QED
      BY <3>1, SeqNarrows DEF Typed
  <2>3. \A t \in Thread : req[t].step \notin {"idle", "saveQualification"}
                              => req[t].next \in DOMAIN req[t].emails
    BY DEF Typed, RequestTyped
  <2> QED
    BY <2>1, <2>2, <2>3 DEF TypeOK, Typed, NamesTyped
<1> QED
  BY <1>1, RequestsTyped, NamesStayTyped, PTL
=============================================================================
