----------------------------- MODULE Onboarding ------------------------------
(***************************************************************************)
(* How people come into the service: an institution uploads a              *)
(* qualification, which mails every transcript owner an activation code    *)
(* (UserServiceImpl.java); the owner registers an Ethereum account with it *)
(* (UnilogResource.java); the admin invites institutions                   *)
(* (AdminServiceImpl.java), who activate their account with a password and *)
(* can log in from then on (WebSecurityConfig.java keeps the logins in     *)
(* memory).                                                                *)
(*                                                                         *)
(* E-mail addresses are not unique in any table: a query for the row of an *)
(* address answers null for no row and throws for two.  As in              *)
(* AccountCompletion a request has one persistence context, so that an     *)
(* entity it has read once keeps its values.  A restart drops and creates  *)
(* the tables, and starts with the logins the configuration names.         *)
(***************************************************************************)
EXTENDS Naturals, FiniteSets, SequencesExt

CONSTANTS
    Thread,       \* request threads
    Email,        \* e-mail addresses, all of them of the required pattern
    Account,      \* Ethereum accounts
    Password,     \* passwords, as ValidatePassword sees them
    Upload,       \* the uploads: the recipients of a qualification's transcripts
    Predefined,   \* the names of the logins in the configuration
    None,         \* null
    MaxCodes,     \* bound: no request that needs a code is made beyond it
    MaxFaults     \* bound: mails reported as not sent, and restarts

ASSUME UploadAssumption == Upload \subseteq Seq(Email)
ASSUME BoundAssumption  == MaxCodes \in Nat /\ MaxFaults \in Nat

VARIABLES
    users,         \* table User
    institutions,  \* table Institution
    transcripts,   \* table Transcript: the recipient of each
    logins,        \* the login table in memory: the password of each name
    mails,         \* what was e-mailed
    lastCode,      \* the codes 1 .. lastCode have been generated
    req,           \* for each thread, the local state of its request
    faults,        \* number of failed mails and restarts so far
    overlapped     \* history: a request was made while another was in progress

vars == <<users, institutions, transcripts, logins, mails, lastCode, req, faults, overlapped>>

-----------------------------------------------------------------------------
\* A password is its length and the kinds of characters in it.
MINIMUM_PASSWORD_LENGTH == 8
Required == {"upper", "lower", "digit", "special"}

ValidatePassword(password, repeated) ==
    /\ password.length > 0
    /\ password = repeated
    /\ password.length >= MINIMUM_PASSWORD_LENGTH
    /\ Required \subseteq password.has

-----------------------------------------------------------------------------
\* What a thread starts a request with, and forgets when it has answered.
Idle == [step |-> "idle", emails |-> <<>>, next |-> 1, code |-> None,
         value |-> None, entity |-> None]

NewUser(email, code) ==
    [email |-> email, code |-> code, completed |-> FALSE, account |-> None]

NewInstitution(email, code) ==
    [email |-> email, code |-> code, completed |-> FALSE, password |-> None]

\* The rows of a table a query by e-mail address finds.
Rows(table, email) == {i \in DOMAIN table : table[i].email = email}

\* The passwords of the configuration are nobody's choice: None.
ConfiguredLogins == [name \in Predefined |-> None]

Init ==
    /\ users = <<>> /\ institutions = <<>> /\ transcripts = <<>>
    /\ logins = ConfiguredLogins
    /\ mails = {} /\ lastCode = 0
    /\ req = [t \in Thread |-> Idle]
    /\ faults = 0 /\ overlapped = FALSE

MayStart(t) ==
    /\ req[t].step = "idle"
    /\ overlapped' = (overlapped \/ \E s \in Thread : req[s].step # "idle")

\* Who the request is for, or this round of its loop.
Recipient(t) == req[t].emails[req[t].next]

Answered(t) == req' = [req EXCEPT ![t] = Idle]

-----------------------------------------------------------------------------
\* sendSetupMail and sendAccountCreatedMail: true when the mail is on its
\* way, false for an exception anywhere, also after it has left.

Sent(t, kind, code) == [kind |-> kind, to |-> Recipient(t), code |-> code]

MailSent(mail) ==
    /\ mails' = mails \cup {mail}
    /\ UNCHANGED faults

MailFails(mail) ==
    /\ faults < MaxFaults
    /\ faults' = faults + 1
    /\ mails' \in {mails, mails \cup {mail}}

-----------------------------------------------------------------------------
\* uploadQualification, by an institution.

\* A qualification may have no transcripts.
UploadQualification(t, emails) ==
    /\ MayStart(t)
    /\ lastCode + Len(emails) <= MaxCodes
    /\ req' = [req EXCEPT ![t] = [Idle EXCEPT !.emails = emails,
                                     !.step = IF emails = <<>> THEN "saveQualification"
                                              ELSE "setupMail"]]
    /\ UNCHANGED <<users, institutions, transcripts, logins, mails, lastCode, faults>>

SetupMail(t) ==
    /\ req[t].step = "setupMail"
    /\ lastCode' = lastCode + 1
    /\ MailSent(Sent(t, "setup", lastCode'))
    /\ req' = [req EXCEPT ![t].step = "saveUser", ![t].code = lastCode']
    /\ UNCHANGED <<users, institutions, transcripts, logins, overlapped>>

\* Mutant: a failed mail is only logged; the upload goes on and saves.
SetupMailIgnored(t) ==
    /\ req[t].step = "setupMail"
    /\ lastCode' = lastCode + 1
    /\ MailFails(Sent(t, "setup", lastCode'))
    /\ req' = [req EXCEPT ![t].step = "saveUser", ![t].code = lastCode']
    /\ UNCHANGED <<users, institutions, transcripts, logins, overlapped>>

\* The upload ends; the users saved so far stay.
SetupMailFails(t) ==
    /\ req[t].step = "setupMail"
    /\ lastCode' = lastCode + 1
    /\ MailFails(Sent(t, "setup", lastCode'))
    /\ Answered(t)
    /\ UNCHANGED <<users, institutions, transcripts, logins, overlapped>>

\* Mutant: the loop ends one user early.
SaveUserButLast(t) ==
    /\ req[t].step = "saveUser"
    /\ users' = Append(users, NewUser(Recipient(t), req[t].code))
    /\ req' = [req EXCEPT ![t].code = None, ![t].next = @ + 1,
                   ![t].step = IF req[t].next + 1 < Len(req[t].emails)
                               THEN "setupMail" ELSE "saveQualification"]
    /\ UNCHANGED <<institutions, transcripts, logins, mails, lastCode, faults, overlapped>>

SaveUser(t) ==
    /\ req[t].step = "saveUser"
    /\ users' = Append(users, NewUser(Recipient(t), req[t].code))
    /\ req' = [req EXCEPT ![t].code = None, ![t].next = @ + 1,
                   ![t].step = IF req[t].next < Len(req[t].emails)
                               THEN "setupMail" ELSE "saveQualification"]
    /\ UNCHANGED <<institutions, transcripts, logins, mails, lastCode, faults, overlapped>>

SaveQualification(t) ==
    /\ req[t].step = "saveQualification"
    /\ transcripts' = transcripts \o req[t].emails
    /\ Answered(t)
    /\ UNCHANGED <<users, institutions, logins, mails, lastCode, faults, overlapped>>

-----------------------------------------------------------------------------
\* isRegistered and completeRegistration, by a transcript owner.

\* Mutant: whether the row is completed is not asked.
IsRegisteredAnyway(t, email, code, account) ==
    LET rows == Rows(users, email)
    IN  /\ MayStart(t)
        /\ Cardinality(rows) <= 1
        /\ req' = [req EXCEPT ![t] = [Idle EXCEPT
                      !.step = "register", !.emails = <<email>>, !.code = code, !.value = account,
                      !.entity = IF rows = {} THEN None ELSE users[CHOOSE i \in rows : TRUE]]]
        /\ UNCHANGED <<users, institutions, transcripts, logins, mails, lastCode, faults>>

\* The request ends here, without effect, when the row is not the only one
\* of the address (an exception) or already completed.
IsRegistered(t, email, code, account) ==
    LET rows == Rows(users, email)
    IN  /\ MayStart(t)
        /\ Cardinality(rows) <= 1
        /\ \A i \in rows : ~users[i].completed
        /\ req' = [req EXCEPT ![t] = [Idle EXCEPT
                      !.step = "register", !.emails = <<email>>, !.code = code, !.value = account,
                      !.entity = IF rows = {} THEN None ELSE users[CHOOSE i \in rows : TRUE]]]
        /\ UNCHANGED <<users, institutions, transcripts, logins, mails, lastCode, faults>>

\* The entity completeRegistration works on when the query finds row i.
Owner(t, i) == IF req[t].entity = None THEN users[i] ELSE req[t].entity

MayRegister(t) ==
    \E i \in DOMAIN users :
        Rows(users, Recipient(t)) = {i} /\ Owner(t, i).code = req[t].code

Register(t) ==
    /\ req[t].step = "register"
    /\ MayRegister(t)
    /\ \E i \in Rows(users, Recipient(t)) :
           users' = [users EXCEPT ![i] =
                        [Owner(t, i) EXCEPT !.account = req[t].value, !.completed = TRUE]]
    /\ Answered(t)
    /\ UNCHANGED <<institutions, transcripts, logins, mails, lastCode, faults, overlapped>>

RefuseRegistration(t) ==
    /\ req[t].step = "register"
    /\ ~MayRegister(t)
    /\ Answered(t)
    /\ UNCHANGED <<users, institutions, transcripts, logins, mails, lastCode, faults, overlapped>>

-----------------------------------------------------------------------------
\* registerAccount, by the admin.

RegisterAccount(t, email) ==
    /\ MayStart(t)
    /\ lastCode < MaxCodes
    /\ req' = [req EXCEPT ![t] = [Idle EXCEPT !.step = "activationMail", !.emails = <<email>>]]
    /\ UNCHANGED <<users, institutions, transcripts, logins, mails, lastCode, faults>>

ActivationMail(t) ==
    /\ req[t].step = "activationMail"
    /\ lastCode' = lastCode + 1
    /\ MailSent(Sent(t, "activate", lastCode'))
    /\ req' = [req EXCEPT ![t].step = "saveInstitution", ![t].code = lastCode']
    /\ UNCHANGED <<users, institutions, transcripts, logins, overlapped>>

ActivationMailFails(t) ==
    /\ req[t].step = "activationMail"
    /\ lastCode' = lastCode + 1
    /\ MailFails(Sent(t, "activate", lastCode'))
    /\ Answered(t)
    /\ UNCHANGED <<users, institutions, transcripts, logins, overlapped>>

SaveInstitution(t) ==
    /\ req[t].step = "saveInstitution"
    /\ institutions' = Append(institutions, NewInstitution(Recipient(t), req[t].code))
    /\ Answered(t)
    /\ UNCHANGED <<users, transcripts, logins, mails, lastCode, faults, overlapped>>

-----------------------------------------------------------------------------
\* completeInstitutionRegistration, by an institution.

\* The entity is changed at once, and saved only after the mail.
CompleteInstitutionRegistration(t, email, code, password, repeated) ==
    /\ MayStart(t)
    /\ ValidatePassword(password, repeated)
    /\ \E i \in DOMAIN institutions :
           /\ Rows(institutions, email) = {i}
           /\ ~institutions[i].completed
           /\ institutions[i].code = code
           /\ req' = [req EXCEPT ![t] = [Idle EXCEPT
                  !.step = "createdMail", !.emails = <<email>>, !.value = i,
                  !.entity = [institutions[i] EXCEPT !.completed = TRUE, !.password = password]]]
    /\ UNCHANGED <<users, institutions, transcripts, logins, mails, lastCode, faults>>

CreatedMail(t) ==
    /\ req[t].step = "createdMail"
    /\ MailSent(Sent(t, "created", None))
    /\ req' = [req EXCEPT ![t].step = "saveActivation"]
    /\ UNCHANGED <<users, institutions, transcripts, logins, lastCode, overlapped>>

\* Nothing is saved: no database call follows that would write the entity.
CreatedMailFails(t) ==
    /\ req[t].step = "createdMail"
    /\ MailFails(Sent(t, "created", None))
    /\ Answered(t)
    /\ UNCHANGED <<users, institutions, transcripts, logins, lastCode, overlapped>>

SaveActivation(t) ==
    /\ req[t].step = "saveActivation"
    /\ institutions' = [institutions EXCEPT ![req[t].value] = req[t].entity]
    /\ req' = [req EXCEPT ![t].step = "createUser"]
    /\ UNCHANGED <<users, transcripts, logins, mails, lastCode, faults, overlapped>>

CreateUser(t) ==
    /\ req[t].step = "createUser"
    /\ Recipient(t) \notin DOMAIN logins
    /\ logins' = [name \in DOMAIN logins \cup {Recipient(t)} |->
                     IF name = Recipient(t) THEN req[t].entity.password ELSE logins[name]]
    /\ Answered(t)
    /\ UNCHANGED <<users, institutions, transcripts, mails, lastCode, faults, overlapped>>

\* createUser insists on a new name: an exception.
CreateUserThrows(t) ==
    /\ req[t].step = "createUser"
    /\ Recipient(t) \in DOMAIN logins
    /\ Answered(t)
    /\ UNCHANGED <<users, institutions, transcripts, logins, mails, lastCode, faults, overlapped>>

-----------------------------------------------------------------------------
\* Mutant: the tables survive, as with ddl-auto = update.
RestartKeepingTables ==
    /\ faults < MaxFaults
    /\ faults' = faults + 1
    /\ logins' = ConfiguredLogins
    /\ req' = [t \in Thread |-> Idle]
    /\ UNCHANGED <<users, institutions, transcripts, mails, lastCode, overlapped>>

\* Requests in progress are gone, and so is everything but the mails.
Restart ==
    /\ faults < MaxFaults
    /\ faults' = faults + 1
    /\ users' = <<>> /\ institutions' = <<>> /\ transcripts' = <<>>
    /\ logins' = ConfiguredLogins
    /\ req' = [t \in Thread |-> Idle]
    /\ UNCHANGED <<mails, lastCode, overlapped>>

-----------------------------------------------------------------------------
\* What people type as a code: one that was generated, or none of them (0).
TypedCode == 0 .. lastCode

Request(t) ==
    \/ \E emails \in Upload : UploadQualification(t, emails)
    \/ \E email \in Email, code \in TypedCode, account \in Account :
           IsRegistered(t, email, code, account)
    \/ \E email \in Email : RegisterAccount(t, email)
    \/ \E email \in Email, code \in TypedCode, password \in Password, repeated \in Password :
           CompleteInstitutionRegistration(t, email, code, password, repeated)

Step(t) ==
    \/ SetupMail(t) \/ SetupMailFails(t) \/ SaveUser(t) \/ SaveQualification(t)
    \/ Register(t) \/ RefuseRegistration(t)
    \/ ActivationMail(t) \/ ActivationMailFails(t) \/ SaveInstitution(t)
    \/ CreatedMail(t) \/ CreatedMailFails(t) \/ SaveActivation(t)
    \/ CreateUser(t) \/ CreateUserThrows(t)

Next == Restart \/ \E t \in Thread : Request(t) \/ Step(t)

Spec == Init /\ [][Next]_vars

-----------------------------------------------------------------------------
Quiet == \A t \in Thread : req[t].step = "idle"

Completed == {institutions[i] : i \in {j \in DOMAIN institutions : institutions[j].completed}}

TypeOK ==
    /\ users \in Seq([email : Email, code : 1 .. lastCode,
                      completed : BOOLEAN, account : Account \cup {None}])
    /\ institutions \in Seq([email : Email, code : 1 .. lastCode,
                             completed : BOOLEAN, password : Password \cup {None}])
    /\ transcripts \in Seq(Email)
    /\ DOMAIN logins \subseteq Email \cup Predefined
    /\ \A m \in mails : m.to \in Email /\ m.code \in (1 .. lastCode) \cup {None}
    /\ \A t \in Thread : req[t].step \notin {"idle", "saveQualification"}
                            => req[t].next \in DOMAIN req[t].emails

(***************************************************************************)
(* Every saved transcript has an owner who can be invited, whatever mails  *)
(* fail and whoever uploads at the same time: the qualification is saved   *)
(* after all of its users (UserServiceImpl.java:43-61, 195-213).           *)
(***************************************************************************)
TranscriptsHaveOwners ==
    \A i \in DOMAIN transcripts : Rows(users, transcripts[i]) # {}

(***************************************************************************)
(* Nobody is in a table whose code did not leave in a mail to that very    *)
(* address, so that nobody waits for a code that was never sent            *)
(* (UserServiceImpl.java:204-211, AdminServiceImpl.java:178-188).          *)
(***************************************************************************)
RowsWereMailed ==
    /\ \A i \in DOMAIN users :
           [kind |-> "setup", to |-> users[i].email, code |-> users[i].code] \in mails
    /\ \A i \in DOMAIN institutions :
           [kind |-> "activate", to |-> institutions[i].email,
            code |-> institutions[i].code] \in mails

(***************************************************************************)
(* When no request is in progress, the names in the login table are those  *)
(* of the configuration and of the completed institutions in the database, *)
(* neither more nor fewer, after any overlapping requests and failures; a  *)
(* restart forgets both.  createUser may throw after the institution was   *)
(* saved, and then the passwords differ for good: a name of the            *)
(* configuration keeps the configured password whoever was invited under   *)
(* it, and of two activations at once the login may have the password of   *)
(* one and the row that of the other.  In all other cases the login has    *)
(* the password of the row (UserServiceImpl.java:88-105,                   *)
(* WebSecurityConfig.java:38-47, application.properties:21).               *)
(***************************************************************************)
LoginMatchesDatabase ==
    Quiet =>
        /\ DOMAIN logins = Predefined \cup {r.email : r \in Completed}
        /\ \A name \in Predefined : logins[name] = None
        /\ ~overlapped => \A r \in Completed :
              r.email \notin Predefined => logins[r.email] = r.password

(***************************************************************************)
(* "This account is already registered!" (UnilogResource.java:98): when    *)
(* requests come one at a time, the first account an owner registers is    *)
(* the one that stays, and later requests change nothing.                  *)
(***************************************************************************)
FirstRegistrationStands ==
    [][~overlapped => \A i \in DOMAIN users :
           users[i].completed /\ i \in DOMAIN users' => users'[i] = users[i]]_vars
=============================================================================
