-------------------------- MODULE AccountCompletion --------------------------
(***************************************************************************)
(* The admin portal (AdminResource.java, AdminServiceImpl.java) completing *)
(* accounts while transcript owners register (UnilogResource.java,         *)
(* UserServiceImpl.java), over the database, the mail server, IPFS and the *)
(* Ethereum client.                                                        *)
(*                                                                         *)
(* A request thread owns one persistence context for the whole request     *)
(* (spring.jpa.open-in-view keeps its default, true): an entity is read    *)
(* once and then comes from the context, a changed entity is written, all  *)
(* columns, by whatever database call commits next, and every call of a    *)
(* DAO commits.  The client is what TransactionClient shows it to be: the  *)
(* nonce is how many of the account's transactions the node has imported   *)
(* at the time of sending, which after a restart can be fewer than were    *)
(* mined, and a call returns once its own transaction is mined and         *)
(* imported.  Nobody asks the node whether it is in sync: whether it is,   *)
(* when a nonce is read, is an assumption, AfterSync.                      *)
(*                                                                         *)
(* The period of an artifact (520 weeks) is longer than anything here, so  *)
(* the block time stands still at 0.                                       *)
(***************************************************************************)
EXTENDS UnilogContract, UnilogRegistry, FiniteSets, SequencesExt

CONSTANTS
    Thread,      \* request threads
    User,        \* ids of the rows of table User, 1 .. n
    Unilog,      \* Unilog's own account
    Account,     \* the Ethereum accounts transcript owners register with
    DocOf,       \* for each user the content address of the transcript, or
                 \* NoContent when the database has no transcript for the user
    None,        \* null
    MaxChain,    \* bound: no request is made from this height of the chain on
    MaxFaults,   \* bound: mails not sent, IPFS or client calls failing, restarts
    OneAtATime,  \* TRUE: a request is made only when no other is in progress
    AfterSync    \* TRUE: a nonce is read only when the node has imported all
                 \* that was mined

VALID_FOR_10_YEARS == 520

ASSUME UserAssumption  == /\ User \subseteq Nat /\ IsFiniteSet(User)
                          /\ Account \cup {Unilog} \subseteq Address
ASSUME DocAssumption   == DocOf \in [User -> Content \cup {NoContent}]
ASSUME BoundAssumption == MaxChain \in Nat /\ MaxFaults \in Nat
ASSUME ModeAssumption  == OneAtATime \in BOOLEAN /\ AfterSync \in BOOLEAN

VARIABLES
    users,     \* table User
    registry,  \* the row of table Admin: registryContractAddress, null until published
    req,       \* for each thread, the local state of its request
    chain,     \* the mined transactions of Unilog's account, by nonce
    imported,  \* how many of them are in the blocks this node has imported
    submitted, \* the transactions sent that can still be mined
    world,     \* the contract at each address; the address is the deploying nonce
    mails,     \* the tokens that were e-mailed
    life,      \* the number of restarts
    answer,    \* history: what each thread has told the admin last, in this life
    faults     \* number of faults so far

vars == <<users, registry, req, chain, imported, submitted, world, mails, life, answer, faults>>

-----------------------------------------------------------------------------
\* What a thread starts a request with, and forgets when it has answered.
Idle == [op |-> "none", step |-> "idle", ids |-> <<>>, done |-> <<>>, ready |-> {},
         registry |-> None, contract |-> None, content |-> None,
         cache |-> [u \in User |-> None], dirty |-> {}, account |-> None, tx |-> None]

NoAnswers == [t \in Thread |-> [verdict |-> None, ready |-> {}, done |-> {}]]

\* A row of table User; what its accessors read and write.
UserRow == [completed : BOOLEAN, account : Account \cup {None},
            published : BOOLEAN, token : Nat \cup {None}]

NewUser == [completed |-> FALSE, account |-> None, published |-> FALSE, token |-> None]

Init ==
    /\ users = [u \in User |-> NewUser]
    /\ registry = None
    /\ req = [t \in Thread |-> Idle]
    /\ chain = <<>> /\ imported = 0 /\ submitted = {} /\ world = <<>>
    /\ answer = NoAnswers
    /\ mails = {} /\ life = 0 /\ faults = 0

MayStart(t) ==
    /\ req[t].step = "idle"
    /\ Len(chain) < MaxChain
    /\ OneAtATime => \A s \in Thread : req[s].step = "idle"

\* Mutant: every user is listed.
UnpublishedOrNot == User

Unpublished == {u \in User : ~users[u].published}

\* A database call writes the changed entities of the thread's context.
Flushed(t) == [u \in User |-> IF u \in req[t].dirty THEN req[t].cache[u] ELSE users[u]]

Target(t) == Head(req[t].ids)

-----------------------------------------------------------------------------
\* The requests.

PublishRegistry(t) ==
    /\ MayStart(t)
    /\ req' = [req EXCEPT ![t] = [Idle EXCEPT !.op = "publish", !.step = "deployRegistry"]]
    /\ UNCHANGED <<users, registry, chain, submitted, world, mails, answer, faults>>

CompleteAccount(t, u) ==
    /\ MayStart(t)
    /\ req' = [req EXCEPT ![t] = [Idle EXCEPT
                  !.op = "complete", !.step = "find", !.ids = <<u>>]]
    /\ UNCHANGED <<users, registry, chain, submitted, world, mails, answer, faults>>

\* The query asks for no order of its rows.
Orders(set) == {ids \in [1 .. Cardinality(set) -> set] : ToSet(ids) = set}

\* The list of unpublished users is read once; their entities stay cached.
CompleteAllAccounts(t) ==
    /\ MayStart(t)
    /\ Unpublished # {}
    /\ \E ids \in Orders(Unpublished) :
           req' = [req EXCEPT ![t] = [Idle EXCEPT
                  !.op = "completeAll", !.step = "find", !.ids = ids,
                  !.ready = {u \in Unpublished : users[u].completed /\ registry # None},
                  !.cache = [u \in User |-> IF u \in Unpublished THEN users[u] ELSE None]]]
    /\ UNCHANGED <<users, registry, chain, submitted, world, mails, answer, faults>>

\* isRegistered reads the row; completeRegistration works on the same entity.
CompleteRegistration(t, u, account) ==
    /\ MayStart(t)
    /\ ~users[u].completed
    /\ req' = [req EXCEPT ![t] = [Idle EXCEPT
                  !.op = "register", !.step = "saveRegistration", !.ids = <<u>>,
                  !.account = account, !.cache[u] = users[u]]]
    /\ UNCHANGED <<users, registry, chain, submitted, world, mails, answer, faults>>

SaveRegistration(t) ==
    /\ req[t].step = "saveRegistration"
    /\ users' = [users EXCEPT ![Target(t)] =
                    [req[t].cache[Target(t)] EXCEPT !.account = req[t].account, !.completed = TRUE]]
    /\ req' = [req EXCEPT ![t] = Idle]
    /\ UNCHANGED <<registry, chain, submitted, world, mails, life, answer, faults>>

-----------------------------------------------------------------------------
\* completeSingleAccount: who is it for, and may it go on?

\* findAdmin and findUsersWithNonPublishedTranscripts.  They read different
\* tables, so that nothing can be told from a step of another thread between
\* them.  The first findAdmin of a request decides what registry it sees.
Found(t) ==
    LET r == req[t]
        entity == [u \in User |-> IF r.cache[u] = None /\ u \in Unpublished
                                  THEN users[u] ELSE r.cache[u]]
    IN  [r EXCEPT !.registry = IF @ = None THEN registry ELSE @, !.cache = entity]

MayComplete(t) ==
    /\ Found(t).registry # None
    /\ Target(t) \in Unpublished
    /\ Found(t).cache[Target(t)].completed

\* Mutant: the account is not marked before its token is saved.
FindUserUnmarked(t) ==
    /\ req[t].step = "find"
    /\ MayComplete(t)
    /\ req' = [req EXCEPT ![t] = [Found(t) EXCEPT !.step = "deploy"]]
    /\ UNCHANGED <<users, registry, chain, submitted, world, mails, answer, faults>>

FindUser(t) ==
    /\ req[t].step = "find"
    /\ MayComplete(t)
    /\ req' = [req EXCEPT ![t] = [Found(t) EXCEPT
                  !.step = "deploy",
                  !.cache[Target(t)].published = TRUE,
                  !.dirty = @ \cup {Target(t)}]]
    /\ UNCHANGED <<users, registry, chain, submitted, world, mails, answer, faults>>

\* Mutant: an incomplete round is reported as a complete one.
RefusalAsSuccess(t) ==
    IF req[t].op # "completeAll" THEN "publishError"
    ELSE IF req[t].done = <<>> THEN "zeroSuccess" ELSE "allSuccess"

\* What the admin is told when completeSingleAccount returns false.
Refusal(t) ==
    IF req[t].op # "completeAll" THEN "publishError"
    ELSE IF req[t].done = <<>> THEN "zeroSuccess" ELSE "partialSuccess"

FindNobody(t) ==
    /\ req[t].step = "find"
    /\ ~MayComplete(t)
    /\ req' = [req EXCEPT ![t] = [Found(t) EXCEPT !.step = Refusal(t)]]
    /\ UNCHANGED <<users, registry, chain, submitted, world, mails, life, answer, faults>>

-----------------------------------------------------------------------------
\* Calls of the Ethereum client.  Each step that sends a transaction names
\* the step that follows when the call has returned.

CallSteps == {"deployRegistry", "deploy", "addArtifact", "assignOwner", "addContract"}

\* Mutants: the owner is not assigned, the contract is not registered.
AfterWithoutOwner == [deployRegistry |-> "saveAdmin", deploy |-> "mail",
                      addArtifact |-> "addContract", addContract |-> "saveUser"]

AfterWithoutRegistry == [deployRegistry |-> "saveAdmin", deploy |-> "mail",
                         addArtifact |-> "assignOwner", assignOwner |-> "saveUser"]

After == [deployRegistry |-> "saveAdmin", deploy |-> "mail", addArtifact |-> "assignOwner",
          assignOwner |-> "addContract", addContract |-> "saveUser"]

Transaction ==
    [nonce : Nat,
     data  : [to  : Nat \cup {None}, fn : CallSteps,
              arg : Nat \cup Account \cup Content \cup {NoContent, None}]]

\* null is nothing else.
ASSUME NoneAssumption ==
    None \notin Nat \cup Account \cup Content \cup {NoContent} \cup UserRow \cup Transaction

\* Recipient and data of the transaction.
Data(t) ==
    LET r == req[t]
    IN  CASE r.step \in {"deployRegistry", "deploy"} -> [to |-> None, fn |-> r.step, arg |-> None]
          [] r.step = "addArtifact" -> [to |-> r.contract, fn |-> r.step, arg |-> r.content]
          [] r.step = "assignOwner" ->
                 [to |-> r.contract, fn |-> r.step, arg |-> r.cache[Target(t)].account]
          [] r.step = "addContract" -> [to |-> r.registry, fn |-> r.step, arg |-> r.contract]

\* Mutant: the nonce is one too high.
SendTooHigh(t) ==
    /\ req[t].step \in CallSteps /\ req[t].tx = None
    /\ AfterSync => imported = Len(chain)
    /\ LET tx == [nonce |-> imported + 1, data |-> Data(t)]
       IN  /\ submitted' = submitted \cup {tx}
           /\ req' = [req EXCEPT ![t].tx = tx]
    /\ UNCHANGED <<users, registry, chain, world, mails, answer, faults>>

\* The nonce is read from the node's best block and the transaction submitted;
\* the other threads may do the same until it is mined and imported.
Send(t) ==
    /\ req[t].step \in CallSteps /\ req[t].tx = None
    /\ AfterSync => imported = Len(chain)
    /\ LET tx == [nonce |-> imported, data |-> Data(t)]
       IN  /\ submitted' = submitted \cup {tx}
           /\ req' = [req EXCEPT ![t].tx = tx]
    /\ UNCHANGED <<users, registry, chain, world, mails, answer, faults>>

\* The receipt comes with the block.  It can be taken by two calls that sent
\* the same transaction; then either may also be left waiting, which is just
\* not taking this step.  A new contract's address follows from sender and
\* nonce.
CallReturns(t) ==
    /\ req[t].step \in CallSteps
    /\ req[t].tx \in ToSet(chain) /\ req[t].tx.nonce < imported
    /\ req' = [req EXCEPT ![t].step = After[req[t].step], ![t].tx = None,
                  ![t].contract = IF req[t].step \in {"deployRegistry", "deploy"}
                                  THEN req[t].tx.nonce ELSE @]
    /\ UNCHANGED <<users, registry, chain, submitted, world, mails, answer, faults>>

\* The client throws before it has sent anything.
CallThrows(t) ==
    /\ req[t].step \in CallSteps /\ req[t].tx = None
    /\ faults < MaxFaults
    /\ faults' = faults + 1
    /\ req' = [req EXCEPT ![t].step = "publishError"]
    /\ UNCHANGED <<users, registry, chain, submitted, world, mails, answer>>

\* Every transaction comes from Unilog's account, which is unilog of every
\* user contract and owner of every registry: onlyBy lets it through.
Execute(data) ==
    CASE data.fn = "deployRegistry" -> Append(world, NewRegistry(Unilog))
      [] data.fn = "deploy"         -> Append(world, NewContract(Unilog))
      [] data.fn = "addArtifact"    ->
             Append([world EXCEPT ![data.to + 1] =
                        AddArtifact(@, 0, data.arg, VALID_FOR_10_YEARS)], None)
      [] data.fn = "assignOwner"    ->
             Append([world EXCEPT ![data.to + 1] = AssignArtifactOwner(@, data.arg)], None)
      [] data.fn = "addContract"    ->
             Append([world EXCEPT ![data.to + 1] = AddContract(@, data.arg)], None)

\* The network mines a transaction; a block of it reaches this node.
Mine ==
    /\ \E tx \in submitted :
           /\ tx.nonce = Len(chain)
           /\ chain' = Append(chain, tx)
           /\ world' = Execute(tx.data)
    /\ submitted' = {tx \in submitted : tx.nonce > Len(chain)}
    /\ UNCHANGED <<users, registry, req, mails, answer, faults>>

Import ==
    /\ imported < Len(chain)
    /\ imported' = imported + 1
    /\ UNCHANGED <<users, registry, req, chain, submitted, world, mails, life, answer, faults>>

-----------------------------------------------------------------------------
\* The steps between the calls.

\* publishRegistry: findAdmin and saveAdmin, which overwrites the row.
SaveAdmin(t) ==
    /\ req[t].step = "saveAdmin"
    /\ registry' = req[t].contract
    /\ req' = [req EXCEPT ![t].step = "success"]
    /\ UNCHANGED <<users, chain, submitted, world, mails, answer, faults>>

TokenMail(t) ==
    [user |-> Target(t), contract |-> req[t].contract, registry |-> req[t].registry, life |-> life]

SendTokenMail(t) ==
    /\ req[t].step = "mail"
    /\ mails' = mails \cup {TokenMail(t)}
    /\ req' = [req EXCEPT ![t].step = "transcript"]
    /\ UNCHANGED <<users, registry, chain, submitted, world, answer, faults>>

\* The mail service answers false for an exception anywhere, one after the
\* message has left included.
SendTokenMailFails(t) ==
    /\ req[t].step = "mail"
    /\ faults < MaxFaults
    /\ faults' = faults + 1
    /\ \/ UNCHANGED mails
       \/ mails' = mails \cup {TokenMail(t)}
    /\ req' = [req EXCEPT ![t].step = Refusal(t)]
    /\ UNCHANGED <<users, registry, chain, submitted, world, answer>>

\* The transcript is read, which writes the user, and published; IPFS
\* answers with the empty string when it cannot.
PublishTranscript(t) ==
    /\ req[t].step = "transcript"
    /\ DocOf[Target(t)] # NoContent
    /\ users' = Flushed(t)
    /\ \/ /\ req' = [req EXCEPT ![t].step = "addArtifact", ![t].dirty = {},
                                ![t].content = DocOf[Target(t)]]
          /\ UNCHANGED faults
       \/ /\ faults < MaxFaults
          /\ faults' = faults + 1
          /\ req' = [req EXCEPT ![t].step = "addArtifact", ![t].dirty = {},
                                ![t].content = NoContent]
    /\ UNCHANGED <<registry, chain, submitted, world, mails, answer>>

\* There is no transcript to map to JSON: an exception.
NoTranscript(t) ==
    /\ req[t].step = "transcript"
    /\ DocOf[Target(t)] = NoContent
    /\ users' = Flushed(t)
    /\ req' = [req EXCEPT ![t].step = "publishError", ![t].dirty = {}]
    /\ UNCHANGED <<registry, chain, submitted, world, mails, answer, faults>>

\* The token becomes part of the user, who is saved; then the next user.
SaveUser(t) ==
    /\ req[t].step = "saveUser"
    /\ LET u      == Target(t)
           entity == [req[t].cache[u] EXCEPT !.token = req[t].contract]
           rest   == Tail(req[t].ids)
       IN  /\ users' = [Flushed(t) EXCEPT ![u] = entity]
           /\ req' = [req EXCEPT ![t] = [req[t] EXCEPT
                  !.cache[u] = entity, !.dirty = {}, !.contract = None, !.content = None,
                  !.ids = rest, !.done = Append(@, u),
                  !.step = IF rest # <<>> THEN "find"
                           ELSE IF req[t].op = "completeAll" THEN "allSuccess" ELSE "success"]]
    /\ UNCHANGED <<registry, chain, submitted, world, mails, answer, faults>>

\* Every handler ends with generateAdminWindow, whose queries write what is
\* still dirty, and with the end of the context.
Verdicts == {"success", "allSuccess", "partialSuccess", "zeroSuccess", "publishError"}

Answer(t) ==
    /\ req[t].step \in Verdicts
    /\ users' = Flushed(t)
    /\ answer' = [answer EXCEPT ![t] = [verdict |-> req[t].step, ready |-> req[t].ready,
                                      done |-> ToSet(req[t].done)]]
    /\ req' = [req EXCEPT ![t] = Idle]
    /\ UNCHANGED <<registry, chain, submitted, world, mails, faults>>

-----------------------------------------------------------------------------
\* The tables are made anew (ddl-auto=create) and the transcripts uploaded again.
\* Requests in progress are gone; the chain and the mails are not, and what was
\* submitted may still be mined.  The node keeps its database (client.conf:
\* database.reset = false), or what of it can be read again.
Restart ==
    /\ faults < MaxFaults
    /\ faults' = faults + 1 /\ life' = life + 1
    /\ users' = [u \in User |-> NewUser] /\ registry' = None
    /\ req' = [t \in Thread |-> Idle] /\ answer' = NoAnswers
    /\ submitted' \in SUBSET submitted /\ imported' \in 0 .. imported
    /\ UNCHANGED <<chain, world, mails>>

-----------------------------------------------------------------------------
Request(t) ==
    \/ PublishRegistry(t)
    \/ \E u \in User : CompleteAccount(t, u)
    \/ CompleteAllAccounts(t)
    \/ \E u \in User, account \in Account : CompleteRegistration(t, u, account)

Step(t) ==
    \/ SaveRegistration(t)
    \/ FindUser(t) \/ FindNobody(t)
    \/ Send(t) \/ CallReturns(t) \/ CallThrows(t)
    \/ SaveAdmin(t)
    \/ SendTokenMail(t) \/ SendTokenMailFails(t)
    \/ PublishTranscript(t) \/ NoTranscript(t)
    \/ SaveUser(t)
    \/ Answer(t)

Running == Mine \/ \E t \in Thread : Request(t) \/ Step(t)

Next == (Running /\ UNCHANGED <<imported, life>>) \/ Import \/ Restart

\* A request thread keeps running, the network mines what it can and the node
\* imports it; nobody has to make a request.
Fairness ==
    /\ WF_vars(Mine /\ UNCHANGED <<imported, life>>) /\ WF_vars(Import)
    /\ \A t \in Thread : WF_vars(Step(t) /\ UNCHANGED <<imported, life>>)

Spec == Init /\ [][Next]_vars /\ Fairness

-----------------------------------------------------------------------------
Quiet == \A t \in Thread : req[t].step = "idle"

TypeOK ==
    /\ \A u \in User : /\ users[u].completed \in BOOLEAN /\ users[u].published \in BOOLEAN
                       /\ users[u].account \in Account \cup {None}
                       /\ users[u].token \in (0 .. Len(chain) - 1) \cup {None}
    /\ registry \in (0 .. Len(chain) - 1) \cup {None}
    /\ \A t \in Thread : /\ ToSet(req[t].ids) \cup ToSet(req[t].done) \subseteq User
                         /\ req[t].dirty \subseteq User
    /\ Len(world) = Len(chain) /\ imported \in 0 .. Len(chain)
    /\ \A tx \in submitted : tx.nonce \in Nat /\ tx.data.fn \in CallSteps

\* What a verifier finds who uses the mail m: the contract is in the registry
\* the mail names, and artifact 0 is the transcript.
Verifies(m) ==
    /\ RegistryContains(world[m.registry + 1], m.contract)
    /\ VerifyArtifact(world[m.contract + 1], 0, 0) = DocOf[m.user]

(***************************************************************************)
(* A saved token is good: its contract has exactly one artifact, number 0, *)
(* the transcript of this very user (or nothing, when IPFS failed), belongs*)
(* to the account the user registered unless that is Unilog's own, and is  *)
(* in the registry that was e-mailed (AdminServiceImpl.java:115-146).      *)
(* This is for requests that come one at a time and, after a restart, read *)
(* their nonces when the node is in sync again (AfterSync).  A request     *)
(* that comes while the node still imports the past rebuilds an old deploy *)
(* transaction and is answered with the old contract (Client.java:170).    *)
(***************************************************************************)
TokenIsGood ==
    \A u \in User : users[u].token # None =>
        LET c == world[users[u].token + 1]
        IN  /\ Len(c.artifacts) = 1
            /\ \/ VerifyArtifact(c, 0, 0) = DocOf[u]
               \/ VerifyArtifact(c, 0, 0) = NoContent /\ faults > 0
            /\ users[u].account # Unilog => c.artifactOwner = users[u].account
            /\ \E m \in mails :
                   /\ m.user = u /\ m.contract = users[u].token
                   /\ RegistryContains(world[m.registry + 1], m.contract)

(***************************************************************************)
(* No user is e-mailed two tokens, however often completing the account is *)
(* retried and whatever failed before (AdminServiceImpl.java:108-150), as  *)
(* long as the database remembers it.                                      *)
(***************************************************************************)
OneTokenPerUser == \A m, n \in mails : m.user = n.user /\ m.life = n.life => m = n

(***************************************************************************)
(* Once saved, a token and the mark of a published transcript stay, but    *)
(* for a restart (AdminServiceImpl.java:145-146, UserServiceImpl.java:     *)
(* 145-160).                                                               *)
(***************************************************************************)
TokenIsKept ==
    [][\A u \in User : users[u].token # None /\ life' = life
           => users'[u].token = users[u].token /\ users'[u].published]_vars

(***************************************************************************)
(* "All Accounts Authorised. Tokens have been sent!" and "Account          *)
(* Authorised. Token has been sent!" are only shown when every account the *)
(* request was for has its token saved and mailed, which for "Complete All"*)
(* includes every account that was ready (AdminServiceImpl.java:72-89).    *)
(***************************************************************************)
SuccessIsTrue ==
    \A t \in Thread : answer[t].verdict \in {"success", "allSuccess"} =>
        /\ answer[t].ready \subseteq answer[t].done
        /\ \A u \in answer[t].done :
               /\ users[u].token # None
               /\ \E m \in mails : m.user = u /\ m.contract = users[u].token

(***************************************************************************)
(* "We have successfully generated your Unilog token." (EmailService.java: *)
(* 43): when no request is in progress every token that was mailed         *)
(* verifies in the registry the mail names.                                *)
(***************************************************************************)
MailedTokensVerify == Quiet => \A m \in mails : Verifies(m)

(***************************************************************************)
(* As long as nothing has failed, and for every user who has a transcript, *)
(* a completed account is complete: when no request is in progress the     *)
(* mailed tokens verify, and an account that is off the admin's list has   *)
(* its token (AdminServiceImpl.java:104-155).                              *)
(***************************************************************************)
FaultFreeCompletion ==
    Quiet /\ faults = 0 =>
        \A u \in {v \in User : DocOf[v] # NoContent} :
            /\ \A m \in mails : m.user = u => Verifies(m)
            /\ users[u].published => users[u].token # None

(***************************************************************************)
(* "I know that the artifact ID will be 0." (AdminServiceImpl.java:131):   *)
(* artifact 0 of the contract of a saved token is the user's transcript.   *)
(***************************************************************************)
ArtifactIdIsZero ==
    \A u \in User : users[u].token # None =>
        VerifyArtifact(world[users[u].token + 1], 0, 0) \in {DocOf[u], NoContent}

(***************************************************************************)
(* A saved token's contract is in some registry that was e-mailed with it, *)
(* even when several requests run at once: each call returned only after   *)
(* its transaction was mined (AdminServiceImpl.java:118-146).              *)
(***************************************************************************)
TokenIsRegistered ==
    \A u \in User : users[u].token # None =>
        \E m \in mails : /\ m.user = u /\ m.contract = users[u].token
                        /\ RegistryContains(world[m.registry + 1], m.contract)

(***************************************************************************)
(* Every request is answered (Client.java:197-201 waits without a limit),  *)
(* unless another transaction has taken its nonce, which for requests that *)
(* come one at a time can only be one that was submitted before a restart. *)
(***************************************************************************)
Overtaken(t) ==
    /\ req[t].tx # None /\ req[t].tx \notin ToSet(chain) /\ req[t].tx.nonce < Len(chain)
    /\ OneAtATime => life > 0

EveryRequestAnswered ==
    \A t \in Thread : req[t].step # "idle" ~> req[t].step = "idle" \/ Overtaken(t)
=============================================================================
