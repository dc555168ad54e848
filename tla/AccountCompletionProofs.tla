----------------------- MODULE AccountCompletionProofs -----------------------
(***************************************************************************)
(* Proofs about AccountCompletion for every set of users and accounts, any *)
(* number of request threads, transactions, restarts and other faults.     *)
(***************************************************************************)
EXTENDS AccountCompletion, SequenceTheorems, FiniteSetTheorems, TLAPS

(***************************************************************************)
(* Which contract a nonce deployed.                                        *)
(***************************************************************************)
Deployed(fn, k) == k \in Nat /\ k < Len(chain) /\ chain[k + 1].data.fn = fn

IsContract(k) == Deployed("deploy", k)

IsRegistry(k) == Deployed("deployRegistry", k)

(***************************************************************************)
(* What the tables, the chain and the requests hold.  What a request works *)
(* on depends on how far it is.                                            *)
(***************************************************************************)
SoundTx(tx) ==
    /\ tx \in Transaction
    /\ tx.data.fn = "addArtifact" =>
           IsContract(tx.data.to) /\ tx.data.arg \in Content \cup {NoContent}
    /\ tx.data.fn = "assignOwner" => IsContract(tx.data.to) /\ tx.data.arg \in Account
    /\ tx.data.fn = "addContract" => IsRegistry(tx.data.to) /\ IsContract(tx.data.arg)

ContractRow ==
    [unilog : {Unilog}, artifactOwner : Address \cup {NoAddress}, artifacts : Seq(Artifact)]

RegistryRow == [owner : {Unilog}, repository : SUBSET Nat]

Thing == ContractRow \cup RegistryRow \cup {None}

ChainTyped ==
    /\ chain \in Seq(Transaction) /\ world \in Seq(Thing) /\ Len(world) = Len(chain)
    /\ \A i \in 1 .. Len(chain) :
           /\ chain[i].nonce = i - 1 /\ SoundTx(chain[i])
           /\ chain[i].data.fn = "deploy" => world[i] \in ContractRow
           /\ chain[i].data.fn = "deployRegistry" => world[i] \in RegistryRow
    /\ \A tx \in submitted : SoundTx(tx)

SoundRow(row) ==
    /\ row \in UserRow
    /\ row.completed => row.account \in Account
    /\ row.token # None => IsContract(row.token)

TablesTyped ==
    /\ users \in [User -> UserRow] /\ \A u \in User : SoundRow(users[u])
    /\ registry # None => IsRegistry(registry)
    /\ life \in Nat /\ faults \in Nat
    /\ \A m \in mails : /\ m.user \in User /\ m.life \in 0 .. life
                        /\ IsContract(m.contract) /\ IsRegistry(m.registry)

\* After findUser and before the answer; and after the mail.
Mailed     == {"transcript", "addArtifact", "assignOwner", "addContract", "saveUser"}
Completing == {"deploy", "mail"} \cup Mailed

SoundRequest(t) ==
    LET r == req[t]
    IN  /\ DOMAIN r = {"op", "step", "ids", "done", "ready", "registry", "contract",
                       "content", "cache", "dirty", "account", "tx"}
        /\ r.step \in {"idle", "saveRegistration", "find", "deployRegistry", "saveAdmin"}
                          \cup Completing \cup Verdicts
        /\ r.ids \in Seq(User) /\ r.done \in Seq(User) /\ r.ready \subseteq User
        /\ r.dirty \subseteq User /\ DOMAIN r.cache = User
        /\ r.cache \in [User -> UserRow \cup {None}]
        /\ \A u \in User : r.cache[u] # None => SoundRow(r.cache[u])
        /\ \A u \in r.dirty : r.cache[u] # None
        /\ r.registry # None => IsRegistry(r.registry)
        /\ r.tx # None => /\ r.step \in CallSteps /\ SoundTx(r.tx)
                          /\ r.tx.data = Data(t)
        /\ r.step = "idle" => r = Idle
        /\ r.step = "saveRegistration" => /\ r.ids # <<>> /\ r.account \in Account
                                          /\ r.cache[Target(t)] # None
        /\ r.step = "find" => r.ids # <<>> /\ r.op \in {"complete", "completeAll"}
        /\ r.step = "saveAdmin" => IsRegistry(r.contract)
        /\ r.step \in Completing =>
               /\ r.ids # <<>> /\ r.op \in {"complete", "completeAll"} /\ r.registry # None
               /\ r.cache[Target(t)] # None /\ r.cache[Target(t)].completed
        /\ r.step \in Completing \ {"deploy"} => IsContract(r.contract)
        /\ r.step = "addArtifact" => r.content \in Content \cup {NoContent}

\* The node has imported some first part of the chain.
Imported == imported \in 0 .. Len(chain)

Typed ==
    /\ ChainTyped /\ TablesTyped /\ Imported
    /\ DOMAIN req = Thread /\ DOMAIN answer = Thread
    /\ \A t \in Thread : SoundRequest(t)

(***************************************************************************)
(* What a mined addContract has done stays done; a token, saved or read,   *)
(* was mailed and registered; and so is the one a request is about to save.*)
(***************************************************************************)
Registered(u, k) ==
    \E m \in mails : /\ m.user = u /\ m.contract = k
                     /\ RegistryContains(world[m.registry + 1], k)

RegistrationsDone ==
    \A i \in 1 .. Len(chain) : chain[i].data.fn = "addContract" =>
        RegistryContains(world[chain[i].data.to + 1], chain[i].data.arg)

RequestRegistered(t) ==
    /\ \A u \in User : req[t].cache[u] # None /\ req[t].cache[u].token # None =>
           Registered(u, req[t].cache[u].token)
    /\ req[t].step \in Mailed =>
           \E m \in mails : /\ m.user = Target(t) /\ m.contract = req[t].contract
                            /\ m.registry = req[t].registry
    /\ req[t].step = "saveUser" =>
           RegistryContains(world[req[t].registry + 1], req[t].contract)

RegisteredInv ==
    /\ RegistrationsDone
    /\ \A t \in Thread : RequestRegistered(t)
    /\ TokenIsRegistered

-----------------------------------------------------------------------------
(***************************************************************************)
(* What holds when requests come one at a time.  Nothing but the thread of *)
(* the request in progress changes the tables: what it has read is still   *)
(* there, but for the mark it has not written yet.                         *)
(***************************************************************************)
Alone == \A t, s \in Thread : req[t].step # "idle" /\ req[s].step # "idle" => t = s

\* When a nonce is read only in sync, and in the first life: what is sent
\* competes for the next nonce, and was mined or overtaken when nothing is left.
InSync == AfterSync \/ life = 0

Pending ==
    /\ \A tx \in submitted : tx.nonce = Len(chain)
    /\ \A t \in Thread : req[t].tx # None =>
           \/ req[t].tx \in submitted
           \/ submitted = {} /\ req[t].tx.nonce < Len(chain)

\* In the first life the node is behind by no more than the transaction of the
\* request in progress, and nothing else is there to be mined.
AtMostOneBehind ==
    /\ submitted # {} => \E t \in Thread : req[t].tx \in submitted
    /\ imported < Len(chain) =>
           /\ imported + 1 = Len(chain)
           /\ \E t \in Thread : req[t].tx # None /\ req[t].tx.nonce = imported

SentInv == InSync => Pending /\ (life = 0 => AtMostOneBehind)

Coherent(t) ==
    \A u \in User : req[t].cache[u] # None =>
        req[t].cache[u] = IF u \in req[t].dirty THEN [users[u] EXCEPT !.published = TRUE]
                          ELSE users[u]

\* Only who has registered gets a token, and is off the list.
TokensAreMarked ==
    \A u \in User : users[u].token # None => users[u].completed /\ users[u].published

\* The user of the round has no token yet; nobody else is marked.
RoundIsOne(t) ==
    /\ req[t].step = "saveRegistration" => ~users[Target(t)].completed
    /\ req[t].step \in Completing => users[Target(t)].token = None
    /\ req[t].dirty # {} => req[t].step \in {"deploy", "mail", "transcript"} \cup Verdicts
    /\ req[t].dirty # {} /\ req[t].step \notin Verdicts => req[t].dirty = {Target(t)}
    /\ req[t].step \in {"deploy", "mail", "transcript"} => Target(t) \in req[t].dirty
    /\ req[t].step \in Mailed \ {"transcript"} => users[Target(t)].published

Rounds == Alone /\ TokensAreMarked /\ \A t \in Thread : Coherent(t) /\ RoundIsOne(t)

(***************************************************************************)
(* Nobody who is still on the list was mailed a token in this life.        *)
(***************************************************************************)
MailedIsMarked ==
    \A m \in mails : m.life = life =>
        \/ users[m.user].published
        \/ \E t \in Thread : m.user \in req[t].dirty /\ req[t].step \notin {"deploy", "mail"}

\* The mark of the round's user is not written before the mail.
MarkIsPending ==
    \A t \in Thread : req[t].step \in {"deploy", "mail"} => ~users[Target(t)].published

MailInv == OneTokenPerUser /\ MailedIsMarked /\ MarkIsPending

(***************************************************************************)
(* The contract of the request in progress is no one's, and what is in it  *)
(* follows from how far the request is.                                    *)
(***************************************************************************)
Touching == {"addArtifact", "assignOwner"}

At(t, step) == req[t].step = step /\ req[t].tx \notin ToSet(chain)

Past(t, step, later) == (req[t].step = step /\ req[t].tx \in ToSet(chain)) \/ req[t].step \in later

Empty(k) == world[k + 1].artifacts = <<>>

HoldsTranscript(k, u) ==
    /\ Len(world[k + 1].artifacts) = 1
    /\ \/ world[k + 1].artifacts[1].artifactAddress = DocOf[u]
       \/ world[k + 1].artifacts[1].artifactAddress = NoContent /\ faults > 0

OwnedBy(k, account) == account # Unilog => world[k + 1].artifactOwner = account

ContractIsFresh(t) ==
    /\ req[t].step = "deploy" /\ req[t].tx \in ToSet(chain) => Empty(req[t].tx.nonce)
    /\ req[t].step \in {"mail", "transcript"} \/ At(t, "addArtifact") => Empty(req[t].contract)
    /\ req[t].step = "addArtifact" =>
           req[t].content = DocOf[Target(t)] \/ (req[t].content = NoContent /\ faults > 0)
    /\ Past(t, "addArtifact", {"assignOwner", "addContract", "saveUser"}) =>
           HoldsTranscript(req[t].contract, Target(t))
    /\ Past(t, "assignOwner", {"addContract", "saveUser"}) =>
           OwnedBy(req[t].contract, users[Target(t)].account)

\* Nothing that is sent will change the contract of a token, nor that of the
\* request but what the request has sent itself.
TokensUntouched ==
    \A tx \in submitted : tx.data.fn \in Touching => \A u \in User : users[u].token # tx.data.to

ContractUntouched(t) ==
    req[t].step \in Completing \ {"deploy"} =>
        \A tx \in submitted :
            tx.data.fn \in Touching /\ tx.data.to = req[t].contract => tx = req[t].tx

ContractIsNew(t) ==
    \A u \in User : users[u].token # None =>
        /\ req[t].step = "deploy" /\ req[t].tx # None => users[u].token < req[t].tx.nonce
        /\ req[t].step \in Completing \ {"deploy"} => users[u].token < req[t].contract

GoodRequest(t) == ContractUntouched(t) /\ ContractIsNew(t) /\ ContractIsFresh(t)

TokensHold ==
    \A u \in User : users[u].token # None =>
        /\ HoldsTranscript(users[u].token, u)
        /\ OwnedBy(users[u].token, users[u].account)

GoodInv == TokensUntouched /\ TokensHold /\ \A t \in Thread : GoodRequest(t)

(***************************************************************************)
(* What a request has done is done, and what it was for is done or next.   *)
(***************************************************************************)
HasToken(u) ==
    users[u].token # None /\ \E m \in mails : m.user = u /\ m.contract = users[u].token

\* The ways to success, and what is done and what is left to do there.
ToSuccess == {"deployRegistry", "saveAdmin", "success", "allSuccess"}

WorkIsDone(t) ==
    /\ req[t].ready \subseteq ToSet(req[t].done) \cup ToSet(req[t].ids)
    /\ req[t].step \in ToSuccess => req[t].ids = <<>>
    /\ \A u \in ToSet(req[t].done) : HasToken(u)

AnswersAreOfUsers == \A t \in Thread : answer[t].done \subseteq User

AnswerInv == SuccessIsTrue /\ AnswersAreOfUsers /\ \A t \in Thread : WorkIsDone(t)

(***************************************************************************)
(* Without faults, who is off the list or was mailed has the token, or is  *)
(* the one the request in progress is at.                                  *)
(***************************************************************************)
IsNext(u) == \E t \in Thread : req[t].step \in Mailed /\ Target(t) = u

WithTranscript == {u \in User : DocOf[u] # NoContent}

FaultFree ==
    faults = 0 =>
        /\ life = 0
        /\ \A t \in Thread : req[t].step \in Verdicts => req[t].dirty = {}
        /\ \A u \in WithTranscript :
               /\ users[u].published => users[u].token # None \/ IsNext(u)
               /\ \A m \in mails : m.user = u => users[u].token = m.contract \/ IsNext(u)

-----------------------------------------------------------------------------
(***************************************************************************)
(* What each step does to the request it is a step of.                     *)
(***************************************************************************)
Fields == {"op", "step", "ids", "done", "ready", "registry", "contract",
           "content", "cache", "dirty", "account", "tx"}

OthersKept(t) == DOMAIN req' = DOMAIN req /\ \A s \in Thread : s # t => req'[s] = req[s]

KeepsWork(t) ==
    /\ DOMAIN req'[t] = Fields
    /\ req'[t].op = req[t].op /\ req'[t].ids = req[t].ids /\ req'[t].done = req[t].done
    /\ req'[t].ready = req[t].ready /\ req'[t].account = req[t].account

KeepsContext(t) ==
    /\ req'[t].registry = req[t].registry
    /\ req'[t].cache = req[t].cache /\ req'[t].dirty = req[t].dirty

KeepsContract(t) ==
    req'[t].contract = req[t].contract /\ req'[t].content = req[t].content

\* Requests are records of threads.
Requests == DOMAIN req = Thread /\ \A t \in Thread : DOMAIN req[t] = Fields

NothingSent == UNCHANGED <<chain, submitted, world>>

LEMMA IdleIs ==
    /\ DOMAIN Idle = Fields
    /\ Idle.op = "none" /\ Idle.step = "idle" /\ Idle.ids = <<>> /\ Idle.done = <<>>
    /\ Idle.ready = {} /\ Idle.registry = None /\ Idle.contract = None /\ Idle.content = None
    /\ Idle.cache = [u \in User |-> None] /\ Idle.dirty = {} /\ Idle.account = None
    /\ Idle.tx = None
BY DEF Idle, Fields

\* The users a request lists, in the order of the database.
LEMMA OrdersAre ==
    ASSUME NEW set \in SUBSET User, NEW ids \in Orders(set), set # {}
    PROVE  ids \in Seq(User) /\ ids # <<>> /\ ToSet(ids) = set
<1>1. IsFiniteSet(set)
  BY UserAssumption, FS_Subset
<1>2. Cardinality(set) \in Nat
  BY <1>1, FS_CardinalityType
<1>3. ids \in [1 .. Cardinality(set) -> set] /\ ToSet(ids) = set
  BY DEF Orders
<1>4. ids \in Seq(User)
  BY <1>2, <1>3
<1>5. ids # <<>>
  <2>1. CASE ids = <<>>
    <3>1. DOMAIN ids = {}
      BY <1>4, <2>1
    <3> QED
      BY <1>3, <3>1 DEF ToSet
  <2> QED
    BY <2>1
<1> QED
  BY <1>3, <1>4, <1>5

(***************************************************************************)
(* How a request starts (AdminServiceImpl.java:71-104, 157-160,            *)
(* UserServiceImpl.java:63-70).                                            *)
(***************************************************************************)
StartsWith(t, step, ids) ==
    /\ DOMAIN req'[t] = Fields
    /\ req'[t].step = step /\ req'[t].ids = ids /\ req'[t].done = <<>>
    /\ req'[t].registry = None /\ req'[t].contract = None /\ req'[t].content = None
    /\ req'[t].dirty = {} /\ req'[t].tx = None

PublishStarts(t) ==
    /\ StartsWith(t, "deployRegistry", <<>>) /\ req'[t].op = "publish" /\ req'[t].ready = {}
    /\ req'[t].cache = [u \in User |-> None] /\ req'[t].account = None

CompleteStarts(t, u) ==
    /\ StartsWith(t, "find", <<u>>) /\ req'[t].op = "complete" /\ req'[t].ready = {}
    /\ req'[t].cache = [v \in User |-> None] /\ req'[t].account = None

CompleteAllStarts(t, ids) ==
    /\ StartsWith(t, "find", ids) /\ req'[t].op = "completeAll"
    /\ req'[t].ready \subseteq Unpublished
    /\ req'[t].cache = [u \in User |-> IF u \in Unpublished THEN users[u] ELSE None]
    /\ req'[t].account = None
    /\ ids \in Seq(User) /\ ids # <<>> /\ ToSet(ids) = Unpublished

RegistrationStarts(t, u) ==
    /\ StartsWith(t, "saveRegistration", <<u>>) /\ req'[t].op = "register"
    /\ req'[t].ready = {} /\ req'[t].account \in Account
    /\ req'[t].cache = [v \in User |-> IF v = u THEN users[u] ELSE None]
    /\ ~users[u].completed

LEMMA RequestStarts ==
    ASSUME Requests, NEW t \in Thread, Request(t)
    PROVE  /\ OthersKept(t) /\ MayStart(t) /\ NothingSent
           /\ UNCHANGED <<users, registry, mails, answer, faults>>
           /\ \/ PublishStarts(t)
              \/ \E u \in User : CompleteStarts(t, u)
              \/ \E ids \in Orders(Unpublished) : CompleteAllStarts(t, ids)
              \/ \E u \in User : RegistrationStarts(t, u)
<1>0. DOMAIN req = Thread
  BY DEF Requests
<1>1. /\ MayStart(t) /\ NothingSent
      /\ UNCHANGED <<users, registry, mails, answer, faults>>
  BY DEF Request, PublishRegistry, CompleteAccount, CompleteAllAccounts, CompleteRegistration,
         NothingSent
<1>2. ASSUME NEW r, req' = [req EXCEPT ![t] = r]
      PROVE  OthersKept(t) /\ req'[t] = r
  BY <1>0, <1>2 DEF OthersKept
<1>3. CASE PublishRegistry(t)
  <2> DEFINE r == [Idle EXCEPT !.op = "publish", !.step = "deployRegistry"]
  <2>1. OthersKept(t) /\ req'[t] = r
    BY <1>2, <1>3 DEF PublishRegistry
  <2>2. PublishStarts(t)
    BY <2>1, IdleIs DEF PublishStarts, StartsWith, Fields
  <2> QED
    BY <1>1, <2>1, <2>2
<1>4. ASSUME NEW u \in User, CompleteAccount(t, u)
      PROVE  OthersKept(t) /\ CompleteStarts(t, u)
  <2> DEFINE r == [Idle EXCEPT !.op = "complete", !.step = "find", !.ids = <<u>>]
  <2>1. OthersKept(t) /\ req'[t] = r
    BY <1>2, <1>4 DEF CompleteAccount
  <2> QED
    BY <2>1, IdleIs DEF CompleteStarts, StartsWith, Fields
<1>5. CASE CompleteAllAccounts(t)
  <2>1. PICK ids \in Orders(Unpublished) :
            req' = [req EXCEPT ![t] = [Idle EXCEPT
                  !.op = "completeAll", !.step = "find", !.ids = ids,
                  !.ready = {u \in Unpublished : users[u].completed /\ registry # None},
                  !.cache = [u \in User |-> IF u \in Unpublished THEN users[u] ELSE None]]]
    BY <1>5 DEF CompleteAllAccounts
  <2>2. ids \in Seq(User) /\ ids # <<>> /\ ToSet(ids) = Unpublished
    <3>1. Unpublished \in SUBSET User /\ Unpublished # {}
      BY <1>5 DEF CompleteAllAccounts, Unpublished
    <3> QED
      BY <3>1, OrdersAre
  <2> DEFINE ready == {u \in Unpublished : users[u].completed /\ registry # None}
             entities == [u \in User |-> IF u \in Unpublished THEN users[u] ELSE None]
             r == [Idle EXCEPT !.op = "completeAll", !.step = "find", !.ids = ids,
                               !.ready = ready, !.cache = entities]
  <2>3. OthersKept(t) /\ req'[t] = r
    BY <1>2, <2>1
  <2>4. ready \subseteq Unpublished
    OBVIOUS
  <2>5. entities = [u \in User |-> IF u \in Unpublished THEN users[u] ELSE None]
    OBVIOUS
  <2> HIDE DEF ready, entities
  <2>6. CompleteAllStarts(t, ids)
    BY <2>2, <2>3, <2>4, <2>5, IdleIs DEF CompleteAllStarts, StartsWith, Fields
  <2> QED
    BY <1>1, <2>3, <2>6
<1>6. ASSUME NEW u \in User, NEW account \in Account, CompleteRegistration(t, u, account)
      PROVE  OthersKept(t) /\ RegistrationStarts(t, u)
  <2> DEFINE entities == [v \in User |-> IF v = u THEN users[u] ELSE None]
             q == [Idle EXCEPT !.op = "register", !.step = "saveRegistration", !.ids = <<u>>,
                               !.account = account, !.cache[u] = users[u]]
  <2>1. OthersKept(t) /\ req'[t] = q
    BY <1>2, <1>6 DEF CompleteRegistration
  <2>2. /\ DOMAIN q = Fields /\ q.op = "register" /\ q.step = "saveRegistration"
        /\ q.ids = <<u>> /\ q.done = <<>> /\ q.ready = {} /\ q.registry = None
        /\ q.contract = None /\ q.content = None /\ q.dirty = {} /\ q.account = account
        /\ q.tx = None /\ q.cache = [Idle.cache EXCEPT ![u] = users[u]]
    BY IdleIs DEF Fields
  <2>3. [Idle.cache EXCEPT ![u] = users[u]] = entities
    BY IdleIs
  <2> HIDE DEF q, entities
  <2>4. q.cache = entities /\ req'[t] = q
    BY <2>1, <2>2, <2>3
  <2>5. ~users[u].completed
    BY <1>6 DEF CompleteRegistration
  <2> QED
    BY <2>1, <2>2, <2>4, <2>5 DEF RegistrationStarts, StartsWith, entities
<1> QED
  BY <1>1, <1>3, <1>4, <1>5, <1>6 DEF Request

(***************************************************************************)
(* The steps of a request, one by one.                                     *)
(***************************************************************************)
Ends(t) == OthersKept(t) /\ req'[t] = Idle

LEMMA EndsIs ==
    ASSUME Requests, NEW t \in Thread, req' = [req EXCEPT ![t] = Idle]
    PROVE  Ends(t)
BY DEF Ends, OthersKept, Requests

\* A new value for the step, and for some other fields.
LEMMA StepIs ==
    ASSUME Requests, NEW t \in Thread, NEW r, req' = [req EXCEPT ![t] = r]
    PROVE  OthersKept(t) /\ req'[t] = r
BY DEF OthersKept, Requests

(***************************************************************************)
(* completeSingleAccount reads the admin and the users on the list         *)
(* (AdminServiceImpl.java:105-109).                                        *)
(***************************************************************************)
SeenRegistry(t) == IF req[t].registry = None THEN registry ELSE req[t].registry

Seen(t) == [u \in User |-> IF req[t].cache[u] = None /\ u \in Unpublished
                           THEN users[u] ELSE req[t].cache[u]]

LEMMA FoundIs ==
    ASSUME Requests, NEW t \in Thread
    PROVE  /\ DOMAIN Found(t) = Fields
           /\ Found(t).registry = SeenRegistry(t) /\ Found(t).cache = Seen(t)
           /\ Found(t).op = req[t].op /\ Found(t).step = req[t].step
           /\ Found(t).ids = req[t].ids /\ Found(t).done = req[t].done
           /\ Found(t).ready = req[t].ready /\ Found(t).contract = req[t].contract
           /\ Found(t).content = req[t].content /\ Found(t).dirty = req[t].dirty
           /\ Found(t).account = req[t].account /\ Found(t).tx = req[t].tx
<1> DEFINE r == req[t]
           found == [r EXCEPT !.registry = SeenRegistry(t), !.cache = Seen(t)]
<1>1. Found(t) = found
  BY DEF Found, SeenRegistry, Seen
<1>2. DOMAIN r = Fields
  BY DEF Requests
<1> HIDE DEF r
<1>3. /\ DOMAIN found = Fields
      /\ found.registry = SeenRegistry(t) /\ found.cache = Seen(t)
      /\ found.op = r.op /\ found.step = r.step
      /\ found.ids = r.ids /\ found.done = r.done
      /\ found.ready = r.ready /\ found.contract = r.contract
      /\ found.content = r.content /\ found.dirty = r.dirty
      /\ found.account = r.account /\ found.tx = r.tx
  BY <1>2 DEF Fields
<1> QED
  BY <1>1, <1>3 DEF r

FindUserDoes(t) ==
    /\ OthersKept(t) /\ KeepsWork(t) /\ KeepsContract(t)
    /\ req'[t].step = "deploy" /\ req'[t].tx = req[t].tx
    /\ req'[t].registry = SeenRegistry(t) /\ SeenRegistry(t) # None
    /\ req'[t].cache = [Seen(t) EXCEPT ![Target(t)].published = TRUE]
    /\ req'[t].dirty = req[t].dirty \cup {Target(t)}
    /\ Target(t) \in Unpublished /\ Seen(t)[Target(t)].completed
    /\ req[t].step = "find" /\ NothingSent
    /\ UNCHANGED <<users, registry, mails, answer, faults>>

LEMMA FindUserIs ==
    ASSUME Requests, NEW t \in Thread, FindUser(t)
    PROVE  FindUserDoes(t)
<1> DEFINE found == Found(t)
           r == [found EXCEPT !.step = "deploy", !.cache[Target(t)].published = TRUE,
                              !.dirty = @ \cup {Target(t)}]
<1>1. req' = [req EXCEPT ![t] = r]
  BY DEF FindUser
<1>2. OthersKept(t) /\ req'[t] = r
  <2> HIDE DEF r
  <2> QED
    BY <1>1, StepIs
<1>3. /\ DOMAIN found = Fields
      /\ found.registry = SeenRegistry(t) /\ found.cache = Seen(t)
      /\ found.op = req[t].op /\ found.ids = req[t].ids /\ found.done = req[t].done
      /\ found.ready = req[t].ready /\ found.contract = req[t].contract
      /\ found.content = req[t].content /\ found.dirty = req[t].dirty
      /\ found.account = req[t].account /\ found.tx = req[t].tx
  BY FoundIs
<1> HIDE DEF found
<1>4. /\ DOMAIN r = Fields /\ r.step = "deploy"
      /\ r.registry = found.registry /\ r.op = found.op /\ r.ids = found.ids
      /\ r.done = found.done /\ r.ready = found.ready /\ r.contract = found.contract
      /\ r.content = found.content /\ r.account = found.account /\ r.tx = found.tx
      /\ r.dirty = found.dirty \cup {Target(t)}
      /\ r.cache = [found.cache EXCEPT ![Target(t)].published = TRUE]
  BY <1>3 DEF Fields
<1> HIDE DEF r
<1>5. /\ SeenRegistry(t) # None /\ Target(t) \in Unpublished /\ Seen(t)[Target(t)].completed
      /\ req[t].step = "find" /\ NothingSent
      /\ UNCHANGED <<users, registry, mails, answer, faults>>
  BY <1>3 DEF FindUser, MayComplete, NothingSent, found
<1> QED
  BY <1>2, <1>3, <1>4, <1>5 DEF FindUserDoes, KeepsWork, KeepsContract

FindNobodyDoes(t) ==
    /\ OthersKept(t) /\ KeepsWork(t) /\ KeepsContract(t)
    /\ req'[t].step = Refusal(t) /\ req'[t].tx = req[t].tx
    /\ req'[t].registry = SeenRegistry(t) /\ req'[t].cache = Seen(t)
    /\ req'[t].dirty = req[t].dirty
    /\ req[t].step = "find" /\ NothingSent
    /\ UNCHANGED <<users, registry, mails, answer, faults>>

LEMMA FindNobodyIs ==
    ASSUME Requests, NEW t \in Thread, FindNobody(t)
    PROVE  FindNobodyDoes(t)
<1> DEFINE found == Found(t)
           r == [found EXCEPT !.step = Refusal(t)]
<1>1. req' = [req EXCEPT ![t] = r]
  BY DEF FindNobody
<1>2. OthersKept(t) /\ req'[t] = r
  <2> HIDE DEF r
  <2> QED
    BY <1>1, StepIs
<1>3. /\ DOMAIN found = Fields
      /\ found.registry = SeenRegistry(t) /\ found.cache = Seen(t)
      /\ found.op = req[t].op /\ found.ids = req[t].ids /\ found.done = req[t].done
      /\ found.ready = req[t].ready /\ found.contract = req[t].contract
      /\ found.content = req[t].content /\ found.dirty = req[t].dirty
      /\ found.account = req[t].account /\ found.tx = req[t].tx
  BY FoundIs
<1> HIDE DEF found
<1>4. /\ DOMAIN r = Fields /\ r.step = Refusal(t)
      /\ r.registry = found.registry /\ r.op = found.op /\ r.ids = found.ids
      /\ r.done = found.done /\ r.ready = found.ready /\ r.contract = found.contract
      /\ r.content = found.content /\ r.account = found.account /\ r.tx = found.tx
      /\ r.dirty = found.dirty /\ r.cache = found.cache
  BY <1>3 DEF Fields
<1> HIDE DEF r
<1>5. /\ req[t].step = "find" /\ NothingSent
      /\ UNCHANGED <<users, registry, mails, answer, faults>>
  BY DEF FindNobody, NothingSent
<1> QED
  BY <1>2, <1>3, <1>4, <1>5 DEF FindNobodyDoes, KeepsWork, KeepsContract

\* The request only goes on.
Moves(t, step) ==
    /\ OthersKept(t) /\ KeepsWork(t) /\ KeepsContext(t) /\ KeepsContract(t)
    /\ req'[t].step = step /\ req'[t].tx = req[t].tx

LEMMA MovesIs ==
    ASSUME Requests, NEW t \in Thread, NEW step, req' = [req EXCEPT ![t].step = step]
    PROVE  Moves(t, step)
BY DEF Requests, Moves, OthersKept, KeepsWork, KeepsContext, KeepsContract, Fields

(***************************************************************************)
(* The calls of the Ethereum client (Client.java:86-183).                  *)
(***************************************************************************)
NewTx(t) == [nonce |-> imported, data |-> Data(t)]

SendDoes(t) ==
    /\ OthersKept(t) /\ KeepsWork(t) /\ KeepsContext(t) /\ KeepsContract(t)
    /\ req'[t].step = req[t].step /\ req'[t].tx = NewTx(t)
    /\ req[t].step \in CallSteps /\ req[t].tx = None
    /\ submitted' = submitted \cup {NewTx(t)}
    /\ UNCHANGED <<users, registry, chain, world, mails, answer, faults>>

LEMMA SendIs ==
    ASSUME Requests, NEW t \in Thread, Send(t)
    PROVE  SendDoes(t)
<1>1. /\ req' = [req EXCEPT ![t].tx = NewTx(t)] /\ submitted' = submitted \cup {NewTx(t)}
      /\ req[t].step \in CallSteps /\ req[t].tx = None
      /\ UNCHANGED <<users, registry, chain, world, mails, answer, faults>>
  BY DEF Send, NewTx
<1>2. ASSUME NEW tx, req' = [req EXCEPT ![t].tx = tx]
      PROVE  /\ OthersKept(t) /\ KeepsWork(t) /\ KeepsContext(t) /\ KeepsContract(t)
             /\ req'[t].step = req[t].step /\ req'[t].tx = tx
  BY <1>2 DEF Requests, OthersKept, KeepsWork, KeepsContext, KeepsContract, Fields
<1> QED
  BY <1>1, <1>2 DEF SendDoes

CallReturnsDoes(t) ==
    /\ OthersKept(t) /\ KeepsWork(t) /\ KeepsContext(t) /\ req'[t].content = req[t].content
    /\ req'[t].step = After[req[t].step] /\ req'[t].tx = None
    /\ req'[t].contract = IF req[t].step \in {"deployRegistry", "deploy"}
                          THEN req[t].tx.nonce ELSE req[t].contract
    /\ req[t].step \in CallSteps /\ req[t].tx \in ToSet(chain) /\ NothingSent
    /\ UNCHANGED <<users, registry, mails, answer, faults>>

LEMMA CallReturnsIs ==
    ASSUME Requests, NEW t \in Thread, CallReturns(t)
    PROVE  CallReturnsDoes(t)
<1>1. ASSUME NEW step, NEW contract,
             req' = [req EXCEPT ![t].step = step, ![t].tx = None, ![t].contract = contract]
      PROVE  /\ OthersKept(t) /\ KeepsWork(t) /\ KeepsContext(t)
             /\ req'[t].content = req[t].content /\ req'[t].step = step /\ req'[t].tx = None
             /\ req'[t].contract = contract
  <2> DEFINE r == [req[t] EXCEPT !.step = step, !.tx = None, !.contract = contract]
  <2>1. req' = [req EXCEPT ![t] = r]
    BY <1>1
  <2>2. DOMAIN req[t] = Fields
    BY DEF Requests
  <2>3. /\ DOMAIN r = Fields /\ r.step = step /\ r.tx = None /\ r.contract = contract
        /\ r.op = req[t].op /\ r.ids = req[t].ids /\ r.done = req[t].done
        /\ r.ready = req[t].ready /\ r.account = req[t].account
        /\ r.registry = req[t].registry /\ r.cache = req[t].cache /\ r.dirty = req[t].dirty
        /\ r.content = req[t].content
    BY <2>2 DEF Fields
  <2> HIDE DEF r
  <2>4. OthersKept(t) /\ req'[t] = r
    BY <2>1, StepIs
  <2> QED
    BY <2>3, <2>4 DEF KeepsWork, KeepsContext
<1> DEFINE contract == IF req[t].step \in {"deployRegistry", "deploy"}
                       THEN req[t].tx.nonce ELSE req[t].contract
<1>2. req' = [req EXCEPT ![t].step = After[req[t].step], ![t].tx = None,
                         ![t].contract = contract]
  BY DEF CallReturns, Requests
<1>3. /\ req[t].step \in CallSteps /\ req[t].tx \in ToSet(chain) /\ NothingSent
      /\ UNCHANGED <<users, registry, mails, answer, faults>>
  BY DEF CallReturns, NothingSent
<1> QED
  BY <1>1, <1>2, <1>3 DEF CallReturnsDoes

CallThrowsDoes(t) ==
    /\ Moves(t, "publishError") /\ NothingSent
    /\ req[t].step \in CallSteps /\ req[t].tx = None
    /\ faults' = faults + 1
    /\ UNCHANGED <<users, registry, mails, answer>>

LEMMA CallThrowsIs ==
    ASSUME Requests, NEW t \in Thread, CallThrows(t)
    PROVE  CallThrowsDoes(t)
BY MovesIs DEF CallThrows, CallThrowsDoes, NothingSent

(***************************************************************************)
(* The steps between the calls (AdminServiceImpl.java:118-171).            *)
(***************************************************************************)
SaveAdminDoes(t) ==
    /\ Moves(t, "success") /\ NothingSent
    /\ req[t].step = "saveAdmin" /\ registry' = req[t].contract
    /\ UNCHANGED <<users, mails, answer, faults>>

LEMMA SaveAdminIs ==
    ASSUME Requests, NEW t \in Thread, SaveAdmin(t)
    PROVE  SaveAdminDoes(t)
BY MovesIs DEF SaveAdmin, SaveAdminDoes, NothingSent

SendTokenMailDoes(t) ==
    /\ Moves(t, "transcript") /\ NothingSent
    /\ req[t].step = "mail" /\ mails' = mails \cup {TokenMail(t)}
    /\ UNCHANGED <<users, registry, answer, faults>>

LEMMA SendTokenMailIs ==
    ASSUME Requests, NEW t \in Thread, SendTokenMail(t)
    PROVE  SendTokenMailDoes(t)
BY MovesIs DEF SendTokenMail, SendTokenMailDoes, NothingSent

SendTokenMailFailsDoes(t) ==
    /\ Moves(t, Refusal(t)) /\ NothingSent
    /\ req[t].step = "mail" /\ mails' \in {mails, mails \cup {TokenMail(t)}}
    /\ faults' = faults + 1
    /\ UNCHANGED <<users, registry, answer>>

LEMMA SendTokenMailFailsIs ==
    ASSUME Requests, NEW t \in Thread, SendTokenMailFails(t)
    PROVE  SendTokenMailFailsDoes(t)
BY MovesIs DEF SendTokenMailFails, SendTokenMailFailsDoes, NothingSent

\* What the context has changed is written.
Writes(t, step) ==
    /\ OthersKept(t) /\ KeepsWork(t) /\ req'[t].step = step /\ req'[t].tx = req[t].tx
    /\ req'[t].registry = req[t].registry /\ req'[t].cache = req[t].cache
    /\ req'[t].dirty = {} /\ req'[t].contract = req[t].contract
    /\ users' = Flushed(t)

PublishTranscriptDoes(t) ==
    /\ Writes(t, "addArtifact") /\ NothingSent
    /\ req[t].step = "transcript" /\ DocOf[Target(t)] # NoContent
    /\ \/ req'[t].content = DocOf[Target(t)] /\ UNCHANGED faults
       \/ req'[t].content = NoContent /\ faults' = faults + 1
    /\ UNCHANGED <<registry, mails, answer>>

LEMMA PublishTranscriptIs ==
    ASSUME Requests, NEW t \in Thread, PublishTranscript(t)
    PROVE  PublishTranscriptDoes(t)
<1>1. ASSUME NEW content,
             req' = [req EXCEPT ![t].step = "addArtifact", ![t].dirty = {}, ![t].content = content]
      PROVE  /\ OthersKept(t) /\ KeepsWork(t) /\ req'[t].step = "addArtifact"
             /\ req'[t].tx = req[t].tx /\ req'[t].registry = req[t].registry
             /\ req'[t].cache = req[t].cache /\ req'[t].dirty = {}
             /\ req'[t].contract = req[t].contract /\ req'[t].content = content
  <2> DEFINE r == [req[t] EXCEPT !.step = "addArtifact", !.dirty = {}, !.content = content]
  <2>1. req' = [req EXCEPT ![t] = r]
    BY <1>1
  <2>2. DOMAIN req[t] = Fields
    BY DEF Requests
  <2>3. /\ DOMAIN r = Fields /\ r.step = "addArtifact" /\ r.tx = req[t].tx
        /\ r.contract = req[t].contract
        /\ r.op = req[t].op /\ r.ids = req[t].ids /\ r.done = req[t].done
        /\ r.ready = req[t].ready /\ r.account = req[t].account
        /\ r.registry = req[t].registry /\ r.cache = req[t].cache /\ r.dirty = {}
        /\ r.content = content
    BY <2>2 DEF Fields
  <2> HIDE DEF r
  <2>4. OthersKept(t) /\ req'[t] = r
    BY <2>1, StepIs
  <2> QED
    BY <2>3, <2>4 DEF KeepsWork
<1>2. \E content \in {DocOf[Target(t)], NoContent} :
          /\ req' = [req EXCEPT ![t].step = "addArtifact", ![t].dirty = {},
                                ![t].content = content]
          /\ \/ content = DocOf[Target(t)] /\ UNCHANGED faults
             \/ content = NoContent /\ faults' = faults + 1
  BY DEF PublishTranscript
<1>3. /\ users' = Flushed(t) /\ NothingSent
      /\ req[t].step = "transcript" /\ DocOf[Target(t)] # NoContent
      /\ UNCHANGED <<registry, mails, answer>>
  BY DEF PublishTranscript, NothingSent
<1> QED
  BY <1>1, <1>2, <1>3 DEF PublishTranscriptDoes, Writes

NoTranscriptDoes(t) ==
    /\ Writes(t, "publishError") /\ NothingSent
    /\ req[t].step = "transcript" /\ DocOf[Target(t)] = NoContent
    /\ UNCHANGED <<registry, mails, answer, faults>>

LEMMA NoTranscriptIs ==
    ASSUME Requests, NEW t \in Thread, NoTranscript(t)
    PROVE  NoTranscriptDoes(t)
<1> DEFINE r == [req[t] EXCEPT !.step = "publishError", !.dirty = {}]
<1>1. req' = [req EXCEPT ![t] = r]
  BY DEF NoTranscript
<1>2. DOMAIN req[t] = Fields
  BY DEF Requests
<1>3. /\ DOMAIN r = Fields /\ r.step = "publishError" /\ r.tx = req[t].tx
      /\ r.contract = req[t].contract
      /\ r.op = req[t].op /\ r.ids = req[t].ids /\ r.done = req[t].done
      /\ r.ready = req[t].ready /\ r.account = req[t].account
      /\ r.registry = req[t].registry /\ r.cache = req[t].cache /\ r.dirty = {}
  BY <1>2 DEF Fields
<1> HIDE DEF r
<1>4. OthersKept(t) /\ req'[t] = r
  BY <1>1, StepIs
<1>5. /\ users' = Flushed(t) /\ NothingSent
      /\ req[t].step = "transcript" /\ DocOf[Target(t)] = NoContent
      /\ UNCHANGED <<registry, mails, answer, faults>>
  BY DEF NoTranscript, NothingSent
<1> QED
  BY <1>3, <1>4, <1>5 DEF NoTranscriptDoes, Writes, KeepsWork

\* The user with the token.
Saved(t) == [req[t].cache[Target(t)] EXCEPT !.token = req[t].contract]

SaveUserDoes(t) ==
    /\ OthersKept(t) /\ DOMAIN req'[t] = Fields
    /\ req'[t].op = req[t].op /\ req'[t].ready = req[t].ready
    /\ req'[t].account = req[t].account /\ req'[t].registry = req[t].registry
    /\ req'[t].tx = req[t].tx /\ req'[t].dirty = {}
    /\ req'[t].contract = None /\ req'[t].content = None
    /\ req'[t].cache = [req[t].cache EXCEPT ![Target(t)] = Saved(t)]
    /\ req'[t].ids = Tail(req[t].ids) /\ req'[t].done = Append(req[t].done, Target(t))
    /\ req'[t].step = IF Tail(req[t].ids) # <<>> THEN "find"
                      ELSE IF req[t].op = "completeAll" THEN "allSuccess" ELSE "success"
    /\ users' = [Flushed(t) EXCEPT ![Target(t)] = Saved(t)]
    /\ req[t].step = "saveUser" /\ NothingSent
    /\ UNCHANGED <<registry, mails, answer, faults>>

LEMMA SaveUserIs ==
    ASSUME Requests, NEW t \in Thread, SaveUser(t)
    PROVE  SaveUserDoes(t)
<1> DEFINE next == IF Tail(req[t].ids) # <<>> THEN "find"
                   ELSE IF req[t].op = "completeAll" THEN "allSuccess" ELSE "success"
           r == [req[t] EXCEPT
                    !.cache[Target(t)] = Saved(t), !.dirty = {}, !.contract = None,
                    !.content = None, !.ids = Tail(req[t].ids),
                    !.done = Append(@, Target(t)), !.step = next]
<1>1. req' = [req EXCEPT ![t] = r]
  BY DEF SaveUser, Saved, Requests
<1>2. DOMAIN req[t] = Fields
  BY DEF Requests
<1>3. next = IF Tail(req[t].ids) # <<>> THEN "find"
             ELSE IF req[t].op = "completeAll" THEN "allSuccess" ELSE "success"
  OBVIOUS
<1> HIDE DEF next
<1>4. /\ DOMAIN r = Fields /\ r.op = req[t].op /\ r.ready = req[t].ready
      /\ r.account = req[t].account /\ r.registry = req[t].registry /\ r.tx = req[t].tx
      /\ r.dirty = {} /\ r.contract = None /\ r.content = None
      /\ r.cache = [req[t].cache EXCEPT ![Target(t)] = Saved(t)]
      /\ r.ids = Tail(req[t].ids) /\ r.done = Append(req[t].done, Target(t))
      /\ r.step = next
  BY <1>2 DEF Fields
<1> HIDE DEF r
<1>5. OthersKept(t) /\ req'[t] = r
  BY <1>1, StepIs
<1>6. /\ users' = [Flushed(t) EXCEPT ![Target(t)] = Saved(t)]
      /\ req[t].step = "saveUser" /\ NothingSent
      /\ UNCHANGED <<registry, mails, answer, faults>>
  BY DEF SaveUser, Saved, NothingSent
<1> QED
  BY <1>3, <1>4, <1>5, <1>6 DEF SaveUserDoes

SaveRegistrationDoes(t) ==
    /\ Ends(t) /\ NothingSent /\ req[t].step = "saveRegistration"
    /\ users' = [users EXCEPT ![Target(t)] =
                    [req[t].cache[Target(t)] EXCEPT !.account = req[t].account, !.completed = TRUE]]
    /\ UNCHANGED <<registry, mails, answer, faults>>

LEMMA SaveRegistrationIs ==
    ASSUME Requests, NEW t \in Thread, SaveRegistration(t)
    PROVE  SaveRegistrationDoes(t)
BY EndsIs DEF SaveRegistration, SaveRegistrationDoes, NothingSent

AnswerDoes(t) ==
    /\ Ends(t) /\ NothingSent /\ req[t].step \in Verdicts
    /\ users' = Flushed(t)
    /\ answer' = [answer EXCEPT ![t] = [verdict |-> req[t].step, ready |-> req[t].ready,
                                        done |-> ToSet(req[t].done)]]
    /\ UNCHANGED <<registry, mails, faults>>

LEMMA AnswerIs ==
    ASSUME Requests, NEW t \in Thread, Answer(t)
    PROVE  AnswerDoes(t)
BY EndsIs DEF Answer, AnswerDoes, NothingSent

-----------------------------------------------------------------------------
(***************************************************************************)
(* Typed is inductive, whatever runs at the same time.                     *)
(***************************************************************************)
LEMMA TypedRequests ==
    ASSUME Typed
    PROVE  Requests
BY DEF Typed, Requests, SoundRequest, Fields

LEMMA TypedInit == Init => Typed
<1> SUFFICES ASSUME Init PROVE Typed
  OBVIOUS
<1>1. /\ users = [u \in User |-> NewUser] /\ registry = None /\ req = [t \in Thread |-> Idle]
      /\ chain = <<>> /\ submitted = {} /\ world = <<>> /\ answer = NoAnswers
      /\ mails = {} /\ life = 0 /\ faults = 0 /\ imported = 0
  BY DEF Init
<1>2. ChainTyped
  BY <1>1 DEF ChainTyped
<1>3. TablesTyped
  BY <1>1 DEF TablesTyped, SoundRow, NewUser, UserRow
<1>4. DOMAIN req = Thread /\ DOMAIN answer = Thread /\ Imported
  BY <1>1 DEF NoAnswers, Imported
<1>5. ASSUME NEW t \in Thread PROVE SoundRequest(t)
  <2>1. req[t] = Idle
    BY <1>1
  <2> QED
    BY <2>1, IdleIs DEF SoundRequest, Fields, Completing, Mailed
<1> QED
  BY <1>2, <1>3, <1>4, <1>5 DEF Typed

\* A token is a contract's, and so on, as long as the chain is what it was.
LEMMA DeployedStays ==
    ASSUME chain' = chain
    PROVE  /\ \A fn, k : Deployed(fn, k)' <=> Deployed(fn, k)
           /\ \A k : IsContract(k)' <=> IsContract(k)
           /\ \A k : IsRegistry(k)' <=> IsRegistry(k)
           /\ \A tx : SoundTx(tx)' <=> SoundTx(tx)
           /\ \A row : SoundRow(row)' <=> SoundRow(row)
BY DEF Deployed, IsContract, IsRegistry, SoundTx, SoundRow

LEMMA OthersStaySound ==
    ASSUME NEW t \in Thread, NEW s \in Thread, s # t, SoundRequest(s), OthersKept(t), chain' = chain
    PROVE  SoundRequest(s)'
<1>1. req'[s] = req[s]
  BY DEF OthersKept
<1>2. Data(s)' = Data(s) /\ Target(s)' = Target(s)
  BY <1>1 DEF Data, Target
<1> QED
  BY <1>1, <1>2, DeployedStays DEF SoundRequest

\* A step of a thread leaves the chain; what it sends is sound.
LEMMA ChainStaysTyped ==
    ASSUME ChainTyped, chain' = chain, world' = world,
           \A tx \in submitted' : tx \in submitted \/ SoundTx(tx)
    PROVE  ChainTyped'
<1>1. ASSUME NEW i \in 1 .. Len(chain')
      PROVE  /\ chain'[i].nonce = i - 1 /\ SoundTx(chain[i])'
             /\ chain'[i].data.fn = "deploy" => world'[i] \in ContractRow
             /\ chain'[i].data.fn = "deployRegistry" => world'[i] \in RegistryRow
  BY DeployedStays DEF ChainTyped
<1>2. ASSUME NEW tx \in submitted' PROVE SoundTx(tx)'
  BY DeployedStays DEF ChainTyped
<1>3. chain' \in Seq(Transaction) /\ world' \in Seq(Thing) /\ Len(world') = Len(chain')
  BY DEF ChainTyped
<1> QED
  BY <1>1, <1>2, <1>3 DEF ChainTyped

\* What a thread writes is a row.
LEMMA FlushedIsSound ==
    ASSUME TablesTyped, NEW t \in Thread, SoundRequest(t)
    PROVE  Flushed(t) \in [User -> UserRow] /\ \A u \in User : SoundRow(Flushed(t)[u])
<1>1. \A u \in User : SoundRow(Flushed(t)[u])
  BY DEF TablesTyped, SoundRequest, Flushed
<1>2. \A u \in User : Flushed(t)[u] \in UserRow
  BY <1>1 DEF SoundRow
<1> QED
  BY <1>1, <1>2 DEF Flushed

LEMMA SavedIsSound ==
    ASSUME TablesTyped, NEW t \in Thread, SoundRequest(t), req[t].step = "saveUser"
    PROVE  Target(t) \in User /\ SoundRow(Saved(t))
<1>1. /\ req[t].ids # <<>> /\ req[t].ids \in Seq(User) /\ req[t].cache[Target(t)] # None
      /\ IsContract(req[t].contract) /\ req[t].cache[Target(t)].completed
  BY DEF SoundRequest, Completing, Mailed
<1>2. Target(t) \in User
  BY <1>1 DEF Target
<1>3. SoundRow(req[t].cache[Target(t)])
  BY <1>1, <1>2 DEF SoundRequest
<1> QED
  BY <1>1, <1>2, <1>3 DEF SoundRow, UserRow, Saved, IsContract, Deployed

LEMMA RegistrationIsSound ==
    ASSUME TablesTyped, NEW t \in Thread, SoundRequest(t), req[t].step = "saveRegistration"
    PROVE  /\ Target(t) \in User
           /\ SoundRow([req[t].cache[Target(t)] EXCEPT !.account = req[t].account,
                                                       !.completed = TRUE])
<1>1. /\ req[t].ids # <<>> /\ req[t].ids \in Seq(User) /\ req[t].cache[Target(t)] # None
      /\ req[t].account \in Account
  BY DEF SoundRequest
<1>2. Target(t) \in User
  BY <1>1 DEF Target
<1>3. SoundRow(req[t].cache[Target(t)])
  BY <1>1, <1>2 DEF SoundRequest
<1> DEFINE row == req[t].cache[Target(t)]
           half == [row EXCEPT !.account = req[t].account]
<1>4. half \in UserRow /\ half.token = row.token /\ half.account = req[t].account
  BY <1>1, <1>3 DEF SoundRow, UserRow
<1>5. [row EXCEPT !.account = req[t].account, !.completed = TRUE] = [half EXCEPT !.completed = TRUE]
  OBVIOUS
<1>6. row.token # None => IsContract(row.token)
  BY <1>3 DEF SoundRow
<1> HIDE DEF half
<1>7. /\ [half EXCEPT !.completed = TRUE] \in UserRow
      /\ [half EXCEPT !.completed = TRUE].token = half.token
      /\ [half EXCEPT !.completed = TRUE].account = half.account
  BY <1>4 DEF UserRow
<1> QED
  BY <1>1, <1>2, <1>4, <1>5, <1>6, <1>7 DEF SoundRow

\* What the tables may become.
LEMMA TablesStayTyped ==
    ASSUME TablesTyped, chain' = chain, life' = life, faults' \in {faults, faults + 1},
           users' \in [User -> UserRow], \A u \in User : SoundRow(users'[u]),
           registry' # None => IsRegistry(registry'),
           \A m \in mails' : \/ m \in mails
                             \/ /\ m.user \in User /\ m.life = life
                                /\ IsContract(m.contract) /\ IsRegistry(m.registry)
    PROVE  TablesTyped'
<1>1. \A u \in User : SoundRow(users[u])'
  <2> SUFFICES ASSUME NEW u \in User PROVE SoundRow(users[u])'
    OBVIOUS
  <2>1. SoundRow(users'[u])
    OBVIOUS
  <2> QED
    BY <2>1 DEF SoundRow, IsContract, Deployed
<1>2. registry' # None => IsRegistry(registry)'
  BY DEF IsRegistry, Deployed
<1>3. life' \in Nat /\ faults' \in Nat
  BY DEF TablesTyped
<1>4. ASSUME NEW m \in mails'
      PROVE  /\ m.user \in User /\ m.life \in 0 .. life'
             /\ IsContract(m.contract)' /\ IsRegistry(m.registry)'
  BY <1>4, DeployedStays DEF TablesTyped
<1> QED
  BY <1>1, <1>2, <1>3, <1>4 DEF TablesTyped

(***************************************************************************)
(* The request after each of its steps is sound.                           *)
(***************************************************************************)
LEMMA IdleIsSound ==
    ASSUME NEW t \in Thread, req'[t] = Idle
    PROVE  SoundRequest(t)'
BY IdleIs DEF SoundRequest, Fields, Completing, Mailed

LEMMA StartIsSound ==
    ASSUME Typed, NEW t \in Thread, Request(t)
    PROVE  SoundRequest(t)'
<1>1. /\ \/ PublishStarts(t)
         \/ \E u \in User : CompleteStarts(t, u)
         \/ \E ids \in Orders(Unpublished) : CompleteAllStarts(t, ids)
         \/ \E u \in User : RegistrationStarts(t, u)
      /\ UNCHANGED users /\ chain' = chain
  BY TypedRequests, RequestStarts DEF NothingSent
<1>2. \A u \in User : SoundRow(users[u]) /\ users[u] \in UserRow
  BY DEF Typed, TablesTyped, SoundRow
<1>3. CASE PublishStarts(t)
  BY <1>3 DEF SoundRequest, PublishStarts, StartsWith, Fields, Completing, Mailed
<1>4. ASSUME NEW u \in User, CompleteStarts(t, u)
      PROVE  SoundRequest(t)'
  BY <1>4 DEF SoundRequest, CompleteStarts, StartsWith, Fields, Completing, Mailed
<1>5. ASSUME NEW ids \in Orders(Unpublished), CompleteAllStarts(t, ids)
      PROVE  SoundRequest(t)'
  BY <1>1, <1>2, <1>5, DeployedStays
     DEF SoundRequest, CompleteAllStarts, StartsWith, Fields, Completing, Mailed, Unpublished
<1>6. ASSUME NEW u \in User, RegistrationStarts(t, u)
      PROVE  SoundRequest(t)'
  <2>1. Target(t)' = u
    BY <1>6 DEF RegistrationStarts, StartsWith, Target
  <2>2. users[u] # None
    BY <1>2, NoneAssumption
  <2> QED
    BY <1>1, <1>2, <1>6, <2>1, <2>2, DeployedStays
       DEF SoundRequest, RegistrationStarts, StartsWith, Fields, Completing, Mailed
<1> QED
  BY <1>1, <1>3, <1>4, <1>5, <1>6

\* What a request has seen are rows.
LEMMA SeenIsSound ==
    ASSUME TablesTyped, NEW t \in Thread, SoundRequest(t)
    PROVE  /\ Seen(t) \in [User -> UserRow \cup {None}]
           /\ \A u \in User : Seen(t)[u] # None => SoundRow(Seen(t)[u])
           /\ \A u \in Unpublished : Seen(t)[u] # None
           /\ \A u \in User : req[t].cache[u] # None => Seen(t)[u] = req[t].cache[u]
           /\ SeenRegistry(t) # None => IsRegistry(SeenRegistry(t))
<1>1. \A u \in User : users[u] # None
  BY NoneAssumption DEF TablesTyped
<1> QED
  BY <1>1 DEF TablesTyped, SoundRequest, Seen, SeenRegistry, Unpublished

LEMMA FindUserIsSound ==
    ASSUME Typed, NEW t \in Thread, FindUserDoes(t)
    PROVE  SoundRequest(t)'
<1> DEFINE u == Target(t)
<1>0. SoundRequest(t) /\ TablesTyped
  BY DEF Typed
<1>1. /\ u \in User /\ Seen(t)[u] # None /\ SoundRow(Seen(t)[u]) /\ Seen(t)[u].completed
      /\ req'[t].cache = [Seen(t) EXCEPT ![u].published = TRUE] /\ chain' = chain
  BY <1>0, SeenIsSound DEF FindUserDoes, NothingSent, Unpublished
<1> DEFINE row == [Seen(t)[u] EXCEPT !.published = TRUE]
<1>2. SoundRow(row) /\ row.completed
  BY <1>1 DEF SoundRow, UserRow
<1>3. row # None
  BY <1>2, NoneAssumption DEF SoundRow
<1>4. /\ req'[t].cache[u] = row
      /\ \A v \in User : v # u => req'[t].cache[v] = Seen(t)[v]
      /\ DOMAIN req'[t].cache = User
      /\ req'[t].cache = [v \in User |-> IF v = u THEN row ELSE Seen(t)[v]]
  BY <1>0, <1>1, SeenIsSound
<1>5. /\ req'[t].cache \in [User -> UserRow \cup {None}]
      /\ \A v \in User : req'[t].cache[v] # None => SoundRow(req'[t].cache[v])
      /\ \A v \in req[t].dirty \cup {u} : req'[t].cache[v] # None
  <2> HIDE DEF row, u
  <2>1. row \in UserRow
    BY <1>2 DEF SoundRow
  <2>2. \A v \in req[t].dirty : v \in User /\ Seen(t)[v] # None
    BY <1>0, SeenIsSound DEF SoundRequest
  <2> QED
    BY <1>0, <1>2, <1>3, <1>4, <2>1, <2>2, SeenIsSound
<1>6. \A v \in User : req'[t].cache[v] # None => SoundRow(req[t].cache[v])'
  BY <1>1, <1>5 DEF SoundRow, IsContract, Deployed
<1>7. SeenRegistry(t) # None /\ IsRegistry(SeenRegistry(t))
  BY <1>0, SeenIsSound DEF FindUserDoes
<1>8. req'[t].registry # None /\ IsRegistry(req[t].registry)'
  BY <1>1, <1>7 DEF FindUserDoes, IsRegistry, Deployed
<1>9. /\ DOMAIN req'[t] = Fields /\ req'[t].step = "deploy" /\ req'[t].tx = None
      /\ req'[t].ids = req[t].ids /\ req'[t].done = req[t].done /\ req'[t].ready = req[t].ready
      /\ req'[t].op = req[t].op /\ req'[t].dirty = req[t].dirty \cup {u} /\ Target(t)' = u
  BY <1>0 DEF FindUserDoes, KeepsWork, SoundRequest, CallSteps, Target
<1>10. /\ req[t].ids # <<>> /\ req[t].ids \in Seq(User) /\ req[t].done \in Seq(User)
       /\ req[t].ready \subseteq User /\ req[t].dirty \subseteq User
       /\ req[t].op \in {"complete", "completeAll"}
  BY <1>0 DEF FindUserDoes, SoundRequest
<1> HIDE DEF u, row
<1> QED
  BY <1>1, <1>2, <1>4, <1>5, <1>6, <1>8, <1>9, <1>10
     DEF SoundRequest, Fields, Completing, Mailed

LEMMA RefusalIsVerdict ==
    ASSUME NEW t
    PROVE  Refusal(t) \in {"publishError", "zeroSuccess", "partialSuccess"}
BY DEF Refusal

LEMMA FindNobodyIsSound ==
    ASSUME Typed, NEW t \in Thread, FindNobodyDoes(t)
    PROVE  SoundRequest(t)'
<1>0. SoundRequest(t) /\ TablesTyped
  BY DEF Typed
<1>1. /\ req'[t].cache = Seen(t) /\ req'[t].registry = SeenRegistry(t) /\ chain' = chain
      /\ DOMAIN req'[t] = Fields /\ req'[t].step \in Verdicts
      /\ req'[t].ids = req[t].ids /\ req'[t].done = req[t].done /\ req'[t].ready = req[t].ready
      /\ req'[t].dirty = req[t].dirty
  BY RefusalIsVerdict DEF FindNobodyDoes, KeepsWork, NothingSent, Verdicts
<1>2. req'[t].tx = None
  BY <1>0 DEF FindNobodyDoes, SoundRequest, CallSteps
<1>3. /\ req'[t].cache \in [User -> UserRow \cup {None}] /\ DOMAIN req'[t].cache = User
      /\ \A v \in User : req'[t].cache[v] # None => SoundRow(req'[t].cache[v])
      /\ \A v \in req[t].dirty : req'[t].cache[v] # None
      /\ req'[t].registry # None => IsRegistry(req'[t].registry)
  BY <1>0, <1>1, SeenIsSound DEF SoundRequest
<1>4. /\ \A v \in User : req'[t].cache[v] # None => SoundRow(req[t].cache[v])'
      /\ req'[t].registry # None => IsRegistry(req[t].registry)'
  BY <1>1, <1>3 DEF SoundRow, IsContract, IsRegistry, Deployed
<1>5. /\ req[t].ids \in Seq(User) /\ req[t].done \in Seq(User)
      /\ req[t].ready \subseteq User /\ req[t].dirty \subseteq User
  BY <1>0 DEF SoundRequest
<1> QED
  BY <1>1, <1>2, <1>3, <1>4, <1>5
     DEF SoundRequest, Fields, Verdicts, Completing, Mailed, CallSteps

\* What a request sends (Client.java:86-143, AdminServiceImpl.java:118-139).
LEMMA SentIsSound ==
    ASSUME ChainTyped, TablesTyped, imported \in Nat,
           NEW t \in Thread, SoundRequest(t), req[t].step \in CallSteps
    PROVE  SoundTx(NewTx(t)) /\ Data(t).fn = req[t].step
<1>1. imported \in Nat
  OBVIOUS
<1>2. CASE req[t].step \in {"deployRegistry", "deploy"}
  <2>1. Data(t) = [to |-> None, fn |-> req[t].step, arg |-> None]
    BY <1>2 DEF Data
  <2> QED
    BY <1>1, <1>2, <2>1 DEF SoundTx, NewTx, Transaction, CallSteps
<1>3. CASE req[t].step = "addArtifact"
  <2>1. Data(t) = [to |-> req[t].contract, fn |-> req[t].step, arg |-> req[t].content]
    BY <1>3 DEF Data
  <2>2. IsContract(req[t].contract) /\ req[t].content \in Content \cup {NoContent}
    BY <1>3 DEF SoundRequest, Completing, Mailed
  <2>3. req[t].contract \in Nat
    BY <2>2 DEF IsContract, Deployed
  <2> QED
    BY <1>1, <1>3, <2>1, <2>2, <2>3 DEF SoundTx, NewTx, Transaction, CallSteps
<1>4. CASE req[t].step = "assignOwner"
  <2>1. Data(t) = [to |-> req[t].contract, fn |-> req[t].step,
                   arg |-> req[t].cache[Target(t)].account]
    BY <1>4 DEF Data
  <2>2. /\ IsContract(req[t].contract) /\ req[t].ids # <<>> /\ req[t].ids \in Seq(User)
        /\ req[t].cache[Target(t)] # None /\ req[t].cache[Target(t)].completed
    BY <1>4 DEF SoundRequest, Completing, Mailed
  <2>3. Target(t) \in User
    BY <2>2 DEF Target
  <2>4. req[t].cache[Target(t)].account \in Account
    BY <2>2, <2>3 DEF SoundRequest, SoundRow
  <2>5. req[t].contract \in Nat
    BY <2>2 DEF IsContract, Deployed
  <2> QED
    BY <1>1, <1>4, <2>1, <2>2, <2>4, <2>5 DEF SoundTx, NewTx, Transaction, CallSteps
<1>5. CASE req[t].step = "addContract"
  <2>1. Data(t) = [to |-> req[t].registry, fn |-> req[t].step, arg |-> req[t].contract]
    BY <1>5 DEF Data
  <2>2. IsContract(req[t].contract) /\ IsRegistry(req[t].registry)
    BY <1>5 DEF SoundRequest, Completing, Mailed
  <2>3. req[t].contract \in Nat /\ req[t].registry \in Nat
    BY <2>2 DEF IsContract, IsRegistry, Deployed
  <2> QED
    BY <1>1, <1>5, <2>1, <2>2, <2>3 DEF SoundTx, NewTx, Transaction, CallSteps
<1> QED
  BY <1>2, <1>3, <1>4, <1>5 DEF CallSteps

LEMMA SendIsSound ==
    ASSUME Typed, NEW t \in Thread, SendDoes(t)
    PROVE  SoundRequest(t)'
<1>0. SoundRequest(t) /\ TablesTyped /\ ChainTyped /\ imported \in Nat
  BY DEF Typed, Imported
<1>1. SoundTx(NewTx(t)) /\ req[t].step \in CallSteps /\ req[t].step # "idle"
  BY <1>0, SentIsSound DEF SendDoes, CallSteps
<1>2. /\ req'[t].step = req[t].step /\ req'[t].ids = req[t].ids /\ req'[t].cache = req[t].cache
      /\ req'[t].contract = req[t].contract /\ req'[t].content = req[t].content
      /\ req'[t].registry = req[t].registry /\ req'[t].tx = NewTx(t) /\ chain' = chain
  BY DEF SendDoes, KeepsWork, KeepsContext, KeepsContract
<1>3. Data(t)' = Data(t) /\ Target(t)' = Target(t)
  BY <1>2 DEF Data, Target
<1>4. req'[t].tx.data = Data(t) /\ SoundTx(req[t].tx)'
  BY <1>1, <1>2, DeployedStays DEF NewTx, SoundTx, IsContract, IsRegistry, Deployed
<1> QED
  BY <1>0, <1>1, <1>2, <1>3, <1>4, DeployedStays
     DEF SoundRequest, SendDoes, KeepsWork, KeepsContext, Fields

LEMMA MoveIsSound ==
    ASSUME Typed, NEW t \in Thread, NEW step, Moves(t, step), chain' = chain, req[t].tx = None,
           \/ step \in Verdicts
           \/ req[t].step = "mail" /\ step = "transcript"
    PROVE  SoundRequest(t)'
<1>0. SoundRequest(t)
  BY DEF Typed
<1>1. Target(t)' = Target(t)
  BY DEF Moves, KeepsWork, Target
<1> QED
  BY <1>0, <1>1, DeployedStays
     DEF SoundRequest, Moves, KeepsWork, KeepsContext, KeepsContract, Fields,
         Verdicts, Completing, Mailed

LEMMA WriteIsSound ==
    ASSUME Typed, NEW t \in Thread, NEW step, Writes(t, step), chain' = chain,
           req[t].step = "transcript",
           \/ step = "publishError"
           \/ step = "addArtifact" /\ req'[t].content \in Content \cup {NoContent}
    PROVE  SoundRequest(t)'
<1>0. SoundRequest(t)
  BY DEF Typed
<1>1. Target(t)' = Target(t) /\ req[t].tx = None
  BY <1>0 DEF Writes, KeepsWork, Target, SoundRequest, CallSteps
<1> QED
  BY <1>0, <1>1, DeployedStays
     DEF SoundRequest, Writes, KeepsWork, Fields, Verdicts, Completing, Mailed

LEMMA SaveUserIsSound ==
    ASSUME Typed, NEW t \in Thread, SaveUserDoes(t)
    PROVE  SoundRequest(t)'
<1> DEFINE u == Target(t)
           row == Saved(t)
<1>0. SoundRequest(t) /\ TablesTyped
  BY DEF Typed
<1>1. u \in User /\ SoundRow(row) /\ row # None /\ row \in UserRow
  BY <1>0, SavedIsSound, NoneAssumption DEF SaveUserDoes, SoundRow
<1> HIDE DEF u, row
<1>2. /\ req'[t].cache = [req[t].cache EXCEPT ![u] = row] /\ chain' = chain
      /\ req'[t].ids = Tail(req[t].ids) /\ req'[t].done = Append(req[t].done, u)
      /\ req'[t].dirty = {} /\ req'[t].ready = req[t].ready /\ req'[t].registry = req[t].registry
      /\ DOMAIN req'[t] = Fields /\ req'[t].op = req[t].op
      /\ req[t].step = "saveUser" /\ req'[t].tx = req[t].tx
      /\ req'[t].step = IF Tail(req[t].ids) # <<>> THEN "find"
                        ELSE IF req[t].op = "completeAll" THEN "allSuccess" ELSE "success"
  BY DEF SaveUserDoes, NothingSent, u, row
<1>3. /\ req[t].tx = None /\ req[t].ids \in Seq(User) /\ req[t].ids # <<>>
      /\ req[t].done \in Seq(User) /\ req[t].op \in {"complete", "completeAll"}
      /\ req[t].ready \subseteq User
      /\ req[t].cache \in [User -> UserRow \cup {None}]
      /\ \A v \in User : req[t].cache[v] # None => SoundRow(req[t].cache[v])
      /\ req[t].registry # None => IsRegistry(req[t].registry)
  BY <1>0, <1>2 DEF SoundRequest, CallSteps, Completing, Mailed
<1>4. req'[t].ids \in Seq(User) /\ req'[t].done \in Seq(User)
  BY <1>1, <1>2, <1>3
<1>5. /\ req'[t].cache \in [User -> UserRow \cup {None}] /\ DOMAIN req'[t].cache = User
      /\ \A v \in User : req'[t].cache[v] # None => SoundRow(req'[t].cache[v])
  BY <1>1, <1>2, <1>3
<1>6. \A v \in User : req'[t].cache[v] # None => SoundRow(req[t].cache[v])'
  BY <1>2, <1>5 DEF SoundRow, IsContract, Deployed
<1>7. req'[t].registry # None => IsRegistry(req[t].registry)'
  BY <1>2, <1>3 DEF IsRegistry, Deployed
<1>8. /\ req'[t].step \in {"find", "allSuccess", "success"}
      /\ req'[t].step = "find" => req'[t].ids # <<>>
  BY <1>2
<1> QED
  BY <1>2, <1>3, <1>4, <1>5, <1>6, <1>7, <1>8
     DEF SoundRequest, Fields, Verdicts, Completing, Mailed

\* A mined transaction has the number of its block, and deployed what it says.
LEMMA MinedIs ==
    ASSUME ChainTyped, NEW tx \in ToSet(chain)
    PROVE  /\ tx # None /\ tx.nonce \in Nat /\ tx.nonce < Len(chain)
           /\ chain[tx.nonce + 1] = tx /\ Deployed(tx.data.fn, tx.nonce)
<1>1. PICK i \in 1 .. Len(chain) : tx = chain[i]
  BY DEF ToSet, ChainTyped
<1>2. tx \in Transaction /\ tx.nonce = i - 1 /\ Len(chain) \in Nat
  BY <1>1 DEF ChainTyped
<1>3. tx # None
  BY <1>2, NoneAssumption
<1> QED
  BY <1>1, <1>2, <1>3 DEF Deployed

LEMMA ReturnIsSound ==
    ASSUME Typed, NEW t \in Thread, CallReturnsDoes(t)
    PROVE  SoundRequest(t)'
<1>0. SoundRequest(t) /\ TablesTyped /\ ChainTyped /\ imported \in Nat
  BY DEF Typed, Imported
<1>1. /\ req[t].tx # None /\ req[t].tx.nonce \in Nat
      /\ Deployed(req[t].tx.data.fn, req[t].tx.nonce)
  BY <1>0, MinedIs DEF CallReturnsDoes
<1>2. req[t].tx.data.fn = req[t].step
  BY <1>0, <1>1, SentIsSound DEF SoundRequest, CallReturnsDoes
<1>3. /\ req'[t].step = After[req[t].step] /\ req'[t].tx = None /\ chain' = chain
      /\ req'[t].cache = req[t].cache /\ req'[t].ids = req[t].ids
      /\ Target(t)' = Target(t)
  BY DEF CallReturnsDoes, KeepsContext, KeepsWork, NothingSent, Target
<1>4. /\ req'[t].step = "saveAdmin" => IsRegistry(req'[t].contract)
      /\ req'[t].step \in Completing => IsContract(req'[t].contract)
      /\ req'[t].step = "mail" => req[t].step = "deploy"
      /\ req'[t].step \in Completing => req[t].step \in Completing
      /\ req'[t].step \in {"saveAdmin", "mail", "assignOwner", "addContract", "saveUser"}
  <2>1. CASE req[t].step = "deployRegistry"
    BY <1>1, <1>2, <1>3, <2>1 DEF CallReturnsDoes, IsRegistry, After, Completing, Mailed
  <2>2. CASE req[t].step = "deploy"
    BY <1>1, <1>2, <1>3, <2>2 DEF CallReturnsDoes, IsContract, After, Completing, Mailed
  <2>3. CASE req[t].step \in {"addArtifact", "assignOwner", "addContract"}
    <3>1. IsContract(req[t].contract) /\ req'[t].contract = req[t].contract
      BY <1>0, <2>3 DEF SoundRequest, CallReturnsDoes, Completing, Mailed
    <3> QED
      BY <1>3, <2>3, <3>1 DEF After, Completing, Mailed
  <2> QED
    BY <2>1, <2>2, <2>3 DEF CallReturnsDoes, CallSteps
<1>5. /\ req'[t].step = "saveAdmin" => IsRegistry(req[t].contract)'
      /\ req'[t].step \in Completing => IsContract(req[t].contract)'
  BY <1>3, <1>4 DEF IsRegistry, IsContract, Deployed
<1> QED
  BY <1>0, <1>3, <1>4, <1>5, DeployedStays
     DEF SoundRequest, CallReturnsDoes, KeepsWork, KeepsContext, Fields, Completing, Mailed

(***************************************************************************)
(* A step of a thread.                                                     *)
(***************************************************************************)
LEMMA TypedRest ==
    ASSUME Typed, NEW t \in Thread, OthersKept(t), ChainTyped', TablesTyped', SoundRequest(t)',
           DOMAIN answer' = DOMAIN answer, chain' = chain, imported' = imported
    PROVE  Typed'
<1>1. ASSUME NEW s \in Thread PROVE SoundRequest(s)'
  <2>1. CASE s = t
    BY <2>1
  <2>2. CASE s # t
    BY <2>2, OthersStaySound DEF Typed
  <2> QED
    BY <2>1, <2>2
<1> QED
  BY <1>1 DEF Typed, OthersKept, Imported

\* The step writes no table.
LEMMA TablesKept ==
    ASSUME TablesTyped, chain' = chain, life' = life, faults' \in {faults, faults + 1},
           UNCHANGED <<users, registry, mails>>
    PROVE  TablesTyped'
BY TablesStayTyped DEF TablesTyped

LEMMA MailIsSound ==
    ASSUME NEW t \in Thread, SoundRequest(t), req[t].step = "mail"
    PROVE  /\ TokenMail(t).user = Target(t) /\ Target(t) \in User /\ TokenMail(t).life = life
           /\ TokenMail(t).contract = req[t].contract /\ IsContract(req[t].contract)
           /\ TokenMail(t).registry = req[t].registry /\ IsRegistry(req[t].registry)
BY DEF SoundRequest, TokenMail, Target, Completing, Mailed

LEMMA RequestKeepsTyped ==
    ASSUME Typed, NEW t \in Thread, Request(t), life' = life, imported' = imported
    PROVE  Typed'
<1>1. OthersKept(t) /\ NothingSent /\ UNCHANGED <<users, registry, mails, answer, faults>>
  BY TypedRequests, RequestStarts
<1>2. ChainTyped'
  BY <1>1, ChainStaysTyped DEF Typed, NothingSent
<1>3. TablesTyped'
  BY <1>1, TablesKept DEF Typed, NothingSent
<1>4. SoundRequest(t)'
  BY StartIsSound
<1> QED
  BY <1>1, <1>2, <1>3, <1>4, TypedRest DEF NothingSent

LEMMA StepKeepsTyped ==
    ASSUME Typed, NEW t \in Thread, Step(t), life' = life, imported' = imported
    PROVE  Typed'
<1>0. ChainTyped /\ TablesTyped /\ SoundRequest(t) /\ Requests /\ imported \in Nat
  BY TypedRequests DEF Typed, Imported
<1>1. CASE SaveRegistration(t)
  <2>1. SaveRegistrationDoes(t)
    BY <1>0, <1>1, SaveRegistrationIs
  <2> DEFINE row == [req[t].cache[Target(t)] EXCEPT !.account = req[t].account, !.completed = TRUE]
  <2>2. Target(t) \in User /\ SoundRow(row) /\ row \in UserRow
    BY <1>0, <2>1, RegistrationIsSound DEF SaveRegistrationDoes, SoundRow
  <2>3. users' = [users EXCEPT ![Target(t)] = row]
    BY <2>1 DEF SaveRegistrationDoes
  <2> HIDE DEF row
  <2>4. users' \in [User -> UserRow] /\ \A u \in User : SoundRow(users'[u])
    BY <1>0, <2>2, <2>3 DEF TablesTyped
  <2>5. TablesTyped'
    BY <1>0, <2>1, <2>4, TablesStayTyped DEF SaveRegistrationDoes, NothingSent, TablesTyped
  <2>6. ChainTyped'
    BY <1>0, <2>1, ChainStaysTyped DEF SaveRegistrationDoes, NothingSent
  <2>7. SoundRequest(t)'
    BY <2>1, IdleIsSound DEF SaveRegistrationDoes, Ends
  <2> QED
    BY <2>1, <2>5, <2>6, <2>7, TypedRest DEF SaveRegistrationDoes, Ends, NothingSent
<1>2. CASE FindUser(t)
  <2>1. FindUserDoes(t)
    BY <1>0, <1>2, FindUserIs
  <2>2. TablesTyped' /\ ChainTyped' /\ SoundRequest(t)'
    BY <1>0, <2>1, TablesKept, ChainStaysTyped, FindUserIsSound DEF FindUserDoes, NothingSent
  <2> QED
    BY <2>1, <2>2, TypedRest DEF FindUserDoes, NothingSent
<1>3. CASE FindNobody(t)
  <2>1. FindNobodyDoes(t)
    BY <1>0, <1>3, FindNobodyIs
  <2>2. TablesTyped' /\ ChainTyped' /\ SoundRequest(t)'
    BY <1>0, <2>1, TablesKept, ChainStaysTyped, FindNobodyIsSound DEF FindNobodyDoes, NothingSent
  <2> QED
    BY <2>1, <2>2, TypedRest DEF FindNobodyDoes, NothingSent
<1>4. CASE Send(t)
  <2>1. SendDoes(t)
    BY <1>0, <1>4, SendIs
  <2>2. SoundTx(NewTx(t))
    BY <1>0, <2>1, SentIsSound DEF SendDoes
  <2>3. TablesTyped' /\ ChainTyped' /\ SoundRequest(t)'
    BY <1>0, <2>1, <2>2, TablesKept, ChainStaysTyped, SendIsSound DEF SendDoes
  <2> QED
    BY <2>1, <2>3, TypedRest DEF SendDoes
<1>5. CASE CallReturns(t)
  <2>1. CallReturnsDoes(t)
    BY <1>0, <1>5, CallReturnsIs
  <2>2. TablesTyped' /\ ChainTyped' /\ SoundRequest(t)'
    BY <1>0, <2>1, TablesKept, ChainStaysTyped, ReturnIsSound DEF CallReturnsDoes, NothingSent
  <2> QED
    BY <2>1, <2>2, TypedRest DEF CallReturnsDoes, NothingSent
<1>6. CASE CallThrows(t)
  <2>1. CallThrowsDoes(t)
    BY <1>0, <1>6, CallThrowsIs
  <2>2. SoundRequest(t)'
    BY <2>1, MoveIsSound DEF CallThrowsDoes, NothingSent, Verdicts
  <2>3. TablesTyped' /\ ChainTyped'
    BY <1>0, <2>1, TablesKept, ChainStaysTyped DEF CallThrowsDoes, NothingSent
  <2> QED
    BY <2>1, <2>2, <2>3, TypedRest DEF CallThrowsDoes, NothingSent, Moves
<1>7. CASE SaveAdmin(t)
  <2>1. SaveAdminDoes(t)
    BY <1>0, <1>7, SaveAdminIs
  <2>2. req[t].tx = None /\ IsRegistry(req[t].contract)
    BY <1>0, <2>1 DEF SoundRequest, SaveAdminDoes, CallSteps
  <2>3. SoundRequest(t)'
    BY <2>1, <2>2, MoveIsSound DEF SaveAdminDoes, NothingSent, Verdicts
  <2>4. TablesTyped'
    BY <1>0, <2>1, <2>2, TablesStayTyped DEF SaveAdminDoes, NothingSent, TablesTyped
  <2>5. ChainTyped'
    BY <1>0, <2>1, ChainStaysTyped DEF SaveAdminDoes, NothingSent
  <2> QED
    BY <2>1, <2>3, <2>4, <2>5, TypedRest DEF SaveAdminDoes, NothingSent, Moves
<1>8. CASE SendTokenMail(t)
  <2>1. SendTokenMailDoes(t)
    BY <1>0, <1>8, SendTokenMailIs
  <2>2. req[t].tx = None
    BY <1>0, <2>1 DEF SoundRequest, SendTokenMailDoes, CallSteps
  <2>3. SoundRequest(t)'
    BY <2>1, <2>2, MoveIsSound DEF SendTokenMailDoes, NothingSent
  <2>4. ASSUME NEW m \in mails'
        PROVE  m \in mails \/ m = TokenMail(t)
    BY <2>1 DEF SendTokenMailDoes
  <2>5. TablesTyped'
    BY <1>0, <2>1, <2>4, MailIsSound, TablesStayTyped
       DEF SendTokenMailDoes, NothingSent, TablesTyped
  <2>6. ChainTyped'
    BY <1>0, <2>1, ChainStaysTyped DEF SendTokenMailDoes, NothingSent
  <2> QED
    BY <2>1, <2>3, <2>5, <2>6, TypedRest DEF SendTokenMailDoes, NothingSent, Moves
<1>9. CASE SendTokenMailFails(t)
  <2>1. SendTokenMailFailsDoes(t)
    BY <1>0, <1>9, SendTokenMailFailsIs
  <2>2. req[t].tx = None
    BY <1>0, <2>1 DEF SoundRequest, SendTokenMailFailsDoes, CallSteps
  <2>3. SoundRequest(t)'
    BY <2>1, <2>2, MoveIsSound, RefusalIsVerdict DEF SendTokenMailFailsDoes, NothingSent, Verdicts
  <2>4. ASSUME NEW m \in mails'
        PROVE  m \in mails \/ m = TokenMail(t)
    BY <2>1 DEF SendTokenMailFailsDoes
  <2>5. TablesTyped'
    BY <1>0, <2>1, <2>4, MailIsSound, TablesStayTyped
       DEF SendTokenMailFailsDoes, NothingSent, TablesTyped
  <2>6. ChainTyped'
    BY <1>0, <2>1, ChainStaysTyped DEF SendTokenMailFailsDoes, NothingSent
  <2> QED
    BY <2>1, <2>3, <2>5, <2>6, TypedRest DEF SendTokenMailFailsDoes, NothingSent, Moves
<1>10. CASE PublishTranscript(t)
  <2>1. PublishTranscriptDoes(t)
    BY <1>0, <1>10, PublishTranscriptIs
  <2>2. req'[t].content \in Content \cup {NoContent}
    <3>1. Target(t) \in User
      BY <1>0, <2>1 DEF PublishTranscriptDoes, SoundRequest, Completing, Mailed, Target
    <3> QED
      BY <2>1, <3>1, DocAssumption DEF PublishTranscriptDoes
  <2>3. SoundRequest(t)'
    BY <2>1, <2>2, WriteIsSound DEF PublishTranscriptDoes, NothingSent
  <2>4. TablesTyped'
    BY <1>0, <2>1, FlushedIsSound, TablesStayTyped
       DEF PublishTranscriptDoes, Writes, NothingSent, TablesTyped
  <2>5. ChainTyped'
    BY <1>0, <2>1, ChainStaysTyped DEF PublishTranscriptDoes, NothingSent
  <2> QED
    BY <2>1, <2>3, <2>4, <2>5, TypedRest DEF PublishTranscriptDoes, NothingSent, Writes
<1>11. CASE NoTranscript(t)
  <2>1. NoTranscriptDoes(t)
    BY <1>0, <1>11, NoTranscriptIs
  <2>2. SoundRequest(t)'
    BY <2>1, WriteIsSound DEF NoTranscriptDoes, NothingSent
  <2>3. TablesTyped'
    BY <1>0, <2>1, FlushedIsSound, TablesStayTyped
       DEF NoTranscriptDoes, Writes, NothingSent, TablesTyped
  <2>4. ChainTyped'
    BY <1>0, <2>1, ChainStaysTyped DEF NoTranscriptDoes, NothingSent
  <2> QED
    BY <2>1, <2>2, <2>3, <2>4, TypedRest DEF NoTranscriptDoes, NothingSent, Writes
<1>12. CASE SaveUser(t)
  <2>1. SaveUserDoes(t)
    BY <1>0, <1>12, SaveUserIs
  <2>2. SoundRequest(t)'
    BY <2>1, SaveUserIsSound
  <2>3. Target(t) \in User /\ SoundRow(Saved(t)) /\ Saved(t) \in UserRow
    BY <1>0, <2>1, SavedIsSound DEF SaveUserDoes, SoundRow
  <2>4. users' \in [User -> UserRow] /\ \A u \in User : SoundRow(users'[u])
    BY <1>0, <2>1, <2>3, FlushedIsSound DEF SaveUserDoes
  <2>5. TablesTyped'
    BY <1>0, <2>1, <2>4, TablesStayTyped DEF SaveUserDoes, NothingSent, TablesTyped
  <2>6. ChainTyped'
    BY <1>0, <2>1, ChainStaysTyped DEF SaveUserDoes, NothingSent
  <2> QED
    BY <2>1, <2>2, <2>5, <2>6, TypedRest DEF SaveUserDoes, NothingSent
<1>13. CASE Answer(t)
  <2>1. AnswerDoes(t)
    BY <1>0, <1>13, AnswerIs
  <2>2. SoundRequest(t)'
    BY <2>1, IdleIsSound DEF AnswerDoes, Ends
  <2>3. TablesTyped'
    BY <1>0, <2>1, FlushedIsSound, TablesStayTyped DEF AnswerDoes, NothingSent, TablesTyped
  <2>4. ChainTyped'
    BY <1>0, <2>1, ChainStaysTyped DEF AnswerDoes, NothingSent
  <2> QED
    BY <2>1, <2>2, <2>3, <2>4, TypedRest DEF AnswerDoes, NothingSent, Ends
<1> QED
  BY <1>1, <1>2, <1>3, <1>4, <1>5, <1>6, <1>7, <1>8, <1>9, <1>10, <1>11, <1>12, <1>13 DEF Step

(***************************************************************************)
(* A transaction is mined (Unilog.sol, UnilogRegistry.sol).  What it calls *)
(* changes; what is deployed is new; the rest is as it was.                *)
(***************************************************************************)
Called(data) ==
    CASE data.fn = "addArtifact" ->
             AddArtifact(world[data.to + 1], 0, data.arg, VALID_FOR_10_YEARS)
      [] data.fn = "assignOwner" -> AssignArtifactOwner(world[data.to + 1], data.arg)
      [] data.fn = "addContract" -> AddContract(world[data.to + 1], data.arg)

Deploys == {"deployRegistry", "deploy"}

New(data) ==
    CASE data.fn = "deployRegistry" -> NewRegistry(Unilog)
      [] data.fn = "deploy"         -> NewContract(Unilog)
      [] data.fn \notin Deploys     -> None

Mines(tx) ==
    /\ tx \in submitted /\ SoundTx(tx) /\ tx.nonce = Len(chain)
    /\ chain' = Append(chain, tx) /\ Len(chain') = Len(chain) + 1
    /\ chain'[Len(chain) + 1] = tx /\ \A i \in 1 .. Len(chain) : chain'[i] = chain[i]
    /\ \E S : world' \in Seq(S)
    /\ Len(world') = Len(chain) + 1 /\ world'[Len(chain) + 1] = New(tx.data)
    /\ \A i \in 1 .. Len(chain) :
           world'[i] = IF tx.data.fn \notin Deploys /\ i = tx.data.to + 1
                       THEN Called(tx.data) ELSE world[i]
    /\ submitted' = {other \in submitted : other.nonce > Len(chain)}
    /\ UNCHANGED <<users, registry, req, mails, answer, faults>>

LEMMA AppendIs ==
    ASSUME NEW s, NEW S, s \in Seq(S), NEW x
    PROVE  /\ Len(Append(s, x)) = Len(s) + 1 /\ Append(s, x)[Len(s) + 1] = x
           /\ \A i \in 1 .. Len(s) : Append(s, x)[i] = s[i]
           /\ \E T : Append(s, x) \in Seq(T)
<1>1. Append(s, x) \in Seq(S \cup {x})
  OBVIOUS
<1> QED
  BY <1>1

LEMMA SequenceOf ==
    ASSUME NEW S, NEW s \in Seq(S), NEW T, \A i \in 1 .. Len(s) : s[i] \in T
    PROVE  s \in Seq(T)
OBVIOUS

LEMMA MineIs ==
    ASSUME ChainTyped, Mine
    PROVE  \E tx \in submitted : Mines(tx)
<1>1. PICK tx \in submitted : tx.nonce = Len(chain) /\ chain' = Append(chain, tx)
                              /\ world' = Execute(tx.data)
  BY DEF Mine
<1>2. SoundTx(tx) /\ chain \in Seq(Transaction) /\ world \in Seq(Thing) /\ Len(world) = Len(chain)
  BY DEF ChainTyped
<1>3. /\ Len(chain') = Len(chain) + 1 /\ chain'[Len(chain) + 1] = tx
      /\ \A i \in 1 .. Len(chain) : chain'[i] = chain[i]
  BY <1>1, <1>2, AppendIs
<1> DEFINE d == tx.data
           Right(w) == /\ Len(w) = Len(chain) + 1 /\ w[Len(chain) + 1] = New(d)
                       /\ \A i \in 1 .. Len(chain) :
                              w[i] = IF d.fn \notin Deploys /\ i = d.to + 1
                                     THEN Called(d) ELSE world[i]
<1>4. Right(Execute(d)) /\ \E S : Execute(d) \in Seq(S)
  <2>1. CASE d.fn \in Deploys
    <3>1. Execute(d) = Append(world, New(d))
      BY <2>1 DEF Execute, New, Deploys
    <3>2. \E S : Append(world, New(d)) \in Seq(S)
      BY <1>2, AppendIs
    <3>3. Right(Append(world, New(d)))
      BY <1>2, <2>1, AppendIs
    <3> QED
      BY <3>1, <3>2, <3>3
  <2>2. CASE d.fn \notin Deploys
    <3>1. d.fn \in {"addArtifact", "assignOwner", "addContract"}
      BY <1>2, <2>2 DEF SoundTx, Transaction, CallSteps, Deploys
    <3> DEFINE w == [world EXCEPT ![d.to + 1] = Called(d)]
    <3>2. Execute(d) = Append(w, None)
      BY <3>1 DEF Execute, Called
    <3>3. New(d) = None
      BY <2>2 DEF New, Deploys
    <3>4. d.to \in Nat /\ d.to < Len(chain)
      BY <1>2, <3>1 DEF SoundTx, IsContract, IsRegistry, Deployed
    <3>5. /\ w = [i \in 1 .. Len(world) |-> IF i = d.to + 1 THEN Called(d) ELSE world[i]]
          /\ Len(world) \in Nat
      BY <1>2
    <3>6. /\ w \in Seq({w[i] : i \in 1 .. Len(world)}) /\ Len(w) = Len(world)
          /\ \A i \in 1 .. Len(world) : w[i] = IF i = d.to + 1 THEN Called(d) ELSE world[i]
      <4> HIDE DEF w
      <4> QED
        BY <3>5
    <3> HIDE DEF w
    <3>7. \E S : Append(w, None) \in Seq(S)
      BY <3>6, AppendIs
    <3>8. Right(Append(w, None))
      BY <1>2, <2>2, <3>3, <3>6, AppendIs
    <3> QED
      BY <3>2, <3>7, <3>8
  <2> QED
    BY <2>1, <2>2
<1>5. /\ submitted' = {other \in submitted : other.nonce > Len(chain)}
      /\ UNCHANGED <<users, registry, req, mails, answer, faults>>
  BY DEF Mine
<1>6. Mines(tx)
  <2>1. Right(world') /\ \E S : world' \in Seq(S)
    BY <1>1, <1>4
  <2> QED
    BY <1>1, <1>2, <1>3, <1>5, <2>1 DEF Mines
<1> QED
  BY <1>6

\* What is on the chain stays.
LEMMA DeployedGrows ==
    ASSUME ChainTyped, NEW tx \in submitted, Mines(tx)
    PROVE  /\ \A fn, k : Deployed(fn, k) => Deployed(fn, k)'
           /\ \A k : IsContract(k) => IsContract(k)'
           /\ \A k : IsRegistry(k) => IsRegistry(k)'
           /\ \A other : SoundTx(other) => SoundTx(other)'
           /\ \A row : SoundRow(row) => SoundRow(row)'
<1>1. Len(chain) \in Nat
  BY DEF ChainTyped
<1>2. \A fn, k : Deployed(fn, k) => Deployed(fn, k)'
  BY <1>1 DEF Deployed, Mines
<1>3. /\ \A k : IsContract(k) => IsContract(k)'
      /\ \A k : IsRegistry(k) => IsRegistry(k)'
  BY <1>2 DEF IsContract, IsRegistry
<1>4. \A other : SoundTx(other) => SoundTx(other)'
  BY <1>3 DEF SoundTx
<1>5. \A row : SoundRow(row) => SoundRow(row)'
  BY <1>3 DEF SoundRow
<1> QED
  BY <1>2, <1>3, <1>4, <1>5

\* The values a call leaves.
LEMMA CalledIsTyped ==
    ASSUME ChainTyped, NEW tx \in submitted, SoundTx(tx), tx.data.fn \notin Deploys
    PROVE  /\ tx.data.to + 1 \in 1 .. Len(chain)
           /\ chain[tx.data.to + 1].data.fn = "deploy" => Called(tx.data) \in ContractRow
           /\ chain[tx.data.to + 1].data.fn = "deployRegistry" => Called(tx.data) \in RegistryRow
           /\ Called(tx.data) \in Thing
<1> DEFINE d == tx.data
           c == world[d.to + 1]
<1>1. d.fn \in {"addArtifact", "assignOwner", "addContract"} /\ Len(chain) \in Nat
  BY DEF SoundTx, Transaction, CallSteps, Deploys, ChainTyped
<1>2. CASE d.fn = "addContract"
  <2>1. /\ d.to \in Nat /\ d.to < Len(chain) /\ chain[d.to + 1].data.fn = "deployRegistry"
        /\ d.arg \in Nat
    BY <1>2 DEF SoundTx, IsRegistry, IsContract, Deployed
  <2>2. c \in RegistryRow
    BY <1>1, <2>1 DEF ChainTyped
  <2>3. Called(d) = AddContract(c, d.arg)
    BY <1>2 DEF Called
  <2>4. AddContract(c, d.arg) \in RegistryRow
    BY <2>1, <2>2 DEF AddContract, RegistryRow
  <2> QED
    BY <1>1, <2>1, <2>3, <2>4 DEF Thing
<1>3. CASE d.fn \in Touching
  <2>1. /\ d.to \in Nat /\ d.to < Len(chain) /\ chain[d.to + 1].data.fn = "deploy"
    BY <1>3 DEF SoundTx, IsContract, Deployed, Touching
  <2>2. c \in ContractRow
    BY <1>1, <2>1 DEF ChainTyped
  <2>3. Called(d) \in ContractRow
    <3>1. CASE d.fn = "addArtifact"
      <4>1. d.arg \in Content \cup {NoContent}
        BY <3>1 DEF SoundTx
      <4>2. ExpirationDate(0, VALID_FOR_10_YEARS) \in Word
        <5>1. WordSize \in Nat \ {0} /\ Week \in Nat
          BY WordAssumption
        <5>2. (0 + VALID_FOR_10_YEARS * Week) \in Int
          BY <5>1 DEF VALID_FOR_10_YEARS
        <5>3. (0 + VALID_FOR_10_YEARS * Week) % WordSize \in 0 .. WordSize - 1
          BY <5>1, <5>2
        <5> QED
          BY <5>3 DEF ExpirationDate, Word, VALID_FOR_10_YEARS
      <4> DEFINE new == [artifactAddress |-> d.arg, active |-> TRUE,
                         expirationDate |-> ExpirationDate(0, VALID_FOR_10_YEARS)]
      <4>3. new \in Artifact
        BY <4>1, <4>2 DEF Artifact
      <4>4. Called(d) = [c EXCEPT !.artifacts = Append(c.artifacts, new)]
        BY <3>1, <2>2 DEF Called, AddArtifact, ContractRow
      <4> HIDE DEF new
      <4>5. Append(c.artifacts, new) \in Seq(Artifact)
        BY <4>3, <2>2 DEF ContractRow
      <4> QED
        BY <2>2, <4>4, <4>5 DEF ContractRow
    <3>2. CASE d.fn = "assignOwner"
      <4>1. d.arg \in Address
        BY <3>2, UserAssumption DEF SoundTx
      <4>2. Called(d) = AssignArtifactOwner(c, d.arg)
        BY <3>2 DEF Called
      <4> QED
        BY <2>2, <4>1, <4>2 DEF ContractRow, AssignArtifactOwner
    <3> QED
      BY <1>3, <3>1, <3>2 DEF Touching
  <2> QED
    BY <1>1, <2>1, <2>3 DEF Thing
<1> QED
  BY <1>1, <1>2, <1>3 DEF Touching

LEMMA NewIsTyped ==
    ASSUME NEW data
    PROVE  /\ data.fn = "deploy" => New(data) \in ContractRow
           /\ data.fn = "deployRegistry" => New(data) \in RegistryRow
           /\ New(data) \in Thing
<1>1. NewContract(Unilog) \in ContractRow /\ NewRegistry(Unilog) \in RegistryRow
  BY DEF NewContract, NewRegistry, ContractRow, RegistryRow
<1> QED
  BY <1>1 DEF New, Deploys, Thing

LEMMA MineKeepsTyped ==
    ASSUME Typed, Mine, life' = life, imported' = imported
    PROVE  Typed'
<1>0. ChainTyped /\ TablesTyped /\ Len(chain) \in Nat
  BY DEF Typed, ChainTyped
<1>1. PICK tx \in submitted : Mines(tx)
  BY <1>0, MineIs
<1>2. UNCHANGED <<users, registry, req, mails, answer, faults>> /\ SoundTx(tx)
  BY <1>1 DEF Mines
<1>3. ChainTyped'
  <2>1. chain' \in Seq(Transaction)
    BY <1>0, <1>1 DEF Mines, ChainTyped, SoundTx
  <2>2. ASSUME NEW i \in 1 .. Len(chain')
        PROVE  /\ chain'[i].nonce = i - 1 /\ SoundTx(chain[i])'
               /\ chain'[i].data.fn = "deploy" => world'[i] \in ContractRow
               /\ chain'[i].data.fn = "deployRegistry" => world'[i] \in RegistryRow
               /\ world'[i] \in Thing
    <3>1. CASE i = Len(chain) + 1
      <4>1. chain'[i] = tx /\ world'[i] = New(tx.data)
        BY <1>1, <3>1 DEF Mines
      <4>2. SoundTx(tx)'
        BY <1>0, <1>1, <1>2, DeployedGrows
      <4>3. SoundTx(chain[i])'
        BY <4>1, <4>2 DEF SoundTx, IsContract, IsRegistry, Deployed
      <4> QED
        BY <1>0, <1>1, <3>1, <4>1, <4>3, NewIsTyped DEF Mines
    <3>2. CASE i \in 1 .. Len(chain)
      <4>1. chain'[i] = chain[i] /\ chain[i].nonce = i - 1 /\ SoundTx(chain[i])
        BY <1>0, <1>1, <3>2 DEF Mines, ChainTyped
      <4>2. PICK x : x = chain[i]
        OBVIOUS
      <4>3. SoundTx(x)'
        BY <1>0, <1>1, <4>1, <4>2, DeployedGrows
      <4>4. SoundTx(chain[i])'
        BY <4>1, <4>2, <4>3 DEF SoundTx, IsContract, IsRegistry, Deployed
      <4>5. /\ chain[i].data.fn = "deploy" => world[i] \in ContractRow
            /\ chain[i].data.fn = "deployRegistry" => world[i] \in RegistryRow
            /\ world[i] \in Thing
        BY <1>0, <3>2 DEF ChainTyped
      <4>6. CASE tx.data.fn \notin Deploys /\ i = tx.data.to + 1
        <5>1. world'[i] = Called(tx.data)
          BY <1>1, <3>2, <4>6 DEF Mines
        <5> QED
          BY <1>0, <1>2, <4>1, <4>4, <4>6, <5>1, CalledIsTyped
      <4>7. CASE ~(tx.data.fn \notin Deploys /\ i = tx.data.to + 1)
        <5>1. world'[i] = world[i]
          BY <1>1, <3>2, <4>7 DEF Mines
        <5> QED
          BY <4>1, <4>4, <4>5, <5>1
      <4> QED
        BY <4>6, <4>7
    <3>3. i \in 1 .. Len(chain) + 1
      BY <1>1 DEF Mines
    <3> QED
      BY <1>0, <3>1, <3>2, <3>3
  <2>3. world' \in Seq(Thing) /\ Len(world') = Len(chain')
    <3>1. Len(world') = Len(chain') /\ Len(world') \in Nat
      BY <1>0, <1>1 DEF Mines
    <3>2. \A i \in 1 .. Len(world') : world'[i] \in Thing
      BY <2>2, <3>1
    <3>3. PICK S : world' \in Seq(S)
      BY <1>1 DEF Mines
    <3> QED
      BY <3>1, <3>2, <3>3, SequenceOf
  <2>4. ASSUME NEW other \in submitted' PROVE SoundTx(other)'
    <3>1. other \in submitted
      BY <1>1 DEF Mines
    <3> QED
      BY <1>0, <1>1, <3>1, DeployedGrows DEF ChainTyped
  <2> QED
    BY <2>1, <2>2, <2>3, <2>4 DEF ChainTyped
<1>4. TablesTyped'
  <2>1. \A u \in User : SoundRow(users[u])'
    <3> SUFFICES ASSUME NEW u \in User PROVE SoundRow(users[u])'
      OBVIOUS
    <3>1. PICK row : row = users[u]
      OBVIOUS
    <3>2. SoundRow(row)'
      BY <1>0, <1>1, <3>1, DeployedGrows DEF TablesTyped
    <3> QED
      BY <1>2, <3>1, <3>2 DEF SoundRow, IsContract, Deployed
  <2>2. registry' # None => IsRegistry(registry)'
    <3>1. PICK k : k = registry
      OBVIOUS
    <3>2. k # None => IsRegistry(k)'
      BY <1>0, <1>1, <3>1, DeployedGrows DEF TablesTyped
    <3> QED
      BY <1>2, <3>1, <3>2 DEF IsRegistry, Deployed
  <2>3. ASSUME NEW m \in mails'
        PROVE  /\ m.user \in User /\ m.life \in 0 .. life'
               /\ IsContract(m.contract)' /\ IsRegistry(m.registry)'
    BY <1>0, <1>1, <1>2, DeployedGrows DEF TablesTyped
  <2> QED
    BY <1>0, <1>2, <2>1, <2>2, <2>3 DEF TablesTyped
<1>5. ASSUME NEW t \in Thread PROVE SoundRequest(t)'
  <2>1. SoundRequest(t) /\ req'[t] = req[t]
    BY <1>2 DEF Typed
  <2>2. Data(t)' = Data(t) /\ Target(t)' = Target(t)
    BY <2>1 DEF Data, Target
  <2>3. PICK r : r = req[t]
    OBVIOUS
  <2>4. r' = req'[t]
    BY <2>1, <2>3
  <2>5. /\ r.registry # None => IsRegistry(r.registry)'
        /\ r.tx # None => SoundTx(r.tx)'
        /\ r.step = "saveAdmin" => IsRegistry(r.contract)'
        /\ r.step \in Completing \ {"deploy"} => IsContract(r.contract)'
        /\ \A u \in User : r.cache[u] # None => SoundRow(r.cache[u])'
    BY <1>0, <1>1, <2>1, <2>3, DeployedGrows DEF SoundRequest
  <2> QED
    BY <2>1, <2>2, <2>3, <2>4, <2>5 DEF SoundRequest
<1>6. Imported'
  <2>1. Len(chain') = Len(chain) + 1 /\ imported \in 0 .. Len(chain)
    BY <1>1 DEF Mines, Typed, Imported
  <2> QED
    BY <1>0, <2>1 DEF Imported
<1> QED
  BY <1>2, <1>3, <1>4, <1>5, <1>6 DEF Typed

LEMMA RestartKeepsTyped ==
    ASSUME Typed, Restart
    PROVE  Typed'
<1>1. /\ users' = [u \in User |-> NewUser] /\ registry' = None /\ req' = [t \in Thread |-> Idle]
      /\ answer' = NoAnswers /\ submitted' \subseteq submitted /\ life' = life + 1
      /\ faults' = faults + 1 /\ UNCHANGED <<chain, world, mails>>
  BY DEF Restart
<1>2. ChainTyped'
  BY <1>1, ChainStaysTyped DEF Typed
<1>3. TablesTyped'
  <2>1. \A u \in User : SoundRow(users[u])'
    BY <1>1 DEF SoundRow, NewUser, UserRow
  <2>2. ASSUME NEW m \in mails'
        PROVE  /\ m.user \in User /\ m.life \in 0 .. life'
               /\ IsContract(m.contract)' /\ IsRegistry(m.registry)'
    BY <1>1, DeployedStays DEF Typed, TablesTyped
  <2>3. users' \in [User -> UserRow]
    BY <1>1 DEF NewUser, UserRow
  <2>4. registry' = None /\ life' \in Nat /\ faults' \in Nat
    BY <1>1 DEF Typed, TablesTyped
  <2> QED
    BY <2>1, <2>2, <2>3, <2>4 DEF TablesTyped
<1>4. ASSUME NEW t \in Thread PROVE SoundRequest(t)'
  BY <1>1, IdleIsSound
<1>5. Imported'
  <2>1. /\ imported \in 0 .. Len(chain) /\ imported' \in 0 .. imported
        /\ Len(chain) \in Nat /\ chain' = chain
    BY DEF Restart, Typed, Imported, ChainTyped
  <2> QED
    BY <2>1 DEF Imported
<1> QED
  BY <1>1, <1>2, <1>3, <1>4, <1>5 DEF Typed, NoAnswers

\* Importing a block changes nothing but how far the node is.
Rests ==
    UNCHANGED <<users, registry, req, chain, submitted, world, mails, life, answer, faults>>

LEMMA ImportIs ==
    ASSUME Typed, Import \/ UNCHANGED vars
    PROVE  Rests /\ Imported'
<1>1. imported \in 0 .. Len(chain) /\ Len(chain) \in Nat
  BY DEF Typed, Imported, ChainTyped
<1>2. Rests
  BY DEF Rests, Import, vars
<1>3. imported' \in 0 .. Len(chain)
  BY <1>1 DEF Import, vars
<1> QED
  BY <1>2, <1>3 DEF Imported, Rests

LEMMA TypedNext == Typed /\ [Next]_vars => Typed'
<1> SUFFICES ASSUME Typed, [Next]_vars PROVE Typed'
  OBVIOUS
<1>1. CASE Mine /\ UNCHANGED <<imported, life>>
  BY <1>1, MineKeepsTyped
<1>2. ASSUME NEW t \in Thread, Request(t) \/ Step(t), UNCHANGED <<imported, life>> PROVE Typed'
  BY <1>2, RequestKeepsTyped, StepKeepsTyped
<1>3. CASE Restart
  BY <1>3, RestartKeepsTyped
<1>4. CASE Import \/ UNCHANGED vars
  <2>0. Rests /\ Imported'
    BY <1>4, ImportIs
  <2>1. ChainTyped' /\ TablesTyped'
    BY <2>0, DeployedStays DEF Rests, Typed, ChainTyped, TablesTyped
  <2>2. ASSUME NEW t \in Thread PROVE SoundRequest(t)'
    <3>1. Data(t)' = Data(t) /\ Target(t)' = Target(t)
      BY <2>0 DEF Rests, Data, Target
    <3> QED
      BY <2>0, <3>1, DeployedStays DEF Rests, Typed, SoundRequest
  <2> QED
    BY <2>0, <2>1, <2>2 DEF Rests, Typed
<1> QED
  BY <1>1, <1>2, <1>3, <1>4 DEF Next, Running

LEMMA TypedIsTypeOK == Typed => TypeOK
<1> SUFFICES ASSUME Typed PROVE TypeOK
  OBVIOUS
<1>0. Len(chain) \in Nat
  BY DEF Typed, ChainTyped
<1>1. \A k : IsContract(k) \/ IsRegistry(k) => k \in 0 .. Len(chain) - 1
  BY <1>0 DEF IsContract, IsRegistry, Deployed
<1>2. ASSUME NEW u \in User
      PROVE  /\ users[u].completed \in BOOLEAN /\ users[u].published \in BOOLEAN
             /\ users[u].account \in Account \cup {None}
             /\ users[u].token \in (0 .. Len(chain) - 1) \cup {None}
  <2>1. SoundRow(users[u])
    BY DEF Typed, TablesTyped
  <2>2. users[u].token \in (0 .. Len(chain) - 1) \cup {None}
    BY <1>1, <2>1 DEF SoundRow
  <2> QED
    BY <2>1, <2>2, Zenon DEF SoundRow, UserRow
<1>3. registry \in (0 .. Len(chain) - 1) \cup {None}
  BY <1>1 DEF Typed, TablesTyped
<1>4. ASSUME NEW t \in Thread
      PROVE  /\ ToSet(req[t].ids) \cup ToSet(req[t].done) \subseteq User
             /\ req[t].dirty \subseteq User
  <2>1. req[t].ids \in Seq(User) /\ req[t].done \in Seq(User) /\ req[t].dirty \subseteq User
    BY DEF Typed, SoundRequest
  <2> QED
    BY <2>1 DEF ToSet
<1>5. \A tx \in submitted : tx.nonce \in Nat /\ tx.data.fn \in CallSteps
  BY DEF Typed, ChainTyped, SoundTx, Transaction
<1>6. Len(world) = Len(chain) /\ imported \in 0 .. Len(chain)
  BY DEF Typed, ChainTyped, Imported
<1> QED
  BY <1>2, <1>3, <1>4, <1>5, <1>6 DEF TypeOK

(***************************************************************************)
(* The tables, the chain and the requests hold what they should: a token   *)
(* is the address of a contract on the chain, and so on, with any number   *)
(* of requests at once (AdminServiceImpl.java:71-171).                     *)
(***************************************************************************)
THEOREM CompletionTypeCorrect == Spec => []TypeOK
<1>1. Init => Typed
  BY TypedInit
<1>2. Typed /\ [Next]_vars => Typed'
  BY TypedNext
<1>3. Typed => TypeOK
  BY TypedIsTypeOK
<1> QED
  BY <1>1, <1>2, <1>3, PTL DEF Spec

-----------------------------------------------------------------------------
(***************************************************************************)
(* RegisteredInv is inductive, whatever runs at the same time.             *)
(***************************************************************************)
LEMMA RegistriesGrow ==
    ASSUME ChainTyped, NEW tx \in submitted, Mines(tx), NEW k, IsRegistry(k), NEW address,
           RegistryContains(world[k + 1], address)
    PROVE  RegistryContains(world'[k + 1], address)
<1>1. /\ k \in Nat /\ k < Len(chain) /\ chain[k + 1].data.fn = "deployRegistry"
      /\ Len(chain) \in Nat /\ k + 1 \in 1 .. Len(chain)
  BY DEF IsRegistry, Deployed, ChainTyped
<1>2. CASE tx.data.fn \notin Deploys /\ k = tx.data.to
  <2>1. tx.data.fn = "addContract"
    BY <1>1, <1>2 DEF Mines, SoundTx, Transaction, IsContract, Deployed, CallSteps, Deploys
  <2>2. world'[k + 1] = AddContract(world[k + 1], tx.data.arg)
    BY <1>1, <1>2, <2>1 DEF Mines, Called
  <2>3. world[k + 1] \in RegistryRow
    BY <1>1 DEF ChainTyped
  <2> QED
    BY <2>2, <2>3 DEF AddContract, RegistryContains, RegistryRow
<1>3. CASE ~(tx.data.fn \notin Deploys /\ k = tx.data.to)
  <2>1. tx.data.fn \notin Deploys => tx.data.to \in Nat
    BY DEF Mines, SoundTx, Transaction, IsContract, IsRegistry, Deployed, CallSteps, Deploys
  <2>2. world'[k + 1] = world[k + 1]
    BY <1>1, <1>3, <2>1 DEF Mines
  <2> QED
    BY <2>2
<1> QED
  BY <1>2, <1>3

\* Mails are not taken back, and no registry forgets.
LEMMA RegisteredStays ==
    ASSUME ChainTyped, TablesTyped, mails \subseteq mails',
           \/ world' = world
           \/ \E tx \in submitted : Mines(tx)
    PROVE  /\ \A u, k : Registered(u, k) => Registered(u, k)'
           /\ \A r, k : IsRegistry(r) /\ RegistryContains(world[r + 1], k)
                            => RegistryContains(world'[r + 1], k)
<1>1. \A r, k : IsRegistry(r) /\ RegistryContains(world[r + 1], k)
                    => RegistryContains(world'[r + 1], k)
  BY RegistriesGrow
<1>2. \A m \in mails : IsRegistry(m.registry)
  BY DEF TablesTyped
<1> QED
  BY <1>1, <1>2 DEF Registered

\* What is read of a row with a token is registered.
LEMMA TokensAreRegistered ==
    TokenIsRegistered <=> \A u \in User : users[u].token # None => Registered(u, users[u].token)
BY DEF TokenIsRegistered, Registered

LEMMA RegisteredInit == Init => RegisteredInv
BY IdleIs DEF Init, RegisteredInv, RegistrationsDone, RequestRegistered, TokenIsRegistered,
              NewUser, Mailed

\* A step of a thread: the others' requests, and the parts it must keep.
LEMMA RegisteredRest ==
    ASSUME Typed, RegisteredInv, NEW t \in Thread, OthersKept(t), chain' = chain, world' = world,
           mails \subseteq mails', RequestRegistered(t)',
           \A u \in User : users'[u].token # None => Registered(u, users'[u].token)
    PROVE  RegisteredInv'
<1>1. \A u, k : Registered(u, k) => Registered(u, k)'
  BY RegisteredStays DEF Typed
<1>2. RegistrationsDone'
  BY DEF RegisteredInv, RegistrationsDone
<1>3. ASSUME NEW s \in Thread PROVE RequestRegistered(s)'
  <2>1. CASE s = t
    BY <2>1
  <2>2. CASE s # t
    <3>1. req'[s] = req[s] /\ Target(s)' = Target(s) /\ RequestRegistered(s)
      BY <2>2 DEF OthersKept, Target, RegisteredInv
    <3> QED
      BY <3>1 DEF RequestRegistered, Registered
  <2> QED
    BY <2>1, <2>2
<1>4. TokenIsRegistered'
  BY DEF TokenIsRegistered, Registered
<1> QED
  BY <1>2, <1>3, <1>4 DEF RegisteredInv

\* What a request that has written nothing yet knows.
LEMMA KnownIsRegistered ==
    ASSUME TablesTyped, RegisteredInv, NEW t \in Thread, SoundRequest(t)
    PROVE  /\ \A u \in User : users[u].token # None => Registered(u, users[u].token)
           /\ \A u \in User : Seen(t)[u] # None /\ Seen(t)[u].token # None
                                  => Registered(u, Seen(t)[u].token)
           /\ \A u \in User : Flushed(t)[u].token # None => Registered(u, Flushed(t)[u].token)
<1>1. \A u \in User : users[u].token # None => Registered(u, users[u].token)
  BY TokensAreRegistered DEF RegisteredInv
<1>2. \A u \in User : req[t].cache[u] # None /\ req[t].cache[u].token # None
                          => Registered(u, req[t].cache[u].token)
  BY DEF RegisteredInv, RequestRegistered
<1>3. \A u \in req[t].dirty : req[t].cache[u] # None
  BY DEF SoundRequest
<1> QED
  BY <1>1, <1>2, <1>3 DEF Seen, Flushed

LEMMA FindUserKeepsRegistered ==
    ASSUME Typed, RegisteredInv, NEW t \in Thread, FindUserDoes(t)
    PROVE  RegisteredInv'
<1>0. TablesTyped /\ ChainTyped /\ SoundRequest(t)
  BY DEF Typed
<1> DEFINE u == Target(t)
<1>1. /\ u \in User /\ Seen(t)[u] \in UserRow /\ Seen(t)[u] # None
      /\ req'[t].cache = [Seen(t) EXCEPT ![u].published = TRUE]
      /\ req'[t].step = "deploy" /\ world' = world
  BY <1>0, SeenIsSound DEF FindUserDoes, NothingSent, Unpublished, SoundRow
<1>2. ASSUME NEW v \in User, req'[t].cache[v] # None, req'[t].cache[v].token # None
      PROVE  Registered(v, req'[t].cache[v].token)
  <2>1. Seen(t)[v] # None /\ req'[t].cache[v].token = Seen(t)[v].token
    BY <1>0, <1>1, <1>2, SeenIsSound DEF UserRow
  <2> QED
    BY <1>0, <1>2, <2>1, KnownIsRegistered
<1>3. RequestRegistered(t)'
  BY <1>1, <1>2 DEF RequestRegistered, Registered, FindUserDoes, Mailed
<1> QED
  BY <1>0, <1>3, RegisteredRest, KnownIsRegistered DEF FindUserDoes, NothingSent

\* A request that reads no row, and is not yet past its mail.
LEMMA SameContextIsRegistered ==
    ASSUME Typed, RegisteredInv, NEW t \in Thread, req'[t].cache = req[t].cache,
           world' = world, mails \subseteq mails', req'[t].step \notin Mailed
    PROVE  RequestRegistered(t)'
<1>1. \A u, k : Registered(u, k) => Registered(u, k)'
  BY RegisteredStays DEF Typed
<1>2. RequestRegistered(t)
  BY DEF RegisteredInv
<1>3. ASSUME NEW u \in User, req'[t].cache[u] # None, req'[t].cache[u].token # None
      PROVE  Registered(u, req[t].cache[u].token)'
  <2>1. PICK k : k = req[t].cache[u].token
    OBVIOUS
  <2>2. Registered(u, k)'
    BY <1>1, <1>2, <1>3, <2>1 DEF RequestRegistered
  <2> QED
    BY <2>1, <2>2 DEF Registered
<1> QED
  BY <1>3 DEF RequestRegistered, Mailed

\* The request is past its mail, which it stays.
LEMMA MailedIsRegistered ==
    ASSUME Typed, RegisteredInv, NEW t \in Thread, req'[t].cache = req[t].cache,
           world' = world, mails' = mails, req[t].step \in Mailed, req'[t].step \in Mailed,
           req'[t].contract = req[t].contract, req'[t].registry = req[t].registry,
           req'[t].ids = req[t].ids,
           req'[t].step = "saveUser" =>
               RegistryContains(world[req[t].registry + 1], req[t].contract)
    PROVE  RequestRegistered(t)'
<1>1. RequestRegistered(t) /\ Target(t)' = Target(t)
  BY DEF RegisteredInv, Target
<1> QED
  BY <1>1 DEF RequestRegistered, Registered

LEMMA RequestKeepsRegistered ==
    ASSUME Typed, RegisteredInv, NEW t \in Thread, Request(t)
    PROVE  RegisteredInv'
<1>1. /\ OthersKept(t) /\ NothingSent /\ UNCHANGED <<users, mails>>
      /\ \/ PublishStarts(t)
         \/ \E u \in User : CompleteStarts(t, u)
         \/ \E ids \in Orders(Unpublished) : CompleteAllStarts(t, ids)
         \/ \E u \in User : RegistrationStarts(t, u)
  BY TypedRequests, RequestStarts
<1>2. /\ req'[t].step \in {"deployRegistry", "find", "saveRegistration"}
      /\ \A u \in User : req'[t].cache[u] \in {None, users[u]}
  BY <1>1 DEF PublishStarts, CompleteStarts, CompleteAllStarts, RegistrationStarts, StartsWith
<1>3. TablesTyped /\ SoundRequest(t) /\ ChainTyped
  BY DEF Typed
<1>4. \A u \in User : users[u].token # None => Registered(u, users[u].token)
  BY <1>3, KnownIsRegistered
<1>5. ASSUME NEW u \in User, req'[t].cache[u] # None, req'[t].cache[u].token # None
      PROVE  Registered(u, req'[t].cache[u].token)
  BY <1>2, <1>4, <1>5
<1>6. RequestRegistered(t)'
  BY <1>1, <1>2, <1>5 DEF RequestRegistered, Registered, NothingSent, Mailed
<1> QED
  BY <1>1, <1>4, <1>6, RegisteredRest DEF NothingSent

\* A call that adds a contract to a registry has done so when it returns.
LEMMA ReturnKeepsRegistered ==
    ASSUME Typed, RegisteredInv, NEW t \in Thread, CallReturnsDoes(t)
    PROVE  RegisteredInv'
<1>0. TablesTyped /\ ChainTyped /\ SoundRequest(t)
  BY DEF Typed
<1>1. /\ OthersKept(t) /\ NothingSent /\ UNCHANGED <<users, mails>>
      /\ req'[t].step = After[req[t].step] /\ req[t].step \in CallSteps
      /\ req'[t].cache = req[t].cache /\ req'[t].registry = req[t].registry
      /\ req'[t].ids = req[t].ids
  BY DEF CallReturnsDoes, KeepsWork, KeepsContext
<1>2. \A u \in User : users[u].token # None => Registered(u, users[u].token)
  BY <1>0, KnownIsRegistered
<1>3. CASE req[t].step \in Deploys
  <2>1. req'[t].step \notin Mailed
    BY <1>1, <1>3 DEF After, Deploys, Mailed
  <2>2. RequestRegistered(t)'
    BY <1>1, <2>1, SameContextIsRegistered DEF NothingSent
  <2> QED
    BY <1>1, <1>2, <2>2, RegisteredRest DEF NothingSent
<1>4. CASE req[t].step \notin Deploys
  <2>1. /\ req[t].step \in {"addArtifact", "assignOwner", "addContract"}
        /\ req'[t].step \in Mailed /\ req[t].step \in Mailed
        /\ req'[t].step = "saveUser" => req[t].step = "addContract"
    BY <1>1, <1>4 DEF After, Deploys, CallSteps, Mailed
  <2>2. req'[t].contract = req[t].contract
    BY <2>1 DEF CallReturnsDoes
  <2>3. ASSUME req[t].step = "addContract"
        PROVE  RegistryContains(world[req[t].registry + 1], req[t].contract)
    <3>1. /\ req[t].tx # None /\ req[t].tx.nonce \in Nat /\ req[t].tx.nonce < Len(chain)
          /\ chain[req[t].tx.nonce + 1] = req[t].tx
      BY <1>0, MinedIs DEF CallReturnsDoes
    <3>2. req[t].tx.data = Data(t)
      BY <1>0, <3>1 DEF SoundRequest
    <3>3. Data(t) = [to |-> req[t].registry, fn |-> req[t].step, arg |-> req[t].contract]
      BY <2>3 DEF Data
    <3>4. Len(chain) \in Nat
      BY <1>0 DEF ChainTyped
    <3>5. req[t].tx.nonce + 1 \in 1 .. Len(chain)
      BY <3>1, <3>4
    <3>6. chain[req[t].tx.nonce + 1].data = Data(t)
      BY <3>1, <3>2
    <3> QED
      BY <2>3, <3>3, <3>5, <3>6 DEF RegisteredInv, RegistrationsDone
  <2>4. RequestRegistered(t)'
    BY <1>1, <2>1, <2>2, <2>3, MailedIsRegistered DEF NothingSent
  <2> QED
    BY <1>1, <1>2, <2>4, RegisteredRest DEF NothingSent
<1> QED
  BY <1>3, <1>4

\* The token is saved when its contract is registered.
LEMMA SaveUserKeepsRegistered ==
    ASSUME Typed, RegisteredInv, NEW t \in Thread, SaveUserDoes(t)
    PROVE  RegisteredInv'
<1>0. TablesTyped /\ ChainTyped /\ SoundRequest(t)
  BY DEF Typed
<1> DEFINE u == Target(t)
<1>1. u \in User /\ req[t].cache[u] # None
  BY <1>0, SavedIsSound DEF SaveUserDoes, SoundRequest, Completing, Mailed
<1>2. Saved(t).token = req[t].contract
  <2>1. req[t].cache[u] \in UserRow
    BY <1>0, <1>1 DEF SoundRequest, SoundRow
  <2> QED
    BY <2>1 DEF Saved, UserRow
<1>3. Registered(u, req[t].contract)
  <2>1. RequestRegistered(t) /\ req[t].step = "saveUser"
    BY DEF RegisteredInv, SaveUserDoes
  <2> QED
    BY <2>1 DEF RequestRegistered, Registered, Mailed
<1>4. /\ users' = [Flushed(t) EXCEPT ![u] = Saved(t)]
      /\ req'[t].cache = [req[t].cache EXCEPT ![u] = Saved(t)]
      /\ mails' = mails /\ NothingSent /\ OthersKept(t) /\ req'[t].step \notin Mailed
  BY DEF SaveUserDoes, Mailed
<1>5. /\ \A v \in User : users'[v].token = IF v = u THEN req[t].contract ELSE Flushed(t)[v].token
      /\ \A v \in User : req'[t].cache[v] = IF v = u THEN Saved(t) ELSE req[t].cache[v]
  <2>1. DOMAIN req[t].cache = User /\ DOMAIN Flushed(t) = User
    BY <1>0, FlushedIsSound DEF SoundRequest
  <2> QED
    BY <1>2, <1>4, <2>1
<1>6. ASSUME NEW v \in User, users'[v].token # None
      PROVE  Registered(v, users'[v].token)
  BY <1>0, <1>3, <1>5, <1>6, KnownIsRegistered
<1>7. ASSUME NEW v \in User, req'[t].cache[v] # None, req'[t].cache[v].token # None
      PROVE  Registered(v, req'[t].cache[v].token)
  <2>1. RequestRegistered(t)
    BY DEF RegisteredInv
  <2> QED
    BY <1>2, <1>3, <1>5, <1>7, <2>1 DEF RequestRegistered
<1>8. RequestRegistered(t)'
  BY <1>4, <1>7 DEF RequestRegistered, Registered, NothingSent, Mailed
<1> QED
  BY <1>4, <1>6, <1>8, RegisteredRest DEF NothingSent

LEMMA SaveRegistrationKeepsRegistered ==
    ASSUME Typed, RegisteredInv, NEW t \in Thread, SaveRegistrationDoes(t)
    PROVE  RegisteredInv'
<1>0. TablesTyped /\ ChainTyped /\ SoundRequest(t)
  BY DEF Typed
<1> DEFINE u == Target(t)
           row == [req[t].cache[u] EXCEPT !.account = req[t].account, !.completed = TRUE]
<1>1. u \in User /\ req[t].cache[u] # None
  BY <1>0, RegistrationIsSound DEF SaveRegistrationDoes, SoundRequest
<1>2. row.token = req[t].cache[u].token
  <2>1. req[t].cache[u] \in UserRow
    BY <1>0, <1>1 DEF SoundRequest, SoundRow
  <2> QED
    BY <2>1 DEF UserRow
<1>3. users' = [users EXCEPT ![u] = row] /\ mails' = mails /\ NothingSent /\ Ends(t)
  BY DEF SaveRegistrationDoes
<1> HIDE DEF u, row
<1>4. ASSUME NEW v \in User, users'[v].token # None
      PROVE  Registered(v, users'[v].token)
  <2>1. users'[v] = IF v = u THEN row ELSE users[v]
    BY <1>0, <1>3 DEF TablesTyped
  <2>2. RequestRegistered(t)
    BY DEF RegisteredInv
  <2> QED
    BY <1>0, <1>1, <1>2, <1>4, <2>1, <2>2, KnownIsRegistered DEF RequestRegistered
<1>5. RequestRegistered(t)'
  BY <1>3, IdleIs DEF Ends, RequestRegistered, Mailed
<1> QED
  BY <1>3, <1>4, <1>5, RegisteredRest DEF NothingSent, Ends

LEMMA StepKeepsRegistered ==
    ASSUME Typed, RegisteredInv, NEW t \in Thread, Step(t)
    PROVE  RegisteredInv'
<1>0. ChainTyped /\ TablesTyped /\ SoundRequest(t) /\ Requests
  BY TypedRequests DEF Typed
<1>00. \A u \in User : users[u].token # None => Registered(u, users[u].token)
  BY <1>0, KnownIsRegistered
<1>1. CASE SaveRegistration(t)
  BY <1>0, <1>1, SaveRegistrationIs, SaveRegistrationKeepsRegistered
<1>2. CASE FindUser(t)
  BY <1>0, <1>2, FindUserIs, FindUserKeepsRegistered
<1>3. CASE FindNobody(t)
  <2>1. FindNobodyDoes(t)
    BY <1>0, <1>3, FindNobodyIs
  <2>2. req'[t].cache = Seen(t) /\ req'[t].step \notin Mailed /\ mails' = mails /\ world' = world
    BY <2>1, RefusalIsVerdict DEF FindNobodyDoes, NothingSent, Mailed
  <2>3. RequestRegistered(t)'
    BY <1>0, <2>2, KnownIsRegistered DEF RequestRegistered, Registered, Mailed
  <2> QED
    BY <1>00, <2>1, <2>3, RegisteredRest DEF FindNobodyDoes, NothingSent
<1>4. CASE Send(t)
  <2>1. SendDoes(t)
    BY <1>0, <1>4, SendIs
  <2>2. CASE req[t].step \in Mailed
    <3>1. req[t].step # "saveUser"
      BY <2>1 DEF SendDoes, CallSteps
    <3>2. RequestRegistered(t)'
      BY <2>1, <2>2, <3>1, MailedIsRegistered DEF SendDoes, KeepsWork, KeepsContext, KeepsContract
    <3> QED
      BY <1>00, <2>1, <3>2, RegisteredRest DEF SendDoes
  <2>3. CASE req[t].step \notin Mailed
    <3>1. RequestRegistered(t)'
      BY <2>1, <2>3, SameContextIsRegistered DEF SendDoes, KeepsContext
    <3> QED
      BY <1>00, <2>1, <3>1, RegisteredRest DEF SendDoes
  <2> QED
    BY <2>2, <2>3
<1>5. CASE CallReturns(t)
  BY <1>0, <1>5, CallReturnsIs, ReturnKeepsRegistered
<1>6. CASE CallThrows(t)
  <2>1. CallThrowsDoes(t)
    BY <1>0, <1>6, CallThrowsIs
  <2>2. RequestRegistered(t)'
    BY <2>1, SameContextIsRegistered DEF CallThrowsDoes, NothingSent, Moves, KeepsContext, Mailed
  <2> QED
    BY <1>00, <2>1, <2>2, RegisteredRest DEF CallThrowsDoes, NothingSent, Moves
<1>7. CASE SaveAdmin(t)
  <2>1. SaveAdminDoes(t)
    BY <1>0, <1>7, SaveAdminIs
  <2>2. RequestRegistered(t)'
    BY <2>1, SameContextIsRegistered DEF SaveAdminDoes, NothingSent, Moves, KeepsContext, Mailed
  <2> QED
    BY <1>00, <2>1, <2>2, RegisteredRest DEF SaveAdminDoes, NothingSent, Moves
<1>8. CASE SendTokenMail(t)
  <2>1. SendTokenMailDoes(t)
    BY <1>0, <1>8, SendTokenMailIs
  <2>2. RequestRegistered(t)'
    <3>1. /\ req'[t].step = "transcript" /\ req'[t].cache = req[t].cache
          /\ req'[t].contract = req[t].contract /\ req'[t].registry = req[t].registry
          /\ Target(t)' = Target(t) /\ mails \subseteq mails' /\ world' = world
          /\ TokenMail(t) \in mails'
      BY <2>1 DEF SendTokenMailDoes, Moves, KeepsWork, KeepsContext, KeepsContract, NothingSent,
                  Target
    <3>2. \A u, k : Registered(u, k) => Registered(u, k)'
      BY <1>0, <3>1, RegisteredStays
    <3>3. ASSUME NEW u \in User, req'[t].cache[u] # None, req'[t].cache[u].token # None
          PROVE  Registered(u, req[t].cache[u].token)'
      <4>1. PICK k : k = req[t].cache[u].token
        OBVIOUS
      <4>2. Registered(u, k)'
        BY <3>1, <3>2, <3>3, <4>1 DEF RegisteredInv, RequestRegistered
      <4> QED
        BY <3>1, <4>1, <4>2 DEF Registered
    <3> QED
      BY <3>1, <3>3 DEF RequestRegistered, TokenMail
  <2> QED
    BY <1>00, <2>1, <2>2, RegisteredRest DEF SendTokenMailDoes, NothingSent, Moves
<1>9. CASE SendTokenMailFails(t)
  <2>1. SendTokenMailFailsDoes(t)
    BY <1>0, <1>9, SendTokenMailFailsIs
  <2>2. RequestRegistered(t)'
    BY <2>1, RefusalIsVerdict, SameContextIsRegistered
       DEF SendTokenMailFailsDoes, NothingSent, Moves, KeepsContext, Mailed
  <2> QED
    BY <1>00, <2>1, <2>2, RegisteredRest DEF SendTokenMailFailsDoes, NothingSent, Moves
<1>10. CASE PublishTranscript(t)
  <2>1. PublishTranscriptDoes(t)
    BY <1>0, <1>10, PublishTranscriptIs
  <2>2. RequestRegistered(t)'
    BY <2>1, MailedIsRegistered
       DEF PublishTranscriptDoes, Writes, KeepsWork, NothingSent, Mailed
  <2> QED
    BY <1>0, <2>1, <2>2, RegisteredRest, KnownIsRegistered
       DEF PublishTranscriptDoes, Writes, NothingSent
<1>11. CASE NoTranscript(t)
  <2>1. NoTranscriptDoes(t)
    BY <1>0, <1>11, NoTranscriptIs
  <2>2. RequestRegistered(t)'
    BY <2>1, SameContextIsRegistered DEF NoTranscriptDoes, Writes, NothingSent, Mailed
  <2> QED
    BY <1>0, <2>1, <2>2, RegisteredRest, KnownIsRegistered DEF NoTranscriptDoes, Writes, NothingSent
<1>12. CASE SaveUser(t)
  BY <1>0, <1>12, SaveUserIs, SaveUserKeepsRegistered
<1>13. CASE Answer(t)
  <2>1. AnswerDoes(t)
    BY <1>0, <1>13, AnswerIs
  <2>2. RequestRegistered(t)'
    BY <2>1, IdleIs DEF AnswerDoes, Ends, RequestRegistered, Mailed
  <2> QED
    BY <1>0, <2>1, <2>2, RegisteredRest, KnownIsRegistered DEF AnswerDoes, Ends, NothingSent
<1> QED
  BY <1>1, <1>2, <1>3, <1>4, <1>5, <1>6, <1>7, <1>8, <1>9, <1>10, <1>11, <1>12, <1>13 DEF Step

LEMMA MineKeepsRegistered ==
    ASSUME Typed, RegisteredInv, Mine
    PROVE  RegisteredInv'
<1>0. ChainTyped /\ TablesTyped /\ Len(chain) \in Nat
  BY DEF Typed, ChainTyped
<1>1. PICK tx \in submitted : Mines(tx)
  BY <1>0, MineIs
<1>2. UNCHANGED <<users, registry, req, mails, answer, faults>> /\ SoundTx(tx)
  BY <1>1 DEF Mines
<1>3. /\ \A u, k : Registered(u, k) => Registered(u, k)'
      /\ \A r, k : IsRegistry(r) /\ RegistryContains(world[r + 1], k)
                       => RegistryContains(world'[r + 1], k)
  BY <1>0, <1>1, <1>2, RegisteredStays
<1>4. RegistrationsDone'
  <2> SUFFICES ASSUME NEW i \in 1 .. Len(chain'), chain'[i].data.fn = "addContract"
               PROVE  RegistryContains(world'[chain'[i].data.to + 1], chain'[i].data.arg)
    BY DEF RegistrationsDone
  <2>1. CASE i = Len(chain) + 1
    <3>1. chain'[i] = tx /\ tx.data.fn = "addContract"
      BY <1>1, <2>1 DEF Mines
    <3>2. IsRegistry(tx.data.to)
      BY <1>2, <3>1 DEF SoundTx
    <3>3. /\ tx.data.to + 1 \in 1 .. Len(chain)
          /\ chain[tx.data.to + 1].data.fn = "deployRegistry"
      BY <1>0, <3>2 DEF IsRegistry, Deployed
    <3>4. world'[tx.data.to + 1] = AddContract(world[tx.data.to + 1], tx.data.arg)
      BY <1>1, <3>1, <3>3 DEF Mines, Called, Deploys
    <3>5. world[tx.data.to + 1] \in RegistryRow
      BY <1>0, <3>3 DEF ChainTyped
    <3> QED
      BY <3>1, <3>4, <3>5 DEF AddContract, RegistryContains, RegistryRow
  <2>2. CASE i \in 1 .. Len(chain)
    <3>1. chain'[i] = chain[i]
      BY <1>1, <2>2 DEF Mines
    <3>2. RegistryContains(world[chain[i].data.to + 1], chain[i].data.arg)
      BY <2>2, <3>1 DEF RegisteredInv, RegistrationsDone
    <3>3. IsRegistry(chain[i].data.to)
      BY <1>0, <2>2, <3>1 DEF ChainTyped, SoundTx
    <3> QED
      BY <1>3, <3>1, <3>2, <3>3
  <2>3. i \in 1 .. Len(chain) + 1
    BY <1>1 DEF Mines
  <2> QED
    BY <1>0, <2>1, <2>2, <2>3
<1>5. ASSUME NEW t \in Thread PROVE RequestRegistered(t)'
  <2>1. RequestRegistered(t) /\ req'[t] = req[t] /\ Target(t)' = Target(t)
    BY <1>2 DEF RegisteredInv, Target
  <2>2. ASSUME NEW u \in User, req'[t].cache[u] # None, req'[t].cache[u].token # None
        PROVE  Registered(u, req[t].cache[u].token)'
    <3>1. PICK k : k = req[t].cache[u].token
      OBVIOUS
    <3>2. Registered(u, k)'
      BY <1>3, <2>1, <2>2, <3>1 DEF RequestRegistered
    <3> QED
      BY <2>1, <3>1, <3>2 DEF Registered
  <2>3. ASSUME req'[t].step = "saveUser"
        PROVE  RegistryContains(world'[req'[t].registry + 1], req'[t].contract)
    <3>1. SoundRequest(t)
      BY DEF Typed
    <3>2. IsRegistry(req[t].registry)
      BY <2>1, <2>3, <3>1 DEF SoundRequest, Completing, Mailed
    <3> QED
      BY <1>3, <2>1, <2>3, <3>2 DEF RequestRegistered
  <2> QED
    BY <1>2, <2>1, <2>2, <2>3 DEF RequestRegistered
<1>6. TokenIsRegistered'
  <2> SUFFICES ASSUME NEW u \in User, users'[u].token # None
               PROVE  Registered(u, users[u].token)'
    BY DEF TokenIsRegistered, Registered
  <2>1. PICK k : k = users[u].token
    OBVIOUS
  <2>2. Registered(u, k)
    BY <1>2, <2>1, TokensAreRegistered DEF RegisteredInv
  <2>3. Registered(u, k)'
    BY <1>3, <2>2
  <2> QED
    BY <1>2, <2>1, <2>3 DEF Registered
<1> QED
  BY <1>4, <1>5, <1>6 DEF RegisteredInv

LEMMA RegisteredNext == Typed /\ RegisteredInv /\ [Next]_vars => RegisteredInv'
<1> SUFFICES ASSUME Typed, RegisteredInv, [Next]_vars PROVE RegisteredInv'
  OBVIOUS
<1>1. CASE Mine
  BY <1>1, MineKeepsRegistered
<1>2. ASSUME NEW t \in Thread, Request(t) \/ Step(t) PROVE RegisteredInv'
  BY <1>2, RequestKeepsRegistered, StepKeepsRegistered
<1>3. CASE Restart
  <2>1. /\ users' = [u \in User |-> NewUser] /\ req' = [t \in Thread |-> Idle]
        /\ UNCHANGED <<chain, world, mails>>
    BY <1>3 DEF Restart
  <2> QED
    BY <2>1, IdleIs DEF RegisteredInv, RegistrationsDone, RequestRegistered, TokenIsRegistered,
                        NewUser, Mailed
<1>4. CASE Import \/ UNCHANGED vars
  BY <1>4, ImportIs DEF Rests, RegisteredInv, RegistrationsDone, RequestRegistered, TokenIsRegistered,
              Registered, Target
<1> QED
  BY <1>1, <1>2, <1>3, <1>4 DEF Next, Running

(***************************************************************************)
(* Even when several requests run at once, with anything failing, a saved  *)
(* token's contract is in a registry that was e-mailed with it, for the    *)
(* call that adds it returned before the user was saved                    *)
(* (AdminServiceImpl.java:118-146, Client.java:197-201).                   *)
(***************************************************************************)
THEOREM EveryTokenIsRegistered == Spec => []TokenIsRegistered
<1>1. Init => Typed /\ RegisteredInv
  BY TypedInit, RegisteredInit
<1>2. Typed /\ RegisteredInv /\ [Next]_vars => (Typed /\ RegisteredInv)'
  BY TypedNext, RegisteredNext
<1>3. RegisteredInv => TokenIsRegistered
  BY DEF RegisteredInv
<1> QED
  BY <1>1, <1>2, <1>3, PTL DEF Spec

-----------------------------------------------------------------------------
(***************************************************************************)
(* Requests that come one at a time: Rounds is inductive.                  *)
(***************************************************************************)
LEMMA OthersRest ==
    ASSUME OneAtATime, Typed, Alone, NEW t \in Thread, Request(t) \/ req[t].step # "idle"
    PROVE  \A s \in Thread : s # t => req[s] = Idle
<1>1. \A s \in Thread : s # t => req[s].step = "idle"
  <2>1. CASE Request(t)
    BY <2>1 DEF Request, PublishRegistry, CompleteAccount, CompleteAllAccounts,
                CompleteRegistration, MayStart
  <2>2. CASE req[t].step # "idle"
    BY <2>2 DEF Alone
  <2> QED
    BY <2>1, <2>2
<1> QED
  BY <1>1 DEF Typed, SoundRequest

\* A request that is not in progress knows and does nothing.
LEMMA RestIsCoherent ==
    ASSUME NEW t \in Thread, req'[t] = Idle
    PROVE  Coherent(t)' /\ RoundIsOne(t)'
BY IdleIs DEF Coherent, RoundIsOne, Completing, Mailed

LEMMA RoundsRest ==
    ASSUME NEW t \in Thread, \A s \in Thread : s # t => req[s] = Idle, OthersKept(t),
           TokensAreMarked', Coherent(t)', RoundIsOne(t)'
    PROVE  Rounds'
<1>1. \A s \in Thread : s # t => req'[s] = Idle
  BY DEF OthersKept
<1>2. Alone'
  BY <1>1, IdleIs DEF Alone
<1>3. \A s \in Thread : Coherent(s)' /\ RoundIsOne(s)'
  BY <1>1, RestIsCoherent
<1> QED
  BY <1>2, <1>3 DEF Rounds

\* What the request in progress writes is the mark.
LEMMA FlushedMarks ==
    ASSUME TablesTyped, NEW t \in Thread, SoundRequest(t), Coherent(t)
    PROVE  /\ Flushed(t) = [u \in User |-> IF u \in req[t].dirty
                                           THEN [users[u] EXCEPT !.published = TRUE]
                                           ELSE users[u]]
           /\ \A u \in User :
                  /\ Flushed(t)[u].completed = users[u].completed
                  /\ Flushed(t)[u].account = users[u].account
                  /\ Flushed(t)[u].token = users[u].token
                  /\ Flushed(t)[u].published = (u \in req[t].dirty \/ users[u].published)
           /\ \A u \in User : req[t].cache[u] # None => Flushed(t)[u] = req[t].cache[u]
<1>1. \A u \in req[t].dirty : u \in User /\ req[t].cache[u] # None
  BY DEF SoundRequest
<1>2. \A u \in User : Flushed(t)[u] = IF u \in req[t].dirty
                                      THEN [users[u] EXCEPT !.published = TRUE] ELSE users[u]
  BY <1>1 DEF Flushed, Coherent
<1>3. \A u \in User : users[u] \in UserRow
  BY DEF TablesTyped
<1>4. ASSUME NEW u \in User
      PROVE  /\ Flushed(t)[u].completed = users[u].completed
             /\ Flushed(t)[u].account = users[u].account
             /\ Flushed(t)[u].token = users[u].token
  BY <1>2, <1>3 DEF UserRow
<1>5. ASSUME NEW u \in User
      PROVE  Flushed(t)[u].published = (u \in req[t].dirty \/ users[u].published)
  <2>1. users[u].published \in BOOLEAN
    BY <1>3 DEF UserRow
  <2>2. CASE u \in req[t].dirty
    <3>1. Flushed(t)[u].published = TRUE
      BY <1>2, <1>3, <2>2 DEF UserRow
    <3> QED
      BY <2>2, <3>1, Zenon
  <2>3. CASE u \notin req[t].dirty
    <3>1. Flushed(t)[u] = users[u]
      BY <1>2, <2>3
    <3> QED
      BY <2>1, <2>3, <3>1, Zenon
  <2> QED
    BY <2>2, <2>3
<1>6. \A u \in User : req[t].cache[u] # None => Flushed(t)[u] = req[t].cache[u]
  BY <1>2 DEF Coherent
<1>7. Flushed(t) = [u \in User |-> Flushed(t)[u]]
  BY DEF Flushed
<1> QED
  BY <1>2, <1>4, <1>5, <1>6, <1>7

LEMMA RoundsInit == Init => Rounds
BY IdleIs DEF Init, Rounds, Alone, TokensAreMarked, Coherent, RoundIsOne, NewUser,
              Completing, Mailed

LEMMA RequestKeepsRounds ==
    ASSUME OneAtATime, Typed, Rounds, NEW t \in Thread, Request(t)
    PROVE  Rounds'
<1>1. /\ OthersKept(t) /\ NothingSent /\ UNCHANGED users
      /\ \/ PublishStarts(t)
         \/ \E u \in User : CompleteStarts(t, u)
         \/ \E ids \in Orders(Unpublished) : CompleteAllStarts(t, ids)
         \/ \E u \in User : RegistrationStarts(t, u)
  BY TypedRequests, RequestStarts
<1>2. \A s \in Thread : s # t => req[s] = Idle
  BY OthersRest DEF Rounds
<1>3. /\ req'[t].step \in {"deployRegistry", "find", "saveRegistration"}
      /\ req'[t].dirty = {} /\ req'[t].tx = None
      /\ \A u \in User : req'[t].cache[u] \in {None, users[u]}
  BY <1>1 DEF PublishStarts, CompleteStarts, CompleteAllStarts, RegistrationStarts, StartsWith
<1>4. ASSUME req'[t].step = "saveRegistration"
      PROVE  ~users'[Target(t)'].completed
  <2>1. PICK u \in User : RegistrationStarts(t, u)
    BY <1>1, <1>4 DEF PublishStarts, CompleteStarts, CompleteAllStarts, StartsWith
  <2>2. Target(t)' = u
    BY <2>1 DEF RegistrationStarts, StartsWith, Target
  <2> QED
    BY <1>1, <2>1, <2>2 DEF RegistrationStarts
<1>6. TokensAreMarked'
  BY <1>1 DEF Rounds, TokensAreMarked
<1>7. Coherent(t)' /\ RoundIsOne(t)'
  BY <1>1, <1>3, <1>4 DEF Coherent, RoundIsOne, Completing, Mailed
<1> QED
  BY <1>1, <1>2, <1>6, <1>7, RoundsRest

\* What a request finds is what is in the tables (AdminServiceImpl.java:105-109).
LEMMA SeenIsCurrent ==
    ASSUME TablesTyped, NEW t \in Thread, SoundRequest(t), Coherent(t), req[t].dirty = {}
    PROVE  \A u \in User : Seen(t)[u] # None => Seen(t)[u] = users[u]
BY DEF Seen, Coherent

LEMMA FindUserKeepsRounds ==
    ASSUME OneAtATime, Typed, Rounds, NEW t \in Thread, FindUserDoes(t)
    PROVE  Rounds'
<1> DEFINE u == Target(t)
<1>0. TablesTyped /\ SoundRequest(t) /\ Coherent(t) /\ RoundIsOne(t)
  BY DEF Typed, Rounds
<1>1. /\ req[t].step = "find" /\ OthersKept(t) /\ NothingSent /\ UNCHANGED users
      /\ req'[t].cache = [Seen(t) EXCEPT ![u].published = TRUE]
      /\ req'[t].dirty = req[t].dirty \cup {u} /\ Target(t)' = u /\ u \in User
      /\ req'[t].step = "deploy" /\ ~users[u].published /\ req'[t].tx = req[t].tx
  BY DEF FindUserDoes, Unpublished, KeepsWork, Target
<1>2. req[t].dirty = {}
  BY <1>0, <1>1 DEF RoundIsOne, Verdicts
<1>3. \A v \in User : Seen(t)[v] # None => Seen(t)[v] = users[v]
  BY <1>0, <1>2, SeenIsCurrent
<1>4. DOMAIN Seen(t) = User /\ Seen(t)[u] # None
  BY <1>0, SeenIsSound DEF FindUserDoes
<1>5. \A v \in User : req'[t].cache[v] = IF v = u THEN [users[u] EXCEPT !.published = TRUE]
                                         ELSE Seen(t)[v]
  BY <1>1, <1>3, <1>4
<1>6. Coherent(t)'
  BY <1>1, <1>2, <1>3, <1>5 DEF Coherent
<1>7. users[u].token = None
  <2>1. users[u].token # None => users[u].published
    BY <1>1 DEF Rounds, TokensAreMarked
  <2> QED
    BY <1>1, <2>1
<1>8. RoundIsOne(t)'
  BY <1>1, <1>2, <1>7 DEF RoundIsOne, Completing, Mailed, Verdicts
<1>9. TokensAreMarked'
  BY <1>1 DEF Rounds, TokensAreMarked
<1> QED
  BY <1>1, <1>6, <1>8, <1>9, OthersRest, RoundsRest DEF Rounds

\* A step that keeps the context, and writes nothing.
LEMMA GoingOnKeepsRounds ==
    ASSUME OneAtATime, Typed, Rounds, NEW t \in Thread, req[t].step # "idle", OthersKept(t),
           UNCHANGED users, req'[t].cache = req[t].cache, req'[t].dirty = req[t].dirty,
           req'[t].ids = req[t].ids,
           \/ req'[t].step = req[t].step
           \/ req'[t].step \in Verdicts
           \/ req'[t].step = "saveAdmin" /\ req[t].dirty = {}
           \/ req[t].step = "deploy" /\ req'[t].step = "mail"
           \/ req[t].step = "mail" /\ req'[t].step = "transcript"
           \/ /\ req[t].step \in Mailed \ {"transcript"}
              /\ req'[t].step \in Mailed \ {"transcript"}
    PROVE  Rounds'
<1>1. Target(t)' = Target(t) /\ Coherent(t) /\ RoundIsOne(t)
  BY DEF Target, Rounds
<1>2. Coherent(t)'
  BY <1>1 DEF Coherent
<1>3. RoundIsOne(t)'
  BY <1>1 DEF RoundIsOne, Completing, Mailed, Verdicts
<1>4. TokensAreMarked'
  BY DEF Rounds, TokensAreMarked
<1> QED
  BY <1>2, <1>3, <1>4, OthersRest, RoundsRest DEF Rounds

\* The changed entities are written.
LEMMA WriteKeepsRounds ==
    ASSUME OneAtATime, Typed, Rounds, NEW t \in Thread, NEW step, Writes(t, step), NothingSent,
           req[t].step = "transcript", step \in {"addArtifact", "publishError"}
    PROVE  Rounds'
<1>0. TablesTyped /\ SoundRequest(t) /\ Coherent(t) /\ RoundIsOne(t)
  BY DEF Typed, Rounds
<1>1. /\ OthersKept(t) /\ req'[t].cache = req[t].cache /\ req'[t].dirty = {}
      /\ Target(t)' = Target(t) /\ req'[t].tx = req[t].tx /\ users' = Flushed(t)
      /\ req'[t].step = step
  BY DEF Writes, KeepsWork, Target
<1>2. /\ \A u \in User : /\ users'[u].completed = users[u].completed
                         /\ users'[u].token = users[u].token
                         /\ users'[u].published = (u \in req[t].dirty \/ users[u].published)
      /\ \A u \in User : req[t].cache[u] # None => users'[u] = req[t].cache[u]
  BY <1>0, <1>1, FlushedMarks
<1>3. Target(t) \in User /\ Target(t) \in req[t].dirty /\ users[Target(t)].token = None
  BY <1>0 DEF RoundIsOne, SoundRequest, Completing, Mailed, Target
<1>4. Coherent(t)'
  BY <1>1, <1>2 DEF Coherent
<1>5. RoundIsOne(t)'
  <2>1. users'[Target(t)].token = None /\ users'[Target(t)].published
    BY <1>2, <1>3
  <2> QED
    BY <1>1, <2>1 DEF RoundIsOne, Completing, Mailed, Verdicts
<1>6. TokensAreMarked'
  BY <1>2 DEF Rounds, TokensAreMarked
<1> QED
  BY <1>1, <1>4, <1>5, <1>6, OthersRest, RoundsRest DEF Rounds

LEMMA SaveUserKeepsRounds ==
    ASSUME OneAtATime, Typed, Rounds, NEW t \in Thread, SaveUserDoes(t)
    PROVE  Rounds'
<1> DEFINE u == Target(t)
<1>0. TablesTyped /\ SoundRequest(t) /\ Coherent(t) /\ RoundIsOne(t)
  BY DEF Typed, Rounds
<1>1. /\ OthersKept(t) /\ NothingSent /\ req[t].step = "saveUser"
      /\ users' = [Flushed(t) EXCEPT ![u] = Saved(t)]
      /\ req'[t].cache = [req[t].cache EXCEPT ![u] = Saved(t)]
      /\ req'[t].dirty = {} /\ req'[t].tx = req[t].tx
      /\ req'[t].step \in {"find", "allSuccess", "success"}
  BY DEF SaveUserDoes
<1>2. /\ req[t].dirty = {} /\ users[u].published /\ users[u].token = None /\ u \in User
      /\ req[t].cache[u] # None /\ req[t].cache[u].completed
  BY <1>0, <1>1, SavedIsSound DEF RoundIsOne, SoundRequest, Completing, Mailed, Verdicts
<1>3. req[t].cache[u] = users[u] /\ users[u].completed
  BY <1>0, <1>2 DEF Coherent
<1>4. Saved(t).completed /\ Saved(t).published
  BY <1>0, <1>2, <1>3 DEF Saved, TablesTyped, UserRow
<1>5. /\ \A v \in User : users'[v] = IF v = u THEN Saved(t) ELSE users[v]
      /\ \A v \in User : req'[t].cache[v] = IF v = u THEN Saved(t) ELSE req[t].cache[v]
  <2>1. DOMAIN req[t].cache = User /\ Flushed(t) \in [User -> UserRow]
    BY <1>0, FlushedIsSound DEF SoundRequest
  <2>2. \A v \in User : Flushed(t)[v] = users[v]
    BY <1>2 DEF Flushed
  <2> QED
    BY <1>1, <2>1, <2>2
<1> HIDE DEF u
<1>6. Coherent(t)'
  BY <1>0, <1>1, <1>2, <1>5 DEF Coherent
<1>7. RoundIsOne(t)'
  BY <1>1 DEF RoundIsOne, Completing, Mailed, Verdicts
<1>8. TokensAreMarked'
  BY <1>4, <1>5 DEF Rounds, TokensAreMarked
<1> QED
  BY <1>1, <1>6, <1>7, <1>8, OthersRest, RoundsRest DEF Rounds

\* Who has a token has registered already (UserServiceImpl.java:63-70).
LEMMA RegistrationIsEarly ==
    ASSUME Typed, Rounds, NEW t \in Thread, SaveRegistrationDoes(t)
    PROVE  /\ Target(t) \in User /\ users[Target(t)].token = None
           /\ \A v \in User : v # Target(t) => users'[v] = users[v]
           /\ users'[Target(t)].token = None
           /\ users'[Target(t)].published = users[Target(t)].published
<1> DEFINE u == Target(t)
           row == [req[t].cache[u] EXCEPT !.account = req[t].account, !.completed = TRUE]
<1>0. TablesTyped /\ SoundRequest(t) /\ Coherent(t) /\ RoundIsOne(t)
  BY DEF Typed, Rounds
<1>1. /\ users' = [users EXCEPT ![u] = row] /\ req[t].step = "saveRegistration"
  BY DEF SaveRegistrationDoes
<1>2. u \in User /\ ~users[u].completed /\ req[t].cache[u] # None /\ req[t].dirty = {}
  BY <1>0, <1>1, RegistrationIsSound DEF RoundIsOne, SoundRequest, Verdicts
<1>3. req[t].cache[u] = users[u] /\ users[u].token = None
  BY <1>0, <1>2 DEF Coherent, Rounds, TokensAreMarked
<1>4. row.token = users[u].token /\ row.published = users[u].published
  BY <1>0, <1>2, <1>3 DEF TablesTyped, UserRow
<1> HIDE DEF row, u
<1>5. \A v \in User : users'[v] = IF v = u THEN row ELSE users[v]
  BY <1>0, <1>1 DEF TablesTyped
<1> QED
  BY <1>2, <1>3, <1>4, <1>5 DEF u

LEMMA EndKeepsRounds ==
    ASSUME OneAtATime, Typed, Rounds, NEW t \in Thread, req[t].step # "idle", Ends(t), NothingSent,
           TokensAreMarked'
    PROVE  Rounds'
<1>1. OthersKept(t) /\ req'[t] = Idle
  BY DEF Ends
<1>3. Coherent(t)' /\ RoundIsOne(t)'
  BY <1>1, RestIsCoherent
<1> QED
  BY <1>1, <1>3, OthersRest, RoundsRest DEF Rounds

LEMMA StepKeepsRounds ==
    ASSUME OneAtATime, Typed, Rounds, NEW t \in Thread, Step(t)
    PROVE  Rounds'
<1>0. ChainTyped /\ TablesTyped /\ SoundRequest(t) /\ Requests /\ Coherent(t) /\ RoundIsOne(t)
  BY TypedRequests DEF Typed, Rounds
<1>1. CASE SaveRegistration(t)
  <2>1. SaveRegistrationDoes(t)
    BY <1>0, <1>1, SaveRegistrationIs
  <2>2. TokensAreMarked'
    BY <2>1, RegistrationIsEarly DEF Rounds, TokensAreMarked
  <2> QED
    BY <2>1, <2>2, EndKeepsRounds DEF SaveRegistrationDoes
<1>2. CASE FindUser(t)
  BY <1>0, <1>2, FindUserIs, FindUserKeepsRounds
<1>3. CASE FindNobody(t)
  <2>1. FindNobodyDoes(t)
    BY <1>0, <1>3, FindNobodyIs
  <2>2. req[t].dirty = {}
    BY <1>0, <2>1 DEF FindNobodyDoes, RoundIsOne, Verdicts
  <2>3. /\ OthersKept(t) /\ req'[t].cache = Seen(t) /\ req'[t].dirty = {} /\ UNCHANGED users
        /\ req'[t].step \in Verdicts /\ req'[t].tx = req[t].tx /\ NothingSent
        /\ req[t].step = "find"
    BY <2>1, <2>2, RefusalIsVerdict DEF FindNobodyDoes, Verdicts
  <2>4. Coherent(t)'
    BY <1>0, <2>2, <2>3, SeenIsCurrent DEF Coherent
  <2>5. RoundIsOne(t)'
    BY <2>3 DEF RoundIsOne, Completing, Mailed, Verdicts
  <2>6. TokensAreMarked'
    BY <2>3 DEF Rounds, TokensAreMarked
  <2> QED
    BY <2>3, <2>4, <2>5, <2>6, OthersRest, RoundsRest DEF Rounds
<1>4. CASE Send(t)
  <2>1. SendDoes(t)
    BY <1>0, <1>4, SendIs
  <2>2. req[t].step # "idle"
    BY <2>1 DEF SendDoes, CallSteps
  <2> QED
    BY <2>1, <2>2, GoingOnKeepsRounds DEF SendDoes, KeepsWork, KeepsContext
<1>5. CASE CallReturns(t)
  <2>1. CallReturnsDoes(t)
    BY <1>0, <1>5, CallReturnsIs
  <2>3. /\ \/ req'[t].step = "saveAdmin" /\ req[t].dirty = {}
           \/ req[t].step = "deploy" /\ req'[t].step = "mail"
           \/ /\ req[t].step \in Mailed \ {"transcript"}
              /\ req'[t].step \in Mailed \ {"transcript"}
        /\ req[t].step # "idle"
    BY <1>0, <2>1 DEF CallReturnsDoes, CallSteps, After, Mailed, RoundIsOne, Verdicts
  <2> QED
    BY <2>1, <2>3, GoingOnKeepsRounds DEF CallReturnsDoes, KeepsWork, KeepsContext
<1>6. CASE CallThrows(t)
  <2>1. CallThrowsDoes(t)
    BY <1>0, <1>6, CallThrowsIs
  <2> QED
    BY <2>1, GoingOnKeepsRounds
       DEF CallThrowsDoes, Moves, KeepsWork, KeepsContext, CallSteps, Verdicts
<1>7. CASE SaveAdmin(t)
  <2>1. SaveAdminDoes(t)
    BY <1>0, <1>7, SaveAdminIs
  <2> QED
    BY <2>1, GoingOnKeepsRounds DEF SaveAdminDoes, Moves, KeepsWork, KeepsContext, Verdicts
<1>8. CASE SendTokenMail(t)
  <2>1. SendTokenMailDoes(t)
    BY <1>0, <1>8, SendTokenMailIs
  <2> QED
    BY <2>1, GoingOnKeepsRounds DEF SendTokenMailDoes, Moves, KeepsWork, KeepsContext
<1>9. CASE SendTokenMailFails(t)
  <2>1. SendTokenMailFailsDoes(t)
    BY <1>0, <1>9, SendTokenMailFailsIs
  <2>3. Refusal(t) \in Verdicts
    BY RefusalIsVerdict DEF Verdicts
  <2> QED
    BY <2>1, <2>3, GoingOnKeepsRounds
       DEF SendTokenMailFailsDoes, Moves, KeepsWork, KeepsContext
<1>10. CASE PublishTranscript(t)
  BY <1>0, <1>10, PublishTranscriptIs, WriteKeepsRounds DEF PublishTranscriptDoes
<1>11. CASE NoTranscript(t)
  BY <1>0, <1>11, NoTranscriptIs, WriteKeepsRounds DEF NoTranscriptDoes
<1>12. CASE SaveUser(t)
  BY <1>0, <1>12, SaveUserIs, SaveUserKeepsRounds
<1>13. CASE Answer(t)
  <2>1. AnswerDoes(t)
    BY <1>0, <1>13, AnswerIs
  <2>2. TokensAreMarked'
    BY <1>0, <2>1, FlushedMarks DEF AnswerDoes, Rounds, TokensAreMarked
  <2>3. req[t].step # "idle"
    BY <2>1 DEF AnswerDoes, Verdicts
  <2> QED
    BY <2>1, <2>2, <2>3, EndKeepsRounds DEF AnswerDoes
<1> QED
  BY <1>1, <1>2, <1>3, <1>4, <1>5, <1>6, <1>7, <1>8, <1>9, <1>10, <1>11, <1>12, <1>13 DEF Step

LEMMA MineKeepsRounds ==
    ASSUME Typed, Rounds, Mine
    PROVE  Rounds'
<1>2. UNCHANGED <<users, req>>
  BY DEF Mine
<1>4. Alone' /\ TokensAreMarked'
  BY <1>2 DEF Rounds, Alone, TokensAreMarked
<1>5. ASSUME NEW t \in Thread PROVE Coherent(t)' /\ RoundIsOne(t)'
  <2>1. Target(t)' = Target(t) /\ Coherent(t) /\ RoundIsOne(t)
    BY <1>2 DEF Target, Rounds
  <2> QED
    BY <1>2, <2>1 DEF Coherent, RoundIsOne
<1> QED
  BY <1>4, <1>5 DEF Rounds

LEMMA RestartKeepsRounds ==
    ASSUME Rounds, Restart
    PROVE  Rounds'
<1>1. /\ users' = [u \in User |-> NewUser] /\ req' = [t \in Thread |-> Idle]
      /\ submitted' \subseteq submitted /\ chain' = chain
  BY DEF Restart
<1>2. Alone' /\ TokensAreMarked'
  BY <1>1, IdleIs DEF Rounds, Alone, TokensAreMarked, NewUser
<1>3. \A t \in Thread : Coherent(t)' /\ RoundIsOne(t)'
  BY <1>1, RestIsCoherent
<1> QED
  BY <1>2, <1>3 DEF Rounds

LEMMA RoundsNext == OneAtATime /\ Typed /\ Rounds /\ [Next]_vars => Rounds'
<1> SUFFICES ASSUME OneAtATime, Typed, Rounds, [Next]_vars PROVE Rounds'
  OBVIOUS
<1>1. CASE Mine
  BY <1>1, MineKeepsRounds
<1>2. ASSUME NEW t \in Thread, Request(t) \/ Step(t) PROVE Rounds'
  BY <1>2, RequestKeepsRounds, StepKeepsRounds
<1>3. CASE Restart
  BY <1>3, RestartKeepsRounds
<1>4. CASE Import \/ UNCHANGED vars
  <2>0. Rests
    BY <1>4, ImportIs
  <2>1. Alone' /\ TokensAreMarked'
    BY <2>0 DEF Rests, Rounds, Alone, TokensAreMarked
  <2>2. \A t \in Thread : Coherent(t)' /\ RoundIsOne(t)'
    BY <2>0 DEF Rests, Rounds, Coherent, RoundIsOne, Target
  <2> QED
    BY <2>1, <2>2 DEF Rounds
<1> QED
  BY <1>1, <1>2, <1>3, <1>4 DEF Next, Running

\* Which steps write the users, and what becomes of a token.
LEMMA TokensKept ==
    ASSUME Typed, Rounds, NEW t \in Thread, Request(t) \/ Step(t)
    PROVE  \A u \in User : users[u].token # None =>
               users'[u].token = users[u].token /\ users'[u].published
<1>0. ChainTyped /\ TablesTyped /\ SoundRequest(t) /\ Requests /\ Coherent(t) /\ RoundIsOne(t)
  BY TypedRequests DEF Typed, Rounds
<1>1. \A u \in User : users[u].token # None => users[u].published
  BY DEF Rounds, TokensAreMarked
<1>2. CASE UNCHANGED users
  BY <1>1, <1>2
<1>3. \A u \in User : users[u].token # None =>
          Flushed(t)[u].token = users[u].token /\ Flushed(t)[u].published
  BY <1>0, <1>1, FlushedMarks
<1>4. CASE SaveRegistration(t)
  BY <1>0, <1>1, <1>4, SaveRegistrationIs, RegistrationIsEarly
<1>5. CASE SaveUser(t)
  <2>1. SaveUserDoes(t)
    BY <1>0, <1>5, SaveUserIs
  <2>2. users[Target(t)].token = None
    BY <1>0, <2>1 DEF SaveUserDoes, RoundIsOne, Completing, Mailed
  <2>3. \A v \in User : v # Target(t) => users'[v] = Flushed(t)[v]
    BY <2>1, <1>0, FlushedIsSound DEF SaveUserDoes
  <2> QED
    BY <1>3, <2>2, <2>3
<1>6. CASE Request(t)
  BY <1>0, <1>2, <1>6, RequestStarts
<1> QED
  BY <1>2, <1>3, <1>4, <1>5, <1>6
     DEF Step, FindUser, FindNobody, Send, CallReturns, CallThrows, SaveAdmin, SendTokenMail,
         SendTokenMailFails, PublishTranscript, NoTranscript, Answer

(***************************************************************************)
(* When requests come one at a time, a saved token and its mark stay,      *)
(* whatever fails, until a restart (AdminServiceImpl.java:145-146,         *)
(* UserServiceImpl.java:145-160).                                          *)
(***************************************************************************)
THEOREM TokensStay ==
    ASSUME OneAtATime
    PROVE  Spec => TokenIsKept
<1>1. Init => Typed /\ Rounds
  BY TypedInit, RoundsInit
<1>2. Typed /\ Rounds /\ [Next]_vars => (Typed /\ Rounds)'
  BY TypedNext, RoundsNext
<1>3. Typed /\ Rounds /\ [Next]_vars =>
          [\A u \in User : users[u].token # None /\ life' = life
               => users'[u].token = users[u].token /\ users'[u].published]_vars
  <2> SUFFICES ASSUME Typed, Rounds, Next, life' = life
               PROVE  \A u \in User : users[u].token # None
                          => users'[u].token = users[u].token /\ users'[u].published
    OBVIOUS
  <2>1. life \in Nat
    BY DEF Typed, TablesTyped
  <2>2. ~Restart
    BY <2>1 DEF Restart
  <2>3. CASE Mine
    BY <2>3 DEF Mine, Rounds, TokensAreMarked
  <2>4. CASE Import
    BY <2>4 DEF Import, Rounds, TokensAreMarked
  <2> QED
    BY <2>2, <2>3, <2>4, TokensKept DEF Next, Running
<1> QED
  BY <1>1, <1>2, <1>3, PTL DEF Spec, TokenIsKept

-----------------------------------------------------------------------------
(***************************************************************************)
(* Requests that come one at a time: MailInv is inductive.                 *)
(***************************************************************************)
LEMMA MarksStay ==
    ASSUME Typed, Rounds, NEW t \in Thread, Request(t) \/ Step(t)
    PROVE  /\ \A u \in User : users[u].published => users'[u].published
           /\ req[t].step \in {"transcript"} \cup Verdicts =>
                  \A u \in req[t].dirty : users'[u].published
<1>0. ChainTyped /\ TablesTyped /\ SoundRequest(t) /\ Requests /\ Coherent(t) /\ RoundIsOne(t)
  BY TypedRequests DEF Typed, Rounds
<1>1. /\ \A u \in User : users[u].published => Flushed(t)[u].published
      /\ \A u \in req[t].dirty : Flushed(t)[u].published /\ u \in User
  BY <1>0, FlushedMarks DEF SoundRequest
<1>2. CASE SaveRegistration(t)
  <2>1. SaveRegistrationDoes(t)
    BY <1>0, <1>2, SaveRegistrationIs
  <2>2. req[t].step = "saveRegistration"
    BY <2>1 DEF SaveRegistrationDoes
  <2> QED
    BY <2>1, <2>2, RegistrationIsEarly DEF Verdicts
<1>3. CASE SaveUser(t)
  <2>1. SaveUserDoes(t)
    BY <1>0, <1>3, SaveUserIs
  <2>2. users[Target(t)].published /\ Target(t) \in User /\ req[t].dirty = {}
    BY <1>0, <2>1, SavedIsSound DEF SaveUserDoes, RoundIsOne, Mailed, Verdicts
  <2>3. req[t].cache[Target(t)] # None
    BY <1>0, <2>1 DEF SaveUserDoes, SoundRequest, Completing, Mailed
  <2>4. req[t].cache[Target(t)] = users[Target(t)]
    BY <1>0, <2>2, <2>3 DEF Coherent
  <2>5. Saved(t).published
    BY <1>0, <2>2, <2>4 DEF Saved, TablesTyped, UserRow
  <2>6. \A v \in User : users'[v] = IF v = Target(t) THEN Saved(t) ELSE Flushed(t)[v]
    BY <2>1, <1>0, FlushedIsSound DEF SaveUserDoes
  <2> QED
    BY <1>1, <2>2, <2>5, <2>6
<1>4. CASE users' = Flushed(t)
  BY <1>1, <1>4
<1>5. CASE Request(t)
  <2>1. UNCHANGED users /\ req[t].step = "idle"
    BY <1>0, <1>5, RequestStarts DEF MayStart
  <2> QED
    BY <2>1 DEF Verdicts
<1>6. CASE FindUser(t) \/ FindNobody(t) \/ Send(t) \/ CallReturns(t) \/ CallThrows(t)
           \/ SaveAdmin(t) \/ SendTokenMail(t) \/ SendTokenMailFails(t)
  <2>1. UNCHANGED users /\ req[t].step \in {"find", "saveAdmin", "mail"} \cup CallSteps
    BY <1>6 DEF FindUser, FindNobody, Send, CallReturns, CallThrows, SaveAdmin, SendTokenMail,
                SendTokenMailFails
  <2> QED
    BY <2>1 DEF Verdicts, CallSteps
<1> QED
  BY <1>2, <1>3, <1>4, <1>5, <1>6 DEF Step, PublishTranscript, NoTranscript, Answer

\* Who was mailed a token before the step is marked after it.
LEMMA OldMailsAreMarked ==
    ASSUME OneAtATime, Typed, Rounds, MailInv, NEW t \in Thread, Request(t) \/ Step(t)
    PROVE  /\ \A m \in mails : m.life = life => users'[m.user].published
           /\ req[t].step \in {"deploy", "mail"} =>
                  \A m \in mails : m.life = life => users[m.user].published
<1>0. TablesTyped /\ SoundRequest(t) /\ RoundIsOne(t)
  BY DEF Typed, Rounds
<1>1. \A s \in Thread : s # t => req[s].dirty = {}
  <2>1. req[t].step # "idle" \/ Request(t)
    BY DEF Step, SaveRegistration, FindUser, FindNobody, Send, CallReturns, CallThrows, SaveAdmin,
           SendTokenMail, SendTokenMailFails, PublishTranscript, NoTranscript, SaveUser, Answer,
           CallSteps, Verdicts
  <2> QED
    BY <2>1, OthersRest, IdleIs DEF Rounds
<1>2. ASSUME NEW m \in mails, m.life = life, ~users[m.user].published
      PROVE  m.user \in req[t].dirty /\ req[t].step \in {"transcript"} \cup Verdicts
  BY <1>0, <1>1, <1>2 DEF MailInv, MailedIsMarked, RoundIsOne
<1>3. \A m \in mails : m.user \in User
  BY <1>0 DEF TablesTyped
<1>4. \A m \in mails : m.life = life => users'[m.user].published
  BY <1>2, <1>3, MarksStay
<1>5. req[t].step \in {"deploy", "mail"} =>
          \A m \in mails : m.life = life => users[m.user].published
  BY <1>2 DEF Verdicts
<1> QED
  BY <1>4, <1>5

\* The mail of this round is the first one its user gets in this life.
LEMMA NewMailIsFirst ==
    ASSUME OneAtATime, Typed, Rounds, MailInv, NEW t \in Thread, Step(t), req[t].step = "mail"
    PROVE  \A m \in mails : m.life = life => m.user # Target(t)
BY OldMailsAreMarked DEF MailInv, MarkIsPending

LEMMA MarkStaysPending ==
    ASSUME OneAtATime, Typed, Rounds, MailInv, NEW t \in Thread, Request(t) \/ Step(t)
    PROVE  MarkIsPending'
<1>0. ChainTyped /\ TablesTyped /\ SoundRequest(t) /\ Requests
  BY TypedRequests DEF Typed
<1>1. req[t].step # "idle" \/ Request(t)
  BY DEF Step, SaveRegistration, FindUser, FindNobody, Send, CallReturns, CallThrows, SaveAdmin,
         SendTokenMail, SendTokenMailFails, PublishTranscript, NoTranscript, SaveUser, Answer,
         CallSteps, Verdicts
<1>2. \A s \in Thread : s # t => req[s] = Idle
  BY <1>1, OthersRest DEF Rounds
<1>3. ASSUME OthersKept(t), req'[t].step \in {"deploy", "mail"} => ~users'[Target(t)'].published
      PROVE  MarkIsPending'
  <2>1. ASSUME NEW s \in Thread, req'[s].step \in {"deploy", "mail"}
        PROVE  ~users'[Target(s)'].published
    <3>1. s # t => req'[s].step = "idle"
      BY <1>2, <1>3, IdleIs DEF OthersKept
    <3> QED
      BY <1>3, <2>1, <3>1
  <2> QED
    BY <2>1 DEF MarkIsPending
<1>4. CASE FindUser(t)
  <2>1. FindUserDoes(t)
    BY <1>0, <1>4, FindUserIs
  <2>2. ~users[Target(t)].published /\ UNCHANGED users /\ Target(t)' = Target(t) /\ OthersKept(t)
    BY <2>1 DEF FindUserDoes, Unpublished, KeepsWork, Target
  <2> QED
    BY <1>3, <2>2
<1>5. CASE Send(t)
  <2>1. SendDoes(t)
    BY <1>0, <1>5, SendIs
  <2>2. /\ req'[t].step = req[t].step /\ UNCHANGED users /\ Target(t)' = Target(t)
        /\ OthersKept(t)
    BY <2>1 DEF SendDoes, KeepsWork, Target
  <2> QED
    BY <1>3, <2>2 DEF MailInv, MarkIsPending
<1>6. CASE CallReturns(t)
  <2>1. CallReturnsDoes(t)
    BY <1>0, <1>6, CallReturnsIs
  <2>2. /\ req'[t].step \in {"deploy", "mail"} => req[t].step = "deploy"
        /\ UNCHANGED users /\ Target(t)' = Target(t) /\ OthersKept(t)
    BY <2>1 DEF CallReturnsDoes, KeepsWork, Target, After, CallSteps
  <2> QED
    BY <1>3, <2>2 DEF MailInv, MarkIsPending
<1>7. CASE \/ SaveRegistration(t) \/ FindNobody(t) \/ CallThrows(t) \/ SaveAdmin(t)
           \/ SendTokenMail(t) \/ SendTokenMailFails(t) \/ PublishTranscript(t)
           \/ NoTranscript(t) \/ SaveUser(t) \/ Answer(t) \/ Request(t)
  <2>1. OthersKept(t) /\ req'[t].step \notin {"deploy", "mail"}
    <3>1. CASE SaveRegistration(t)
      BY <1>0, <3>1, SaveRegistrationIs, IdleIs DEF SaveRegistrationDoes, Ends
    <3>2. CASE FindNobody(t)
      BY <1>0, <3>2, FindNobodyIs, RefusalIsVerdict DEF FindNobodyDoes
    <3>3. CASE CallThrows(t)
      BY <1>0, <3>3, CallThrowsIs DEF CallThrowsDoes, Moves
    <3>4. CASE SaveAdmin(t)
      BY <1>0, <3>4, SaveAdminIs DEF SaveAdminDoes, Moves
    <3>5. CASE SendTokenMail(t)
      BY <1>0, <3>5, SendTokenMailIs DEF SendTokenMailDoes, Moves
    <3>6. CASE SendTokenMailFails(t)
      BY <1>0, <3>6, SendTokenMailFailsIs, RefusalIsVerdict DEF SendTokenMailFailsDoes, Moves
    <3>7. CASE PublishTranscript(t)
      BY <1>0, <3>7, PublishTranscriptIs DEF PublishTranscriptDoes, Writes
    <3>8. CASE NoTranscript(t)
      BY <1>0, <3>8, NoTranscriptIs DEF NoTranscriptDoes, Writes
    <3>9. CASE SaveUser(t)
      BY <1>0, <3>9, SaveUserIs DEF SaveUserDoes
    <3>10. CASE Answer(t)
      BY <1>0, <3>10, AnswerIs, IdleIs DEF AnswerDoes, Ends
    <3>11. CASE Request(t)
      BY <1>0, <3>11, RequestStarts
         DEF PublishStarts, CompleteStarts, CompleteAllStarts, RegistrationStarts, StartsWith
    <3> QED
      BY <1>7, <3>1, <3>2, <3>3, <3>4, <3>5, <3>6, <3>7, <3>8, <3>9, <3>10, <3>11
  <2> QED
    BY <1>3, <2>1
<1> QED
  BY <1>4, <1>5, <1>6, <1>7 DEF Step

\* Mails are only sent by the steps that send mails.
LEMMA MailsSent ==
    ASSUME Typed, NEW t \in Thread, Request(t) \/ Step(t)
    PROVE  \/ mails' = mails
           \/ /\ mails' = mails \cup {TokenMail(t)} /\ req[t].step = "mail" /\ Step(t)
              /\ req'[t].dirty = req[t].dirty /\ req'[t].step \notin {"deploy", "mail"}
<1>0. Requests
  BY TypedRequests
<1>1. CASE SendTokenMail(t)
  BY <1>0, <1>1, SendTokenMailIs DEF SendTokenMailDoes, Moves, KeepsContext, Step
<1>2. CASE SendTokenMailFails(t)
  BY <1>0, <1>2, SendTokenMailFailsIs, RefusalIsVerdict
     DEF SendTokenMailFailsDoes, Moves, KeepsContext, Step
<1>3. CASE Request(t)
  BY <1>0, <1>3, RequestStarts
<1> QED
  BY <1>1, <1>2, <1>3
     DEF Step, SaveRegistration, FindUser, FindNobody, Send, CallReturns, CallThrows, SaveAdmin,
         PublishTranscript, NoTranscript, SaveUser, Answer

LEMMA MailNext == OneAtATime /\ Typed /\ Rounds /\ MailInv /\ [Next]_vars => MailInv'
<1> SUFFICES ASSUME OneAtATime, Typed, Rounds, MailInv, [Next]_vars PROVE MailInv'
  OBVIOUS
<1>0. TablesTyped
  BY DEF Typed
<1>1. ASSUME NEW t \in Thread, Request(t) \/ Step(t), life' = life
      PROVE  MailInv'
  <2>1. \A m \in mails : m.life = life => users'[m.user].published
    BY <1>1, OldMailsAreMarked
  <2>2. CASE mails' = mails
    <3>1. OneTokenPerUser' /\ MailedIsMarked'
      BY <1>1, <2>1, <2>2 DEF MailInv, OneTokenPerUser, MailedIsMarked
    <3> QED
      BY <1>1, <3>1, MarkStaysPending DEF MailInv
  <2>3. CASE /\ mails' = mails \cup {TokenMail(t)} /\ req[t].step = "mail" /\ Step(t)
             /\ req'[t].dirty = req[t].dirty /\ req'[t].step \notin {"deploy", "mail"}
    <3>1. TokenMail(t).user = Target(t) /\ TokenMail(t).life = life
      BY <2>3, MailIsSound DEF Typed
    <3>2. \A m \in mails : m.life = life => m.user # Target(t)
      BY <2>3, NewMailIsFirst
    <3>3. OneTokenPerUser'
      BY <2>3, <3>1, <3>2 DEF MailInv, OneTokenPerUser
    <3>4. Target(t) \in req[t].dirty
      BY <2>3 DEF Rounds, RoundIsOne
    <3>5. MailedIsMarked'
      BY <1>1, <2>1, <2>3, <3>1, <3>4 DEF MailedIsMarked
    <3> QED
      BY <1>1, <3>3, <3>5, MarkStaysPending DEF MailInv
  <2> QED
    BY <1>1, <2>2, <2>3, MailsSent
<1>2. CASE Mine /\ life' = life
  BY <1>2 DEF Mine, MailInv, OneTokenPerUser, MailedIsMarked, MarkIsPending, Target
<1>3. CASE Restart
  <2>1. /\ life' = life + 1 /\ mails' = mails /\ req' = [t \in Thread |-> Idle]
        /\ \A m \in mails : m.life \in 0 .. life
        /\ life \in Nat
    BY <1>0, <1>3 DEF Restart, TablesTyped
  <2>2. MarkIsPending'
    BY <2>1, IdleIs DEF MarkIsPending
  <2>3. OneTokenPerUser' /\ MailedIsMarked'
    BY <2>1 DEF MailInv, OneTokenPerUser, MailedIsMarked
  <2> QED
    BY <2>2, <2>3 DEF MailInv
<1>4. CASE Import \/ UNCHANGED vars
  BY <1>4, ImportIs DEF Rests, MailInv, OneTokenPerUser, MailedIsMarked, MarkIsPending, Target
<1> QED
  BY <1>1, <1>2, <1>3, <1>4 DEF Next, Running

(***************************************************************************)
(* When requests come one at a time nobody is e-mailed two tokens in one   *)
(* life of the database: the mark of the round is in the table, or in the  *)
(* context of the request in progress, before the mail can be sent again   *)
(* (AdminServiceImpl.java:108-150).                                        *)
(***************************************************************************)
THEOREM OneMailPerUser ==
    ASSUME OneAtATime
    PROVE  Spec => []OneTokenPerUser
<1>1. Init => Typed /\ Rounds /\ MailInv
  <2>1. Init => MailInv
    BY IdleIs DEF Init, MailInv, OneTokenPerUser, MailedIsMarked, MarkIsPending
  <2> QED
    BY <2>1, TypedInit, RoundsInit
<1>2. Typed /\ Rounds /\ MailInv /\ [Next]_vars => (Typed /\ Rounds /\ MailInv)'
  BY TypedNext, RoundsNext, MailNext
<1>3. MailInv => OneTokenPerUser
  BY DEF MailInv
<1> QED
  BY <1>1, <1>2, <1>3, PTL DEF Spec

-----------------------------------------------------------------------------
(***************************************************************************)
(* Requests that come one at a time: SentInv is inductive.                 *)
(***************************************************************************)
LEMMA SentInit == Init => SentInv
BY IdleIs DEF Init, SentInv, Pending, AtMostOneBehind

\* What is in progress.
LEMMA InProgress ==
    ASSUME OneAtATime, Typed, Rounds, NEW t \in Thread, Request(t) \/ Step(t)
    PROVE  \A s \in Thread : s # t => req[s] = Idle
<1>1. req[t].step # "idle" \/ Request(t)
  BY DEF Step, SaveRegistration, FindUser, FindNobody, Send, CallReturns, CallThrows, SaveAdmin,
         SendTokenMail, SendTokenMailFails, PublishTranscript, NoTranscript, SaveUser, Answer,
         CallSteps, Verdicts
<1> QED
  BY <1>1, OthersRest DEF Rounds

\* When a call of the request in progress was mined nothing is left to mine.
LEMMA NothingLeft ==
    ASSUME Typed, Pending, NEW t \in Thread, req[t].tx \in ToSet(chain)
    PROVE  submitted = {}
<1>1. req[t].tx # None /\ req[t].tx.nonce \in Nat /\ req[t].tx.nonce < Len(chain)
  BY MinedIs DEF Typed
<1>2. Len(chain) \in Nat
  BY DEF Typed, ChainTyped
<1> QED
  BY <1>1, <1>2 DEF Pending

\* Then the nonce is the next one of the chain (Client.java:86-105).
LEMMA NonceIsNext ==
    ASSUME OneAtATime, Typed, Rounds, InSync, SentInv, NEW t \in Thread, Send(t)
    PROVE  imported = Len(chain)
<1>1. CASE AfterSync
  BY <1>1 DEF Send
<1>2. CASE life = 0
  <2>1. \A s \in Thread : s # t => req[s] = Idle
    BY InProgress DEF Step
  <2>2. \A s \in Thread : req[s].tx = None
    BY <2>1, IdleIs DEF Send
  <2>3. imported \in 0 .. Len(chain) /\ Len(chain) \in Nat
    BY DEF Typed, Imported, ChainTyped
  <2>4. ~(imported < Len(chain))
    BY <1>2, <2>2 DEF SentInv, AtMostOneBehind
  <2> QED
    BY <2>3, <2>4
<1> QED
  BY <1>1, <1>2 DEF InSync

LEMMA SendKeepsSent ==
    ASSUME OneAtATime, Typed, Rounds, InSync, SentInv, NEW t \in Thread, Send(t), SendDoes(t),
           UNCHANGED <<imported, life>>
    PROVE  SentInv'
<1>1. imported = Len(chain) /\ Len(chain) \in Nat
  BY NonceIsNext DEF Typed, ChainTyped
<1>2. \A s \in Thread : s # t => req'[s].tx = None
  BY InProgress, IdleIs DEF Step, SendDoes, OthersKept
<1>3. /\ submitted' = submitted \cup {NewTx(t)} /\ req'[t].tx = NewTx(t) /\ chain' = chain
      /\ NewTx(t).nonce = Len(chain)
  BY <1>1 DEF SendDoes, NewTx
<1>4. \A tx \in submitted : tx.nonce = Len(chain)
  BY DEF SentInv, Pending
<1>5. Pending'
  BY <1>2, <1>3, <1>4 DEF Pending
<1>6. AtMostOneBehind'
  <2>1. ~(imported' < Len(chain'))
    BY <1>1, <1>3
  <2>2. req'[t].tx \in submitted'
    BY <1>3
  <2> QED
    BY <2>1, <2>2 DEF AtMostOneBehind
<1> QED
  BY <1>5, <1>6 DEF SentInv

LEMMA ReturnKeepsSent ==
    ASSUME OneAtATime, Typed, Rounds, InSync, SentInv, NEW t \in Thread,
           CallReturns(t), CallReturnsDoes(t), UNCHANGED <<imported, life>>
    PROVE  SentInv'
<1>1. \A s \in Thread : s # t => req[s].tx = None
  BY InProgress, IdleIs DEF Step
<1>2. \A s \in Thread : req'[s].tx = None
  BY <1>1 DEF CallReturnsDoes, OthersKept
<1>3. submitted' = {} /\ chain' = chain
  BY NothingLeft DEF CallReturnsDoes, NothingSent, SentInv
<1>4. req[t].tx.nonce < imported /\ req[t].tx.nonce \in Nat
  BY MinedIs DEF CallReturns, CallReturnsDoes, Typed
<1>5. imported \in Nat
  BY DEF Typed, Imported
<1>6. Pending'
  BY <1>2, <1>3 DEF Pending
<1>7. ASSUME life = 0 PROVE AtMostOneBehind'
  <2>1. ~(\E s \in Thread : req[s].tx # None /\ req[s].tx.nonce = imported)
    BY <1>1, <1>4, <1>5
  <2>2. ~(imported < Len(chain))
    BY <1>7, <2>1 DEF SentInv, AtMostOneBehind
  <2> QED
    BY <1>3, <2>2 DEF AtMostOneBehind
<1> QED
  BY <1>6, <1>7 DEF SentInv

\* The step sends nothing, and no call returns.
LEMMA SentRest ==
    ASSUME SentInv, NEW t \in Thread, OthersKept(t), NothingSent, req'[t].tx = req[t].tx,
           UNCHANGED <<imported, life>>
    PROVE  SentInv'
<1>1. \A s \in Thread : req'[s].tx = req[s].tx
  BY DEF OthersKept
<1> QED
  BY <1>1 DEF SentInv, InSync, Pending, AtMostOneBehind, NothingSent

LEMMA StepKeepsSent ==
    ASSUME OneAtATime, Typed, Rounds, InSync, SentInv, NEW t \in Thread, Request(t) \/ Step(t),
           UNCHANGED <<imported, life>>
    PROVE  SentInv'
<1>0. Requests /\ SoundRequest(t)
  BY TypedRequests DEF Typed
<1>1. req[t].step \notin CallSteps => req[t].tx = None
  BY <1>0 DEF SoundRequest
<1>2. CASE Send(t)
  BY <1>0, <1>2, SendIs, SendKeepsSent
<1>3. CASE CallReturns(t)
  BY <1>0, <1>3, CallReturnsIs, ReturnKeepsSent
<1>4. CASE SaveRegistration(t)
  <2>1. SaveRegistrationDoes(t) /\ req[t].tx = None
    BY <1>0, <1>1, <1>4, SaveRegistrationIs DEF SaveRegistration, CallSteps
  <2> QED
    BY <2>1, IdleIs, SentRest DEF SaveRegistrationDoes, Ends
<1>5. CASE FindUser(t)
  BY <1>0, <1>5, FindUserIs, SentRest DEF FindUserDoes
<1>6. CASE FindNobody(t)
  BY <1>0, <1>6, FindNobodyIs, SentRest DEF FindNobodyDoes
<1>7. CASE CallThrows(t)
  BY <1>0, <1>7, CallThrowsIs, SentRest DEF CallThrowsDoes, Moves
<1>8. CASE SaveAdmin(t)
  BY <1>0, <1>8, SaveAdminIs, SentRest DEF SaveAdminDoes, Moves
<1>9. CASE SendTokenMail(t)
  BY <1>0, <1>9, SendTokenMailIs, SentRest DEF SendTokenMailDoes, Moves
<1>10. CASE SendTokenMailFails(t)
  BY <1>0, <1>10, SendTokenMailFailsIs, SentRest DEF SendTokenMailFailsDoes, Moves
<1>11. CASE PublishTranscript(t)
  BY <1>0, <1>11, PublishTranscriptIs, SentRest DEF PublishTranscriptDoes, Writes
<1>12. CASE NoTranscript(t)
  BY <1>0, <1>12, NoTranscriptIs, SentRest DEF NoTranscriptDoes, Writes
<1>13. CASE SaveUser(t)
  BY <1>0, <1>13, SaveUserIs, SentRest DEF SaveUserDoes
<1>14. CASE Answer(t)
  <2>1. AnswerDoes(t) /\ req[t].tx = None
    BY <1>0, <1>1, <1>14, AnswerIs DEF Answer, CallSteps, Verdicts
  <2> QED
    BY <2>1, IdleIs, SentRest DEF AnswerDoes, Ends
<1>15. CASE Request(t)
  <2>1. /\ OthersKept(t) /\ NothingSent /\ req[t].step = "idle" /\ req'[t].tx = None
    BY <1>0, <1>15, RequestStarts
       DEF MayStart, PublishStarts, CompleteStarts, CompleteAllStarts, RegistrationStarts,
           StartsWith
  <2> QED
    BY <1>1, <2>1, SentRest DEF CallSteps
<1> QED
  BY <1>2, <1>3, <1>4, <1>5, <1>6, <1>7, <1>8, <1>9, <1>10, <1>11, <1>12, <1>13, <1>14, <1>15
     DEF Step

\* A transaction is mined: it was the only one.
LEMMA MineKeepsSent ==
    ASSUME Typed, Rounds, InSync, SentInv, Mine, UNCHANGED <<imported, life>>
    PROVE  SentInv'
<1>0. ChainTyped /\ Len(chain) \in Nat /\ imported \in 0 .. Len(chain)
  BY DEF Typed, ChainTyped, Imported
<1>1. PICK tx \in submitted : Mines(tx)
  BY <1>0, MineIs
<1>2. /\ req' = req /\ Len(chain') = Len(chain) + 1
      /\ submitted' = {other \in submitted : other.nonce > Len(chain)}
  BY <1>1 DEF Mines
<1>3. submitted' = {}
  BY <1>0, <1>2 DEF SentInv, Pending
<1>4. Pending'
  <2>1. ASSUME NEW t \in Thread, req'[t].tx # None
        PROVE  req'[t].tx.nonce < Len(chain')
    BY <1>0, <1>2, <2>1 DEF SentInv, Pending
  <2> QED
    BY <1>3, <2>1 DEF Pending
<1>5. ASSUME life = 0 PROVE AtMostOneBehind'
  <2>1. PICK t \in Thread : req[t].tx \in submitted
    BY <1>1, <1>5 DEF SentInv, AtMostOneBehind
  <2>2. req[t].tx.nonce = Len(chain) /\ req[t].tx # None
    BY <2>1, NoneAssumption DEF SentInv, Pending, Typed, ChainTyped, SoundTx
  <2>3. imported = Len(chain)
    <3>1. SUFFICES ASSUME imported < Len(chain) PROVE FALSE
      BY <1>0
    <3>2. PICK s \in Thread : req[s].tx # None /\ req[s].tx.nonce = imported
      BY <1>5, <3>1 DEF SentInv, AtMostOneBehind
    <3>3. req[s].step # "idle" /\ req[t].step # "idle"
      BY <2>2, <3>2 DEF Typed, SoundRequest, CallSteps
    <3>4. s = t
      BY <3>3 DEF Rounds, Alone
    <3> QED
      BY <1>0, <2>2, <3>1, <3>2, <3>4
  <2> QED
    BY <1>0, <1>2, <1>3, <2>2, <2>3 DEF AtMostOneBehind
<1> QED
  BY <1>4, <1>5 DEF SentInv

LEMMA SentNext == OneAtATime /\ Typed /\ Rounds /\ SentInv /\ [Next]_vars => SentInv'
<1> SUFFICES ASSUME OneAtATime, Typed, Rounds, SentInv, [Next]_vars, InSync' PROVE SentInv'
  BY DEF SentInv
<1>0. life \in Nat /\ Len(chain) \in Nat /\ imported \in 0 .. Len(chain)
  BY DEF Typed, TablesTyped, ChainTyped, Imported
<1>1. CASE Mine /\ UNCHANGED <<imported, life>>
  <2>1. InSync
    BY <1>1 DEF InSync
  <2> QED
    BY <1>1, <2>1, MineKeepsSent
<1>2. ASSUME NEW t \in Thread, Request(t) \/ Step(t), UNCHANGED <<imported, life>> PROVE SentInv'
  <2>1. InSync
    BY <1>2 DEF InSync
  <2> QED
    BY <1>2, <2>1, StepKeepsSent
<1>3. CASE Restart
  <2>1. /\ req' = [t \in Thread |-> Idle] /\ submitted' \subseteq submitted /\ chain' = chain
        /\ life' = life + 1
    BY <1>3 DEF Restart
  <2>2. life' # 0 /\ InSync
    BY <1>0, <2>1 DEF InSync
  <2>3. Pending'
    BY <2>1, <2>2, IdleIs DEF SentInv, Pending
  <2> QED
    BY <2>2, <2>3 DEF SentInv
<1>4. CASE Import
  <2>1. /\ imported < Len(chain) /\ imported' = imported + 1
        /\ UNCHANGED <<req, chain, submitted, life>>
    BY <1>4 DEF Import
  <2>2. Pending' /\ InSync
    BY <2>1 DEF SentInv, InSync, Pending
  <2>3. ASSUME life = 0 PROVE AtMostOneBehind'
    <3>1. AtMostOneBehind
      BY <2>2, <2>3 DEF SentInv
    <3>2. ~(imported' < Len(chain'))
      BY <1>0, <2>1, <3>1 DEF AtMostOneBehind
    <3> QED
      BY <2>1, <3>1, <3>2 DEF AtMostOneBehind
  <2> QED
    BY <2>1, <2>2, <2>3 DEF SentInv
<1>5. CASE UNCHANGED vars
  BY <1>5 DEF vars, SentInv, InSync, Pending, AtMostOneBehind
<1> QED
  BY <1>1, <1>2, <1>3, <1>4, <1>5 DEF Next, Running

-----------------------------------------------------------------------------
(***************************************************************************)
(* Requests that come one at a time: GoodInv is inductive.                 *)
(***************************************************************************)
LEMMA GoodInit == Init => GoodInv
BY IdleIs DEF Init, GoodInv, TokensUntouched, TokensHold, GoodRequest, ContractUntouched,
              ContractIsNew, ContractIsFresh, At, Past, NewUser, Completing, Mailed

\* A request that is at no user's account has no contract.
LEMMA OutsideIsGood ==
    ASSUME NEW t \in Thread, req'[t].step \notin Completing
    PROVE  GoodRequest(t)'
BY DEF GoodRequest, ContractUntouched, ContractIsNew, ContractIsFresh, At, Past, Completing, Mailed

LEMMA GoodRest ==
    ASSUME NEW t \in Thread, \A s \in Thread : s # t => req[s] = Idle, OthersKept(t),
           TokensUntouched', TokensHold', GoodRequest(t)'
    PROVE  GoodInv'
<1>1. ASSUME NEW s \in Thread, s # t PROVE GoodRequest(s)'
  <2>1. req'[s].step = "idle"
    BY <1>1, IdleIs DEF OthersKept
  <2> QED
    BY <2>1, OutsideIsGood DEF Completing, Mailed
<1> QED
  BY <1>1 DEF GoodInv

\* Only saving the user who has one makes a token; whose token is saved keeps
\* the account.
LEMMA TokensAndAccounts ==
    ASSUME Typed, Rounds, NEW t \in Thread, Request(t) \/ Step(t), ~SaveUser(t)
    PROVE  \A u \in User : /\ users'[u].token = users[u].token
                           /\ users[u].token # None => users'[u].account = users[u].account
<1>0. ChainTyped /\ TablesTyped /\ SoundRequest(t) /\ Requests /\ Coherent(t)
  BY TypedRequests DEF Typed, Rounds
<1>1. CASE UNCHANGED users
  BY <1>1
<1>2. CASE users' = Flushed(t)
  BY <1>0, <1>2, FlushedMarks
<1>3. CASE SaveRegistration(t)
  BY <1>0, <1>3, SaveRegistrationIs, RegistrationIsEarly
<1>4. CASE Request(t)
  BY <1>0, <1>1, <1>4, RequestStarts
<1> QED
  BY <1>1, <1>2, <1>3, <1>4
     DEF Step, FindUser, FindNobody, Send, CallReturns, CallThrows, SaveAdmin, SendTokenMail,
         SendTokenMailFails, PublishTranscript, NoTranscript, Answer

LEMMA TokensStayGood ==
    ASSUME Typed, GoodInv, world' = world, faults' \in {faults, faults + 1},
           submitted' \subseteq submitted,
           \A u \in User : /\ users'[u].token = users[u].token
                           /\ users[u].token # None => users'[u].account = users[u].account
    PROVE  TokensUntouched' /\ TokensHold'
<1>1. faults \in Nat
  BY DEF Typed, TablesTyped
<1>2. faults > 0 => faults' > 0
  BY <1>1
<1>3. TokensUntouched'
  BY DEF GoodInv, TokensUntouched
<1>4. TokensHold'
  BY <1>2 DEF GoodInv, TokensHold, HoldsTranscript, OwnedBy
<1> QED
  BY <1>3, <1>4

\* Outside of the steps of a round: the tokens are what they were.
LEMMA OutsideKeepsGood ==
    ASSUME OneAtATime, Typed, Rounds, GoodInv, NEW t \in Thread, Request(t) \/ Step(t),
           ~SaveUser(t), OthersKept(t), world' = world, faults' \in {faults, faults + 1},
           submitted' \subseteq submitted, GoodRequest(t)'
    PROVE  GoodInv'
<1>1. TokensUntouched' /\ TokensHold'
  BY TokensAndAccounts, TokensStayGood
<1> QED
  BY <1>1, InProgress, GoodRest

\* A transaction the request has sent, or one that is left over from before a
\* restart, changes nothing but what it calls.
LEMMA Untouched ==
    ASSUME ChainTyped, NEW tx \in submitted, Mines(tx), NEW k, IsContract(k),
           tx.data.fn \in Touching => tx.data.to # k
    PROVE  world'[k + 1] = world[k + 1]
<1>1. /\ k \in Nat /\ k < Len(chain) /\ chain[k + 1].data.fn = "deploy"
      /\ Len(chain) \in Nat /\ k + 1 \in 1 .. Len(chain)
  BY DEF IsContract, Deployed, ChainTyped
<1>2. SoundTx(tx)
  BY DEF Mines
<1>3. ASSUME tx.data.fn \notin Deploys
      PROVE  tx.data.to \in Nat /\ tx.data.to # k
  <2>1. CASE tx.data.fn \in Touching
    BY <1>2, <2>1 DEF SoundTx, IsContract, Deployed, Touching
  <2>2. CASE tx.data.fn = "addContract"
    BY <1>1, <1>2, <2>2 DEF SoundTx, IsRegistry, Deployed
  <2> QED
    BY <1>2, <1>3, <2>1, <2>2 DEF SoundTx, Transaction, CallSteps, Deploys, Touching
<1> QED
  BY <1>1, <1>3 DEF Mines

\* What is sent now is not mined yet.
LEMMA NewIsNotMined ==
    ASSUME ChainTyped, NEW tx, tx.nonce = Len(chain)
    PROVE  tx \notin ToSet(chain)
<1>1. Len(chain) \in Nat
  BY DEF ChainTyped
<1> QED
  BY <1>1, MinedIs

\* The steps between the mail and the calls.
LEMMA MailKeepsGood ==
    ASSUME Typed, GoodInv, NEW t \in Thread, Moves(t, "transcript"), NothingSent,
           req[t].step = "mail", UNCHANGED <<users, faults>>
    PROVE  GoodRequest(t)'
<1>1. /\ req'[t].contract = req[t].contract /\ req'[t].tx = req[t].tx
      /\ req'[t].step = "transcript" /\ UNCHANGED <<chain, world, submitted, users, faults>>
  BY DEF Moves, KeepsContract, NothingSent
<1>2. GoodRequest(t)
  BY DEF GoodInv
<1>3. ContractUntouched(t)' /\ ContractIsNew(t)'
  BY <1>1, <1>2 DEF GoodRequest, ContractUntouched, ContractIsNew, Completing, Mailed
<1>4. ContractIsFresh(t)'
  BY <1>1, <1>2 DEF GoodRequest, ContractIsFresh, At, Past, Empty
<1> QED
  BY <1>3, <1>4 DEF GoodRequest

LEMMA TranscriptKeepsGood ==
    ASSUME Typed, Rounds, GoodInv, NEW t \in Thread, PublishTranscriptDoes(t)
    PROVE  GoodRequest(t)'
<1>0. TablesTyped /\ SoundRequest(t) /\ Coherent(t) /\ GoodRequest(t)
  BY DEF Typed, Rounds, GoodInv
<1>1. /\ req'[t].contract = req[t].contract /\ req'[t].tx = req[t].tx /\ Target(t)' = Target(t)
      /\ req'[t].step = "addArtifact" /\ UNCHANGED <<chain, world, submitted>>
      /\ req[t].step = "transcript" /\ users' = Flushed(t)
  BY DEF PublishTranscriptDoes, Writes, KeepsWork, NothingSent, Target
<1>2. req[t].tx = None /\ None \notin ToSet(chain)
  BY <1>0, <1>1, MinedIs DEF SoundRequest, CallSteps, Typed
<1>3. /\ \A u \in User : users'[u].token = users[u].token
      /\ req'[t].content = DocOf[Target(t)] \/ (req'[t].content = NoContent /\ faults' > 0)
  <2>1. faults \in Nat
    BY <1>0 DEF TablesTyped
  <2> QED
    BY <1>0, <1>1, <2>1, FlushedMarks DEF PublishTranscriptDoes
<1>4. ContractUntouched(t)' /\ ContractIsNew(t)'
  BY <1>0, <1>1, <1>3 DEF GoodRequest, ContractUntouched, ContractIsNew, Completing, Mailed
<1>5. ContractIsFresh(t)'
  BY <1>0, <1>1, <1>2, <1>3 DEF GoodRequest, ContractIsFresh, At, Past, Empty
<1> QED
  BY <1>4, <1>5 DEF GoodRequest

\* The contract of the request is newer than every contract of a token, and
\* nobody else sends to it.
LEMMA SendKeepsGood ==
    ASSUME OneAtATime, Typed, Rounds, GoodInv, NEW t \in Thread,
           imported = Len(chain), Send(t), SendDoes(t)
    PROVE  GoodInv'
<1>0. ChainTyped /\ TablesTyped /\ SoundRequest(t) /\ GoodRequest(t) /\ Len(chain) \in Nat
      /\ imported \in Nat
  BY DEF Typed, ChainTyped, Imported, GoodInv
<1>1. /\ submitted' = submitted \cup {NewTx(t)} /\ req'[t].tx = NewTx(t) /\ req[t].tx = None
      /\ UNCHANGED <<users, chain, world, faults>> /\ req'[t].step = req[t].step
      /\ req'[t].contract = req[t].contract /\ req'[t].content = req[t].content
      /\ Target(t)' = Target(t) /\ OthersKept(t) /\ req[t].step \in CallSteps
  BY DEF SendDoes, KeepsWork, KeepsContract, Target
<1>2. /\ SoundTx(NewTx(t)) /\ NewTx(t).data.fn = req[t].step /\ NewTx(t).nonce = Len(chain)
      /\ NewTx(t).data = Data(t)
  BY <1>0, <1>1, SentIsSound DEF NewTx
<1>3. NewTx(t) \notin ToSet(chain) /\ None \notin ToSet(chain)
  BY <1>0, <1>2, NewIsNotMined, MinedIs
<1>4. ASSUME req[t].step \in Touching
      PROVE  NewTx(t).data.to = req[t].contract /\ req[t].step \in Completing \ {"deploy"}
  BY <1>2, <1>4 DEF Data, Touching, Completing, Mailed
<1>5. \A u \in User : users[u].token # None =>
          users[u].token \in Nat /\ users[u].token < Len(chain)
  BY <1>0 DEF TablesTyped, SoundRow, IsContract, Deployed
<1>6. TokensUntouched'
  <2> SUFFICES ASSUME NEW tx \in submitted', tx.data.fn \in Touching, NEW u \in User
               PROVE  users[u].token # tx.data.to
    BY <1>1 DEF TokensUntouched
  <2>1. CASE tx \in submitted
    BY <2>1 DEF GoodInv, TokensUntouched
  <2>2. CASE tx = NewTx(t)
    <3>1. tx.data.to = req[t].contract /\ req[t].step \in Completing \ {"deploy"}
      BY <1>2, <1>4, <2>2
    <3>2. IsContract(req[t].contract)
      BY <1>0, <3>1 DEF SoundRequest
    <3>3. req[t].contract # None /\ req[t].contract \in Nat
      BY <3>2, NoneAssumption DEF IsContract, Deployed
    <3> QED
      BY <1>0, <1>5, <3>1, <3>3 DEF GoodRequest, ContractIsNew
  <2> QED
    BY <1>1, <2>1, <2>2
<1>7. TokensHold'
  BY <1>1 DEF GoodInv, TokensHold, HoldsTranscript, OwnedBy
<1>8. ContractUntouched(t)'
  <2> SUFFICES ASSUME req[t].step \in Completing \ {"deploy"}, NEW tx \in submitted',
                      tx.data.fn \in Touching, tx.data.to = req[t].contract
               PROVE  tx = NewTx(t)
    BY <1>1 DEF ContractUntouched
  <2>1. CASE tx \in submitted
    <3>1. tx = None
      BY <1>0, <1>1, <2>1 DEF GoodRequest, ContractUntouched
    <3>2. tx \in Transaction
      BY <1>0, <2>1 DEF ChainTyped, SoundTx
    <3> QED
      BY <3>1, <3>2, NoneAssumption
  <2> QED
    BY <1>1, <2>1
<1>9. ContractIsNew(t)'
  BY <1>0, <1>1, <1>2, <1>5 DEF GoodRequest, ContractIsNew
<1>10. ContractIsFresh(t)'
  BY <1>0, <1>1, <1>3 DEF GoodRequest, ContractIsFresh, At, Past, Empty, HoldsTranscript, OwnedBy
<1> QED
  BY <1>1, <1>6, <1>7, <1>8, <1>9, <1>10, InProgress, GoodRest DEF GoodRequest, Step

\* When a call returns nothing is left to mine; what it was for is done.
LEMMA ReturnKeepsGood ==
    ASSUME OneAtATime, Typed, Rounds, Pending, GoodInv, NEW t \in Thread, CallReturnsDoes(t)
    PROVE  GoodRequest(t)'
<1>0. ChainTyped /\ TablesTyped /\ SoundRequest(t) /\ GoodRequest(t)
  BY DEF Typed, GoodInv
<1>1. /\ UNCHANGED <<users, chain, world, submitted, faults>>
      /\ req'[t].tx = None /\ req[t].tx \in ToSet(chain) /\ req'[t].content = req[t].content
      /\ Target(t)' = Target(t) /\ req'[t].step = After[req[t].step] /\ req[t].step \in CallSteps
      /\ req'[t].contract = IF req[t].step \in {"deployRegistry", "deploy"}
                            THEN req[t].tx.nonce ELSE req[t].contract
  BY DEF CallReturnsDoes, KeepsWork, NothingSent, Target
<1>2. submitted' = {} /\ req[t].tx # None /\ None \notin ToSet(chain)
  BY <1>0, <1>1, NothingLeft, MinedIs
<1>3. ContractUntouched(t)'
  BY <1>2 DEF ContractUntouched
<1>4. CASE req[t].step = "deployRegistry"
  <2>1. req'[t].step = "saveAdmin"
    BY <1>1, <1>4 DEF After
  <2> QED
    BY <2>1, OutsideIsGood DEF Completing, Mailed
<1>5. CASE req[t].step = "deploy"
  <2>1. req'[t].step = "mail" /\ req'[t].contract = req[t].tx.nonce
    BY <1>1, <1>5 DEF After
  <2>2. ContractIsNew(t)'
    BY <1>0, <1>1, <1>2, <1>5, <2>1 DEF GoodRequest, ContractIsNew
  <2>3. ContractIsFresh(t)'
    BY <1>0, <1>1, <1>5, <2>1 DEF GoodRequest, ContractIsFresh, At, Past, Empty
  <2> QED
    BY <1>3, <2>2, <2>3 DEF GoodRequest
<1>6. CASE req[t].step \in {"addArtifact", "assignOwner", "addContract"}
  <2>1. req'[t].contract = req[t].contract
    BY <1>1, <1>6
  <2>2. /\ req[t].step = "addArtifact" => req'[t].step = "assignOwner"
        /\ req[t].step = "assignOwner" => req'[t].step = "addContract"
        /\ req[t].step = "addContract" => req'[t].step = "saveUser"
    BY <1>1 DEF After
  <2>3. ContractIsNew(t)'
    BY <1>0, <1>1, <1>6, <2>1, <2>2 DEF GoodRequest, ContractIsNew, Completing, Mailed
  <2>4. ContractIsFresh(t)'
    <3>1. HoldsTranscript(req[t].contract, Target(t))
      BY <1>0, <1>1, <1>6 DEF GoodRequest, ContractIsFresh, Past
    <3>2. req[t].step \in {"assignOwner", "addContract"} =>
              OwnedBy(req[t].contract, users[Target(t)].account)
      BY <1>0, <1>1, <1>6 DEF GoodRequest, ContractIsFresh, Past
    <3> QED
      BY <1>1, <1>2, <1>6, <2>1, <2>2, <3>1, <3>2
         DEF ContractIsFresh, At, Past, HoldsTranscript, OwnedBy
  <2> QED
    BY <1>3, <2>3, <2>4 DEF GoodRequest
<1> QED
  BY <1>1, <1>4, <1>5, <1>6 DEF CallSteps

\* The token that is saved is the contract the request has filled.
LEMMA SaveUserKeepsGood ==
    ASSUME OneAtATime, Typed, Rounds, GoodInv, NEW t \in Thread, SaveUser(t), SaveUserDoes(t)
    PROVE  GoodInv'
<1> DEFINE u == Target(t)
<1>0. /\ ChainTyped /\ TablesTyped /\ SoundRequest(t) /\ GoodRequest(t)
      /\ Coherent(t) /\ RoundIsOne(t)
  BY DEF Typed, GoodInv, Rounds
<1>1. /\ req[t].step = "saveUser" /\ UNCHANGED <<chain, world, submitted, faults>>
      /\ OthersKept(t) /\ users' = [Flushed(t) EXCEPT ![u] = Saved(t)]
      /\ req'[t].step \notin Completing
  BY DEF SaveUserDoes, NothingSent, Completing, Mailed
<1>2. /\ req[t].dirty = {} /\ u \in User /\ req[t].cache[u] # None /\ req[t].tx = None
      /\ IsContract(req[t].contract)
  BY <1>0, <1>1, SavedIsSound
     DEF RoundIsOne, SoundRequest, Completing, Mailed, Verdicts, CallSteps
<1>3. /\ Saved(t).token = req[t].contract /\ Saved(t).account = users[u].account
  <2>1. req[t].cache[u] = users[u]
    BY <1>0, <1>2 DEF Coherent
  <2> QED
    BY <1>0, <1>2, <2>1 DEF Saved, TablesTyped, UserRow
<1>4. \A v \in User : users'[v] = IF v = u THEN Saved(t) ELSE users[v]
  <2>1. Flushed(t) \in [User -> UserRow] /\ \A v \in User : Flushed(t)[v] = users[v]
    BY <1>0, <1>2, FlushedIsSound DEF Flushed
  <2> QED
    BY <1>1, <2>1
<1>5. /\ HoldsTranscript(req[t].contract, u)
      /\ OwnedBy(req[t].contract, users[u].account)
  BY <1>0, <1>1 DEF GoodRequest, ContractIsFresh, Past
<1>6. \A tx \in submitted : tx.data.fn \in Touching => tx.data.to # req[t].contract
  <2>1. \A tx \in submitted : tx # None
    BY <1>0, NoneAssumption DEF ChainTyped, SoundTx
  <2> QED
    BY <1>0, <1>1, <1>2, <2>1 DEF GoodRequest, ContractUntouched, Completing, Mailed
<1> HIDE DEF u
<1>7. TokensUntouched'
  BY <1>1, <1>3, <1>4, <1>6 DEF GoodInv, TokensUntouched
<1>8. TokensHold'
  <2> SUFFICES ASSUME NEW v \in User, users'[v].token # None
               PROVE  HoldsTranscript(users[v].token, v)' /\ OwnedBy(users[v].token, users[v].account)'
    BY DEF TokensHold
  <2>1. CASE v = u
    BY <1>1, <1>3, <1>4, <1>5, <2>1 DEF HoldsTranscript, OwnedBy
  <2>2. CASE v # u
    BY <1>1, <1>4, <2>2 DEF GoodInv, TokensHold, HoldsTranscript, OwnedBy
  <2> QED
    BY <2>1, <2>2
<1>9. GoodRequest(t)'
  BY <1>1, OutsideIsGood
<1> QED
  BY <1>1, <1>7, <1>8, <1>9, InProgress, GoodRest DEF Step

LEMMA StepKeepsGood ==
    ASSUME OneAtATime, Typed, Rounds, Pending, GoodInv, NEW t \in Thread, Request(t) \/ Step(t),
           Send(t) => imported = Len(chain)
    PROVE  GoodInv'
<1>0. ChainTyped /\ TablesTyped /\ SoundRequest(t) /\ Requests
  BY TypedRequests DEF Typed
<1>1. ASSUME OthersKept(t), NothingSent, faults' \in {faults, faults + 1}, ~SaveUser(t),
             \/ req'[t].step \notin Completing
             \/ GoodRequest(t)'
      PROVE  GoodInv'
  BY <1>1, OutsideIsGood, OutsideKeepsGood DEF NothingSent
<1>2. CASE SaveRegistration(t)
  BY <1>0, <1>1, <1>2, SaveRegistrationIs, IdleIs
     DEF SaveRegistrationDoes, Ends, Completing, Mailed, SaveUser
<1>3. CASE FindUser(t)
  <2>1. FindUserDoes(t) /\ ~SaveUser(t)
    BY <1>0, <1>3, FindUserIs DEF FindUser, SaveUser
  <2>2. req'[t].step = "deploy" /\ req'[t].tx = None /\ None \notin ToSet(chain') /\ chain' = chain
    BY <1>0, <2>1, MinedIs DEF FindUserDoes, SoundRequest, CallSteps, NothingSent
  <2>3. GoodRequest(t)'
    BY <2>2 DEF GoodRequest, ContractUntouched, ContractIsNew, ContractIsFresh, At, Past
  <2> QED
    BY <1>1, <2>1, <2>3 DEF FindUserDoes
<1>4. CASE FindNobody(t)
  <2>1. req'[t].step \notin Completing /\ ~SaveUser(t)
    BY <1>0, <1>4, FindNobodyIs, RefusalIsVerdict
       DEF FindNobodyDoes, Completing, Mailed, SaveUser, FindNobody
  <2> QED
    BY <1>0, <1>1, <1>4, <2>1, FindNobodyIs DEF FindNobodyDoes
<1>5. CASE Send(t)
  BY <1>0, <1>5, SendIs, SendKeepsGood
<1>6. CASE CallReturns(t)
  <2>1. CallReturnsDoes(t) /\ ~SaveUser(t)
    BY <1>0, <1>6, CallReturnsIs DEF CallReturns, SaveUser, CallSteps
  <2> QED
    BY <1>1, <2>1, ReturnKeepsGood DEF CallReturnsDoes
<1>7. CASE CallThrows(t)
  <2>1. CallThrowsDoes(t) /\ ~SaveUser(t)
    BY <1>0, <1>7, CallThrowsIs DEF CallThrows, SaveUser, CallSteps
  <2> QED
    BY <1>1, <2>1 DEF CallThrowsDoes, Moves, Completing, Mailed
<1>8. CASE SaveAdmin(t)
  <2>1. SaveAdminDoes(t) /\ ~SaveUser(t)
    BY <1>0, <1>8, SaveAdminIs DEF SaveAdmin, SaveUser
  <2> QED
    BY <1>1, <2>1 DEF SaveAdminDoes, Moves, Completing, Mailed
<1>9. CASE SendTokenMail(t)
  <2>1. SendTokenMailDoes(t) /\ ~SaveUser(t)
    BY <1>0, <1>9, SendTokenMailIs DEF SendTokenMail, SaveUser
  <2> QED
    BY <1>1, <2>1, MailKeepsGood DEF SendTokenMailDoes, Moves
<1>10. CASE SendTokenMailFails(t)
  <2>1. SendTokenMailFailsDoes(t) /\ ~SaveUser(t)
    BY <1>0, <1>10, SendTokenMailFailsIs DEF SendTokenMailFails, SaveUser
  <2>2. req'[t].step \notin Completing
    BY <2>1, RefusalIsVerdict DEF SendTokenMailFailsDoes, Moves, Completing, Mailed
  <2> QED
    BY <1>1, <2>1, <2>2 DEF SendTokenMailFailsDoes, Moves
<1>11. CASE PublishTranscript(t)
  <2>1. PublishTranscriptDoes(t) /\ ~SaveUser(t)
    BY <1>0, <1>11, PublishTranscriptIs DEF PublishTranscript, SaveUser
  <2> QED
    BY <1>1, <2>1, TranscriptKeepsGood DEF PublishTranscriptDoes, Writes
<1>12. CASE NoTranscript(t)
  <2>1. NoTranscriptDoes(t) /\ ~SaveUser(t)
    BY <1>0, <1>12, NoTranscriptIs DEF NoTranscript, SaveUser
  <2> QED
    BY <1>1, <2>1 DEF NoTranscriptDoes, Writes, Completing, Mailed
<1>13. CASE SaveUser(t)
  BY <1>0, <1>13, SaveUserIs, SaveUserKeepsGood
<1>14. CASE Answer(t)
  <2>1. AnswerDoes(t) /\ ~SaveUser(t)
    BY <1>0, <1>14, AnswerIs DEF Answer, SaveUser, Verdicts
  <2> QED
    BY <1>1, <2>1, IdleIs DEF AnswerDoes, Ends, Completing, Mailed
<1>15. CASE Request(t)
  <2>1. /\ OthersKept(t) /\ NothingSent /\ faults' = faults
        /\ req'[t].step \in {"deployRegistry", "find", "saveRegistration"}
    BY <1>0, <1>15, RequestStarts
       DEF PublishStarts, CompleteStarts, CompleteAllStarts, RegistrationStarts, StartsWith
  <2>2. ~SaveUser(t)
    BY <1>0, <1>15, RequestStarts DEF MayStart, SaveUser
  <2> QED
    BY <1>1, <2>1, <2>2 DEF Completing, Mailed
<1> QED
  BY <1>2, <1>3, <1>4, <1>5, <1>6, <1>7, <1>8, <1>9, <1>10, <1>11, <1>12, <1>13, <1>14, <1>15
     DEF Step

\* What the request's own calls do to the contract (Unilog.sol:31-60).
LEMMA OwnCallIsGood ==
    ASSUME Typed, NEW tx \in submitted, Mines(tx), NEW k, IsContract(k),
           tx.data.fn \in Touching, tx.data.to = k
    PROVE  /\ tx.data.fn = "addArtifact" =>
                  world'[k + 1].artifacts =
                      Append(world[k + 1].artifacts,
                             [artifactAddress |-> tx.data.arg, active |-> TRUE,
                              expirationDate |-> ExpirationDate(0, VALID_FOR_10_YEARS)])
           /\ tx.data.fn = "assignOwner" =>
                  /\ world'[k + 1].artifacts = world[k + 1].artifacts
                  /\ tx.data.arg # Unilog => world'[k + 1].artifactOwner = tx.data.arg
<1>1. /\ k \in Nat /\ k < Len(chain) /\ chain[k + 1].data.fn = "deploy"
      /\ Len(chain) \in Nat /\ k + 1 \in 1 .. Len(chain)
  BY DEF IsContract, Deployed, Typed, ChainTyped
<1>2. world[k + 1] \in ContractRow
  BY <1>1 DEF Typed, ChainTyped
<1>3. world'[k + 1] = Called(tx.data)
  BY <1>1 DEF Mines, Deploys, Touching
<1>4. CASE tx.data.fn = "addArtifact"
  BY <1>2, <1>3, <1>4 DEF Called, AddArtifact, ContractRow
<1>5. CASE tx.data.fn = "assignOwner"
  BY <1>2, <1>3, <1>5 DEF Called, AssignArtifactOwner, ContractRow
<1> QED
  BY <1>4, <1>5

LEMMA MinedNow ==
    ASSUME ChainTyped, NEW tx \in submitted, Mines(tx), NEW other \in ToSet(chain')
    PROVE  other = tx \/ other \in ToSet(chain)
<1>1. /\ chain \in Seq(Transaction) /\ chain' = Append(chain, tx)
      /\ \A i \in 1 .. Len(chain) : chain'[i] = chain[i]
      /\ chain'[Len(chain) + 1] = tx /\ Len(chain') = Len(chain) + 1 /\ Len(chain) \in Nat
  BY DEF ChainTyped, Mines
<1>2. DOMAIN chain' = 1 .. Len(chain) + 1 /\ DOMAIN chain = 1 .. Len(chain)
  BY <1>1
<1>3. PICK i \in 1 .. Len(chain) + 1 : other = chain'[i]
  BY <1>2 DEF ToSet
<1>4. CASE i = Len(chain) + 1
  BY <1>1, <1>3, <1>4
<1>5. CASE i \in 1 .. Len(chain)
  BY <1>1, <1>2, <1>3, <1>5 DEF ToSet
<1> QED
  BY <1>1, <1>4, <1>5

LEMMA MineKeepsFresh ==
    ASSUME Typed, Rounds, Pending, GoodInv, NEW tx \in submitted, Mines(tx), NEW t \in Thread
    PROVE  ContractIsFresh(t)'
<1> DEFINE k == req[t].contract
           u == Target(t)
<1>0. /\ ChainTyped /\ TablesTyped /\ SoundRequest(t) /\ GoodRequest(t) /\ Coherent(t)
      /\ RoundIsOne(t) /\ Len(chain) \in Nat /\ imported \in Nat
  BY DEF Typed, GoodInv, Rounds, ChainTyped, Imported
<1>1. /\ UNCHANGED <<users, req, faults>> /\ Target(t)' = u /\ SoundTx(tx) /\ tx # None
  BY NoneAssumption DEF Mines, Target, SoundTx
<1>2. req[t].tx \notin ToSet(chain)
  BY NothingLeft
<1>3. req'[t].tx \in ToSet(chain') => req[t].tx = tx
  BY <1>0, <1>1, <1>2, MinedNow
<1>4. req[t].tx = tx => /\ tx.data = Data(t) /\ tx.data.fn = req[t].step
                        /\ req[t].step \in CallSteps
  BY <1>0, <1>1, SentIsSound DEF SoundRequest
<1>5. ASSUME req[t].step \in Completing \ {"deploy"}
      PROVE  /\ IsContract(k)
             /\ tx.data.fn \in Touching /\ tx.data.to = k => req[t].tx = tx
             /\ req[t].tx # tx => world'[k + 1] = world[k + 1]
             /\ tx.data.fn \notin Touching => world'[k + 1] = world[k + 1]
  <2>1. IsContract(k)
    BY <1>0, <1>5 DEF SoundRequest
  <2>2. tx.data.fn \in Touching /\ tx.data.to = k => req[t].tx = tx
    BY <1>0, <1>5 DEF GoodRequest, ContractUntouched
  <2> QED
    BY <1>0, <2>1, <2>2, Untouched
<1>6. ASSUME req'[t].step = "deploy", req'[t].tx \in ToSet(chain')
      PROVE  Empty(req[t].tx.nonce)'
  <2>1. req[t].tx = tx /\ tx.data.fn = "deploy" /\ tx.nonce = Len(chain)
    BY <1>1, <1>3, <1>4, <1>6 DEF Mines
  <2>2. world'[Len(chain) + 1] = NewContract(Unilog)
    BY <2>1 DEF Mines, New, Deploys
  <2>3. world'[req'[t].tx.nonce + 1] = NewContract(Unilog)
    BY <1>1, <2>1, <2>2
  <2> QED
    BY <2>3 DEF Empty, NewContract
<1>7. ASSUME \/ req'[t].step \in {"mail", "transcript"}
             \/ req'[t].step = "addArtifact" /\ req'[t].tx \notin ToSet(chain')
      PROVE  Empty(req[t].contract)'
  <2>1. req[t].tx # tx
    <3>1. CASE req[t].step \in {"mail", "transcript"}
      BY <1>4, <3>1 DEF CallSteps
    <3>2. CASE req[t].step = "addArtifact" /\ req'[t].tx \notin ToSet(chain')
      <4>1. tx \in ToSet(chain')
        <5>1. Len(chain) + 1 \in 1 .. Len(chain') /\ chain'[Len(chain) + 1] = tx
          BY <1>0 DEF Mines
        <5>2. DOMAIN chain' = 1 .. Len(chain')
          BY <1>0 DEF Mines, ChainTyped, SoundTx
        <5> QED
          BY <5>1, <5>2 DEF ToSet
      <4> QED
        BY <1>1, <3>2, <4>1
    <3> QED
      BY <1>1, <1>7, <3>1, <3>2
  <2>2. Empty(k)
    BY <1>0, <1>1, <1>2, <1>7 DEF GoodRequest, ContractIsFresh, At
  <2>3. world'[k + 1] = world[k + 1]
    BY <1>1, <1>5, <1>7, <2>1 DEF Completing, Mailed
  <2> QED
    BY <1>1, <2>2, <2>3 DEF Empty
<1>8. ASSUME \/ req'[t].step = "addArtifact" /\ req'[t].tx \in ToSet(chain')
             \/ req'[t].step \in {"assignOwner", "addContract", "saveUser"}
      PROVE  HoldsTranscript(req[t].contract, Target(t))'
  <2>0. req[t].step \in Completing \ {"deploy"}
    BY <1>1, <1>8 DEF Completing, Mailed
  <2>1. CASE req[t].step = "addArtifact" /\ req'[t].tx \in ToSet(chain')
    <3>1. /\ req[t].tx = tx /\ tx.data.fn = "addArtifact" /\ tx.data.to = k
          /\ tx.data.arg = req[t].content
      BY <1>3, <1>4, <2>1 DEF Data
    <3>2. Empty(k)
      BY <1>0, <1>2, <2>1 DEF GoodRequest, ContractIsFresh, At
    <3>3. world'[k + 1].artifacts =
              Append(<<>>, [artifactAddress |-> req[t].content, active |-> TRUE,
                            expirationDate |-> ExpirationDate(0, VALID_FOR_10_YEARS)])
      BY <1>5, <2>0, <3>1, <3>2, OwnCallIsGood DEF Touching, Empty
    <3>4. /\ Len(world'[k + 1].artifacts) = 1
          /\ world'[k + 1].artifacts[1].artifactAddress = req[t].content
      BY <3>3
    <3>5. req[t].content = DocOf[u] \/ (req[t].content = NoContent /\ faults > 0)
      BY <1>0, <2>1 DEF GoodRequest, ContractIsFresh
    <3> QED
      BY <1>1, <3>4, <3>5 DEF HoldsTranscript
  <2>2. CASE req[t].step \in {"assignOwner", "addContract", "saveUser"}
    <3>1. HoldsTranscript(k, u)
      BY <1>0, <2>2 DEF GoodRequest, ContractIsFresh, Past
    <3>2. world'[k + 1].artifacts = world[k + 1].artifacts
      <4>1. CASE tx.data.fn \in Touching /\ tx.data.to = k
        <5>1. tx.data.fn = "assignOwner"
          BY <1>4, <1>5, <2>0, <2>2, <4>1 DEF Touching
        <5> QED
          BY <1>5, <2>0, <4>1, <5>1, OwnCallIsGood
      <4>2. CASE ~(tx.data.fn \in Touching /\ tx.data.to = k)
        BY <1>0, <1>5, <2>0, <4>2, Untouched
      <4> QED
        BY <4>1, <4>2
    <3> QED
      BY <1>1, <3>1, <3>2 DEF HoldsTranscript
  <2> QED
    BY <1>1, <1>8, <2>1, <2>2
<1>9. ASSUME \/ req'[t].step = "assignOwner" /\ req'[t].tx \in ToSet(chain')
             \/ req'[t].step \in {"addContract", "saveUser"}
      PROVE  OwnedBy(req[t].contract, users[Target(t)].account)'
  <2>0. req[t].step \in Completing \ {"deploy"}
    BY <1>1, <1>9 DEF Completing, Mailed
  <2>1. CASE req[t].step = "assignOwner" /\ req'[t].tx \in ToSet(chain')
    <3>1. /\ req[t].tx = tx /\ tx.data.fn = "assignOwner" /\ tx.data.to = k
          /\ tx.data.arg = req[t].cache[u].account
      BY <1>3, <1>4, <2>1 DEF Data
    <3>2. req[t].cache[u].account = users[u].account
      <4>1. u \in User /\ req[t].cache[u] # None /\ u \notin req[t].dirty
        BY <1>0, <2>0, <2>1 DEF SoundRequest, RoundIsOne, Target, Verdicts
      <4> QED
        BY <1>0, <4>1 DEF Coherent
    <3>3. tx.data.arg # Unilog => world'[k + 1].artifactOwner = tx.data.arg
      BY <1>5, <2>0, <3>1, OwnCallIsGood DEF Touching
    <3> QED
      BY <1>1, <3>1, <3>2, <3>3 DEF OwnedBy
  <2>2. CASE req[t].step \in {"addContract", "saveUser"}
    <3>1. OwnedBy(k, users[u].account)
      BY <1>0, <2>2 DEF GoodRequest, ContractIsFresh, Past
    <3>2. world'[k + 1] = world[k + 1]
      <4>1. tx.data.fn \in Touching => req[t].tx # tx
        BY <1>4, <2>2 DEF Touching
      <4> QED
        BY <1>5, <2>0, <4>1
    <3> QED
      BY <1>1, <3>1, <3>2 DEF OwnedBy
  <2> QED
    BY <1>1, <1>9, <2>1, <2>2
<1>10. req'[t].step = "addArtifact" =>
           req'[t].content = DocOf[Target(t)'] \/ (req'[t].content = NoContent /\ faults' > 0)
  BY <1>0, <1>1 DEF GoodRequest, ContractIsFresh
<1> QED
  BY <1>6, <1>7, <1>8, <1>9, <1>10 DEF ContractIsFresh, At, Past

LEMMA MineKeepsGood ==
    ASSUME Typed, Rounds, Pending, GoodInv, Mine
    PROVE  GoodInv'
<1>0. ChainTyped /\ TablesTyped /\ Len(chain) \in Nat
  BY DEF Typed, ChainTyped
<1>1. PICK tx \in submitted : Mines(tx)
  BY <1>0, MineIs
<1>2. /\ UNCHANGED <<users, req, faults>>
      /\ submitted' = {other \in submitted : other.nonce > Len(chain)}
  BY <1>1 DEF Mines
<1>3. submitted' = {}
  BY <1>0, <1>2 DEF Pending
<1>4. TokensUntouched'
  BY <1>3 DEF TokensUntouched
<1>5. TokensHold'
  <2> SUFFICES ASSUME NEW u \in User, users'[u].token # None
               PROVE  HoldsTranscript(users[u].token, u)' /\ OwnedBy(users[u].token, users[u].account)'
    BY DEF TokensHold
  <2>1. /\ IsContract(users[u].token)
        /\ HoldsTranscript(users[u].token, u) /\ OwnedBy(users[u].token, users[u].account)
    BY <1>0, <1>2 DEF TablesTyped, SoundRow, GoodInv, TokensHold
  <2>2. tx.data.fn \in Touching => tx.data.to # users[u].token
    BY DEF GoodInv, TokensUntouched
  <2>3. world'[users[u].token + 1] = world[users[u].token + 1]
    BY <1>0, <1>1, <2>1, <2>2, Untouched
  <2> QED
    BY <1>2, <2>1, <2>3 DEF HoldsTranscript, OwnedBy
<1>6. ASSUME NEW t \in Thread PROVE GoodRequest(t)'
  <2>1. ContractUntouched(t)'
    BY <1>3 DEF ContractUntouched
  <2>2. ContractIsNew(t)'
    BY <1>2 DEF GoodInv, GoodRequest, ContractIsNew
  <2> QED
    BY <1>1, <2>1, <2>2, MineKeepsFresh DEF GoodRequest
<1> QED
  BY <1>4, <1>5, <1>6 DEF GoodInv

LEMMA GoodNext ==
    /\ OneAtATime /\ Typed /\ Rounds /\ SentInv /\ (InSync => GoodInv) /\ [Next]_vars
    => (InSync => GoodInv)'
<1> SUFFICES ASSUME OneAtATime, Typed, Rounds, SentInv, InSync => GoodInv, [Next]_vars, InSync'
             PROVE  GoodInv'
  OBVIOUS
<1>0. InSync /\ GoodInv /\ Pending
  <2>1. life' = life \/ (life' = life + 1 /\ life \in Nat)
    BY DEF Next, Import, Restart, vars, Typed, TablesTyped
  <2>2. InSync
    BY <2>1 DEF InSync
  <2> QED
    BY <2>2 DEF SentInv
<1>1. CASE Mine
  BY <1>0, <1>1, MineKeepsGood
<1>2. ASSUME NEW t \in Thread, Request(t) \/ Step(t) PROVE GoodInv'
  BY <1>0, <1>2, NonceIsNext, StepKeepsGood
<1>3. CASE Restart
  <2>1. users' = [u \in User |-> NewUser] /\ req' = [t \in Thread |-> Idle]
    BY <1>3 DEF Restart
  <2>2. TokensHold' /\ TokensUntouched'
    <3>1. \A u \in User : users'[u].token = None
      BY <2>1 DEF NewUser
    <3>2. \A tx \in submitted' : tx.data.fn \in Touching => tx.data.to # None
      <4>1. \A tx \in submitted' : SoundTx(tx)
        BY <1>3 DEF Restart, Typed, ChainTyped
      <4> QED
        BY <4>1, NoneAssumption DEF SoundTx, IsContract, Deployed, Touching
    <3> QED
      BY <3>1, <3>2 DEF TokensHold, TokensUntouched
  <2>3. \A t \in Thread : GoodRequest(t)'
    BY <2>1, IdleIs, OutsideIsGood DEF Completing, Mailed
  <2> QED
    BY <2>2, <2>3 DEF GoodInv
<1>4. CASE Import \/ UNCHANGED vars
  <2>0. Rests
    BY <1>4, ImportIs
  <2>1. TokensHold' /\ TokensUntouched'
    BY <1>0, <2>0 DEF Rests, GoodInv, TokensHold, TokensUntouched, HoldsTranscript, OwnedBy
  <2>2. \A t \in Thread : GoodRequest(t)'
    BY <1>0, <2>0 DEF Rests, GoodInv, GoodRequest, ContractUntouched, ContractIsNew, ContractIsFresh,
                At, Past, Empty, HoldsTranscript, OwnedBy, Target
  <2> QED
    BY <2>1, <2>2 DEF GoodInv
<1> QED
  BY <1>1, <1>2, <1>3, <1>4 DEF Next, Running

\* What verifyArtifact answers of a contract that holds the transcript: a
\* period ends later than at 0, or never.
LEMMA HeldIsVerified ==
    ASSUME Typed, NEW k, IsContract(k), Len(world[k + 1].artifacts) = 1
    PROVE  VerifyArtifact(world[k + 1], 0, 0) = world[k + 1].artifacts[1].artifactAddress
<1> DEFINE c == world[k + 1]
           first == c.artifacts[1]
<1>1. c \in ContractRow
  BY DEF IsContract, Deployed, Typed, ChainTyped
<1>2. first \in Artifact
  BY <1>1 DEF ContractRow
<1>3. first.expirationDate = 0 \/ 0 < first.expirationDate
  <2>1. first.expirationDate \in 0 .. WordSize - 1 /\ WordSize \in Nat
    BY <1>2, WordAssumption DEF Artifact, Word
  <2> QED
    BY <2>1
<1>4. Exists(c, 0)
  BY DEF Exists
<1>5. c.artifacts[0 + 1] = first
  OBVIOUS
<1> HIDE DEF c, first
<1>6. VerifyArtifact(c, 0, 0) = first.artifactAddress
  BY <1>3, <1>4, <1>5 DEF VerifyArtifact
<1> QED
  BY <1>6 DEF c, first

(***************************************************************************)
(* When requests come one at a time, and until the first restart or when a *)
(* nonce is read only by a node that is in sync, every saved token is good,*)
(* whatever fails: one artifact, the user's transcript (or nothing, after  *)
(* an IPFS failure), which belongs to the account the user registered, in  *)
(* a registry that was e-mailed (AdminServiceImpl.java:115-146,            *)
(* Client.java:170, Unilog.sol).                                           *)
(***************************************************************************)
THEOREM TokensAreGood ==
    ASSUME OneAtATime
    PROVE  Spec => [](AfterSync \/ life = 0 => TokenIsGood)
<1> DEFINE Inv == Typed /\ RegisteredInv /\ Rounds /\ SentInv /\ (InSync => GoodInv)
<1>1. Init => Inv
  BY TypedInit, RegisteredInit, RoundsInit, SentInit, GoodInit
<1>2. Inv /\ [Next]_vars => Inv'
  BY TypedNext, RegisteredNext, RoundsNext, SentNext, GoodNext
<1>3. Inv => (AfterSync \/ life = 0 => TokenIsGood)
  <2> SUFFICES ASSUME Typed, RegisteredInv, GoodInv, NEW u \in User, users[u].token # None
               PROVE  LET c == world[users[u].token + 1]
                      IN  /\ Len(c.artifacts) = 1
                          /\ \/ VerifyArtifact(c, 0, 0) = DocOf[u]
                             \/ VerifyArtifact(c, 0, 0) = NoContent /\ faults > 0
                          /\ users[u].account # Unilog => c.artifactOwner = users[u].account
                          /\ \E m \in mails :
                                 /\ m.user = u /\ m.contract = users[u].token
                                 /\ RegistryContains(world[m.registry + 1], m.contract)
    BY DEF TokenIsGood, InSync
  <2>1. IsContract(users[u].token)
    BY DEF Typed, TablesTyped, SoundRow
  <2>2. HoldsTranscript(users[u].token, u) /\ OwnedBy(users[u].token, users[u].account)
    BY DEF GoodInv, TokensHold
  <2>3. VerifyArtifact(world[users[u].token + 1], 0, 0)
            = world[users[u].token + 1].artifacts[1].artifactAddress
    BY <2>1, <2>2, HeldIsVerified DEF HoldsTranscript
  <2>4. \E m \in mails : /\ m.user = u /\ m.contract = users[u].token
                         /\ RegistryContains(world[m.registry + 1], m.contract)
    BY DEF RegisteredInv, TokenIsRegistered
  <2> QED
    BY <2>2, <2>3, <2>4 DEF HoldsTranscript, OwnedBy
<1> HIDE DEF Inv
<1> QED
  BY <1>1, <1>2, <1>3, PTL DEF Spec

-----------------------------------------------------------------------------
(***************************************************************************)
(* Requests that come one at a time: AnswerInv is inductive.               *)
(***************************************************************************)
LEMMA SetOfTail ==
    ASSUME NEW S, NEW s \in Seq(S), s # <<>>
    PROVE  ToSet(s) \subseteq {Head(s)} \cup ToSet(Tail(s))
<1> SUFFICES ASSUME NEW i \in 1 .. Len(s), s[i] # Head(s)
             PROVE  s[i] \in ToSet(Tail(s))
  BY DEF ToSet
<1>1. Head(s) = s[1] /\ Len(s) \in Nat
  OBVIOUS
<1>2. i # 1
  BY <1>1
<1>3. i - 1 \in 1 .. Len(s) - 1
  BY <1>1, <1>2
<1>4. Tail(s) \in Seq(S) /\ Len(Tail(s)) = Len(s) - 1
  OBVIOUS
<1>5. Tail(s)[i - 1] = s[i]
  BY <1>3, <1>1
<1>6. i - 1 \in DOMAIN Tail(s)
  BY <1>3, <1>4
<1> QED
  BY <1>5, <1>6 DEF ToSet

LEMMA SetOfAppend ==
    ASSUME NEW S, NEW s \in Seq(S), NEW x
    PROVE  ToSet(Append(s, x)) = ToSet(s) \cup {x}
<1>1. /\ DOMAIN Append(s, x) = 1 .. Len(s) + 1 /\ DOMAIN s = 1 .. Len(s) /\ Len(s) \in Nat
      /\ \A i \in 1 .. Len(s) : Append(s, x)[i] = s[i]
      /\ Append(s, x)[Len(s) + 1] = x
  OBVIOUS
<1>2. ASSUME NEW i \in 1 .. Len(s) + 1 PROVE Append(s, x)[i] \in ToSet(s) \cup {x}
  <2>1. CASE i = Len(s) + 1
    BY <1>1, <2>1
  <2>2. CASE i \in 1 .. Len(s)
    BY <1>1, <2>2 DEF ToSet
  <2> QED
    BY <1>1, <2>1, <2>2
<1>3. ASSUME NEW i \in 1 .. Len(s) PROVE s[i] \in ToSet(Append(s, x))
  <2>1. i \in DOMAIN Append(s, x) /\ Append(s, x)[i] = s[i]
    BY <1>1
  <2> QED
    BY <2>1 DEF ToSet
<1>4. x \in ToSet(Append(s, x))
  <2>1. Len(s) + 1 \in DOMAIN Append(s, x)
    BY <1>1
  <2> QED
    BY <1>1, <2>1 DEF ToSet
<1> QED
  BY <1>1, <1>2, <1>3, <1>4 DEF ToSet

\* Who has a token keeps it, and the mail.
LEMMA HasTokenStays ==
    ASSUME Typed, Rounds, NEW t \in Thread, Request(t) \/ Step(t)
    PROVE  \A u \in User : HasToken(u) => HasToken(u)'
<1>1. mails \subseteq mails'
  BY MailsSent
<1> QED
  BY <1>1, TokensKept DEF HasToken

\* The steps between the first and the last of a round leave the work alone.
LEMMA WorkKept ==
    ASSUME Typed, NEW t \in Thread, Step(t), ~SaveUser(t), ~SaveRegistration(t), ~Answer(t)
    PROVE  /\ OthersKept(t) /\ KeepsWork(t) /\ answer' = answer
           /\ req'[t].step \in ToSuccess => req[t].step \in ToSuccess
<1>0. Requests
  BY TypedRequests
<1>1. CASE FindUser(t)
  BY <1>0, <1>1, FindUserIs DEF FindUserDoes, ToSuccess
<1>2. CASE FindNobody(t)
  BY <1>0, <1>2, FindNobodyIs, RefusalIsVerdict DEF FindNobodyDoes, ToSuccess
<1>3. CASE Send(t)
  BY <1>0, <1>3, SendIs DEF SendDoes
<1>4. CASE CallReturns(t)
  <2>1. CallReturnsDoes(t)
    BY <1>0, <1>4, CallReturnsIs
  <2>2. req'[t].step \in ToSuccess => req[t].step \in ToSuccess
    BY <2>1 DEF CallReturnsDoes, ToSuccess, After, CallSteps
  <2> QED
    BY <2>1, <2>2 DEF CallReturnsDoes
<1>5. CASE CallThrows(t)
  BY <1>0, <1>5, CallThrowsIs DEF CallThrowsDoes, Moves, ToSuccess
<1>6. CASE SaveAdmin(t)
  BY <1>0, <1>6, SaveAdminIs DEF SaveAdminDoes, Moves, ToSuccess
<1>7. CASE SendTokenMail(t)
  BY <1>0, <1>7, SendTokenMailIs DEF SendTokenMailDoes, Moves, ToSuccess
<1>8. CASE SendTokenMailFails(t)
  BY <1>0, <1>8, SendTokenMailFailsIs, RefusalIsVerdict DEF SendTokenMailFailsDoes, Moves, ToSuccess
<1>9. CASE PublishTranscript(t)
  BY <1>0, <1>9, PublishTranscriptIs DEF PublishTranscriptDoes, Writes, ToSuccess
<1>10. CASE NoTranscript(t)
  BY <1>0, <1>10, NoTranscriptIs DEF NoTranscriptDoes, Writes, ToSuccess
<1> QED
  BY <1>1, <1>2, <1>3, <1>4, <1>5, <1>6, <1>7, <1>8, <1>9, <1>10 DEF Step

LEMMA AnswerRest ==
    ASSUME Typed, Rounds, AnswerInv, NEW t \in Thread, Request(t) \/ Step(t), OthersKept(t),
           WorkIsDone(t)', SuccessIsTrue', AnswersAreOfUsers'
    PROVE  AnswerInv'
<1>1. ASSUME NEW s \in Thread PROVE WorkIsDone(s)'
  <2>1. CASE s = t
    BY <2>1
  <2>2. CASE s # t
    <3>1. WorkIsDone(s) /\ req'[s] = req[s]
      BY <2>2 DEF AnswerInv, OthersKept
    <3>2. ToSet(req[s].done) \subseteq User
      BY DEF Typed, SoundRequest, ToSet
    <3> QED
      BY <3>1, <3>2, HasTokenStays DEF WorkIsDone
  <2> QED
    BY <2>1, <2>2
<1> QED
  BY <1>1 DEF AnswerInv

\* What the admin was told stays true.
LEMMA AnswersStayTrue ==
    ASSUME Typed, Rounds, AnswerInv, NEW t \in Thread, Request(t) \/ Step(t), answer' = answer
    PROVE  SuccessIsTrue' /\ AnswersAreOfUsers'
BY HasTokenStays DEF AnswerInv, SuccessIsTrue, HasToken, AnswersAreOfUsers

LEMMA SaveUserKeepsAnswers ==
    ASSUME Typed, RegisteredInv, Rounds, AnswerInv, NEW t \in Thread, SaveUser(t), SaveUserDoes(t)
    PROVE  WorkIsDone(t)'
<1> DEFINE u == Target(t)
<1>0. /\ TablesTyped /\ SoundRequest(t) /\ WorkIsDone(t) /\ RequestRegistered(t)
      /\ Coherent(t) /\ RoundIsOne(t)
  BY DEF Typed, RegisteredInv, AnswerInv, Rounds
<1>1. /\ req[t].step = "saveUser" /\ req[t].ids \in Seq(User) /\ req[t].ids # <<>>
      /\ req[t].done \in Seq(User) /\ u \in User /\ req[t].cache[u] # None
      /\ IsContract(req[t].contract)
  BY <1>0, SavedIsSound DEF SaveUserDoes, SoundRequest, Completing, Mailed
<1>2. /\ req'[t].ids = Tail(req[t].ids) /\ req'[t].done = Append(req[t].done, u)
      /\ req'[t].ready = req[t].ready /\ mails' = mails
      /\ users' = [Flushed(t) EXCEPT ![u] = Saved(t)]
      /\ req'[t].step \in ToSuccess => Tail(req[t].ids) = <<>>
  BY DEF SaveUserDoes, ToSuccess
<1>3. /\ ToSet(req[t].ids) \subseteq {u} \cup ToSet(req'[t].ids)
      /\ ToSet(req'[t].done) = ToSet(req[t].done) \cup {u}
  BY <1>1, <1>2, SetOfTail, SetOfAppend DEF Target
<1>4. PICK v \in User : v = u
  BY <1>1
<1>5. HasToken(v)'
  <2>1. Saved(t).token = req[t].contract /\ users'[v] = Saved(t)
    <3>1. users'[v] = Saved(t)
      BY <1>0, <1>1, <1>2, <1>4, FlushedIsSound
    <3>2. req[t].cache[u] \in UserRow
      BY <1>0, <1>1 DEF SoundRequest, SoundRow
    <3> QED
      BY <3>1, <3>2 DEF Saved, UserRow
  <2>2. req[t].contract # None
    BY <1>1, NoneAssumption DEF IsContract, Deployed
  <2>3. \E m \in mails : m.user = v /\ m.contract = req[t].contract
    BY <1>0, <1>1, <1>4 DEF RequestRegistered, Mailed
  <2> HIDE DEF u
  <2> QED
    BY <1>2, <2>1, <2>2, <2>3 DEF HasToken
<1>6. ASSUME NEW w \in ToSet(req[t].done) PROVE w \in User /\ HasToken(w)'
  <2>1. w \in User
    BY <1>1 DEF ToSet
  <2> QED
    BY <1>0, <2>1, HasTokenStays DEF WorkIsDone, Step
<1> HIDE DEF u
<1>7. \A w \in ToSet(req'[t].done) : HasToken(w)'
  <2> SUFFICES ASSUME NEW w \in ToSet(req'[t].done) PROVE HasToken(w)'
    OBVIOUS
  <2>1. CASE w \in ToSet(req[t].done)
    BY <1>6, <2>1
  <2>2. CASE w = v
    BY <1>5, <2>2
  <2> QED
    BY <1>3, <1>4, <2>1, <2>2
<1>8. req'[t].ready \subseteq ToSet(req'[t].done) \cup ToSet(req'[t].ids)
  BY <1>0, <1>2, <1>3 DEF WorkIsDone
<1>9. req'[t].step \in ToSuccess => req'[t].ids = <<>>
  BY <1>2
<1> QED
  BY <1>7, <1>8, <1>9 DEF WorkIsDone

LEMMA StepKeepsAnswers ==
    ASSUME OneAtATime, Typed, RegisteredInv, Rounds, AnswerInv, NEW t \in Thread,
           Request(t) \/ Step(t)
    PROVE  AnswerInv'
<1>0. /\ ChainTyped /\ TablesTyped /\ SoundRequest(t) /\ Requests /\ WorkIsDone(t)
      /\ \A u \in ToSet(req[t].done) : u \in User
  BY TypedRequests DEF Typed, AnswerInv, SoundRequest, ToSet
<1>1. CASE Request(t)
  <2>1. /\ OthersKept(t) /\ answer' = answer
        /\ \/ PublishStarts(t)
           \/ \E u \in User : CompleteStarts(t, u)
           \/ \E ids \in Orders(Unpublished) : CompleteAllStarts(t, ids)
           \/ \E u \in User : RegistrationStarts(t, u)
    BY <1>0, <1>1, RequestStarts
  <2>2. /\ req'[t].done = <<>> /\ req'[t].ready \subseteq ToSet(req'[t].ids)
        /\ req'[t].step \in ToSuccess => req'[t].ids = <<>>
    BY <2>1 DEF PublishStarts, CompleteStarts, CompleteAllStarts, RegistrationStarts, StartsWith,
                ToSuccess
  <2>3. WorkIsDone(t)'
    BY <2>2 DEF WorkIsDone, ToSet
  <2> QED
    BY <1>1, <2>1, <2>3, AnswerRest, AnswersStayTrue
<1>2. CASE Step(t) /\ ~SaveUser(t) /\ ~SaveRegistration(t) /\ ~Answer(t)
  <2>1. /\ OthersKept(t) /\ KeepsWork(t) /\ answer' = answer
        /\ req'[t].step \in ToSuccess => req[t].step \in ToSuccess
    BY <1>2, WorkKept
  <2>2. WorkIsDone(t)'
    BY <1>0, <1>2, <2>1, HasTokenStays DEF WorkIsDone, KeepsWork
  <2> QED
    BY <1>2, <2>1, <2>2, AnswerRest, AnswersStayTrue
<1>3. CASE SaveUser(t)
  <2>1. SaveUserDoes(t) /\ Step(t)
    BY <1>0, <1>3, SaveUserIs DEF Step
  <2> QED
    BY <1>3, <2>1, SaveUserKeepsAnswers, AnswerRest, AnswersStayTrue DEF SaveUserDoes
<1>4. CASE SaveRegistration(t)
  <2>1. SaveRegistrationDoes(t) /\ Step(t)
    BY <1>0, <1>4, SaveRegistrationIs DEF Step
  <2>2. WorkIsDone(t)'
    BY <2>1, IdleIs DEF SaveRegistrationDoes, Ends, WorkIsDone, ToSet, ToSuccess
  <2> QED
    BY <2>1, <2>2, AnswerRest, AnswersStayTrue DEF SaveRegistrationDoes, Ends
<1>5. CASE Answer(t)
  <2>1. AnswerDoes(t) /\ Step(t)
    BY <1>0, <1>5, AnswerIs DEF Step
  <2>2. WorkIsDone(t)'
    BY <2>1, IdleIs DEF AnswerDoes, Ends, WorkIsDone, ToSet, ToSuccess
  <2> DEFINE a == [verdict |-> req[t].step, ready |-> req[t].ready, done |-> ToSet(req[t].done)]
  <2>3. answer' = [answer EXCEPT ![t] = a] /\ DOMAIN answer = Thread
    BY <2>1 DEF AnswerDoes, Typed
  <2>4. answer'[t] = a /\ \A s \in Thread : s # t => answer'[s] = answer[s]
    BY <2>3
  <2>5. AnswersAreOfUsers'
    BY <1>0, <2>4 DEF AnswerInv, AnswersAreOfUsers
  <2>6. SuccessIsTrue'
    <3> SUFFICES ASSUME NEW s \in Thread, answer'[s].verdict \in {"success", "allSuccess"}
                 PROVE  /\ answer'[s].ready \subseteq answer'[s].done
                        /\ \A u \in answer'[s].done : HasToken(u)'
      BY DEF SuccessIsTrue, HasToken
    <3>1. CASE s = t
      <4>1. req[t].ids = <<>>
        BY <1>0, <2>4, <3>1 DEF WorkIsDone, ToSuccess
      <4>2. req[t].ready \subseteq ToSet(req[t].done)
        BY <1>0, <4>1 DEF WorkIsDone, ToSet
      <4>3. \A u \in ToSet(req[t].done) : HasToken(u)'
        BY <1>0, <2>1, HasTokenStays DEF WorkIsDone
      <4> QED
        BY <2>4, <3>1, <4>2, <4>3
    <3>2. CASE s # t
      <4>1. /\ answer[s].ready \subseteq answer[s].done
            /\ \A u \in answer[s].done : HasToken(u) /\ u \in User
        BY <2>4, <3>2 DEF AnswerInv, SuccessIsTrue, AnswersAreOfUsers, HasToken
      <4> QED
        BY <2>1, <2>4, <3>2, <4>1, HasTokenStays
    <3> QED
      BY <3>1, <3>2
  <2> QED
    BY <2>1, <2>2, <2>5, <2>6, AnswerRest DEF AnswerDoes, Ends
<1> QED
  BY <1>1, <1>2, <1>3, <1>4, <1>5

LEMMA AnswerInit == Init => AnswerInv
BY IdleIs DEF Init, AnswerInv, SuccessIsTrue, AnswersAreOfUsers, WorkIsDone, NoAnswers, ToSet,
              ToSuccess

LEMMA AnswerNext ==
    OneAtATime /\ Typed /\ RegisteredInv /\ Rounds /\ AnswerInv /\ [Next]_vars => AnswerInv'
<1> SUFFICES ASSUME OneAtATime, Typed, RegisteredInv, Rounds, AnswerInv, [Next]_vars
             PROVE  AnswerInv'
  OBVIOUS
<1>1. CASE Mine
  BY <1>1 DEF Mine, AnswerInv, SuccessIsTrue, AnswersAreOfUsers, WorkIsDone, HasToken
<1>2. ASSUME NEW t \in Thread, Request(t) \/ Step(t) PROVE AnswerInv'
  BY <1>2, StepKeepsAnswers
<1>3. CASE Restart
  <2>1. req' = [t \in Thread |-> Idle] /\ answer' = NoAnswers
    BY <1>3 DEF Restart
  <2> QED
    BY <2>1, IdleIs DEF AnswerInv, SuccessIsTrue, AnswersAreOfUsers, WorkIsDone, NoAnswers, ToSet,
                        ToSuccess
<1>4. CASE Import \/ UNCHANGED vars
  BY <1>4, ImportIs DEF Rests, AnswerInv, SuccessIsTrue, AnswersAreOfUsers, WorkIsDone, HasToken
<1> QED
  BY <1>1, <1>2, <1>3, <1>4 DEF Next, Running

(***************************************************************************)
(* When requests come one at a time the admin is told of success only when *)
(* every account the request was for has its token, saved and mailed, and  *)
(* "Complete All" has left out nobody who was ready                        *)
(* (AdminServiceImpl.java:72-89).                                          *)
(***************************************************************************)
THEOREM SuccessIsNeverClaimedFalsely ==
    ASSUME OneAtATime
    PROVE  Spec => []SuccessIsTrue
<1>1. Init => Typed /\ RegisteredInv /\ Rounds /\ AnswerInv
  BY TypedInit, RegisteredInit, RoundsInit, AnswerInit
<1>2. Typed /\ RegisteredInv /\ Rounds /\ AnswerInv /\ [Next]_vars
          => (Typed /\ RegisteredInv /\ Rounds /\ AnswerInv)'
  BY TypedNext, RegisteredNext, RoundsNext, AnswerNext
<1>3. AnswerInv => SuccessIsTrue
  BY DEF AnswerInv
<1> QED
  BY <1>1, <1>2, <1>3, PTL DEF Spec

-----------------------------------------------------------------------------
(***************************************************************************)
(* Requests that come one at a time, and no faults: FaultFree is inductive.*)
(***************************************************************************)
\* All that was mailed to the user is the saved token.
IsComplete(u) ==
    users[u].token # None /\ \A m \in mails : m.user = u => users[u].token = m.contract

\* What a step has to do for FaultFree.
LEMMA FaultFreeRest ==
    ASSUME Typed, FaultFree, faults = 0, life' = life,
           \A t \in Thread : req'[t].step \in Verdicts => req'[t].dirty = {},
           \A u \in WithTranscript :
               /\ users[u].token # None => users'[u].token = users[u].token
               /\ users'[u].published => users[u].published \/ IsNext(u)'
               /\ \A m \in mails' : m.user = u => m \in mails \/ IsNext(u)'
               /\ IsNext(u) => IsNext(u)' \/ IsComplete(u)'
    PROVE  FaultFree'
<1>1. \A m \in mails : m.contract # None
  BY NoneAssumption DEF Typed, TablesTyped, IsContract, Deployed
<1>2. ASSUME NEW u \in WithTranscript
      PROVE  /\ users'[u].published => users'[u].token # None \/ IsNext(u)'
             /\ \A m \in mails' : m.user = u => users'[u].token = m.contract \/ IsNext(u)'
  <2>1. CASE IsNext(u)'
    BY <2>1
  <2>2. CASE ~IsNext(u)' /\ IsNext(u)
    BY <1>2, <2>2 DEF IsComplete
  <2>3. CASE ~IsNext(u)' /\ ~IsNext(u)
    <3>1. /\ users[u].published => users[u].token # None
          /\ \A m \in mails : m.user = u => users[u].token = m.contract
      BY <1>2, <2>3 DEF FaultFree
    <3> QED
      BY <1>1, <1>2, <2>3, <3>1
  <2> QED
    BY <2>1, <2>2, <2>3
<1>3. life' = 0
  BY DEF FaultFree
<1> QED
  BY <1>2, <1>3 DEF FaultFree

\* The other threads keep who they are at.
LEMMA OthersNext ==
    ASSUME NEW t \in Thread, OthersKept(t), NEW u, IsNext(u),
           req[t].step \in Mailed =>
               \/ req'[t].step \in Mailed /\ req'[t].ids = req[t].ids
               \/ Target(t) # u
    PROVE  IsNext(u)'
<1>1. PICK s \in Thread : req[s].step \in Mailed /\ Target(s) = u
  BY DEF IsNext
<1>2. req'[s].step \in Mailed /\ Head(req'[s].ids) = u
  BY <1>1 DEF OthersKept, Target
<1> QED
  BY <1>2 DEF IsNext, Target

\* A step that writes nothing, tells nobody, and does not leave its user.
LEMMA NothingToldStaysFaultFree ==
    ASSUME Typed, FaultFree, faults = 0, life' = life, NEW t \in Thread, OthersKept(t),
           \A u \in User : /\ users'[u].token = users[u].token
                           /\ users'[u].published => users[u].published,
           mails' = mails,
           req[t].step \in Mailed => req'[t].step \in Mailed /\ req'[t].ids = req[t].ids,
           req'[t].step \in Verdicts => req'[t].dirty = {}
    PROVE  FaultFree'
<1>1. \A s \in Thread : req'[s].step \in Verdicts => req'[s].dirty = {}
  BY DEF FaultFree, OthersKept
<1>2. \A u \in WithTranscript : IsNext(u) => IsNext(u)'
  BY OthersNext
<1> QED
  BY <1>1, <1>2, FaultFreeRest DEF WithTranscript

\* A round outside of the mailed part has nothing to write when it ends.
LEMMA EndIsClean ==
    ASSUME Rounds, FaultFree, faults = 0, NEW t \in Thread,
           req[t].step \notin {"deploy", "mail", "transcript"}
    PROVE  req[t].dirty = {}
BY DEF Rounds, RoundIsOne, FaultFree

LEMMA StepKeepsFaultFree ==
    ASSUME OneAtATime, Typed, RegisteredInv, Rounds, OneTokenPerUser, FaultFree,
           faults' = 0, life' = life, NEW t \in Thread, Request(t) \/ Step(t)
    PROVE  FaultFree'
<1>0. /\ ChainTyped /\ TablesTyped /\ SoundRequest(t) /\ Requests
      /\ Coherent(t) /\ RoundIsOne(t) /\ RequestRegistered(t) /\ faults \in Nat
  BY TypedRequests DEF Typed, TablesTyped, Rounds, RegisteredInv
<1>1. CASE Request(t)
  <2>1. /\ OthersKept(t) /\ UNCHANGED <<users, mails, faults>> /\ req[t].step = "idle"
        /\ req'[t].step \in {"deployRegistry", "find", "saveRegistration"}
    BY <1>0, <1>1, RequestStarts
       DEF MayStart, PublishStarts, CompleteStarts, CompleteAllStarts, RegistrationStarts,
           StartsWith
  <2> QED
    BY <2>1, NothingToldStaysFaultFree DEF Verdicts, Mailed
<1>2. CASE SaveRegistration(t)
  <2>1. SaveRegistrationDoes(t)
    BY <1>0, <1>2, SaveRegistrationIs
  <2>2. \A u \in User : /\ users'[u].token = users[u].token
                        /\ users'[u].published => users[u].published
    BY <2>1, RegistrationIsEarly
  <2> QED
    BY <2>1, <2>2, IdleIs, NothingToldStaysFaultFree
       DEF SaveRegistrationDoes, Ends, Verdicts, Mailed
<1>3. CASE FindUser(t)
  <2>1. FindUserDoes(t)
    BY <1>0, <1>3, FindUserIs
  <2> QED
    BY <2>1, NothingToldStaysFaultFree DEF FindUserDoes, Verdicts, Mailed
<1>4. CASE FindNobody(t)
  <2>1. FindNobodyDoes(t)
    BY <1>0, <1>4, FindNobodyIs
  <2>2. faults = 0 /\ req'[t].dirty = {}
    BY <2>1, EndIsClean DEF FindNobodyDoes
  <2> QED
    BY <2>1, <2>2, NothingToldStaysFaultFree DEF FindNobodyDoes, Mailed
<1>5. CASE Send(t)
  <2>1. SendDoes(t)
    BY <1>0, <1>5, SendIs
  <2> QED
    BY <2>1, NothingToldStaysFaultFree DEF SendDoes, KeepsWork, Verdicts, CallSteps
<1>6. CASE CallReturns(t)
  <2>1. CallReturnsDoes(t)
    BY <1>0, <1>6, CallReturnsIs
  <2>2. /\ req[t].step \in Mailed => req'[t].step \in Mailed
        /\ req'[t].step \notin Verdicts
    BY <2>1 DEF CallReturnsDoes, Mailed, Verdicts, CallSteps, After
  <2> QED
    BY <2>1, <2>2, NothingToldStaysFaultFree DEF CallReturnsDoes, KeepsWork
<1>7. CASE SaveAdmin(t)
  <2>1. SaveAdminDoes(t)
    BY <1>0, <1>7, SaveAdminIs
  <2>2. faults = 0 /\ req'[t].dirty = {}
    BY <2>1, EndIsClean DEF SaveAdminDoes, Moves, KeepsContext
  <2> QED
    BY <2>1, <2>2, NothingToldStaysFaultFree DEF SaveAdminDoes, Moves, Mailed
<1>8. CASE Answer(t)
  <2>1. AnswerDoes(t)
    BY <1>0, <1>8, AnswerIs
  <2>2. faults = 0 /\ req[t].dirty = {}
    BY <2>1, EndIsClean DEF AnswerDoes, Verdicts
  <2>3. \A u \in User : /\ users'[u].token = users[u].token
                        /\ users'[u].published => users[u].published
    BY <1>0, <2>1, <2>2, FlushedMarks DEF AnswerDoes
  <2> QED
    BY <2>1, <2>2, <2>3, IdleIs, NothingToldStaysFaultFree DEF AnswerDoes, Ends, Verdicts, Mailed
<1>9. CASE SendTokenMail(t)
  <2>1. SendTokenMailDoes(t)
    BY <1>0, <1>9, SendTokenMailIs
  <2>2. /\ OthersKept(t) /\ req'[t].step = "transcript" /\ req'[t].ids = req[t].ids
        /\ UNCHANGED <<users, faults>> /\ req[t].step = "mail"
        /\ mails' = mails \cup {TokenMail(t)}
    BY <2>1 DEF SendTokenMailDoes, Moves, KeepsWork
  <2>3. TokenMail(t).user = Target(t)
    BY DEF TokenMail
  <2>4. \A u \in User : u = Target(t) => IsNext(u)'
    BY <2>2 DEF IsNext, Target, Mailed
  <2>5. \A u \in User : IsNext(u) => IsNext(u)'
    BY <2>2, OthersNext DEF Mailed
  <2>6. \A s \in Thread : req'[s].step \in Verdicts => req'[s].dirty = {}
    BY <2>2 DEF FaultFree, OthersKept, Verdicts
  <2> QED
    BY <2>2, <2>3, <2>4, <2>5, <2>6, FaultFreeRest DEF WithTranscript
<1>10. CASE PublishTranscript(t)
  <2>1. PublishTranscriptDoes(t)
    BY <1>0, <1>10, PublishTranscriptIs
  <2>2. /\ OthersKept(t) /\ req'[t].step = "addArtifact" /\ req'[t].ids = req[t].ids
        /\ users' = Flushed(t) /\ req[t].step = "transcript" /\ mails' = mails
    BY <2>1 DEF PublishTranscriptDoes, Writes, KeepsWork
  <2>3. faults = 0
    BY <1>0, <2>1 DEF PublishTranscriptDoes
  <2>4. \A u \in User : u = Target(t) => IsNext(u)'
    BY <2>2 DEF IsNext, Target, Mailed
  <2>5. \A u \in User : IsNext(u) => IsNext(u)'
    BY <2>2, OthersNext DEF Mailed
  <2>6. \A s \in Thread : req'[s].step \in Verdicts => req'[s].dirty = {}
    BY <2>2, <2>3 DEF FaultFree, OthersKept, Verdicts
  <2>7. req[t].dirty \subseteq {Target(t)}
    BY <1>0, <2>2 DEF RoundIsOne, Verdicts
  <2>8. \A u \in User : /\ users'[u].token = users[u].token
                        /\ users'[u].published => users[u].published \/ IsNext(u)'
    BY <1>0, <2>2, <2>4, <2>7, FlushedMarks
  <2> QED
    BY <2>2, <2>3, <2>5, <2>6, <2>8, FaultFreeRest DEF WithTranscript
<1>11. CASE NoTranscript(t)
  <2>1. NoTranscriptDoes(t)
    BY <1>0, <1>11, NoTranscriptIs
  <2>2. /\ OthersKept(t) /\ req'[t].dirty = {} /\ users' = Flushed(t)
        /\ req[t].step = "transcript" /\ mails' = mails /\ faults = 0
        /\ Target(t) \notin WithTranscript
    BY <2>1 DEF NoTranscriptDoes, Writes, WithTranscript
  <2>3. \A u \in WithTranscript : IsNext(u) => IsNext(u)'
    BY <2>2, OthersNext
  <2>4. \A s \in Thread : req'[s].step \in Verdicts => req'[s].dirty = {}
    BY <2>2 DEF FaultFree, OthersKept
  <2>5. req[t].dirty \subseteq {Target(t)}
    BY <1>0, <2>2 DEF RoundIsOne, Verdicts
  <2>6. \A u \in WithTranscript : /\ users'[u].token = users[u].token
                                  /\ users'[u].published => users[u].published
    BY <1>0, <2>2, <2>5, FlushedMarks DEF WithTranscript
  <2> QED
    BY <2>2, <2>3, <2>4, <2>6, FaultFreeRest
<1>12. CASE SaveUser(t)
  <2>1. SaveUserDoes(t)
    BY <1>0, <1>12, SaveUserIs
  <2>2. /\ OthersKept(t) /\ req'[t].dirty = {} /\ req[t].step = "saveUser" /\ mails' = mails
        /\ users' = [Flushed(t) EXCEPT ![Target(t)] = Saved(t)] /\ faults = 0
    BY <2>1 DEF SaveUserDoes
  <2>3. /\ Target(t) \in User /\ IsContract(req[t].contract)
        /\ req[t].cache[Target(t)] \in UserRow
    BY <1>0, <2>2, SavedIsSound DEF SoundRequest, Completing, Mailed, SoundRow
  <2>4. \A u \in User : users'[u] = IF u = Target(t) THEN Saved(t) ELSE Flushed(t)[u]
    BY <1>0, <2>2, FlushedIsSound
  <2>5. Saved(t).token = req[t].contract /\ req[t].contract # None
    BY <2>3, NoneAssumption DEF Saved, UserRow, IsContract, Deployed
  <2>6. users[Target(t)].token = None /\ users[Target(t)].published
    BY <1>0, <2>2 DEF RoundIsOne, Completing, Mailed
  <2>7. ASSUME NEW m \in mails, m.user = Target(t) PROVE m.contract = req[t].contract
    <3>1. PICK n \in mails : n.user = Target(t) /\ n.contract = req[t].contract
      BY <1>0, <2>2 DEF RequestRegistered, Mailed
    <3>2. m.life = n.life
      BY <1>0, <2>2 DEF FaultFree, TablesTyped
    <3> QED
      BY <2>7, <3>1, <3>2 DEF OneTokenPerUser
  <2>8. \A u \in User : u = Target(t) => IsComplete(u)'
    BY <2>2, <2>4, <2>5, <2>7 DEF IsComplete
  <2>9. \A u \in User : IsNext(u) => IsNext(u)' \/ IsComplete(u)'
    BY <2>2, <2>8, OthersNext
  <2>10. \A s \in Thread : req'[s].step \in Verdicts => req'[s].dirty = {}
    BY <2>2 DEF FaultFree, OthersKept
  <2>11. req[t].dirty = {}
    BY <2>2, EndIsClean
  <2>12. \A u \in User : /\ users[u].token # None => users'[u].token = users[u].token
                         /\ users'[u].published => users[u].published
    BY <1>0, <2>4, <2>6, <2>11, FlushedMarks
  <2> QED
    BY <2>2, <2>9, <2>10, <2>12, FaultFreeRest DEF WithTranscript
<1>13. CASE CallThrows(t) \/ SendTokenMailFails(t)
  BY <1>0, <1>13 DEF CallThrows, SendTokenMailFails
<1> QED
  BY <1>1, <1>2, <1>3, <1>4, <1>5, <1>6, <1>7, <1>8, <1>9, <1>10, <1>11, <1>12, <1>13 DEF Step

LEMMA FaultFreeInit == Init => FaultFree
BY IdleIs DEF Init, FaultFree, IsNext, WithTranscript, NewUser, Verdicts

LEMMA FaultFreeNext ==
    /\ OneAtATime /\ Typed /\ RegisteredInv /\ Rounds /\ MailInv /\ FaultFree /\ [Next]_vars
    => FaultFree'
<1> SUFFICES ASSUME OneAtATime, Typed, RegisteredInv, Rounds, MailInv, FaultFree, [Next]_vars,
                    faults' = 0
             PROVE  FaultFree'
  BY DEF FaultFree
<1>1. ASSUME NEW t \in Thread, Request(t) \/ Step(t), life' = life PROVE FaultFree'
  BY <1>1, StepKeepsFaultFree DEF MailInv
<1>2. CASE Mine /\ life' = life
  BY <1>2 DEF Mine, FaultFree, IsNext, Target
<1>3. CASE Restart
  BY <1>3 DEF Restart, Typed, TablesTyped
<1>4. CASE Import \/ UNCHANGED vars
  BY <1>4, ImportIs DEF Rests, FaultFree, IsNext, Target
<1> QED
  BY <1>1, <1>2, <1>3, <1>4 DEF Next, Running

(***************************************************************************)
(* When requests come one at a time and nothing has failed, then, whenever *)
(* no request is in progress, every token that was mailed to a user with a *)
(* transcript verifies, and who is off the admin's list has a token        *)
(* (AdminServiceImpl.java:104-155).                                        *)
(***************************************************************************)
THEOREM WithoutFaultsAllIsComplete ==
    ASSUME OneAtATime
    PROVE  Spec => []FaultFreeCompletion
<1> DEFINE Inv == /\ Typed /\ RegisteredInv /\ Rounds /\ SentInv /\ MailInv
                 /\ (InSync => GoodInv) /\ FaultFree
<1>1. Init => Inv
  <2>1. Init => MailInv
    BY IdleIs DEF Init, MailInv, OneTokenPerUser, MailedIsMarked, MarkIsPending
  <2> QED
    BY <2>1, TypedInit, RegisteredInit, RoundsInit, SentInit, GoodInit, FaultFreeInit
<1>2. Inv /\ [Next]_vars => Inv'
  BY TypedNext, RegisteredNext, RoundsNext, SentNext, MailNext, GoodNext, FaultFreeNext
<1>3. Inv => FaultFreeCompletion
  <2> SUFFICES ASSUME Inv, Quiet, faults = 0, NEW u \in WithTranscript
               PROVE  /\ \A m \in mails : m.user = u => Verifies(m)
                      /\ users[u].published => users[u].token # None
    BY DEF FaultFreeCompletion, WithTranscript
  <2>0. u \in User /\ GoodInv
    BY DEF WithTranscript, FaultFree, InSync
  <2>1. ~IsNext(u)
    BY DEF IsNext, Quiet, Mailed
  <2>2. ASSUME NEW m \in mails, m.user = u PROVE Verifies(m)
    <3>1. users[u].token = m.contract /\ IsContract(m.contract) /\ m.contract # None
      BY <2>1, <2>2, NoneAssumption DEF FaultFree, Typed, TablesTyped, IsContract, Deployed
    <3>2. PICK n \in mails : /\ n.user = u /\ n.contract = users[u].token
                             /\ RegistryContains(world[n.registry + 1], n.contract)
      BY <2>0, <3>1 DEF RegisteredInv, TokenIsRegistered
    <3>3. m.life = n.life
      BY DEF FaultFree, Typed, TablesTyped
    <3>4. m = n
      BY <2>2, <3>2, <3>3 DEF MailInv, OneTokenPerUser
    <3>5. HoldsTranscript(m.contract, u)
      BY <2>0, <3>1 DEF GoodInv, TokensHold
    <3>6. VerifyArtifact(world[m.contract + 1], 0, 0) = DocOf[u]
      BY <3>1, <3>5, HeldIsVerified DEF HoldsTranscript
    <3> QED
      BY <2>2, <3>2, <3>4, <3>6 DEF Verifies
  <2> QED
    BY <2>1, <2>2 DEF FaultFree
<1> HIDE DEF Inv
<1> QED
  BY <1>1, <1>2, <1>3, PTL DEF Spec
=============================================================================
