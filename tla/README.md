# Unilog in TLA+

Unilog is a service with which a university issues academic transcripts that
anybody can verify.  A transcript is published to IPFS; its content address is
stored in an Ethereum contract that belongs to the transcript owner; the owner
receives a token by e-mail that names the contract, and hands it to a verifier,
whose application asks the contract.  The service is a Spring application
(`src/app/main-app`) on top of an EthereumJ client (`src/app/main-blockchain`)
with three Solidity contracts; the verifier's and the owner's application is a
Meteor application (`src/dappunilog`).  Among the service's static files is a
copy of the chart library d3, which is the largest part of the code.

This directory holds TLA+ modules of the parts of that system, TLC
configurations that check them on small instances, and TLAPS proofs, for instances of
any size, of all the safety properties that are checked and hold.  Definitions carry the names of the code they
stand for; `PROJECT.json` maps each to its lines.  In what follows, `J`, `B`,
`R` and `D` stand for the Java packages of `main-app` and `main-blockchain`,
the resources of `main-blockchain`, and `src/dappunilog/client`; `d3.js` and
`d3.layout.js` are in `src/app/main-app/src/main/resources/static/js/d3`.

To run:

    tlc -config ContractTwins.cfg MCContractTwins
    tlapm ContractTwinsProofs.tla

## 1. Inventory

| part | code | state | operations | what makes it correct |
|---|---|---|---|---|
| User contract | `R/Unilog.sol` | `unilog`, `artifactOwner`, `artifacts` | `addArtifact`, `assignArtifactOwner` (Unilog only), `deleteArtifact` (owner only), `verifyArtifact` | the issuer can never remove; an artifact answers with its content exactly while its period lasts; ids never move, nothing removed or expired comes back |
| Its variant in the unit tests | `R/UnilogTestVersion.sol` | the same and a flag `active` | the same, seconds instead of weeks, expiry stored when asked for | answers like the contract that is deployed |
| Registry contract | `R/UnilogRegistry.sol` | `contracts` | `addContract`, `disableContract`, `contains` | the contract of a token that was issued is listed |
| Ethereum client | `B/client/Client.java`, `ClientListenerAdapter.java` | the node, the listener's `receivedTransactions`, the stacks of threads inside `sendTransaction` | `start`, `sendTransaction`, `writeToContract`, `onBlock`, `hasTransactionBeenMined` | a call returns only when its transaction is mined, and then does; no nonce is used twice; a receipt reaches its caller |
| Blockchain facade | `B/facade`, `B/service` | none | one call of the client per operation | arguments go where they belong |
| Account completion | `J/service/AdminServiceImpl.java`, `J/resource/AdminResource.java` | local variables of a request, the persistence context | `publishRegistry`, `completeAccount`, `completeAllAccounts`, `registerAccount` | a saved token is the user's own transcript in a contract of their own that is registered; nobody gets two; what is reported is true |
| Database | `J/db`, `J/entity`, `DatabaseServiceImpl.java` | tables User, Admin, Transcript, Qualification, Wallet, Role | `save`, `find...` | a row is not overwritten by an older copy of itself |
| Registration of owners | `UserServiceImpl.java`, `UnilogResource.java` | tables User, Wallet | `isRegistered`, `completeRegistration` | only who was mailed the code registers, once |
| Onboarding | `UserServiceImpl.java`, `AdminServiceImpl.java`, `WebSecurityConfig.java` | tables, and the login table in memory | upload of a qualification, `registerAccount`, `completeInstitutionRegistration`, login | transcripts belong to users that exist; accounts log in with the password that was set |
| Mail | `EmailService.java` | none | four mails | a mail tells the truth when it is read |
| IPFS | `IPFSDistributedFileSystem.java` | none | `publishFileToNetwork` | the content address of what was published |
| Verifier portal | `D/verifier/VerifierPortal.js` | what the page shows | chained asynchronous calls to registry, contract, IPFS | what is shown as genuine was issued and is valid |
| Owner's pages | `D/routes.js`, `D/records`, `D/accounts`, `D/helpers/open-modal.js`, `D/lib/init.js` | the route, the session, the modal, the accounts MetaMask has | login, links, reload, opening a record, selecting and editing an account | a record is that of the account it was opened for, an edit goes to the account whose modal was opened |
| Node connector | `B/client/NodeConnector.java` | what the node reported, flags, counters | waits for peers, first block, sync | waits with a limit, and notices what happened |
| Keys | `D/crypto` | none | asking MetaMask for a signature; encryption by a library, which nothing calls | |
| Validation | `J/utils` | none | password and e-mail rules | |
| Chart library: timers, transitions, axes | `d3.js:1915-2328`, `3846-3977` | the queue of timers with the frame or timeout pending, each node's lock | `d3.timer`, `transition`, `axis` | the last redraw is what stays; a timer is never left without a next step |
| Chart library: events | `d3.js:488-545`, `1849-1880`, `4158-4168` | lists of listeners, `d3.event` | `on`, `dispatch` | every listener is called once, with its own event |
| Chart library: brush, drag, zoom | `d3.js:4058-4761` | variables of the whole page for the gesture | mouse, keys, wheel, fingers | the extent stays in its range; a click is told from a drag; what is under the mouse stays there |
| Chart library: ordinal scales, searches | `d3.js:2705-2784`, `204-231` | domain and range | `scale(x)`, `copy`, `rangeBands`, ...; `bisectLeft` | values are told apart; the insertion point |
| Chart library: word cloud | `d3.layout.js` | board, interval, position in the words | `start`, `stop`, listeners | words do not overlap, and a cloud that was started is finished |
| Compiler, files, configuration, samples | `SolidityCompilerService.java`, `FileReaderServiceImpl.java`, `ClientMiner.java`, ... | none | input and output | |

### How they interact

A request of the admin runs on a thread of the web server, from
`AdminResource` through `AdminServiceImpl` to the database, the mail server,
IPFS and the facade, and blocks in `Client.sendTransaction` until each of its
transactions is mined: it reads the nonce of Unilog's account from the node's
best block, signs, submits, and polls the map that `ClientListenerAdapter`
fills from a thread of the node.  The database is shared by all requests; each
request has one persistence context (section 4).  The contracts are shared by
everybody: Unilog adds, the owner removes, verifiers read.  The owner's mail
is the only link between a token and a verifier.  The owner's and the verifier's
pages are one application in a browser: routes, session and modals outlive the
templates that asked a question, whose callbacks come when they come.  The chart library
shares nothing with the rest; no template of the service loads it.

### What is hard

- Two requests at once: they read the same nonce, they share the map of
  receipts, they work on copies of the same rows.
- A completion is nine steps over four systems that do not share a
  transaction.  Any of them can fail after those before it have had effect,
  and the admin tries again.
- The client has no timeout: a call that misses its receipt never ends.
- `start()` publishes the node before it has a listener, and while the node
  imports its past, nonces are those of old transactions.
- Time and word size in the contract; `delete` on an array.
- An upload saves and mails user by user and may stop in between; e-mail
  addresses identify rows but are not unique; logins live in memory, accounts in
  the database, and a restart re-creates the tables.
- The verifier's page is written by the callbacks of calls to the chain and to IPFS,
  those of several submissions in any order, and to templates that are gone.
- Steps of animations come late, several at once, and while others are under way;
  listeners change the lists they are called from; gestures are cut off, and
  start with something held that another gesture left.

`PROJECT.json` lists these as hazards, each at its line.

## 2. Modules

| module | models | state and actions |
|---|---|---|
| `UnilogContract` | `Unilog.sol`, one operator per function | none: `AddArtifact(c, now, ...)` is the storage after the call |
| `UserContract` | one deployed contract, called by anybody while time passes | `contract` is the storage, `now` the block time; `addArtifact`, `deleteArtifact`, `assignArtifactOwner`, `NextBlock`. `issued` and `removals` are history |
| `UnilogTestVersion`, `ContractTwins` | the contract under test, and both of them fed the same transactions | `TwinAdd`, `TwinDelete`, `TwinAssign`, `TwinVerify` (the tested `verifyArtifact` writes) |
| `UnilogRegistry` | `UnilogRegistry.sol` as operators | none |
| `TransactionClient` | `Client.java` with `ClientListenerAdapter.java` | `boot` is how far `start()` has come; `pc` and `tx` are the position and the local transaction of each thread in `sendTransaction`; `receivedTransactions` is the map; `chain`, `imported`, `events` the network, the node, and receipts on their way |
| `SerialLedger` | what the callers of the client count on: calls executed in turn, each of which returns | `Call`, `Execute`, `Return` |
| `AccountCompletion` | the admin portal's requests and `completeRegistration` over database, mail, IPFS and client | `users`, `registry` are tables; `req[t]` the local variables and the persistence context of the request on thread `t`; `world` the storage of every contract; `imported` how much of the chain the node has, from which a nonce is read (`Send`), and `Import` its next block; `mails` what was mailed; one action per call that changes or reads shared state. `Restart` makes the tables anew in the middle of whatever is in progress, while the chain, the mails and what was submitted remain and the node may have to import blocks again; `life` counts them |
| `Onboarding` | uploads with a mail per transcript, registration of owners, invitation and activation of institutions, the login table, a restart | `users`, `institutions`, `transcripts` are tables whose rows may share an address; `logins` the table in memory; `req[t]` the local variables of the request on thread `t`; one action per call that changes or reads shared state. `overlapped` is history |
| `VerifierPortal` | the verifier's page over a chain that changes meanwhile | `calls` are the asynchronous calls in progress, with their answers; `result` and `showNoResult` what the page shows; `ExecuteContains` and `ExecuteVerify` are the node's, `OnContains`, `OnArtifact`, `OnTranscript` the callbacks; `Enter` makes the template anew. `shownFor`, `truth`, `alone` are history |
| `OwnerApp` | the application around that page: it extends `VerifierPortal`, whose actions are those of one of its routes | the route, who is logged in, the session's address and modal, MetaMask's accounts and which of them is selected; links, login and logout, opening a record with its calls, opening, replacing and saving a modal |
| `D3Selection` | `data`, `enter`, `insert`, `append`, `remove` as operators on the document | none |
| `D3Transition`, `D3Axis` | `d3.timer` and transitions; an axis that is redrawn on them | `queue`, `interval`, `frames`, `timeout` are the library's; `nodes`, `dom` the document with each node's lock; `Frame`, `Timeout` run the timers that are due, `RedrawAxis` begins transitions, `RedrawAtOnce` does not, and `RedrawInStep` is either in the middle of a step, as by a listener of `end` |
| `D3Dispatch` | `d3.dispatch`, `selection.on` and `d3.event` | the listeners, and the stack of dispatches that are under way |
| `D3Brush`, `D3Drag`, `D3Zoom` | the three behaviours | the variables of the gesture, one action per handler |
| `WordCloud` | the layout of a word cloud | words, board, `timer`, the stack of steps; `SkipWord`, `PlaceWord`, `WordPlaced`, `Yield` are parts of a step, between which the listener of `word` may call `start` and `stop` |
| `D3Ordinal`, `D3Bisect` | ordinal scales with their copies; the binary searches | `scales`; `lo` and `hi`, one turn of the loop a step |
| `MCD3Page` | one page of each kind, on which one of the behaviours is at work | `page` |
| `NodeConnector` | the waiting loops of `NodeConnector.java` and the listener's events they look at | `phase` is the loop, `count` its rounds; `Proceed`, `Repeat`, `GiveUp` |
| `ContractTwinsProofs`, `TransactionClientProofs`, `AccountCompletionProofs`, `OnboardingProofs`, `OwnerAppProofs`, `NodeConnectorProofs`, `D3AxisProofs`, `D3Proofs` | theorems, section 5; `D3Proofs` builds on `D3AxisProofs` | |

`AccountCompletion` uses the operators of `UnilogContract` and
`UnilogRegistry` to execute its transactions, so that "the token is good" is
said by the very `VerifyArtifact` that `UserContract` is about.  It has the
client of `TransactionClient` without the polling: a nonce is the number of
transactions that the node has imported when it is read, a call may return once its
transaction is imported.  That a call returns only then is `ReturnedWasMined`, proved for any
number of threads; that it does return, for calls that come one at a time, is
`ImplementsLedger` and `EveryCallReturns`.

`VerifierPortal` uses the same two modules of operators for what the node answers.
Its contracts are as `AccountCompletion` leaves them before `addContract`: one
artifact, its owner assigned.

Lines marked "Mutant" in a module define variants of an operator with a
plausible mistake; each property is shown to tell them from the code.

## 3. Runs

| run | asks | bounds |
|---|---|---|
| `contract_twins` | who can remove, until when an artifact answers, whether anything comes back; and does the contract under test answer like the deployed one? It does for artifacts that were not removed | 3 accounts, 2 documents, 2 artifacts, words of 4 bits, weeks of 2 seconds, time 0..5. Periods 0, 1 and 7 weeks are: for ever, ending within the run, and, from time 2 on, wrapping around |
| `client_serial` | one caller at a time on a client in sync is a serial ledger | 2 threads, 2 payloads, nonces to 4, at most 1 past transaction, a foreign transaction |
| `client_unrestricted` | two callers at any time, also while the client starts and syncs | nonces to 2, and both threads interchangeable |
| `completion_faults` | one request at a time, on a node in sync, with up to 2 faults, of which a restart is one, and a user without a transcript: is a saved token good, nobody mailed two, success true, and is every request answered? | 2 users, one of them without transcript, 1 account, no request is begun from a chain of 6 on, one that is begun runs on: a registry and one complete account, and then a second round for it, or a retry or a second registry after a fault |
| `completion_concurrent` | two requests at once: is the contract of a saved token registered? | 1 user, 1 fault or restart, a node that may lag behind the chain, chain to 2 when a request begins: both threads deploy and complete, also sharing a transaction |
| `completion_mail`, `completion_artifact` | is a mailed token good, and artifact 0 of its contract the user's? Not always (section 7) | in sync; 1 fault and one thread; 2 threads and no fault |
| `onboarding` | two requests, also at once: do transcripts have owners, was every row mailed its code, do logins and institutions have the same names? And one at a time: the same passwords, but for configured names, and does the first registration stand? | 2 addresses, one of them the configured login's, 2 accounts, 2 codes, two good passwords and a short one, uploads of none, one and two transcripts, one failure: a mail reported as not sent, delivered or not, or a restart |
| `verifier_stale` | is what the page calls credible the transcript of the last token? Not always (section 7) | the verifier's page alone: 2 tokens, 1 block, 2 submissions, 1 visit, right and wrong registry and artifact id, no error |
| `owner_app` | the whole application: is what the verifier's page shows genuine, and current when submissions come one at a time; does a record belong to the account it was opened for, and an edit to the account of its modal? | 2 tokens and accounts, 1 block with the period ending at it, 2 submissions, 3 visits, 1 error, 2 uses of records or modals; behaviours that use the verifier's page and the owner's pages both are cut off (constraint `OneHalf`) |
| `node` | does an attempt to connect end, and does it wait for blocks only with peers? | limits of 2 and 3 rounds for 60 and 330, 2 nodes, 2 blocks |
| `page` | does the last redraw of an axis settle and every animation end; do brushes, drags and zooms keep what they promise; is every listener called once; do words stay apart and clouds go on; do scales tell values apart and searches find their point? | 3 redraws between steps, or 2 with one of them in the middle of a step, delays of 0 and 2, durations of 2, steps late by up to 2; a brush in two dimensions and two in one, over a range of 0..2; 2 elements and 4 half pixel places; 2 areas, 2 levels, 3 places, 2 fingers; 2 listeners, dispatches 2 deep; 3 words, integers of 4 bits, 2 starts; 3 values, 2 scales; arrays of up to 4 integers with sums that overflow from 8 on |

Two threads suffice for what they can do to each other here: every conflict is
between a pair (a nonce, a receipt, a row).  Two artifacts suffice because an
operation touches one artifact and everything said about two of them compares
a pair.  The limits of `NodeConnector` are compared with one counter each.  In `page`,
three redraws give a transition that is superseded while it is superseding, two
elements or areas one that the other's gesture could disturb, and a listener that
fires the event again is the shallowest dispatch inside another.  What the
bounds leave out the theorems of section 5 put back.

The modules of the service, its client and its application state a type
invariant; the run of the contract checks its own, and theorems of section 5 say
that of each of them.  The runs without deadlock checking are those in
which the system may stop: nobody has to make a request.

## 4. Assumptions

- **Fairness.** `TransactionClient`: threads, listener and node keep running
  (threads of the JVM, which poll with `Thread.sleep`), and the network mines
  the next transaction of the account it was given.  `AccountCompletion`: a
  request thread that can go on does, and the network mines.  `NodeConnector`:
  its thread keeps running; the node need not report anything.  Nobody is assumed to
  make a request.  Weak fairness is enough: nothing that is enabled for good
  has to be enabled again and again.  `MCD3Page` assumes none: a browser's frame or
  timeout is late by at most `Lag`, which `Elapse` keeps.
- **Restarts.** The tables are made anew (`spring.jpa.hibernate.ddl-auto=create`) and the
  transcripts uploaded again; the chain and the mails are not touched, and any part of what
  was submitted may still be mined.
- **EthAccounts, FlowRouter, Modal** are packages whose sources are not here.  A document of
  EthAccounts is inactive while MetaMask does not offer its address, and the package follows
  MetaMask with a delay; to go to the path one is on does nothing; a modal that is opened
  over another replaces it or is ignored, both are tried.
- **What is not looked at.** Some histories the library does not handle end a
  behaviour of `page`, with a variable that says so: ALT and the space bar held together
  (`jumped`), a second press of a brush before the first was released (`cut`, for the brush in two
  dimensions), another area or finger in the middle of a zoom (`crossed`), a listener
  of `dragend` that throws (`stuck`), a cloud started again by a listener of a step that gives up
  (`Clobbered`).  A redraw of an axis in the middle of a step (`midway`) does not end a behaviour, but only
  `AnimationEnds` is about what follows; of a step or flush there is at most one, between two of its
  timers.  Arrays that are searched are short enough for the sum of two indices (`BisectAssumption`).
  Section 7 says what happens then.
- **Numbers of the library** are integers: paddings of scales in halves and lengths multiples
  of 420, so that bands are whole; ranges start at 0; places on the page in half pixels; what a zoom works on
  in multiples of the highest power of its factor.  The colours of a list differ.
- **In sync.** The client reads the nonce from the node's best block whether or not the node has
  imported the chain (`Client.java:170`, hazard list).  With the constant `AfterSync` a nonce is
  read only when it has.  `client_serial`, `completion_faults`, `completion_mail` and
  `completion_artifact` set it, `client_unrestricted` and `completion_concurrent` do not.  Of the theorems
  `TokensAreGood` needs it, and only after a restart: before the first one, requests that come one at a time wait
  for the node by themselves.  Section 7 says what happens without.
- **Durations** of transitions are at least 1, in `AxisSettles` and `AnimationEnds`
  (`RedrawAssumption`); the code divides by them.
- **Nobody disables a contract** of the registry in `VerifierPortal` and `OwnerApp`: the
  service has no call of `disableContract`, which only the registry's owner may make.
- **No reorganisation.** Blocks that were imported stay.  The client does not
  handle anything else either.
- **Transactions execute.** Gas limit, sender and arguments are fixed by the
  program; a transaction that is mined and fails is not modelled.  `onBlock`
  would take its receipt for success.
- **One persistence context per request.** `application.properties` does not
  set `spring.jpa.open-in-view`, which is true by default: an entity is read
  once per request, and changed entities are written, all columns, by whichever
  call of a DAO commits next.
- **Time in completions.** An artifact is valid for 520 weeks, so that
  `AccountCompletion` lets the block time stand still.
- **E-mail addresses** match the required pattern, and the fields of an upload are
  filled in; otherwise a request ends before it has done anything.  A code is never
  generated twice (130 random bits).
- **A query for one row** answers null when there is none and throws when there
  are two, as Spring Data does.  A query for many (`findByPublishedTranscript`) has no
  ORDER BY, so that the rows come in any order.
- **Values that stand for nothing** (null, no address, no timer) differ from the values there
  are; tables have finitely many rows; a content address is none of the three messages of the
  page; a hole of a join is no node.  These are the assumptions on constants that the proofs cite by name.
- **The ticks of a scale differ** (`TickAssumption`): those of a linear scale are steps apart (`d3.range`), the others are
  the domain of an ordinal scale, which has every value once.  Their names are the keys of the join.
- **IPFS is addressed by content**, so `VerifierPortal` takes a content address for the
  transcript.
- **Signing is deterministic**, so two threads that build a transaction from
  the same nonce, price and data build the same one, with the same hash.

## 5. Theorems

`ContractTwinsProofs`, for every word size, length of a week, set of accounts,
documents and periods, from the assumptions named in `UnilogContract` and
`UserContract`:

- `TypeCorrect`: types, and expiration dates fit into a word.
- `UnilogCannotRemove`: the inductive invariant `OwnerIsNotUnilog` adds that
  Unilog is `unilog` and never `artifactOwner`.
- `StorageIsHistory`: artifact `id` is what the `id`-th `addArtifact` stored, or
  zero if `id` is in `removals` (`StoredAsIssued`).  It relates the whole storage to
  the history, which makes it inductive where `PeriodHonoured` is not: from it follow
- `RemovedForGood`, `PeriodIsHonoured` (where the sum fits into a word) and the
  action property `OnlyDecay`.

and of the deployed contract together with the tested one:

- `TwinsAreOneContract`: what both contracts do together is a behaviour of
  `UserContract`, so that the theorems above hold of the runs with the tested contract.
- `TwinsStayAlike` (`Alike`: until it is removed an artifact has a counterpart with the same
  content and date, whose flag is cleared only after the period), inductive because
  time does not go back, and from it `TestsSeeTheAnswer`.

`TransactionClientProofs`, for any set of threads, payloads and prices:

- `ClientTypeCorrect`, from `Typed`, which adds that a thread inside
  `sendTransaction` has a transaction.
- `ReceiptsMined` (`ReceiptsAreMined`: what is in `events` or in the map was imported)
  and from it `ReturnedIsMined`.
- `WakeupIsNotLost`: the invariant `ReceiptsAreSomewhere` follows each receipt of
  a block imported since the listener was added through `events`, the map, the
  thread that found it and the thread that returned it.  No assumption about
  the callers.
- `SerialInvariant`, `SerialNonces`, `SerialResults`, which assume
  `OneAtATime` and `AfterSync`: `Serial` says that the chain is ordered by
  nonce, that at most one thread is inside a call, that at most its transaction is
  pending, and that all earlier results have smaller nonces.

- `ClientIsSerialLedger`, under the same two assumptions: under the
  mapping of `Ledger` (a call is executed once its transaction is in the chain) every step of the client is a step of `SerialLedger` or
  a stutter.  It is `ImplementsLedger` without the fairness.

`AccountCompletionProofs`, for every finite set of users, any accounts, any number of
request threads, transactions, faults and restarts.  The first two say nothing of how
requests come, the other five assume `OneAtATime`:

- `CompletionTypeCorrect`, from `Typed`: a contract is the nonce that deployed it, and
  everything that names one (a row, a context, a transaction, a mail) names one that was
  mined; what the local variables of a request hold depends on its step.
- `EveryTokenIsRegistered`, with any number of requests at once.  `RegisteredInv` adds that a mined `addContract` is in
  the registry, that a request past its mail finds that mail, and that one about to save
  finds its contract in the registry.
- `TokensStay`.  `Rounds` holds the argument: nothing but the request in progress
  changes the tables, so that its context is the tables, but for the mark it has not written
  (`Coherent`); the user of the round has no token.
- `OneMailPerUser`.  `MailInv`: who was mailed a token in this life is off the list, or
  their mark waits in the context of the request that mailed it, which either writes it or
  is their last.
- `TokensAreGood`, for states before the first restart or with `AfterSync`.  There what is sent has the next nonce of the chain, also what a request before left behind
  (`SentInv`), and in the first life the node is behind by one transaction at most (`AtMostOneBehind`).  `GoodInv` says what the contract in progress holds at each
  step, before and after its transaction is mined, and that nothing left in `submitted` by a
  failed request touches it or the contract of a saved token (`TokensUntouched`, which
  is why a token is not changed by what is mined late).
- `SuccessIsNeverClaimedFalsely`.  `AnswerInv`: the accounts "Complete All" found ready
  are done or still to do, and those done have their token.
- `WithoutFaultsAllIsComplete`.  `FaultFree`: who is off the list, or was mailed, has the token or
  is the one at whom the request in progress is.

`OnboardingProofs`, for any addresses, accounts, codes, uploads and threads:

- `OnboardingTypeCorrect`, from `Typed` and `NamesTyped`.
- `EveryTranscriptHasOwner`.  `UploadsHaveOwners`: an upload has owners for
  all recipients before the one it is at; rows are never deleted but by a restart, which ends
  the upload as well.
- `NobodyWaitsForACode`.  `RequestsWereMailed`: what a request is about to save was mailed to that address.
- `LoginsAreInTheDatabase`.  `LoginsInv`: the names of the logins are those of the configuration, of the
  completed institutions, and no others (`RowsHaveNames`, `NamesHaveRows`), but for the row of an activation
  between `save` and `createUser` (`ActivationOf`), however many requests overlap; configured names keep
  their password (`ConfiguredStay`).  The passwords agree for behaviours without two requests at once, and names
  that are not configured.
- `FirstAccountStays`, for behaviours without two requests at once.

`OwnerAppProofs`, for any contracts, transcripts and accounts, any number of submissions,
visits, errors and uses of the other pages:

- `AppTypeCorrect`.
- `ShownTranscriptIsGenuine`.  `CallsAreTyped`: a submission has one call in progress;
  `PageIsTrue`: an answer agrees with what was recorded when it was given, and the
  answer of `contains` is still true when the contract is asked, since nobody disables
  a contract.
- `PageShowsLastAnswer`.  `AloneInv`: a submission made with no call in progress has the
  page to itself.
- `RecordsAreTheAccounts` (`ReadIsOfAccount` of the calls in progress) and the action
  property `EditsGoToOpened`, from `ModalInv`: an open modal that edits was opened for the session's
  address.

`NodeConnectorProofs`, for any limits, nodes and blocks: `ConnectorTypeCorrect`; `NoBlockBeforePeers`,
which needs what the loop in between hands on (`LoopsHandOn`); `UnlimitedLoopIsNotReached`: nothing ever
sets `bestBlock`, so that the loop without a limit behind it is not reached.

`D3AxisProofs`, for any lateness of frames and timeouts, and durations of at least 1:

- `AnimationsEnd`, for any redraws, also in the middle of a step (`Halfway`), and any ticks and delays.  `PunctualInv`: a frame that is pending
  was asked for before the timers of the queue were over, or by a timer that took the place of a late timeout; a
  timeout is not after any timer; nothing waits without one of them.  `Works` says what the callbacks of a step may do to the
  queue, and is followed along the recursions over nodes and timers.
- `AxisComesToRest` (`AxisSettles`), for any lists of distinct ticks and any delays, any number of
  redraws and exceptions, as long as no redraw comes in the middle of a step.  `AxisSettles` speaks of a page at rest and is not inductive.  `AxisInv` says, of every
  state that neither an exception nor a redraw in the middle of a step has led to, what is left to do.  A *job* is one node's transition, waiting to begin, to start, or
  under way; a timer that begins a transition stands for one job for each of its nodes.
  - `LocksCount`: no transition has two jobs for a node (`Ordered`), and the lock of a node counts its jobs that
    have begun.  A node whose lock is gone has none left, and one that waits cannot lose its lock.
  - `Settles`: in the document each datum has at most one node, every tick of the last redraw has one,
    and every node is either *pending* (the last redraw has a job for it that brings it where it belongs)
    or has *reached* that and cannot be moved any more, since older transitions are superseded by the active one.
  - `AtOnce`: if no redraw had a delay, no job waits to start from one step to the next and only one is
    under way for a node.  From it follows that what leaves is removed, where a delay may leave it invisible.

  `Chart` states this in the middle of a step, with the jobs done (`D`) apart from those that
  remain (`R`): one lemma for each thing a callback does (`ChartStops`, `ChartEnds`, `ChartActivates`, `ChartKeeps`,
  `ChartBegins`), one for each callback over them (`StopGoes`, `TickEnds`, `TickGoesOn`, `StartGoes`,
  `BeginGoes`), and `CallAllGoes` along the queue.  A redraw is `DrawIs`, what the joins leave in the document, followed by three
  transitions in front of the queue (`PushBegin`).  At rest no job is left, so that all is reached (`AxisHasSettled`).

`D3Proofs`:

- `BisectPartitions`, for all sorted arrays of integers of length up to half of `Half`, from
  the invariant `BInv` (what is left of `lo` belongs to the left, what is right of `hi` to the
  right, `SidesAreClosed`), which needs that the middle lies between `lo` and `hi`
  (`MidBetween`): there the overflow of `lo + hi` would bite, which the bound on the length excludes.  `BisectHalves`
  (`LessThanHalf`): every turn leaves at most half, so the loop ends.
- `DragsCancelTheirClicks`, for any elements and places, from what the variables of the
  page say of a press that is not over (`DragInv`).
- `EventsAreTheirOwn`, for dispatches of any depth: the stack of events saved is that of the
  dispatches under way (`EventInv`).
- `ExtentsStayInRange` and `AnchorsAreEdges`, for any brushes and any mouse.  One invariant carries both
  (`BrushInv`): the extent fits only if the anchor does, and while the space bar is held the anchor
  is relative to the upper end of the extent, so that it is an end again after any move.
- `WordsNeverOverlap`, for every word size, board, images, and steps inside of steps.  `CloudInv`: the
  board of a run has the bit of each pixel that was placed; the bit of a pixel is found by the
  shifts of `place` and of the look for a collision alike (`ShiftIs`, `MaskCovers`); the
  first word, which is placed without a look, finds no other; steps on the stack belong to ever newer runs.
- `RunsGoOn` (`GoesOnInv`).
- `HeldPointsStay`, for any areas, fingers, spots and highest level.  `ZoomInv`: of a gesture in progress the
  view shows the point held where the mouse or the middle of the fingers is, or has just been; the
  locations of two fingers are of one level; a translation is a multiple of the power of its level, so that
  nothing is ever rounded.
- `ScalesTellApart`, for any values, domains and lists of distinct colours.  `OrdinalInv`: the range of a scale is
  the one computed for its domain, or the scale has grown, which is why no setter may forget to compute it;
  `StepsFit` and `BandsAreApart` are the arithmetic of the bands.
- `ListenersAreCalledOnce`, for any names and depth.  `CallsInv`: lists hold listeners in
  order of registration, each once, and a list that an event walks along is at most appended to, however many
  events deep a listener is added or removed.

`StorageIsHistory`, `RemovedForGood`, `BisectHalves`, `UnlimitedLoopIsNotReached`, `ClientIsSerialLedger`
and the theorems on types but the contract's are about formulas that no run checks by themselves.

Only model-checked:

- Liveness: `EveryCallReturns`, `EveryRequestAnswered`, `AttemptEnds`, and the fairness of
  `ImplementsLedger`.
- What `completion_mail`, `completion_artifact` and `verifier_stale` find violated.

## 6. Not modelled, and why

- Compiler, files, hashing and configuration have no behaviour beyond a call of a library.
  `ClientMiner`, which `ClientConfig` starts beside the client, only mines and logs;
  `NetworkListener` is commented out there.  `sendToAdmin` changes nothing the service knows of.
- `encrypt.js` and `keyManagement.js` but `getPublicKeyOfUser`: straight calls of a library on constants,
  and nothing calls them.  The collection `UserCollection` of `Accounts.js` is used by no template;
  `contracts.js` holds interfaces and a source text; FAQ and notifications are empty pages.
- What goes on inside EthereumJ, the mail server, IPFS and the database is external: each
  appears as the outcomes its callers distinguish.
- Of the chart library: formats, interpolation, colours, shapes, projections and requests, which are
  functions of numbers and strings or one callback of the browser; the parts of selections that
  set what is in the document and keep no state; touches of a drag; the rectangles that
  show a brush; the rotation of words and the shape of spirals (a word may be
  tried at any of the positions); ordinal scales as scales of the axis.

## 7. Where the code and its documentation disagree

| run | documentation | code |
|---|---|---|
| `completion_mail` | "We have successfully generated your Unilog token." (`EmailService.java:43`) | the mail leaves before what it speaks of exists; if a later step fails the token never verifies |
| `completion_artifact` | "the artifact ID will be 0" (`AdminServiceImpl.java:131`) | with two completions at one height the contract is shared and the second transcript is artifact 1 |
| `verifier_stale` | "obtained from a credible Unilog source" (`VerifierPortal.html:37`) | for a removed artifact the answer is the empty string, on which the callback does nothing, and the layout changes before the transcript arrives: an earlier transcript stays on the page |

Others that came up while the modules were written.  They are not runs, and the
properties are stated so that they do not depend on them:

- For a removed artifact the tested contract says "Expired!", the deployed one answers
  with the empty string, while `SmartContractTest.java:27` calls the unit of time the
  difference.  `AgreeUnlessRemoved` is about the others.
- Two threads read one nonce, and the loser polls for ever, while `Client.java:192-193`
  says that waiting avoids nonce errors.  `NoNonceError` and `EveryCallReturns` are about calls that
  come one at a time.
- An attempt that fails leaves the account marked as published, off the list and
  without a token, while `AdminService.java:18-25` lists the token as part of completing
  an account.  `FaultFreeCompletion` is about the rest.
- `completeAllAccounts` stops at the first account that cannot be completed, while
  `AdminService.java:31-32` speaks of all of them.
- `waitForDiscovery` goes on when it has found too few nodes, and
  gives up when it has found enough (`NodeConnector.java:84`, `93`); `waitForFirstBlock` looks at a
  field nobody sets, and says that no blocks have been imported (`NodeConnector.java:177`, `186`).
  `NodeConnector` models both as they are, and `AttemptEnds` holds because of the second.
- While the node imports the past again after a restart, a retry reads an old nonce, rebuilds the old deploy
  transaction, and is answered with the old contract, which may hold the transcript of another completion; a saved
  token can then name it.  Nobody asks the flag `synced` of `NodeConnector.java:47`.  `TokenIsGood` is about a node that is in
  sync; without `AfterSync` TLC finds it violated.
- `registerAccount` "adds the user to the in memory authentication" and hashes a password (`AdminService.java:44-46`); the
  code mails and saves (`AdminServiceImpl.java:173-190`), and the login is created when the institution
  activates its account (`UserServiceImpl.java:80-110`).  `Onboarding` models the code.
- An institution that is invited under the name of the configured login (`WebSecurityConfig.java:43`) is saved as completed, then
  `createUser` throws, and it can never log in with its password; of two activations at once, one throws,
  and the row may have the password of the one that threw.  `LoginMatchesDatabase` says which logins have the
  password of their row.
- Two requests at once may overwrite a row with an older copy: a saved token can be lost
  (`UserServiceImpl.java:146`), and the second of two registrations wins (`UnilogResource.java:98`).
  `TokenIsKept` and `FirstRegistrationStands` are about requests that come one at a time.
- An owner with two transcripts gets two rows and two codes (`UserServiceImpl.java:206`, "Bring the
  following activation code with you", `EmailService.java:40`); the query for one row of the address
  then throws, and neither code registers.
- After a restart, a transaction that was submitted before it can take the nonce of a later request, which
  then polls for ever.  `EveryRequestAnswered` excepts it by name (`Overtaken`).
- `ClientListenerAdapter` keeps every receipt that no call takes for ever.
- The owner's pages keep `currentContent` of an artifact that was removed or has expired since, or of a
  contract that was exchanged; "Your Account's Public Key" (`generateKeyModal.html:7`) is a
  signature; the message that there are no records is never shown.
- Timers of the library: several loops may be pending at once (`d3.js:2226`); a callback that throws stops all
  timers, since the frame that runs them asks for the next one afterwards (2229, 2276); a
  timeout that is late and then given up for a frame delays an animation by two latenesses (2262-2266), which
  `AnimationEnds` allows, and which is proved but needs a larger clock than the run's; a
  tick whose transition was superseded late stays faint, a late frame overrides a redraw at
  once, and a redraw at once leaves what was fading.  A listener that draws an axis again (`transition.each("end", ...)`,
  `d3.js:2050-2055`) may join a tick that is leaving; the timers of the new transition are not visited in this step
  (2274-2278), and a timer further on removes the tick (2195-2199), which is then missing.  `AxisSettles` is about charts without these
  (`late`, `mixed`, `thrown`, `midway`); without the last condition TLC finds the missing tick.
- `selection.on` leaves a removed listener where a later `on` finds it (comment at `d3.js:1856`).
- A brush with ALT and the space bar pushes its extent out of the range (comment at `d3.js:4340`); after a
  release outside of the window the next gesture starts with the side of the old one.
- A drag by less than a pixel at a time is no movement; after a `dragend` listener that throws the element
  stays with the mouse; an element removed between `dragend` and the click makes the next click vanish.
- A wheel turned over another area during a pan, a double click between two turns at the limit, or a
  touch elsewhere make a zoom jump.
- A word cloud that is started again by its `word` listener loses the interval when `timeInterval` is finite;
  other texts are shown with the sprites of the old ones (`d3.layout.js:219`); the last row
  of sprites may be lost; a placed word that no longer fits throws.
- `rangePoints` with one value and no padding is not a number (`d3.js:2743-2744`); the bands of a
  copy of a scale that has grown differ from its own, and grown values share bands; without
  a domain a band is infinitely wide.

## 8. Plan

The parts with behaviour are modelled, and the safety properties that are checked and hold are all
proved.  Liveness is out of the prover's reach and stays with the runs.  A hazard no property is about is
a mined transaction that failed (`PROJECT.json`): the contracts would need gas.
