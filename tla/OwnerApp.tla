------------------------------- MODULE OwnerApp -------------------------------
(***************************************************************************)
(* The application of owners and verifiers (src/dappunilog/client) around  *)
(* the verifier's page: the routes and who may see them, the accounts and  *)
(* their modals, the records page, and the request for a signature.        *)
(*                                                                         *)
(* Everything runs in one thread of the browser.  What makes it hard is    *)
(* that answers of the chain, of IPFS and of MetaMask come after the user  *)
(* has gone elsewhere, opened a modal, or selected another account in      *)
(* MetaMask.                                                               *)
(*                                                                         *)
(* EthAccounts, a package, keeps one document per address in the browser's *)
(* storage; those that MetaMask does not offer are inactive, and findOne   *)
(* does not return them.  It follows MetaMask with a delay.                *)
(***************************************************************************)
EXTENDS VerifierPortal

CONSTANTS
    Account,    \* the user's accounts in MetaMask
    MaxUses     \* bound: records obtained, modals saved, signatures asked for

ASSUME AccountAssumption == Account \subseteq Address
ASSUME AppBoundAssumption == MaxUses \in Nat

VARIABLES
    loggedIn,               \* Meteor.userId() is set
    path,                   \* the current route, with its parameter
    selected,               \* web3.eth.accounts[0]
    active,                 \* the account EthAccounts.findOne({}) returns
    accounts,               \* the documents of EthAccounts
    currentAccountAddress,  \* Session 'currentAccountAddress'
    modal,                  \* the modal that is open
    reads,                  \* the records page's calls in progress
    asks,                   \* the accounts asked to sign, MetaMask's answer outstanding
    uses,                   \* number of what MaxUses limits
    openedFor,              \* history: the account on whose page the modal was opened
    contractsOf             \* history: the contracts each account has had

pageVars  == <<loggedIn, path>>
maskVars  == <<selected, active, asks>>
modalVars == <<currentAccountAddress, modal, openedFor>>
dataVars  == <<accounts, contractsOf, uses>>
appVars   == <<pageVars, maskVars, modalVars, reads, dataVars>>

Use == uses < MaxUses /\ uses' = uses + 1

-----------------------------------------------------------------------------
Page(page)         == [page |-> page, id |-> NoAddress]
PageOf(page, a)    == [page |-> page, id |-> a]
Paths == {Page(p) : p \in {"home", "FAQ", "overview", "notifications"}}
            \cup {PageOf(p, a) : p \in {"verifier", "account", "records"}, a \in Account}

\* Accounts keep the contracts that were entered in earlier sessions.
AppInit ==
    /\ Init
    /\ loggedIn = FALSE /\ path = Page("home")
    /\ selected \in Account /\ active = selected
    /\ \E contract \in [Account -> Deployed \cup {None}] :
          /\ accounts = [a \in Account |-> [name |-> "first", contractAddress |-> contract[a],
                                            currentContent |-> None]]
          /\ contractsOf = [a \in Account |-> {contract[a]} \ {None}]
    /\ currentAccountAddress = NoAddress /\ modal = "none" /\ openedFor = NoAddress
    /\ reads = {} /\ asks = {}
    /\ uses = 0

-----------------------------------------------------------------------------
\* The routes.

\* Where a path leads: who is not logged in is sent home, except from the FAQ,
\* and who is logged in is sent on from home.
Route(target, user) ==
    IF ~user THEN (IF target.page = "FAQ" THEN target ELSE Page("home"))
    ELSE IF target.page = "home" THEN Page("overview") ELSE target

\* The verifier's template is created when the page before was another one.
Show(p) ==
    /\ path' = p
    /\ IF p.page = "verifier" /\ path.page # "verifier" THEN Enter ELSE UNCHANGED vars

\* A link, an address, the browser's back button.  To go where one is does nothing.
FollowLink(target) ==
    /\ Route(target, loggedIn) # path
    /\ Show(Route(target, loggedIn))
    /\ UNCHANGED <<loggedIn, maskVars, modalVars, reads, dataVars>>

\* onLogin.
Login ==
    /\ ~loggedIn /\ loggedIn' = TRUE
    /\ Show(Route(Page("overview"), TRUE))
    /\ UNCHANGED <<maskVars, modalVars, reads, dataVars>>

\* onLogout.  Answers that are outstanding still come.
Logout ==
    /\ loggedIn /\ loggedIn' = FALSE
    /\ Show(Route(Page("home"), FALSE))
    /\ UNCHANGED <<maskVars, modalVars, reads, dataVars>>

\* The page is loaded again: what is in storage remains, the user among it, for
\* whom onLogin is called again.
Reload ==
    /\ path' = Route(IF loggedIn THEN Page("overview") ELSE path, loggedIn)
    /\ calls' = {} /\ reads' = {} /\ asks' = {}
    /\ currentAccountAddress' = NoAddress /\ modal' = "none" /\ openedFor' = NoAddress
    /\ active' = selected
    /\ alone' = FALSE
    /\ UNCHANGED <<chainVars, result, visit, showNoResult, submissions, faults, shownFor, truth>>
    /\ UNCHANGED <<loggedIn, selected, dataVars>>

-----------------------------------------------------------------------------
\* MetaMask.

SelectAccount(a) ==
    /\ selected' = a /\ a # selected
    /\ UNCHANGED <<vars, pageVars, active, asks, modalVars, reads, dataVars>>

\* EthAccounts asks web3 for the accounts from time to time.
FollowSelection ==
    /\ active # selected /\ active' = selected
    /\ UNCHANGED <<vars, pageVars, selected, asks, modalVars, reads, dataVars>>

\* Whether an update reaches the document of an inactive account is up to the package.
Reaches(a) == IF a = active THEN {TRUE} ELSE BOOLEAN

-----------------------------------------------------------------------------
\* Accounts and their modals.

\* The helper account of the pages with an account in their route: none when it is
\* not active.
HasAccount(page, a) == path = PageOf(page, a) /\ a = active

GetOneEthAccount(a) == path.page = "overview" /\ a = active

IsActive(a) == a = selected

\* The account whose buttons the page shows: the overview looks at MetaMask too.
OnPage(a) == (GetOneEthAccount(a) /\ IsActive(a)) \/ HasAccount("account", a)

\* Only an account's own page has the button for the contract's address.
Offers(a, which) == OnPage(a) /\ (which = "addContractAddressModal" => path.page = "account")

OpenModalFor(a, which) == currentAccountAddress' = a /\ modal' = which

\* The buttons that open a modal, which then covers the page.
OpenModal(a, which) ==
    /\ Offers(a, which) /\ modal = "none" /\ uses < MaxUses
    /\ OpenModalFor(a, which) /\ openedFor' = a
    /\ UNCHANGED <<vars, pageVars, maskVars, reads, dataVars>>

Dismiss ==
    /\ modal # "none" /\ modal' = "none"
    /\ UNCHANGED <<vars, pageVars, maskVars, currentAccountAddress, openedFor, reads, dataVars>>

\* Mutant: the account of the route instead of the one the modal was opened for.
SaveForRoute(field, value) ==
    /\ Use /\ path.id \in Account
    /\ modal' = "none"
    /\ accounts' = [accounts EXCEPT ![path.id][field] = value]
    /\ contractsOf' = [contractsOf EXCEPT ![path.id] = @ \cup ({value} \cap Deployed)]
    /\ UNCHANGED <<vars, pageVars, maskVars, currentAccountAddress, openedFor, reads>>

\* What the two modals do on 'click #save': the field is set and the modal closed.
Save(field, value) ==
    /\ Use
    /\ modal' = "none"
    /\ \/ /\ TRUE \in Reaches(currentAccountAddress)
          /\ accounts' = [accounts EXCEPT ![currentAccountAddress][field] = value]
          /\ contractsOf' = [contractsOf EXCEPT ![currentAccountAddress] = @ \cup ({value} \cap Deployed)]
       \/ /\ FALSE \in Reaches(currentAccountAddress)
          /\ UNCHANGED <<accounts, contractsOf>>
    /\ UNCHANGED <<vars, pageVars, maskVars, currentAccountAddress, openedFor, reads>>

SaveName(value)     == modal = "editAccountModal" /\ Save("name", value)
SaveContract(value) == modal = "addContractAddressModal" /\ Save("contractAddress", value)

\* getPublicKeyOfUser: MetaMask is asked for a signature by the selected account.
AskSignature(a) ==
    /\ OnPage(a) /\ modal = "none"
    /\ Use
    /\ asks' = asks \cup {selected}
    /\ UNCHANGED <<vars, pageVars, selected, active, modalVars, reads, accounts, contractsOf>>

\* The user confirms, and the modal with the signature replaces the one that is
\* open or is ignored; or rejects, and nothing is shown.
OnSignature(a) ==
    /\ asks' = asks \ {a}
    /\ modal' \in {modal, "generateKeyModal"}
    /\ UNCHANGED <<vars, pageVars, selected, active, currentAccountAddress, openedFor, reads, dataVars>>

-----------------------------------------------------------------------------
\* The records page.

\* 'click .getRecordsOnContract': account and contract are those at the click.  An
\* account without a contract makes no call that the node would accept.
ClickObtain(a) ==
    /\ HasAccount("records", a) /\ modal = "none"
    /\ accounts[a].contractAddress # None
    /\ Use
    /\ reads' = reads \cup {[account |-> a, fn |-> "verifyArtifact",
                             contract |-> accounts[a].contractAddress, answer |-> None]}
    /\ UNCHANGED <<vars, pageVars, maskVars, modalVars, accounts, contractsOf>>

\* The node answers for artifact 0 on the state it has.
ExecuteRead(call) ==
    /\ call.fn = "verifyArtifact" /\ call.answer = None
    /\ reads' = (reads \ {call}) \cup
                {[call EXCEPT !.answer = VerifyArtifact(world[call.contract], now, 0)]}
    /\ UNCHANGED <<vars, pageVars, maskVars, modalVars, dataVars>>

\* The callback: any answer but the empty string is taken for a content address.
OnRead(call) ==
    /\ call.fn = "verifyArtifact" /\ call.answer # None
    /\ reads' = (reads \ {call}) \cup
                (IF call.answer = NoContent THEN {} ELSE {[call EXCEPT !.fn = "cat"]})
    /\ UNCHANGED <<vars, pageVars, maskVars, modalVars, dataVars>>

\* Mutant: the account of the route when the transcript arrives.
OnRecordForRoute(call) ==
    /\ call.fn = "cat"
    /\ reads' = reads \ {call}
    /\ IF call.answer \in Content /\ path.id \in Account
       THEN accounts' = [accounts EXCEPT ![path.id].currentContent = call.answer]
       ELSE UNCHANGED accounts
    /\ UNCHANGED <<vars, pageVars, maskVars, modalVars, uses, contractsOf>>

\* The callback of ipfs.cat.  IPFS has nothing under "Expired!" or "Fictional
\* Artifact!": an error is logged.
OnRecord(call) ==
    /\ call.fn = "cat"
    /\ reads' = reads \ {call}
    /\ \/ /\ call.answer \in Content /\ TRUE \in Reaches(call.account)
          /\ accounts' = [accounts EXCEPT ![call.account].currentContent = call.answer]
       \/ /\ call.answer \notin Content \/ FALSE \in Reaches(call.account)
          /\ UNCHANGED accounts
    /\ UNCHANGED <<vars, pageVars, maskVars, modalVars, uses, contractsOf>>

\* Each callback only logs an error.
OnReadError(call) ==
    /\ faults < MaxFaults /\ faults' = faults + 1
    /\ reads' = reads \ {call}
    /\ UNCHANGED <<chainVars, calls, result, showNoResult, shownFor, truth, historyVars>>
    /\ UNCHANGED <<pageVars, maskVars, modalVars, dataVars>>

-----------------------------------------------------------------------------
\* The verifier's page has its form only for an account that is active.
AppSubmit ==
    /\ HasAccount("verifier", path.id) /\ modal = "none"
    /\ \E c \in Deployed, id \in EnteredId, isRegistry \in BOOLEAN : Submit(c, id, isRegistry)

Verifying ==
    /\ \/ \E c \in Deployed : RegisterContract(c) \/ RemoveArtifact(c)
       \/ NextBlock
       \/ AppSubmit
       \/ \E call \in calls : Callback(call)
    /\ UNCHANGED appVars

AppNext ==
    \/ Verifying
    \/ \E target \in Paths : FollowLink(target)
    \/ Login \/ Logout \/ Reload \/ FollowSelection \/ Dismiss
    \/ \E a \in Account :
          \/ SelectAccount(a) \/ AskSignature(a) \/ ClickObtain(a)
          \/ \E which \in {"editAccountModal", "addContractAddressModal"} : OpenModal(a, which)
    \/ \E a \in asks : OnSignature(a)
    \/ SaveName("second")
    \/ \E c \in Deployed : SaveContract(c)
    \/ \E call \in reads : ExecuteRead(call) \/ OnRead(call) \/ OnRecord(call) \/ OnReadError(call)

AppSpec == AppInit /\ [][AppNext]_<<vars, appVars>>

-----------------------------------------------------------------------------
AppTypeOK ==
    /\ TypeOK
    /\ path \in Paths /\ selected \in Account /\ active \in Account
    /\ \A a \in Account :
          /\ accounts[a].contractAddress \in Deployed \cup {None}
          /\ accounts[a].currentContent \in Content \cup {None}
    /\ modal # "none" /\ modal # "generateKeyModal" => currentAccountAddress \in Account
    /\ asks \subseteq Account
    /\ \A call \in reads : call.fn = "cat" => call.answer # NoContent

(***************************************************************************)
(* The record an account has is artifact 0 of a contract that was this     *)
(* account's when it was asked for, although the user may have gone to     *)
(* another account's page, changed the contract or selected another        *)
(* account before the transcript arrived (Records.js:10-35, 59-68).        *)
(***************************************************************************)
RecordIsOfAccount ==
    \A a \in Account : accounts[a].currentContent # None =>
        \E c \in contractsOf[a] : accounts[a].currentContent = DocOf[c]

(***************************************************************************)
(* A modal changes the account it was opened for and no other, and nothing *)
(* else changes a name or a contract's address: neither a navigation while *)
(* the modal is open, nor the modal of a signature that comes in between   *)
(* (editAccountModal.js:14-25, addContractAddressModal.js:14-26).          *)
(***************************************************************************)
EditGoesToOpened ==
    [][\A a \in Account :
          \/ a = openedFor /\ modal # "none"
          \/ /\ accounts'[a].name = accounts[a].name
             /\ accounts'[a].contractAddress = accounts[a].contractAddress]_<<vars, appVars>>
=============================================================================
