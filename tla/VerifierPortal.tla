--------------------------- MODULE VerifierPortal ----------------------------
(***************************************************************************)
(* The verifier's page (VerifierPortal.js): a token is submitted, the      *)
(* registry is asked whether it lists the token's contract, then the       *)
(* contract for the artifact, then IPFS for the transcript.  Each call is  *)
(* asynchronous and its callback makes the next one.  Nothing keeps the    *)
(* verifier from submitting again meanwhile, or from leaving the page and  *)
(* entering it again, so that the callbacks of several submissions come in *)
(* any order and to templates that are gone, while Unilog registers        *)
(* contracts, owners remove artifacts and periods end.                     *)
(*                                                                         *)
(* The contracts are as a completion leaves them before the last step      *)
(* (AccountCompletion): one artifact, its owner assigned, not yet in the   *)
(* registry.  What is stored under a content address never changes, so a   *)
(* content address is also the transcript.                                 *)
(***************************************************************************)
EXTENDS UnilogContract, UnilogRegistry

CONSTANTS
    Unilog,          \* Unilog's account
    Deployed,        \* the addresses of the user contracts
    OwnerOf,         \* the owner of each
    DocOf,           \* the transcript of each
    ValidFor,        \* the period of their artifacts
    None,            \* "not answered yet"
    MaxTime,         \* bound: the last block time
    MaxSubmissions,  \* bound: submissions of the form
    MaxVisits,       \* bound: times the page is entered
    MaxFaults        \* bound: calls that answer with an error

ASSUME OwnersAssumption == /\ Unilog \in Address
                           /\ OwnerOf \in [Deployed -> Address]
                           /\ DocOf \in [Deployed -> Content]
ASSUME NumberAssumption == /\ ValidFor \in Nat /\ MaxTime \in Nat
                           /\ MaxSubmissions \in Nat /\ MaxFaults \in Nat
                           /\ MaxVisits \in Nat \ {0}

VARIABLES
    world,         \* the storage of each user contract
    registry,      \* the storage of Unilog's registry
    now,           \* the timestamp of the current block
    calls,         \* the calls in progress, with their answers if they have one
    result,        \* Session 'result'
    visit,         \* the number of the template instance on the page
    showNoResult,  \* which of the two layouts that instance has
    submissions,   \* number of submissions so far
    faults,        \* number of errors so far
    shownFor,      \* history: the submission that set result
    truth,         \* history: what registry and contract said for each submission
    alone          \* history: the last submission was made with no call in
                   \* progress, on the template that is still there

vars == <<world, registry, now, calls, result, visit, showNoResult,
          submissions, faults, shownFor, truth, alone>>

chainVars   == <<world, registry, now>>
historyVars == <<visit, submissions, alone>>

-----------------------------------------------------------------------------
Prompt      == "Please enter a valid token above to view the artifact."
NotListed   == "The contract address is either not in the Unilog Registry ..."
NotValid    == "This token is not valid, message received: "
Message     == {Prompt, NotListed, NotValid}

\* Neither is a content address.
ASSUME MessageAssumption == Content \cap Message = {}

\* The artifact ids people enter: the one in the token, or another.
EnteredId == {0, 1}

Init ==
    /\ world = [c \in Deployed |->
                   AssignArtifactOwner(AddArtifact(NewContract(Unilog), 0, DocOf[c], ValidFor),
                                       OwnerOf[c])]
    /\ registry = NewRegistry(Unilog)
    /\ now = 0
    /\ calls = {} /\ result = Prompt /\ visit = 1 /\ showNoResult = TRUE
    /\ submissions = 0 /\ faults = 0
    /\ shownFor = 0 /\ truth = [s \in 1 .. MaxSubmissions |-> None] /\ alone = TRUE

-----------------------------------------------------------------------------
\* The block chain.

RegisterContract(c) ==
    /\ onlyBy(Unilog, registry.owner)
    /\ ~RegistryContains(registry, c)
    /\ registry' = AddContract(registry, c)
    /\ UNCHANGED <<world, now, calls, result, showNoResult, faults, shownFor, truth, historyVars>>

RemoveArtifact(c) ==
    /\ onlyBy(OwnerOf[c], world[c].artifactOwner)
    /\ world' = [world EXCEPT ![c] = DeleteArtifact(@, 0)]
    /\ UNCHANGED <<registry, now, calls, result, showNoResult, faults, shownFor, truth, historyVars>>

NextBlock ==
    /\ now < MaxTime
    /\ now' = now + 1
    /\ UNCHANGED <<world, registry, calls, result, showNoResult, faults, shownFor, truth, historyVars>>

-----------------------------------------------------------------------------
\* The page.

\* onCreated: the page is entered again, from another one.  Session 'result' is
\* one for all templates, showNoResult is not.
Enter ==
    /\ visit < MaxVisits
    /\ visit' = visit + 1
    /\ showNoResult' = TRUE
    /\ result' = Prompt /\ shownFor' = 0
    /\ alone' = FALSE
    /\ UNCHANGED <<chainVars, calls, faults, truth, submissions>>

\* The entered registry is Unilog's, or an address without a registry.
Submit(c, id, isRegistry) ==
    /\ submissions < MaxSubmissions
    /\ submissions' = submissions + 1
    /\ alone' = (calls = {})
    /\ calls' = calls \cup {[fn |-> "contains", by |-> submissions', contract |-> c, id |-> id,
                             isRegistry |-> isRegistry, answer |-> None, template |-> visit]}
    /\ UNCHANGED <<chainVars, result, visit, showNoResult, faults, shownFor, truth>>

\* A callback sets the layout of the template its form was submitted on.
SetLayout(call, value) == showNoResult' = IF call.template = visit THEN value ELSE showNoResult

Replace(call, with) == calls' = (calls \ {call}) \cup with

Answer(call, answer) == Replace(call, {[call EXCEPT !.answer = answer]})

\* The callback of a call makes the next one.
Continue(call, fn, answer) == Replace(call, {[call EXCEPT !.fn = fn, !.answer = answer]})

\* The node executes contains on the state it has.
ExecuteContains(call) ==
    /\ call.fn = "contains" /\ call.answer = None
    /\ Answer(call, call.isRegistry /\ RegistryContains(registry, call.contract))
    /\ truth' = [truth EXCEPT ![call.by] =
                    IF call.isRegistry /\ RegistryContains(registry, call.contract)
                    THEN @ ELSE NotListed]
    /\ UNCHANGED <<chainVars, result, showNoResult, faults, shownFor, historyVars>>

\* The node executes verifyArtifact on the state it has by then.
ExecuteVerify(call) ==
    /\ call.fn = "verifyArtifact" /\ call.answer = None
    /\ LET artifact == VerifyArtifact(world[call.contract], now, call.id)
       IN  /\ Answer(call, artifact)
           /\ truth' = [truth EXCEPT ![call.by] =
                  IF ~(call.isRegistry /\ RegistryContains(registry, call.contract)) THEN NotListed
                  ELSE IF artifact \in {Fictional, Expired} THEN NotValid ELSE artifact]
    /\ UNCHANGED <<chainVars, result, showNoResult, faults, shownFor, historyVars>>

\* Mutant: the callback does not look at the answer.
OnContainsTrusting(call) ==
    /\ call.fn = "contains" /\ call.answer # None
    /\ Continue(call, "verifyArtifact", None)
    /\ UNCHANGED <<result, showNoResult, shownFor>>
    /\ UNCHANGED <<chainVars, faults, truth, historyVars>>

\* The callback of contains.
OnContains(call) ==
    /\ call.fn = "contains" /\ call.answer # None
    /\ \/ /\ call.answer
          /\ Continue(call, "verifyArtifact", None)
          /\ UNCHANGED <<result, showNoResult, shownFor>>
       \/ /\ ~call.answer
          /\ Replace(call, {})
          /\ result' = NotListed /\ shownFor' = call.by
          /\ SetLayout(call, TRUE)
    /\ UNCHANGED <<chainVars, faults, truth, historyVars>>

\* Mutant: the layout stays what it was.
OnArtifactHalf(call) ==
    /\ call.fn = "verifyArtifact" /\ call.answer # None
    /\ \/ /\ call.answer \notin {NoContent, Fictional, Expired}
          /\ Continue(call, "cat", call.answer)
          /\ SetLayout(call, FALSE)
          /\ UNCHANGED <<result, shownFor>>
       \/ /\ call.answer \in {Fictional, Expired}
          /\ Replace(call, {})
          /\ result' = NotValid /\ shownFor' = call.by
          /\ UNCHANGED showNoResult
       \/ /\ call.answer = NoContent
          /\ Replace(call, {})
          /\ UNCHANGED <<result, showNoResult, shownFor>>
    /\ UNCHANGED <<chainVars, faults, truth, historyVars>>

\* The callback of verifyArtifact.  It changes the layout before the
\* transcript has arrived, and does nothing for the empty string.
OnArtifact(call) ==
    /\ call.fn = "verifyArtifact" /\ call.answer # None
    /\ \/ /\ call.answer \notin {NoContent, Fictional, Expired}
          /\ Continue(call, "cat", call.answer)
          /\ SetLayout(call, FALSE)
          /\ UNCHANGED <<result, shownFor>>
       \/ /\ call.answer \in {Fictional, Expired}
          /\ Replace(call, {})
          /\ result' = NotValid /\ shownFor' = call.by
          /\ SetLayout(call, TRUE)
       \/ /\ call.answer = NoContent
          /\ Replace(call, {})
          /\ UNCHANGED <<result, showNoResult, shownFor>>
    /\ UNCHANGED <<chainVars, faults, truth, historyVars>>

\* The callback of ipfs.cat.  It does not touch the layout.
OnTranscript(call) ==
    /\ call.fn = "cat"
    /\ Replace(call, {})
    /\ result' = call.answer /\ shownFor' = call.by
    /\ UNCHANGED <<chainVars, showNoResult, faults, truth, historyVars>>

\* Each callback only logs an error.
OnError(call) ==
    /\ faults < MaxFaults
    /\ faults' = faults + 1
    /\ Replace(call, {})
    /\ UNCHANGED <<chainVars, result, showNoResult, shownFor, truth, historyVars>>

-----------------------------------------------------------------------------
Callback(call) ==
    \/ ExecuteContains(call) \/ ExecuteVerify(call)
    \/ OnContains(call) \/ OnArtifact(call) \/ OnTranscript(call)
    \/ OnError(call)

Next ==
    \/ \E c \in Deployed : RegisterContract(c) \/ RemoveArtifact(c)
    \/ NextBlock
    \/ \E c \in Deployed, id \in EnteredId, isRegistry \in BOOLEAN : Submit(c, id, isRegistry)
    \/ Enter
    \/ \E call \in calls : Callback(call)

Spec == Init /\ [][Next]_vars

-----------------------------------------------------------------------------
\* The page says "obtained from a credible Unilog source" and shows a transcript.
Credible == ~showNoResult /\ result \in Content

TypeOK ==
    /\ world \in [Deployed -> Contract]
    /\ registry.repository \subseteq Deployed
    /\ \A call \in calls : /\ call.fn \in {"contains", "verifyArtifact", "cat"}
                           /\ call.by \in 1 .. submissions
                           /\ call.template \in 1 .. visit
                           /\ call.fn = "cat" => call.answer \in Content
    /\ result \in Message \cup Content
    /\ showNoResult \in BOOLEAN

(***************************************************************************)
(* A transcript that is shown is what the contract of a submitted token    *)
(* answered after the token was submitted, with the contract in Unilog's   *)
(* registry, in whatever order the callbacks of several submissions come,  *)
(* and whatever else is added, removed or expires on the chain meanwhile;  *)
(* that Unilog disables a contract is left out (VerifierPortal.js:30-45,   *)
(* 68-100).                                                                *)
(***************************************************************************)
ShownIsGenuine == result \in Content => truth[shownFor] = result

(***************************************************************************)
(* Who submits only when the last submission is answered reads the answer  *)
(* to it: when a submission was made with no call in progress, all its     *)
(* calls are answered, none with an error or the empty string, the page    *)
(* has the message or the transcript for it, in the layout that goes with  *)
(* it (VerifierPortal.js:30-45, 68-100).                                   *)
(***************************************************************************)
PageIsCurrent ==
    (calls = {} /\ submissions > 0 /\ alone /\ faults = 0 /\ truth[submissions] # NoContent)
        => /\ result = truth[submissions]
           /\ showNoResult <=> result \notin Content

(***************************************************************************)
(* "This data has been obtained from a credible Unilog source on the block *)
(* chain.  Check it against whatever data the token was attached to."      *)
(* (VerifierPortal.html:37-39): when every call is answered, a transcript  *)
(* that is shown as credible is that of the token submitted last.          *)
(***************************************************************************)
CredibleIsCurrent == calls = {} /\ Credible => shownFor = submissions
=============================================================================
