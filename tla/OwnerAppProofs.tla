---------------------------- MODULE OwnerAppProofs ----------------------------
(***************************************************************************)
(* Proofs about the owners' and verifiers' application for every set of    *)
(* contracts, transcripts and accounts, and any number of submissions,     *)
(* visits, errors and uses.                                                *)
(***************************************************************************)
EXTENDS OwnerApp, TLAPS

(***************************************************************************)
(* The contracts hold one artifact, or what is left of it.                 *)
(***************************************************************************)
OneArtifact ==
    \A c \in Deployed :
        /\ world[c] \in Contract
        /\ Len(world[c].artifacts) = 1
        /\ world[c].artifacts[1].artifactAddress \in {DocOf[c], NoContent}

ArtifactAnswer(c) == {DocOf[c], NoContent, Fictional, Expired}

(***************************************************************************)
(* What the page's calls are, and that each submission has at most one.    *)
(***************************************************************************)
IsCall(call) ==
    /\ call = [fn |-> call.fn, by |-> call.by, contract |-> call.contract, id |-> call.id,
               isRegistry |-> call.isRegistry, answer |-> call.answer,
               template |-> call.template]
    /\ call.fn \in {"contains", "verifyArtifact", "cat"}
    /\ call.by \in 1 .. submissions /\ call.contract \in Deployed /\ call.id \in EnteredId
    /\ call.isRegistry \in BOOLEAN /\ call.template \in 1 .. visit

CallsAreTyped ==
    /\ submissions \in 0 .. MaxSubmissions /\ visit \in Nat \ {0} /\ faults \in Nat
    /\ DOMAIN truth = 1 .. MaxSubmissions
    /\ \A call \in calls : IsCall(call)
    /\ \A call, other \in calls : call.by = other.by => call = other

Listed(call) == call.isRegistry /\ RegistryContains(registry, call.contract)

(***************************************************************************)
(* What a call's answer and the submission's history have in common: the   *)
(* answer of contains is still true when the contract is asked, since      *)
(* nobody disables contracts, and the answer that a callback goes on with  *)
(* is the one that was recorded.                                           *)
(***************************************************************************)
AnswerIsTruth(call) ==
    /\ call.fn = "contains" /\ call.answer # None =>
           /\ call.answer \in BOOLEAN
           /\ call.answer = TRUE => Listed(call)
           /\ call.answer = FALSE => truth[call.by] = NotListed
    /\ call.fn = "verifyArtifact" =>
           /\ Listed(call)
           /\ call.answer # None =>
                  /\ call.answer \in ArtifactAnswer(call.contract)
                  /\ truth[call.by] = IF call.answer \in {Fictional, Expired} THEN NotValid
                                      ELSE call.answer
    /\ call.fn = "cat" => call.answer \in Content /\ truth[call.by] = call.answer

(***************************************************************************)
(* A submission whose transcript is shown makes no more calls.             *)
(***************************************************************************)
ShownIsOver ==
    result \in Content => /\ shownFor \in 1 .. submissions
                          /\ \A call \in calls : call.by # shownFor

PageIsTrue ==
    /\ \A call \in calls : AnswerIsTruth(call)
    /\ ShownIsOver
    /\ ShownIsGenuine

(***************************************************************************)
(* A submission made with no call in progress has the page to itself until *)
(* it is answered.                                                         *)
(***************************************************************************)
Current ==
    /\ result = truth[submissions]
    /\ showNoResult <=> result \notin Content

AloneInv ==
    (alone /\ submissions > 0 /\ faults = 0) =>
        /\ \A call \in calls : /\ call.by = submissions /\ call.template = visit
                               /\ call.fn = "cat" => showNoResult = FALSE
        /\ calls = {} => truth[submissions] = NoContent \/ Current

(***************************************************************************)
(* The records page: what a call asks for belongs to the account.          *)
(***************************************************************************)
Name == {"first", "second"}

AccountsAreTyped ==
    /\ accounts \in [Account -> [name : Name, contractAddress : Deployed \cup {None},
                                 currentContent : Content \cup {None}]]
    /\ contractsOf \in [Account -> SUBSET Deployed]
    /\ \A a \in Account : accounts[a].contractAddress \in contractsOf[a] \cup {None}

ReadIsOfAccount(call) ==
    /\ call \in [account : Account, fn : {"verifyArtifact", "cat"}, contract : Deployed,
                 answer : Content \cup {NoContent, Fictional, Expired, None}]
    /\ call.contract \in contractsOf[call.account]
    /\ call.answer # None => call.answer \in ArtifactAnswer(call.contract)
    /\ call.fn = "cat" => call.answer \notin {None, NoContent}

RecordsInv ==
    /\ AccountsAreTyped
    /\ \A call \in reads : ReadIsOfAccount(call)
    /\ RecordIsOfAccount

Edits == {"editAccountModal", "addContractAddressModal"}

ModalInv ==
    /\ modal \in {"none", "generateKeyModal"} \cup Edits
    /\ modal \in Edits => currentAccountAddress = openedFor /\ currentAccountAddress \in Account

-----------------------------------------------------------------------------
(***************************************************************************)
(* To the verifier's page, what the rest of the application does is to     *)
(* enter the page, to load it again, or an error of another page's call    *)
(* (VerifierPortal.js, Records.js:23-35).                                  *)
(***************************************************************************)
LEMMA PageSteps ==
    ASSUME [AppNext]_<<vars, appVars>>
    PROVE  [Next]_vars \/ Reload \/ \E call \in reads : OnReadError(call)
<1>1. CASE Verifying
  BY <1>1 DEF Verifying, AppSubmit, Next
<1>2. ASSUME NEW target \in Paths, FollowLink(target) PROVE [Next]_vars
  BY <1>2 DEF FollowLink, Show, Next
<1>3. CASE Login \/ Logout
  BY <1>3 DEF Login, Logout, Show, Next
<1>4. CASE FollowSelection \/ Dismiss
  BY <1>4 DEF FollowSelection, Dismiss
<1>5. ASSUME NEW a \in Account,
             \/ SelectAccount(a) \/ AskSignature(a) \/ ClickObtain(a)
             \/ \E which \in {"editAccountModal", "addContractAddressModal"} : OpenModal(a, which)
      PROVE  UNCHANGED vars
  BY <1>5 DEF SelectAccount, AskSignature, ClickObtain, OpenModal
<1>6. ASSUME NEW a \in asks, OnSignature(a) PROVE UNCHANGED vars
  BY <1>6 DEF OnSignature
<1>7. CASE SaveName("second") \/ \E c \in Deployed : SaveContract(c)
  BY <1>7 DEF SaveName, SaveContract, Save
<1>8. ASSUME NEW call \in reads, ExecuteRead(call) \/ OnRead(call) \/ OnRecord(call)
      PROVE  UNCHANGED vars
  BY <1>8 DEF ExecuteRead, OnRead, OnRecord
<1>9. CASE UNCHANGED <<vars, appVars>>
  BY <1>9
<1> QED
  BY <1>1, <1>2, <1>3, <1>4, <1>5, <1>6, <1>7, <1>8, <1>9 DEF AppNext

-----------------------------------------------------------------------------
(***************************************************************************)
(* The contracts are contracts with one artifact to begin with             *)
(* (Unilog.sol:16-26, 51-57).                                              *)
(***************************************************************************)
LEMMA DeployedContract ==
    ASSUME NEW c \in Deployed
    PROVE  LET contract == AssignArtifactOwner(
                               AddArtifact(NewContract(Unilog), 0, DocOf[c], ValidFor), OwnerOf[c])
           IN  /\ contract \in Contract /\ Len(contract.artifacts) = 1
               /\ contract.artifacts[1].artifactAddress = DocOf[c]
<1> DEFINE new == [artifactAddress |-> DocOf[c], active |-> TRUE,
                   expirationDate |-> ExpirationDate(0, ValidFor)]
<1>1. ExpirationDate(0, ValidFor) \in Word
  <2>1. 0 + ValidFor * Week \in Nat
    BY WordAssumption, NumberAssumption
  <2>2. \A n \in Nat : n % WordSize \in 0 .. WordSize - 1
    BY WordAssumption
  <2>3. 0 \in 0 .. WordSize - 1
    BY WordAssumption
  <2> QED
    BY <2>1, <2>2, <2>3 DEF ExpirationDate, Word
<1>2. new \in Artifact
  BY <1>1, OwnersAssumption DEF Artifact
<1> HIDE DEF new
<1>3. /\ Append(<<>>, new) \in Seq(Artifact)
      /\ Len(Append(<<>>, new)) = 1 /\ Append(<<>>, new)[1] = new
  BY <1>2
<1>4. AddArtifact(NewContract(Unilog), 0, DocOf[c], ValidFor)
          = [unilog |-> Unilog, artifactOwner |-> NoAddress, artifacts |-> Append(<<>>, new)]
  <2> DEFINE r == [unilog |-> Unilog, artifactOwner |-> NoAddress, artifacts |-> <<>>]
  <2>1. AddArtifact(NewContract(Unilog), 0, DocOf[c], ValidFor)
            = [r EXCEPT !.artifacts = Append(<<>>, new)]
    BY DEF AddArtifact, NewContract, new
  <2> QED
    BY <2>1
<1>5. AssignArtifactOwner(AddArtifact(NewContract(Unilog), 0, DocOf[c], ValidFor), OwnerOf[c])
          \in {[unilog |-> Unilog, artifactOwner |-> a, artifacts |-> Append(<<>>, new)] :
                   a \in {NoAddress, OwnerOf[c]}}
  BY <1>4 DEF AssignArtifactOwner
<1>6. new.artifactAddress = DocOf[c]
  BY DEF new
<1> DEFINE contract ==
        AssignArtifactOwner(AddArtifact(NewContract(Unilog), 0, DocOf[c], ValidFor), OwnerOf[c])
<1>7. PICK a \in {NoAddress, OwnerOf[c]} :
          contract = [unilog |-> Unilog, artifactOwner |-> a, artifacts |-> Append(<<>>, new)]
  BY <1>5
<1>8. a \in Address \cup {NoAddress} /\ Unilog \in Address
  BY OwnersAssumption
<1> HIDE DEF contract
<1>9. /\ contract \in Contract /\ Len(contract.artifacts) = 1
      /\ contract.artifacts[1].artifactAddress = DocOf[c]
  BY <1>3, <1>6, <1>7, <1>8 DEF Contract
<1> QED
  BY <1>9 DEF contract

(***************************************************************************)
(* deleteArtifact(0) clears the one artifact (Unilog.sol:41-49).           *)
(***************************************************************************)
LEMMA ClearedContract ==
    ASSUME NEW c \in Contract, Len(c.artifacts) = 1
    PROVE  /\ DeleteArtifact(c, 0) \in Contract
           /\ Len(DeleteArtifact(c, 0).artifacts) = 1
           /\ DeleteArtifact(c, 0).artifacts[1].artifactAddress = NoContent
<1>1. DeletedArtifact \in Artifact
  BY WordAssumption DEF DeletedArtifact, Artifact, Word
<1> DEFINE s == [c.artifacts EXCEPT ![1] = DeletedArtifact]
<1>2. c.artifacts \in Seq(Artifact) /\ 1 \in DOMAIN c.artifacts
  BY DEF Contract
<1>3. s \in Seq(Artifact) /\ Len(s) = 1 /\ s[1] = DeletedArtifact
  BY <1>1, <1>2
<1>4. DeleteArtifact(c, 0) = [c EXCEPT !.artifacts = s]
  BY DEF DeleteArtifact, Exists
<1> HIDE DEF s
<1> QED
  BY <1>3, <1>4 DEF Contract, DeletedArtifact

(***************************************************************************)
(* What verifyArtifact answers about such a contract (Unilog.sol:28-39).   *)
(***************************************************************************)
LEMMA ArtifactAnswers ==
    ASSUME OneArtifact, NEW c \in Deployed, NEW id \in EnteredId
    PROVE  VerifyArtifact(world[c], now, id) \in ArtifactAnswer(c)
<1>1. CASE id = 0
  BY <1>1 DEF OneArtifact, VerifyArtifact, ArtifactAnswer
<1>2. CASE id # 0
  <2>1. ~Exists(world[c], id)
    <3>1. id = 1 /\ Len(world[c].artifacts) = 1
      BY <1>2 DEF OneArtifact, EnteredId
    <3> QED
      BY <3>1 DEF Exists
  <2> QED
    BY <2>1 DEF VerifyArtifact, ArtifactAnswer
<1> QED
  BY <1>1, <1>2

(***************************************************************************)
(* Whatever happens, each contract holds its one artifact or what is left  *)
(* of it (Unilog.sol:41-49).                                               *)
(***************************************************************************)
LEMMA OneArtifactStays == AppSpec => []OneArtifact
<1>1. AppInit => OneArtifact
  BY DeployedContract DEF AppInit, Init, OneArtifact
<1>2. OneArtifact /\ [AppNext]_<<vars, appVars>> => OneArtifact'
  <2> SUFFICES ASSUME OneArtifact, [AppNext]_<<vars, appVars>> PROVE OneArtifact'
    OBVIOUS
  <2>1. CASE UNCHANGED world
    BY <2>1 DEF OneArtifact
  <2>2. ASSUME NEW c \in Deployed, RemoveArtifact(c) PROVE OneArtifact'
    BY <2>2, ClearedContract DEF RemoveArtifact, OneArtifact
  <2>3. \/ UNCHANGED world
        \/ \E c \in Deployed : RemoveArtifact(c)
    BY PageSteps DEF Next, vars, chainVars, RegisterContract, NextBlock, Submit, Enter, Callback,
           ExecuteContains, ExecuteVerify, OnContains, OnArtifact, OnTranscript, OnError,
           Reload, OnReadError
  <2> QED
    BY <2>1, <2>2, <2>3
<1> QED
  BY <1>1, <1>2, PTL DEF AppSpec

-----------------------------------------------------------------------------
\* The calls of one submission have these in common.
SameSubmission(new, call) ==
    /\ new.by = call.by /\ new.contract = call.contract /\ new.id = call.id
    /\ new.isRegistry = call.isRegistry /\ new.template = call.template

(***************************************************************************)
(* A call that is answered is a call of the same submission                *)
(* (VerifierPortal.js:68-100).                                             *)
(***************************************************************************)
LEMMA AnsweredCall ==
    ASSUME NEW call, IsCall(call), NEW answer
    PROVE  LET new == [call EXCEPT !.answer = answer]
           IN  /\ IsCall(new) /\ SameSubmission(new, call)
               /\ new.fn = call.fn /\ new.answer = answer
<1> DEFINE new == [call EXCEPT !.answer = answer]
<1>1. new = [fn |-> call.fn, by |-> call.by, contract |-> call.contract, id |-> call.id,
             isRegistry |-> call.isRegistry, answer |-> answer, template |-> call.template]
  BY DEF IsCall
<1> HIDE DEF new
<1>2. IsCall(new) /\ SameSubmission(new, call) /\ new.fn = call.fn /\ new.answer = answer
  BY <1>1 DEF IsCall, SameSubmission
<1> QED
  BY <1>2 DEF new

(***************************************************************************)
(* So is the one a callback goes on with (VerifierPortal.js:68-100).       *)
(***************************************************************************)
LEMMA ContinuedCall ==
    ASSUME NEW call, IsCall(call),
           NEW fn \in {"contains", "verifyArtifact", "cat"}, NEW answer
    PROVE  LET new == [call EXCEPT !.fn = fn, !.answer = answer]
           IN  /\ IsCall(new) /\ SameSubmission(new, call)
               /\ new.fn = fn /\ new.answer = answer
<1> DEFINE half == [call EXCEPT !.fn = fn]
           new == [call EXCEPT !.fn = fn, !.answer = answer]
<1>1. half = [fn |-> fn, by |-> call.by, contract |-> call.contract, id |-> call.id,
              isRegistry |-> call.isRegistry, answer |-> call.answer, template |-> call.template]
  BY DEF IsCall
<1>2. new = [half EXCEPT !.answer = answer]
  OBVIOUS
<1> HIDE DEF half, new
<1>3. new = [fn |-> fn, by |-> call.by, contract |-> call.contract, id |-> call.id,
             isRegistry |-> call.isRegistry, answer |-> answer, template |-> call.template]
  BY <1>1, <1>2
<1>4. IsCall(new) /\ SameSubmission(new, call) /\ new.fn = fn /\ new.answer = answer
  BY <1>3 DEF IsCall, SameSubmission
<1> QED
  BY <1>4 DEF new

(***************************************************************************)
(* A callback replaces a call by nothing or by the next one of the same    *)
(* submission, and changes no number but that of the errors                *)
(* (VerifierPortal.js:68-100).                                             *)
(***************************************************************************)
LEMMA CallbackReplaces ==
    ASSUME NEW call \in calls, IsCall(call), Callback(call)
    PROVE  /\ \/ calls' = calls \ {call}
              \/ \E new : /\ calls' = (calls \ {call}) \cup {new}
                          /\ IsCall(new) /\ SameSubmission(new, call)
           /\ UNCHANGED <<chainVars, submissions, visit, alone>>
           /\ DOMAIN truth' = DOMAIN truth
<1>1. CASE ExecuteContains(call)
  <2>1. \E answer : Answer(call, answer)
    BY <1>1 DEF ExecuteContains
  <2> QED
    BY <1>1, <2>1, AnsweredCall DEF ExecuteContains, Answer, Replace, historyVars
<1>2. CASE ExecuteVerify(call)
  <2>1. \E answer : Answer(call, answer)
    BY <1>2 DEF ExecuteVerify
  <2> QED
    BY <1>2, <2>1, AnsweredCall DEF ExecuteVerify, Answer, Replace, historyVars
<1>3. CASE OnContains(call)
  <2>1. calls' = calls \ {call} \/ Continue(call, "verifyArtifact", None)
    BY <1>3 DEF OnContains, Replace
  <2> DEFINE new == [call EXCEPT !.fn = "verifyArtifact", !.answer = None]
  <2>2. IsCall(new) /\ SameSubmission(new, call)
    BY ContinuedCall
  <2> HIDE DEF new
  <2>3. calls' = calls \ {call} \/ calls' = (calls \ {call}) \cup {new}
    BY <2>1 DEF Continue, Replace, new
  <2> QED
    BY <1>3, <2>2, <2>3 DEF OnContains, historyVars
<1>4. CASE OnArtifact(call)
  <2>1. calls' = calls \ {call} \/ Continue(call, "cat", call.answer)
    BY <1>4 DEF OnArtifact, Replace
  <2> DEFINE new == [call EXCEPT !.fn = "cat", !.answer = call.answer]
  <2>2. IsCall(new) /\ SameSubmission(new, call)
    BY ContinuedCall
  <2> HIDE DEF new
  <2>3. calls' = calls \ {call} \/ calls' = (calls \ {call}) \cup {new}
    BY <2>1 DEF Continue, Replace, new
  <2> QED
    BY <1>4, <2>2, <2>3 DEF OnArtifact, historyVars
<1>5. CASE OnTranscript(call) \/ OnError(call)
  BY <1>5 DEF OnTranscript, OnError, Replace, historyVars
<1> QED
  BY <1>1, <1>2, <1>3, <1>4, <1>5 DEF Callback

(***************************************************************************)
(* The page's calls are typed, and no submission has two of them           *)
(* (VerifierPortal.js:30-45, 68-100).                                      *)
(***************************************************************************)
LEMMA CallsStayTyped == AppSpec => []CallsAreTyped
<1>1. AppInit => CallsAreTyped
  BY NumberAssumption DEF AppInit, Init, CallsAreTyped
<1>2. CallsAreTyped /\ [AppNext]_<<vars, appVars>> => CallsAreTyped'
  <2> SUFFICES ASSUME CallsAreTyped, [AppNext]_<<vars, appVars>> PROVE CallsAreTyped'
    OBVIOUS
  <2>0. /\ submissions \in Nat /\ visit \in Nat \ {0} /\ faults \in Nat /\ submissions <= MaxSubmissions
        /\ MaxSubmissions \in Nat
    BY NumberAssumption DEF CallsAreTyped
  <2>1. ASSUME UNCHANGED <<submissions, truth>>, visit' = visit \/ visit' = visit + 1,
               faults' = faults \/ faults' = faults + 1, calls' \subseteq calls
        PROVE  CallsAreTyped'
    BY <2>0, <2>1 DEF CallsAreTyped, IsCall
  <2>2. ASSUME NEW c \in Deployed, NEW id \in EnteredId, NEW isRegistry \in BOOLEAN,
               Submit(c, id, isRegistry)
        PROVE  CallsAreTyped'
    <3>0. PICK new : new = [fn |-> "contains", by |-> submissions + 1, contract |-> c, id |-> id,
                            isRegistry |-> isRegistry, answer |-> None, template |-> visit]
      OBVIOUS
    <3>1. calls' = calls \cup {new} /\ submissions' = submissions + 1 /\ submissions < MaxSubmissions
          /\ visit' = visit /\ faults' = faults /\ truth' = truth
      BY <2>2, <3>0 DEF Submit
    <3>2. \A call \in calls : call.by # new.by /\ IsCall(call)'
      BY <2>0, <3>0, <3>1 DEF CallsAreTyped, IsCall
    <3>3. IsCall(new)'
      <4>1. submissions' \in 1 .. submissions' /\ visit \in 1 .. visit'
        BY <2>0, <3>1
      <4> QED
        BY <3>0, <3>1, <4>1 DEF IsCall
    <3> QED
      BY <2>0, <3>1, <3>2, <3>3 DEF CallsAreTyped
  <2>3. ASSUME NEW call \in calls, Callback(call) PROVE CallsAreTyped'
    <3>1. IsCall(call)
      BY DEF CallsAreTyped
    <3>2. /\ UNCHANGED <<submissions, visit>> /\ DOMAIN truth' = DOMAIN truth
      BY <2>3, <3>1, CallbackReplaces
    <3>3. faults' \in Nat
      <4>1. CASE OnError(call)
        BY <2>0, <4>1 DEF OnError
      <4>2. CASE ~OnError(call)
        <5>1. faults' = faults
          BY <2>3, <4>2 DEF Callback, ExecuteContains, ExecuteVerify, OnContains, OnArtifact,
                 OnTranscript
        <5> QED
          BY <2>0, <5>1
      <4> QED
        BY <4>1, <4>2
    <3>4. \A other \in calls : IsCall(other)'
      BY <3>2 DEF CallsAreTyped, IsCall
    <3>5. CASE calls' = calls \ {call}
      BY <3>2, <3>3, <3>4, <3>5 DEF CallsAreTyped
    <3>6. ASSUME NEW new, calls' = (calls \ {call}) \cup {new}, IsCall(new), new.by = call.by
          PROVE  CallsAreTyped'
      <4>1. IsCall(new)'
        BY <3>2, <3>6 DEF IsCall
      <4> QED
        BY <3>2, <3>3, <3>4, <3>6, <4>1 DEF CallsAreTyped
    <3> QED
      BY <2>3, <3>1, <3>5, <3>6, CallbackReplaces DEF SameSubmission
  <2>4. CASE Enter
    BY <2>1, <2>4 DEF Enter
  <2>5. CASE Reload
    BY <2>1, <2>5 DEF Reload
  <2>6. ASSUME NEW call \in reads, OnReadError(call) PROVE CallsAreTyped'
    BY <2>1, <2>6 DEF OnReadError, historyVars
  <2>7. ASSUME NEW c \in Deployed, RegisterContract(c) \/ RemoveArtifact(c) \/ NextBlock
        PROVE  CallsAreTyped'
    BY <2>1, <2>7 DEF RegisterContract, RemoveArtifact, NextBlock, historyVars
  <2>8. CASE NextBlock
    BY <2>1, <2>8 DEF NextBlock, historyVars
  <2>9. CASE UNCHANGED vars
    BY <2>1, <2>9 DEF vars
  <2> QED
    BY <2>2, <2>3, <2>4, <2>5, <2>6, <2>7, <2>8, <2>9, PageSteps DEF Next
<1> QED
  BY <1>1, <1>2, PTL DEF AppSpec

-----------------------------------------------------------------------------
(***************************************************************************)
(* The page stays true while nothing is recorded or shown: calls may end,  *)
(* and contracts be registered (UnilogRegistry.sol:9-11).                  *)
(***************************************************************************)
LEMMA NothingShown ==
    ASSUME PageIsTrue, UNCHANGED <<truth, shownFor, submissions>>, calls' \subseteq calls,
           result' = result \/ result' \in Message,
           registry.repository \subseteq registry'.repository
    PROVE  PageIsTrue'
<1>1. ASSUME NEW call \in calls PROVE AnswerIsTruth(call)'
  <2>1. Listed(call) => Listed(call)'
    BY DEF Listed, RegistryContains
  <2>2. AnswerIsTruth(call)
    BY DEF PageIsTrue
  <2> QED
    BY <2>1, <2>2 DEF AnswerIsTruth
<1>2. result' \in Content => result' = result
  BY MessageAssumption
<1> QED
  BY <1>1, <1>2 DEF PageIsTrue, ShownIsOver, ShownIsGenuine

(***************************************************************************)
(* A callback that answers or continues a call keeps the page true when    *)
(* what it records is about this call's submission only                    *)
(* (VerifierPortal.js:68-100).                                             *)
(***************************************************************************)
LEMMA CallContinues ==
    ASSUME PageIsTrue, CallsAreTyped, NEW call \in calls, NEW new, new.by = call.by,
           calls' = (calls \ {call}) \cup {new}, AnswerIsTruth(new)',
           \A s \in 1 .. MaxSubmissions : s # call.by => truth'[s] = truth[s],
           UNCHANGED <<registry, result, shownFor, submissions>>
    PROVE  PageIsTrue'
<1>1. /\ 1 .. submissions \subseteq 1 .. MaxSubmissions
      /\ \A c \in calls : c.by \in 1 .. submissions
  BY NumberAssumption DEF CallsAreTyped, IsCall
<1>2. ASSUME NEW other \in calls, other # call PROVE AnswerIsTruth(other)'
  <2>1. other.by # call.by /\ other.by \in 1 .. MaxSubmissions
    BY <1>1, <1>2 DEF CallsAreTyped
  <2>2. truth'[other.by] = truth[other.by]
    BY <2>1
  <2>3. AnswerIsTruth(other) /\ (Listed(other) <=> Listed(other)')
    BY DEF PageIsTrue, Listed, RegistryContains
  <2> QED
    BY <2>2, <2>3 DEF AnswerIsTruth
<1>3. ASSUME result \in Content
      PROVE  /\ shownFor \in 1 .. submissions
             /\ \A c \in calls' : c.by # shownFor
             /\ truth'[shownFor] = result
  <2>1. shownFor \in 1 .. submissions /\ (\A c \in calls : c.by # shownFor)
        /\ truth[shownFor] = result
    BY <1>3 DEF PageIsTrue, ShownIsOver, ShownIsGenuine
  <2>2. call.by # shownFor /\ new.by # shownFor
    BY <2>1
  <2> QED
    BY <1>1, <2>1, <2>2
<1> QED
  BY <1>2, <1>3 DEF PageIsTrue, ShownIsOver, ShownIsGenuine

(***************************************************************************)
(* Every callback keeps the page true (VerifierPortal.js:68-100).          *)
(***************************************************************************)
LEMMA CallbackKeepsTruth ==
    ASSUME OneArtifact, CallsAreTyped, PageIsTrue, NEW call \in calls, Callback(call)
    PROVE  PageIsTrue'
<1>1. /\ IsCall(call) /\ AnswerIsTruth(call)
      /\ call.by \in DOMAIN truth /\ DOMAIN truth = 1 .. MaxSubmissions
  BY NumberAssumption DEF CallsAreTyped, PageIsTrue, IsCall
<1>2. CASE ExecuteContains(call)
  <2> DEFINE answer == call.isRegistry /\ RegistryContains(registry, call.contract)
             new == [call EXCEPT !.answer = answer]
  <2>1. IsCall(new) /\ SameSubmission(new, call) /\ new.fn = call.fn /\ new.answer = answer
    BY <1>1, AnsweredCall
  <2>2. /\ calls' = (calls \ {call}) \cup {new}
        /\ truth' = [truth EXCEPT ![call.by] = IF answer THEN @ ELSE NotListed]
        /\ call.fn = "contains"
        /\ UNCHANGED <<registry, result, shownFor, submissions>>
    BY <1>2 DEF ExecuteContains, Answer, Replace, chainVars, historyVars
  <2>3. answer \in BOOLEAN /\ (answer = TRUE => Listed(call)')
    BY <2>2, Zenon DEF Listed
  <2>4. answer = FALSE => truth'[call.by] = NotListed
    BY <1>1, <2>2
  <2>5. \A s \in 1 .. MaxSubmissions : s # call.by => truth'[s] = truth[s]
    BY <1>1, <2>2
  <2> HIDE DEF answer, new
  <2>6. PICK n : n = new
    OBVIOUS
  <2>7. AnswerIsTruth(n)'
    BY <2>1, <2>2, <2>3, <2>4, <2>6 DEF AnswerIsTruth, SameSubmission, Listed
  <2> QED
    BY <2>1, <2>2, <2>5, <2>6, <2>7, CallContinues DEF SameSubmission
<1>3. CASE ExecuteVerify(call)
  <2> DEFINE artifact == VerifyArtifact(world[call.contract], now, call.id)
             new == [call EXCEPT !.answer = artifact]
  <2>1. IsCall(new) /\ SameSubmission(new, call) /\ new.fn = call.fn /\ new.answer = artifact
    BY <1>1, AnsweredCall
  <2>2. /\ calls' = (calls \ {call}) \cup {new}
        /\ truth' = [truth EXCEPT ![call.by] =
               IF ~(call.isRegistry /\ RegistryContains(registry, call.contract)) THEN NotListed
               ELSE IF artifact \in {Fictional, Expired} THEN NotValid ELSE artifact]
        /\ call.fn = "verifyArtifact"
        /\ UNCHANGED <<registry, result, shownFor, submissions>>
    BY <1>3 DEF ExecuteVerify, Answer, Replace, chainVars, historyVars
  <2>3. artifact \in ArtifactAnswer(call.contract)
    BY <1>1, ArtifactAnswers DEF IsCall
  <2>4. Listed(call) /\ Listed(call)'
    BY <1>1, <2>2 DEF AnswerIsTruth, Listed
  <2>5. truth'[call.by] = IF artifact \in {Fictional, Expired} THEN NotValid ELSE artifact
    BY <1>1, <2>2, <2>4 DEF Listed
  <2>6. \A s \in 1 .. MaxSubmissions : s # call.by => truth'[s] = truth[s]
    BY <1>1, <2>2
  <2> HIDE DEF artifact, new
  <2>7. PICK n : n = new
    OBVIOUS
  <2>8. AnswerIsTruth(n)'
    BY <2>1, <2>2, <2>3, <2>4, <2>5, <2>7 DEF AnswerIsTruth, SameSubmission, Listed, ArtifactAnswer
  <2> QED
    BY <2>1, <2>2, <2>6, <2>7, <2>8, CallContinues DEF SameSubmission
<1>4. CASE OnContains(call)
  <2>1. ASSUME Continue(call, "verifyArtifact", None), call.answer = TRUE,
               UNCHANGED <<result, shownFor>>
        PROVE  PageIsTrue'
    <3> DEFINE new == [call EXCEPT !.fn = "verifyArtifact", !.answer = None]
    <3>1. IsCall(new) /\ SameSubmission(new, call) /\ new.fn = "verifyArtifact" /\ new.answer = None
      BY <1>1, ContinuedCall
    <3>2. /\ calls' = (calls \ {call}) \cup {new} /\ call.fn = "contains" /\ call.answer # None
          /\ UNCHANGED <<registry, truth, submissions>>
      BY <1>4, <2>1 DEF OnContains, Continue, Replace, chainVars, historyVars
    <3> HIDE DEF new
    <3>3. Listed(call)'
      BY <1>1, <2>1, <3>2 DEF AnswerIsTruth, Listed
    <3>4. PICK n : n = new
      OBVIOUS
    <3>5. AnswerIsTruth(n)'
      BY <3>1, <3>3, <3>4 DEF AnswerIsTruth, SameSubmission, Listed
    <3> QED
      BY <2>1, <3>1, <3>2, <3>4, <3>5, CallContinues DEF SameSubmission
  <2>2. CASE calls' = calls \ {call} /\ result' = NotListed
    <3>1. UNCHANGED <<registry, truth, submissions>>
      BY <1>4 DEF OnContains, chainVars, historyVars
    <3>2. result' \notin Content
      BY <2>2, MessageAssumption DEF Message
    <3>3. ASSUME NEW other \in calls' PROVE AnswerIsTruth(other)'
      BY <2>2, <3>1, <3>3 DEF PageIsTrue, AnswerIsTruth, Listed
    <3> QED
      BY <3>2, <3>3 DEF PageIsTrue, ShownIsOver, ShownIsGenuine
  <2>3. call.answer \in BOOLEAN
    BY <1>1, <1>4 DEF OnContains, AnswerIsTruth
  <2> QED
    BY <1>4, <2>1, <2>2, <2>3 DEF OnContains, Replace
<1>5. CASE OnArtifact(call)
  <2>0. UNCHANGED <<registry, truth, submissions>> /\ call.fn = "verifyArtifact"
        /\ call.answer # None
    BY <1>5 DEF OnArtifact, chainVars, historyVars
  <2>1. ASSUME Continue(call, "cat", call.answer), UNCHANGED <<result, shownFor>>,
               call.answer \notin {NoContent, Fictional, Expired}
        PROVE  PageIsTrue'
    <3> DEFINE answer == call.answer
               new == [call EXCEPT !.fn = "cat", !.answer = answer]
    <3> HIDE DEF answer
    <3>1. IsCall(new) /\ SameSubmission(new, call) /\ new.fn = "cat" /\ new.answer = answer
      BY <1>1, ContinuedCall
    <3>2. calls' = (calls \ {call}) \cup {new}
      BY <2>1 DEF Continue, Replace, answer
    <3> HIDE DEF new
    <3>3. call.answer \in Content /\ truth[call.by] = call.answer
      BY <1>1, <2>0, <2>1, OwnersAssumption DEF AnswerIsTruth, ArtifactAnswer, IsCall
    <3>4. PICK n : n = new
      OBVIOUS
    <3>5. AnswerIsTruth(n)'
      BY <2>0, <3>1, <3>3, <3>4 DEF AnswerIsTruth, SameSubmission, answer
    <3> QED
      BY <2>0, <2>1, <3>1, <3>2, <3>4, <3>5, CallContinues DEF SameSubmission
  <2>2. CASE calls' = calls \ {call} /\ result' = NotValid
    <3>1. result' \notin Content
      BY <2>2, MessageAssumption DEF Message
    <3>2. ASSUME NEW other \in calls' PROVE AnswerIsTruth(other)'
      BY <2>0, <2>2, <3>2 DEF PageIsTrue, AnswerIsTruth, Listed
    <3> QED
      BY <3>1, <3>2 DEF PageIsTrue, ShownIsOver, ShownIsGenuine
  <2>3. CASE calls' = calls \ {call} /\ UNCHANGED <<result, shownFor>>
    BY <2>0, <2>3, NothingShown
  <2> QED
    BY <1>5, <2>1, <2>2, <2>3 DEF OnArtifact, Replace
<1>6. CASE OnTranscript(call)
  <2>1. /\ calls' = calls \ {call} /\ result' = call.answer /\ shownFor' = call.by
        /\ call.fn = "cat" /\ UNCHANGED <<registry, truth, submissions>>
    BY <1>6 DEF OnTranscript, Replace, chainVars, historyVars
  <2>2. truth'[shownFor'] = result' /\ shownFor' \in 1 .. submissions'
    BY <1>1, <2>1 DEF AnswerIsTruth, IsCall
  <2>3. \A other \in calls' : other.by # shownFor'
    BY <2>1 DEF CallsAreTyped
  <2>4. ASSUME NEW other \in calls' PROVE AnswerIsTruth(other)'
    BY <2>1, <2>4 DEF PageIsTrue, AnswerIsTruth, Listed
  <2> QED
    BY <2>2, <2>3, <2>4 DEF PageIsTrue, ShownIsOver, ShownIsGenuine
<1>7. CASE OnError(call)
  BY <1>7, NothingShown DEF OnError, Replace, chainVars, historyVars
<1> QED
  BY <1>2, <1>3, <1>4, <1>5, <1>6, <1>7 DEF Callback

(***************************************************************************)
(* The calls' answers are those recorded, and what is shown is what was    *)
(* answered (VerifierPortal.js:30-45, 68-100).                             *)
(***************************************************************************)
LEMMA PageStaysTrue == AppSpec => []PageIsTrue
<1>1. AppInit => PageIsTrue
  BY MessageAssumption DEF AppInit, Init, PageIsTrue, ShownIsOver, ShownIsGenuine, Message
<1>2. OneArtifact /\ CallsAreTyped /\ PageIsTrue /\ [AppNext]_<<vars, appVars>> => PageIsTrue'
  <2> SUFFICES ASSUME OneArtifact, CallsAreTyped, PageIsTrue, [AppNext]_<<vars, appVars>>
               PROVE  PageIsTrue'
    OBVIOUS
  <2>1. ASSUME NEW c \in Deployed, NEW id \in EnteredId, NEW isRegistry \in BOOLEAN,
               Submit(c, id, isRegistry)
        PROVE  PageIsTrue'
    <3>0. PICK new : new = [fn |-> "contains", by |-> submissions + 1, contract |-> c, id |-> id,
                            isRegistry |-> isRegistry, answer |-> None, template |-> visit]
      OBVIOUS
    <3>1. /\ calls' = calls \cup {new} /\ submissions' = submissions + 1 /\ submissions \in Nat
          /\ UNCHANGED <<registry, result, shownFor, truth>>
      BY <2>1, <3>0, NumberAssumption DEF Submit, chainVars, CallsAreTyped
    <3>2. AnswerIsTruth(new)'
      BY <3>0 DEF AnswerIsTruth
    <3>3. \A call \in calls : AnswerIsTruth(call)'
      BY <3>1 DEF PageIsTrue, AnswerIsTruth, Listed
    <3>4. ShownIsOver'
      BY <3>0, <3>1 DEF PageIsTrue, ShownIsOver
    <3> QED
      BY <3>1, <3>2, <3>3, <3>4 DEF PageIsTrue, ShownIsGenuine
  <2>2. ASSUME NEW call \in calls, Callback(call) PROVE PageIsTrue'
    BY <2>2, CallbackKeepsTruth
  <2>3. CASE Enter
    <3>1. result' \notin Content /\ UNCHANGED <<registry, calls, truth>>
      BY <2>3, MessageAssumption DEF Enter, chainVars, Message
    <3>2. \A call \in calls : AnswerIsTruth(call)'
      BY <3>1 DEF PageIsTrue, AnswerIsTruth, Listed
    <3> QED
      BY <3>1, <3>2 DEF PageIsTrue, ShownIsOver, ShownIsGenuine
  <2>4. CASE Reload
    BY <2>4, NothingShown DEF Reload, chainVars
  <2>5. ASSUME NEW call \in reads, OnReadError(call) PROVE PageIsTrue'
    BY <2>5, NothingShown DEF OnReadError, chainVars, historyVars
  <2>6. ASSUME NEW c \in Deployed, RegisterContract(c) PROVE PageIsTrue'
    <3>1. registry.repository \subseteq registry'.repository
      BY <2>6 DEF RegisterContract, AddContract
    <3> QED
      BY <2>6, <3>1, NothingShown DEF RegisterContract, historyVars
  <2>7. ASSUME NEW c \in Deployed, RemoveArtifact(c) PROVE PageIsTrue'
    BY <2>7, NothingShown DEF RemoveArtifact, historyVars
  <2>8. CASE NextBlock
    BY <2>8, NothingShown DEF NextBlock, historyVars
  <2>9. CASE UNCHANGED vars
    BY <2>9, NothingShown DEF vars
  <2> QED
    BY <2>1, <2>2, <2>3, <2>4, <2>5, <2>6, <2>7, <2>8, <2>9, PageSteps DEF Next
<1> QED
  BY <1>1, <1>2, OneArtifactStays, CallsStayTyped, PTL DEF AppSpec

(***************************************************************************)
(* A transcript that is shown is what the contract of a submitted token    *)
(* answered after the token was submitted, with the contract in Unilog's   *)
(* registry, for any number of submissions, visits and errors, and         *)
(* whatever the user does on the other pages (VerifierPortal.js:30-45,     *)
(* 68-100).                                                                *)
(***************************************************************************)
THEOREM ShownTranscriptIsGenuine == AppSpec => []ShownIsGenuine
BY PageStaysTrue, PTL DEF PageIsTrue

-----------------------------------------------------------------------------
(***************************************************************************)
(* A submission that has the page to itself keeps it through every         *)
(* callback, and leaves its own answer there (VerifierPortal.js:68-100).   *)
(***************************************************************************)
LEMMA CallbackIsCurrent ==
    ASSUME OneArtifact, CallsAreTyped, PageIsTrue, AloneInv, NEW call \in calls, Callback(call)
    PROVE  AloneInv'
<1> SUFFICES ASSUME (alone /\ submissions > 0 /\ faults = 0)'
             PROVE  /\ \A other \in calls' : /\ other.by = submissions' /\ other.template = visit'
                                             /\ other.fn = "cat" => showNoResult' = FALSE
                    /\ calls' = {} => truth'[submissions'] = NoContent \/ Current'
  BY DEF AloneInv
<1>0. /\ IsCall(call) /\ AnswerIsTruth(call) /\ faults \in Nat
      /\ UNCHANGED <<alone, submissions, visit>>
  BY CallbackReplaces DEF CallsAreTyped, PageIsTrue
<1>1. ~OnError(call) /\ UNCHANGED faults
  <2>1. ~OnError(call)
    BY <1>0 DEF OnError
  <2> QED
    BY <2>1 DEF Callback, ExecuteContains, ExecuteVerify, OnContains, OnArtifact, OnTranscript
<1>2. /\ \A other \in calls : other.by = submissions /\ other.template = visit
      /\ call.fn = "cat" => showNoResult = FALSE
  BY <1>0, <1>1 DEF AloneInv
<1>3. calls = {call}
  BY <1>2 DEF CallsAreTyped
<1>4. CASE ExecuteContains(call)
  <2>1. PICK answer : Answer(call, answer)
    BY <1>4 DEF ExecuteContains
  <2> DEFINE new == [call EXCEPT !.answer = answer]
  <2>2. SameSubmission(new, call) /\ new.fn = call.fn
    BY <1>0, AnsweredCall
  <2>3. calls' = {new}
    BY <1>3, <2>1 DEF Answer, Replace
  <2> HIDE DEF new
  <2> QED
    BY <1>0, <1>2, <1>4, <2>2, <2>3 DEF ExecuteContains, SameSubmission
<1>5. CASE ExecuteVerify(call)
  <2>1. PICK answer : Answer(call, answer)
    BY <1>5 DEF ExecuteVerify
  <2> DEFINE new == [call EXCEPT !.answer = answer]
  <2>2. SameSubmission(new, call) /\ new.fn = call.fn
    BY <1>0, AnsweredCall
  <2>3. calls' = {new}
    BY <1>3, <2>1 DEF Answer, Replace
  <2> HIDE DEF new
  <2> QED
    BY <1>0, <1>2, <1>5, <2>2, <2>3 DEF ExecuteVerify, SameSubmission
<1>6. CASE OnContains(call)
  <2>1. CASE Continue(call, "verifyArtifact", None)
    <3> DEFINE new == [call EXCEPT !.fn = "verifyArtifact", !.answer = None]
    <3>1. SameSubmission(new, call) /\ new.fn = "verifyArtifact"
      BY <1>0, ContinuedCall
    <3>2. calls' = {new}
      BY <1>3, <2>1 DEF Continue, Replace
    <3> HIDE DEF new
    <3> QED
      BY <1>0, <1>2, <3>1, <3>2 DEF SameSubmission
  <2>2. CASE ~call.answer /\ calls' = {} /\ result' = NotListed /\ SetLayout(call, TRUE)
    <3>1. call.answer = FALSE /\ truth' = truth
      BY <1>0, <1>6, <2>2 DEF OnContains, AnswerIsTruth
    <3>2. truth'[submissions'] = NotListed
      BY <1>0, <1>2, <1>6, <3>1 DEF OnContains, AnswerIsTruth
    <3>3. showNoResult' = TRUE /\ result' \notin Content
      BY <1>2, <2>2, MessageAssumption DEF SetLayout, Message
    <3> QED
      BY <2>2, <3>2, <3>3 DEF Current
  <2> QED
    BY <1>3, <1>6, <2>1, <2>2 DEF OnContains, Replace
<1>7. CASE OnArtifact(call)
  <2>1. CASE Continue(call, "cat", call.answer) /\ SetLayout(call, FALSE)
    <3> DEFINE answer == call.answer
    <3> HIDE DEF answer
    <3> DEFINE new == [call EXCEPT !.fn = "cat", !.answer = answer]
    <3>1. SameSubmission(new, call)
      BY <1>0, ContinuedCall
    <3>2. calls' = {new}
      BY <1>3, <2>1 DEF Continue, Replace, answer
    <3>3. showNoResult' = FALSE
      BY <1>2, <2>1 DEF SetLayout
    <3> HIDE DEF new
    <3> QED
      BY <1>0, <1>2, <3>1, <3>2, <3>3 DEF SameSubmission
  <2>2. CASE /\ call.answer \in {Fictional, Expired} /\ calls' = {} /\ result' = NotValid
             /\ SetLayout(call, TRUE)
    <3>1. truth'[submissions'] = NotValid
      BY <1>0, <1>2, <1>7, <2>2 DEF OnArtifact, AnswerIsTruth
    <3>2. showNoResult' = TRUE /\ result' \notin Content
      BY <1>2, <2>2, MessageAssumption DEF SetLayout, Message
    <3> QED
      BY <2>2, <3>1, <3>2 DEF Current
  <2>3. CASE call.answer = NoContent /\ calls' = {}
    <3>1. truth'[submissions'] = NoContent
      BY <1>0, <1>2, <1>7, <2>3 DEF OnArtifact, AnswerIsTruth, Fictional, Expired, NoContent
    <3> QED
      BY <2>3, <3>1
  <2> QED
    BY <1>3, <1>7, <2>1, <2>2, <2>3 DEF OnArtifact, Replace
<1>8. CASE OnTranscript(call)
  <2>1. /\ calls' = {} /\ result' = call.answer /\ call.fn = "cat"
        /\ showNoResult' = showNoResult /\ truth' = truth
    BY <1>3, <1>8 DEF OnTranscript, Replace
  <2>2. result' \in Content /\ truth'[submissions'] = result' /\ showNoResult' = FALSE
    BY <1>0, <1>2, <2>1 DEF AnswerIsTruth
  <2> QED
    BY <2>1, <2>2 DEF Current
<1> QED
  BY <1>1, <1>4, <1>5, <1>6, <1>7, <1>8 DEF Callback

(***************************************************************************)
(* Who submits only when the last submission is answered reads the answer  *)
(* to it, in the layout that goes with it (VerifierPortal.js:30-45,        *)
(* 68-100).                                                                *)
(***************************************************************************)
THEOREM PageShowsLastAnswer == AppSpec => []PageIsCurrent
<1>1. AppInit => AloneInv
  BY DEF AppInit, Init, AloneInv
<1>2. OneArtifact /\ CallsAreTyped /\ PageIsTrue /\ AloneInv /\ [AppNext]_<<vars, appVars>>
          => AloneInv'
  <2> SUFFICES ASSUME OneArtifact, CallsAreTyped, PageIsTrue, AloneInv,
                      [AppNext]_<<vars, appVars>>
               PROVE  AloneInv'
    OBVIOUS
  <2>1. CASE UNCHANGED <<calls, result, visit, showNoResult, submissions, faults, truth, alone>>
    BY <2>1 DEF AloneInv, Current
  <2>2. ASSUME NEW c \in Deployed, NEW id \in EnteredId, NEW isRegistry \in BOOLEAN,
               Submit(c, id, isRegistry)
        PROVE  AloneInv'
    <3>1. PICK new : new = [fn |-> "contains", by |-> submissions', contract |-> c, id |-> id,
                            isRegistry |-> isRegistry, answer |-> None, template |-> visit]
      OBVIOUS
    <3>2. calls' = calls \cup {new} /\ visit' = visit /\ (alone' <=> calls = {})
      BY <2>2, <3>1 DEF Submit
    <3> QED
      BY <3>1, <3>2 DEF AloneInv
  <2>3. ASSUME NEW call \in calls, Callback(call) PROVE AloneInv'
    BY <2>3, CallbackIsCurrent
  <2>4. CASE Enter \/ Reload
    BY <2>4 DEF Enter, Reload, AloneInv
  <2>5. ASSUME NEW call \in reads, OnReadError(call) PROVE AloneInv'
    BY <2>5 DEF OnReadError, AloneInv, CallsAreTyped
  <2>6. ASSUME NEW c \in Deployed, RegisterContract(c) \/ RemoveArtifact(c) PROVE AloneInv'
    BY <2>1, <2>6 DEF RegisterContract, RemoveArtifact, historyVars
  <2>7. CASE NextBlock
    BY <2>1, <2>7 DEF NextBlock, historyVars
  <2>8. CASE UNCHANGED vars
    BY <2>1, <2>8 DEF vars
  <2> QED
    BY <2>2, <2>3, <2>4, <2>5, <2>6, <2>7, <2>8, PageSteps DEF Next
<1>3. AloneInv => PageIsCurrent
  BY DEF AloneInv, PageIsCurrent, Current
<1> QED
  BY <1>1, <1>2, <1>3, OneArtifactStays, CallsStayTyped, PageStaysTrue, PTL DEF AppSpec

-----------------------------------------------------------------------------
(***************************************************************************)
(* What the steps other than those of the records page and the modals      *)
(* leave alone (Records.js, editAccountModal.js, addContractAddressModal.js).*)
(***************************************************************************)
LEMMA AccountSteps ==
    ASSUME [AppNext]_<<vars, appVars>>
    PROVE  \/ UNCHANGED <<accounts, contractsOf>> /\ reads' \subseteq reads
           \/ SaveName("second") \/ \E c \in Deployed : SaveContract(c)
           \/ \E a \in Account : ClickObtain(a)
           \/ \E call \in reads : ExecuteRead(call) \/ OnRead(call) \/ OnRecord(call)
<1>1. CASE Verifying
  BY <1>1 DEF Verifying, appVars, dataVars
<1>2. ASSUME NEW target \in Paths, FollowLink(target) PROVE UNCHANGED <<reads, dataVars>>
  BY <1>2 DEF FollowLink
<1>3. CASE Login \/ Logout \/ FollowSelection \/ Dismiss
  BY <1>3 DEF Login, Logout, FollowSelection, Dismiss, dataVars
<1>4. CASE Reload
  BY <1>4 DEF Reload, dataVars
<1>5. ASSUME NEW a \in Account,
             \/ SelectAccount(a) \/ AskSignature(a)
             \/ \E which \in {"editAccountModal", "addContractAddressModal"} : OpenModal(a, which)
      PROVE  UNCHANGED <<accounts, contractsOf, reads>>
  BY <1>5 DEF SelectAccount, AskSignature, OpenModal, dataVars
<1>6. ASSUME NEW a \in asks, OnSignature(a) PROVE UNCHANGED <<reads, dataVars>>
  BY <1>6 DEF OnSignature
<1>7. ASSUME NEW call \in reads, OnReadError(call)
      PROVE  UNCHANGED <<accounts, contractsOf>> /\ reads' \subseteq reads
  BY <1>7 DEF OnReadError, dataVars
<1>8. CASE UNCHANGED <<vars, appVars>>
  BY <1>8 DEF appVars, dataVars
<1> QED
  BY <1>1, <1>2, <1>3, <1>4, <1>5, <1>6, <1>7, <1>8 DEF AppNext, dataVars

(***************************************************************************)
(* A modal that edits is open for the account it was opened for            *)
(* (AccountSingle.js:3-21, open-modal.js:1-10).                            *)
(***************************************************************************)
LEMMA ModalKeepsAccount == AppSpec => []ModalInv
<1>1. AppInit => ModalInv
  BY DEF AppInit, ModalInv, Edits
<1>2. ModalInv /\ [AppNext]_<<vars, appVars>> => ModalInv'
  <2> SUFFICES ASSUME ModalInv, [AppNext]_<<vars, appVars>> PROVE ModalInv'
    OBVIOUS
  <2>1. CASE UNCHANGED modalVars
    BY <2>1 DEF ModalInv, modalVars
  <2>2. CASE Verifying
    BY <2>1, <2>2 DEF Verifying, appVars
  <2>3. ASSUME NEW target \in Paths, FollowLink(target) PROVE ModalInv'
    BY <2>1, <2>3 DEF FollowLink
  <2>4. CASE Login \/ Logout \/ FollowSelection
    BY <2>1, <2>4 DEF Login, Logout, FollowSelection
  <2>5. CASE Dismiss \/ Reload
    BY <2>5 DEF Dismiss, Reload, ModalInv, Edits
  <2>6. ASSUME NEW a \in Account, SelectAccount(a) \/ AskSignature(a) \/ ClickObtain(a)
        PROVE  ModalInv'
    BY <2>1, <2>6 DEF SelectAccount, AskSignature, ClickObtain
  <2>7. ASSUME NEW a \in Account, NEW which \in Edits, OpenModal(a, which) PROVE ModalInv'
    BY <2>7 DEF OpenModal, OpenModalFor, ModalInv
  <2>8. ASSUME NEW a \in asks, OnSignature(a) PROVE ModalInv'
    BY <2>8 DEF OnSignature, ModalInv, Edits
  <2>9. CASE SaveName("second") \/ \E c \in Deployed : SaveContract(c)
    <3>1. modal' = "none"
      BY <2>9 DEF SaveName, SaveContract, Save
    <3> QED
      BY <3>1 DEF ModalInv, Edits
  <2>10. ASSUME NEW call \in reads,
                ExecuteRead(call) \/ OnRead(call) \/ OnRecord(call) \/ OnReadError(call)
         PROVE  ModalInv'
    BY <2>1, <2>10 DEF ExecuteRead, OnRead, OnRecord, OnReadError
  <2>11. CASE UNCHANGED <<vars, appVars>>
    BY <2>1, <2>11 DEF appVars
  <2> QED
    BY <2>2, <2>3, <2>4, <2>5, <2>6, <2>7, <2>8, <2>9, <2>10, <2>11 DEF AppNext, Edits
<1> QED
  BY <1>1, <1>2, PTL DEF AppSpec

(***************************************************************************)
(* Saving a modal sets a field of the account it was opened for, or does   *)
(* nothing to the accounts (editAccountModal.js:14-25,                     *)
(* addContractAddressModal.js:14-26).                                      *)
(***************************************************************************)
LEMMA SaveSets ==
    ASSUME AccountsAreTyped, ModalInv,
           NEW field \in {"name", "contractAddress"}, NEW value,
           modal \in Edits, Save(field, value)
    PROVE  /\ \A a \in Account :
                 /\ accounts'[a].currentContent = accounts[a].currentContent
                 /\ contractsOf[a] \subseteq contractsOf'[a]
                 /\ a = openedFor \/ accounts'[a] = accounts[a]
           /\ field = "name" /\ value \in Name => AccountsAreTyped'
           /\ field = "contractAddress" /\ value \in Deployed => AccountsAreTyped'
           /\ UNCHANGED reads
<1>1. currentAccountAddress \in Account /\ currentAccountAddress = openedFor
  BY DEF ModalInv
<1>2. CASE UNCHANGED <<accounts, contractsOf>>
  BY <1>2 DEF Save, AccountsAreTyped
<1>3. CASE /\ accounts' = [accounts EXCEPT ![currentAccountAddress][field] = value]
           /\ contractsOf' = [contractsOf EXCEPT ![currentAccountAddress] =
                                 @ \cup ({value} \cap Deployed)]
  <2>1. CASE field = "name"
    BY <1>1, <1>3, <2>1 DEF Save, AccountsAreTyped
  <2>2. CASE field = "contractAddress"
    BY <1>1, <1>3, <2>2 DEF Save, AccountsAreTyped
  <2> QED
    BY <2>1, <2>2
<1> QED
  BY <1>2, <1>3 DEF Save

(***************************************************************************)
(* What the records page has asked for belongs to the account it was asked *)
(* for, and so do the records it has got (Records.js:10-35, 59-68).        *)
(***************************************************************************)
LEMMA RecordsStayTheirs == AppSpec => []RecordsInv
<1>1. AppInit => RecordsInv
  <2> SUFFICES ASSUME AppInit PROVE RecordsInv
    OBVIOUS
  <2>1. PICK contract \in [Account -> Deployed \cup {None}] :
          /\ accounts = [a \in Account |-> [name |-> "first", contractAddress |-> contract[a],
                                            currentContent |-> None]]
          /\ contractsOf = [a \in Account |-> {contract[a]} \ {None}]
    BY DEF AppInit
  <2>2. reads = {}
    BY DEF AppInit
  <2>3. AccountsAreTyped
    <3>1. \A a \in Account : [name |-> "first", contractAddress |-> contract[a],
                              currentContent |-> None]
                                 \in [name : Name, contractAddress : Deployed \cup {None},
                                      currentContent : Content \cup {None}]
      BY DEF Name
    <3> QED
      BY <2>1, <3>1 DEF AccountsAreTyped
  <2> QED
    BY <2>1, <2>2, <2>3 DEF RecordsInv, RecordIsOfAccount
<1>2. OneArtifact /\ ModalInv /\ RecordsInv /\ [AppNext]_<<vars, appVars>> => RecordsInv'
  <2> SUFFICES ASSUME OneArtifact, ModalInv, RecordsInv, [AppNext]_<<vars, appVars>>
               PROVE  RecordsInv'
    OBVIOUS
  <2>1. CASE UNCHANGED <<accounts, contractsOf>> /\ reads' \subseteq reads
    BY <2>1 DEF RecordsInv, AccountsAreTyped, ReadIsOfAccount, RecordIsOfAccount
  <2>2. ASSUME NEW field \in {"name", "contractAddress"}, NEW value,
               modal \in Edits, Save(field, value),
               \/ field = "name" /\ value \in Name
               \/ field = "contractAddress" /\ value \in Deployed
        PROVE  RecordsInv'
    <3>1. /\ \A a \in Account : /\ accounts'[a].currentContent = accounts[a].currentContent
                                /\ contractsOf[a] \subseteq contractsOf'[a]
          /\ AccountsAreTyped' /\ UNCHANGED reads
      BY <2>2, SaveSets DEF RecordsInv
    <3>2. RecordIsOfAccount'
      BY <3>1 DEF RecordsInv, RecordIsOfAccount
    <3>3. \A call \in reads' : ReadIsOfAccount(call)'
      BY <3>1 DEF RecordsInv, ReadIsOfAccount
    <3> QED
      BY <3>1, <3>2, <3>3 DEF RecordsInv
  <2>3. CASE SaveName("second")
    BY <2>2, <2>3 DEF SaveName, Name, Edits
  <2>4. ASSUME NEW c \in Deployed, SaveContract(c) PROVE RecordsInv'
    BY <2>2, <2>4 DEF SaveContract, Edits
  <2>5. ASSUME NEW a \in Account, ClickObtain(a) PROVE RecordsInv'
    <3> DEFINE call == [account |-> a, fn |-> "verifyArtifact",
                        contract |-> accounts[a].contractAddress, answer |-> None]
    <3>1. reads' = reads \cup {call} /\ UNCHANGED <<accounts, contractsOf>>
      BY <2>5 DEF ClickObtain
    <3>2. accounts[a].contractAddress \in contractsOf[a] /\ contractsOf[a] \subseteq Deployed
      BY <2>5 DEF ClickObtain, RecordsInv, AccountsAreTyped
    <3>3. PICK c : c = call
      OBVIOUS
    <3>4. ReadIsOfAccount(c)'
      BY <3>1, <3>2, <3>3 DEF ReadIsOfAccount
    <3> HIDE DEF call
    <3> QED
      BY <3>1, <3>3, <3>4 DEF RecordsInv, AccountsAreTyped, ReadIsOfAccount, RecordIsOfAccount
  <2>6. ASSUME NEW call \in reads, ExecuteRead(call) PROVE RecordsInv'
    <3> DEFINE artifact == VerifyArtifact(world[call.contract], now, 0)
               new == [call EXCEPT !.answer = artifact]
    <3>1. /\ reads' = (reads \ {call}) \cup {new} /\ UNCHANGED <<accounts, contractsOf>>
          /\ ReadIsOfAccount(call) /\ call.fn = "verifyArtifact"
      BY <2>6 DEF ExecuteRead, RecordsInv, dataVars
    <3>2. artifact \in ArtifactAnswer(call.contract)
      BY <3>1, ArtifactAnswers DEF ReadIsOfAccount, EnteredId
    <3>3. artifact \in Content \cup {NoContent, Fictional, Expired}
      BY <3>1, <3>2, OwnersAssumption DEF ArtifactAnswer, ReadIsOfAccount
    <3> HIDE DEF artifact
    <3>4. PICK n : n = new
      OBVIOUS
    <3>5. ReadIsOfAccount(n)'
      BY <3>1, <3>2, <3>3, <3>4 DEF ReadIsOfAccount
    <3> HIDE DEF new
    <3> QED
      BY <3>1, <3>4, <3>5 DEF RecordsInv, AccountsAreTyped, ReadIsOfAccount, RecordIsOfAccount
  <2>7. ASSUME NEW call \in reads, OnRead(call) PROVE RecordsInv'
    <3>1. /\ UNCHANGED <<accounts, contractsOf>> /\ ReadIsOfAccount(call)
          /\ call.answer # None
          /\ reads' = (reads \ {call}) \cup
                (IF call.answer = NoContent THEN {} ELSE {[call EXCEPT !.fn = "cat"]})
      BY <2>7 DEF OnRead, RecordsInv, dataVars
    <3>2. CASE call.answer = NoContent
      BY <2>1, <3>1, <3>2
    <3>3. CASE call.answer # NoContent
      <4> DEFINE new == [call EXCEPT !.fn = "cat"]
      <4>1. PICK n : n = new
        OBVIOUS
      <4>2. ReadIsOfAccount(n)'
        BY <3>1, <3>3, <4>1 DEF ReadIsOfAccount
      <4>3. reads' = (reads \ {call}) \cup {new}
        BY <3>1, <3>3
      <4> HIDE DEF new
      <4> QED
        BY <3>1, <4>1, <4>2, <4>3
           DEF RecordsInv, AccountsAreTyped, ReadIsOfAccount, RecordIsOfAccount
    <3> QED
      BY <3>2, <3>3
  <2>8. ASSUME NEW call \in reads, OnRecord(call) PROVE RecordsInv'
    <3>1. /\ reads' = reads \ {call} /\ contractsOf' = contractsOf
          /\ ReadIsOfAccount(call) /\ call.fn = "cat"
          /\ AccountsAreTyped /\ RecordIsOfAccount
      BY <2>8 DEF OnRecord, RecordsInv
    <3>2. CASE accounts' = accounts
      BY <2>1, <3>1, <3>2
    <3>3. CASE /\ call.answer \in Content
               /\ accounts' = [accounts EXCEPT ![call.account].currentContent = call.answer]
      <4>1. call.answer = DocOf[call.contract] /\ call.account \in Account
            /\ call.contract \in contractsOf[call.account]
        BY <3>1, <3>3, ContentAssumption DEF ReadIsOfAccount, ArtifactAnswer
      <4>2. AccountsAreTyped'
        BY <3>1, <3>3, <4>1 DEF AccountsAreTyped
      <4>3. RecordIsOfAccount'
        BY <3>1, <3>3, <4>1 DEF RecordIsOfAccount, AccountsAreTyped
      <4>4. \A other \in reads' : ReadIsOfAccount(other)'
        BY <3>1 DEF RecordsInv, ReadIsOfAccount
      <4> QED
        BY <4>2, <4>3, <4>4 DEF RecordsInv
    <3> QED
      BY <2>8, <3>2, <3>3 DEF OnRecord
  <2> QED
    BY <2>1, <2>3, <2>4, <2>5, <2>6, <2>7, <2>8, AccountSteps
<1> QED
  BY <1>1, <1>2, OneArtifactStays, ModalKeepsAccount, PTL DEF AppSpec

(***************************************************************************)
(* The record an account has is artifact 0 of a contract that was this     *)
(* account's when it was asked for, wherever the user went and whatever    *)
(* the account's contract is by then (Records.js:10-35, 59-68).            *)
(***************************************************************************)
THEOREM RecordsAreTheAccounts == AppSpec => []RecordIsOfAccount
BY RecordsStayTheirs, PTL DEF RecordsInv

(***************************************************************************)
(* A modal changes the account it was opened for and no other, and nothing *)
(* else changes a name or a contract's address (editAccountModal.js:14-25, *)
(* addContractAddressModal.js:14-26).                                      *)
(***************************************************************************)
THEOREM EditsGoToOpened == AppSpec => EditGoesToOpened
<1> DEFINE Edit == \A a \in Account :
                      \/ a = openedFor /\ modal # "none"
                      \/ /\ accounts'[a].name = accounts[a].name
                         /\ accounts'[a].contractAddress = accounts[a].contractAddress
<1>1. ModalInv /\ RecordsInv /\ [AppNext]_<<vars, appVars>> => [Edit]_<<vars, appVars>>
  <2> SUFFICES ASSUME ModalInv, RecordsInv, [AppNext]_<<vars, appVars>> PROVE Edit
    OBVIOUS
  <2>1. CASE UNCHANGED accounts
    BY <2>1
  <2>2. ASSUME NEW field \in {"name", "contractAddress"}, NEW value,
               modal \in Edits, Save(field, value)
        PROVE  Edit
    <3>1. \A a \in Account : a = openedFor \/ accounts'[a] = accounts[a]
      BY <2>2, SaveSets DEF RecordsInv
    <3> QED
      BY <2>2, <3>1 DEF Edits
  <2>3. CASE SaveName("second")
    BY <2>2, <2>3 DEF SaveName, Edits
  <2>4. ASSUME NEW c \in Deployed, SaveContract(c) PROVE Edit
    BY <2>2, <2>4 DEF SaveContract, Edits
  <2>5. ASSUME NEW a \in Account, ClickObtain(a) PROVE Edit
    BY <2>5 DEF ClickObtain
  <2>6. ASSUME NEW call \in reads, ExecuteRead(call) \/ OnRead(call) PROVE Edit
    BY <2>6 DEF ExecuteRead, OnRead, dataVars
  <2>7. ASSUME NEW call \in reads, OnRecord(call) PROVE Edit
    <3>1. CASE accounts' = [accounts EXCEPT ![call.account].currentContent = call.answer]
      <4>1. \A a \in Account : accounts[a] \in [name : Name, contractAddress : Deployed \cup {None},
                                                currentContent : Content \cup {None}]
        BY DEF RecordsInv, AccountsAreTyped
      <4>2. \A a \in Account : \/ accounts'[a] = accounts[a]
                               \/ accounts'[a] = [accounts[a] EXCEPT !.currentContent = call.answer]
        BY <3>1 DEF RecordsInv, AccountsAreTyped
      <4> QED
        BY <4>1, <4>2
    <3> QED
      BY <2>1, <2>7, <3>1 DEF OnRecord
  <2> QED
    BY <2>1, <2>3, <2>4, <2>5, <2>6, <2>7, AccountSteps
<1> QED
  BY <1>1, ModalKeepsAccount, RecordsStayTheirs, PTL DEF AppSpec, EditGoesToOpened

-----------------------------------------------------------------------------
PageIsTyped ==
    /\ world \in [Deployed -> Contract]
    /\ registry \in [owner : {Unilog}, repository : SUBSET Deployed]
    /\ result \in Message \cup Content
    /\ showNoResult \in BOOLEAN

UserIsTyped ==
    path \in Paths /\ selected \in Account /\ active \in Account /\ asks \subseteq Account

(***************************************************************************)
(* The storage of the contracts, and what the page shows                   *)
(* (UnilogRegistry.sol:9-19, VerifierPortal.js:5-8, 68-100).               *)
(***************************************************************************)
LEMMA PageStaysTyped == AppSpec => []PageIsTyped
<1>1. AppInit => PageIsTyped
  <2> SUFFICES ASSUME AppInit PROVE PageIsTyped
    OBVIOUS
  <2>1. world \in [Deployed -> Contract]
    BY DeployedContract DEF AppInit, Init
  <2>2. showNoResult \in BOOLEAN
    BY Zenon DEF AppInit, Init
  <2> QED
    BY <2>1, <2>2 DEF AppInit, Init, PageIsTyped, NewRegistry, Message
<1>2. OneArtifact /\ PageIsTrue /\ PageIsTyped /\ [AppNext]_<<vars, appVars>> => PageIsTyped'
  <2> SUFFICES ASSUME OneArtifact, PageIsTrue, PageIsTyped, [AppNext]_<<vars, appVars>>
               PROVE  PageIsTyped'
    OBVIOUS
  <2>1. CASE UNCHANGED <<chainVars, result, showNoResult>>
    BY <2>1 DEF PageIsTyped, chainVars
  <2>2. ASSUME NEW c \in Deployed, RegisterContract(c) PROVE PageIsTyped'
    BY <2>2 DEF RegisterContract, AddContract, PageIsTyped
  <2>3. ASSUME NEW c \in Deployed, RemoveArtifact(c) PROVE PageIsTyped'
    <3>1. DeleteArtifact(world[c], 0) \in Contract
      BY ClearedContract DEF OneArtifact
    <3> QED
      BY <2>3, <3>1 DEF RemoveArtifact, PageIsTyped
  <2>4. CASE NextBlock
    BY <2>4 DEF NextBlock, PageIsTyped
  <2>5. CASE Enter
    <3>1. showNoResult' \in BOOLEAN
      BY <2>5, Zenon DEF Enter
    <3> QED
      BY <2>5, <3>1 DEF Enter, chainVars, PageIsTyped, Message
  <2>6. CASE Reload
    BY <2>1, <2>6 DEF Reload
  <2>7. ASSUME NEW call \in reads, OnReadError(call) PROVE PageIsTyped'
    BY <2>1, <2>7 DEF OnReadError
  <2>8. ASSUME NEW c \in Deployed, NEW id \in EnteredId, NEW isRegistry \in BOOLEAN,
               Submit(c, id, isRegistry)
        PROVE  PageIsTyped'
    BY <2>1, <2>8 DEF Submit
  <2>9. ASSUME NEW call \in calls, Callback(call) PROVE PageIsTyped'
    <3>1. CASE ExecuteContains(call) \/ ExecuteVerify(call) \/ OnError(call)
      BY <2>1, <3>1 DEF ExecuteContains, ExecuteVerify, OnError
    <3>2. CASE OnContains(call)
      <4>1. showNoResult' = showNoResult \/ showNoResult' = TRUE
        BY <3>2 DEF OnContains, SetLayout
      <4>2. showNoResult' \in BOOLEAN
        BY <4>1, Zenon DEF PageIsTyped
      <4>3. result' = result \/ result' = NotListed
        BY <3>2 DEF OnContains
      <4> QED
        BY <3>2, <4>2, <4>3 DEF OnContains, chainVars, PageIsTyped, Message
    <3>3. CASE OnArtifact(call)
      <4>1. showNoResult' = showNoResult \/ showNoResult' = TRUE \/ showNoResult' = FALSE
        BY <3>3 DEF OnArtifact, SetLayout
      <4>2. showNoResult' \in BOOLEAN
        BY <4>1, Zenon DEF PageIsTyped
      <4>3. result' = result \/ result' = NotValid
        BY <3>3 DEF OnArtifact
      <4> QED
        BY <3>3, <4>2, <4>3 DEF OnArtifact, chainVars, PageIsTyped, Message
    <3>4. CASE OnTranscript(call)
      <4>1. call.answer \in Content
        BY <3>4 DEF OnTranscript, PageIsTrue, AnswerIsTruth
      <4> QED
        BY <3>4, <4>1 DEF OnTranscript, chainVars, PageIsTyped
    <3> QED
      BY <2>9, <3>1, <3>2, <3>3, <3>4 DEF Callback
  <2>10. CASE UNCHANGED vars
    BY <2>1, <2>10 DEF vars, chainVars
  <2> QED
    BY <2>2, <2>3, <2>4, <2>5, <2>6, <2>7, <2>8, <2>9, <2>10, PageSteps DEF Next
<1> QED
  BY <1>1, <1>2, OneArtifactStays, PageStaysTrue, PTL DEF AppSpec

(***************************************************************************)
(* Where the user is, and as whom (routes.js:1-70, Account.js:10-33).      *)
(***************************************************************************)
LEMMA UserStaysTyped == AppSpec => []UserIsTyped
<1> USE DEF Paths, Page, PageOf
<1>1. AppInit => UserIsTyped
  BY DEF AppInit, UserIsTyped
<1>2. UserIsTyped /\ [AppNext]_<<vars, appVars>> => UserIsTyped'
  <2> SUFFICES ASSUME UserIsTyped, [AppNext]_<<vars, appVars>> PROVE UserIsTyped'
    OBVIOUS
  <2>1. CASE UNCHANGED <<path, selected, active, asks>>
    BY <2>1 DEF UserIsTyped
  <2>2. CASE Verifying
    BY <2>1, <2>2 DEF Verifying, appVars, pageVars, maskVars
  <2>3. ASSUME NEW target \in Paths, FollowLink(target) PROVE UserIsTyped'
    BY <2>3 DEF FollowLink, Show, Route, maskVars, UserIsTyped
  <2>4. CASE Login \/ Logout
    BY <2>4 DEF Login, Logout, Show, Route, maskVars, UserIsTyped
  <2>5. CASE Reload
    BY <2>5 DEF Reload, Route, UserIsTyped
  <2>6. CASE FollowSelection \/ Dismiss
    BY <2>6 DEF FollowSelection, Dismiss, pageVars, maskVars, UserIsTyped
  <2>7. ASSUME NEW a \in Account, SelectAccount(a) \/ AskSignature(a) \/ ClickObtain(a)
        PROVE  UserIsTyped'
    BY <2>7 DEF SelectAccount, AskSignature, ClickObtain, pageVars, maskVars, UserIsTyped
  <2>8. ASSUME NEW a \in Account, NEW which, OpenModal(a, which) PROVE UserIsTyped'
    BY <2>1, <2>8 DEF OpenModal, pageVars, maskVars
  <2>9. ASSUME NEW a \in asks, OnSignature(a) PROVE UserIsTyped'
    BY <2>9 DEF OnSignature, pageVars, UserIsTyped
  <2>10. CASE SaveName("second") \/ \E c \in Deployed : SaveContract(c)
    BY <2>1, <2>10 DEF SaveName, SaveContract, Save, pageVars, maskVars
  <2>11. ASSUME NEW call \in reads,
                ExecuteRead(call) \/ OnRead(call) \/ OnRecord(call) \/ OnReadError(call)
         PROVE  UserIsTyped'
    BY <2>1, <2>11 DEF ExecuteRead, OnRead, OnRecord, OnReadError, pageVars, maskVars
  <2>12. CASE UNCHANGED <<vars, appVars>>
    BY <2>1, <2>12 DEF appVars, pageVars, maskVars
  <2> QED
    BY <2>2, <2>3, <2>4, <2>5, <2>6, <2>7, <2>8, <2>9, <2>10, <2>11, <2>12 DEF AppNext
<1> QED
  BY <1>1, <1>2, PTL DEF AppSpec

(***************************************************************************)
(* Type correctness of the application, the verifier's page included       *)
(* (routes.js:1-70, VerifierPortal.js:5-100, Records.js:9-69).             *)
(***************************************************************************)
THEOREM AppTypeCorrect == AppSpec => []AppTypeOK
<1>1. OneArtifact /\ CallsAreTyped /\ PageIsTrue /\ PageIsTyped /\ UserIsTyped /\ RecordsInv
          => TypeOK
  BY DEF TypeOK, CallsAreTyped, IsCall, PageIsTrue, AnswerIsTruth, PageIsTyped
<1>2. ModalInv /\ UserIsTyped /\ RecordsInv /\ TypeOK => AppTypeOK
  BY DEF ModalInv, Edits, UserIsTyped, RecordsInv, AccountsAreTyped, ReadIsOfAccount, AppTypeOK
<1> QED
  BY <1>1, <1>2, OneArtifactStays, CallsStayTyped, PageStaysTrue, PageStaysTyped, UserStaysTyped,
     ModalKeepsAccount, RecordsStayTheirs, PTL
=============================================================================
