---------------------------- MODULE ContractTwins ----------------------------
(***************************************************************************)
(* The contract that is deployed and the contract that is tested, side by  *)
(* side: every transaction goes to both, and verifyArtifact transactions   *)
(* go to the tested one whenever a test sends them.                        *)
(***************************************************************************)
EXTENDS UserContract, UnilogTestVersion

VARIABLE twin   \* the storage of the tested contract

twinVars == <<vars, twin>>

TwinInit == Init /\ twin = NewContract(Unilog)

TwinAdd(sender, content, validFor) ==
    /\ addArtifact(sender, content, validFor)
    /\ twin' = AddArtifact(twin, now, content, validFor)

TwinDelete(sender, id) ==
    /\ deleteArtifact(sender, id)
    /\ onlyBy(sender, twin.artifactOwner)
    /\ twin' = DeleteArtifact(twin, id)

TwinAssign(sender, owner) ==
    /\ assignArtifactOwner(sender, owner)
    /\ twin' = AssignArtifactOwner(twin, owner)

TwinVerify(id) ==
    /\ twin' = AfterVerifyTestArtifact(twin, now, id)
    /\ UNCHANGED vars

TwinBlock == NextBlock /\ UNCHANGED twin

TwinNext ==
    \/ \E sender \in Address, content \in Content \cup {NoContent}, validFor \in Validity :
           TwinAdd(sender, content, validFor)
    \/ \E sender \in Address, id \in Ids : TwinDelete(sender, id)
    \/ \E sender \in Address, owner \in Address \cup {NoAddress} : TwinAssign(sender, owner)
    \/ \E id \in Ids : TwinVerify(id)
    \/ TwinBlock

TwinSpec == TwinInit /\ [][TwinNext]_twinVars

-----------------------------------------------------------------------------
TestAnswer(id) == VerifyTestArtifact(twin, now, id)

(***************************************************************************)
(* What the unit tests see of a contract is what the deployed contract     *)
(* answers, for every artifact its owner has not removed: storing "not     *)
(* active" on the first look after the end of the period                   *)
(* (UnilogTestVersion.sol:31-37) and comparing dates on every look         *)
(* (Unilog.sol:31-35) come to the same, because block time never goes back.*)
(***************************************************************************)
AgreeUnlessRemoved == \A id \in Ids : ~Removed(id) => Answer(id) = TestAnswer(id)
=============================================================================
