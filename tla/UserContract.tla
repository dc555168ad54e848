---------------------------- MODULE UserContract ----------------------------
(***************************************************************************)
(* One deployed user contract, called by any account in any order while    *)
(* the block time advances.  The variables issued and removals remember    *)
(* what was asked of the contract; no step reads them.                     *)
(***************************************************************************)
EXTENDS UnilogContract

CONSTANTS
    Unilog,        \* the account that deployed the contract
    Validity,      \* the values of validFor that are passed to addArtifact
    MaxArtifacts,  \* bound: calls of addArtifact
    MaxTime        \* bound: the last block time

ASSUME UnilogAssumption   == Unilog \in Address
ASSUME ValidityAssumption == Validity \subseteq Nat
ASSUME BoundAssumption    == MaxArtifacts \in Nat /\ MaxTime \in Nat

VARIABLES
    contract,  \* the storage of the contract
    now,       \* the timestamp of the current block
    issued,    \* history: for each addArtifact, what was added, when, for how long
    removals   \* history: who removed which artifact

vars == <<contract, now, issued, removals>>

Issue   == [content : Content \cup {NoContent}, validFor : Nat, at : Nat]
Removal == [id : Nat, by : Address]

Ids == 0 .. MaxArtifacts   \* one more id than artifacts can exist

TypeOK ==
    /\ contract \in Contract
    /\ now \in Nat
    /\ issued \in Seq(Issue)
    /\ removals \subseteq Removal

Init ==
    /\ contract = NewContract(Unilog)
    /\ now = 0
    /\ issued = <<>>
    /\ removals = {}

addArtifact(sender, content, validFor) ==
    /\ Len(issued) < MaxArtifacts
    /\ onlyBy(sender, contract.unilog)
    /\ contract' = AddArtifact(contract, now, content, validFor)
    /\ issued' = Append(issued, [content |-> content, validFor |-> validFor, at |-> now])
    /\ UNCHANGED <<now, removals>>

deleteArtifact(sender, id) ==
    /\ onlyBy(sender, contract.artifactOwner)
    /\ contract' = DeleteArtifact(contract, id)
    /\ removals' = IF Exists(contract, id)
                   THEN removals \cup {[id |-> id, by |-> sender]} ELSE removals
    /\ UNCHANGED <<now, issued>>

assignArtifactOwner(sender, owner) ==
    /\ onlyBy(sender, contract.unilog)
    /\ contract' = AssignArtifactOwner(contract, owner)
    /\ UNCHANGED <<now, issued, removals>>

\* Blocks carry increasing timestamps.
NextBlock ==
    /\ now < MaxTime
    /\ now' = now + 1
    /\ UNCHANGED <<contract, issued, removals>>

Next ==
    \/ \E sender \in Address, content \in Content \cup {NoContent}, validFor \in Validity :
           addArtifact(sender, content, validFor)
    \/ \E sender \in Address, id \in Ids : deleteArtifact(sender, id)
    \/ \E sender \in Address, owner \in Address \cup {NoAddress} :
           assignArtifactOwner(sender, owner)
    \/ NextBlock

Spec == Init /\ [][Next]_vars

-----------------------------------------------------------------------------
Answer(id) == VerifyArtifact(contract, now, id)
Removed(id) == \E r \in removals : r.id = id

(***************************************************************************)
(* Unilog issues transcripts but can never take one away, whatever order   *)
(* owners are assigned and artifacts removed in: deleteArtifact is for the *)
(* owner only (Unilog.sol:41) and assignArtifactOwner refuses Unilog       *)
(* (Unilog.sol:52).                                                        *)
(***************************************************************************)
UnilogNeverRemoves == \A r \in removals : r.by # Unilog

(***************************************************************************)
(* verifyArtifact answers with the content that was added under that very  *)
(* id exactly while its period lasts: it stops at the second the period    *)
(* ends, never earlier or later, as long as the sum fits into a word       *)
(* (Unilog.sol:16-39).                                                     *)
(***************************************************************************)
PeriodHonoured ==
    \A id \in 0 .. Len(issued) - 1 :
        LET e    == issued[id + 1]
            ends == e.at + e.validFor * Week
        IN  (~Removed(id) /\ ends < WordSize)
                => Answer(id) = IF e.validFor = 0 \/ now < ends THEN e.content ELSE Expired

(***************************************************************************)
(* What the owner removed stays removed: no later call, and no later       *)
(* addArtifact, makes the contract answer for that id again                *)
(* (Unilog.sol:41-49; ids are never reused because delete keeps the length).*)
(***************************************************************************)
RemovedStaysRemoved == \A r \in removals : Answer(r.id) = NoContent

(***************************************************************************)
(* An answer only decays: a step may let an artifact come into existence,  *)
(* let its period end, or remove it, and changes no answer in any other    *)
(* way; above all no content is ever swapped for another one and nothing   *)
(* expired or removed comes back (Unilog.sol:16-49).                       *)
(***************************************************************************)
AnswersOnlyDecay ==
    [][\A id \in Ids :
           \/ Answer(id)' = Answer(id)
           \/ Answer(id) = Fictional
           \/ Answer(id)' = Expired /\ ~Removed(id)'
           \/ Answer(id)' = NoContent /\ Removed(id)']_vars
=============================================================================
