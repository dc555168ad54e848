--------------------------- MODULE UnilogContract ---------------------------
(***************************************************************************)
(* The user contract app/main-blockchain/src/main/resources/Unilog.sol as  *)
(* a value and the functions on it.  A contract value is its storage; each *)
(* function that changes storage maps a contract value to the next one.    *)
(* The modifier onlyBy throws, and a transaction that throws changes       *)
(* nothing, so it is an operator the callers use as the guard of a step.   *)
(***************************************************************************)
EXTENDS Naturals, Sequences

CONSTANTS
    Address,    \* the accounts that can send transactions
    NoAddress,  \* address(0), the initial value of artifactOwner
    Content,    \* the IPFS content addresses, abstracted to names
    WordSize,   \* 2^256 in the EVM: uint arithmetic is modulo WordSize
    Week        \* the number of seconds in the unit "1 weeks"

NoContent == ""
Expired   == "Expired!"
Fictional == "Fictional Artifact!"

(***************************************************************************)
(* No account is the zero address, and an IPFS content address ("Qm...")   *)
(* is none of the three other strings verifyArtifact answers with.         *)
(***************************************************************************)
ASSUME AddressAssumption == NoAddress \notin Address
ASSUME ContentAssumption == Content \cap {NoContent, Expired, Fictional} = {}
ASSUME WordAssumption    == WordSize \in Nat \ {0} /\ Week \in Nat \ {0}

Word == 0 .. WordSize - 1

Artifact ==
    [artifactAddress : Content \cup {NoContent}, active : BOOLEAN, expirationDate : Word]

Contract ==
    [unilog : Address, artifactOwner : Address \cup {NoAddress}, artifacts : Seq(Artifact)]

\* Deploying the contract: the sender becomes unilog, nobody owns artifacts.
NewContract(sender) ==
    [unilog |-> sender, artifactOwner |-> NoAddress, artifacts |-> <<>>]

\* The modifier: every sender but _account is thrown out.
onlyBy(sender, account) == sender = account

\* Mutant: arithmetic that does not wrap.
ExpirationDateUnbounded(now, validFor) == IF validFor = 0 THEN 0 ELSE now + validFor * Week

\* 0 weeks means "does not expire"; any other sum wraps around.
ExpirationDate(now, validFor) ==
    IF validFor = 0 THEN 0 ELSE (now + validFor * Week) % WordSize

\* Mutant: a slot that was deleted is used again.
AddArtifactReusing(c, now, content, validFor) ==
    LET new  == [artifactAddress |-> content, active |-> TRUE,
                 expirationDate |-> ExpirationDate(now, validFor)]
        free == {i \in DOMAIN c.artifacts : ~c.artifacts[i].active}
    IN  IF free = {} THEN [c EXCEPT !.artifacts = Append(@, new)]
        ELSE [c EXCEPT !.artifacts[CHOOSE i \in free : TRUE] = new]

AddArtifact(c, now, content, validFor) ==
    [c EXCEPT !.artifacts =
        Append(@, [artifactAddress |-> content,
                   active          |-> TRUE,
                   expirationDate  |-> ExpirationDate(now, validFor)])]

\* Solidity counts from 0: artifact id is element id + 1 of the sequence.
Exists(c, id) == id < Len(c.artifacts)

\* Mutant: valid for one more second.
VerifyArtifactLate(c, now, id) ==
    IF ~Exists(c, id) THEN Fictional
    ELSE LET current == c.artifacts[id + 1]
         IN  IF current.expirationDate = 0 \/ now <= current.expirationDate
             THEN current.artifactAddress
             ELSE Expired

VerifyArtifact(c, now, id) ==
    IF ~Exists(c, id) THEN Fictional
    ELSE LET current == c.artifacts[id + 1]
         IN  IF current.expirationDate = 0 \/ now < current.expirationDate
             THEN current.artifactAddress
             ELSE Expired

\* delete on a struct: every field back to its zero value, the length stays.
DeletedArtifact ==
    [artifactAddress |-> NoContent, active |-> FALSE, expirationDate |-> 0]

DeleteArtifact(c, id) ==
    IF Exists(c, id) THEN [c EXCEPT !.artifacts[id + 1] = DeletedArtifact] ELSE c

\* Mutant: anybody can be the owner.
AssignArtifactOwnerAny(c, owner) == [c EXCEPT !.artifactOwner = owner]

\* Unilog cannot make itself the owner of the artifacts (the call answers false).
AssignArtifactOwner(c, owner) ==
    IF owner # c.unilog THEN [c EXCEPT !.artifactOwner = owner] ELSE c
=============================================================================
