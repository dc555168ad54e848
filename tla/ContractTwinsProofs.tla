------------------------- MODULE ContractTwinsProofs -------------------------
(***************************************************************************)
(* Proofs about the contract of a transcript owner, about the one that is  *)
(* deployed and the one that is tested, for every set of accounts, every   *)
(* set of contents and periods, every word size and every bound.           *)
(***************************************************************************)
EXTENDS ContractTwins, TLAPS

(***************************************************************************)
(* The sum of a time and a period, wrapped around, is a word               *)
(* (Unilog.sol:18-23).                                                     *)
(***************************************************************************)
LEMMA ExpirationDateIsWord ==
    ASSUME NEW t \in Nat, NEW validFor \in Nat
    PROVE  ExpirationDate(t, validFor) \in Word
<1>1. t + validFor * Week \in Nat
  BY WordAssumption
<1>2. \A n \in Nat : n % WordSize \in 0 .. WordSize - 1
  BY WordAssumption
<1>3. 0 \in 0 .. WordSize - 1
  BY WordAssumption
<1> QED
  BY <1>1, <1>2, <1>3 DEF ExpirationDate, Word

(***************************************************************************)
(* A sum that fits into a word does not wrap around (Unilog.sol:22).       *)
(***************************************************************************)
LEMMA SmallModulo ==
    ASSUME NEW m \in Nat, NEW n \in Nat \ {0}, m < n
    PROVE  m % n = m
OBVIOUS

(***************************************************************************)
(* addArtifact maps contracts to contracts, and adds exactly one artifact  *)
(* at the end (Unilog.sol:16-26).                                          *)
(***************************************************************************)
LEMMA AddArtifactType ==
    ASSUME NEW c \in Contract, NEW t \in Nat,
           NEW content \in Content \cup {NoContent}, NEW validFor \in Nat
    PROVE  /\ AddArtifact(c, t, content, validFor) \in Contract
           /\ AddArtifact(c, t, content, validFor).unilog = c.unilog
           /\ AddArtifact(c, t, content, validFor).artifactOwner = c.artifactOwner
           /\ AddArtifact(c, t, content, validFor).artifacts =
                  Append(c.artifacts,
                         [artifactAddress |-> content, active |-> TRUE,
                          expirationDate |-> ExpirationDate(t, validFor)])
<1> DEFINE new == [artifactAddress |-> content, active |-> TRUE,
                   expirationDate |-> ExpirationDate(t, validFor)]
<1>1. new \in Artifact
  BY ExpirationDateIsWord DEF Artifact
<1>2. Append(c.artifacts, new) \in Seq(Artifact)
  BY <1>1 DEF Contract
<1> QED
  BY <1>2 DEF AddArtifact, Contract

(***************************************************************************)
(* deleteArtifact maps contracts to contracts and touches at most the one  *)
(* artifact it is called for (Unilog.sol:41-49).                           *)
(***************************************************************************)
LEMMA DeleteArtifactType ==
    ASSUME NEW c \in Contract, NEW id \in Nat
    PROVE  /\ DeleteArtifact(c, id) \in Contract
           /\ DeleteArtifact(c, id).unilog = c.unilog
           /\ DeleteArtifact(c, id).artifactOwner = c.artifactOwner
           /\ Len(DeleteArtifact(c, id).artifacts) = Len(c.artifacts)
           /\ \A i \in 1 .. Len(c.artifacts) :
                  DeleteArtifact(c, id).artifacts[i] =
                      IF i = id + 1 THEN DeletedArtifact ELSE c.artifacts[i]
<1>1. DeletedArtifact \in Artifact
  BY WordAssumption DEF DeletedArtifact, Artifact, Word
<1>2. CASE Exists(c, id)
  <2>1. id + 1 \in 1 .. Len(c.artifacts)
    BY <1>2 DEF Exists, Contract
  <2> DEFINE s == [c.artifacts EXCEPT ![id + 1] = DeletedArtifact]
  <2>2. s \in Seq(Artifact) /\ Len(s) = Len(c.artifacts)
    BY <1>1, <2>1 DEF Contract
  <2>3. DeleteArtifact(c, id) = [c EXCEPT !.artifacts = s]
    BY <1>2 DEF DeleteArtifact
  <2>4. \A i \in 1 .. Len(c.artifacts) :
            s[i] = IF i = id + 1 THEN DeletedArtifact ELSE c.artifacts[i]
    BY <2>1 DEF Contract
  <2> QED
    BY <2>2, <2>3, <2>4 DEF Contract
<1>3. CASE ~Exists(c, id)
  <2>1. DeleteArtifact(c, id) = c
    BY <1>3 DEF DeleteArtifact
  <2>2. \A i \in 1 .. Len(c.artifacts) : i # id + 1
    BY <1>3 DEF Exists, Contract
  <2> QED
    BY <2>1, <2>2
<1> QED
  BY <1>2, <1>3

(***************************************************************************)
(* assignArtifactOwner never makes Unilog the owner (Unilog.sol:51-57).    *)
(***************************************************************************)
LEMMA AssignArtifactOwnerType ==
    ASSUME NEW c \in Contract, NEW owner \in Address \cup {NoAddress}
    PROVE  /\ AssignArtifactOwner(c, owner) \in Contract
           /\ AssignArtifactOwner(c, owner).unilog = c.unilog
           /\ AssignArtifactOwner(c, owner).artifacts = c.artifacts
           /\ c.artifactOwner # c.unilog => AssignArtifactOwner(c, owner).artifactOwner # c.unilog
BY DEF AssignArtifactOwner, Contract

-----------------------------------------------------------------------------
(***************************************************************************)
(* Type correctness of the user contract (Unilog.sol:5-14).                *)
(***************************************************************************)
THEOREM TypeCorrect == Spec => []TypeOK
<1>1. Init => TypeOK
  BY UnilogAssumption DEF Init, TypeOK, NewContract, Contract
<1>2. TypeOK /\ [Next]_vars => TypeOK'
  <2> SUFFICES ASSUME TypeOK, [Next]_vars PROVE TypeOK'
    OBVIOUS
  <2> USE DEF TypeOK
  <2>1. ASSUME NEW sender \in Address, NEW content \in Content \cup {NoContent},
               NEW validFor \in Validity, addArtifact(sender, content, validFor)
        PROVE  TypeOK'
    <3>1. validFor \in Nat
      BY ValidityAssumption
    <3>2. contract' \in Contract
      BY <2>1, <3>1, AddArtifactType DEF addArtifact
    <3>3. issued' \in Seq(Issue)
      BY <2>1, <3>1 DEF addArtifact, Issue
    <3> QED
      BY <2>1, <3>2, <3>3 DEF addArtifact
  <2>2. ASSUME NEW sender \in Address, NEW id \in Ids, deleteArtifact(sender, id)
        PROVE  TypeOK'
    <3>1. id \in Nat
      BY BoundAssumption DEF Ids
    <3>2. contract' \in Contract
      BY <2>2, <3>1, DeleteArtifactType DEF deleteArtifact
    <3> QED
      BY <2>2, <3>1, <3>2 DEF deleteArtifact, Removal
  <2>3. ASSUME NEW sender \in Address, NEW owner \in Address \cup {NoAddress},
               assignArtifactOwner(sender, owner)
        PROVE  TypeOK'
    BY <2>3, AssignArtifactOwnerType DEF assignArtifactOwner
  <2>4. CASE NextBlock
    BY <2>4 DEF NextBlock
  <2>5. CASE UNCHANGED vars
    BY <2>5 DEF vars
  <2> QED
    BY <2>1, <2>2, <2>3, <2>4, <2>5 DEF Next
<1> QED
  BY <1>1, <1>2, PTL DEF Spec

-----------------------------------------------------------------------------
(***************************************************************************)
(* Unilog is nobody the contract would let remove an artifact, and has     *)
(* removed none (Unilog.sol:41-57).                                        *)
(***************************************************************************)
OwnerIsNotUnilog ==
    /\ contract.unilog = Unilog
    /\ contract.artifactOwner # Unilog
    /\ UnilogNeverRemoves

(***************************************************************************)
(* Unilog, which adds artifacts and assigns their owner, never removes one:*)
(* the modifier of deleteArtifact asks for the owner, and no sequence of   *)
(* assignments makes Unilog the owner (Unilog.sol:41-63).                  *)
(***************************************************************************)
THEOREM UnilogCannotRemove == Spec => []UnilogNeverRemoves
<1>1. Init => OwnerIsNotUnilog
  BY UnilogAssumption, AddressAssumption
     DEF Init, OwnerIsNotUnilog, NewContract, UnilogNeverRemoves
<1>2. TypeOK /\ OwnerIsNotUnilog /\ [Next]_vars => OwnerIsNotUnilog'
  <2> SUFFICES ASSUME TypeOK, OwnerIsNotUnilog, [Next]_vars PROVE OwnerIsNotUnilog'
    OBVIOUS
  <2> USE DEF TypeOK, OwnerIsNotUnilog, UnilogNeverRemoves
  <2>1. ASSUME NEW sender \in Address, NEW content \in Content \cup {NoContent},
               NEW validFor \in Validity, addArtifact(sender, content, validFor)
        PROVE  OwnerIsNotUnilog'
    <3>1. validFor \in Nat
      BY ValidityAssumption
    <3> QED
      BY <2>1, <3>1, AddArtifactType DEF addArtifact
  <2>2. ASSUME NEW sender \in Address, NEW id \in Ids, deleteArtifact(sender, id)
        PROVE  OwnerIsNotUnilog'
    <3>1. id \in Nat
      BY BoundAssumption DEF Ids
    <3>2. sender # Unilog
      BY <2>2 DEF deleteArtifact, onlyBy
    <3>3. contract'.unilog = Unilog /\ contract'.artifactOwner # Unilog
      BY <2>2, <3>1, DeleteArtifactType DEF deleteArtifact
    <3> QED
      BY <2>2, <3>2, <3>3 DEF deleteArtifact
  <2>3. ASSUME NEW sender \in Address, NEW owner \in Address \cup {NoAddress},
               assignArtifactOwner(sender, owner)
        PROVE  OwnerIsNotUnilog'
    BY <2>3, AssignArtifactOwnerType DEF assignArtifactOwner
  <2>4. CASE NextBlock
    BY <2>4 DEF NextBlock
  <2>5. CASE UNCHANGED vars
    BY <2>5 DEF vars
  <2> QED
    BY <2>1, <2>2, <2>3, <2>4, <2>5 DEF Next
<1>3. OwnerIsNotUnilog => UnilogNeverRemoves
  BY DEF OwnerIsNotUnilog
<1> QED
  BY <1>1, <1>2, <1>3, TypeCorrect, PTL DEF Spec

-----------------------------------------------------------------------------
(***************************************************************************)
(* The strengthening the other properties rest on: artifact id is exactly  *)
(* what was added under that id, until it is removed and then the zero     *)
(* artifact; only ids that exist were removed.                             *)
(***************************************************************************)
Stored(e) == [artifactAddress |-> e.content, active |-> TRUE,
              expirationDate |-> ExpirationDate(e.at, e.validFor)]

StoredAsIssued ==
    /\ Len(contract.artifacts) = Len(issued)
    /\ \A r \in removals : r.id < Len(issued)
    /\ \A i \in 1 .. Len(issued) :
           contract.artifacts[i] = IF Removed(i - 1) THEN DeletedArtifact ELSE Stored(issued[i])

(***************************************************************************)
(* What each call does to the correspondence of storage and history.       *)
(***************************************************************************)
LEMMA AddKeepsStored ==
    ASSUME TypeOK, StoredAsIssued,
           NEW sender \in Address, NEW content \in Content \cup {NoContent},
           NEW validFor \in Validity, addArtifact(sender, content, validFor)
    PROVE  StoredAsIssued'
<1> USE DEF TypeOK
<1> DEFINE e == [content |-> content, validFor |-> validFor, at |-> now]
<1>1. validFor \in Nat /\ e \in Issue
  BY ValidityAssumption DEF Issue
<1>2. issued' = Append(issued, e) /\ issued' \in Seq(Issue) /\ removals' = removals
  BY <1>1 DEF addArtifact
<1>3. contract'.artifacts = Append(contract.artifacts, Stored(e))
  BY <1>1, AddArtifactType DEF addArtifact, Stored
<1>4. contract.artifacts \in Seq(Artifact)
  BY DEF Contract
<1>5. /\ Len(issued') = Len(issued) + 1
      /\ Len(contract'.artifacts) = Len(contract.artifacts) + 1
  BY <1>2, <1>3, <1>4
<1>6. \A i \in 1 .. Len(issued) :
          issued'[i] = issued[i] /\ contract'.artifacts[i] = contract.artifacts[i]
  BY <1>2, <1>3, <1>4 DEF StoredAsIssued
<1>7. issued'[Len(issued) + 1] = e /\ contract'.artifacts[Len(issued) + 1] = Stored(e)
  BY <1>2, <1>3, <1>4 DEF StoredAsIssued
<1>8. ~Removed(Len(issued))
  BY DEF StoredAsIssued, Removed, Removal
<1>9. \A i \in 1 .. Len(issued') : i \in 1 .. Len(issued) \/ i = Len(issued) + 1
  BY <1>2, <1>5
<1>10. \A i \in 1 .. Len(issued') :
          contract'.artifacts[i] =
              IF Removed(i - 1)' THEN DeletedArtifact ELSE Stored(issued'[i])
  <2> SUFFICES ASSUME NEW i \in 1 .. Len(issued')
               PROVE  contract'.artifacts[i] =
                          IF Removed(i - 1)' THEN DeletedArtifact ELSE Stored(issued'[i])
    OBVIOUS
  <2>1. Removed(i - 1)' <=> Removed(i - 1)
    BY <1>2 DEF Removed
  <2>2. CASE i \in 1 .. Len(issued)
    BY <1>6, <2>1, <2>2 DEF StoredAsIssued
  <2>3. CASE i = Len(issued) + 1
    <3>1. i - 1 = Len(issued)
      BY <2>3
    <3> QED
      BY <1>7, <1>8, <2>1, <2>3, <3>1
  <2> QED
    BY <1>9, <2>2, <2>3
<1>11. \A r \in removals' : r.id < Len(issued')
  BY <1>2, <1>5 DEF StoredAsIssued, Removal
<1>12. Len(contract'.artifacts) = Len(issued')
  BY <1>5 DEF StoredAsIssued
<1> QED
  BY <1>10, <1>11, <1>12 DEF StoredAsIssued, Stored

(***************************************************************************)
(* deleteArtifact keeps storage and history in step: the artifact becomes  *)
(* zero as its removal is recorded (Unilog.sol:41-49).                     *)
(***************************************************************************)
LEMMA DeleteKeepsStored ==
    ASSUME TypeOK, StoredAsIssued,
           NEW sender \in Address, NEW id \in Ids, deleteArtifact(sender, id)
    PROVE  /\ StoredAsIssued'
           /\ Exists(contract, id) => Removed(id)'
           /\ \A n \in Nat : n # id => (Removed(n)' <=> Removed(n))
<1> USE DEF TypeOK
<1>1. id \in Nat
  BY BoundAssumption DEF Ids
<1>2. contract \in Contract /\ contract.artifacts \in Seq(Artifact) /\ issued' = issued
  BY DEF deleteArtifact, Contract
<1>3. /\ Len(contract'.artifacts) = Len(contract.artifacts)
      /\ \A i \in 1 .. Len(contract.artifacts) :
             contract'.artifacts[i] = IF i = id + 1 THEN DeletedArtifact ELSE contract.artifacts[i]
  BY <1>1, <1>2, DeleteArtifactType DEF deleteArtifact
<1>4. CASE Exists(contract, id)
  <2>1. removals' = removals \cup {[id |-> id, by |-> sender]} /\ id < Len(issued)
    BY <1>4 DEF deleteArtifact, Exists, StoredAsIssued
  <2> DEFINE gone == [id |-> id, by |-> sender]
  <2>2. Removed(id)' /\ \A n \in Nat : n # id => (Removed(n)' <=> Removed(n))
    <3>1. removals' = removals \cup {gone} /\ gone.id = id
      BY <2>1
    <3> HIDE DEF gone
    <3> QED
      BY <3>1 DEF Removed
  <2>3. \A r \in removals' : r.id < Len(issued')
    BY <1>2, <2>1 DEF StoredAsIssued
  <2>4. \A i \in 1 .. Len(issued') :
          contract'.artifacts[i] =
              IF Removed(i - 1)' THEN DeletedArtifact ELSE Stored(issued'[i])
    <3> SUFFICES ASSUME NEW i \in 1 .. Len(issued)
                 PROVE  contract'.artifacts[i] =
                            IF Removed(i - 1)' THEN DeletedArtifact ELSE Stored(issued[i])
      BY <1>2
    <3>1. i - 1 \in Nat /\ (i = id + 1 <=> i - 1 = id)
      BY <1>1
    <3> QED
      BY <1>3, <2>2, <3>1 DEF StoredAsIssued
  <2> QED
    BY <1>2, <1>3, <2>2, <2>3, <2>4 DEF StoredAsIssued, Stored
<1>5. CASE ~Exists(contract, id)
  <2>1. removals' = removals /\ contract' = contract
    BY <1>5 DEF deleteArtifact, DeleteArtifact
  <2> QED
    BY <1>2, <1>5, <2>1 DEF StoredAsIssued, Removed, Stored
<1> QED
  BY <1>4, <1>5

(***************************************************************************)
(* The storage of the contract is its history: every artifact is what was  *)
(* added under its id, or zero once its owner removed it                   *)
(* (Unilog.sol:16-57).                                                     *)
(***************************************************************************)
THEOREM StorageIsHistory == Spec => []StoredAsIssued
<1>1. Init => StoredAsIssued
  BY DEF Init, StoredAsIssued, NewContract
<1>2. TypeOK /\ StoredAsIssued /\ [Next]_vars => StoredAsIssued'
  <2> SUFFICES ASSUME TypeOK, StoredAsIssued, [Next]_vars PROVE StoredAsIssued'
    OBVIOUS
  <2>1. ASSUME NEW sender \in Address, NEW content \in Content \cup {NoContent},
               NEW validFor \in Validity, addArtifact(sender, content, validFor)
        PROVE  StoredAsIssued'
    BY <2>1, AddKeepsStored
  <2>2. ASSUME NEW sender \in Address, NEW id \in Ids, deleteArtifact(sender, id)
        PROVE  StoredAsIssued'
    BY <2>2, DeleteKeepsStored
  <2>3. ASSUME NEW sender \in Address, NEW owner \in Address \cup {NoAddress},
               assignArtifactOwner(sender, owner)
        PROVE  StoredAsIssued'
    <3>1. contract'.artifacts = contract.artifacts
      BY <2>3, AssignArtifactOwnerType DEF assignArtifactOwner, TypeOK
    <3> QED
      BY <2>3, <3>1 DEF assignArtifactOwner, StoredAsIssued, Removed, Stored
  <2>4. CASE NextBlock
    BY <2>4 DEF NextBlock, StoredAsIssued, Removed, Stored
  <2>5. CASE UNCHANGED vars
    BY <2>5 DEF vars, StoredAsIssued, Removed, Stored
  <2> QED
    BY <2>1, <2>2, <2>3, <2>4, <2>5 DEF Next
<1> QED
  BY <1>1, <1>2, TypeCorrect, PTL DEF Spec

(***************************************************************************)
(* What the owner removed stays removed (Unilog.sol:41-49).                *)
(***************************************************************************)
THEOREM RemovedForGood == Spec => []RemovedStaysRemoved
<1>1. TypeOK /\ StoredAsIssued => RemovedStaysRemoved
  <2> SUFFICES ASSUME TypeOK, StoredAsIssued, NEW r \in removals
               PROVE  Answer(r.id) = NoContent
    BY DEF RemovedStaysRemoved
  <2>1. r.id \in Nat /\ r.id < Len(issued)
    BY DEF TypeOK, Removal, StoredAsIssued
  <2>2. issued \in Seq(Issue) /\ r.id + 1 \in 1 .. Len(issued) /\ Removed((r.id + 1) - 1)
    BY <2>1 DEF TypeOK, Removed
  <2>3. contract.artifacts[r.id + 1] = DeletedArtifact
    BY <2>2 DEF StoredAsIssued
  <2>4. Exists(contract, r.id)
    BY <2>1 DEF Exists, StoredAsIssued
  <2> QED
    BY <2>3, <2>4 DEF Answer, VerifyArtifact, DeletedArtifact
<1> QED
  BY <1>1, TypeCorrect, StorageIsHistory, PTL

(***************************************************************************)
(* verifyArtifact honours the period of every artifact to the second       *)
(* (Unilog.sol:16-39).                                                     *)
(***************************************************************************)
THEOREM PeriodIsHonoured == Spec => []PeriodHonoured
<1>1. TypeOK /\ StoredAsIssued => PeriodHonoured
  <2> SUFFICES ASSUME TypeOK, StoredAsIssued, NEW id \in 0 .. Len(issued) - 1,
                      ~Removed(id),
                      issued[id + 1].at + issued[id + 1].validFor * Week < WordSize
               PROVE  Answer(id) =
                          IF \/ issued[id + 1].validFor = 0
                             \/ now < issued[id + 1].at + issued[id + 1].validFor * Week
                          THEN issued[id + 1].content ELSE Expired
    BY DEF PeriodHonoured
  <2> DEFINE e == issued[id + 1]
             ends == e.at + e.validFor * Week
  <2>1. id \in Nat /\ id + 1 \in 1 .. Len(issued) /\ (id + 1) - 1 = id
    BY DEF TypeOK
  <2>2. e \in Issue
    BY <2>1 DEF TypeOK
  <2>3. contract.artifacts[id + 1] = Stored(e) /\ Exists(contract, id)
    BY <2>1 DEF StoredAsIssued, Exists
  <2>4. Stored(e).expirationDate = ExpirationDate(e.at, e.validFor)
        /\ Stored(e).artifactAddress = e.content
    BY DEF Stored
  <2>5. CASE e.validFor = 0
    BY <2>3, <2>4, <2>5 DEF Answer, VerifyArtifact, ExpirationDate
  <2>6. CASE e.validFor # 0
    <3>1. e.at \in Nat /\ e.validFor \in Nat /\ Week \in Nat \ {0} /\ WordSize \in Nat \ {0}
      BY <2>2, WordAssumption DEF Issue
    <3>2. e.validFor * Week \in Nat \ {0}
      BY <2>6, <3>1
    <3>3. ends \in Nat /\ ends # 0 /\ ends % WordSize = ends
      <4> DEFINE at == e.at
                 period == e.validFor * Week
      <4>1. ends = at + period /\ at \in Nat /\ period \in Nat \ {0} /\ ends < WordSize
        BY <3>1, <3>2
      <4> HIDE DEF at, period, ends
      <4>2. ends \in Nat /\ ends # 0
        BY <4>1
      <4>3. ends % WordSize = ends
        BY <3>1, <4>1, <4>2, SmallModulo
      <4> QED
        BY <4>2, <4>3
    <3>4. Stored(e).expirationDate = ends
      BY <2>4, <2>6, <3>3 DEF ExpirationDate
    <3> QED
      BY <2>3, <2>4, <2>6, <3>3, <3>4 DEF Answer, VerifyArtifact
  <2> QED
    BY <2>5, <2>6
<1> QED
  BY <1>1, TypeCorrect, StorageIsHistory, PTL

(***************************************************************************)
(* An answer only decays (Unilog.sol:16-49).                               *)
(***************************************************************************)
THEOREM OnlyDecay == Spec => AnswersOnlyDecay
<1> DEFINE Decays(id) == \/ Answer(id)' = Answer(id)
                         \/ Answer(id) = Fictional
                         \/ Answer(id)' = Expired /\ ~Removed(id)'
                         \/ Answer(id)' = NoContent /\ Removed(id)'
<1>1. TypeOK /\ StoredAsIssued /\ StoredAsIssued' /\ TypeOK' /\ [Next]_vars
          => [\A id \in Ids : Decays(id)]_vars
  <2> SUFFICES ASSUME TypeOK, StoredAsIssued, StoredAsIssued', TypeOK', Next,
                      NEW id \in Ids
               PROVE  Decays(id)
    OBVIOUS
  <2>1. id \in Nat
    BY BoundAssumption DEF Ids
  <2>2. ASSUME NEW sender \in Address, NEW content \in Content \cup {NoContent},
               NEW validFor \in Validity, addArtifact(sender, content, validFor)
        PROVE  Decays(id)
    <3>1. CASE ~Exists(contract, id)
      BY <3>1 DEF Answer, VerifyArtifact
    <3>2. CASE Exists(contract, id)
      <4>1. validFor \in Nat
        BY ValidityAssumption
      <4>2. contract.artifacts \in Seq(Artifact) /\ id + 1 \in 1 .. Len(contract.artifacts)
        BY <2>1, <3>2 DEF TypeOK, Contract, Exists
      <4>3. Exists(contract, id)' /\ contract'.artifacts[id + 1] = contract.artifacts[id + 1]
            /\ now' = now
        <5> DEFINE new == [artifactAddress |-> content, active |-> TRUE,
                           expirationDate |-> ExpirationDate(now, validFor)]
        <5>1. now' = now /\ contract \in Contract /\ now \in Nat
              /\ contract' = AddArtifact(contract, now, content, validFor)
          BY <2>2 DEF addArtifact, TypeOK
        <5>2. contract'.artifacts = Append(contract.artifacts, new)
          BY <4>1, <5>1, AddArtifactType
        <5> HIDE DEF new
        <5>3. /\ Len(contract'.artifacts) = Len(contract.artifacts) + 1
              /\ contract'.artifacts[id + 1] = contract.artifacts[id + 1]
          BY <4>2, <5>2
        <5> QED
          BY <2>1, <3>2, <4>2, <5>1, <5>3 DEF Exists
      <4> QED
        BY <3>2, <4>3 DEF Answer, VerifyArtifact, Exists
    <3> QED
      BY <3>1, <3>2
  <2>3. ASSUME NEW sender \in Address, NEW gone \in Ids, deleteArtifact(sender, gone)
        PROVE  Decays(id)
    <3>1. gone \in Nat
      BY BoundAssumption DEF Ids
    <3>2. now' = now /\ contract \in Contract /\ contract.artifacts \in Seq(Artifact)
      BY <2>3 DEF deleteArtifact, TypeOK, Contract
    <3>3. /\ Len(contract'.artifacts) = Len(contract.artifacts)
          /\ \A i \in 1 .. Len(contract.artifacts) :
                 contract'.artifacts[i] =
                     IF i = gone + 1 THEN DeletedArtifact ELSE contract.artifacts[i]
      BY <2>3, <3>1, <3>2, DeleteArtifactType DEF deleteArtifact
    <3>4. CASE ~Exists(contract, id)
      BY <3>4 DEF Answer, VerifyArtifact
    <3>5. CASE Exists(contract, id) /\ id # gone
      <4>1. id + 1 \in 1 .. Len(contract.artifacts) /\ id + 1 # gone + 1
        BY <2>1, <3>1, <3>2, <3>5 DEF Exists
      <4>2. contract'.artifacts[id + 1] = contract.artifacts[id + 1] /\ Exists(contract, id)'
        BY <3>3, <3>5, <4>1 DEF Exists
      <4> QED
        BY <3>2, <3>5, <4>2 DEF Answer, VerifyArtifact, Exists
    <3>6. CASE Exists(contract, id) /\ id = gone
      <4>1. Removed(id)'
        BY <2>3, <3>6, DeleteKeepsStored
      <4>2. id + 1 \in 1 .. Len(contract.artifacts)
        BY <2>1, <3>2, <3>6 DEF Exists
      <4>3. contract'.artifacts[id + 1] = DeletedArtifact /\ Exists(contract, id)'
        BY <3>3, <3>6, <4>2 DEF Exists
      <4>4. Answer(id)' = NoContent
        BY <4>3 DEF Answer, VerifyArtifact, DeletedArtifact, Exists
      <4> QED
        BY <4>1, <4>4
    <3> QED
      BY <3>4, <3>5, <3>6
  <2>4. ASSUME NEW sender \in Address, NEW owner \in Address \cup {NoAddress},
               assignArtifactOwner(sender, owner)
        PROVE  Decays(id)
    <3>1. contract'.artifacts = contract.artifacts /\ now' = now
      BY <2>4, AssignArtifactOwnerType DEF assignArtifactOwner, TypeOK
    <3> QED
      BY <3>1 DEF Answer, VerifyArtifact, Exists
  <2>5. CASE NextBlock
    <3>1. contract' = contract /\ removals' = removals /\ issued' = issued
      BY <2>5 DEF NextBlock
    <3>2. CASE ~Exists(contract, id)
      BY <3>2 DEF Answer, VerifyArtifact
    <3>3. CASE Exists(contract, id)
      <4> DEFINE a == contract.artifacts[id + 1]
      <4>1. Answer(id)' = IF a.expirationDate = 0 \/ now' < a.expirationDate
                          THEN a.artifactAddress ELSE Expired
        BY <3>1, <3>3 DEF Answer, VerifyArtifact, Exists
      <4>2. CASE a.expirationDate = 0
        BY <3>3, <4>1, <4>2 DEF Answer, VerifyArtifact
      <4>3. CASE a.expirationDate # 0
        <5>1. id + 1 \in 1 .. Len(issued) /\ (id + 1) - 1 = id
          BY <2>1, <3>3 DEF TypeOK, StoredAsIssued, Exists
        <5>2. ~Removed(id)
          BY <4>3, <5>1 DEF StoredAsIssued, DeletedArtifact
        <5>3. ~Removed(id)'
          BY <3>1, <5>2 DEF Removed
        <5>4. a.expirationDate \in Nat /\ now \in Nat /\ now' = now + 1
          <6>1. contract.artifacts \in Seq(Artifact) /\ id + 1 \in 1 .. Len(contract.artifacts)
            BY <5>1 DEF TypeOK, Contract, StoredAsIssued
          <6>2. a \in Artifact
            BY <6>1
          <6> QED
            BY <2>5, <6>2, WordAssumption DEF Artifact, Word, NextBlock, TypeOK
        <5>5. now' < a.expirationDate => now < a.expirationDate
          BY <5>4
        <5> QED
          BY <3>3, <4>1, <4>3, <5>3, <5>5 DEF Answer, VerifyArtifact
      <4> QED
        BY <4>2, <4>3
    <3> QED
      BY <3>2, <3>3
  <2> QED
    BY <2>2, <2>3, <2>4, <2>5 DEF Next
<1>2. [][TypeOK /\ StoredAsIssued /\ StoredAsIssued' /\ TypeOK' /\ [Next]_vars]_vars
          => AnswersOnlyDecay
  BY <1>1, PTL DEF AnswersOnlyDecay
<1> QED
  BY <1>2, TypeCorrect, StorageIsHistory, PTL DEF Spec

-----------------------------------------------------------------------------

(***************************************************************************)
(* What the tested contract is sent is a run of the deployed one, so that  *)
(* everything proved about UserContract holds here: the transactions       *)
(* verifyArtifact of the tests leave the deployed contract alone           *)
(* (Unilog.sol:16-57, UnilogTestVersion.sol:16-61).                        *)
(***************************************************************************)
THEOREM TwinsAreOneContract == TwinSpec => Spec
<1>1. TwinInit => Init
  BY DEF TwinInit
<1>2. [TwinNext]_twinVars => [Next]_vars
  <2> SUFFICES ASSUME [TwinNext]_twinVars PROVE [Next]_vars
    OBVIOUS
  <2>1. ASSUME NEW sender \in Address, NEW content \in Content \cup {NoContent},
               NEW validFor \in Validity, TwinAdd(sender, content, validFor)
        PROVE  Next
    BY <2>1 DEF TwinAdd, Next
  <2>2. ASSUME NEW sender \in Address, NEW id \in Ids, TwinDelete(sender, id)
        PROVE  Next
    BY <2>2 DEF TwinDelete, Next
  <2>3. ASSUME NEW sender \in Address, NEW owner \in Address \cup {NoAddress},
               TwinAssign(sender, owner)
        PROVE  Next
    BY <2>3 DEF TwinAssign, Next
  <2>4. ASSUME NEW id \in Ids, TwinVerify(id)
        PROVE  UNCHANGED vars
    BY <2>4 DEF TwinVerify
  <2>5. CASE TwinBlock
    BY <2>5 DEF TwinBlock, Next
  <2>6. CASE UNCHANGED twinVars
    BY <2>6 DEF twinVars
  <2> QED
    BY <2>1, <2>2, <2>3, <2>4, <2>5, <2>6 DEF TwinNext
<1> QED
  BY <1>1, <1>2, PTL DEF TwinSpec, Spec

-----------------------------------------------------------------------------
\* Artifact b of the tested contract stands for artifact a of the deployed one.
Counterpart(a, b) ==
    /\ b.artifactAddress = a.artifactAddress
    /\ b.expirationDate = a.expirationDate
    /\ b.active \/ RunsOut(b, now)

\* The inductive invariant: artifacts are counterparts until they are removed.
Alike ==
    /\ twin \in Contract
    /\ Len(twin.artifacts) = Len(contract.artifacts)
    /\ \A i \in 1 .. Len(contract.artifacts) :
           ~Removed(i - 1) => Counterpart(contract.artifacts[i], twin.artifacts[i])

(***************************************************************************)
(* The expiration date of an artifact in storage is a number (Unilog.sol:  *)
(* 8-14).                                                                  *)
(***************************************************************************)
LEMMA StoredDate ==
    ASSUME NEW c \in Contract, NEW i \in 1 .. Len(c.artifacts)
    PROVE  c.artifacts[i].expirationDate \in Nat
<1>1. c.artifacts[i] \in Artifact
  BY DEF Contract
<1>2. Word \subseteq Nat
  BY WordAssumption DEF Word
<1> QED
  BY <1>1, <1>2 DEF Artifact

(***************************************************************************)
(* A verifyArtifact transaction of the tested contract writes at most the  *)
(* flag of the artifact it is asked for, and only when its period is over  *)
(* (UnilogTestVersion.sol:28-44).                                          *)
(***************************************************************************)
LEMMA TestedVerify ==
    ASSUME NEW c \in Contract, NEW id \in Nat, NEW t \in Nat
    PROVE  LET d == AfterVerifyTestArtifact(c, t, id)
           IN  /\ d \in Contract
               /\ Len(d.artifacts) = Len(c.artifacts)
               /\ \A i \in 1 .. Len(c.artifacts) :
                      /\ d.artifacts[i].artifactAddress = c.artifacts[i].artifactAddress
                      /\ d.artifacts[i].expirationDate = c.artifacts[i].expirationDate
                      /\ d.artifacts[i].active = c.artifacts[i].active \/ RunsOut(c.artifacts[i], t)
<1> DEFINE d == AfterVerifyTestArtifact(c, t, id)
<1>1. CASE Exists(c, id) /\ c.artifacts[id + 1].active /\ RunsOut(c.artifacts[id + 1], t)
  <2> DEFINE old == c.artifacts[id + 1]
             new == [old EXCEPT !.active = FALSE]
             s   == [c.artifacts EXCEPT ![id + 1] = new]
  <2>1. id + 1 \in 1 .. Len(c.artifacts)
    BY <1>1 DEF Exists, Contract
  <2>2. old \in Artifact
    BY <2>1 DEF Contract
  <2>3. /\ new \in Artifact
        /\ new.artifactAddress = old.artifactAddress
        /\ new.expirationDate = old.expirationDate
    BY <2>2 DEF Artifact
  <2>4. s \in Seq(Artifact) /\ Len(s) = Len(c.artifacts)
    BY <2>1, <2>3 DEF Contract
  <2>5. d = [c EXCEPT !.artifacts = s]
    BY <1>1 DEF AfterVerifyTestArtifact
  <2>6. d \in Contract /\ d.artifacts = s
    BY <2>4, <2>5 DEF Contract
  <2>7. \A i \in 1 .. Len(c.artifacts) :
            s[i] = IF i = id + 1 THEN new ELSE c.artifacts[i]
    BY <2>1 DEF Contract
  <2>8. RunsOut(old, t)
    BY <1>1
  <2> QED
    BY <2>3, <2>4, <2>6, <2>7, <2>8
<1>2. CASE ~(Exists(c, id) /\ c.artifacts[id + 1].active /\ RunsOut(c.artifacts[id + 1], t))
  <2>1. d = c
    BY <1>2 DEF AfterVerifyTestArtifact
  <2> QED
    BY <2>1
<1> QED
  BY <1>1, <1>2

(***************************************************************************)
(* Every artifact that was not removed has its counterpart in the tested   *)
(* contract, whose flag is cleared only after the period (Unilog.sol:16-49,*)
(* UnilogTestVersion.sol:16-53).                                           *)
(***************************************************************************)
THEOREM TwinsStayAlike == TwinSpec => []Alike
<1>1. TwinInit => Alike
  BY UnilogAssumption DEF TwinInit, Init, Alike, NewContract, Contract
<1>2. TypeOK /\ Alike /\ [TwinNext]_twinVars => Alike'
  <2> SUFFICES ASSUME TypeOK, Alike, [TwinNext]_twinVars PROVE Alike'
    OBVIOUS
  <2>c. contract \in Contract /\ twin \in Contract /\ now \in Nat
    BY DEF TypeOK, Alike
  <2>n. Len(contract.artifacts) \in Nat /\ contract.artifacts \in Seq(Artifact)
        /\ twin.artifacts \in Seq(Artifact)
    BY <2>c DEF Contract
  <2>1. ASSUME NEW sender \in Address, NEW content \in Content \cup {NoContent},
               NEW validFor \in Validity, TwinAdd(sender, content, validFor)
        PROVE  Alike'
    <3> DEFINE new == [artifactAddress |-> content, active |-> TRUE,
                       expirationDate |-> ExpirationDate(now, validFor)]
    <3>1. validFor \in Nat
      BY ValidityAssumption
    <3>2. /\ contract'.artifacts = Append(contract.artifacts, new)
          /\ removals' = removals /\ now' = now
      BY <2>1, <2>c, <3>1, AddArtifactType DEF TwinAdd, addArtifact
    <3>3. twin' \in Contract /\ twin'.artifacts = Append(twin.artifacts, new)
      BY <2>1, <2>c, <3>1, AddArtifactType DEF TwinAdd
    <3>4. new.active
      OBVIOUS
    <3>5. Len(contract'.artifacts) = Len(contract.artifacts) + 1
          /\ Len(twin'.artifacts) = Len(contract.artifacts) + 1
      BY <2>n, <3>2, <3>3 DEF Alike
    <3>6. ASSUME NEW i \in 1 .. Len(contract'.artifacts), ~Removed(i - 1)'
          PROVE  Counterpart(contract.artifacts[i], twin.artifacts[i])'
      <4>1. ~Removed(i - 1)
        BY <3>2, <3>6 DEF Removed
      <4>2. CASE i = Len(contract.artifacts) + 1
        <5>1. contract'.artifacts[i] = new /\ twin'.artifacts[i] = new
          BY <2>n, <3>2, <3>3, <4>2 DEF Alike
        <5> QED
          BY <3>4, <5>1 DEF Counterpart
      <4>3. CASE i # Len(contract.artifacts) + 1
        <5>1. i \in 1 .. Len(contract.artifacts)
          BY <2>n, <3>5, <4>3
        <5>2. /\ contract'.artifacts[i] = contract.artifacts[i]
              /\ twin'.artifacts[i] = twin.artifacts[i]
          BY <2>n, <3>2, <3>3, <5>1 DEF Alike
        <5>3. Counterpart(contract.artifacts[i], twin.artifacts[i])
          BY <4>1, <5>1 DEF Alike
        <5> QED
          BY <3>2, <5>2, <5>3 DEF Counterpart, RunsOut
      <4> QED
        BY <4>2, <4>3
    <3> QED
      BY <3>3, <3>5, <3>6 DEF Alike
  <2>2. ASSUME NEW sender \in Address, NEW id \in Ids, TwinDelete(sender, id)
        PROVE  Alike'
    <3>1. id \in Nat
      BY BoundAssumption DEF Ids
    <3>2. /\ Len(contract'.artifacts) = Len(contract.artifacts)
          /\ \A i \in 1 .. Len(contract.artifacts) :
                 contract'.artifacts[i] =
                     IF i = id + 1 THEN DeletedArtifact ELSE contract.artifacts[i]
      BY <2>2, <2>c, <3>1, DeleteArtifactType DEF TwinDelete, deleteArtifact
    <3>3. /\ twin' \in Contract
          /\ Len(twin'.artifacts) = Len(contract.artifacts)
          /\ \A i \in 1 .. Len(contract.artifacts) :
                 twin'.artifacts[i] = IF i = id + 1 THEN DeletedArtifact ELSE twin.artifacts[i]
      BY <2>2, <2>c, <3>1, DeleteArtifactType DEF TwinDelete, Alike
    <3>4. ASSUME NEW i \in 1 .. Len(contract.artifacts), ~Removed(i - 1)'
          PROVE  Counterpart(contract.artifacts[i], twin.artifacts[i])'
      <4>1. ~Removed(i - 1)
        BY <2>2, <3>4 DEF Removed, TwinDelete, deleteArtifact
      <4>2. i # id + 1
        <5> SUFFICES ASSUME i = id + 1 PROVE Removed(i - 1)'
          BY <3>4
        <5>1. Exists(contract, id) /\ i - 1 = id
          BY <2>n, <3>1 DEF Exists
        <5>2. [id |-> id, by |-> sender] \in removals'
          BY <2>2, <5>1 DEF TwinDelete, deleteArtifact
        <5> QED
          BY <5>1, <5>2 DEF Removed
      <4>3. Counterpart(contract.artifacts[i], twin.artifacts[i])
        BY <4>1 DEF Alike
      <4>4. now' = now
        BY <2>2 DEF TwinDelete, deleteArtifact
      <4> QED
        BY <3>2, <3>3, <4>2, <4>3, <4>4 DEF Counterpart, RunsOut
    <3> QED
      BY <3>2, <3>3, <3>4 DEF Alike
  <2>3. ASSUME NEW sender \in Address, NEW owner \in Address \cup {NoAddress},
               TwinAssign(sender, owner)
        PROVE  Alike'
    <3>1. contract'.artifacts = contract.artifacts /\ removals' = removals /\ now' = now
      BY <2>3, <2>c, AssignArtifactOwnerType DEF TwinAssign, assignArtifactOwner
    <3>2. twin' \in Contract /\ twin'.artifacts = twin.artifacts
      BY <2>3, <2>c, AssignArtifactOwnerType DEF TwinAssign
    <3> QED
      BY <3>1, <3>2 DEF Alike, Counterpart, RunsOut, Removed
  <2>4. ASSUME NEW id \in Ids, TwinVerify(id)
        PROVE  Alike'
    <3>1. id \in Nat
      BY BoundAssumption DEF Ids
    <3>2. contract' = contract /\ removals' = removals /\ now' = now
      BY <2>4 DEF TwinVerify, vars
    <3>3. /\ twin' \in Contract
          /\ Len(twin'.artifacts) = Len(twin.artifacts)
          /\ \A i \in 1 .. Len(twin.artifacts) :
                 /\ twin'.artifacts[i].artifactAddress = twin.artifacts[i].artifactAddress
                 /\ twin'.artifacts[i].expirationDate = twin.artifacts[i].expirationDate
                 /\ \/ twin'.artifacts[i].active = twin.artifacts[i].active
                    \/ RunsOut(twin.artifacts[i], now)
      BY <2>4, <2>c, <3>1, TestedVerify DEF TwinVerify
    <3>4. ASSUME NEW i \in 1 .. Len(contract.artifacts), ~Removed(i - 1)'
          PROVE  Counterpart(contract.artifacts[i], twin.artifacts[i])'
      <4>1. Counterpart(contract.artifacts[i], twin.artifacts[i])
        BY <3>2, <3>4 DEF Alike, Removed
      <4> QED
        BY <3>2, <3>3, <4>1 DEF Counterpart, RunsOut, Alike
    <3> QED
      BY <3>2, <3>3, <3>4 DEF Alike
  <2>5. CASE TwinBlock
    <3>1. /\ contract' = contract /\ removals' = removals /\ twin' = twin
          /\ now' = now + 1
      BY <2>5 DEF TwinBlock, NextBlock
    <3>2. ASSUME NEW i \in 1 .. Len(contract.artifacts), ~Removed(i - 1)'
          PROVE  Counterpart(contract.artifacts[i], twin.artifacts[i])'
      <4>1. Counterpart(contract.artifacts[i], twin.artifacts[i])
        BY <3>1, <3>2 DEF Alike, Removed
      <4>2. twin.artifacts[i].expirationDate \in Nat
        BY <2>c, StoredDate DEF Alike
      <4>3. RunsOut(twin.artifacts[i], now) => RunsOut(twin.artifacts[i], now + 1)
        BY <2>c, <4>2 DEF RunsOut
      <4> QED
        BY <3>1, <4>1, <4>3 DEF Counterpart
    <3> QED
      BY <3>1, <3>2 DEF Alike
  <2>6. CASE UNCHANGED twinVars
    BY <2>6 DEF twinVars, vars, Alike, Counterpart, RunsOut, Removed
  <2> QED
    BY <2>1, <2>2, <2>3, <2>4, <2>5, <2>6 DEF TwinNext
<1> QED
  BY <1>1, <1>2, TwinsAreOneContract, TypeCorrect, PTL DEF TwinSpec

(***************************************************************************)
(* The tests see what the deployed contract answers, for every artifact    *)
(* that was not removed (Unilog.sol:28-39, UnilogTestVersion.sol:28-44).   *)
(***************************************************************************)
THEOREM TestsSeeTheAnswer == TwinSpec => []AgreeUnlessRemoved
<1>1. TypeOK /\ Alike => AgreeUnlessRemoved
  <2> SUFFICES ASSUME TypeOK, Alike, NEW id \in Ids, ~Removed(id)
               PROVE  Answer(id) = TestAnswer(id)
    BY DEF AgreeUnlessRemoved
  <2>1. id \in Nat /\ now \in Nat /\ contract \in Contract /\ twin \in Contract
    BY BoundAssumption DEF Ids, TypeOK, Alike
  <2>2. CASE Exists(contract, id)
    <3>1. id + 1 \in 1 .. Len(contract.artifacts) /\ (id + 1) - 1 = id
      BY <2>1, <2>2 DEF Exists, Contract
    <3>2. Counterpart(contract.artifacts[id + 1], twin.artifacts[id + 1])
      BY <3>1 DEF Alike
    <3>3. Exists(twin, id)
      BY <2>2 DEF Exists, Alike
    <3>4. twin.artifacts[id + 1].expirationDate \in Nat
      BY <2>1, <3>1, StoredDate DEF Alike
    <3> QED
      BY <2>1, <2>2, <3>2, <3>3, <3>4
      DEF Answer, TestAnswer, VerifyArtifact, VerifyTestArtifact, Counterpart, RunsOut
  <2>3. CASE ~Exists(contract, id)
    BY <2>3 DEF Answer, TestAnswer, VerifyArtifact, VerifyTestArtifact, Exists, Alike
  <2> QED
    BY <2>2, <2>3
<1> QED
  BY <1>1, TwinsAreOneContract, TypeCorrect, TwinsStayAlike, PTL
=============================================================================
