----------------------------- MODULE MCOwnerApp ------------------------------
(* OwnerApp on a small instance: two tokens of two owners, whose period    *)
(* ends with the first block; one user has both owners' accounts.          *)
EXTENDS OwnerApp, TLC

CONSTANTS registrar, student1, student2, doc1, doc2, nobody, c1, c2

MCAddress == {registrar, student1, student2}
MCContent == {doc1, doc2}
MCDeployed == {c1, c2}
MCAccount == {student1, student2}
MCOwnerOf == c1 :> student1 @@ c2 :> student2
MCDocOf == c1 :> doc1 @@ c2 :> doc2

\* A session that was left with a contract in the second account.
MCInit ==
    /\ AppInit
    /\ accounts[student1].contractAddress = None
    /\ accounts[student2].contractAddress = c2

(* A behaviour goes on either with the verifier's page or with the         *)
(* accounts and records, not with both: these share the routes and the     *)
(* chain, and no state of the page.  The registry matters to the verifier. *)
OneHalf ==
    \/ /\ visit = 1 /\ registry.repository = {}
       /\ now = 0 \/ \A c \in Deployed : world[c].artifacts[1].active
    \/ /\ path \in {Page("overview"), PageOf("verifier", student1)}
       /\ selected = student1 /\ active = student1
       /\ uses = 0 /\ modal = "none" /\ faults = 0

MCSpec == MCInit /\ [][AppNext]_<<vars, appVars>>
=============================================================================
