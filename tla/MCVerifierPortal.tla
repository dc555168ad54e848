-------------------------- MODULE MCVerifierPortal ---------------------------
(* VerifierPortal on a small instance: two tokens of two owners, whose     *)
(* period ends with the first block.                                       *)
EXTENDS VerifierPortal, TLC

CONSTANTS registrar, student1, student2, doc1, doc2, nobody, c1, c2

MCAddress == {registrar, student1, student2}
MCContent == {doc1, doc2}
MCDeployed == {c1, c2}
MCOwnerOf == c1 :> student1 @@ c2 :> student2
MCDocOf == c1 :> doc1 @@ c2 :> doc2
=============================================================================
