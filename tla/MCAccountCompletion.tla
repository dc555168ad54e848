------------------------ MODULE MCAccountCompletion --------------------------
(* AccountCompletion on small instances: two users, whose transcripts      *)
(* differ or, in some runs, one of whom has none in the database.          *)
EXTENDS AccountCompletion, TLC

CONSTANTS t1, t2, doc1, doc2, student, registrar, nobody

MCThread == {t1, t2}
MCOneThread == {t1}
MCUser == {1, 2}
MCOneUser == {1}
MCAddress == {student, registrar}
MCContent == {doc1, doc2}
MCOneAccount == {student}
MCDocs == 1 :> doc1 @@ 2 :> doc2
MCDoc == 1 :> doc1
MCOneDoc == 1 :> doc1 @@ 2 :> ""
MCSymmetry == Permutations(MCThread)
=============================================================================
