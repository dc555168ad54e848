------------------------ MODULE MCTransactionClient -------------------------
(* TransactionClient on small instances.  The two threads are symmetric    *)
(* (safety runs only): nothing in the client tells request threads apart.  *)
EXTENDS TransactionClient, TLC

CONSTANTS t1, t2, deploy, addArtifact, low, high, stranger

MCThread == {t1, t2}
MCPayload == {deploy, addArtifact}
MCGasPrice == {low, high}
MCOnePrice == {low}
MCForeign == {stranger}
MCSymmetry == Permutations(MCThread)
=============================================================================
