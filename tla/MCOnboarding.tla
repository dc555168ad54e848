---------------------------- MODULE MCOnboarding -----------------------------
(* Onboarding on small instances: a student, and a university whose        *)
(* address is also the login of the configuration.  Two passwords are      *)
(* strong enough, so that activations may differ in theirs.  Threads are   *)
(* symmetric, and so are the accounts.                                     *)
EXTENDS Onboarding, TLC

CONSTANTS t1, t2, anna, qub, x, y

MCThread == {t1, t2}
MCEmail == {anna, qub}
MCAccount == {x, y}
Strong == [length |-> 8, has |-> Required]
Longer == [length |-> 9, has |-> Required]
Short == [length |-> 7, has |-> Required]
MCPassword == {Strong, Longer, Short}
MCUpload == {<<>>, <<anna>>, <<anna, qub>>}
MCPredefined == {qub}
MCSymmetry == Permutations(MCThread) \cup Permutations(MCAccount)
=============================================================================
