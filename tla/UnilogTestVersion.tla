-------------------------- MODULE UnilogTestVersion --------------------------
(***************************************************************************)
(* UnilogTestVersion.sol, the contract the unit tests of the user contract *)
(* run against, as far as it differs from Unilog.sol: its verifyArtifact   *)
(* looks at the flag active and is a transaction that may clear it.  The   *)
(* unit of validFor (a second there, a week here) is the constant Week of  *)
(* both.                                                                   *)
(***************************************************************************)
EXTENDS UnilogContract

RunsOut(artifact, now) ==
    artifact.expirationDate # 0 /\ now >= artifact.expirationDate

VerifyTestArtifact(c, now, id) ==
    IF ~Exists(c, id) THEN Fictional
    ELSE LET current == c.artifacts[id + 1]
         IN  IF current.active /\ ~RunsOut(current, now)
             THEN current.artifactAddress
             ELSE Expired

\* Mutant: the first look makes an artifact inactive, expired or not.
AfterFirstVerify(c, now, id) ==
    IF Exists(c, id) THEN [c EXCEPT !.artifacts[id + 1].active = FALSE] ELSE c

\* What a verifyArtifact transaction leaves behind.
AfterVerifyTestArtifact(c, now, id) ==
    IF Exists(c, id) /\ c.artifacts[id + 1].active /\ RunsOut(c.artifacts[id + 1], now)
    THEN [c EXCEPT !.artifacts[id + 1].active = FALSE]
    ELSE c
=============================================================================
