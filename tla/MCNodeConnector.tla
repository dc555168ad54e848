--------------------------- MODULE MCNodeConnector ---------------------------
(* NodeConnector with limits of two and three rounds.                      *)
EXTENDS NodeConnector
=============================================================================
