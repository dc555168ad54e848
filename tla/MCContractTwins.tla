--------------------------- MODULE MCContractTwins ---------------------------
(* Both contracts on a small instance: a word of 16 values and a week of 2 *)
(* seconds, so that the block time reaches both ends of a period and some  *)
(* sums wrap around.                                                       *)
EXTENDS ContractTwins

CONSTANTS student, stranger, registrar, nobody, doc1, doc2

MCAddress == {student, stranger, registrar}
MCContent == {doc1, doc2}
MCValidity == {0, 1, 7}
=============================================================================
