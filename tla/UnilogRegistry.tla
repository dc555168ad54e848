--------------------------- MODULE UnilogRegistry ---------------------------
(***************************************************************************)
(* The registry contract UnilogRegistry.sol as a value: its owner and the  *)
(* addresses its mapping sends to true.  As in UnilogContract, the         *)
(* modifier onlyBy is the guard of the step that calls.                    *)
(***************************************************************************)
NewRegistry(sender) == [owner |-> sender, repository |-> {}]

AddContract(r, address) == [r EXCEPT !.repository = @ \cup {address}]

DisableContract(r, address) == [r EXCEPT !.repository = @ \ {address}]

RegistryContains(r, address) == address \in r.repository
=============================================================================
