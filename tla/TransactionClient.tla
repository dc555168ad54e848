-------------------------- MODULE TransactionClient --------------------------
(***************************************************************************)
(* The Ethereum client every service of the application sends its          *)
(* transactions through: Client.java with its ClientListenerAdapter.java.  *)
(*                                                                         *)
(* A request thread reads the nonce of Unilog's account from the node's    *)
(* best block, signs and submits the transaction, and then polls the map   *)
(* receivedTransactions until the receipt is there, which it removes.  The *)
(* node imports blocks and hands their receipts to the listener, which     *)
(* puts them into the map, on a thread of its own.                         *)
(*                                                                         *)
(* The network and the node (EthereumJ) are external.  Of the network's    *)
(* chain only the transactions of Unilog's account matter: the one with    *)
(* nonce n is element n + 1.  Signing is deterministic, so a transaction   *)
(* is its own hash.                                                        *)
(***************************************************************************)
EXTENDS Naturals, Sequences, SequencesExt

CONSTANTS
    Thread,      \* the request threads of the web application
    Payload,     \* recipient, value and data of a transaction
    GasPrice,    \* the prices the node may quote
    Foreign,     \* transactions of other accounts
    NoTx,        \* "no transaction"
    MaxPast,     \* bound: transactions Unilog sent before this start
    MaxNonce,    \* bound: no transaction is built from this nonce on
    OneAtATime,  \* TRUE: nobody calls while another call is in progress
    AfterSync    \* TRUE: nobody calls before the client is listening and in sync

Transaction == [nonce : Nat, gasPrice : GasPrice, data : Payload]

ASSUME NoTxAssumption    == NoTx \notin Transaction \cup Payload
ASSUME ForeignAssumption == Foreign \cap (Transaction \cup {NoTx}) = {}
ASSUME BoundAssumption   == MaxPast \in Nat /\ MaxNonce \in Nat
ASSUME ModeAssumption    == OneAtATime \in BOOLEAN /\ AfterSync \in BOOLEAN

VARIABLES
    boot,      \* how far Client.start() has come
    pc,        \* where each thread is in sendTransaction
    tx,        \* the transaction each thread has built
    submitted, \* what the network has been given to mine
    chain,     \* the mined transactions of Unilog's account, by nonce
    imported,  \* how many of them are in the blocks this node has imported
    events,    \* receipts on their way to the listener's onBlock
    receivedTransactions,  \* the listener's map, as the set of its keys
    returned,  \* history: the transactions each thread's calls returned
    deaf       \* history: how many were imported when the listener was added

vars == <<boot, pc, tx, submitted, chain, imported, events,
          receivedTransactions, returned, deaf>>

TypeOK ==
    /\ boot \in {"down", "created", "adapter", "listening"}
    /\ pc \in [Thread -> {"idle", "submit", "poll", "remove"}]
    /\ tx \in [Thread -> Transaction \cup {NoTx}]
    /\ submitted \subseteq Transaction
    /\ chain \in Seq(Transaction)
    /\ imported \in 0 .. Len(chain)
    /\ events \in Seq(Transaction)
    /\ receivedTransactions \subseteq Transaction \cup Foreign
    /\ returned \in [Thread -> Seq(Transaction)]
    /\ deaf \in 0 .. imported

\* The node starts with an empty database; the account may have a past.
Init ==
    /\ boot = "down"
    /\ pc = [t \in Thread |-> "idle"]
    /\ tx = [t \in Thread |-> NoTx]
    /\ submitted = {}
    /\ \E past \in 0 .. MaxPast, price \in GasPrice, data \in [0 .. MaxPast -> Payload] :
           chain = [i \in 1 .. past |->
                       [nonce |-> i - 1, gasPrice |-> price, data |-> data[i]]]
    /\ imported = 0
    /\ events = <<>>
    /\ receivedTransactions = {}
    /\ returned = [t \in Thread |-> <<>>]
    /\ deaf = 0

-----------------------------------------------------------------------------
\* Client.start(), on the client's own thread.

CreateEthereum ==
    /\ boot = "down"
    /\ boot' = "created"
    /\ UNCHANGED <<pc, tx, submitted, chain, imported, events, receivedTransactions, returned, deaf>>

CreateAdapter ==
    /\ boot = "created"
    /\ boot' = "adapter"
    /\ UNCHANGED <<pc, tx, submitted, chain, imported, events, receivedTransactions, returned, deaf>>

AddListener ==
    /\ boot = "adapter"
    /\ boot' = "listening"
    /\ deaf' = imported
    /\ UNCHANGED <<pc, tx, submitted, chain, imported, events, receivedTransactions, returned>>

-----------------------------------------------------------------------------
\* Client.sendTransaction(), on a request thread.

\* When the callers leave each other room, and wait for the client.
MayCall ==
    /\ imported < MaxNonce
    /\ OneAtATime => \A u \in Thread : pc[u] = "idle"
    /\ AfterSync => boot = "listening" /\ imported = Len(chain)

\* Mutant: the nonce as it was before the best block.
ReadNonceStale(t, data) ==
    /\ pc[t] = "idle" /\ MayCall
    /\ boot # "down"
    /\ \E price \in GasPrice :
           tx' = [tx EXCEPT ![t] = [nonce |-> IF imported = 0 THEN 0 ELSE imported - 1, gasPrice |-> price, data |-> data]]
    /\ pc' = [pc EXCEPT ![t] = "submit"]
    /\ UNCHANGED <<boot, submitted, chain, imported, events, receivedTransactions, returned, deaf>>

\* The nonce is read from the best block, whatever is pending; then sign.
\* Before the node exists the call fails and nothing has happened.
ReadNonce(t, data) ==
    /\ pc[t] = "idle" /\ MayCall
    /\ boot # "down"
    /\ \E price \in GasPrice :
           tx' = [tx EXCEPT ![t] = [nonce |-> imported, gasPrice |-> price, data |-> data]]
    /\ pc' = [pc EXCEPT ![t] = "submit"]
    /\ UNCHANGED <<boot, submitted, chain, imported, events, receivedTransactions, returned, deaf>>

Submit(t) ==
    /\ pc[t] = "submit"
    /\ submitted' = submitted \cup {tx[t]}
    /\ pc' = [pc EXCEPT ![t] = "poll"]
    /\ UNCHANGED <<boot, tx, chain, imported, events, receivedTransactions, returned, deaf>>

\* There is no listener object to ask yet: the call ends in an exception,
\* the transaction stays submitted.
PollTooEarly(t) ==
    /\ pc[t] = "poll"
    /\ boot = "created"
    /\ pc' = [pc EXCEPT ![t] = "idle"]
    /\ tx' = [tx EXCEPT ![t] = NoTx]
    /\ UNCHANGED <<boot, submitted, chain, imported, events, receivedTransactions, returned, deaf>>

\* Mutant: nobody looks into the map.
FindAnything(t) ==
    /\ pc[t] = "poll"
    /\ boot \in {"adapter", "listening"}
    /\ pc' = [pc EXCEPT ![t] = "remove"]
    /\ UNCHANGED <<boot, tx, submitted, chain, imported, events, receivedTransactions, returned, deaf>>

\* hasTransactionBeenMined: get and remove are two calls on the map.  When
\* get finds nothing the thread sleeps and asks again: no state changes.
FindReceipt(t) ==
    /\ pc[t] = "poll"
    /\ boot \in {"adapter", "listening"}
    /\ tx[t] \in receivedTransactions
    /\ pc' = [pc EXCEPT ![t] = "remove"]
    /\ UNCHANGED <<boot, tx, submitted, chain, imported, events, receivedTransactions, returned, deaf>>

RemoveReceipt(t) ==
    /\ pc[t] = "remove"
    /\ receivedTransactions' = receivedTransactions \ {tx[t]}
    /\ pc' = [pc EXCEPT ![t] = "idle"]
    /\ tx' = [tx EXCEPT ![t] = NoTx]
    /\ returned' = [returned EXCEPT ![t] = Append(@, tx[t])]
    /\ UNCHANGED <<boot, submitted, chain, imported, events, deaf>>

-----------------------------------------------------------------------------
\* The network and the node.

\* A block can only take the account's next nonce; of two transactions with
\* the same nonce one is mined and the other never will be.
Mine ==
    /\ \E x \in submitted : x.nonce = Len(chain) /\ chain' = Append(chain, x)
    /\ UNCHANGED <<boot, pc, tx, submitted, imported, events, receivedTransactions, returned, deaf>>

\* The new best block is visible to ReadNonce before its receipts are
\* handed out, and they are handed to those who listen now.
ImportBlock ==
    /\ boot # "down"
    /\ \E height \in imported + 1 .. Len(chain) :
           /\ imported' = height
           /\ events' = IF boot = "listening"
                        THEN events \o SubSeq(chain, imported + 1, height)
                        ELSE events
    /\ UNCHANGED <<boot, pc, tx, submitted, chain, receivedTransactions, returned, deaf>>

\* Mutant: the loop over the receipts ends after the first one.
OnBlockFirst ==
    /\ events # <<>>
    /\ receivedTransactions' = receivedTransactions \cup {Head(events)}
    /\ events' = <<>>
    /\ UNCHANGED <<boot, pc, tx, submitted, chain, imported, returned, deaf>>

\* onBlock puts the receipts one by one, and looks at nothing but the hash.
OnBlock ==
    /\ events # <<>>
    /\ receivedTransactions' = receivedTransactions \cup {Head(events)}
    /\ events' = Tail(events)
    /\ UNCHANGED <<boot, pc, tx, submitted, chain, imported, returned, deaf>>

\* The same for a block of somebody else's transactions.
OnForeignBlock ==
    /\ boot = "listening"
    /\ \E x \in Foreign \ receivedTransactions :
           receivedTransactions' = receivedTransactions \cup {x}
    /\ UNCHANGED <<boot, pc, tx, submitted, chain, imported, events, returned, deaf>>

-----------------------------------------------------------------------------
ThreadStep(t) == Submit(t) \/ PollTooEarly(t) \/ FindReceipt(t) \/ RemoveReceipt(t)

Start == CreateEthereum \/ CreateAdapter \/ AddListener

Next ==
    \/ Start
    \/ \E t \in Thread : ThreadStep(t) \/ \E data \in Payload : ReadNonce(t, data)
    \/ Mine
    \/ ImportBlock
    \/ OnBlock
    \/ OnForeignBlock

\* Threads and the listener keep running; the network mines what it can and
\* the node keeps importing.  Nobody has to call.
Fairness ==
    /\ WF_vars(Start)
    /\ \A t \in Thread : WF_vars(ThreadStep(t))
    /\ WF_vars(Mine)
    /\ WF_vars(ImportBlock)
    /\ WF_vars(OnBlock)

Spec == Init /\ [][Next]_vars /\ Fairness

-----------------------------------------------------------------------------
Mined == ToSet(SubSeq(chain, 1, imported))

(***************************************************************************)
(* A call returns only what this node has seen in a block: however many    *)
(* threads send, however early, and whichever receipts arrive              *)
(* (Client.java:180-182, ClientListenerAdapter.java:41-86).                *)
(***************************************************************************)
ReturnedWasMined == \A t \in Thread : ToSet(returned[t]) \subseteq Mined

(***************************************************************************)
(* No lost wake-up: once the client listens, the receipt of a transaction  *)
(* somebody polls for and that was imported since is on its way, in the    *)
(* map, or was taken by a call for the very same transaction.  However     *)
(* many threads call, and in whatever order receipts and polls come        *)
(* (Client.java:180-201, ClientListenerAdapter.java:41-86).                *)
(***************************************************************************)
NoLostWakeup ==
    boot = "listening" =>
        \A t \in Thread, i \in deaf + 1 .. imported :
            pc[t] = "poll" /\ tx[t] = chain[i]
                => \/ tx[t] \in receivedTransactions \cup ToSet(events)
                   \/ \E u \in Thread : tx[t] \in ToSet(returned[u])

(***************************************************************************)
(* Two calls never share a transaction: each returns one of its own, and   *)
(* so each deployed contract has one caller only (Client.java:86-103).     *)
(***************************************************************************)
ResultsAreDistinct ==
    \A t, u \in Thread : \A i \in DOMAIN returned[t], j \in DOMAIN returned[u] :
        returned[t][i] = returned[u][j] => t = u /\ i = j

(***************************************************************************)
(* No caller waits for a transaction whose nonce another one has used up,  *)
(* "Helps us avoid ... obtaining a nonce error" (Client.java:190-193).     *)
(***************************************************************************)
NoNonceError ==
    \A t \in Thread :
        pc[t] = "poll" /\ tx[t].nonce < Len(chain) => tx[t] = chain[tx[t].nonce + 1]

(***************************************************************************)
(* Every call of sendTransaction returns (Client.java:197-201 polls without*)
(* a limit).                                                               *)
(***************************************************************************)
EveryCallReturns == \A t \in Thread : pc[t] = "submit" ~> pc[t] = "idle"

(***************************************************************************)
(* The client is the serial ledger its callers count on: a call has been   *)
(* executed as soon as its transaction is in the chain.                    *)
(***************************************************************************)
Ledger == INSTANCE SerialLedger WITH
    NoCall   <- NoTx,
    log      <- [i \in DOMAIN chain |-> chain[i].data],
    call     <- [t \in Thread |-> IF tx[t] = NoTx THEN NoTx ELSE tx[t].data],
    executed <- {t \in Thread : tx[t] # NoTx /\ \E i \in DOMAIN chain : chain[i] = tx[t]}

ImplementsLedger == Ledger!LedgerSpec
=============================================================================
