------------------------ MODULE TransactionClientProofs ------------------------
(***************************************************************************)
(* Proofs about TransactionClient for every set of threads, payloads and   *)
(* gas prices, every past of the account, and any number of calls.         *)
(***************************************************************************)
EXTENDS TransactionClient, SequenceTheorems, TLAPS

(***************************************************************************)
(* Facts about the sequences of transactions the client is built from.     *)
(***************************************************************************)
LEMMA InConcatenation ==
    ASSUME NEW S, NEW s \in Seq(S), NEW r \in Seq(S)
    PROVE  ToSet(s \o r) = ToSet(s) \cup ToSet(r)
<1>1. s \o r \in Seq(S) /\ DOMAIN s = 1 .. Len(s) /\ DOMAIN r = 1 .. Len(r)
      /\ DOMAIN (s \o r) = 1 .. Len(s) + Len(r)
  OBVIOUS
<1>2. \A i \in 1 .. Len(s) : (s \o r)[i] = s[i] /\ i \in 1 .. Len(s) + Len(r)
  OBVIOUS
<1>3. \A i \in 1 .. Len(r) :
          (s \o r)[Len(s) + i] = r[i] /\ Len(s) + i \in 1 .. Len(s) + Len(r)
  OBVIOUS
<1>4. \A i \in 1 .. Len(s) + Len(r) :
          (s \o r)[i] \in ToSet(s) \cup ToSet(r)
  <2> SUFFICES ASSUME NEW i \in 1 .. Len(s) + Len(r)
               PROVE  (s \o r)[i] \in ToSet(s) \cup ToSet(r)
    OBVIOUS
  <2>1. CASE i \in 1 .. Len(s)
    BY <1>1, <1>2, <2>1 DEF ToSet
  <2>2. CASE i \notin 1 .. Len(s)
    <3>1. i - Len(s) \in 1 .. Len(r) /\ Len(s) + (i - Len(s)) = i
      BY <2>2
    <3> QED
      BY <1>1, <1>3, <3>1 DEF ToSet
  <2> QED
    BY <2>1, <2>2
<1>5. ToSet(s \o r) \subseteq ToSet(s) \cup ToSet(r)
  BY <1>1, <1>4 DEF ToSet
<1>6. ToSet(s) \subseteq ToSet(s \o r) /\ ToSet(r) \subseteq ToSet(s \o r)
  BY <1>1, <1>2, <1>3 DEF ToSet
<1> QED
  BY <1>5, <1>6

\* Appending adds one element to what a sequence holds.
LEMMA InAppend ==
    ASSUME NEW S, NEW s \in Seq(S), NEW x \in S
    PROVE  ToSet(Append(s, x)) = ToSet(s) \cup {x}
<1>1. DOMAIN s = 1 .. Len(s) /\ DOMAIN Append(s, x) = 1 .. Len(s) + 1
  OBVIOUS
<1>2. \A i \in 1 .. Len(s) : Append(s, x)[i] = s[i] /\ i \in 1 .. Len(s) + 1
  OBVIOUS
<1>3. Append(s, x)[Len(s) + 1] = x /\ Len(s) + 1 \in 1 .. Len(s) + 1
  OBVIOUS
<1>4. \A i \in 1 .. Len(s) + 1 : i \in 1 .. Len(s) \/ i = Len(s) + 1
  OBVIOUS
<1>5. ToSet(Append(s, x)) \subseteq ToSet(s) \cup {x}
  BY <1>1, <1>2, <1>3, <1>4 DEF ToSet
<1>6. ToSet(s) \cup {x} \subseteq ToSet(Append(s, x))
  BY <1>1, <1>2, <1>3 DEF ToSet
<1> QED
  BY <1>5, <1>6

\* A sequence holds its head and what its tail holds.
LEMMA HeadAndTail ==
    ASSUME NEW S, NEW s \in Seq(S), s # <<>>
    PROVE  Head(s) \in S /\ Tail(s) \in Seq(S) /\ ToSet(s) = {Head(s)} \cup ToSet(Tail(s))
<1>1. /\ Head(s) \in S /\ Tail(s) \in Seq(S) /\ Len(Tail(s)) = Len(s) - 1 /\ Len(s) \in Nat \ {0}
      /\ \A i \in 1 .. Len(Tail(s)) : Tail(s)[i] = s[i + 1]
  BY HeadTailProperties, EmptySeq
<1>2. DOMAIN s = 1 .. Len(s) /\ DOMAIN Tail(s) = 1 .. Len(s) - 1 /\ Head(s) = s[1]
  BY <1>1
<1>3. \A i \in 1 .. Len(s) : i = 1 \/ (i - 1 \in 1 .. Len(s) - 1 /\ (i - 1) + 1 = i)
  BY <1>1
<1>4. \A i \in 1 .. Len(s) - 1 : i + 1 \in 1 .. Len(s)
  BY <1>1
<1>5. 1 \in 1 .. Len(s)
  BY <1>1
<1>6. ToSet(s) \subseteq {Head(s)} \cup ToSet(Tail(s))
  <2> SUFFICES ASSUME NEW i \in 1 .. Len(s) PROVE s[i] \in {Head(s)} \cup ToSet(Tail(s))
    BY <1>2 DEF ToSet
  <2>1. CASE i = 1
    BY <1>2, <2>1
  <2>2. CASE i # 1
    <3>1. i - 1 \in DOMAIN Tail(s) /\ Tail(s)[i - 1] = s[i]
      BY <1>1, <1>2, <1>3, <2>2
    <3> QED
      BY <3>1 DEF ToSet
  <2> QED
    BY <2>1, <2>2
<1>7. {Head(s)} \cup ToSet(Tail(s)) \subseteq ToSet(s)
  BY <1>1, <1>2, <1>4, <1>5 DEF ToSet
<1> QED
  BY <1>1, <1>6, <1>7

(***************************************************************************)
(* The receipts of the blocks from one height to another are a sequence of *)
(* exactly the transactions mined there (ClientListenerAdapter.java:41-49).*)
(***************************************************************************)
LEMMA BlocksBetween ==
    ASSUME NEW S, NEW s \in Seq(S), NEW m \in Nat, NEW n \in 0 .. Len(s)
    PROVE  /\ SubSeq(s, m + 1, n) \in Seq(S)
           /\ ToSet(SubSeq(s, m + 1, n)) = {s[i] : i \in m + 1 .. n}
<1> DEFINE r == SubSeq(s, m + 1, n)
<1>1. \A i \in m + 1 .. n : s[i] \in S
  OBVIOUS
<1>2. /\ r \in Seq(S)
      /\ Len(r) = IF m + 1 <= n THEN n - (m + 1) + 1 ELSE 0
      /\ \A i \in 1 .. n - (m + 1) + 1 : r[i] = s[(m + 1) + i - 1]
  <2>1. m + 1 \in Int /\ n \in Int
    OBVIOUS
  <2> QED
    BY <1>1, <2>1, SubSeqProperties
<1> HIDE DEF r
<1>3. DOMAIN r = 1 .. n - m
  <2>1. DOMAIN r = 1 .. Len(r)
    BY <1>2
  <2>2. CASE m + 1 <= n
    BY <1>2, <2>1, <2>2
  <2>3. CASE ~(m + 1 <= n)
    <3>1. 1 .. n - m = 1 .. 0 /\ Len(r) = 0
      BY <1>2, <2>3
    <3> QED
      BY <2>1, <3>1
  <2> QED
    BY <2>2, <2>3
<1>4. \A i \in 1 .. n - m : r[i] = s[m + i] /\ m + i \in m + 1 .. n
  <2> SUFFICES ASSUME NEW i \in 1 .. n - m PROVE r[i] = s[m + i] /\ m + i \in m + 1 .. n
    OBVIOUS
  <2>1. i \in 1 .. n - (m + 1) + 1 /\ (m + 1) + i - 1 = m + i
    OBVIOUS
  <2> QED
    BY <1>2, <2>1
<1>5. \A i \in m + 1 .. n : i - m \in 1 .. n - m /\ m + (i - m) = i
  OBVIOUS
<1>6. ToSet(r) \subseteq {s[i] : i \in m + 1 .. n}
  BY <1>3, <1>4 DEF ToSet
<1>7. {s[i] : i \in m + 1 .. n} \subseteq ToSet(r)
  <2> SUFFICES ASSUME NEW i \in m + 1 .. n PROVE s[i] \in ToSet(r)
    OBVIOUS
  <2>1. i - m \in DOMAIN r /\ r[i - m] = s[i]
    BY <1>3, <1>4, <1>5
  <2> QED
    BY <2>1 DEF ToSet
<1> QED
  BY <1>2, <1>6, <1>7 DEF r

-----------------------------------------------------------------------------
(***************************************************************************)
(* TypeOK alone is not inductive: a thread inside a call has built its     *)
(* transaction.                                                            *)
(***************************************************************************)
CallHasTransaction == \A t \in Thread : pc[t] # "idle" => tx[t] \in Transaction

Typed == TypeOK /\ CallHasTransaction

(***************************************************************************)
(* Type correctness of the client (Client.java:29-49,                      *)
(* ClientListenerAdapter.java:20-31).                                      *)
(***************************************************************************)
THEOREM ClientTyped == Spec => []Typed
<1>1. Init => Typed
  <2> SUFFICES ASSUME Init PROVE Typed
    OBVIOUS
  <2>1. chain \in Seq(Transaction)
    <3>1. PICK past \in 0 .. MaxPast, price \in GasPrice, data \in [0 .. MaxPast -> Payload] :
              chain = [i \in 1 .. past |->
                          [nonce |-> i - 1, gasPrice |-> price, data |-> data[i]]]
      BY DEF Init
    <3>2. past \in Nat
      BY BoundAssumption
    <3>3. \A i \in 1 .. past :
              [nonce |-> i - 1, gasPrice |-> price, data |-> data[i]] \in Transaction
      <4> SUFFICES ASSUME NEW i \in 1 .. past
                   PROVE  [nonce |-> i - 1, gasPrice |-> price, data |-> data[i]] \in Transaction
        OBVIOUS
      <4>1. i \in 0 .. MaxPast /\ i - 1 \in Nat
        BY BoundAssumption
      <4>2. data[i] \in Payload
        BY <4>1
      <4> QED
        BY <4>1, <4>2 DEF Transaction
    <3> QED
      BY <3>1, <3>2, <3>3
  <2>2. imported \in 0 .. Len(chain) /\ deaf \in 0 .. imported
    BY <2>1 DEF Init
  <2> QED
    BY <2>1, <2>2 DEF Init, Typed, TypeOK, CallHasTransaction
<1>2. Typed /\ [Next]_vars => Typed'
  <2> SUFFICES ASSUME Typed, [Next]_vars PROVE Typed'
    OBVIOUS
  <2> USE DEF Typed, TypeOK, CallHasTransaction
  <2>1. CASE Start
    BY <2>1 DEF Start, CreateEthereum, CreateAdapter, AddListener
  <2>2. ASSUME NEW t \in Thread, NEW data \in Payload, ReadNonce(t, data) PROVE Typed'
    <3>1. PICK price \in GasPrice :
              tx' = [tx EXCEPT ![t] = [nonce |-> imported, gasPrice |-> price, data |-> data]]
      BY <2>2 DEF ReadNonce
    <3>2. [nonce |-> imported, gasPrice |-> price, data |-> data] \in Transaction
      BY DEF Transaction
    <3> QED
      BY <2>2, <3>1, <3>2 DEF ReadNonce
  <2>3. ASSUME NEW t \in Thread, Submit(t) PROVE Typed'
    BY <2>3 DEF Submit
  <2>4. ASSUME NEW t \in Thread, PollTooEarly(t) PROVE Typed'
    BY <2>4 DEF PollTooEarly
  <2>5. ASSUME NEW t \in Thread, FindReceipt(t) PROVE Typed'
    BY <2>5 DEF FindReceipt
  <2>6. ASSUME NEW t \in Thread, RemoveReceipt(t) PROVE Typed'
    BY <2>6 DEF RemoveReceipt
  <2>7. CASE Mine
    <3>1. PICK x \in submitted : chain' = Append(chain, x)
      BY <2>7 DEF Mine
    <3>2. chain' \in Seq(Transaction) /\ Len(chain') = Len(chain) + 1
      BY <3>1
    <3> QED
      BY <2>7, <3>2 DEF Mine
  <2>8. CASE ImportBlock
    <3>1. PICK height \in imported + 1 .. Len(chain) :
              /\ imported' = height
              /\ events' = IF boot = "listening"
                           THEN events \o SubSeq(chain, imported + 1, height) ELSE events
      BY <2>8 DEF ImportBlock
    <3>2. SubSeq(chain, imported + 1, height) \in Seq(Transaction)
      BY BlocksBetween
    <3>3. events' \in Seq(Transaction)
      BY <3>1, <3>2
    <3> QED
      BY <2>8, <3>1, <3>3 DEF ImportBlock
  <2>9. CASE OnBlock
    BY <2>9, HeadAndTail DEF OnBlock
  <2>10. CASE OnForeignBlock
    BY <2>10 DEF OnForeignBlock
  <2>11. CASE UNCHANGED vars
    BY <2>11 DEF vars
  <2> QED
    BY <2>1, <2>2, <2>3, <2>4, <2>5, <2>6, <2>7, <2>8, <2>9, <2>10, <2>11
       DEF Next, ThreadStep
<1> QED
  BY <1>1, <1>2, PTL DEF Spec

(***************************************************************************)
(* The part of it that the runs check as the type invariant                *)
(* (Client.java:29-49).                                                    *)
(***************************************************************************)
THEOREM ClientTypeCorrect == Spec => []TypeOK
BY ClientTyped, PTL DEF Typed

-----------------------------------------------------------------------------
(***************************************************************************)
(* What the node has imported, as the set of the chain's transactions.     *)
(***************************************************************************)
LEMMA MinedIs ==
    ASSUME TypeOK
    PROVE  Mined = {chain[i] : i \in 1 .. imported}
<1>1. chain \in Seq(Transaction) /\ imported \in 0 .. Len(chain)
  BY DEF TypeOK
<1>2. ToSet(SubSeq(chain, 0 + 1, imported)) = {chain[i] : i \in 0 + 1 .. imported}
  BY <1>1, BlocksBetween
<1>3. 0 + 1 = 1
  OBVIOUS
<1> QED
  BY <1>2, <1>3 DEF Mined

(***************************************************************************)
(* Blocks are only ever added, to the chain and to what is imported.       *)
(***************************************************************************)
LEMMA MinedGrows ==
    ASSUME TypeOK, TypeOK', [Next]_vars
    PROVE  Mined \subseteq Mined'
<1>1. chain \in Seq(Transaction) /\ imported \in 0 .. Len(chain)
  BY DEF TypeOK
<1>2. imported' \in Nat /\ imported' >= imported
  BY <1>1 DEF Next, Start, ThreadStep, CreateEthereum, CreateAdapter, AddListener, ReadNonce,
              Submit, PollTooEarly, FindReceipt, RemoveReceipt, Mine, ImportBlock, OnBlock,
              OnForeignBlock, vars
<1>3. \A i \in 1 .. Len(chain) : chain'[i] = chain[i]
  <2>1. CASE Mine
    <3>1. PICK x \in submitted : chain' = Append(chain, x)
      BY <2>1 DEF Mine
    <3> QED
      BY <1>1, <3>1
  <2>2. CASE ~Mine
    <3>1. chain' = chain
      BY <2>2 DEF Next, Start, ThreadStep, CreateEthereum, CreateAdapter, AddListener, ReadNonce,
              Submit, PollTooEarly, FindReceipt, RemoveReceipt, ImportBlock, OnBlock,
              OnForeignBlock, vars
    <3> QED
      BY <3>1
  <2> QED
    BY <2>1, <2>2
<1>4. \A i \in 1 .. imported : i \in 1 .. imported' /\ i \in 1 .. Len(chain)
  BY <1>1, <1>2
<1>5. Mined = {chain[i] : i \in 1 .. imported}
  BY MinedIs
<1>6. Mined' = {chain'[i] : i \in 1 .. imported'}
  <2>1. chain' \in Seq(Transaction) /\ imported' \in 0 .. Len(chain')
    BY DEF TypeOK
  <2>2. ToSet(SubSeq(chain', 0 + 1, imported')) = {chain'[i] : i \in 0 + 1 .. imported'}
    BY <2>1, BlocksBetween
  <2>3. 0 + 1 = 1
    OBVIOUS
  <2> QED
    BY <2>2, <2>3 DEF Mined
<1> QED
  BY <1>3, <1>4, <1>5, <1>6

(***************************************************************************)
(* Wherever a receipt of Unilog's own is, its transaction was mined        *)
(* (ClientListenerAdapter.java:41-86).                                     *)
(***************************************************************************)
ReceiptsAreMined ==
    /\ ToSet(events) \subseteq Mined
    /\ receivedTransactions \subseteq Mined \cup Foreign
    /\ \A t \in Thread : pc[t] = "remove" => tx[t] \in Mined
    /\ ReturnedWasMined

(***************************************************************************)
(* Whatever the listener holds, and whatever a call has found there, was   *)
(* mined in a block the node has imported (ClientListenerAdapter.java:41-86).*)
(***************************************************************************)
THEOREM ReceiptsMined == Spec => []ReceiptsAreMined
<1>1. Init => ReceiptsAreMined
  BY DEF Init, ReceiptsAreMined, ReturnedWasMined, ToSet
<1>2. Typed /\ Typed' /\ ReceiptsAreMined /\ [Next]_vars => ReceiptsAreMined'
  <2> SUFFICES ASSUME Typed, Typed', ReceiptsAreMined, [Next]_vars PROVE ReceiptsAreMined'
    OBVIOUS
  <2> USE DEF ReceiptsAreMined, ReturnedWasMined
  <2>0. Mined \subseteq Mined'
    BY MinedGrows DEF Typed
  <2>1. CASE Start
    BY <2>0, <2>1 DEF Start, CreateEthereum, CreateAdapter, AddListener
  <2>2. ASSUME NEW t \in Thread, NEW data \in Payload, ReadNonce(t, data)
        PROVE  ReceiptsAreMined'
    BY <2>0, <2>2 DEF ReadNonce, Typed, TypeOK
  <2>3. ASSUME NEW t \in Thread, Submit(t) PROVE ReceiptsAreMined'
    BY <2>0, <2>3 DEF Submit, Typed, TypeOK
  <2>4. ASSUME NEW t \in Thread, PollTooEarly(t) PROVE ReceiptsAreMined'
    BY <2>0, <2>4 DEF PollTooEarly, Typed, TypeOK
  <2>5. ASSUME NEW t \in Thread, FindReceipt(t) PROVE ReceiptsAreMined'
    <3>1. tx[t] \in Transaction /\ tx[t] \in receivedTransactions
      BY <2>5 DEF FindReceipt, Typed, CallHasTransaction
    <3>2. tx[t] \in Mined
      BY <3>1, ForeignAssumption
    <3> QED
      BY <2>0, <2>5, <3>2 DEF FindReceipt, Typed, TypeOK
  <2>6. ASSUME NEW t \in Thread, RemoveReceipt(t) PROVE ReceiptsAreMined'
    <3>1. tx[t] \in Mined /\ tx[t] \in Transaction /\ returned[t] \in Seq(Transaction)
      BY <2>6 DEF RemoveReceipt, Typed, TypeOK, CallHasTransaction
    <3>2. ToSet(Append(returned[t], tx[t])) = ToSet(returned[t]) \cup {tx[t]}
      BY <3>1, InAppend
    <3>3. \A u \in Thread : returned'[u] = IF u = t THEN Append(returned[t], tx[t])
                                           ELSE returned[u]
      BY <2>6 DEF RemoveReceipt, Typed, TypeOK
    <3>4. ReturnedWasMined'
      BY <2>0, <3>1, <3>2, <3>3
    <3>5. \A u \in Thread : pc'[u] = "remove" => tx'[u] \in Mined'
      BY <2>0, <2>6 DEF RemoveReceipt, Typed, TypeOK
    <3> QED
      BY <2>0, <2>6, <3>4, <3>5 DEF RemoveReceipt
  <2>7. CASE Mine
    BY <2>0, <2>7 DEF Mine
  <2>8. CASE ImportBlock
    <3>1. PICK height \in imported + 1 .. Len(chain) :
              /\ imported' = height
              /\ events' = IF boot = "listening"
                           THEN events \o SubSeq(chain, imported + 1, height) ELSE events
      BY <2>8 DEF ImportBlock
    <3>2. /\ chain \in Seq(Transaction) /\ events \in Seq(Transaction)
          /\ imported \in Nat /\ height \in 0 .. Len(chain)
      BY DEF Typed, TypeOK
    <3>3. /\ SubSeq(chain, imported + 1, height) \in Seq(Transaction)
          /\ ToSet(SubSeq(chain, imported + 1, height)) = {chain[i] : i \in imported + 1 .. height}
      BY <3>2, BlocksBetween
    <3>4. /\ SubSeq(chain, 0 + 1, height) \in Seq(Transaction)
          /\ ToSet(SubSeq(chain, 0 + 1, height)) = {chain[i] : i \in 0 + 1 .. height}
      BY <3>2, BlocksBetween
    <3>5. Mined' = ToSet(SubSeq(chain, 0 + 1, height))
      BY <2>8, <3>1 DEF ImportBlock, Mined
    <3>6. {chain[i] : i \in imported + 1 .. height} \subseteq Mined'
      BY <3>2, <3>4, <3>5
    <3>7. ToSet(events \o SubSeq(chain, imported + 1, height))
              = ToSet(events) \cup ToSet(SubSeq(chain, imported + 1, height))
      <4> DEFINE blocks == SubSeq(chain, imported + 1, height)
      <4>1. events \in Seq(Transaction) /\ blocks \in Seq(Transaction)
        BY <3>2, <3>3
      <4> HIDE DEF blocks
      <4>2. ToSet(events \o blocks) = ToSet(events) \cup ToSet(blocks)
        BY <4>1, InConcatenation
      <4> QED
        BY <4>2 DEF blocks
    <3>8. ToSet(events') \subseteq Mined'
      BY <2>0, <3>1, <3>3, <3>6, <3>7
    <3> QED
      BY <2>0, <2>8, <3>8 DEF ImportBlock
  <2>9. CASE OnBlock
    <3>1. ToSet(events) = {Head(events)} \cup ToSet(Tail(events))
      BY <2>9, HeadAndTail DEF OnBlock, Typed, TypeOK
    <3>2. events' = Tail(events)
          /\ receivedTransactions' = receivedTransactions \cup {Head(events)}
      BY <2>9 DEF OnBlock
    <3> QED
      BY <2>0, <2>9, <3>1, <3>2 DEF OnBlock
  <2>10. CASE OnForeignBlock
    BY <2>0, <2>10 DEF OnForeignBlock
  <2>11. CASE UNCHANGED vars
    BY <2>0, <2>11 DEF vars
  <2> QED
    BY <2>1, <2>2, <2>3, <2>4, <2>5, <2>6, <2>7, <2>8, <2>9, <2>10, <2>11
       DEF Next, ThreadStep
<1> QED
  BY <1>1, <1>2, ClientTyped, PTL DEF Spec

(***************************************************************************)
(* However many threads call, and however early, a call only returns what  *)
(* was seen in a block (Client.java:180-182,                               *)
(* ClientListenerAdapter.java:41-86).                                      *)
(***************************************************************************)
THEOREM ReturnedIsMined == Spec => []ReturnedWasMined
BY ReceiptsMined, PTL DEF ReceiptsAreMined

-----------------------------------------------------------------------------
(***************************************************************************)
(* Every receipt since the listener was added is on its way, in the map,   *)
(* or was returned.                                                        *)
(***************************************************************************)
Somewhere(x) ==
    \/ x \in receivedTransactions \cup ToSet(events)
    \/ \E u \in Thread : x \in ToSet(returned[u])

ReceiptsAreSomewhere ==
    boot = "listening" => \A i \in deaf + 1 .. imported : Somewhere(chain[i])

(***************************************************************************)
(* No receipt is ever lost on the way from onBlock to the caller           *)
(* (Client.java:180-201, ClientListenerAdapter.java:41-86).                *)
(***************************************************************************)
THEOREM WakeupIsNotLost == Spec => []NoLostWakeup
<1>1. Init => ReceiptsAreSomewhere
  BY DEF Init, ReceiptsAreSomewhere
<1>2. Typed /\ Typed' /\ ReceiptsAreSomewhere /\ [Next]_vars => ReceiptsAreSomewhere'
  <2> SUFFICES ASSUME Typed, Typed', ReceiptsAreSomewhere, [Next]_vars,
                      boot' = "listening", NEW i \in deaf' + 1 .. imported'
               PROVE  Somewhere(chain[i])'
    BY DEF ReceiptsAreSomewhere, Somewhere
  <2>0. /\ chain \in Seq(Transaction) /\ events \in Seq(Transaction)
        /\ imported \in 0 .. Len(chain) /\ deaf \in 0 .. imported
        /\ imported' \in 0 .. Len(chain') /\ deaf' \in 0 .. imported'
        /\ \A u \in Thread : returned[u] \in Seq(Transaction)
    BY DEF Typed, TypeOK
  <2> USE DEF Somewhere
  <2>1. CASE Start
    <3>1. CASE AddListener
      BY <2>0, <3>1 DEF AddListener
    <3>2. CASE ~AddListener
      BY <2>1, <3>2 DEF Start, CreateEthereum, CreateAdapter
    <3> QED
      BY <3>1, <3>2
  <2>2. ASSUME NEW t \in Thread, NEW data \in Payload, ReadNonce(t, data)
        PROVE  Somewhere(chain[i])'
    BY <2>2 DEF ReadNonce, ReceiptsAreSomewhere
  <2>3. ASSUME NEW t \in Thread, Submit(t) PROVE Somewhere(chain[i])'
    BY <2>3 DEF Submit, ReceiptsAreSomewhere
  <2>4. ASSUME NEW t \in Thread, PollTooEarly(t) PROVE Somewhere(chain[i])'
    BY <2>4 DEF PollTooEarly, ReceiptsAreSomewhere
  <2>5. ASSUME NEW t \in Thread, FindReceipt(t) PROVE Somewhere(chain[i])'
    BY <2>5 DEF FindReceipt, ReceiptsAreSomewhere
  <2>6. ASSUME NEW t \in Thread, RemoveReceipt(t) PROVE Somewhere(chain[i])'
    <3>1. tx[t] \in Transaction /\ returned[t] \in Seq(Transaction)
      BY <2>6 DEF RemoveReceipt, Typed, TypeOK, CallHasTransaction
    <3>2. ToSet(Append(returned[t], tx[t])) = ToSet(returned[t]) \cup {tx[t]}
      BY <3>1, InAppend
    <3>3. \A u \in Thread : returned'[u] = IF u = t THEN Append(returned[t], tx[t])
                                           ELSE returned[u]
      BY <2>6 DEF RemoveReceipt, Typed, TypeOK
    <3>4. Somewhere(chain[i])
      BY <2>6 DEF RemoveReceipt, ReceiptsAreSomewhere
    <3>5. CASE \E u \in Thread : chain[i] \in ToSet(returned[u])
      BY <2>6, <3>2, <3>3, <3>5 DEF RemoveReceipt
    <3>6. CASE chain[i] = tx[t]
      BY <2>6, <3>2, <3>3, <3>6 DEF RemoveReceipt
    <3>7. CASE chain[i] # tx[t] /\ chain[i] \in receivedTransactions \cup ToSet(events)
      BY <2>6, <3>7 DEF RemoveReceipt
    <3> QED
      BY <3>4, <3>5, <3>6, <3>7
  <2>7. CASE Mine
    <3>1. PICK x \in submitted : chain' = Append(chain, x)
      BY <2>7 DEF Mine
    <3>2. i \in 1 .. Len(chain) /\ i \in deaf + 1 .. imported
      BY <2>0, <2>7 DEF Mine
    <3>3. chain'[i] = chain[i]
      BY <2>0, <3>1, <3>2
    <3> QED
      BY <2>7, <3>2, <3>3 DEF Mine, ReceiptsAreSomewhere
  <2>8. CASE ImportBlock
    <3>1. PICK height \in imported + 1 .. Len(chain) :
              imported' = height /\ events' = events \o SubSeq(chain, imported + 1, height)
      BY <2>8 DEF ImportBlock
    <3>2. imported \in Nat /\ height \in 0 .. Len(chain)
      BY <2>0
    <3>3. /\ SubSeq(chain, imported + 1, height) \in Seq(Transaction)
          /\ ToSet(SubSeq(chain, imported + 1, height)) = {chain[j] : j \in imported + 1 .. height}
      BY <2>0, <3>2, BlocksBetween
    <3>4. ToSet(events') = ToSet(events) \cup {chain[j] : j \in imported + 1 .. height}
      <4> DEFINE blocks == SubSeq(chain, imported + 1, height)
      <4>1. /\ events' = events \o blocks
            /\ events \in Seq(Transaction) /\ blocks \in Seq(Transaction)
            /\ ToSet(blocks) = {chain[j] : j \in imported + 1 .. height}
        BY <2>0, <3>1, <3>3
      <4> HIDE DEF blocks
      <4>2. ToSet(events \o blocks) = ToSet(events) \cup ToSet(blocks)
        BY <4>1, InConcatenation
      <4> QED
        BY <4>1, <4>2
    <3>5. CASE i \in deaf + 1 .. imported
      BY <2>8, <3>4, <3>5 DEF ImportBlock, ReceiptsAreSomewhere
    <3>6. CASE i \notin deaf + 1 .. imported
      <4>1. i \in imported + 1 .. height
        BY <2>0, <2>8, <3>1, <3>6 DEF ImportBlock
      <4> QED
        BY <2>8, <3>4, <4>1 DEF ImportBlock
    <3> QED
      BY <3>5, <3>6
  <2>9. CASE OnBlock
    <3>1. ToSet(events) = {Head(events)} \cup ToSet(Tail(events))
      BY <2>0, <2>9, HeadAndTail DEF OnBlock
    <3>2. events' = Tail(events)
          /\ receivedTransactions' = receivedTransactions \cup {Head(events)}
      BY <2>9 DEF OnBlock
    <3>3. Somewhere(chain[i])
      BY <2>9 DEF OnBlock, ReceiptsAreSomewhere
    <3> QED
      BY <2>9, <3>1, <3>2, <3>3 DEF OnBlock
  <2>10. CASE OnForeignBlock
    BY <2>10 DEF OnForeignBlock, ReceiptsAreSomewhere
  <2>11. CASE UNCHANGED vars
    BY <2>11 DEF vars, ReceiptsAreSomewhere
  <2> QED
    BY <2>1, <2>2, <2>3, <2>4, <2>5, <2>6, <2>7, <2>8, <2>9, <2>10, <2>11
       DEF Next, ThreadStep
<1>3. ReceiptsAreSomewhere => NoLostWakeup
  BY DEF ReceiptsAreSomewhere, NoLostWakeup, Somewhere
<1> QED
  BY <1>1, <1>2, <1>3, ClientTyped, PTL DEF Spec

-----------------------------------------------------------------------------
(***************************************************************************)
(* Calls that come one at a time to a client in sync.  Nothing in the code *)
(* enforces either; under both, nonces are used once and in order.         *)
(***************************************************************************)
OneCaller == \A t, u \in Thread : pc[t] # "idle" /\ pc[u] # "idle" => t = u

ChainByNonce == \A i \in 1 .. Len(chain) : chain[i].nonce = i - 1

\* Only the transaction of the thread that polls can still be mined.
OnePending ==
    \A x \in submitted :
        /\ x.nonce <= Len(chain)
        /\ x.nonce = Len(chain) => \E t \in Thread : pc[t] = "poll" /\ tx[t] = x

CallerIsLast ==
    \A t \in Thread :
        /\ pc[t] # "idle" => boot = "listening"
        /\ pc[t] = "submit" => tx[t].nonce = Len(chain)
        /\ pc[t] = "poll" => \/ tx[t].nonce = Len(chain)
                             \/ Len(chain) > 0 /\ tx[t] = chain[Len(chain)]
        /\ pc[t] = "remove" => tx[t].nonce < Len(chain)

ReturnedEarlier ==
    \A t, u \in Thread : pc[u] # "idle" =>
        \A i \in DOMAIN returned[t] : returned[t][i].nonce < tx[u].nonce

Serial ==
    /\ OneCaller
    /\ ChainByNonce
    /\ OnePending
    /\ CallerIsLast
    /\ ReturnedEarlier
    /\ ResultsAreDistinct

\* Everything the node has imported has a nonce below the height.
LEMMA MinedNonces ==
    ASSUME TypeOK, ChainByNonce, NEW x \in Mined
    PROVE  x.nonce \in Nat /\ x.nonce < imported /\ x.nonce < Len(chain)
<1>1. PICK i \in 1 .. imported : x = chain[i]
  BY MinedIs
<1>2. i \in 1 .. Len(chain) /\ imported \in 0 .. Len(chain) /\ Len(chain) \in Nat
  BY DEF TypeOK
<1>3. x.nonce = i - 1
  BY <1>1, <1>2 DEF ChainByNonce
<1> QED
  BY <1>2, <1>3

LEMMA SerialStep ==
    ASSUME OneAtATime, AfterSync,
           Typed, Typed', ReceiptsAreMined, Serial, [Next]_vars
    PROVE  Serial'
<1>0. /\ chain \in Seq(Transaction) /\ Len(chain) \in Nat
      /\ imported \in 0 .. Len(chain)
      /\ pc \in [Thread -> {"idle", "submit", "poll", "remove"}]
      /\ tx \in [Thread -> Transaction \cup {NoTx}]
      /\ returned \in [Thread -> Seq(Transaction)]
      /\ submitted \subseteq Transaction
      /\ \A t \in Thread : pc[t] # "idle" => tx[t] \in Transaction
      /\ \A x \in Transaction : x.nonce \in Nat
  <2>1. \A x \in Transaction : x.nonce \in Nat
    BY DEF Transaction
  <2>2. chain \in Seq(Transaction) /\ Len(chain) \in Nat
    BY DEF Typed, TypeOK
  <2>3. \A t \in Thread : pc[t] # "idle" => tx[t] \in Transaction
    BY DEF Typed, CallHasTransaction
  <2> QED
    BY <2>1, <2>2, <2>3 DEF Typed, TypeOK
<1> USE DEF Serial, OneCaller, ChainByNonce, OnePending, CallerIsLast, ReturnedEarlier,
            ResultsAreDistinct
<1>1. CASE Start
  BY <1>1 DEF Start, CreateEthereum, CreateAdapter, AddListener
<1>2. ASSUME NEW t \in Thread, NEW data \in Payload, ReadNonce(t, data) PROVE Serial'
  <2>1. PICK price \in GasPrice :
            tx' = [tx EXCEPT ![t] = [nonce |-> imported, gasPrice |-> price, data |-> data]]
    BY <1>2 DEF ReadNonce
  <2>2. /\ \A u \in Thread : pc[u] = "idle"
        /\ boot = "listening" /\ imported = Len(chain)
    BY <1>2 DEF ReadNonce, MayCall
  <2>3. /\ tx'[t].nonce = Len(chain)
        /\ \A u \in Thread : u # t => pc'[u] = "idle"
        /\ pc'[t] = "submit"
    BY <1>0, <1>2, <2>1, <2>2 DEF ReadNonce
  <2>4. /\ chain' = chain /\ submitted' = submitted /\ returned' = returned /\ boot' = boot
    BY <1>2 DEF ReadNonce
  <2>5. \A u \in Thread : \A i \in DOMAIN returned[u] : returned[u][i].nonce < Len(chain)
    <3> SUFFICES ASSUME NEW u \in Thread, NEW i \in DOMAIN returned[u]
                 PROVE  returned[u][i].nonce < Len(chain)
      OBVIOUS
    <3>1. returned[u][i] \in Mined
      BY DEF ReceiptsAreMined, ReturnedWasMined, ToSet
    <3> QED
      BY <3>1, MinedNonces DEF Typed
  <2>6. ReturnedEarlier'
    BY <2>3, <2>4, <2>5
  <2>7. OnePending'
    BY <1>0, <2>2, <2>4
  <2>8. CallerIsLast' /\ OneCaller'
    BY <2>2, <2>3, <2>4
  <2>9. ChainByNonce' /\ ResultsAreDistinct'
    BY <2>4
  <2> QED
    BY <2>6, <2>7, <2>8, <2>9
<1>3. ASSUME NEW t \in Thread, Submit(t) PROVE Serial'
  <2>1. /\ \A u \in Thread : u # t => pc[u] = "idle" /\ pc'[u] = "idle"
        /\ pc[t] = "submit" /\ pc'[t] = "poll" /\ tx' = tx
        /\ submitted' = submitted \cup {tx[t]}
        /\ chain' = chain /\ returned' = returned /\ boot' = boot
    BY <1>0, <1>3 DEF Submit
  <2>2. tx[t].nonce = Len(chain) /\ boot = "listening"
    BY <2>1
  <2>3. OnePending'
    <3> SUFFICES ASSUME NEW x \in submitted \cup {tx[t]}
                 PROVE  /\ x.nonce <= Len(chain)
                        /\ x.nonce = Len(chain) =>
                               \E u \in Thread : pc'[u] = "poll" /\ tx[u] = x
      BY <2>1
    <3>1. CASE x = tx[t]
      BY <1>0, <2>1, <2>2, <3>1
    <3>2. CASE x \in submitted
      BY <1>0, <2>1, <3>2
    <3> QED
      BY <3>1, <3>2
  <2>4. CallerIsLast' /\ OneCaller'
    BY <2>1, <2>2
  <2>5. ReturnedEarlier' /\ ChainByNonce' /\ ResultsAreDistinct'
    BY <2>1
  <2> QED
    BY <2>3, <2>4, <2>5
<1>4. ASSUME NEW t \in Thread, PollTooEarly(t) PROVE Serial'
  BY <1>4 DEF PollTooEarly
<1>5. ASSUME NEW t \in Thread, FindReceipt(t) PROVE Serial'
  <2>1. /\ \A u \in Thread : u # t => pc[u] = "idle" /\ pc'[u] = "idle"
        /\ pc[t] = "poll" /\ pc'[t] = "remove" /\ tx' = tx
        /\ submitted' = submitted /\ chain' = chain /\ returned' = returned /\ boot' = boot
    BY <1>0, <1>5 DEF FindReceipt
  <2>2. tx[t] \in Mined
    BY <1>0, <1>5, <2>1, ForeignAssumption DEF FindReceipt, ReceiptsAreMined
  <2>3. tx[t].nonce < Len(chain)
    BY <2>2, MinedNonces DEF Typed
  <2>4. OnePending'
    BY <1>0, <2>1, <2>3
  <2>5. CallerIsLast' /\ OneCaller'
    BY <2>1, <2>3
  <2>6. ReturnedEarlier' /\ ChainByNonce' /\ ResultsAreDistinct'
    BY <2>1
  <2> QED
    BY <2>4, <2>5, <2>6
<1>6. ASSUME NEW t \in Thread, RemoveReceipt(t) PROVE Serial'
  <2>1. /\ pc[t] = "remove" /\ \A u \in Thread : pc'[u] = "idle"
        /\ \A u \in Thread : u # t => pc[u] = "idle"
        /\ submitted' = submitted /\ chain' = chain /\ boot' = boot
    BY <1>0, <1>6 DEF RemoveReceipt
  <2>2. \A u \in Thread : returned'[u] = IF u = t THEN Append(returned[t], tx[t])
                                         ELSE returned[u]
    BY <1>0, <1>6 DEF RemoveReceipt
  <2>3. tx[t] \in Transaction /\ returned[t] \in Seq(Transaction)
    BY <1>0, <2>1
  <2>4. OnePending'
    BY <1>0, <2>1
  <2>5. CallerIsLast' /\ OneCaller' /\ ReturnedEarlier' /\ ChainByNonce'
    BY <2>1
  <2>6. ResultsAreDistinct'
    <3>1. \A u \in Thread : \A i \in DOMAIN returned[u] : returned[u][i] # tx[t]
      <4> SUFFICES ASSUME NEW u \in Thread, NEW i \in DOMAIN returned[u], returned[u][i] = tx[t]
                   PROVE  FALSE
        OBVIOUS
      <4>1. tx[t].nonce < tx[t].nonce
        BY <2>1
      <4> QED
        BY <1>0, <2>3, <4>1
    <3>2. /\ DOMAIN returned[t] = 1 .. Len(returned[t])
          /\ DOMAIN returned'[t] = 1 .. Len(returned[t]) + 1
          /\ \A i \in 1 .. Len(returned[t]) : returned'[t][i] = returned[t][i]
          /\ returned'[t][Len(returned[t]) + 1] = tx[t]
      <4> DEFINE before == returned[t]
                 new    == tx[t]
      <4>1. before \in Seq(Transaction) /\ new \in Transaction
            /\ returned'[t] = Append(before, new)
        BY <2>2, <2>3
      <4> HIDE DEF before, new
      <4>2. /\ DOMAIN before = 1 .. Len(before)
            /\ DOMAIN Append(before, new) = 1 .. Len(before) + 1
            /\ \A i \in 1 .. Len(before) : Append(before, new)[i] = before[i]
            /\ Append(before, new)[Len(before) + 1] = new
        BY <4>1
      <4> QED
        BY <4>1, <4>2 DEF before, new
    <3>3. \A i \in DOMAIN returned'[t] : i \in DOMAIN returned[t] \/ i = Len(returned[t]) + 1
      BY <2>3, <3>2
    <3> SUFFICES ASSUME NEW u \in Thread, NEW v \in Thread,
                        NEW i \in DOMAIN returned'[u], NEW j \in DOMAIN returned'[v],
                        returned'[u][i] = returned'[v][j]
                 PROVE  u = v /\ i = j
      OBVIOUS
    <3>4. CASE u = t /\ i \notin DOMAIN returned[t]
      <4>1. i = Len(returned[t]) + 1 /\ returned'[v][j] = tx[t]
        BY <3>2, <3>3, <3>4
      <4>2. ~(v # t) /\ ~(j \in DOMAIN returned[t])
        BY <2>2, <3>1, <3>2, <4>1
      <4> QED
        BY <3>3, <3>4, <4>1, <4>2
    <3>5. CASE v = t /\ j \notin DOMAIN returned[t]
      <4>1. j = Len(returned[t]) + 1 /\ returned'[u][i] = tx[t]
        BY <3>2, <3>3, <3>5
      <4>2. ~(u # t) /\ ~(i \in DOMAIN returned[t])
        BY <2>2, <3>1, <3>2, <4>1
      <4> QED
        BY <3>3, <3>5, <4>1, <4>2
    <3>6. CASE (u = t => i \in DOMAIN returned[t]) /\ (v = t => j \in DOMAIN returned[t])
      <4>1. i \in DOMAIN returned[u] /\ returned'[u][i] = returned[u][i]
        BY <2>2, <3>2, <3>6
      <4>2. j \in DOMAIN returned[v] /\ returned'[v][j] = returned[v][j]
        BY <2>2, <3>2, <3>6
      <4>3. \A k \in DOMAIN returned[u], l \in DOMAIN returned[v] :
                returned[u][k] = returned[v][l] => u = v /\ k = l
        OBVIOUS
      <4>4. returned[u][i] = returned[v][j]
        BY <4>1, <4>2
      <4> HIDE DEF ResultsAreDistinct
      <4> QED
        BY <4>1, <4>2, <4>3, <4>4
    <3> QED
      BY <3>4, <3>5, <3>6
  <2> QED
    BY <2>4, <2>5, <2>6
<1>7. CASE Mine
  <2>1. PICK x \in submitted : x.nonce = Len(chain) /\ chain' = Append(chain, x)
    BY <1>7 DEF Mine
  <2>2. PICK t \in Thread : pc[t] = "poll" /\ tx[t] = x
    BY <2>1
  <2>3. /\ pc' = pc /\ tx' = tx /\ submitted' = submitted /\ returned' = returned /\ boot' = boot
        /\ \A u \in Thread : u # t => pc[u] = "idle"
    BY <1>7, <2>2 DEF Mine
  <2>4. /\ Len(chain') = Len(chain) + 1 /\ chain'[Len(chain) + 1] = x
        /\ \A i \in 1 .. Len(chain) : chain'[i] = chain[i]
    BY <1>0, <2>1
  <2>5. ChainByNonce'
    <3> SUFFICES ASSUME NEW i \in 1 .. Len(chain) + 1 PROVE chain'[i].nonce = i - 1
      BY <2>4
    <3>1. CASE i = Len(chain) + 1
      BY <1>0, <2>1, <2>4, <3>1
    <3>2. CASE i # Len(chain) + 1
      <4>1. i \in 1 .. Len(chain)
        BY <1>0, <3>2
      <4> QED
        BY <2>4, <4>1
    <3> QED
      BY <3>1, <3>2
  <2>6. OnePending'
    BY <1>0, <2>3, <2>4
  <2>7. CallerIsLast'
    <3>1. Len(chain') > 0 /\ tx'[t] = chain'[Len(chain')]
      BY <1>0, <2>2, <2>3, <2>4
    <3> QED
      BY <2>2, <2>3, <3>1
  <2>8. OneCaller' /\ ReturnedEarlier' /\ ResultsAreDistinct'
    BY <2>3
  <2> QED
    BY <2>5, <2>6, <2>7, <2>8
<1>8. CASE ImportBlock
  BY <1>8 DEF ImportBlock
<1>9. CASE OnBlock
  BY <1>9 DEF OnBlock
<1>10. CASE OnForeignBlock
  BY <1>10 DEF OnForeignBlock
<1>11. CASE UNCHANGED vars
  BY <1>11 DEF vars
<1> QED
  BY <1>1, <1>2, <1>3, <1>4, <1>5, <1>6, <1>7, <1>8, <1>9, <1>10, <1>11
     DEF Next, ThreadStep

(***************************************************************************)
(* One caller at a time keeps nonces, pending transactions and results in  *)
(* order (Client.java:167-206).                                            *)
(***************************************************************************)
THEOREM SerialInvariant ==
    ASSUME OneAtATime, AfterSync
    PROVE  Spec => []Serial
<1>1. Init => Serial
  <2> SUFFICES ASSUME Init PROVE Serial
    OBVIOUS
  <2>1. \A i \in 1 .. Len(chain) : chain[i].nonce = i - 1
    BY BoundAssumption DEF Init
  <2> QED
    BY <2>1 DEF Init, Serial, OneCaller, ChainByNonce, OnePending, CallerIsLast,
                ReturnedEarlier, ResultsAreDistinct
<1>2. Typed /\ Typed' /\ ReceiptsAreMined /\ Serial /\ [Next]_vars => Serial'
  BY SerialStep
<1> QED
  BY <1>1, <1>2, ClientTyped, ReceiptsMined, PTL DEF Spec

(***************************************************************************)
(* Calls that come one at a time to a client in sync never wait for a      *)
(* transaction whose nonce is used up (Client.java:167-206).               *)
(***************************************************************************)
THEOREM SerialNonces ==
    ASSUME OneAtATime, AfterSync
    PROVE  Spec => []NoNonceError
<1>1. Typed /\ Serial => NoNonceError
  <2> SUFFICES ASSUME Typed, Serial, NEW t \in Thread, pc[t] = "poll", tx[t].nonce < Len(chain)
               PROVE  tx[t] = chain[tx[t].nonce + 1]
    BY DEF NoNonceError
  <2>1. chain \in Seq(Transaction) /\ Len(chain) \in Nat /\ tx[t].nonce \in Nat
    BY DEF Typed, TypeOK, CallHasTransaction, Transaction
  <2>2. Len(chain) > 0 /\ tx[t] = chain[Len(chain)]
    BY <2>1 DEF Serial, CallerIsLast
  <2>3. tx[t].nonce = Len(chain) - 1
    BY <2>1, <2>2 DEF Serial, ChainByNonce
  <2> QED
    BY <2>1, <2>2, <2>3
<1> QED
  BY <1>1, ClientTyped, SerialInvariant, PTL

(***************************************************************************)
(* and no two of them return the same transaction (Client.java:86-103).    *)
(***************************************************************************)
THEOREM SerialResults ==
    ASSUME OneAtATime, AfterSync
    PROVE  Spec => []ResultsAreDistinct
BY SerialInvariant, PTL DEF Serial

-----------------------------------------------------------------------------
(***************************************************************************)
(* The client as a serial ledger.  The refinement mapping of Ledger, by    *)
(* name; a thread has no transaction exactly when it is outside a call.    *)
(***************************************************************************)
LedgerLog      == [i \in DOMAIN chain |-> chain[i].data]
LedgerCall     == [t \in Thread |-> IF tx[t] = NoTx THEN NoTx ELSE tx[t].data]
LedgerExecuted == {t \in Thread : tx[t] # NoTx /\ \E i \in DOMAIN chain : chain[i] = tx[t]}

NoTransactionOutside == \A t \in Thread : pc[t] = "idle" => tx[t] = NoTx

(***************************************************************************)
(* A call forgets its transaction when it ends (Client.java:167-183).      *)
(***************************************************************************)
LEMMA CallsEndEmpty == Spec => []NoTransactionOutside
<1>1. Init => NoTransactionOutside
  BY DEF Init, NoTransactionOutside
<1>2. Typed /\ NoTransactionOutside /\ [Next]_vars => NoTransactionOutside'
  <2> SUFFICES ASSUME Typed, NoTransactionOutside, [Next]_vars PROVE NoTransactionOutside'
    OBVIOUS
  <2> USE DEF NoTransactionOutside, Typed, TypeOK
  <2>1. ASSUME NEW t \in Thread, NEW data \in Payload, ReadNonce(t, data)
        PROVE  NoTransactionOutside'
    BY <2>1 DEF ReadNonce
  <2>2. ASSUME NEW t \in Thread, ThreadStep(t) PROVE NoTransactionOutside'
    BY <2>2 DEF ThreadStep, Submit, PollTooEarly, FindReceipt, RemoveReceipt
  <2>3. CASE Start \/ Mine \/ ImportBlock \/ OnBlock \/ OnForeignBlock \/ UNCHANGED vars
    BY <2>3 DEF Start, CreateEthereum, CreateAdapter, AddListener, Mine, ImportBlock, OnBlock,
           OnForeignBlock, vars
  <2> QED
    BY <2>1, <2>2, <2>3 DEF Next
<1> QED
  BY <1>1, <1>2, ClientTyped, PTL DEF Spec

\* The client starts where a ledger starts.
LEMMA LedgerStarts ==
    ASSUME Typed, Init
    PROVE  Ledger!LedgerInit
<1>1. LedgerLog \in Seq(Payload)
  <2>1. chain \in Seq(Transaction) /\ \A x \in Transaction : x.data \in Payload
    BY DEF Typed, TypeOK, Transaction
  <2>2. LedgerLog \in [1 .. Len(chain) -> Payload] /\ Len(chain) \in Nat
    BY <2>1 DEF LedgerLog
  <2> QED
    BY <2>2, SeqDef
<1>2. LedgerCall = [t \in Thread |-> NoTx] /\ LedgerExecuted = {}
  BY DEF Init, LedgerCall, LedgerExecuted
<1> QED
  BY <1>1, <1>2 DEF Ledger!LedgerInit, LedgerLog, LedgerCall, LedgerExecuted

\* Steps that touch neither the chain nor a transaction are not seen.
LEMMA LedgerStutters ==
    ASSUME UNCHANGED <<tx, chain>>
    PROVE  UNCHANGED <<LedgerLog, LedgerCall, LedgerExecuted>>
BY DEF LedgerLog, LedgerCall, LedgerExecuted

(***************************************************************************)
(* When calls come one at a time to a client in sync, every step of the    *)
(* client is a step of the ledger or none: the call is asked for when the  *)
(* nonce is read, executed when its transaction is mined and returned when *)
(* its receipt has been taken (Client.java:167-206).                       *)
(***************************************************************************)
LEMMA LedgerFollows ==
    ASSUME OneAtATime, AfterSync, Typed, ReceiptsAreMined, Serial, NoTransactionOutside,
           [Next]_vars
    PROVE  \/ UNCHANGED <<LedgerLog, LedgerCall, LedgerExecuted>>
           \/ \E t \in Thread :
                  \/ \E data \in Payload :
                         /\ LedgerCall[t] = NoTx
                         /\ LedgerCall' = [LedgerCall EXCEPT ![t] = data]
                         /\ UNCHANGED <<LedgerLog, LedgerExecuted>>
                  \/ /\ LedgerCall[t] # NoTx /\ t \notin LedgerExecuted
                     /\ LedgerLog' = Append(LedgerLog, LedgerCall[t])
                     /\ LedgerExecuted' = LedgerExecuted \cup {t}
                     /\ UNCHANGED LedgerCall
                  \/ /\ t \in LedgerExecuted
                     /\ LedgerCall' = [LedgerCall EXCEPT ![t] = NoTx]
                     /\ LedgerExecuted' = LedgerExecuted \ {t}
                     /\ UNCHANGED LedgerLog
<1>0. /\ chain \in Seq(Transaction) /\ Len(chain) \in Nat /\ DOMAIN chain = 1 .. Len(chain)
      /\ imported \in 0 .. Len(chain) /\ submitted \subseteq Transaction
      /\ pc \in [Thread -> {"idle", "submit", "poll", "remove"}]
      /\ tx \in [Thread -> Transaction \cup {NoTx}]
      /\ \A t \in Thread : pc[t] # "idle" => tx[t] \in Transaction
      /\ NoTx \notin Transaction /\ NoTx \notin Payload
      /\ \A x \in Transaction : x.nonce \in Nat /\ x.data \in Payload
  <2>1. \A x \in Transaction : x.nonce \in Nat /\ x.data \in Payload
    BY DEF Transaction
  <2>2. chain \in Seq(Transaction) /\ Len(chain) \in Nat /\ DOMAIN chain = 1 .. Len(chain)
    BY DEF Typed, TypeOK
  <2>3. \A t \in Thread : pc[t] # "idle" => tx[t] \in Transaction
    BY DEF Typed, CallHasTransaction
  <2> QED
    BY <2>1, <2>2, <2>3, NoTxAssumption DEF Typed, TypeOK
<1>1. CASE UNCHANGED <<tx, chain>>
  BY <1>1, LedgerStutters
<1>2. ASSUME NEW t \in Thread, NEW data \in Payload, ReadNonce(t, data)
      PROVE  /\ LedgerCall[t] = NoTx
             /\ LedgerCall' = [LedgerCall EXCEPT ![t] = data]
             /\ UNCHANGED <<LedgerLog, LedgerExecuted>>
  <2>1. PICK price \in GasPrice :
            tx' = [tx EXCEPT ![t] = [nonce |-> imported, gasPrice |-> price, data |-> data]]
    BY <1>2 DEF ReadNonce
  <2>2. /\ \A u \in Thread : pc[u] = "idle" /\ tx[u] = NoTx
        /\ imported = Len(chain) /\ chain' = chain
    BY <1>2 DEF ReadNonce, MayCall, NoTransactionOutside
  <2> DEFINE new == [nonce |-> imported, gasPrice |-> price, data |-> data]
  <2>3. new \in Transaction /\ new.nonce = Len(chain) /\ new.data = data /\ new # NoTx
    BY <1>0, <2>2 DEF Transaction
  <2>4. \A i \in DOMAIN chain : chain[i] # new
    <3> SUFFICES ASSUME NEW i \in 1 .. Len(chain), chain[i] = new PROVE FALSE
      BY <1>0
    <3>1. chain[i].nonce = i - 1
      BY DEF Serial, ChainByNonce
    <3> HIDE DEF new
    <3> QED
      BY <1>0, <2>3, <3>1
  <2> HIDE DEF new
  <2>5. tx' = [tx EXCEPT ![t] = new]
    BY <2>1 DEF new
  <2>6. LedgerExecuted = {} /\ LedgerExecuted' = {}
    BY <1>0, <2>2, <2>4, <2>5 DEF LedgerExecuted
  <2>7. LedgerLog' = LedgerLog
    BY <2>2 DEF LedgerLog
  <2>8. LedgerCall[t] = NoTx /\ LedgerCall' = [LedgerCall EXCEPT ![t] = data]
    BY <1>0, <2>2, <2>3, <2>5 DEF LedgerCall
  <2> QED
    BY <2>6, <2>7, <2>8
<1>3. ASSUME NEW t \in Thread, PollTooEarly(t) PROVE FALSE
  BY <1>3 DEF PollTooEarly, Serial, CallerIsLast
<1>4. ASSUME NEW t \in Thread, RemoveReceipt(t)
      PROVE  /\ t \in LedgerExecuted
             /\ LedgerCall' = [LedgerCall EXCEPT ![t] = NoTx]
             /\ LedgerExecuted' = LedgerExecuted \ {t}
             /\ UNCHANGED LedgerLog
  <2>1. tx' = [tx EXCEPT ![t] = NoTx] /\ chain' = chain /\ pc[t] = "remove"
    BY <1>4 DEF RemoveReceipt
  <2>2. tx[t] \in Mined /\ tx[t] # NoTx
    BY <1>0, <2>1 DEF ReceiptsAreMined
  <2>3. \E i \in DOMAIN chain : chain[i] = tx[t]
    BY <1>0, <2>2, MinedIs DEF Typed
  <2>4. t \in LedgerExecuted
    BY <2>2, <2>3 DEF LedgerExecuted
  <2>5. LedgerExecuted' = LedgerExecuted \ {t}
    BY <1>0, <2>1 DEF LedgerExecuted
  <2>6. LedgerCall' = [LedgerCall EXCEPT ![t] = NoTx]
    BY <1>0, <2>1 DEF LedgerCall
  <2> QED
    BY <2>1, <2>4, <2>5, <2>6 DEF LedgerLog
<1>5. ASSUME Mine
      PROVE  \E t \in Thread :
                 /\ LedgerCall[t] # NoTx /\ t \notin LedgerExecuted
                 /\ LedgerLog' = Append(LedgerLog, LedgerCall[t])
                 /\ LedgerExecuted' = LedgerExecuted \cup {t}
                 /\ UNCHANGED LedgerCall
  <2>1. PICK x \in submitted : x.nonce = Len(chain) /\ chain' = Append(chain, x)
    BY <1>5 DEF Mine
  <2>2. PICK t \in Thread : pc[t] = "poll" /\ tx[t] = x
    BY <2>1 DEF Serial, OnePending
  <2>3. tx' = tx /\ \A u \in Thread : u # t => tx[u] = NoTx
    BY <1>5, <2>2 DEF Mine, Serial, OneCaller, NoTransactionOutside
  <2>4. x \in Transaction /\ x # NoTx /\ x.data \in Payload
    BY <1>0
  <2>5. /\ DOMAIN chain' = 1 .. Len(chain) + 1 /\ chain'[Len(chain) + 1] = x
        /\ \A i \in 1 .. Len(chain) : chain'[i] = chain[i]
    BY <1>0, <2>1, <2>4
  <2>6. \A i \in DOMAIN chain : chain[i] # x
    <3> SUFFICES ASSUME NEW i \in 1 .. Len(chain), chain[i] = x PROVE FALSE
      BY <1>0
    <3>1. chain[i].nonce = i - 1
      BY DEF Serial, ChainByNonce
    <3> QED
      BY <1>0, <2>1, <3>1
  <2>7. LedgerCall[t] = x.data /\ x.data # NoTx
    BY <1>0, <2>2, <2>4 DEF LedgerCall
  <2>8. t \notin LedgerExecuted /\ LedgerExecuted = {}
    BY <2>2, <2>3, <2>6 DEF LedgerExecuted
  <2>9. LedgerExecuted' = {t}
    <3>1. Len(chain) + 1 \in DOMAIN chain'
      BY <1>0, <2>5
    <3> QED
      BY <2>2, <2>3, <2>4, <2>5, <3>1 DEF LedgerExecuted
  <2>10. LedgerLog' = Append(LedgerLog, x.data)
    <3>1. LedgerLog \in Seq(Payload) /\ Len(LedgerLog) = Len(chain)
      <4>1. LedgerLog \in [1 .. Len(chain) -> Payload]
        BY <1>0 DEF LedgerLog
      <4> QED
        BY <1>0, <4>1, SeqDef
    <3>2. Append(LedgerLog, x.data) = [i \in 1 .. Len(chain) + 1 |->
                                           IF i = Len(chain) + 1 THEN x.data ELSE LedgerLog[i]]
      BY <2>4, <3>1
    <3>3. LedgerLog' = [i \in 1 .. Len(chain) + 1 |-> chain'[i].data]
      BY <2>5 DEF LedgerLog
    <3>4. \A i \in 1 .. Len(chain) + 1 :
              chain'[i].data = IF i = Len(chain) + 1 THEN x.data ELSE LedgerLog[i]
      <4> SUFFICES ASSUME NEW i \in 1 .. Len(chain) + 1
                   PROVE  chain'[i].data = IF i = Len(chain) + 1 THEN x.data ELSE LedgerLog[i]
        OBVIOUS
      <4>1. CASE i = Len(chain) + 1
        BY <2>5, <4>1
      <4>2. CASE i # Len(chain) + 1
        <5>1. i \in 1 .. Len(chain)
          BY <1>0, <4>2
        <5> QED
          BY <1>0, <2>5, <4>2, <5>1 DEF LedgerLog
      <4> QED
        BY <4>1, <4>2
    <3> QED
      BY <3>2, <3>3, <3>4
  <2>11. LedgerCall' = LedgerCall
    BY <2>3 DEF LedgerCall
  <2> QED
    BY <2>7, <2>8, <2>9, <2>10, <2>11
<1>6. ASSUME NEW t \in Thread, Submit(t) \/ FindReceipt(t) PROVE UNCHANGED <<tx, chain>>
  BY <1>6 DEF Submit, FindReceipt
<1>7. CASE Start \/ ImportBlock \/ OnBlock \/ OnForeignBlock \/ UNCHANGED vars
  <2>1. UNCHANGED <<tx, chain>>
    BY <1>7 DEF Start, CreateEthereum, CreateAdapter, AddListener, ImportBlock, OnBlock,
           OnForeignBlock, vars
  <2> QED
    BY <1>1, <2>1
<1> QED
  BY <1>1, <1>2, <1>3, <1>4, <1>5, <1>6, <1>7 DEF Next, ThreadStep

(***************************************************************************)
(* When calls come one at a time to a client in sync, the client           *)
(* implements the steps of the serial ledger its callers count on          *)
(* (Client.java:167-206).  That every call returns stays with TLC.         *)
(***************************************************************************)
THEOREM ClientIsSerialLedger ==
    ASSUME OneAtATime, AfterSync
    PROVE  Spec => Ledger!LedgerInit /\ [][Ledger!LedgerNext]_(Ledger!ledgerVars)
<1>1. Typed /\ Init => Ledger!LedgerInit
  BY LedgerStarts
<1>2. Typed /\ ReceiptsAreMined /\ Serial /\ NoTransactionOutside /\ [Next]_vars
          => [Ledger!LedgerNext]_(Ledger!ledgerVars)
  BY LedgerFollows
     DEF Ledger!LedgerNext, Ledger!Request, Ledger!Execute, Ledger!Return, Ledger!ledgerVars,
         LedgerLog, LedgerCall, LedgerExecuted
<1> QED
  BY <1>1, <1>2, ClientTyped, ReceiptsMined, SerialInvariant, CallsEndEmpty, PTL DEF Spec
=============================================================================
