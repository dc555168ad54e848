------------------------- MODULE NodeConnectorProofs -------------------------
(***************************************************************************)
(* Proofs about NodeConnector for every configuration, every limit, and    *)
(* any number of nodes and blocks.                                         *)
(***************************************************************************)
EXTENDS NodeConnector, TLAPS

(***************************************************************************)
(* Type correctness of the connector: no loop counts past the limit that   *)
(* ends it by more than one round (NodeConnector.java:83-201).             *)
(***************************************************************************)
THEOREM ConnectorTypeCorrect == Spec => []TypeOK
<1>1. Init => TypeOK
  <2> SUFFICES ASSUME Init PROVE TypeOK
    OBVIOUS
  <2>1. synced \in BOOLEAN /\ syncComplete \in BOOLEAN
    BY Zenon DEF Init
  <2> QED
    BY <2>1, LimitAssumption DEF Init, TypeOK, Loop, Ended
<1>2. TypeOK /\ [Next]_vars => TypeOK'
  <2> SUFFICES ASSUME TypeOK, [Next]_vars PROVE TypeOK'
    OBVIOUS
  <2> USE DEF TypeOK, Loop, Ended
  <2>1. CASE Proceed
    <3>1. phase \in Loop /\ phase' = After[phase]
      BY <2>1 DEF Proceed
    <3>2. phase' \in Loop \cup Ended
      BY <3>1 DEF After
    <3> QED
      BY <2>1, <3>2, LimitAssumption DEF Proceed, reported
  <2>2. CASE Repeat
    BY <2>2, LimitAssumption DEF Repeat, reported, OverLimit
  <2>3. CASE GiveUp
    BY <2>3 DEF GiveUp, reported
  <2>4. CASE Node
    <3>1. synced' \in BOOLEAN
      <4>1. CASE OnSyncDone
        BY <4>1, Zenon DEF OnSyncDone
      <4>2. CASE ~OnSyncDone
        BY <2>4, <4>2 DEF Node, OnNodeDiscovered, OnEthStatusUpdated, OnPeerAddedToSyncPool,
                          OnBlock
      <4> QED
        BY <4>1, <4>2
    <3> QED
      BY <2>4, <3>1 DEF Node, OnNodeDiscovered, OnEthStatusUpdated, OnPeerAddedToSyncPool,
                        OnSyncDone, OnBlock, loopVars
  <2>5. CASE UNCHANGED vars
    BY <2>5 DEF vars
  <2> QED
    BY <2>1, <2>2, <2>3, <2>4, <2>5 DEF Next, Connector
<1> QED
  BY <1>1, <1>2, PTL DEF Spec

(***************************************************************************)
(* What each loop hands on to the next: PeersBeforeBlocks says nothing of  *)
(* the loop in between, which has found a peer that speaks the protocol.   *)
(***************************************************************************)
LoopsHandOn ==
    /\ phase = "syncPeers" => ethNodes > 0
    /\ PeersBeforeBlocks

(***************************************************************************)
(* No block is waited for before the node has a peer that speaks the       *)
(* protocol and one it synchronises with, in whatever order and number     *)
(* nodes are reported (NodeConnector.java:67-71, 117-164).                 *)
(***************************************************************************)
THEOREM NoBlockBeforePeers == Spec => []PeersBeforeBlocks
<1>1. Init => LoopsHandOn
  BY DEF Init, LoopsHandOn, PeersBeforeBlocks
<1>2. TypeOK /\ LoopsHandOn /\ [Next]_vars => LoopsHandOn'
  <2> SUFFICES ASSUME TypeOK, LoopsHandOn, [Next]_vars PROVE LoopsHandOn'
    OBVIOUS
  <2> USE DEF LoopsHandOn, PeersBeforeBlocks
  <2>1. CASE Proceed
    <3>1. /\ phase' = After[phase] /\ Found(phase) /\ phase \in Loop
          /\ ethNodes' = ethNodes /\ syncPeers' = syncPeers
      BY <2>1 DEF Proceed, reported
    <3>2. /\ phase' = "syncPeers" => phase = "availablePeers"
          /\ phase' = "firstBlock" => phase = "syncPeers"
          /\ phase' = "sync" => phase = "firstBlock"
          /\ phase' = "connected" => phase = "sync"
      BY <3>1 DEF After, Loop
    <3>3. /\ phase = "availablePeers" => ethNodes > 0
          /\ phase = "syncPeers" => syncPeers > 0
      BY <3>1 DEF Found
    <3> QED
      BY <3>1, <3>2, <3>3
  <2>2. CASE Repeat \/ GiveUp
    BY <2>2 DEF Repeat, GiveUp, reported
  <2>3. CASE Node
    BY <2>3 DEF Node, OnNodeDiscovered, OnEthStatusUpdated, OnPeerAddedToSyncPool, OnSyncDone,
                OnBlock, loopVars, TypeOK
  <2>4. CASE UNCHANGED vars
    BY <2>4 DEF vars
  <2> QED
    BY <2>1, <2>2, <2>3, <2>4 DEF Next, Connector
<1>3. LoopsHandOn => PeersBeforeBlocks
  BY DEF LoopsHandOn
<1> QED
  BY <1>1, <1>2, <1>3, ConnectorTypeCorrect, PTL DEF Spec

(***************************************************************************)
(* Where an attempt can get: nobody sets the field the fourth loop looks   *)
(* at, so neither the loop without a limit nor the end of the method is    *)
(* reached, and every attempt fails.  AttemptEnds rests on it.             *)
(***************************************************************************)
NoBlockIsSeen == bestBlock = None /\ phase \notin {"sync", "connected"} /\ ~syncComplete

(***************************************************************************)
(* The connector is never told of a block, whatever blocks the node        *)
(* imports, and so never reaches the loop that waits without a limit       *)
(* (NodeConnector.java:166-201, ClientListenerAdapter.java:41-49).         *)
(***************************************************************************)
THEOREM UnlimitedLoopIsNotReached == Spec => []NoBlockIsSeen
<1>1. Init => NoBlockIsSeen
  BY DEF Init, NoBlockIsSeen
<1>2. NoBlockIsSeen /\ [Next]_vars => NoBlockIsSeen'
  <2> SUFFICES ASSUME NoBlockIsSeen, [Next]_vars PROVE NoBlockIsSeen'
    OBVIOUS
  <2> USE DEF NoBlockIsSeen
  <2>1. CASE Proceed
    <3>1. phase \in Loop /\ phase # "firstBlock" /\ phase # "sync"
      BY <2>1 DEF Proceed, Found
    <3>2. phase' \notin {"sync", "connected"}
      BY <2>1, <3>1 DEF Proceed, After, Loop
    <3> QED
      BY <2>1, <3>1, <3>2 DEF Proceed, reported
  <2>2. CASE Repeat \/ GiveUp
    BY <2>2 DEF Repeat, GiveUp, reported
  <2>3. CASE Node
    BY <2>3 DEF Node, OnNodeDiscovered, OnEthStatusUpdated, OnPeerAddedToSyncPool, OnSyncDone,
                OnBlock, loopVars
  <2>4. CASE UNCHANGED vars
    BY <2>4 DEF vars
  <2> QED
    BY <2>1, <2>2, <2>3, <2>4 DEF Next, Connector
<1> QED
  BY <1>1, <1>2, PTL DEF Spec
=============================================================================
