---------------------------- MODULE NodeConnector ----------------------------
(***************************************************************************)
(* How the client connects to the network (NodeConnector.java): five       *)
(* waiting loops, one after the other, each of which looks again and again *)
(* at a field that the listener (ClientListenerAdapter.java) fills from    *)
(* the node's events, and four of which give up after a number of rounds.  *)
(* The node and the network are external.                                  *)
(***************************************************************************)
EXTENDS Naturals

CONSTANTS
    peerDiscovery,         \* configuration: whether to wait for discovery
    BootNodes,             \* configuration: addresses to start from, and HOME_NODE
    PEER_DISCOVERY_LIMIT,  \* 60 in the code
    BLOCK_DISCOVERY_LIMIT, \* 330 in the code
    None,                  \* null
    MaxNodes,              \* bound: nodes, available peers and sync peers reported
    MaxBlocks              \* bound: blocks imported

ASSUME ConfigurationAssumption == peerDiscovery \in BOOLEAN /\ BootNodes \in Nat
ASSUME LimitAssumption == PEER_DISCOVERY_LIMIT \in Nat /\ BLOCK_DISCOVERY_LIMIT \in Nat
ASSUME BoundAssumption == None \notin Nat /\ MaxNodes \in Nat /\ MaxBlocks \in Nat

VARIABLES
    phase,            \* the loop establishConnection is in
    count,            \* rounds of this loop
    nodesDiscovered,  \* how many the list has
    ethNodes,         \* how many the map has
    syncPeers,        \* how many the list has
    bestBlock,        \* the field bestBlock: a block number or null
    currentBest,      \* the node's best block when waiting for blocks began
    synced,           \* the flag of the same name
    syncComplete,     \* the flag of the same name
    best              \* the number of the node's best block

vars == <<phase, count, nodesDiscovered, ethNodes, syncPeers, bestBlock, currentBest,
          synced, syncComplete, best>>

reported == <<nodesDiscovered, ethNodes, syncPeers, bestBlock, synced, best>>

Loop  == {"discovery", "availablePeers", "syncPeers", "firstBlock", "sync"}
Ended == {"connected", "failed"}

TypeOK ==
    /\ phase \in Loop \cup Ended
    /\ count \in Nat
    /\ phase \in {"discovery", "availablePeers", "syncPeers"} => count <= PEER_DISCOVERY_LIMIT + 1
    /\ phase = "firstBlock" => count <= BLOCK_DISCOVERY_LIMIT + 1
    /\ nodesDiscovered \in Nat /\ ethNodes \in Nat /\ syncPeers \in Nat /\ best \in Nat
    /\ bestBlock \in Nat \cup {None} /\ currentBest \in Nat \cup {None}
    /\ synced \in BOOLEAN /\ syncComplete \in BOOLEAN

Init ==
    /\ phase = IF peerDiscovery THEN "discovery" ELSE "availablePeers"
    /\ count = 0
    /\ nodesDiscovered = 0 /\ ethNodes = 0 /\ syncPeers = 0
    /\ bestBlock = None /\ currentBest = None
    /\ synced = FALSE /\ syncComplete = FALSE
    /\ best = 0

-----------------------------------------------------------------------------
\* The loops.

\* What a loop waits for.  The first one compares the wrong way around; the
\* field the fourth one looks at is set by nobody.
Found(loop) ==
    \/ loop = "discovery" /\ nodesDiscovered < BootNodes
    \/ loop = "availablePeers" /\ ethNodes > 0
    \/ loop = "syncPeers" /\ syncPeers > 0
    \/ loop = "firstBlock" /\ bestBlock # None /\ bestBlock > currentBest
    \/ loop = "sync" /\ synced

\* The last loop waits without a limit.
OverLimit(loop) ==
    \/ loop \in {"discovery", "availablePeers", "syncPeers"} /\ count > PEER_DISCOVERY_LIMIT
    \/ loop = "firstBlock" /\ count > BLOCK_DISCOVERY_LIMIT

\* Mutant: establishConnection leaves out waitForSyncPeers.
AfterWithoutSyncPeers ==
    [discovery |-> "availablePeers", availablePeers |-> "firstBlock",
     syncPeers |-> "firstBlock", firstBlock |-> "sync", sync |-> "connected"]

After == [discovery |-> "availablePeers", availablePeers |-> "syncPeers",
          syncPeers |-> "firstBlock", firstBlock |-> "sync", sync |-> "connected"]

Proceed ==
    /\ phase \in Loop
    /\ Found(phase)
    /\ phase' = After[phase]
    /\ count' = 0
    /\ currentBest' = IF phase' = "firstBlock" THEN best ELSE currentBest
    /\ syncComplete' = (syncComplete \/ phase = "sync")
    /\ UNCHANGED reported

\* Nobody counts the rounds of the last loop.
Repeat ==
    /\ phase \in Loop
    /\ ~Found(phase) /\ ~OverLimit(phase)
    /\ count' = IF phase = "sync" THEN count ELSE count + 1
    /\ UNCHANGED <<phase, currentBest, syncComplete, reported>>

\* The exception ends establishConnection, which logs it.
GiveUp ==
    /\ phase \in Loop
    /\ ~Found(phase) /\ OverLimit(phase)
    /\ phase' = "failed"
    /\ UNCHANGED <<count, currentBest, syncComplete, reported>>

-----------------------------------------------------------------------------
\* The node's events.

loopVars == <<phase, count, currentBest, syncComplete>>

OnNodeDiscovered ==
    /\ nodesDiscovered < MaxNodes
    /\ nodesDiscovered' = nodesDiscovered + 1
    /\ UNCHANGED <<loopVars, ethNodes, syncPeers, bestBlock, synced, best>>

\* The map has one entry per node, and a node that was discovered may be new.
OnEthStatusUpdated ==
    /\ ethNodes < MaxNodes
    /\ ethNodes' = ethNodes + 1
    /\ UNCHANGED <<loopVars, nodesDiscovered, syncPeers, bestBlock, synced, best>>

OnPeerAddedToSyncPool ==
    /\ syncPeers < MaxNodes
    /\ syncPeers' = syncPeers + 1
    /\ UNCHANGED <<loopVars, nodesDiscovered, ethNodes, bestBlock, synced, best>>

OnSyncDone ==
    /\ synced' = TRUE
    /\ UNCHANGED <<loopVars, nodesDiscovered, ethNodes, syncPeers, bestBlock, best>>

\* Mutant: onBlock keeps the block, so that the last loop is reached, which
\* has no limit.
OnBlockKept ==
    /\ best < MaxBlocks
    /\ best' = best + 1
    /\ bestBlock' = best'
    /\ UNCHANGED <<loopVars, nodesDiscovered, ethNodes, syncPeers, synced>>

\* onBlock tells the connector nothing about the block.
OnBlock ==
    /\ best < MaxBlocks
    /\ best' = best + 1
    /\ UNCHANGED <<loopVars, nodesDiscovered, ethNodes, syncPeers, bestBlock, synced>>

-----------------------------------------------------------------------------
Connector == Proceed \/ Repeat \/ GiveUp

Node == OnNodeDiscovered \/ OnEthStatusUpdated \/ OnPeerAddedToSyncPool \/ OnSyncDone \/ OnBlock

Next == Connector \/ Node

\* The connector's thread keeps running.  The node need not report anything.
Spec == Init /\ [][Next]_vars /\ WF_vars(Connector)

(***************************************************************************)
(* The attempt to connect ends, whatever the network does, so that         *)
(* Client.start() returns (NodeConnector.java:55-81).  The last loop has   *)
(* no limit: what the end depends on is that the one before it gives up.   *)
(***************************************************************************)
AttemptEnds == <>(phase \in Ended)

(***************************************************************************)
(* No block is waited for before the node has a peer that speaks the       *)
(* protocol and one it synchronises with, in whatever order the node       *)
(* reports them (NodeConnector.java:67-71, 117-164).                       *)
(***************************************************************************)
PeersBeforeBlocks ==
    phase \in {"firstBlock", "sync", "connected"} => ethNodes > 0 /\ syncPeers > 0
=============================================================================
