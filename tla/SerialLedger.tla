---------------------------- MODULE SerialLedger ----------------------------
(***************************************************************************)
(* What the callers of the Ethereum client count on: a call that asks for  *)
(* a transaction is executed once, in the order of the ledger, and returns *)
(* after that.  Client.sendTransaction (Client.java:167-183) is meant to   *)
(* look like this from outside; TransactionClient says when it does.       *)
(***************************************************************************)
EXTENDS Naturals, Sequences

CONSTANTS
    Thread,     \* the request threads of the web application
    Payload,    \* what a transaction does: deploy a contract, call a function
    NoCall      \* "no call in progress"

VARIABLES
    log,        \* the payloads executed so far
    call,       \* for each thread, the payload it asked for, or NoCall
    executed    \* the threads whose call has been executed and not yet returned

ledgerVars == <<log, call, executed>>

LedgerTypeOK ==
    /\ log \in Seq(Payload)
    /\ call \in [Thread -> Payload \cup {NoCall}]
    /\ executed \subseteq Thread

\* The account may have sent transactions before the program was started.
LedgerInit ==
    /\ log \in Seq(Payload)
    /\ call = [t \in Thread |-> NoCall]
    /\ executed = {}

Request(t, data) ==
    /\ call[t] = NoCall
    /\ call' = [call EXCEPT ![t] = data]
    /\ UNCHANGED <<log, executed>>

Execute(t) ==
    /\ call[t] # NoCall /\ t \notin executed
    /\ log' = Append(log, call[t])
    /\ executed' = executed \cup {t}
    /\ UNCHANGED call

Return(t) ==
    /\ t \in executed
    /\ call' = [call EXCEPT ![t] = NoCall]
    /\ executed' = executed \ {t}
    /\ UNCHANGED log

LedgerNext ==
    \E t \in Thread :
        \/ \E data \in Payload : Request(t, data)
        \/ Execute(t)
        \/ Return(t)

LedgerSpec ==
    /\ LedgerInit
    /\ [][LedgerNext]_ledgerVars
    /\ \A t \in Thread : WF_ledgerVars(Execute(t)) /\ WF_ledgerVars(Return(t))
=============================================================================
