------------------------------ MODULE Registry ------------------------------
(***************************************************************************)
(* What the realtime hub promises about the sockets it holds, with none of *)
(* its goroutine, channels, rooms or counters: who may join, that nobody   *)
(* is dropped without having been told, that a socket that was told never  *)
(* joins again, and that stopping tells everybody.  Module Hub is shown to *)
(* implement it.                                                           *)
(***************************************************************************)
EXTENDS Integers, FiniteSets

CONSTANTS
    Conns,          \* connection ids
    Accounts,       \* account ids
    AccountID,      \* the account of a connection
    MaxTotal,       \* sockets the process may hold
    MaxPerAccount   \* sockets one account may hold

VARIABLES
    live,           \* the sockets held
    told,           \* the sockets that have a close request
    open            \* the hub is running

vars == <<live, told, open>>

Init ==
    /\ live = {}
    /\ told = {}
    /\ open = TRUE

(* A socket joins below both caps, and only before anyone asked it to close. *)
Join(c) ==
    /\ open
    /\ c \notin live \cup told
    /\ Cardinality(live) < MaxTotal
    /\ Cardinality({d \in live : AccountID[d] = AccountID[c]}) < MaxPerAccount
    /\ live' = live \cup {c}
    /\ UNCHANGED <<told, open>>

(* Sockets are dropped and told, together. *)
Cut(S) ==
    /\ open
    /\ live' = live \ S
    /\ told' = told \cup S
    /\ UNCHANGED open

(* A socket is told to close by its own pumps. *)
HangUp(c) ==
    /\ told' = told \cup {c}
    /\ UNCHANGED <<live, open>>

(* The hub stops, telling everybody it still holds. *)
Stop ==
    /\ open
    /\ open' = FALSE
    /\ told' = told \cup live
    /\ UNCHANGED live

Next ==
    \/ \E c \in Conns : Join(c) \/ HangUp(c)
    \/ \E S \in SUBSET live : Cut(S)
    \/ Stop

Spec == Init /\ [][Next]_vars
=============================================================================
