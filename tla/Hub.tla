-------------------------------- MODULE Hub --------------------------------
(***************************************************************************)
(* The realtime hub (internal/realtime/hub.go): one goroutine owns the     *)
(* registry of sockets and serves commands that arrive over channels; the  *)
(* callers are the HTTP handlers that upgrade a socket                     *)
(* (internal/httpapi/realtime.go), the games that publish, the admin API   *)
(* that kicks and the revalidation sweep that closes a set.                *)
(*                                                                         *)
(* A case of the hub's select is one step: its body never blocks (every    *)
(* reply channel has capacity one, TrySend and Close never wait) and the   *)
(* only state it shares with another goroutine is the send buffer and the  *)
(* close request of each socket, touched once per socket.  An unbuffered   *)
(* channel is a rendezvous: the caller's send and the hub's case are the   *)
(* same step.  A buffered one (publish, kick) is a bounded queue, which    *)
(* goes on accepting after the hub has stopped.  Frames are counted, not   *)
(* represented: the hub never looks inside one.                            *)
(***************************************************************************)
EXTENDS Integers, Sequences, FiniteSets

CONSTANTS
    Conns,          \* connection ids; each socket has a fresh one, never reused
    Accounts,       \* account ids
    Rooms,          \* the closed set of rooms
    AccountID,      \* the account a socket was upgraded with
    Room,           \* the room a socket was opened against
    MaxTotal,       \* defaultMaxTotal: cap on the process's sockets
    MaxPerAccount,  \* defaultMaxPerAccount: cap on one account's sockets
    SendBuffer,     \* defaultSendBuffer: frames queued for one socket
    MaxOverflows,   \* maxOverflowsBeforeEvict
    PublishBuffer,  \* capacity of the publish channel
    KickBuffer      \* capacity of the kick channel

ASSUME HubAssumption ==
    /\ IsFiniteSet(Conns)
    /\ AccountID \in [Conns -> Accounts]
    /\ Room \in [Conns -> Rooms]
    /\ MaxTotal \in Nat
    /\ MaxPerAccount \in Nat
    /\ SendBuffer \in Nat
    /\ MaxOverflows \in Nat \ {0}
    /\ PublishBuffer \in Nat
    /\ KickBuffer \in Nat

VARIABLES
    clients,        \* the sockets the hub holds
    rooms,          \* room -> the sockets in it
    perAccount,     \* account -> number of sockets
    overflows,      \* socket -> consecutive frames its buffer refused
    publish,        \* the publish channel: rooms, oldest first
    kick,           \* the kick channel: accounts, oldest first
    cancelled,      \* the hub's context is cancelled
    done,           \* Run has returned
    handler,        \* socket -> where its HTTP handler is
    send,           \* socket -> frames in its send buffer
    closing         \* the sockets that have been asked to close

vars == <<clients, rooms, perAccount, overflows, publish, kick, cancelled,
          done, handler, send, closing>>

(***************************************************************************)
(* Where the HTTP handler of a socket is: not upgraded yet; in the first   *)
(* select of Register; in the second one, with the hub's answer in the     *)
(* reply slot (admitted, overCap); in Serve; in Unregister; back.  A       *)
(* handler whose Register failed tells the peer, drops the socket and is   *)
(* back too (refused).                                                     *)
(***************************************************************************)
HandlerStates == {"idle", "registering", "admitted", "overCap", "serving",
                  "leaving", "returned", "refused"}

TypeOK ==
    /\ clients \in SUBSET Conns
    /\ rooms \in [Rooms -> SUBSET Conns]
    /\ perAccount \in [Accounts -> Nat]
    /\ overflows \in [Conns -> Nat]
    /\ publish \in Seq(Rooms) /\ Len(publish) <= PublishBuffer
    /\ kick \in Seq(Accounts) /\ Len(kick) <= KickBuffer
    /\ cancelled \in BOOLEAN
    /\ done \in BOOLEAN
    /\ handler \in [Conns -> HandlerStates]
    /\ send \in [Conns -> 0..SendBuffer]
    /\ closing \in SUBSET Conns

Init ==
    /\ clients = {}
    /\ rooms = [r \in Rooms |-> {}]
    /\ perAccount = [a \in Accounts |-> 0]
    /\ overflows = [c \in Conns |-> 0]
    /\ publish = <<>>
    /\ kick = <<>>
    /\ cancelled = FALSE
    /\ done = FALSE
    /\ handler = [c \in Conns |-> "idle"]
    /\ send = [c \in Conns |-> 0]
    /\ closing = {}

----------------------------------------------------------------------------
(* The sockets of an account among S. *)
Of(a, S) == {c \in S : AccountID[c] = a}

(* Mutant of Remove: the room index is forgotten. *)
RemoveKeepingRooms(S, counts) ==
    LET held == S \cap clients
        left(a) == perAccount[a] - Cardinality(Of(a, held))
    IN  /\ clients' = clients \ held
        /\ rooms' = rooms
        /\ perAccount' = [a \in Accounts |-> IF left(a) > 0 THEN left(a) ELSE 0]
        /\ overflows' = [c \in Conns |-> IF c \in held THEN 0 ELSE counts[c]]

(***************************************************************************)
(* remove, for every socket of S: one that is not held is skipped.  The    *)
(* hub's record of a socket, its overflow count included, goes with it;    *)
(* the others' counts are what the step makes them.                        *)
(***************************************************************************)
Remove(S, counts) ==
    LET held == S \cap clients
        left(a) == perAccount[a] - Cardinality(Of(a, held))
    IN  /\ clients' = clients \ held
        /\ rooms' = [r \in Rooms |-> rooms[r] \ held]
        /\ perAccount' = [a \in Accounts |-> IF left(a) > 0 THEN left(a) ELSE 0]
        /\ overflows' = [c \in Conns |-> IF c \in held THEN 0 ELSE counts[c]]

(***************************************************************************)
(* Conn.Close on every socket of S.  A second request is a no-op: which    *)
(* code and reason the peer hears is the matter of module Conn.            *)
(***************************************************************************)
Close(S) == closing' = closing \cup S

(* Mutant of TrySend: one frame more than the buffer holds. *)
TrySendOffByOne(c) == send[c] <= SendBuffer

(***************************************************************************)
(* deliver, to every socket of S: TrySend queues a frame and forgives past *)
(* overflows; a full buffer is one more overflow, and the last one allowed *)
(* evicts the socket.                                                      *)
(***************************************************************************)
TrySend(c) == send[c] < SendBuffer

Behind(S) == {c \in S : ~TrySend(c) /\ overflows[c] + 1 >= MaxOverflows}

(* Mutant of Deliver: a socket that is behind is dropped without a word. *)
DeliverEvictingSilently(S) ==
    /\ send' = [c \in Conns |->
                    IF c \in S /\ TrySend(c) THEN send[c] + 1 ELSE send[c]]
    /\ Remove(Behind(S), [c \in Conns |-> IF c \notin S THEN overflows[c]
                                         ELSE IF TrySend(c) THEN 0
                                         ELSE overflows[c] + 1])
    /\ UNCHANGED closing

Deliver(S) ==
    /\ send' = [c \in Conns |->
                    IF c \in S /\ TrySend(c) THEN send[c] + 1 ELSE send[c]]
    /\ Remove(Behind(S), [c \in Conns |-> IF c \notin S THEN overflows[c]
                                         ELSE IF TrySend(c) THEN 0
                                         ELSE overflows[c] + 1])
    /\ Close(Behind(S))

----------------------------------------------------------------------------
(* Mutant of AtCap: one socket per account too many. *)
AtCapOffByOne(c) ==
    \/ Cardinality(clients) >= MaxTotal
    \/ perAccount[AccountID[c]] > MaxPerAccount

(* The two caps a registration is held to. *)
AtCap(c) ==
    \/ Cardinality(clients) >= MaxTotal
    \/ perAccount[AccountID[c]] >= MaxPerAccount

(* The cases of the hub's select.  None is taken once Run has returned. *)

HubRegister(c) ==
    /\ ~done
    /\ handler[c] = "registering"
    /\ IF AtCap(c)
       THEN /\ handler' = [handler EXCEPT ![c] = "overCap"]
            /\ UNCHANGED <<clients, rooms, perAccount>>
       ELSE /\ handler' = [handler EXCEPT ![c] = "admitted"]
            /\ clients' = clients \cup {c}
            /\ rooms' = [rooms EXCEPT ![Room[c]] = @ \cup {c}]
            /\ perAccount' = [perAccount EXCEPT ![AccountID[c]] = @ + 1]
    /\ UNCHANGED <<overflows, publish, kick, cancelled, done, send, closing>>

HubUnregister(c) ==
    /\ ~done
    /\ handler[c] = "leaving"
    /\ handler' = [handler EXCEPT ![c] = "returned"]
    /\ Remove({c}, overflows)
    /\ UNCHANGED <<publish, kick, cancelled, done, send, closing>>

HubPublish ==
    /\ ~done
    /\ publish # <<>>
    /\ publish' = Tail(publish)
    /\ Deliver(rooms[Head(publish)])
    /\ UNCHANGED <<kick, cancelled, done, handler>>

(* A caller may name a socket that has gone: it matches nothing. *)
HubPublishTo(c) ==
    /\ ~done
    /\ Deliver({c} \cap clients)
    /\ UNCHANGED <<publish, kick, cancelled, done, handler>>

(* Mutant of HubKick: the sockets leave the registry and are not closed. *)
HubKickSilently ==
    /\ ~done
    /\ kick # <<>>
    /\ kick' = Tail(kick)
    /\ Remove(Of(Head(kick), clients), overflows)
    /\ UNCHANGED <<publish, cancelled, done, handler, send, closing>>

HubKick ==
    /\ ~done
    /\ kick # <<>>
    /\ kick' = Tail(kick)
    /\ Remove(Of(Head(kick), clients), overflows)
    /\ Close(Of(Head(kick), clients))
    /\ UNCHANGED <<publish, cancelled, done, handler, send>>

(* The sweep names any set of sockets it once saw; some may have gone. *)
HubCloseSet(S) ==
    /\ ~done
    /\ S # {}
    /\ Remove(S, overflows)
    /\ Close(S \cap clients)
    /\ UNCHANGED <<publish, kick, cancelled, done, handler, send>>

(* Mutant of HubStop: Run returns without closing anybody. *)
HubStopSilently ==
    /\ ~done
    /\ cancelled
    /\ done' = TRUE
    /\ UNCHANGED <<clients, rooms, perAccount, overflows, publish, kick,
                   cancelled, handler, send, closing>>

HubStop ==
    /\ ~done
    /\ cancelled
    /\ done' = TRUE
    /\ Close(clients)
    /\ UNCHANGED <<clients, rooms, perAccount, overflows, publish, kick,
                   cancelled, handler, send>>

----------------------------------------------------------------------------
(* The callers. *)

(* The handler accepts the upgrade and calls Register. *)
Upgrade(c) ==
    /\ handler[c] = "idle"
    /\ handler' = [handler EXCEPT ![c] = "registering"]
    /\ UNCHANGED <<clients, rooms, perAccount, overflows, publish, kick,
                   cancelled, done, send, closing>>

(* Register reads the hub's answer: Serve, or Refuse. *)
RegisterReturns(c) ==
    /\ \/ /\ handler[c] = "admitted"
          /\ handler' = [handler EXCEPT ![c] = "serving"]
       \/ /\ handler[c] = "overCap"
          /\ handler' = [handler EXCEPT ![c] = "refused"]
    /\ UNCHANGED <<clients, rooms, perAccount, overflows, publish, kick,
                   cancelled, done, send, closing>>

(***************************************************************************)
(* Either select of Register gives up: the hub has stopped, or the         *)
(* request's context is over (the peer hung up during the handshake).  A   *)
(* select with several ready cases takes any of them.                      *)
(***************************************************************************)
RegisterGivesUp(c) ==
    /\ handler[c] \in {"registering", "admitted", "overCap"}
    /\ handler' = [handler EXCEPT ![c] = "refused"]
    /\ UNCHANGED <<clients, rooms, perAccount, overflows, publish, kick,
                   cancelled, done, send, closing>>

(* The write pump takes a frame from the send buffer. *)
WritePump(c) ==
    /\ handler[c] = "serving"
    /\ send[c] > 0
    /\ send' = [send EXCEPT ![c] = @ - 1]
    /\ UNCHANGED <<clients, rooms, perAccount, overflows, publish, kick,
                   cancelled, done, handler, closing>>

(* Both pumps end; the read pump has asked for a close on its way out. *)
ServeEnds(c) ==
    /\ handler[c] = "serving"
    /\ handler' = [handler EXCEPT ![c] = "leaving"]
    /\ Close({c})
    /\ UNCHANGED <<clients, rooms, perAccount, overflows, publish, kick,
                   cancelled, done, send>>

(* Mutant of UnregisterGivesUp: Unregister waits for the hub whatever happens. *)
UnregisterNeverGivesUp(c) == FALSE /\ UNCHANGED vars

(* Unregister on a hub that has stopped. *)
UnregisterGivesUp(c) ==
    /\ done
    /\ handler[c] = "leaving"
    /\ handler' = [handler EXCEPT ![c] = "returned"]
    /\ UNCHANGED <<clients, rooms, perAccount, overflows, publish, kick,
                   cancelled, done, send, closing>>

Publish(r) ==
    /\ Len(publish) < PublishBuffer
    /\ publish' = Append(publish, r)
    /\ UNCHANGED <<clients, rooms, perAccount, overflows, kick, cancelled,
                   done, handler, send, closing>>

KickAccount(a) ==
    /\ Len(kick) < KickBuffer
    /\ kick' = Append(kick, a)
    /\ UNCHANGED <<clients, rooms, perAccount, overflows, publish, cancelled,
                   done, handler, send, closing>>

(* main calls stopHub. *)
StopHub ==
    /\ ~cancelled
    /\ cancelled' = TRUE
    /\ UNCHANGED <<clients, rooms, perAccount, overflows, publish, kick, done,
                   handler, send, closing>>

(* Every handler is back and the hub has returned: nothing is left to wait for. *)
Terminated ==
    /\ done
    /\ \A c \in Conns : handler[c] \in {"returned", "refused"}
    /\ UNCHANGED vars

HubNext ==
    \/ \E c \in Conns : HubRegister(c) \/ HubUnregister(c) \/ HubPublishTo(c)
    \/ HubPublish
    \/ HubKick
    \/ \E S \in SUBSET Conns : HubCloseSet(S)
    \/ HubStop

CallerNext ==
    \/ \E c \in Conns :
          \/ Upgrade(c) \/ RegisterReturns(c) \/ RegisterGivesUp(c)
          \/ WritePump(c) \/ ServeEnds(c) \/ UnregisterGivesUp(c)
    \/ \E r \in Rooms : Publish(r)
    \/ \E a \in Accounts : KickAccount(a)
    \/ StopHub

Next == HubNext \/ CallerNext \/ Terminated

Spec == Init /\ [][Next]_vars

(* What moves a handler on: each phase has one of these, or one before and one after the stop. *)
HandlerMoves(c) ==
    \/ HubRegister(c) \/ RegisterReturns(c) \/ (done /\ RegisterGivesUp(c))
    \/ (c \in closing /\ ServeEnds(c))
    \/ HubUnregister(c) \/ UnregisterGivesUp(c)

(***************************************************************************)
(* Fairness.  A Go select takes a ready case at random, so a case that     *)
(* stays ready is taken; a goroutine that can run does run.  A socket that *)
(* was asked to close ends its pumps (module Conn).  Nothing obliges       *)
(* anybody to connect, publish, kick or stop the process.                  *)
(***************************************************************************)
Fairness ==
    /\ WF_vars(HubKick) /\ WF_vars(HubStop)
    /\ \A c \in Conns : WF_vars(HandlerMoves(c))

FairSpec == Spec /\ Fairness

----------------------------------------------------------------------------
(***************************************************************************)
(* The two indexes remove has to keep in step say what the registry says:  *)
(* a room lists the registered sockets opened against it, and the account  *)
(* counter is the number of that account's registered sockets (hub.go, the *)
(* closure remove and the register case).                                  *)
(***************************************************************************)
IndexesAgree ==
    /\ \A r \in Rooms : rooms[r] = {c \in clients : Room[c] = r}
    /\ \A a \in Accounts : perAccount[a] = Cardinality(Of(a, clients))

(***************************************************************************)
(* The caps hold of the sockets themselves, whatever order registrations,  *)
(* evictions, kicks and departures come in: the register case compares     *)
(* counters, and a counter that drifted would let the real number pass.    *)
(***************************************************************************)
CapsHold ==
    /\ Cardinality(clients) <= MaxTotal
    /\ \A a \in Accounts : Cardinality(Of(a, clients)) <= MaxPerAccount

(***************************************************************************)
(* No socket is served that the hub has dropped without a word: if its     *)
(* pumps run, the hub holds it or has asked it to close (deliver, kick and *)
(* closeSet all pair remove with Close).                                   *)
(***************************************************************************)
NobodyForgotten ==
    \A c \in Conns :
        handler[c] = "serving" => c \in clients \/ c \in closing

(***************************************************************************)
(* "every client has been asked to close" once Done is closed: a handler   *)
(* that gets its registration reply only after the hub has returned serves *)
(* a socket that already has its close request (hub.go, Done and Run).     *)
(***************************************************************************)
DrainIsComplete ==
    done => \A c \in Conns :
                c \in clients \/ handler[c] = "serving" => c \in closing

(***************************************************************************)
(* A kick queued for an account reaches every socket of the account that   *)
(* is registered by then, even when the hub stops before it reads the      *)
(* command (hub.go, KickAccount and the kick case).                        *)
(***************************************************************************)
KickReaches ==
    \A c \in Conns :
        (c \in clients /\ \E i \in DOMAIN kick : kick[i] = AccountID[c])
            ~> c \in closing

(***************************************************************************)
(* A handler in Serve, Register or Unregister comes back once its socket   *)
(* was asked to close or the hub is told to stop: no call of the hub's API *)
(* waits for ever (the h.done cases of Register and Unregister).  A close  *)
(* request and a stop are never taken back, so it is enough that the       *)
(* handler is found returned again and again.                              *)
(***************************************************************************)
HandlersComeBack ==
    \A c \in Conns :
        []<>(handler[c] # "idle" /\ (c \in closing \/ cancelled)
                => handler[c] \in {"returned", "refused"})

(***************************************************************************)
(* "Members reports who is currently connected" (hub.go, Members): the hub *)
(* lists no socket whose handler has dropped it.                           *)
(***************************************************************************)
MembersAreConnected ==
    ~done => \A c \in clients : handler[c] # "refused"

(***************************************************************************)
(* What the hub promises, without its channels and counters.               *)
(***************************************************************************)
Abstract == INSTANCE Registry WITH
                live <- clients,
                told <- closing,
                open <- ~done

RegistrySpec == Abstract!Spec

(***************************************************************************)
(* The registry is one fact told three times: it has its types, the        *)
(* indexes say what it says, and it is within its caps.                    *)
(***************************************************************************)
RegistryIsSound == TypeOK /\ IndexesAgree /\ CapsHold

(***************************************************************************)
(* Nobody is dropped without a word, while the hub runs or after its       *)
(* drain.                                                                  *)
(***************************************************************************)
NobodyIsDropped == NobodyForgotten /\ DrainIsComplete

=============================================================================
