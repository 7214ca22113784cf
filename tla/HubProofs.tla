----------------------------- MODULE HubProofs -----------------------------
(***************************************************************************)
(* What module Hub's runs show on three sockets, for any number of them,   *)
(* any caps and any buffer sizes.  The argument is one inductive           *)
(* invariant: the type invariant, the agreement of the hub's indexes, the  *)
(* caps, and Phases, which ties where a handler is to whether the hub      *)
(* holds its socket and whether the socket was asked to close.             *)
(***************************************************************************)
EXTENDS Hub, FiniteSetTheorems, TLAPS

(***************************************************************************)
(* A socket's handler, the registry and the close requests keep in step.   *)
(* Without it NobodyForgotten is not inductive: a socket between the hub's *)
(* answer and Serve could be dropped silently, and one that never joined   *)
(* could already hold a close request.                                     *)
(***************************************************************************)
Phases ==
    /\ \A c \in Conns :
          /\ handler[c] \in {"idle", "registering", "overCap"}
                => c \notin clients /\ c \notin closing
          /\ handler[c] \in {"admitted", "serving"}
                => c \in clients \/ c \in closing
          /\ handler[c] \in {"leaving", "returned"} => c \in closing
    /\ done => clients \subseteq closing

IInv == TypeOK /\ IndexesAgree /\ CapsHold /\ Phases

USE HubAssumption

----------------------------------------------------------------------------
(* Any set of sockets is finite and has a size. *)
LEMMA FiniteConns ==
    ASSUME NEW S \in SUBSET Conns
    PROVE  IsFiniteSet(S) /\ Cardinality(S) \in Nat
BY FS_Subset, FS_CardinalityType DEF HubAssumption

(* Taking held sockets away lowers an account's number by exactly its own. *)
LEMMA OfMinus ==
    ASSUME NEW S \in SUBSET Conns, NEW T \in SUBSET S, NEW a
    PROVE  /\ Cardinality(Of(a, S \ T)) = Cardinality(Of(a, S)) - Cardinality(Of(a, T))
           /\ Cardinality(Of(a, S \ T)) \in Nat
           /\ Cardinality(Of(a, S)) \in Nat
           /\ Cardinality(Of(a, T)) \in Nat
<1>1. Of(a, S) \in SUBSET Conns /\ Of(a, T) \in SUBSET Of(a, S)
    BY DEF Of
<1>2. Of(a, S \ T) = Of(a, S) \ Of(a, T)
    BY DEF Of
<1>3. Of(a, S) \cap Of(a, T) = Of(a, T)
    BY <1>1
<1>4. IsFiniteSet(Of(a, S)) /\ IsFiniteSet(Of(a, T))
    BY <1>1, FiniteConns, FS_Subset
<1>5. Cardinality(Of(a, S) \ Of(a, T))
        = Cardinality(Of(a, S)) - Cardinality(Of(a, S) \cap Of(a, T))
    BY <1>4, FS_Difference
<1>6. Of(a, S \ T) \in SUBSET Conns
    BY DEF Of
<1> QED
    BY <1>1, <1>2, <1>3, <1>4, <1>5, <1>6, FiniteConns, FS_CardinalityType

(* Adding a new socket raises its own account's number by one, no other's. *)
LEMMA OfPlus ==
    ASSUME NEW S \in SUBSET Conns, NEW c \in Conns, c \notin S, NEW a
    PROVE  Cardinality(Of(a, S \cup {c}))
             = IF AccountID[c] = a THEN Cardinality(Of(a, S)) + 1
                                   ELSE Cardinality(Of(a, S))
<1>1. Of(a, S) \in SUBSET Conns /\ c \notin Of(a, S)
    BY DEF Of
<1>2. IsFiniteSet(Of(a, S))
    BY <1>1, FiniteConns
<1>3. CASE AccountID[c] = a
    <2>1. Of(a, S \cup {c}) = Of(a, S) \cup {c}
        BY <1>3 DEF Of
    <2> QED BY <1>1, <1>2, <1>3, <2>1, FS_AddElement
<1>4. CASE AccountID[c] # a
    <2>1. Of(a, S \cup {c}) = Of(a, S)
        BY <1>4 DEF Of
    <2> QED BY <1>4, <2>1
<1> QED BY <1>3, <1>4

(***************************************************************************)
(* remove keeps the types, the indexes and the caps, and takes out of the  *)
(* registry exactly the sockets it was given.                              *)
(***************************************************************************)
LEMMA RemoveKeeps ==
    ASSUME TypeOK, IndexesAgree, CapsHold,
           NEW S \in SUBSET Conns, NEW counts \in [Conns -> Nat],
           Remove(S, counts)
    PROVE  /\ clients' = clients \ S
           /\ clients' \in SUBSET Conns
           /\ rooms' \in [Rooms -> SUBSET Conns]
           /\ perAccount' \in [Accounts -> Nat]
           /\ overflows' \in [Conns -> Nat]
           /\ IndexesAgree'
           /\ CapsHold'
<1> DEFINE held == S \cap clients
<1>1. /\ clients' = clients \ held
      /\ held \in SUBSET clients
      /\ clients \in SUBSET Conns
    BY DEF Remove, TypeOK
<1>2. /\ clients' = clients \ S
      /\ clients' \in SUBSET clients
    BY <1>1
<1>3. overflows' \in [Conns -> Nat]
    BY DEF Remove
<1>4. /\ rooms' = [r \in Rooms |-> rooms[r] \ held]
      /\ rooms' \in [Rooms -> SUBSET Conns]
    BY DEF Remove, TypeOK
<1>5. \A r \in Rooms : rooms'[r] = {c \in clients' : Room[c] = r}
    BY <1>1, <1>4 DEF IndexesAgree
<1>6. ASSUME NEW a \in Accounts
      PROVE  /\ perAccount[a] = Cardinality(Of(a, clients))
             /\ Cardinality(Of(a, clients'))
                    = perAccount[a] - Cardinality(Of(a, held))
             /\ Cardinality(Of(a, clients')) \in Nat
             /\ Cardinality(Of(a, clients')) <= Cardinality(Of(a, clients))
    <2>1. perAccount[a] = Cardinality(Of(a, clients))
        BY DEF IndexesAgree
    <2>2. /\ Cardinality(Of(a, clients \ held))
               = Cardinality(Of(a, clients)) - Cardinality(Of(a, held))
          /\ Cardinality(Of(a, clients \ held)) \in Nat
          /\ Cardinality(Of(a, clients)) \in Nat
          /\ Cardinality(Of(a, held)) \in Nat
        BY <1>1, OfMinus
    <2> HIDE DEF held
    <2> QED BY <1>1, <2>1, <2>2
<1>7. /\ perAccount' \in [Accounts -> Nat]
      /\ \A a \in Accounts : perAccount'[a] = Cardinality(Of(a, clients'))
    <2>1. perAccount' = [a \in Accounts |->
              IF perAccount[a] - Cardinality(Of(a, held)) > 0
              THEN perAccount[a] - Cardinality(Of(a, held)) ELSE 0]
        BY DEF Remove
    <2> HIDE DEF held
    <2> QED BY <1>6, <2>1
<1>8. CapsHold'
    <2>1. Cardinality(clients') <= Cardinality(clients)
        BY <1>1, <1>2, FiniteConns, FS_Subset
    <2>2. /\ Cardinality(clients') \in Nat
          /\ Cardinality(clients) \in Nat
        BY <1>1, <1>2, FiniteConns
    <2>3. Cardinality(clients') <= MaxTotal
        BY <2>1, <2>2 DEF CapsHold, HubAssumption
    <2>4. ASSUME NEW a \in Accounts
          PROVE  Cardinality(Of(a, clients')) <= MaxPerAccount
        <3>1. Cardinality(Of(a, clients)) \in Nat
            BY <1>1, OfMinus
        <3> QED BY <1>6, <3>1 DEF CapsHold, HubAssumption
    <2> QED BY <2>3, <2>4 DEF CapsHold, Of
<1> QED
    BY <1>1, <1>2, <1>3, <1>4, <1>5, <1>7, <1>8 DEF IndexesAgree, Of

(***************************************************************************)
(* What a removal that tells every registered socket it removes, or        *)
(* removes one that is already closing, does to Phases.                    *)
(***************************************************************************)
LEMMA CutKeepsPhases ==
    ASSUME TypeOK, Phases, NEW S \in SUBSET Conns,
           clients' = clients \ S,
           closing' = closing \cup (S \cap clients),
           handler' = handler, done' = done
    PROVE  Phases'
BY DEF TypeOK, Phases

(* deliver to registered sockets: the ones that are behind are cut. *)
LEMMA DeliverKeeps ==
    ASSUME IInv, NEW S \in SUBSET clients, Deliver(S),
           handler' = handler, done' = done
    PROVE  /\ clients' = clients \ Behind(S)
           /\ closing' = closing \cup Behind(S)
           /\ Behind(S) \in SUBSET clients
           /\ clients' \in SUBSET Conns
           /\ closing' \in SUBSET Conns
           /\ rooms' \in [Rooms -> SUBSET Conns]
           /\ perAccount' \in [Accounts -> Nat]
           /\ overflows' \in [Conns -> Nat]
           /\ send' \in [Conns -> 0..SendBuffer]
           /\ IndexesAgree' /\ CapsHold' /\ Phases'
<1> DEFINE counts == [c \in Conns |-> IF c \notin S THEN overflows[c]
                                      ELSE IF TrySend(c) THEN 0
                                      ELSE overflows[c] + 1]
<1>1. TypeOK /\ IndexesAgree /\ CapsHold /\ Phases
    BY DEF IInv
<1>2. clients \in SUBSET Conns /\ Behind(S) \in SUBSET clients
    BY <1>1 DEF TypeOK, Behind
<1>3. counts \in [Conns -> Nat]
    BY <1>1 DEF TypeOK
<1>4. Remove(Behind(S), counts) /\ closing' = closing \cup Behind(S)
    BY DEF Deliver, Close
<1>5. /\ clients' = clients \ Behind(S)
      /\ clients' \in SUBSET Conns
      /\ rooms' \in [Rooms -> SUBSET Conns]
      /\ perAccount' \in [Accounts -> Nat]
      /\ overflows' \in [Conns -> Nat]
      /\ IndexesAgree' /\ CapsHold'
    <2> HIDE DEF counts
    <2> QED BY <1>1, <1>2, <1>3, <1>4, RemoveKeeps
<1>6. send' \in [Conns -> 0..SendBuffer]
    BY <1>1 DEF Deliver, TypeOK, TrySend, HubAssumption
<1>7. Phases'
    <2>1. Behind(S) \cap clients = Behind(S) /\ Behind(S) \in SUBSET Conns
        BY <1>2
    <2> QED BY <1>1, <1>4, <1>5, <2>1, CutKeepsPhases
<1> QED
    BY <1>1, <1>2, <1>4, <1>5, <1>6, <1>7 DEF TypeOK

----------------------------------------------------------------------------
(* The invariant holds of a hub that has just started. *)
LEMMA InitIInv == Init => IInv
<1> SUFFICES ASSUME Init PROVE IInv
    OBVIOUS
<1>1. \A a : Of(a, clients) = {}
    BY DEF Init, Of
<1>2. Cardinality({}) = 0
    BY FS_EmptySet
<1>3. TypeOK
    <2>1. clients \in SUBSET Conns /\ closing \in SUBSET Conns
        BY DEF Init
    <2>2. rooms \in [Rooms -> SUBSET Conns] /\ perAccount \in [Accounts -> Nat]
        BY DEF Init
    <2>3. overflows \in [Conns -> Nat] /\ send \in [Conns -> 0..SendBuffer]
        BY DEF Init, HubAssumption
    <2>4. /\ publish \in Seq(Rooms) /\ Len(publish) <= PublishBuffer
          /\ kick \in Seq(Accounts) /\ Len(kick) <= KickBuffer
        BY DEF Init, HubAssumption
    <2>5. handler \in [Conns -> HandlerStates]
        BY DEF Init, HandlerStates
    <2>6. cancelled \in BOOLEAN /\ done \in BOOLEAN
        BY DEF Init
    <2> QED BY <2>1, <2>2, <2>3, <2>4, <2>5, <2>6 DEF TypeOK
<1>4. IndexesAgree
    BY <1>1, <1>2 DEF Init, IndexesAgree
<1>5. CapsHold
    <2>1. clients = {} /\ 0 <= MaxTotal /\ 0 <= MaxPerAccount
        BY DEF Init, HubAssumption
    <2> QED BY <1>1, <1>2, <2>1 DEF CapsHold
<1>6. Phases
    BY DEF Init, Phases
<1> QED BY <1>3, <1>4, <1>5, <1>6 DEF IInv

(***************************************************************************)
(* Every step keeps the invariant: first the cases of the hub's select     *)
(* that admit or drop sockets, each by its lemma, then the steps that      *)
(* leave the registry alone.                                               *)
(***************************************************************************)
LEMMA RegisterKeeps ==
    ASSUME IInv, NEW c \in Conns, HubRegister(c)
    PROVE  IInv'
<1>1. TypeOK /\ IndexesAgree /\ CapsHold /\ Phases
    BY DEF IInv
<1>2. CASE AtCap(c)
    <2>1. TypeOK'
        BY <1>1, <1>2 DEF TypeOK, HubRegister, HandlerStates
    <2>2. IndexesAgree' /\ CapsHold'
        BY <1>1, <1>2 DEF HubRegister, IndexesAgree, CapsHold, Of
    <2>3. Phases'
        BY <1>1, <1>2 DEF TypeOK, HubRegister, Phases, HandlerStates
    <2> QED BY <2>1, <2>2, <2>3 DEF IInv
<1>3. CASE ~AtCap(c)
    <2>1. /\ c \notin clients /\ c \notin closing
          /\ clients' = clients \cup {c}
          /\ rooms' = [rooms EXCEPT ![Room[c]] = @ \cup {c}]
          /\ perAccount' = [perAccount EXCEPT ![AccountID[c]] = @ + 1]
          /\ clients \in SUBSET Conns
        BY <1>1, <1>3 DEF HubRegister, Phases, TypeOK
    <2>2. AccountID[c] \in Accounts /\ Room[c] \in Rooms
        BY DEF HubAssumption
    <2>3. TypeOK'
        <3>1. clients' \in SUBSET Conns /\ rooms' \in [Rooms -> SUBSET Conns]
            BY <1>1, <2>1, <2>2 DEF TypeOK
        <3>2. perAccount' \in [Accounts -> Nat]
            BY <1>1, <2>1, <2>2 DEF TypeOK
        <3>3. handler' \in [Conns -> HandlerStates]
            BY <1>1, <1>3 DEF TypeOK, HubRegister, HandlerStates
        <3> QED BY <1>1, <3>1, <3>2, <3>3 DEF TypeOK, HubRegister
    <2>4. \A a \in Accounts :
              Cardinality(Of(a, clients')) = IF AccountID[c] = a
                                             THEN Cardinality(Of(a, clients)) + 1
                                             ELSE Cardinality(Of(a, clients))
        BY <2>1, OfPlus
    <2>5. \A r \in Rooms : rooms'[r] = {d \in clients' : Room[d] = r}
        BY <1>1, <2>1, <2>2 DEF TypeOK, IndexesAgree
    <2>6. \A a \in Accounts : perAccount'[a] = Cardinality(Of(a, clients'))
        BY <1>1, <2>1, <2>2, <2>4 DEF TypeOK, IndexesAgree
    <2>7. IndexesAgree'
        BY <2>5, <2>6 DEF IndexesAgree, Of
    <2>8. Cardinality(clients') = Cardinality(clients) + 1
        BY <2>1, FiniteConns, FS_AddElement
    <2>9. Cardinality(clients') <= MaxTotal
        BY <1>3, <2>1, <2>8, FiniteConns DEF AtCap, HubAssumption
    <2>10. ASSUME NEW a \in Accounts
           PROVE  Cardinality(Of(a, clients')) <= MaxPerAccount
        <3>1. perAccount[a] = Cardinality(Of(a, clients)) /\ perAccount[a] \in Nat
            BY <1>1 DEF IndexesAgree, TypeOK
        <3>2. CASE AccountID[c] = a
            BY <1>3, <2>4, <3>1, <3>2 DEF AtCap, HubAssumption
        <3>3. CASE AccountID[c] # a
            BY <1>1, <2>4, <3>3 DEF CapsHold
        <3> QED BY <3>2, <3>3
    <2>11. CapsHold'
        BY <2>9, <2>10 DEF CapsHold, Of
    <2>12. Phases'
        BY <1>1, <1>3, <2>1 DEF TypeOK, HubRegister, Phases, HandlerStates
    <2> QED BY <2>3, <2>7, <2>11, <2>12 DEF IInv
<1> QED BY <1>2, <1>3

(* The steps that leave the registry and its counters as they are. *)
LEMMA OthersKeep ==
    ASSUME IInv,
           \/ HubStop \/ StopHub
           \/ \E c \in Conns :
                 \/ Upgrade(c) \/ RegisterReturns(c) \/ RegisterGivesUp(c)
                 \/ WritePump(c) \/ ServeEnds(c) \/ UnregisterGivesUp(c)
           \/ \E r \in Rooms : Publish(r)
           \/ \E a \in Accounts : KickAccount(a)
           \/ UNCHANGED vars
    PROVE  IInv'
<1>1. TypeOK /\ IndexesAgree /\ CapsHold /\ Phases
    BY DEF IInv
<1>2. clients' = clients /\ rooms' = rooms /\ perAccount' = perAccount
    BY DEF HubStop, StopHub, Upgrade, RegisterReturns, RegisterGivesUp, WritePump,
           ServeEnds, UnregisterGivesUp, Publish, KickAccount, vars
<1>3. IndexesAgree' /\ CapsHold'
    BY <1>1, <1>2 DEF IndexesAgree, CapsHold, Of
<1>4. TypeOK' /\ Phases'
    <2>1. CASE HubStop \/ StopHub
        <3>1. /\ closing' = closing \/ closing' = closing \cup clients
              /\ done' = done \/ closing' = closing \cup clients
              /\ handler' = handler
            BY <2>1 DEF HubStop, StopHub, Close
        <3>2. TypeOK'
            BY <1>1, <2>1 DEF TypeOK, HubStop, StopHub, Close
        <3>3. Phases'
            BY <1>1, <1>2, <3>1 DEF TypeOK, Phases
        <3> QED BY <3>2, <3>3
    <2>2. ASSUME NEW c \in Conns,
                 Upgrade(c) \/ RegisterReturns(c) \/ RegisterGivesUp(c)
                    \/ UnregisterGivesUp(c)
          PROVE  TypeOK' /\ Phases'
        <3>1. /\ handler' \in [Conns -> HandlerStates]
              /\ handler' = [handler EXCEPT ![c] = handler'[c]]
              /\ \/ handler[c] \in {"idle", "registering", "overCap"}
                       /\ handler'[c] \in {"registering", "refused"}
                 \/ handler[c] = "admitted" /\ handler'[c] \in {"serving", "refused"}
                 \/ handler[c] = "leaving" /\ handler'[c] = "returned"
              /\ closing' = closing /\ done' = done
            BY <1>1, <2>2 DEF TypeOK, HandlerStates, Upgrade, RegisterReturns,
                              RegisterGivesUp, UnregisterGivesUp
        <3>2. TypeOK'
            BY <1>1, <1>2, <2>2, <3>1 DEF TypeOK, Upgrade, RegisterReturns,
                                          RegisterGivesUp, UnregisterGivesUp
        <3>3. Phases'
            BY <1>1, <1>2, <3>1 DEF TypeOK, Phases
        <3> QED BY <3>2, <3>3
    <2>3. ASSUME NEW c \in Conns, ServeEnds(c)
          PROVE  TypeOK' /\ Phases'
        <3>1. /\ handler' \in [Conns -> HandlerStates]
              /\ handler' = [handler EXCEPT ![c] = "leaving"]
              /\ closing' = closing \cup {c} /\ done' = done
            BY <1>1, <2>3 DEF TypeOK, HandlerStates, ServeEnds, Close
        <3>2. TypeOK'
            BY <1>1, <1>2, <2>3, <3>1 DEF TypeOK, ServeEnds
        <3>3. Phases'
            BY <1>1, <1>2, <3>1 DEF TypeOK, Phases
        <3> QED BY <3>2, <3>3
    <2>4. ASSUME NEW c \in Conns, WritePump(c)
          PROVE  TypeOK' /\ Phases'
        <3>1. send' \in [Conns -> 0..SendBuffer]
            BY <1>1, <2>4 DEF TypeOK, WritePump, HubAssumption
        <3> QED BY <1>1, <2>4, <3>1 DEF TypeOK, Phases, WritePump
    <2>5. ASSUME NEW r \in Rooms, Publish(r)
          PROVE  TypeOK' /\ Phases'
        <3>1. publish' \in Seq(Rooms) /\ Len(publish') <= PublishBuffer
            BY <1>1, <2>5 DEF TypeOK, Publish, HubAssumption
        <3> QED BY <1>1, <2>5, <3>1 DEF TypeOK, Phases, Publish
    <2>6. ASSUME NEW a \in Accounts, KickAccount(a)
          PROVE  TypeOK' /\ Phases'
        <3>1. kick' \in Seq(Accounts) /\ Len(kick') <= KickBuffer
            BY <1>1, <2>6 DEF TypeOK, KickAccount, HubAssumption
        <3> QED BY <1>1, <2>6, <3>1 DEF TypeOK, Phases, KickAccount
    <2>7. CASE UNCHANGED vars
        BY <1>1, <2>7 DEF TypeOK, Phases, vars
    <2> QED BY <2>1, <2>2, <2>3, <2>4, <2>5, <2>6, <2>7
<1> QED BY <1>3, <1>4 DEF IInv

(* The other cases of the hub's select: each is a removal paired with a close. *)
LEMMA RemovalsKeep ==
    ASSUME IInv,
           \/ \E c \in Conns : HubUnregister(c) \/ HubPublishTo(c)
           \/ HubPublish \/ HubKick
           \/ \E S \in SUBSET Conns : HubCloseSet(S)
    PROVE  IInv'
<1>1. TypeOK /\ IndexesAgree /\ CapsHold /\ Phases
    BY DEF IInv
<1>2. clients \in SUBSET Conns /\ overflows \in [Conns -> Nat]
    BY <1>1 DEF TypeOK
<1>3. ASSUME NEW c \in Conns, HubUnregister(c)
      PROVE  IInv'
    <2>1. {c} \in SUBSET Conns /\ Remove({c}, overflows)
        BY <1>3 DEF HubUnregister
    <2>2. /\ clients' = clients \ {c}
          /\ clients' \in SUBSET Conns
          /\ rooms' \in [Rooms -> SUBSET Conns]
          /\ perAccount' \in [Accounts -> Nat]
          /\ overflows' \in [Conns -> Nat]
          /\ IndexesAgree' /\ CapsHold'
        BY <1>1, <1>2, <2>1, RemoveKeeps
    <2>3. TypeOK'
        BY <1>1, <1>3, <2>2 DEF TypeOK, HubUnregister, HandlerStates
    <2>4. Phases'
        BY <1>1, <1>3, <2>2 DEF TypeOK, Phases, HubUnregister, HandlerStates
    <2> QED BY <2>2, <2>3, <2>4 DEF IInv
<1>4. ASSUME NEW c \in Conns, HubPublishTo(c)
      PROVE  IInv'
    <2>1. /\ {c} \cap clients \in SUBSET clients
          /\ Deliver({c} \cap clients)
          /\ handler' = handler /\ done' = done
        BY <1>4 DEF HubPublishTo
    <2> QED BY <1>1, <1>4, <2>1, DeliverKeeps DEF IInv, TypeOK, HubPublishTo
<1>5. CASE HubPublish
    <2>1. Head(publish) \in Rooms /\ publish' \in Seq(Rooms)
            /\ Len(publish') <= PublishBuffer
        BY <1>1, <1>5 DEF TypeOK, HubPublish, HubAssumption
    <2>2. rooms[Head(publish)] \in SUBSET clients
        BY <1>1, <2>1 DEF IndexesAgree
    <2>3. Deliver(rooms[Head(publish)]) /\ handler' = handler /\ done' = done
        BY <1>5 DEF HubPublish
    <2> QED BY <1>1, <1>5, <2>1, <2>2, <2>3, DeliverKeeps DEF IInv, TypeOK, HubPublish
<1>6. CASE HubKick
    <2> DEFINE S == Of(Head(kick), clients)
    <2>1. /\ S \in SUBSET Conns /\ S \cap clients = S
          /\ Remove(S, overflows) /\ closing' = closing \cup S
          /\ handler' = handler /\ done' = done
        BY <1>2, <1>6 DEF HubKick, Close, Of
    <2>2. /\ clients' = clients \ S
          /\ clients' \in SUBSET Conns
          /\ rooms' \in [Rooms -> SUBSET Conns]
          /\ perAccount' \in [Accounts -> Nat]
          /\ overflows' \in [Conns -> Nat]
          /\ IndexesAgree' /\ CapsHold'
        <3> HIDE DEF S
        <3> QED BY <1>1, <1>2, <2>1, RemoveKeeps
    <2>3. kick' \in Seq(Accounts) /\ Len(kick') <= KickBuffer
        BY <1>1, <1>6 DEF TypeOK, HubKick, HubAssumption
    <2>4. TypeOK'
        <3> HIDE DEF S
        <3> QED BY <1>1, <1>6, <2>1, <2>2, <2>3 DEF TypeOK, HubKick
    <2>5. Phases'
        <3> HIDE DEF S
        <3> QED BY <1>1, <2>1, <2>2, CutKeepsPhases
    <2> QED BY <2>2, <2>4, <2>5 DEF IInv
<1>7. ASSUME NEW S \in SUBSET Conns, HubCloseSet(S)
      PROVE  IInv'
    <2>1. /\ Remove(S, overflows) /\ closing' = closing \cup (S \cap clients)
          /\ handler' = handler /\ done' = done
        BY <1>7 DEF HubCloseSet, Close
    <2>2. /\ clients' = clients \ S
          /\ clients' \in SUBSET Conns
          /\ rooms' \in [Rooms -> SUBSET Conns]
          /\ perAccount' \in [Accounts -> Nat]
          /\ overflows' \in [Conns -> Nat]
          /\ IndexesAgree' /\ CapsHold'
        BY <1>1, <1>2, <2>1, RemoveKeeps
    <2>3. TypeOK'
        BY <1>1, <1>7, <2>1, <2>2 DEF TypeOK, HubCloseSet
    <2>4. Phases'
        BY <1>1, <2>1, <2>2, CutKeepsPhases
    <2> QED BY <2>2, <2>3, <2>4 DEF IInv
<1> QED BY <1>3, <1>4, <1>5, <1>6, <1>7

(***************************************************************************)
(* The inductive invariant holds of every reachable state, whatever the    *)
(* number of sockets, the caps and the buffer sizes.                       *)
(***************************************************************************)
THEOREM Invariance == Spec => []IInv
<1>1. IInv /\ [Next]_vars => IInv'
    <2> SUFFICES ASSUME IInv, [Next]_vars PROVE IInv'
        OBVIOUS
    <2> QED
        BY RegisterKeeps, RemovalsKeep, OthersKeep
        DEF Next, HubNext, CallerNext, Terminated
<1> QED BY <1>1, InitIInv, PTL DEF Spec

(* The hub's types, the buffers' limits included, hold in every state. *)
THEOREM TypeCorrect == Spec => []TypeOK
BY Invariance, PTL DEF IInv

(* Rooms and account counters agree with the registry in every state. *)
THEOREM IndexesAlwaysAgree == Spec => []IndexesAgree
BY Invariance, PTL DEF IInv

(* The caps hold of the registered sockets in every state. *)
THEOREM CapsAlwaysHold == Spec => []CapsHold
BY Invariance, PTL DEF IInv

(* A served socket is registered or has been asked to close, in every state. *)
THEOREM NobodyEverForgotten == Spec => []NobodyForgotten
<1>1. IInv => NobodyForgotten
    BY DEF IInv, Phases, NobodyForgotten
<1> QED BY <1>1, Invariance, PTL

(***************************************************************************)
(* Once Run has returned, every socket that is registered, and every one   *)
(* whose handler reaches Serve afterwards, has its close request.          *)
(***************************************************************************)
THEOREM DrainAlwaysComplete == Spec => []DrainIsComplete
<1>1. IInv => DrainIsComplete
    BY DEF IInv, TypeOK, Phases, DrainIsComplete
<1> QED BY <1>1, Invariance, PTL

(* The registry, its indexes and its caps, in every state. *)
THEOREM RegistryAlwaysSound == Spec => []RegistryIsSound
BY TypeCorrect, IndexesAlwaysAgree, CapsAlwaysHold, PTL DEF RegistryIsSound

(***************************************************************************)
(* No socket loses its place in the hub without a close request, by an     *)
(* eviction, a kick, a sweep or the drain.                                 *)
(***************************************************************************)
THEOREM NobodyEverDropped == Spec => []NobodyIsDropped
BY NobodyEverForgotten, DrainAlwaysComplete, PTL DEF NobodyIsDropped

----------------------------------------------------------------------------
(* The registry's module counts as this one does. *)
LEMMA SameCardinality ==
    ASSUME NEW S
    PROVE  Abstract!Cardinality(S) = Cardinality(S)
BY DEF Cardinality, Abstract!Cardinality, IsFiniteSet, Abstract!IsFiniteSet

(* A hub that has just started is an empty, open registry. *)
LEMMA InitRefines == Init => Abstract!Init
BY DEF Init, Abstract!Init

(***************************************************************************)
(* Every step of the hub is a step of the registry or leaves it alone: an  *)
(* admission is a Join, every removal a Cut, the end of Serve a HangUp and *)
(* the hub's return a Stop.                                                *)
(***************************************************************************)
LEMMA StepRefines ==
    ASSUME IInv, [Next]_vars
    PROVE  [Abstract!Next]_(Abstract!vars)
<1>1. TypeOK /\ IndexesAgree /\ CapsHold /\ Phases
    BY DEF IInv
<1>2. ASSUME NEW c \in Conns, HubRegister(c)
      PROVE  Abstract!Join(c) \/ UNCHANGED Abstract!vars
    <2>1. CASE AtCap(c)
        BY <1>2, <2>1 DEF HubRegister, Abstract!vars
    <2>2. CASE ~AtCap(c)
        <3>1. c \notin clients /\ c \notin closing /\ ~done
            BY <1>1, <1>2 DEF HubRegister, Phases
        <3>2. Cardinality(clients) < MaxTotal
            BY <1>1, <2>2, FiniteConns DEF AtCap, TypeOK, HubAssumption
        <3>3. Cardinality({d \in clients : AccountID[d] = AccountID[c]}) < MaxPerAccount
            <4>1. AccountID[c] \in Accounts
                BY DEF HubAssumption
            <4>2. perAccount[AccountID[c]] = Cardinality(Of(AccountID[c], clients))
                    /\ perAccount[AccountID[c]] \in Nat
                BY <1>1, <4>1 DEF IndexesAgree, TypeOK
            <4> QED BY <2>2, <4>2 DEF AtCap, Of, HubAssumption
        <3>4. clients' = clients \cup {c} /\ closing' = closing /\ done' = done
            BY <1>2, <2>2 DEF HubRegister
        <3>5. c \notin clients \cup closing
            BY <3>1
        <3> QED BY <3>1, <3>2, <3>3, <3>4, <3>5, SameCardinality DEF Abstract!Join
    <2> QED BY <2>1, <2>2
<1>3. ASSUME NEW S \in SUBSET clients,
             clients' = clients \ S, closing' = closing \cup S,
             ~done, done' = done
      PROVE  \E T \in SUBSET clients : Abstract!Cut(T)
    <2>1. Abstract!Cut(S)
        BY <1>3 DEF Abstract!Cut
    <2> QED BY <2>1
<1>4. ASSUME NEW c \in Conns, HubUnregister(c)
      PROVE  \E T \in SUBSET clients : Abstract!Cut(T)
    <2> DEFINE S == {c} \cap clients
    <2>1. S \in SUBSET clients /\ clients' = clients \ S
        BY <1>4 DEF HubUnregister, Remove
    <2>2. closing' = closing \cup S /\ ~done /\ done' = done
        BY <1>1, <1>4 DEF HubUnregister, Phases
    <2> HIDE DEF S
    <2> QED BY <1>3, <2>1, <2>2
<1>5. ASSUME NEW S \in SUBSET clients, Deliver(S), ~done, done' = done,
             handler' = handler
      PROVE  \E T \in SUBSET clients : Abstract!Cut(T)
    BY <1>3, <1>5, DeliverKeeps
<1>6. ASSUME NEW c \in Conns, HubPublishTo(c)
      PROVE  \E T \in SUBSET clients : Abstract!Cut(T)
    BY <1>5, <1>6 DEF HubPublishTo
<1>7. CASE HubPublish
    <2>1. Head(publish) \in Rooms
        BY <1>1, <1>7 DEF TypeOK, HubPublish
    <2>2. rooms[Head(publish)] \in SUBSET clients
        BY <1>1, <2>1 DEF IndexesAgree
    <2>3. \E T \in SUBSET clients : Abstract!Cut(T)
        BY <1>5, <1>7, <2>2 DEF HubPublish
    <2> QED BY <2>3 DEF Abstract!Next
<1>8. CASE HubKick
    <2> DEFINE S == Of(Head(kick), clients)
    <2>1. /\ S \in SUBSET clients /\ clients' = clients \ S
          /\ closing' = closing \cup S /\ ~done /\ done' = done
        BY <1>8 DEF HubKick, Remove, Close, Of
    <2>2. \E T \in SUBSET clients : Abstract!Cut(T)
        <3> HIDE DEF S
        <3> QED BY <1>3, <2>1
    <2> QED BY <2>2 DEF Abstract!Next
<1>9. ASSUME NEW R \in SUBSET Conns, HubCloseSet(R)
      PROVE  \E T \in SUBSET clients : Abstract!Cut(T)
    <2> DEFINE S == R \cap clients
    <2>1. /\ S \in SUBSET clients /\ clients' = clients \ S
          /\ closing' = closing \cup S /\ ~done /\ done' = done
        BY <1>9 DEF HubCloseSet, Remove, Close
    <2> HIDE DEF S
    <2> QED BY <1>3, <2>1
<1>10. CASE HubStop
    <2>1. Abstract!Stop
        BY <1>10 DEF HubStop, Close, Abstract!Stop
    <2> QED BY <2>1 DEF Abstract!Next
<1>11. ASSUME NEW c \in Conns, ServeEnds(c)
       PROVE  Abstract!HangUp(c)
    BY <1>11 DEF ServeEnds, Close, Abstract!HangUp
<1>12. ASSUME \/ StopHub \/ UNCHANGED vars
              \/ \E c \in Conns :
                    \/ Upgrade(c) \/ RegisterReturns(c) \/ RegisterGivesUp(c)
                    \/ WritePump(c) \/ UnregisterGivesUp(c)
              \/ \E r \in Rooms : Publish(r)
              \/ \E a \in Accounts : KickAccount(a)
       PROVE  UNCHANGED Abstract!vars
    BY <1>12 DEF StopHub, Upgrade, RegisterReturns, RegisterGivesUp, WritePump,
                 UnregisterGivesUp, Publish, KickAccount, vars, Abstract!vars
<1> QED
    BY <1>2, <1>4, <1>6, <1>7, <1>8, <1>9, <1>10, <1>11, <1>12
    DEF Next, HubNext, CallerNext, Terminated, Abstract!Next

(* The hub, channels and counters and all, implements the abstract registry. *)
THEOREM Refinement == Spec => RegistrySpec
<1>1. IInv /\ [Next]_vars => [Abstract!Next]_(Abstract!vars)
    BY StepRefines
<1> QED BY <1>1, InitRefines, Invariance, PTL DEF Spec, RegistrySpec, Abstract!Spec
=============================================================================
