------------------------------ MODULE Building ------------------------------
(***************************************************************************)
(* VANYADUM's service (internal/gamevanyadum/service.go): one building for *)
(* everybody, generated on demand and dropped when its last occupant goes, *)
(* and the loop that ticks it.                                             *)
(*                                                                         *)
(* A snapshot names people by SLOT, a place that is handed on when its     *)
(* holder leaves, and only the standings frame says whose slot it is.  The *)
(* module follows that directory from the slot table to each client        *)
(* (web/src/views/GameVanyadumView.vue), through a hub that may drop any   *)
(* frame for a slow socket, while hellos, purges and level fetches take    *)
(* the service's lock between two ticks.                                   *)
(*                                                                         *)
(* What an occupant does inside is module Commands.  The visit that is     *)
(* written down for one who left is not modelled.                          *)
(***************************************************************************)
EXTENDS Integers, FiniteSets

CONSTANTS
    Conns,          \* connections
    AccountOf,      \* connection -> account
    NoOne,          \* nobody holds this slot, or nobody is named for it
    MaxOccupants,
    AbandonGrace,   \* in ticks
    MaxWorlds,      \* bound: buildings generated
    MaxJoins,       \* bound: people let in
    MaxPurges       \* bound: purges of an account

Accounts == {AccountOf[c] : c \in Conns}
Slots == 0..(MaxOccupants - 1)
NoSlot == -1
NoBuilding == 0
Unpublished == -1

ASSUME BuildingAssumption ==
    /\ DOMAIN AccountOf = Conns
    /\ NoOne \notin Accounts
    /\ MaxOccupants \in Nat \ {0}
    /\ AbandonGrace \in Nat \ {0}
    /\ MaxWorlds \in Nat /\ MaxJoins \in Nat /\ MaxPurges \in Nat

VARIABLES
    world,          \* the building: its id, slot table, occupant map and roster version
    count,          \* how many buildings, joins and purges there have been
    boarded,        \* the connections that have been sent the standings
    publishedRoster,
    link,           \* connection -> where its socket is
    greeting,       \* connection -> the answer to a hello, not yet published
    client,         \* connection -> what the browser behind it holds
    loop,           \* the tick in progress
    out             \* the frames it has still to publish

service == <<world, count, boarded, publishedRoster>>
vars == <<service, link, greeting, client, loop, out>>

NoWorld == [id |-> NoBuilding, slots |-> [s \in Slots |-> NoOne],
            at |-> [a \in Accounts |-> NoSlot], unseen |-> [a \in Accounts |-> 0],
            roster |-> 0]
NoFrames == [slots |-> NoWorld.slots, board |-> {}, snap |-> {}]
NoAnswer == [kind |-> "none", id |-> NoBuilding]
NewClient == [held |-> NoBuilding, adopting |-> FALSE,
              dir |-> NoWorld.slots, gap |-> "none"]

TypeOK ==
    /\ world \in [id : 0..MaxWorlds, slots : [Slots -> Accounts \cup {NoOne}],
                  at : [Accounts -> Slots \cup {NoSlot}],
                  unseen : [Accounts -> 0..AbandonGrace],
                  roster : 0..(2 * MaxJoins)]
    /\ count \in [worlds : 0..MaxWorlds, joins : 0..MaxJoins, purges : 0..MaxPurges]
    /\ boarded \in SUBSET Conns
    /\ publishedRoster \in Unpublished..(2 * MaxJoins)
    /\ link \in [Conns -> {"none", "fetched", "open", "asked", "told", "cut", "gone"}]
    /\ greeting \in [Conns -> [kind : {"none", "ready", "full"}, id : 0..MaxWorlds]]
    /\ client \in [Conns -> [held : 0..MaxWorlds, adopting : BOOLEAN,
                             dir : [Slots -> Accounts \cup {NoOne}],
                             gap : {"none", "wiped", "lost"}]]
    /\ loop \in [pc : {"select", "members", "publish"}, conns : SUBSET Conns]
    /\ out \in [slots : [Slots -> Accounts \cup {NoOne}], board : SUBSET Conns,
                snap : SUBSET Conns]

Init ==
    /\ world = NoWorld
    /\ count = [worlds |-> 0, joins |-> 0, purges |-> 0]
    /\ boarded = {}
    /\ publishedRoster = 0
    /\ link = [c \in Conns |-> "none"]
    /\ greeting = [c \in Conns |-> NoAnswer]
    /\ client = [c \in Conns |-> NewClient]
    /\ loop = [pc |-> "select", conns |-> {}]
    /\ out = NoFrames

----------------------------------------------------------------------------
(* The roster (world.go). *)

OccupantsOf(w) == {a \in Accounts : w.at[a] # NoSlot}
Occupants == OccupantsOf(world)

(* A map that has forgotten the account, and the place it held. *)
Vacate(w, as) ==
    [w EXCEPT !.at = [a \in Accounts |-> IF a \in as THEN NoSlot ELSE @[a]],
              !.slots = [s \in Slots |-> IF @[s] \in as THEN NoOne ELSE @[s]],
              !.unseen = [a \in Accounts |-> IF a \in as THEN 0 ELSE @[a]]]

(* Mutant of Release: the place stays taken. *)
ReleaseKeepingSlot(w, as) ==
    [Vacate(w, as) EXCEPT !.slots = w.slots, !.roster = w.roster + Cardinality(as)]

(* release, for each of the accounts as. *)
Release(w, as) == [Vacate(w, as) EXCEPT !.roster = @ + Cardinality(as)]

FreeSlots(w) == {s \in Slots : w.slots[s] = NoOne}

(* Join: the occupant already here, or the lowest free place. *)
Join(w, a) ==
    IF a \in OccupantsOf(w) THEN [w EXCEPT !.unseen[a] = 0]
    ELSE LET s == CHOOSE s \in FreeSlots(w) : \A t \in FreeSlots(w) : s <= t
         IN  [w EXCEPT !.at[a] = s, !.slots[s] = a, !.unseen[a] = 0, !.roster = @ + 1]

Refused(w, a) == a \notin OccupantsOf(w) /\ FreeSlots(w) = {}

(* ensureWorld: the building, the count of them, the version published. *)
Ensured ==
    IF world.id # NoBuilding
    THEN [w |-> world, n |-> count.worlds, published |-> publishedRoster]
    ELSE [w |-> [NoWorld EXCEPT !.id = count.worlds + 1], n |-> count.worlds + 1,
          published |-> Unpublished]

Bounded == Ensured.n <= MaxWorlds

----------------------------------------------------------------------------
(* Clients and their sockets. *)

(* The links the hub holds: joined to the room, hello in hand, and answered. *)
Members == {"open", "asked", "told"}

(* GET /world, which generates the building if there is none. *)
Fetch(c) ==
    /\ link[c] = "none"
    /\ Bounded
    /\ world' = Ensured.w /\ publishedRoster' = Ensured.published
    /\ count' = [count EXCEPT !.worlds = Ensured.n]
    /\ client' = [client EXCEPT ![c].held = Ensured.w.id]
    /\ link' = [link EXCEPT ![c] = "fetched"]
    /\ UNCHANGED <<boarded, greeting, loop, out>>

(* The upgrade puts the socket in the room: it is a member from here on. *)
Open(c) ==
    /\ link[c] = "fetched"
    /\ link' = [link EXCEPT ![c] = "open"]
    /\ UNCHANGED <<service, greeting, client, loop, out>>

(***************************************************************************)
(* The hub has removed the socket, and no frame reaches it any more; a     *)
(* hello that was sent may still be waiting in its read pump.  The         *)
(* client's directory goes with the link (onStatus).                       *)
(***************************************************************************)
Cut(c) ==
    /\ link[c] \in Members
    /\ link' = [link EXCEPT ![c] = "cut"]
    /\ greeting' = [greeting EXCEPT ![c] = NoAnswer]
    /\ client' = [client EXCEPT ![c] = NewClient]
    /\ UNCHANGED <<service, loop, out>>

(* The read pump has ended, for good: an id is never used again. *)
PumpEnds(c) ==
    /\ link[c] = "cut"
    /\ link' = [link EXCEPT ![c] = "gone"]
    /\ UNCHANGED <<service, greeting, client, loop, out>>

(* The answer on its way; one to a connection already removed reaches nobody. *)
Greet(c, g) ==
    IF link[c] = "open"
    THEN link' = [link EXCEPT ![c] = "asked"] /\ greeting' = [greeting EXCEPT ![c] = g]
    ELSE UNCHANGED <<link, greeting>>

(* hello, under the lock: the join, and the connection leaves the ledger. *)
Hello(c) ==
    LET a == AccountOf[c] IN
    /\ link[c] \in {"open", "cut"}
    /\ Bounded
    /\ publishedRoster' = Ensured.published
    /\ IF Refused(Ensured.w, a)
       THEN /\ world' = Ensured.w
            /\ Greet(c, [kind |-> "full", id |-> NoBuilding])
            /\ count' = [count EXCEPT !.worlds = Ensured.n]
            /\ UNCHANGED boarded
       ELSE /\ world' = Join(Ensured.w, a)
            /\ Greet(c, [kind |-> "ready", id |-> Ensured.w.id])
            /\ count' = [count EXCEPT !.worlds = Ensured.n,
                                      !.joins = @ + IF a \in Occupants THEN 0 ELSE 1]
            /\ count'.joins <= MaxJoins
            /\ boarded' = boarded \ {c}
    /\ UNCHANGED <<client, loop, out>>

(* Mutant of Stale: a level already loaded is taken to be the right one. *)
StaleIfNone(c) == client[c].held = NoBuilding /\ ~client[c].adopting

(* The building it has been let into is not the one whose level it holds. *)
Stale(c) == greeting[c].id # client[c].held /\ ~client[c].adopting

(***************************************************************************)
(* hello, after the unlock: the answer is published, and the client reads  *)
(* it.  A building it is not holding makes it throw everything away        *)
(* (adoptBuilding, disposeWorld), unless it is doing so already; a full    *)
(* one sends it back to the splash, its socket closed (refused).  A client *)
(* whose answer was dropped may say hello again.                           *)
(***************************************************************************)
Answer(c) ==
    /\ link[c] = "asked"
    /\ greeting' = [greeting EXCEPT ![c] = NoAnswer]
    /\ \/ link' = [link EXCEPT ![c] = "open"] /\ UNCHANGED client       \* dropped
       \/ /\ greeting[c].kind = "ready"
          /\ link' = [link EXCEPT ![c] = "told"]
          /\ client' = IF ~Stale(c) THEN client
                       ELSE [client EXCEPT ![c].adopting = TRUE, ![c].dir = NoWorld.slots,
                                           ![c].gap = IF @ = "none" THEN "wiped" ELSE @]
       \/ /\ greeting[c].kind = "full"
          /\ link' = [link EXCEPT ![c] = "cut"]
          /\ client' = [client EXCEPT ![c] = NewClient]
    /\ UNCHANGED <<service, loop, out>>

(* adoptBuilding's fetch comes back; one that fails ends in the splash. *)
Adopt(c) ==
    /\ client[c].adopting
    /\ Bounded
    /\ world' = Ensured.w /\ publishedRoster' = Ensured.published
    /\ count' = [count EXCEPT !.worlds = Ensured.n]
    /\ client' = [client EXCEPT ![c].held = Ensured.w.id, ![c].adopting = FALSE]
    /\ UNCHANGED <<boarded, link, greeting, loop, out>>

(* PurgeAccount, of somebody inside; it changes nothing for anybody else. *)
PurgeAccount(a) ==
    /\ a \in Occupants
    /\ count.purges < MaxPurges
    /\ count' = [count EXCEPT !.purges = @ + 1]
    /\ world' = IF Occupants = {a} THEN NoWorld ELSE Release(world, {a})
    /\ UNCHANGED <<boarded, publishedRoster, link, greeting, client, loop, out>>

----------------------------------------------------------------------------
(* The loop. *)

(* A tick: Members, asked of the hub before the lock is taken. *)
Tick ==
    /\ loop.pc = "select"
    /\ loop' = [pc |-> "members", conns |-> {c \in Conns : link[c] \in Members}]
    /\ UNCHANGED <<service, link, greeting, client, out>>

(* Mutant of Aged: a connection that says nothing does not count. *)
AgedByConnection(w, conns) ==
    [a \in Accounts |-> IF a \notin OccupantsOf(w) THEN 0 ELSE w.unseen[a] + 1]

(* Seen, for everybody with a connection, and a tick gone by for the rest. *)
Aged(w, conns) ==
    [a \in Accounts |->
        IF a \notin OccupantsOf(w) \/ \E c \in conns : AccountOf[c] = a THEN 0
        ELSE w.unseen[a] + 1]

(* Mutant of Overdue: a tick late. *)
OverdueLate(n) == n > AbandonGrace + 1

(* Advance: long enough without a connection to have left. *)
Overdue(n) == n > AbandonGrace

(* Mutant of Directory: only the cadence and the roster send the standings. *)
DirectoryOnChangeOnly(due, served) == IF due THEN served ELSE {}

(* Who is sent the standings this tick: everybody, or whoever never was. *)
Directory(due, served) == IF due THEN served ELSE served \ boarded

(***************************************************************************)
(* step, under the lock.  cadence says that Tick is a multiple of          *)
(* standingsEvery; the tick's number matters to nothing else here.         *)
(***************************************************************************)
StepOccupied(cadence) ==
    LET aged   == Aged(world, loop.conns)
        left   == {a \in Occupants : Overdue(aged[a])}
        w      == Release([world EXCEPT !.unseen =
                              [a \in Accounts |-> IF a \in left THEN 0 ELSE aged[a]]], left)
        served == {c \in loop.conns : AccountOf[c] \in OccupantsOf(w)}
        due    == cadence \/ w.roster # publishedRoster
    IN
    /\ loop.pc = "members"
    /\ Occupants # {}
    /\ world' = IF OccupantsOf(w) = {} THEN NoWorld ELSE w
    /\ publishedRoster' = IF due THEN w.roster ELSE publishedRoster
    /\ out' = [slots |-> w.slots, board |-> Directory(due, served), snap |-> served]
    /\ boarded' = served
    /\ loop' = [pc |-> "publish", conns |-> {}]
    /\ UNCHANGED <<count, link, greeting, client>>

(* Nobody inside: neither advanced nor torn down. *)
StepEmpty ==
    /\ loop.pc = "members"
    /\ Occupants = {}
    /\ boarded' = {}
    /\ loop' = [pc |-> "select", conns |-> {}]
    /\ UNCHANGED <<world, count, publishedRoster, link, greeting, client, out>>

(***************************************************************************)
(* publish: the standings, ahead of the snapshot on each connection.  The  *)
(* hub drops the frames of the slow ones, whichever those are; what such a *)
(* client goes on believing is not followed until its next standings.      *)
(***************************************************************************)
PublishBoard ==
    /\ loop.pc = "publish"
    /\ out.board # {}
    /\ out' = [out EXCEPT !.board = {}]
    /\ \E lost \in SUBSET out.board :
           client' = [c \in Conns |->
               IF c \notin out.board \/ link[c] \notin Members THEN client[c]
               ELSE IF c \in lost THEN [client[c] EXCEPT !.dir = NoWorld.slots, !.gap = "lost"]
               ELSE [client[c] EXCEPT !.dir = out.slots, !.gap = "none"]]
    /\ UNCHANGED <<service, link, greeting, loop>>

(* Every snapshot has gone out, each behind its own connection's standings. *)
Published ==
    /\ loop.pc = "publish"
    /\ out.board = {}
    /\ out' = NoFrames
    /\ loop' = [pc |-> "select", conns |-> {}]
    /\ UNCHANGED <<service, link, greeting, client>>

----------------------------------------------------------------------------
ConnNext ==
    \E c \in Conns :
        \/ Fetch(c) \/ Open(c) \/ Cut(c) \/ PumpEnds(c)
        \/ Hello(c) \/ Answer(c) \/ Adopt(c)

LoopNext ==
    \/ Tick \/ StepEmpty \/ PublishBoard \/ Published
    \/ \E cadence \in BOOLEAN : StepOccupied(cadence)

Next ==
    \/ ConnNext
    \/ LoopNext
    \/ \E a \in Accounts : PurgeAccount(a)

Spec == Init /\ [][Next]_vars

----------------------------------------------------------------------------
(***************************************************************************)
(* "It is the ONLY way an occupant leaves, which is what keeps the slot    *)
(* table, the occupant map and the roster version unable to disagree"      *)
(* (release): every occupant holds exactly the place his record names.     *)
(***************************************************************************)
TablesAgree ==
    /\ \A a \in Occupants : world.slots[world.at[a]] = a
    /\ \A s \in Slots : world.slots[s] # NoOne => world.at[world.slots[s]] = s

(***************************************************************************)
(* "A SNAPSHOT NEVER NAMES A SLOT THE STANDINGS HAVE NOT" (boarded): by    *)
(* the time a snapshot reaches a client that draws it, that client's       *)
(* directory says who holds each slot it names.  A client that threw its   *)
(* directory away with its building may know nothing of a slot, and never  *)
(* anything false; only one whose standings frame the hub dropped may be   *)
(* wrong.                                                                  *)
(***************************************************************************)
SnapshotIsNamed ==
    \A c \in out.snap \ out.board :
        (link[c] \in Members /\ ~client[c].adopting /\ client[c].gap # "lost") =>
            \A s \in Slots :
                \/ out.slots[s] \in {NoOne, AccountOf[c]}
                \/ client[c].dir[s] = out.slots[s]
                \/ client[c].gap = "wiped" /\ client[c].dir[s] = NoOne

(***************************************************************************)
(* "nothing regenerates under anybody's feet" (Service.world): a client    *)
(* that has been let in draws the level of the building its account is in, *)
(* or is fetching it, however often buildings empty and are generated      *)
(* between its own fetch, its socket and its hello.                        *)
(***************************************************************************)
GeometryIsCurrent ==
    \A c \in Conns :
        (link[c] = "told" /\ AccountOf[c] \in Occupants) =>
            client[c].held = world.id \/ client[c].adopting

(***************************************************************************)
(* "Everybody with a connection is present, whether or not they sent       *)
(* anything" (step): a tick never takes out somebody whose client has been *)
(* let in and is still connected, although it counts the connections       *)
(* before it takes the lock.                                               *)
(***************************************************************************)
ConnectedStay ==
    [][\A c \in Conns :
          (link[c] = "told" /\ loop.pc = "members" /\ loop'.pc # "members"
              /\ AccountOf[c] \in Occupants) => AccountOf[c] \in Occupants']_vars

(***************************************************************************)
(* The roster, the slots, the standings and the level every browser holds  *)
(* are those of the one building that is open.                             *)
(***************************************************************************)
RosterIsSound == TypeOK /\ TablesAgree /\ SnapshotIsNamed /\ GeometryIsCurrent

=============================================================================
