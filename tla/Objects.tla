------------------------------ MODULE Objects -------------------------------
(***************************************************************************)
(* What lies about in Vanyagotchi's world                                  *)
(* (src/internal/gamevanyagotchi/world.go, and the contests in             *)
(* service.go's Do): one key hidden at a spot of some location, one crate  *)
(* of beer, deposits that expire, the table they are rows of and the cache *)
(* the plane and the gates read.                                           *)
(*                                                                         *)
(* Players race: what a gate saw in the cache may have been taken, and     *)
(* replaced somewhere else, by the time the transaction runs.  The pets    *)
(* themselves are module Pets.                                             *)
(***************************************************************************)
EXTENDS Integers, FiniteSets

CONSTANTS
    Players,        \* handlers, each of an account of its own
    Locations,
    Spots,          \* the hotspots of every location
    Stock,          \* crateStock
    MaxLitter,      \* deposits lying in one location: a bound on this model
    PerLocation     \* worldLimitPerLocation

ASSUME ObjectsAssumption ==
    /\ Stock \in Nat \ {0} /\ MaxLitter \in Nat
    /\ PerLocation \in Nat \ {0, 1}     \* both fixtures may be in one place

VARIABLES
    world,      \* game_vanyagotchi_world_objects: the rows not exhausted
    cache,      \* Service.world
    h,          \* the handlers
    stocked,    \* history: the kinds that have once been stood up
    overtaken   \* history: the cache was last refreshed from a read the table had outrun

vars == <<world, cache, h, stocked, overtaken>>

Kinds == {"key", "crate"}
Nothing == [key |-> {}, crate |-> {}, litter |-> [l \in Locations |-> 0]]
Idle == [pc |-> "idle", kind |-> "key", loc |-> "", spot |-> "", read |-> Nothing, stale |-> FALSE]

Keys == [loc : Locations, spot : Spots]
Crates == [loc : Locations, left : 1..Stock]
Worlds == [key : SUBSET Keys, crate : SUBSET Crates, litter : [Locations -> 0..MaxLitter]]

TypeOK ==
    /\ world \in Worlds /\ cache \in Worlds
    /\ \A i \in Players :
          /\ h[i].pc \in {"idle", "ask", "insert", "claim", "draw", "leave", "load", "put"}
          /\ h[i].kind \in Kinds
          /\ h[i].loc \in Locations \cup {""} /\ h[i].spot \in Spots \cup {""}
          /\ h[i].read \in Worlds /\ h[i].stale \in BOOLEAN
    /\ stocked \subseteq Kinds /\ overtaken \in BOOLEAN

(* The first day of the game. *)
Init ==
    /\ world = Nothing /\ cache = Nothing
    /\ h = [i \in Players |-> Idle]
    /\ stocked = {} /\ overtaken = FALSE

-----------------------------------------------------------------------------
(* The table: postgres_repository.go *)

(* locationFor and placeFor: a place drawn at random, and for the hidden   *)
(* kind a hotspot of it.                                                   *)
Fresh(kind) == IF kind = "key" THEN Keys ELSE [loc : Locations, left : {Stock}]

(* InsertWorldObject of a singleton: the partial index admits one active   *)
(* row of a kind, and a conflict does nothing.                             *)
Insert(kind, w) ==
    IF w[kind] # {} THEN {w} ELSE {[w EXCEPT ![kind] = {o}] : o \in Fresh(kind)}

(* Mutant of Live: the newest first, whatever they are. *)
LiveNewestFirst(w) ==
    LET here(l, S) == {o \in S : o.loc = l /\ w.litter[l] < PerLocation - 1} IN
    [w EXCEPT !.key = UNION {here(l, w.key) : l \in Locations},
              !.crate = UNION {here(l, w.crate) : l \in Locations}]

(* LiveWorldObjects: at most PerLocation of each location, fixtures first. *)
Live(w) ==
    LET room(l) == PerLocation - Cardinality({o \in w.key : o.loc = l})
                               - Cardinality({o \in w.crate : o.loc = l})
    IN  [w EXCEPT !.litter = [l \in Locations |-> IF @[l] < room(l) THEN @[l] ELSE room(l)]]

(* The others' reads are behind once the table changes. *)
Changed(i, r) == [j \in Players |-> IF j = i THEN r ELSE [h[j] EXCEPT !.stale = TRUE]]

-----------------------------------------------------------------------------
(* A hello: ensureWorld and loadWorld *)

HelloStarts(i) ==
    /\ h[i].pc = "idle"
    /\ h' = [h EXCEPT ![i].pc = "ask"]
    /\ UNCHANGED <<world, cache, stocked, overtaken>>

(* ensureWorld's next kind, and then the load. *)
After(r) == IF r.kind = "key" THEN [r EXCEPT !.pc = "ask", !.kind = "crate"]
            ELSE [Idle EXCEPT !.pc = "load"]

(* ActiveSingleton, world-wide.  A failure skips this kind. *)
Asks(i) ==
    /\ h[i].pc = "ask"
    /\ \/ world[h[i].kind] = {} /\ h' = [h EXCEPT ![i].pc = "insert"]
       \/ h' = [h EXCEPT ![i] = After(@)]
    /\ UNCHANGED <<world, cache, stocked, overtaken>>

Inserts(i) ==
    /\ h[i].pc = "insert"
    /\ \/ \E w \in Insert(h[i].kind, world) :
             /\ world' = w /\ stocked' = stocked \cup {h[i].kind}
             /\ h' = IF w = world THEN [h EXCEPT ![i] = After(@)] ELSE Changed(i, After(h[i]))
       \/ h' = [h EXCEPT ![i] = After(@)] /\ UNCHANGED <<world, stocked>>
    /\ UNCHANGED <<cache, overtaken>>

(* loadWorld reads the table ... *)
Loads(i) ==
    /\ h[i].pc = "load"
    /\ \/ /\ h' = [h EXCEPT ![i] = [Idle EXCEPT !.pc = "put", !.read = Live(world)]]
          /\ UNCHANGED overtaken
       \/ h' = [h EXCEPT ![i] = Idle] /\ overtaken' = TRUE
    /\ UNCHANGED <<world, cache, stocked>>

(* Mutant of Puts: a read that the table has outrun is dropped. *)
PutsUnlessStale(i) ==
    /\ h[i].pc = "put"
    /\ cache' = (IF h[i].stale THEN cache ELSE h[i].read) /\ overtaken' = h[i].stale
    /\ h' = [h EXCEPT ![i] = Idle]
    /\ UNCHANGED <<world, stocked>>

(* ... and then takes the lock. *)
Puts(i) ==
    /\ h[i].pc = "put"
    /\ cache' = h[i].read /\ overtaken' = h[i].stale
    /\ h' = [h EXCEPT ![i] = Idle]
    /\ UNCHANGED <<world, stocked>>

-----------------------------------------------------------------------------
(* What is read from the cache, at the instant of the reader *)

(* worldNow and objectOf: the one of a kind, wherever it is. *)
ObjectOf(kind) == cache[kind]

(* props, and the store: a deposit is an entity of the frame and the crate *)
(* a block of its own; the key is in neither.                              *)
Frame == [props |-> cache.litter, store |-> ObjectOf("crate")]

-----------------------------------------------------------------------------
(* Verbs: the gates over the cache, then the transaction *)

(* searched, by somebody who has walked there: the place he names is where *)
(* the cache says the key is hidden.                                       *)
Searched(l, s) == [loc |-> l, spot |-> s] \in ObjectOf("key")

Searches(i, l, s) ==
    /\ h[i].pc = "idle" /\ Searched(l, s)
    /\ h' = [h EXCEPT ![i] = [Idle EXCEPT !.pc = "claim", !.loc = l, !.spot = s]]
    /\ UNCHANGED <<world, cache, stocked, overtaken>>

(* beside, by somebody who has walked there. *)
StandsBy(i, l) ==
    /\ h[i].pc = "idle" /\ \E c \in ObjectOf("crate") : c.loc = l
    /\ h' = [h EXCEPT ![i] = [Idle EXCEPT !.pc = "draw", !.loc = l]]
    /\ UNCHANGED <<world, cache, stocked, overtaken>>

Relieves(i, l) ==
    /\ h[i].pc = "idle"
    /\ h' = [h EXCEPT ![i] = [Idle EXCEPT !.pc = "leave", !.loc = l]]
    /\ UNCHANGED <<world, cache, stocked, overtaken>>

(* The transaction touched the world, so the cache is refreshed. *)
Touched(i, w) == world' = w /\ h' = Changed(i, [Idle EXCEPT !.pc = "load"])

(* ClaimSingleton: one conditional UPDATE by kind and location, and the    *)
(* replacement in the same transaction.                                    *)
Claims(i) ==
    /\ h[i].pc = "claim"
    /\ \E k \in world.key : k.loc = h[i].loc
    /\ \E w \in Insert("key", [world EXCEPT !.key = {k \in @ : k.loc # h[i].loc}]) : Touched(i, w)
    /\ UNCHANGED <<cache, stocked, overtaken>>

(* Mutant of Drawn: the replacement is left to the next hello. *)
DrawnDry(c) ==
    IF c.left > 1 THEN {[world EXCEPT !.crate = {[c EXCEPT !.left = @ - 1]}]}
    ELSE {[world EXCEPT !.crate = {}]}

(* Mutant of Drawn: the crate stands there empty. *)
DrawnToNought(c) == {[world EXCEPT !.crate = {[c EXCEPT !.left = @ - 1]}]}

(* DrawFromStock: the last draw exhausts the crate, and a fresh one is     *)
(* stood up somewhere.                                                     *)
Drawn(c) ==
    IF c.left > 1 THEN {[world EXCEPT !.crate = {[c EXCEPT !.left = @ - 1]}]}
    ELSE Insert("crate", [world EXCEPT !.crate = {}])

Draws(i) ==
    /\ h[i].pc = "draw"
    /\ \E c \in world.crate : c.loc = h[i].loc /\ \E w \in Drawn(c) : Touched(i, w)
    /\ UNCHANGED <<cache, stocked, overtaken>>

Leaves(i) ==
    /\ h[i].pc = "leave" /\ world.litter[h[i].loc] < MaxLitter
    /\ Touched(i, [world EXCEPT !.litter[h[i].loc] = @ + 1])
    /\ UNCHANGED <<cache, stocked, overtaken>>

(* Lost, out of stock, or refused by the database: rolled back. *)
Loses(i) ==
    /\ h[i].pc \in {"claim", "draw", "leave"}
    /\ h' = [h EXCEPT ![i] = Idle]
    /\ UNCHANGED <<world, cache, stocked, overtaken>>

-----------------------------------------------------------------------------
(* A copy of the rows when left deposits are live at l: the one that went may be in it. *)
Faded(w, l, left) ==
    {[w EXCEPT !.litter[l] = n] : n \in {w.litter[l], w.litter[l] - 1} \cap (0..left)}

(* Ten minutes pass: the row is no longer live, and nor is a copy of it. *)
Expires(l) ==
    /\ world.litter[l] > 0
    /\ world' = [world EXCEPT !.litter[l] = @ - 1]
    /\ cache' \in Faded(cache, l, world.litter[l] - 1)
    /\ \E reads \in [Players -> UNION {Faded(h[i].read, l, world.litter[l] - 1) : i \in Players}] :
          /\ \A i \in Players : reads[i] \in Faded(h[i].read, l, world.litter[l] - 1)
          /\ h' = [i \in Players |-> [h[i] EXCEPT !.read = reads[i]]]
    /\ UNCHANGED <<stocked, overtaken>>

Restart ==
    /\ h' = [i \in Players |-> Idle]
    /\ cache' = Nothing /\ overtaken' = FALSE
    /\ UNCHANGED <<world, stocked>>

Handler(i) ==
    \/ Asks(i) \/ Inserts(i)
    \/ Loads(i) \/ Puts(i) \/ Claims(i) \/ Draws(i) \/ Leaves(i) \/ Loses(i)

Next ==
    \/ \E i \in Players :
          \/ HelloStarts(i) \/ Handler(i)
          \/ \E l \in Locations : StandsBy(i, l) \/ Relieves(i, l)
          \/ \E l \in Locations, s \in Spots : Searches(i, l, s)
    \/ \E l \in Locations : Expires(l)
    \/ Restart

Spec == Init /\ [][Next]_vars

(* A handler goes on: each of its statements returns, well or badly. *)
FairObjects == Spec /\ \A i \in Players : WF_vars(Handler(i))

-----------------------------------------------------------------------------
(* Properties *)

(* There is never a second key or crate, and, once the first hello has     *)
(* stood one up, never none: whoever takes the last of it replaces it in   *)
(* the same transaction, whatever other hellos and contests are under way. *)
WorldIsStocked ==
    \A kind \in Kinds :
        /\ \A o, p \in world[kind] : o = p
        /\ kind \in stocked => world[kind] # {}

(* Once nobody is in the middle of anything, the frame shows the crate and *)
(* the search is judged by the key as they are in the table, however much  *)
(* litter lies in the same place, and no deposit is drawn that has gone -- *)
(* unless the last refresh had read the table before somebody else changed *)
(* it, or failed.                                                          *)
FixturesAreDrawn ==
    (\A i \in Players : h[i].pc = "idle") /\ ~overtaken /\ cache # Nothing =>
        /\ ObjectOf("key") = world.key /\ Frame.store = world.crate
        /\ \A l \in Locations : Frame.props[l] <= world.litter[l]

(* A read of the table that succeeds. *)
ReadsTable(i) == h[i].pc = "load" /\ h'[i].pc = "put"

(* What is wrong in the cache does not stay: an older read that replaced a *)
(* newer one, a refresh that failed, a search judged by a place the key    *)
(* has left.  However the reads overtake each other, once the key or the   *)
(* crate is where it is and the process stays up, the cache comes to show  *)
(* it there for good -- given that a read of the table still succeeds now  *)
(* and then (loadWorld, which every hello and every verb that touched the  *)
(* world ends in).                                                         *)
CacheIsPutRight ==
    \A kind \in Kinds :
        /\ []<><<\E i \in Players : ReadsTable(i)>>_vars
        /\ <>[][~Restart /\ world'[kind] = world[kind]]_vars
        => <>[](ObjectOf(kind) = world[kind])

(* world.go: "only somebody actually standing in a place is ever told      *)
(* whether it was empty", and one correct search is one key: but the       *)
(* UPDATE asks for the location alone (which takes a second spot to show). *)
ClaimIsSearched ==
    [][\A i \in Players : Claims(i) => [loc |-> h[i].loc, spot |-> h[i].spot] \in world.key]_vars

(* The cache that draws the world and judges the searches has its types,   *)
(* and is the world's.                                                     *)
CacheIsTrue == TypeOK /\ FixturesAreDrawn

=============================================================================
