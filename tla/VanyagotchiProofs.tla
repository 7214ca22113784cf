------------------------- MODULE VanyagotchiProofs --------------------------
(***************************************************************************)
(* Proofs about the yard's objects (Objects), about one placement in it    *)
(* (Yard) and about one account's pet (Pets), for any players, locations,  *)
(* hotspots, stock, limits, line, devices and hours.                       *)
(*                                                                         *)
(* Objects: the world is never without its key and its crate, nor with     *)
(* two. The invariant is inductive together with the types.  The types in  *)
(* turn need it: what LiveWorldObjects leaves of a location's litter is    *)
(* what the fixtures leave of its cap, and that is a number because there  *)
(* is at most one fixture of a kind.                                       *)
(*                                                                         *)
(* Yard: where a pet was last seen is not lost, by a departure written     *)
(* late, out of order or not at all, but in the ways that lost excuses;    *)
(* and a place somebody chose is not overwritten by one that nobody did.   *)
(* The invariant adds what the writer and the hello carry between two      *)
(* statements: what is on its way to the writer was chosen, and a sleeper  *)
(* is read with his place.                                                 *)
(*                                                                         *)
(* Pets: row, log, death and drawing tell one story. The invariant says    *)
(* what each handler carries between two statements: the pet as it was,    *)
(* and as it still is unless somebody else has written it since. What a    *)
(* commit then writes is what its event folds to, because neither decay    *)
(* nor a death derived from the rows asks whether a death is recorded.     *)
(* The closed form of the decay is the decay done hour by hour: it solves  *)
(* the recursion, and nothing else does.                                   *)
(***************************************************************************)
EXTENDS Objects, Yard, Pets, FiniteSetTheorems, SequenceTheorems, WellFoundedInduction, TLAPS

(* A handler between two statements. *)
Pcs == {"idle", "ask", "insert", "claim", "draw", "leave", "load", "put"}
HandlerType ==
    [pc : Pcs, kind : Kinds, loc : Locations \cup {""}, spot : Spots \cup {""},
     read : Worlds, stale : BOOLEAN]

WorldType == world \in Worlds
ReadType == h \in [Players -> HandlerType]
CacheType == cache \in Worlds
FlagType == stocked \subseteq Kinds /\ overtaken \in BOOLEAN

IInv == WorldType /\ ReadType /\ CacheType /\ FlagType /\ WorldIsStocked

(* At most one of a kind. *)
Single(S) == \A o, p \in S : o = p

-----------------------------------------------------------------------------
(* What the statements return *)

(* Nothing is a world. *)
LEMMA NothingType == Nothing \in Worlds
BY ObjectsAssumption DEF Nothing, Worlds

(* An idle handler is a handler. *)
LEMMA IdleType == Idle \in HandlerType
BY NothingType DEF Idle, HandlerType, Kinds, Pcs

(* The rows of a kind at one place are none or one. *)
LEMMA SingleCount ==
    ASSUME NEW S, Single(S), NEW l
    PROVE  Cardinality({o \in S : o.loc = l}) \in {0, 1}
<1>1. CASE {o \in S : o.loc = l} = {}
    BY <1>1, FS_EmptySet
<1>2. CASE {o \in S : o.loc = l} # {}
    <2>1. PICK x : x \in {o \in S : o.loc = l}
        BY <1>2
    <2>2. {o \in S : o.loc = l} = {x}
        BY <2>1 DEF Single
    <2> QED BY <2>2, FS_Singleton
<1> QED BY <1>1, <1>2

(* LiveWorldObjects returns a world: both fixtures fit the cap of a place. *)
LEMMA LiveType ==
    ASSUME NEW w \in Worlds, Single(w.key), Single(w.crate)
    PROVE  Live(w) \in Worlds
<1> DEFINE keysAt(l) == Cardinality({o \in w.key : o.loc = l})
           cratesAt(l) == Cardinality({o \in w.crate : o.loc = l})
           room(l) == PerLocation - keysAt(l) - cratesAt(l)
           left == [l \in Locations |-> IF w.litter[l] < room(l) THEN w.litter[l] ELSE room(l)]
<1>1. \A l \in Locations : left[l] \in 0..MaxLitter
    <2> SUFFICES ASSUME NEW l \in Locations PROVE left[l] \in 0..MaxLitter
        OBVIOUS
    <2>1. keysAt(l) \in {0, 1} /\ cratesAt(l) \in {0, 1}
        BY SingleCount
    <2>2. w.litter[l] \in 0..MaxLitter
        BY DEF Worlds
    <2> HIDE DEF keysAt, cratesAt
    <2> QED BY <2>1, <2>2, ObjectsAssumption
<1>2. left \in [Locations -> 0..MaxLitter]
    BY <1>1
<1>3. Live(w) = [w EXCEPT !.litter = left]
    BY DEF Live, Worlds
<1> HIDE DEF left
<1> QED BY <1>2, <1>3 DEF Worlds

(***************************************************************************)
(* InsertWorldObject leaves one row of the kind, the one that was there or *)
(* a fresh one, and no other row changed.                                  *)
(***************************************************************************)
LEMMA InsertOne ==
    ASSUME NEW kind \in Kinds, NEW w \in Worlds, NEW v \in Insert(kind, w), Single(w[kind])
    PROVE  /\ v \in Worlds
           /\ v[kind] # {} /\ Single(v[kind])
           /\ \A k \in Kinds \ {kind} : v[k] = w[k]
<1>1. CASE w[kind] # {}
    BY <1>1 DEF Insert
<1>2. CASE w[kind] = {}
    <2>1. PICK o \in Fresh(kind) : v = [w EXCEPT ![kind] = {o}]
        BY <1>2 DEF Insert
    <2>2. CASE kind = "key"
        <3>1. o \in Keys
            BY <2>2 DEF Fresh
        <3> QED BY <2>1, <2>2, <3>1 DEF Worlds, Kinds, Single
    <2>3. CASE kind = "crate"
        <3>1. o \in Crates
            BY <2>3, ObjectsAssumption DEF Fresh, Crates
        <3> QED BY <2>1, <2>3, <3>1 DEF Worlds, Kinds, Single
    <2> QED BY <2>2, <2>3 DEF Kinds
<1> QED BY <1>1, <1>2

(* ensureWorld goes on to a handler. *)
LEMMA AfterType ==
    ASSUME NEW r \in HandlerType
    PROVE  After(r) \in HandlerType
BY IdleType DEF After, HandlerType, Pcs, Kinds

(* Marking the others' reads stale leaves handlers. *)
LEMMA ChangedType ==
    ASSUME ReadType, NEW i \in Players, NEW r \in HandlerType
    PROVE  Changed(i, r) \in [Players -> HandlerType]
BY DEF Changed, ReadType, HandlerType

(* A copy of a world that has faded is a world. *)
LEMMA FadedType ==
    ASSUME NEW w \in Worlds, NEW l \in Locations, NEW left \in Nat, left <= MaxLitter,
           NEW v \in Faded(w, l, left)
    PROVE  v \in Worlds
<1>1. PICK n \in 0..left : v = [w EXCEPT !.litter[l] = n]
    BY DEF Faded
<1>2. n \in 0..MaxLitter
    BY ObjectsAssumption
<1> QED BY <1>1, <1>2 DEF Worlds

(* Both singletons are single. *)
LEMMA StockedSingle ==
    ASSUME WorldIsStocked
    PROVE  Single(world.key) /\ Single(world.crate)
BY DEF WorldIsStocked, Single, Kinds

-----------------------------------------------------------------------------
(* The steps *)

(* The first day is within the invariant. *)
LEMMA InitIInv == Init => IInv
<1> SUFFICES ASSUME Init PROVE IInv
    OBVIOUS
<1>1. WorldType /\ CacheType /\ FlagType
    BY NothingType DEF Init, WorldType, CacheType, FlagType
<1>2. ReadType
    BY IdleType DEF Init, ReadType
<1>3. WorldIsStocked
    BY DEF Init, WorldIsStocked, Nothing, Kinds
<1> QED BY <1>1, <1>2, <1>3 DEF IInv

(***************************************************************************)
(* Steps that touch neither the table nor the cache: a hello that begins,  *)
(* the question for a singleton, the gates and the rollback.               *)
(***************************************************************************)
LEMMA GatesKeep ==
    ASSUME IInv, NEW i \in Players,
           \/ HelloStarts(i) \/ Asks(i) \/ Loses(i)
           \/ \E l \in Locations : StandsBy(i, l) \/ Relieves(i, l)
           \/ \E l \in Locations, s \in Spots : Searches(i, l, s)
    PROVE  IInv'
<1>1. UNCHANGED <<world, cache, stocked, overtaken>>
    BY DEF HelloStarts, Asks, Loses, StandsBy, Relieves, Searches
<1>2. ReadType'
    <2>1. CASE HelloStarts(i)
        BY <2>1, ZenonT(60) DEF HelloStarts, IInv, ReadType, HandlerType, Pcs
    <2>2. CASE Asks(i)
        <3>1. h[i] \in HandlerType
            BY DEF IInv, ReadType
        <3>2. [h[i] EXCEPT !.pc = "insert"] \in HandlerType
            BY <3>1 DEF HandlerType, Pcs
        <3>3. After(h[i]) \in HandlerType
            BY <3>1, AfterType
        <3>4. \/ h' = [h EXCEPT ![i] = [h[i] EXCEPT !.pc = "insert"]]
              \/ h' = [h EXCEPT ![i] = After(h[i])]
            BY <2>2 DEF Asks
        <3> QED BY <3>2, <3>3, <3>4 DEF IInv, ReadType
    <2>3. CASE Loses(i)
        BY <2>3, IdleType DEF Loses, IInv, ReadType
    <2>4. ASSUME NEW l \in Locations, StandsBy(i, l) PROVE ReadType'
        BY <2>4, IdleType DEF StandsBy, IInv, ReadType, HandlerType, Pcs
    <2>5. ASSUME NEW l \in Locations, Relieves(i, l) PROVE ReadType'
        BY <2>5, IdleType DEF Relieves, IInv, ReadType, HandlerType, Pcs
    <2>6. ASSUME NEW l \in Locations, NEW s \in Spots, Searches(i, l, s) PROVE ReadType'
        <3> DEFINE r == [Idle EXCEPT !.pc = "claim", !.loc = l, !.spot = s]
        <3>1. r \in HandlerType
            BY IdleType DEF HandlerType, Pcs
        <3> HIDE DEF r
        <3> QED BY <2>6, <3>1 DEF Searches, r, IInv, ReadType
    <2> QED BY <2>1, <2>2, <2>3, <2>4, <2>5, <2>6
<1> QED BY <1>1, <1>2 DEF IInv, WorldType, CacheType, FlagType, WorldIsStocked

(* ensureSingleton stands one up where there is none, and only there. *)
LEMMA InsertsKeeps ==
    ASSUME IInv, NEW i \in Players, Inserts(i)
    PROVE  IInv'
<1>1. h[i] \in HandlerType /\ h[i].kind \in Kinds
    BY DEF IInv, ReadType, HandlerType
<1>2. After(h[i]) \in HandlerType
    BY <1>1, AfterType
<1>3. ReadType'
    BY <1>1, <1>2, ChangedType DEF Inserts, IInv, ReadType
<1>4. WorldType' /\ FlagType' /\ WorldIsStocked'
    <2>1. CASE UNCHANGED <<world, stocked>>
        BY <2>1 DEF Inserts, IInv, WorldType, FlagType, WorldIsStocked
    <2>2. ASSUME NEW w \in Insert(h[i].kind, world), world' = w, stocked' = stocked \cup {h[i].kind}
          PROVE  WorldType' /\ FlagType' /\ WorldIsStocked'
        <3>1. Single(world[h[i].kind])
            BY <1>1 DEF IInv, WorldIsStocked, Single
        <3>2. /\ w \in Worlds /\ w[h[i].kind] # {} /\ Single(w[h[i].kind])
              /\ \A k \in Kinds \ {h[i].kind} : w[k] = world[k]
            BY <1>1, <2>2, <3>1, InsertOne DEF IInv, WorldType
        <3>3. WorldIsStocked'
            BY <1>1, <2>2, <3>2 DEF IInv, WorldIsStocked, Single
        <3>4. FlagType'
            BY <1>1, <2>2 DEF Inserts, IInv, FlagType
        <3> QED BY <2>2, <3>2, <3>3, <3>4 DEF WorldType
    <2> QED BY <2>1, <2>2 DEF Inserts
<1> QED BY <1>3, <1>4 DEF IInv, CacheType, Inserts

(* loadWorld reads what is there and puts it into the cache. *)
LEMMA LoadsKeep ==
    ASSUME IInv, NEW i \in Players, Loads(i) \/ Puts(i)
    PROVE  IInv'
<1>1. Live(world) \in Worlds
    BY LiveType, StockedSingle DEF IInv, WorldType
<1>2. h[i] \in HandlerType
    BY DEF IInv, ReadType
<1>3. ReadType'
    <2>1. [Idle EXCEPT !.pc = "put", !.read = Live(world)] \in HandlerType
        BY <1>1, IdleType DEF HandlerType, Pcs
    <2>2. \/ h' = [h EXCEPT ![i] = [Idle EXCEPT !.pc = "put", !.read = Live(world)]]
          \/ h' = [h EXCEPT ![i] = Idle]
        BY DEF Loads, Puts
    <2> QED BY <2>1, <2>2, IdleType DEF IInv, ReadType
<1>4. CacheType' /\ FlagType'
    BY <1>2 DEF Loads, Puts, IInv, CacheType, FlagType, HandlerType
<1> QED BY <1>3, <1>4 DEF IInv, Loads, Puts, WorldType, WorldIsStocked

(* A transaction that touched the world goes on to refresh the cache. *)
LEMMA TouchedKeeps ==
    ASSUME IInv, NEW i \in Players, NEW w \in Worlds, Touched(i, w),
           \A k \in Kinds : Single(w[k]) /\ (world[k] # {} => w[k] # {}),
           UNCHANGED <<cache, stocked, overtaken>>
    PROVE  IInv'
<1>1. [Idle EXCEPT !.pc = "load"] \in HandlerType
    BY IdleType DEF HandlerType, Pcs
<1>2. ReadType'
    BY <1>1, ChangedType DEF Touched, IInv, ReadType
<1>3. WorldIsStocked'
    BY DEF Touched, IInv, WorldIsStocked, Single
<1> QED BY <1>2, <1>3 DEF IInv, Touched, WorldType, CacheType, FlagType

(* A claim takes the key and hides another in the same transaction. *)
LEMMA ClaimsKeeps ==
    ASSUME IInv, NEW i \in Players, Claims(i)
    PROVE  IInv'
<1> DEFINE others == [world EXCEPT !.key = {k \in @ : k.loc # h[i].loc}]
<1>1. others \in Worlds /\ Single(others.key) /\ others.crate = world.crate
    BY StockedSingle DEF IInv, WorldType, Worlds, Single
<1>2. PICK w \in Insert("key", others) : Touched(i, w)
    BY DEF Claims
<1> HIDE DEF others
<1>3. /\ w \in Worlds /\ w.key # {} /\ Single(w.key)
      /\ w.crate = world.crate
    BY <1>1, InsertOne DEF Kinds
<1>4. \A k \in Kinds : Single(w[k]) /\ (world[k] # {} => w[k] # {})
    BY <1>3, StockedSingle DEF IInv, Kinds
<1> QED BY <1>2, <1>3, <1>4, TouchedKeeps DEF Claims

(* A draw takes one from the crate, and the last one stands up another. *)
LEMMA DrawsKeeps ==
    ASSUME IInv, NEW i \in Players, Draws(i)
    PROVE  IInv'
<1>1. PICK c \in world.crate : \E w \in Drawn(c) : Touched(i, w)
    BY DEF Draws
<1>2. PICK w \in Drawn(c) : Touched(i, w)
    BY <1>1
<1>3. c \in Crates /\ world \in Worlds
    BY DEF IInv, WorldType, Worlds
<1>4. w \in Worlds /\ w.key = world.key /\ w.crate # {} /\ Single(w.crate)
    <2>1. CASE c.left > 1
        <3> DEFINE d == [c EXCEPT !.left = @ - 1]
        <3>1. d \in Crates
            BY <1>3, <2>1, ObjectsAssumption DEF Crates
        <3>2. w = [world EXCEPT !.crate = {d}]
            BY <2>1 DEF Drawn
        <3> HIDE DEF d
        <3> QED BY <1>3, <3>1, <3>2 DEF Worlds, Single
    <2>2. CASE ~(c.left > 1)
        <3> DEFINE others == [world EXCEPT !.crate = {}]
        <3>1. others \in Worlds /\ others.crate = {} /\ others.key = world.key
            BY <1>3 DEF Worlds
        <3>2. w \in Insert("crate", others)
            BY <2>2 DEF Drawn
        <3> HIDE DEF others
        <3> QED BY <3>1, <3>2, InsertOne DEF Kinds, Single
    <2> QED BY <2>1, <2>2
<1>5. \A k \in Kinds : Single(w[k]) /\ (world[k] # {} => w[k] # {})
    BY <1>4, StockedSingle DEF IInv, Kinds
<1> QED BY <1>2, <1>4, <1>5, TouchedKeeps DEF Draws

(* A deposit is added where it fell. *)
LEMMA LeavesKeeps ==
    ASSUME IInv, NEW i \in Players, Leaves(i)
    PROVE  IInv'
<1> DEFINE w == [world EXCEPT !.litter[h[i].loc] = @ + 1]
<1>1. w \in Worlds /\ w.key = world.key /\ w.crate = world.crate
    BY ObjectsAssumption DEF Leaves, IInv, WorldType, Worlds
<1>2. Touched(i, w)
    BY DEF Leaves
<1> HIDE DEF w
<1>3. \A k \in Kinds : Single(w[k]) /\ (world[k] # {} => w[k] # {})
    BY <1>1, StockedSingle DEF IInv, Kinds
<1> QED BY <1>1, <1>2, <1>3, TouchedKeeps DEF Leaves

(* A deposit that expires takes its copies with it. *)
LEMMA ExpiresKeeps ==
    ASSUME IInv, NEW l \in Locations, Expires(l)
    PROVE  IInv'
<1>1. world.litter[l] \in 1..MaxLitter
    BY ObjectsAssumption DEF Expires, IInv, WorldType, Worlds
<1>2. world.litter[l] - 1 \in Nat /\ world.litter[l] - 1 <= MaxLitter
    BY <1>1, ObjectsAssumption
<1>3. world' \in Worlds /\ world'.key = world.key /\ world'.crate = world.crate
    <2>1. world.litter[l] - 1 \in 0..MaxLitter
        BY <1>1, ObjectsAssumption
    <2>2. world' = [world EXCEPT !.litter = [@ EXCEPT ![l] = world.litter[l] - 1]]
        BY DEF Expires, IInv, WorldType, Worlds
    <2> QED BY <2>1, <2>2 DEF IInv, WorldType, Worlds
<1>4. cache' \in Worlds
    BY <1>2, FadedType DEF Expires, IInv, CacheType
<1>5. ReadType'
    <2>1. PICK reads : /\ \A i \in Players : reads[i] \in Faded(h[i].read, l, world.litter[l] - 1)
                       /\ h' = [i \in Players |-> [h[i] EXCEPT !.read = reads[i]]]
        BY DEF Expires
    <2>2. \A i \in Players : h[i] \in HandlerType /\ h[i].read \in Worlds
        BY DEF IInv, ReadType, HandlerType
    <2>3. \A i \in Players : reads[i] \in Worlds
        BY <1>2, <2>1, <2>2, FadedType
    <2> QED BY <2>1, <2>2, <2>3, ZenonT(60) DEF ReadType, HandlerType
<1>6. WorldIsStocked'
    BY <1>3 DEF Expires, IInv, WorldIsStocked, Kinds
<1> QED BY <1>3, <1>4, <1>5, <1>6 DEF IInv, WorldType, CacheType, FlagType, Expires

(* A new process starts with an empty cache over the same table. *)
LEMMA RestartKeeps == IInv /\ Restart => IInv'
BY IdleType, NothingType
DEF Restart, IInv, WorldType, ReadType, CacheType, FlagType, WorldIsStocked

-----------------------------------------------------------------------------
(* The cache *)

(* The fixtures of a copy are the table's. *)
Copies(c) == c.key = world.key /\ c.crate = world.crate

(* No copy of the rows, in the cache or in a handler's hand, lists a deposit that has gone. *)
NoGhosts ==
    \A l \in Locations :
        /\ cache.litter[l] <= world.litter[l]
        /\ \A i \in Players : h[i].read.litter[l] <= world.litter[l]

(* What has been read and not been outrun is what the table holds. *)
ReadsCopy == \A i \in Players : h[i].pc = "put" /\ ~h[i].stale => Copies(h[i].read)

(***************************************************************************)
(* Whoever changes the table goes on to refresh the cache, so the cache    *)
(* differs from it only while a refresh is still to come -- a hello loads  *)
(* the world at its end, whatever it found -- or after one failed or was   *)
(* outrun.                                                                 *)
(***************************************************************************)
Refreshing(i) == h[i].pc \in {"ask", "insert", "load", "put"}
CacheFollows ==
    ~overtaken /\ cache # Nothing => Copies(cache) \/ \E i \in Players : Refreshing(i)

Followed == NoGhosts /\ ReadsCopy /\ CacheFollows

(* A step of one handler that leaves the table and the cache alone. *)
LEMMA HandlerSteps ==
    ASSUME IInv, Followed, NEW i \in Players, NEW r \in HandlerType,
           h' = [h EXCEPT ![i] = r], UNCHANGED <<world, cache, overtaken>>,
           \A l \in Locations : r.read.litter[l] <= world.litter[l],
           r.pc = "put" /\ ~r.stale => Copies(r.read),
           Refreshing(i) => r.pc \in {"ask", "insert", "load", "put"}
    PROVE  Followed'
<1>1. h'[i] = r /\ \A j \in Players : j # i => h'[j] = h[j]
    BY DEF IInv, ReadType
<1>2. NoGhosts'
    BY <1>1 DEF Followed, NoGhosts
<1>3. ReadsCopy'
    BY <1>1 DEF Followed, ReadsCopy, Copies
<1>4. CacheFollows'
    <2>1. (\E j \in Players : Refreshing(j)) => \E j \in Players : Refreshing(j)'
        BY <1>1 DEF Refreshing
    <2> QED BY <2>1 DEF Followed, CacheFollows, Copies
<1> QED BY <1>2, <1>3, <1>4 DEF Followed

(* A change of the table outruns every other handler, and is followed by a refresh. *)
LEMMA TableMoves ==
    ASSUME IInv, Followed, NEW i \in Players, NEW r \in HandlerType,
           h' = Changed(i, r), r.pc \in {"ask", "load"}, UNCHANGED <<cache, overtaken>>,
           WorldType', \A l \in Locations : world.litter[l] <= world'.litter[l],
           \A l \in Locations : r.read.litter[l] <= world.litter[l]
    PROVE  Followed'
<1>1. /\ h'[i] = r
      /\ \A j \in Players : j # i => h'[j] = [h[j] EXCEPT !.stale = TRUE]
    BY DEF Changed
<1>2. \A j \in Players : j # i =>
          h'[j].pc = h[j].pc /\ h'[j].read = h[j].read /\ h'[j].stale
    <2> SUFFICES ASSUME NEW j \in Players, j # i
                 PROVE  h'[j].pc = h[j].pc /\ h'[j].read = h[j].read /\ h'[j].stale
        OBVIOUS
    <2>1. h'[j] = [h[j] EXCEPT !.stale = TRUE] /\ h[j] \in HandlerType
        BY <1>1 DEF IInv, ReadType
    <2>2. h'[j].pc = h[j].pc /\ h'[j].read = h[j].read
        BY <2>1 DEF HandlerType
    <2>3. h'[j].stale = TRUE
        BY <2>1 DEF HandlerType
    <2> QED BY <2>2, <2>3
<1>3. \A l \in Locations :
          /\ world.litter[l] \in Nat /\ world'.litter[l] \in Nat /\ cache.litter[l] \in Nat
          /\ \A j \in Players : h'[j].read.litter[l] \in Nat
    <2>1. \A w \in Worlds : \A l \in Locations : w.litter[l] \in Nat
        BY ObjectsAssumption DEF Worlds
    <2>2. \A j \in Players : h'[j].read \in Worlds
        BY <1>1, <1>2 DEF IInv, ReadType, HandlerType
    <2> QED BY <2>1, <2>2 DEF IInv, WorldType, CacheType
<1>4. NoGhosts'
    <2>1. \A l \in Locations, j \in Players : h'[j].read.litter[l] <= world.litter[l]
        BY <1>1, <1>2 DEF Followed, NoGhosts
    <2>2. \A l \in Locations : cache'.litter[l] <= world.litter[l] /\ cache'.litter[l] \in Nat
        BY <1>3 DEF Followed, NoGhosts
    <2> QED BY <1>3, <2>1, <2>2 DEF NoGhosts
<1>5. ReadsCopy'
    BY <1>1, <1>2 DEF ReadsCopy
<1>6. CacheFollows'
    BY <1>1 DEF CacheFollows, Refreshing
<1> QED BY <1>4, <1>5, <1>6 DEF Followed

(* The litter of what the statements return. *)
LEMMA InsertLitter ==
    ASSUME NEW kind \in Kinds, NEW w \in Worlds, NEW v \in Insert(kind, w)
    PROVE  v.litter = w.litter
BY DEF Insert, Worlds, Kinds

(* What is live of the table is a copy of it. *)
LEMMA LiveCopies ==
    ASSUME IInv
    PROVE  /\ Copies(Live(world))
           /\ \A l \in Locations : Live(world).litter[l] <= world.litter[l]
<1> DEFINE room(l) == PerLocation - Cardinality({o \in world.key : o.loc = l})
                                  - Cardinality({o \in world.crate : o.loc = l})
           left == [l \in Locations |-> IF world.litter[l] < room(l) THEN world.litter[l] ELSE room(l)]
<1>1. Live(world) = [world EXCEPT !.litter = left]
    BY DEF Live, IInv, WorldType, Worlds
<1>2. ASSUME NEW l \in Locations PROVE left[l] <= world.litter[l]
    <2>1. /\ Cardinality({o \in world.key : o.loc = l}) \in {0, 1}
          /\ Cardinality({o \in world.crate : o.loc = l}) \in {0, 1}
        BY SingleCount, StockedSingle DEF IInv
    <2>2. room(l) \in Int
        BY <2>1, ObjectsAssumption
    <2>3. world.litter[l] \in Nat
        BY ObjectsAssumption DEF IInv, WorldType, Worlds
    <2> HIDE DEF room
    <2> QED BY <2>2, <2>3
<1> HIDE DEF left
<1>3. /\ Live(world).litter = left /\ Live(world).key = world.key /\ Live(world).crate = world.crate
    BY <1>1 DEF IInv, WorldType, Worlds
<1> QED BY <1>2, <1>3 DEF Copies

(* An empty copy lists no deposit. *)
LEMMA NothingGone ==
    ASSUME WorldType
    PROVE  \A l \in Locations : Nothing.litter[l] <= world.litter[l]
<1>1. \A l \in Locations : world.litter[l] \in 0..MaxLitter
    BY DEF WorldType, Worlds
<1>2. \A l \in Locations : Nothing.litter[l] = 0
    BY DEF Nothing
<1> QED BY <1>1, <1>2, ObjectsAssumption

(* Where ensureWorld goes next: another kind, or the load. *)
LEMMA AfterFacts ==
    ASSUME IInv, Followed, NEW i \in Players
    PROVE  /\ After(h[i]) \in HandlerType /\ After(h[i]).pc \in {"ask", "load"}
           /\ \A l \in Locations : After(h[i]).read.litter[l] <= world.litter[l]
<1>1. h[i] \in HandlerType
    BY DEF IInv, ReadType
<1>2. After(h[i]) \in HandlerType
    BY <1>1, AfterType
<1>3. /\ After(h[i]).pc \in {"ask", "load"}
      /\ After(h[i]).read = h[i].read \/ After(h[i]).read = Nothing
    BY <1>1 DEF After, HandlerType, Idle
<1>4. \A l \in Locations : h[i].read.litter[l] <= world.litter[l]
    BY DEF Followed, NoGhosts
<1> QED BY <1>2, <1>3, <1>4, NothingGone DEF IInv

(* A hello begins, the gates are passed, a transaction is rolled back. *)
LEMMA GatesFollow ==
    ASSUME IInv, Followed, NEW i \in Players,
           \/ HelloStarts(i) \/ Asks(i) \/ Loses(i)
           \/ \E l \in Locations : StandsBy(i, l) \/ Relieves(i, l)
           \/ \E l \in Locations, s \in Spots : Searches(i, l, s)
    PROVE  Followed'
<1>1. UNCHANGED <<world, cache, overtaken>>
    BY DEF HelloStarts, Asks, Loses, StandsBy, Relieves, Searches
<1>2. h[i] \in HandlerType /\ \A l \in Locations : h[i].read.litter[l] <= world.litter[l]
    BY DEF IInv, ReadType, Followed, NoGhosts
<1>3. \A l \in Locations : Nothing.litter[l] <= world.litter[l]
    BY NothingGone DEF IInv
<1>4. CASE HelloStarts(i)
    <2> DEFINE r == [h[i] EXCEPT !.pc = "ask"]
    <2>1. r \in HandlerType /\ r.pc = "ask" /\ r.read = h[i].read
        BY <1>2 DEF HandlerType, Pcs
    <2>2. h' = [h EXCEPT ![i] = r]
        BY <1>4 DEF HelloStarts
    <2> HIDE DEF r
    <2> QED BY <1>1, <1>2, <2>1, <2>2, HandlerSteps
<1>5. CASE Asks(i)
    <2> DEFINE r == [h[i] EXCEPT !.pc = "insert"]
    <2>1. r \in HandlerType /\ r.pc = "insert" /\ r.read = h[i].read
        BY <1>2 DEF HandlerType, Pcs
    <2>2. h' = [h EXCEPT ![i] = r] \/ h' = [h EXCEPT ![i] = After(h[i])]
        BY <1>5 DEF Asks
    <2> HIDE DEF r
    <2>3. CASE h' = [h EXCEPT ![i] = r]
        BY <1>1, <1>2, <2>1, <2>3, HandlerSteps
    <2>4. CASE h' = [h EXCEPT ![i] = After(h[i])]
        BY <1>1, <2>4, AfterFacts, HandlerSteps
    <2> QED BY <2>2, <2>3, <2>4
<1>6. CASE Loses(i)
    <2>1. Idle \in HandlerType /\ Idle.pc = "idle" /\ Idle.read = Nothing
        BY IdleType DEF Idle
    <2>2. h' = [h EXCEPT ![i] = Idle] /\ ~Refreshing(i)
        BY <1>6 DEF Loses, Refreshing
    <2> QED BY <1>1, <1>3, <2>1, <2>2, HandlerSteps
<1>7. ASSUME NEW l \in Locations, NEW pc \in {"draw", "leave"}, h[i].pc = "idle",
             h' = [h EXCEPT ![i] = [Idle EXCEPT !.pc = pc, !.loc = l]]
      PROVE  Followed'
    <2> DEFINE r == [Idle EXCEPT !.pc = pc, !.loc = l]
    <2>1. r \in HandlerType /\ r.pc \in {"draw", "leave"} /\ r.read = Nothing
        BY IdleType DEF Idle, HandlerType, Pcs
    <2> HIDE DEF r
    <2>2. ~Refreshing(i)
        BY <1>7 DEF Refreshing
    <2> QED BY <1>1, <1>3, <1>7, <2>1, <2>2, HandlerSteps DEF r
<1>8. ASSUME NEW l \in Locations, NEW s \in Spots, Searches(i, l, s) PROVE Followed'
    <2> DEFINE r == [Idle EXCEPT !.pc = "claim", !.loc = l, !.spot = s]
    <2>1. r \in HandlerType /\ r.pc = "claim" /\ r.read = Nothing
        BY IdleType DEF Idle, HandlerType, Pcs
    <2>2. h' = [h EXCEPT ![i] = r] /\ ~Refreshing(i)
        BY <1>8 DEF Searches, Refreshing
    <2> HIDE DEF r
    <2> QED BY <1>1, <1>3, <2>1, <2>2, HandlerSteps
<1> QED BY <1>4, <1>5, <1>6, <1>7, <1>8 DEF StandsBy, Relieves

(* A singleton stood up outruns the other reads, and this hello has its load to come. *)
LEMMA InsertsFollow ==
    ASSUME IInv, Followed, NEW i \in Players, Inserts(i), WorldType'
    PROVE  Followed'
<1>1. UNCHANGED <<cache, overtaken>>
    BY DEF Inserts
<1>2. h[i].kind \in Kinds /\ world \in Worlds
    BY DEF IInv, ReadType, HandlerType, WorldType
<1>3. CASE world' = world /\ h' = [h EXCEPT ![i] = After(h[i])]
    BY <1>1, <1>3, AfterFacts, HandlerSteps
<1>4. CASE h' = Changed(i, After(h[i])) /\ world' \in Insert(h[i].kind, world)
    <2>1. world'.litter = world.litter
        BY <1>2, <1>4, InsertLitter
    <2>2. \A l \in Locations : world.litter[l] <= world'.litter[l]
        <3>1. \A l \in Locations : world.litter[l] \in 0..MaxLitter
            BY <1>2 DEF Worlds
        <3> QED BY <2>1, <3>1, ObjectsAssumption
    <2> QED BY <1>1, <1>4, <2>2, AfterFacts, TableMoves
<1> QED BY <1>3, <1>4 DEF Inserts

(* The refresh: read, then put. *)
LEMMA LoadsFollow ==
    ASSUME IInv, Followed, NEW i \in Players, Loads(i)
    PROVE  Followed'
<1>1. UNCHANGED <<world, cache>> /\ Refreshing(i)
    BY DEF Loads, Refreshing
<1>2. CASE h' = [h EXCEPT ![i] = [Idle EXCEPT !.pc = "put", !.read = Live(world)]] /\ UNCHANGED overtaken
    <2> DEFINE r == [Idle EXCEPT !.pc = "put", !.read = Live(world)]
    <2>1. Live(world) \in Worlds
        BY LiveType, StockedSingle DEF IInv, WorldType
    <2>2. r \in HandlerType /\ r.pc = "put" /\ r.read = Live(world)
        BY <2>1, IdleType DEF Idle, HandlerType, Pcs
    <2> HIDE DEF r
    <2> QED BY <1>1, <1>2, <2>2, LiveCopies, HandlerSteps DEF r
<1>3. CASE h' = [h EXCEPT ![i] = Idle] /\ overtaken' = TRUE
    <2>1. h'[i] = Idle /\ \A j \in Players : j # i => h'[j] = h[j]
        BY <1>3 DEF IInv, ReadType
    <2>2. Idle.pc = "idle" /\ Idle.read = Nothing
        BY DEF Idle
    <2>3. NoGhosts'
        BY <1>1, <2>1, <2>2, NothingGone DEF IInv, Followed, NoGhosts
    <2>4. ReadsCopy'
        BY <1>1, <2>1, <2>2 DEF Followed, ReadsCopy, Copies
    <2>5. CacheFollows'
        BY <1>3 DEF CacheFollows
    <2> QED BY <2>3, <2>4, <2>5 DEF Followed
<1> QED BY <1>2, <1>3 DEF Loads

(* A load that is put in the cache is the table, unless the table has moved. *)
LEMMA PutsFollow ==
    ASSUME IInv, Followed, NEW i \in Players, Puts(i)
    PROVE  Followed'
<1>1. /\ h[i].pc = "put" /\ cache' = h[i].read /\ overtaken' = h[i].stale
      /\ h' = [h EXCEPT ![i] = Idle] /\ world' = world
    BY DEF Puts
<1>2. h'[i] = Idle /\ \A j \in Players : j # i => h'[j] = h[j]
    BY <1>1 DEF IInv, ReadType
<1>3. Idle.pc = "idle" /\ Idle.read = Nothing
    BY DEF Idle
<1>4. NoGhosts'
    BY <1>1, <1>2, <1>3, NothingGone DEF IInv, Followed, NoGhosts
<1>5. ReadsCopy'
    BY <1>1, <1>2, <1>3 DEF Followed, ReadsCopy, Copies
<1>6. CacheFollows'
    <2>1. ASSUME ~overtaken' PROVE Copies(cache)'
        <3>1. ~h[i].stale
            BY <1>1, <2>1, Zenon
        <3> QED BY <1>1, <3>1 DEF Followed, ReadsCopy, Copies
    <2> QED BY <2>1 DEF CacheFollows
<1> QED BY <1>4, <1>5, <1>6 DEF Followed

(* A transaction that touched the world is followed by its own refresh. *)
LEMMA TouchedFollows ==
    ASSUME IInv, Followed, NEW i \in Players, NEW w \in Worlds, Touched(i, w),
           \A l \in Locations : world.litter[l] <= w.litter[l],
           UNCHANGED <<cache, overtaken>>
    PROVE  Followed'
<1> DEFINE r == [Idle EXCEPT !.pc = "load"]
<1>1. r \in HandlerType /\ r.pc = "load" /\ r.read = Nothing
    BY IdleType DEF Idle, HandlerType, Pcs
<1>2. h' = Changed(i, r) /\ world' = w /\ WorldType'
    BY DEF Touched, WorldType
<1> HIDE DEF r
<1>3. \A l \in Locations : r.read.litter[l] <= world.litter[l]
    BY <1>1, NothingGone DEF IInv
<1> QED BY <1>1, <1>2, <1>3, TableMoves

(* A verb's statement leaves a refresh of the cache to come. *)
LEMMA VerbsFollow ==
    ASSUME IInv, Followed, NEW i \in Players, Claims(i) \/ Draws(i) \/ Leaves(i), WorldType'
    PROVE  Followed'
<1>1. UNCHANGED <<cache, overtaken>> /\ world \in Worlds
    BY DEF Claims, Draws, Leaves, IInv, WorldType
<1>2. \A l \in Locations : world.litter[l] \in 0..MaxLitter
    BY <1>1 DEF Worlds
<1>3. ASSUME NEW w, Touched(i, w), w.litter = world.litter PROVE Followed'
    <2>1. w \in Worlds
        BY <1>3 DEF Touched, WorldType
    <2>2. \A l \in Locations : world.litter[l] <= w.litter[l]
        BY <1>2, <1>3, ObjectsAssumption
    <2> QED BY <1>1, <1>3, <2>1, <2>2, TouchedFollows
<1>4. CASE Claims(i)
    <2> DEFINE others == [world EXCEPT !.key = {k \in @ : k.loc # h[i].loc}]
    <2>1. others \in Worlds /\ others.litter = world.litter
        BY <1>1 DEF Worlds
    <2>2. PICK w \in Insert("key", others) : Touched(i, w)
        BY <1>4 DEF Claims
    <2> HIDE DEF others
    <2>3. w.litter = world.litter
        BY <2>1, InsertLitter DEF Kinds
    <2> QED BY <1>3, <2>2, <2>3
<1>5. CASE Draws(i)
    <2>1. PICK c \in world.crate : \E w \in Drawn(c) : Touched(i, w)
        BY <1>5 DEF Draws
    <2>2. PICK w \in Drawn(c) : Touched(i, w)
        BY <2>1
    <2>3. w.litter = world.litter
        <3> DEFINE others == [world EXCEPT !.crate = {}]
        <3>1. others \in Worlds /\ others.litter = world.litter
            BY <1>1 DEF Worlds
        <3>2. \/ \E C : w = [world EXCEPT !.crate = C]
              \/ w \in Insert("crate", others)
            BY <2>2 DEF Drawn
        <3> HIDE DEF others
        <3> QED BY <1>1, <3>1, <3>2, InsertLitter DEF Kinds, Worlds
    <2> QED BY <1>3, <2>2, <2>3
<1>6. CASE Leaves(i)
    <2> DEFINE n == world.litter[h[i].loc] + 1
               w == [world EXCEPT !.litter = [@ EXCEPT ![h[i].loc] = n]]
    <2>1. Touched(i, w)
        BY <1>6 DEF Leaves
    <2>2. w \in Worlds
        BY <2>1 DEF Touched, WorldType
    <2>3. w.litter = [world.litter EXCEPT ![h[i].loc] = n]
        BY <1>1 DEF Worlds
    <2> HIDE DEF w
    <2>4. \A l \in Locations : world.litter[l] <= w.litter[l]
        BY <1>1, <1>2, <2>3, ObjectsAssumption DEF Worlds
    <2> QED BY <1>1, <2>1, <2>2, <2>4, TouchedFollows
<1> QED BY <1>4, <1>5, <1>6

(* A copy that fades keeps its fixtures, and lists no more than is live. *)
LEMMA FadedFacts ==
    ASSUME NEW w \in Worlds, NEW l \in Locations, NEW left \in Nat, NEW v \in Faded(w, l, left)
    PROVE  /\ v.key = w.key /\ v.crate = w.crate /\ v.litter[l] <= left
           /\ \A m \in Locations : m # l => v.litter[m] = w.litter[m]
           /\ w = Nothing => v = Nothing
<1>1. PICK n \in {w.litter[l], w.litter[l] - 1} \cap (0..left) : v = [w EXCEPT !.litter[l] = n]
    BY DEF Faded
<1>2. /\ v.key = w.key /\ v.crate = w.crate /\ v.litter = [w.litter EXCEPT ![l] = n]
    BY <1>1 DEF Worlds
<1>3. v.litter[l] = n /\ n <= left /\ \A m \in Locations : m # l => v.litter[m] = w.litter[m]
    BY <1>2 DEF Worlds
<1>4. ASSUME w = Nothing PROVE v = Nothing
    <2>1. w.litter[l] = 0
        BY <1>4 DEF Nothing
    <2>2. n = 0
        BY <2>1
    <2>3. v = [w EXCEPT !.litter[l] = w.litter[l]]
        BY <1>1, <2>1, <2>2
    <2> QED BY <1>4, <2>3 DEF Worlds
<1> QED BY <1>2, <1>3, <1>4

(* A deposit expires in the table and in every copy of it at once. *)
LEMMA ExpiresFollow ==
    ASSUME IInv, Followed, NEW l \in Locations, Expires(l)
    PROVE  Followed'
<1> DEFINE left == world.litter[l] - 1
<1>1. PICK reads : /\ \A i \in Players : reads[i] \in Faded(h[i].read, l, left)
                   /\ h' = [i \in Players |-> [h[i] EXCEPT !.read = reads[i]]]
    BY DEF Expires
<1>2. /\ world' = [world EXCEPT !.litter[l] = left] /\ cache' \in Faded(cache, l, left)
      /\ overtaken' = overtaken /\ world.litter[l] > 0
    BY DEF Expires
<1>3. /\ world \in Worlds /\ cache \in Worlds
      /\ \A i \in Players : h[i] \in HandlerType /\ h[i].read \in Worlds
    BY DEF IInv, WorldType, CacheType, ReadType, HandlerType
<1>4. left \in Nat
    BY <1>2, <1>3, ObjectsAssumption DEF Worlds
<1> HIDE DEF left
<1>5. /\ world'.key = world.key /\ world'.crate = world.crate /\ world'.litter[l] = left
      /\ \A m \in Locations : m # l => world'.litter[m] = world.litter[m]
    BY <1>2, <1>3 DEF Worlds
<1>6. /\ cache'.key = cache.key /\ cache'.crate = cache.crate /\ cache'.litter[l] <= left
      /\ \A m \in Locations : m # l => cache'.litter[m] = cache.litter[m]
      /\ cache = Nothing => cache' = Nothing
    BY <1>2, <1>3, <1>4, FadedFacts
<1>7. \A i \in Players :
          /\ h'[i].pc = h[i].pc /\ h'[i].loc = h[i].loc /\ h'[i].spot = h[i].spot
          /\ h'[i].read = reads[i]
    BY <1>1, <1>3 DEF HandlerType
<1>8. \A i \in Players : h'[i].stale = h[i].stale
    BY <1>1, <1>3 DEF HandlerType
<1>9. \A i \in Players :
          /\ reads[i].key = h[i].read.key /\ reads[i].crate = h[i].read.crate
          /\ reads[i].litter[l] <= left
          /\ \A m \in Locations : m # l => reads[i].litter[m] = h[i].read.litter[m]
    BY <1>1, <1>3, <1>4, FadedFacts
<1>10. NoGhosts'
    BY <1>5, <1>6, <1>7, <1>9 DEF Followed, NoGhosts
<1>11. ReadsCopy'
    BY <1>5, <1>7, <1>8, <1>9 DEF Followed, ReadsCopy, Copies
<1>12. CacheFollows'
    <2>1. \A i \in Players : Refreshing(i)' <=> Refreshing(i)
        BY <1>7 DEF Refreshing
    <2> QED BY <1>2, <1>5, <1>6, <2>1 DEF Followed, CacheFollows, Copies
<1> QED BY <1>10, <1>11, <1>12 DEF Followed

(* A process that has just started holds no copy at all. *)
LEMMA BlankFollows ==
    ASSUME WorldType, cache = Nothing, \A i \in Players : h[i] = Idle
    PROVE  Followed
<1>1. Idle.pc = "idle" /\ Idle.read = Nothing
    BY DEF Idle
<1>2. NoGhosts
    BY <1>1, NothingGone DEF NoGhosts
<1>3. ReadsCopy /\ CacheFollows
    BY <1>1 DEF ReadsCopy, CacheFollows
<1> QED BY <1>2, <1>3 DEF Followed

(* A new process has an empty cache and nobody in the middle of anything. *)
LEMMA RestartFollows ==
    ASSUME IInv, Restart
    PROVE  Followed'
<1>1. WorldType' /\ cache' = Nothing /\ \A i \in Players : h'[i] = Idle
    BY DEF Restart, IInv, WorldType
<1>2. Idle.pc = "idle" /\ Idle.read = Nothing
    BY DEF Idle
<1>3. NoGhosts'
    <2>1. \A l \in Locations : Nothing.litter[l] <= world'.litter[l]
        BY NothingGone DEF Restart, IInv
    <2> QED BY <1>1, <1>2, <2>1 DEF NoGhosts
<1>4. ReadsCopy' /\ CacheFollows'
    BY <1>1, <1>2 DEF ReadsCopy, CacheFollows
<1> QED BY <1>3, <1>4 DEF Followed

-----------------------------------------------------------------------------
(* The theorems *)

(* The invariant holds in every state, for any number of players. *)
THEOREM Invariance == Spec => []IInv
<1>1. IInv /\ [Next]_vars => IInv'
    <2> SUFFICES ASSUME IInv, [Next]_vars PROVE IInv'
        OBVIOUS
    <2>1. CASE UNCHANGED vars
        BY <2>1 DEF vars, IInv, WorldType, ReadType, CacheType, FlagType, WorldIsStocked
    <2>2. ASSUME NEW i \in Players, Handler(i) PROVE IInv'
        BY <2>2, GatesKeep, InsertsKeeps, LoadsKeep, ClaimsKeeps, DrawsKeeps, LeavesKeeps
        DEF Handler
    <2>3. ASSUME NEW l \in Locations, Expires(l) PROVE IInv'
        BY <2>3, ExpiresKeeps
    <2> QED BY <2>1, <2>2, <2>3, GatesKeep, RestartKeeps DEF Next
<1> QED BY <1>1, InitIInv, PTL DEF Spec

(***************************************************************************)
(* There is never a second key or crate and, once stood up, never none,    *)
(* whoever claims, draws, says hello or crashes meanwhile (ensureSingleton, *)
(* ClaimSingleton, DrawFromStock).                                         *)
(***************************************************************************)
THEOREM WorldAlwaysStocked == Spec => []WorldIsStocked
BY Invariance, PTL DEF IInv

(***************************************************************************)
(* The table, the cache and what every handler has read keep their types:  *)
(* no crate stands empty, and no place lists fewer than no deposits.       *)
(***************************************************************************)
THEOREM TypeCorrect == Spec => []TypeOK
<1>1. IInv => TypeOK
    BY DEF IInv, WorldType, ReadType, CacheType, FlagType, HandlerType, Pcs, TypeOK
<1> QED BY <1>1, Invariance, PTL

(* The cache follows the table in every state, for any number of players. *)
THEOREM CacheFollowed == Spec => [](IInv /\ Followed)
<1>1. Init => IInv /\ Followed
    <2> SUFFICES ASSUME Init PROVE Followed
        BY InitIInv
    <2>1. WorldType /\ cache = Nothing /\ \A i \in Players : h[i] = Idle
        BY NothingType DEF Init, WorldType
    <2> QED BY <2>1, BlankFollows
<1>2. IInv /\ IInv' /\ Followed /\ [Next]_vars => Followed'
    <2> SUFFICES ASSUME IInv, IInv', Followed, [Next]_vars PROVE Followed'
        OBVIOUS
    <2>1. WorldType'
        BY DEF IInv
    <2>2. CASE UNCHANGED vars
        BY <2>2 DEF vars, Followed, NoGhosts, ReadsCopy, CacheFollows, Copies,
                    Refreshing
    <2>3. ASSUME NEW i \in Players, Handler(i) PROVE Followed'
        BY <2>1, <2>3, GatesFollow, InsertsFollow, LoadsFollow, PutsFollow, VerbsFollow
        DEF Handler
    <2>4. ASSUME NEW l \in Locations, Expires(l) PROVE Followed'
        BY <2>4, ExpiresFollow
    <2> QED BY <2>2, <2>3, <2>4, GatesFollow, RestartFollows DEF Next
<1> QED BY <1>1, <1>2, Invariance, PTL DEF Spec

(***************************************************************************)
(* Once nobody is in the middle of anything the cache shows the crate and  *)
(* judges by the key of the table, and draws no deposit that has gone,     *)
(* unless the last refresh failed or was outrun (loadWorld).               *)
(***************************************************************************)
THEOREM CacheAlwaysTrue == Spec => []CacheIsTrue
<1>1. Followed => FixturesAreDrawn
    BY DEF Followed, NoGhosts, CacheFollows, Refreshing, Copies, FixturesAreDrawn, ObjectOf, Frame
<1> QED BY <1>1, CacheFollowed, TypeCorrect, PTL DEF CacheIsTrue

-----------------------------------------------------------------------------
(* Yard *)

(* A placement handed to the writer is one that somebody chose; of a       *)
(* process that is down nothing is left.                                   *)
Noticed == pos.saved => pos.known /\ ~pos.prov
Gathered == stage = "down" => ~pos.saved

(* A sleeper is read with his place. *)
Reads == hello.pc = "sleeper" => hello.at \in Points

(* The inductive invariant. *)
YardInv == DeparturesAreSound /\ Noticed /\ Gathered /\ Reads

-----------------------------------------------------------------------------
(* Walking *)

(* The points are numbers; the other marks are none of them. *)
LEMMA Line ==
    /\ Points \subseteq Int /\ Spawn \in Points /\ Corner \in Points
    /\ None \notin Points /\ Other \notin Points /\ Gone \notin Points /\ NoRow \notin Points
    /\ Grace \in Nat /\ SavesBuffer \in Nat
BY YardAssumption DEF Points, Spawn, Corner, None, Other, Gone, NoRow

Walks == [at : Points, to : Points]
Placements ==
    [known : BOOLEAN, walk : Walks, prov : BOOLEAN, saved : BOOLEAN, away : 0..Grace]

(* A step of a walk stays on the line: it never passes its end. *)
LEMMA StepOnLine ==
    ASSUME NEW w \in Walks
    PROVE  Walked(w) \in Walks
<1>1. w.at \in 0..Far /\ w.to \in 0..Far /\ Far \in Nat
  BY YardAssumption DEF Walks, Points
<1> DEFINE a == IF w.at < w.to THEN w.at + 1 ELSE IF w.at > w.to THEN w.at - 1 ELSE w.at
<1>2. a \in Points
  BY <1>1 DEF Points
<1>3. Walked(w) = [w EXCEPT !.at = a]
  BY DEF Walked
<1> HIDE DEF a
<1> QED
  BY <1>2, <1>3 DEF Walks

(* A walk of no length stays on the line. *)
LEMMA StandingOnLine ==
    ASSUME NEW p \in Points
    PROVE  Standing(p) \in Walks
BY DEF Standing, Walks

(* The placement of nobody. *)
LEMMA ZeroPlaced == Zero \in Placements /\ ~Zero.saved /\ ~Zero.known
BY Line, StandingOnLine DEF Zero, Placements

(* A placement that is held is known, and otherwise what it was. *)
LEMMA HeldPlaced ==
    ASSUME pos \in Placements
    PROVE  /\ Held \in Placements /\ Held.known /\ Held.walk = pos.walk
           /\ Held.prov = pos.prov /\ Held.saved = pos.saved /\ Held.away = pos.away
BY DEF Held, Placements

(* The parts of a placement. *)
LEMMA Placed ==
    ASSUME pos \in Placements
    PROVE  /\ pos.known \in BOOLEAN /\ pos.walk \in Walks /\ pos.prov \in BOOLEAN
           /\ pos.saved \in BOOLEAN /\ pos.away \in 0..Grace
           /\ pos.walk.at \in Points /\ pos.walk.to \in Points
BY DEF Placements, Walks

(* Where a tap's walk ends is on the line. *)
LEMMA WalkEnds ==
    ASSUME NEW a \in Points, NEW p \in Points
    PROVE  Ends(a, p) \subseteq Points
BY DEF Ends

-----------------------------------------------------------------------------
(* The types *)

Stages == {"up", "stopping", "down"}
Loops == [pc : {"run", "flush", "done"}, at : Points \cup {None}]
Hellos == [pc : {"idle", "furnish", "sleeper", "find", "got"}, at : Points \cup {None}]

(* A departure appended to a queue with room in it, and the head taken. *)
LEMMA QueueGrows ==
    ASSUME NEW p \in Points \cup {Other}, queue \in Seq(Points \cup {Other}),
           Len(queue) < SavesBuffer
    PROVE  /\ Append(queue, p) \in Seq(Points \cup {Other})
           /\ Len(Append(queue, p)) <= SavesBuffer
<1> DEFINE S == Points \cup {Other}
<1>1. Append(queue, p) \in Seq(S) /\ Len(Append(queue, p)) = Len(queue) + 1
  BY AppendProperties
<1> QED
  BY <1>1, Line

(* Everything but the placement, the queue and the history. *)
OthersTyped ==
    /\ stage \in Stages /\ loop \in Loops
    /\ ticked \in BOOLEAN /\ furnished \in BOOLEAN
    /\ hello \in Hellos /\ going \in BOOLEAN
    /\ writer \in Points \cup {None, Other, Gone}
    /\ row \in Points \cup {None, NoRow}
PlaceTyped == pos \in Placements /\ rest \in Points \cup {None} /\ lost \in BOOLEAN
QueueTyped == queue \in Seq(Points \cup {Other}) /\ Len(queue) <= SavesBuffer

(* The types, in the groups that steps change together. *)
LEMMA TypesAre == YardTypeOK <=> OthersTyped /\ PlaceTyped /\ QueueTyped
BY DEF YardTypeOK, OthersTyped, PlaceTyped, QueueTyped, Placements, Walks, Stages, Loops, Hellos

(* The same after a step. *)
LEMMA TypesAreNext == YardTypeOK' <=> OthersTyped' /\ PlaceTyped' /\ QueueTyped'
BY DEF YardTypeOK, OthersTyped, PlaceTyped, QueueTyped, Placements, Walks, Stages, Loops, Hellos

(* A placement that is walked on, counted away, marked saved or not. *)
LEMMA PlacedWalked ==
    ASSUME NEW q \in Placements, NEW n \in 0..Grace, NEW b \in BOOLEAN
    PROVE  [q EXCEPT !.walk = Walked(@), !.away = n, !.saved = b] \in Placements
BY StepOnLine DEF Placements

(* Where the tick leaves the placement, the queue and the history. *)
LEMMA SaveTyped ==
    ASSUME YardTypeOK, NEW p \in Points, EnqueueSave(p)
    PROVE  QueueTyped' /\ lost' \in BOOLEAN
BY QueueGrows, TypesAre DEF EnqueueSave, QueueTyped

(* A tick that finds him there places him, and takes his departure back. *)
LEMMA PresentTyped ==
    ASSUME YardTypeOK, PlacePresent
    PROVE  PlaceTyped' /\ queue' = queue
           /\ pos'.known /\ ~pos'.saved /\ (pos.known => pos'.prov = pos.prov)
           /\ (pos.known => pos'.walk = Walked(pos.walk))
<1> DEFINE new == [Held EXCEPT !.walk = Standing(Spawn), !.prov = TRUE]
           q == IF pos.known THEN pos ELSE new
           r == [q EXCEPT !.walk = Walked(@), !.away = 0, !.saved = FALSE]
<1>1. pos \in Placements /\ Held \in Placements /\ Held.known
  BY TypesAre, HeldPlaced DEF PlaceTyped
<1>2. new \in Placements /\ new.known
  BY <1>1, Line, StandingOnLine DEF Placements
<1>3. q \in Placements /\ q.known /\ (pos.known => q = pos)
  BY <1>1, <1>2
<1>4. pos' = r /\ rest' = None /\ lost' = FALSE /\ queue' = queue
  BY DEF PlacePresent
<1> HIDE DEF q
<1>5. r \in Placements /\ r.known = q.known /\ r.saved = FALSE /\ r.prov = q.prov
      /\ r.walk = Walked(q.walk)
  <2>1. 0 \in 0..Grace
    BY Line
  <2>2. r \in Placements
    BY <1>3, <2>1, PlacedWalked
  <2> QED
    BY <1>3, <2>2 DEF Placements
<1> HIDE DEF r
<1> QED
  BY <1>3, <1>4, <1>5 DEF PlaceTyped

(* The placement of somebody away, one tick later. *)
Absent == [pos EXCEPT !.walk = Walked(@), !.away = IF @ < Grace THEN @ + 1 ELSE @]

(* A tick of his absence moves him along his walk and nothing else. *)
LEMMA AbsentPlaced ==
    ASSUME pos \in Placements
    PROVE  /\ Absent \in Placements /\ Absent.known = pos.known /\ Absent.prov = pos.prov
           /\ Absent.saved = pos.saved /\ Absent.walk = Walked(pos.walk)
           /\ Absent.walk.at \in Points
<1> DEFINE n == IF pos.away < Grace THEN pos.away + 1 ELSE pos.away
<1>1. n \in 0..Grace
  BY Line DEF Placements
<1>2. Absent = [pos EXCEPT !.walk = Walked(@), !.away = n]
  BY DEF Absent
<1> HIDE DEF n
<1>3. Walked(pos.walk) \in Walks
  BY Placed, StepOnLine
<1> QED
  BY <1>1, <1>2, <1>3 DEF Placements, Walks

(* It writes his departure down once, or forgets a place nobody chose. *)
LEMMA AbsentTyped ==
    ASSUME YardTypeOK, PlaceAbsent
    PROVE  PlaceTyped' /\ QueueTyped'
           /\ \/ /\ ~pos.saved /\ ~pos.prov
                 /\ pos'.known = pos.known /\ ~pos'.prov /\ pos'.saved
                 /\ pos'.walk = Walked(pos.walk)
                 /\ EnqueueSave(rest') /\ rest' \in Points
              \/ /\ pos.saved \/ pos.prov
                 /\ pos' = Absent \/ (pos.prov /\ pos' = Zero)
                 /\ UNCHANGED <<queue, rest, lost>>
<1>1. pos \in Placements /\ PlaceTyped /\ QueueTyped
  BY TypesAre DEF PlaceTyped
<1>2. /\ Absent \in Placements /\ Absent.known = pos.known /\ Absent.prov = pos.prov
      /\ Absent.saved = pos.saved /\ Absent.walk = Walked(pos.walk)
      /\ Absent.walk.at \in Points
  BY <1>1, AbsentPlaced
<1>3. PlaceAbsent <=>
        IF ~Absent.saved /\ ~Absent.prov
        THEN pos' = [Absent EXCEPT !.saved = TRUE] /\ EnqueueSave(Absent.walk.at)
             /\ rest' = Absent.walk.at
        ELSE pos' = (IF Absent.prov /\ Absent.away = Grace THEN Zero ELSE Absent)
             /\ UNCHANGED <<queue, rest, lost>>
  BY DEF PlaceAbsent, Absent
<1>4. CASE ~pos.saved /\ ~pos.prov
  <2>1. /\ pos' = [Absent EXCEPT !.saved = TRUE] /\ EnqueueSave(Absent.walk.at)
        /\ rest' = Absent.walk.at
    BY <1>2, <1>3, <1>4
  <2>2. /\ pos' \in Placements /\ pos'.known = pos.known /\ ~pos'.prov /\ pos'.saved
        /\ pos'.walk = Walked(pos.walk)
    BY <1>2, <1>4, <2>1 DEF Placements
  <2>3. QueueTyped' /\ lost' \in BOOLEAN
    BY <1>2, <2>1, SaveTyped
  <2>4. EnqueueSave(rest') /\ rest' \in Points
    BY <1>2, <2>1
  <2> QED
    BY <1>4, <2>2, <2>3, <2>4 DEF PlaceTyped
<1>5. CASE pos.saved \/ pos.prov
  <2>1. /\ pos' = (IF Absent.prov /\ Absent.away = Grace THEN Zero ELSE Absent)
        /\ UNCHANGED <<queue, rest, lost>>
    BY <1>2, <1>3, <1>5
  <2>2. pos' = Absent \/ (pos.prov /\ pos' = Zero)
    BY <1>2, <2>1
  <2>3. PlaceTyped' /\ QueueTyped'
    BY <1>1, <1>2, <2>1, <2>2, ZeroPlaced DEF PlaceTyped, QueueTyped
  <2> QED
    BY <1>5, <2>1, <2>2, <2>3
<1> QED
  BY <1>1, <1>4, <1>5, Placed

(* Every step keeps the types. *)
LEMMA YardTypeStep ==
    ASSUME YardTypeOK, Reads, [YardNext]_yardVars
    PROVE  YardTypeOK'
<1>0. OthersTyped /\ PlaceTyped /\ QueueTyped /\ pos \in Placements
  BY TypesAre DEF PlaceTyped
<1>1. Held \in Placements
  BY <1>0, HeldPlaced
<1>2. ASSUME NEW p \in Points \ {Corner}, Tap(p) PROVE YardTypeOK'
  <2> DEFINE from == IF pos.known THEN pos.walk.at ELSE Spawn
  <2>1. from \in Points
    BY <1>0, Placed, Line
  <2>2. PICK end \in Ends(from, p) :
          pos' = [Held EXCEPT !.prov = FALSE,
                              !.walk = IF ticked THEN [at |-> from, to |-> end] ELSE Standing(p)]
    BY <1>2 DEF Tap
  <2> HIDE DEF from
  <2>3. end \in Points
    BY <2>1, WalkEnds
  <2> DEFINE w == IF ticked THEN [at |-> from, to |-> end] ELSE Standing(p)
  <2>4. w \in Walks
    BY <2>1, <2>3, StandingOnLine DEF Walks
  <2>5. pos' = [Held EXCEPT !.prov = FALSE, !.walk = w]
    BY <2>2
  <2> HIDE DEF w
  <2>6. pos' \in Placements
    BY <1>1, <2>4, <2>5 DEF Placements
  <2>7. PlaceTyped' /\ OthersTyped' /\ QueueTyped'
    BY <1>0, <1>2, <2>6 DEF Tap, PlaceTyped, OthersTyped, QueueTyped
  <2> QED
    BY <2>7, TypesAreNext
<1>3. CASE AllowVerb \/ GoStarts \/ GoFails
  <2>1. PlaceTyped' /\ OthersTyped' /\ QueueTyped'
    BY <1>0, <1>1, <1>3 DEF AllowVerb, GoStarts, GoFails, PlaceTyped, OthersTyped, QueueTyped
  <2> QED
    BY <2>1, TypesAreNext
<1>4. CASE Arrive
  <2>1. pos' \in Placements
    BY <1>1, <1>4, Line, StandingOnLine DEF Arrive, Placements
  <2>2. PlaceTyped' /\ OthersTyped' /\ QueueTyped'
    BY <1>0, <1>4, <2>1 DEF Arrive, PlaceTyped, OthersTyped, QueueTyped
  <2> QED
    BY <2>2, TypesAreNext
<1>5. CASE EnsurePet
  <2>1. PlaceTyped' /\ OthersTyped' /\ QueueTyped'
    BY <1>0, <1>5 DEF EnsurePet, PlaceTyped, OthersTyped, QueueTyped
  <2> QED
    BY <2>1, TypesAreNext
<1>6. CASE HelloArrives \/ SleepingPets \/ FindPet
  <2>1. hello' \in Hellos /\ furnished' \in BOOLEAN
    <3>0. hello \in Hellos /\ furnished \in BOOLEAN /\ Rest \in Hellos
          /\ row \in Points \cup {None, NoRow}
      BY <1>0 DEF OthersTyped, Hellos, Rest
    <3>1. CASE HelloArrives
      BY <3>0, <3>1 DEF HelloArrives, Hellos
    <3>2. CASE SleepingPets
      <4>1. /\ [Rest EXCEPT !.pc = "find"] \in Hellos
            /\ row \in Points => [pc |-> "sleeper", at |-> row] \in Hellos
        BY <3>0 DEF Hellos
      <4> QED
        BY <3>0, <3>2, <4>1 DEF SleepingPets
    <3>3. CASE FindPet
      BY <3>0, <3>3 DEF FindPet, Hellos
    <3> QED
      BY <1>6, <3>1, <3>2, <3>3
  <2>2. PlaceTyped' /\ OthersTyped' /\ QueueTyped'
    BY <1>0, <1>6, <2>1 DEF HelloArrives, SleepingPets, FindPet, PlaceTyped, OthersTyped, QueueTyped
  <2> QED
    BY <2>2, TypesAreNext
<1>7. CASE Sleeper
  <2>1. hello.at \in Points /\ hello' \in Hellos
    BY <1>0, <1>7 DEF Sleeper, OthersTyped, Hellos, Rest, Reads
  <2>2. PlaceTyped'
    <3>1. CASE pos.known
      BY <1>0, <1>7, <3>1 DEF Sleeper, PlaceTyped
    <3>2. CASE ~pos.known
      <4>1. /\ pos' = [Zero EXCEPT !.known = TRUE, !.walk = Standing(hello.at), !.saved = TRUE]
            /\ rest' = hello.at /\ lost' = (row # hello.at \/ Pending)
        BY <1>7, <3>2 DEF Sleeper
      <4>2. Standing(hello.at) \in Walks
        BY <2>1, StandingOnLine
      <4>3. pos' \in Placements
        BY <4>1, <4>2, ZeroPlaced DEF Placements
      <4>4. lost' \in BOOLEAN
        BY <4>1
      <4> QED
        BY <2>1, <4>1, <4>3, <4>4 DEF PlaceTyped
    <3> QED
      BY <3>1, <3>2
  <2>3. OthersTyped' /\ QueueTyped'
    BY <1>0, <1>7, <2>1 DEF Sleeper, OthersTyped, QueueTyped
  <2> QED
    BY <2>2, <2>3, TypesAreNext
<1>8. CASE PutBack
  <2>1. hello.at \in Points \cup {None} /\ hello' \in Hellos
    BY <1>0, <1>8 DEF PutBack, OthersTyped, Hellos, Rest
  <2>2. pos' = (IF hello.at # None /\ (~pos.known \/ pos.prov)
               THEN [Held EXCEPT !.walk = Standing(hello.at), !.prov = FALSE] ELSE pos)
    BY <1>8 DEF PutBack
  <2>3. hello.at # None => Standing(hello.at) \in Walks
    BY <2>1, StandingOnLine
  <2>4. pos' \in Placements
    BY <1>0, <1>1, <2>2, <2>3 DEF Placements
  <2>5. PlaceTyped' /\ OthersTyped' /\ QueueTyped'
    BY <1>0, <1>8, <2>1, <2>4 DEF PutBack, PlaceTyped, OthersTyped, QueueTyped
  <2> QED
    BY <2>5, TypesAreNext
<1>9. CASE Forget
  <2>1. PlaceTyped' /\ OthersTyped' /\ QueueTyped'
    BY <1>0, <1>9, ZeroPlaced DEF Forget, PlaceTyped, OthersTyped, QueueTyped
  <2> QED
    BY <2>1, TypesAreNext
<1>10. CASE Tick
  <2>1. OthersTyped'
    BY <1>0, <1>10 DEF Tick, OthersTyped, Loops
  <2>2. PlaceTyped' /\ QueueTyped'
    <3>1. CASE PlacePresent
      BY <1>0, <3>1, PresentTyped DEF QueueTyped
    <3>2. CASE PlaceAbsent
      BY <1>0, <3>2, AbsentTyped
    <3>3. CASE UNCHANGED <<pos, queue, rest, lost>>
      BY <1>0, <3>3 DEF PlaceTyped, QueueTyped
    <3> QED
      BY <1>10, <3>1, <3>2, <3>3 DEF Tick
  <2> QED
    BY <2>1, <2>2, TypesAreNext
<1>11. CASE TickRefused \/ FlushReads
  <2>1. loop.at \in Points \cup {None} /\ Walked(pos.walk).at \in Points /\ pos.walk.at \in Points
    BY <1>0, Placed, StepOnLine DEF OthersTyped, Loops, Walks
  <2>2. loop' \in Loops
    BY <1>0, <1>11, <2>1 DEF TickRefused, FlushReads, OthersTyped, Loops
  <2>3. PlaceTyped' /\ OthersTyped' /\ QueueTyped'
    BY <1>0, <1>11, <2>2 DEF TickRefused, FlushReads, PlaceTyped, OthersTyped, QueueTyped
  <2> QED
    BY <2>3, TypesAreNext
<1>12. CASE FlushWrites
  <2>1. loop.at \in Points \cup {None} /\ loop' \in Loops
    BY <1>0, <1>12 DEF FlushWrites, OthersTyped, Loops
  <2>2. row' \in Points \cup {None, NoRow}
    BY <1>0, <1>12, <2>1 DEF FlushWrites, Stored, OthersTyped
  <2>3. PlaceTyped' /\ OthersTyped' /\ QueueTyped'
    BY <1>0, <1>12, <2>1, <2>2 DEF FlushWrites, PlaceTyped, OthersTyped, QueueTyped
  <2> QED
    BY <2>3, TypesAreNext
<1>13. CASE OthersLeave
  <2>1. QueueTyped'
    BY <1>0, <1>13, QueueGrows DEF OthersLeave, QueueTyped
  <2>2. PlaceTyped' /\ OthersTyped'
    BY <1>0, <1>13 DEF OthersLeave, PlaceTyped, OthersTyped
  <2> QED
    BY <2>1, <2>2, TypesAreNext
<1>14. CASE WriterTakes
  <2>1. /\ Head(queue) \in Points \cup {Other} /\ QueueTyped'
    BY <1>0, <1>14, Line DEF WriterTakes, QueueTyped
  <2>2. PlaceTyped' /\ OthersTyped'
    BY <1>0, <1>14, <2>1 DEF WriterTakes, PlaceTyped, OthersTyped
  <2> QED
    BY <2>1, <2>2, TypesAreNext
<1>15. CASE SavePosition
  <2>1. writer \in Points \cup {Other}
    BY <1>0, <1>15 DEF SavePosition, OthersTyped
  <2>2. row' \in Points \cup {None, NoRow}
    BY <1>0, <1>15, <2>1, Line DEF SavePosition, Stored, OthersTyped
  <2>3. lost' \in BOOLEAN
    BY <1>0, <1>15 DEF SavePosition, PlaceTyped
  <2>4. PlaceTyped' /\ OthersTyped' /\ QueueTyped'
    BY <1>0, <1>15, <2>2, <2>3 DEF SavePosition, PlaceTyped, OthersTyped, QueueTyped
  <2> QED
    BY <2>4, TypesAreNext
<1>16. CASE WriterReturns
  <2>1. lost' \in BOOLEAN
    BY <1>0, <1>16 DEF WriterReturns, PlaceTyped
  <2>2. PlaceTyped' /\ OthersTyped' /\ QueueTyped'
    BY <1>0, <1>16, <2>1 DEF WriterReturns, PlaceTyped, OthersTyped, QueueTyped
  <2> QED
    BY <2>2, TypesAreNext
<1>17. CASE Stop \/ Boot
  <2>1. PlaceTyped' /\ OthersTyped' /\ QueueTyped'
    BY <1>0, <1>17 DEF Stop, Boot, PlaceTyped, OthersTyped, QueueTyped, Stages
  <2> QED
    BY <2>1, TypesAreNext
<1>18. CASE Exit
  <2>1. PlaceTyped'
    BY <1>18, ZeroPlaced DEF Exit, PlaceTyped
  <2>2. QueueTyped'
    BY <1>18, Line DEF Exit, QueueTyped
  <2>3. OthersTyped'
    BY <1>0, <1>18 DEF Exit, OthersTyped, Stages, Loops, Hellos, Rest
  <2> QED
    BY <2>1, <2>2, <2>3, TypesAreNext
<1>19. CASE UNCHANGED yardVars
  <2>1. PlaceTyped' /\ OthersTyped' /\ QueueTyped'
    BY <1>0, <1>19 DEF yardVars, PlaceTyped, OthersTyped, QueueTyped
  <2> QED
    BY <2>1, TypesAreNext
<1> QED
  BY <1>2, <1>3, <1>4, <1>5, <1>6, <1>7, <1>8, <1>9, <1>10, <1>11, <1>12, <1>13, <1>14,
     <1>15, <1>16, <1>17, <1>18, <1>19 DEF YardNext, Hello, Writer

-----------------------------------------------------------------------------
(* What waits to be written *)

(* A departure put in the queue is the newest. *)
LEMMA DepartureAppended ==
    ASSUME QueueTyped, NEW p \in Points, queue' = Append(queue, p), writer' = writer
    PROVE  Pending' /\ Newest(p)'
<1>1. /\ queue' \in Seq(Points \cup {Other}) /\ Len(queue') = Len(queue) + 1
      /\ queue'[Len(queue) + 1] = p
  BY AppendProperties DEF QueueTyped
<1>2. p # Other
  BY Line
<1>3. Len(queue) + 1 \in Queued' /\ \A j \in Queued' : j <= Len(queue) + 1
  BY <1>1, <1>2 DEF Queued
<1> QED
  BY <1>1, <1>3 DEF Pending, Newest

(* Somebody else's departure changes nothing for him. *)
LEMMA OtherAppended ==
    ASSUME QueueTyped, queue' = Append(queue, Other), writer' = writer, NEW p
    PROVE  (Pending' <=> Pending) /\ (Newest(p)' <=> Newest(p))
<1>1. /\ queue' \in Seq(Points \cup {Other}) /\ Len(queue') = Len(queue) + 1
      /\ queue'[Len(queue) + 1] = Other
      /\ \A i \in 1..Len(queue) : queue'[i] = queue[i]
  BY AppendProperties DEF QueueTyped
<1>2. DOMAIN queue = 1..Len(queue) /\ DOMAIN queue' = 1..(Len(queue) + 1) /\ Len(queue) \in Nat
  BY <1>1 DEF QueueTyped
<1>3. Queued' = Queued
  BY <1>1, <1>2 DEF Queued
<1>4. \A i \in Queued : queue'[i] = queue[i]
  BY <1>1, <1>2 DEF Queued
<1> QED
  BY <1>3, <1>4 DEF Pending, Newest

(* Nor does the writer's taking the head of the queue. *)
LEMMA DepartureTaken ==
    ASSUME QueueTyped, WriterTakes, NEW p
    PROVE  (Pending' <=> Pending) /\ (Pending /\ Newest(p) => Newest(p)')
<1> DEFINE next == Head(queue)
<1>1. /\ queue # <<>> /\ queue' = Tail(queue) /\ writer' = next /\ writer = None
      /\ queue \in Seq(Points \cup {Other})
  BY DEF WriterTakes, QueueTyped
<1>2. /\ next = queue[1] /\ next \in Points \cup {Other} /\ Len(queue) \in Nat \ {0}
      /\ DOMAIN queue = 1..Len(queue) /\ DOMAIN queue' = 1..(Len(queue) - 1)
      /\ \A i \in 1..(Len(queue) - 1) : queue'[i] = queue[i + 1]
  BY <1>1
<1> HIDE DEF next
<1>3. writer \notin Points /\ Other \notin Points
  BY <1>1, Line
<1>4. \A i \in Nat \ {0} : i \in Queued' <=> i + 1 \in Queued
  <2> TAKE i \in Nat \ {0}
  <2>1. i \in DOMAIN queue' <=> i + 1 \in DOMAIN queue
    BY <1>2
  <2>2. i \in DOMAIN queue' => queue'[i] = queue[i + 1]
    BY <1>2
  <2> QED
    BY <2>1, <2>2 DEF Queued
<1>5. \A i \in Queued : i \in Nat \ {0}
  BY <1>2 DEF Queued
<1>6. 1 \in Queued <=> next \in Points
  BY <1>2, <1>3 DEF Queued
<1>7. Queued' \subseteq Nat \ {0}
  BY <1>2 DEF Queued
<1>8. \A i \in Queued : i = 1 \/ (i - 1 \in Queued' /\ i - 1 \in Nat \ {0})
  BY <1>4, <1>5
<1>9. Pending' <=> Pending
  BY <1>1, <1>3, <1>4, <1>6, <1>7, <1>8 DEF Pending
<1>10. ASSUME Pending, Newest(p) PROVE Newest(p)'
  <2>1. Queued # {}
    BY <1>3, <1>10 DEF Pending
  <2>2. PICK i \in Queued : queue[i] = p /\ \A j \in Queued : j <= i
    BY <1>10, <2>1 DEF Newest
  <2>3. CASE i = 1
    <3>1. Queued' = {}
      <4> SUFFICES ASSUME NEW j \in Queued' PROVE FALSE
        OBVIOUS
      <4>1. j \in Nat \ {0} /\ j + 1 \in Queued
        BY <1>4, <1>7
      <4> QED
        BY <2>2, <2>3, <4>1
    <3>2. writer' = p
      BY <1>1, <1>2, <2>2, <2>3
    <3> QED
      BY <3>1, <3>2 DEF Newest
  <2>4. CASE i # 1
    <3>1. i - 1 \in Queued' /\ i - 1 \in Nat \ {0} /\ i \in Nat
      BY <1>5, <1>8, <2>4
    <3>2. queue'[i - 1] = p
      <4>1. i - 1 \in DOMAIN queue'
        BY <3>1 DEF Queued
      <4>2. queue'[i - 1] = queue[(i - 1) + 1] /\ (i - 1) + 1 = i
        BY <1>2, <3>1, <4>1
      <4> QED
        BY <2>2, <4>2
    <3>3. \A j \in Queued' : j <= i - 1
      <4> TAKE j \in Queued'
      <4>1. j \in Nat /\ j + 1 \in Queued
        BY <1>4, <1>7
      <4> QED
        BY <1>5, <2>2, <4>1
    <3> QED
      BY <3>1, <3>2, <3>3 DEF Newest
  <2> QED
    BY <2>3, <2>4
<1> QED
  BY <1>9, <1>10

(* A departure written out of the writer's hand leaves those in the queue. *)
LEMMA DepartureWritten ==
    ASSUME queue' = queue, writer' = None, NEW p
    PROVE  /\ Pending' <=> Queued # {}
           /\ Queued # {} => (Newest(p)' <=> Newest(p))
<1>1. Queued' = Queued
  BY DEF Queued
<1>2. writer' \notin Points
  BY Line
<1> QED
  BY <1>1, <1>2 DEF Pending, Newest

(* Nor does a step that touches neither queue nor writer. *)
LEMMA DeparturesStill ==
    ASSUME queue' = queue, writer' = writer, NEW p
    PROVE  (Pending' <=> Pending) /\ (Newest(p)' <=> Newest(p))
BY DEF Pending, Newest, Queued

-----------------------------------------------------------------------------
(* The departures *)

(* What is written down is what counts, or the loop is past caring. *)
Written == row = rest \/ loop.pc = "done"

(* A step of anything that neither notices a departure nor touches the     *)
(* queue, the writer or the row.                                           *)
LEMMA StillKept ==
    ASSUME DepartureIsKept, Noticed, UNCHANGED <<queue, writer, row, rest, lost>>,
           pos'.saved => pos.saved /\ Alive,
           loop.pc = "done" => loop'.pc = "done"
    PROVE  DepartureIsKept'
<1> SUFFICES ASSUME pos'.saved, ~lost'
             PROVE  IF Pending' THEN Newest(rest)' ELSE Written'
  BY DEF DepartureIsKept, Written
<1>1. Alive /\ Chosen /\ pos.saved /\ ~lost
  BY DEF Noticed, Chosen
<1>2. IF Pending THEN Newest(rest) ELSE row = rest \/ loop.pc = "done"
  BY <1>1 DEF DepartureIsKept
<1>3. (Pending' <=> Pending) /\ (Newest(rest)' <=> Newest(rest))
  BY DEF Pending, Newest, Queued
<1> QED
  BY <1>2, <1>3 DEF Written

(* Every step keeps the departure. *)
LEMMA DepartureStep ==
    ASSUME YardInv, [YardNext]_yardVars
    PROVE  DepartureIsKept'
<1>0. /\ OthersTyped /\ PlaceTyped /\ QueueTyped /\ pos \in Placements
      /\ DepartureIsKept /\ Noticed /\ Gathered /\ Reads
  BY TypesAre DEF YardInv, DeparturesAreSound, PlaceTyped
<1>1. Held.saved = pos.saved /\ Held \in Placements
  BY <1>0, HeldPlaced
<1>2. pos.saved => stage # "down" /\ Alive
  BY <1>0 DEF Gathered, OthersTyped, Stages, Alive
<1>3. ASSUME NEW p \in Points, Tap(p) PROVE DepartureIsKept'
  <2>1. pos'.saved = pos.saved
    BY <1>1, <1>3 DEF Tap, Placements
  <2> QED
    BY <1>0, <1>2, <1>3, <2>1, StillKept DEF Tap
<1>4. CASE AllowVerb \/ GoStarts \/ GoFails \/ Arrive
  <2>1. pos'.saved = pos.saved
    BY <1>1, <1>4 DEF AllowVerb, GoStarts, GoFails, Arrive, Placements
  <2>2. UNCHANGED <<queue, writer, row, rest, lost, loop>>
    BY <1>4 DEF AllowVerb, GoStarts, GoFails, Arrive
  <2> QED
    BY <1>0, <1>2, <2>1, <2>2, StillKept
<1>5. CASE HelloArrives \/ SleepingPets \/ FindPet
  <2>1. UNCHANGED <<pos, queue, writer, row, rest, lost, loop>>
    BY <1>5 DEF HelloArrives, SleepingPets, FindPet
  <2> QED
    BY <1>0, <1>2, <2>1, StillKept
<1>6. CASE PutBack
  <2>1. pos'.saved = pos.saved
    BY <1>1, <1>6 DEF PutBack, Placements
  <2> QED
    BY <1>0, <1>2, <1>6, <2>1, StillKept DEF PutBack
<1>7. CASE Stop \/ Boot \/ TickRefused \/ FlushReads
  <2>1. UNCHANGED <<pos, queue, writer, row, rest, lost>> /\ (loop.pc = "done" => loop'.pc = "done")
    BY <1>7 DEF Stop, Boot, TickRefused, FlushReads
  <2> QED
    BY <1>0, <1>2, <2>1, StillKept
<1>8. CASE UNCHANGED yardVars
  <2>1. UNCHANGED <<pos, queue, writer, row, rest, lost, loop>>
    BY <1>8 DEF yardVars
  <2> QED
    BY <1>0, <1>2, <2>1, StillKept
<1>9. CASE Forget \/ Exit
  <2>1. ~pos'.saved
    BY <1>9, ZeroPlaced DEF Forget, Exit
  <2> QED
    BY <2>1 DEF DepartureIsKept

(* The others. *)
<1>10. ASSUME pos.saved, ~lost
       PROVE  /\ Pending => Newest(rest)
              /\ ~Pending => Written
  <2>1. Alive /\ Chosen
    BY <1>0, <1>2, <1>10 DEF Noticed, Chosen
  <2> QED
    BY <1>0, <1>10, <2>1 DEF DepartureIsKept, Written
<1>11. CASE EnsurePet
  <2> SUFFICES ASSUME pos'.saved, ~lost'
               PROVE  IF Pending' THEN Newest(rest)' ELSE Written'
    BY DEF DepartureIsKept, Written
  <2>1. UNCHANGED <<pos, queue, writer, rest, lost, loop>> /\ row = NoRow
    BY <1>11 DEF EnsurePet
  <2>2. row # rest
    BY <1>0, <2>1, Line DEF PlaceTyped, None, NoRow
  <2>3. (Pending' <=> Pending) /\ (Newest(rest)' <=> Newest(rest))
    BY <2>1 DEF Pending, Newest, Queued
  <2> QED
    BY <1>10, <2>1, <2>2, <2>3 DEF Written
<1>12. CASE FlushWrites
  <2> SUFFICES ASSUME pos'.saved, ~lost'
               PROVE  IF Pending' THEN Newest(rest)' ELSE Written'
    BY DEF DepartureIsKept, Written
  <2>1. UNCHANGED <<pos, queue, writer, rest, lost>> /\ loop'.pc = "done"
    BY <1>12 DEF FlushWrites
  <2>2. (Pending' <=> Pending) /\ (Newest(rest)' <=> Newest(rest))
    BY <2>1 DEF Pending, Newest, Queued
  <2> QED
    BY <1>10, <2>1, <2>2 DEF Written
<1>13. CASE Sleeper
  <2>1. CASE pos.known
    <3>1. UNCHANGED <<pos, queue, writer, row, rest, lost, loop>>
      BY <1>13, <2>1 DEF Sleeper
    <3> QED
      BY <1>0, <1>2, <3>1, StillKept
  <2>2. CASE ~pos.known
    <3> SUFFICES ASSUME ~lost'
                 PROVE  IF Pending' THEN Newest(rest)' ELSE Written'
      BY DEF DepartureIsKept, Written
    <3>1. /\ UNCHANGED <<queue, writer, row, loop>> /\ rest' = hello.at
          /\ lost' = (row # hello.at \/ Pending)
      BY <1>13, <2>2 DEF Sleeper
    <3>2. row = hello.at /\ ~Pending
      BY <3>1
    <3>3. ~Pending'
      BY <3>1, <3>2 DEF Pending, Queued
    <3> QED
      BY <3>1, <3>2, <3>3 DEF Written
  <2> QED
    BY <2>1, <2>2
<1>14. CASE Tick
  <2>1. UNCHANGED <<writer, row>>
        /\ (PlacePresent \/ PlaceAbsent \/ UNCHANGED <<pos, queue, rest, lost>>)
        /\ loop.pc = "run"
    BY <1>14 DEF Tick
  <2>2. CASE PlacePresent
    BY <1>0, <2>2, PresentTyped, TypesAre DEF DepartureIsKept
  <2>3. CASE PlaceAbsent
    <3>1. \/ ~pos.saved /\ EnqueueSave(rest') /\ rest' \in Points
          \/ /\ pos' = Absent \/ (pos.prov /\ pos' = Zero)
             /\ UNCHANGED <<queue, rest, lost>>
      BY <1>0, <2>3, AbsentTyped, TypesAre
    <3>2. CASE ~pos.saved /\ EnqueueSave(rest') /\ rest' \in Points
      <4> SUFFICES ASSUME ~lost' PROVE Pending' /\ Newest(rest)'
        BY DEF DepartureIsKept
      <4>1. PICK p \in Points : p = rest'
        BY <3>2
      <4>2. queue' = Append(queue, p)
        BY <3>2, <4>1 DEF EnqueueSave
      <4>3. Pending' /\ Newest(p)'
        BY <1>0, <2>1, <4>2, DepartureAppended
      <4> QED
        BY <4>1, <4>3 DEF Newest
    <3>3. CASE /\ pos' = Absent \/ (pos.prov /\ pos' = Zero)
               /\ UNCHANGED <<queue, rest, lost>>
      <4>1. pos'.saved => pos.saved
        BY <1>0, <3>3, AbsentPlaced, ZeroPlaced
      <4> QED
        BY <1>0, <1>2, <2>1, <3>3, <4>1, StillKept
    <3> QED
      BY <3>1, <3>2, <3>3
  <2>4. CASE UNCHANGED <<pos, queue, rest, lost>>
    BY <1>0, <1>2, <2>1, <2>4, StillKept
  <2> QED
    BY <2>1, <2>2, <2>3, <2>4
<1>15. CASE OthersLeave
  <2>1. UNCHANGED <<pos, writer, row, rest, lost, loop>> /\ queue' = Append(queue, Other)
    BY <1>15 DEF OthersLeave
  <2> SUFFICES ASSUME pos'.saved, ~lost'
               PROVE  IF Pending' THEN Newest(rest)' ELSE Written'
    BY DEF DepartureIsKept, Written
  <2>2. PICK p : p = rest
    OBVIOUS
  <2>3. (Pending' <=> Pending) /\ (Newest(p)' <=> Newest(p))
    BY <1>0, <2>1, OtherAppended
  <2>4. (Newest(rest) <=> Newest(p)) /\ (Newest(rest)' <=> Newest(p)')
    BY <2>1, <2>2 DEF Newest
  <2> QED
    BY <1>10, <2>1, <2>3, <2>4 DEF Written
<1>16. CASE WriterTakes
  <2>1. UNCHANGED <<pos, row, rest, lost, loop>>
    BY <1>16 DEF WriterTakes
  <2> SUFFICES ASSUME pos'.saved, ~lost'
               PROVE  IF Pending' THEN Newest(rest)' ELSE Written'
    BY DEF DepartureIsKept, Written
  <2>2. PICK p : p = rest
    OBVIOUS
  <2>3. (Pending' <=> Pending) /\ (Pending /\ Newest(p) => Newest(p)')
    BY <1>0, <1>16, DepartureTaken
  <2>4. (Newest(rest) <=> Newest(p)) /\ (Newest(rest)' <=> Newest(p)')
    BY <2>1, <2>2 DEF Newest
  <2> QED
    BY <1>10, <2>1, <2>3, <2>4 DEF Written
<1>17. CASE SavePosition
  <2>1. /\ UNCHANGED <<pos, queue, rest, loop>> /\ writer' = None
        /\ writer \in Points \cup {Other}
    BY <1>0, <1>17 DEF SavePosition, OthersTyped
  <2> SUFFICES ASSUME pos'.saved, ~lost'
               PROVE  IF Pending' THEN Newest(rest)' ELSE Written'
    BY DEF DepartureIsKept, Written
  <2>2. ~lost /\ pos.saved
    BY <1>0, <1>17, <2>1 DEF SavePosition, PlaceTyped
  <2>3. PICK p : p = rest
    OBVIOUS
  <2>4. /\ Pending' <=> Queued # {}
        /\ Queued # {} => (Newest(p)' <=> Newest(p))
    BY <2>1, DepartureWritten
  <2>5. (Newest(rest) <=> Newest(p)) /\ (Newest(rest)' <=> Newest(p)')
    BY <2>1, <2>3 DEF Newest
  <2>6. CASE Queued # {}
    <3>1. Pending
      BY <2>6 DEF Pending
    <3> QED
      BY <1>10, <2>2, <2>4, <2>5, <2>6, <3>1
  <2>7. CASE Queued = {}
    <3>1. CASE writer = Other
      <4>1. ~Pending
        BY <2>7, <3>1, Line DEF Pending
      <4>2. row' = row
        BY <1>17, <3>1 DEF SavePosition
      <4> QED
        BY <1>10, <2>1, <2>2, <2>4, <2>7, <4>1, <4>2 DEF Written
    <3>2. CASE writer # Other
      <4>1. writer \in Points /\ Pending
        BY <2>1, <3>2 DEF Pending
      <4>2. writer = rest
        BY <1>10, <2>2, <2>7, <4>1 DEF Newest
      <4>3. Stored(writer) /\ row # NoRow
        BY <1>17, <2>2, <2>7, <3>2 DEF SavePosition
      <4>4. row' = rest
        BY <4>2, <4>3 DEF Stored
      <4> QED
        BY <2>1, <2>4, <2>7, <4>4 DEF Written
    <3> QED
      BY <3>1, <3>2
  <2> QED
    BY <2>6, <2>7
<1>18. CASE WriterReturns
  <2>1. UNCHANGED <<pos, queue, row, rest, loop>> /\ writer' = Gone /\ writer = None
        /\ lost' = (lost \/ (pos.saved /\ Pending))
    BY <1>18 DEF WriterReturns
  <2> SUFFICES ASSUME pos'.saved, ~lost'
               PROVE  IF Pending' THEN Newest(rest)' ELSE Written'
    BY DEF DepartureIsKept, Written
  <2>2. ~lost /\ pos.saved /\ ~Pending
    BY <2>1
  <2>3. ~Pending'
    BY <2>1, <2>2, Line DEF Pending, Queued
  <2> QED
    BY <1>10, <2>1, <2>2, <2>3 DEF Written
<1> QED
  BY <1>3, <1>4, <1>5, <1>6, <1>7, <1>8, <1>9, <1>11, <1>12, <1>13, <1>14, <1>15, <1>16,
     <1>17, <1>18 DEF YardNext, Hello, Writer

(* What is on its way to the writer was chosen, after every step. *)
LEMMA NoticedStep ==
    ASSUME YardInv, [YardNext]_yardVars
    PROVE  Noticed'
<1>0. OthersTyped /\ pos \in Placements /\ Noticed /\ Reads /\ YardTypeOK
  BY TypesAre DEF YardInv, DeparturesAreSound, PlaceTyped
<1>1. Held \in Placements /\ Held.known /\ Held.prov = pos.prov /\ Held.saved = pos.saved
  BY <1>0, HeldPlaced
<1>2. ASSUME NEW p \in Points, Tap(p) PROVE Noticed'
  <2>1. pos'.known /\ ~pos'.prov
    BY <1>1, <1>2 DEF Tap, Placements
  <2> QED
    BY <2>1 DEF Noticed
<1>3. CASE AllowVerb \/ GoStarts
  BY <1>0, <1>1, <1>3 DEF AllowVerb, GoStarts, Noticed
<1>4. CASE Arrive
  <2>1. pos'.known /\ ~pos'.prov
    BY <1>1, <1>4 DEF Arrive, Placements
  <2> QED
    BY <2>1 DEF Noticed
<1>5. CASE PutBack
  <2>1. pos' = pos \/ (pos'.known /\ ~pos'.prov)
    BY <1>1, <1>5 DEF PutBack, Placements
  <2> QED
    BY <1>0, <2>1 DEF Noticed
<1>6. CASE Sleeper
  <2>1. pos' = pos \/ (pos'.known /\ ~pos'.prov)
    BY <1>6, ZeroPlaced DEF Sleeper, Placements, Zero
  <2> QED
    BY <1>0, <2>1 DEF Noticed
<1>7. CASE Forget \/ Exit
  BY <1>7, ZeroPlaced DEF Forget, Exit, Noticed
<1>8. CASE Tick
  <2>1. CASE PlacePresent
    BY <1>0, <2>1, PresentTyped DEF Noticed
  <2>2. CASE pos.known /\ PlaceAbsent
    <3>1. \/ pos'.known = pos.known /\ ~pos'.prov
          \/ pos' = Absent \/ pos' = Zero
      BY <1>0, <2>2, AbsentTyped
    <3>2. Absent.known = pos.known /\ Absent.prov = pos.prov /\ Absent.saved = pos.saved
      BY <1>0, AbsentPlaced
    <3> QED
      BY <1>0, <2>2, <3>1, <3>2, ZeroPlaced DEF Noticed
  <2>3. CASE pos' = pos
    BY <1>0, <2>3 DEF Noticed
  <2> QED
    BY <1>8, <2>1, <2>2, <2>3 DEF Tick
<1>9. CASE pos' = pos
  BY <1>0, <1>9 DEF Noticed
<1> QED
  BY <1>2, <1>3, <1>4, <1>5, <1>6, <1>7, <1>8, <1>9
  DEF YardNext, Hello, Writer, GoFails, EnsurePet, HelloArrives, SleepingPets, FindPet,
      TickRefused, FlushReads, FlushWrites, OthersLeave, WriterTakes, SavePosition,
      WriterReturns, Stop, Boot, yardVars

(* A process that is down holds nothing; a sleeper is read with his place. *)
LEMMA GatheredStep ==
    ASSUME YardInv, [YardNext]_yardVars
    PROVE  Gathered' /\ Reads'
<1>0. OthersTyped /\ Gathered /\ Reads
  BY TypesAre DEF YardInv, DeparturesAreSound
<1>1. \/ stage' = stage /\ stage' # "down"
      \/ Stop \/ Boot \/ Exit \/ UNCHANGED yardVars
  BY DEF YardNext, Hello, Writer, Alive, Tap, AllowVerb, GoStarts, GoFails, Arrive, EnsurePet,
         HelloArrives, SleepingPets, Sleeper, FindPet, PutBack, Forget, Tick, TickRefused,
         FlushReads, FlushWrites, OthersLeave, WriterTakes, SavePosition, WriterReturns
<1>2. Gathered'
  BY <1>0, <1>1, ZeroPlaced DEF Stop, Boot, Exit, Gathered, yardVars
<1>3. hello' = hello \/ HelloArrives \/ SleepingPets \/ Sleeper \/ FindPet \/ hello' = Rest
  BY DEF YardNext, Hello, Writer, Tap, AllowVerb, GoStarts, GoFails, Arrive, EnsurePet,
         PutBack, Forget, Tick, TickRefused, FlushReads, FlushWrites, OthersLeave,
         WriterTakes, SavePosition, WriterReturns, Stop, Boot, Exit, yardVars
<1>4. ASSUME SleepingPets PROVE Reads'
  <2>1. [Rest EXCEPT !.pc = "find"].pc = "find"
    BY DEF Rest
  <2>2. (hello' = [pc |-> "sleeper", at |-> row] /\ row \in Points) \/ hello'.pc = "find"
    BY <1>4, <2>1 DEF SleepingPets
  <2> QED
    BY <2>2 DEF Reads
<1>5. ASSUME HelloArrives \/ Sleeper \/ FindPet PROVE Reads'
  <2>1. [Rest EXCEPT !.pc = "find"].pc = "find" /\ [Rest EXCEPT !.pc = "furnish"].pc = "furnish"
        /\ Rest.pc = "idle"
    BY DEF Rest
  <2>2. hello'.pc \in {"find", "furnish", "got", "idle"}
    <3>1. CASE HelloArrives
      BY <2>1, <3>1 DEF HelloArrives
    <3>2. CASE Sleeper
      BY <2>1, <3>2 DEF Sleeper
    <3>3. CASE FindPet
      BY <2>1, <3>3 DEF FindPet
    <3> QED
      BY <1>5, <3>1, <3>2, <3>3
  <2> QED
    BY <2>2 DEF Reads
<1>6. Reads'
  BY <1>0, <1>3, <1>4, <1>5 DEF Reads, Rest
<1> QED
  BY <1>2, <1>6

(***************************************************************************)
(* The inductive invariant of a placement, its hello and its writer, for   *)
(* any line, grace period and capacity of the queue.                       *)
(***************************************************************************)
THEOREM YardInvariance == YardSpec => []YardInv
<1>1. YardInit => YardInv
  <2> SUFFICES ASSUME YardInit PROVE YardInv
    OBVIOUS
  <2>1. PlaceTyped /\ QueueTyped /\ ~pos.saved
    <3>1. <<>> \in Seq(Points \cup {Other}) /\ Len(<<>>) <= SavesBuffer
      BY Line
    <3> QED
      BY <3>1, ZeroPlaced DEF YardInit, PlaceTyped, QueueTyped
  <2>2. OthersTyped
    BY DEF YardInit, OthersTyped, Stages, Loops, Hellos, Rest
  <2>3. YardTypeOK
    BY <2>1, <2>2, TypesAre
  <2>4. DepartureIsKept /\ Noticed /\ Gathered
    BY <2>1 DEF DepartureIsKept, Noticed, Gathered
  <2>5. Reads
    BY DEF YardInit, Rest, Reads
  <2> QED
    BY <2>3, <2>4, <2>5 DEF YardInv, DeparturesAreSound
<1>2. YardInv /\ [YardNext]_yardVars => YardInv'
  <2> SUFFICES ASSUME YardInv, [YardNext]_yardVars PROVE YardInv'
    OBVIOUS
  <2>1. YardTypeOK'
    BY YardTypeStep DEF YardInv, DeparturesAreSound
  <2> QED
    BY <2>1, DepartureStep, NoticedStep, GatheredStep DEF YardInv, DeparturesAreSound
<1> QED
  BY <1>1, <1>2, PTL DEF YardSpec

(***************************************************************************)
(* A departure noticed once is stored or on its way to be, the newest      *)
(* last, unless the queue was full, the database refused it, or the writer *)
(* was told to stop (enqueueSave, persistPositions, flushPositions); and   *)
(* the queue keeps its bound.                                              *)
(***************************************************************************)
THEOREM DeparturesAlwaysSound == YardSpec => []DeparturesAreSound
<1>1. YardInv => DeparturesAreSound
  BY DEF YardInv
<1> QED
  BY <1>1, YardInvariance, PTL

-----------------------------------------------------------------------------
(* The places *)

(* No step but a tap, an arrival and a forget moves a chosen placement. *)
LEMMA PlaceStep ==
    ASSUME YardInv, [YardNext]_yardVars, Chosen, stage' # "down"
    PROVE  \/ /\ pos'.known /\ ~pos'.prov
              /\ pos'.walk \in {pos.walk, Walked(pos.walk)}
           \/ \E p \in Points : Tap(p)
           \/ Arrive \/ Forget
<1>0. pos \in Placements /\ YardTypeOK /\ pos.known /\ ~pos.prov
  BY TypesAre DEF YardInv, DeparturesAreSound, PlaceTyped, Chosen
<1>1. Held \in Placements /\ Held.known /\ Held.prov = pos.prov /\ Held.walk = pos.walk
  BY <1>0, HeldPlaced
<1>2. CASE pos' = pos \/ pos' = Held
  BY <1>0, <1>1, <1>2
<1>3. CASE Sleeper \/ PutBack
  <2>1. pos' = pos
    BY <1>0, <1>3 DEF Sleeper, PutBack
  <2> QED
    BY <1>0, <2>1
<1>4. CASE Tick
  <2>1. CASE PlacePresent
    <3>1. pos'.known /\ pos'.prov = pos.prov /\ pos'.walk = Walked(pos.walk)
      BY <1>0, <2>1, PresentTyped
    <3> QED
      BY <1>0, <3>1
  <2>2. CASE PlaceAbsent
    <3>1. \/ pos'.known = pos.known /\ ~pos'.prov /\ pos'.walk = Walked(pos.walk)
          \/ pos' = Absent
      BY <1>0, <2>2, AbsentTyped
    <3>2. /\ Absent.known = pos.known /\ Absent.prov = pos.prov
          /\ Absent.walk = Walked(pos.walk)
      BY <1>0, AbsentPlaced
    <3> QED
      BY <1>0, <3>1, <3>2
  <2>3. CASE pos' = pos
    BY <1>0, <2>3
  <2> QED
    BY <1>4, <2>1, <2>2, <2>3 DEF Tick
<1>5. Exit => stage' = "down"
  BY DEF Exit
<1> QED
  BY <1>2, <1>3, <1>4, <1>5
  DEF YardNext, Hello, Writer, AllowVerb, GoStarts, GoFails, EnsurePet, HelloArrives,
      SleepingPets, FindPet, TickRefused, FlushReads, FlushWrites, OthersLeave, WriterTakes,
      SavePosition, WriterReturns, Stop, Boot, yardVars

(* A hello that had a place to put back leaves him at a chosen one. *)
LEMMA ReturnStep ==
    ASSUME YardInv, [YardNext]_yardVars,
           hello.pc = "got", hello'.pc = "idle", hello.at # None, stage' # "down"
    PROVE  pos'.known /\ ~pos'.prov
<1>0. pos \in Placements
  BY TypesAre DEF YardInv, DeparturesAreSound, PlaceTyped
<1>1. Held \in Placements /\ Held.known
  BY <1>0, HeldPlaced
<1>2. PutBack
  BY DEF YardNext, Hello, Writer, Tap, AllowVerb, GoStarts, GoFails, Arrive, EnsurePet,
         HelloArrives, SleepingPets, Sleeper, FindPet, Forget, Tick, TickRefused, FlushReads,
         FlushWrites, OthersLeave, WriterTakes, SavePosition, WriterReturns, Stop, Boot, Exit,
         yardVars
<1>3. pos' = (IF ~pos.known \/ pos.prov
              THEN [Held EXCEPT !.walk = Standing(hello.at), !.prov = FALSE] ELSE pos)
  BY <1>2 DEF PutBack
<1> QED
  BY <1>0, <1>1, <1>3 DEF Placements

(***************************************************************************)
(* No tick, hello or grace period moves or forgets a placement that        *)
(* somebody chose: only a tap, a journey or an administrator's "forget"    *)
(* does.  And a place that a hello has read comes back, whatever a tick    *)
(* invented meanwhile (place, load, ensureSleepers).                       *)
(***************************************************************************)
THEOREM PlacesAlwaysKept == YardSpec => PlacesAreKept
<1>1. YardInv /\ [YardNext]_yardVars =>
        [Chosen /\ stage' # "down" =>
          \/ /\ pos'.known /\ ~pos'.prov
             /\ pos'.walk \in {pos.walk, Walked(pos.walk)}
          \/ \E p \in Points : Tap(p)
          \/ Arrive \/ Forget]_yardVars
  BY PlaceStep
<1>2. YardInv /\ [YardNext]_yardVars =>
        [hello.pc = "got" /\ hello'.pc = "idle" /\ hello.at # None /\ stage' # "down"
          => pos'.known /\ ~pos'.prov]_yardVars
  BY ReturnStep
<1> QED
  BY <1>1, <1>2, YardInvariance, PTL DEF YardSpec, PlacesAreKept, PlaceIsKept, StoredPlaceReturns

-----------------------------------------------------------------------------
(* The pet: the limits of its catalogue, one by one. *)
LEMMA Limits ==
    /\ Hours \in Nat /\ Requests \in Nat /\ Top \in Nat \ {0} /\ CounterMax \in Nat \ {0}
    /\ HpStart \in 1..Top /\ BeerStart \in 0..Top /\ Empty \in 0..Top /\ Full \in 1..Top
    /\ Needs \in 0..Top /\ Default \in Places
BY PetsAssumption

-----------------------------------------------------------------------------
(* The decay *)

(* The bounds of a bar. *)
LEMMA Bars ==
    /\ \A k \in Stats : MaxOf(k) \in Nat
    /\ MaxOf("hp") = Top /\ MaxOf("beer") = Top /\ MaxOf("bladder") = Top
    /\ MaxOf("drunk") = CounterMax
BY Limits DEF MaxOf, Stats

(* What is clamped fits its bar, and what fits is not changed by it. *)
LEMMA ClampFits ==
    ASSUME NEW k \in Stats, NEW n \in Int
    PROVE  /\ Clamp(k, n) \in Nat /\ Clamp(k, n) <= MaxOf(k)
           /\ n \in 0..MaxOf(k) => Clamp(k, n) = n
           /\ Clamp(k, n) <= 0 <=> n <= 0
<1>1. MaxOf(k) \in Nat
  BY Bars
<1>2. MaxOf(k) > 0
  BY Bars, Limits DEF Stats
<1> QED
  BY <1>1, <1>2, Bars, Limits DEF Clamp, Stats

(* Four numbers, each within its bar. *)
LEMMA ValuesAre ==
    ASSUME NEW v
    PROVE  v \in Values <=> v \in [Stats -> Nat] /\ \A k \in Stats : v[k] <= MaxOf(k)
BY DEF Values

(* The drains are numbers. *)
LEMMA Drains ==
    /\ \A k \in Stats : DecayPerHour[k] \in Int
    /\ DecayPerHour["hp"] = 1 /\ DecayPerHour["beer"] = 1 /\ DecayPerHour["bladder"] = -1
    /\ DecayPerHour["drunk"] = 0
BY DEF DecayPerHour, Stats

(* A penalty sets in at some hour, not before the rows were written. *)
LEMMA OnsetIsHour ==
    ASSUME NEW s, s.v \in Values, s.asof \in Nat, NEW p \in Penalties
    PROVE  Onset(p, s) \in Nat /\ Onset(p, s) >= s.asof
<1>1. p \in Stats /\ (p = "beer" \/ p = "bladder")
  BY DEF Penalties, Stats
<1>2. s.v[p] \in Nat /\ s.v[p] <= MaxOf(p)
  BY <1>1, ValuesAre
<1>3. At(p, s, s.asof) = s.v[p]
  <2>1. s.v[p] - DecayPerHour[p] * (s.asof - s.asof) = s.v[p]
    BY <1>1, <1>2, Drains
  <2> QED
    BY <1>1, <1>2, <2>1, ClampFits, Bars DEF At
<1>4. CASE p = "beer"
  BY <1>2, <1>3, <1>4, Limits DEF Onset, Holds
<1>5. CASE p = "bladder"
  BY <1>2, <1>3, <1>5, Limits DEF Onset, Holds
<1> QED
  BY <1>1, <1>4, <1>5

(* What a penalty has taken. *)
LEMMA LostIsNumber ==
    ASSUME NEW s, s.v \in Values, s.asof \in Nat, NEW t \in Nat, NEW p \in Penalties
    PROVE  /\ Lost(p, s, t) \in Nat
           /\ Lost(p, s, t) = IF Onset(p, s) < t THEN t - Onset(p, s) ELSE 0
BY OnsetIsHour DEF Lost, PenaltyRate

(* Every value at an hour fits its bar. *)
LEMMA AtFits ==
    ASSUME NEW s, s.v \in Values, s.asof \in Nat, NEW t \in Nat, NEW k \in Stats
    PROVE  AtWith(k, s, t) \in Nat /\ AtWith(k, s, t) <= MaxOf(k)
<1>1. s.v[k] \in Nat /\ DecayPerHour[k] \in Int
  BY ValuesAre, Drains
<1> DEFINE taken == IF k = "hp" THEN Lost("beer", s, t) + Lost("bladder", s, t) ELSE 0
           drop == DecayPerHour[k] * (t - s.asof)
<1>2. taken \in Int /\ drop \in Int
  BY <1>1, LostIsNumber DEF Penalties
<1>3. AtWith(k, s, t) = IF t <= s.asof THEN Clamp(k, s.v[k]) ELSE Clamp(k, s.v[k] - drop - taken)
  BY DEF AtWith
<1> HIDE DEF taken, drop
<1>4. s.v[k] - drop - taken \in Int
  BY <1>1, <1>2
<1> QED
  BY <1>1, <1>3, <1>4, ClampFits

(* Sixths of an hour at one, two and three units an hour. *)
LEMMA Sixths ==
    ASSUME NEW n \in Nat
    PROVE  (6 * n) \div 1 = 6 * n /\ (6 * n) \div 2 = 3 * n /\ (6 * n) \div 3 = 2 * n
OBVIOUS

(* An hour not before the rows were written, value by value. *)
LEMMA ValuesThen ==
    ASSUME NEW s, s.v \in Values, s.asof \in Nat, NEW t \in Nat, s.asof <= t
    PROVE  /\ AtWith("hp", s, t)
                = Clamp("hp", s.v["hp"] - (t - s.asof) - (Lost("beer", s, t) + Lost("bladder", s, t)))
           /\ AtWith("beer", s, t) = Clamp("beer", s.v["beer"] - (t - s.asof))
           /\ AtWith("bladder", s, t) = Clamp("bladder", s.v["bladder"] + (t - s.asof))
           /\ AtWith("drunk", s, t) = s.v["drunk"]
<1>1. \A k \in Stats : s.v[k] \in Nat /\ s.v[k] <= MaxOf(k) /\ Clamp(k, s.v[k]) = s.v[k]
  <2> SUFFICES ASSUME NEW k \in Stats
               PROVE  s.v[k] \in Nat /\ s.v[k] <= MaxOf(k) /\ Clamp(k, s.v[k]) = s.v[k]
    OBVIOUS
  <2>1. s.v[k] \in Nat /\ s.v[k] <= MaxOf(k) /\ MaxOf(k) \in Nat
    BY ValuesAre, Bars
  <2> QED
    BY <2>1, ClampFits
<1>2. s.v["hp"] \in Nat /\ s.v["beer"] \in Nat /\ s.v["bladder"] \in Nat /\ s.v["drunk"] \in Nat
  BY <1>1 DEF Stats
<1>3. /\ Clamp("hp", s.v["hp"]) = s.v["hp"] /\ Clamp("beer", s.v["beer"]) = s.v["beer"]
      /\ Clamp("bladder", s.v["bladder"]) = s.v["bladder"] /\ Clamp("drunk", s.v["drunk"]) = s.v["drunk"]
  BY <1>1 DEF Stats
<1>4. Lost("beer", s, t) \in Nat /\ Lost("bladder", s, t) \in Nat
  BY LostIsNumber DEF Penalties
<1>5. CASE t = s.asof
  <2>1. Lost("beer", s, t) = 0 /\ Lost("bladder", s, t) = 0
    BY <1>5, LostIsNumber, OnsetIsHour DEF Penalties
  <2>2. \A k : AtWith(k, s, t) = Clamp(k, s.v[k])
    BY <1>5 DEF AtWith
  <2>3. /\ s.v["hp"] - (t - s.asof) - (Lost("beer", s, t) + Lost("bladder", s, t)) = s.v["hp"]
        /\ s.v["beer"] - (t - s.asof) = s.v["beer"]
        /\ s.v["bladder"] + (t - s.asof) = s.v["bladder"]
    BY <1>2, <1>5, <2>1
  <2> QED
    BY <1>3, <2>2, <2>3
<1>6. CASE s.asof < t
  <2>1. ~(t <= s.asof)
    BY <1>6
  <2>2. AtWith("hp", s, t) = Clamp("hp", s.v["hp"] - DecayPerHour["hp"] * (t - s.asof)
                                          - (Lost("beer", s, t) + Lost("bladder", s, t)))
    BY <2>1 DEF AtWith
  <2>3. /\ AtWith("beer", s, t) = Clamp("beer", s.v["beer"] - DecayPerHour["beer"] * (t - s.asof) - 0)
        /\ AtWith("bladder", s, t) = Clamp("bladder", s.v["bladder"] - DecayPerHour["bladder"] * (t - s.asof) - 0)
        /\ AtWith("drunk", s, t) = Clamp("drunk", s.v["drunk"] - DecayPerHour["drunk"] * (t - s.asof) - 0)
    BY <2>1 DEF AtWith
  <2>4. /\ DecayPerHour["hp"] * (t - s.asof) = t - s.asof
        /\ s.v["beer"] - DecayPerHour["beer"] * (t - s.asof) - 0 = s.v["beer"] - (t - s.asof)
        /\ s.v["bladder"] - DecayPerHour["bladder"] * (t - s.asof) - 0 = s.v["bladder"] + (t - s.asof)
        /\ s.v["drunk"] - DecayPerHour["drunk"] * (t - s.asof) - 0 = s.v["drunk"]
    BY <1>2, Drains
  <2> QED
    BY <1>3, <2>2, <2>3, <2>4
<1> QED
  BY <1>5, <1>6

(* The instant of death is the one from which he is dead, at every hour. *)
LEMMA DeathIsFloor ==
    ASSUME NEW s, s.v \in Values, s.asof \in Nat, NEW t \in Nat, s.asof <= t
    PROVE  DeadAtWith(s) \in Nat /\ (Dead(s, t) <=> DeadAtWith(s) <= 6 * t)
<1> DEFINE left == s.v["hp"]
           beer == Onset("beer", s)
           bladder == Onset("bladder", s)
<1>1. left \in Nat /\ left <= Top /\ Clamp("hp", left) = left
  BY ValuesAre, Bars, ClampFits DEF Stats
<1>2. beer \in Nat /\ beer >= s.asof /\ bladder \in Nat /\ bladder >= s.asof
  BY OnsetIsHour DEF Penalties
<1>3. Dead(s, t) <=> left - (t - s.asof) - ((IF beer < t THEN t - beer ELSE 0)
                                            + (IF bladder < t THEN t - bladder ELSE 0)) <= 0
  <2> DEFINE n == left - (t - s.asof) - (Lost("beer", s, t) + Lost("bladder", s, t))
  <2>1. AtWith("hp", s, t) = Clamp("hp", n)
    BY ValuesThen
  <2>2. n = left - (t - s.asof) - ((IF beer < t THEN t - beer ELSE 0)
                                    + (IF bladder < t THEN t - bladder ELSE 0))
    BY LostIsNumber DEF Penalties
  <2> HIDE DEF n
  <2>3. n \in Int
    BY <1>1, <1>2, <2>2
  <2>4. Dead(s, t) <=> n <= 0
    BY <2>1, <2>3, ClampFits DEF Dead, Stats
  <2> QED
    BY <2>2, <2>4
<1>4. CASE left = 0
  <2>1. DeadAtWith(s) = 6 * s.asof
    BY <1>1, <1>4 DEF DeadAtWith
  <2> HIDE DEF left, beer, bladder
  <2> QED
    BY <1>1, <1>2, <1>3, <1>4, <2>1
<1>5. CASE left > 0
  <2> DEFINE start == [cur |-> s.asof, rate |-> 1, left |-> left, at |-> Never]
             one == IF beer <= bladder THEN beer ELSE bladder
             two == IF beer <= bladder THEN bladder ELSE beer
             first == Segment(start, one)
             walk == Segment(first, two)
  <2>1. DeadAtWith(s) = IF walk.at # Never THEN walk.at
                        ELSE 6 * walk.cur + (6 * walk.left) \div walk.rate
    BY <1>1, <1>5, Drains DEF DeadAtWith
  <2>2. /\ one \in Nat /\ two \in Nat /\ s.asof <= one /\ one <= two
        /\ Dead(s, t) <=> left - (t - s.asof) - ((IF one < t THEN t - one ELSE 0)
                                                  + (IF two < t THEN t - two ELSE 0)) <= 0
    BY <1>2, <1>3
  <2> HIDE DEF left, beer, bladder, one, two
  <2>3. start.at = Never /\ start.cur = s.asof /\ start.rate = 1 /\ start.left = left
    OBVIOUS
  <2>4. CASE left <= one - s.asof
    <3>1. first.at = 6 * s.asof + (6 * left) \div 1
      BY <1>1, <1>5, <2>2, <2>4 DEF Segment
    <3>2. first.at = 6 * s.asof + 6 * left
      BY <1>1, <3>1, Sixths
    <3>3. first.at \in Nat /\ first.at # Never
      BY <1>1, <3>2 DEF Never
    <3>4. walk = first
      BY <3>3 DEF Segment
    <3>5. DeadAtWith(s) = 6 * s.asof + 6 * left
      BY <2>1, <3>2, <3>3, <3>4
    <3>6. left - (t - s.asof) - ((IF one < t THEN t - one ELSE 0)
                                  + (IF two < t THEN t - two ELSE 0)) <= 0 <=> left <= t - s.asof
      BY <1>1, <2>2, <2>4
    <3> QED
      BY <1>1, <2>2, <3>5, <3>6
  <2>5. CASE ~(left <= one - s.asof)
    <3> DEFINE spare == left - (one - s.asof)
    <3>1. /\ first.at = Never /\ first.cur = one /\ first.rate = 2 /\ first.left = spare
          /\ spare \in Nat /\ spare > 0
      BY <1>1, <2>2, <2>5 DEF Segment, PenaltyRate
    <3> HIDE DEF first
    <3>2. CASE spare <= 2 * (two - one)
      <4>1. walk.at = 6 * one + (6 * spare) \div 2
        BY <2>2, <3>1, <3>2 DEF Segment
      <4>2. DeadAtWith(s) = 6 * one + 3 * spare
        BY <2>1, <2>2, <3>1, <4>1, Sixths DEF Never
      <4>3. left - (t - s.asof) - ((IF one < t THEN t - one ELSE 0)
                                    + (IF two < t THEN t - two ELSE 0)) <= 0 <=> spare <= 2 * (t - one)
        BY <1>1, <2>2, <3>1, <3>2
      <4> QED
        BY <1>1, <2>2, <3>1, <4>2, <4>3
    <3>3. CASE ~(spare <= 2 * (two - one))
      <4> DEFINE last == spare - 2 * (two - one)
      <4>1. /\ walk.at = Never /\ walk.cur = two /\ walk.rate = 3 /\ walk.left = last
            /\ last \in Nat /\ last > 0
        BY <2>2, <3>1, <3>3 DEF Segment, PenaltyRate
      <4>2. DeadAtWith(s) = 6 * two + 2 * last
        BY <2>1, <4>1, Sixths
      <4>3. left - (t - s.asof) - ((IF one < t THEN t - one ELSE 0)
                                    + (IF two < t THEN t - two ELSE 0)) <= 0 <=> last <= 3 * (t - two)
        BY <1>1, <2>2, <3>1, <3>3, <4>1
      <4> QED
        BY <1>1, <2>2, <3>1, <4>1, <4>2, <4>3
    <3> QED
      BY <3>2, <3>3
  <2> QED
    BY <2>4, <2>5
<1> QED
  BY <1>1, <1>4, <1>5

(* So a death that shows at an hour was not after it. *)
LEMMA DeathNotLater ==
    ASSUME NEW s, s.v \in Values, s.asof \in Nat, NEW t \in Nat, Dead(s, t)
    PROVE  /\ DeadAtWith(s) \in Nat
           /\ DeadAtWith(s) <= 6 * t \/ DeadAtWith(s) <= 6 * s.asof
<1>1. CASE s.asof <= t
  BY <1>1, DeathIsFloor
<1>2. CASE t < s.asof
  <2>1. AtWith("hp", s, t) = AtWith("hp", s, s.asof)
    BY <1>2 DEF AtWith
  <2>2. Dead(s, s.asof)
    BY <2>1 DEF Dead
  <2> QED
    BY <2>2, DeathIsFloor
<1> QED
  BY <1>1, <1>2

-----------------------------------------------------------------------------
(* The verbs *)

Rowed == [v : Values, asof : Nat]

(* The values a pet begins with, and those a revival leaves. *)
LEMMA StartFits ==
    /\ Start \in Values
    /\ \A n \in 0..CounterMax : [Start EXCEPT !["drunk"] = n] \in Values
<1>1. Start \in [Stats -> Nat]
  BY Limits DEF Start, Stats
<1>2. \A k \in Stats : Start[k] <= MaxOf(k)
  BY Limits, Bars DEF Start, Stats
<1>3. ASSUME NEW n \in 0..CounterMax PROVE [Start EXCEPT !["drunk"] = n] \in Values
  <2> DEFINE v == [Start EXCEPT !["drunk"] = n]
  <2>0. n \in Nat
    BY Limits
  <2>1. v \in [Stats -> Nat]
    BY <1>1, <2>0
  <2>2. ASSUME NEW k \in Stats PROVE v[k] <= MaxOf(k)
    BY <1>1, <1>2, Bars DEF Stats
  <2> QED
    BY <2>1, <2>2, ValuesAre
<1> QED
  BY <1>1, <1>2, <1>3, ValuesAre

(* Decay alone. *)
LEMMA AdvanceFacts ==
    ASSUME NEW s, s.v \in Values, s.asof \in Nat, NEW t \in Nat
    PROVE  /\ Advance(s, t).v \in Values /\ Advance(s, t).asof = t
           /\ Advance(s, t).died = Never => s.died = Never
<1>1. [k \in Stats |-> AtWith(k, s, t)] \in Values
  <2> DEFINE v == [k \in Stats |-> AtWith(k, s, t)]
  <2>1. v \in [Stats -> Nat] /\ \A k \in Stats : v[k] <= MaxOf(k)
    BY AtFits
  <2> HIDE DEF v
  <2> QED
    BY <2>1, ValuesAre DEF v
<1>2. Advance(s, t).died = IF s.died = Never /\ Dead(s, t) THEN DeadAtWith(s) ELSE s.died
  BY DEF Advance
<1> QED
  BY <1>1, <1>2 DEF Advance

(* The effects are numbers. *)
LEMMA EffectsAre ==
    ASSUME NEW verb \in {"drink", "relieve"}, NEW k \in Stats
    PROVE  Effects(verb)[k] \in Int
<1>1. CASE verb = "drink"
  BY <1>1 DEF Effects, Stats
<1>2. CASE verb = "relieve"
  BY <1>2, Limits DEF Effects, Stats
<1> QED
  BY <1>1, <1>2

(* A verb that is not refused leaves four bars, now, of a pet alive. *)
LEMMA ApplyFacts ==
    ASSUME NEW s, s.v \in Values, s.asof \in Nat, NEW t \in Nat, NEW verb \in Verbs,
           Apply(s, verb, t) # Refused
    PROVE  /\ Apply(s, verb, t).v \in Values /\ Apply(s, verb, t).asof = t
           /\ Apply(s, verb, t).died = Never
           /\ Apply(s, verb, t) = [v |-> Apply(s, verb, t).v, asof |-> t, died |-> Never]
           /\ verb # "revive" => s.died = Never
<1> DEFINE next == Advance(s, t)
<1>1. next.v \in Values /\ next.asof = t /\ (next.died = Never => s.died = Never)
  BY AdvanceFacts
<1>2. next = [v |-> next.v, asof |-> next.asof, died |-> next.died]
  BY DEF Advance
<1> HIDE DEF next
<1>3. CASE verb = "revive"
  <2>1. Apply(s, verb, t) = StartOver(next)
    BY <1>3 DEF Apply, next
  <2>2. next.v["drunk"] \in 0..CounterMax
    BY <1>1, ValuesAre, Bars DEF Stats
  <2> QED
    BY <1>1, <1>3, <2>1, <2>2, StartFits DEF StartOver
<1>4. CASE verb # "revive"
  <2> DEFINE v == [k \in Stats |-> Clamp(k, next.v[k] + Effects(verb)[k])]
  <2>1. verb \in {"drink", "relieve"}
    BY <1>4 DEF Verbs
  <2>2. /\ next.died = Never
        /\ Apply(s, verb, t) = [next EXCEPT !.v = [k \in Stats |-> Clamp(k, @[k] + Effects(verb)[k])]]
    BY <1>4 DEF Apply, next
  <2>3. Apply(s, verb, t) = [v |-> v, asof |-> t, died |-> Never]
    BY <1>1, <1>2, <2>2
  <2>4. ASSUME NEW k \in Stats
        PROVE  Clamp(k, next.v[k] + Effects(verb)[k]) \in Nat
               /\ Clamp(k, next.v[k] + Effects(verb)[k]) <= MaxOf(k)
    <3>1. next.v[k] + Effects(verb)[k] \in Int
      BY <1>1, <2>1, ValuesAre, EffectsAre
    <3> QED
      BY <3>1, ClampFits
  <2>5. v \in [Stats -> Nat] /\ \A k \in Stats : v[k] <= MaxOf(k)
    BY <2>4
  <2>6. v \in Values
    <3> HIDE DEF v
    <3> QED
      BY <2>5, ValuesAre
  <2>7. s.died = Never
    BY <1>1, <2>2
  <2> HIDE DEF v
  <2> QED
    BY <2>3, <2>6, <2>7
<1> QED
  BY <1>3, <1>4

(* Neither decay nor death nor a revival asks whether a death is recorded. *)
LEMMA DeathRegardless ==
    ASSUME NEW rows, NEW d, NEW e, NEW t
    PROVE  /\ DeadAtWith(Snapshot(rows, d)) = DeadAtWith(Snapshot(rows, e))
           /\ Dead(Snapshot(rows, d), t) <=> Dead(Snapshot(rows, e), t)
           /\ Advance(Snapshot(rows, d), t).v = Advance(Snapshot(rows, e), t).v
<1> DEFINE s == Snapshot(rows, d)
           q == Snapshot(rows, e)
<1>1. s.v = q.v /\ s.asof = q.asof
  BY DEF Snapshot
<1> HIDE DEF s, q
<1>2. \A p : Onset(p, s) = Onset(p, q)
  BY <1>1 DEF Onset, At
<1>3. DeadAtWith(s) = DeadAtWith(q)
  BY <1>1, <1>2 DEF DeadAtWith
<1>4. \A k : AtWith(k, s, t) = AtWith(k, q, t)
  BY <1>1, <1>2 DEF AtWith, Lost
<1>5. Dead(s, t) <=> Dead(q, t)
  BY <1>4 DEF Dead
<1>6. Advance(s, t).v = Advance(q, t).v
  BY <1>4 DEF Advance
<1> QED
  BY <1>3, <1>5, <1>6 DEF s, q

(* What is folded from the log is what the handler wrote. *)
LEMMA FoldFollows ==
    ASSUME NEW rows, rows.v \in Values, rows.asof \in Nat, NEW d, NEW t \in Nat, NEW verb \in Verbs,
           NEW log, log = Snapshot(rows, Never), Apply(Snapshot(rows, d), verb, t) # Refused
    PROVE  /\ Fold(log, verb, t).v = Apply(Snapshot(rows, d), verb, t).v
           /\ Fold(log, verb, t).asof = t
<1> DEFINE s == Snapshot(rows, d)
<1>1. s.v = rows.v /\ s.asof = rows.asof /\ s.died = d /\ log.v = rows.v /\ log.asof = rows.asof
  BY DEF Snapshot
<1>2. /\ Apply(s, verb, t).asof = t /\ (verb # "revive" => d = Never)
  <2> HIDE DEF s
  <2> QED
    BY <1>1, ApplyFacts DEF s
<1>3. CASE verb # "revive"
  <2>1. s = log
    BY <1>2, <1>3
  <2>2. Fold(log, verb, t) = Apply(s, verb, t)
    BY <2>1 DEF Fold
  <2> QED
    BY <1>2, <2>2
<1>4. CASE verb = "revive"
  <2>1. /\ Apply(s, verb, t) = StartOver(Advance(s, t))
        /\ Apply(log, verb, t) = StartOver(Advance(log, t))
    BY <1>4 DEF Apply
  <2>2. Advance(s, t).v = Advance(log, t).v
    BY DeathRegardless
  <2>3. Apply(log, verb, t).asof = t
    BY <2>1 DEF StartOver, Advance
  <2>4. Apply(log, verb, t) # Refused
    BY <2>3 DEF Refused, Never
  <2>5. Fold(log, verb, t) = Apply(log, verb, t)
    BY <2>4 DEF Fold
  <2>6. Apply(log, verb, t).v = Apply(s, verb, t).v
    BY <2>1, <2>2 DEF StartOver
  <2> QED
    BY <2>3, <2>5, <2>6
<1> QED
  BY <1>3, <1>4

(* A log folds to a snapshot of a pet alive. *)
LEMMA FoldTyped ==
    ASSUME NEW log, log \in Snapshots, log.died = Never, NEW t \in 0..Hours, NEW verb \in Verbs
    PROVE  Fold(log, verb, t) \in Snapshots /\ Fold(log, verb, t).died = Never
<1>1. log.v \in Values /\ log.asof \in Nat /\ t \in Nat
  BY Limits DEF Snapshots
<1>2. CASE Apply(log, verb, t) = Refused
  BY <1>2 DEF Fold
<1>3. CASE Apply(log, verb, t) # Refused
  <2>1. PICK v \in Values : Apply(log, verb, t) = [v |-> v, asof |-> t, died |-> Never]
    BY <1>1, <1>3, ApplyFacts
  <2> QED
    BY <1>3, <2>1 DEF Fold, Snapshots
<1> QED
  BY <1>2, <1>3

-----------------------------------------------------------------------------
(* The invariant *)

PetSteps == {"idle", "pet", "stats", "mark", "fold", "tx", "revive", "move", "arrive"}
PetHandler ==
    [pc : PetSteps, op : Verbs \cup {"state"}, at : 0..Hours, died : Instants \cup {Never},
     loc : Places, s : Snapshots, stale : BOOLEAN, moved : BOOLEAN]

Clock == now \in 0..Hours /\ asked \in 0..Requests
RowTyped ==
    /\ stats \in [v : Values, asof : 0..Hours] /\ stats.asof <= now
    /\ died \in (0..6 * now) \cup {Never}
DrawnTyped == loc \in Places /\ display \in Places \cup {Never} /\ misdrawn \in BOOLEAN
HandlersTyped == handler \in [Handlers -> PetHandler]
LogTyped == replay \in Snapshots /\ replay.died = Never
FlagsTyped == crossed \in BOOLEAN /\ owed \in BOOLEAN

(* What a handler carries was so at some time, and not after now. *)
Timely(r) ==
    /\ r.at <= now /\ r.s.asof <= now
    /\ r.pc = "mark" => r.s.died \in 0..6 * now
    /\ r.pc \in {"fold", "tx"} => r.op \in Verbs

(* Unless the pet changed under it, it is still so. *)
Current(r) ==
    ~r.stale =>
        /\ r.pc \in {"stats", "fold", "tx"} => r.died = died
        /\ r.pc = "mark" => died = Never /\ r.s.died = DeadAtWith(Snapshot(stats, Never))
        /\ r.pc = "tx" => r.s # Refused /\ r.s = Apply(Snapshot(stats, died), r.op, r.at)

(* And unless he moved, the place it is about to draw him in is his. *)
Drawable(r) == ~r.moved /\ r.pc \in {"stats", "mark", "arrive"} => r.loc = loc

Carried == \A i \in Handlers : Timely(handler[i]) /\ Current(handler[i]) /\ Drawable(handler[i])

(* He is drawn where he is, or somebody is about to draw him there. *)
DrawnSoon ==
    \/ misdrawn \/ display \in {Never, loc}
    \/ \E i \in Handlers : handler[i].pc = "arrive" /\ ~handler[i].moved

PetsInv ==
    /\ Clock /\ RowTyped /\ DrawnTyped /\ HandlersTyped /\ LogTyped /\ FlagsTyped
    /\ Carried /\ DrawnSoon /\ SnapshotIsReplay /\ DeathIsDerived

(* The fold begins with four bars. *)
LEMMA GenesisTyped == Genesis \in Snapshots /\ Genesis.asof = 0 /\ Genesis.died = Never
BY StartFits, Limits DEF Genesis, Snapshots

(* Nor does a handler that waits carry anything. *)
LEMMA WaitingTyped ==
    /\ Waiting \in PetHandler /\ Waiting.pc = "idle" /\ Waiting.at = 0 /\ Waiting.s = Genesis
    /\ Waiting.s.asof = 0
BY GenesisTyped, Limits DEF Waiting, PetHandler, PetSteps

(* The parts of a handler. *)
LEMMA Parts ==
    ASSUME HandlersTyped, NEW i \in Handlers
    PROVE  /\ handler[i] \in PetHandler
           /\ handler[i].pc \in PetSteps /\ handler[i].op \in Verbs \cup {"state"}
           /\ handler[i].at \in 0..Hours /\ handler[i].died \in Instants \cup {Never}
           /\ handler[i].loc \in Places /\ handler[i].s \in Snapshots
           /\ handler[i].stale \in BOOLEAN /\ handler[i].moved \in BOOLEAN
BY DEF HandlersTyped, PetHandler

(* A step of one handler that writes nothing but the drawing. *)
LEMMA Alone ==
    ASSUME PetsInv, NEW i \in Handlers, NEW r \in PetHandler,
           handler' = [handler EXCEPT ![i] = r],
           UNCHANGED <<now, stats, died, loc, replay, crossed, owed>>,
           Timely(r), Current(r), Drawable(r),
           asked' \in 0..Requests, DrawnTyped', DrawnSoon'
    PROVE  PetsInv'
<1>1. HandlersTyped'
  BY DEF PetsInv, HandlersTyped
<1>2. Carried'
  <2> SUFFICES ASSUME NEW j \in Handlers
               PROVE  (Timely(handler[j]) /\ Current(handler[j]) /\ Drawable(handler[j]))'
    BY DEF Carried
  <2>1. PICK q : q = handler'[j] /\ Timely(q) /\ Current(q) /\ Drawable(q)
    BY DEF PetsInv, Carried, HandlersTyped
  <2>2. Timely(q)' /\ Drawable(q)'
    BY <2>1 DEF Timely, Drawable
  <2>3. Current(q)'
    BY <2>1 DEF Current
  <2>4. Timely(handler[j])' /\ Drawable(handler[j])'
    BY <2>1, <2>2 DEF Timely, Drawable
  <2>5. Current(handler[j])'
    BY <2>1, <2>3 DEF Current
  <2> QED
    BY <2>4, <2>5
<1>3. Clock' /\ RowTyped'
  BY DEF PetsInv, Clock, RowTyped
<1>4. LogTyped' /\ FlagsTyped'
  BY DEF PetsInv, LogTyped, FlagsTyped
<1>5. SnapshotIsReplay' /\ DeathIsDerived'
  BY DEF PetsInv, SnapshotIsReplay, DeathIsDerived
<1> QED
  BY <1>1, <1>2, <1>3, <1>4, <1>5 DEF PetsInv

(* Nobody is drawn elsewhere by a step that draws nobody. *)
LEMMA UndrawnAlone ==
    ASSUME PetsInv, NEW i \in Handlers, NEW r, handler' = [handler EXCEPT ![i] = r],
           handler[i].pc # "arrive", UNCHANGED <<loc, display, misdrawn>>
    PROVE  DrawnTyped' /\ DrawnSoon'
<1>1. DrawnTyped'
  BY DEF PetsInv, DrawnTyped
<1>2. CASE misdrawn \/ display \in {Never, loc}
  BY <1>1, <1>2 DEF DrawnSoon
<1>3. CASE \E j \in Handlers : handler[j].pc = "arrive" /\ ~handler[j].moved
  <2>1. PICK j \in Handlers : handler[j].pc = "arrive" /\ ~handler[j].moved
    BY <1>3
  <2>2. handler'[j] = handler[j]
    BY <2>1 DEF PetsInv, HandlersTyped
  <2> QED
    BY <1>1, <2>1, <2>2 DEF DrawnSoon
<1> QED
  BY <1>2, <1>3 DEF PetsInv, DrawnSoon

(* What a handler draws is his place, or it had read one he has left. *)
LEMMA Remembered ==
    ASSUME PetsInv, NEW i \in Handlers, Remember(i), loc' = loc,
           handler[i].pc \in {"stats", "mark", "arrive"}
    PROVE  DrawnTyped' /\ DrawnSoon'
<1>1. handler[i].loc \in Places /\ handler[i].moved \in BOOLEAN
  BY Parts DEF PetsInv
<1>2. DrawnTyped'
  <2>1. misdrawn' \in BOOLEAN
    BY <1>1 DEF Remember
  <2>2. loc' \in Places /\ display' \in Places \cup {Never}
    BY <1>1 DEF Remember, PetsInv, DrawnTyped
  <2> QED
    BY <2>1, <2>2 DEF DrawnTyped
<1>3. ~handler[i].moved => handler[i].loc = loc
  BY DEF PetsInv, Carried, Drawable
<1> QED
  BY <1>1, <1>2, <1>3 DEF Remember, DrawnSoon

(* A step that changes the pet makes every other read stale. *)
LEMMA UnderThem ==
    ASSUME PetsInv, NEW i \in Handlers, NEW r \in PetHandler, handler' = Staled(i, r),
           UNCHANGED <<now, loc, asked>>,
           Timely(r), Current(r)', Drawable(r),
           RowTyped', DrawnTyped', LogTyped', FlagsTyped', DrawnSoon',
           SnapshotIsReplay', DeathIsDerived'
    PROVE  PetsInv'
<1>1. HandlersTyped'
  <2>1. \A j \in Handlers : [handler[j] EXCEPT !.stale = TRUE] \in PetHandler
    BY DEF PetsInv, HandlersTyped, PetHandler
  <2> QED
    BY <2>1 DEF Staled, HandlersTyped
<1>2. Carried'
  <2> SUFFICES ASSUME NEW j \in Handlers
               PROVE  (Timely(handler[j]) /\ Current(handler[j]) /\ Drawable(handler[j]))'
    BY DEF Carried
  <2>1. CASE j = i
    <3>1. handler'[j] = r
      BY <2>1 DEF Staled
    <3>2. Timely(handler[j])' /\ Drawable(handler[j])'
      BY <3>1 DEF Timely, Drawable
    <3>3. Current(handler[j])'
      BY <3>1 DEF Current
    <3> QED
      BY <3>2, <3>3
  <2>2. CASE j # i
    <3>1. handler'[j] = [handler[j] EXCEPT !.stale = TRUE] /\ handler[j] \in PetHandler
      BY <2>2, Parts DEF Staled, PetsInv
    <3>2. /\ handler'[j].pc = handler[j].pc /\ handler'[j].op = handler[j].op
          /\ handler'[j].at = handler[j].at /\ handler'[j].s = handler[j].s
          /\ handler'[j].loc = handler[j].loc /\ handler'[j].moved = handler[j].moved
          /\ handler'[j].stale
      BY <3>1 DEF PetHandler
    <3>3. Timely(handler[j]) /\ Drawable(handler[j])
      BY DEF PetsInv, Carried
    <3>4. Timely(handler[j])' /\ Drawable(handler[j])'
      BY <3>2, <3>3 DEF Timely, Drawable
    <3>5. Current(handler[j])'
      BY <3>2 DEF Current
    <3> QED
      BY <3>4, <3>5
  <2> QED
    BY <2>1, <2>2
<1>3. Clock'
  BY DEF PetsInv, Clock
<1> QED
  BY <1>1, <1>2, <1>3 DEF PetsInv

(* Nor does a change of the pet move a drawing. *)
LEMMA UndrawnUnder ==
    ASSUME PetsInv, NEW i \in Handlers, NEW r, handler' = Staled(i, r),
           handler[i].pc # "arrive", UNCHANGED <<loc, display, misdrawn>>
    PROVE  DrawnTyped' /\ DrawnSoon'
<1>1. DrawnTyped'
  BY DEF PetsInv, DrawnTyped
<1>2. CASE misdrawn \/ display \in {Never, loc}
  BY <1>1, <1>2 DEF DrawnSoon
<1>3. CASE \E j \in Handlers : handler[j].pc = "arrive" /\ ~handler[j].moved
  <2>1. PICK j \in Handlers : handler[j].pc = "arrive" /\ ~handler[j].moved
    BY <1>3
  <2>2. handler'[j] = [handler[j] EXCEPT !.stale = TRUE] /\ handler[j] \in PetHandler
    BY <2>1, Parts DEF Staled, PetsInv
  <2>3. handler'[j].pc = "arrive" /\ ~handler'[j].moved
    BY <2>1, <2>2 DEF PetHandler
  <2> QED
    BY <1>1, <2>1, <2>3 DEF DrawnSoon
<1> QED
  BY <1>2, <1>3 DEF PetsInv, DrawnSoon

-----------------------------------------------------------------------------
(* The steps of one handler *)

(* A handler that is put away. *)
LEMMA PutAway ==
    ASSUME PetsInv, NEW i \in Handlers, handler' = [handler EXCEPT ![i] = Waiting],
           handler[i].pc # "arrive",
           UNCHANGED <<now, stats, died, loc, display, asked, replay, crossed, owed, misdrawn>>
    PROVE  PetsInv'
<1>1. Timely(Waiting) /\ Current(Waiting) /\ Drawable(Waiting)
  BY WaitingTyped DEF Timely, Current, Drawable, PetsInv, Clock
<1>2. DrawnTyped' /\ DrawnSoon'
  BY UndrawnAlone
<1>3. asked' \in 0..Requests
  BY DEF PetsInv, Clock
<1> QED
  BY <1>1, <1>2, <1>3, Alone, WaitingTyped

(* A frame or a request arrives. *)
LEMMA ArrivesKeeps ==
    ASSUME PetsInv, NEW i \in Handlers, NEW op \in Verbs \cup {"state"}, Arrives(i, op)
    PROVE  PetsInv'
<1> DEFINE r == [Waiting EXCEPT !.op = op, !.pc = "pet", !.at = now]
<1>1. r.pc = "pet" /\ r.at = now /\ r.s = Genesis
  BY WaitingTyped DEF PetHandler
<1>2. handler' = [handler EXCEPT ![i] = r] /\ handler[i].pc # "arrive"
  BY DEF Arrives
<1>3. r \in PetHandler
  BY WaitingTyped DEF PetHandler, PetSteps, PetsInv, Clock
<1> HIDE DEF r
<1>4. Timely(r) /\ Current(r) /\ Drawable(r)
  BY <1>1, GenesisTyped DEF Timely, Current, Drawable, PetsInv, Clock
<1>5. DrawnTyped' /\ DrawnSoon'
  BY <1>2, UndrawnAlone DEF Arrives
<1>6. asked' \in 0..Requests
  BY Limits DEF Arrives, PetsInv, Clock
<1>7. UNCHANGED <<now, stats, died, loc, replay, crossed, owed>>
  BY DEF Arrives
<1> QED
  BY <1>2, <1>3, <1>4, <1>5, <1>6, <1>7, Alone

(* So does a walk somewhere. *)
LEMMA ArrivesGotoKeeps ==
    ASSUME PetsInv, NEW i \in Handlers, NEW l \in Places, ArrivesGoto(i, l)
    PROVE  PetsInv'
<1> DEFINE r == [Waiting EXCEPT !.pc = "move", !.at = now, !.loc = l]
<1>1. r.pc = "move" /\ r.at = now /\ r.s = Genesis
  BY WaitingTyped DEF PetHandler
<1>2. handler' = [handler EXCEPT ![i] = r] /\ handler[i].pc # "arrive"
  BY DEF ArrivesGoto
<1>3. r \in PetHandler
  BY WaitingTyped DEF PetHandler, PetSteps, PetsInv, Clock
<1> HIDE DEF r
<1>4. Timely(r) /\ Current(r) /\ Drawable(r)
  BY <1>1, GenesisTyped DEF Timely, Current, Drawable, PetsInv, Clock
<1>5. DrawnTyped' /\ DrawnSoon'
  BY <1>2, UndrawnAlone DEF ArrivesGoto
<1>6. asked' \in 0..Requests
  BY Limits DEF ArrivesGoto, PetsInv, Clock
<1>7. UNCHANGED <<now, stats, died, loc, replay, crossed, owed>>
  BY DEF ArrivesGoto
<1> QED
  BY <1>2, <1>3, <1>4, <1>5, <1>6, <1>7, Alone

(* An instant of death that is not after now is one there is room for. *)
LEMMA InstantsReach ==
    ASSUME PetsInv
    PROVE  0..6 * now \subseteq Instants /\ died \in Instants \cup {Never}
<1>1. now \in 0..Hours /\ Hours \in Nat /\ Top \in Nat
  BY Limits DEF PetsInv, Clock
<1>2. 0..6 * now \subseteq 0..6 * (Hours + Top)
  BY <1>1
<1> QED
  BY <1>2 DEF Instants, PetsInv, RowTyped

(* What has just been read is so. *)
LEMMA ReadsPetKeeps ==
    ASSUME PetsInv, NEW i \in Handlers, ReadsPet(i)
    PROVE  PetsInv'
<1> DEFINE r == [handler[i] EXCEPT !.pc = "stats", !.died = died, !.loc = loc,
                            !.stale = FALSE, !.moved = FALSE]
<1>1. handler[i] \in PetHandler /\ handler[i].pc = "pet"
  BY Parts DEF ReadsPet, PetsInv
<1>2. handler' = [handler EXCEPT ![i] = r]
  BY DEF ReadsPet
<1>3. /\ r.pc = "stats" /\ r.op = handler[i].op /\ r.at = handler[i].at /\ r.died = died
      /\ r.loc = loc /\ r.s = handler[i].s /\ ~r.stale /\ ~r.moved
  BY <1>1 DEF PetHandler
<1>4. r \in PetHandler
  BY <1>1, InstantsReach DEF PetHandler, PetSteps, PetsInv, DrawnTyped
<1> HIDE DEF r
<1>5. Timely(handler[i])
  BY DEF PetsInv, Carried
<1>6. Timely(r) /\ Drawable(r)
  BY <1>3, <1>5 DEF Timely, Drawable
<1>7. Current(r)
  BY <1>3 DEF Current
<1>8. DrawnTyped' /\ DrawnSoon'
  BY <1>1, <1>2, UndrawnAlone DEF ReadsPet
<1>9. UNCHANGED <<now, stats, died, loc, replay, crossed, owed>> /\ asked' \in 0..Requests
  BY DEF ReadsPet, PetsInv, Clock
<1> QED
  BY <1>2, <1>4, <1>6, <1>7, <1>8, <1>9, Alone

(* A handler that has the pet before it goes on to the fold, or is through. *)
LEMMA DoneFacts ==
    ASSUME PetsInv, NEW r \in PetHandler, r.at <= now, r.s.asof <= now
    PROVE  /\ Done(r) \in PetHandler /\ Timely(Done(r)) /\ Drawable(Done(r))
           /\ Done(r).pc \in {"idle", "fold"}
           /\ Done(r).pc = "fold" => Done(r).died = r.died /\ (Done(r).stale <=> r.stale)
<1>1. CASE r.op = "state"
  <2>1. Done(r) = Waiting
    BY <1>1 DEF Done
  <2>2. Timely(Waiting) /\ Drawable(Waiting)
    BY WaitingTyped DEF Timely, Drawable, PetsInv, Clock
  <2> QED
    BY <2>1, <2>2, WaitingTyped
<1>2. CASE r.op # "state"
  <2>1. Done(r) = [r EXCEPT !.pc = "fold"]
    BY <1>2 DEF Done
  <2>2. Done(r) \in PetHandler
    BY <2>1 DEF PetHandler, PetSteps
  <2>3. /\ Done(r).pc = "fold" /\ Done(r).at = r.at /\ Done(r).s = r.s /\ Done(r).op = r.op
        /\ Done(r).died = r.died /\ Done(r).stale = r.stale
    BY <2>1 DEF PetHandler
  <2>4. r.op \in Verbs
    BY <1>2 DEF PetHandler
  <2>5. Timely(Done(r)) /\ Drawable(Done(r))
    BY <2>3, <2>4 DEF Timely, Drawable
  <2> QED
    BY <2>2, <2>3, <2>5
<1> QED
  BY <1>1, <1>2

(* The rows, as a handler that has read them has them before it. *)
LEMMA RowsFacts ==
    ASSUME PetsInv, NEW i \in Handlers
    PROVE  /\ stats.v \in Values /\ stats.asof \in Nat /\ stats.asof \in 0..Hours /\ stats.asof <= now
           /\ now \in Nat /\ now \in 0..Hours /\ handler[i].at \in Nat /\ handler[i].at \in 0..Hours
           /\ handler[i].at <= now /\ handler[i].s.asof <= now
<1>1. handler[i].at \in 0..Hours /\ Timely(handler[i])
  BY Parts DEF PetsInv, Carried
<1>2. stats \in [v : Values, asof : 0..Hours] /\ stats.asof <= now /\ now \in 0..Hours
  BY DEF PetsInv, RowTyped, Clock
<1> QED
  BY <1>1, <1>2, Limits DEF Timely

(* A death nobody recorded is derived from the rows as they were read. *)
LEMMA ReadsStatsKeeps ==
    ASSUME PetsInv, NEW i \in Handlers, ReadsStats(i)
    PROVE  PetsInv'
<1> DEFINE s == Snapshot(stats, handler[i].died)
           dead == Dead(s, handler[i].at) /\ handler[i].died = Never
           marked == [s EXCEPT !.died = DeadAtWith(s)]
<1>1. handler[i] \in PetHandler /\ handler[i].pc = "stats"
  BY Parts DEF ReadsStats, PetsInv
<1>2. Timely(handler[i]) /\ Current(handler[i]) /\ Drawable(handler[i])
  BY DEF PetsInv, Carried
<1>3. DrawnTyped' /\ DrawnSoon'
  BY <1>1, Remembered DEF ReadsStats
<1>4. UNCHANGED <<now, stats, died, loc, replay, crossed, owed>> /\ asked' \in 0..Requests
  BY DEF ReadsStats, PetsInv, Clock
<1>5. CASE dead
  <2> DEFINE r == [handler[i] EXCEPT !.pc = "mark", !.s = marked]
  <2>1. handler' = [handler EXCEPT ![i] = r]
    BY <1>5 DEF ReadsStats
  <2>2. s.v \in Values /\ s.asof = stats.asof /\ s.died = Never /\ s.asof \in Nat
    BY <1>5, RowsFacts DEF Snapshot
  <2>3. marked = [v |-> s.v, asof |-> s.asof, died |-> DeadAtWith(s)]
    BY DEF Snapshot
  <2> HIDE DEF s
  <2>4. DeadAtWith(s) \in 0..6 * now
    <3>1. /\ DeadAtWith(s) \in Nat
          /\ DeadAtWith(s) <= 6 * handler[i].at \/ DeadAtWith(s) <= 6 * s.asof
      BY <1>5, <2>2, RowsFacts, DeathNotLater
    <3> QED
      BY <2>2, <3>1, RowsFacts
  <2>5. marked \in Snapshots
    BY <2>2, <2>3, <2>4, RowsFacts, InstantsReach DEF Snapshots
  <2> HIDE DEF marked
  <2>6. r \in PetHandler
    BY <1>1, <2>5 DEF PetHandler, PetSteps
  <2>7. /\ r.pc = "mark" /\ r.at = handler[i].at /\ r.s = marked /\ r.loc = handler[i].loc
        /\ r.stale = handler[i].stale /\ r.moved = handler[i].moved
    BY <1>1 DEF PetHandler
  <2> HIDE DEF r
  <2>8. Timely(r)
    BY <2>2, <2>3, <2>4, <2>7, RowsFacts DEF Timely
  <2>9. Drawable(r)
    BY <1>1, <1>2, <2>7 DEF Drawable
  <2>10. ~r.stale => died = Never
    BY <1>1, <1>2, <1>5, <2>7 DEF Current
  <2>11. r.s.died = DeadAtWith(Snapshot(stats, Never))
    BY <1>5, <2>3, <2>7 DEF s
  <2>12. Current(r)
    BY <2>7, <2>10, <2>11 DEF Current
  <2> QED
    BY <1>3, <1>4, <2>1, <2>6, <2>8, <2>9, <2>12, Alone
<1>6. CASE ~dead
  <2>1. handler' = [handler EXCEPT ![i] = Done(handler[i])]
    BY <1>6 DEF ReadsStats
  <2>2. PICK r : r = Done(handler[i])
    OBVIOUS
  <2>3. /\ r \in PetHandler /\ Timely(r) /\ Drawable(r) /\ r.pc \in {"idle", "fold"}
        /\ r.pc = "fold" => r.died = handler[i].died /\ (r.stale <=> handler[i].stale)
    BY <1>1, <2>2, RowsFacts, DoneFacts
  <2>4. ~handler[i].stale => handler[i].died = died
    BY <1>1, <1>2 DEF Current
  <2>5. Current(r)
    BY <2>3, <2>4 DEF Current
  <2> QED
    BY <1>3, <1>4, <2>1, <2>2, <2>3, <2>5, Alone
<1> QED
  BY <1>5, <1>6

(* The verb is folded over what was read, or refused. *)
LEMMA FoldsKeeps ==
    ASSUME PetsInv, NEW i \in Handlers, Folds(i)
    PROVE  PetsInv'
<1> DEFINE s == Snapshot(stats, handler[i].died)
           next == Apply(s, handler[i].op, handler[i].at)
<1>1. handler[i] \in PetHandler /\ handler[i].pc = "fold"
  BY Parts DEF Folds, PetsInv
<1>2. Timely(handler[i]) /\ Current(handler[i])
  BY DEF PetsInv, Carried
<1>3. CASE handler' = [handler EXCEPT ![i] = Waiting]
  BY <1>1, <1>3, PutAway DEF Folds
<1>4. ASSUME next # Refused, handler' = [handler EXCEPT ![i].pc = "tx", ![i].s = next]
      PROVE  PetsInv'
  <2> DEFINE r == [handler[i] EXCEPT !.pc = "tx", !.s = next]
  <2>1. handler' = [handler EXCEPT ![i] = r]
    BY <1>4
  <2>2. handler[i].op \in Verbs
    BY <1>1, <1>2 DEF Timely
  <2>3. s.v \in Values /\ s.asof \in Nat
    BY RowsFacts DEF Snapshot
  <2>4. /\ next.v \in Values /\ next.asof = handler[i].at
        /\ next = [v |-> next.v, asof |-> handler[i].at, died |-> Never]
    <3> HIDE DEF s
    <3> QED
      BY <1>4, <2>2, <2>3, RowsFacts, ApplyFacts
  <2>5. next \in Snapshots
    <3> HIDE DEF next
    <3> QED
      BY <2>4, RowsFacts DEF Snapshots
  <2>6. ~handler[i].stale => next = Apply(Snapshot(stats, died), handler[i].op, handler[i].at)
    BY <1>1, <1>2 DEF Current
  <2> HIDE DEF next
  <2>7. r \in PetHandler
    BY <1>1, <2>5 DEF PetHandler, PetSteps
  <2>8. /\ r.pc = "tx" /\ r.at = handler[i].at /\ r.s = next /\ r.op = handler[i].op
        /\ r.stale = handler[i].stale /\ r.died = handler[i].died
    BY <1>1 DEF PetHandler
  <2> HIDE DEF r
  <2>9. Timely(r) /\ Drawable(r)
    BY <2>2, <2>4, <2>8, RowsFacts DEF Timely, Drawable
  <2>10. ~r.stale => r.died = died /\ r.s # Refused /\ r.s = Apply(Snapshot(stats, died), r.op, r.at)
    BY <1>1, <1>2, <1>4, <2>6, <2>8 DEF Current, next
  <2>11. Current(r)
    BY <2>8, <2>10 DEF Current
  <2>12. DrawnTyped' /\ DrawnSoon'
    BY <1>1, <2>1, UndrawnAlone DEF Folds
  <2>13. UNCHANGED <<now, stats, died, loc, replay, crossed, owed>> /\ asked' \in 0..Requests
    BY DEF Folds, PetsInv, Clock
  <2> QED
    BY <2>1, <2>7, <2>9, <2>11, <2>12, <2>13, Alone
<1> QED
  BY <1>3, <1>4 DEF Folds

(* What fails, or loses its contest, writes nothing. *)
LEMMA FailuresKeep ==
    ASSUME PetsInv, NEW i \in Handlers, Refuses(i) \/ ReviveFails(i) \/ Fails(i)
    PROVE  PetsInv'
BY PutAway DEF Refuses, ReviveFails, Fails

(* Nor does a relocation that fails. *)
LEMMA MoveFailsKeeps ==
    ASSUME PetsInv, NEW i \in Handlers, MoveFails(i)
    PROVE  PetsInv'
<1> DEFINE r == [handler[i] EXCEPT !.pc = "pet"]
<1>1. handler[i] \in PetHandler /\ handler[i].pc = "move"
  BY Parts DEF MoveFails, PetsInv
<1>2. CASE handler' = [handler EXCEPT ![i] = Waiting]
  BY <1>1, <1>2, PutAway DEF MoveFails
<1>3. CASE handler' = [handler EXCEPT ![i] = r]
  <2>1. r \in PetHandler /\ r.pc = "pet" /\ r.at = handler[i].at /\ r.s = handler[i].s
    BY <1>1 DEF PetHandler, PetSteps
  <2> HIDE DEF r
  <2>2. Timely(r) /\ Current(r) /\ Drawable(r)
    BY <2>1, RowsFacts DEF Timely, Current, Drawable
  <2>3. DrawnTyped' /\ DrawnSoon'
    BY <1>1, <1>3, UndrawnAlone DEF MoveFails
  <2>4. UNCHANGED <<now, stats, died, loc, replay, crossed, owed>> /\ asked' \in 0..Requests
    BY DEF MoveFails, PetsInv, Clock
  <2> QED
    BY <1>3, <2>1, <2>2, <2>3, <2>4, Alone
<1> QED
  BY <1>2, <1>3 DEF MoveFails

(* He is drawn where the handler moved him, or had. *)
LEMMA ArrivesThereKeeps ==
    ASSUME PetsInv, NEW i \in Handlers, ArrivesThere(i)
    PROVE  PetsInv'
<1> DEFINE r == [handler[i] EXCEPT !.pc = "pet"]
<1>1. handler[i] \in PetHandler /\ handler[i].pc = "arrive"
  BY Parts DEF ArrivesThere, PetsInv
<1>2. handler' = [handler EXCEPT ![i] = r]
  BY DEF ArrivesThere
<1>3. r \in PetHandler /\ r.pc = "pet" /\ r.at = handler[i].at /\ r.s = handler[i].s
  BY <1>1 DEF PetHandler, PetSteps
<1> HIDE DEF r
<1>4. Timely(r) /\ Current(r) /\ Drawable(r)
  BY <1>3, RowsFacts DEF Timely, Current, Drawable
<1>5. DrawnTyped' /\ DrawnSoon'
  BY <1>1, Remembered DEF ArrivesThere
<1>6. UNCHANGED <<now, stats, died, loc, replay, crossed, owed>> /\ asked' \in 0..Requests
  BY DEF ArrivesThere, PetsInv, Clock
<1> QED
  BY <1>2, <1>3, <1>4, <1>5, <1>6, Alone

(* The derived instant is the death, or somebody else recorded one first. *)
LEMMA MarkDiedKeeps ==
    ASSUME PetsInv, NEW i \in Handlers, MarkDied(i)
    PROVE  PetsInv'
<1> DEFINE q == [handler[i] EXCEPT !.died = handler[i].s.died, !.s = Genesis]
<1>1. handler[i] \in PetHandler /\ handler[i].pc = "mark" /\ handler[i].s \in Snapshots
  BY Parts DEF MarkDied, PetsInv
<1>2. Timely(handler[i]) /\ Current(handler[i])
  BY DEF PetsInv, Carried
<1>3. DrawnTyped' /\ DrawnSoon'
  BY <1>1, Remembered DEF MarkDied
<1>4. q \in PetHandler
  <2>1. handler[i].s.died \in Instants \cup {Never}
    BY <1>1 DEF Snapshots
  <2> QED
    BY <1>1, <2>1, GenesisTyped DEF PetHandler
<1>5. /\ q.at = handler[i].at /\ q.s = Genesis /\ q.died = handler[i].s.died
      /\ q.stale = handler[i].stale
  BY <1>1 DEF PetHandler
<1>6. PICK r : r = Done(q)
  OBVIOUS
<1>7. IF died = Never
      THEN died' = handler[i].s.died /\ handler' = Staled(i, r) /\ crossed' = (crossed \/ handler[i].stale)
      ELSE handler' = [handler EXCEPT ![i] = r] /\ died' = died /\ crossed' = crossed
  BY <1>6 DEF MarkDied
<1> HIDE DEF q
<1>8. q.at <= now /\ q.s.asof <= now
  BY <1>5, RowsFacts, GenesisTyped
<1>9. /\ r \in PetHandler /\ Timely(r) /\ Drawable(r) /\ r.pc \in {"idle", "fold"}
      /\ r.pc = "fold" => r.died = handler[i].s.died /\ (r.stale <=> handler[i].stale)
  BY <1>4, <1>5, <1>6, <1>8, DoneFacts
<1>10. UNCHANGED <<now, stats, loc, asked, replay, owed>> /\ asked' \in 0..Requests
  BY DEF MarkDied, PetsInv, Clock
<1>11. CASE died # Never
  <2>1. Current(r)
    BY <1>1, <1>2, <1>9, <1>11 DEF Current
  <2> QED
    BY <1>3, <1>7, <1>9, <1>10, <1>11, <2>1, Alone
<1>12. CASE died = Never
  <2>1. died' = handler[i].s.died /\ handler' = Staled(i, r) /\ crossed' = (crossed \/ handler[i].stale)
    BY <1>7, <1>12
  <2>2. died' \in 0..6 * now
    BY <1>1, <1>2, <2>1 DEF Timely
  <2>3. RowTyped'
    BY <1>10, <2>2 DEF PetsInv, RowTyped
  <2>4. LogTyped'
    BY <1>10 DEF PetsInv, LogTyped
  <2>5. FlagsTyped'
    <3>1. crossed \in BOOLEAN /\ owed' \in BOOLEAN /\ handler[i].stale \in BOOLEAN
      BY <1>10, Parts DEF PetsInv, FlagsTyped
    <3>2. crossed' \in BOOLEAN
      BY <2>1, <3>1
    <3> QED
      BY <3>1, <3>2 DEF FlagsTyped
  <2>6. SnapshotIsReplay'
    BY <1>10, <2>1 DEF PetsInv, SnapshotIsReplay
  <2>7. ~handler[i].stale => died' = DeadAtWith(Snapshot(stats, Never))
    BY <1>1, <1>2, <2>1 DEF Current
  <2>8. DeathIsDerived'
    BY <1>10, <2>1, <2>7 DEF DeathIsDerived
  <2>9. Current(r)'
    BY <1>9, <2>1 DEF Current
  <2> QED
    BY <1>3, <1>9, <1>10, <2>1, <2>3, <2>4, <2>5, <2>6, <2>8, <2>9, UnderThem
<1> QED
  BY <1>11, <1>12

(* What is written is what the log folds to, and a pet that was dead is    *)
(* raised, with its death still to be cleared.                             *)
LEMMA CommitsKeeps ==
    ASSUME PetsInv, NEW i \in Handlers, Commits(i)
    PROVE  PetsInv'
<1> DEFINE raised == handler[i].op = "revive" /\ handler[i].died # Never
           r0 == [handler[i] EXCEPT !.pc = IF raised THEN "revive" ELSE "pet", !.op = "state", !.s = Genesis]
<1>1. /\ handler[i] \in PetHandler /\ handler[i].pc = "tx" /\ handler[i].s \in Snapshots
      /\ handler[i].stale \in BOOLEAN /\ handler[i].at \in 0..Hours
  BY Parts DEF Commits, PetsInv
<1>2. Timely(handler[i]) /\ Current(handler[i])
  BY DEF PetsInv, Carried
<1>3. handler[i].op \in Verbs
  BY <1>1, <1>2 DEF Timely
<1>4. PICK r : r = r0
  OBVIOUS
<1>5. /\ handler' = Staled(i, r) /\ stats' = Rows(handler[i].s)
      /\ replay' = IF crossed' THEN Genesis ELSE Fold(replay, handler[i].op, handler[i].at)
      /\ UNCHANGED <<now, died, loc, display, asked, misdrawn>>
  BY <1>4 DEF Commits, AppendEvents
<1>6. (crossed' = (crossed \/ handler[i].stale)) /\ (owed' = (owed \/ raised))
  BY DEF Commits
<1>7. r \in PetHandler /\ r.pc \in {"revive", "pet"} /\ r.at = handler[i].at /\ r.s = Genesis
  BY <1>1, <1>4, GenesisTyped DEF PetHandler, PetSteps
<1>8. Timely(r) /\ Drawable(r)
  BY <1>7, RowsFacts, GenesisTyped DEF Timely, Drawable
<1>9. Current(r)'
  BY <1>7 DEF Current
<1>10. RowTyped'
  <2>1. handler[i].s.v \in Values /\ handler[i].s.asof \in 0..Hours /\ handler[i].s.asof <= now
    BY <1>1, RowsFacts DEF Snapshots
  <2>2. stats' \in [v : Values, asof : 0..Hours] /\ stats'.asof <= now
    BY <1>5, <2>1 DEF Rows
  <2> QED
    BY <1>5, <2>2 DEF RowTyped, PetsInv
<1>11. LogTyped'
  BY <1>1, <1>3, <1>5, FoldTyped, GenesisTyped DEF PetsInv, LogTyped
<1>12. FlagsTyped'
  <2>1. crossed \in BOOLEAN /\ owed \in BOOLEAN
    BY DEF PetsInv, FlagsTyped
  <2>2. crossed' \in BOOLEAN /\ owed' \in BOOLEAN
    BY <1>6
  <2> QED
    BY <2>2 DEF FlagsTyped
<1>13. ASSUME ~crossed'
       PROVE  stats' = Rows(replay') /\ (died' # Never => owed')
  <2> DEFINE s == Snapshot(stats, died)
  <2>1. ~crossed /\ ~handler[i].stale
    BY <1>6, <1>13
  <2>2. /\ handler[i].died = died /\ handler[i].s # Refused
        /\ handler[i].s = Apply(s, handler[i].op, handler[i].at)
    BY <1>1, <1>2, <2>1 DEF Current
  <2>3. replay = Snapshot(stats, Never)
    <3>1. stats = Rows(replay) /\ replay \in Snapshots /\ replay.died = Never
      BY <2>1 DEF PetsInv, SnapshotIsReplay, LogTyped
    <3>2. replay = [v |-> replay.v, asof |-> replay.asof, died |-> replay.died]
      BY <3>1 DEF Snapshots
    <3> QED
      BY <3>1, <3>2 DEF Rows, Snapshot
  <2>4. /\ Fold(replay, handler[i].op, handler[i].at).v = handler[i].s.v
        /\ Fold(replay, handler[i].op, handler[i].at).asof = handler[i].at
    BY <1>3, <2>2, <2>3, RowsFacts, FoldFollows
  <2>5. s.v \in Values /\ s.asof \in Nat /\ s.died = died
    BY RowsFacts DEF Snapshot
  <2>6. handler[i].s.asof = handler[i].at /\ (handler[i].op # "revive" => died = Never)
    <3> HIDE DEF s
    <3> QED
      BY <1>3, <2>2, <2>5, RowsFacts, ApplyFacts
  <2>7. stats' = Rows(replay')
    BY <1>5, <1>13, <2>4, <2>6 DEF Rows
  <2>8. died' # Never => raised
    BY <1>5, <2>2, <2>6
  <2> QED
    BY <1>6, <2>7, <2>8
<1>14. SnapshotIsReplay' /\ DeathIsDerived'
  BY <1>13 DEF SnapshotIsReplay, DeathIsDerived
<1>15. DrawnTyped' /\ DrawnSoon'
  BY <1>1, <1>5, UndrawnUnder
<1> QED
  BY <1>5, <1>7, <1>8, <1>9, <1>10, <1>11, <1>12, <1>14, <1>15, UnderThem

(* The death is cleared, and the debt with it. *)
LEMMA ReviveKeeps ==
    ASSUME PetsInv, NEW i \in Handlers, Revive(i)
    PROVE  PetsInv'
<1>1. handler[i] \in PetHandler /\ handler[i].pc = "revive"
  BY Parts DEF Revive, PetsInv
<1>2. PICK l \in Places : handler' = Staled(i, [handler[i] EXCEPT !.pc = "move", !.loc = l])
  BY DEF Revive
<1>3. PICK r : r = [handler[i] EXCEPT !.pc = "move", !.loc = l]
  OBVIOUS
<1>4. r \in PetHandler /\ r.pc = "move" /\ r.at = handler[i].at /\ r.s = handler[i].s
  BY <1>1, <1>3 DEF PetHandler, PetSteps
<1>5. handler' = Staled(i, r)
  BY <1>2, <1>3
<1>6. Timely(r) /\ Drawable(r)
  BY <1>4, RowsFacts DEF Timely, Drawable
<1>7. Current(r)'
  BY <1>4 DEF Current
<1>8. /\ died' = Never /\ ~owed' /\ owed' \in BOOLEAN
      /\ UNCHANGED <<now, stats, loc, display, asked, replay, crossed, misdrawn>>
  BY DEF Revive
<1>9. RowTyped' /\ LogTyped'
  BY <1>8 DEF PetsInv, RowTyped, LogTyped
<1>10. FlagsTyped'
  BY <1>8 DEF PetsInv, FlagsTyped
<1>11. SnapshotIsReplay' /\ DeathIsDerived'
  BY <1>8 DEF PetsInv, SnapshotIsReplay, DeathIsDerived
<1>12. DrawnTyped' /\ DrawnSoon'
  BY <1>1, <1>5, <1>8, UndrawnUnder
<1> QED
  BY <1>4, <1>5, <1>6, <1>7, <1>8, <1>9, <1>10, <1>11, <1>12, UnderThem

(* Whoever moves him draws him next, and every other reading has moved. *)
LEMMA MovesKeeps ==
    ASSUME PetsInv, NEW i \in Handlers, Moves(i)
    PROVE  PetsInv'
<1>1. handler[i] \in PetHandler /\ handler[i].loc \in Places
  BY Parts DEF PetsInv
<1>2. /\ loc' = handler[i].loc
      /\ UNCHANGED <<now, stats, died, display, asked, replay, crossed, owed, misdrawn>>
  BY DEF Moves
<1>3. ASSUME NEW j \in Handlers
      PROVE  /\ handler'[j] \in PetHandler
             /\ handler'[j].at = handler[j].at /\ handler'[j].s = handler[j].s
             /\ handler'[j].op = handler[j].op /\ handler'[j].loc = handler[j].loc
             /\ handler'[j].died = handler[j].died /\ (handler'[j].stale <=> handler[j].stale)
             /\ j = i => handler'[j].pc = "arrive" /\ ~handler'[j].moved
             /\ j # i => handler'[j].pc = handler[j].pc /\ handler'[j].moved
  <2>1. handler[j] \in PetHandler
    BY Parts DEF PetsInv
  <2>2. CASE j = i
    <3>1. handler'[j] = [handler[j] EXCEPT !.pc = "arrive", !.moved = FALSE]
      BY <2>2 DEF Moves
    <3> QED
      BY <2>1, <2>2, <3>1 DEF PetHandler, PetSteps
  <2>3. CASE j # i
    <3>1. handler'[j] = [handler[j] EXCEPT !.moved = TRUE]
      BY <2>3 DEF Moves
    <3> QED
      BY <2>1, <2>3, <3>1 DEF PetHandler
  <2> QED
    BY <2>2, <2>3
<1>4. HandlersTyped'
  <2>1. handler' = [j \in Handlers |-> handler'[j]]
    BY DEF Moves
  <2> QED
    BY <1>3, <2>1 DEF HandlersTyped
<1>5. Carried'
  <2> SUFFICES ASSUME NEW j \in Handlers
               PROVE  (Timely(handler[j]) /\ Current(handler[j]) /\ Drawable(handler[j]))'
    BY DEF Carried
  <2>1. Timely(handler[j]) /\ Current(handler[j])
    BY DEF PetsInv, Carried
  <2>2. Timely(handler[j])'
    BY <1>2, <1>3, <2>1, RowsFacts DEF Timely
  <2>3. Current(handler[j])'
    BY <1>2, <1>3, <2>1 DEF Current
  <2>4. Drawable(handler[j])'
    BY <1>2, <1>3 DEF Drawable
  <2> QED
    BY <2>2, <2>3, <2>4
<1>6. Clock' /\ RowTyped'
  BY <1>2 DEF PetsInv, Clock, RowTyped
<1>7. DrawnTyped'
  BY <1>1, <1>2 DEF PetsInv, DrawnTyped
<1>8. DrawnSoon'
  BY <1>3 DEF DrawnSoon
<1>9. LogTyped' /\ FlagsTyped'
  BY <1>2 DEF PetsInv, LogTyped, FlagsTyped
<1>10. SnapshotIsReplay' /\ DeathIsDerived'
  BY <1>2 DEF PetsInv, SnapshotIsReplay, DeathIsDerived
<1> QED
  BY <1>4, <1>5, <1>6, <1>7, <1>8, <1>9, <1>10 DEF PetsInv

-----------------------------------------------------------------------------
(* Time, and the process *)

(* Nothing is derived before somebody looks. *)
LEMMA HourPassesKeeps ==
    ASSUME PetsInv, HourPasses
    PROVE  PetsInv'
<1>1. now \in Nat /\ now' = now + 1 /\ now' \in 0..Hours
  BY Limits DEF HourPasses, PetsInv, Clock
<1>2. UNCHANGED <<stats, died, loc, display, handler, asked, replay, crossed, owed, misdrawn>>
  BY DEF HourPasses
<1>3. Clock'
  BY <1>1, <1>2 DEF PetsInv, Clock
<1>4. RowTyped'
  BY <1>1, <1>2, Limits DEF PetsInv, RowTyped
<1>5. Carried'
  <2> SUFFICES ASSUME NEW j \in Handlers
               PROVE  (Timely(handler[j]) /\ Current(handler[j]) /\ Drawable(handler[j]))'
    BY DEF Carried
  <2>1. Timely(handler[j]) /\ Current(handler[j]) /\ Drawable(handler[j])
    BY DEF PetsInv, Carried
  <2>2. handler[j].at \in 0..Hours /\ handler[j].s.asof \in 0..Hours
    BY Parts DEF PetsInv, Snapshots
  <2>3. Timely(handler[j])'
    BY <1>1, <1>2, <2>1, <2>2, Limits DEF Timely
  <2>4. Current(handler[j])' /\ Drawable(handler[j])'
    BY <1>2, <2>1 DEF Current, Drawable
  <2> QED
    BY <2>3, <2>4
<1>6. DrawnTyped' /\ DrawnSoon' /\ HandlersTyped'
  BY <1>2 DEF PetsInv, DrawnTyped, DrawnSoon, HandlersTyped
<1>7. LogTyped' /\ FlagsTyped'
  BY <1>2 DEF PetsInv, LogTyped, FlagsTyped
<1>8. SnapshotIsReplay' /\ DeathIsDerived'
  BY <1>2 DEF PetsInv, SnapshotIsReplay, DeathIsDerived
<1> QED
  BY <1>3, <1>4, <1>5, <1>6, <1>7, <1>8 DEF PetsInv

(* The rows, the log and the death outlive the process. *)
LEMMA ProcessDiesKeeps ==
    ASSUME PetsInv, ProcessDies
    PROVE  PetsInv'
<1>1. /\ handler' = [i \in Handlers |-> Waiting] /\ display' = Never /\ misdrawn' = FALSE
      /\ UNCHANGED <<now, stats, died, loc, asked, replay, crossed, owed>>
  BY DEF ProcessDies
<1>2. HandlersTyped'
  BY <1>1, WaitingTyped DEF HandlersTyped
<1>3. Carried'
  <2>1. PICK q : q = Waiting
    OBVIOUS
  <2>2. Timely(q)' /\ Current(q)' /\ Drawable(q)'
    BY <1>1, <2>1, WaitingTyped DEF Timely, Current, Drawable, PetsInv, Clock
  <2> SUFFICES ASSUME NEW j \in Handlers
               PROVE  (Timely(handler[j]) /\ Current(handler[j]) /\ Drawable(handler[j]))'
    BY DEF Carried
  <2>3. handler'[j] = q
    BY <1>1, <2>1
  <2>4. Timely(handler[j])' /\ Drawable(handler[j])'
    BY <2>2, <2>3 DEF Timely, Drawable
  <2>5. Current(handler[j])'
    BY <2>2, <2>3 DEF Current
  <2> QED
    BY <2>4, <2>5
<1>4. Clock' /\ RowTyped'
  BY <1>1 DEF PetsInv, Clock, RowTyped
<1>5. DrawnTyped' /\ DrawnSoon'
  BY <1>1 DEF PetsInv, DrawnTyped, DrawnSoon
<1>6. LogTyped' /\ FlagsTyped'
  BY <1>1 DEF PetsInv, LogTyped, FlagsTyped
<1>7. SnapshotIsReplay' /\ DeathIsDerived'
  BY <1>1 DEF PetsInv, SnapshotIsReplay, DeathIsDerived
<1> QED
  BY <1>2, <1>3, <1>4, <1>5, <1>6, <1>7 DEF PetsInv

-----------------------------------------------------------------------------
(* The theorems *)

(* A pet begins at its genesis. *)
LEMMA PetsInvInit ==
    ASSUME PetsInit
    PROVE  PetsInv
<1>1. Clock /\ RowTyped
  BY GenesisTyped, StartFits, Limits DEF PetsInit, Clock, RowTyped, Rows, Genesis
<1>2. DrawnTyped /\ DrawnSoon
  BY Limits DEF PetsInit, DrawnTyped, DrawnSoon
<1>3. HandlersTyped
  BY WaitingTyped DEF PetsInit, HandlersTyped
<1>4. LogTyped /\ FlagsTyped
  BY GenesisTyped DEF PetsInit, LogTyped, FlagsTyped
<1>5. Carried
  BY WaitingTyped DEF PetsInit, Carried, Timely, Current, Drawable
<1>6. SnapshotIsReplay /\ DeathIsDerived
  BY DEF PetsInit, SnapshotIsReplay, DeathIsDerived
<1> QED
  BY <1>1, <1>2, <1>3, <1>4, <1>5, <1>6 DEF PetsInv

(* No step breaks the invariant. *)
LEMMA PetsInvNext ==
    ASSUME PetsInv, [PetsNext]_petVars
    PROVE  PetsInv'
<1>1. ASSUME NEW i \in Handlers,
             \/ \E op \in Verbs \cup {"state"} : Arrives(i, op)
             \/ \E l \in Places : ArrivesGoto(i, l)
             \/ ReadsPet(i) \/ ReadsStats(i) \/ MarkDied(i) \/ Folds(i) \/ Refuses(i) \/ Commits(i)
             \/ Revive(i) \/ ReviveFails(i) \/ Moves(i) \/ MoveFails(i) \/ ArrivesThere(i) \/ Fails(i)
      PROVE  PetsInv'
  BY <1>1, ArrivesKeeps, ArrivesGotoKeeps, ReadsPetKeeps, ReadsStatsKeeps, MarkDiedKeeps, FoldsKeeps,
     FailuresKeep, CommitsKeeps, ReviveKeeps, MovesKeeps, MoveFailsKeeps, ArrivesThereKeeps
<1>2. CASE UNCHANGED petVars
  <2>1. Clock' /\ RowTyped' /\ DrawnTyped' /\ HandlersTyped'
    BY <1>2 DEF petVars, PetsInv, Clock, RowTyped, DrawnTyped, HandlersTyped
  <2>2. LogTyped' /\ FlagsTyped'
    BY <1>2 DEF petVars, PetsInv, LogTyped, FlagsTyped
  <2>3. Carried' /\ DrawnSoon'
    BY <1>2 DEF petVars, PetsInv, Carried, Timely, Current, Drawable, DrawnSoon
  <2>4. SnapshotIsReplay' /\ DeathIsDerived'
    BY <1>2 DEF petVars, PetsInv, SnapshotIsReplay, DeathIsDerived
  <2> QED
    BY <2>1, <2>2, <2>3, <2>4 DEF PetsInv
<1> QED
  BY <1>1, <1>2, HourPassesKeeps, ProcessDiesKeeps DEF PetsNext

(* The invariant is more than the story. *)
LEMMA PetsInvImplies ==
    ASSUME PetsInv
    PROVE  StoryIsOne
<1>1. PetsTypeOK
  <2>1. stats \in [v : Values, asof : 0..now]
    <3>1. stats \in [v : Values, asof : 0..Hours] /\ stats.asof <= now /\ now \in 0..Hours
      BY DEF PetsInv, RowTyped, Clock
    <3>2. stats.asof \in 0..now /\ stats.v \in Values /\ stats = [v |-> stats.v, asof |-> stats.asof]
      BY <3>1, Limits
    <3> QED
      BY <3>2
  <2>2. ASSUME NEW i \in Handlers
        PROVE  /\ handler[i].pc \in PetSteps
               /\ handler[i].op \in Verbs \cup {"state"} /\ handler[i].at \in 0..now
               /\ handler[i].died \in Instants \cup {Never} /\ handler[i].loc \in Places
               /\ handler[i].s \in Snapshots
               /\ handler[i].stale \in BOOLEAN /\ handler[i].moved \in BOOLEAN
    <3>1. handler[i].at \in 0..now
      BY RowsFacts, Limits
    <3> QED
      BY <3>1, Parts DEF PetsInv
  <2>3. now \in 0..Hours /\ asked \in 0..Requests /\ died \in (0..6 * now) \cup {Never}
    BY DEF PetsInv, Clock, RowTyped
  <2>4. loc \in Places /\ display \in Places \cup {Never} /\ misdrawn \in BOOLEAN
    BY DEF PetsInv, DrawnTyped
  <2>5. replay \in Snapshots /\ crossed \in BOOLEAN /\ owed \in BOOLEAN
    BY DEF PetsInv, LogTyped, FlagsTyped
  <2>6. {crossed, owed, misdrawn} \subseteq BOOLEAN
    BY <2>4, <2>5, Zenon
  <2> QED
    BY <2>1, <2>2, <2>3, <2>4, <2>5, <2>6 DEF PetsTypeOK, PetSteps
<1>2. RowIsDrawn
  BY DEF PetsInv, DrawnSoon, RowIsDrawn
<1> QED
  BY <1>1, <1>2 DEF PetsInv, StoryIsOne

(* The inductive invariant: whatever the handlers carry was so when they   *)
(* read it, and is so still unless the pet changed under them.             *)
THEOREM PetsInvariance == PetsSpec => []PetsInv
<1>1. PetsInit => PetsInv
  BY PetsInvInit
<1>2. PetsInv /\ [PetsNext]_petVars => PetsInv'
  BY PetsInvNext
<1> QED
  BY <1>1, <1>2, PTL DEF PetsSpec

(* Row, log, death and drawing tell one story, for any number of devices,  *)
(* any catalogue of the shape and any hours: the rows are the replay of    *)
(* the events, a recorded death is the derived one, and he is drawn where  *)
(* the row has him -- but for the crossings, the lost clearing and the     *)
(* stale drawing the history variables name.                               *)
THEOREM StoryAlwaysOne == PetsSpec => []StoryIsOne
<1>1. PetsInv => StoryIsOne
  BY PetsInvImplies
<1> QED
  BY <1>1, PetsInvariance, PTL

-----------------------------------------------------------------------------
(* The closed form *)

(* The onsets, in closed form. *)
LEMMA OnsetIs ==
    ASSUME NEW s, s.v \in Values, s.asof \in Nat
    PROVE  /\ Onset("beer", s) = IF s.v["beer"] <= Empty THEN s.asof ELSE s.asof + (s.v["beer"] - Empty)
           /\ Onset("bladder", s) = IF s.v["bladder"] >= Full THEN s.asof ELSE s.asof + (Full - s.v["bladder"])
<1>1. ASSUME NEW p \in {"beer", "bladder"} PROVE At(p, s, s.asof) = s.v[p]
  <2>1. p \in Stats /\ s.v[p] \in Nat /\ s.v[p] <= MaxOf(p) /\ DecayPerHour[p] \in Int
    BY ValuesAre, Drains DEF Stats
  <2>2. s.v[p] - DecayPerHour[p] * (s.asof - s.asof) = s.v[p]
    BY <2>1
  <2> QED
    BY <2>1, <2>2, ClampFits, Bars DEF At
<1> QED
  BY <1>1 DEF Onset, Holds

(* A penalty holds at an hour exactly when it has set in by then. *)
LEMMA HoldsThen ==
    ASSUME NEW s, s.v \in Values, s.asof \in Nat, NEW t \in Nat, s.asof <= t
    PROVE  /\ Holds("beer", AtWith("beer", s, t)) <=> Onset("beer", s) <= t
           /\ Holds("bladder", AtWith("bladder", s, t)) <=> Onset("bladder", s) <= t
<1>1. /\ s.v["beer"] \in Nat /\ s.v["beer"] <= Top
      /\ s.v["bladder"] \in Nat /\ s.v["bladder"] <= Top
  BY ValuesAre, Bars DEF Stats
<1>2. Holds("beer", AtWith("beer", s, t)) <=> Clamp("beer", s.v["beer"] - (t - s.asof)) <= Empty
  BY ValuesThen DEF Holds
<1>3. Holds("bladder", AtWith("bladder", s, t)) <=> Clamp("bladder", s.v["bladder"] + (t - s.asof)) >= Full
  BY ValuesThen DEF Holds
<1>4. Clamp("beer", s.v["beer"] - (t - s.asof)) <= Empty <=> Onset("beer", s) <= t
  BY <1>1, OnsetIs, Bars, Limits DEF Clamp
<1>5. Clamp("bladder", s.v["bladder"] + (t - s.asof)) >= Full <=> Onset("bladder", s) <= t
  BY <1>1, OnsetIs, Bars, Limits DEF Clamp
<1> QED
  BY <1>2, <1>3, <1>4, <1>5

(* Counting the penalties. *)
LEMMA HowManyHold ==
    ASSUME NEW v
    PROVE  Cardinality({p \in Penalties : Holds(p, v[p])})
             = (IF Holds("beer", v["beer"]) THEN 1 ELSE 0) + (IF Holds("bladder", v["bladder"]) THEN 1 ELSE 0)
<1> DEFINE P == {p \in Penalties : Holds(p, v[p])}
<1>1. CASE ~Holds("beer", v["beer"]) /\ ~Holds("bladder", v["bladder"])
  <2>1. P = {}
    BY <1>1 DEF Penalties
  <2> QED
    BY <1>1, <2>1, FS_EmptySet
<1>2. CASE Holds("beer", v["beer"]) /\ ~Holds("bladder", v["bladder"])
  <2>1. P = {"beer"}
    BY <1>2 DEF Penalties
  <2> QED
    BY <1>2, <2>1, FS_Singleton
<1>3. CASE ~Holds("beer", v["beer"]) /\ Holds("bladder", v["bladder"])
  <2>1. P = {"bladder"}
    BY <1>3 DEF Penalties
  <2> QED
    BY <1>3, <2>1, FS_Singleton
<1>4. CASE Holds("beer", v["beer"]) /\ Holds("bladder", v["bladder"])
  <2>1. P = {"beer"} \cup {"bladder"}
    BY <1>4 DEF Penalties
  <2>2. Cardinality({"beer"} \cup {"bladder"}) = 2
    <3>1. IsFiniteSet({"beer"}) /\ Cardinality({"beer"}) = 1 /\ "bladder" \notin {"beer"}
      BY FS_Singleton
    <3> QED
      BY <3>1, FS_AddElement
  <2> QED
    BY <1>4, <2>1, <2>2
<1> QED
  BY <1>1, <1>2, <1>3, <1>4

(* Another hour of the closed form is another hour done as it goes. *)
LEMMA HourStep ==
    ASSUME NEW s, s.v \in Values, s.asof \in Nat, NEW t \in Nat, s.asof <= t
    PROVE  NextHour([k \in Stats |-> AtWith(k, s, t)]) = [k \in Stats |-> AtWith(k, s, t + 1)]
<1> DEFINE v == [k \in Stats |-> AtWith(k, s, t)]
<1>1. \A k \in Stats : s.v[k] \in Nat /\ s.v[k] <= MaxOf(k) /\ v[k] \in Nat /\ v[k] <= MaxOf(k)
  <2> SUFFICES ASSUME NEW k \in Stats
               PROVE  s.v[k] \in Nat /\ s.v[k] <= MaxOf(k) /\ v[k] \in Nat /\ v[k] <= MaxOf(k)
    OBVIOUS
  <2>1. v[k] = AtWith(k, s, t)
    OBVIOUS
  <2> QED
    BY <2>1, ValuesAre, AtFits
<1>2. /\ v["hp"] = AtWith("hp", s, t) /\ v["beer"] = AtWith("beer", s, t)
      /\ v["bladder"] = AtWith("bladder", s, t) /\ v["drunk"] = AtWith("drunk", s, t)
  BY DEF Stats
<1>3. NextHour(v) = [k \in Stats |-> Clamp(k, v[k] - Drain(k, v))]
  BY DEF NextHour
<1> HIDE DEF v
<1>4. t + 1 \in Nat /\ s.asof <= t + 1
  OBVIOUS
<1>5. /\ "hp" \in Stats /\ "beer" \in Stats /\ "bladder" \in Stats /\ "drunk" \in Stats
      /\ \A k \in Stats : k = "hp" \/ k = "beer" \/ k = "bladder" \/ k = "drunk"
  BY DEF Stats
<1>6. /\ s.v["hp"] \in Nat /\ s.v["hp"] <= Top /\ s.v["beer"] \in Nat /\ s.v["beer"] <= Top
      /\ s.v["bladder"] \in Nat /\ s.v["bladder"] <= Top
      /\ s.v["drunk"] \in Nat /\ s.v["drunk"] <= MaxOf("drunk")
  BY <1>1, <1>5, Bars
<1>7. Clamp("hp", v["hp"] - Drain("hp", v)) = AtWith("hp", s, t + 1)
  <2> DEFINE some == (IF Onset("beer", s) <= t THEN 1 ELSE 0) + (IF Onset("bladder", s) <= t THEN 1 ELSE 0)
             taken == Lost("beer", s, t) + Lost("bladder", s, t)
             more == Lost("beer", s, t + 1) + Lost("bladder", s, t + 1)
  <2>1. Cardinality({p \in Penalties : Holds(p, v[p])}) = some
    BY <1>2, HowManyHold, HoldsThen
  <2>2. Drain("hp", v) = 1 + some
    <3>1. Drain("hp", v) = DecayPerHour["hp"] + PenaltyRate * Cardinality({p \in Penalties : Holds(p, v[p])})
      BY DEF Drain
    <3>2. some \in Nat
      BY OnsetIsHour
    <3> HIDE DEF some
    <3> QED
      BY <2>1, <3>1, <3>2, Drains DEF PenaltyRate
  <2>3. taken \in Nat /\ more = taken + some
    BY <1>4, LostIsNumber, OnsetIsHour DEF Penalties
  <2>4. some \in Nat
    BY OnsetIsHour
  <2>5. v["hp"] = Clamp("hp", s.v["hp"] - (t - s.asof) - taken)
    BY <1>2, ValuesThen
  <2>6. AtWith("hp", s, t + 1) = Clamp("hp", s.v["hp"] - ((t + 1) - s.asof) - more)
    BY <1>4, ValuesThen
  <2> HIDE DEF some, taken, more
  <2> QED
    BY <1>6, <2>2, <2>3, <2>4, <2>5, <2>6, Bars, Limits DEF Clamp
<1>8. Clamp("beer", v["beer"] - Drain("beer", v)) = AtWith("beer", s, t + 1)
  <2>1. Drain("beer", v) = 1
    BY Drains DEF Drain
  <2>2. /\ v["beer"] = Clamp("beer", s.v["beer"] - (t - s.asof))
        /\ AtWith("beer", s, t + 1) = Clamp("beer", s.v["beer"] - ((t + 1) - s.asof))
    BY <1>2, <1>4, ValuesThen
  <2> QED
    BY <1>6, <2>1, <2>2, Bars, Limits DEF Clamp
<1>9. Clamp("bladder", v["bladder"] - Drain("bladder", v)) = AtWith("bladder", s, t + 1)
  <2>1. Drain("bladder", v) = -1
    BY Drains DEF Drain
  <2>2. /\ v["bladder"] = Clamp("bladder", s.v["bladder"] + (t - s.asof))
        /\ AtWith("bladder", s, t + 1) = Clamp("bladder", s.v["bladder"] + ((t + 1) - s.asof))
    BY <1>2, <1>4, ValuesThen
  <2> QED
    BY <1>6, <2>1, <2>2, Bars, Limits DEF Clamp
<1>10. Clamp("drunk", v["drunk"] - Drain("drunk", v)) = AtWith("drunk", s, t + 1)
  <2>1. Drain("drunk", v) = 0
    BY Drains DEF Drain
  <2>2. v["drunk"] = s.v["drunk"] /\ AtWith("drunk", s, t + 1) = s.v["drunk"]
    BY <1>2, <1>4, ValuesThen
  <2>3. v["drunk"] - Drain("drunk", v) = s.v["drunk"]
    BY <1>6, <2>1, <2>2
  <2> QED
    BY <1>5, <1>6, <2>2, <2>3, ClampFits, Bars
<1>11. \A k \in Stats : Clamp(k, v[k] - Drain(k, v)) = AtWith(k, s, t + 1)
  BY <1>5, <1>7, <1>8, <1>9, <1>10
<1> QED
  BY <1>3, <1>11 DEF v

(* Some number of a set of them is the least. *)
LEMMA LeastHour ==
    ASSUME NEW T, T \subseteq Nat, T # {}
    PROVE  \E n \in T : \A m \in T : n <= m
<1> DEFINE R == {ss \in Nat \X Nat : ss[1] < ss[2]}
<1>1. R = OpToRel(<, Nat)
  BY DEF OpToRel
<1>2. IsWellFoundedOn(R, Nat)
  BY <1>1, NatLessThanWellFounded
<1>3. PICK n \in T : \A m \in T : ~(<<m, n>> \in R)
  <2> HIDE DEF R
  <2> QED
    BY <1>2, WFMin
<1>4. ASSUME NEW m \in T PROVE n <= m
  <2>1. ~(<<m, n>> \in R) /\ m \in Nat /\ n \in Nat
    BY <1>3
  <2>2. ~(m < n)
    BY <2>1
  <2> QED
    BY <2>1, <2>2
<1> QED
  BY <1>4

(* The recursion over hours has a solution, for the closed form is one; and *)
(* only one, for there is no first hour at which another could differ.      *)
LEMMA HourByHourIs ==
    ASSUME NEW s, s.v \in Values, s.asof \in Nat
    PROVE  HourByHour(s) = [n \in 0..Top |-> [k \in Stats |-> AtWith(k, s, s.asof + n)]]
<1> DEFINE Solves(f) == f = [n \in 0..Top |-> IF n = 0 THEN s.v ELSE NextHour(f[n - 1])]
           closed == [n \in 0..Top |-> [k \in Stats |-> AtWith(k, s, s.asof + n)]]
           hourly == CHOOSE f : Solves(f)
<1>1. HourByHour(s) = hourly
  BY DEF HourByHour
<1>2. ASSUME NEW n \in 0..Top, n # 0
      PROVE  n - 1 \in 0..Top /\ closed[n] = NextHour(closed[n - 1])
  <2>1. n - 1 \in 0..Top /\ s.asof + (n - 1) \in Nat /\ s.asof <= s.asof + (n - 1)
        /\ (s.asof + (n - 1)) + 1 = s.asof + n
    BY <1>2, Limits
  <2>2. NextHour([k \in Stats |-> AtWith(k, s, s.asof + (n - 1))])
          = [k \in Stats |-> AtWith(k, s, s.asof + n)]
    BY <2>1, HourStep
  <2> QED
    BY <2>1, <2>2
<1>3. 0 \in 0..Top /\ closed[0] = s.v
  <2>1. 0 \in 0..Top /\ s.asof + 0 = s.asof
    BY Limits
  <2>2. s.v \in [Stats -> Nat]
    BY ValuesAre
  <2>3. ASSUME NEW k \in Stats PROVE AtWith(k, s, s.asof) = s.v[k]
    <3>1. s.v[k] \in Nat /\ s.v[k] <= MaxOf(k) /\ MaxOf(k) \in Nat
      BY ValuesAre, Bars
    <3>2. AtWith(k, s, s.asof) = Clamp(k, s.v[k])
      BY DEF AtWith
    <3> QED
      BY <3>1, <3>2, ClampFits
  <2>4. [k \in Stats |-> AtWith(k, s, s.asof)] = s.v
    BY <2>2, <2>3
  <2> QED
    BY <2>1, <2>4
<1>4. Solves(closed)
  <2> DEFINE again == [n \in 0..Top |-> IF n = 0 THEN s.v ELSE NextHour(closed[n - 1])]
  <2>1. \A n \in 0..Top : closed[n] = again[n]
    <3> SUFFICES ASSUME NEW n \in 0..Top PROVE closed[n] = again[n]
      OBVIOUS
    <3>1. again[n] = IF n = 0 THEN s.v ELSE NextHour(closed[n - 1])
      OBVIOUS
    <3> HIDE DEF closed, again
    <3> QED
      BY <1>2, <1>3, <3>1
  <2>2. closed = [n \in 0..Top |-> closed[n]]
    OBVIOUS
  <2>3. again = [n \in 0..Top |-> again[n]]
    OBVIOUS
  <2> HIDE DEF closed, again
  <2>4. closed = again
    BY <2>1, <2>2, <2>3
  <2> QED
    BY <2>4 DEF again
<1>5. Solves(hourly)
  <2> HIDE DEF closed
  <2> QED
    BY <1>4
<1> HIDE DEF hourly
<1>6. \A n \in 0..Top : hourly[n] = IF n = 0 THEN s.v ELSE NextHour(hourly[n - 1])
  BY <1>5
<1>7. hourly = [n \in 0..Top |-> hourly[n]]
  BY <1>5
<1> HIDE DEF closed, Solves
<1>8. \A n \in 0..Top : hourly[n] = closed[n]
  <2> DEFINE Differ == {n \in 0..Top : hourly[n] # closed[n]}
  <2> SUFFICES ASSUME Differ # {} PROVE FALSE
    OBVIOUS
  <2>1. Differ \subseteq Nat
    OBVIOUS
  <2>2. PICK n \in Differ : \A m \in Differ : n <= m
    <3> HIDE DEF Differ
    <3> QED
      BY <2>1, LeastHour
  <2>3. n \in 0..Top /\ hourly[n] # closed[n]
    OBVIOUS
  <2>4. n # 0
    BY <1>3, <1>6, <2>3
  <2>5. n - 1 \in 0..Top /\ closed[n] = NextHour(closed[n - 1])
    BY <1>2, <2>3, <2>4
  <2>6. hourly[n - 1] = closed[n - 1]
    <3>1. ~(n <= n - 1)
      BY <2>3
    <3> QED
      BY <2>2, <2>5, <3>1
  <2> QED
    BY <1>6, <2>3, <2>4, <2>5, <2>6
<1>9. closed = [n \in 0..Top |-> closed[n]]
  BY DEF closed
<1> QED
  BY <1>1, <1>7, <1>8, <1>9 DEF closed

(* The closed form is the game, for any catalogue of the shape: whatever   *)
(* the verbs have made of the rows, AtWith is the decay done an hour at a  *)
(* time, and DeadAtWith the instant that brings hp to the floor.           *)
THEOREM ClosedFormAlways == PetsSpec => []ClosedForm
<1>1. PetsInv => ClosedForm
  <2> SUFFICES ASSUME PetsInv PROVE ClosedForm
    OBVIOUS
  <2>1. PICK s : s = Snapshot(stats, Never)
    OBVIOUS
  <2>2. s.v \in Values /\ s.asof \in Nat
    BY <2>1, Limits DEF Snapshot, PetsInv, RowTyped
  <2>3. ASSUME NEW n \in 0..Top
        PROVE  /\ \A k \in Stats : AtWith(k, s, s.asof + n) = HourByHour(s)[n][k]
               /\ HourByHour(s)[n]["hp"] = 0 <=> DeadAtWith(s) <= 6 * (s.asof + n)
    <3> DEFINE closed == [m \in 0..Top |-> [k \in Stats |-> AtWith(k, s, s.asof + m)]]
    <3>0. HourByHour(s) = closed
      BY <2>2, HourByHourIs
    <3>1. \A k \in Stats : HourByHour(s)[n][k] = AtWith(k, s, s.asof + n)
      <4>1. closed[n] = [k \in Stats |-> AtWith(k, s, s.asof + n)]
        OBVIOUS
      <4> HIDE DEF closed
      <4> QED
        BY <3>0, <4>1
    <3> HIDE DEF closed
    <3>2. s.asof + n \in Nat /\ s.asof <= s.asof + n
      BY <2>2, Limits
    <3>3. Dead(s, s.asof + n) <=> DeadAtWith(s) <= 6 * (s.asof + n)
      BY <2>2, <3>2, DeathIsFloor
    <3>4. AtWith("hp", s, s.asof + n) \in Nat
      BY <2>2, <3>2, AtFits DEF Stats
    <3>5. AtWith("hp", s, s.asof + n) = 0 <=> Dead(s, s.asof + n)
      BY <3>4 DEF Dead
    <3> QED
      BY <3>1, <3>3, <3>5 DEF Stats
  <2> QED
    BY <2>1, <2>3 DEF ClosedForm
<1> QED
  BY <1>1, PetsInvariance, PTL

=============================================================================
