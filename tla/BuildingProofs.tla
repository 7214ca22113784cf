--------------------------- MODULE BuildingProofs ---------------------------
(***************************************************************************)
(* Proofs about Building, for any connections, accounts, places, grace and *)
(* bounds: the slot table and the occupant map agree, a snapshot names     *)
(* only slots its client has been told about, a tick takes nobody out who  *)
(* is connected, and nothing regenerates under anybody's feet.             *)
(*                                                                         *)
(* The directory is the hard part.  What a client knows is related to the  *)
(* slot table through the roster version: the version grows with every     *)
(* change of the table (Versions), so a tick that finds it where it was    *)
(* published finds the table its boarded clients were sent (Directories).  *)
(***************************************************************************)
EXTENDS Building, FiniteSetTheorems, TLAPS

SlotTable == [Slots -> Accounts \cup {NoOne}]
Ages == 0..AbandonGrace
WorldType ==
    [id : Nat, slots : SlotTable, at : [Accounts -> Slots \cup {NoSlot}],
     unseen : [Accounts -> Ages], roster : Nat]
BuildingIds == 0..MaxWorlds
AnswerType == [kind : {"none", "ready", "full"}, id : BuildingIds]
ClientType == [held : BuildingIds, adopting : BOOLEAN, dir : SlotTable,
               gap : {"none", "wiped", "lost"}]
Links == {"none", "fetched", "open", "asked", "told", "cut", "gone"}

(* TablesAgree, of any building. *)
Agree(w) ==
    /\ \A a \in OccupantsOf(w) : w.slots[w.at[a]] = a
    /\ \A s \in Slots : w.slots[s] # NoOne => w.at[w.slots[s]] = s

Counts ==
    /\ count \in [worlds : Nat, joins : Nat, purges : Nat]
    /\ count.worlds <= MaxWorlds /\ count.joins <= MaxJoins /\ count.purges <= MaxPurges
Boarded == boarded \subseteq Conns
LinksTyped == link \in [Conns -> Links]
AnswersTyped == greeting \in [Conns -> AnswerType]
ClientsTyped == client \in [Conns -> ClientType]
LoopTyped == loop \in [pc : {"select", "members", "publish"}, conns : SUBSET Conns]
OutTyped == out \in [slots : SlotTable, board : SUBSET Conns, snap : SUBSET Conns]

(* The building that is open, or the record of none. *)
Tables ==
    /\ world \in WorldType
    /\ Agree(world)
    /\ world.id = NoBuilding => world = NoWorld
    /\ world.id <= count.worlds

(***************************************************************************)
(* A join and the departure it may end in are one version each, and no     *)
(* version has been published that the building has not reached.           *)
(***************************************************************************)
Versions ==
    /\ world.roster + Cardinality(Occupants) <= 2 * count.joins
    /\ publishedRoster \in Int
    /\ Unpublished <= publishedRoster /\ publishedRoster <= 2 * count.joins
    /\ world.id # NoBuilding => publishedRoster <= world.roster

(* Only sockets the hub has held are in a list of connections. *)
Known ==
    \A c \in boarded \cup out.snap \cup loop.conns : link[c] \notin {"none", "fetched"}

(* Frames are published before the next tick. *)
Drained == loop.pc # "publish" => out.board = {}

(* What a client that lost no frame knows of a slot table. *)
Reads(c) == link[c] \in Members /\ client[c].gap # "lost"
Named(c, slots) ==
    \A s \in Slots :
        \/ slots[s] \in {NoOne, AccountOf[c]}
        \/ client[c].dir[s] = slots[s]
        \/ client[c].gap = "wiped" /\ client[c].dir[s] = NoOne

(* The snapshots on their way. *)
Snapshots == \A c \in out.snap \ out.board : Reads(c) => Named(c, out.slots)

(* The table at the published version is the one the boarded know, or are being sent. *)
Directories ==
    Occupants # {} /\ world.roster = publishedRoster =>
        \A c \in boarded :
            /\ c \in out.board => out.slots = world.slots
            /\ c \notin out.board => (Reads(c) => Named(c, world.slots))

(* Let in: told so, or about to be. *)
Admitted(c) == link[c] = "told" \/ (link[c] = "asked" /\ greeting[c].kind = "ready")

(* A tick that did not see a connection finds its hello's mark instead. *)
Fresh ==
    \A c \in Conns :
        (Admitted(c) /\ loop.pc = "members" /\ c \notin loop.conns
            /\ AccountOf[c] \in Occupants) => world.unseen[AccountOf[c]] = 0

(* Only a purge takes out somebody who has been let in. *)
Home == count.purges = 0 => \A c \in Conns : Admitted(c) => AccountOf[c] \in Occupants

(* One connection for each account. *)
OneTab == \A c, d \in Conns : AccountOf[c] = AccountOf[d] => c = d

(* The level behind a connection, or the answer that will have it fetched. *)
Level(c) ==
    /\ link[c] = "told" => client[c].held = world.id \/ client[c].adopting
    /\ link[c] = "asked" => greeting[c].id = world.id

Levels ==
    count.purges = 0 \/ OneTab =>
        \A c \in Conns : Admitted(c) /\ AccountOf[c] \in Occupants => Level(c)

Types ==
    Counts /\ Boarded /\ LinksTyped /\ AnswersTyped /\ ClientsTyped /\ LoopTyped /\ OutTyped

IInv ==
    /\ Types
    /\ Tables
    /\ Versions
    /\ Known
    /\ Drained
    /\ Snapshots
    /\ Directories
    /\ Fresh
    /\ Home
    /\ Levels

----------------------------------------------------------------------------
(* The operators of world.go *)

(* A set of naturals has a lowest one. *)
LEMMA Lowest ==
    ASSUME NEW T, T \subseteq Nat, T # {}
    PROVE  \E s \in T : \A t \in T : s <= t
<1> DEFINE R == OpToRel(<, Nat)
<1>1. IsWellFoundedOn(R, Nat)
    BY NatLessThanWellFounded
<1>2. \A x, y \in Nat : x < y => <<x, y>> \in R
    BY DEF OpToRel
<1> HIDE DEF R
<1>3. PICK x \in T : \A y \in T : ~ (<<y, x>> \in R)
    BY <1>1, WFMin
<1>4. \A y \in T : y \in Nat /\ x \in Nat /\ ~(y < x)
    BY <1>2, <1>3
<1>5. \A y \in T : x <= y
    BY <1>4
<1> QED BY <1>5

(* Places are numbers, and none of them is no place. *)
LEMMA SlotFacts == Slots \subseteq Nat /\ NoSlot \notin Slots /\ IsFiniteSet(Slots)
<1>1. IsFiniteSet(Slots)
    BY FS_Interval, BuildingAssumption DEF Slots
<1> QED BY <1>1, BuildingAssumption DEF Slots, NoSlot

(* An empty building. *)
LEMMA NoWorldFacts ==
    /\ NoWorld \in WorldType /\ Agree(NoWorld) /\ OccupantsOf(NoWorld) = {}
    /\ NoWorld.id = NoBuilding /\ NoWorld.roster = 0
    /\ NoWorld.slots \in SlotTable /\ \A s \in Slots : NoWorld.slots[s] = NoOne
    /\ 0 \in Ages
<1>1. 0 \in Ages
    BY BuildingAssumption DEF Ages
<1>2. NoWorld.id = NoBuilding /\ NoWorld.roster = 0
    BY DEF NoWorld
<1>3. NoWorld.slots \in SlotTable /\ \A s \in Slots : NoWorld.slots[s] = NoOne
    BY DEF NoWorld, SlotTable
<1>4. OccupantsOf(NoWorld) = {}
    BY DEF NoWorld, OccupantsOf
<1>5. NoWorld \in WorldType
    BY <1>1 DEF NoWorld, WorldType, SlotTable, NoBuilding
<1>6. Agree(NoWorld)
    BY <1>3, <1>4 DEF Agree
<1> QED BY <1>1, <1>2, <1>3, <1>4, <1>5, <1>6

(* No more people than places, each in his own. *)
LEMMA FiniteOccupants ==
    ASSUME NEW w \in WorldType, Agree(w)
    PROVE  IsFiniteSet(OccupantsOf(w)) /\ Cardinality(OccupantsOf(w)) \in Nat
<1> DEFINE f == [a \in OccupantsOf(w) |-> w.at[a]]
<1>1. \A a \in OccupantsOf(w) : w.at[a] \in Slots
    BY DEF WorldType, OccupantsOf
<1>2. f \in Injection(OccupantsOf(w), Slots)
    BY <1>1 DEF Agree, Injection, IsInjective
<1>3. IsFiniteSet(OccupantsOf(w))
    BY <1>2, SlotFacts, FS_Injection
<1> QED BY <1>3, FS_CardinalityType

(* release: the account, its place and a version, for each of those who leave. *)
LEMMA ReleaseFacts ==
    ASSUME NEW w \in WorldType, Agree(w), NEW left \in SUBSET OccupantsOf(w)
    PROVE  /\ Release(w, left) \in WorldType /\ Agree(Release(w, left))
           /\ OccupantsOf(Release(w, left)) = OccupantsOf(w) \ left
           /\ Release(w, left).id = w.id
           /\ Release(w, left).roster = w.roster + Cardinality(left)
           /\ Cardinality(left) \in Nat /\ (Cardinality(left) = 0 => left = {})
           /\ Cardinality(OccupantsOf(w) \ left) = Cardinality(OccupantsOf(w)) - Cardinality(left)
           /\ left = {} => Release(w, left).slots = w.slots
           /\ \A a \in Accounts : Release(w, left).unseen[a] = IF a \in left THEN 0 ELSE w.unseen[a]
<1> DEFINE v == Release(w, left)
           at == [a \in Accounts |-> IF a \in left THEN NoSlot ELSE w.at[a]]
           slots == [s \in Slots |-> IF w.slots[s] \in left THEN NoOne ELSE w.slots[s]]
           unseen == [a \in Accounts |-> IF a \in left THEN 0 ELSE w.unseen[a]]
<1>1. IsFiniteSet(OccupantsOf(w)) /\ IsFiniteSet(left)
    BY FiniteOccupants, FS_Subset
<1>2. Cardinality(left) \in Nat /\ (Cardinality(left) = 0 => left = {})
    BY <1>1, FS_CardinalityType, FS_EmptySet
<1>3. Cardinality(OccupantsOf(w) \ left) = Cardinality(OccupantsOf(w)) - Cardinality(left)
    <2>1. OccupantsOf(w) \cap left = left
        OBVIOUS
    <2> QED BY <1>1, <2>1, FS_Difference
<1>4. v = [id |-> w.id, slots |-> slots, at |-> at, unseen |-> unseen,
           roster |-> w.roster + Cardinality(left)]
    <2>1. Vacate(w, left) = [id |-> w.id, slots |-> slots, at |-> at, unseen |-> unseen,
                           roster |-> w.roster]
        <3>1. Vacate(w, left) = [w EXCEPT !.at = at, !.slots = slots, !.unseen = unseen]
            BY Zenon DEF Vacate
        <3> HIDE DEF slots, at, unseen
        <3> QED BY <3>1 DEF WorldType
    <2> HIDE DEF slots, at, unseen
    <2> QED BY <2>1 DEF Release
<1>5. /\ v.id = w.id /\ v.slots = slots /\ v.at = at /\ v.unseen = unseen
      /\ v.roster = w.roster + Cardinality(left)
    BY <1>4
<1>6. slots \in SlotTable
    BY DEF SlotTable, WorldType
<1>7. at \in [Accounts -> Slots \cup {NoSlot}]
    BY DEF WorldType
<1>8. unseen \in [Accounts -> Ages]
    BY NoWorldFacts DEF WorldType
<1>9. w.roster + Cardinality(left) \in Nat
    <2>1. w.roster \in Nat
        BY DEF WorldType
    <2> QED BY <1>2, <2>1
<1>10. v \in WorldType
    <2> HIDE DEF slots, at, unseen
    <2>1. w.id \in Nat
        BY DEF WorldType
    <2> HIDE DEF v
    <2> QED BY <1>4, <1>6, <1>7, <1>8, <1>9, <2>1 DEF WorldType
<1>11. OccupantsOf(v) = OccupantsOf(w) \ left
    BY <1>5 DEF OccupantsOf
<1>12. Agree(v)
    <2>1. \A a \in OccupantsOf(v) : v.slots[v.at[a]] = a
        <3> SUFFICES ASSUME NEW a \in OccupantsOf(v) PROVE v.slots[v.at[a]] = a
            OBVIOUS
        <3>1. a \in OccupantsOf(w) /\ a \notin left /\ a \in Accounts
            BY <1>11 DEF OccupantsOf
        <3>2. w.at[a] \in Slots /\ w.slots[w.at[a]] = a
            BY <3>1 DEF OccupantsOf, WorldType, Agree
        <3>3. v.at[a] = w.at[a]
            BY <1>5, <3>1
        <3>4. v.slots[w.at[a]] = a
            BY <1>5, <3>1, <3>2
        <3> QED BY <3>3, <3>4
    <2>2. \A s \in Slots : v.slots[s] # NoOne => v.at[v.slots[s]] = s
        <3> SUFFICES ASSUME NEW s \in Slots, v.slots[s] # NoOne PROVE v.at[v.slots[s]] = s
            OBVIOUS
        <3>1. v.slots[s] = w.slots[s] /\ w.slots[s] \notin left
            BY <1>5
        <3>2. w.slots[s] \in Accounts /\ w.at[w.slots[s]] = s
            BY <3>1 DEF Agree, WorldType, SlotTable
        <3> QED BY <1>5, <3>1, <3>2
    <2> QED BY <2>1, <2>2 DEF Agree
<1>13. left = {} => v.slots = w.slots
    BY <1>5 DEF WorldType, SlotTable
<1>14. \A a \in Accounts : v.unseen[a] = IF a \in left THEN 0 ELSE w.unseen[a]
    BY <1>5
<1> HIDE DEF v
<1>15. QED
    BY <1>2, <1>3, <1>5, <1>10, <1>11, <1>12, <1>13, <1>14 DEF v

(* Join of somebody inside: he is seen, and nothing else. *)
LEMMA JoinAgainFacts ==
    ASSUME NEW w \in WorldType, Agree(w), NEW a \in OccupantsOf(w)
    PROVE  /\ Join(w, a) \in WorldType /\ Agree(Join(w, a))
           /\ OccupantsOf(Join(w, a)) = OccupantsOf(w)
           /\ Join(w, a).id = w.id /\ Join(w, a).roster = w.roster
           /\ Join(w, a).slots = w.slots
           /\ \A b \in Accounts : Join(w, a).unseen[b] = IF b = a THEN 0 ELSE w.unseen[b]
<1> DEFINE v == Join(w, a)
<1>1. a \in Accounts
    BY DEF OccupantsOf
<1>2. v = [w EXCEPT !.unseen[a] = 0]
    BY DEF Join
<1>3. /\ v.id = w.id /\ v.roster = w.roster /\ v.slots = w.slots /\ v.at = w.at
      /\ v.unseen = [w.unseen EXCEPT ![a] = 0]
    BY <1>2 DEF WorldType
<1>4. v \in WorldType
    BY <1>2, NoWorldFacts DEF WorldType
<1>5. \A b \in Accounts : v.unseen[b] = IF b = a THEN 0 ELSE w.unseen[b]
    BY <1>1, <1>3 DEF WorldType
<1> HIDE DEF v
<1>6. OccupantsOf(v) = OccupantsOf(w)
    BY <1>3 DEF OccupantsOf
<1>7. Agree(v)
    BY <1>3, <1>6 DEF Agree
<1> QED BY <1>3, <1>4, <1>5, <1>6, <1>7 DEF v

(* Join of a newcomer takes a free place, and a version. *)
LEMMA JoinFacts ==
    ASSUME NEW w \in WorldType, Agree(w), NEW a \in Accounts,
           a \notin OccupantsOf(w), ~Refused(w, a)
    PROVE  /\ Join(w, a) \in WorldType /\ Agree(Join(w, a))
           /\ OccupantsOf(Join(w, a)) = OccupantsOf(w) \cup {a}
           /\ Join(w, a).id = w.id /\ Join(w, a).roster = w.roster + 1
           /\ Cardinality(OccupantsOf(w) \cup {a}) = Cardinality(OccupantsOf(w)) + 1
           /\ \A b \in Accounts : Join(w, a).unseen[b] = IF b = a THEN 0 ELSE w.unseen[b]
<1> DEFINE v == Join(w, a)
           m == CHOOSE s \in FreeSlots(w) : \A t \in FreeSlots(w) : s <= t
<1>1. m \in FreeSlots(w)
    <2>1. FreeSlots(w) # {} /\ FreeSlots(w) \subseteq Nat
        BY SlotFacts DEF Refused, FreeSlots
    <2> QED BY <2>1, Lowest
<1>2. v = [w EXCEPT !.at[a] = m, !.slots[m] = a, !.unseen[a] = 0, !.roster = @ + 1]
    BY DEF Join
<1> HIDE DEF m, v
<1>3. m \in Slots /\ w.slots[m] = NoOne
    BY <1>1 DEF FreeSlots
<1>4. /\ v.id = w.id /\ v.roster = w.roster + 1
      /\ v.at = [w.at EXCEPT ![a] = m] /\ v.slots = [w.slots EXCEPT ![m] = a]
      /\ v.unseen = [w.unseen EXCEPT ![a] = 0]
    BY <1>2 DEF WorldType
<1>5. v \in WorldType
    <2>1. [w.at EXCEPT ![a] = m] \in [Accounts -> Slots \cup {NoSlot}]
        BY <1>3 DEF WorldType
    <2>2. [w.slots EXCEPT ![m] = a] \in SlotTable
        BY DEF WorldType, SlotTable
    <2>3. [w.unseen EXCEPT ![a] = 0] \in [Accounts -> Ages]
        BY NoWorldFacts DEF WorldType
    <2>4. v = [id |-> w.id, slots |-> [w.slots EXCEPT ![m] = a], at |-> [w.at EXCEPT ![a] = m],
               unseen |-> [w.unseen EXCEPT ![a] = 0], roster |-> w.roster + 1]
        BY <1>2 DEF WorldType
    <2>5. w.id \in Nat /\ w.roster + 1 \in Nat
        BY DEF WorldType
    <2> QED BY <2>1, <2>2, <2>3, <2>4, <2>5 DEF WorldType
<1>6. \A b \in Accounts : v.at[b] = IF b = a THEN m ELSE w.at[b]
    BY <1>4 DEF WorldType
<1>7. \A s \in Slots : v.slots[s] = IF s = m THEN a ELSE w.slots[s]
    BY <1>4 DEF WorldType, SlotTable
<1>8. OccupantsOf(v) = OccupantsOf(w) \cup {a}
    BY <1>3, <1>6, SlotFacts DEF OccupantsOf
<1>9. Agree(v)
    <2>1. \A b \in OccupantsOf(v) : v.slots[v.at[b]] = b
        <3> SUFFICES ASSUME NEW b \in OccupantsOf(v) PROVE v.slots[v.at[b]] = b
            OBVIOUS
        <3>1. CASE b = a
            BY <1>3, <1>6, <1>7, <3>1
        <3>2. CASE b # a
            <4>1. b \in OccupantsOf(w) /\ b \in Accounts /\ w.at[b] \in Slots
                BY <1>8, <3>2 DEF OccupantsOf, WorldType
            <4>2. w.slots[w.at[b]] = b /\ w.at[b] # m
                BY <1>3, <4>1, BuildingAssumption DEF Agree
            <4> QED BY <1>6, <1>7, <3>2, <4>1, <4>2
        <3> QED BY <3>1, <3>2
    <2>2. \A s \in Slots : v.slots[s] # NoOne => v.at[v.slots[s]] = s
        <3> SUFFICES ASSUME NEW s \in Slots, v.slots[s] # NoOne PROVE v.at[v.slots[s]] = s
            OBVIOUS
        <3>1. CASE s = m
            BY <1>6, <1>7, <3>1
        <3>2. CASE s # m
            <4>1. v.slots[s] = w.slots[s] /\ w.slots[s] \in Accounts /\ w.at[w.slots[s]] = s
                BY <1>7, <3>2 DEF Agree, WorldType, SlotTable
            <4>2. w.slots[s] # a
                BY <4>1, SlotFacts DEF OccupantsOf
            <4> QED BY <1>6, <4>1, <4>2
        <3> QED BY <3>1, <3>2
    <2> QED BY <2>1, <2>2 DEF Agree
<1>10. \A b \in Accounts : v.unseen[b] = IF b = a THEN 0 ELSE w.unseen[b]
    BY <1>4 DEF WorldType
<1>11. Cardinality(OccupantsOf(w) \cup {a}) = Cardinality(OccupantsOf(w)) + 1
    BY FiniteOccupants, FS_AddElement
<1> QED BY <1>4, <1>5, <1>8, <1>9, <1>10, <1>11 DEF v

----------------------------------------------------------------------------
(* Shapes the steps share *)

(* The values everything starts from, and goes back to. *)
LEMMA FirstValues ==
    /\ NoAnswer \in AnswerType /\ NoAnswer.kind = "none"
    /\ NewClient \in ClientType
    /\ NoFrames \in [slots : SlotTable, board : SUBSET Conns, snap : SUBSET Conns]
    /\ NoFrames.board = {} /\ NoFrames.snap = {}
    /\ NoBuilding \in BuildingIds
<1>1. NoBuilding \in BuildingIds
    BY BuildingAssumption DEF NoBuilding, BuildingIds
<1> HIDE DEF NoBuilding, BuildingIds
<1>2. NoAnswer \in AnswerType /\ NoAnswer.kind = "none"
    BY <1>1 DEF NoAnswer, AnswerType
<1>3. NewClient \in ClientType
    BY <1>1, NoWorldFacts DEF NewClient, ClientType
<1>4. /\ NoFrames \in [slots : SlotTable, board : SUBSET Conns, snap : SUBSET Conns]
      /\ NoFrames.board = {} /\ NoFrames.snap = {}
    BY NoWorldFacts DEF NoFrames
<1> QED BY <1>1, <1>2, <1>3, <1>4

(* An account is behind a connection. *)
LEMMA Behind == \A c \in Conns : AccountOf[c] \in Accounts
BY DEF Accounts

(* Nobody has been let in before the first building. *)
LEMMA InitIInv == Init => IInv
<1> SUFFICES ASSUME Init PROVE IInv
    OBVIOUS
<1> USE DEF Init
<1>1. Counts
    BY BuildingAssumption DEF Counts
<1>2. Boarded /\ LinksTyped /\ LoopTyped
    BY DEF Boarded, LinksTyped, Links, LoopTyped
<1>3. AnswersTyped /\ ClientsTyped /\ OutTyped
    BY FirstValues DEF AnswersTyped, ClientsTyped, OutTyped
<1>4. Tables
    BY NoWorldFacts DEF Tables, NoBuilding
<1>5. Occupants = {} /\ Cardinality({}) = 0
    BY NoWorldFacts, FS_EmptySet DEF Occupants
<1>6. Versions
    BY <1>5, NoWorldFacts DEF Versions, Unpublished, NoBuilding
<1>7. Known /\ Drained /\ Snapshots /\ Directories
    BY <1>5, FirstValues DEF Known, Drained, Snapshots, Directories
<1>8. Fresh /\ Home /\ Levels
    BY <1>5 DEF Fresh, Home, Levels, Admitted
<1> QED BY <1>1, <1>2, <1>3, <1>4, <1>6, <1>7, <1>8 DEF IInv, Types

(* ensureWorld: the building that is open, or a new one with nobody in it. *)
LEMMA EnsuredFacts ==
    ASSUME IInv, Bounded
    PROVE  /\ Ensured.w \in WorldType /\ Agree(Ensured.w)
           /\ OccupantsOf(Ensured.w) = Occupants
           /\ Ensured.w.id # NoBuilding /\ Ensured.w.id <= Ensured.n
           /\ Ensured.w.id \in BuildingIds
           /\ Ensured.n \in Nat /\ Ensured.n <= MaxWorlds
           /\ Ensured.w.roster + Cardinality(Occupants) <= 2 * count.joins
           /\ Ensured.published \in Int /\ Unpublished <= Ensured.published
           /\ Ensured.published <= Ensured.w.roster /\ Ensured.published <= 2 * count.joins
           /\ world.id # NoBuilding => Ensured.w = world /\ Ensured.published = publishedRoster
           /\ Occupants # {} => world.id # NoBuilding
           /\ Ensured.w.unseen \in [Accounts -> Ages]
           /\ world.id = NoBuilding => Occupants = {}
<1>0. /\ count.worlds \in Nat /\ count.joins \in Nat
      /\ world \in WorldType /\ Agree(world) /\ world.id <= count.worlds
    BY DEF IInv, Types, Counts, Tables
<1>00. world.id \in Nat /\ world.roster \in Nat /\ world.unseen \in [Accounts -> Ages]
    BY <1>0 DEF WorldType
<1>1. world.id = NoBuilding => Occupants = {}
    BY NoWorldFacts DEF IInv, Tables, Occupants
<1>2. CASE world.id # NoBuilding
    <2>1. Ensured.w = world /\ Ensured.n = count.worlds /\ Ensured.published = publishedRoster
        BY <1>2 DEF Ensured
    <2>2. count.worlds <= MaxWorlds
        BY <2>1 DEF Bounded
    <2>3. world.id \in BuildingIds
        BY <1>0, <1>00, <2>2, BuildingAssumption DEF BuildingIds
    <2>4. /\ world.roster + Cardinality(Occupants) <= 2 * count.joins
          /\ publishedRoster \in Int /\ Unpublished <= publishedRoster
          /\ publishedRoster <= world.roster /\ publishedRoster <= 2 * count.joins
        BY <1>2 DEF IInv, Versions
    <2>5. OccupantsOf(world) = Occupants
        BY DEF Occupants
    <2> HIDE DEF Ensured
    <2> QED BY <1>0, <1>00, <1>1, <1>2, <2>1, <2>2, <2>3, <2>4, <2>5
<1>3. CASE world.id = NoBuilding
    <2> DEFINE w == [NoWorld EXCEPT !.id = count.worlds + 1]
    <2>1. Ensured.w = w /\ Ensured.n = count.worlds + 1 /\ Ensured.published = Unpublished
        BY <1>3 DEF Ensured
    <2>2. /\ w.id = count.worlds + 1 /\ w.slots = NoWorld.slots /\ w.at = NoWorld.at
          /\ w.unseen = NoWorld.unseen /\ w.roster = 0
        BY DEF NoWorld
    <2>3. w \in WorldType
        BY <1>0, NoWorldFacts DEF WorldType
    <2> HIDE DEF w
    <2>4. OccupantsOf(w) = {} /\ Agree(w)
        BY <2>2, NoWorldFacts DEF OccupantsOf, Agree
    <2>5. count.worlds + 1 <= MaxWorlds
        BY <2>1 DEF Bounded
    <2>6. w.id \in BuildingIds /\ w.id # NoBuilding
        BY <1>0, <2>2, <2>5, BuildingAssumption DEF BuildingIds, NoBuilding
    <2>7. Cardinality(Occupants) = 0
        BY <1>1, <1>3, FS_EmptySet
    <2>8. Unpublished \in Int /\ Unpublished <= 0 /\ 0 <= 2 * count.joins
          /\ Unpublished <= 2 * count.joins /\ count.worlds + 1 \in Nat
          /\ Unpublished <= Unpublished /\ 0 + 0 <= 2 * count.joins
        BY <1>0 DEF Unpublished
    <2>9. w.unseen \in [Accounts -> Ages]
        BY <2>3 DEF WorldType
    <2>10. w.id <= count.worlds + 1
        BY <1>0, <2>2
    <2> HIDE DEF Ensured
    <2> QED BY <1>1, <1>3, <2>1, <2>2, <2>3, <2>4, <2>5, <2>6, <2>7, <2>8, <2>9, <2>10
<1> QED BY <1>2, <1>3

(* A building fetched: it opens if there was none. *)
LEMMA FetchedFacts ==
    ASSUME IInv, Bounded, world' = Ensured.w, publishedRoster' = Ensured.published,
           count' = [count EXCEPT !.worlds = Ensured.n]
    PROVE  /\ Counts' /\ Tables' /\ Versions'
           /\ Occupants' = Occupants /\ count'.purges = count.purges
           /\ Occupants # {} => world' = world /\ publishedRoster' = publishedRoster
<1>1. /\ count' \in [worlds : Nat, joins : Nat, purges : Nat]
      /\ count'.worlds = Ensured.n /\ count'.joins = count.joins
      /\ count'.purges = count.purges
    BY EnsuredFacts DEF IInv, Types, Counts
<1>2. Counts'
    BY <1>1, EnsuredFacts DEF IInv, Types, Counts
<1>3. Occupants' = Occupants
    BY EnsuredFacts DEF Occupants
<1>4. Tables'
    BY <1>1, EnsuredFacts DEF Tables
<1>5. Versions'
    BY <1>1, <1>3, EnsuredFacts DEF Versions
<1> QED BY <1>1, <1>2, <1>3, <1>4, <1>5, EnsuredFacts

(* What a client knew of a table it still knows, or knows nothing of it any more. *)
LEMMA NamedKept ==
    ASSUME NEW c \in Conns, NEW slots, Named(c, slots),
           \/ client'[c].dir = client[c].dir /\ client'[c].gap = client[c].gap
           \/ client'[c].gap = "wiped" /\ \A s \in Slots : client'[c].dir[s] = NoOne
    PROVE  \A s \in Slots :
               \/ slots[s] \in {NoOne, AccountOf[c]}
               \/ client'[c].dir[s] = slots[s]
               \/ client'[c].gap = "wiped" /\ client'[c].dir[s] = NoOne
BY DEF Named

(***************************************************************************)
(* A step outside the loop: no frame moves, nobody is added to the ledger, *)
(* and the table changes only with its version.                            *)
(***************************************************************************)
LEMMA DirectoriesKept ==
    ASSUME IInv, UNCHANGED out, boarded' \subseteq boarded,
           \A c \in boarded \cup out.snap :
               Reads(c)' =>
                   /\ Reads(c)
                   /\ \/ client'[c].dir = client[c].dir /\ client'[c].gap = client[c].gap
                      \/ client'[c].gap = "wiped" /\ \A s \in Slots : client'[c].dir[s] = NoOne,
           Occupants' # {} /\ world'.roster = publishedRoster' =>
               /\ Occupants # {} /\ world.roster = publishedRoster
               /\ world'.slots = world.slots
    PROVE  Snapshots' /\ Directories'
<1>1. boarded \cup out.snap \subseteq Conns
    BY DEF IInv, Types, Boarded, OutTyped
<1>2. Snapshots'
    <2> SUFFICES ASSUME NEW c \in out.snap \ out.board, Reads(c)'
                 PROVE  Named(c, out.slots)'
        BY DEF Snapshots
    <2>1. Named(c, out.slots)
        BY DEF IInv, Snapshots
    <2> QED BY <1>1, <2>1, NamedKept DEF Named
<1>3. Directories'
    <2> SUFFICES ASSUME Occupants' # {}, world'.roster = publishedRoster', NEW c \in boarded'
                 PROVE  /\ c \in out.board => out.slots = world'.slots
                        /\ c \notin out.board => (Reads(c)' => Named(c, world.slots)')
        BY DEF Directories
    <2>1. /\ c \in boarded /\ world'.slots = world.slots
          /\ c \in out.board => out.slots = world.slots
          /\ c \notin out.board => (Reads(c) => Named(c, world.slots))
        BY DEF IInv, Directories
    <2>2. ASSUME c \notin out.board, Reads(c)' PROVE Named(c, world.slots)'
        <3>1. Named(c, world.slots)
            BY <2>1, <2>2
        <3> QED BY <1>1, <2>1, <2>2, <3>1, NamedKept DEF Named
    <2> QED BY <2>1, <2>2
<1> QED BY <1>2, <1>3

(* A step that lets nobody in and takes nobody out. *)
LEMMA GuestsKept ==
    ASSUME IInv, UNCHANGED loop, count'.purges = count.purges, Occupants' = Occupants,
           Occupants # {} => world' = world,
           \A c \in Conns :
               Admitted(c)' => /\ Admitted(c)
                               /\ AccountOf[c] \in Occupants /\ Level(c) => Level(c)'
    PROVE  Fresh' /\ Home' /\ Levels'
<1>1. Fresh'
    BY DEF IInv, Fresh
<1>2. Home'
    BY DEF IInv, Home
<1>3. Levels'
    BY DEF IInv, Levels, OneTab
<1> QED BY <1>1, <1>2, <1>3

(* A step that leaves the building alone. *)
LEMMA BuildingKept ==
    ASSUME IInv, UNCHANGED <<world, count, publishedRoster>>
    PROVE  /\ Counts' /\ Tables' /\ Versions' /\ Occupants' = Occupants
           /\ count'.purges = count.purges
BY DEF IInv, Types, Counts, Tables, Versions, Occupants

(* One client's record. *)
LEMMA ClientMoves ==
    ASSUME IInv, NEW c \in Conns, NEW r \in ClientType, client' = [client EXCEPT ![c] = r]
    PROVE  /\ ClientsTyped' /\ client'[c] = r
           /\ \A d \in Conns \ {c} : client'[d] = client[d]
BY DEF IInv, Types, ClientsTyped

(* One socket. *)
LEMMA LinkMoves ==
    ASSUME IInv, NEW c \in Conns, NEW l \in Links, link' = [link EXCEPT ![c] = l]
    PROVE  /\ LinksTyped' /\ link'[c] = l
           /\ \A d \in Conns \ {c} : link'[d] = link[d]
BY DEF IInv, Types, LinksTyped

(* One answer. *)
LEMMA AnswerMoves ==
    ASSUME IInv, NEW c \in Conns, NEW g \in AnswerType, greeting' = [greeting EXCEPT ![c] = g]
    PROVE  /\ AnswersTyped' /\ greeting'[c] = g
           /\ \A d \in Conns \ {c} : greeting'[d] = greeting[d]
BY DEF IInv, Types, AnswersTyped

(* A connection in one of the loop's lists is one. *)
LEMMA ListsTyped == IInv => boarded \cup out.snap \cup loop.conns \subseteq Conns
BY DEF IInv, Types, Boarded, OutTyped, LoopTyped

----------------------------------------------------------------------------
(* Clients and their sockets *)

(* GET /world, of a socket that is not there yet. *)
LEMMA FetchKeeps ==
    ASSUME IInv, NEW c \in Conns, Fetch(c)
    PROVE  IInv'
<1> DEFINE r == [client[c] EXCEPT !.held = Ensured.w.id]
<1>1. /\ link[c] = "none" /\ Bounded /\ world' = Ensured.w
      /\ publishedRoster' = Ensured.published
      /\ count' = [count EXCEPT !.worlds = Ensured.n]
      /\ link' = [link EXCEPT ![c] = "fetched"]
      /\ UNCHANGED <<boarded, greeting, loop, out>>
    BY DEF Fetch
<1>2. /\ Counts' /\ Tables' /\ Versions'
      /\ Occupants' = Occupants /\ count'.purges = count.purges
      /\ Occupants # {} => world' = world /\ publishedRoster' = publishedRoster
    BY <1>1, FetchedFacts
<1>3. r \in ClientType
    BY <1>1, EnsuredFacts DEF IInv, Types, ClientsTyped, ClientType
<1>4. client' = [client EXCEPT ![c] = r]
    BY DEF Fetch, IInv, Types, ClientsTyped
<1> HIDE DEF r
<1>5. /\ ClientsTyped' /\ client'[c] = r /\ \A d \in Conns \ {c} : client'[d] = client[d]
    BY <1>3, <1>4, ClientMoves
<1>6. /\ LinksTyped' /\ link'[c] = "fetched" /\ \A d \in Conns \ {c} : link'[d] = link[d]
    <2>1. "fetched" \in Links
        BY DEF Links
    <2> QED BY <1>1, <2>1, LinkMoves
<1>7. Types'
    BY <1>1, <1>2, <1>5, <1>6 DEF IInv, Types, Boarded, AnswersTyped, LoopTyped, OutTyped
<1>8. Known' /\ Drained'
    BY <1>1, <1>6, ListsTyped DEF IInv, Known, Drained
<1>9. Snapshots' /\ Directories'
    <2>1. \A d \in boarded \cup out.snap :
              Reads(d)' => Reads(d) /\ client'[d].dir = client[d].dir /\ client'[d].gap = client[d].gap
        BY <1>5, <1>6, ListsTyped DEF Reads, Members
    <2> QED BY <1>1, <1>2, <2>1, DirectoriesKept
<1>10. Fresh' /\ Home' /\ Levels'
    <2>1. \A d \in Conns :
              Admitted(d)' => /\ Admitted(d)
                              /\ AccountOf[d] \in Occupants /\ Level(d) => Level(d)'
        BY <1>1, <1>2, <1>5, <1>6 DEF Admitted, Level
    <2> QED BY <1>1, <1>2, <2>1, GuestsKept
<1> QED BY <1>2, <1>7, <1>8, <1>9, <1>10 DEF IInv

(* The upgrade, and the two ends of a socket. *)
LEMMA SocketKeeps ==
    ASSUME IInv, NEW c \in Conns, Open(c) \/ Cut(c) \/ PumpEnds(c)
    PROVE  IInv'
<1>1. UNCHANGED <<world, count, boarded, publishedRoster, loop, out>>
    BY DEF Open, Cut, PumpEnds, service
<1>2. PICK l \in {"open", "cut", "gone"} :
          /\ link' = [link EXCEPT ![c] = l]
          /\ l = "open" => link[c] = "fetched"
          /\ link[c] = "cut" => l = "gone"
          /\ link[c] \in {"fetched", "cut"} \cup Members
    BY DEF Open, Cut, PumpEnds, Members
<1>3. /\ LinksTyped' /\ link'[c] = l /\ \A d \in Conns \ {c} : link'[d] = link[d]
    <2>1. l \in Links
        BY DEF Links
    <2> QED BY <1>2, <2>1, LinkMoves
<1>4. AnswersTyped' /\ \A d \in Conns \ {c} : greeting'[d] = greeting[d]
    <2>1. CASE UNCHANGED greeting
        BY <2>1 DEF IInv, Types, AnswersTyped
    <2>2. CASE greeting' = [greeting EXCEPT ![c] = NoAnswer]
        BY <2>2, FirstValues, AnswerMoves
    <2> QED BY <2>1, <2>2 DEF Open, Cut, PumpEnds
<1>5. /\ ClientsTyped' /\ \A d \in Conns \ {c} : client'[d] = client[d]
      /\ l = "open" => client'[c] = client[c]
    <2>1. CASE UNCHANGED client
        BY <2>1 DEF IInv, Types, ClientsTyped
    <2>2. CASE Cut(c)
        <3>1. client' = [client EXCEPT ![c] = NewClient] /\ link'[c] = "cut"
            BY <2>2 DEF Cut, IInv, Types, LinksTyped
        <3>2. ClientsTyped' /\ \A d \in Conns \ {c} : client'[d] = client[d]
            BY <3>1, FirstValues, ClientMoves
        <3> QED BY <1>3, <3>1, <3>2
    <2> QED BY <2>1, <2>2 DEF Open, PumpEnds
<1>6. /\ Counts' /\ Tables' /\ Versions' /\ Occupants' = Occupants
      /\ count'.purges = count.purges
    BY <1>1, BuildingKept
<1>7. Types'
    BY <1>1, <1>3, <1>4, <1>5, <1>6 DEF IInv, Types, Boarded, LoopTyped, OutTyped
<1>8. Known' /\ Drained'
    BY <1>1, <1>3, ListsTyped DEF IInv, Known, Drained
<1>9. Snapshots' /\ Directories'
    <2>1. \A d \in boarded \cup out.snap :
              Reads(d)' => Reads(d) /\ client'[d].dir = client[d].dir /\ client'[d].gap = client[d].gap
        BY <1>2, <1>3, <1>5, ListsTyped DEF Reads, Members, IInv, Known
    <2> QED BY <1>1, <1>6, <2>1, DirectoriesKept
<1>10. Fresh' /\ Home' /\ Levels'
    <2>1. \A d \in Conns :
              Admitted(d)' => /\ Admitted(d)
                              /\ AccountOf[d] \in Occupants /\ Level(d) => Level(d)'
        BY <1>1, <1>3, <1>4, <1>5 DEF Admitted, Level
    <2> QED BY <1>1, <1>6, <2>1, GuestsKept
<1> QED BY <1>6, <1>7, <1>8, <1>9, <1>10 DEF IInv

(* The answer to a hello is read, or dropped. *)
LEMMA AnswerKeeps ==
    ASSUME IInv, NEW c \in Conns, Answer(c)
    PROVE  IInv'
<1>1. /\ UNCHANGED <<world, count, boarded, publishedRoster, loop, out>>
      /\ link[c] = "asked" /\ greeting' = [greeting EXCEPT ![c] = NoAnswer]
    BY DEF Answer, service
<1>2. AnswersTyped' /\ \A d \in Conns \ {c} : greeting'[d] = greeting[d]
    BY <1>1, FirstValues, AnswerMoves
<1>3. /\ Counts' /\ Tables' /\ Versions' /\ Occupants' = Occupants
      /\ count'.purges = count.purges
    BY <1>1, BuildingKept
<1>4. client[c] \in ClientType
    BY DEF IInv, Types, ClientsTyped
<1>5. PICK l \in {"open", "told", "cut"}, r \in ClientType :
          /\ link' = [link EXCEPT ![c] = l] /\ client' = [client EXCEPT ![c] = r]
          /\ l \in {"open", "told"} /\ r.gap # "lost" =>
                 /\ client[c].gap # "lost"
                 /\ \/ r.dir = client[c].dir /\ r.gap = client[c].gap
                    \/ r.gap = "wiped" /\ \A s \in Slots : r.dir[s] = NoOne
          /\ l = "told" => /\ greeting[c].kind = "ready"
                           /\ r.held = greeting[c].id \/ r.adopting
    <2>1. CASE link' = [link EXCEPT ![c] = "open"] /\ UNCHANGED client
        <3>1. client' = [client EXCEPT ![c] = client[c]]
            BY <2>1 DEF IInv, Types, ClientsTyped
        <3> QED BY <1>4, <2>1, <3>1
    <2>2. CASE /\ greeting[c].kind = "ready"
               /\ link' = [link EXCEPT ![c] = "told"]
               /\ client' = IF ~Stale(c) THEN client
                            ELSE [client EXCEPT ![c].adopting = TRUE, ![c].dir = NoWorld.slots,
                                                ![c].gap = IF @ = "none" THEN "wiped" ELSE @]
        <3>1. CASE ~Stale(c)
            <4>1. client' = [client EXCEPT ![c] = client[c]]
                BY <2>2, <3>1 DEF IInv, Types, ClientsTyped
            <4>2. client[c].held = greeting[c].id \/ client[c].adopting
                BY <3>1 DEF Stale
            <4> QED BY <1>4, <2>2, <4>1, <4>2
        <3>2. CASE Stale(c)
            <4> DEFINE g == IF client[c].gap = "none" THEN "wiped" ELSE client[c].gap
                       r == [client[c] EXCEPT !.adopting = TRUE, !.dir = NoWorld.slots, !.gap = g]
            <4>1. client' = [client EXCEPT ![c] = r]
                BY <2>2, <3>2 DEF IInv, Types, ClientsTyped
            <4>2. g \in {"wiped", "lost"} /\ (g = "lost" <=> client[c].gap = "lost")
                BY <1>4 DEF ClientType
            <4> HIDE DEF g
            <4>3. r \in ClientType
                BY <1>4, <4>2, NoWorldFacts DEF ClientType
            <4>4. r.adopting /\ r.gap = g /\ \A s \in Slots : r.dir[s] = NoOne
                BY <1>4, NoWorldFacts DEF ClientType
            <4> HIDE DEF r
            <4> QED BY <2>2, <4>1, <4>2, <4>3, <4>4
        <3> QED BY <3>1, <3>2
    <2>3. CASE /\ link' = [link EXCEPT ![c] = "cut"]
               /\ client' = [client EXCEPT ![c] = NewClient]
        BY <2>3, FirstValues
    <2> QED BY <2>1, <2>2, <2>3 DEF Answer
<1>6. /\ LinksTyped' /\ link'[c] = l /\ \A d \in Conns \ {c} : link'[d] = link[d]
    <2>1. l \in Links
        BY DEF Links
    <2> QED BY <1>5, <2>1, LinkMoves
<1>7. ClientsTyped' /\ client'[c] = r /\ \A d \in Conns \ {c} : client'[d] = client[d]
    BY <1>5, ClientMoves
<1>8. Types'
    BY <1>1, <1>2, <1>3, <1>6, <1>7 DEF IInv, Types, Boarded, LoopTyped, OutTyped
<1>9. Known' /\ Drained'
    BY <1>1, <1>6, ListsTyped DEF IInv, Known, Drained
<1>10. Snapshots' /\ Directories'
    <2>1. \A d \in boarded \cup out.snap :
              Reads(d)' =>
                 /\ Reads(d)
                 /\ \/ client'[d].dir = client[d].dir /\ client'[d].gap = client[d].gap
                    \/ client'[d].gap = "wiped" /\ \A s \in Slots : client'[d].dir[s] = NoOne
        BY <1>1, <1>5, <1>6, <1>7, ListsTyped DEF Reads, Members
    <2> QED BY <1>1, <1>3, <2>1, DirectoriesKept
<1>11. Fresh' /\ Home' /\ Levels'
    <2>1. \A d \in Conns :
              Admitted(d)' => /\ Admitted(d)
                              /\ AccountOf[d] \in Occupants /\ Level(d) => Level(d)'
        <3> SUFFICES ASSUME NEW d \in Conns, Admitted(d)'
                     PROVE  /\ Admitted(d)
                            /\ AccountOf[d] \in Occupants /\ Level(d) => Level(d)'
            OBVIOUS
        <3>1. CASE d # c
            BY <1>1, <1>2, <1>6, <1>7, <3>1 DEF Admitted, Level
        <3>2. CASE d = c
            <4>1. l = "told"
                BY <1>6, <3>2 DEF Admitted
            <4> QED BY <1>1, <1>5, <1>6, <1>7, <3>2, <4>1 DEF Admitted, Level
        <3> QED BY <3>1, <3>2
    <2> QED BY <1>1, <1>3, <2>1, GuestsKept
<1> QED BY <1>3, <1>8, <1>9, <1>10, <1>11 DEF IInv

(* adoptBuilding's fetch comes back with the building that is open. *)
LEMMA AdoptKeeps ==
    ASSUME IInv, NEW c \in Conns, Adopt(c)
    PROVE  IInv'
<1> DEFINE r == [client[c] EXCEPT !.held = Ensured.w.id, !.adopting = FALSE]
<1>1. /\ Bounded /\ world' = Ensured.w /\ publishedRoster' = Ensured.published
      /\ count' = [count EXCEPT !.worlds = Ensured.n]
      /\ UNCHANGED <<boarded, link, greeting, loop, out>>
    BY DEF Adopt
<1>2. /\ Counts' /\ Tables' /\ Versions'
      /\ Occupants' = Occupants /\ count'.purges = count.purges
      /\ Occupants # {} => world' = world /\ publishedRoster' = publishedRoster
    BY <1>1, FetchedFacts
<1>3. client[c] \in ClientType
    BY DEF IInv, Types, ClientsTyped
<1>4. /\ r \in ClientType /\ r.held = world'.id
      /\ r.dir = client[c].dir /\ r.gap = client[c].gap
    BY <1>1, <1>3, EnsuredFacts DEF ClientType
<1>5. client' = [client EXCEPT ![c] = r]
    BY DEF Adopt, IInv, Types, ClientsTyped
<1> HIDE DEF r
<1>6. /\ ClientsTyped' /\ client'[c] = r /\ \A d \in Conns \ {c} : client'[d] = client[d]
    BY <1>4, <1>5, ClientMoves
<1>7. Types'
    BY <1>1, <1>2, <1>6 DEF IInv, Types, Boarded, LinksTyped, AnswersTyped, LoopTyped, OutTyped
<1>8. Known' /\ Drained'
    BY <1>1 DEF IInv, Known, Drained
<1>9. Snapshots' /\ Directories'
    <2>1. \A d \in boarded \cup out.snap :
              Reads(d)' => Reads(d) /\ client'[d].dir = client[d].dir /\ client'[d].gap = client[d].gap
        BY <1>1, <1>4, <1>6, ListsTyped DEF Reads
    <2> QED BY <1>1, <1>2, <2>1, DirectoriesKept
<1>10. Fresh' /\ Home' /\ Levels'
    <2>1. \A d \in Conns :
              Admitted(d)' => /\ Admitted(d)
                              /\ AccountOf[d] \in Occupants /\ Level(d) => Level(d)'
        <3> SUFFICES ASSUME NEW d \in Conns, Admitted(d)'
                     PROVE  /\ Admitted(d)
                            /\ AccountOf[d] \in Occupants /\ Level(d) => Level(d)'
            OBVIOUS
        <3>1. CASE d # c
            BY <1>1, <1>2, <1>6, <3>1 DEF Admitted, Level
        <3>2. CASE d = c
            BY <1>1, <1>2, <1>4, <1>6, <3>2 DEF Admitted, Level
        <3> QED BY <3>1, <3>2
    <2> QED BY <1>1, <1>2, <2>1, GuestsKept
<1> QED BY <1>2, <1>7, <1>8, <1>9, <1>10 DEF IInv

(* A hello that finds the building full opens one at most, and lets nobody in. *)
LEMMA HelloRefusedKeeps ==
    ASSUME IInv, NEW c \in Conns, Hello(c), Refused(Ensured.w, AccountOf[c])
    PROVE  IInv'
<1> DEFINE g == [kind |-> "full", id |-> NoBuilding]
<1>1. /\ link[c] \in {"open", "cut"} /\ Bounded /\ world' = Ensured.w
      /\ publishedRoster' = Ensured.published
      /\ count' = [count EXCEPT !.worlds = Ensured.n]
      /\ Greet(c, g)
      /\ UNCHANGED <<boarded, client, loop, out>>
    BY DEF Hello
<1>2. /\ Counts' /\ Tables' /\ Versions'
      /\ Occupants' = Occupants /\ count'.purges = count.purges
      /\ Occupants # {} => world' = world /\ publishedRoster' = publishedRoster
    BY <1>1, FetchedFacts
<1>3. /\ LinksTyped' /\ AnswersTyped'
      /\ \A d \in Conns \ {c} : link'[d] = link[d] /\ greeting'[d] = greeting[d]
      /\ ~Admitted(c)' /\ (link'[c] \in Members => link[c] \in Members)
      /\ link'[c] \notin {"none", "fetched"}
    <2>1. CASE link[c] = "open"
        <3>1. link' = [link EXCEPT ![c] = "asked"] /\ greeting' = [greeting EXCEPT ![c] = g]
            BY <1>1, <2>1 DEF Greet
        <3>2. "asked" \in Links /\ g \in AnswerType /\ g.kind = "full"
            BY FirstValues DEF Links, AnswerType
        <3> HIDE DEF g
        <3>3. /\ LinksTyped' /\ link'[c] = "asked" /\ \A d \in Conns \ {c} : link'[d] = link[d]
            BY <3>1, <3>2, LinkMoves
        <3>4. /\ AnswersTyped' /\ greeting'[c] = g
              /\ \A d \in Conns \ {c} : greeting'[d] = greeting[d]
            BY <3>1, <3>2, AnswerMoves
        <3> QED BY <2>1, <3>2, <3>3, <3>4 DEF Admitted, Members
    <2>2. CASE link[c] = "cut"
        BY <1>1, <2>2 DEF Greet, IInv, Types, LinksTyped, AnswersTyped, Admitted, Members
    <2> QED BY <1>1, <2>1, <2>2
<1>4. Types'
    BY <1>1, <1>2, <1>3 DEF IInv, Types, Boarded, ClientsTyped, LoopTyped, OutTyped
<1>5. Known' /\ Drained'
    BY <1>1, <1>3, ListsTyped DEF IInv, Known, Drained
<1>6. Snapshots' /\ Directories'
    <2>1. \A d \in boarded \cup out.snap : Reads(d)' => Reads(d) /\ client'[d] = client[d]
        BY <1>1, <1>3, ListsTyped DEF Reads
    <2> QED BY <1>1, <1>2, <2>1, DirectoriesKept
<1>7. Fresh' /\ Home' /\ Levels'
    <2>1. \A d \in Conns :
              Admitted(d)' => /\ Admitted(d)
                              /\ AccountOf[d] \in Occupants /\ Level(d) => Level(d)'
        BY <1>1, <1>2, <1>3 DEF Admitted, Level
    <2> QED BY <1>1, <1>2, <2>1, GuestsKept
<1> QED BY <1>2, <1>4, <1>5, <1>6, <1>7 DEF IInv

(* A hello that joins: a place and a version for a newcomer, a mark for the rest. *)
LEMMA HelloJoinsKeeps ==
    ASSUME IInv, NEW c \in Conns, Hello(c), ~Refused(Ensured.w, AccountOf[c])
    PROVE  IInv'
<1> DEFINE a == AccountOf[c]
           g == [kind |-> "ready", id |-> Ensured.w.id]
           more == IF a \in Occupants THEN 0 ELSE 1
<1>1. /\ link[c] \in {"open", "cut"} /\ Bounded /\ world' = Join(Ensured.w, a)
      /\ publishedRoster' = Ensured.published
      /\ count' = [count EXCEPT !.worlds = Ensured.n, !.joins = @ + more]
      /\ count'.joins <= MaxJoins
      /\ Greet(c, g) /\ boarded' = boarded \ {c}
      /\ UNCHANGED <<client, loop, out>>
    BY DEF Hello
<1>2. a \in Accounts
    BY Behind
<1>3. /\ world' \in WorldType /\ Agree(world')
      /\ world'.id = Ensured.w.id
      /\ world'.roster = Ensured.w.roster + more
      /\ Occupants' = Occupants \cup {a}
      /\ Cardinality(Occupants \cup {a}) = Cardinality(Occupants) + more
      /\ a \in Occupants => world'.slots = world.slots
      /\ \A b \in Accounts : world'.unseen[b] = IF b = a THEN 0 ELSE Ensured.w.unseen[b]
    <2>0. Cardinality(Occupants) \in Nat /\ Ensured.w.roster \in Nat
        BY <1>1, EnsuredFacts, FiniteOccupants DEF WorldType
    <2>1. CASE a \in Occupants
        <3>1. Ensured.w = world /\ more = 0 /\ Occupants \cup {a} = Occupants
            BY <1>1, <2>1, EnsuredFacts
        <3>2. a \in OccupantsOf(Ensured.w)
            BY <1>1, <2>1, EnsuredFacts
        <3>3. /\ world' \in WorldType /\ Agree(world')
              /\ OccupantsOf(world') = OccupantsOf(world)
              /\ world'.id = world.id /\ world'.roster = world.roster
              /\ world'.slots = world.slots
              /\ \A b \in Accounts : world'.unseen[b] = IF b = a THEN 0 ELSE world.unseen[b]
            <4>1. world \in WorldType /\ Agree(world) /\ a \in OccupantsOf(world)
                  /\ world' = Join(world, a)
                BY <1>1, <3>1, <3>2, EnsuredFacts
            <4> HIDE DEF a
            <4> QED BY <4>1, JoinAgainFacts
        <3>4. Occupants' = Occupants
            BY <3>3 DEF Occupants
        <3> HIDE DEF a, more
        <3>5. world.roster + more = world.roster
            BY <2>0, <3>1
        <3>6. Cardinality(Occupants \cup {a}) = Cardinality(Occupants) + more
            BY <2>0, <3>1
        <3>7. Occupants' = Occupants \cup {a}
            BY <3>1, <3>4
        <3> QED BY <3>1, <3>3, <3>5, <3>6, <3>7
    <2>2. CASE a \notin Occupants
        <3>1. more = 1 /\ a \notin OccupantsOf(Ensured.w)
            BY <1>1, <2>2, EnsuredFacts
        <3>2. /\ Ensured.w \in WorldType /\ Agree(Ensured.w)
              /\ OccupantsOf(Ensured.w) = Occupants /\ ~Refused(Ensured.w, a)
              /\ world' = Join(Ensured.w, a)
            BY <1>1, EnsuredFacts
        <3>3. /\ world' \in WorldType /\ Agree(world')
              /\ OccupantsOf(world') = Occupants \cup {a}
              /\ world'.id = Ensured.w.id /\ world'.roster = Ensured.w.roster + 1
              /\ Cardinality(Occupants \cup {a}) = Cardinality(Occupants) + 1
              /\ \A b \in Accounts :
                    world'.unseen[b] = IF b = a THEN 0 ELSE Ensured.w.unseen[b]
            <4> HIDE DEF a
            <4> QED BY <1>2, <3>1, <3>2, JoinFacts
        <3>4. Occupants' = Occupants \cup {a}
            BY <3>3 DEF Occupants
        <3> HIDE DEF a, more
        <3> QED BY <2>2, <3>1, <3>3, <3>4
    <2> QED BY <2>1, <2>2
<1>4. /\ LinksTyped' /\ AnswersTyped'
      /\ \A d \in Conns \ {c} : link'[d] = link[d] /\ greeting'[d] = greeting[d]
      /\ link'[c] = "asked" => greeting'[c].id = Ensured.w.id
      /\ link'[c] # "told" /\ (link'[c] \in Members => link[c] \in Members)
      /\ link'[c] \notin {"none", "fetched"}
    <2>1. CASE link[c] = "open"
        <3>1. link' = [link EXCEPT ![c] = "asked"] /\ greeting' = [greeting EXCEPT ![c] = g]
            BY <1>1, <2>1 DEF Greet
        <3>2. "asked" \in Links /\ g \in AnswerType /\ g.id = Ensured.w.id
            BY <1>1, EnsuredFacts DEF Links, AnswerType
        <3> HIDE DEF g
        <3>3. /\ LinksTyped' /\ link'[c] = "asked" /\ \A d \in Conns \ {c} : link'[d] = link[d]
            BY <3>1, <3>2, LinkMoves
        <3>4. /\ AnswersTyped' /\ greeting'[c] = g
              /\ \A d \in Conns \ {c} : greeting'[d] = greeting[d]
            BY <3>1, <3>2, AnswerMoves
        <3> QED BY <2>1, <3>2, <3>3, <3>4 DEF Members
    <2>2. CASE link[c] = "cut"
        BY <1>1, <2>2 DEF Greet, IInv, Types, LinksTyped, AnswersTyped, Members
    <2> QED BY <1>1, <2>1, <2>2
<1>5. /\ count' \in [worlds : Nat, joins : Nat, purges : Nat]
      /\ count'.worlds = Ensured.n /\ count'.joins = count.joins + more
      /\ count'.purges = count.purges /\ count.joins \in Nat
    <2>1. more \in {0, 1} /\ Ensured.n \in Nat
        BY <1>1, EnsuredFacts
    <2>2. /\ count.joins \in Nat /\ count.purges \in Nat
          /\ count = [worlds |-> count.worlds, joins |-> count.joins, purges |-> count.purges]
        BY DEF IInv, Types, Counts
    <2>3. count' = [worlds |-> Ensured.n, joins |-> count.joins + more, purges |-> count.purges]
        BY <1>1, <2>2
    <2>4. count.joins + more \in Nat
        BY <2>1, <2>2
    <2> HIDE DEF more
    <2> QED BY <2>1, <2>2, <2>3, <2>4
<1>6. Counts'
    BY <1>1, <1>5, EnsuredFacts DEF IInv, Types, Counts
<1> HIDE DEF g
<1>7. Types'
    BY <1>1, <1>4, <1>6 DEF IInv, Types, Boarded, ClientsTyped, LoopTyped, OutTyped
<1>8. Tables'
    BY <1>1, <1>3, <1>5, EnsuredFacts DEF Tables
<1>9. Versions'
    <2>1. Cardinality(Occupants) \in Nat /\ Ensured.w.roster \in Nat
        BY <1>1, EnsuredFacts, FiniteOccupants DEF WorldType
    <2>2. more \in {0, 1}
        OBVIOUS
    <2>3. /\ Ensured.w.roster + Cardinality(Occupants) <= 2 * count.joins
          /\ Ensured.published \in Int /\ Unpublished <= Ensured.published
          /\ Ensured.published <= Ensured.w.roster /\ Ensured.published <= 2 * count.joins
        BY <1>1, EnsuredFacts
    <2> HIDE DEF more, a
    <2>4. world'.roster + Cardinality(Occupants') <= 2 * count'.joins
        BY <1>3, <1>5, <2>1, <2>2, <2>3
    <2>5. /\ publishedRoster' \in Int /\ Unpublished <= publishedRoster'
          /\ publishedRoster' <= 2 * count'.joins /\ publishedRoster' <= world'.roster
        BY <1>1, <1>3, <1>5, <2>1, <2>2, <2>3
    <2> QED BY <2>4, <2>5 DEF Versions
<1>10. Known' /\ Drained'
    BY <1>1, <1>4, ListsTyped DEF IInv, Known, Drained
<1>11. Snapshots' /\ Directories'
    <2>1. \A d \in boarded \cup out.snap : Reads(d)' => Reads(d) /\ client'[d] = client[d]
        BY <1>1, <1>4, ListsTyped DEF Reads
    <2>2. ASSUME world'.roster = publishedRoster'
          PROVE  /\ Occupants # {} /\ world.roster = publishedRoster
                 /\ world'.slots = world.slots
        <3>1. a \in Occupants
            <4>1. Ensured.w.roster \in Nat /\ Ensured.published <= Ensured.w.roster
                  /\ Ensured.published \in Int
                BY <1>1, EnsuredFacts DEF WorldType
            <4>2. more = 0
                BY <1>1, <1>3, <2>2, <4>1
            <4> QED BY <4>2
        <3>2. Ensured.w = world /\ Ensured.published = publishedRoster
            BY <1>1, <3>1, EnsuredFacts
        <3>3. world.roster \in Nat
            BY DEF IInv, Tables, WorldType
        <3> QED BY <1>1, <1>3, <2>2, <3>1, <3>2, <3>3
    <2> QED BY <1>1, <2>1, <2>2, DirectoriesKept
<1>12. \A d \in Conns \ {c} : Admitted(d)' => Admitted(d)
    BY <1>4 DEF Admitted
<1>13. Fresh'
    <2> SUFFICES ASSUME NEW d \in Conns, Admitted(d)', loop.pc = "members",
                        d \notin loop.conns, AccountOf[d] \in Occupants'
                 PROVE  world'.unseen[AccountOf[d]] = 0
        BY <1>1 DEF Fresh
    <2>1. CASE AccountOf[d] = a
        BY <1>2, <1>3, <2>1
    <2>2. CASE AccountOf[d] # a
        <3>1. AccountOf[d] \in Occupants /\ Admitted(d)
            BY <1>3, <1>12, <2>2
        <3>2. Ensured.w = world
            BY <1>1, <3>1, EnsuredFacts
        <3> QED BY <1>3, <2>2, <3>1, <3>2, Behind DEF IInv, Fresh
    <2> QED BY <2>1, <2>2
<1>14. Home'
    BY <1>3, <1>5, <1>12 DEF IInv, Home
<1>15. Levels'
    <2> SUFFICES ASSUME count'.purges = 0 \/ OneTab, NEW d \in Conns, Admitted(d)',
                        AccountOf[d] \in Occupants'
                 PROVE  Level(d)'
        BY DEF Levels, OneTab
    <2>1. CASE d = c
        BY <1>3, <1>4, <2>1 DEF Level
    <2>2. CASE d # c
        <3>1. Admitted(d) /\ AccountOf[d] \in Occupants
            BY <1>3, <1>5, <1>12, <2>2 DEF IInv, Home, OneTab
        <3>2. world'.id = world.id
            BY <1>1, <1>3, <3>1, EnsuredFacts
        <3>3. Level(d)
            BY <1>5, <3>1 DEF IInv, Levels
        <3> QED BY <1>1, <1>4, <2>2, <3>2, <3>3 DEF Level
    <2> QED BY <2>1, <2>2
<1> QED BY <1>7, <1>8, <1>9, <1>10, <1>11, <1>13, <1>14, <1>15 DEF IInv

(* PurgeAccount takes one person out, and the building with the last. *)
LEMMA PurgeKeeps ==
    ASSUME IInv, NEW a \in Accounts, PurgeAccount(a)
    PROVE  IInv'
<1>1. /\ a \in Occupants /\ count.purges < MaxPurges
      /\ count' = [count EXCEPT !.purges = @ + 1]
      /\ world' = IF Occupants = {a} THEN NoWorld ELSE Release(world, {a})
      /\ UNCHANGED <<boarded, publishedRoster, link, greeting, client, loop, out>>
    BY DEF PurgeAccount
<1>2. /\ count' \in [worlds : Nat, joins : Nat, purges : Nat]
      /\ count'.worlds = count.worlds /\ count'.joins = count.joins
      /\ count'.purges = count.purges + 1
      /\ count.worlds \in Nat /\ count.joins \in Nat /\ count.purges \in Nat
      /\ count.worlds <= MaxWorlds /\ count.joins <= MaxJoins
    BY <1>1 DEF IInv, Types, Counts
<1>3. Counts'
    BY <1>1, <1>2, BuildingAssumption DEF Counts
<1>4. /\ world \in WorldType /\ Agree(world) /\ world.id <= count.worlds
      /\ world.id # NoBuilding /\ world.roster \in Nat
    BY <1>1, NoWorldFacts DEF IInv, Tables, Occupants, WorldType
<1>5. {a} \in SUBSET OccupantsOf(world) /\ Cardinality({a}) = 1
    BY <1>1, FS_Singleton DEF Occupants
<1>6. /\ world.roster + Cardinality(Occupants) <= 2 * count.joins
      /\ publishedRoster \in Int /\ Unpublished <= publishedRoster
      /\ publishedRoster <= 2 * count.joins /\ publishedRoster <= world.roster
      /\ Cardinality(Occupants) \in Nat
    BY <1>4, FiniteOccupants DEF IInv, Versions, Occupants
<1>7. CASE Occupants = {a}
    <2>1. world' = NoWorld /\ Occupants' = {}
        BY <1>1, <1>7, NoWorldFacts DEF Occupants
    <2>2. Tables'
        BY <1>2, <2>1, NoWorldFacts DEF Tables, NoBuilding
    <2>3. Versions'
        BY <1>1, <1>2, <1>6, <2>1, NoWorldFacts, FS_EmptySet DEF Versions
    <2> QED BY <1>1, <1>2, <1>3, <2>1, <2>2, <2>3
        DEF IInv, Types, Boarded, LinksTyped, AnswersTyped, ClientsTyped, LoopTyped, OutTyped,
            Known, Drained, Snapshots, Reads, Named, Directories, Fresh, Home, Levels
<1>8. CASE Occupants # {a}
    <2>1. /\ world' \in WorldType /\ Agree(world')
          /\ Occupants' = Occupants \ {a} /\ world'.id = world.id
          /\ world'.roster = world.roster + 1
          /\ Cardinality(Occupants') = Cardinality(Occupants) - 1
          /\ \A b \in Accounts \ {a} : world'.unseen[b] = world.unseen[b]
        BY <1>1, <1>4, <1>5, <1>8, ReleaseFacts, ZenonT(60) DEF Occupants
    <2>2. Tables'
        BY <1>2, <1>4, <2>1 DEF Tables
    <2>3. Versions'
        BY <1>1, <1>2, <1>4, <1>6, <2>1 DEF Versions
    <2>4. Types' /\ Known' /\ Drained'
        BY <1>1, <1>3 DEF IInv, Types, Boarded, LinksTyped, AnswersTyped, ClientsTyped,
                          LoopTyped, OutTyped, Known, Drained
    <2>5. Snapshots' /\ Directories'
        <3>1. world'.roster # publishedRoster'
            BY <1>1, <1>4, <1>6, <2>1
        <3>2. \A c \in boarded \cup out.snap : Reads(c)' => Reads(c) /\ client'[c] = client[c]
            BY <1>1 DEF Reads
        <3> QED BY <1>1, <3>1, <3>2, DirectoriesKept
    <2>6. Fresh'
        BY <1>1, <2>1, Behind DEF IInv, Fresh, Admitted
    <2>7. Home'
        BY <1>2 DEF Home
    <2>8. Levels'
        <3>1. count'.purges # 0
            BY <1>2
        <3>2. ASSUME OneTab, NEW c \in Conns, Admitted(c)', AccountOf[c] \in Occupants'
              PROVE  Level(c)'
            <4>1. Level(c)
                BY <1>1, <2>1, <3>2 DEF IInv, Levels, Admitted
            <4> QED BY <1>1, <2>1, <4>1 DEF Level
        <3> QED BY <3>1, <3>2 DEF Levels, OneTab
    <2> QED BY <2>2, <2>3, <2>4, <2>5, <2>6, <2>7, <2>8 DEF IInv
<1> QED BY <1>7, <1>8

----------------------------------------------------------------------------
(* The loop *)

(* A tick asks for the members, and everybody let in is one. *)
LEMMA TickKeeps ==
    ASSUME IInv, Tick
    PROVE  IInv'
<1>1. /\ UNCHANGED <<world, count, boarded, publishedRoster, link, greeting, client, out>>
      /\ loop.pc = "select"
      /\ loop' = [pc |-> "members", conns |-> {c \in Conns : link[c] \in Members}]
    BY DEF Tick, service
<1>2. Counts' /\ Tables' /\ Versions' /\ Occupants' = Occupants
    BY <1>1, BuildingKept
<1>3. Types'
    BY <1>1, <1>2 DEF IInv, Types, Boarded, LinksTyped, AnswersTyped, ClientsTyped, LoopTyped,
                      OutTyped
<1>4. Known' /\ Drained'
    BY <1>1 DEF IInv, Known, Drained, Members
<1>5. Snapshots' /\ Directories'
    BY <1>1, <1>2 DEF IInv, Snapshots, Directories, Reads, Named
<1>6. Fresh'
    BY <1>1 DEF Fresh, Admitted, Members
<1>7. Home' /\ Levels'
    BY <1>1, <1>2 DEF IInv, Home, Levels, Admitted, OneTab, Level
<1> QED BY <1>2, <1>3, <1>4, <1>5, <1>6, <1>7 DEF IInv

(* Nobody inside: the ledger is emptied, and the loop waits. *)
LEMMA StepEmptyKeeps ==
    ASSUME IInv, StepEmpty
    PROVE  IInv'
<1>1. /\ UNCHANGED <<world, count, publishedRoster, link, greeting, client, out>>
      /\ loop.pc = "members" /\ boarded' = {} /\ loop' = [pc |-> "select", conns |-> {}]
    BY DEF StepEmpty
<1>2. Counts' /\ Tables' /\ Versions' /\ Occupants' = Occupants
    BY <1>1, BuildingKept
<1>3. Types'
    BY <1>1, <1>2 DEF IInv, Types, Boarded, LinksTyped, AnswersTyped, ClientsTyped, LoopTyped,
                      OutTyped
<1>4. Known' /\ Drained'
    BY <1>1 DEF IInv, Known, Drained
<1>5. Snapshots' /\ Directories'
    BY <1>1 DEF IInv, Snapshots, Directories, Reads, Named
<1>6. Fresh' /\ Home' /\ Levels'
    BY <1>1, <1>2 DEF IInv, Fresh, Home, Levels, Admitted, OneTab, Level
<1> QED BY <1>2, <1>3, <1>4, <1>5, <1>6 DEF IInv

(* The standings are delivered, or known to be lost. *)
LEMMA PublishBoardKeeps ==
    ASSUME IInv, PublishBoard
    PROVE  IInv'
<1>1. /\ UNCHANGED <<world, count, boarded, publishedRoster, link, greeting, loop>>
      /\ loop.pc = "publish" /\ out' = [out EXCEPT !.board = {}]
    BY DEF PublishBoard, service
<1>2. PICK lost \in SUBSET out.board :
          client' = [c \in Conns |->
               IF c \notin out.board \/ link[c] \notin Members THEN client[c]
               ELSE IF c \in lost THEN [client[c] EXCEPT !.dir = NoWorld.slots, !.gap = "lost"]
               ELSE [client[c] EXCEPT !.dir = out.slots, !.gap = "none"]]
    BY DEF PublishBoard
<1>3. /\ out \in [slots : SlotTable, board : SUBSET Conns, snap : SUBSET Conns]
      /\ out' \in [slots : SlotTable, board : SUBSET Conns, snap : SUBSET Conns]
      /\ out'.board = {} /\ out'.snap = out.snap /\ out'.slots = out.slots
    BY <1>1 DEF IInv, Types, OutTyped
<1>4. \A c \in Conns :
          /\ client'[c] \in ClientType
          /\ client'[c].held = client[c].held /\ client'[c].adopting = client[c].adopting
          /\ (c \notin out.board \/ link[c] \notin Members) => client'[c] = client[c]
          /\ c \in out.board /\ Reads(c)' => client'[c].dir = out.slots
    <2> SUFFICES ASSUME NEW c \in Conns
                 PROVE /\ client'[c] \in ClientType
                       /\ client'[c].held = client[c].held
                       /\ client'[c].adopting = client[c].adopting
                       /\ (c \notin out.board \/ link[c] \notin Members) => client'[c] = client[c]
                       /\ c \in out.board /\ Reads(c)' => client'[c].dir = out.slots
        OBVIOUS
    <2>1. client[c] \in ClientType
        BY DEF IInv, Types, ClientsTyped
    <2>2. CASE c \notin out.board \/ link[c] \notin Members
        BY <1>1, <1>2, <2>1, <2>2 DEF Reads
    <2>3. CASE c \in out.board /\ link[c] \in Members /\ c \in lost
        <3>1. client'[c] = [client[c] EXCEPT !.dir = NoWorld.slots, !.gap = "lost"]
            BY <1>2, <2>3
        <3> QED BY <2>1, <2>3, <3>1, NoWorldFacts DEF ClientType, Reads
    <2>4. CASE c \in out.board /\ link[c] \in Members /\ c \notin lost
        <3>1. client'[c] = [client[c] EXCEPT !.dir = out.slots, !.gap = "none"]
            BY <1>2, <2>4
        <3>2. out.slots \in SlotTable
            BY <1>3
        <3> QED BY <2>1, <2>4, <3>1, <3>2 DEF ClientType, Reads
    <2> QED BY <2>2, <2>3, <2>4
<1>5. ClientsTyped'
    BY <1>2, <1>4 DEF ClientsTyped
<1>6. /\ Counts' /\ Tables' /\ Versions' /\ Occupants' = Occupants
      /\ count'.purges = count.purges
    BY <1>1, BuildingKept
<1>7. Types'
    BY <1>1, <1>3, <1>5, <1>6 DEF IInv, Types, Boarded, LinksTyped, AnswersTyped, LoopTyped,
                                  OutTyped
<1>8. Known' /\ Drained'
    BY <1>1, <1>3 DEF IInv, Known, Drained
<1>9. Snapshots'
    <2> SUFFICES ASSUME NEW c \in out.snap, Reads(c)' PROVE Named(c, out.slots)'
        BY <1>3 DEF Snapshots
    <2>1. c \in Conns
        BY <1>3
    <2>2. CASE c \in out.board
        BY <1>3, <1>4, <2>1, <2>2 DEF Named
    <2>3. CASE c \notin out.board
        <3>1. client'[c] = client[c] /\ Reads(c)
            BY <1>1, <1>4, <2>1, <2>3 DEF Reads
        <3> QED BY <1>3, <2>3, <3>1 DEF IInv, Snapshots, Named
    <2> QED BY <2>2, <2>3
<1>10. Directories'
    <2> SUFFICES ASSUME Occupants # {}, world.roster = publishedRoster,
                        NEW c \in boarded, Reads(c)'
                 PROVE  Named(c, world.slots)'
        BY <1>1, <1>3, <1>6 DEF Directories
    <2>1. c \in Conns
        BY ListsTyped
    <2>2. CASE c \in out.board
        <3>1. out.slots = world.slots
            BY <2>2 DEF IInv, Directories
        <3> QED BY <1>1, <1>4, <2>1, <2>2, <3>1 DEF Named
    <2>3. CASE c \notin out.board
        <3>1. client'[c] = client[c] /\ Reads(c)
            BY <1>1, <1>4, <2>1, <2>3 DEF Reads
        <3> QED BY <1>1, <2>3, <3>1 DEF IInv, Directories, Named
    <2> QED BY <2>2, <2>3
<1>11. Fresh' /\ Home' /\ Levels'
    <2>1. \A c \in Conns :
              Admitted(c)' => /\ Admitted(c)
                              /\ AccountOf[c] \in Occupants /\ Level(c) => Level(c)'
        BY <1>1, <1>4 DEF Admitted, Level
    <2> QED BY <1>1, <1>6, <2>1, GuestsKept
<1> QED BY <1>6, <1>7, <1>8, <1>9, <1>10, <1>11 DEF IInv

(* The frames are gone, and the loop waits for its next tick. *)
LEMMA PublishedKeeps ==
    ASSUME IInv, Published
    PROVE  IInv'
<1>1. /\ UNCHANGED <<world, count, boarded, publishedRoster, link, greeting, client>>
      /\ out.board = {} /\ out' = NoFrames /\ loop' = [pc |-> "select", conns |-> {}]
    BY DEF Published, service
<1>2. Counts' /\ Tables' /\ Versions' /\ Occupants' = Occupants
    BY <1>1, BuildingKept
<1>3. Types'
    BY <1>1, <1>2, FirstValues
    DEF IInv, Types, Boarded, LinksTyped, AnswersTyped, ClientsTyped, LoopTyped, OutTyped
<1>4. Known' /\ Drained' /\ Snapshots'
    BY <1>1, FirstValues DEF IInv, Known, Drained, Snapshots
<1>5. Directories'
    BY <1>1, <1>2, FirstValues DEF IInv, Directories, Reads, Named
<1>6. Fresh' /\ Home' /\ Levels'
    BY <1>1, <1>2 DEF IInv, Fresh, Home, Levels, Admitted, OneTab, Level
<1> QED BY <1>2, <1>3, <1>4, <1>5, <1>6 DEF IInv

(***************************************************************************)
(* step, under the lock: who has gone for longer than the grace leaves,    *)
(* and the rest is sent what it has not been sent.  Whoever has been let   *)
(* in stays: the tick counted his connection, or his hello came after it   *)
(* and marked him seen.                                                    *)
(***************************************************************************)
LEMMA StepOccupiedKeeps ==
    ASSUME IInv, NEW cadence \in BOOLEAN, StepOccupied(cadence)
    PROVE  /\ IInv'
           /\ \A c \in Conns : Admitted(c) /\ AccountOf[c] \in Occupants =>
                                   AccountOf[c] \in Occupants'
<1> DEFINE aged == Aged(world, loop.conns)
           left == {a \in Occupants : Overdue(aged[a])}
           unseen == [a \in Accounts |-> IF a \in left THEN 0 ELSE aged[a]]
           w0 == [world EXCEPT !.unseen = unseen]
           w == Release(w0, left)
           served == {c \in loop.conns : AccountOf[c] \in OccupantsOf(w)}
           due == cadence \/ w.roster # publishedRoster
<1>1. /\ loop.pc = "members" /\ Occupants # {}
      /\ world' = IF OccupantsOf(w) = {} THEN NoWorld ELSE w
      /\ publishedRoster' = IF due THEN w.roster ELSE publishedRoster
      /\ out' = [slots |-> w.slots, board |-> Directory(due, served), snap |-> served]
      /\ boarded' = served
      /\ loop' = [pc |-> "publish", conns |-> {}]
      /\ UNCHANGED <<count, link, greeting, client>>
    BY DEF StepOccupied
<1>2. /\ world \in WorldType /\ Agree(world) /\ world.id <= count.worlds
      /\ world.id # NoBuilding /\ Occupants = OccupantsOf(world)
    BY <1>1, NoWorldFacts DEF IInv, Tables, Occupants
<1>3. world.roster \in Nat /\ \A a \in Accounts : world.unseen[a] \in Ages
    BY <1>2 DEF WorldType
<1>4. \A a \in Accounts :
          /\ aged[a] = 0 \/ aged[a] = world.unseen[a] + 1
          /\ a \notin Occupants => aged[a] = 0
          /\ (\E c \in loop.conns : AccountOf[c] = a) => aged[a] = 0
    BY <1>2 DEF Aged
<1>5. \A c \in Conns : Admitted(c) /\ AccountOf[c] \in Occupants => AccountOf[c] \notin left
    <2> SUFFICES ASSUME NEW c \in Conns, Admitted(c), AccountOf[c] \in Occupants
                 PROVE  ~(aged[AccountOf[c]] > AbandonGrace)
        BY DEF Overdue
    <2>1. AccountOf[c] \in Accounts
        BY Behind
    <2>2. CASE c \in loop.conns
        BY <1>4, <2>1, <2>2, BuildingAssumption
    <2>3. CASE c \notin loop.conns
        <3>1. world.unseen[AccountOf[c]] = 0
            BY <1>1, <2>3 DEF IInv, Fresh
        <3>2. aged[AccountOf[c]] \in {0, 1}
            BY <1>4, <2>1, <3>1
        <3> HIDE DEF aged
        <3> QED BY <3>2, BuildingAssumption
    <2> QED BY <2>2, <2>3
<1>6. unseen \in [Accounts -> Ages]
    <2> SUFFICES ASSUME NEW a \in Accounts, a \notin left PROVE aged[a] \in Ages
        BY NoWorldFacts
    <2>1. CASE a \notin Occupants
        BY <1>4, <2>1, NoWorldFacts
    <2>2. CASE a \in Occupants
        <3>1. ~(aged[a] > AbandonGrace)
            BY <2>2 DEF Overdue
        <3>2. aged[a] = 0 \/ aged[a] = world.unseen[a] + 1
            BY <1>4
        <3> HIDE DEF aged
        <3> QED BY <1>3, <3>1, <3>2, BuildingAssumption DEF Ages
    <2> QED BY <2>1, <2>2
<1>7. left \subseteq Occupants
    OBVIOUS
<1> HIDE DEF aged, left, unseen
<1>8. /\ w0 \in WorldType /\ w0.id = world.id /\ w0.slots = world.slots
      /\ w0.at = world.at /\ w0.roster = world.roster
    BY <1>2, <1>6 DEF WorldType
<1> HIDE DEF w0
<1>9. OccupantsOf(w0) = Occupants /\ Agree(w0)
    BY <1>2, <1>8 DEF OccupantsOf, Agree
<1>10. /\ w \in WorldType /\ Agree(w) /\ OccupantsOf(w) = Occupants \ left
       /\ w.id = world.id /\ w.roster = world.roster + Cardinality(left)
       /\ Cardinality(left) \in Nat /\ (Cardinality(left) = 0 => left = {})
       /\ Cardinality(Occupants \ left) = Cardinality(Occupants) - Cardinality(left)
       /\ left = {} => w.slots = world.slots
    <2>1. left \in SUBSET OccupantsOf(w0)
        BY <1>7, <1>9
    <2> HIDE DEF w
    <2>2. w = Release(w0, left)
        BY DEF w
    <2>3. w0 \in WorldType /\ Agree(w0)
        BY <1>8, <1>9
    <2>4. /\ w \in WorldType /\ Agree(w)
          /\ OccupantsOf(w) = OccupantsOf(w0) \ left
          /\ w.id = w0.id
          /\ w.roster = w0.roster + Cardinality(left)
        BY <2>1, <2>2, <2>3, ReleaseFacts
    <2>5. /\ Cardinality(left) \in Nat /\ (Cardinality(left) = 0 => left = {})
          /\ Cardinality(OccupantsOf(w0) \ left) = Cardinality(OccupantsOf(w0)) - Cardinality(left)
        BY <2>1, <2>3, ReleaseFacts
    <2>6. left = {} => w.slots = w0.slots
        BY <2>1, <2>2, <2>3, ReleaseFacts
    <2> QED BY <1>8, <1>9, <2>4, <2>5, <2>6
<1> HIDE DEF w
<1>11. w.roster \in Nat /\ w.slots \in SlotTable
    BY <1>10 DEF WorldType
<1>12. publishedRoster' = w.roster
    BY <1>1
<1>13. served \subseteq Conns /\ served \subseteq loop.conns
    BY ListsTyped
<1>14. Directory(due, served) \subseteq served
    BY DEF Directory
<1>15. ASSUME NEW c \in served, c \notin Directory(due, served)
       PROVE  /\ Reads(c) => Named(c, world.slots)
              /\ w.slots = world.slots
    <2>1. c \in boarded /\ w.roster = publishedRoster
        BY <1>15 DEF Directory
    <2>2. /\ publishedRoster <= world.roster
        BY <1>2 DEF IInv, Versions
    <2>3. Cardinality(left) = 0
        BY <1>3, <1>10, <2>1, <2>2
    <2>4. world.roster = publishedRoster
        BY <1>3, <1>10, <2>1, <2>3
    <2>5. out.board = {}
        BY <1>1 DEF IInv, Drained
    <2> QED BY <1>1, <1>10, <2>1, <2>3, <2>4, <2>5 DEF IInv, Directories
<1>16. out' \in [slots : SlotTable, board : SUBSET Conns, snap : SUBSET Conns]
    BY <1>1, <1>11, <1>13, <1>14
<1> HIDE DEF due
<1>17. out'.slots = w.slots /\ out'.board = Directory(due, served) /\ out'.snap = served
    BY <1>1
<1>18. Types'
    BY <1>1, <1>13, <1>16 DEF IInv, Types, Counts, Boarded, LinksTyped, AnswersTyped,
                              ClientsTyped, LoopTyped, OutTyped
<1>19. Known' /\ Drained' /\ Fresh'
    BY <1>1, <1>13, <1>17 DEF IInv, Known, Drained, Fresh
<1>20. \A c \in Conns : Admitted(c) /\ AccountOf[c] \in Occupants =>
           AccountOf[c] \in OccupantsOf(w)
    BY <1>5, <1>10
<1>21. /\ count'.joins = count.joins /\ count'.worlds = count.worlds
       /\ count'.purges = count.purges /\ count.joins \in Nat /\ count.worlds \in Nat
    BY <1>1 DEF IInv, Types, Counts
<1>22. /\ world.roster + Cardinality(Occupants) <= 2 * count.joins
       /\ Cardinality(Occupants) \in Nat
    BY <1>2, FiniteOccupants DEF IInv, Versions
<1>23. w.roster + Cardinality(Occupants \ left) <= 2 * count.joins /\ w.roster <= 2 * count.joins
       /\ Unpublished <= w.roster
    <2>1. Cardinality(Occupants \ left) \in Nat
        BY <1>10, FiniteOccupants
    <2> QED BY <1>3, <1>10, <1>11, <1>21, <1>22, <2>1 DEF Unpublished
<1>24. Snapshots'
    <2> SUFFICES ASSUME NEW c \in served, c \notin Directory(due, served), Reads(c)'
                 PROVE  Named(c, out.slots)'
        BY <1>17 DEF Snapshots
    <2>1. Reads(c)
        BY <1>1 DEF Reads
    <2> QED BY <1>1, <1>15, <1>17, <2>1 DEF Named
<1>25. CASE OccupantsOf(w) = {}
    <2>1. world' = NoWorld /\ Occupants' = {}
        BY <1>1, <1>25, NoWorldFacts DEF Occupants
    <2>2. Tables'
        BY <1>21, <2>1, NoWorldFacts DEF Tables, NoBuilding
    <2>3. Versions'
        BY <1>11, <1>12, <1>21, <1>23, <2>1, NoWorldFacts, FS_EmptySet DEF Versions
    <2>4. Directories' /\ Levels'
        BY <2>1 DEF Directories, Levels
    <2>5. Home'
        BY <1>1, <1>20, <1>21, <1>25 DEF IInv, Home, Admitted
    <2> QED BY <1>18, <1>19, <1>20, <1>24, <1>25, <2>2, <2>3, <2>4, <2>5 DEF IInv
<1>26. CASE OccupantsOf(w) # {}
    <2>1. world' = w /\ Occupants' = OccupantsOf(w)
        BY <1>1, <1>26 DEF Occupants
    <2>2. Tables'
        BY <1>2, <1>10, <1>21, <2>1 DEF Tables
    <2>3. Versions'
        BY <1>10, <1>11, <1>12, <1>21, <1>23, <2>1 DEF Versions
    <2>4. Directories'
        <3> SUFFICES ASSUME NEW c \in served
                     PROVE  /\ c \in Directory(due, served) => out'.slots = world'.slots
                            /\ c \notin Directory(due, served) =>
                                   (Reads(c)' => Named(c, world.slots)')
            BY <1>1, <1>17 DEF Directories
        <3>1. Reads(c)' => Reads(c)
            BY <1>1 DEF Reads
        <3> QED BY <1>1, <1>15, <1>17, <2>1, <3>1 DEF Named
    <2>5. Home'
        BY <1>1, <1>20, <1>21, <2>1 DEF IInv, Home, Admitted
    <2>6. Levels'
        BY <1>1, <1>10, <1>21, <2>1 DEF IInv, Levels, Admitted, OneTab, Level
    <2> QED BY <1>18, <1>19, <1>20, <1>24, <2>1, <2>2, <2>3, <2>4, <2>5, <2>6 DEF IInv
<1> QED BY <1>25, <1>26

(* Every step keeps the invariant. *)
LEMMA NextKeeps == IInv /\ [Next]_vars => IInv'
<1> SUFFICES ASSUME IInv, [Next]_vars PROVE IInv'
    OBVIOUS
<1>1. CASE ConnNext
    BY <1>1, FetchKeeps, SocketKeeps, HelloRefusedKeeps, HelloJoinsKeeps, AnswerKeeps, AdoptKeeps
    DEF ConnNext
<1>2. CASE LoopNext
    BY <1>2, TickKeeps, StepEmptyKeeps, PublishBoardKeeps, PublishedKeeps, StepOccupiedKeeps
    DEF LoopNext
<1>3. CASE \E a \in Accounts : PurgeAccount(a)
    BY <1>3, PurgeKeeps
<1>4. CASE UNCHANGED vars
    <2>1. UNCHANGED <<world, count, boarded, publishedRoster, link, greeting, client, loop, out>>
        BY <1>4 DEF vars, service
    <2>2. Counts' /\ Tables' /\ Versions' /\ Occupants' = Occupants
        BY <2>1, BuildingKept
    <2>3. Types' /\ Known' /\ Drained'
        BY <2>1, <2>2 DEF IInv, Types, Boarded, LinksTyped, AnswersTyped, ClientsTyped,
                          LoopTyped, OutTyped, Known, Drained
    <2>4. Snapshots' /\ Directories'
        BY <2>1, <2>2 DEF IInv, Snapshots, Directories, Reads, Named
    <2>5. Fresh' /\ Home' /\ Levels'
        BY <2>1, <2>2 DEF IInv, Fresh, Home, Levels, Admitted, OneTab, Level
    <2> QED BY <2>2, <2>3, <2>4, <2>5 DEF IInv
<1> QED BY <1>1, <1>2, <1>3, <1>4 DEF Next

(***************************************************************************)
(* The inductive invariant of the building, its roster and its clients.    *)
(***************************************************************************)
THEOREM Invariance == Spec => []IInv
BY InitIInv, NextKeeps, PTL DEF Spec

(* The types of Building, from those of the invariant. *)
LEMMA Typed == IInv => TypeOK
<1> SUFFICES ASSUME IInv PROVE TypeOK
    OBVIOUS
<1>1. /\ count \in [worlds : Nat, joins : Nat, purges : Nat]
      /\ count.worlds <= MaxWorlds /\ count.joins <= MaxJoins /\ count.purges <= MaxPurges
      /\ world \in WorldType /\ world.id <= count.worlds
    BY DEF IInv, Types, Counts, Tables
<1>2. /\ count.worlds \in Nat /\ count.joins \in Nat /\ count.purges \in Nat
      /\ world.id \in Nat /\ world.roster \in Nat
    BY <1>1 DEF WorldType
<1>3. /\ world.roster + Cardinality(Occupants) <= 2 * count.joins
      /\ publishedRoster \in Int
      /\ Unpublished <= publishedRoster /\ publishedRoster <= 2 * count.joins
      /\ Cardinality(Occupants) \in Nat
    BY <1>1, FiniteOccupants DEF IInv, Tables, Versions, Occupants
<1>4. world.id \in 0..MaxWorlds /\ world.roster \in 0..(2 * MaxJoins)
    BY <1>1, <1>2, <1>3, BuildingAssumption
<1>5. publishedRoster \in Unpublished..(2 * MaxJoins)
    BY <1>1, <1>2, <1>3, BuildingAssumption DEF Unpublished
<1>6. /\ count.worlds \in 0..MaxWorlds /\ count.joins \in 0..MaxJoins
      /\ count.purges \in 0..MaxPurges
    BY <1>1, <1>2, BuildingAssumption
<1>7. count \in [worlds : 0..MaxWorlds, joins : 0..MaxJoins, purges : 0..MaxPurges]
    BY <1>1, <1>6
<1>8. world \in [id : 0..MaxWorlds, slots : [Slots -> Accounts \cup {NoOne}],
                 at : [Accounts -> Slots \cup {NoSlot}],
                 unseen : [Accounts -> 0..AbandonGrace],
                 roster : 0..(2 * MaxJoins)]
    BY <1>1, <1>4 DEF WorldType, SlotTable, Ages
<1>9. /\ boarded \in SUBSET Conns
      /\ link \in [Conns -> {"none", "fetched", "open", "asked", "told", "cut", "gone"}]
      /\ loop \in [pc : {"select", "members", "publish"}, conns : SUBSET Conns]
    BY DEF IInv, Types, Boarded, LinksTyped, Links, LoopTyped
<1>10. out \in [slots : [Slots -> Accounts \cup {NoOne}], board : SUBSET Conns,
                snap : SUBSET Conns]
    BY DEF IInv, Types, OutTyped, SlotTable
<1>11. greeting \in [Conns -> [kind : {"none", "ready", "full"}, id : 0..MaxWorlds]]
    BY DEF IInv, Types, AnswersTyped, AnswerType, BuildingIds
<1>12. client \in [Conns -> [held : 0..MaxWorlds, adopting : BOOLEAN,
                             dir : [Slots -> Accounts \cup {NoOne}],
                             gap : {"none", "wiped", "lost"}]]
    BY DEF IInv, Types, ClientsTyped, ClientType, BuildingIds, SlotTable
<1> QED BY <1>5, <1>7, <1>8, <1>9, <1>10, <1>11, <1>12 DEF TypeOK

(***************************************************************************)
(* "the slot table, the occupant map and the roster version unable to      *)
(* disagree" (release), and "A SNAPSHOT NEVER NAMES A SLOT THE STANDINGS   *)
(* HAVE NOT" (boarded): for any number of connections, several of one      *)
(* account included.                                                       *)
(***************************************************************************)
THEOREM RosterAlwaysNamed == Spec => [](TypeOK /\ TablesAgree /\ SnapshotIsNamed)
<1>1. IInv => TablesAgree
    BY DEF IInv, Tables, Agree, TablesAgree, Occupants
<1>2. IInv => SnapshotIsNamed
    BY DEF IInv, Snapshots, SnapshotIsNamed, Reads, Named
<1>3. IInv => TypeOK /\ TablesAgree /\ SnapshotIsNamed
    BY <1>1, <1>2, Typed
<1> QED BY <1>3, Invariance, PTL

(***************************************************************************)
(* "nothing regenerates under anybody's feet" (Service.world): until       *)
(* somebody is purged, whoever has been let in draws the building his      *)
(* account is in, or is fetching it, through any number of connections.    *)
(***************************************************************************)
THEOREM GeometryUntilPurge == Spec => [](count.purges = 0 => GeometryIsCurrent)
<1>1. IInv => (count.purges = 0 => GeometryIsCurrent)
    BY DEF IInv, Levels, Level, Admitted, GeometryIsCurrent
<1> QED BY <1>1, Invariance, PTL

(***************************************************************************)
(* Purges included, where an account has one connection: the roster, the   *)
(* slots, the standings and the level every browser holds are those of the *)
(* one building that is open.                                              *)
(***************************************************************************)
THEOREM RosterAlwaysSound ==
    ASSUME OneTab
    PROVE  Spec => []RosterIsSound
<1>1. IInv => GeometryIsCurrent
    BY DEF IInv, Levels, Level, Admitted, GeometryIsCurrent
<1>2. IInv => TablesAgree
    BY DEF IInv, Tables, Agree, TablesAgree, Occupants
<1>3. IInv => SnapshotIsNamed
    BY DEF IInv, Snapshots, SnapshotIsNamed, Reads, Named
<1>4. IInv => RosterIsSound
    BY <1>1, <1>2, <1>3, Typed DEF RosterIsSound
<1> QED BY <1>4, Invariance, PTL

(***************************************************************************)
(* "Everybody with a connection is present, whether or not they sent       *)
(* anything" (step): a tick takes out nobody whose client has been let in  *)
(* and is still connected, for any grace.                                  *)
(***************************************************************************)
THEOREM ConnectedAlwaysStay == Spec => ConnectedStay
<1> DEFINE Stays == \A c \in Conns :
                        (link[c] = "told" /\ loop.pc = "members" /\ loop'.pc # "members"
                            /\ AccountOf[c] \in Occupants) => AccountOf[c] \in Occupants'
<1>1. ASSUME IInv, Next PROVE Stays
    <2>1. CASE ConnNext \/ \E a \in Accounts : PurgeAccount(a)
        BY <2>1 DEF ConnNext, Fetch, Open, Cut, PumpEnds, Hello, Answer, Adopt, PurgeAccount
    <2>2. CASE \E cadence \in BOOLEAN : StepOccupied(cadence)
        BY <1>1, <2>2, StepOccupiedKeeps DEF Admitted
    <2>3. CASE Tick \/ StepEmpty \/ PublishBoard \/ Published
        BY <2>3 DEF Tick, StepEmpty, PublishBoard, Published
    <2> QED BY <1>1, <2>1, <2>2, <2>3 DEF Next, LoopNext
<1>2. IInv /\ [Next]_vars => [Stays]_vars
    BY <1>1
<1> QED BY <1>2, Invariance, PTL DEF Spec, ConnectedStay

=============================================================================
