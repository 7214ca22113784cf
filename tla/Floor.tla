-------------------------------- MODULE Floor --------------------------------
(***************************************************************************)
(* The floor of the FinTech office (src/internal/gamefintech): which       *)
(* arrangements of furniture are playable (validate.go, layout.go), how an *)
(* office is generated (generate.go), how a body is kept out of the        *)
(* furniture (sim.go) and how a pursuer finds his way round it             *)
(* (navigate.go).  Everything here is pure.                                *)
(*                                                                         *)
(* Lengths are whole units, 5 cm in the configuration that is checked.  A  *)
(* layout is the sequence of its rectangles: the order is part of it,      *)
(* kinds, windows and the content hash are not.  A draw is any of the      *)
(* values it can return.                                                   *)
(***************************************************************************)
EXTENDS Integers, FiniteSets, SequencesExt

CONSTANTS
    OfficeW, OfficeH,
    PlayerRadius, BossRadius,
    NavCell,            \* side of a cell of the navigation grid
    MinGap, SpotClear,
    PlaceStep,          \* the lattice a generated object stands on
    Sides,              \* the sizes a generated object can have
    Wishes,             \* length of the wish list
    MinSolids,          \* fewer make no office: ErrThinFloor
    FixedPoints         \* the spawns and the spots of the catalogue

ASSUME FloorAssumption ==
    /\ {OfficeW, OfficeH, PlayerRadius, BossRadius, NavCell, PlaceStep} \subseteq Nat \ {0}
    /\ {MinGap, SpotClear, Wishes, MinSolids} \subseteq Nat
    /\ Sides \subseteq Nat \X Nat /\ FixedPoints \subseteq Int \X Int
    /\ PlayerRadius <= BossRadius /\ 2 * BossRadius <= MinGap       \* ResolverFloor
    /\ 2 * MinGap <= OfficeW /\ 2 * MinGap <= OfficeH               \* the placement band
    /\ OfficeW % NavCell = 0 /\ OfficeH % NavCell = 0

Lower(a, b) == IF a < b THEN a ELSE b
Upper(a, b) == IF a < b THEN b ELSE a
Between(v, lo, hi) == Upper(lo, Lower(hi, v))
Square(v) == v * v
Hypot2(p, q) == Square(p[1] - q[1]) + Square(p[2] - q[2])
Within(p, q, reach) == Hypot2(p, q) <= Square(reach)

----------------------------------------------------------------------------
(* Collision. *)

InsideRect(d, p, r) ==
    /\ d.x - r < p[1] /\ p[1] < d.x + d.w + r
    /\ d.y - r < p[2] /\ p[2] < d.y + d.h + r

ClampToFloor(p, r) == <<Between(p[1], r, OfficeW - r), Between(p[2], r, OfficeH - r)>>

(* Mutant of PushOut: the furniture is as large as it looks. *)
PushOutCentre(d, p, r) ==
    IF ~InsideRect(d, p, 0) THEN p ELSE <<d.x - r, p[2]>>

(* Out along the axis of least penetration, ties in a fixed order. *)
PushOut(d, p, r) ==
    LET left  == p[1] - (d.x - r)
        right == d.x + d.w + r - p[1]
        up    == p[2] - (d.y - r)
        down  == d.y + d.h + r - p[2]
        least == Lower(Lower(left, right), Lower(up, down))
    IN  CASE ~InsideRect(d, p, r) -> p
          [] OTHER -> CASE least = left  -> <<d.x - r, p[2]>>
                        [] least # left /\ least = right -> <<d.x + d.w + r, p[2]>>
                        [] least \notin {left, right} /\ least = up -> <<p[1], d.y - r>>
                        [] OTHER -> <<p[1], d.y + d.h + r>>

(* Every move: clamped to the floor, then out of each solid once, in order. *)
PushedOut(l, p, r) ==
    LET after[i \in 0..Len(l)] == IF i = 0 THEN p ELSE PushOut(l[i], after[i - 1], r)
    IN  after[Len(l)]

Resolve(l, p, r) == PushedOut(l, ClampToFloor(p, r), r)

Clear(l, p, r) ==
    /\ ClampToFloor(p, r) = p
    /\ \A i \in 1..Len(l) : ~InsideRect(l[i], p, r)

(* Does the segment meet the rectangle grown by r?  Touching it counts. *)
SegmentHitsRect(a, b, d, r) ==
    LET x0 == d.x - r
        y0 == d.y - r
        x1 == d.x + d.w + r
        y1 == d.y + d.h + r
        side(x, y) == (b[1] - a[1]) * (y - a[2]) - (b[2] - a[2]) * (x - a[1])
        sides == {side(x0, y0), side(x0, y1), side(x1, y0), side(x1, y1)}
    IN  /\ Lower(a[1], b[1]) <= x1 /\ x0 <= Upper(a[1], b[1])
        /\ Lower(a[2], b[2]) <= y1 /\ y0 <= Upper(a[2], b[2])
        /\ ~(\A s \in sides : s > 0) /\ ~(\A s \in sides : s < 0)

ClearLine(l, a, b, r) == \A i \in 1..Len(l) : ~SegmentHitsRect(a, b, l[i], r)

----------------------------------------------------------------------------
(* Navigation. *)

Cells == (0..(OfficeW \div NavCell) - 1) \X (0..(OfficeH \div NavCell) - 1)

NavCentre(c) == <<c[1] * NavCell + NavCell \div 2, c[2] * NavCell + NavCell \div 2>>

NavCellOf(p) == <<Between(p[1] \div NavCell, 0, (OfficeW \div NavCell) - 1),
                  Between(p[2] \div NavCell, 0, (OfficeH \div NavCell) - 1)>>

(* The cells in whose middle the bald man's disc fits. *)
NavGridFor(l) == {c \in Cells : Clear(l, NavCentre(c), BossRadius)}

FourWays == << <<1, 0>>, <<-1, 0>>, <<0, 1>>, <<0, -1>> >>
Beside(c, way) == <<c[1] + way[1], c[2] + way[2]>>
Neighbours(c) == {Beside(c, FourWays[i]) : i \in 1..4}

(* The breadth-first fill, ring by ring: cell -> its distance from the first one. *)
Flood(free, start) ==
    LET dist[k \in 0..Cardinality(free)] ==
            IF k = 0 THEN start :> 0
            ELSE LET near == dist[k - 1]
                     next == {c \in free \ DOMAIN near : Neighbours(c) \cap DOMAIN near # {}}
                 IN  near @@ [c \in next |-> k]
    IN  dist[Cardinality(free)]

(* The free cell nearest to a blocked one: by rings, then rows, then columns. *)
NavNearestFree(free, c) ==
    LET ring(k) == {d \in ((c[1] - k)..(c[1] + k)) \X ((c[2] - k)..(c[2] + k)) : d \in free}
        first(S) == {d \in S : \A e \in S : d[2] < e[2] \/ (d[2] = e[2] /\ d[1] <= e[1])}
        with == {k \in 1..4 : ring(k) # {}}
    IN  UNION {first(ring(k)) : k \in {k \in with : \A j \in with : k <= j}}

(* The cell a search starts in, or none. *)
NavStartCell(free, c) == IF c \in free THEN {c} ELSE NavNearestFree(free, c)

----------------------------------------------------------------------------
(* What makes a floor playable. *)

GapX(a, b) == Upper(0, Upper(b.x - (a.x + a.w), a.x - (b.x + b.w)))
GapY(a, b) == Upper(0, Upper(b.y - (a.y + a.h), a.y - (b.y + b.h)))

(* Per axis, and not the Euclidean distance. *)
SepAxis(a, b) == Upper(GapX(a, b), GapY(a, b))

WallGap(d) == Lower(Lower(d.x, d.y), Lower(OfficeW - (d.x + d.w), OfficeH - (d.y + d.h)))

PointGap2(d, at) ==
    LET p == [x |-> at[1], y |-> at[2], w |-> 0, h |-> 0]
    IN  Square(GapX(d, p)) + Square(GapY(d, p))

(* Every free cell is reached from the bald man's spawn. *)
FloorIsOnePlace(l, bossSpawn) ==
    LET free == NavGridFor(l)
        start == NavStartCell(free, NavCellOf(bossSpawn))
    IN  \E s \in start : DOMAIN Flood(free, s) = free \cup start

(* ValidateLayout reports nothing. *)
ValidLayout(l, bossSpawn) ==
    /\ \A i \in 1..Len(l) : WallGap(l[i]) >= MinGap
    /\ \A i \in 1..Len(l), j \in 1..Len(l) : i < j => SepAxis(l[i], l[j]) >= MinGap
    /\ \A at \in FixedPoints, i \in 1..Len(l) : PointGap2(l[i], at) >= Square(SpotClear)
    /\ FloorIsOnePlace(l, bossSpawn)

(* The cheap half of it, asked of a candidate first. *)
RoomFor(l, d) ==
    /\ WallGap(d) >= MinGap
    /\ \A i \in 1..Len(l) : SepAxis(l[i], d) >= MinGap
    /\ \A at \in FixedPoints : PointGap2(d, at) >= Square(SpotClear)

(* One object, anywhere on the lattice inside the band MinGap leaves it. *)
DrawSolid ==
    UNION {{[x |-> x, y |-> y, w |-> s[1], h |-> s[2]] :
                x \in {v \in MinGap..(OfficeW - MinGap - s[1]) : (v - MinGap) % PlaceStep = 0},
                y \in {v \in MinGap..(OfficeH - MinGap - s[2]) : (v - MinGap) % PlaceStep = 0}} :
           s \in Sides}

(* A wish: an object is kept if the whole floor still validates, or finds no place. *)
Place(l, bossSpawn) ==
    {l} \cup {Append(l, d) : d \in {d \in DrawSolid : RoomFor(l, d)
                                                   /\ ValidLayout(Append(l, d), bossSpawn)}}

Generate(bossSpawn) ==
    LET placed[w \in 0..Wishes] ==
            IF w = 0 THEN {<<>>} ELSE UNION {Place(l, bossSpawn) : l \in placed[w - 1]}
    IN  {l \in placed[Wishes] : Len(l) >= MinSolids}
=============================================================================
