------------------------------- MODULE Office -------------------------------
(***************************************************************************)
(* The FinTech office while people are in it (office.go, boss.go,          *)
(* chaser.go): the twenty-hertz step that walks the employees, the bald    *)
(* man and Claude over the floor, decides who is caught against the world  *)
(* that person was looking at, and keeps the props, the redirect and the   *)
(* router.  Who may join, the rows and the deploys are module Shifts.      *)
(*                                                                         *)
(* An employee's queue at a step is two commands in one direction; dashes  *)
(* and the pay are left out.  So are the tempo, the two men who do not     *)
(* play, faces and speech.  A diagonal is rounded to the unit, and the     *)
(* sine that makes a drunk man sway is one of its extremes or its middle.  *)
(* Times are in steps, the round trip in quarters of a step.               *)
(***************************************************************************)
EXTENDS Floor

CONSTANTS
    Desks,
    Staff,                                      \* account ids, in their order
    PlayerSpawn, BossSpawn, ChaserSpawn,
    SpawnPoints, SpawnTries,                    \* what a spawn draws from, and how often
    SpawnFromBoss, SpawnFromEachOther,
    WalkStep, SlowStep,                         \* units in a command
    BossStep, DrunkStep,                        \* units in a step
    CatchReach, ChaserReach, PropReach,         \* the player's radius included
    CatchRewindMax, RenderDelay,                \* in quarters of a step
    Lags,                                       \* how old the tick a client reports can be
    BottleSpots, HookahSpots,
    BottleReturn, HookahReturn, DrunkFor, CloudFor, SlowFor,
    RedirectFor, RedirectCooldown, RouterFor, RouterCooldown,
    AbandonGrace,
    Inputs, InputEvery                          \* bounds on this model

TrailLen == (CatchRewindMax \div 4) + 2
Layouts == Generate(BossSpawn)

ASSUME OfficeAssumption ==
    /\ Staff \subseteq Nat \ {0}
    /\ {Desks, WalkStep, BossStep, RouterFor, InputEvery} \subseteq Nat \ {0}
    /\ {CatchRewindMax, RenderDelay, Inputs, AbandonGrace, SpawnTries, SlowStep, DrunkStep,
        BottleReturn, HookahReturn, DrunkFor, CloudFor, SlowFor, RedirectFor, RedirectCooldown,
        RouterCooldown} \subseteq Nat
    /\ CatchRewindMax % 4 = 0 /\ RouterFor <= RouterCooldown
    /\ Lags \subseteq Nat
    /\ BottleSpots \in Seq(Int \X Int) \ {<<>>} /\ HookahSpots \in Seq(Int \X Int) \ {<<>>}
    /\ {PlayerSpawn, BossSpawn, ChaserSpawn} \subseteq FixedPoints
    /\ \A at \in {PlayerSpawn, BossSpawn, ChaserSpawn} : ClampToFloor(at, BossRadius) = at
    /\ SpawnPoints \subseteq Int \X Int /\ \A at \in SpawnPoints : ClampToFloor(at, PlayerRadius) = at
    /\ 2 * Square(BossRadius - 1) < Square(SpotClear)      \* a spot's clearing holds a disc's square

VARIABLES
    plan,       \* the floor the office stands on
    occ,        \* the occupants, by account
    boss, claude,
    tick,       \* the step number: see Later
    trail,      \* ring of both men's positions
    redirect, router,
    bottles, hookahs,
    used,       \* inputs so far
    past,       \* history: where both men really were, the newest first
    onFloor     \* history: steps since the router last came back, as far as it matters

officeVars == <<plan, occ, boss, claude, tick, trail, redirect, router, bottles, hookahs, used,
          past, onFloor>>

None == 0
Still == <<0, 0>>
Ways == ToSet(FourWays)
Here == DOMAIN occ
Least(S) == CHOOSE a \in S : \A b \in S : a <= b
Down(n) == Upper(0, n - 1)

(* The ring and the rewind ask of the tick its remainder and its first steps only. *)
Later(t) == IF t = 2 * TrailLen - 1 THEN TrailLen ELSE t + 1

Ground == (0..OfficeW) \X (0..OfficeH)
Props(spots) == Seq([spot : 1..Len(spots), gone : 0..Upper(BottleReturn, HookahReturn)])

OfficeTypeOK ==
    /\ plan \in Layouts
    /\ Here \subseteq Staff /\ Cardinality(Here) <= Desks
    /\ \A a \in Here :
          /\ occ[a].pos \in Ground /\ occ[a].walk \in Ways \cup {Still}
          /\ occ[a].rtt \in 0..CatchRewindMax /\ occ[a].cloud \in 0..CloudFor
          /\ occ[a].slow \in 0..SlowFor /\ occ[a].cool \in 0..RedirectCooldown
          /\ occ[a].online \in BOOLEAN /\ occ[a].unseen \in 0..AbandonGrace
    /\ boss.pos \in Ground /\ boss.drunk \in 0..DrunkFor
    /\ claude \in Ground
    /\ tick \in 0..(2 * TrailLen - 1)
    /\ redirect.to \in Staff \cup {None} /\ redirect.left \in 0..RedirectFor
    /\ router.away \in 0..RouterFor /\ router.cool \in 0..RouterCooldown
    /\ bottles \in Props(BottleSpots) /\ hookahs \in Props(HookahSpots)
    /\ used \in 0..Inputs /\ onFloor \in 0..RouterCooldown

(* NewOffice: both men at the far wall, one prop of each kind, tick zero in the ring. *)
Men == [boss |-> BossSpawn, claude |-> ChaserSpawn]
Opened(b, c, t, ring, rd, rt, bs, hs, p, f) ==
    /\ b = [pos |-> BossSpawn, drunk |-> 0]
    /\ c = ChaserSpawn
    /\ t = 0
    /\ ring = [i \in 0..(TrailLen - 1) |-> IF i = 0 THEN Men ELSE [boss |-> <<0, 0>>, claude |-> <<0, 0>>]]
    /\ rd = [to |-> None, left |-> 0]
    /\ rt = [away |-> 0, cool |-> 0]
    /\ bs = <<[spot |-> 1, gone |-> 0]>>
    /\ hs = <<[spot |-> 1, gone |-> 0]>>
    /\ p = <<Men>>
    /\ f = RouterCooldown

OfficeInit ==
    /\ plan \in Layouts
    /\ occ = <<>> /\ used = 0
    /\ Opened(boss, claude, tick, trail, redirect, router, bottles, hookahs, past, onFloor)

(* The office the last one leaves is dropped, and the next is opened afresh. *)
Dropped ==
    /\ UNCHANGED plan
    /\ occ' = <<>>
    /\ Opened(boss', claude', tick', trail', redirect', router', bottles', hookahs', past', onFloor')

----------------------------------------------------------------------------
(* What a client and the service do between two steps. *)

FreeSpawn(at) ==
    /\ \A i \in 1..Len(plan) : ~InsideRect(plan[i], at, PlayerRadius)
    /\ \A a \in Here : Hypot2(occ[a].pos, at) >= Square(SpawnFromEachOther)

(* The first draw far enough from him, else the farthest legal one, else the catalogue's. *)
SpawnPoint(draws) ==
    LET legal == {i \in DOMAIN draws : FreeSpawn(draws[i])}
        gap(i) == Hypot2(boss.pos, draws[i])
        far   == {i \in legal : gap(i) >= Square(SpawnFromBoss)}
    IN  CASE far # {} -> draws[Least(far)]
          [] far = {} /\ legal # {} -> draws[Least({i \in legal : \A j \in legal : gap(i) >= gap(j)})]
          [] legal = {} -> PlayerSpawn

(* The bounds: so many inputs, none of them between two steps that are not so far apart. *)
Spend == used < Inputs /\ tick % InputEvery = 0 /\ used' = used + 1

(* StartShift: a second shift and a fourth person are refused. *)
Joins(a) ==
    /\ Spend
    /\ a \notin Here
    /\ Cardinality(Here) < Desks
    /\ \E draws \in [1..SpawnTries -> SpawnPoints] :
          occ' = [b \in Here \cup {a} |->
                    IF b \in Here THEN occ[b]
                    ELSE [pos |-> SpawnPoint(draws), walk |-> Still, rtt |-> 0, cloud |-> 0,
                          slow |-> 0, cool |-> 0, online |-> TRUE, unseen |-> 0]]
    /\ UNCHANGED <<plan, boss, claude, tick, trail, redirect, router, bottles, hookahs, past, onFloor>>

(* Mutant of Sample: the client's word has no ceiling. *)
SampleUncapped(lag) == 4 * lag

(* A round trip, from the age of the tick the frame says its sender has drawn. *)
Sample(lag) == Lower(4 * lag, CatchRewindMax)

(***************************************************************************)
(* Enqueue: the round trip is smoothed, and a command waits for the step.  *)
(* NoLag is a frame that names no tick, or one that has not been yet.      *)
(***************************************************************************)
NoLag == -1

Enqueue(a, lag, way) ==
    /\ Spend
    /\ a \in Here /\ occ[a].online
    /\ lag < tick
    /\ occ' = [occ EXCEPT
            ![a].rtt = CASE lag = NoLag -> @
                         [] lag # NoLag /\ @ = 0 -> Sample(lag)
                         [] OTHER -> (@ * 3 + Sample(lag)) \div 4,
            ![a].walk = IF way = Still THEN @ ELSE way,
            ![a].unseen = 0]
    /\ UNCHANGED <<plan, boss, claude, tick, trail, redirect, router, bottles, hookahs, past, onFloor>>

(* Redirect: refused on cooldown, at himself, and at somebody who is not there. *)
Redirect(a, b) ==
    /\ Spend
    /\ a \in Here /\ b \in Here \ {a}
    /\ occ[a].cool = 0
    /\ redirect' = [to |-> b, left |-> RedirectFor]
    /\ occ' = [occ EXCEPT ![a].cool = RedirectCooldown]
    /\ UNCHANGED <<plan, boss, claude, tick, trail, router, bottles, hookahs, past, onFloor>>

(* Mutant of RouterDown: only the absence is looked at. *)
RouterDownAgain(a) ==
    /\ Spend
    /\ a \in Here
    /\ router.away = 0
    /\ router' = [away |-> RouterFor, cool |-> RouterCooldown]
    /\ UNCHANGED <<plan, occ, boss, claude, tick, trail, redirect, bottles, hookahs, past, onFloor>>

(* RouterDown: the cooldown is the office's, not the caller's. *)
RouterDown(a) ==
    /\ Spend
    /\ a \in Here
    /\ router.cool = 0 /\ router.away = 0
    /\ router' = [away |-> RouterFor, cool |-> RouterCooldown]
    /\ UNCHANGED <<plan, occ, boss, claude, tick, trail, redirect, bottles, hookahs, past, onFloor>>

(* Leave, which may leave nobody. *)
Leave(a) ==
    /\ Spend
    /\ a \in Here
    /\ IF Here = {a}
       THEN Dropped
       ELSE /\ occ' = [b \in Here \ {a} |-> occ[b]]
            /\ UNCHANGED <<plan, boss, claude, tick, trail, redirect, router, bottles, hookahs,
                           past, onFloor>>

(* The last socket of an account goes: Seen is no longer told of it. *)
GoesQuiet(a) ==
    /\ Spend
    /\ a \in Here /\ occ[a].online
    /\ occ' = [occ EXCEPT ![a].online = FALSE]
    /\ UNCHANGED <<plan, boss, claude, tick, trail, redirect, router, bottles, hookahs, past, onFloor>>

----------------------------------------------------------------------------
(* The men's way round the furniture. *)

(* Tables, so that each grid and each fill is made once. *)
NavOf == <<>> @@ [l \in Layouts |-> NavGridFor(l)]
Fields == <<>> @@ [lc \in Layouts \X Cells |->
                    LET start == NavStartCell(NavOf[lc[1]], lc[2])
                    IN  IF start = {} THEN <<>> ELSE Flood(NavOf[lc[1]], CHOOSE c \in start : TRUE)]

(* Mutant of NavAimAt: he walks at you, as he did before there was a grid. *)
NavAimStraight(from, to) == to

(* The target when nothing is in the way, else the next cell of a shortest way to it. *)
NavAimAt(from, to) ==
    LET field == Fields[<<plan, NavCellOf(to)>>]
        here  == NavCellOf(from)
        ways  == {i \in 1..4 : /\ Beside(here, FourWays[i]) \in DOMAIN field
                               /\ field[Beside(here, FourWays[i])] < field[here]}
    IN  CASE \/ ClearLine(plan, from, to, BossRadius)
             \/ here = NavCellOf(to)
             \/ here \notin DOMAIN field -> to
          [] OTHER -> IF ways = {} THEN to ELSE NavCentre(Beside(here, FourWays[Least(ways)]))

(* The whole units nearest to step * v / dist, where dist2 is the square of dist. *)
Part(v, dist2, step) ==
    LET ks == {k \in 1..step : Square(2 * k - 1) * dist2 <= 4 * Square(step) * Square(v)}
    IN  IF v < 0 THEN -Cardinality(ks) ELSE Cardinality(ks)

(* One step from p towards head, swaying to one side or not at all. *)
Toward(p, head, step, sway) ==
    LET dx == head[1] - p[1]
        dy == head[2] - p[2]
        d2 == Hypot2(p, head)
        turn(u, v) == IF sway = 0 THEN u ELSE (9 * u - 18 * sway * v) \div 20
    IN  IF d2 <= Square(step) THEN head
        ELSE <<p[1] + Part(turn(dx, dy), d2, step), p[2] + Part(turn(dy, -dx), d2, step)>>

(* nearest: the first of the closest, in account order. *)
NearestOf(p, at, targets) ==
    at[Least({a \in targets : \A b \in targets : Hypot2(at[a], p) <= Hypot2(at[b], p)})]

(* StepBoss: at the nearest target, or home; a drink slows him, and sways him to the last step. *)
StepBoss(b, at, targets) ==
    LET aim  == IF targets = {} THEN BossSpawn ELSE NearestOf(b.pos, at, targets)
        step == IF b.drunk > 0 THEN DrunkStep ELSE BossStep
    IN  {[pos |-> Resolve(plan, Toward(b.pos, NavAimAt(b.pos, aim), step, sway), BossRadius),
          drunk |-> Down(b.drunk)] : sway \in IF Down(b.drunk) > 0 THEN {-1, 0, 1} ELSE {0}}

(* StepChaser: with nobody to chase he stands where he is. *)
StepChaser(p, at, targets) ==
    IF targets = {} THEN p
    ELSE Resolve(plan, Toward(p, NavAimAt(p, NearestOf(p, at, targets)), BossStep, 0), BossRadius)

(* yieldFrom: out along the line between them, along x when there is none. *)
YieldFrom(p, other, gap) ==
    LET d2 == Hypot2(p, other)
    IN  CASE d2 >= Square(gap) -> p
          [] d2 = 0 -> <<other[1] + gap, other[2]>>
          [] OTHER -> <<other[1] + Part(p[1] - other[1], d2, gap),
                        other[2] + Part(p[2] - other[2], d2, gap)>>

(* Separate: Claude gives way, to the bald man first and the employees after him, in order. *)
Separate(p, bossPos, at) ==
    LET n == Cardinality(DOMAIN at)
        after[i \in 0..n] ==
            IF i = 0 THEN [pos |-> YieldFrom(p, bossPos, 2 * BossRadius), others |-> DOMAIN at]
            ELSE LET before == after[i - 1]
                     a == Least(before.others)
                 IN  [pos |-> YieldFrom(before.pos, at[a], PlayerRadius + BossRadius),
                      others |-> before.others \ {a}]
    IN  Resolve(plan, after[n].pos, BossRadius)

----------------------------------------------------------------------------
(* The props. *)

(* Mutant of DrawSpot: it looks at its own last place only. *)
DrawSpotAnywhere(spots, siblings, avoid) == (1..Len(spots)) \ {avoid}

(* Where no sibling is, and not where this one just was, as long as there is such a place. *)
DrawSpot(spots, siblings, avoid) ==
    LET open == (1..Len(spots)) \ ({s.spot : s \in ToSet(siblings)} \ {avoid})
    IN  CASE open \ {avoid} # {} -> open \ {avoid}
          [] open # {} /\ open \ {avoid} = {} -> open
          [] OTHER -> {Between(avoid, 1, Len(spots))}

Grown(props, spots, want) ==
    IF Len(props) >= want THEN {props}
    ELSE {Append(props, [spot |-> s, gone |-> 0]) : s \in DrawSpot(spots, props, 0)}

(* Mutant of Shrunk: the spare one is taken off the floor. *)
ShrunkAtOnce(props, want) ==
    IF Len(props) <= want THEN props ELSE SubSeq(props, 1, want)

Shrunk(props, want) ==
    LET away == {i \in 1..Len(props) : props[i].gone > 0}
    IN  IF Len(props) <= want \/ away = {} THEN props ELSE RemoveAt(props, Least(away))

(* Up to one per person at once; down only by what is away. *)
ReconcileProps(props, spots, want) ==
    LET n == Lower(want, Len(spots))
        up[i \in 0..Desks] ==
            IF i = 0 THEN {props} ELSE UNION {Grown(p, spots, n) : p \in up[i - 1]}
        down[i \in 0..Desks] ==
            IF i = 0 THEN up[Desks] ELSE {Shrunk(p, n) : p \in down[i - 1]}
    IN  IF Len(props) = n THEN {props} ELSE down[Desks]

(* stepProp: counted down and put somewhere, or taken by the first within reach. *)
StepProp(o, i, spots, back, at) ==
    LET p == o.props[i]
        near == {a \in DOMAIN at : Within(at[a], spots[p.spot], PropReach)}
    IN  CASE p.gone > 1 -> {[o EXCEPT !.props[i].gone = @ - 1]}
          [] p.gone = 1 -> {[o EXCEPT !.props[i] = [spot |-> s, gone |-> 0]] :
                                s \in DrawSpot(spots, o.props, p.spot)}
          [] p.gone = 0 -> IF near = {} THEN {o}
                           ELSE {[props |-> [o.props EXCEPT ![i].gone = back],
                                  takers |-> o.takers \cup {Least(near)}]}

StepProps(props, spots, back, at) ==
    LET stepped[i \in 0..Len(props)] ==
            IF i = 0 THEN {[props |-> props, takers |-> {}]}
            ELSE UNION {StepProp(o, i, spots, back, at) : o \in stepped[i - 1]}
    IN  stepped[Len(props)]

----------------------------------------------------------------------------
(* One step of the office. *)

Walked(p, way, step) == Resolve(plan, <<p[1] + way[1] * step, p[2] + way[2] * step>>, PlayerRadius)

(* What is left of an occupant's two commands after Step: where they took him. *)
StepPlayer(o) ==
    LET slow == Down(o.slow)
        step == IF slow > 0 THEN SlowStep ELSE WalkStep
    IN  [o EXCEPT !.pos = Walked(Walked(@, o.walk, step), o.walk, step),
                  !.walk = Still, !.slow = slow]

(* Mutant of Rewind: the age of the office is not looked at. *)
RewindUnaged(rtt, t) == (Lower(rtt + RenderDelay, CatchRewindMax) + 2) \div 4

(* How many steps behind the office this occupant's screen is. *)
Rewind(rtt, t) ==
    Lower(Lower((Lower(rtt + RenderDelay, CatchRewindMax) + 2) \div 4, TrailLen - 1), t)

SeenBy(rtt, t, ring) == ring[(t - Rewind(rtt, t)) % TrailLen]

(* The override, while the one he was pointed at is there. *)
Pointed == redirect.left > 1 /\ redirect.to \in Here

Timed(o) == [o EXCEPT !.cool = Down(@), !.cloud = Down(@),
                      !.unseen = IF o.online THEN 0 ELSE @ + 1]

(* The end of the step: who is landed on, caught, or gone too long. *)
Landings(os, t, ring, away) ==
    [a \in DOMAIN os |->
        IF away = 0 /\ os[a].cloud = 0 /\ Within(SeenBy(os[a].rtt, t, ring).claude, os[a].pos, ChaserReach)
        THEN [os[a] EXCEPT !.slow = SlowFor] ELSE os[a]]

Ended(o, t, ring) ==
    \/ o.cloud = 0 /\ Within(SeenBy(o.rtt, t, ring).boss, o.pos, CatchReach)
    \/ o.unseen > AbandonGrace

(* The timers, the redirect and the router, which are the office's. *)
Clocks ==
    /\ redirect' = IF Pointed THEN [redirect EXCEPT !.left = @ - 1] ELSE [to |-> None, left |-> 0]
    /\ router' = [away |-> Down(router.away), cool |-> Down(router.cool)]
    /\ onFloor' = IF router.away > 1 THEN 0 ELSE Lower(RouterCooldown, onFloor + 1)

(* The trail and the endings; an office nobody is left in is dropped. *)
Settle(os, nb, nc, ob, oh) ==
    LET men  == [boss |-> nb.pos, claude |-> nc]
        ring == [trail EXCEPT ![Later(tick) % TrailLen] = men]
        left == {a \in DOMAIN os : ~Ended(os[a], Later(tick), ring)}
        hit  == Landings(os, Later(tick), ring, Down(router.away))
    IN  IF left = {}
        THEN Dropped
        ELSE /\ boss' = nb
             /\ claude' = nc
             /\ tick' = Later(tick)
             /\ trail' = ring
             /\ past' = SubSeq(<<men>> \o past, 1, Lower(TrailLen, Len(past) + 1))
             /\ occ' = [a \in left |-> hit[a]]
             /\ bottles' = ob.props
             /\ hookahs' = oh.props
             /\ Clocks
             /\ UNCHANGED plan

(* The men, the bald one first. *)
Chase(os, b, targets, ob, oh) ==
    LET at   == [a \in DOMAIN os |-> os[a].pos]
        away == Down(router.away)
        door == IF router.away = 1 THEN ChaserSpawn ELSE claude
    IN
    \E nb \in StepBoss(b, at, targets) :
        Settle(os, nb, IF away > 0 THEN door ELSE Separate(StepChaser(door, at, targets), nb.pos, at), ob, oh)

(* Whom the two men walk at.  A cloud and a redirect are both a shorter list. *)
Targets == IF Pointed THEN {redirect.to} ELSE {a \in Here : occ[a].cloud = 0}

(***************************************************************************)
(* A step of the service: Advance, in its order: the employees, the        *)
(* targets, the redirect, the timers, the props, the two men, the trail,   *)
(* the endings.                                                            *)
(***************************************************************************)
Advance ==
    LET moved == [a \in Here |-> StepPlayer(occ[a])]
        at    == [a \in Here |-> moved[a].pos]
        want  == Cardinality(Here)
    IN
    /\ Here # {}
    /\ \E bs \in ReconcileProps(bottles, BottleSpots, want),
          hs \in ReconcileProps(hookahs, HookahSpots, want) :
       \E ob \in StepProps(bs, BottleSpots, BottleReturn, at),
          oh \in StepProps(hs, HookahSpots, HookahReturn, at) :
          Chase([a \in Here |-> IF a \in oh.takers THEN [Timed(moved[a]) EXCEPT !.cloud = CloudFor]
                                                   ELSE Timed(moved[a])],
                [boss EXCEPT !.drunk = IF ob.takers # {} THEN DrunkFor ELSE @],
                Targets, ob, oh)
    /\ UNCHANGED used

----------------------------------------------------------------------------
ClientNext ==
    \E a \in Staff :
        \/ Joins(a) \/ Leave(a) \/ GoesQuiet(a) \/ RouterDown(a)
        \/ \E b \in Staff : Redirect(a, b)
        \/ \E way \in Ways : Enqueue(a, NoLag, way)
        \/ \E lag \in Lags : Enqueue(a, lag, Still)

OfficeNext == ClientNext \/ Advance

OfficeSpec == OfficeInit /\ [][OfficeNext]_officeVars

(***************************************************************************)
(* The service's ticker never stops; nothing is assumed of the clients.    *)
(* This is WF_officeVars(Advance) written out: Advance is enabled while    *)
(* anybody is here, and it is the step that spends no input.               *)
(***************************************************************************)
OfficeFairSpec == OfficeSpec /\ ([]<>(Here = {}) \/ []<><<used' = used>>_officeVars)

----------------------------------------------------------------------------
(***************************************************************************)
(* "ONE PASS IS ENOUGH, and it is a layout rule that makes it so" (Step):  *)
(* on every floor the generator can build, nobody ends a step inside the   *)
(* furniture or off the floor, whoever was pushed by whom.                 *)
(***************************************************************************)
BodiesAreClear ==
    /\ \A a \in Here : Clear(plan, occ[a].pos, PlayerRadius)
    /\ Clear(plan, boss.pos, BossRadius)
    /\ Clear(plan, claude, BossRadius)

(***************************************************************************)
(* The ring answers a rewind with where both men really were that many     *)
(* steps ago, or at the opening of an office that is younger than that     *)
(* (seenBy), with the router down and after Claude has come back too.      *)
(***************************************************************************)
RewindIsTrue ==
    \A r \in {occ[a].rtt : a \in Here} :
        LET back == (Lower(r + RenderDelay, CatchRewindMax) + 2) \div 4
        IN  SeenBy(r, tick, trail) = past[Lower(back + 1, Len(past))]

(***************************************************************************)
(* "two bottles on one tile is one bottle drawn twice" (drawSpot): through *)
(* any history of joining, leaving, taking and coming back, no two props   *)
(* of a kind share a spot.                                                 *)
(***************************************************************************)
PropsApart ==
    \A props \in {bottles, hookahs} :
        \A i, j \in 1..Len(props) : i # j => props[i].spot # props[j].spot

(***************************************************************************)
(* "a prop already standing on the floor must never vanish from under      *)
(* whoever is walking towards it" (reconcileProps): while the office is    *)
(* open, a spot is emptied only by somebody within reach of it.            *)
(***************************************************************************)
Standing(props) == {p.spot : p \in {q \in ToSet(props) : q.gone = 0}}

Emptied(props, after, spots) ==
    \A s \in Standing(props) \ Standing(after) :
        \E a \in Here : Within(StepPlayer(occ[a]).pos, spots[s], PropReach)

StandingPropStays ==
    [][(Here # {} /\ Here' # {}) => /\ Emptied(bottles, bottles', BottleSpots)
                     /\ Emptied(hookahs, hookahs', HookahSpots)]_officeVars

(***************************************************************************)
(* "THE COOLDOWN IS THE OFFICE'S, NOT THE CALLER'S" (RouterDown): whoever  *)
(* presses the button, and however many of them take turns, Claude has     *)
(* been on the floor for the whole of the wait before he goes again.       *)
(***************************************************************************)
ClaudeGetsHisTurn ==
    [][router'.away = RouterFor => onFloor > RouterCooldown - RouterFor]_officeVars

(* He cannot see the way: the line is blocked and the grid has his own cell as furniture. *)
OffGrid ==
    /\ NavCellOf(boss.pos) \notin NavOf[plan]
    /\ \A a \in Here : ~ClearLine(plan, boss.pos, occ[a].pos, BossRadius)

(***************************************************************************)
(* "What it stops being is a place he never arrives at at all"             *)
(* (navigate.go): nobody stands exposed in the office for ever while the   *)
(* bald man is sober and on his grid, wherever the furniture is.           *)
(***************************************************************************)
StandingIsReached ==
    \A a \in Staff :
        ~<>[](a \in Here /\ occ[a].cloud = 0 /\ boss.drunk = 0 /\ ~OffGrid)

(***************************************************************************)
(* "the unreachable case is a guard rather than a state" (navAimAt): the   *)
(* line is never blocked with him in a cell the flood fill cannot reach.   *)
(* It does not hold: a body flush with a face that is not on the grid's    *)
(* lines stands in a cell whose middle is inside the furniture.            *)
(***************************************************************************)
NoPathIsAGuard == ~(Here # {} /\ OffGrid)

(***************************************************************************)
(* After every step bodies are clear of the furniture, props are apart,    *)
(* and the ring of the past is true.                                       *)
(***************************************************************************)
StepIsSound == OfficeTypeOK /\ BodiesAreClear /\ PropsApart /\ RewindIsTrue

(***************************************************************************)
(* Nobody is cheated by the others: of the prop he is walking to, nor by   *)
(* the router of the chaser the office is entitled to.                     *)
(***************************************************************************)
NobodyIsCheated == StandingPropStays /\ ClaudeGetsHisTurn

=============================================================================
