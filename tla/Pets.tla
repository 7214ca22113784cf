-------------------------------- MODULE Pets --------------------------------
(***************************************************************************)
(* One account's pet (src/internal/gamevanyagotchi/service.go, event.go    *)
(* and decay.go): stats that are never ticked but derived from (value,     *)
(* as_of), a death recorded by whoever looks, verbs folded over a snapshot *)
(* and written together with their events, and the place the plane draws   *)
(* him in.                                                                 *)
(*                                                                         *)
(* The account has several devices, and each of their frames and HTTP      *)
(* reads is a handler of its own: statements of one interleave with        *)
(* statements of another, and the process may die between any two.  What   *)
(* a verb contests in the world is module Objects; here the contest is won *)
(* or lost.                                                                *)
(***************************************************************************)
EXTENDS Integers, FiniteSets, TLC

CONSTANTS
    Handlers,       \* the account's handlers
    Hours,          \* how long the pet is watched
    Requests,       \* how many frames and requests arrive in that time
    Places, Default,
    Top,            \* statMax
    HpStart, BeerStart,
    Empty, Full,    \* beerEmptyAt, bladderFullAt
    Needs,          \* relieveNeedsBladder
    CounterMax

ASSUME PetsAssumption ==
    /\ {Hours, Requests} \subseteq Nat /\ Top \in Nat \ {0} /\ CounterMax \in Nat \ {0}
    /\ HpStart \in 1..Top /\ BeerStart \in 0..Top /\ Empty \in 0..Top /\ Full \in 1..Top /\ Needs \in 0..Top
    /\ Default \in Places

VARIABLES
    now,        \* the hour
    stats,      \* game_vanyagotchi_pet_stats: every value, and the as_of they share
    died,       \* game_vanyagotchi_pets.died_at
    loc,        \* game_vanyagotchi_pets.location_key
    display,    \* the display cache's location, Never before the first read
    handler,    \* the handlers
    asked,      \* frames and requests so far
    replay,     \* history: Replay, the events folded over genesis
    crossed,    \* history: a write changed the pet on the strength of a stale read
    owed,       \* history: a revival is committed and died_at not yet cleared
    misdrawn    \* history: the display was last written from a place he had left

petVars == <<now, stats, died, loc, display, handler, asked, replay, crossed, owed, misdrawn>>

Never == -1

-----------------------------------------------------------------------------
(* The catalogue: content.go, in whole hours and units *)

Stats == {"hp", "beer", "bladder", "drunk"}
Verbs == {"drink", "relieve", "revive"}

Start == [k \in Stats |-> CASE k = "hp" -> HpStart [] k = "beer" -> BeerStart [] OTHER -> 0]
MaxOf(k) == IF k = "drunk" THEN CounterMax ELSE Top
DecayPerHour == [k \in Stats |-> CASE k = "bladder" -> -1 [] k = "drunk" -> 0 [] OTHER -> 1]

(* Both drivers of hp: too little beer, and a full bladder. *)
Penalties == {"beer", "bladder"}
Holds(p, v) == IF p = "beer" THEN v <= Empty ELSE v >= Full
PenaltyRate == 1

Effects(verb) ==
    CASE verb = "drink" -> [hp |-> 1, beer |-> 1, bladder |-> 1, drunk |-> 1]
      [] verb = "relieve" -> [hp |-> 0, beer |-> 0, bladder |-> -Top, drunk |-> 0]

-----------------------------------------------------------------------------
(* Decay: decay.go.  Instants of death are in sixths of an hour, which     *)
(* every drain of one, two or three units an hour divides.                 *)

(* Mutant of Clamp: a bar may overflow. *)
ClampFloor(k, v) == IF v < 0 THEN 0 ELSE v

Clamp(k, v) == IF v < 0 THEN 0 ELSE IF v > MaxOf(k) THEN MaxOf(k) ELSE v

(* Stat.At: a driver's own trajectory. *)
At(k, s, t) == Clamp(k, s.v[k] - DecayPerHour[k] * (t - s.asof))

(* Penalty.onset, never before as_of; both drivers head for their thresholds. *)
Onset(p, s) ==
    IF Holds(p, At(p, s, s.asof)) THEN s.asof
    ELSE IF p = "beer" THEN s.asof + (s.v[p] - Empty)
    ELSE s.asof + (Full - s.v[p])

(* Mutant of AtWith: a penalty counts from the snapshot, not from its onset. *)
AtWithFromRead(k, s, t) ==
    LET on == {p \in Penalties : k = "hp" /\ Onset(p, s) < t} IN
    Clamp(k, s.v[k] - (DecayPerHour[k] + PenaltyRate * Cardinality(on)) * (t - s.asof))

(* What a penalty has taken by then. *)
Lost(p, s, t) == IF Onset(p, s) < t THEN PenaltyRate * (t - Onset(p, s)) ELSE 0

(* Stat.AtWith. *)
AtWith(k, s, t) ==
    IF t <= s.asof THEN Clamp(k, s.v[k])
    ELSE Clamp(k, s.v[k] - DecayPerHour[k] * (t - s.asof)
                    - (IF k = "hp" THEN Lost("beer", s, t) + Lost("bladder", s, t) ELSE 0))

Dead(s, t) == AtWith("hp", s, t) <= 0

(* A segment of constant drain, up to the next onset, unless the floor is *)
(* reached in it.                                                          *)
Segment(w, on) ==
    LET span == on - w.cur IN
    IF w.at # Never THEN w
    ELSE IF span > 0 /\ w.left <= w.rate * span
    THEN [w EXCEPT !.at = 6 * w.cur + (6 * w.left) \div w.rate]
    ELSE [w EXCEPT !.left = @ - w.rate * span, !.cur = on, !.rate = @ + PenaltyRate]

(* Stat.DeadAtWith: the segments between onsets, in order. *)
DeadAtWith(s) ==
    LET beer == Onset("beer", s)
        bladder == Onset("bladder", s)
        start == [cur |-> s.asof, rate |-> DecayPerHour["hp"], left |-> Clamp("hp", s.v["hp"]), at |-> Never]
        walk == IF beer <= bladder THEN Segment(Segment(start, beer), bladder)
                                   ELSE Segment(Segment(start, bladder), beer)
    IN  IF s.v["hp"] <= 0 THEN 6 * s.asof
        ELSE IF walk.at # Never THEN walk.at
        ELSE 6 * walk.cur + (6 * walk.left) \div walk.rate

-----------------------------------------------------------------------------
(* Events: event.go.  A snapshot is the values, their as_of and a death. *)

(* advance: every stat re-stamped to one instant, a death on the way noted. *)
Advance(s, t) ==
    [v |-> [k \in Stats |-> AtWith(k, s, t)],
     asof |-> t,
     died |-> IF s.died = Never /\ Dead(s, t) THEN DeadAtWith(s) ELSE s.died]

Refused == [v |-> <<>>, asof |-> Never, died |-> Never]

(* A revival resets every stat but a lifetime counter. *)
StartOver(s) == [v |-> [Start EXCEPT !["drunk"] = s.v["drunk"]], asof |-> s.asof, died |-> Never]

(* apply: decay first, then the verb, or Refused. *)
Apply(s, verb, t) ==
    LET next == Advance(s, t) IN
    IF verb = "revive" THEN StartOver(next)
    ELSE IF next.died # Never \/ (verb = "relieve" /\ next.v["bladder"] < Needs) THEN Refused
    ELSE [next EXCEPT !.v = [k \in Stats |-> Clamp(k, @[k] + Effects(verb)[k])]]

(* fold: an event that cannot be applied is skipped. *)
Fold(s, verb, t) ==
    LET next == Apply(s, verb, t) IN IF next = Refused THEN s ELSE next

(* genesis: the fold's origin. *)
Genesis == [v |-> Start, asof |-> 0, died |-> Never]

Rows(s) == [v |-> s.v, asof |-> s.asof]
Snapshot(rows, d) == [v |-> rows.v, asof |-> rows.asof, died |-> d]

-----------------------------------------------------------------------------
(* The handlers *)

Waiting == [pc |-> "idle", op |-> "state", at |-> 0, died |-> Never, loc |-> Default,
            s |-> Genesis, stale |-> FALSE, moved |-> FALSE]

Values == {v \in [Stats -> Nat] : \A k \in Stats : v[k] <= MaxOf(k)}
Instants == 0..6 * (Hours + Top)
Snapshots == [v : Values, asof : 0..Hours, died : Instants \cup {Never}]

PetsTypeOK ==
    /\ now \in 0..Hours /\ asked \in 0..Requests
    /\ stats \in [v : Values, asof : 0..now]
    /\ died \in (0..6 * now) \cup {Never}
    /\ loc \in Places /\ display \in Places \cup {Never}
    /\ \A i \in Handlers :
          /\ handler[i].pc \in {"idle", "pet", "stats", "mark", "fold", "tx", "revive", "move", "arrive"}
          /\ handler[i].op \in Verbs \cup {"state"} /\ handler[i].at \in 0..now
          /\ handler[i].died \in Instants \cup {Never} /\ handler[i].loc \in Places
          /\ handler[i].s \in Snapshots /\ handler[i].stale \in BOOLEAN /\ handler[i].moved \in BOOLEAN
    /\ replay \in Snapshots /\ {crossed, owed, misdrawn} \subseteq BOOLEAN

PetsInit ==
    /\ now = 0 /\ stats = Rows(Genesis) /\ died = Never
    /\ loc = Default /\ display = Never
    /\ handler = [i \in Handlers |-> Waiting] /\ asked = 0
    /\ replay = Genesis /\ crossed = FALSE /\ owed = FALSE /\ misdrawn = FALSE

(* A frame or a request arrives; its one instant is the tick's clock. *)
Arrives(i, op) ==
    /\ handler[i].pc = "idle" /\ asked < Requests /\ asked' = asked + 1
    /\ handler' = [handler EXCEPT ![i] = [Waiting EXCEPT !.op = op, !.pc = "pet", !.at = now]]
    /\ UNCHANGED <<now, stats, died, loc, display, replay, crossed, owed, misdrawn>>

(* handleGoto past its checks. *)
ArrivesGoto(i, l) ==
    /\ handler[i].pc = "idle" /\ asked < Requests /\ asked' = asked + 1
    /\ handler' = [handler EXCEPT ![i] = [Waiting EXCEPT !.pc = "move", !.at = now, !.loc = l]]
    /\ UNCHANGED <<now, stats, died, loc, display, replay, crossed, owed, misdrawn>>

(* EnsurePet. *)
ReadsPet(i) ==
    /\ handler[i].pc = "pet"
    /\ handler' = [handler EXCEPT ![i].pc = "stats", ![i].died = died, ![i].loc = loc,
                       ![i].stale = FALSE, ![i].moved = FALSE]
    /\ UNCHANGED <<now, stats, died, loc, display, asked, replay, crossed, owed, misdrawn>>

(* remember: the plane's copy, from the pet as it was read. *)
Remember(i) == display' = handler[i].loc /\ misdrawn' = handler[i].moved

Done(r) == IF r.op = "state" THEN Waiting ELSE [r EXCEPT !.pc = "fold"]

(* storedStats and the values derived from it; a death nobody recorded is  *)
(* about to be.                                                            *)
ReadsStats(i) ==
    /\ handler[i].pc = "stats"
    /\ LET s == Snapshot(stats, handler[i].died)
           dead == Dead(s, handler[i].at) /\ handler[i].died = Never
       IN  handler' = [handler EXCEPT ![i] = IF dead
                                          THEN [@ EXCEPT !.pc = "mark", !.s = [s EXCEPT !.died = DeadAtWith(s)]]
                                          ELSE Done(@)]
    /\ Remember(i)
    /\ UNCHANGED <<now, stats, died, loc, asked, replay, crossed, owed>>

(* The others' reads are stale once the pet changes under them. *)
Staled(i, r) == [j \in Handlers |-> IF j = i THEN r ELSE [handler[j] EXCEPT !.stale = TRUE]]

(* Mutant of MarkDied: the hour somebody looked. *)
MarkDiedNow(i) ==
    /\ handler[i].pc = "mark"
    /\ died' = IF died = Never THEN 6 * handler[i].at ELSE died
    /\ handler' = IF died = Never THEN Staled(i, Done([handler[i] EXCEPT !.died = handler[i].s.died, !.s = Genesis]))
                ELSE [handler EXCEPT ![i] = Done([@ EXCEPT !.died = @.s.died, !.s = Genesis])]
    /\ crossed' = (crossed \/ (died = Never /\ handler[i].stale))
    /\ Remember(i)
    /\ UNCHANGED <<now, stats, loc, asked, replay, owed>>

(* MarkDied: the derived instant, unless a death is already recorded.      *)
(* Whoever loses that race answers with his own instant all the same.      *)
MarkDied(i) ==
    /\ handler[i].pc = "mark"
    /\ LET r == Done([handler[i] EXCEPT !.died = handler[i].s.died, !.s = Genesis]) IN
       IF died = Never
       THEN /\ died' = handler[i].s.died
            /\ handler' = Staled(i, r)
            /\ crossed' = (crossed \/ handler[i].stale)
       ELSE handler' = [handler EXCEPT ![i] = r] /\ UNCHANGED <<died, crossed>>
    /\ Remember(i)
    /\ UNCHANGED <<now, stats, loc, asked, replay, owed>>

(* Do reads the stats again and folds the verb; dead, too far, not yet,    *)
(* the wrong place or his nerve, and nothing has been written.             *)
Folds(i) ==
    /\ handler[i].pc = "fold"
    /\ LET next == Apply(Snapshot(stats, handler[i].died), handler[i].op, handler[i].at) IN
       \/ next # Refused /\ handler' = [handler EXCEPT ![i].pc = "tx", ![i].s = next]
       \/ handler[i].op # "revive" /\ handler' = [handler EXCEPT ![i] = Waiting]
    /\ UNCHANGED <<now, stats, died, loc, display, asked, replay, crossed, owed, misdrawn>>

(* Mutant of Refuses: the stats were written before the contest was lost. *)
RefusesHalfway(i) ==
    /\ handler[i].pc = "tx"
    /\ stats' = Rows(handler[i].s)
    /\ handler' = [handler EXCEPT ![i] = Waiting]
    /\ UNCHANGED <<now, died, loc, display, asked, replay, crossed, owed, misdrawn>>

(* The contest lost, or a statement failed: the transaction rolls back. *)
Refuses(i) ==
    /\ handler[i].pc = "tx"
    /\ handler' = [handler EXCEPT ![i] = Waiting]
    /\ UNCHANGED <<now, stats, died, loc, display, asked, replay, crossed, owed, misdrawn>>

(* AppendEvents: the log is kept as what it folds to, as long as that is asked about. *)
AppendEvents(verb, t) == replay' = IF crossed' THEN Genesis ELSE Fold(replay, verb, t)

(* WriteStats and AppendEvents, committed together. *)
Commits(i) ==
    /\ handler[i].pc = "tx"
    /\ LET raised == handler[i].op = "revive" /\ handler[i].died # Never
       IN  /\ stats' = Rows(handler[i].s)
           /\ crossed' = (crossed \/ handler[i].stale)
           /\ AppendEvents(handler[i].op, handler[i].at)
           /\ owed' = (owed \/ raised)
           /\ handler' = Staled(i, [handler[i] EXCEPT !.pc = IF raised THEN "revive" ELSE "pet",
                                                !.op = "state", !.s = Genesis])
    /\ UNCHANGED <<now, died, loc, display, asked, misdrawn>>

(* Revive clears the death; a failure leaves it. *)
Revive(i) ==
    /\ handler[i].pc = "revive"
    /\ died' = Never /\ owed' = FALSE
    /\ \E l \in Places : handler' = Staled(i, [handler[i] EXCEPT !.pc = "move", !.loc = l])
    /\ UNCHANGED <<now, stats, loc, display, asked, replay, crossed, misdrawn>>

ReviveFails(i) ==
    /\ handler[i].pc = "revive"
    /\ handler' = [handler EXCEPT ![i] = Waiting]
    /\ UNCHANGED <<now, stats, died, loc, display, asked, replay, crossed, owed, misdrawn>>

(* SetLocation: the row first. *)
Moves(i) ==
    /\ handler[i].pc = "move"
    /\ loc' = handler[i].loc
    /\ handler' = [j \in Handlers |-> IF j = i THEN [handler[j] EXCEPT !.pc = "arrive", !.moved = FALSE]
                                       ELSE [handler[j] EXCEPT !.moved = TRUE]]
    /\ UNCHANGED <<now, stats, died, display, asked, replay, crossed, owed, misdrawn>>

(* A revival that could not relocate him goes on; a goto ends here. *)
MoveFails(i) ==
    /\ handler[i].pc = "move"
    /\ \E r \in {Waiting, [handler[i] EXCEPT !.pc = "pet"]} : handler' = [handler EXCEPT ![i] = r]
    /\ UNCHANGED <<now, stats, died, loc, display, asked, replay, crossed, owed, misdrawn>>

(* Mutant of ArrivesThere: the row and the placement, but not the cache. *)
ArriveUndrawn(i) ==
    /\ handler[i].pc = "arrive"
    /\ handler' = [handler EXCEPT ![i].pc = "pet"]
    /\ UNCHANGED <<now, stats, died, loc, display, asked, replay, crossed, owed, misdrawn>>

(* arrive: the display cache, and the answer is read back. *)
ArrivesThere(i) ==
    /\ handler[i].pc = "arrive"
    /\ Remember(i)
    /\ handler' = [handler EXCEPT ![i].pc = "pet"]
    /\ UNCHANGED <<now, stats, died, loc, asked, replay, crossed, owed>>

(* A read that fails ends the handler. *)
Fails(i) ==
    /\ handler[i].pc \in {"pet", "stats", "mark", "fold"}
    /\ handler' = [handler EXCEPT ![i] = Waiting]
    /\ UNCHANGED <<now, stats, died, loc, display, asked, replay, crossed, owed, misdrawn>>

HourPasses ==
    /\ now < Hours
    /\ now' = now + 1
    /\ UNCHANGED <<stats, died, loc, display, handler, asked, replay, crossed, owed, misdrawn>>

(* The process dies and another starts: handlers and caches go. *)
ProcessDies ==
    /\ handler' = [i \in Handlers |-> Waiting]
    /\ display' = Never /\ misdrawn' = FALSE
    /\ UNCHANGED <<now, stats, died, loc, asked, replay, crossed, owed>>

PetsNext ==
    \/ \E i \in Handlers :
          \/ \E op \in Verbs \cup {"state"} : Arrives(i, op)
          \/ \E l \in Places : ArrivesGoto(i, l)
          \/ ReadsPet(i) \/ ReadsStats(i) \/ MarkDied(i) \/ Folds(i) \/ Refuses(i) \/ Commits(i)
          \/ Revive(i) \/ ReviveFails(i) \/ Moves(i) \/ MoveFails(i) \/ ArrivesThere(i) \/ Fails(i)
    \/ HourPasses \/ ProcessDies

HandlerSymmetry == Permutations(Handlers)

PetsSpec == PetsInit /\ [][PetsNext]_petVars

-----------------------------------------------------------------------------
(* Properties *)

(* The reference: what the next hour does to the values, with the penalties *)
(* that hold as it begins, and so the values at each hour.                  *)
Drain(k, v) ==
    DecayPerHour[k]
      + (IF k = "hp" THEN PenaltyRate * Cardinality({p \in Penalties : Holds(p, v[p])}) ELSE 0)
NextHour(v) == [k \in Stats |-> Clamp(k, v[k] - Drain(k, v))]
HourByHour(s) == LET f[n \in 0..Top] == IF n = 0 THEN s.v ELSE NextHour(f[n - 1]) IN f

(* The closed form is the game: whatever the verbs have made of the stats, *)
(* AtWith agrees at every hour with decay done an hour at a time, and      *)
(* DeadAtWith is the instant that reaches the floor, not before and not    *)
(* after, through every order in which the penalties set in.               *)
ClosedForm ==
    LET s == Snapshot(stats, Never)
        hourly == HourByHour(s)
        dead == DeadAtWith(s)
    IN  \A n \in 0..Top :
            /\ \A k \in Stats : AtWith(k, s, s.asof + n) = hourly[n][k]
            /\ hourly[n]["hp"] = 0 <=> dead <= 6 * (s.asof + n)

(* The snapshot is what its events say: through refusals, rollbacks, time  *)
(* and a process dying anywhere, the rows equal Replay -- unless two       *)
(* handlers of the account crossed, which nothing in Do prevents.          *)
SnapshotIsReplay == ~crossed => stats = Rows(replay)

(* A recorded death is the one the rows derive, whoever recorded it and    *)
(* however late he looked -- until a revival is committed, whose clearing  *)
(* of died_at is a statement of its own and can be lost to a crash.        *)
DeathIsDerived == ~crossed /\ died # Never => owed \/ died = DeadAtWith(Snapshot(stats, Never))

(* Once nobody is on his way, the plane draws him where the row says he is *)
(* -- unless what drew him last had read the row before somebody moved it. *)
RowIsDrawn ==
    (\A i \in Handlers : handler[i].pc = "idle") /\ ~misdrawn => display \in {Never, loc}

(* Row, log, death and drawing tell one story of the pet. *)
StoryIsOne == PetsTypeOK /\ SnapshotIsReplay /\ DeathIsDerived /\ RowIsDrawn

=============================================================================
