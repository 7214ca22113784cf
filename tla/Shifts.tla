------------------------------- MODULE Shifts -------------------------------
(***************************************************************************)
(* FinTech's service (src/internal/gamefintech/service.go, renovation.go): *)
(* the shifts people work, the office they share, the floor it is opened   *)
(* on, and the one row a finished shift becomes.                           *)
(*                                                                         *)
(* Four kinds of thread meet here: request handlers that start and leave   *)
(* shifts and install floors, the simulation loop, the one writer, and the *)
(* process itself, which is told to stop, crashes and boots again.  What   *)
(* the simulation does between two ends of a shift is module Office; here  *)
(* it may catch anybody at any tick.  Time is the renovation day.          *)
(***************************************************************************)
EXTENDS Integers, Sequences, FiniteSets

CONSTANTS
    Accounts,       \* accounts, as numbers: the office goes through them in order
    Admins,         \* administrators with the floor's page open
    MaxOccupants,   \* content.go: MaxOccupants
    SavesBuffer,    \* savesBuffer, the writer's queue
    Grace,          \* AbandonGrace, in ticks
    Thin,           \* the days whose draw Generate refuses (ErrThinFloor)
    MaxDay,         \* bound: the last renovation day
    MaxShifts,      \* bound: shifts ever started
    MaxInstalls,    \* bound: floors an administrator installs
    MaxBoots        \* bound: processes

ASSUME ShiftsAssumption ==
    /\ Accounts \subseteq Nat /\ IsFiniteSet(Accounts)
    /\ MaxOccupants \in Nat \ {0} /\ SavesBuffer \in Nat \ {0} /\ Grace \in Nat
    /\ Thin \subseteq Nat
    /\ MaxDay \in Nat \ {0} /\ MaxShifts \in Nat /\ MaxInstalls \in Nat /\ MaxBoots \in Nat

VARIABLES
    day,        \* the clock
    proc,       \* the process: its stage, its count, and whether Done is closed
    floor,      \* plan and installedAt: the floor in force and the day it arrived
    installed,  \* installedDay
    office,     \* the plan of the open office, or NoPlan
    work,       \* the occupants of the office: account -> shift
    loop,       \* the simulation loop
    admin,      \* each administrator's request
    saves,      \* the writer's queue
    writer,     \* the writer: its stage and the shift it is inserting
    rows,       \* game_fintech_shifts
    stored,     \* the newest row of game_fintech_layouts
    started,    \* shift ids minted
    installs,   \* floors drawn by administrators
    gone,       \* history: shifts that will never have a row
    crossed     \* history: the last floor change overlapped another one, or a boundary

svcVars == <<floor, installed, office, work>>
dbVars == <<rows, stored>>
vars == <<day, proc, svcVars, loop, admin, saves, writer, dbVars,
          started, installs, gone, crossed>>

(* Floors.  A daily floor is a function of its day. *)
Plan(kind, n) == [kind |-> kind, n |-> n]
NoPlan == Plan("none", 0)
Starting == Plan("starting", 0)
Plans == [kind : {"none", "starting", "daily", "drawn", "broken"}, n : 0..(MaxDay + MaxInstalls)]
NoRow == [plan |-> NoPlan, day |-> 0]
Idle == [pc |-> "idle", day |-> 0]
NoRequest == [pc |-> "idle", plan |-> NoPlan, at |-> 0]

TypeOK ==
    /\ day \in 1..MaxDay
    /\ proc \in [stage : {"down", "booting", "up", "stopping"}, count : 0..MaxBoots, done : BOOLEAN]
    /\ floor \in [plan : Plans, at : 0..MaxDay]
    /\ installed \in 0..MaxDay
    /\ office \in Plans
    /\ DOMAIN work \subseteq Accounts /\ Cardinality(DOMAIN work) <= MaxOccupants
    /\ \A a \in DOMAIN work :
          work[a] \in [id : 1..MaxShifts, quiet : 0..Grace]
    /\ loop \in [pc : {"idle", "rotate", "refused", "step"}, day : 0..MaxDay]
    /\ admin \in [Admins -> [pc : {"idle", "insert", "swap"}, plan : Plans, at : 0..MaxDay]]
    /\ saves \in Seq(1..MaxShifts) /\ Len(saves) <= SavesBuffer
    /\ writer \in [pc : {"select", "gone"}, shift : 0..MaxShifts]
    /\ rows \subseteq 1..MaxShifts
    /\ stored \in [plan : Plans, day : 0..MaxDay]
    /\ started \in 0..MaxShifts /\ installs \in 0..MaxInstalls
    /\ gone \subseteq 1..MaxShifts
    /\ crossed \in BOOLEAN

(* The process is down, over an empty layouts table or one whose newest    *)
(* row no longer validates; rows that do come from the runs themselves.    *)
Init ==
    /\ day = 1
    /\ proc = [stage |-> "down", count |-> 0, done |-> FALSE]
    /\ floor = [plan |-> NoPlan, at |-> 0] /\ installed = 0
    /\ office = NoPlan /\ work = <<>>
    /\ loop = Idle /\ admin = [b \in Admins |-> NoRequest]
    /\ saves = <<>> /\ writer = [pc |-> "gone", shift |-> 0]
    /\ rows = {} /\ stored \in {NoRow, [plan |-> Plan("broken", 0), day |-> 1]}
    /\ started = 0 /\ installs = 0 /\ gone = {} /\ crossed = FALSE

Alive == proc.stage \in {"up", "stopping"}

-----------------------------------------------------------------------------
(* Floors: renovation.go *)

(* dailyLayout: the office a day is entitled to, and whether it can be drawn. *)
Drawable(d) == d \notin Thin
Daily(d) == Plan("daily", d)

(* dailyFloor: a draw that fails falls back to the starting floor. *)
DailyFloor(d) == [plan |-> IF Drawable(d) THEN Daily(d) ELSE Starting, at |-> d]

(* Mutant of EnsureLayout: a stored row is in force whatever its day. *)
EnsureLayoutAnyDay(row, d) ==
    IF row = NoRow THEN [plan |-> Starting, at |-> d]
    ELSE IF row.plan.kind # "broken" THEN [plan |-> row.plan, at |-> row.day]
    ELSE DailyFloor(d)

(* EnsureLayout: a stored row overrides the day's own office only while it *)
(* validates and belongs to the current day; an empty table is given the   *)
(* starting floor.                                                         *)
EnsureLayout(row, d) ==
    IF row = NoRow THEN [plan |-> Starting, at |-> d]
    ELSE IF row.plan.kind # "broken" /\ row.day = d THEN [plan |-> row.plan, at |-> row.day]
    ELSE DailyFloor(d)

-----------------------------------------------------------------------------
(* Endings: Service.finish, for everybody in S, in the order of keys().    *)
(* Whether a shift lasted MinShiftSeconds is known when it ends.           *)

Rank(S, a) == Cardinality({b \in S : b < a})
IdsOf(S) == {work[a].id : a \in S}

(* Mutant of Fitting: the queue has no bound. *)
FittingAll(long) == long

(* Of the long ones, those that fit the writer's queue. *)
Fitting(long) == {a \in long : Len(saves) + Rank(long, a) < SavesBuffer}
InOrder(S) == [i \in 1..Cardinality(S) |-> work[CHOOSE a \in S : Rank(S, a) = i - 1].id]

(* The rest is dropped: too short to be a result, or with a line in the log. *)
Finish(S) ==
    \E long \in SUBSET S :
        /\ saves' = saves \o InOrder(Fitting(long))
        /\ gone' = gone \cup IdsOf(S \ Fitting(long))

(* Mutants of Vacate: the shift is recorded and left standing, or the empty office is kept. *)
VacateNobody(S) == UNCHANGED <<work, office>>
VacateKeepingOffice(S) == work' = [a \in DOMAIN work \ S |-> work[a]] /\ UNCHANGED office

(* Office.Leave and EvictAll take the occupants out of the world; the last *)
(* one out takes the office with him.                                      *)
Without(S) == [a \in DOMAIN work \ S |-> work[a]]
Empties(S) == DOMAIN work \subseteq S
Vacate(S) ==
    /\ work' = Without(S)
    /\ office' = IF Empties(S) THEN NoPlan ELSE office

-----------------------------------------------------------------------------
(* Requests *)

(* Office.Join refuses a second shift of an account and a full office. *)
Join(a) ==
    /\ a \notin DOMAIN work
    /\ Cardinality(DOMAIN work) < MaxOccupants
    /\ work' = [b \in DOMAIN work \cup {a} |->
                  IF b = a THEN [id |-> started + 1, quiet |-> 0] ELSE work[b]]

(* StartShift: the first one in opens the office on the floor in force. *)
StartShift(a) ==
    /\ started < MaxShifts
    /\ Join(a)
    /\ office' = IF office = NoPlan THEN floor.plan ELSE office
    /\ started' = started + 1
    /\ UNCHANGED <<floor, installed, saves, gone>>

(* LeaveShift: the quit button. *)
LeaveShift(a) ==
    /\ a \in DOMAIN work
    /\ Finish({a}) /\ Vacate({a})
    /\ UNCHANGED <<floor, installed, started>>

(* PurgeAccount: the admin's "forget" ends a shift and queues nothing. *)
PurgeAccount(a) ==
    /\ a \in DOMAIN work
    /\ Vacate({a})
    /\ gone' = gone \cup IdsOf({a})
    /\ UNCHANGED <<floor, installed, saves, started>>

(* The HTTP server answers for as long as the process lives: main shuts it down last. *)
Request(a) ==
    /\ Alive
    /\ StartShift(a) \/ LeaveShift(a) \/ PurgeAccount(a)
    /\ UNCHANGED <<day, proc, loop, admin, writer, dbVars, installs, crossed>>

-----------------------------------------------------------------------------
(* Installing a floor *)

(* Mutant of PutInForce: the new plan is fitted into the open office. *)
PutInForceRetrofit(p, at) ==
    /\ floor' = [plan |-> p, at |-> at] /\ installed' = at
    /\ office' = IF office = NoPlan THEN NoPlan ELSE p
    /\ UNCHANGED <<work, saves, gone>>

(* putInForce, under the lock: the swap, the eviction and the dropped office. *)
PutInForce(p, at) ==
    /\ floor' = [plan |-> p, at |-> at]
    /\ installed' = at
    /\ Finish(DOMAIN work)
    /\ work' = <<>> /\ office' = NoPlan

(* Install: the instant is read, then the row is inserted, then the floor  *)
(* is swapped; a floor that does not validate gets no further than this.   *)
InstallBegins(b) ==
    /\ Alive /\ admin[b].pc = "idle" /\ installs < MaxInstalls
    /\ installs' = installs + 1
    /\ admin' = [admin EXCEPT ![b] = [pc |-> "insert", plan |-> Plan("drawn", installs + 1), at |-> day]]
    /\ UNCHANGED <<day, proc, svcVars, loop, saves, writer, dbVars, started, gone, crossed>>

(* InsertLayout: created_at is the database's own clock.  A refused write changes nothing. *)
InsertLayout(b) ==
    /\ admin[b].pc = "insert"
    /\ \/ /\ stored' = [plan |-> admin[b].plan, day |-> day]
          /\ admin' = [admin EXCEPT ![b].pc = "swap"]
       \/ /\ admin' = [admin EXCEPT ![b] = NoRequest]
          /\ UNCHANGED stored
    /\ UNCHANGED <<day, proc, svcVars, loop, saves, writer, rows, started, installs, gone, crossed>>

InstallSwaps(b) ==
    /\ admin[b].pc = "swap"
    /\ PutInForce(admin[b].plan, admin[b].at)
    /\ admin' = [admin EXCEPT ![b] = NoRequest]
    /\ crossed' = (stored # [plan |-> admin[b].plan, day |-> admin[b].at] \/ admin[b].at # day)
    /\ UNCHANGED <<day, proc, loop, writer, dbVars, started, installs>>

-----------------------------------------------------------------------------
(* The simulation loop *)

(* A tick's stamp is the clock's, or an earlier one: the ticker holds one  *)
(* back, and a corrected clock may repeat the end of yesterday.            *)
Stamps == {d \in {day - 1, day} : d >= 1}

(* rotateIfDue: later than the day in force, never merely different from it. *)
Due(d) == d > installed

Tick(d) ==
    /\ Alive /\ ~proc.done /\ loop.pc = "idle" /\ d \in Stamps
    /\ loop' = [Idle EXCEPT !.pc = IF ~Due(d) THEN "step"
                                   ELSE IF Drawable(d) THEN "rotate" ELSE "refused",
                            !.day = IF Due(d) THEN d ELSE 0]
    /\ UNCHANGED <<day, proc, svcVars, admin, saves, writer, dbVars, started, installs, gone, crossed>>

(* The day's floor is put in force; a day that cannot be drawn is recorded all the same. *)
Rotate ==
    /\ loop.pc = "rotate"
    /\ PutInForce(Daily(loop.day), loop.day)
    /\ loop' = [Idle EXCEPT !.pc = "step"]
    /\ crossed' = (stored.day = loop.day \/ loop.day # day)
    /\ UNCHANGED <<day, proc, admin, writer, dbVars, started, installs>>

(* Mutant of RefusedDay: the day that cannot be drawn is tried again on every tick. *)
RefusedDayRetried ==
    /\ loop.pc = "refused"
    /\ loop' = [Idle EXCEPT !.pc = "step"]
    /\ UNCHANGED <<day, proc, svcVars, admin, saves, writer, dbVars, started, installs, gone, crossed>>

RefusedDay ==
    /\ loop.pc = "refused"
    /\ installed' = loop.day
    /\ loop' = [Idle EXCEPT !.pc = "step"]
    /\ UNCHANGED <<day, proc, floor, office, work, admin, saves, writer, dbVars,
                   started, installs, gone, crossed>>

(* The rest of step.  connsByAccount asks the hub before the lock is taken *)
(* and sockets come and go, so the list may by then be of anybody; Seen    *)
(* marks them present, and Advance ends whoever has been away for longer   *)
(* than the grace, and whoever is caught.                                  *)
Quiet(a, seen) == IF a \in seen THEN 0 ELSE work[a].quiet + 1
Abandoned(seen) == {a \in DOMAIN work : Quiet(a, seen) > Grace}

StepFor(seen) ==
    \E caught \in SUBSET DOMAIN work :
        LET over == Abandoned(seen) \cup caught IN
        /\ Finish(over)
        /\ work' = [a \in DOMAIN work \ over |-> [work[a] EXCEPT !.quiet = Quiet(a, seen)]]
        /\ office' = IF Empties(over) THEN NoPlan ELSE office

(* Mutant of Step: an office nobody is watching is not advanced. *)
StepWhileWatched ==
    /\ loop.pc = "step"
    /\ loop' = Idle
    /\ \E seen \in SUBSET Accounts :
          \/ seen # {} /\ StepFor(seen)
          \/ seen = {} /\ UNCHANGED <<office, work, saves, gone>>
    /\ UNCHANGED <<day, proc, floor, installed, admin, writer, dbVars, started, installs, crossed>>

Step ==
    /\ loop.pc = "step"
    /\ loop' = Idle
    /\ \E seen \in SUBSET Accounts : StepFor(seen)
    /\ UNCHANGED <<day, proc, floor, installed, admin, writer, dbVars, started, installs, crossed>>

(* Run returns on cancellation, and closes Done behind itself. *)
LoopReturns ==
    /\ proc.stage = "stopping" /\ loop.pc = "idle" /\ ~proc.done
    /\ proc' = [proc EXCEPT !.done = TRUE]
    /\ UNCHANGED <<day, svcVars, loop, admin, saves, writer, dbVars, started, installs, gone, crossed>>

Loop == (\E d \in 1..MaxDay : Tick(d)) \/ Rotate \/ RefusedDay \/ Step

-----------------------------------------------------------------------------
(* persistShifts, the one writer *)

(* Mutant of WriterTakes: the queue is only written once it overflows. *)
WriterTakesBatch ==
    /\ Alive /\ writer = [pc |-> "select", shift |-> 0] /\ Len(saves) > SavesBuffer
    /\ writer' = [writer EXCEPT !.shift = Head(saves)]
    /\ saves' = Tail(saves)
    /\ UNCHANGED <<day, proc, svcVars, loop, admin, dbVars, started, installs, gone, crossed>>

(* The next shift is taken off the queue. *)
WriterTakes ==
    /\ Alive /\ writer.pc = "select" /\ writer.shift = 0 /\ saves # <<>>
    /\ writer' = [writer EXCEPT !.shift = Head(saves)]
    /\ saves' = Tail(saves)
    /\ UNCHANGED <<day, proc, svcVars, loop, admin, dbVars, started, installs, gone, crossed>>

(* writeShift: one INSERT with five seconds to succeed, and no retry. *)
WriteShift ==
    /\ Alive /\ writer.shift # 0
    /\ \/ rows' = rows \cup {writer.shift} /\ UNCHANGED gone
       \/ gone' = gone \cup {writer.shift} /\ UNCHANGED rows
    /\ writer' = [writer EXCEPT !.shift = 0]
    /\ UNCHANGED <<day, proc, svcVars, loop, admin, saves, stored, started, installs, crossed>>

(* Cancelled: what is queued is drained, and the writer goes once the queue is empty. *)
WriterReturns ==
    /\ proc.stage = "stopping" /\ writer = [pc |-> "select", shift |-> 0] /\ saves = <<>>
    /\ writer' = [writer EXCEPT !.pc = "gone"]
    /\ UNCHANGED <<day, proc, svcVars, loop, admin, saves, dbVars, started, installs, gone, crossed>>

Writer == WriterTakes \/ WriteShift \/ WriterReturns

-----------------------------------------------------------------------------
(* The process and the world around it *)

(* SIGTERM cancels the context the loop and the writer live on. *)
Stop ==
    /\ proc.stage = "up"
    /\ proc' = [proc EXCEPT !.stage = "stopping"]
    /\ UNCHANGED <<day, svcVars, loop, admin, saves, writer, dbVars, started, installs, gone, crossed>>

(* The process ends: after Done, or for any other reason. *)
Exit ==
    /\ Alive
    /\ proc' = [proc EXCEPT !.stage = "down", !.done = FALSE]
    /\ gone' = gone \cup ((1..started) \ rows)
    /\ floor' = [plan |-> NoPlan, at |-> 0] /\ installed' = 0 /\ crossed' = FALSE
    /\ office' = NoPlan /\ work' = <<>> /\ loop' = Idle
    /\ admin' = [b \in Admins |-> NoRequest]
    /\ saves' = <<>> /\ writer' = [pc |-> "gone", shift |-> 0]
    /\ UNCHANGED <<day, dbVars, started, installs>>

(* main reads the floor, ... *)
BootReads ==
    /\ proc.stage = "down" /\ proc.count < MaxBoots
    /\ proc' = [proc EXCEPT !.stage = "booting", !.count = @ + 1]
    /\ floor' = EnsureLayout(stored, day)
    /\ \/ stored' = IF stored = NoRow THEN [plan |-> Starting, day |-> day] ELSE stored
       \/ UNCHANGED stored
    /\ UNCHANGED <<day, installed, office, work, loop, admin, saves, writer, rows,
                   started, installs, gone, crossed>>

(* ... and builds the service on it, which reads the clock again (NewService). *)
BootBuilds ==
    /\ proc.stage = "booting"
    /\ proc' = [proc EXCEPT !.stage = "up"]
    /\ installed' = day
    /\ writer' = [pc |-> "select", shift |-> 0]
    /\ crossed' = (floor.at # day)
    /\ UNCHANGED <<day, floor, office, work, loop, admin, saves, dbVars, started, installs, gone>>

NextDay ==
    /\ day < MaxDay
    /\ day' = day + 1
    /\ UNCHANGED <<proc, svcVars, loop, admin, saves, writer, dbVars, started, installs, gone, crossed>>

Next ==
    \/ \E a \in Accounts : Request(a)
    \/ \E b \in Admins : InstallBegins(b) \/ InsertLayout(b) \/ InstallSwaps(b)
    \/ Loop \/ LoopReturns \/ Writer
    \/ Stop \/ Exit \/ BootReads \/ BootBuilds \/ NextDay

Spec == Init /\ [][Next]_vars

(* The ticker keeps firing, a stale stamp is followed by a true one, and   *)
(* the writer keeps running while the process does.                        *)
Fairness ==
    /\ WF_vars(Loop) /\ SF_vars(Tick(day))
    /\ WF_vars(Writer) /\ WF_vars(LoopReturns)
FairSpec == Spec /\ Fairness

-----------------------------------------------------------------------------
(* Properties *)

(* An office is open exactly while somebody works in it, and it is the     *)
(* floor in force: no start, quit, eviction or install leaves an empty     *)
(* office simulated or people standing in a room that is not served.       *)
OfficeIsCurrent ==
    /\ office # NoPlan <=> DOMAIN work # {}
    /\ office # NoPlan => office = floor.plan

(* Every shift ever started is in exactly one place: worked, queued, being *)
(* written, in the table, or ended without a row.  The quit button, the    *)
(* tick, the eviction and "forget" never end one twice and never lose one  *)
(* without a reason.                                                       *)
Places(i) ==
    Cardinality({a \in DOMAIN work : work[a].id = i})
      + Cardinality({k \in 1..Len(saves) : saves[k] = i})
      + Cardinality({x \in {writer.shift} : x = i})
      + Cardinality({i} \cap rows) + Cardinality({i} \cap gone)
ExactlyOnePlace == \A i \in 1..started : Places(i) = 1

(* Restarted at a quiet moment the process would stand up on the floor it  *)
(* is standing on, whatever the table holds, on every day that can be      *)
(* drawn -- unless the last change of floor overlapped another change or a *)
(* boundary, or the first boot could not write the starting floor down.    *)
Settled ==
    /\ proc.stage = "up" /\ installed = day /\ Drawable(day)
    /\ loop.pc \notin {"rotate", "refused"} /\ \A b \in Admins : admin[b].pc # "swap"
SameRoomAfterRestart ==
    Settled /\ ~crossed /\ stored # NoRow => EnsureLayout(stored, day).plan = floor.plan

(* renovation.go: "WHAT A RESTART, A DEPLOY AND A MISSED 21:00 ALL PRODUCE: *)
(* the same room" -- said without the exception.                           *)
SameRoomAlways == Settled => EnsureLayout(stored, day).plan = floor.plan

(* service.go: "Done is closed once Run has returned and the last write    *)
(* has been attempted".                                                    *)
DoneMeansWritten == proc.done => saves = <<>> /\ writer.shift = 0

(* The floor never changes underneath a shift in progress. *)
FloorStandsStill ==
    [][\A a \in DOMAIN work \cap DOMAIN work' :
          work'[a].id = work[a].id => office' = office]_vars

(* A process that stays up writes what it queued, whatever the table's     *)
(* other writes do: a shift that finished does not wait in the queue, or   *)
(* in the writer's hand, for ever.  Out of both it has its row, or failed  *)
(* there (ExactlyOnePlace).                                                *)
InHand(i) == writer.shift = i \/ \E k \in 1..Len(saves) : saves[k] = i
QueuedIsWritten ==
    <>[](proc.stage = "up") => \A i \in 1..MaxShifts : []<>(~InHand(i))

(* Somebody who never comes back is not employed for ever: his shift ends, *)
(* though every tick works from a list of connections read before it took  *)
(* the lock.                                                               *)
AbandonedShiftEnds ==
    \A a \in Accounts :
        <>[](proc.stage = "up" /\ (a \in DOMAIN work => work[a].quiet > 0))
           => <>[](a \notin DOMAIN work)

(* A process that stays up ends up in the day: every boundary is dealt     *)
(* with, occupied or idle, drawable or not, and an install that straddled  *)
(* one does not keep it in yesterday.                                      *)
EveryDayIsDealtWith ==
    <>[](proc.stage = "up") => <>[](installed = day)

(* Shifts, offices and floors in any interleaving of requests, ticks,      *)
(* installs, writes and restarts: none is lost, doubled or stranded, and a *)
(* restart finds the room it left.                                         *)
ShiftsAreSound == TypeOK /\ OfficeIsCurrent /\ ExactlyOnePlace /\ SameRoomAfterRestart

=============================================================================
