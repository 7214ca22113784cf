-------------------------------- MODULE Yard --------------------------------
(***************************************************************************)
(* Vanyagotchi's plane (src/internal/gamevanyagotchi/service.go and        *)
(* display.go): where one account stands, and how that place outlives a    *)
(* reload, a night away and a restart.                                     *)
(*                                                                         *)
(* The account's frames arrive on the read pumps of its sockets, the       *)
(* broadcast loop reconciles the position map with whoever is connected,   *)
(* one writer stores departures, and on the way out the loop flushes what  *)
(* is left.  Accounts meet only in the writer's queue and in the limit on  *)
(* sleepers, so the others are here as noise: departures that take a place *)
(* in the queue, rows that crowd this one out.  Which of the five          *)
(* locations a pet is in is module Pets.                                   *)
(***************************************************************************)
EXTENDS Integers, Sequences

CONSTANTS
    Far,            \* the plane is the line 0..Far, and 0 is its corner
    TiredFrom,      \* tiredFrom: a walk up to this long is always managed
    SavesBuffer,    \* savesBuffer, the writer's queue
    Grace,          \* PositionGrace, in ticks
    Failing         \* whether the database may refuse a statement

ASSUME YardAssumption ==
    /\ Far \in Nat \ {0} /\ TiredFrom \in Nat
    /\ SavesBuffer \in Nat \ {0} /\ Grace \in Nat \ {0}
    /\ Failing \in BOOLEAN

VARIABLES
    stage,      \* the process
    loop,       \* Run: its stage, and the position the flush is writing
    ticked,     \* lastTick is not zero
    pos,        \* pos[account], the placement
    furnished,  \* sleepersLoaded
    hello,      \* the hello being answered: its stage and the position it read
    going,         \* the goto, or the revival, being carried out
    queue,      \* saves: positions of this account, and Other
    writer,     \* persistPositions: the save in hand, None, or Gone
    row,        \* game_vanyagotchi_pets: the position stored, None, or NoRow
    rest,       \* history: where he stood when his last departure was noticed
    lost        \* history: that departure was dropped, refused or abandoned

yardVars == <<stage, loop, ticked, pos, furnished, hello, going, queue, writer, row, rest, lost>>

Points == 0..Far
Corner == 0
Spawn == 1          \* spawn, and every location's Entry
None == -1
Other == -2
Gone == -3
NoRow == -4

Standing(p) == [at |-> p, to |-> p]

(* The zero value of a placement, which is what the map answers for an     *)
(* account it does not hold: in the corner, chosen, and last seen long ago. *)
Zero == [known |-> FALSE, walk |-> Standing(Corner), prov |-> FALSE, saved |-> FALSE,
         away |-> Grace]
Held == [pos EXCEPT !.known = TRUE]

Rest == [pc |-> "idle", at |-> None]
Alive == stage \in {"up", "stopping"}
Chosen == pos.known /\ ~pos.prov

YardTypeOK ==
    /\ stage \in {"up", "stopping", "down"}
    /\ loop \in [pc : {"run", "flush", "done"}, at : Points \cup {None}]
    /\ ticked \in BOOLEAN /\ furnished \in BOOLEAN /\ lost \in BOOLEAN
    /\ pos \in [known : BOOLEAN, walk : [at : Points, to : Points], prov : BOOLEAN,
                saved : BOOLEAN, away : 0..Grace]
    /\ hello \in [pc : {"idle", "furnish", "sleeper", "find", "got"}, at : Points \cup {None}]
    /\ going \in BOOLEAN
    /\ queue \in Seq(Points \cup {Other}) /\ Len(queue) <= SavesBuffer
    /\ writer \in Points \cup {None, Other, Gone}
    /\ row \in Points \cup {None, NoRow}
    /\ rest \in Points \cup {None}

(* A process just started, over any row the last one may have left. *)
YardInit ==
    /\ stage = "up" /\ loop = [pc |-> "run", at |-> None] /\ ticked = FALSE
    /\ pos = Zero /\ furnished = FALSE
    /\ hello = Rest /\ going = FALSE
    /\ queue = <<>> /\ writer = None
    /\ row \in Points \cup {None, NoRow}
    /\ rest = None /\ lost = FALSE

-----------------------------------------------------------------------------
(* Walking: motion.go *)

(* walk.at one tick later. *)
Walked(w) ==
    [w EXCEPT !.at = IF w.at < w.to THEN w.at + 1 ELSE IF w.at > w.to THEN w.at - 1 ELSE w.at]

(* planWalk: where a walk to p will end.  A long one may end short of it,  *)
(* which is decided here and once.                                         *)
Dist(a, b) == IF a < b THEN b - a ELSE a - b
Ends(a, p) ==
    IF Dist(a, p) <= TiredFrom THEN {p}
    ELSE {q \in Points : Dist(a, q) + Dist(q, p) = Dist(a, p) /\ q # a}

(* A tap.  Before the first frame nobody has seen him, so he is simply put there. *)
Tap(p) ==
    /\ Alive
    /\ LET from == IF pos.known THEN pos.walk.at ELSE Spawn IN
       \E end \in Ends(from, p) :
          pos' = [Held EXCEPT !.prov = FALSE,
                              !.walk = IF ticked THEN [at |-> from, to |-> end] ELSE Standing(p)]
    /\ UNCHANGED <<stage, loop, ticked, furnished, hello, going, queue, writer, row, rest, lost>>

-----------------------------------------------------------------------------
(* Locations and verbs: they reach the placement through arrive, and their *)
(* rate limits leave the account in the map.                               *)

(* allowVerb; the verb itself, and the row it writes, are module Pets'. *)
AllowVerb ==
    /\ Alive
    /\ pos' = Held
    /\ UNCHANGED <<stage, loop, ticked, furnished, hello, going, queue, writer, row, rest, lost>>

(* allowGoto, or a verb that revived him: the journey's UPDATE is under way. *)
GoStarts ==
    /\ Alive /\ ~going
    /\ going' = TRUE
    /\ pos' = Held
    /\ UNCHANGED <<stage, loop, ticked, furnished, hello, queue, writer, row, rest, lost>>

(* SetLocation refused: nothing else happens. *)
GoFails ==
    /\ Alive /\ going /\ Failing
    /\ going' = FALSE
    /\ UNCHANGED <<stage, loop, ticked, pos, furnished, hello, queue, writer, row, rest, lost>>

(* SetLocation committed, the row's x and y left alone, and then arrive.   *)
(* The wait for the database is going: the statement changes nothing here. *)
Arrive ==
    /\ Alive /\ going
    /\ pos' = [Held EXCEPT !.walk = Standing(Spawn), !.prov = FALSE]
    /\ going' = FALSE
    /\ UNCHANGED <<stage, loop, ticked, furnished, hello, queue, writer, row, rest, lost>>

(* An HTTP read, or the one behind a verb, creates the pet (EnsurePet). *)
EnsurePet ==
    /\ Alive /\ row = NoRow
    /\ row' = None
    /\ UNCHANGED <<stage, loop, ticked, pos, furnished, hello, going, queue, writer, rest, lost>>

-----------------------------------------------------------------------------
(* A hello: load and ensureSleepers *)

(* Departures of this account still to be written, in the queue or in the  *)
(* writer's hand; the newest of them is the one that will stay.            *)
Queued == {i \in DOMAIN queue : queue[i] # Other}
Pending == writer \in Points \/ Queued # {}
Newest(p) ==
    IF Queued = {} THEN writer = p
    ELSE \E i \in Queued : queue[i] = p /\ \A j \in Queued : j <= i

HelloArrives ==
    /\ Alive /\ hello.pc = "idle"
    /\ hello' = [Rest EXCEPT !.pc = IF furnished THEN "find" ELSE "furnish"]
    /\ UNCHANGED <<stage, loop, ticked, pos, furnished, going, queue, writer, row, rest, lost>>

(* SleepingPets: everybody who ever stood somewhere, the newest of them.   *)
(* A failure leaves the yard to the next hello.                            *)
SleepingPets ==
    /\ Alive /\ hello.pc = "furnish"
    /\ \/ row \in Points /\ hello' = [pc |-> "sleeper", at |-> row] /\ UNCHANGED furnished
       \/ hello' = [Rest EXCEPT !.pc = "find"] /\ furnished' = TRUE
       \/ Failing /\ hello' = [Rest EXCEPT !.pc = "find"] /\ UNCHANGED furnished
    /\ UNCHANGED <<stage, loop, ticked, pos, going, queue, writer, row, rest, lost>>

(* Mutant of Sleeper: what the database says goes over whatever is held. *)
SleeperAnyway ==
    /\ Alive /\ hello.pc = "sleeper"
    /\ pos' = [Zero EXCEPT !.known = TRUE, !.walk = Standing(hello.at), !.saved = TRUE]
    /\ rest' = hello.at /\ lost' = FALSE
    /\ furnished' = TRUE /\ hello' = [Rest EXCEPT !.pc = "find"]
    /\ UNCHANGED <<stage, loop, ticked, going, queue, writer, row>>

(* He is put down asleep, only where nothing is held; that position is     *)
(* already stored, unless he was read, placed, saved and forgotten since.  *)
Sleeper ==
    /\ Alive /\ hello.pc = "sleeper"
    /\ IF pos.known THEN UNCHANGED <<pos, rest, lost>>
       ELSE /\ pos' = [Zero EXCEPT !.known = TRUE, !.walk = Standing(hello.at), !.saved = TRUE]
            /\ rest' = hello.at /\ lost' = (row # hello.at \/ Pending)
    /\ furnished' = TRUE
    /\ hello' = [Rest EXCEPT !.pc = "find"]
    /\ UNCHANGED <<stage, loop, ticked, going, queue, writer, row>>

FindPet ==
    /\ Alive /\ hello.pc = "find"
    /\ \/ row # NoRow /\ hello' = [pc |-> "got", at |-> row]
       \/ row = NoRow /\ hello' = Rest
       \/ Failing /\ hello' = Rest
    /\ UNCHANGED <<stage, loop, ticked, pos, furnished, going, queue, writer, row, rest, lost>>

(* Mutant of PutBack: a provisional spawn point is a place like any other. *)
PutBackOverNothing ==
    /\ Alive /\ hello.pc = "got"
    /\ pos' = IF hello.at # None /\ ~pos.known
              THEN [Held EXCEPT !.walk = Standing(hello.at), !.prov = FALSE] ELSE pos
    /\ hello' = Rest
    /\ UNCHANGED <<stage, loop, ticked, furnished, going, queue, writer, row, rest, lost>>

(* The stored position goes over nothing, or over a spawn point nobody chose. *)
PutBack ==
    /\ Alive /\ hello.pc = "got"
    /\ pos' = IF hello.at # None /\ (~pos.known \/ pos.prov)
              THEN [Held EXCEPT !.walk = Standing(hello.at), !.prov = FALSE] ELSE pos
    /\ hello' = Rest
    /\ UNCHANGED <<stage, loop, ticked, furnished, going, queue, writer, row, rest, lost>>

(* Forget, behind an administrator's "forget". *)
Forget ==
    /\ Alive
    /\ pos' = Zero /\ rest' = None /\ lost' = FALSE
    /\ UNCHANGED <<stage, loop, ticked, furnished, hello, going, queue, writer, row>>

Hello == SleepingPets \/ Sleeper \/ FindPet \/ PutBack

-----------------------------------------------------------------------------
(* The broadcast: place *)

(* Mutant of EnqueueSave: the queue grows. *)
EnqueueSaveAlways(p) == queue' = Append(queue, p) /\ lost' = FALSE

(* enqueueSave never blocks: a full queue drops the departure. *)
EnqueueSave(p) ==
    IF Len(queue) < SavesBuffer
    THEN queue' = Append(queue, p) /\ lost' = FALSE
    ELSE UNCHANGED queue /\ lost' = TRUE

(* Connected: seen now, drawn somewhere, and a later departure is a new one. *)
PlacePresent ==
    /\ pos' = [(IF pos.known THEN pos ELSE [Held EXCEPT !.walk = Standing(Spawn), !.prov = TRUE])
                 EXCEPT !.walk = Walked(@), !.away = 0, !.saved = FALSE]
    /\ rest' = None /\ lost' = FALSE /\ UNCHANGED queue

(* Mutant of PlaceAbsent: a spawn point nobody chose is never dropped. *)
PlaceAbsentKeeping ==
    LET p == [pos EXCEPT !.walk = Walked(@),
                         !.away = IF @ < Grace THEN @ + 1 ELSE @] IN
    IF ~p.saved /\ ~p.prov
    THEN pos' = [p EXCEPT !.saved = TRUE] /\ EnqueueSave(p.walk.at) /\ rest' = p.walk.at
    ELSE pos' = p /\ UNCHANGED <<queue, rest, lost>>

(* Away: the departure is handed to the writer once; past the grace he is  *)
(* a sleeper, unless he never stood anywhere.                              *)
PlaceAbsent ==
    LET p == [pos EXCEPT !.walk = Walked(@),
                         !.away = IF @ < Grace THEN @ + 1 ELSE @] IN
    IF ~p.saved /\ ~p.prov
    THEN pos' = [p EXCEPT !.saved = TRUE] /\ EnqueueSave(p.walk.at) /\ rest' = p.walk.at
    ELSE pos' = (IF p.prov /\ p.away = Grace THEN Zero ELSE p) /\ UNCHANGED <<queue, rest, lost>>

(* One tick.  The member list was read before the lock was taken and may   *)
(* be of anybody; publishing through a closed hub ends Run.                *)
Tick ==
    /\ Alive /\ loop.pc = "run"
    /\ ticked' = TRUE
    /\ \/ PlacePresent
       \/ pos.known /\ PlaceAbsent
       \/ ~pos.known /\ UNCHANGED <<pos, queue, rest, lost>>
    /\ \/ UNCHANGED loop
       \/ stage = "stopping" /\ loop' = [loop EXCEPT !.pc = "done"]
    /\ UNCHANGED <<stage, furnished, hello, going, writer, row>>

(* A tick that finds the hub closed, or its context cancelled, ends Run. *)
TickRefused ==
    /\ stage = "stopping" /\ loop.pc = "run"
    /\ loop' = [loop EXCEPT !.pc = "done"]
    /\ UNCHANGED <<stage, ticked, pos, furnished, hello, going, queue, writer, row, rest, lost>>

(* The cancellation noticed: everybody not yet handed to the writer is     *)
(* read off at one instant, a tick's walk later at most, ...               *)
FlushReads ==
    /\ stage = "stopping" /\ loop.pc = "run"
    /\ \E w \in {pos.walk, Walked(pos.walk)} :
          loop' = IF pos.known /\ ~pos.saved /\ ~pos.prov
                  THEN [pc |-> "flush", at |-> w.at] ELSE [loop EXCEPT !.pc = "done"]
    /\ UNCHANGED <<stage, ticked, pos, furnished, hello, going, queue, writer, row, rest, lost>>

(* Mutant of Stored: only a pet that never stood anywhere is written. *)
StoredOnce(p) == row' = IF row = None THEN p ELSE row

(* SavePosition: one UPDATE, which touches nothing when there is no pet. *)
Stored(p) == row' = IF row = NoRow THEN NoRow ELSE p

(* ... and written, on a context of the flush's own. *)
FlushWrites ==
    /\ Alive /\ loop.pc = "flush"
    /\ Stored(loop.at) \/ (Failing /\ UNCHANGED row)
    /\ loop' = [pc |-> "done", at |-> None]
    /\ UNCHANGED <<stage, ticked, pos, furnished, hello, going, queue, writer, rest, lost>>

-----------------------------------------------------------------------------
(* The writer: persistPositions *)

OthersLeave ==
    /\ Alive /\ loop.pc = "run" /\ Len(queue) < SavesBuffer
    /\ queue' = Append(queue, Other)
    /\ UNCHANGED <<stage, loop, ticked, pos, furnished, hello, going, writer, row, rest, lost>>

WriterTakes ==
    /\ Alive /\ writer = None /\ queue # <<>>
    /\ writer' = Head(queue) /\ queue' = Tail(queue)
    /\ UNCHANGED <<stage, loop, ticked, pos, furnished, hello, going, row, rest, lost>>

(* savePosition: a write that fails, as it does on a cancelled context, is logged. *)
SavePosition ==
    /\ Alive /\ writer \notin {None, Gone}
    /\ \/ /\ IF writer = Other THEN UNCHANGED row ELSE Stored(writer)
          /\ lost' = (lost \/ (writer # Other /\ row = NoRow /\ pos.saved /\ Queued = {}))
       \/ /\ Failing \/ stage = "stopping"
          /\ UNCHANGED row
          /\ lost' = (lost \/ (writer # Other /\ pos.saved /\ Queued = {}))
    /\ writer' = None
    /\ UNCHANGED <<stage, loop, ticked, pos, furnished, hello, going, queue, rest>>

(* Cancelled, the writer returns whatever is still queued. *)
WriterReturns ==
    /\ stage = "stopping" /\ writer = None
    /\ writer' = Gone
    /\ lost' = (lost \/ (pos.saved /\ Pending))
    /\ UNCHANGED <<stage, loop, ticked, pos, furnished, hello, going, queue, row, rest>>

Writer == WriterTakes \/ SavePosition \/ WriterReturns

-----------------------------------------------------------------------------
(* The process: cmd/psycho-space/main.go *)

Stop ==
    /\ stage = "up"
    /\ stage' = "stopping"
    /\ UNCHANGED <<loop, ticked, pos, furnished, hello, going, queue, writer, row, rest, lost>>

(* It ends after Done, after five seconds of waiting for it, or by itself. *)
Exit ==
    /\ Alive
    /\ stage' = "down"
    /\ loop' = [pc |-> "run", at |-> None] /\ ticked' = FALSE
    /\ pos' = Zero /\ furnished' = FALSE
    /\ hello' = Rest /\ going' = FALSE
    /\ queue' = <<>> /\ writer' = None
    /\ rest' = None /\ lost' = FALSE
    /\ UNCHANGED row

Boot ==
    /\ stage = "down"
    /\ stage' = "up"
    /\ UNCHANGED <<loop, ticked, pos, furnished, hello, going, queue, writer, row, rest, lost>>

YardNext ==
    \/ \E p \in Points \ {Corner} : Tap(p)
    \/ AllowVerb \/ GoStarts \/ GoFails \/ Arrive \/ EnsurePet
    \/ HelloArrives \/ Hello \/ Forget
    \/ Tick \/ TickRefused \/ FlushReads \/ FlushWrites
    \/ OthersLeave \/ Writer
    \/ Stop \/ Exit \/ Boot

YardSpec == YardInit /\ [][YardNext]_yardVars

(* A tick that finds him gone. *)
AwayTick == Tick /\ pos'.away # 0

(* The writer runs, and a handler goes on, for as long as the process does. *)
FairSpec == YardSpec /\ WF_yardVars(Writer) /\ WF_yardVars(Hello)

-----------------------------------------------------------------------------
(* Properties *)

(* A place somebody chose is his: the tick, a hello on another device, the *)
(* sleepers read once per process and the grace period never move him and  *)
(* never forget him -- only his own tap, his own journey and an            *)
(* administrator's "forget" do.                                            *)
PlaceIsKept ==
    [][Chosen /\ stage' # "down" =>
          \/ /\ pos'.known /\ ~pos'.prov
             /\ pos'.walk \in {pos.walk, Walked(pos.walk)}
          \/ \E p \in Points : Tap(p)
          \/ Arrive \/ Forget]_yardVars

(* A departure noticed once is stored, or on its way to be, newest last --  *)
(* or it was dropped by a full queue, refused by the database, or abandoned *)
(* by a writer that was told to stop.  Nothing else loses it, however often *)
(* he comes and goes while older departures of his wait in the queue.       *)
DepartureIsKept ==
    Alive /\ Chosen /\ pos.saved /\ ~lost =>
        IF Pending THEN Newest(rest) ELSE row = rest \/ loop.pc = "done"

(* Somebody who stays away while the ticker goes on is written down, or    *)
(* becomes nobody: whatever a late hello still does, the yard holds no     *)
(* placement for ever that nobody chose or nobody handed to the writer.    *)
AwayStep == AwayTick \/ Writer \/ OthersLeave \/ HelloArrives \/ Hello \/ EnsurePet
AwayIsSettled ==
    <>[](stage = "up") /\ <>[][AwayStep]_yardVars /\ WF_yardVars(AwayTick)
        => <>[](pos.known => ~pos.prov /\ pos.saved)

(* A stored place comes back: once a hello has read it, no spawn point     *)
(* invented by a tick that came first is left standing in its stead.       *)
StoredPlaceReturns ==
    [][hello.pc = "got" /\ hello'.pc = "idle" /\ hello.at # None /\ stage' # "down"
          => pos'.known /\ ~pos'.prov]_yardVars

(* service.go: "Done is closed once Run has returned and everybody         *)
(* standing in the yard has been written down".                            *)
DoneMeansWrittenDown ==
    Alive /\ loop.pc = "done" /\ Chosen /\ row # NoRow =>
        row \in {pos.walk.at, Walked(pos.walk).at}

(* service.go: "not at the origin, which is the corner of the plane and is *)
(* what a zero-valued walk would quietly claim": the rate limits do.       *)
NobodyInTheCorner == Chosen => pos.walk.at # Corner

(* A departure is kept, in a queue that stays within its bound. *)
DeparturesAreSound == YardTypeOK /\ DepartureIsKept

(* A place is kept while the process runs, and comes back to the one who   *)
(* left it.                                                                *)
PlacesAreKept == PlaceIsKept /\ StoredPlaceReturns

=============================================================================
