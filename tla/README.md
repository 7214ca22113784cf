# psycho-space: a TLA+ verification project

This directory specifies, model-checks and proves properties of psycho-space, a
small invitation-only community server written in Go with a Vue client: VK and
Yandex login, an allowlist with roles, a wishlist, and four games, three of
which are played together over one WebSocket per tab.

`PROJECT.json` lists the components, the runs, the mutants that show each
property can fail, the source lines behind each definition, the hazards and the
theorems. To repeat a run: `tlc -config X.cfg M`; to repeat the proofs of a
component: `tlapm XProofs.tla`, for each of the eight modules so named.

## 1. The system

| Component | State | Operations | Talks to | What is hard | Correct when |
|---|---|---|---|---|---|
| Realtime hub `internal/realtime/hub.go` | `clients`, `rooms`, `perAccount`, one goroutine | register, unregister, publish, publishTo, kick, live, closeSet, members, stop | every HTTP handler, game, the admin API, the sweep, over channels | three indexes of one fact; callers that give up half-way; eviction inside a broadcast; shutdown racing a registration | indexes agree, caps hold, nobody is dropped silently, a drain tells everybody, no caller waits for ever |
| Connection pumps `internal/realtime/conn.go` | send buffer, one-slot close request, two goroutines, the socket | TrySend, Close, Refuse, Serve, readPump, writePump, windUp | the hub, the peer, the process's exit | four parties ask for a close; cancellation racing a write; a peer that vanishes | one reason, the first, reaches the peer as its last frame; the pumps end |
| Sweep `internal/realtime/revalidate.go`, sessions `internal/session` | the snapshot and the answer in flight; session rows | snapshot, query, close; Create, Resolve, Revoke | hub, database | acting on stale data; a database error is not a verdict | no socket outlives its authorisation, none is closed without cause |
| Accounts `internal/account`, `internal/httpapi/{auth,admin}.go` | account rows, sessions, one setting | login, approve, block, promote, demote, forget | database, hub, games | check-then-act over separate statements; a statement that fails | a superadmin keeps access, a person is one row, a login changes nobody's standing |
| VANYADUM `internal/gamevanyadum` | a building, its slots, occupants with queues and budgets, a ledger of who was sent the standings, a writer queue | hello, input, tick, level fetch, purge | hub, database, the browser's predictor | one loop and many read pumps under one lock; frames repeated, dropped and late; places that change hands | tables agree, nobody is mislabelled, no command counts twice or is forgotten, nobody outruns the clock |
| FinTech `internal/gamefintech` | the floor in force, an office with its occupants, props and two men, a ring of past positions, a queue of finished shifts; layouts and shifts in the database | start, leave, input, redirect, router, tick, install, rotate, purge | hub, database | several parties end one shift; a floor that changes by day and by hand; path-finding on a grid beside continuous bodies; catches judged in the past | a finished shift is recorded once, a floor never changes under one, a restart finds the same room, bodies stay out of furniture |
| Vanyagotchi `internal/gamevanyagotchi` | placements with walks, a display cache, a world cache, a queue of positions; pets, stats, events and objects in the database | hello, tap, goto, verbs, tick, flush, forget | hub, database | lazily derived stats; statements of two devices interleaved; caches read before a lock; a flush at shutdown | a chosen place is kept and comes back, stats are the replay of events, a death is the derived one, there is always one key and one crate |
| Khimki `internal/gamekhimki` | the run in the browser, runs and boards in the database, a language model outside | start, turn, finish, board | database, LLM | an answer nobody can trust; state that only the browser carries | themes are earned and kept, a run ends, rows are runs |
| Wishlist `internal/wishlist` | items, comments, votes | create, vote, comment, moderate | database | separate statements | votes count once per account |
| Web client `web/src` | socket, stores, predicted state | connect, reconnect, predict, reconcile | the server | retry policy; reconciliation | terminal refusals stop retries; prediction converges |

The hub is the centre. HTTP handlers upgrade sockets into it, games publish
through it and are called back from read pumps, the admin API and the sweep cut
sockets out of it, and `main` shuts everything down in the order hub, games,
HTTP server.

## 2. The modules

| Module | Models | How |
|---|---|---|
| `Registry` | what the hub promises | three variables: held, told, open |
| `Hub` | `hub.go` and the callers' side of its channels | one action per case of `Run`'s select, one per caller-side select; a rendezvous is one step, a buffered channel is a bounded sequence |
| `HubProofs` | | theorems about `Hub` |
| `Conn` | `conn.go` around one socket, and the process's exit | one step per select, write or read of each goroutine |
| `ConnProofs` | | theorems about `Conn` |
| `Accounts` | login and the admin API over the account table | one step per database statement; several requests in flight |
| `Access` | sessions, upgrades, kicks and the sweep | the sweep in its three phases; `lapsed` and `doomed` are history variables |
| `AuthProofs` | | theorems about `Accounts` and `Access` |
| `Building` | VANYADUM's service loop, roster, standings, and what each browser holds | hello, fetch, adopt, purge and tick interleave at the service's lock; the hub drops any frame |
| `BuildingProofs` | | theorems about `Building` |
| `Intake` | Enqueue and Advance for one account, for any frames | one loop iteration per step; `excess` is a history variable, the time simulated beyond the time passed |
| `Commands` | `Intake` behind a client: predictor, sockets, ready frames, snapshots | two read pumps of one account may be alive at once; a page may reload and a building be replaced |
| `CommandsProofs` | | theorems about `Intake` and `Commands` |
| `Shifts` | FinTech's service: requests, installs, the loop, the writer, the process | one step per critical section or statement; two processes over one database; `gone` and `crossed` are history variables |
| `Floor` | the generator, the validator, the geometry and the grid of the office | pure operators over whole units of 5 cm |
| `Office` | the simulated step and the clients' calls into it | `Advance` in the code's order, over `Floor`; `past` and `onFloor` are history variables |
| `FinTechProofs` | | theorems about `Shifts`, `Floor` and `Office` |
| `Yard` | one account's placement, its hellos, saves and restarts | ticks, hellos, journeys, the writer, the flush and the process interleave; other accounts are noise in the queue |
| `Pets` | one pet: decay in closed form, verbs, the event log, death and revival | two handlers of the account, one step per statement; `replay` is what the events fold to, `crossed`, `owed` and `misdrawn` are history variables |
| `Objects` | the key, the crate, the litter and the cache they are judged by | players race at the statement; `stocked` and `overtaken` are history variables |
| `VanyagotchiProofs` | | theorems about `Yard`, `Pets` and `Objects` |
| `Dialogue` | a run of Khimki in the browser, its judge, its rows and boards | a line is the set of themes its words touch; the judge may answer anything |
| `DialogueProofs` | | theorems about `Dialogue` |
| `MCHub`, `MCAccounts`, `MCAccess`, `MCBuilding`, `MCOffice`, `MCDialogue` | instances | values of the constants only |

`Commands` EXTENDS `Intake` and its steps are `Intake`'s conjoined with what the
client sees. `Hub` instantiates `Registry` (`live <- clients, told <- closing,
open <- ~done`). `Access` takes the hub as its set of registered sockets and
leaves the admin's role checks to `Accounts`. `Conn` and `Hub` share the close
request: `Hub` assumes of a socket that was asked to close that its pumps end,
which is `ServeReturns` of `Conn`. `Office` EXTENDS `Floor`; `Shifts` lets the
simulation catch anybody at any tick and leaves the chase to `Office`. `Pets`
leaves who wins a contest to `Objects` and where a pet stands to `Yard`.

Data is abstract throughout: a frame is its kind, a command its number, its
claimed time and the predictor it came from, a person an identity. The
definitions named `...Off...`, `...Silently`, and so on, marked "Mutant of", are
used by no specification; they are the faults the properties are tried against.

### Where the models are coarser than the code

- `Hub`: `Members` and `liveCredentials` only read and are not actions. What
  they would return is the state.
- `Conn`: the websocket library is external. A write that fails closes the
  socket, a ping needs the read pump, and dropping the socket fails the read.
- `Accounts`: one person logs in from one provider. Encryption, consent and
  the OAuth exchange come before the first modelled step.
- `Building`: a tick counts time; `AbandonGrace` is in ticks. A client whose
  standings frame the hub dropped is not followed until its next one. The
  answer to a hello is published after the unlock, as in the code.
- `Commands`: the two minutes of `AbandonGrace` are taken to outlast whatever a
  dead socket's read pump still holds. A ready frame leaves in the step that
  reads its mark, because a mark raised meanwhile is stale either way. `world`
  on a snapshot is unused. Purges are in `Building` only.
- `Shifts`: time is the renovation day. Whether a shift was long enough to be a
  row is chosen when it ends. A floor is its kind and its day; that a day can be
  drawn at all is the constant `Thin`.
- `Office`: a step of the model is four of the game's. A queue is two commands
  in one direction, a diagonal is rounded to the unit, the sine of a drunk man's
  sway is one of its extremes or its middle. Dashes, pay, the tempo, the two
  colleagues who do not play, faces, speech and windows are left out; the command
  budget is VANYADUM's, which `Intake` models.
- `Yard`: the plane is a line of three points and a walk crosses one per tick.
- `Pets`: time is in hours with small rates, chosen so that every penalty sets in
  and a pet dies within the run; instants of crossing are in sixths of an hour, so
  that they are exact. Mood, gifts and speech are left out.
- `Objects`: a location's spots are the same for all. A gate that fails is a step
  not taken; a transaction that loses is rolled back.
- `Dialogue`: the wording of the prompt is left out, what it asks for is kept.
  Whether an option is blank is chosen when it is clicked; the greeting's own are
  not. A blank option is asked about, but is no exchange, no step and no reason to
  finish (`GameKhimkiView.vue:366` and `:384`).

## 3. The runs

| Run | Shows | Instance and why it is enough |
|---|---|---|
| `hub` | `RegistryIsSound` (types, `IndexesAgree`, `CapsHold`), `NobodyIsDropped` (`NobodyForgotten`, `DrainIsComplete`), `KickReaches`, `HandlersComeBack`, and `Hub` implements `Registry` | three sockets in one room, two of one account; one per account, buffers of 1, eviction at the first overflow: every buffer and counter is reached and passed. The total cap does not refuse by itself here; that it holds for any caps is proved |
| `conn` | `ReasonIsHeard` (types, `FirstReasonHeard`, `ReasonReachesPeer`, `AtMostOneMoreFrame`), `AskedIsHeard`, `ServeReturns` | two queued frames, so that one more than allowed could go out; a bucket of one, so that the limiter fires |
| `accounts` | `AccountsAreSound` (types, `SuperadminKeepsAccess`, `OneRowPerPerson`), `LoginKeepsStanding` | the superadmin, a newcomer with two ids (forgotten, then new), two admin requests: every pair of handlers interleaves |
| `access` | `KicksAreKept` (types, `KickIsNeverLost`), `SweepClosesOnlyLapsed`, `UnauthorizedIsCut` | one account, two sessions, two sockets, a kick channel of one |
| `building` | `RosterIsSound` (types, `TablesAgree`, `SnapshotIsNamed`, `GeometryIsCurrent`), `ConnectedStay` | three accounts for two slots, so that a slot changes hands and one is refused; two buildings, three joins, a purge |
| `commands` | `IntakeIsSound` (`QueueOrdered`, `NoFasterThanRealTime`), `NumbersAreSound` (types, `OneNumberOneCommand`, `ResumedIsHeard`), `KeptUntilStepped`, `HeadIsStepped`, and `Commands` implements `Intake` | two predictors of two commands, two sockets with two frames each, two buildings, a queue of one; a command claims 5 and is clamped to 3 of a cap of 4, so the budget runs dry and fills |
| `shifts` | `ShiftsAreSound` (types, `OfficeIsCurrent`, `ExactlyOnePlace`, `SameRoomAfterRestart`), `FloorStandsStill`, `QueuedIsWritten`, `AbandonedShiftEnds`, `EveryDayIsDealtWith` | two employees and two shifts for a queue of one, so that one is dropped; two processes, so that a restart meets what the first one stored; three days, the second undrawable, so that a rotation is refused and the next one is not; one install |
| `office` | `StepIsSound` (types, `BodiesAreClear`, `PropsApart`, `RewindIsTrue`), `NobodyIsCheated` (`StandingPropStays`, `ClaudeGetsHisTurn`), `StandingIsReached` | every floor of two desks the generator can draw in a room of six metres by seven, two employees, three inputs; reaches, radii and the grid are the game's own |
| `yard` | `DeparturesAreSound` (types, `DepartureIsKept`), `PlacesAreKept` (`PlaceIsKept`, `StoredPlaceReturns`), `AwayIsSettled` | three points, a queue of one that other departures fill, a database that may refuse, any number of restarts |
| `pets` | `ClosedForm`, `StoryIsOne` (types, `SnapshotIsReplay`, `DeathIsDerived`, `RowIsDrawn`) | two handlers, three requests, three hours: long enough to die, be recorded, revive and be moved |
| `objects` | `WorldIsStocked`, `CacheIsTrue` (types, `FixturesAreDrawn`), `CacheIsPutRight` | two players, two places with one hiding place each, between which the key moves, and no symmetry, which liveness forbids; a crate of two, so that it is drawn from and emptied; a cap of two per place with a deposit, so that litter competes |
| `dialogue` | `ThemesAreTrue` (types, `ThemesAreEarned`, `TalkOpens`), `PromptIsTrue` (`PromptIsHonoured`, `NeverHammered`), `EndingsAreTrue` (`SilenceEndsTheRun`, `RowsAreRuns`, `BoardsRank`), `TurnsAreKept` (`ProgressIsKept`, `TurnComesBack`) | two themes, four turns over up to two games with a window of two, so that talk falls out of it; one rival and boards of one row, so that the cut decides |

A checked property is a conjunction of named parts, given in brackets; "types"
is the module's `TypeOK`. Every other part has at least one mutant of its own.
Deadlock is checked except where the
system may stop: `conn`, whose socket ends, `commands`, whose numbers, sockets
and pages are bounded, `shifts`, whose last process may stay down, `office`, whose
inputs are bounded and which may be empty, and `dialogue`, whose turns are.

### Fairness

- `Hub`: a Go select takes a case that stays ready, and a goroutine that can run
  does: the hub reads a queued kick and its cancelled context, and a handler
  takes whichever step moves it on from its phase. Nobody is obliged to connect,
  publish, kick or stop the process.
- `Conn`: writes and pings end (`writeTimeout`), the ping ticker fires again and
  again (strong fairness, because a frame may be taken first any number of
  times), and a read fails once the socket is dropped. A read from a peer that
  vanished need never fail, and a peer need never speak.
- `Access`: the sweep's ticker goes on, the hub reads its channels, and the
  database answers infinitely often among its failures.
- `Commands`: the ticker goes on, a critical section ends, and Go's mutex hands
  itself to a waiter that would otherwise starve (strong fairness of the tick).
  Nothing is assumed of the client.
- `Shifts`: the ticker goes on and, now and then, carries the current day
  (strong fairness: a stamp may be late any finite number of times); the writer
  runs while the process does, and a loop that was told to stop returns. Writes
  may fail. Nothing obliges anybody to start, leave, install or boot.
- `Office`: the ticker goes on while the office is open. Nothing is assumed of
  the clients.
- `Yard`: the writer's and a hello's statements return, well or badly. The ticker
  is a hypothesis of `AwayIsSettled` only.
- `Objects`: a handler's statements return, well or badly. That a read of the table
  succeeds again and again, that the key or the crate comes to rest and that the
  process stays up are hypotheses of `CacheIsPutRight` only.
- `Dialogue`: the judge's and the database's calls have timeouts, so that each
  comes back, if only as an error. A usable answer is never promised.

### Disagreements between code and text

Each of these is a definition of the module named, stated as the text has it and
listed under no run. Added to the run's configuration, TLC refutes it in the
model of the code. Where a checked property has an exception, the exception is
exactly this case.

| Definition | The text | The code |
|---|---|---|
| `Hub` `MembersAreConnected` | `hub.go:426` "Members reports who is currently connected to a room" | `Register` (`hub.go:371`) may return on its context after the hub admitted the socket; the handler never unregisters it |
| `Conn` `DrainExplainsItself` | ADR-017:14 "Draining first gives every connected client a reason" | `main.go:237` waits for the hub, not for the write pumps |
| `Accounts` `RootIsUnrevokable` | `admin.go:266`, ADR-009:15 "One unrevokable root" | `admin.go:245`: promoting the superadmin sets its role to admin |
| `Accounts` `ForgottenStaysOut` | `migrations/011:55` "the login path must never resurrect one" | approving does not look at `forgotten_at`, and a login that straddles the forget inserts its session afterwards |
| `Commands` `ResumedIsAlwaysHeard` | `world.go:872` "not one of them is dropped" | the mark of a ready frame (`service.go:513`) may be passed while it travels |
| `Shifts` `DoneMeansWritten` | `service.go:220` "the last write has been attempted" | `Done` is closed when the loop returns; the writer may hold a shift, and a shift in progress is never queued, although `main.go:265` counts on it. VANYADUM's visits have the same writer (`service.go:158`) |
| `Shifts` `SameRoomAlways` | `renovation.go` "a restart, a deploy and a missed 21:00 all produce the same room" | an install that overlaps a rotation or a boundary leaves a floor in force that the table does not name |
| `Yard` `DoneMeansWrittenDown` | `service.go:534` "everybody standing in the yard has been written down" | a broadcast refused by a closed hub returns before the flush (`service.go:519`) |
| `Yard` `NobodyInTheCorner` | `service.go`, of the spawn: "not at the origin, which is the corner of the plane" | the rate limits (`allowVerb`, `allowGoto`) store a zero placement that is not provisional |
| `Objects` `ClaimIsSearched` | `world.go` "only somebody actually standing in a place is ever told whether it was empty" | `ClaimSingleton` asks for the location only; the spot was judged by a cache that may be behind (refuted once a place has two spots: `Spots = {bush, bench}`) |
| `Dialogue` `ForgottenStaysPut` | `llm.go:225` "a model that forgets the field must leave the tension where it was" | an omitted tension drifts up (`llm.go:336`), as the comment there (`:333`), the one on `angerDriftOnMissing` (`:52`) and `llm_test.go` say. `SilenceEndsTheRun` follows the code; its mutant `NewAngerStill` is what `llm.go:225` describes |
| `Dialogue` `RunGoesOn` | `llm.go:335` "every run still converges on an ending" | an option the model left blank may be offered and clicked; if the answer then has no options, the view neither finishes (`GameKhimkiView.vue:384`) nor offers anything |
| `Office` `NoPathIsAGuard` | `navigate.go:108` "the unreachable case is a guard rather than a state" | the bald man, flush with a desk that is off the grid's lines, stands in a cell whose middle is inside the furniture: the flood never reaches it and he grinds where he is |

Three exceptions of checked properties have no text against them but are worth
knowing. `Pets`: two handlers of one account that cross both fold the snapshot
they read, and the later write wins (`crossed`); a crash between a revival's
commit and its `Revive` leaves a live pet with `died_at` set (`owed`); a
`remember` that read before a move redraws the old place (`misdrawn`).
`Objects`: `loadWorld` reads before it locks, so that an older read may replace
a newer one (`overtaken`), until a later read puts it right (`CacheIsPutRight`). `Building`: a standings frame dropped for a slow
socket is not repeated before the next cadence (`hub.go:249`).

Read in passing, outside the models: a redirect is aimed at somebody in a cloud
although `Invincible` says he cannot be seen (`office.go:749` and `:1137`); the
head start of a spawn ignores the tempo (`office.go:382`); `boss.go` opens with
"He does not path-find"; an empty string where the judge should give the tension
is read as 0, while `llm.go:180` calls it absent.

## 4. The proofs

Every theorem holds for every value of the constants that the named assumption
of its module admits; the run beside it is the small instance on which the
inductive invariant was found. An inductive invariant is a conjunction of named
parts, called `IInv` (`AccessInv`, `YardInv`, `PetsInv` and `DInv` in `Access`,
`Yard`, `Pets` and `Dialogue`). Each module has one lemma per action or group of
actions, and the temporal theorem at its end combines them. `AuthProofs` proves
about two modules, `FinTechProofs` and `VanyagotchiProofs` about three each, which
share no name and no state. `Office` names its specification `OfficeInit`,
`OfficeNext`, `OfficeSpec`, so that one module can extend it and `Shifts`.

### Hub (`HubProofs`)

Proved for any sockets, accounts, rooms, caps and buffers, from
`HubAssumption`: type correctness, `IndexesAgree`, `CapsHold`,
`NobodyForgotten`, `DrainIsComplete` (together `RegistryIsSound` and
`NobodyIsDropped`), and that `Hub` implements `Registry`.
The inductive invariant is

    IInv == TypeOK /\ IndexesAgree /\ CapsHold /\ Phases

`Phases` ties the phase of a handler to the registry and the close requests. It
is needed because `NobodyForgotten` says nothing of a socket between the hub's
answer and `Serve`, from where the next step makes it served. `CapsHold` needs
`IndexesAgree`, since the code compares `perAccount` with the cap. `OfMinus` and
`OfPlus` do the counting.

### Connection (`ConnProofs`)

`ReasonIsHeard`, for any send buffer and any burst. `FirstReasonHeard` and
`ReasonReachesPeer` speak of a pump that has said good-bye, so the invariant has
to say what makes it say the right thing: `Request` follows the first reason from
`closeOnce` through the one-slot channel into the pump's hand, `Wire` keeps the
socket open and silent of reasons until then, and `Late` says that a pump which
let one frame past a request is on its way to the bye.

### Accounts (`AuthProofs`)

`AccountsAreSound` and the action property `LoginKeepsStanding`, for any ids,
people and requests in flight. A handler checks a row that may have changed by
the time its statement runs. What saves the superadmin is that the one fact the
check must establish, that the target is not the superadmin, cannot become
false, because no statement writes that role: `Spared` carries it from
`ReadTarget` to the statement. `Unique` and `Anonymous` are what makes
`UpsertOnLogin` find at most one row.

### Sessions and the sweep (`AuthProofs`)

`KicksAreKept` and the action property `SweepClosesOnlyLapsed`, for any
sessions, sockets, accounts and capacity of the kick channel. The sweep acts on
a snapshot and an answer that are both stale; its excuse is again a fact that
cannot become false, that the authorisation did end. `Relied` says that the
history variable misses no such end, `Answered` that the answer in flight names
only such sockets.

### Building (`BuildingProofs`)

`RosterIsSound` and the action property `ConnectedStay`. The roster version is
what makes the directory right: it grows with every change of the slot table
(`Versions`), so a tick that finds it where it was published finds the table its
boarded clients were sent (`Directories`, `Snapshots`). `Fresh` is what saves a
client that said hello after the tick counted the connections.

`RosterIsSound` contains `GeometryIsCurrent`, and that part does not hold for
every assignment of accounts to connections. With two tabs of one account and a
purge of it between them, the second tab's hello opens the next building while
the first still draws the last: its account is inside, and no frame tells it to
fetch. `forget` kicks the account's sockets, so the window is that of a kick that
has been queued and a tab that has not been closed by it. `Building` takes a purge
without the kick, hence the two forms of the theorem: `RosterAlwaysSound` for one
connection per account (`OneTab`, the run's instance, purges included), and
`GeometryUntilPurge` for any connections until the first purge.
`RosterAlwaysNamed` states the rest of `RosterIsSound` with neither condition.

### Input (`CommandsProofs`)

Proved for any caps with `TickLen <= BudgetCap` and `MaxStep < BudgetCap`, and
for every sequence of frames with any numbers and any claimed times:
`QueueOrdered` and `NoFasterThanRealTime`, together `IntakeIsSound`.

`QueueOrdered` is inductive together with the types. `NoFasterThanRealTime`
bounds a running total and is not: a tick that overdraws by what it had banked
must leave that much less in the bank. `BudgetInv` says so. Between ticks,
`excess = 0 \/ excess + budget <= BudgetCap - TickLen`; inside one, `excess +
spent + budget <= BudgetCap`, and a tick that has spent nothing still holds a
tick's length, which is why the idle fill can be charged in full.

`Commands` puts a client in front: `Refinement` shows that it takes only
`Intake`'s steps, so the above holds of its frames too. `NumbersAreSound` and the
action property `KeptUntilStepped` are then proved for any numbers of predictors,
sockets and buildings and any lengths of the queues. A ready frame carries the
mark of the moment it was published and is read later, past a cut, a reload or
an adoption. `Marks` says of such a frame still on its way what
`ResumedIsHeard` will need of it, `Held` the same of the mark an adoption keeps
for the predictor to come, and `Greeted` that no hello is answered twice on one
socket. `Sent` bounds what the client may have in flight by the counter of its
predictor, and `Acks` keeps every acknowledgement, published or not, at or below
the last number stepped, which is why reconciling drops nothing that is queued.

`Commands` filters with `Picked`, by ranks, where a specification would use
`SelectSeq`: the latter is recursive, and `PickedFacts` (the elements accepted,
each once and in order) is needed in both directions.

### Shifts (`FinTechProofs`)

`ShiftsAreSound` and the action property `FloorStandsStill`, for any finite set
of accounts, any administrators, capacity, queue, grace, days that cannot be drawn
and bounds. The core is `Placed`: the shifts worked, queued, being written, in the
table and gone are five disjoint sets that make up `1..started`. An end moves a
set of shifts at once, in order of account, to the queue and to the dropped ones,
so the proof needs that the ranks of a finite set of numbers are the first numbers
(`RankFacts`, by counting: an injection of a set into as many numbers is onto).
`SameRoomAfterRestart` needs `Floors`, what a booting process has read so far, and
`Resting`, that a process which is down holds nothing.

### The floor and the office (`FinTechProofs`)

`StepIsSound` and the action property `NobodyIsCheated`, for any size of floor,
furniture, radii, speeds, timers, capacity, employees and bounds, from
`FloorAssumption` and `OfficeAssumption`. Of these the ones that carry weight are
the code's own: a gap between solids has room for two of the largest disc
(`ResolverFloor` in `layout.go`), the spawns are among the fixed points and on the
floor, and a spot's clearing holds the square round a disc. The last is true of whole
units: `SpotClear` is a distance and the furniture is grown as a square, so it is the
lattice of the generator, and not the two constants alone, that leaves no spawn in a
corner. Every employee, every round trip and every draw is covered; nothing is assumed
of the order of joins, inputs and steps.

A move is resolved by clamping it and pushing it out of each solid once, so the
question is whether a later push undoes an earlier one. `OnePassIsEnough` says
that on a floor whose solids keep their gaps it does not: a pushed body touches the
solid it was in, and is therefore clear of every other and of the walls.
`OfficesArePlayable` says that whatever the generator drew keeps those gaps. From the two,
`BodiesAreClear` is a step of the invariant:

    OfficeInv == plan \in Layouts /\ OccOk(plan, occ) /\ MenOk(plan, boss, claude)
              /\ RingOk(trail, tick, past) /\ RedirectOk(redirect)
              /\ RouterOk(router, onFloor) /\ PropsOk(bottles, hookahs) /\ used \in 0..Inputs

`RingOk` holds the ring against the history cell by cell, which `RewindIsTrue` (a
statement about the lags that occur) does not: the next tick reads cells nobody has
asked about yet. `RouterOk` relates what is left of the wait to how long Claude has
been on the floor, of which `ClaudeGetsHisTurn` speaks at one moment only. `PropsOk`
is inductive with the types, because no more props of a kind are asked for than it
has spots, so that whoever draws next finds a free one (by counting).

The code's loops over the furniture, the wishes, the props and the employees are
recursive functions. Of each it is shown that it has a solution (`StepsThrough`),
and that a solution keeps what each of its steps keeps (`StepByStep`). What a
pursuer aims at plays no part: wherever the flood sends him, his step is resolved
like any other.

### The world's objects (`VanyagotchiProofs`)

Proved for any players, locations, hotspots, stock and cap of at least two per
location, from `ObjectsAssumption`: `WorldIsStocked`, `CacheIsTrue`, and that every
variable keeps its type.
`WorldIsStocked` needs the types, since a claim or a draw is only replaced by a
row of its own kind; the types need `WorldIsStocked`, since what the listing
leaves for the litter is the cap less the fixtures of the place, a number only
while there is at most one of each.

`CacheIsTrue` speaks of a quiet moment. `Followed` says how it comes about:
a deposit fades from every copy by the time it fades from the table, so none shows
more than the table (`NoGhosts`); a copy about to be stored is the table's, unless
marked stale (`ReadsCopy`); and the cache is the table's or somebody is on the way
to refresh it (`CacheFollows`). That a cache which is behind catches up
(`CacheIsPutRight`) is liveness and stays with TLC.

### A placement in the yard (`VanyagotchiProofs`)

`DeparturesAreSound` and the action property `PlacesAreKept`, for any grace
period and capacity of the queue, on the line `Yard` draws the plane as.
`DepartureIsKept` is nearly inductive:
the newest departure is in the queue, in the writer's hand or in the row, and the
writer takes the queue from its head, so a newer one is never overwritten by an
older. What it leaves open is where a departure comes from. `Noticed` says that a
placement handed to the writer was chosen by somebody, so that a tick which finds
it provisional is not answering for a departure; `Gathered` that a process which
is down holds none; `Reads` that a hello past the sleepers' query carries a
place. `Yard` speaks of the newest of the departures waiting by their places in
the queue (`Queued`, `Newest`) and not by a filtered sequence, which would be
recursive.

### A pet (`VanyagotchiProofs`)

`StoryIsOne`, for any devices, requests, places, hours, thresholds and starts.
What could go wrong happens between two statements, so the invariant says what a
handler carries there. `Timely`: it was so at some time and not after now, which
is why a derived death is never in the future. `Current`: unless the pet changed
under it (`stale`), it is so still; at "tx" what it is about to write is the verb
applied to the rows as they are, at "mark" the death it is about to record is
the one the rows derive. `Drawable`: unless he has been moved since, the place it
is about to draw is his. A commit then writes what its event folds to
(`FoldFollows`), although the log never learns of a recorded death: a verb but a
revival is refused to the dead, and a revival asks nothing about it
(`DeathRegardless`).

`ClosedForm`, for any rows within their bars. `HourStep` is one hour: AtWith an
hour later is the hour's drain from AtWith now, because a penalty holds at an hour
exactly if its onset is not after it (`HoldsThen`). `HourByHour` is a recursive
function, so to reason about it at all it must be shown to have a solution: the
closed form is one (`HourByHourIs`), and there is no other, for there is no least
hour at which one could differ (`LeastHour`). `DeathIsFloor` walks the segments of
DeadAtWith through every order of the onsets: he is dead at an hour if and only
if the solved instant is not after it.

### Dialogue (`DialogueProofs`)

`ThemesAreTrue`, `PromptIsTrue`, `EndingsAreTrue` and the action property
`ProgressIsKept`, for any themes in any order, any thresholds with
`ConfirmTurns <= AutoDoneTurns`, any window, any rivals, any limit of a board and
any number of turns and games. What the
judge is asked is worked out when the line is chosen, and its answer is weighed
against the talk as it is when it comes: `Waits` says that these are the same,
because the browser takes no other step meanwhile, and that a blank line touches
no theme. `Lengths` ties the run's
steps to its talk, so that no count leaves its type. The rest is arithmetic on
how often a theme was talked about (`MentionsAppend`) and how often an option
was aimed at it (`HammeredAppend`). `Rising` makes silence end the run: every turn whose
tension is left out raises it by `Drift` or puts it at the top of its scale, and
a run at `AngerLoseAt` or above is over.

`First` and `Least` are the loops of `steerTheme` and `currentTopic`; that they
return one of the themes they are given needs the least of a set of numbers
(`LeastNumber`, from the well-foundedness of the naturals).

`EndingsAreTrue` has two more parts. For `RowsAreRuns`, `RowsFollow` keeps, beside
the place in `ended` that each row of the player's came from, what holds while a
run is being sent: it is the last that ended, and no row is its own yet; so a row
written then goes to the end whatever has been started meanwhile
(`TableGrows`), and a run that ends disturbs none (`EndedGrows`). For `BoardsRank`,
a board's order is total on the records (`BeforeOrders`), and in a total order on
a finite set an element's place is one more than the number of those before it,
in whatever way the set was sorted (`PlacesInOrder`, `CanBeSorted`, `SortedFacts`);
those before an account's record are just the records of the accounts that beat
it (`BeatersAre`), of which each has one (`RecordIs`, `AllRecordsAre`).

### Only model-checked

Liveness (`KickReaches`, `HandlersComeBack`, `AskedIsHeard`, `ServeReturns`,
`UnauthorizedIsCut`, `HeadIsStepped`, `QueuedIsWritten`, `AbandonedShiftEnds`,
`EveryDayIsDealtWith`, `StandingIsReached`, `AwayIsSettled`, `CacheIsPutRight`, `TurnComesBack`) is
beyond this prover. So is that `Flood` finds every cell there is a way to: nothing
proved depends on it, and what a recursion reaches after any number of rings is
an induction over data.

The bounds of the models (`MaxShifts`, `Inputs`, `Turns`, `Wishes` and the others
named in a module's assumption) are constants like any other, so what is
proved holds for every value of them.

## 5. Not modelled

- OAuth clients, field encryption, configuration, logging, static files,
  deployment scripts: input/output and formatting, no state a property is about.
- VANYADUM's physics, shots, pickups, creatures and lag compensation, and its
  visits' writer; the rendering of every game.
- FinTech's dashes, pay, tempo and colleagues; Vanyagotchi's gifts, moods and
  speech.
- The wishlist: single statements over unique indexes, no state of its own.
- The browser's socket with its backoff; the sockets of `Commands` and `Building`
  open and break in any order instead.

## 6. The plan

Done: `Registry`, `Hub`, `Conn`; `Accounts`, `Access`; `Building`; `Intake`,
`Commands`; `Shifts`, `Floor`, `Office`; `Yard`, `Pets`, `Objects`; `Dialogue`; the
proofs of section 4.

Next, in this order:

1. The rest of VANYADUM's world: pickups and their respawn, wounds, deaths and
   protection, the creatures, the rewind history, the visits' writer.
2. The tempo and the pay of the office, for the head start.
3. `Socket`: `web/src/realtime/socket.ts`, its backoff and its terminal refusals,
   against a server that refuses, evicts and restarts.
