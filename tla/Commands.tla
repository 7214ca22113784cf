------------------------------ MODULE Commands ------------------------------
(***************************************************************************)
(* VANYADUM's input from end to end (web/src/lib/vanyadumPredict.ts in     *)
(* front of module Intake): one account's commands, from the predictor     *)
(* that numbers them to the tick that steps them and back to the predictor *)
(* as an acknowledgement.                                                  *)
(*                                                                         *)
(* Every frame repeats the tail of what is unacknowledged, sockets come    *)
(* and go with frames in them, pages reload and buildings are replaced     *)
(* under a living occupant, and each of the two ends counts for itself.    *)
(* A command is its number, the time it claims and the predictor it comes  *)
(* from; what it does to the player is not modelled.                       *)
(***************************************************************************)
EXTENDS Intake, FiniteSets

CONSTANTS
    MaxFrame,       \* MaxCommandsPerFrame + RedundantCommands
    Redundant,      \* RedundantCommands
    Dts,            \* the times a command may claim
    MaxSeq,         \* bound: a predictor's counter
    MaxPredictors,  \* bound: page loads and rebuilt buildings
    MaxConns,       \* bound: sockets
    MaxUp,          \* bound: frames in a socket, client to server
    MaxDown,        \* frames in a socket, server to client; the hub drops more
    MaxWorlds       \* bound: buildings

ASSUME CommandsAssumption ==
    /\ MaxFrame \in Nat \ {0} /\ Redundant \in Nat
    /\ Dts \subseteq Nat
    /\ MaxSeq \in Nat /\ MaxPredictors \in Nat \ {0} /\ MaxConns \in Nat
    /\ MaxUp \in Nat \ {0} /\ MaxDown \in Nat \ {0} /\ MaxWorlds \in Nat \ {0}

VARIABLES
    world,      \* the latest building, and whether it stands
    link,       \* the client's socket: open or not, and how many there have been
    up,         \* frames in the current socket, and in the one before it
    down,       \* frames on their way to the client
    client,     \* the page: its predictor, its outbox, and whether it was told this socket's mark
    since       \* the predictors heard from since the current socket's hello

vars == <<intakeVars, world, link, up, down, client, since>>

Commands == [seq : 1..MaxSeq, dt : Nat, by : 1..MaxPredictors]
Frames == [kind : {"hello", "input"}, cmds : Seq(Commands)]

(* A predictor of the building w, counting from seq. *)
Predictor(p, w, seq) ==
    [by |-> p, world |-> w, seq |-> seq, pending |-> <<>>, outbox |-> <<>>,
     told |-> FALSE, adopting |-> FALSE]

TypeOK ==
    /\ IntakeTypeOK
    /\ world \in [id : 1..MaxWorlds, stands : BOOLEAN]
    /\ link \in [open : BOOLEAN, count : 0..MaxConns]
    /\ up \in [now : Seq(Frames), old : Seq(Frames)]
    /\ down \in Seq([kind : {"ready", "snap"}, seq : 0..MaxSeq, world : 0..MaxWorlds])
    /\ client \in [by : 1..MaxPredictors, world : 0..MaxWorlds, seq : 0..MaxSeq,
                   pending : Seq(Commands), outbox : Seq(Commands),
                   told : BOOLEAN, adopting : BOOLEAN]
    /\ since \subseteq 1..MaxPredictors

(* The page has fetched the level, which generated the building. *)
Init ==
    /\ IntakeInit
    /\ world = [id |-> 1, stands |-> TRUE]
    /\ link = [open |-> FALSE, count |-> 0]
    /\ up = [now |-> <<>>, old |-> <<>>]
    /\ down = <<>>
    /\ client = Predictor(1, 1, 0)
    /\ since = {}

----------------------------------------------------------------------------
(* The client. *)

(* apply: a command is numbered, predicted and queued for sending. *)
Apply(dt) ==
    LET c == [seq |-> client.seq + 1, dt |-> dt, by |-> client.by] IN
    /\ ~client.adopting
    /\ client.seq < MaxSeq
    /\ client' = [client EXCEPT !.seq = @ + 1, !.pending = Append(@, c),
                                !.outbox = Append(@, c)]
    /\ UNCHANGED <<intakeVars, world, link, up, down, since>>

(* How many of the places I come before i. *)
Rank(I, i) == Cardinality({j \in I : j < i})

(* Array.filter: the elements of s at the places I, in their order.  By    *)
(* ranks, as a theorem can say what it returns (CommandsProofs, Picked-    *)
(* Facts), which SelectSeq's recursion does not allow.                     *)
Picked(s, I) == [k \in 1..Cardinality(I) |-> s[CHOOSE i \in I : Rank(I, i) = k - 1]]

(* buildInputFrame: the repeated tail, then what is fresh, cut from the head. *)
InputFrame ==
    LET fresh  == client.outbox
        tail   == LastOf(client.pending, Redundant + Len(fresh))
        repeat == {i \in DOMAIN tail : \A j \in DOMAIN fresh : fresh[j].seq # tail[i].seq}
    IN  [kind |-> "input", cmds |-> LastOf(Picked(tail, repeat) \o fresh, MaxFrame)]

(* sendInput: the outbox is spent whether or not the socket takes the frame. *)
SendInput ==
    /\ client.outbox # <<>>
    /\ link.open => Len(up.now) < MaxUp
    /\ up' = IF link.open THEN [up EXCEPT !.now = Append(@, InputFrame)] ELSE up
    /\ client' = [client EXCEPT !.outbox = <<>>]
    /\ UNCHANGED <<intakeVars, world, link, down, since>>

(* onStatus: every open says hello. *)
Open ==
    /\ ~link.open
    /\ link.count < MaxConns
    /\ link' = [open |-> TRUE, count |-> link.count + 1]
    /\ up' = [up EXCEPT !.now = <<[kind |-> "hello", cmds |-> <<>>]>>]
    /\ UNCHANGED <<intakeVars, world, down, client, since>>

(***************************************************************************)
(* The socket dies.  What it was carrying to the client is lost; what the  *)
(* server has received of the rest, its read pump may still hand over,     *)
(* next to the pump of the socket that follows.                            *)
(***************************************************************************)
Cut ==
    /\ link.open
    /\ up.old = <<>>
    /\ \E n \in 0..Len(up.now) : up' = [now |-> <<>>, old |-> SubSeq(up.now, 1, n)]
    /\ link' = [link EXCEPT !.open = FALSE]
    /\ down' = <<>>
    /\ client' = [client EXCEPT !.told = FALSE]
    /\ UNCHANGED <<intakeVars, world, since>>

(* ensureWorld, within the bound. *)
EnsureWorld ==
    /\ lock.by = "nobody"
    /\ world' = IF world.stands THEN world ELSE [id |-> world.id + 1, stands |-> TRUE]
    /\ world'.id <= MaxWorlds

(* The page is loaded again, and fetches the level before it connects. *)
Reload ==
    /\ ~link.open
    /\ client.by < MaxPredictors
    /\ EnsureWorld
    /\ client' = Predictor(client.by + 1, world'.id, 0)
    /\ UNCHANGED <<intakeVars, link, up, down, since>>

(* Mutant of Resumed: the counter is set, not raised. *)
ResumedAnyway(seq, mark) == mark

(* resumeSequence, and the floor an acknowledgement puts under the counter. *)
Resumed(seq, mark) == Most(seq, mark)

(***************************************************************************)
(* The ready frame.  The mark goes to the predictor in hand; a building it *)
(* is not holding makes adoptBuilding throw that one away.  The mark it    *)
(* was called with then waits, in seq, for the new one, and a ready frame  *)
(* that comes meanwhile changes nothing: its mark is not taken.            *)
(***************************************************************************)
ReadReady ==
    /\ down # <<>> /\ Head(down).kind = "ready"
    /\ down' = Tail(down)
    /\ client' =
          IF client.adopting THEN client
          ELSE IF Head(down).world # client.world
          THEN [client EXCEPT !.adopting = TRUE, !.told = TRUE, !.seq = Head(down).seq,
                              !.pending = <<>>, !.outbox = <<>>]
          ELSE [client EXCEPT !.told = TRUE, !.seq = Resumed(@, Head(down).seq)]
    /\ UNCHANGED <<intakeVars, world, link, up, since>>

(* adoptBuilding's fetch is back: a predictor counting from zero, and the mark. *)
Adopt ==
    /\ client.adopting
    /\ client.by < MaxPredictors
    /\ EnsureWorld
    /\ client' = [Predictor(client.by + 1, world'.id, Resumed(0, client.seq))
                    EXCEPT !.told = client.told]
    /\ UNCHANGED <<intakeVars, link, up, down, since>>

(* reconcile: the counter's floor, and what is acknowledged dropped. *)
ReadSnap ==
    LET unacknowledged ==
            {i \in DOMAIN client.pending : client.pending[i].seq > Head(down).seq}
    IN
    /\ down # <<>> /\ Head(down).kind = "snap"
    /\ down' = Tail(down)
    /\ client' = IF client.adopting THEN client
                 ELSE [client EXCEPT !.seq = Resumed(@, Head(down).seq),
                                     !.pending = Picked(@, unacknowledged)]
    /\ UNCHANGED <<intakeVars, world, link, up, since>>

----------------------------------------------------------------------------
(* The service, in front of Intake. *)

(* What neither the world nor its queue has to do with. *)
clientVars == <<world, link, up, down, client, since>>

(* A frame to the client, which the hub drops when its buffer is full. *)
Publish(frame) ==
    down' = IF link.open /\ Len(down) < MaxDown THEN Append(down, frame) ELSE down

(* Mutant of Mark: what was stepped, not what was accepted. *)
MarkStepped == occ.last

(* Ready.Seq *)
Mark == occ.high

(***************************************************************************)
(* hello: the occupant is found or made, and the mark read under the lock. *)
(* The answer leaves with it; a mark raised meanwhile is stale on its way  *)
(* as it would be waiting to leave.  Nobody reads the old socket's answer. *)
(***************************************************************************)
Hello(pump) ==
    /\ up[pump] # <<>> /\ Head(up[pump]).kind = "hello"
    /\ EnsureWorld
    /\ Admit
    /\ up' = [up EXCEPT ![pump] = Tail(@)]
    /\ IF pump = "now"
       THEN /\ Publish([kind |-> "ready", seq |-> Mark, world |-> world'.id])
            /\ since' = {}
       ELSE UNCHANGED <<down, since>>
    /\ UNCHANGED <<link, client>>

(* parseInput: the newest of an over-long frame, each clamped. *)
Parsed(cmds) ==
    LET kept == LastOf(cmds, MaxFrame) IN [i \in DOMAIN kept |-> Sanitise(kept[i])]

(* Mutant of Input: the world is entered without its lock. *)
InputUnlocked(pump) ==
    /\ up[pump] # <<>> /\ Head(up[pump]).kind = "input"
    /\ Inside
    /\ lock' = [lock EXCEPT !.by = "enqueue", !.cmds = Parsed(Head(up[pump]).cmds)]
    /\ up' = [up EXCEPT ![pump] = Tail(@)]
    /\ UNCHANGED <<occ, snap, excess, world, link, down, client, since>>

(* HandleInbound, for an input frame. *)
Input(pump) ==
    /\ up[pump] # <<>> /\ Head(up[pump]).kind = "input"
    /\ Receive(Parsed(Head(up[pump]).cmds))
    /\ up' = [up EXCEPT ![pump] = Tail(@)]
    /\ UNCHANGED <<world, link, down, client, since>>

(* Enqueue's loop, and whose command it has accepted. *)
Enqueue ==
    /\ EnqueueOne
    /\ since' = since \cup (IF occ'.high > occ.high THEN {Head(lock.cmds).by} ELSE {})
    /\ UNCHANGED <<world, link, up, down, client>>

(***************************************************************************)
(* Advance, for an occupant who leaves: the grace is minutes, so nothing   *)
(* of his is left in a read pump.  The building goes with him if he was    *)
(* the last.                                                               *)
(***************************************************************************)
Leave(last) ==
    /\ ~link.open /\ up.old = <<>>
    /\ TickEndsWithoutHim
    /\ world' = [world EXCEPT !.stands = ~last]
    /\ UNCHANGED <<link, up, down, client, since>>

(* The last of the others leaves a building he is not in. *)
OthersLeave ==
    /\ lock.by = "nobody"
    /\ ~Inside /\ world.stands
    /\ world' = [world EXCEPT !.stands = FALSE]
    /\ UNCHANGED <<intakeVars, link, up, down, client, since>>

(* The snapshot reaches the socket, if there is one. *)
SendSnap ==
    /\ PublishSnap
    /\ Publish([kind |-> "snap", seq |-> snap, world |-> 0])
    /\ UNCHANGED <<world, link, up, client, since>>

----------------------------------------------------------------------------
ClientNext ==
    \/ \E dt \in Dts : Apply(dt)
    \/ SendInput \/ Open \/ Cut \/ Reload \/ ReadReady \/ Adopt \/ ReadSnap

EnqueueNext ==
    \/ Enqueue
    \/ EnqueueEnds /\ UNCHANGED clientVars

PumpNext ==
    \/ \E pump \in {"now", "old"} : Hello(pump) \/ Input(pump)
    \/ EnqueueNext

StartTick == Tick /\ UNCHANGED clientVars

LoopNext ==
    \/ StartTick
    \/ DrainOne /\ UNCHANGED clientVars
    \/ \E ticking \in BOOLEAN : TickEnds(ticking) /\ UNCHANGED clientVars
    \/ \E last \in BOOLEAN : Leave(last)
    \/ SendSnap

Next == ClientNext \/ PumpNext \/ LoopNext \/ OthersLeave

Spec == Init /\ [][Next]_vars

(***************************************************************************)
(* The ticker does not stop, no critical section blocks inside, and Go's   *)
(* mutex starves nobody.                                                   *)
(***************************************************************************)
FairSpec ==
    /\ Spec
    /\ WF_vars(LoopNext) /\ SF_vars(StartTick) /\ WF_vars(EnqueueNext)

----------------------------------------------------------------------------
(***************************************************************************)
(* "rewinding onto sequences that are still pending would put two          *)
(* different commands under one number" (resumeSequence): whatever marks   *)
(* and acknowledgements arrive, a predictor's pending commands bear        *)
(* different numbers, none above its counter.                              *)
(***************************************************************************)
OneNumberOneCommand ==
    \A i \in DOMAIN client.pending :
        /\ client.pending[i].seq <= client.seq
        /\ \A j \in 1..(i - 1) : client.pending[j].seq < client.pending[i].seq

(***************************************************************************)
(* The acknowledgement is "the last command actually folded in, which is   *)
(* exactly what the snapshot's Ack promises" (Advance): while a command    *)
(* waits in the world's queue, the predictor it came from keeps it to      *)
(* replay, whatever snapshots arrive.                                      *)
(***************************************************************************)
KeptUntilStepped ==
    [][\A i \in DOMAIN occ.queue, j \in DOMAIN client.pending :
          (client.pending[j] = [occ.queue[i] EXCEPT !.dt = client.pending[j].dt]
             /\ client'.by = client.by /\ ~client'.adopting)
          => \E k \in DOMAIN client'.pending : client'.pending[k] = client.pending[j]]_vars

(***************************************************************************)
(* Ready.Seq is the mark Enqueue deduplicates against: once a client has   *)
(* read it, the world is never ahead of the client's counter, and none of  *)
(* its commands is dropped as seen, unless another predictor of the same   *)
(* account has been heard from since the hello.                            *)
(***************************************************************************)
ResumedIsHeard ==
    (client.told /\ ~client.adopting /\ since \subseteq {client.by})
        => occ.high <= client.seq

(***************************************************************************)
(* The same without the exception: an honest client "is TOLD THIS VERY     *)
(* NUMBER ON ITS READY FRAME and resumes counting from it, so its first    *)
(* command is highSeq+1 and not one of them is dropped" (Enqueue).         *)
(***************************************************************************)
ResumedIsAlwaysHeard ==
    (client.told /\ ~client.adopting) => occ.high <= client.seq

(***************************************************************************)
(* "It cannot starve" (Advance): the head of the queue is stepped or       *)
(* trimmed, whatever time it claimed and whatever else is counting down.   *)
(***************************************************************************)
HeadIsStepped ==
    \A q \in 1..MaxSeq :
        (occ.queue # <<>> /\ Head(occ.queue).seq = q)
            ~> ~(occ.queue # <<>> /\ Head(occ.queue).seq = q)

(***************************************************************************)
(* Numbers mean one thing on both sides: none is used for two commands,    *)
(* and a client that resumes is heard from its first one on.               *)
(***************************************************************************)
NumbersAreSound == TypeOK /\ OneNumberOneCommand /\ ResumedIsHeard

=============================================================================
