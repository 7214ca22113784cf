------------------------------- MODULE Intake -------------------------------
(***************************************************************************)
(* The server's half of VANYADUM's input (internal/gamevanyadum/world.go,  *)
(* Enqueue and Advance), for one account and whatever its clients send:    *)
(* the numbers that are accepted once, the queue the tick drains, and the  *)
(* budget of time that pays for it.                                        *)
(*                                                                         *)
(* The service's lock is held over Enqueue's loop and over Advance's; both *)
(* are taken an iteration at a time.  Module Commands puts a client and    *)
(* its sockets in front of this one.                                       *)
(***************************************************************************)
EXTENDS Integers, Sequences

CONSTANTS
    MaxPending,     \* maxPending
    TickLen,        \* SimStep, in units of time
    MaxStep,        \* MaxStepSeconds
    BudgetCap       \* TimeBudgetCap

ASSUME IntakeAssumption ==
    /\ MaxPending \in Nat \ {0}
    /\ TickLen \in Nat \ {0} /\ MaxStep \in Nat /\ BudgetCap \in Nat
    /\ TickLen <= BudgetCap /\ MaxStep < BudgetCap

VARIABLES
    occ,        \* the occupant: highSeq, LastSeq, budget and pending
    lock,       \* who is in the service's critical section, and how far
    snap,       \* the acknowledgement a finished tick has still to publish
    excess      \* time simulated beyond time passed, over the worst recent span

intakeVars == <<occ, lock, snap, excess>>

(* A command: its number, the time it claims, and the predictor it is from. *)
Wire == [seq : Int, dt : Int, by : Nat]
Accepted == [seq : Int, dt : 0..MaxStep, by : Nat]

NoOccupant == [place |-> "outside", high |-> 0, last |-> 0, budget |-> 0, queue |-> <<>>]
Unlocked == [by |-> "nobody", cmds |-> <<>>, spent |-> 0]
NoSnap == -1

(* The account has a place in the building. *)
Inside == occ.place = "inside"

Occupants == [place : {"outside", "inside"}, high : Nat, last : Nat,
              budget : 0..BudgetCap, queue : Seq(Accepted)]
Locks == [by : {"nobody", "enqueue", "advance"}, cmds : Seq(Wire), spent : Nat]

IntakeTypeOK ==
    /\ occ \in Occupants
    /\ lock \in Locks
    /\ snap \in Nat \cup {NoSnap}
    /\ excess \in Nat

IntakeInit ==
    /\ occ = NoOccupant
    /\ lock = Unlocked
    /\ snap = NoSnap
    /\ excess = 0

Least(a, b) == IF a <= b THEN a ELSE b
Most(a, b) == IF a >= b THEN a ELSE b

(* The last n of s, which may have fewer. *)
LastOf(s, n) == SubSeq(s, Most(1, Len(s) - n + 1), Len(s))

----------------------------------------------------------------------------
(* The read pumps. *)

(* Join, for a hello: the occupant is found or made. *)
Admit ==
    /\ lock.by = "nobody"
    /\ occ' = IF Inside THEN occ ELSE [NoOccupant EXCEPT !.place = "inside"]
    /\ excess' = IF Inside THEN excess ELSE 0
    /\ UNCHANGED <<lock, snap>>

(* HandleInbound, for an input frame: it reaches Enqueue, or nobody. *)
Receive(cmds) ==
    /\ lock.by = "nobody"
    /\ lock' = IF Inside THEN [lock EXCEPT !.by = "enqueue", !.cmds = cmds] ELSE lock
    /\ UNCHANGED <<occ, snap, excess>>

(* Mutant of Sanitise: the time claimed is taken as it is. *)
SanitiseNot(c) == c

Sanitise(c) == [c EXCEPT !.dt = Most(0, Least(@, MaxStep))]

(* Mutant of Seen: what has been stepped, not what has been accepted. *)
SeenIfStepped(c) == c.seq <= occ.last

Seen(c) == c.seq <= occ.high

(* Enqueue's loop. *)
EnqueueOne ==
    LET c == Head(lock.cmds) IN
    /\ lock.by = "enqueue" /\ lock.cmds # <<>>
    /\ lock' = [lock EXCEPT !.cmds = Tail(@)]
    /\ occ' = IF Seen(c) THEN occ
              ELSE [occ EXCEPT !.high = c.seq, !.queue = Append(@, Sanitise(c))]
    /\ UNCHANGED <<snap, excess>>

Trimmed(q) == LastOf(q, MaxPending)

(* Enqueue, after its loop. *)
EnqueueEnds ==
    /\ lock.by = "enqueue" /\ lock.cmds = <<>>
    /\ lock' = Unlocked
    /\ occ' = [occ EXCEPT !.queue = Trimmed(@)]
    /\ UNCHANGED <<snap, excess>>

----------------------------------------------------------------------------
(* The loop. *)

Accrued == Least(occ.budget + TickLen, BudgetCap)

(* Advance, once the last tick's snapshot has been published. *)
Tick ==
    /\ lock.by = "nobody"
    /\ Inside
    /\ snap = NoSnap
    /\ lock' = [lock EXCEPT !.by = "advance"]
    /\ occ' = [occ EXCEPT !.budget = Accrued]
    /\ UNCHANGED <<snap, excess>>

Affordable == occ.queue # <<>> /\ Head(occ.queue).dt <= occ.budget

(* Advance's drain: a command is simulated whole or it waits. *)
DrainOne ==
    LET c == Head(occ.queue) IN
    /\ lock.by = "advance"
    /\ Affordable
    /\ occ' = [occ EXCEPT !.queue = Tail(@), !.budget = @ - c.dt, !.last = c.seq]
    /\ lock' = [lock EXCEPT !.spent = @ + c.dt]
    /\ UNCHANGED <<snap, excess>>

(* Mutant of Idle: the fill eats what a waiting command is saving up for. *)
IdleWhileWaiting(ticking) == IF lock.spent = 0 /\ ticking THEN TickLen ELSE 0

(* The idle fill: something is counting down and the client claimed nothing. *)
Idle(ticking) ==
    IF lock.spent = 0 /\ occ.queue = <<>> /\ ticking THEN TickLen ELSE 0

(* Mutant of Charged: standing still costs nothing. *)
ChargedNothing(idle) == occ.budget

Charged(idle) == Most(0, occ.budget - idle)

(* Mutant of Ack: everything accepted is acknowledged. *)
AckAccepted == occ.high

Ack == occ.last

(***************************************************************************)
(* Advance, after the drain, for an occupant who stays.  ticking says      *)
(* whether his gun, his protection or his ampoule is counting down.        *)
(***************************************************************************)
TickEnds(ticking) ==
    LET idle == Idle(ticking) IN
    /\ lock.by = "advance"
    /\ ~Affordable
    /\ occ' = [occ EXCEPT !.budget = Charged(idle)]
    /\ excess' = Most(0, excess + lock.spent + idle - TickLen)
    /\ snap' = Ack
    /\ lock' = Unlocked

(* Advance, for one who has had no connection for AbandonGrace. *)
TickEndsWithoutHim ==
    /\ lock.by = "advance"
    /\ ~Affordable
    /\ occ' = NoOccupant
    /\ excess' = 0
    /\ lock' = Unlocked
    /\ UNCHANGED snap

(* publish, outside the lock. *)
PublishSnap ==
    /\ snap # NoSnap
    /\ snap' = NoSnap
    /\ UNCHANGED <<occ, lock, excess>>

----------------------------------------------------------------------------
IntakeNext ==
    \/ Admit
    \/ lock'.cmds \in Seq(Wire) /\ Receive(lock'.cmds)    \* any frame at all
    \/ EnqueueOne \/ EnqueueEnds
    \/ Tick \/ DrainOne
    \/ \E ticking \in BOOLEAN : TickEnds(ticking)
    \/ TickEndsWithoutHim
    \/ PublishSnap

IntakeSpec == IntakeInit /\ [][IntakeNext]_intakeVars

----------------------------------------------------------------------------
(***************************************************************************)
(* "The queue is strictly ascending in Seq" (Advance): a frame may repeat  *)
(* what an earlier one carried, still queued or stepped meanwhile, and yet *)
(* everything queued lies above what was stepped, so that no command is    *)
(* stepped twice or behind a later one, and one number acknowledges all.   *)
(* Outside Enqueue the queue never holds more than maxPending.             *)
(***************************************************************************)
QueueOrdered ==
    /\ occ.last <= occ.high
    /\ \A i \in DOMAIN occ.queue :
          /\ occ.last < occ.queue[i].seq /\ occ.queue[i].seq <= occ.high
          /\ \A j \in 1..(i - 1) : occ.queue[j].seq < occ.queue[i].seq
    /\ lock.by # "enqueue" => Len(occ.queue) <= MaxPending

(***************************************************************************)
(* "THIS IS THE SPEED-HACK GUARD" (TimeBudgetCap): over no span of ticks   *)
(* is an occupant simulated for longer than the span itself and what he    *)
(* could have banked before it, whether by his commands or by the idle     *)
(* fill.                                                                   *)
(***************************************************************************)
NoFasterThanRealTime == excess <= BudgetCap - TickLen

(***************************************************************************)
(* What NoFasterThanRealTime rests on: between ticks, time overdrawn and   *)
(* time banked share what a tick leaves of the cap; inside one, what it    *)
(* has spent joins them, and a tick that has spent nothing still holds all *)
(* it accrued, so that the idle fill is paid for in full.                  *)
(***************************************************************************)
BudgetInv ==
    /\ NoFasterThanRealTime
    /\ lock.by # "advance" =>
          /\ lock.spent = 0
          /\ excess = 0 \/ excess + occ.budget <= BudgetCap - TickLen
    /\ lock.by = "advance" =>
          /\ excess + lock.spent + occ.budget <= BudgetCap
          /\ lock.spent = 0 => occ.budget >= TickLen

(***************************************************************************)
(* What Enqueue and Advance promise against any client: no command out of  *)
(* order or twice, and no more time than has passed.                       *)
(***************************************************************************)
IntakeIsSound == QueueOrdered /\ NoFasterThanRealTime

=============================================================================
