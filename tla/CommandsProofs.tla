--------------------------- MODULE CommandsProofs ---------------------------
(***************************************************************************)
(* Proofs about VANYADUM's input, from both ends.                          *)
(*                                                                         *)
(* Intake: whatever frames arrive, in whatever order with the ticks, the   *)
(* queue stays in order and an occupant never lives faster than time       *)
(* passes.  Commands: with a client, its sockets and their frames in front *)
(* it is still Intake; a predictor's numbers name one command each, a      *)
(* client that was told its mark is heard, and keeps what is not stepped.  *)
(*                                                                         *)
(* The marks are the hard part.  A ready frame is old when it is read, so  *)
(* Marks says of one still on its way what ResumedIsHeard will need, and   *)
(* Sent bounds what the client may have in flight behind it.               *)
(***************************************************************************)
EXTENDS Commands, SequenceTheorems, FiniteSetTheorems, TLAPS

-----------------------------------------------------------------------------
(* The server's half *)

(* A clamped command is one the queue may hold, and keeps its number. *)
LEMMA Sanitised ==
    ASSUME NEW c \in Wire
    PROVE  Sanitise(c) \in Accepted /\ Sanitise(c).seq = c.seq
BY IntakeAssumption DEF Sanitise, Wire, Accepted, Most, Least

(* The trim leaves a suffix, as long as the cap at most. *)
LEMMA TrimmedSuffix ==
    ASSUME NEW S, NEW q \in Seq(S)
    PROVE  /\ Trimmed(q) \in Seq(S)
           /\ Len(Trimmed(q)) <= MaxPending
           /\ \E k \in Nat : /\ k + Len(Trimmed(q)) = Len(q)
                             /\ \A i \in 1..Len(Trimmed(q)) : Trimmed(q)[i] = q[i + k]
<1> DEFINE m == Most(1, Len(q) - MaxPending + 1)
<1>1. m \in 1..(Len(q) + 1) /\ Len(q) - m + 1 <= MaxPending
  BY IntakeAssumption DEF Most
<1>2. Trimmed(q) = SubSeq(q, m, Len(q))
  BY DEF Trimmed, LastOf
<1>3. \A i \in m..Len(q) : q[i] \in S
  BY <1>1
<1>4. /\ Trimmed(q) \in Seq(S)
      /\ Len(Trimmed(q)) = Len(q) - m + 1
      /\ \A i \in 1..(Len(q) - m + 1) : Trimmed(q)[i] = q[m + i - 1]
  BY <1>1, <1>2, <1>3, SubSeqProperties
<1>5. m - 1 \in Nat /\ (m - 1) + Len(Trimmed(q)) = Len(q)
  BY <1>1, <1>4
<1>6. \A i \in 1..Len(Trimmed(q)) : Trimmed(q)[i] = q[i + (m - 1)]
  BY <1>1, <1>4
<1> QED
  BY <1>1, <1>4, <1>5, <1>6

(* Nobody, a newcomer, and a lock that nobody holds. *)
LEMMA Blank ==
    /\ NoOccupant \in Occupants
    /\ [NoOccupant EXCEPT !.place = "inside"]
          = [place |-> "inside", high |-> 0, last |-> 0, budget |-> 0, queue |-> <<>>]
    /\ [NoOccupant EXCEPT !.place = "inside"] \in Occupants
    /\ Unlocked \in Locks
<1>1. 0 \in Nat /\ 0 \in 0..BudgetCap /\ <<>> \in Seq(Accepted) /\ <<>> \in Seq(Wire)
  BY IntakeAssumption
<1>2. [NoOccupant EXCEPT !.place = "inside"]
         = [place |-> "inside", high |-> 0, last |-> 0, budget |-> 0, queue |-> <<>>]
  BY DEF NoOccupant
<1>3. NoOccupant \in Occupants
  BY <1>1 DEF NoOccupant, Occupants
<1>4. [NoOccupant EXCEPT !.place = "inside"] \in Occupants
  BY <1>1, <1>2 DEF Occupants
<1>5. Unlocked \in Locks
  BY <1>1 DEF Unlocked, Locks
<1> QED
  BY <1>2, <1>3, <1>4, <1>5

(* The fields of an occupant and of the lock. *)
LEMMA Fields ==
    ASSUME IntakeTypeOK
    PROVE  /\ occ.high \in Nat /\ occ.last \in Nat /\ occ.budget \in 0..BudgetCap
           /\ occ.queue \in Seq(Accepted)
           /\ lock.cmds \in Seq(Wire) /\ lock.spent \in Nat
           /\ excess \in Nat
BY DEF IntakeTypeOK, Occupants, Locks

(* The head of a queue in order. *)
LEMMA HeadOfQueue ==
    ASSUME IntakeTypeOK, QueueOrdered, occ.queue # <<>>
    PROVE  /\ Head(occ.queue) = occ.queue[1]
           /\ Tail(occ.queue) \in Seq(Accepted)
           /\ Head(occ.queue).dt \in Nat
           /\ Head(occ.queue).seq \in Nat
           /\ occ.last < Head(occ.queue).seq /\ Head(occ.queue).seq <= occ.high
<1>1. occ.queue \in Seq(Accepted) /\ occ.last \in Nat
  BY Fields
<1>2. /\ 1 \in DOMAIN occ.queue /\ Head(occ.queue) = occ.queue[1]
      /\ Head(occ.queue) \in Accepted /\ Tail(occ.queue) \in Seq(Accepted)
  BY <1>1
<1>3. occ.last < Head(occ.queue).seq /\ Head(occ.queue).seq <= occ.high
  BY <1>2 DEF QueueOrdered
<1>4. Head(occ.queue).dt \in Nat /\ Head(occ.queue).seq \in Int
  BY <1>2, IntakeAssumption DEF Accepted
<1> QED
  BY <1>1, <1>2, <1>3, <1>4

-----------------------------------------------------------------------------
(* A step keeps the types, whatever frame it takes. *)
LEMMA TypeStep ==
    ASSUME IntakeTypeOK, QueueOrdered, [IntakeNext]_intakeVars
    PROVE  IntakeTypeOK'
<1>0. occ \in Occupants /\ lock \in Locks /\ snap \in Nat \cup {NoSnap} /\ excess \in Nat
  BY DEF IntakeTypeOK
<1>1. CASE Admit
  <2>1. occ' \in Occupants
    BY <1>0, <1>1, Blank DEF Admit
  <2> QED
    BY <1>0, <1>1, <2>1 DEF Admit, IntakeTypeOK
<1>2. CASE lock'.cmds \in Seq(Wire) /\ Receive(lock'.cmds)
  <2>1. lock' \in Locks
    BY <1>0, <1>2 DEF Receive, Locks
  <2> QED
    BY <1>0, <1>2, <2>1 DEF Receive, IntakeTypeOK
<1>3. CASE EnqueueOne
  <2>1. Head(lock.cmds) \in Wire /\ Tail(lock.cmds) \in Seq(Wire)
    BY <1>3, Fields DEF EnqueueOne
  <2>2. Append(occ.queue, Sanitise(Head(lock.cmds))) \in Seq(Accepted)
    BY <2>1, Sanitised, Fields
  <2>3. ~Seen(Head(lock.cmds)) => Head(lock.cmds).seq \in Nat
    BY <2>1, Fields DEF Seen, Wire
  <2>4. occ' \in Occupants
    BY <1>0, <1>3, <2>2, <2>3 DEF EnqueueOne, Occupants
  <2>5. lock' \in Locks
    BY <1>0, <1>3, <2>1 DEF EnqueueOne, Locks
  <2> QED
    BY <1>0, <1>3, <2>4, <2>5 DEF EnqueueOne, IntakeTypeOK
<1>4. CASE EnqueueEnds
  <2>1. Trimmed(occ.queue) \in Seq(Accepted)
    BY TrimmedSuffix, Fields
  <2>2. occ' \in Occupants
    BY <1>0, <1>4, <2>1 DEF EnqueueEnds, Occupants
  <2> QED
    BY <1>0, <1>4, <2>2, Blank DEF EnqueueEnds, IntakeTypeOK
<1>5. CASE Tick
  <2>1. Accrued \in 0..BudgetCap
    BY IntakeAssumption, Fields DEF Accrued, Least
  <2>2. occ' \in Occupants
    BY <1>0, <1>5, <2>1 DEF Tick, Occupants
  <2>3. lock' \in Locks
    BY <1>0, <1>5 DEF Tick, Locks
  <2> QED
    BY <1>0, <1>5, <2>2, <2>3 DEF Tick, IntakeTypeOK
<1>6. CASE DrainOne
  <2> DEFINE c == Head(occ.queue)
  <2>1. /\ c.dt \in Nat /\ c.seq \in Nat /\ Tail(occ.queue) \in Seq(Accepted)
        /\ c.dt <= occ.budget
    BY <1>6, HeadOfQueue DEF DrainOne, Affordable
  <2>2. /\ occ' = [occ EXCEPT !.queue = Tail(occ.queue), !.budget = occ.budget - c.dt,
                              !.last = c.seq]
        /\ lock' = [lock EXCEPT !.spent = lock.spent + c.dt]
        /\ UNCHANGED <<snap, excess>>
    BY <1>6 DEF DrainOne
  <2> HIDE DEF c
  <2>3. occ.budget - c.dt \in 0..BudgetCap /\ lock.spent + c.dt \in Nat
    BY <2>1, Fields, IntakeAssumption, SMTT(30)
  <2>4. occ' \in Occupants
    BY <1>0, <2>1, <2>2, <2>3 DEF Occupants
  <2>5. lock' \in Locks
    BY <1>0, <2>2, <2>3 DEF Locks
  <2> QED
    BY <1>0, <2>2, <2>4, <2>5 DEF IntakeTypeOK
<1>7. ASSUME NEW ticking \in BOOLEAN, TickEnds(ticking)
      PROVE  IntakeTypeOK'
  <2>1. Idle(ticking) \in Nat
    BY IntakeAssumption DEF Idle
  <2>2. Charged(Idle(ticking)) \in 0..BudgetCap
    BY <2>1, Fields, IntakeAssumption DEF Charged, Most
  <2>3. occ' \in Occupants
    BY <1>0, <1>7, <2>2 DEF TickEnds, Occupants
  <2>4. excess' \in Nat
    BY <1>7, <2>1, Fields, IntakeAssumption DEF TickEnds, Most
  <2>5. snap' \in Nat
    BY <1>7, Fields DEF TickEnds, Ack
  <2> QED
    BY <1>7, <2>3, <2>4, <2>5, Blank DEF TickEnds, IntakeTypeOK
<1>8. CASE TickEndsWithoutHim
  BY <1>0, <1>8, Blank DEF TickEndsWithoutHim, IntakeTypeOK
<1>9. CASE PublishSnap
  BY <1>0, <1>9 DEF PublishSnap, IntakeTypeOK
<1>10. CASE UNCHANGED intakeVars
  BY <1>0, <1>10 DEF intakeVars, IntakeTypeOK
<1> QED
  BY <1>1, <1>2, <1>3, <1>4, <1>5, <1>6, <1>7, <1>8, <1>9, <1>10 DEF IntakeNext

-----------------------------------------------------------------------------
(***************************************************************************)
(* A step keeps the order: a command is appended above the mark, the trim  *)
(* and the drain take from the front, and the drain's head is the least.   *)
(***************************************************************************)
LEMMA OrderStep ==
    ASSUME IntakeTypeOK, QueueOrdered, [IntakeNext]_intakeVars
    PROVE  QueueOrdered'
<1>0. /\ occ.queue \in Seq(Accepted) /\ occ.high \in Nat /\ occ.last \in Nat
      /\ occ \in Occupants /\ lock \in Locks
  BY Fields DEF IntakeTypeOK
<1>1. CASE Admit
  <2>1. /\ occ' = occ \/ (occ'.last = 0 /\ occ'.high = 0 /\ occ'.queue = <<>>)
        /\ lock' = lock
    BY <1>1, Blank DEF Admit
  <2> QED
    BY <2>1, IntakeAssumption DEF QueueOrdered
<1>2. CASE lock'.cmds \in Seq(Wire) /\ Receive(lock'.cmds)
  <2>1. occ' = occ /\ (lock' = lock \/ lock'.by = "enqueue")
    BY <1>0, <1>2 DEF Receive, Locks
  <2> QED
    BY <2>1 DEF QueueOrdered
<1>3. CASE EnqueueOne
  <2> DEFINE c == Head(lock.cmds)
             d == Sanitise(c)
  <2>1. c \in Wire
    BY <1>3, Fields DEF EnqueueOne
  <2>2. d \in Accepted /\ d.seq = c.seq /\ c.seq \in Int
    BY <2>1, Sanitised DEF Wire
  <2>3. lock'.by = "enqueue"
    BY <1>0, <1>3 DEF EnqueueOne, Locks
  <2>4. CASE Seen(c)
    BY <1>3, <2>3, <2>4 DEF EnqueueOne, QueueOrdered
  <2>5. CASE ~Seen(c)
    <3>1. /\ occ'.high = c.seq /\ occ'.last = occ.last
          /\ occ'.queue = Append(occ.queue, d)
      BY <1>0, <1>3, <2>5 DEF EnqueueOne, Occupants
    <3>2. occ.high < c.seq
      BY <1>0, <2>2, <2>5 DEF Seen
    <3> HIDE DEF c, d
    <3>3. /\ Len(occ'.queue) = Len(occ.queue) + 1
          /\ occ'.queue[Len(occ.queue) + 1] = d
          /\ \A i \in 1..Len(occ.queue) : occ'.queue[i] = occ.queue[i]
      BY <1>0, <2>2, <3>1, AppendProperties
    <3>4. occ'.queue \in Seq(Accepted)
      BY <1>0, <2>2, <3>1
    <3>5. ASSUME NEW i \in DOMAIN occ.queue PROVE occ.queue[i].seq \in Int
      <4>1. occ.queue[i] \in Accepted
        BY <1>0
      <4> QED
        BY <4>1 DEF Accepted
    <3>6. ASSUME NEW i \in DOMAIN occ'.queue
          PROVE  /\ occ'.last < occ'.queue[i].seq /\ occ'.queue[i].seq <= occ'.high
                 /\ \A j \in 1..(i - 1) : occ'.queue[j].seq < occ'.queue[i].seq
      <4>1. CASE i = Len(occ.queue) + 1
        BY <1>0, <2>2, <3>1, <3>2, <3>3, <3>5, <4>1 DEF QueueOrdered
      <4>2. CASE i \in 1..Len(occ.queue)
        BY <1>0, <2>2, <3>1, <3>2, <3>3, <3>5, <4>2, SMTT(30) DEF QueueOrdered
      <4> QED
        BY <1>0, <3>3, <3>4, <4>1, <4>2
    <3>7. occ'.last <= occ'.high
      BY <1>0, <2>2, <3>1, <3>2 DEF QueueOrdered
    <3> QED
      BY <2>3, <3>6, <3>7 DEF QueueOrdered
  <2> QED
    BY <2>4, <2>5
<1>4. CASE EnqueueEnds
  <2> DEFINE q == Trimmed(occ.queue)
  <2>1. /\ occ'.high = occ.high /\ occ'.last = occ.last /\ occ'.queue = q
    BY <1>0, <1>4 DEF EnqueueEnds, Occupants
  <2>2. q \in Seq(Accepted) /\ Len(q) <= MaxPending
    BY <1>0, TrimmedSuffix
  <2>3. PICK k \in Nat : /\ k + Len(q) = Len(occ.queue)
                         /\ \A i \in 1..Len(q) : q[i] = occ.queue[i + k]
    BY <1>0, TrimmedSuffix
  <2> HIDE DEF q
  <2>4. ASSUME NEW i \in 1..Len(q)
        PROVE  /\ occ.last < q[i].seq /\ q[i].seq <= occ.high
               /\ \A j \in 1..(i - 1) : q[j].seq < q[i].seq
    <3>1. i + k \in DOMAIN occ.queue /\ q[i] = occ.queue[i + k]
      BY <1>0, <2>2, <2>3
    <3>2. /\ occ.last < q[i].seq /\ q[i].seq <= occ.high
          /\ \A j \in 1..((i + k) - 1) : occ.queue[j].seq < q[i].seq
      <4>1. \A n \in DOMAIN occ.queue :
               /\ occ.last < occ.queue[n].seq /\ occ.queue[n].seq <= occ.high
               /\ \A j \in 1..(n - 1) : occ.queue[j].seq < occ.queue[n].seq
        BY DEF QueueOrdered
      <4> QED
        BY <3>1, <4>1
    <3>3. ASSUME NEW j \in 1..(i - 1)
          PROVE  q[j].seq < q[i].seq
      <4>1. q[j] = occ.queue[j + k] /\ j + k \in 1..((i + k) - 1)
        BY <2>2, <2>3, <3>1
      <4> QED
        BY <3>2, <4>1
    <3> QED
      BY <3>2, <3>3
  <2>5. DOMAIN q = 1..Len(q)
    BY <2>2
  <2> QED
    BY <2>1, <2>2, <2>4, <2>5 DEF QueueOrdered
<1>5. CASE Tick
  <2>1. /\ occ'.high = occ.high /\ occ'.last = occ.last /\ occ'.queue = occ.queue
        /\ lock.by # "enqueue"
    BY <1>0, <1>5 DEF Tick, Occupants
  <2> QED
    BY <2>1 DEF QueueOrdered
<1>6. CASE DrainOne
  <2> DEFINE c == Head(occ.queue)
             q == Tail(occ.queue)
  <2>1. occ.queue # <<>> /\ lock.by # "enqueue"
    BY <1>6 DEF DrainOne, Affordable
  <2>2. /\ c = occ.queue[1] /\ c.seq \in Nat /\ q \in Seq(Accepted)
        /\ occ.last < c.seq /\ c.seq <= occ.high
    BY <2>1, HeadOfQueue
  <2>3. /\ Len(q) = Len(occ.queue) - 1
        /\ \A i \in 1..Len(q) : q[i] = occ.queue[i + 1]
    BY <1>0, <2>1
  <2>4. occ'.high = occ.high /\ occ'.last = c.seq /\ occ'.queue = q
    BY <1>0, <1>6 DEF DrainOne, Occupants
  <2> HIDE DEF c, q
  <2>5. ASSUME NEW i \in 1..Len(q)
        PROVE  /\ c.seq < q[i].seq /\ q[i].seq <= occ.high
               /\ \A j \in 1..(i - 1) : q[j].seq < q[i].seq
    <3>1. i + 1 \in DOMAIN occ.queue /\ q[i] = occ.queue[i + 1]
      BY <1>0, <2>2, <2>3
    <3>2. q[i].seq <= occ.high /\ \A j \in 1..i : occ.queue[j].seq < q[i].seq
      BY <2>2, <3>1 DEF QueueOrdered
    <3>3. c.seq < q[i].seq
      BY <2>2, <3>2
    <3>4. ASSUME NEW j \in 1..(i - 1)
          PROVE  q[j].seq < q[i].seq
      <4>1. q[j] = occ.queue[j + 1] /\ j + 1 \in 1..i
        BY <2>2, <2>3
      <4> QED
        BY <3>2, <4>1
    <3> QED
      BY <3>2, <3>3, <3>4
  <2>6. DOMAIN q = 1..Len(q) /\ (lock.by # "enqueue" => Len(q) <= MaxPending)
    BY <1>0, <2>2, <2>3, IntakeAssumption DEF QueueOrdered
  <2> QED
    BY <2>1, <2>2, <2>4, <2>5, <2>6 DEF QueueOrdered
<1>7. ASSUME NEW ticking \in BOOLEAN, TickEnds(ticking)
      PROVE  QueueOrdered'
  <2>1. /\ occ'.high = occ.high /\ occ'.last = occ.last /\ occ'.queue = occ.queue
        /\ lock.by # "enqueue"
    BY <1>0, <1>7 DEF TickEnds, Occupants
  <2> QED
    BY <2>1 DEF QueueOrdered
<1>8. CASE TickEndsWithoutHim
  <2>1. occ'.high = 0 /\ occ'.last = 0 /\ occ'.queue = <<>>
    BY <1>8 DEF TickEndsWithoutHim, NoOccupant
  <2> QED
    BY <2>1, IntakeAssumption DEF QueueOrdered
<1>9. CASE PublishSnap
  BY <1>9 DEF PublishSnap, QueueOrdered
<1>10. CASE UNCHANGED intakeVars
  BY <1>10 DEF intakeVars, QueueOrdered
<1> QED
  BY <1>1, <1>2, <1>3, <1>4, <1>5, <1>6, <1>7, <1>8, <1>9, <1>10 DEF IntakeNext

-----------------------------------------------------------------------------
(***************************************************************************)
(* A step keeps the budget's account: the tick accrues what the cap        *)
(* leaves, the drain moves time from the bank to what was spent, and the   *)
(* end of the tick takes its own length off what was overdrawn.            *)
(***************************************************************************)
LEMMA BudgetStep ==
    ASSUME IntakeTypeOK, QueueOrdered, BudgetInv, [IntakeNext]_intakeVars
    PROVE  BudgetInv'
<1>0. /\ occ.budget \in 0..BudgetCap /\ lock.spent \in Nat /\ excess \in Nat
      /\ occ \in Occupants /\ lock \in Locks
  BY Fields DEF IntakeTypeOK
<1>1. CASE Admit
  <2>1. /\ lock' = lock /\ lock.by # "advance"
        /\ (occ' = occ /\ excess' = excess) \/ excess' = 0
    BY <1>1 DEF Admit
  <2> QED
    BY <2>1, IntakeAssumption DEF BudgetInv, NoFasterThanRealTime
<1>2. CASE lock'.cmds \in Seq(Wire) /\ Receive(lock'.cmds)
  <2>1. /\ lock'.by # "advance" /\ lock.by # "advance" /\ lock'.spent = lock.spent
        /\ occ' = occ /\ excess' = excess
    BY <1>0, <1>2 DEF Receive, Locks
  <2> QED
    BY <2>1 DEF BudgetInv, NoFasterThanRealTime
<1>3. CASE EnqueueOne
  <2>1. /\ lock'.by = lock.by /\ lock.by # "advance" /\ lock'.spent = lock.spent
        /\ excess' = excess
    BY <1>0, <1>3 DEF EnqueueOne, Locks
  <2>2. occ'.budget = occ.budget
    BY <1>0, <1>3 DEF EnqueueOne, Occupants
  <2> QED
    BY <2>1, <2>2 DEF BudgetInv, NoFasterThanRealTime
<1>4. CASE EnqueueEnds
  <2>1. /\ lock'.by = "nobody" /\ lock'.spent = 0 /\ lock.by # "advance"
        /\ excess' = excess
    BY <1>4 DEF EnqueueEnds, Unlocked
  <2>2. occ'.budget = occ.budget
    BY <1>0, <1>4 DEF EnqueueEnds, Occupants
  <2> QED
    BY <2>1, <2>2 DEF BudgetInv, NoFasterThanRealTime
<1>5. CASE Tick
  <2>1. /\ lock'.by = "advance" /\ lock.by # "advance" /\ lock'.spent = lock.spent
        /\ excess' = excess
    BY <1>0, <1>5 DEF Tick, Locks
  <2>2. occ'.budget = Accrued
    BY <1>0, <1>5 DEF Tick, Occupants
  <2>3. lock.spent = 0 /\ (excess = 0 \/ excess + occ.budget <= BudgetCap - TickLen)
    BY <2>1 DEF BudgetInv
  <2>4. Accrued >= TickLen /\ excess + Accrued <= BudgetCap
    BY <1>0, <2>3, IntakeAssumption DEF Accrued, Least
  <2> QED
    BY <1>0, <2>1, <2>2, <2>3, <2>4, IntakeAssumption DEF BudgetInv, NoFasterThanRealTime
<1>6. CASE DrainOne
  <2> DEFINE dt == Head(occ.queue).dt
  <2>1. dt \in Nat /\ dt <= occ.budget
    BY <1>6, HeadOfQueue DEF DrainOne, Affordable
  <2>2. /\ lock'.by = "advance" /\ lock.by = "advance" /\ lock'.spent = lock.spent + dt
        /\ excess' = excess
    BY <1>0, <1>6 DEF DrainOne, Locks
  <2>3. occ'.budget = occ.budget - dt
    BY <1>0, <1>6 DEF DrainOne, Occupants
  <2> HIDE DEF dt
  <2> QED
    BY <1>0, <2>1, <2>2, <2>3 DEF BudgetInv, NoFasterThanRealTime
<1>7. ASSUME NEW ticking \in BOOLEAN, TickEnds(ticking)
      PROVE  BudgetInv'
  <2> DEFINE idle == Idle(ticking)
  <2>1. idle = 0 \/ (idle = TickLen /\ lock.spent = 0)
    BY DEF Idle
  <2>2. /\ lock.by = "advance" /\ lock'.by = "nobody" /\ lock'.spent = 0
        /\ excess' = Most(0, excess + lock.spent + idle - TickLen)
    BY <1>7 DEF TickEnds, Unlocked
  <2>3. occ'.budget = Most(0, occ.budget - idle)
    BY <1>0, <1>7 DEF TickEnds, Charged, Occupants
  <2>4. /\ excess + lock.spent + occ.budget <= BudgetCap
        /\ lock.spent = 0 => occ.budget >= TickLen
    BY <2>2 DEF BudgetInv
  <2> HIDE DEF idle
  <2>5. excess' = 0 \/ excess' + occ'.budget <= BudgetCap - TickLen
    BY <1>0, <2>1, <2>2, <2>3, <2>4, IntakeAssumption DEF Most
  <2>6. excess' <= BudgetCap - TickLen
    BY <1>0, <2>1, <2>2, <2>4, IntakeAssumption DEF Most
  <2> QED
    BY <2>2, <2>5, <2>6 DEF BudgetInv, NoFasterThanRealTime
<1>8. CASE TickEndsWithoutHim
  <2>1. lock'.by = "nobody" /\ lock'.spent = 0 /\ excess' = 0
    BY <1>8 DEF TickEndsWithoutHim, Unlocked
  <2> QED
    BY <2>1, IntakeAssumption DEF BudgetInv, NoFasterThanRealTime
<1>9. CASE PublishSnap
  BY <1>9 DEF PublishSnap, BudgetInv, NoFasterThanRealTime
<1>10. CASE UNCHANGED intakeVars
  BY <1>10 DEF intakeVars, BudgetInv, NoFasterThanRealTime
<1> QED
  BY <1>1, <1>2, <1>3, <1>4, <1>5, <1>6, <1>7, <1>8, <1>9, <1>10 DEF IntakeNext

-----------------------------------------------------------------------------
(* The types and the order need each other, so the two are carried together. *)
LEMMA OrderInductive == IntakeSpec => [](IntakeTypeOK /\ QueueOrdered)
<1>1. IntakeInit => IntakeTypeOK /\ QueueOrdered
  <2> SUFFICES ASSUME IntakeInit PROVE IntakeTypeOK /\ QueueOrdered
    OBVIOUS
  <2>1. IntakeTypeOK
    BY Blank DEF IntakeInit, IntakeTypeOK
  <2>2. QueueOrdered
    BY IntakeAssumption DEF IntakeInit, QueueOrdered, NoOccupant
  <2> QED
    BY <2>1, <2>2
<1>2. IntakeTypeOK /\ QueueOrdered /\ [IntakeNext]_intakeVars => (IntakeTypeOK /\ QueueOrdered)'
  BY TypeStep, OrderStep
<1> QED
  BY <1>1, <1>2, PTL DEF IntakeSpec

(* The server's state keeps its types, for any caps and any frames. *)
THEOREM IntakeTypeCorrect == IntakeSpec => []IntakeTypeOK
BY OrderInductive, PTL

(***************************************************************************)
(* The queue is strictly ascending, above what was stepped and within its  *)
(* cap (Enqueue, Advance), whatever a client repeats, skips or invents.    *)
(***************************************************************************)
THEOREM QueueAlwaysOrdered == IntakeSpec => []QueueOrdered
BY OrderInductive, PTL

(***************************************************************************)
(* The speed-hack guard (TimeBudgetCap) holds for every client: no run of  *)
(* ticks simulates more than its own length and the bank before it.        *)
(***************************************************************************)
THEOREM NeverFasterThanRealTime == IntakeSpec => []NoFasterThanRealTime
<1>1. IntakeInit => BudgetInv
  BY IntakeAssumption DEF IntakeInit, BudgetInv, NoFasterThanRealTime, NoOccupant, Unlocked
<1>2. IntakeTypeOK /\ QueueOrdered /\ BudgetInv /\ [IntakeNext]_intakeVars => BudgetInv'
  BY BudgetStep
<1>3. BudgetInv => NoFasterThanRealTime
  BY DEF BudgetInv
<1> QED
  BY <1>1, <1>2, <1>3, OrderInductive, PTL DEF IntakeSpec

(* Order and time together: what the server's input promises against any client. *)
THEOREM IntakeAlwaysSound == IntakeSpec => []IntakeIsSound
BY QueueAlwaysOrdered, NeverFasterThanRealTime, PTL DEF IntakeIsSound

-----------------------------------------------------------------------------
(* Places, filters and suffixes *)

(***************************************************************************)
(* The ranks of a finite set of places are the numbers below its size,     *)
(* each the rank of exactly one place, and in the order of the places.     *)
(***************************************************************************)
LEMMA RankFacts ==
    ASSUME NEW I \in SUBSET Nat, IsFiniteSet(I)
    PROVE  /\ Cardinality(I) \in Nat
           /\ \A a \in I : Rank(I, a) \in 0..(Cardinality(I) - 1)
           /\ \A a, b \in I : a < b => Rank(I, a) < Rank(I, b)
           /\ \A k \in 1..Cardinality(I) : \E a \in I : Rank(I, a) = k - 1
<1> DEFINE below(a) == {b \in I : b < a}
           N == Cardinality(I)
<1>1. N \in Nat
  BY FS_CardinalityType
<1>2. \A a \in I : IsFiniteSet(below(a)) /\ Cardinality(below(a)) \in Nat
  BY FS_Subset, FS_CardinalityType
<1>3. ASSUME NEW a \in I PROVE Cardinality(below(a)) \in 0..(N - 1)
  <2>1. below(a) \in SUBSET I /\ below(a) # I
    OBVIOUS
  <2>2. Cardinality(below(a)) <= N /\ Cardinality(below(a)) # N
    BY <2>1, FS_Subset
  <2>3. Cardinality(below(a)) \in Nat
    BY <1>2
  <2> HIDE DEF below, N
  <2> QED
    BY <1>1, <2>2, <2>3
<1>4. ASSUME NEW a \in I, NEW b \in I, a < b
      PROVE  Cardinality(below(a)) < Cardinality(below(b))
  <2>1. below(a) \in SUBSET below(b) /\ below(a) # below(b)
    <3>1. a \in Nat /\ b \in Nat /\ ~(a < a)
      OBVIOUS
    <3>2. \A c \in I : c \in Nat /\ (c < a => c < b)
      BY <1>4, <3>1
    <3>3. a \in below(b) /\ a \notin below(a)
      BY <1>4, <3>1
    <3> QED
      BY <3>2, <3>3
  <2>2. IsFiniteSet(below(b)) /\ Cardinality(below(b)) \in Nat /\ Cardinality(below(a)) \in Nat
    BY <1>2
  <2>3. Cardinality(below(a)) <= Cardinality(below(b)) /\ Cardinality(below(a)) # Cardinality(below(b))
    BY <2>1, <2>2, FS_Subset
  <2> HIDE DEF below
  <2> QED
    BY <2>2, <2>3
<1> DEFINE f == [a \in I |-> Cardinality(below(a))]
           T == 0..(N - 1)
<1> HIDE DEF below
<1>5. f \in Injection(I, T)
  <2>1. f \in [I -> T]
    BY <1>3
  <2>2. \A a, b \in I : f[a] = f[b] => a = b
    <3> SUFFICES ASSUME NEW a \in I, NEW b \in I, a # b PROVE f[a] # f[b]
      OBVIOUS
    <3>1. a < b \/ b < a
      OBVIOUS
    <3>2. Cardinality(below(a)) \in Nat /\ Cardinality(below(b)) \in Nat
      BY <1>2
    <3>3. Cardinality(below(a)) < Cardinality(below(b)) \/ Cardinality(below(b)) < Cardinality(below(a))
      BY <1>4, <3>1
    <3> QED
      BY <3>2, <3>3
  <2> HIDE DEF f, T
  <2> QED
    BY <2>1, <2>2 DEF Injection, IsInjective
<1>6. IsFiniteSet(T) /\ Cardinality(T) = N
  <2>1. 0 \in Int /\ N - 1 \in Int
    BY <1>1
  <2>2. /\ IsFiniteSet(0..(N - 1))
        /\ Cardinality(0..(N - 1)) = IF 0 > N - 1 THEN 0 ELSE N - 1 - 0 + 1
    BY <2>1, FS_Interval
  <2> HIDE DEF N
  <2> QED
    BY <1>1, <2>2
<1> HIDE DEF f, T, N
<1>7. f \in Surjection(I, T)
  BY <1>5, <1>6, FS_Injection DEF N
<1>8. \A k \in T : \E a \in I : f[a] = k
  BY <1>7 DEF Surjection
<1>9. \A k \in 1..N : \E a \in I : Cardinality(below(a)) = k - 1
  <2> TAKE k \in 1..N
  <2>1. k - 1 \in T
    BY <1>1 DEF T
  <2> QED
    BY <1>8, <2>1 DEF f
<1> QED
  BY <1>1, <1>3, <1>4, <1>9 DEF below, N, Rank

(***************************************************************************)
(* What a filter returns: the elements at its places and no other, each    *)
(* place once and in order (Array.filter in reconcile, buildInputFrame).   *)
(***************************************************************************)
LEMMA PickedFacts ==
    ASSUME NEW S, NEW s \in Seq(S), NEW I \in SUBSET DOMAIN s
    PROVE  /\ Picked(s, I) \in Seq(S)
           /\ \E f \in [1..Len(Picked(s, I)) -> I] :
                 /\ \A k \in 1..Len(Picked(s, I)) : Picked(s, I)[k] = s[f[k]]
                 /\ \A k \in 1..Len(Picked(s, I)) : \A j \in 1..(k - 1) : f[j] < f[k]
                 /\ \A i \in I : \E k \in 1..Len(Picked(s, I)) : f[k] = i
<1> DEFINE N == Cardinality(I)
           f == [k \in 1..N |-> CHOOSE i \in I : Rank(I, i) = k - 1]
           p == Picked(s, I)
<1>0. I \in SUBSET Nat /\ IsFiniteSet(I) /\ \A i \in I : i \in DOMAIN s /\ i \in Nat
  <2>1. DOMAIN s = 1..Len(s) /\ Len(s) \in Nat
    OBVIOUS
  <2>2. IsFiniteSet(1..Len(s))
    BY <2>1, FS_Interval
  <2> QED
    BY <2>1, <2>2, FS_Subset
<1>1. N \in Nat
  BY <1>0, RankFacts
<1>2. \A k \in 1..N : f[k] \in I /\ Rank(I, f[k]) = k - 1
  <2> TAKE k \in 1..N
  <2>1. \E i \in I : Rank(I, i) = k - 1
    BY <1>0, RankFacts
  <2>2. f[k] = CHOOSE i \in I : Rank(I, i) = k - 1
    OBVIOUS
  <2> HIDE DEF f
  <2> QED
    BY <2>1, <2>2
<1>3. f \in [1..N -> I]
  BY <1>2
<1>4. p = [k \in 1..N |-> s[f[k]]]
  BY DEF Picked
<1> HIDE DEF f, p, N
<1>5. \A k \in 1..N : s[f[k]] \in S
  BY <1>0, <1>3
<1>6. p \in Seq(S) /\ Len(p) = N
  <2>1. p \in [1..N -> S]
    BY <1>4, <1>5
  <2> QED
    BY <1>1, <2>1
<1>7. ASSUME NEW k \in 1..N, NEW j \in 1..(k - 1) PROVE f[j] < f[k]
  <2>1. j \in 1..N
    BY <1>1, <1>7
  <2>2. f[j] \in I /\ f[k] \in I /\ Rank(I, f[j]) = j - 1 /\ Rank(I, f[k]) = k - 1
    BY <1>2, <2>1
  <2>3. f[j] \in Nat /\ f[k] \in Nat
    BY <1>0, <2>2
  <2>4. CASE f[k] < f[j]
    <3>1. k - 1 < j - 1
      BY <1>0, <2>2, <2>4, RankFacts
    <3> QED
      BY <1>1, <1>7, <2>1, <3>1
  <2>5. CASE f[k] = f[j]
    BY <1>1, <1>7, <2>1, <2>2, <2>5
  <2> QED
    BY <2>3, <2>4, <2>5
<1>8. ASSUME NEW i \in I PROVE \E k \in 1..N : f[k] = i
  <2> DEFINE k == Rank(I, i) + 1
  <2>1. k \in 1..N /\ Rank(I, i) = k - 1
    <3>1. Rank(I, i) \in 0..(Cardinality(I) - 1)
      BY <1>0, RankFacts
    <3> QED
      BY <1>1, <3>1 DEF N
  <2>2. f[k] \in I /\ Rank(I, f[k]) = k - 1
    BY <1>2, <2>1
  <2> HIDE DEF k
  <2>3. f[k] \in Nat /\ i \in Nat
    BY <1>0, <2>2
  <2>4. ~(f[k] < i) /\ ~(i < f[k])
    <3>1. f[k] < i => k - 1 < k - 1
      BY <1>0, <2>1, <2>2, RankFacts
    <3>2. i < f[k] => k - 1 < k - 1
      BY <1>0, <2>1, <2>2, RankFacts
    <3> QED
      BY <1>1, <2>1, <3>1, <3>2
  <2> QED
    BY <2>1, <2>3, <2>4
<1>9. \A k \in 1..N : p[k] = s[f[k]]
  BY <1>4
<1> QED
  BY <1>3, <1>6, <1>7, <1>8, <1>9 DEF p

(* Nothing is in t that is not in s: a filter's result, a suffix. *)
From(t, s) == \A k \in DOMAIN t : \E i \in DOMAIN s : t[k] = s[i]

LEMMA PickedFrom ==
    ASSUME NEW S, NEW s \in Seq(S), NEW I \in SUBSET DOMAIN s
    PROVE  Picked(s, I) \in Seq(S) /\ From(Picked(s, I), s)
<1> DEFINE p == Picked(s, I)
<1>1. p \in Seq(S)
  BY PickedFacts
<1>2. PICK f \in [1..Len(p) -> I] : \A k \in 1..Len(p) : p[k] = s[f[k]]
  BY PickedFacts
<1> HIDE DEF p
<1>3. From(p, s)
  BY <1>1, <1>2 DEF From
<1> QED
  BY <1>1, <1>3 DEF p

(* What the filter accepts is in what it returns. *)
Carries(t, s, I) == \A i \in I : \E k \in DOMAIN t : t[k] = s[i]

LEMMA PickedCarries ==
    ASSUME NEW S, NEW s \in Seq(S), NEW I \in SUBSET DOMAIN s
    PROVE  Picked(s, I) \in Seq(S) /\ Carries(Picked(s, I), s, I)
<1> DEFINE p == Picked(s, I)
<1>1. p \in Seq(S)
  BY PickedFacts
<1>2. PICK f \in [1..Len(p) -> I] :
        /\ \A k \in 1..Len(p) : p[k] = s[f[k]]
        /\ \A k \in 1..Len(p) : \A j \in 1..(k - 1) : f[j] < f[k]
        /\ \A i \in I : \E k \in 1..Len(p) : f[k] = i
  BY PickedFacts
<1> HIDE DEF p
<1>3. Carries(p, s, I)
  BY <1>1, <1>2 DEF Carries
<1> QED
  BY <1>1, <1>3 DEF p

LEMMA LastOfFrom ==
    ASSUME NEW S, NEW s \in Seq(S), NEW n \in Nat
    PROVE  LastOf(s, n) \in Seq(S) /\ From(LastOf(s, n), s)
<1> DEFINE m == Most(1, Len(s) - n + 1)
           t == SubSeq(s, m, Len(s))
<1>0. Len(s) \in Nat /\ DOMAIN s = 1..Len(s)
  OBVIOUS
<1>1. m \in 1..(Len(s) + 1)
  BY <1>0 DEF Most
<1>2. \A i \in m..Len(s) : s[i] \in S
  BY <1>0, <1>1
<1> HIDE DEF m
<1>3. /\ t \in Seq(S) /\ Len(t) = IF m <= Len(s) THEN Len(s) - m + 1 ELSE 0
      /\ \A i \in 1..(Len(s) - m + 1) : t[i] = s[m + i - 1]
  BY <1>0, <1>1, <1>2, SubSeqProperties
<1>4. DOMAIN t = 1..Len(t)
  BY <1>3
<1> HIDE DEF t
<1>5. \A k \in DOMAIN t : t[k] = s[m + k - 1] /\ m + k - 1 \in DOMAIN s
  BY <1>0, <1>1, <1>3, <1>4
<1>6. From(t, s)
  BY <1>5 DEF From
<1> QED
  BY <1>3, <1>6 DEF t, m, LastOf

-----------------------------------------------------------------------------
(* The invariant of both ends *)

ClientType ==
    [by : 1..MaxPredictors, world : 0..MaxWorlds, seq : 0..MaxSeq,
     pending : Seq(Commands), outbox : Seq(Commands), told : BOOLEAN, adopting : BOOLEAN]
DownType == [kind : {"ready", "snap"}, seq : 0..MaxSeq, world : 0..MaxWorlds]

WorldTyped == world \in [id : 1..MaxWorlds, stands : BOOLEAN]
LinkTyped == link \in [open : BOOLEAN, count : 0..MaxConns]
UpTyped == up \in [now : Seq(Frames), old : Seq(Frames)]
DownTyped == down \in Seq(DownType)
ClientTyped == client \in ClientType

(* A command that the client cl may have sent: of an earlier predictor, or *)
(* of this one and not above its counter, which an adoption gives up.      *)
OursTo(cl, c) ==
    /\ c.by <= cl.by
    /\ ~cl.adopting /\ c.by = cl.by => c.seq <= cl.seq
AllOurs(cl, s) == \A i \in DOMAIN s : OursTo(cl, s[i])
FramesOurs(cl, q) == \A i \in DOMAIN q : AllOurs(cl, q[i].cmds)

(* What is kept, queued, in a socket or in Enqueue's hands came from the client. *)
Sent ==
    /\ AllOurs(client, client.pending) /\ AllOurs(client, client.outbox)
    /\ FramesOurs(client, up.now) /\ FramesOurs(client, up.old)
    /\ AllOurs(client, lock.cmds)

(* What the world has accepted, or is about to, are numbers of the client's. *)
Numbered == occ.high <= MaxSeq /\ lock.cmds \in Seq(Commands)

Heard == since \in SUBSET (1..client.by)

Outside == ~Inside => occ = NoOccupant /\ lock.by = "nobody"

(* Nothing is on its way to a client without a socket, and while a hello   *)
(* waits to be read, first of its socket, no answer to it can be about.    *)
Greeted ==
    /\ ~link.open => down = <<>> /\ ~client.told
    /\ \A i \in DOMAIN up.now :
          up.now[i].kind = "hello" =>
              i = 1 /\ ~client.told /\ \A k \in DOMAIN down : down[k].kind # "ready"

(* A mark on its way is the world's, or what has been accepted since is of *)
(* predictors that were heard since.                                       *)
Marks ==
    \A k \in DOMAIN down :
        down[k].kind = "ready" =>
            /\ since = {} => occ.high <= down[k].seq
            /\ ~client.adopting /\ since \subseteq {client.by}
                  => occ.high <= down[k].seq \/ occ.high <= client.seq

(* So is the mark an adoption holds for the predictor to come. *)
Held == client.told /\ client.adopting /\ since = {} => occ.high <= client.seq

(* No acknowledgement, published or not, is ahead of what was stepped. *)
Acks ==
    /\ lock.by = "advance" => snap = NoSnap
    /\ snap # NoSnap => snap <= occ.last
    /\ \A k \in DOMAIN down : down[k].kind = "snap" => down[k].seq <= occ.last

Typed == WorldTyped /\ LinkTyped /\ UpTyped /\ DownTyped /\ ClientTyped

Server == IntakeTypeOK /\ QueueOrdered

(* The inductive invariant. *)
IInv ==
    /\ Server /\ Typed
    /\ Sent /\ Numbered /\ Heard /\ Outside /\ Greeted /\ Marks /\ Held /\ Acks
    /\ OneNumberOneCommand /\ ResumedIsHeard

(* The client only moves on: to a later predictor, or up in this one. *)
Onward ==
    /\ client.by <= client'.by
    /\ client'.by = client.by /\ ~client'.adopting
          => ~client.adopting /\ client.seq <= client'.seq

(* The fields of the client, of its commands and of its frames. *)
LEMMA ClientFields ==
    ASSUME ClientTyped
    PROVE  /\ client.by \in 1..MaxPredictors /\ client.by \in Nat
           /\ client.world \in 0..MaxWorlds
           /\ client.seq \in 0..MaxSeq /\ client.seq \in Nat
           /\ client.pending \in Seq(Commands) /\ client.outbox \in Seq(Commands)
           /\ client.told \in BOOLEAN /\ client.adopting \in BOOLEAN
<1>1. client \in ClientType
  BY DEF ClientTyped
<1> QED
  BY <1>1, CommandsAssumption DEF ClientType

LEMMA CommandFields ==
    ASSUME NEW s \in Seq(Commands), NEW i \in DOMAIN s
    PROVE  /\ s[i] \in Commands
           /\ s[i].seq \in 1..MaxSeq /\ s[i].seq \in Nat
           /\ s[i].by \in 1..MaxPredictors /\ s[i].by \in Nat
           /\ s[i].dt \in Nat
<1>1. s[i] \in Commands
  OBVIOUS
<1> QED
  BY <1>1, CommandsAssumption DEF Commands

LEMMA FrameFields ==
    ASSUME NEW q \in Seq(Frames), NEW i \in DOMAIN q
    PROVE  q[i] \in Frames /\ q[i].cmds \in Seq(Commands) /\ q[i].kind \in {"hello", "input"}
<1>1. q[i] \in Frames
  OBVIOUS
<1> QED
  BY <1>1 DEF Frames

LEMMA DownFields ==
    ASSUME NEW q \in Seq(DownType), NEW i \in DOMAIN q
    PROVE  /\ q[i] \in DownType /\ q[i].seq \in 0..MaxSeq /\ q[i].seq \in Nat
           /\ q[i].world \in 0..MaxWorlds /\ q[i].kind \in {"ready", "snap"}
<1>1. q[i] \in DownType
  OBVIOUS
<1> QED
  BY <1>1, CommandsAssumption DEF DownType

(* What was the client's stays the client's as it moves on. *)
LEMMA OursOnward ==
    ASSUME ClientTyped, ClientTyped', Onward, NEW s \in Seq(Commands), AllOurs(client, s)
    PROVE  AllOurs(client', s)
<1> SUFFICES ASSUME NEW i \in DOMAIN s PROVE OursTo(client', s[i])
  BY DEF AllOurs
<1>1. /\ client.by \in Nat /\ client.seq \in Nat
      /\ client.adopting \in BOOLEAN
  BY ClientFields
<1>2. client'.by \in Nat /\ client'.seq \in Nat /\ client'.adopting \in BOOLEAN
  <2>1. client' \in ClientType
    BY DEF ClientTyped
  <2> QED
    BY <2>1, CommandsAssumption DEF ClientType
<1>3. s[i].by \in Nat /\ s[i].seq \in Nat
  BY CommandFields
<1>4. /\ s[i].by <= client.by
      /\ ~client.adopting /\ s[i].by = client.by => s[i].seq <= client.seq
  BY DEF AllOurs, OursTo
<1>5. s[i].by <= client'.by
  BY <1>1, <1>2, <1>3, <1>4 DEF Onward
<1>6. ASSUME ~client'.adopting, s[i].by = client'.by PROVE s[i].seq <= client'.seq
  <2>1. client'.by = client.by
    BY <1>1, <1>2, <1>3, <1>4, <1>6 DEF Onward
  <2>2. ~client.adopting /\ client.seq <= client'.seq
    BY <1>6, <2>1 DEF Onward
  <2>3. s[i].seq <= client.seq
    BY <1>4, <1>6, <2>1, <2>2
  <2> QED
    BY <1>1, <1>2, <1>3, <2>2, <2>3
<1> QED
  BY <1>5, <1>6 DEF OursTo

LEMMA FramesOnward ==
    ASSUME ClientTyped, ClientTyped', Onward, NEW q \in Seq(Frames), FramesOurs(client, q)
    PROVE  FramesOurs(client', q)
BY OursOnward, FrameFields DEF FramesOurs

(* A queue that lost its head, or all but a prefix, or gained a frame. *)
LEMMA FramesTail ==
    ASSUME NEW cl, NEW q \in Seq(Frames), q # <<>>, FramesOurs(cl, q)
    PROVE  Tail(q) \in Seq(Frames) /\ FramesOurs(cl, Tail(q))
           /\ AllOurs(cl, Head(q).cmds) /\ Head(q) \in Frames
           /\ DOMAIN Tail(q) = 1..(Len(q) - 1)
           /\ \A i \in DOMAIN Tail(q) : Tail(q)[i] = q[i + 1] /\ i + 1 \in DOMAIN q
<1>1. /\ Tail(q) \in Seq(Frames) /\ Head(q) \in Frames /\ Head(q) = q[1] /\ 1 \in DOMAIN q
      /\ DOMAIN Tail(q) = 1..(Len(q) - 1)
      /\ \A i \in DOMAIN Tail(q) : Tail(q)[i] = q[i + 1] /\ i + 1 \in DOMAIN q
  OBVIOUS
<1> DEFINE t == Tail(q)
<1> HIDE DEF t
<1>2. \A i \in DOMAIN t : t[i] = q[i + 1] /\ i + 1 \in DOMAIN q
  BY <1>1 DEF t
<1>3. FramesOurs(cl, t)
  BY <1>2 DEF FramesOurs
<1> QED
  BY <1>1, <1>3 DEF t, FramesOurs

LEMMA FramesPrefix ==
    ASSUME NEW cl, NEW q \in Seq(Frames), NEW n \in 0..Len(q), FramesOurs(cl, q)
    PROVE  SubSeq(q, 1, n) \in Seq(Frames) /\ FramesOurs(cl, SubSeq(q, 1, n))
<1> DEFINE t == SubSeq(q, 1, n)
<1>1. \A i \in 1..n : q[i] \in Frames
  OBVIOUS
<1>2. t \in Seq(Frames) /\ Len(t) = n /\ \A i \in 1..n : t[i] = q[i]
  BY <1>1, SubSeqProperties
<1> HIDE DEF t
<1>3. DOMAIN t = 1..n /\ \A i \in 1..n : i \in DOMAIN q
  BY <1>2
<1> QED
  BY <1>2, <1>3 DEF t, FramesOurs

LEMMA FramesAppend ==
    ASSUME NEW cl, NEW q \in Seq(Frames), NEW f \in Frames, FramesOurs(cl, q),
           AllOurs(cl, f.cmds)
    PROVE  /\ Append(q, f) \in Seq(Frames) /\ FramesOurs(cl, Append(q, f))
           /\ \A i \in DOMAIN Append(q, f) :
                 \/ i \in DOMAIN q /\ Append(q, f)[i] = q[i]
                 \/ i = Len(q) + 1 /\ Append(q, f)[i] = f
<1> DEFINE t == Append(q, f)
<1>1. t \in Seq(Frames) /\ Len(t) = Len(q) + 1
  BY AppendProperties
<1>2. \A i \in 1..Len(q) : t[i] = q[i]
  BY AppendProperties
<1>3. t[Len(q) + 1] = f
  BY AppendProperties
<1> HIDE DEF t
<1>4. \A i \in DOMAIN t : (i \in DOMAIN q /\ t[i] = q[i]) \/ (i = Len(q) + 1 /\ t[i] = f)
  BY <1>1, <1>2, <1>3
<1> QED
  BY <1>1, <1>4 DEF t, FramesOurs

-----------------------------------------------------------------------------
(* The steps of the client *)

(* What a filter, a suffix or a tail of the client's commands keeps. *)
LEMMA OursFrom ==
    ASSUME NEW cl, NEW s, NEW t, AllOurs(cl, s), From(t, s)
    PROVE  AllOurs(cl, t)
BY DEF AllOurs, From

LEMMA OursLastOf ==
    ASSUME NEW cl, NEW s \in Seq(Commands), NEW n \in Nat, AllOurs(cl, s)
    PROVE  LastOf(s, n) \in Seq(Commands) /\ AllOurs(cl, LastOf(s, n))
BY LastOfFrom, OursFrom

LEMMA OursAppend ==
    ASSUME NEW cl, NEW s \in Seq(Commands), NEW c \in Commands, AllOurs(cl, s), OursTo(cl, c)
    PROVE  Append(s, c) \in Seq(Commands) /\ AllOurs(cl, Append(s, c))
<1> DEFINE t == Append(s, c)
<1>1. t \in Seq(Commands) /\ Len(t) = Len(s) + 1
  BY AppendProperties
<1>2. \A i \in 1..Len(s) : t[i] = s[i]
  BY AppendProperties
<1>3. t[Len(s) + 1] = c
  BY AppendProperties
<1> HIDE DEF t
<1>4. \A i \in DOMAIN t : (i \in DOMAIN s /\ t[i] = s[i]) \/ t[i] = c
  BY <1>1, <1>2, <1>3
<1> QED
  BY <1>1, <1>4 DEF t, AllOurs

LEMMA OursConcat ==
    ASSUME NEW cl, NEW s \in Seq(Commands), NEW t \in Seq(Commands),
           AllOurs(cl, s), AllOurs(cl, t)
    PROVE  s \o t \in Seq(Commands) /\ AllOurs(cl, s \o t)
<1> DEFINE u == s \o t
<1>1. u \in Seq(Commands) /\ Len(u) = Len(s) + Len(t)
  BY ConcatProperties
<1>2. \A i \in 1..(Len(s) + Len(t)) : u[i] = IF i <= Len(s) THEN s[i] ELSE t[i - Len(s)]
  BY ConcatProperties
<1>3. Len(s) \in Nat /\ Len(t) \in Nat /\ DOMAIN s = 1..Len(s) /\ DOMAIN t = 1..Len(t)
  OBVIOUS
<1> HIDE DEF u
<1>4. DOMAIN u = 1..(Len(s) + Len(t))
  BY <1>1
<1>5. \A i \in DOMAIN u : \/ i \in DOMAIN s /\ u[i] = s[i]
                          \/ i - Len(s) \in DOMAIN t /\ u[i] = t[i - Len(s)]
  BY <1>2, <1>3, <1>4
<1> QED
  BY <1>1, <1>5 DEF u, AllOurs

(* A frame carries the client's commands (buildInputFrame). *)
LEMMA InputFrameFacts ==
    ASSUME ClientTyped, Sent
    PROVE  /\ InputFrame \in Frames /\ InputFrame.kind = "input"
           /\ AllOurs(client, InputFrame.cmds)
<1> DEFINE fresh == client.outbox
           tail == LastOf(client.pending, Redundant + Len(fresh))
           repeat == {i \in DOMAIN tail : \A j \in DOMAIN fresh : fresh[j].seq # tail[i].seq}
           both == Picked(tail, repeat) \o fresh
           cut == LastOf(both, MaxFrame)
<1>1. fresh \in Seq(Commands) /\ client.pending \in Seq(Commands)
  BY ClientFields
<1>2. AllOurs(client, fresh) /\ AllOurs(client, client.pending)
  BY DEF Sent
<1>3. Redundant + Len(fresh) \in Nat /\ MaxFrame \in Nat
  BY <1>1, CommandsAssumption
<1>4. tail \in Seq(Commands) /\ AllOurs(client, tail)
  BY <1>1, <1>2, <1>3, OursLastOf
<1>5. repeat \in SUBSET DOMAIN tail
  OBVIOUS
<1>6. InputFrame = [kind |-> "input", cmds |-> cut]
  BY DEF InputFrame
<1> HIDE DEF fresh, tail, repeat
<1>7. Picked(tail, repeat) \in Seq(Commands) /\ AllOurs(client, Picked(tail, repeat))
  BY <1>4, <1>5, PickedFrom, OursFrom
<1>8. both \in Seq(Commands) /\ AllOurs(client, both)
  BY <1>1, <1>2, <1>7, OursConcat
<1> HIDE DEF both
<1>9. cut \in Seq(Commands) /\ AllOurs(client, cut)
  BY <1>3, <1>8, OursLastOf
<1> QED
  BY <1>6, <1>9 DEF Frames

(* Steps in which only the client and its sockets move. *)
Still == UNCHANGED intakeVars

LEMMA ServerStill ==
    ASSUME Server, Still
    PROVE  Server'
BY DEF Server, Still, intakeVars, IntakeTypeOK, QueueOrdered

(* A command is numbered above all before it (apply). *)
LEMMA ApplyKeeps ==
    ASSUME IInv, NEW dt \in Dts, Apply(dt)
    PROVE  IInv'
<1> DEFINE c == [seq |-> client.seq + 1, dt |-> dt, by |-> client.by]
           p == Append(client.pending, c)
           o == Append(client.outbox, c)
<1>1. /\ client.by \in 1..MaxPredictors /\ client.world \in 0..MaxWorlds
      /\ client.seq \in 0..MaxSeq /\ client.told \in BOOLEAN
      /\ client.pending \in Seq(Commands) /\ client.outbox \in Seq(Commands)
  BY ClientFields DEF IInv, Typed
<1>2. ~client.adopting /\ client.seq < MaxSeq
  BY DEF Apply
<1>3. c \in Commands
  <2>1. client.seq + 1 \in 1..MaxSeq /\ dt \in Nat
    BY <1>1, <1>2, CommandsAssumption
  <2> QED
    BY <1>1, <2>1 DEF Commands
<1>4. client' = [client EXCEPT !.seq = client.seq + 1, !.pending = p, !.outbox = o]
  BY DEF Apply
<1>5. client \in ClientType
  BY DEF IInv, Typed, ClientTyped
<1>6. UNCHANGED <<occ, lock, snap, excess, world, link, up, down, since>>
  BY DEF Apply, intakeVars
<1>7. p \in Seq(Commands) /\ o \in Seq(Commands)
  BY <1>1, <1>3
<1>8. \A i \in DOMAIN p : \/ i \in DOMAIN client.pending /\ p[i] = client.pending[i]
                          \/ i = Len(client.pending) + 1 /\ p[i].seq = client.seq + 1
  <2>1. c.seq = client.seq + 1
    OBVIOUS
  <2> HIDE DEF c
  <2> QED
    BY <1>1, <1>3, <2>1, AppendProperties
<1>9. c.by = client.by /\ c.seq = client.seq + 1
  OBVIOUS
<1> HIDE DEF c, p, o
<1>10. /\ client'.by = client.by /\ client'.world = client.world
       /\ client'.seq = client.seq + 1 /\ client'.pending = p /\ client'.outbox = o
       /\ client'.told = client.told /\ client'.adopting = client.adopting
  BY <1>4, <1>5 DEF ClientType
<1>11. ClientTyped'
  <2>1. client.seq + 1 \in 0..MaxSeq
    BY <1>1, <1>2, CommandsAssumption
  <2> QED
    BY <1>4, <1>5, <1>7, <2>1 DEF ClientTyped, ClientType
<1>12. Typed'
  BY <1>6, <1>11 DEF IInv, Typed, WorldTyped, LinkTyped, UpTyped, DownTyped
<1>13. Server'
  BY <1>6, ServerStill DEF IInv, Still, intakeVars
<1>14. Onward
  BY <1>1, <1>2, <1>10 DEF Onward
<1>15. Sent'
  <2>1. OursTo(client', c)
    BY <1>1, <1>9, <1>10, CommandsAssumption DEF OursTo
  <2>2. AllOurs(client', client.pending) /\ AllOurs(client', client.outbox)
    BY <1>1, <1>11, <1>14, OursOnward DEF IInv, Typed, Sent
  <2>3. AllOurs(client', p) /\ AllOurs(client', o)
    BY <1>1, <1>3, <2>1, <2>2, OursAppend DEF p, o
  <2>4. FramesOurs(client', up.now) /\ FramesOurs(client', up.old)
    BY <1>11, <1>14, FramesOnward DEF IInv, Typed, UpTyped, Sent
  <2>5. AllOurs(client', lock.cmds)
    BY <1>11, <1>14, OursOnward DEF IInv, Typed, Sent, Numbered
  <2> QED
    BY <1>6, <1>10, <2>3, <2>4, <2>5 DEF Sent
<1>16. Numbered' /\ Outside' /\ Acks'
  BY <1>6 DEF IInv, Numbered, Outside, Acks, Inside
<1>17. Heard'
  BY <1>6, <1>10 DEF IInv, Heard
<1>18. Greeted'
  BY <1>6, <1>10 DEF IInv, Greeted
<1>19. Held'
  BY <1>2, <1>10 DEF Held
<1>20. occ.high \in Nat
  BY Fields DEF IInv, Server
<1>21. Marks' /\ ResumedIsHeard'
  <2>1. ASSUME occ.high <= client.seq PROVE occ.high <= client'.seq
    BY <1>1, <1>10, <1>20, <2>1
  <2>2. Marks'
    BY <1>2, <1>6, <1>10, <2>1 DEF IInv, Marks
  <2>3. ResumedIsHeard'
    BY <1>2, <1>6, <1>10, <2>1 DEF IInv, ResumedIsHeard
  <2> QED
    BY <2>2, <2>3
<1>22. OneNumberOneCommand'
  <2>1. \A i \in DOMAIN client.pending :
            /\ client.pending[i].seq \in Nat /\ client.pending[i].seq <= client.seq
            /\ \A j \in 1..(i - 1) : client.pending[j].seq < client.pending[i].seq
    BY <1>1, CommandFields DEF IInv, OneNumberOneCommand
  <2>2. DOMAIN client.pending = 1..Len(client.pending) /\ Len(client.pending) \in Nat
    BY <1>1
  <2>3. ASSUME NEW i \in DOMAIN p
        PROVE  /\ p[i].seq <= client.seq + 1
               /\ \A j \in 1..(i - 1) : p[j].seq < p[i].seq
    <3>1. DOMAIN p = 1..Len(p) /\ Len(p) = Len(client.pending) + 1
      BY <1>1, <1>3 DEF p
    <3>2. CASE i \in DOMAIN client.pending /\ p[i] = client.pending[i]
      <4>1. \A j \in 1..(i - 1) : j \in DOMAIN client.pending /\ p[j] = client.pending[j]
        BY <1>8, <2>2, <3>1, <3>2
      <4>2. p[i].seq \in Nat /\ p[i].seq <= client.seq
        BY <2>1, <3>2
      <4>3. \A j \in 1..(i - 1) : p[j].seq < p[i].seq
        BY <2>1, <3>2, <4>1
      <4> QED
        BY <1>1, <4>2, <4>3
    <3>3. CASE i = Len(client.pending) + 1 /\ p[i].seq = client.seq + 1
      <4>1. \A j \in 1..(i - 1) : j \in DOMAIN client.pending /\ p[j] = client.pending[j]
        BY <1>8, <2>2, <3>1, <3>3
      <4>2. \A j \in 1..(i - 1) : p[j].seq \in Nat /\ p[j].seq <= client.seq
        BY <2>1, <4>1
      <4> QED
        BY <1>1, <3>3, <4>2
    <3> QED
      BY <1>8, <3>2, <3>3
  <2> QED
    BY <1>10, <2>3 DEF OneNumberOneCommand
<1> QED
  BY <1>12, <1>13, <1>15, <1>16, <1>17, <1>18, <1>19, <1>21, <1>22 DEF IInv

(* What every step of the client leaves in place, once its new commands    *)
(* and frames are seen to be its own.                                      *)
LEMMA ClientMoves ==
    ASSUME IInv, Still, since' = since, ClientTyped', Onward,
           AllOurs(client', client'.pending), AllOurs(client', client'.outbox),
           FramesOurs(client', up'.now), FramesOurs(client', up'.old)
    PROVE  Server' /\ Sent' /\ Numbered' /\ Outside' /\ Heard'
<1>1. UNCHANGED <<occ, lock, snap, excess>>
  BY DEF Still, intakeVars
<1>2. Server'
  BY ServerStill DEF IInv
<1>3. Sent'
  <2>1. AllOurs(client', lock.cmds)
    BY OursOnward DEF IInv, Typed, Sent, Numbered
  <2> QED
    BY <1>1, <2>1 DEF Sent
<1>4. Numbered' /\ Outside'
  BY <1>1 DEF IInv, Numbered, Outside, Inside
<1>5. Heard'
  <2>1. client.by \in Nat
    BY ClientFields DEF IInv, Typed
  <2>2. client'.by \in Nat /\ client.by <= client'.by
    <3>1. client' \in ClientType
      BY DEF ClientTyped
    <3> QED
      BY <3>1, CommandsAssumption DEF ClientType, Onward
  <2>3. 1..client.by \subseteq 1..client'.by
    BY <2>1, <2>2
  <2> QED
    BY <2>3 DEF IInv, Heard
<1> QED
  BY <1>2, <1>3, <1>4, <1>5

(* The outbox is spent on a frame, sent or not (sendInput). *)
LEMMA SendInputKeeps ==
    ASSUME IInv, SendInput
    PROVE  IInv'
<1>0. ClientTyped /\ UpTyped /\ client \in ClientType /\ up \in [now : Seq(Frames), old : Seq(Frames)]
  BY DEF IInv, Typed, ClientTyped, UpTyped
<1>1. client' = [client EXCEPT !.outbox = <<>>]
  BY DEF SendInput
<1>2. UNCHANGED <<occ, lock, snap, excess, world, link, down, since>>
  BY DEF SendInput, intakeVars
<1>3. /\ client'.by = client.by /\ client'.seq = client.seq
      /\ client'.pending = client.pending /\ client'.outbox = <<>>
      /\ client'.told = client.told /\ client'.adopting = client.adopting
  BY <1>0, <1>1 DEF ClientType
<1>4. ClientTyped'
  <2>1. <<>> \in Seq(Commands)
    OBVIOUS
  <2> QED
    BY <1>0, <1>1, <2>1 DEF ClientTyped, ClientType
<1>5. client.by \in Nat /\ client.seq \in Nat
  BY <1>0, ClientFields
<1>6. Onward
  BY <1>3, <1>5 DEF Onward
<1>7. /\ InputFrame \in Frames /\ InputFrame.kind = "input"
      /\ AllOurs(client, InputFrame.cmds)
  BY <1>0, InputFrameFacts DEF IInv
<1>8. /\ up'.old = up.old /\ up' \in [now : Seq(Frames), old : Seq(Frames)]
      /\ FramesOurs(client, up'.now)
      /\ \A i \in DOMAIN up'.now : up'.now[i].kind = "hello" =>
            i \in DOMAIN up.now /\ up'.now[i] = up.now[i]
  <2>1. CASE link.open
    <3> DEFINE f == InputFrame
               q == Append(up.now, f)
    <3>1. up' = [up EXCEPT !.now = q]
      BY <2>1 DEF SendInput
    <3>2. up.now \in Seq(Frames) /\ FramesOurs(client, up.now)
      BY <1>0 DEF IInv, Sent
    <3> HIDE DEF f
    <3>3. /\ q \in Seq(Frames) /\ FramesOurs(client, q)
          /\ \A i \in DOMAIN q : (i \in DOMAIN up.now /\ q[i] = up.now[i]) \/ q[i] = f
      BY <1>7, <3>2, FramesAppend DEF f
    <3> HIDE DEF q
    <3>4. up'.now = q /\ up'.old = up.old /\ up' \in [now : Seq(Frames), old : Seq(Frames)]
      BY <1>0, <3>1, <3>3
    <3> QED
      BY <1>7, <3>3, <3>4 DEF f
  <2>2. CASE ~link.open
    <3>1. up' = up
      BY <2>2 DEF SendInput
    <3> QED
      BY <1>0, <3>1 DEF IInv, Sent
  <2> QED
    BY <2>1, <2>2
<1>9. /\ AllOurs(client', client'.pending) /\ AllOurs(client', client'.outbox)
      /\ FramesOurs(client', up'.now) /\ FramesOurs(client', up'.old)
  <2>1. AllOurs(client', client.pending)
    BY <1>0, <1>4, <1>6, ClientFields, OursOnward DEF IInv, Sent
  <2>2. FramesOurs(client', up'.now) /\ FramesOurs(client', up.old)
    BY <1>0, <1>4, <1>6, <1>8, FramesOnward DEF IInv, Sent
  <2>3. AllOurs(client', <<>>)
    BY DEF AllOurs
  <2> QED
    BY <1>3, <1>8, <2>1, <2>2, <2>3
<1>10. Typed'
  BY <1>2, <1>4, <1>8 DEF IInv, Typed, WorldTyped, LinkTyped, UpTyped, DownTyped
<1>11. Server' /\ Sent' /\ Numbered' /\ Outside' /\ Heard'
  BY <1>2, <1>4, <1>6, <1>9, ClientMoves DEF Still, intakeVars
<1>12. Greeted'
  BY <1>2, <1>3, <1>8 DEF IInv, Greeted
<1>13. Marks' /\ Held' /\ Acks'
  BY <1>2, <1>3 DEF IInv, Marks, Held, Acks
<1>14. OneNumberOneCommand' /\ ResumedIsHeard'
  BY <1>2, <1>3 DEF IInv, OneNumberOneCommand, ResumedIsHeard
<1> QED
  BY <1>10, <1>11, <1>12, <1>13, <1>14 DEF IInv

(* A new socket, with a hello in it (onStatus). *)
LEMMA OpenKeeps ==
    ASSUME IInv, Open
    PROVE  IInv'
<1> DEFINE f == [kind |-> "hello", cmds |-> <<>>]
<1>1. UNCHANGED <<occ, lock, snap, excess, world, down, client, since>>
  BY DEF Open, intakeVars
<1>2. ~link.open /\ link.count < MaxConns
  BY DEF Open
<1>3. up' = [up EXCEPT !.now = <<f>>] /\ link' = [open |-> TRUE, count |-> link.count + 1]
  BY DEF Open
<1>4. f \in Frames /\ AllOurs(client, f.cmds)
  BY DEF Frames, AllOurs
<1> HIDE DEF f
<1>5. /\ <<f>> \in Seq(Frames) /\ \A i \in DOMAIN <<f>> : i = 1
      /\ FramesOurs(client, <<f>>)
  BY <1>4 DEF FramesOurs
<1>6. up \in [now : Seq(Frames), old : Seq(Frames)]
  BY DEF IInv, Typed, UpTyped
<1>7. UpTyped' /\ up'.now = <<f>> /\ up'.old = up.old
  BY <1>3, <1>5, <1>6 DEF UpTyped
<1>8. LinkTyped' /\ link'.open
  <2>1. link.count \in 0..MaxConns
    BY DEF IInv, Typed, LinkTyped
  <2>2. link.count + 1 \in 0..MaxConns
    BY <1>2, <2>1, CommandsAssumption
  <2> QED
    BY <1>3, <2>2 DEF LinkTyped
<1>9. Typed'
  BY <1>1, <1>7, <1>8 DEF IInv, Typed, WorldTyped, DownTyped, ClientTyped
<1>10. Server'
  BY <1>1, ServerStill DEF IInv, Still, intakeVars
<1>11. Sent'
  BY <1>1, <1>5, <1>7 DEF IInv, Sent
<1>12. Greeted'
  <2>1. down = <<>> /\ ~client.told
    BY <1>2 DEF IInv, Greeted
  <2>2. \A k \in DOMAIN down : down[k].kind # "ready"
    BY <2>1
  <2> QED
    BY <1>1, <1>5, <1>7, <1>8, <2>1, <2>2 DEF Greeted
<1>13. Numbered' /\ Heard' /\ Outside' /\ Marks' /\ Held' /\ Acks'
  BY <1>1 DEF IInv, Numbered, Heard, Outside, Inside, Marks, Held, Acks
<1>14. OneNumberOneCommand' /\ ResumedIsHeard'
  BY <1>1 DEF IInv, OneNumberOneCommand, ResumedIsHeard
<1> QED
  BY <1>9, <1>10, <1>11, <1>12, <1>13, <1>14 DEF IInv

(* The socket dies, and with it what it carried to the client. *)
LEMMA CutKeeps ==
    ASSUME IInv, Cut
    PROVE  IInv'
<1>0. /\ client \in ClientType /\ ClientTyped
      /\ up \in [now : Seq(Frames), old : Seq(Frames)]
  BY DEF IInv, Typed, UpTyped, ClientTyped
<1>1. PICK n \in 0..Len(up.now) : up' = [now |-> <<>>, old |-> SubSeq(up.now, 1, n)]
  BY DEF Cut
<1>2. UNCHANGED <<occ, lock, snap, excess, world, since>> /\ down' = <<>>
  BY DEF Cut, intakeVars
<1>3. client' = [client EXCEPT !.told = FALSE] /\ link' = [link EXCEPT !.open = FALSE]
  BY DEF Cut
<1>4. /\ client'.by = client.by /\ client'.seq = client.seq
      /\ client'.pending = client.pending /\ client'.outbox = client.outbox
      /\ client'.told = FALSE /\ client'.adopting = client.adopting
  BY <1>0, <1>3 DEF ClientType
<1>5. ClientTyped'
  BY <1>0, <1>3 DEF ClientTyped, ClientType
<1>6. LinkTyped' /\ link'.open = FALSE
  BY <1>3 DEF IInv, Typed, LinkTyped
<1>7. client.by \in Nat /\ client.seq \in Nat
  BY <1>0, ClientFields
<1>8. Onward
  BY <1>4, <1>7 DEF Onward
<1>9. SubSeq(up.now, 1, n) \in Seq(Frames) /\ FramesOurs(client, SubSeq(up.now, 1, n))
  BY <1>0, FramesPrefix DEF IInv, Sent
<1>10. UpTyped' /\ up'.now = <<>> /\ up'.old = SubSeq(up.now, 1, n)
  BY <1>1, <1>9 DEF UpTyped
<1>11. /\ AllOurs(client', client'.pending) /\ AllOurs(client', client'.outbox)
       /\ FramesOurs(client', up'.now) /\ FramesOurs(client', up'.old)
  <2>1. AllOurs(client', client.pending) /\ AllOurs(client', client.outbox)
    BY <1>0, <1>5, <1>8, ClientFields, OursOnward DEF IInv, Sent
  <2>2. FramesOurs(client', SubSeq(up.now, 1, n))
    BY <1>0, <1>5, <1>8, <1>9, FramesOnward
  <2>3. FramesOurs(client', <<>>)
    BY DEF FramesOurs
  <2> QED
    BY <1>4, <1>10, <2>1, <2>2, <2>3
<1>12. Typed'
  BY <1>2, <1>5, <1>6, <1>10 DEF IInv, Typed, WorldTyped, DownTyped
<1>13. Server' /\ Sent' /\ Numbered' /\ Outside' /\ Heard'
  BY <1>2, <1>5, <1>8, <1>11, ClientMoves DEF Still, intakeVars
<1>14. Greeted'
  BY <1>2, <1>4, <1>10 DEF Greeted
<1>15. Marks' /\ Held'
  BY <1>2, <1>4 DEF Marks, Held
<1>16. Acks'
  BY <1>2 DEF IInv, Acks
<1>17. OneNumberOneCommand' /\ ResumedIsHeard'
  BY <1>2, <1>4 DEF IInv, OneNumberOneCommand, ResumedIsHeard
<1> QED
  BY <1>12, <1>13, <1>14, <1>15, <1>16, <1>17 DEF IInv

(* Reading a frame from the server. *)
LEMMA DownTail ==
    ASSUME DownTyped, down # <<>>
    PROVE  /\ Head(down) = down[1] /\ 1 \in DOMAIN down /\ Head(down) \in DownType
           /\ Head(down).seq \in 0..MaxSeq
           /\ Tail(down) \in Seq(DownType)
           /\ \A k \in DOMAIN Tail(down) : k + 1 \in DOMAIN down /\ Tail(down)[k] = down[k + 1]
<1>1. down \in Seq(DownType)
  BY DEF DownTyped
<1>2. /\ Head(down) = down[1] /\ 1 \in DOMAIN down
      /\ Tail(down) \in Seq(DownType)
      /\ \A k \in DOMAIN Tail(down) : k + 1 \in DOMAIN down /\ Tail(down)[k] = down[k + 1]
  BY <1>1
<1>3. down[1] \in DownType /\ down[1].seq \in 0..MaxSeq
  BY <1>1, <1>2, DownFields
<1> QED
  BY <1>2, <1>3

(* A building to go to. *)
LEMMA WorldEnsured ==
    ASSUME WorldTyped, EnsureWorld
    PROVE  WorldTyped' /\ world'.id \in 0..MaxWorlds
<1>1. world.id \in 1..MaxWorlds /\ world.id \in Nat
  BY CommandsAssumption DEF WorldTyped
<1>2. CASE world.stands
  BY <1>1, <1>2, CommandsAssumption DEF EnsureWorld, WorldTyped
<1>3. CASE ~world.stands
  <2>1. world' = [id |-> world.id + 1, stands |-> TRUE] /\ world'.id <= MaxWorlds
    BY <1>3 DEF EnsureWorld
  <2>2. world.id + 1 \in 1..MaxWorlds
    BY <1>1, <2>1, CommandsAssumption
  <2> QED
    BY <1>1, <2>1, <2>2, CommandsAssumption DEF WorldTyped
<1> QED
  BY <1>2, <1>3

(* A predictor p that has not numbered anything above n. *)
Fresh(c, p, n) ==
    /\ c \in ClientType /\ c.by = p /\ c.seq = n /\ c.told = FALSE
    /\ c.adopting = FALSE /\ c.pending = <<>> /\ c.outbox = <<>>

LEMMA Predicted ==
    ASSUME NEW p \in 1..MaxPredictors, NEW w \in 0..MaxWorlds, NEW n \in 0..MaxSeq
    PROVE  Fresh(Predictor(p, w, n), p, n)
<1>1. <<>> \in Seq(Commands)
  OBVIOUS
<1> QED
  BY <1>1 DEF Predictor, ClientType, Fresh

(* A later predictor, with nothing in hand: a reload, or an adoption. *)
LEMMA NewPredictorKeeps ==
    ASSUME IInv, EnsureWorld, Still, UNCHANGED <<link, up, down, since>>,
           client' \in ClientType, client'.by = client.by + 1,
           client'.adopting = FALSE, client'.pending = <<>>, client'.outbox = <<>>,
           client'.told => client.told,
           client'.told /\ since = {} => occ.high <= client'.seq
    PROVE  IInv'
<1>1. ClientTyped /\ UpTyped /\ WorldTyped
  BY DEF IInv, Typed
<1>2. client.by \in 1..MaxPredictors /\ client.by \in Nat /\ client.seq \in Nat
  BY <1>1, ClientFields
<1>3. WorldTyped'
  BY <1>1, WorldEnsured
<1>4. ClientTyped'
  BY DEF ClientTyped
<1>5. Onward
  BY <1>2 DEF Onward
<1>6. UNCHANGED <<occ, lock, snap, excess>>
  BY DEF Still, intakeVars
<1>7. FramesOurs(client', up.now) /\ FramesOurs(client', up.old)
  BY <1>1, <1>4, <1>5, FramesOnward DEF IInv, Sent, UpTyped
<1>8. AllOurs(client', <<>>)
  BY DEF AllOurs
<1>9. Server' /\ Sent' /\ Numbered' /\ Outside' /\ Heard'
  BY <1>4, <1>5, <1>7, <1>8, ClientMoves
<1>10. Typed'
  BY <1>3, <1>4 DEF IInv, Typed, LinkTyped, UpTyped, DownTyped
<1>11. Greeted'
  BY DEF IInv, Greeted
<1>12. since \subseteq {client.by + 1} => since = {}
  <2>1. client.by + 1 \notin 1..client.by
    BY <1>2
  <2> QED
    BY <2>1 DEF IInv, Heard
<1>13. Marks'
  BY <1>6, <1>12 DEF IInv, Marks
<1>14. Held' /\ ResumedIsHeard'
  BY <1>6, <1>12 DEF Held, ResumedIsHeard
<1>15. Acks'
  BY <1>6 DEF IInv, Acks
<1>16. OneNumberOneCommand'
  BY DEF OneNumberOneCommand
<1> QED
  BY <1>9, <1>10, <1>11, <1>13, <1>14, <1>15, <1>16 DEF IInv

(* The page is loaded again. *)
LEMMA ReloadKeeps ==
    ASSUME IInv, Reload
    PROVE  IInv'
<1> DEFINE b == client.by + 1
           w == world'.id
<1>1. /\ EnsureWorld /\ client.by < MaxPredictors /\ Still
      /\ client' = Predictor(b, w, 0)
      /\ UNCHANGED <<link, up, down, since>>
  BY DEF Reload, Still
<1>2. b \in 1..MaxPredictors /\ w \in 0..MaxWorlds /\ 0 \in 0..MaxSeq
  BY <1>1, ClientFields, WorldEnsured, CommandsAssumption DEF IInv, Typed
<1>3. b = client.by + 1
  OBVIOUS
<1> HIDE DEF b, w
<1>4. /\ client' \in ClientType /\ client'.by = b
      /\ client'.adopting = FALSE /\ client'.pending = <<>> /\ client'.outbox = <<>>
      /\ client'.told = FALSE
  <2>1. Fresh(client', b, 0)
    BY <1>1, <1>2, Predicted
  <2> QED
    BY <2>1 DEF Fresh
<1> QED
  BY <1>1, <1>3, <1>4, NewPredictorKeeps

(* The building is fetched: the mark held for its predictor is its counter. *)
LEMMA AdoptKeeps ==
    ASSUME IInv, Adopt
    PROVE  IInv'
<1> DEFINE b == client.by + 1
           w == world'.id
           n == client.seq
<1>1. /\ EnsureWorld /\ client.by < MaxPredictors /\ Still /\ client.adopting
      /\ client' = [Predictor(b, w, Resumed(0, n)) EXCEPT !.told = client.told]
      /\ UNCHANGED <<link, up, down, since>>
  BY DEF Adopt, Still
<1>2. b \in 1..MaxPredictors /\ w \in 0..MaxWorlds /\ n \in 0..MaxSeq /\ n \in Nat
  <2>1. n \in 0..MaxSeq /\ n \in Nat /\ client.by \in 1..MaxPredictors
    BY ClientFields DEF IInv, Typed
  <2>2. w \in 0..MaxWorlds
    BY <1>1, WorldEnsured DEF IInv, Typed
  <2>3. b \in 1..MaxPredictors
    BY <1>1, <2>1, CommandsAssumption
  <2> QED
    BY <2>1, <2>2, <2>3
<1>3. Resumed(0, n) = n
  BY <1>2 DEF Resumed, Most
<1>4. client.told \in BOOLEAN
  BY ClientFields DEF IInv, Typed
<1>5. client.told /\ since = {} => occ.high <= n
  BY <1>1 DEF IInv, Held
<1>6. b = client.by + 1
  OBVIOUS
<1> HIDE DEF b, w, n
<1> DEFINE c == Predictor(b, w, n)
<1>7. /\ c \in ClientType /\ c.by = b /\ c.seq = n
      /\ c.adopting = FALSE /\ c.pending = <<>> /\ c.outbox = <<>>
  <2>1. Fresh(c, b, n)
    BY <1>2, Predicted
  <2> HIDE DEF c
  <2> QED
    BY <2>1 DEF Fresh
<1>8. client' = [c EXCEPT !.told = client.told]
  BY <1>1, <1>3
<1> HIDE DEF c
<1>9. /\ client' \in ClientType /\ client'.by = b /\ client'.seq = n
      /\ client'.adopting = FALSE /\ client'.pending = <<>> /\ client'.outbox = <<>>
      /\ client'.told = client.told
  BY <1>4, <1>7, <1>8 DEF ClientType
<1> QED
  BY <1>1, <1>5, <1>6, <1>9, NewPredictorKeeps

(* The last of the others leaves. *)
LEMMA OthersLeaveKeeps ==
    ASSUME IInv, OthersLeave
    PROVE  IInv'
<1>1. UNCHANGED <<occ, lock, snap, excess, link, up, down, client, since>>
      /\ world' = [world EXCEPT !.stands = FALSE]
  BY DEF OthersLeave, intakeVars
<1>2. Typed'
  BY <1>1 DEF IInv, Typed, WorldTyped, LinkTyped, UpTyped, DownTyped, ClientTyped
<1>3. Server'
  BY <1>1, ServerStill DEF IInv, Still, intakeVars
<1>4. Sent' /\ Numbered' /\ Heard' /\ Outside' /\ Greeted'
  BY <1>1 DEF IInv, Sent, Numbered, Heard, Outside, Inside, Greeted
<1>5. Marks' /\ Held' /\ Acks' /\ OneNumberOneCommand' /\ ResumedIsHeard'
  BY <1>1 DEF IInv, Marks, Held, Acks, OneNumberOneCommand, ResumedIsHeard
<1> QED
  BY <1>2, <1>3, <1>4, <1>5 DEF IInv

(***************************************************************************)
(* A frame from the server is read: what is left of the marks and the      *)
(* acknowledgements is what it was, of a counter that has not gone back.   *)
(***************************************************************************)
LEMMA ReadKeeps ==
    ASSUME IInv, down # <<>>, down' = Tail(down), Still, UNCHANGED <<world, link, up, since>>,
           ClientTyped', Onward, client'.by = client.by,
           client'.adopting \/ client.seq <= client'.seq,
           AllOurs(client', client'.pending), AllOurs(client', client'.outbox),
           client'.told # client.told => \E k \in DOMAIN down : down[k].kind = "ready",
           Held', ResumedIsHeard', OneNumberOneCommand'
    PROVE  IInv'
<1>0. ClientTyped /\ UpTyped /\ DownTyped
  BY DEF IInv, Typed
<1>1. UNCHANGED <<occ, lock, snap, excess>>
  BY DEF Still, intakeVars
<1>2. /\ Tail(down) \in Seq(DownType)
      /\ \A k \in DOMAIN down' : k + 1 \in DOMAIN down /\ down'[k] = down[k + 1]
  BY <1>0, DownTail
<1>3. Typed'
  BY <1>2 DEF IInv, Typed, WorldTyped, LinkTyped, UpTyped, DownTyped
<1>4. FramesOurs(client', up.now) /\ FramesOurs(client', up.old)
  BY <1>0, FramesOnward DEF IInv, Sent, UpTyped
<1>5. Server' /\ Sent' /\ Numbered' /\ Outside' /\ Heard'
  BY <1>4, ClientMoves
<1>6. Greeted'
  <2>1. link.open
    BY DEF IInv, Greeted
  <2>2. \A i \in DOMAIN up.now :
           up.now[i].kind = "hello" =>
              i = 1 /\ ~client'.told /\ \A k \in DOMAIN down' : down'[k].kind # "ready"
    BY <1>2 DEF IInv, Greeted
  <2> QED
    BY <2>1, <2>2 DEF Greeted
<1>7. Marks'
  <2>1. client.seq \in Nat /\ client'.seq \in Nat /\ occ.high \in Nat
    <3>1. client' \in ClientType
      BY DEF ClientTyped
    <3>2. client'.seq \in Nat
      BY <3>1, CommandsAssumption DEF ClientType
    <3> QED
      BY <1>0, <3>2, ClientFields, Fields DEF IInv, Server
  <2> SUFFICES ASSUME NEW k \in DOMAIN down', down'[k].kind = "ready"
               PROVE  /\ since = {} => occ.high <= down'[k].seq
                      /\ ~client'.adopting /\ since \subseteq {client'.by}
                            => occ.high <= down'[k].seq \/ occ.high <= client'.seq
    BY <1>1 DEF Marks
  <2>2. k + 1 \in DOMAIN down /\ down'[k] = down[k + 1]
    BY <1>2
  <2>3. since = {} => occ.high <= down'[k].seq
    BY <2>2 DEF IInv, Marks
  <2>4. ASSUME ~client'.adopting, since \subseteq {client'.by}
        PROVE  occ.high <= down'[k].seq \/ occ.high <= client'.seq
    <3>1. ~client.adopting /\ client.seq <= client'.seq
      BY <2>4 DEF Onward
    <3>2. occ.high <= down'[k].seq \/ occ.high <= client.seq
      BY <2>2, <2>4, <3>1 DEF IInv, Marks
    <3>3. occ.high <= client.seq => occ.high <= client'.seq
      BY <2>1, <3>1
    <3> QED
      BY <3>2, <3>3
  <2> QED
    BY <2>3, <2>4
<1>8. Acks'
  BY <1>1, <1>2 DEF IInv, Acks
<1> QED
  BY <1>3, <1>5, <1>6, <1>7, <1>8 DEF IInv

(* The ready frame is read. *)
LEMMA ReadReadyKeeps ==
    ASSUME IInv, ReadReady
    PROVE  IInv'
<1> DEFINE h == Head(down)
<1>1. /\ down # <<>> /\ h.kind = "ready" /\ down' = Tail(down) /\ Still
      /\ UNCHANGED <<world, link, up, since>>
  BY DEF ReadReady, Still
<1>2. /\ h = down[1] /\ 1 \in DOMAIN down /\ h \in DownType /\ h.seq \in 0..MaxSeq
  BY <1>1, DownTail DEF IInv, Typed
<1>3. UNCHANGED <<occ, lock, snap, excess>>
  BY <1>1 DEF Still, intakeVars
<1>4. /\ client \in ClientType /\ client.by \in Nat /\ client.seq \in 0..MaxSeq
      /\ client.seq \in Nat /\ client.adopting \in BOOLEAN
      /\ client.pending \in Seq(Commands) /\ client.outbox \in Seq(Commands)
  BY ClientFields DEF IInv, Typed, ClientTyped
<1>5. h.seq \in Nat /\ occ.high \in Nat
  BY <1>2, CommandsAssumption, Fields DEF IInv, Server
<1>6. /\ since = {} => occ.high <= h.seq
      /\ ~client.adopting /\ since \subseteq {client.by}
            => occ.high <= h.seq \/ occ.high <= client.seq
  BY <1>1, <1>2 DEF IInv, Marks
<1>7. \E k \in DOMAIN down : down[k].kind = "ready"
  BY <1>1, <1>2
<1>8. CASE client.adopting
  <2>1. client' = client
    BY <1>8 DEF ReadReady
  <2>2. ClientTyped' /\ Held' /\ ResumedIsHeard' /\ OneNumberOneCommand'
    BY <1>1, <1>3, <2>1
    DEF IInv, Typed, ClientTyped, Held, ResumedIsHeard, OneNumberOneCommand
  <2>3. Onward
    BY <1>4, <1>8, <2>1 DEF Onward
  <2>4. AllOurs(client', client'.pending) /\ AllOurs(client', client'.outbox)
    BY <2>1 DEF IInv, Sent
  <2> QED
    BY <1>1, <1>4, <1>8, <2>1, <2>2, <2>3, <2>4, ReadKeeps
<1>9. CASE ~client.adopting /\ h.world # client.world
  <2>1. client' = [client EXCEPT !.adopting = TRUE, !.told = TRUE, !.seq = h.seq,
                                 !.pending = <<>>, !.outbox = <<>>]
    BY <1>9 DEF ReadReady
  <2>2. <<>> \in Seq(Commands)
    OBVIOUS
  <2> HIDE DEF h
  <2>3. /\ client'.by = client.by /\ client'.seq = h.seq /\ client'.adopting = TRUE
        /\ client'.pending = <<>> /\ client'.outbox = <<>>
    BY <1>4, <2>1 DEF ClientType
  <2>4. ClientTyped'
    BY <1>2, <1>4, <2>1, <2>2 DEF ClientTyped, ClientType
  <2>5. Onward
    BY <1>4, <2>3 DEF Onward
  <2>6. Held' /\ ResumedIsHeard' /\ OneNumberOneCommand'
    BY <1>1, <1>3, <1>6, <2>3 DEF Held, ResumedIsHeard, OneNumberOneCommand
  <2>7. AllOurs(client', client'.pending) /\ AllOurs(client', client'.outbox)
    BY <2>3 DEF AllOurs
  <2> QED
    BY <1>1, <1>7, <2>3, <2>4, <2>5, <2>6, <2>7, ReadKeeps DEF h
<1>10. CASE ~client.adopting /\ h.world = client.world
  <2> DEFINE n == Resumed(client.seq, h.seq)
  <2>1. client' = [client EXCEPT !.told = TRUE, !.seq = n]
    BY <1>10 DEF ReadReady
  <2>2. /\ n \in 0..MaxSeq /\ n \in Nat /\ client.seq <= n /\ h.seq <= n
    BY <1>2, <1>4, <1>5 DEF Resumed, Most
  <2> HIDE DEF h, n
  <2>3. /\ client'.by = client.by /\ client'.seq = n /\ client'.adopting = client.adopting
        /\ client'.pending = client.pending /\ client'.outbox = client.outbox
    BY <1>4, <2>1 DEF ClientType
  <2>4. ClientTyped'
    BY <1>4, <2>1, <2>2 DEF ClientTyped, ClientType
  <2>5. Onward
    BY <1>4, <1>10, <2>2, <2>3 DEF Onward
  <2>6. Held'
    BY <1>10, <2>3 DEF Held
  <2>7. ResumedIsHeard'
    <3>1. since \subseteq {client.by} => occ.high <= n
      BY <1>4, <1>5, <1>6, <1>10, <2>2
    <3> QED
      BY <1>1, <1>3, <2>3, <3>1 DEF ResumedIsHeard
  <2>8. OneNumberOneCommand'
    <3>1. \A i \in DOMAIN client.pending : client.pending[i].seq \in Nat
      BY <1>4, CommandFields
    <3>2. \A i \in DOMAIN client.pending : client.pending[i].seq <= client.seq
      BY DEF IInv, OneNumberOneCommand
    <3>3. \A i \in DOMAIN client.pending : client.pending[i].seq <= n
      BY <1>4, <2>2, <3>1, <3>2
    <3> QED
      BY <2>3, <3>3 DEF IInv, OneNumberOneCommand
  <2>9. AllOurs(client', client'.pending) /\ AllOurs(client', client'.outbox)
    BY <1>4, <2>3, <2>4, <2>5, OursOnward DEF IInv, Typed, Sent
  <2> QED
    BY <1>1, <1>7, <2>2, <2>3, <2>4, <2>5, <2>6, <2>7, <2>8, <2>9, ReadKeeps DEF h
<1> QED
  BY <1>8, <1>9, <1>10

(* What is acknowledged is dropped, and what is left keeps its order (reconcile). *)
LEMMA ReadSnapKeeps ==
    ASSUME IInv, ReadSnap
    PROVE  IInv'
<1> DEFINE h == Head(down)
           I == {i \in DOMAIN client.pending : client.pending[i].seq > h.seq}
<1>1. /\ down # <<>> /\ down' = Tail(down) /\ Still
      /\ UNCHANGED <<world, link, up, since>>
  BY DEF ReadSnap, Still
<1>2. h.seq \in 0..MaxSeq
  BY <1>1, DownTail DEF IInv, Typed
<1>3. UNCHANGED <<occ, lock, snap, excess>>
  BY <1>1 DEF Still, intakeVars
<1>4. /\ client \in ClientType /\ client.by \in Nat /\ client.seq \in 0..MaxSeq
      /\ client.seq \in Nat /\ client.adopting \in BOOLEAN
      /\ client.pending \in Seq(Commands) /\ client.outbox \in Seq(Commands)
  BY ClientFields DEF IInv, Typed, ClientTyped
<1>5. h.seq \in Nat /\ occ.high \in Nat
  BY <1>2, CommandsAssumption, Fields DEF IInv, Server
<1>6. CASE client.adopting
  <2>1. client' = client
    BY <1>6 DEF ReadSnap
  <2>2. ClientTyped' /\ Held' /\ ResumedIsHeard' /\ OneNumberOneCommand'
    BY <1>1, <1>3, <2>1
    DEF IInv, Typed, ClientTyped, Held, ResumedIsHeard, OneNumberOneCommand
  <2>3. Onward
    BY <1>4, <1>6, <2>1 DEF Onward
  <2>4. AllOurs(client', client'.pending) /\ AllOurs(client', client'.outbox)
    BY <2>1 DEF IInv, Sent
  <2> QED
    BY <1>1, <1>4, <1>6, <2>1, <2>2, <2>3, <2>4, ReadKeeps
<1>7. CASE ~client.adopting
  <2> DEFINE n == Resumed(client.seq, h.seq)
             q == client.pending
             p == Picked(q, I)
  <2>1. client' = [client EXCEPT !.seq = n, !.pending = p]
    BY <1>7 DEF ReadSnap
  <2>2. n \in 0..MaxSeq /\ n \in Nat /\ client.seq <= n
    BY <1>2, <1>4, <1>5 DEF Resumed, Most
  <2>3. I \in SUBSET DOMAIN q /\ q \in Seq(Commands) /\ AllOurs(client, q)
    BY <1>4 DEF IInv, Sent
  <2>4. \A i \in DOMAIN q :
           /\ q[i].seq \in Nat /\ q[i].seq <= client.seq
           /\ \A j \in 1..(i - 1) : q[j].seq < q[i].seq
    BY <1>4, CommandFields DEF IInv, OneNumberOneCommand
  <2> HIDE DEF h, n, I, q
  <2>5. p \in Seq(Commands) /\ AllOurs(client, p)
    BY <2>3, PickedFrom, OursFrom
  <2>6. PICK f \in [1..Len(p) -> I] :
           /\ \A k \in 1..Len(p) : p[k] = q[f[k]]
           /\ \A k \in 1..Len(p) : \A j \in 1..(k - 1) : f[j] < f[k]
    BY <2>3, PickedFacts
  <2> HIDE DEF p
  <2>7. /\ client'.by = client.by /\ client'.seq = n /\ client'.adopting = client.adopting
        /\ client'.told = client.told
        /\ client'.pending = p /\ client'.outbox = client.outbox
    BY <1>4, <2>1 DEF ClientType
  <2>8. ClientTyped'
    BY <1>4, <2>1, <2>2, <2>5 DEF ClientTyped, ClientType
  <2>9. Onward
    BY <1>4, <1>7, <2>2, <2>7 DEF Onward
  <2>10. Held'
    BY <1>7, <2>7 DEF Held
  <2>11. ResumedIsHeard'
    <3>1. occ.high <= client.seq => occ.high <= n
      BY <1>4, <1>5, <2>2
    <3> QED
      BY <1>1, <1>3, <1>7, <2>7, <3>1 DEF IInv, ResumedIsHeard
  <2>12. OneNumberOneCommand'
    <3>1. DOMAIN p = 1..Len(p) /\ Len(p) \in Nat /\ DOMAIN q = 1..Len(q) /\ Len(q) \in Nat
      BY <2>3, <2>5
    <3>2. ASSUME NEW k \in 1..Len(p)
          PROVE  p[k].seq <= n /\ \A j \in 1..(k - 1) : p[j].seq < p[k].seq
      <4>1. f[k] \in DOMAIN q /\ p[k] = q[f[k]]
        BY <2>3, <2>6
      <4>2. p[k].seq \in Nat /\ p[k].seq <= client.seq
        BY <2>4, <4>1
      <4>3. p[k].seq <= n
        BY <1>4, <2>2, <4>2
      <4>4. ASSUME NEW j \in 1..(k - 1) PROVE p[j].seq < p[k].seq
        <5>1. j \in 1..Len(p)
          BY <3>1
        <5>2. f[j] \in DOMAIN q /\ p[j] = q[f[j]] /\ f[j] < f[k]
          BY <2>3, <2>6, <5>1
        <5>3. f[j] \in 1..(f[k] - 1)
          BY <3>1, <4>1, <5>2
        <5> QED
          BY <2>4, <4>1, <5>2, <5>3
      <4> QED
        BY <4>3, <4>4
    <3> QED
      BY <2>7, <3>1, <3>2 DEF OneNumberOneCommand
  <2>13. AllOurs(client', client'.pending) /\ AllOurs(client', client'.outbox)
    BY <1>4, <2>5, <2>7, <2>8, <2>9, OursOnward DEF IInv, Typed, Sent
  <2> QED
    BY <1>1, <2>2, <2>7, <2>8, <2>9, <2>10, <2>11, <2>12, <2>13, ReadKeeps
<1> QED
  BY <1>4, <1>6, <1>7

-----------------------------------------------------------------------------
(* The steps of the server *)

(* parseInput keeps numbers and predictors, and makes commands of commands. *)
LEMMA ParsedFacts ==
    ASSUME NEW cl, NEW s \in Seq(Commands), AllOurs(cl, s)
    PROVE  /\ Parsed(s) \in Seq(Commands) /\ Parsed(s) \in Seq(Wire)
           /\ AllOurs(cl, Parsed(s))
<1> DEFINE kept == LastOf(s, MaxFrame)
           p == [i \in DOMAIN kept |-> Sanitise(kept[i])]
<1>1. MaxFrame \in Nat
  BY CommandsAssumption
<1>2. kept \in Seq(Commands) /\ AllOurs(cl, kept)
  BY <1>1, OursLastOf
<1> HIDE DEF kept
<1>3. ASSUME NEW i \in DOMAIN kept
      PROVE  /\ Sanitise(kept[i]) \in Commands /\ Sanitise(kept[i]) \in Wire
             /\ OursTo(cl, Sanitise(kept[i]))
  <2> DEFINE c == kept[i]
             d == Most(0, Least(c.dt, MaxStep))
  <2>1. c \in Commands /\ c.seq \in 1..MaxSeq /\ c.by \in 1..MaxPredictors /\ c.dt \in Nat
    BY <1>2, CommandFields
  <2>2. OursTo(cl, c)
    BY <1>2 DEF AllOurs
  <2> HIDE DEF c
  <2>3. d \in Nat
    BY <2>1, IntakeAssumption DEF Most, Least
  <2>4. Sanitise(c) = [c EXCEPT !.dt = d]
    BY DEF Sanitise
  <2> HIDE DEF d
  <2>5. Sanitise(c) = [seq |-> c.seq, dt |-> d, by |-> c.by]
    BY <2>1, <2>4 DEF Commands
  <2>6. Sanitise(c) \in Commands
    BY <2>1, <2>3, <2>5 DEF Commands
  <2>7. Sanitise(c) \in Wire
    <3>1. c.seq \in Int /\ d \in Int /\ c.by \in Nat
      BY <2>1, <2>3, CommandsAssumption
    <3> QED
      BY <2>5, <3>1 DEF Wire
  <2>8. Sanitise(c).seq = c.seq /\ Sanitise(c).by = c.by
    BY <2>5
  <2>9. OursTo(cl, Sanitise(c))
    BY <2>2, <2>8 DEF OursTo
  <2> QED
    BY <2>6, <2>7, <2>9 DEF c
<1>4. DOMAIN kept = 1..Len(kept) /\ Len(kept) \in Nat
  BY <1>2
<1>5. p \in [1..Len(kept) -> Commands] /\ p \in [1..Len(kept) -> Wire]
  BY <1>3, <1>4
<1>6. DOMAIN p = DOMAIN kept /\ \A i \in DOMAIN kept : p[i] = Sanitise(kept[i])
  OBVIOUS
<1> HIDE DEF p
<1>7. p \in Seq(Commands) /\ p \in Seq(Wire)
  BY <1>4, <1>5
<1>8. AllOurs(cl, p)
  BY <1>3, <1>6 DEF AllOurs
<1> QED
  BY <1>7, <1>8 DEF p, kept, Parsed

(***************************************************************************)
(* Every step is a step of Intake, or one it does not see: whatever the    *)
(* sockets deliver, the server's half sees some frame or none.             *)
(***************************************************************************)
LEMMA IntakeStep ==
    ASSUME IInv, [Next]_vars
    PROVE  [IntakeNext]_intakeVars
<1>1. CASE UNCHANGED vars
  BY <1>1 DEF vars
<1>2. CASE ClientNext
  BY <1>2 DEF ClientNext, Apply, SendInput, Open, Cut, Reload, ReadReady, Adopt, ReadSnap
<1>3. ASSUME NEW pump \in {"now", "old"}, Hello(pump) PROVE IntakeNext
  BY <1>3 DEF Hello, IntakeNext
<1>4. ASSUME NEW pump \in {"now", "old"}, Input(pump) PROVE IntakeNext
  <2> DEFINE s == Head(up[pump]).cmds
             p == Parsed(s)
  <2>1. up \in [now : Seq(Frames), old : Seq(Frames)] /\ lock \in Locks
    BY DEF IInv, Typed, UpTyped, Server, IntakeTypeOK
  <2>2. up[pump] \in Seq(Frames) /\ FramesOurs(client, up[pump]) /\ up[pump] # <<>>
    <3>1. pump = "now" \/ pump = "old"
      OBVIOUS
    <3>2. up[pump] # <<>>
      BY <1>4 DEF Input
    <3> QED
      BY <2>1, <3>1, <3>2 DEF IInv, Sent
  <2>3. s \in Seq(Commands) /\ AllOurs(client, s)
    <3>1. Head(up[pump]) \in Frames /\ AllOurs(client, Head(up[pump]).cmds)
      BY <2>2, FramesTail
    <3> QED
      BY <3>1 DEF Frames
  <2>4. Receive(p)
    BY <1>4 DEF Input
  <2> HIDE DEF s
  <2>5. p \in Seq(Wire)
    BY <2>3, ParsedFacts
  <2> HIDE DEF p
  <2>6. lock'.cmds \in Seq(Wire) /\ Receive(lock'.cmds)
    <3>1. CASE Inside
      <4>1. lock'.cmds = p
        BY <2>1, <2>4, <3>1 DEF Receive, Locks
      <4> QED
        BY <2>4, <2>5, <4>1
    <3>2. CASE ~Inside
      <4>1. lock' = lock /\ lock.cmds \in Seq(Wire)
        BY <2>1, <2>4, <3>2 DEF Receive, Locks
      <4> QED
        BY <2>4, <3>2, <4>1 DEF Receive
    <3> QED
      BY <3>1, <3>2
  <2> QED
    BY <2>6 DEF IntakeNext
<1>5. CASE EnqueueNext
  BY <1>5 DEF EnqueueNext, Enqueue, IntakeNext
<1>6. CASE LoopNext
  BY <1>6 DEF LoopNext, StartTick, Leave, SendSnap, IntakeNext
<1>7. CASE OthersLeave
  BY <1>7 DEF OthersLeave
<1> QED
  BY <1>1, <1>2, <1>3, <1>4, <1>5, <1>6, <1>7 DEF Next, PumpNext

LEMMA ServerKeeps ==
    ASSUME IInv, [Next]_vars
    PROVE  Server'
BY IntakeStep, TypeStep, OrderStep DEF IInv, Server

(* A step inside Enqueue or Advance that accepts nothing: what the client  *)
(* holds against the world is as true as it was.                           *)
LEMMA InsideKeeps ==
    ASSUME IInv, Server', UNCHANGED clientVars, Inside, Inside',
           occ'.high = occ.high, occ.last <= occ'.last,
           lock'.cmds \in {lock.cmds, <<>>},
           lock'.by = "advance" => snap' = NoSnap,
           snap' # NoSnap => snap' <= occ'.last
    PROVE  IInv'
<1>1. UNCHANGED <<world, link, up, down, client, since>>
  BY DEF clientVars
<1>2. Typed'
  BY <1>1 DEF IInv, Typed, WorldTyped, LinkTyped, UpTyped, DownTyped, ClientTyped
<1>3. Sent' /\ Numbered'
  <2>1. AllOurs(client, lock'.cmds) /\ lock'.cmds \in Seq(Commands)
    <3>1. AllOurs(client, <<>>) /\ <<>> \in Seq(Commands)
      BY DEF AllOurs
    <3>2. AllOurs(client, lock.cmds) /\ lock.cmds \in Seq(Commands)
      BY DEF IInv, Sent, Numbered
    <3>3. lock'.cmds = lock.cmds \/ lock'.cmds = <<>>
      OBVIOUS
    <3> QED
      BY <3>1, <3>2, <3>3
  <2> QED
    BY <1>1, <2>1 DEF IInv, Sent, Numbered
<1>4. Heard' /\ Outside' /\ Greeted'
  BY <1>1 DEF IInv, Heard, Outside, Greeted
<1>5. Marks' /\ Held' /\ OneNumberOneCommand' /\ ResumedIsHeard'
  BY <1>1 DEF IInv, Marks, Held, OneNumberOneCommand, ResumedIsHeard
<1>6. Acks'
  <2>1. occ.last \in Nat /\ occ'.last \in Nat
    <3>1. occ' \in Occupants
      BY DEF Server, IntakeTypeOK
    <3> QED
      BY <3>1, Fields DEF IInv, Server, Occupants
  <2>2. ASSUME NEW k \in DOMAIN down, down[k].kind = "snap" PROVE down[k].seq <= occ'.last
    <3>1. down[k].seq \in Nat
      BY DownFields DEF IInv, Typed, DownTyped
    <3>2. down[k].seq <= occ.last
      BY <2>2 DEF IInv, Acks
    <3> QED
      BY <2>1, <3>1, <3>2
  <2> QED
    BY <1>1, <2>2 DEF Acks
<1> QED
  BY <1>2, <1>3, <1>4, <1>5, <1>6 DEF IInv

(* The loop over a tick, and the end of a frame's. *)
LEMMA LockedKeeps ==
    ASSUME IInv, Server', UNCHANGED clientVars,
           \/ EnqueueEnds \/ Tick \/ DrainOne
           \/ \E ticking \in BOOLEAN : TickEnds(ticking)
    PROVE  IInv'
<1>1. occ \in Occupants /\ lock \in Locks /\ occ.last \in Nat
  BY Fields DEF IInv, Server, IntakeTypeOK
<1>2. lock.by # "nobody" => Inside
  BY DEF IInv, Outside
<1>3. /\ lock.by = "advance" => snap = NoSnap
      /\ snap # NoSnap => snap <= occ.last
  BY DEF IInv, Acks
<1>4. CASE EnqueueEnds
  <2>1. /\ occ'.high = occ.high /\ occ'.last = occ.last /\ occ'.place = occ.place
        /\ lock.by # "nobody" /\ snap' = snap
        /\ lock'.by = "nobody" /\ lock'.cmds = <<>>
    BY <1>1, <1>4 DEF EnqueueEnds, Unlocked, Occupants
  <2>2. Inside /\ Inside'
    BY <1>2, <2>1 DEF Inside
  <2> QED
    BY <1>1, <1>3, <2>1, <2>2, InsideKeeps
<1>5. CASE Tick
  <2>1. /\ occ'.high = occ.high /\ occ'.last = occ.last /\ occ'.place = occ.place
        /\ snap' = snap /\ snap = NoSnap
    BY <1>1, <1>5 DEF Tick, Occupants
  <2>2. lock'.cmds = lock.cmds
    BY <1>1, <1>5 DEF Tick, Locks
  <2>3. Inside /\ Inside'
    BY <1>5, <2>1 DEF Tick, Inside
  <2> QED
    BY <1>1, <1>3, <2>1, <2>2, <2>3, InsideKeeps
<1>6. CASE DrainOne
  <2>1. lock.by = "advance" /\ occ.queue # <<>> /\ snap' = snap
    BY <1>6 DEF DrainOne, Affordable
  <2>2. occ.last < Head(occ.queue).seq /\ Head(occ.queue).seq \in Nat
    BY <2>1, HeadOfQueue DEF IInv, Server
  <2>3. /\ occ'.high = occ.high /\ occ'.last = Head(occ.queue).seq /\ occ'.place = occ.place
    BY <1>1, <1>6 DEF DrainOne, Occupants
  <2>4. lock'.cmds = lock.cmds
    BY <1>1, <1>6 DEF DrainOne, Locks
  <2>5. Inside /\ Inside'
    BY <1>2, <2>1, <2>3 DEF Inside
  <2>6. occ.last <= occ'.last
    BY <1>1, <2>2, <2>3
  <2> QED
    BY <1>3, <2>1, <2>3, <2>4, <2>5, <2>6, InsideKeeps
<1>7. ASSUME NEW ticking \in BOOLEAN, TickEnds(ticking) PROVE IInv'
  <2>1. /\ occ'.high = occ.high /\ occ'.last = occ.last /\ occ'.place = occ.place
        /\ lock.by # "nobody" /\ snap' = occ.last
        /\ lock'.by = "nobody" /\ lock'.cmds = <<>>
    BY <1>1, <1>7 DEF TickEnds, Ack, Unlocked, Occupants
  <2>2. Inside /\ Inside'
    BY <1>2, <2>1 DEF Inside
  <2> QED
    BY <1>1, <2>1, <2>2, InsideKeeps
<1> QED
  BY <1>4, <1>5, <1>6, <1>7

(* A read pump takes a frame: what is left of the sockets. *)
LEMMA PumpTakes ==
    ASSUME IInv, NEW pump \in {"now", "old"}, up[pump] # <<>>,
           up' = [up EXCEPT ![pump] = Tail(up[pump])]
    PROVE  /\ UpTyped' /\ FramesOurs(client, up'.now) /\ FramesOurs(client, up'.old)
           /\ Head(up[pump]) \in Frames /\ AllOurs(client, Head(up[pump]).cmds)
           /\ \A i \in DOMAIN up'.now :
                 up'.now[i].kind = "hello" => pump = "old" /\ up'.now = up.now
           /\ pump = "now" /\ Head(up[pump]).kind = "hello" =>
                 ~client.told /\ \A k \in DOMAIN down : down[k].kind # "ready"
<1>1. up \in [now : Seq(Frames), old : Seq(Frames)]
  BY DEF IInv, Typed, UpTyped
<1>2. /\ up.now \in Seq(Frames) /\ FramesOurs(client, up.now)
      /\ up.old \in Seq(Frames) /\ FramesOurs(client, up.old)
  BY <1>1 DEF IInv, Sent
<1>3. \A i \in DOMAIN up.now :
         up.now[i].kind = "hello" =>
            i = 1 /\ ~client.told /\ \A k \in DOMAIN down : down[k].kind # "ready"
  BY DEF IInv, Greeted
<1>4. CASE pump = "now"
  <2> DEFINE t == Tail(up.now)
  <2>1. /\ t \in Seq(Frames) /\ FramesOurs(client, t)
        /\ AllOurs(client, Head(up.now).cmds) /\ Head(up.now) \in Frames
        /\ DOMAIN t = 1..(Len(up.now) - 1)
        /\ \A i \in DOMAIN t : t[i] = up.now[i + 1] /\ i + 1 \in DOMAIN up.now
    BY <1>2, <1>4, FramesTail
  <2>2. Head(up.now) = up.now[1] /\ 1 \in DOMAIN up.now /\ Len(up.now) \in Nat
    BY <1>2, <1>4
  <2>3. up' = [up EXCEPT !.now = t]
    BY <1>4
  <2> HIDE DEF t
  <2>4. up'.now = t /\ up'.old = up.old /\ UpTyped'
    BY <1>1, <2>1, <2>3 DEF UpTyped
  <2>5. \A i \in DOMAIN t : t[i].kind # "hello"
    BY <1>3, <2>1, <2>2
  <2> QED
    BY <1>2, <1>3, <1>4, <2>1, <2>2, <2>4, <2>5
<1>5. CASE pump = "old"
  <2> DEFINE t == Tail(up.old)
  <2>1. /\ t \in Seq(Frames) /\ FramesOurs(client, t)
        /\ AllOurs(client, Head(up.old).cmds) /\ Head(up.old) \in Frames
    BY <1>2, <1>5, FramesTail
  <2>2. up' = [up EXCEPT !.old = t]
    BY <1>5
  <2> HIDE DEF t
  <2>3. up'.old = t /\ up'.now = up.now /\ UpTyped'
    BY <1>1, <2>1, <2>2 DEF UpTyped
  <2> QED
    BY <1>2, <1>5, <2>1, <2>3
<1> QED
  BY <1>4, <1>5

(* A frame on its way to the client, or dropped. *)
LEMMA Published ==
    ASSUME DownTyped, NEW f \in DownType, Publish(f)
    PROVE  /\ down' \in Seq(DownType)
           /\ ~link.open => down' = down
           /\ \A k \in DOMAIN down' :
                 (k \in DOMAIN down /\ down'[k] = down[k]) \/ down'[k] = f
<1>0. down \in Seq(DownType)
  BY DEF DownTyped
<1>1. CASE down' = down
  BY <1>0, <1>1
<1>2. CASE link.open /\ down' = Append(down, f)
  <2>1. down' \in Seq(DownType) /\ Len(down') = Len(down) + 1
    BY <1>0, <1>2, AppendProperties
  <2>2. (\A k \in 1..Len(down) : down'[k] = down[k]) /\ down'[Len(down) + 1] = f
    BY <1>0, <1>2, AppendProperties
  <2>3. DOMAIN down' = 1..(Len(down) + 1) /\ DOMAIN down = 1..Len(down) /\ Len(down) \in Nat
    BY <1>0, <2>1
  <2>4. \A k \in DOMAIN down' : (k \in DOMAIN down /\ down'[k] = down[k]) \/ down'[k] = f
    BY <2>2, <2>3
  <2> QED
    BY <1>2, <2>1, <2>4
<1> QED
  BY <1>1, <1>2 DEF Publish

(* Join, and the mark its answer carries. *)
LEMMA HelloKeeps ==
    ASSUME IInv, Server', NEW pump \in {"now", "old"}, Hello(pump)
    PROVE  IInv'
<1>1. /\ up[pump] # <<>> /\ Head(up[pump]).kind = "hello" /\ EnsureWorld /\ Admit
      /\ up' = [up EXCEPT ![pump] = Tail(up[pump])]
      /\ UNCHANGED <<link, client, lock, snap>>
  BY DEF Hello, Admit
<1>2. /\ UpTyped' /\ FramesOurs(client, up'.now) /\ FramesOurs(client, up'.old)
      /\ \A i \in DOMAIN up'.now :
            up'.now[i].kind = "hello" => pump = "old" /\ up'.now = up.now
      /\ pump = "now" => ~client.told /\ \A k \in DOMAIN down : down[k].kind # "ready"
  BY <1>1, PumpTakes
<1>3. WorldTyped' /\ world'.id \in 0..MaxWorlds
  BY <1>1, WorldEnsured DEF IInv, Typed
<1>4. occ'.high = occ.high /\ occ'.last = occ.last /\ Inside'
  <2>1. CASE Inside
    BY <1>1, <2>1 DEF Admit, Inside
  <2>2. CASE ~Inside
    <3>1. occ = NoOccupant
      BY <2>2 DEF IInv, Outside
    <3>2. occ' = [NoOccupant EXCEPT !.place = "inside"]
      BY <1>1, <2>2 DEF Admit
    <3>3. occ'.high = 0 /\ occ'.last = 0 /\ occ'.place = "inside"
      BY <3>2, Blank
    <3> QED
      BY <3>1, <3>3 DEF NoOccupant, Inside
  <2> QED
    BY <2>1, <2>2
<1>5. occ.high \in 0..MaxSeq /\ occ.high \in Nat
  BY CommandsAssumption, Fields DEF IInv, Server, Numbered
<1>6. /\ DownTyped'
      /\ ~link.open => down' = down
      /\ \A k \in DOMAIN down' :
            \/ k \in DOMAIN down /\ down'[k] = down[k]
            \/ pump = "now" /\ down'[k].kind = "ready" /\ down'[k].seq = occ.high
      /\ \/ pump = "now" /\ since' = {}
         \/ pump = "old" /\ since' = since /\ down' = down
  <2>1. CASE pump = "now"
    <3> DEFINE f == [kind |-> "ready", seq |-> Mark, world |-> world'.id]
    <3>1. Publish(f) /\ since' = {}
      BY <2>1 DEF Hello
    <3>2. f \in DownType /\ f.kind = "ready" /\ f.seq = occ.high
      BY <1>3, <1>5 DEF DownType, Mark
    <3> HIDE DEF f
    <3>3. /\ down' \in Seq(DownType)
          /\ ~link.open => down' = down
          /\ \A k \in DOMAIN down' :
                (k \in DOMAIN down /\ down'[k] = down[k]) \/ down'[k] = f
      BY <3>1, <3>2, Published DEF IInv, Typed
    <3>4. DownTyped'
      BY <3>3 DEF DownTyped
    <3>5. \A k \in DOMAIN down' :
             \/ k \in DOMAIN down /\ down'[k] = down[k]
             \/ down'[k].kind = "ready" /\ down'[k].seq = occ.high
      BY <3>2, <3>3
    <3>6. ~link.open => down' = down
      BY <3>3
    <3>7. \A k \in DOMAIN down' :
             \/ k \in DOMAIN down /\ down'[k] = down[k]
             \/ pump = "now" /\ down'[k].kind = "ready" /\ down'[k].seq = occ.high
      BY <2>1, <3>5, Zenon
    <3>8. \/ pump = "now" /\ since' = {}
          \/ pump = "old" /\ since' = since /\ down' = down
      BY <2>1, <3>1, Zenon
    <3> QED
      BY <3>4, <3>6, <3>7, <3>8, Zenon
  <2>2. CASE pump = "old"
    <3>1. down' = down /\ since' = since
      BY <2>2 DEF Hello
    <3> QED
      BY <2>2, <3>1 DEF IInv, Typed, DownTyped
  <2> QED
    BY <2>1, <2>2
<1>7. Typed'
  BY <1>1, <1>2, <1>3, <1>6 DEF IInv, Typed, LinkTyped, ClientTyped
<1>8. Sent' /\ Numbered'
  BY <1>1, <1>2, <1>4 DEF IInv, Sent, Numbered
<1>9. Heard' /\ Outside'
  BY <1>1, <1>4, <1>6 DEF IInv, Heard, Outside
<1>10. Greeted'
  <2>1. ~link.open => down' = <<>> /\ ~client.told
    BY <1>6 DEF IInv, Greeted
  <2>2. ASSUME NEW i \in DOMAIN up'.now, up'.now[i].kind = "hello"
        PROVE  i = 1 /\ ~client.told /\ \A k \in DOMAIN down' : down'[k].kind # "ready"
    <3>1. pump = "old" /\ up'.now = up.now
      BY <1>2, <2>2
    <3>2. down' = down
      BY <1>6, <3>1
    <3> QED
      BY <2>2, <3>1, <3>2 DEF IInv, Greeted
  <2> QED
    BY <1>1, <2>1, <2>2 DEF Greeted
<1>11. CASE pump = "now"
  <2>1. /\ ~client.told /\ since' = {}
        /\ \A k \in DOMAIN down' : down'[k].kind = "ready" => down'[k].seq = occ.high
        /\ \A k \in DOMAIN down' : down'[k].kind = "snap" =>
              k \in DOMAIN down /\ down'[k] = down[k]
    BY <1>2, <1>6, <1>11
  <2>2. Marks'
    BY <1>4, <1>5, <2>1 DEF Marks
  <2>3. Held' /\ ResumedIsHeard'
    BY <1>1, <2>1 DEF Held, ResumedIsHeard
  <2>4. Acks' /\ OneNumberOneCommand'
    BY <1>1, <1>4, <2>1 DEF IInv, Acks, OneNumberOneCommand
  <2> QED
    BY <1>7, <1>8, <1>9, <1>10, <2>2, <2>3, <2>4 DEF IInv
<1>12. CASE pump = "old"
  <2>1. down' = down /\ since' = since
    BY <1>6, <1>12
  <2>2. Marks' /\ Held' /\ ResumedIsHeard' /\ Acks' /\ OneNumberOneCommand'
    BY <1>1, <1>4, <2>1 DEF IInv, Marks, Held, ResumedIsHeard, Acks, OneNumberOneCommand
  <2> QED
    BY <1>7, <1>8, <1>9, <1>10, <2>2 DEF IInv
<1> QED
  BY <1>11, <1>12

(* A frame reaches Enqueue, or nobody. *)
LEMMA InputKeeps ==
    ASSUME IInv, Server', NEW pump \in {"now", "old"}, Input(pump)
    PROVE  IInv'
<1> DEFINE s == Head(up[pump]).cmds
<1>1. /\ up[pump] # <<>> /\ Receive(Parsed(s))
      /\ up' = [up EXCEPT ![pump] = Tail(up[pump])]
      /\ UNCHANGED <<world, link, down, client, since, occ, snap>>
  BY DEF Input, Receive
<1>2. /\ UpTyped' /\ FramesOurs(client, up'.now) /\ FramesOurs(client, up'.old)
      /\ Head(up[pump]) \in Frames /\ AllOurs(client, s)
      /\ \A i \in DOMAIN up'.now :
            up'.now[i].kind = "hello" => pump = "old" /\ up'.now = up.now
  BY <1>1, PumpTakes
<1>3. s \in Seq(Commands)
  BY <1>2 DEF Frames
<1> HIDE DEF s
<1>4. Parsed(s) \in Seq(Commands) /\ AllOurs(client, Parsed(s))
  BY <1>2, <1>3, ParsedFacts
<1>5. /\ lock'.cmds \in Seq(Commands) /\ AllOurs(client, lock'.cmds)
      /\ lock'.by # "advance" /\ (~Inside => lock'.by = "nobody")
  <2>0. lock \in Locks /\ lock.by = "nobody"
    BY <1>1 DEF Receive, IInv, Server, IntakeTypeOK
  <2>1. CASE Inside
    <3>1. lock'.cmds = Parsed(s) /\ lock'.by = "enqueue"
      BY <1>1, <2>0, <2>1 DEF Receive, Locks
    <3> QED
      BY <1>4, <2>1, <3>1
  <2>2. CASE ~Inside
    <3>1. lock' = lock
      BY <1>1, <2>2 DEF Receive
    <3> QED
      BY <2>0, <3>1 DEF IInv, Sent, Numbered
  <2> QED
    BY <2>1, <2>2
<1>6. Typed'
  BY <1>1, <1>2 DEF IInv, Typed, WorldTyped, LinkTyped, DownTyped, ClientTyped
<1>7. Sent' /\ Numbered'
  BY <1>1, <1>2, <1>5 DEF IInv, Sent, Numbered
<1>8. Heard' /\ Outside'
  BY <1>1, <1>5 DEF IInv, Heard, Outside, Inside
<1>9. Greeted'
  BY <1>1, <1>2 DEF IInv, Greeted
<1>10. Marks' /\ Held' /\ OneNumberOneCommand' /\ ResumedIsHeard'
  BY <1>1 DEF IInv, Marks, Held, OneNumberOneCommand, ResumedIsHeard
<1>11. Acks'
  BY <1>1, <1>5 DEF IInv, Acks
<1> QED
  BY <1>6, <1>7, <1>8, <1>9, <1>10, <1>11 DEF IInv

(***************************************************************************)
(* A command is accepted or seen.  If it is accepted, its predictor has    *)
(* been heard; if that is the one at hand, the number is not above its     *)
(* counter, and if not, the client is excused.                             *)
(***************************************************************************)
LEMMA EnqueueKeeps ==
    ASSUME IInv, Server', Enqueue
    PROVE  IInv'
<1> DEFINE c == Head(lock.cmds)
<1>0. /\ occ \in Occupants /\ lock \in Locks /\ occ.high \in Nat
      /\ lock.cmds \in Seq(Commands) /\ AllOurs(client, lock.cmds)
  BY Fields DEF IInv, Server, IntakeTypeOK, Numbered, Sent
<1>1. /\ EnqueueOne /\ lock.by = "enqueue" /\ lock.cmds # <<>>
      /\ since' = since \cup (IF occ'.high > occ.high THEN {c.by} ELSE {})
      /\ UNCHANGED <<world, link, up, down, client, snap>>
  BY DEF Enqueue, EnqueueOne
<1>2. /\ c \in Commands /\ c.seq \in 1..MaxSeq /\ c.seq \in Nat
      /\ c.by \in 1..MaxPredictors /\ c.by \in Nat /\ OursTo(client, c)
  <2>1. 1 \in DOMAIN lock.cmds /\ c = lock.cmds[1]
    BY <1>0, <1>1
  <2> QED
    BY <1>0, <2>1, CommandFields DEF AllOurs
<1>3. /\ Tail(lock.cmds) \in Seq(Commands) /\ From(Tail(lock.cmds), lock.cmds)
  <2>1. /\ Tail(lock.cmds) \in Seq(Commands)
        /\ \A i \in DOMAIN Tail(lock.cmds) :
              i + 1 \in DOMAIN lock.cmds /\ Tail(lock.cmds)[i] = lock.cmds[i + 1]
    BY <1>0, <1>1
  <2> QED
    BY <2>1 DEF From
<1>4. /\ lock'.cmds = Tail(lock.cmds) /\ lock'.by = "enqueue"
  BY <1>0, <1>1 DEF EnqueueOne, Locks
<1>5. lock'.cmds \in Seq(Commands) /\ AllOurs(client, lock'.cmds)
  BY <1>0, <1>3, <1>4, OursFrom
<1>6. occ'.last = occ.last /\ occ'.place = occ.place
      /\ \/ occ'.high = occ.high
         \/ occ.high < c.seq /\ occ'.high = c.seq
  <2>1. CASE Seen(c)
    BY <1>1, <2>1 DEF EnqueueOne
  <2>2. CASE ~Seen(c)
    <3>1. /\ occ'.high = c.seq /\ occ'.last = occ.last /\ occ'.place = occ.place
      BY <1>0, <1>1, <2>2 DEF EnqueueOne, Occupants
    <3>2. occ.high < c.seq
      BY <1>0, <1>2, <2>2 DEF Seen
    <3> QED
      BY <3>1, <3>2
  <2> QED
    BY <2>1, <2>2
<1> HIDE DEF c
<1>7. \/ occ'.high = occ.high /\ since' = since
      \/ occ.high < c.seq /\ occ'.high = c.seq /\ since' = since \cup {c.by}
  <2>1. CASE occ'.high = occ.high
    <3>1. ~(occ'.high > occ.high)
      BY <1>0, <2>1
    <3> QED
      BY <1>1, <2>1, <3>1
  <2>2. CASE occ.high < c.seq /\ occ'.high = c.seq
    <3>1. occ'.high > occ.high
      BY <1>0, <1>2, <2>2
    <3> QED
      BY <1>1, <2>2, <3>1
  <2> QED
    BY <1>6, <2>1, <2>2
<1>8. Typed'
  BY <1>1 DEF IInv, Typed, WorldTyped, LinkTyped, UpTyped, DownTyped, ClientTyped
<1>9. Sent'
  BY <1>1, <1>5 DEF IInv, Sent
<1>10. Numbered'
  BY <1>2, <1>5, <1>7, CommandsAssumption DEF IInv, Numbered
<1>11. Outside' /\ Greeted' /\ Acks' /\ OneNumberOneCommand'
  BY <1>1, <1>4, <1>6
  DEF IInv, Outside, Inside, Greeted, Acks, OneNumberOneCommand
<1>12. CASE occ'.high = occ.high /\ since' = since
  <2>1. Heard' /\ Marks' /\ Held' /\ ResumedIsHeard'
    BY <1>1, <1>12 DEF IInv, Heard, Marks, Held, ResumedIsHeard
  <2> QED
    BY <1>8, <1>9, <1>10, <1>11, <2>1 DEF IInv
<1>13. CASE occ'.high = c.seq /\ since' = since \cup {c.by}
  <2>1. client.by \in Nat /\ client.seq \in Nat
    BY ClientFields DEF IInv, Typed
  <2>2. c.by <= client.by /\ (~client.adopting /\ c.by = client.by => c.seq <= client.seq)
    BY <1>2 DEF OursTo
  <2>3. Heard'
    <3>1. c.by \in 1..client.by
      BY <1>2, <2>1, <2>2
    <3> QED
      BY <1>1, <1>13, <3>1 DEF IInv, Heard
  <2>4. c.by \in since' /\ since' # {}
    BY <1>13
  <2>5. ~client.adopting /\ since' \subseteq {client.by} => occ'.high <= client.seq
    BY <1>13, <2>2, <2>4
  <2>6. Marks'
    BY <1>1, <2>4, <2>5 DEF Marks
  <2>7. Held' /\ ResumedIsHeard'
    BY <1>1, <2>4, <2>5 DEF Held, ResumedIsHeard
  <2> QED
    BY <1>8, <1>9, <1>10, <1>11, <2>3, <2>6, <2>7 DEF IInv
<1> QED
  BY <1>7, <1>12, <1>13

(* The occupant leaves: nobody is connected who could hear of it. *)
LEMMA LeaveKeeps ==
    ASSUME IInv, Server', NEW last \in BOOLEAN, Leave(last)
    PROVE  IInv'
<1>1. /\ ~link.open /\ lock.by = "advance" /\ occ' = NoOccupant /\ lock' = Unlocked
      /\ world' = [world EXCEPT !.stands = ~last]
      /\ UNCHANGED <<link, up, down, client, since, snap>>
  BY DEF Leave, TickEndsWithoutHim
<1>2. down = <<>> /\ ~client.told /\ snap = NoSnap
  BY <1>1 DEF IInv, Greeted, Acks
<1>3. Typed'
  BY <1>1 DEF IInv, Typed, WorldTyped, LinkTyped, UpTyped, DownTyped, ClientTyped
<1>4. occ'.high = 0 /\ occ'.last = 0 /\ lock'.cmds = <<>> /\ lock'.by = "nobody"
  BY <1>1 DEF NoOccupant, Unlocked
<1>5. Sent'
  <2>1. AllOurs(client, <<>>)
    BY DEF AllOurs
  <2> QED
    BY <1>1, <1>4, <2>1 DEF IInv, Sent
<1>6. Numbered'
  <2>1. <<>> \in Seq(Commands) /\ 0 <= MaxSeq
    BY CommandsAssumption
  <2> QED
    BY <1>4, <2>1 DEF Numbered
<1>7. Heard' /\ Outside' /\ Greeted'
  BY <1>1, <1>4 DEF IInv, Heard, Outside, Greeted
<1>8. Marks' /\ Held' /\ Acks' /\ ResumedIsHeard'
  BY <1>1, <1>2, <1>4 DEF Marks, Held, Acks, ResumedIsHeard
<1>9. OneNumberOneCommand'
  BY <1>1 DEF IInv, OneNumberOneCommand
<1> QED
  BY <1>3, <1>5, <1>6, <1>7, <1>8, <1>9 DEF IInv

(* The acknowledgement leaves. *)
LEMMA SendSnapKeeps ==
    ASSUME IInv, Server', SendSnap
    PROVE  IInv'
<1> DEFINE f == [kind |-> "snap", seq |-> snap, world |-> 0]
<1>1. /\ snap # NoSnap /\ snap' = NoSnap /\ Publish(f)
      /\ UNCHANGED <<occ, lock, world, link, up, client, since>>
  BY DEF SendSnap, PublishSnap
<1>2. snap \in 0..MaxSeq /\ snap <= occ.last
  <2>1. snap \in Nat /\ snap <= occ.last
    BY <1>1 DEF IInv, Server, IntakeTypeOK, Acks
  <2>2. /\ occ.last \in Nat /\ occ.high \in Nat
        /\ occ.last <= occ.high /\ occ.high <= MaxSeq
    BY Fields DEF IInv, Server, QueueOrdered, Numbered
  <2> QED
    BY <2>1, <2>2, CommandsAssumption
<1>3. f \in DownType /\ f.kind = "snap" /\ f.seq <= occ.last
  <2>1. 0 \in 0..MaxWorlds
    BY CommandsAssumption
  <2> QED
    BY <1>2, <2>1 DEF DownType
<1> HIDE DEF f
<1>4. /\ down' \in Seq(DownType)
      /\ ~link.open => down' = down
      /\ \A k \in DOMAIN down' : (k \in DOMAIN down /\ down'[k] = down[k]) \/ down'[k] = f
  BY <1>1, <1>3, Published DEF IInv, Typed
<1>5. Typed'
  BY <1>1, <1>4 DEF IInv, Typed, WorldTyped, LinkTyped, UpTyped, DownTyped, ClientTyped
<1>6. Sent' /\ Numbered' /\ Heard' /\ Outside'
  BY <1>1 DEF IInv, Sent, Numbered, Heard, Outside, Inside
<1>7. \A k \in DOMAIN down' : down'[k].kind = "ready" => k \in DOMAIN down /\ down'[k] = down[k]
  BY <1>3, <1>4
<1>8. Greeted'
  BY <1>1, <1>4, <1>7 DEF IInv, Greeted
<1>9. Marks'
  BY <1>1, <1>7 DEF IInv, Marks
<1>10. Held' /\ OneNumberOneCommand' /\ ResumedIsHeard'
  BY <1>1 DEF IInv, Held, OneNumberOneCommand, ResumedIsHeard
<1>11. Acks'
  <2>1. \A k \in DOMAIN down' : down'[k].kind = "snap" => down'[k].seq <= occ.last
    BY <1>3, <1>4 DEF IInv, Acks
  <2> QED
    BY <1>1, <2>1 DEF Acks
<1> QED
  BY <1>5, <1>6, <1>8, <1>9, <1>10, <1>11 DEF IInv

-----------------------------------------------------------------------------
(* What is true of both ends *)

LEMMA InitIInv ==
    ASSUME Init
    PROVE  IInv
<1>1. Server
  <2>1. IntakeTypeOK
    BY Blank DEF Init, IntakeInit, IntakeTypeOK
  <2>2. QueueOrdered
    BY IntakeAssumption DEF Init, IntakeInit, QueueOrdered, NoOccupant
  <2> QED
    BY <2>1, <2>2 DEF Server
<1>2. Fresh(client, 1, 0)
  <2>1. 1 \in 1..MaxPredictors /\ 1 \in 0..MaxWorlds /\ 0 \in 0..MaxSeq
    BY CommandsAssumption
  <2> QED
    BY <2>1, Predicted DEF Init
<1>3. /\ client \in ClientType /\ client.by = 1 /\ client.seq = 0 /\ client.told = FALSE
      /\ client.adopting = FALSE /\ client.pending = <<>> /\ client.outbox = <<>>
  BY <1>2 DEF Fresh
<1>4. /\ occ = NoOccupant /\ lock.by = "nobody" /\ lock.cmds = <<>> /\ snap = NoSnap
      /\ occ.high = 0 /\ occ.last = 0
  BY DEF Init, IntakeInit, NoOccupant, Unlocked
<1>5. down = <<>> /\ since = {} /\ up.now = <<>> /\ up.old = <<>> /\ link.open = FALSE
  BY DEF Init
<1>6. Typed
  <2>1. WorldTyped /\ LinkTyped
    BY CommandsAssumption DEF Init, WorldTyped, LinkTyped
  <2>2. <<>> \in Seq(Frames) /\ <<>> \in Seq(DownType)
    OBVIOUS
  <2>3. UpTyped /\ DownTyped
    BY <2>2 DEF Init, UpTyped, DownTyped
  <2> QED
    BY <1>3, <2>1, <2>3 DEF Typed, ClientTyped
<1>7. Sent
  BY <1>3, <1>4, <1>5 DEF Sent, AllOurs, FramesOurs
<1>8. Numbered
  <2>1. <<>> \in Seq(Commands) /\ 0 <= MaxSeq
    BY CommandsAssumption
  <2> QED
    BY <1>4, <2>1 DEF Numbered
<1>9. Heard /\ Outside /\ Greeted /\ Marks /\ Held /\ Acks
  BY <1>3, <1>4, <1>5 DEF Heard, Outside, Greeted, Marks, Held, Acks
<1>10. OneNumberOneCommand /\ ResumedIsHeard
  BY <1>3 DEF OneNumberOneCommand, ResumedIsHeard
<1> QED
  BY <1>1, <1>6, <1>7, <1>8, <1>9, <1>10 DEF IInv

LEMMA StutterKeeps ==
    ASSUME IInv, UNCHANGED vars
    PROVE  IInv'
<1>1. UNCHANGED <<occ, lock, snap, excess, world, link, up, down, client, since>>
  BY DEF vars, intakeVars
<1>2. Server'
  BY <1>1, ServerStill DEF IInv, Still, intakeVars
<1>3. Typed' /\ Sent' /\ Numbered' /\ Heard'
  BY <1>1 DEF IInv, Typed, WorldTyped, LinkTyped, UpTyped, DownTyped, ClientTyped,
              Sent, Numbered, Heard
<1>4. Outside' /\ Greeted' /\ Marks' /\ Held' /\ Acks'
  BY <1>1 DEF IInv, Outside, Inside, Greeted, Marks, Held, Acks
<1>5. OneNumberOneCommand' /\ ResumedIsHeard'
  BY <1>1 DEF IInv, OneNumberOneCommand, ResumedIsHeard
<1> QED
  BY <1>2, <1>3, <1>4, <1>5 DEF IInv

LEMMA NextKeeps ==
    ASSUME IInv, [Next]_vars
    PROVE  IInv'
<1>0. Server'
  BY ServerKeeps
<1>1. CASE ClientNext
  <2>1. ASSUME NEW dt \in Dts, Apply(dt) PROVE IInv'
    BY <2>1, ApplyKeeps
  <2> QED
    BY <1>1, <2>1, SendInputKeeps, OpenKeeps, CutKeeps, ReloadKeeps, ReadReadyKeeps,
       AdoptKeeps, ReadSnapKeeps
    DEF ClientNext
<1>2. CASE PumpNext
  <2>1. ASSUME NEW pump \in {"now", "old"}, Hello(pump) \/ Input(pump) PROVE IInv'
    BY <1>0, <2>1, HelloKeeps, InputKeeps
  <2> QED
    BY <1>0, <1>2, <2>1, EnqueueKeeps, LockedKeeps DEF PumpNext, EnqueueNext
<1>3. CASE LoopNext
  <2>1. ASSUME NEW last \in BOOLEAN, Leave(last) PROVE IInv'
    BY <1>0, <2>1, LeaveKeeps
  <2>2. ASSUME NEW ticking \in BOOLEAN, TickEnds(ticking), UNCHANGED clientVars PROVE IInv'
    BY <1>0, <2>2, LockedKeeps
  <2>3. CASE StartTick
    BY <1>0, <2>3, LockedKeeps DEF StartTick
  <2>4. CASE DrainOne /\ UNCHANGED clientVars
    BY <1>0, <2>4, LockedKeeps
  <2> QED
    BY <1>0, <1>3, <2>1, <2>2, <2>3, <2>4, SendSnapKeeps DEF LoopNext
<1>4. CASE OthersLeave
  BY <1>4, OthersLeaveKeeps
<1>5. CASE UNCHANGED vars
  BY <1>5, StutterKeeps
<1> QED
  BY <1>1, <1>2, <1>3, <1>4, <1>5 DEF Next

(* The invariant holds in every state, for any caps, frames and bounds. *)
THEOREM Invariance == Spec => []IInv
<1>1. Init => IInv
  BY InitIInv
<1>2. IInv /\ [Next]_vars => IInv'
  BY NextKeeps
<1> QED
  BY <1>1, <1>2, PTL DEF Spec

(***************************************************************************)
(* The client, its sockets and its frames are one of the ways frames may   *)
(* reach Enqueue: whatever Intake promises holds behind them.              *)
(***************************************************************************)
THEOREM Refinement == Spec => IntakeSpec
<1>1. Init => IntakeInit
  BY DEF Init
<1>2. IInv /\ [Next]_vars => [IntakeNext]_intakeVars
  BY IntakeStep
<1> QED
  BY <1>1, <1>2, Invariance, PTL DEF Spec, IntakeSpec

(* The queue and the budget, with the client in front of them. *)
THEOREM InputAlwaysSound == Spec => []IntakeIsSound
BY Refinement, IntakeAlwaysSound, PTL

LEMMA TypesHold == IInv => TypeOK
<1> SUFFICES ASSUME IInv PROVE TypeOK
  OBVIOUS
<1>1. IntakeTypeOK /\ WorldTyped /\ LinkTyped /\ UpTyped /\ DownTyped /\ ClientTyped
  BY DEF IInv, Server, Typed
<1>2. since \subseteq 1..MaxPredictors
  <2>1. client.by \in 1..MaxPredictors
    BY <1>1, ClientFields
  <2>2. 1..client.by \subseteq 1..MaxPredictors
    BY <2>1, CommandsAssumption
  <2> QED
    BY <2>2 DEF IInv, Heard
<1> QED
  BY <1>1, <1>2
  DEF TypeOK, WorldTyped, LinkTyped, UpTyped, DownTyped, DownType, ClientTyped, ClientType

(***************************************************************************)
(* Numbers mean one thing on both sides (resumeSequence, Ready.Seq): for   *)
(* any caps, any redundancy, any number of sockets, page loads and         *)
(* buildings, no number is used for two commands, and a client that was    *)
(* told its mark is heard from its first command on.                       *)
(***************************************************************************)
THEOREM NumbersAlwaysSound == Spec => []NumbersAreSound
<1>1. IInv => NumbersAreSound
  BY TypesHold DEF IInv, NumbersAreSound
<1> QED
  BY <1>1, Invariance, PTL

(* What waits in the world's queue is above any acknowledgement on its way. *)
LEMMA KeptStep ==
    ASSUME IInv, [Next]_vars, client'.by = client.by, ~client'.adopting,
           NEW i \in DOMAIN occ.queue, NEW j \in DOMAIN client.pending,
           client.pending[j].seq = occ.queue[i].seq
    PROVE  \E k \in DOMAIN client'.pending : client'.pending[k] = client.pending[j]
<1>1. /\ client \in ClientType /\ client.by \in Nat
      /\ client.pending \in Seq(Commands) /\ client.outbox \in Seq(Commands)
  BY ClientFields DEF IInv, Typed, ClientTyped
<1>2. CASE client'.pending = client.pending
  BY <1>2
<1>3. ASSUME NEW dt \in Dts, Apply(dt)
      PROVE  \E k \in DOMAIN client'.pending : client'.pending[k] = client.pending[j]
  <2> DEFINE c == [seq |-> client.seq + 1, dt |-> dt, by |-> client.by]
             p == Append(client.pending, c)
  <2>1. client'.pending = p
    BY <1>1, <1>3 DEF Apply, ClientType
  <2>2. c \in Commands
    <3>1. client.seq \in 0..MaxSeq /\ client.by \in 1..MaxPredictors /\ client.seq < MaxSeq
      BY <1>3, ClientFields DEF IInv, Typed, Apply
    <3>2. client.seq + 1 \in 1..MaxSeq /\ dt \in Nat
      BY <3>1, CommandsAssumption
    <3> QED
      BY <3>1, <3>2 DEF Commands
  <2> HIDE DEF c
  <2>3. /\ p \in Seq(Commands) /\ Len(p) = Len(client.pending) + 1
        /\ \A k \in 1..Len(client.pending) : p[k] = client.pending[k]
    BY <1>1, <2>2, AppendProperties
  <2> HIDE DEF p
  <2>4. j \in DOMAIN p /\ p[j] = client.pending[j]
    BY <1>1, <2>3, SMTT(30)
  <2> QED
    BY <2>1, <2>4
<1>4. CASE ReadReady
  <2>1. client'.pending = client.pending
    BY <1>1, <1>4 DEF ReadReady, ClientType
  <2> QED
    BY <1>2, <2>1
<1>5. CASE ReadSnap
  <2> DEFINE h == Head(down)
             q == client.pending
             I == {n \in DOMAIN q : q[n].seq > h.seq}
             p == Picked(q, I)
  <2>1. CASE client.adopting
    <3>1. client' = client
      BY <1>5, <2>1 DEF ReadSnap
    <3> QED
      BY <1>2, <3>1
  <2>2. CASE ~client.adopting
    <3>1. client'.pending = p
      BY <1>1, <1>5, <2>2 DEF ReadSnap, ClientType
    <3>2. h.seq \in Nat /\ h.seq <= occ.last
      <4>1. down # <<>> /\ h.kind = "snap"
        BY <1>5 DEF ReadSnap
      <4>2. h = down[1] /\ 1 \in DOMAIN down /\ h.seq \in 0..MaxSeq
        BY <4>1, DownTail DEF IInv, Typed
      <4> QED
        BY <4>1, <4>2, CommandsAssumption DEF IInv, Acks
    <3>3. occ.last < occ.queue[i].seq /\ occ.last \in Nat
      BY Fields DEF IInv, Server, QueueOrdered
    <3>4. q[j].seq \in Nat /\ q[j].seq = occ.queue[i].seq
      BY <1>1, CommandFields
    <3>5. q[j].seq > h.seq
      BY <3>2, <3>3, <3>4
    <3>6. j \in I /\ I \in SUBSET DOMAIN q /\ q \in Seq(Commands)
      BY <1>1, <3>5
    <3> HIDE DEF h, I, q
    <3>7. p \in Seq(Commands) /\ Carries(p, q, I)
      BY <3>6, PickedCarries
    <3> HIDE DEF p
    <3>8. PICK k \in DOMAIN p : p[k] = q[j]
      BY <3>6, <3>7 DEF Carries
    <3> QED
      BY <3>1, <3>8 DEF q
  <2> QED
    BY <2>1, <2>2
<1>6. CASE Reload \/ Adopt
  <2> DEFINE b == client.by + 1
  <2>1. ASSUME NEW w, NEW n, client' = Predictor(b, w, n) PROVE client'.by = b
    BY <2>1 DEF Predictor
  <2>2. ASSUME NEW w, NEW n, NEW t, client' = [Predictor(b, w, n) EXCEPT !.told = t]
        PROVE  client'.by = b
    BY <2>2 DEF Predictor
  <2>3. client'.by = b
    BY <1>6, <2>1, <2>2 DEF Reload, Adopt
  <2>4. b # client.by
    BY <1>1
  <2> QED
    BY <2>3, <2>4
<1>7. CASE SendInput \/ Open \/ Cut
  <2>1. client'.pending = client.pending
    BY <1>1, <1>7 DEF SendInput, Open, Cut, ClientType
  <2> QED
    BY <1>2, <2>1
<1>8. CASE PumpNext \/ LoopNext \/ OthersLeave \/ UNCHANGED vars
  <2>1. client' = client
    BY <1>8
    DEF PumpNext, Hello, Input, EnqueueNext, Enqueue, LoopNext, StartTick, Leave, SendSnap,
        OthersLeave, clientVars, vars
  <2> QED
    BY <1>2, <2>1
<1> QED
  BY <1>3, <1>4, <1>5, <1>6, <1>7, <1>8 DEF Next, ClientNext

(***************************************************************************)
(* "exactly what the snapshot's Ack promises" (Advance): whatever snapshots*)
(* arrive, in whatever order with the sockets, a command that waits in the *)
(* world's queue is one its predictor keeps to replay.                     *)
(***************************************************************************)
THEOREM AlwaysKeptUntilStepped == Spec => KeptUntilStepped
<1> DEFINE Keeps ==
        \A i \in DOMAIN occ.queue, j \in DOMAIN client.pending :
            (client.pending[j] = [occ.queue[i] EXCEPT !.dt = client.pending[j].dt]
               /\ client'.by = client.by /\ ~client'.adopting)
            => \E k \in DOMAIN client'.pending : client'.pending[k] = client.pending[j]
<1>1. IInv /\ [Next]_vars => Keeps
  <2> SUFFICES ASSUME IInv, [Next]_vars,
                      NEW i \in DOMAIN occ.queue, NEW j \in DOMAIN client.pending,
                      client.pending[j] = [occ.queue[i] EXCEPT !.dt = client.pending[j].dt],
                      client'.by = client.by, ~client'.adopting
               PROVE  \E k \in DOMAIN client'.pending : client'.pending[k] = client.pending[j]
    OBVIOUS
  <2>1. occ.queue[i] \in Accepted
    BY Fields DEF IInv, Server
  <2>2. client.pending[j].seq = occ.queue[i].seq
    BY <2>1 DEF Accepted
  <2> QED
    BY <2>2, KeptStep
<1>2. IInv /\ [Next]_vars => [Keeps]_vars
  BY <1>1
<1> QED
  BY <1>2, Invariance, PTL DEF Spec, KeptUntilStepped

=============================================================================
