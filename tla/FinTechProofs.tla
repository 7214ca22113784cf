---------------------------- MODULE FinTechProofs ----------------------------
(***************************************************************************)
(* Proofs about FinTech: first Shifts, then Floor and Office.              *)
(*                                                                         *)
(* Shifts, for any accounts, administrators, capacity, queue, grace,       *)
(* refused days and bounds: every shift ever started is in exactly one     *)
(* place, an office is open exactly while somebody works in it and is the  *)
(* floor in force, the floor never changes underneath a shift, and a       *)
(* restart at a quiet moment stands up on the floor it left.  The places   *)
(* are five sets that divide the shifts ever started (Placed); an end      *)
(* moves a set of shifts from the first to the queue and to the dropped    *)
(* ones, and what it queues is as long as it is only because the ranks of  *)
(* a finite set of numbers are the first numbers (RankFacts).              *)
(*                                                                         *)
(* Floor and Office, for any floor, furniture, radii, speeds, timers and   *)
(* people that keep the assumptions: one pass over the furniture is enough *)
(* (OnePassIsEnough), every floor the generator can build is one for which *)
(* that holds (OfficesArePlayable), and so nobody is ever in the           *)
(* furniture; the ring answers a rewind with where the men were; no two    *)
(* props share a spot; a prop is taken by somebody within reach of it; and *)
(* Claude is on the floor as long as he is owed.  What a recursion through *)
(* the furniture, the wishes, the props or the people computes is followed *)
(* step by step (StepByStep): a recursion has a solution (StepsThrough),   *)
(* and a solution keeps what each of its steps keeps.                      *)
(***************************************************************************)
EXTENDS Shifts, Office, SequenceTheorems, FiniteSetTheorems, NaturalsInduction, TLAPS

Dates == 0..MaxDay
Boots == 0..MaxBoots
Quiets == 0..Grace
Ids == 1..MaxShifts

ProcTyped ==
    proc \in [stage : {"down", "booting", "up", "stopping"}, count : Boots, done : BOOLEAN]
FloorTyped == floor \in [plan : Plans, at : Dates] /\ office \in Plans
LoopTyped == loop \in [pc : {"idle", "rotate", "refused", "step"}, day : Dates]
AdminTyped == admin \in [Admins -> [pc : {"idle", "insert", "swap"}, plan : Plans, at : Dates]]
StoredTyped == stored \in [plan : Plans, day : Dates]
CrossedTyped == crossed \in BOOLEAN

(* No stamp, request or floor in force is of a day to come, and a day the  *)
(* loop gave up on is one that cannot be drawn.                            *)
Calendar ==
    /\ day \in 1..MaxDay /\ installed \in 0..day /\ installs \in 0..MaxInstalls
    /\ loop.day <= day /\ \A b \in Admins : admin[b].at <= day
    /\ loop.pc = "refused" => ~Drawable(loop.day)

(* The occupants, the queue and the writer. *)
WorkTyped ==
    /\ DOMAIN work \subseteq Accounts /\ Cardinality(DOMAIN work) <= MaxOccupants
    /\ \A a \in DOMAIN work : work[a] \in [id : Ids, quiet : Quiets]
QueueTyped == saves \in Seq(Ids) /\ Len(saves) <= SavesBuffer
WriterTyped == writer \in [pc : {"select", "gone"}, shift : Ids \cup {0}]

(* The places of a shift, as sets of ids. *)
Worked == IdsOf(DOMAIN work)
Queued == {saves[k] : k \in 1..Len(saves)}
Writing == {writer.shift} \ {0}

Apart(W, Q, X, R, G) ==
    /\ W \cap Q = {} /\ W \cap X = {} /\ W \cap R = {} /\ W \cap G = {}
    /\ Q \cap X = {} /\ Q \cap R = {} /\ Q \cap G = {}
    /\ X \cap R = {} /\ X \cap G = {} /\ R \cap G = {}

(* The five places divide the shifts ever started, and neither the office  *)
(* nor the queue holds one twice.                                          *)
Placed ==
    /\ started \in 0..MaxShifts
    /\ Worked \cup Queued \cup Writing \cup rows \cup gone = 1..started
    /\ Apart(Worked, Queued, Writing, rows, gone)
    /\ \A a, b \in DOMAIN work : work[a].id = work[b].id => a = b
    /\ \A j, k \in 1..Len(saves) : saves[j] = saves[k] => j = k

(* A process that is not running holds nothing. *)
Resting ==
    ~Alive =>
        /\ DOMAIN work = {} /\ office = NoPlan /\ loop = Idle /\ saves = <<>>
        /\ writer.shift = 0 /\ \A b \in Admins : admin[b] = NoRequest

(* There is a floor once main has read one, and the one it read is the one *)
(* the table would give again that day.                                    *)
Floors ==
    /\ stored # NoRow => stored.plan # NoPlan
    /\ \A b \in Admins : admin[b].pc # "idle" => admin[b].plan.kind = "drawn"
    /\ proc.stage # "down" => floor.plan # NoPlan
    /\ proc.stage = "booting" =>
          (stored # NoRow => floor.plan = EnsureLayout(stored, floor.at).plan)

(* The inductive invariant. *)
IInv ==
    /\ ProcTyped /\ FloorTyped /\ LoopTyped /\ AdminTyped /\ StoredTyped /\ CrossedTyped
    /\ Calendar /\ WorkTyped /\ QueueTyped /\ WriterTyped
    /\ Placed /\ Resting /\ Floors /\ OfficeIsCurrent /\ SameRoomAfterRestart

-----------------------------------------------------------------------------
(* Ranks and the queue *)

(* The ranks of a finite set of numbers are the numbers below its size,    *)
(* each the rank of exactly one member: the order keys() visits.           *)
LEMMA RankFacts ==
    ASSUME NEW S \in SUBSET Nat, IsFiniteSet(S)
    PROVE  /\ Cardinality(S) \in Nat
           /\ \A a \in S : Rank(S, a) \in 0..(Cardinality(S) - 1)
           /\ \A a, b \in S : Rank(S, a) = Rank(S, b) => a = b
           /\ \A i \in 1..Cardinality(S) : \E a \in S : Rank(S, a) = i - 1
<1> DEFINE below(a) == {b \in S : b < a}
           N == Cardinality(S)
<1>1. N \in Nat
    BY FS_CardinalityType
<1>2. \A a \in S : IsFiniteSet(below(a)) /\ Cardinality(below(a)) \in Nat
    BY FS_Subset, FS_CardinalityType
<1>3. ASSUME NEW a \in S PROVE Cardinality(below(a)) \in 0..(N - 1)
    <2>1. below(a) \in SUBSET S /\ below(a) # S
        OBVIOUS
    <2>2. Cardinality(below(a)) <= N /\ Cardinality(below(a)) # N
        BY <2>1, FS_Subset
    <2>3. Cardinality(below(a)) \in Nat
        BY <1>2
    <2> HIDE DEF below, N
    <2> QED BY <1>1, <2>2, <2>3
<1>4. ASSUME NEW a \in S, NEW b \in S, a < b
      PROVE  Cardinality(below(a)) # Cardinality(below(b))
    <2>1. below(a) \in SUBSET below(b) /\ below(a) # below(b)
        <3>1. a \in Nat /\ b \in Nat /\ ~(a < a)
            OBVIOUS
        <3>2. \A c \in S : c \in Nat /\ (c < a => c < b)
            BY <1>4, <3>1
        <3>3. a \in below(b) /\ a \notin below(a)
            BY <1>4, <3>1
        <3> QED BY <3>2, <3>3
    <2>2. IsFiniteSet(below(b))
        BY <1>2
    <2> QED BY <2>1, <2>2, FS_Subset
<1>5. \A a, b \in S : Cardinality(below(a)) = Cardinality(below(b)) => a = b
    <2> SUFFICES ASSUME NEW a \in S, NEW b \in S, a # b
                 PROVE  Cardinality(below(a)) # Cardinality(below(b))
        OBVIOUS
    <2>1. a < b \/ b < a
        OBVIOUS
    <2> HIDE DEF below
    <2> QED BY <1>4, <2>1
<1> DEFINE f == [a \in S |-> Cardinality(below(a))]
           T == 0..(N - 1)
<1> HIDE DEF below
<1>6. f \in Injection(S, T)
    <2>1. f \in [S -> T]
        BY <1>3
    <2>2. \A a, b \in S : f[a] = f[b] => a = b
        BY <1>5
    <2> HIDE DEF f, T
    <2> QED BY <2>1, <2>2 DEF Injection, IsInjective
<1>7. IsFiniteSet(T) /\ Cardinality(T) = N
    <2>1. 0 \in Int /\ N - 1 \in Int
        BY <1>1
    <2>2. /\ IsFiniteSet(0..(N - 1))
          /\ Cardinality(0..(N - 1)) = IF 0 > N - 1 THEN 0 ELSE N - 1 - 0 + 1
        BY <2>1, FS_Interval
    <2> HIDE DEF N
    <2> QED BY <1>1, <2>2
<1> HIDE DEF f, T, N
<1>8. f \in Surjection(S, T)
    BY <1>6, <1>7, FS_Injection DEF N
<1>9. \A i \in T : \E a \in S : f[a] = i
    BY <1>8 DEF Surjection
<1>10. \A i \in 1..N : \E a \in S : Cardinality(below(a)) = i - 1
    <2> TAKE i \in 1..N
    <2>1. i - 1 \in T
        BY <1>1 DEF T
    <2> QED BY <1>9, <2>1 DEF f
<1> QED BY <1>1, <1>3, <1>5, <1>10 DEF below, N, Rank

(* Occupants are numbers, and finitely many. *)
LEMMA FiniteWork ==
    ASSUME WorkTyped, NEW S \in SUBSET DOMAIN work
    PROVE  IsFiniteSet(S) /\ S \in SUBSET Nat
BY ShiftsAssumption, FS_Subset DEF WorkTyped

(* What the writer's queue takes of a set of ends, it has room for. *)
LEMMA FittingFacts ==
    ASSUME WorkTyped, QueueTyped, NEW long \in SUBSET DOMAIN work
    PROVE  /\ Fitting(long) \in SUBSET long
           /\ Len(saves) + Cardinality(Fitting(long)) <= SavesBuffer
<1> DEFINE F == Fitting(long)
           room == SavesBuffer - Len(saves)
           T == 0..(room - 1)
           f == [a \in F |-> Rank(long, a)]
<1>1. F \in SUBSET long
    BY DEF Fitting
<1>2. Len(saves) \in Nat /\ room \in Nat
    BY ShiftsAssumption, LenProperties DEF QueueTyped
<1>3. IsFiniteSet(long) /\ long \in SUBSET Nat
    BY FiniteWork
<1>4. \A a \in long : Rank(long, a) \in Nat
    BY <1>3, RankFacts
<1>5. \A a, b \in long : Rank(long, a) = Rank(long, b) => a = b
    BY <1>3, RankFacts
<1>6. ASSUME NEW a \in F PROVE Rank(long, a) \in T
    BY <1>1, <1>2, <1>4, ShiftsAssumption DEF Fitting
<1>7. f \in Injection(F, T)
    <2> HIDE DEF F, T
    <2>1. f \in [F -> T]
        BY <1>6
    <2>2. \A a, b \in F : f[a] = f[b] => a = b
        BY <1>1, <1>5
    <2> HIDE DEF f
    <2> QED BY <2>1, <2>2 DEF Injection, IsInjective
<1>8. IsFiniteSet(T) /\ Cardinality(T) = room
    <2>1. 0 \in Int /\ room - 1 \in Int
        BY <1>2
    <2>2. /\ IsFiniteSet(0..(room - 1))
          /\ Cardinality(0..(room - 1)) = IF 0 > room - 1 THEN 0 ELSE room - 1 - 0 + 1
        BY <2>1, FS_Interval
    <2> HIDE DEF room
    <2> QED BY <1>2, <2>2
<1>9. Cardinality(F) <= room
    <2> HIDE DEF F, T, f, room
    <2> QED BY <1>7, <1>8, FS_Injection
<1>10. Cardinality(F) \in Nat
    BY <1>1, <1>3, FS_Subset, FS_CardinalityType
<1> HIDE DEF F
<1>11. Len(saves) + Cardinality(F) <= SavesBuffer
    BY <1>2, <1>9, <1>10, ShiftsAssumption
<1> QED BY <1>1, <1>11 DEF F

(* The shifts of a set of occupants in the order of their accounts: each once. *)
LEMMA InOrderFacts ==
    ASSUME WorkTyped, NEW S \in SUBSET DOMAIN work,
           \A a, b \in DOMAIN work : work[a].id = work[b].id => a = b
    PROVE  /\ InOrder(S) \in Seq(Ids) /\ Len(InOrder(S)) = Cardinality(S)
           /\ Cardinality(S) \in Nat
           /\ \A j, k \in 1..Cardinality(S) : InOrder(S)[j] = InOrder(S)[k] => j = k
           /\ {InOrder(S)[k] : k \in 1..Cardinality(S)} = IdsOf(S)
<1> DEFINE N == Cardinality(S)
           pick(i) == CHOOSE a \in S : Rank(S, a) = i - 1
           q == [i \in 1..N |-> work[pick(i)].id]
<1>1. /\ N \in Nat
      /\ \A a \in S : Rank(S, a) \in 0..(N - 1)
      /\ \A a, b \in S : Rank(S, a) = Rank(S, b) => a = b
      /\ \A i \in 1..N : \E a \in S : Rank(S, a) = i - 1
    <2>1. IsFiniteSet(S) /\ S \in SUBSET Nat
        BY FiniteWork
    <2> QED BY <2>1, RankFacts
<1>2. InOrder(S) = q
    BY DEF InOrder
<1>3. \A i \in 1..N : pick(i) \in S /\ Rank(S, pick(i)) = i - 1
    BY <1>1
<1>4. ASSUME NEW a \in S PROVE \E i \in 1..N : pick(i) = a
    <2>1. Rank(S, a) + 1 \in 1..N /\ (Rank(S, a) + 1) - 1 = Rank(S, a)
        BY <1>1
    <2>2. Rank(S, pick(Rank(S, a) + 1)) = Rank(S, a) /\ pick(Rank(S, a) + 1) \in S
        BY <1>3, <2>1
    <2>3. pick(Rank(S, a) + 1) = a
        BY <1>1, <2>2
    <2> QED BY <2>1, <2>3
<1> HIDE DEF pick, N
<1>5. \A i \in 1..N : work[pick(i)].id \in Ids
    BY <1>3 DEF WorkTyped
<1>6. q \in Seq(Ids) /\ Len(q) = N
    BY <1>1, <1>5
<1>7. \A j, k \in 1..N : q[j] = q[k] => j = k
    <2> SUFFICES ASSUME NEW j \in 1..N, NEW k \in 1..N, q[j] = q[k] PROVE j = k
        OBVIOUS
    <2>1. pick(j) = pick(k)
        BY <1>3
    <2>2. j - 1 = k - 1
        BY <1>3, <2>1
    <2> QED BY <1>1, <2>2
<1>8. {q[k] : k \in 1..N} = IdsOf(S)
    BY <1>3, <1>4 DEF IdsOf
<1> HIDE DEF q
<1> QED BY <1>1, <1>2, <1>6, <1>7, <1>8 DEF N

(* Appending to the queue shifts it does not hold keeps each once. *)
LEMMA AppendFacts ==
    ASSUME NEW s \in Seq(Ids), NEW t \in Seq(Ids),
           \A j, k \in 1..Len(s) : s[j] = s[k] => j = k,
           \A j, k \in 1..Len(t) : t[j] = t[k] => j = k,
           \A j \in 1..Len(s), k \in 1..Len(t) : s[j] # t[k]
    PROVE  /\ s \o t \in Seq(Ids) /\ Len(s \o t) = Len(s) + Len(t)
           /\ \A j, k \in 1..Len(s \o t) : (s \o t)[j] = (s \o t)[k] => j = k
           /\ {(s \o t)[k] : k \in 1..Len(s \o t)}
                = {s[k] : k \in 1..Len(s)} \cup {t[k] : k \in 1..Len(t)}
<1> DEFINE u == s \o t
<1>1. /\ u \in Seq(Ids) /\ Len(u) = Len(s) + Len(t)
      /\ \A i \in 1..(Len(s) + Len(t)) : u[i] = IF i <= Len(s) THEN s[i] ELSE t[i - Len(s)]
    BY ConcatProperties
<1>2. Len(s) \in Nat /\ Len(t) \in Nat
    BY LenProperties
<1> HIDE DEF u
<1>3. \A i \in 1..Len(s) : i \in 1..Len(u) /\ u[i] = s[i]
    BY <1>1, <1>2
<1>4. \A i \in 1..Len(t) : Len(s) + i \in 1..Len(u) /\ u[Len(s) + i] = t[i]
    BY <1>1, <1>2
<1>5. \A i \in 1..Len(u) :
          \/ i \in 1..Len(s) /\ u[i] = s[i]
          \/ i - Len(s) \in 1..Len(t) /\ u[i] = t[i - Len(s)]
    <2> TAKE i \in 1..Len(u)
    <2>1. CASE i <= Len(s)
        <3>1. i \in 1..Len(s)
            BY <1>1, <1>2, <2>1
        <3> QED BY <1>3, <3>1
    <2>2. CASE ~(i <= Len(s))
        <3>1. i - Len(s) \in 1..Len(t)
            BY <1>1, <1>2, <2>2
        <3> QED BY <1>1, <2>2, <3>1
    <2> QED BY <2>1, <2>2
<1>6. \A j, k \in 1..Len(u) : u[j] = u[k] => j = k
    <2> SUFFICES ASSUME NEW j \in 1..Len(u), NEW k \in 1..Len(u), u[j] = u[k] PROVE j = k
        OBVIOUS
    <2>1. CASE j \in 1..Len(s) /\ k \in 1..Len(s)
        BY <1>3, <2>1
    <2>2. CASE j - Len(s) \in 1..Len(t) /\ k - Len(s) \in 1..Len(t)
        <3>1. u[j] = t[j - Len(s)] /\ u[k] = t[k - Len(s)]
            BY <1>1, <1>2, <2>2
        <3>2. j - Len(s) = k - Len(s)
            BY <2>2, <3>1
        <3> QED BY <1>1, <1>2, <3>2
    <2> QED BY <1>5, <2>1, <2>2
<1>7. {u[k] : k \in 1..Len(u)} = {s[k] : k \in 1..Len(s)} \cup {t[k] : k \in 1..Len(t)}
    <2>1. ASSUME NEW k \in 1..Len(u)
          PROVE  u[k] \in {s[i] : i \in 1..Len(s)} \cup {t[i] : i \in 1..Len(t)}
        BY <1>5
    <2>2. ASSUME NEW k \in 1..Len(s) PROVE s[k] \in {u[i] : i \in 1..Len(u)}
        BY <1>3
    <2>3. ASSUME NEW k \in 1..Len(t) PROVE t[k] \in {u[i] : i \in 1..Len(u)}
        BY <1>4
    <2> DEFINE U == {u[k] : k \in 1..Len(u)}
               V == {s[k] : k \in 1..Len(s)}
               W == {t[k] : k \in 1..Len(t)}
    <2>4. U \subseteq V \cup W
        BY <2>1
    <2>5. V \subseteq U
        <3> HIDE DEF U
        <3> SUFFICES ASSUME NEW k \in 1..Len(s) PROVE s[k] \in U
            OBVIOUS
        <3> QED BY <2>2 DEF U
    <2>7. W \subseteq U
        <3> HIDE DEF U
        <3> SUFFICES ASSUME NEW k \in 1..Len(t) PROVE t[k] \in U
            OBVIOUS
        <3> QED BY <2>3 DEF U
    <2> HIDE DEF U, V, W
    <2>6. U = V \cup W
        BY <2>4, <2>5, <2>7
    <2> QED BY <2>6 DEF U, V, W
<1> QED BY <1>1, <1>6, <1>7 DEF u

-----------------------------------------------------------------------------
(* Ends *)

Employed == WorkTyped /\ QueueTyped /\ WriterTyped /\ Placed

(* A finish queues some of the ended shifts, each once, and drops the rest. *)
LEMMA FinishFacts ==
    ASSUME Employed, NEW S \in SUBSET DOMAIN work, Finish(S)
    PROVE  \E F \in SUBSET S :
               /\ QueueTyped'
               /\ \A j, k \in 1..Len(saves') : saves'[j] = saves'[k] => j = k
               /\ Queued' = Queued \cup IdsOf(F)
               /\ gone' = gone \cup IdsOf(S \ F)
<1>1. PICK long \in SUBSET S : /\ saves' = saves \o InOrder(Fitting(long))
                               /\ gone' = gone \cup IdsOf(S \ Fitting(long))
    BY DEF Finish
<1> DEFINE F == Fitting(long)
           q == InOrder(F)
<1>2. WorkTyped /\ QueueTyped /\ long \in SUBSET DOMAIN work
    BY DEF Employed
<1>3. F \in SUBSET long /\ Len(saves) + Cardinality(F) <= SavesBuffer
    BY <1>2, FittingFacts
<1> HIDE DEF F
<1>4. F \in SUBSET DOMAIN work /\ F \in SUBSET S
    BY <1>2, <1>3
<1>5. \A a, b \in DOMAIN work : work[a].id = work[b].id => a = b
    BY DEF Employed, Placed
<1>6. /\ q \in Seq(Ids) /\ Len(q) = Cardinality(F)
      /\ \A j, k \in 1..Len(q) : q[j] = q[k] => j = k
      /\ {q[k] : k \in 1..Len(q)} = IdsOf(F)
    BY <1>2, <1>4, <1>5, InOrderFacts
<1> HIDE DEF q
<1>7. /\ saves \in Seq(Ids)
      /\ \A j, k \in 1..Len(saves) : saves[j] = saves[k] => j = k
    BY <1>2 DEF QueueTyped, Employed, Placed
<1>8. ASSUME NEW j \in 1..Len(saves), NEW k \in 1..Len(q) PROVE saves[j] # q[k]
    <2>1. saves[j] \in Queued
        BY DEF Queued
    <2>2. q[k] \in IdsOf(F)
        BY <1>6
    <2>3. q[k] \in Worked
        BY <1>4, <2>2 DEF Worked, IdsOf
    <2> QED BY <2>1, <2>3 DEF Employed, Placed, Apart
<1>9. saves' = saves \o q
    BY <1>1 DEF q, F
<1>10. /\ saves' \in Seq(Ids) /\ Len(saves') = Len(saves) + Len(q)
       /\ \A j, k \in 1..Len(saves') : saves'[j] = saves'[k] => j = k
       /\ {saves'[k] : k \in 1..Len(saves')}
             = {saves[k] : k \in 1..Len(saves)} \cup {q[k] : k \in 1..Len(q)}
    <2>1. \A j \in 1..Len(saves), k \in 1..Len(q) : saves[j] # q[k]
        BY <1>8
    <2> DEFINE u == saves \o q
    <2>2. /\ u \in Seq(Ids) /\ Len(u) = Len(saves) + Len(q)
          /\ \A j, k \in 1..Len(u) : u[j] = u[k] => j = k
          /\ {u[k] : k \in 1..Len(u)}
                = {saves[k] : k \in 1..Len(saves)} \cup {q[k] : k \in 1..Len(q)}
        BY <1>6, <1>7, <2>1, AppendFacts, Zenon
    <2>3. saves' = u
        BY <1>9
    <2> HIDE DEF u
    <2> QED BY <2>2, <2>3, Zenon
<1>11. QueueTyped'
    BY <1>3, <1>6, <1>10 DEF QueueTyped, Ids
<1>12. Queued' = Queued \cup IdsOf(F)
    BY <1>6, <1>10 DEF Queued
<1>13. gone' = gone \cup IdsOf(S \ F)
    BY <1>1 DEF F
<1> QED BY <1>4, <1>10, <1>11, <1>12, <1>13

(* Moving shifts from the office to the queue and to the dropped ones      *)
(* divides the shifts ever started as before.                              *)
LEMMA MovedApart ==
    ASSUME NEW W, NEW Q, NEW X, NEW R, NEW G, Apart(W, Q, X, R, G),
           NEW A, NEW B, A \cup B \subseteq W, A \cap B = {}
    PROVE  /\ Apart(W \ (A \cup B), Q \cup A, X, R, G \cup B)
           /\ (W \ (A \cup B)) \cup (Q \cup A) \cup X \cup R \cup (G \cup B)
                = W \cup Q \cup X \cup R \cup G
BY DEF Apart

(* Shifts that end leave the office for the queue, or for nothing, whoever *)
(* stays: the quit button, "forget", the eviction and the tick.            *)
LEMMA EndsKeep ==
    ASSUME Employed, NEW S \in SUBSET DOMAIN work, NEW F \in SUBSET S,
           QueueTyped',
           \A j, k \in 1..Len(saves') : saves'[j] = saves'[k] => j = k,
           Queued' = Queued \cup IdsOf(F),
           gone' = gone \cup IdsOf(S \ F),
           DOMAIN work' = DOMAIN work \ S,
           \A a \in DOMAIN work \ S :
               work'[a].id = work[a].id /\ work'[a] \in [id : Ids, quiet : Quiets],
           UNCHANGED <<writer, rows, started>>
    PROVE  Employed'
<1>1. WorkTyped'
    <2>1. DOMAIN work \subseteq Accounts /\ Cardinality(DOMAIN work) <= MaxOccupants
        BY DEF Employed, WorkTyped
    <2>2. IsFiniteSet(DOMAIN work)
        BY <2>1, ShiftsAssumption, FS_Subset
    <2>3. Cardinality(DOMAIN work') <= Cardinality(DOMAIN work)
        BY <2>2, FS_Subset
    <2>4. Cardinality(DOMAIN work') \in Nat /\ Cardinality(DOMAIN work) \in Nat
        BY <2>2, FS_Subset, FS_CardinalityType
    <2>5. Cardinality(DOMAIN work') <= MaxOccupants
        BY <2>1, <2>3, <2>4, ShiftsAssumption
    <2> QED BY <2>1, <2>5 DEF WorkTyped
<1>2. WriterTyped'
    BY DEF Employed, WriterTyped
<1>3. \A a, b \in DOMAIN work : work[a].id = work[b].id => a = b
    BY DEF Employed, Placed
<1>4. \A a, b \in DOMAIN work' : work'[a].id = work'[b].id => a = b
    BY <1>3
<1>5. /\ IdsOf(S) = IdsOf(F) \cup IdsOf(S \ F)
      /\ IdsOf(F) \cap IdsOf(S \ F) = {}
      /\ IdsOf(S) \subseteq Worked
    <2>1. IdsOf(S) = IdsOf(F) \cup IdsOf(S \ F)
        BY DEF IdsOf
    <2>2. IdsOf(F) \cap IdsOf(S \ F) = {}
        BY <1>3 DEF IdsOf
    <2>3. IdsOf(S) \subseteq Worked
        BY DEF IdsOf, Worked
    <2> QED BY <2>1, <2>2, <2>3
<1>6. Worked' = Worked \ IdsOf(S)
    <2>1. Worked' = {work'[a].id : a \in DOMAIN work'}
        BY DEF Worked, IdsOf
    <2>2. Worked' = {work[a].id : a \in DOMAIN work \ S}
        BY <2>1
    <2>3. {work[a].id : a \in DOMAIN work \ S} = Worked \ IdsOf(S)
        BY <1>3 DEF Worked, IdsOf
    <2> QED BY <2>2, <2>3
<1> DEFINE A == IdsOf(F)
           B == IdsOf(S \ F)
<1>7. Writing' = Writing
    BY DEF Writing
<1>8. /\ Worked' = Worked \ (A \cup B) /\ Queued' = Queued \cup A /\ gone' = gone \cup B
      /\ A \cup B \subseteq Worked /\ A \cap B = {}
    BY <1>5, <1>6
<1> HIDE DEF A, B
<1>9. /\ Apart(Worked, Queued, Writing, rows, gone)
      /\ Worked \cup Queued \cup Writing \cup rows \cup gone = 1..started
      /\ started \in 0..MaxShifts
    BY DEF Employed, Placed
<1>10. /\ Apart(Worked', Queued', Writing', rows', gone')
       /\ Worked' \cup Queued' \cup Writing' \cup rows' \cup gone' = 1..started
    <2>1. /\ Apart(Worked \ (A \cup B), Queued \cup A, Writing, rows, gone \cup B)
          /\ (Worked \ (A \cup B)) \cup (Queued \cup A) \cup Writing \cup rows \cup (gone \cup B)
                = Worked \cup Queued \cup Writing \cup rows \cup gone
        BY <1>8, <1>9, MovedApart, Zenon
    <2> QED BY <1>7, <1>8, <1>9, <2>1, Zenon
<1>11. Placed'
    BY <1>4, <1>9, <1>10 DEF Placed, Apart
<1> QED BY <1>1, <1>2, <1>11 DEF Employed

(* The same of a finish. *)
LEMMA FinishKeeps ==
    ASSUME Employed, NEW S \in SUBSET DOMAIN work, Finish(S),
           DOMAIN work' = DOMAIN work \ S,
           \A a \in DOMAIN work \ S :
               work'[a].id = work[a].id /\ work'[a] \in [id : Ids, quiet : Quiets],
           UNCHANGED <<writer, rows, started>>
    PROVE  Employed'
<1>1. PICK F \in SUBSET S :
          /\ QueueTyped'
          /\ \A j, k \in 1..Len(saves') : saves'[j] = saves'[k] => j = k
          /\ Queued' = Queued \cup IdsOf(F)
          /\ gone' = gone \cup IdsOf(S \ F)
    BY FinishFacts
<1> QED BY <1>1, EndsKeep

-----------------------------------------------------------------------------
(* Facts every action's proof uses *)

LEMMA PlanFacts ==
    /\ 0 \in Dates /\ NoPlan \in Plans /\ Starting \in Plans /\ Starting # NoPlan
    /\ NoPlan.kind = "none" /\ Starting.kind = "starting"
    /\ NoRow \in [plan : Plans, day : Dates] /\ NoRow.plan = NoPlan
    /\ Plan("broken", 0) \in Plans /\ Plan("broken", 0) # NoPlan
    /\ \A d \in Dates : Daily(d) \in Plans /\ Daily(d) # NoPlan
    /\ \A n \in 0..MaxInstalls : Plan("drawn", n) \in Plans /\ Plan("drawn", n).kind = "drawn"
    /\ \A d \in 1..MaxDay : d \in Dates
BY ShiftsAssumption DEF Dates, Plans, NoPlan, Starting, Plan, NoRow, Daily

(* What main stands a process up on: a floor, of the day it asked. *)
LEMMA LayoutFacts ==
    ASSUME NEW row \in [plan : Plans, day : Dates], NEW d \in Dates,
           row # NoRow => row.plan # NoPlan
    PROVE  /\ EnsureLayout(row, d) \in [plan : Plans, at : Dates]
           /\ EnsureLayout(row, d).at = d
           /\ EnsureLayout(row, d).plan # NoPlan
<1>1. /\ DailyFloor(d) \in [plan : Plans, at : Dates] /\ DailyFloor(d).at = d
      /\ DailyFloor(d).plan # NoPlan
    <2>1. CASE Drawable(d)
        BY <2>1, PlanFacts DEF DailyFloor
    <2>2. CASE ~Drawable(d)
        BY <2>2, PlanFacts DEF DailyFloor
    <2> QED BY <2>1, <2>2
<1>2. CASE row = NoRow
    BY <1>2, PlanFacts DEF EnsureLayout
<1>3. CASE row # NoRow /\ row.plan.kind # "broken" /\ row.day = d
    BY <1>3 DEF EnsureLayout
<1>4. CASE row # NoRow /\ ~(row.plan.kind # "broken" /\ row.day = d)
    BY <1>1, <1>4 DEF EnsureLayout
<1> QED BY <1>2, <1>3, <1>4

(* Nothing is under way in a process that does not run. *)
LEMMA BusyAlive ==
    ASSUME IInv
    PROVE  /\ loop.pc # "idle" => Alive
           /\ \A b \in Admins : admin[b].pc # "idle" => Alive
           /\ writer.shift # 0 => Alive
BY DEF IInv, Resting, Idle, NoRequest

LEMMA EmployedKept ==
    ASSUME Employed, UNCHANGED <<work, saves, writer, rows, gone, started>>
    PROVE  Employed'
<1>1. WorkTyped' /\ QueueTyped' /\ WriterTyped'
    BY DEF Employed, WorkTyped, QueueTyped, WriterTyped
<1>2. Worked' = Worked /\ Queued' = Queued /\ Writing' = Writing
    BY DEF Worked, IdsOf, Queued, Writing
<1>3. Placed'
    BY <1>2 DEF Employed, Placed, Apart
<1> QED BY <1>1, <1>3 DEF Employed

LEMMA RoomKept ==
    ASSUME SameRoomAfterRestart, Settled' => Settled, UNCHANGED <<day, floor, stored, crossed>>
    PROVE  SameRoomAfterRestart'
<1>1. (EnsureLayout(stored, day).plan)' = EnsureLayout(stored, day).plan
    BY DEF EnsureLayout, DailyFloor, Daily, Drawable
<1> QED BY <1>1 DEF SameRoomAfterRestart

(* A step that changes no floor, no day and no request about one. *)
LEMMA CalmStep ==
    ASSUME IInv, Alive,
           UNCHANGED <<day, proc, floor, installed, admin, stored, installs, crossed>>,
           loop' = loop \/ (loop.pc = "step" /\ loop' = Idle),
           Employed', OfficeIsCurrent', office' \in Plans
    PROVE  IInv'
<1>1. ProcTyped' /\ AdminTyped' /\ StoredTyped' /\ CrossedTyped'
    BY DEF IInv, ProcTyped, AdminTyped, StoredTyped, CrossedTyped
<1>2. FloorTyped'
    BY DEF IInv, FloorTyped
<1>3. LoopTyped'
    BY PlanFacts DEF IInv, LoopTyped, Idle
<1>4. Calendar'
    BY DEF IInv, Calendar, Drawable, Idle
<1>5. Resting'
    BY DEF Resting, Alive
<1>6. Floors'
    BY DEF IInv, Floors, EnsureLayout, DailyFloor, Daily, Drawable
<1>7. Settled' => Settled
    BY DEF Settled, Drawable
<1>8. SameRoomAfterRestart'
    BY <1>7, RoomKept DEF IInv
<1> QED BY <1>1, <1>2, <1>3, <1>4, <1>5, <1>6, <1>8 DEF IInv, Employed

(* putInForce leaves nobody at work, and the ends are placed. *)
LEMMA PutInForceKeeps ==
    ASSUME IInv, NEW p \in Plans, NEW d \in Dates, PutInForce(p, d),
           UNCHANGED <<writer, rows, started>>
    PROVE  /\ Employed' /\ OfficeIsCurrent' /\ FloorTyped'
           /\ floor'.plan = p /\ installed' = d
<1>1. /\ floor' = [plan |-> p, at |-> d] /\ installed' = d
      /\ Finish(DOMAIN work) /\ work' = <<>> /\ office' = NoPlan
    BY DEF PutInForce
<1>2. DOMAIN work' = {}
    BY <1>1
<1>3. Employed
    BY DEF IInv, Employed
<1>4. Employed'
    BY <1>1, <1>2, <1>3, FinishKeeps
<1>5. OfficeIsCurrent'
    BY <1>1, <1>2 DEF OfficeIsCurrent
<1>6. FloorTyped'
    BY <1>1, PlanFacts DEF FloorTyped
<1> QED BY <1>1, <1>4, <1>5, <1>6

-----------------------------------------------------------------------------
(* Requests *)

(* A start adds one person and one new id, and opens the office on the floor in force. *)
LEMMA StartShiftKeeps ==
    ASSUME IInv, Alive, NEW a \in Accounts, StartShift(a),
           UNCHANGED <<day, proc, loop, admin, writer, dbVars, installs, crossed>>
    PROVE  IInv'
<1>1. /\ started < MaxShifts /\ a \notin DOMAIN work
      /\ Cardinality(DOMAIN work) < MaxOccupants
      /\ work' = [b \in DOMAIN work \cup {a} |->
                    IF b = a THEN [id |-> started + 1, quiet |-> 0] ELSE work[b]]
      /\ office' = IF office = NoPlan THEN floor.plan ELSE office
      /\ started' = started + 1
      /\ UNCHANGED <<floor, installed, saves, gone, writer, rows, stored>>
    BY DEF StartShift, Join, dbVars
<1>2. /\ DOMAIN work' = DOMAIN work \cup {a}
      /\ work'[a] = [id |-> started + 1, quiet |-> 0]
      /\ \A b \in DOMAIN work : work'[b] = work[b]
    BY <1>1
<1>3. started \in 0..MaxShifts /\ started + 1 \in Ids /\ 0 \in Quiets
    BY <1>1, ShiftsAssumption DEF IInv, Placed, Ids, Quiets
<1>4. WorkTyped'
    <2>1. IsFiniteSet(DOMAIN work) /\ Cardinality(DOMAIN work) \in Nat
        BY ShiftsAssumption, FS_Subset, FS_CardinalityType DEF IInv, WorkTyped
    <2>2. Cardinality(DOMAIN work') = Cardinality(DOMAIN work) + 1
        BY <1>1, <1>2, <2>1, FS_AddElement
    <2>3. Cardinality(DOMAIN work') <= MaxOccupants
        BY <1>1, <2>1, <2>2, ShiftsAssumption
    <2>4. work'[a] \in [id : Ids, quiet : Quiets]
        BY <1>2, <1>3
    <2>5. \A b \in DOMAIN work' : work'[b] \in [id : Ids, quiet : Quiets]
        BY <1>2, <2>4 DEF IInv, WorkTyped
    <2> QED BY <1>2, <2>3, <2>5 DEF IInv, WorkTyped
<1>5. QueueTyped' /\ WriterTyped'
    BY <1>1 DEF IInv, QueueTyped, WriterTyped
<1>6. Worked' = Worked \cup {started + 1}
    BY <1>2 DEF Worked, IdsOf
<1>7. Queued' = Queued /\ Writing' = Writing /\ rows' = rows /\ gone' = gone
    BY <1>1 DEF Queued, Writing
<1>8. /\ Worked \cup Queued \cup Writing \cup rows \cup gone = 1..started
      /\ Apart(Worked, Queued, Writing, rows, gone)
    BY DEF IInv, Placed
<1>9. started + 1 \notin 1..started /\ 1..(started + 1) = (1..started) \cup {started + 1}
    BY <1>3
<1>10. /\ Worked' \cup Queued' \cup Writing' \cup rows' \cup gone' = 1..started'
       /\ Apart(Worked, Queued, Writing, rows, gone)'
    <2> DEFINE n == started + 1
    <2>1. started' = n /\ n \notin 1..started /\ 1..n = (1..started) \cup {n} /\ Worked' = Worked \cup {n}
        BY <1>1, <1>6, <1>9
    <2> HIDE DEF n
    <2>2. 1..started' = 1..n
        BY <2>1
    <2>3. Worked' \cup Queued' \cup Writing' \cup rows' \cup gone' = 1..started'
        BY <1>7, <1>8, <2>1, <2>2
    <2>4. Apart(Worked, Queued, Writing, rows, gone)'
        BY <1>7, <1>8, <2>1 DEF Apart
    <2> QED BY <2>3, <2>4
<1>11. \A b, c \in DOMAIN work' : work'[b].id = work'[c].id => b = c
    <2>1. work'[a].id = started + 1
        BY <1>2
    <2>2. \A b \in DOMAIN work : work'[b].id \in Worked /\ work'[b].id = work[b].id
        BY <1>2 DEF Worked, IdsOf
    <2>3. \A b \in DOMAIN work : work'[b].id # started + 1
        BY <1>8, <1>9, <2>2
    <2>4. \A b, c \in DOMAIN work : work[b].id = work[c].id => b = c
        BY DEF IInv, Placed
    <2> QED BY <1>2, <2>1, <2>2, <2>3, <2>4
<1>12. Placed'
    <2>1. started' \in 0..MaxShifts
        BY <1>1, <1>3, ShiftsAssumption DEF Ids
    <2>2. \A j, k \in 1..Len(saves') : saves'[j] = saves'[k] => j = k
        BY <1>1 DEF IInv, Placed
    <2> QED BY <1>10, <1>11, <2>1, <2>2 DEF Placed
<1>13. OfficeIsCurrent'
    <2>1. floor.plan # NoPlan
        BY DEF IInv, Floors, Alive
    <2> QED BY <1>1, <1>2, <2>1 DEF IInv, OfficeIsCurrent
<1>14. office' \in Plans
    BY <1>1 DEF IInv, FloorTyped
<1> QED BY <1>1, <1>4, <1>5, <1>12, <1>13, <1>14, CalmStep DEF Employed

(* Vacating takes the people out, and the office with the last of them. *)
LEMMA VacateFacts ==
    ASSUME IInv, NEW S \in SUBSET DOMAIN work, Vacate(S), UNCHANGED floor
    PROVE  /\ DOMAIN work' = DOMAIN work \ S
           /\ \A a \in DOMAIN work \ S : work'[a] = work[a]
           /\ \A a \in DOMAIN work \ S :
                 work'[a].id = work[a].id /\ work'[a] \in [id : Ids, quiet : Quiets]
           /\ OfficeIsCurrent' /\ office' \in Plans
<1>1. /\ work' = [a \in DOMAIN work \ S |-> work[a]]
      /\ office' = IF DOMAIN work \subseteq S THEN NoPlan ELSE office
    BY DEF Vacate, Without, Empties
<1>2. DOMAIN work' = DOMAIN work \ S /\ \A a \in DOMAIN work \ S : work'[a] = work[a]
    BY <1>1
<1>3. \A a \in DOMAIN work \ S :
          work'[a].id = work[a].id /\ work'[a] \in [id : Ids, quiet : Quiets]
    BY <1>2 DEF IInv, WorkTyped
<1>4. OfficeIsCurrent'
    BY <1>1, <1>2 DEF IInv, OfficeIsCurrent
<1>5. office' \in Plans
    BY <1>1, PlanFacts DEF IInv, FloorTyped
<1> QED BY <1>2, <1>3, <1>4, <1>5

(* The quit button ends one shift, through the queue. *)
LEMMA LeaveShiftKeeps ==
    ASSUME IInv, Alive, NEW a \in Accounts, LeaveShift(a),
           UNCHANGED <<day, proc, loop, admin, writer, dbVars, installs, crossed>>
    PROVE  IInv'
<1>1. /\ {a} \in SUBSET DOMAIN work /\ Finish({a}) /\ Vacate({a})
      /\ UNCHANGED <<floor, installed, started, writer, rows, stored>>
    BY DEF LeaveShift, dbVars
<1>2. Employed
    BY DEF IInv, Employed
<1>3. Employed'
    BY <1>1, <1>2, VacateFacts, FinishKeeps
<1>4. OfficeIsCurrent' /\ office' \in Plans
    BY <1>1, VacateFacts
<1> QED BY <1>1, <1>3, <1>4, CalmStep

(* "Forget" ends it without a row. *)
LEMMA PurgeAccountKeeps ==
    ASSUME IInv, Alive, NEW a \in Accounts, PurgeAccount(a),
           UNCHANGED <<day, proc, loop, admin, writer, dbVars, installs, crossed>>
    PROVE  IInv'
<1> DEFINE S == {a}
<1>1. /\ S \in SUBSET DOMAIN work /\ Vacate(S) /\ gone' = gone \cup IdsOf(S)
      /\ UNCHANGED <<floor, installed, saves, started, writer, rows, stored>>
    BY DEF PurgeAccount, dbVars
<1> HIDE DEF S
<1>2. Employed
    BY DEF IInv, Employed
<1>3. /\ QueueTyped'
      /\ \A j, k \in 1..Len(saves') : saves'[j] = saves'[k] => j = k
    BY <1>1, <1>2 DEF Employed, QueueTyped, Placed
<1>4. /\ {} \in SUBSET S /\ Queued' = Queued \cup IdsOf({}) /\ gone' = gone \cup IdsOf(S \ {})
    BY <1>1 DEF Queued, IdsOf
<1>5. /\ DOMAIN work' = DOMAIN work \ S
      /\ \A b \in DOMAIN work \ S :
            work'[b].id = work[b].id /\ work'[b] \in [id : Ids, quiet : Quiets]
      /\ OfficeIsCurrent' /\ office' \in Plans
    BY <1>1, VacateFacts
<1>6. Employed'
    BY <1>1, <1>2, <1>3, <1>4, <1>5, EndsKeep
<1> QED BY <1>1, <1>5, <1>6, CalmStep

-----------------------------------------------------------------------------
(* Installing a floor *)

(* A request that has only read the clock concerns no room yet. *)
LEMMA InstallBeginsKeeps ==
    ASSUME IInv, NEW b \in Admins, InstallBegins(b)
    PROVE  IInv'
<1> DEFINE r == [pc |-> "insert", plan |-> Plan("drawn", installs + 1), at |-> day]
<1>1. /\ Alive /\ admin[b].pc = "idle" /\ installs < MaxInstalls /\ installs' = installs + 1
      /\ admin' = [admin EXCEPT ![b] = r]
      /\ UNCHANGED <<day, proc, floor, installed, office, work, loop, saves, writer, rows,
                     stored, started, gone, crossed>>
    BY DEF InstallBegins, svcVars, dbVars
<1>2. /\ installs + 1 \in 0..MaxInstalls /\ day \in Dates /\ day <= day
      /\ Plan("drawn", installs + 1) \in Plans /\ Plan("drawn", installs + 1).kind = "drawn"
    <2>1. installs + 1 \in 0..MaxInstalls /\ day \in Dates /\ day <= day
        BY <1>1, ShiftsAssumption DEF IInv, Calendar, Dates
    <2> QED BY <2>1, PlanFacts
<1>3. /\ r \in [pc : {"idle", "insert", "swap"}, plan : Plans, at : Dates]
      /\ r.pc = "insert" /\ r.plan.kind = "drawn" /\ r.at = day
    BY <1>2
<1> HIDE DEF r
<1>4. /\ AdminTyped'
      /\ admin'[b] = r /\ \A c \in Admins : c # b => admin'[c] = admin[c]
    BY <1>1, <1>3 DEF IInv, AdminTyped
<1>5. ProcTyped' /\ FloorTyped' /\ LoopTyped' /\ StoredTyped' /\ CrossedTyped'
    BY <1>1 DEF IInv, ProcTyped, FloorTyped, LoopTyped, StoredTyped, CrossedTyped
<1>6. Employed' /\ OfficeIsCurrent'
    BY <1>1, EmployedKept DEF IInv, Employed, OfficeIsCurrent
<1>7. Calendar'
    <2>1. \A c \in Admins : admin'[c].at <= day
        BY <1>2, <1>3, <1>4 DEF IInv, Calendar
    <2> QED BY <1>1, <1>2, <2>1 DEF IInv, Calendar, Drawable
<1>8. Resting'
    BY <1>1 DEF Resting, Alive
<1>9. Floors'
    BY <1>1, <1>3, <1>4 DEF IInv, Floors, EnsureLayout, DailyFloor, Daily, Drawable
<1>10. Settled' => Settled
    BY <1>1, <1>4 DEF Settled, Drawable
<1>11. SameRoomAfterRestart'
    BY <1>1, <1>10, RoomKept DEF IInv
<1> QED BY <1>4, <1>5, <1>6, <1>7, <1>8, <1>9, <1>11 DEF IInv, Employed

(* Between the row and the swap the process is not at a quiet moment. *)
LEMMA InsertLayoutKeeps ==
    ASSUME IInv, NEW b \in Admins, InsertLayout(b)
    PROVE  IInv'
<1>1. /\ admin[b].pc = "insert"
      /\ UNCHANGED <<day, proc, floor, installed, office, work, loop, saves, writer, rows,
                     started, installs, gone, crossed>>
    BY DEF InsertLayout, svcVars
<1>2. Alive /\ admin[b].plan.kind = "drawn" /\ admin[b].plan \in Plans /\ day \in Dates
    BY <1>1, BusyAlive, PlanFacts DEF IInv, Floors, AdminTyped, Calendar
<1>3. ProcTyped' /\ FloorTyped' /\ LoopTyped' /\ CrossedTyped'
    BY <1>1 DEF IInv, ProcTyped, FloorTyped, LoopTyped, CrossedTyped
<1>4. Employed' /\ OfficeIsCurrent'
    BY <1>1, EmployedKept DEF IInv, Employed, OfficeIsCurrent
<1>5. Resting'
    BY <1>1, <1>2 DEF Resting, Alive
<1>6. 0 <= day
    BY DEF IInv, Calendar
<1>7. CASE /\ stored' = [plan |-> admin[b].plan, day |-> day]
           /\ admin' = [admin EXCEPT ![b].pc = "swap"]
    <2>1. /\ AdminTyped' /\ StoredTyped'
          /\ admin'[b].pc = "swap"
          /\ \A c \in Admins : admin'[c].plan = admin[c].plan /\ admin'[c].at = admin[c].at
          /\ \A c \in Admins : c # b => admin'[c] = admin[c]
        BY <1>2, <1>7 DEF IInv, AdminTyped, StoredTyped
    <2>2. Calendar'
        BY <1>1, <2>1 DEF IInv, Calendar, Drawable
    <2>3. Floors'
        <3>1. stored'.plan # NoPlan
            BY <1>2, <1>7, PlanFacts
        <3>2. proc.stage # "booting" /\ proc.stage # "down"
            BY <1>2 DEF Alive
        <3>3. \A c \in Admins : admin'[c].pc # "idle" => admin'[c].plan.kind = "drawn"
            BY <1>1, <2>1 DEF IInv, Floors
        <3> QED BY <1>1, <3>1, <3>2, <3>3 DEF IInv, Floors
    <2>4. SameRoomAfterRestart'
        BY <2>1 DEF SameRoomAfterRestart, Settled
    <2> QED BY <1>3, <1>4, <1>5, <2>1, <2>2, <2>3, <2>4 DEF IInv, Employed
<1>8. CASE admin' = [admin EXCEPT ![b] = NoRequest] /\ UNCHANGED stored
    <2>1. /\ AdminTyped' /\ StoredTyped'
          /\ admin'[b] = NoRequest /\ \A c \in Admins : c # b => admin'[c] = admin[c]
        BY <1>8, PlanFacts DEF IInv, AdminTyped, StoredTyped, NoRequest
    <2>2. NoRequest.pc = "idle" /\ NoRequest.at = 0
        BY DEF NoRequest
    <2>3. Calendar'
        BY <1>1, <1>6, <2>1, <2>2 DEF IInv, Calendar, Drawable
    <2>4. Floors'
        BY <1>1, <1>8, <2>1, <2>2 DEF IInv, Floors, EnsureLayout, DailyFloor, Daily, Drawable
    <2>5. Settled' => Settled
        BY <1>1, <2>1 DEF Settled, Drawable
    <2>6. SameRoomAfterRestart'
        BY <1>1, <1>8, <2>5, RoomKept DEF IInv
    <2> QED BY <1>3, <1>4, <1>5, <2>1, <2>3, <2>4, <2>6 DEF IInv, Employed
<1> QED BY <1>7, <1>8 DEF InsertLayout

(* The swap puts in force what the table holds, or is said to have crossed another change. *)
LEMMA InstallSwapsKeeps ==
    ASSUME IInv, NEW b \in Admins, InstallSwaps(b)
    PROVE  IInv'
<1> DEFINE p == admin[b].plan
           d == admin[b].at
<1>1. /\ admin[b].pc = "swap" /\ PutInForce(p, d)
      /\ admin' = [admin EXCEPT ![b] = NoRequest]
      /\ crossed' = (stored # [plan |-> p, day |-> d] \/ d # day)
      /\ UNCHANGED <<day, proc, loop, writer, rows, stored, started, installs>>
    BY DEF InstallSwaps, dbVars
<1>2. /\ Alive /\ p.kind = "drawn" /\ p \in Plans /\ d \in Dates
    BY <1>1, BusyAlive DEF IInv, Floors, AdminTyped
<1>3. d <= day /\ 0 <= day
    BY DEF IInv, Calendar
<1> HIDE DEF p, d
<1>4. Employed' /\ OfficeIsCurrent' /\ FloorTyped' /\ floor'.plan = p /\ installed' = d
    BY <1>1, <1>2, PutInForceKeeps
<1>5. CrossedTyped'
    BY <1>1 DEF CrossedTyped
<1>6. ProcTyped' /\ LoopTyped' /\ StoredTyped'
    BY <1>1 DEF IInv, ProcTyped, LoopTyped, StoredTyped
<1>7. /\ AdminTyped'
      /\ admin'[b] = NoRequest /\ \A c \in Admins : c # b => admin'[c] = admin[c]
    BY <1>1, PlanFacts DEF IInv, AdminTyped, NoRequest
<1>8. NoRequest.pc = "idle" /\ NoRequest.at = 0
    BY DEF NoRequest
<1>9. Calendar'
    <2>1. \A c \in Admins : admin'[c].at <= day
        BY <1>3, <1>7, <1>8 DEF IInv, Calendar
    <2>2. d \in 0..day
        BY <1>2, <1>3, ShiftsAssumption DEF IInv, Calendar, Dates
    <2> QED BY <1>1, <1>4, <2>1, <2>2 DEF IInv, Calendar, Drawable
<1>10. Resting'
    BY <1>1, <1>2 DEF Resting, Alive
<1>11. Floors'
    <2>1. p # NoPlan /\ proc.stage # "booting"
        BY <1>2, PlanFacts DEF Alive
    <2> QED BY <1>1, <1>4, <1>7, <1>8, <2>1 DEF IInv, Floors
<1>12. SameRoomAfterRestart'
    <2> SUFFICES ASSUME ~crossed' PROVE EnsureLayout(stored', day').plan = floor'.plan
        BY DEF SameRoomAfterRestart
    <2>1. stored = [plan |-> p, day |-> d] /\ d = day
        BY <1>1, Zenon
    <2>2. stored.plan = p /\ stored.day = day /\ stored # NoRow
        BY <1>2, <2>1, PlanFacts
    <2>3. EnsureLayout(stored, day).plan = p
        BY <1>2, <2>2 DEF EnsureLayout
    <2> QED BY <1>1, <1>4, <2>3
<1> QED BY <1>4, <1>5, <1>6, <1>7, <1>9, <1>10, <1>11, <1>12 DEF IInv, Employed

-----------------------------------------------------------------------------
(* The simulation loop *)

(* A tick chooses what to do with its stamp, and does nothing yet. *)
LEMMA TickKeeps ==
    ASSUME IInv, NEW d \in 1..MaxDay, Tick(d)
    PROVE  IInv'
<1>1. /\ Alive /\ loop.pc = "idle" /\ d \in Stamps
      /\ loop' = [Idle EXCEPT !.pc = IF ~Due(d) THEN "step"
                                     ELSE IF Drawable(d) THEN "rotate" ELSE "refused",
                              !.day = IF Due(d) THEN d ELSE 0]
      /\ UNCHANGED <<day, proc, floor, installed, office, work, admin, saves, writer, rows,
                     stored, started, installs, gone, crossed>>
    BY DEF Tick, svcVars, dbVars
<1>2. d <= day /\ 0 <= day /\ d \in Dates
    BY <1>1, PlanFacts DEF IInv, Calendar, Stamps
<1>3. /\ loop'.pc \in {"step", "rotate", "refused"} /\ loop'.day \in {0, d}
      /\ loop'.pc = "refused" => ~Drawable(d) /\ loop'.day = d
      /\ LoopTyped'
    <2>1. CASE ~Due(d)
        BY <1>1, <2>1, PlanFacts DEF Idle, LoopTyped
    <2>2. CASE Due(d) /\ Drawable(d)
        BY <1>1, <1>2, <2>2 DEF Idle, LoopTyped
    <2>3. CASE Due(d) /\ ~Drawable(d)
        BY <1>1, <1>2, <2>3 DEF Idle, LoopTyped
    <2> QED BY <2>1, <2>2, <2>3
<1>4. ProcTyped' /\ FloorTyped' /\ AdminTyped' /\ StoredTyped' /\ CrossedTyped'
    BY <1>1 DEF IInv, ProcTyped, FloorTyped, AdminTyped, StoredTyped, CrossedTyped
<1>5. Employed' /\ OfficeIsCurrent'
    BY <1>1, EmployedKept DEF IInv, Employed, OfficeIsCurrent
<1>6. Calendar'
    BY <1>1, <1>2, <1>3 DEF IInv, Calendar, Drawable
<1>7. Resting'
    BY <1>1 DEF Resting, Alive
<1>8. Floors'
    BY <1>1 DEF IInv, Floors, EnsureLayout, DailyFloor, Daily, Drawable
<1>9. Settled' => Settled
    BY <1>1 DEF Settled, Drawable
<1>10. SameRoomAfterRestart'
    BY <1>1, <1>9, RoomKept DEF IInv
<1> QED BY <1>3, <1>4, <1>5, <1>6, <1>7, <1>8, <1>10 DEF IInv, Employed

(* A rotation puts the day's floor in force: the one a restart would draw, *)
(* unless a row of that day was stored or the day is over.                 *)
LEMMA RotateKeeps ==
    ASSUME IInv, Rotate
    PROVE  IInv'
<1> DEFINE d == loop.day
<1>1. /\ loop.pc = "rotate" /\ PutInForce(Daily(d), d)
      /\ loop' = [Idle EXCEPT !.pc = "step"]
      /\ crossed' = (stored.day = d \/ d # day)
      /\ UNCHANGED <<day, proc, admin, writer, rows, stored, started, installs>>
    BY DEF Rotate, dbVars
<1>2. Alive /\ d \in Dates /\ d <= day /\ 0 <= day
    BY <1>1, BusyAlive DEF IInv, LoopTyped, Calendar
<1> HIDE DEF d
<1>3. Daily(d) \in Plans /\ Daily(d) # NoPlan
    BY <1>2, PlanFacts
<1>4. Employed' /\ OfficeIsCurrent' /\ FloorTyped' /\ floor'.plan = Daily(d) /\ installed' = d
    BY <1>1, <1>2, <1>3, PutInForceKeeps
<1>5. CrossedTyped'
    BY <1>1 DEF CrossedTyped
<1>6. ProcTyped' /\ AdminTyped' /\ StoredTyped'
    BY <1>1 DEF IInv, ProcTyped, AdminTyped, StoredTyped
<1>7. LoopTyped' /\ loop'.pc = "step" /\ loop'.day = 0
    BY <1>1, PlanFacts DEF LoopTyped, Idle
<1>8. Calendar'
    <2>1. d \in 0..day
        BY <1>2, ShiftsAssumption DEF IInv, Calendar, Dates
    <2> QED BY <1>1, <1>2, <1>4, <1>7, <2>1 DEF IInv, Calendar
<1>9. Resting'
    BY <1>1, <1>2 DEF Resting, Alive
<1>10. Floors'
    <2>1. proc.stage # "booting"
        BY <1>2 DEF Alive
    <2> QED BY <1>1, <1>3, <1>4, <2>1 DEF IInv, Floors
<1>11. SameRoomAfterRestart'
    <2> SUFFICES ASSUME ~crossed', Drawable(day)', stored' # NoRow
                 PROVE  EnsureLayout(stored', day').plan = floor'.plan
        BY DEF SameRoomAfterRestart, Settled
    <2>1. stored.day # d /\ d = day
        BY <1>1, Zenon
    <2>2. EnsureLayout(stored, day) = DailyFloor(day) /\ Drawable(day)
        BY <1>1, <2>1 DEF EnsureLayout, Drawable
    <2>3. EnsureLayout(stored, day).plan = Daily(day)
        BY <2>2 DEF DailyFloor
    <2> QED BY <1>1, <1>4, <2>1, <2>3
<1> QED BY <1>4, <1>5, <1>6, <1>7, <1>8, <1>9, <1>10, <1>11 DEF IInv, Employed

(* A day that cannot be drawn is recorded, and no floor is promised for it. *)
LEMMA RefusedDayKeeps ==
    ASSUME IInv, RefusedDay
    PROVE  IInv'
<1>1. /\ loop.pc = "refused" /\ installed' = loop.day /\ loop' = [Idle EXCEPT !.pc = "step"]
      /\ UNCHANGED <<day, proc, floor, office, work, admin, saves, writer, rows, stored,
                     started, installs, gone, crossed>>
    BY DEF RefusedDay, dbVars
<1>2. /\ Alive /\ loop.day \in Dates /\ loop.day <= day /\ 0 <= day
      /\ ~Drawable(loop.day)
    BY <1>1, BusyAlive DEF IInv, LoopTyped, Calendar
<1>3. ProcTyped' /\ FloorTyped' /\ AdminTyped' /\ StoredTyped' /\ CrossedTyped'
    BY <1>1 DEF IInv, ProcTyped, FloorTyped, AdminTyped, StoredTyped, CrossedTyped
<1>4. LoopTyped' /\ loop'.pc = "step" /\ loop'.day = 0
    BY <1>1, PlanFacts DEF LoopTyped, Idle
<1>5. Employed' /\ OfficeIsCurrent'
    BY <1>1, EmployedKept DEF IInv, Employed, OfficeIsCurrent
<1>6. Calendar'
    <2>1. loop.day \in 0..day
        BY <1>2, ShiftsAssumption DEF IInv, Calendar, Dates
    <2> QED BY <1>1, <1>2, <1>4, <2>1 DEF IInv, Calendar
<1>7. Resting'
    BY <1>1, <1>2 DEF Resting, Alive
<1>8. Floors'
    BY <1>1 DEF IInv, Floors, EnsureLayout, DailyFloor, Daily, Drawable
<1>9. ~Settled'
    BY <1>1, <1>2 DEF Settled, Drawable
<1> QED BY <1>3, <1>4, <1>5, <1>6, <1>7, <1>8, <1>9 DEF IInv, Employed, SameRoomAfterRestart

(* The rest of a tick: the abandoned and the caught go, the others grow quieter. *)
LEMMA StepKeeps ==
    ASSUME IInv, Step
    PROVE  IInv'
<1>1. PICK seen \in SUBSET Accounts : StepFor(seen)
    BY DEF Step
<1>2. PICK caught \in SUBSET DOMAIN work :
          LET over == Abandoned(seen) \cup caught IN
          /\ Finish(over)
          /\ work' = [a \in DOMAIN work \ over |-> [work[a] EXCEPT !.quiet = Quiet(a, seen)]]
          /\ office' = IF Empties(over) THEN NoPlan ELSE office
    BY <1>1 DEF StepFor
<1> DEFINE over == Abandoned(seen) \cup caught
<1>3. /\ loop.pc = "step" /\ loop' = Idle
      /\ UNCHANGED <<day, proc, floor, installed, admin, writer, rows, stored, started,
                     installs, crossed>>
    BY DEF Step, dbVars
<1>4. /\ over \in SUBSET DOMAIN work
      /\ \A a \in DOMAIN work \ over : ~(Quiet(a, seen) > Grace)
    BY DEF Abandoned
<1>5. /\ Finish(over)
      /\ work' = [a \in DOMAIN work \ over |-> [work[a] EXCEPT !.quiet = Quiet(a, seen)]]
      /\ office' = IF DOMAIN work \subseteq over THEN NoPlan ELSE office
    BY <1>2 DEF Empties
<1> HIDE DEF over
<1>6. DOMAIN work' = DOMAIN work \ over
    BY <1>5
<1>7. ASSUME NEW a \in DOMAIN work \ over
      PROVE  work'[a].id = work[a].id /\ work'[a] \in [id : Ids, quiet : Quiets]
    <2>1. work[a] \in [id : Ids, quiet : Quiets]
        BY DEF IInv, WorkTyped
    <2>2. Quiet(a, seen) \in Quiets
        <3>1. work[a].quiet \in 0..Grace
            BY <2>1 DEF Quiets
        <3>2. CASE a \in seen
            BY <3>2, ShiftsAssumption DEF Quiet, Quiets
        <3>3. CASE a \notin seen
            <4>1. Quiet(a, seen) = work[a].quiet + 1
                BY <3>3 DEF Quiet
            <4>2. ~(work[a].quiet + 1 > Grace)
                BY <1>4, <4>1
            <4> QED BY <3>1, <4>1, <4>2, ShiftsAssumption DEF Quiets
        <3> QED BY <3>2, <3>3
    <2>3. work'[a] = [work[a] EXCEPT !.quiet = Quiet(a, seen)]
        BY <1>5
    <2> QED BY <2>1, <2>2, <2>3
<1>8. Employed
    BY DEF IInv, Employed
<1>9. Employed'
    BY <1>3, <1>4, <1>5, <1>6, <1>7, <1>8, FinishKeeps
<1>10. OfficeIsCurrent'
    BY <1>3, <1>5, <1>6 DEF IInv, OfficeIsCurrent
<1>11. office' \in Plans
    BY <1>5, PlanFacts DEF IInv, FloorTyped
<1>12. Alive
    BY <1>3, BusyAlive
<1> QED BY <1>3, <1>9, <1>10, <1>11, <1>12, CalmStep

-----------------------------------------------------------------------------
(* The writer *)

(* The head of the queue goes into the writer's hand. *)
LEMMA WriterTakesKeeps ==
    ASSUME IInv, WriterTakes
    PROVE  IInv'
<1>1. /\ Alive /\ writer.shift = 0 /\ saves # <<>>
      /\ writer' = [writer EXCEPT !.shift = Head(saves)] /\ saves' = Tail(saves)
      /\ UNCHANGED <<day, proc, floor, installed, office, work, loop, admin, rows, stored,
                     started, installs, gone, crossed>>
    BY DEF WriterTakes, svcVars, dbVars
<1>2. saves \in Seq(Ids) /\ Len(saves) <= SavesBuffer
    BY DEF IInv, QueueTyped
<1>3. /\ saves[1] \in Ids /\ Head(saves) = saves[1] /\ Tail(saves) \in Seq(Ids)
      /\ Len(saves) \in Nat \ {0} /\ Len(Tail(saves)) = Len(saves) - 1
      /\ \A i \in 1..Len(Tail(saves)) : Tail(saves)[i] = saves[i + 1]
    <2>1. Len(saves) \in Nat \ {0}
        BY <1>1, <1>2, EmptySeq
    <2>2. saves[1] \in Ids
        BY <1>2, <2>1, ElementOfSeq
    <2> QED BY <1>1, <1>2, <2>1, <2>2, HeadTailProperties
<1> DEFINE h == saves[1]
           t == Tail(saves)
<1>4. h # 0
    BY <1>3, ShiftsAssumption DEF Ids
<1>5. WriterTyped' /\ writer'.shift = h
    BY <1>1, <1>3 DEF IInv, WriterTyped
<1>6. QueueTyped'
    BY <1>1, <1>2, <1>3, ShiftsAssumption DEF QueueTyped
<1>7. \A j, k \in 1..Len(saves) : saves[j] = saves[k] => j = k
    BY DEF IInv, Placed
<1>8. /\ \A i \in 1..Len(t) : i + 1 \in 1..Len(saves) /\ i + 1 # 1
      /\ \A i \in 1..Len(saves) : i = 1 \/ (i - 1 \in 1..Len(t) /\ (i - 1) + 1 = i)
      /\ 1 \in 1..Len(saves)
    BY <1>3
<1>9. /\ \A i \in 1..Len(t) : t[i] \in Queued /\ t[i] # h
      /\ \A j, k \in 1..Len(t) : t[j] = t[k] => j = k
    <2>1. \A i \in 1..Len(t) : t[i] = saves[i + 1]
        BY <1>3
    <2>2. \A i \in 1..Len(t) : t[i] \in Queued /\ t[i] # h
        BY <1>7, <1>8, <2>1 DEF Queued
    <2>3. ASSUME NEW j \in 1..Len(t), NEW k \in 1..Len(t), t[j] = t[k] PROVE j = k
        <3>1. saves[j + 1] = saves[k + 1]
            BY <2>1, <2>3
        <3>2. j + 1 = k + 1
            BY <1>7, <1>8, <3>1
        <3> QED BY <3>2
    <2> QED BY <2>2, <2>3
<1>10. Queued' = Queued \ {h}
    <2>1. Queued' = {t[i] : i \in 1..Len(t)}
        BY <1>1 DEF Queued
    <2>2. ASSUME NEW i \in 1..Len(saves), saves[i] # h
          PROVE  saves[i] \in {t[k] : k \in 1..Len(t)}
        <3>1. i - 1 \in 1..Len(t) /\ (i - 1) + 1 = i
            BY <1>8, <2>2
        <3>2. t[i - 1] = saves[i]
            BY <1>3, <3>1
        <3> QED BY <3>1, <3>2
    <2>3. Queued \ {h} \subseteq Queued'
        <3> SUFFICES ASSUME NEW i \in 1..Len(saves), saves[i] # h PROVE saves[i] \in Queued'
            BY DEF Queued
        <3> QED BY <2>1, <2>2
    <2>4. Queued' \subseteq Queued \ {h}
        BY <1>9, <2>1
    <2> QED BY <2>3, <2>4
<1>11. h \in Queued
    BY <1>8 DEF Queued
<1>12. Writing = {} /\ Writing' = {h} /\ Worked' = Worked /\ rows' = rows /\ gone' = gone
    BY <1>1, <1>4, <1>5 DEF Writing, Worked, IdsOf
<1>13. \A j, k \in 1..Len(saves') : saves'[j] = saves'[k] => j = k
    BY <1>1, <1>9
<1> HIDE DEF h, t
<1>14. /\ Worked \cup Queued \cup Writing \cup rows \cup gone = 1..started
       /\ Apart(Worked, Queued, Writing, rows, gone) /\ started \in 0..MaxShifts
       /\ \A a, b \in DOMAIN work : work[a].id = work[b].id => a = b
    BY DEF IInv, Placed
<1>15. Worked' \cup Queued' \cup Writing' \cup rows' \cup gone' = 1..started
    BY <1>10, <1>11, <1>12, <1>14
<1>16. Apart(Worked, Queued, Writing, rows, gone)'
    BY <1>10, <1>11, <1>12, <1>14 DEF Apart
<1>17. Placed'
    BY <1>1, <1>13, <1>14, <1>15, <1>16 DEF Placed
<1>18. WorkTyped' /\ OfficeIsCurrent' /\ office' \in Plans
    BY <1>1 DEF IInv, WorkTyped, OfficeIsCurrent, FloorTyped
<1> QED BY <1>1, <1>5, <1>6, <1>17, <1>18, CalmStep DEF Employed

(* The one INSERT: a row, or a line in the log. *)
LEMMA WriteShiftKeeps ==
    ASSUME IInv, WriteShift
    PROVE  IInv'
<1> DEFINE h == writer.shift
<1>1. /\ Alive /\ h # 0
      /\ \/ rows' = rows \cup {h} /\ gone' = gone
         \/ gone' = gone \cup {h} /\ rows' = rows
      /\ writer' = [writer EXCEPT !.shift = 0]
      /\ UNCHANGED <<day, proc, floor, installed, office, work, loop, admin, saves, stored,
                     started, installs, crossed>>
    BY DEF WriteShift, svcVars
<1>2. WriterTyped' /\ writer'.shift = 0
    BY <1>1 DEF IInv, WriterTyped
<1>3. /\ Writing = {h} /\ Writing' = {} /\ Worked' = Worked /\ Queued' = Queued
    BY <1>1, <1>2 DEF Writing, Worked, IdsOf, Queued
<1> HIDE DEF h
<1>4. /\ Worked \cup Queued \cup Writing \cup rows \cup gone = 1..started
      /\ Apart(Worked, Queued, Writing, rows, gone) /\ started \in 0..MaxShifts
      /\ \A a, b \in DOMAIN work : work[a].id = work[b].id => a = b
      /\ \A j, k \in 1..Len(saves) : saves[j] = saves[k] => j = k
    BY DEF IInv, Placed
<1>5. Worked' \cup Queued' \cup Writing' \cup rows' \cup gone' = 1..started
    BY <1>1, <1>3, <1>4
<1>6. Apart(Worked, Queued, Writing, rows, gone)'
    BY <1>1, <1>3, <1>4 DEF Apart
<1>7. Placed'
    BY <1>1, <1>4, <1>5, <1>6 DEF Placed
<1>8. WorkTyped' /\ QueueTyped' /\ OfficeIsCurrent' /\ office' \in Plans
    BY <1>1 DEF IInv, WorkTyped, QueueTyped, OfficeIsCurrent, FloorTyped
<1> QED BY <1>1, <1>2, <1>7, <1>8, CalmStep DEF Employed

LEMMA WriterReturnsKeeps ==
    ASSUME IInv, WriterReturns
    PROVE  IInv'
<1>1. /\ proc.stage = "stopping" /\ writer' = [writer EXCEPT !.pc = "gone"]
      /\ UNCHANGED <<day, proc, floor, installed, office, work, loop, admin, saves, rows,
                     stored, started, installs, gone, crossed>>
    BY DEF WriterReturns, svcVars, dbVars
<1>2. WriterTyped' /\ writer'.shift = writer.shift /\ Alive
    BY <1>1 DEF IInv, WriterTyped, Alive
<1>3. Placed'
    <2>1. Worked' = Worked /\ Queued' = Queued /\ Writing' = Writing
        BY <1>1, <1>2 DEF Worked, IdsOf, Queued, Writing
    <2> QED BY <1>1, <2>1 DEF IInv, Placed, Apart
<1>4. WorkTyped' /\ QueueTyped' /\ OfficeIsCurrent' /\ office' \in Plans
    BY <1>1 DEF IInv, WorkTyped, QueueTyped, OfficeIsCurrent, FloorTyped
<1> QED BY <1>1, <1>2, <1>3, <1>4, CalmStep DEF Employed

-----------------------------------------------------------------------------
(* The process and the clock *)

(* A step of the running process alone: Run returns, or the process is told to stop. *)
LEMMA ProcessStep ==
    ASSUME IInv, Alive, ProcTyped', proc'.stage = "stopping",
           UNCHANGED <<day, svcVars, loop, admin, saves, writer, dbVars, started, installs,
                       gone, crossed>>
    PROVE  IInv'
<1>1. UNCHANGED <<day, floor, installed, office, work, loop, admin, saves, writer, rows,
                  stored, started, installs, gone, crossed>>
    BY DEF svcVars, dbVars
<1>2. FloorTyped' /\ LoopTyped' /\ AdminTyped' /\ StoredTyped' /\ CrossedTyped'
    BY <1>1 DEF IInv, FloorTyped, LoopTyped, AdminTyped, StoredTyped, CrossedTyped
<1>3. Employed' /\ OfficeIsCurrent'
    BY <1>1, EmployedKept DEF IInv, Employed, OfficeIsCurrent
<1>4. Calendar'
    BY <1>1 DEF IInv, Calendar, Drawable
<1>5. Resting' /\ ~Settled'
    BY DEF Resting, Alive, Settled
<1>6. Floors'
    BY <1>1 DEF IInv, Floors, Alive
<1> QED BY <1>2, <1>3, <1>4, <1>5, <1>6 DEF IInv, Employed, SameRoomAfterRestart

LEMMA LoopReturnsKeeps ==
    ASSUME IInv, LoopReturns
    PROVE  IInv'
<1>1. /\ proc.stage = "stopping" /\ proc' = [proc EXCEPT !.done = TRUE]
      /\ UNCHANGED <<day, svcVars, loop, admin, saves, writer, dbVars, started, installs,
                     gone, crossed>>
    BY DEF LoopReturns
<1>2. ProcTyped' /\ proc'.stage = "stopping" /\ Alive
    BY <1>1 DEF IInv, ProcTyped, Alive
<1> QED BY <1>1, <1>2, ProcessStep

LEMMA StopKeeps ==
    ASSUME IInv, Stop
    PROVE  IInv'
<1>1. /\ proc.stage = "up" /\ proc' = [proc EXCEPT !.stage = "stopping"]
      /\ UNCHANGED <<day, svcVars, loop, admin, saves, writer, dbVars, started, installs,
                     gone, crossed>>
    BY DEF Stop
<1>2. ProcTyped' /\ proc'.stage = "stopping" /\ Alive
    BY <1>1 DEF IInv, ProcTyped, Alive
<1> QED BY <1>1, <1>2, ProcessStep

(* The process ends: what it held and had not written will never have a row. *)
LEMMA ExitKeeps ==
    ASSUME IInv, Exit
    PROVE  IInv'
<1>1. /\ proc' = [proc EXCEPT !.stage = "down", !.done = FALSE]
      /\ gone' = gone \cup ((1..started) \ rows)
      /\ floor' = [plan |-> NoPlan, at |-> 0] /\ installed' = 0 /\ crossed' = FALSE
      /\ office' = NoPlan /\ work' = <<>> /\ loop' = Idle
      /\ admin' = [b \in Admins |-> NoRequest]
      /\ saves' = <<>> /\ writer' = [pc |-> "gone", shift |-> 0]
      /\ UNCHANGED <<day, rows, stored, started, installs>>
    BY DEF Exit, dbVars
<1>2. ProcTyped' /\ proc'.stage = "down"
    BY <1>1 DEF IInv, ProcTyped
<1>3. FloorTyped' /\ LoopTyped' /\ StoredTyped'
    BY <1>1, PlanFacts DEF IInv, FloorTyped, LoopTyped, StoredTyped, Idle
<1>4. AdminTyped' /\ \A b \in Admins : admin'[b] = NoRequest
    BY <1>1, PlanFacts DEF AdminTyped, NoRequest
<1>5. CrossedTyped'
    BY <1>1 DEF CrossedTyped
<1>6. /\ DOMAIN work' = {} /\ Worked' = {} /\ Queued' = {} /\ Writing' = {}
      /\ Len(saves') = 0 /\ QueueTyped' /\ WriterTyped'
    <2>1. DOMAIN work' = {} /\ Worked' = {} /\ Writing' = {} /\ WriterTyped'
        BY <1>1 DEF Worked, IdsOf, Writing, WriterTyped
    <2>2. saves' \in Seq(Ids) /\ Len(saves') = 0
        BY <1>1, EmptySeq
    <2>3. Queued' = {}
        BY <2>2 DEF Queued
    <2>4. QueueTyped'
        BY <2>2, ShiftsAssumption DEF QueueTyped
    <2> QED BY <2>1, <2>2, <2>3, <2>4
<1>7. WorkTyped'
    BY <1>6, FS_EmptySet, ShiftsAssumption DEF WorkTyped
<1>8. /\ Worked \cup Queued \cup Writing \cup rows \cup gone = 1..started
      /\ Apart(Worked, Queued, Writing, rows, gone) /\ started \in 0..MaxShifts
    BY DEF IInv, Placed
<1>9. Worked' \cup Queued' \cup Writing' \cup rows' \cup gone' = 1..started
    BY <1>1, <1>6, <1>8
<1>10. Apart(Worked, Queued, Writing, rows, gone)'
    BY <1>1, <1>6, <1>8 DEF Apart
<1>11. \A j, k \in 1..Len(saves') : saves'[j] = saves'[k] => j = k
    BY <1>6
<1>12. Placed'
    BY <1>1, <1>6, <1>8, <1>9, <1>10, <1>11 DEF Placed
<1>13. OfficeIsCurrent'
    BY <1>1, <1>6 DEF OfficeIsCurrent
<1>14. Calendar'
    <2>1. Idle.day = 0 /\ Idle.pc = "idle" /\ NoRequest.at = 0
        BY DEF Idle, NoRequest
    <2>2. day \in 1..MaxDay /\ 0 <= day /\ 0 \in 0..day /\ installs \in 0..MaxInstalls
        BY ShiftsAssumption DEF IInv, Calendar
    <2> QED BY <1>1, <1>4, <2>1, <2>2 DEF Calendar
<1>15. Resting'
    BY <1>1, <1>4, <1>6 DEF Resting
<1>16. Floors'
    BY <1>1, <1>2, <1>4 DEF IInv, Floors, NoRequest
<1>17. ~Settled'
    BY <1>2 DEF Settled
<1> QED BY <1>2, <1>3, <1>4, <1>5, <1>6, <1>7, <1>12, <1>13, <1>14, <1>15, <1>16, <1>17
        DEF IInv, SameRoomAfterRestart

(* main reads a floor, and the table would give the same one again. *)
LEMMA BootReadsKeeps ==
    ASSUME IInv, BootReads
    PROVE  IInv'
<1>1. /\ proc.stage = "down" /\ proc.count < MaxBoots
      /\ proc' = [proc EXCEPT !.stage = "booting", !.count = @ + 1]
      /\ floor' = EnsureLayout(stored, day)
      /\ \/ stored' = IF stored = NoRow THEN [plan |-> Starting, day |-> day] ELSE stored
         \/ stored' = stored
      /\ UNCHANGED <<day, installed, office, work, loop, admin, saves, writer, rows,
                     started, installs, gone, crossed>>
    BY DEF BootReads
<1>2. proc.count + 1 \in Boots
    <2>1. proc.count \in Boots
        BY DEF IInv, ProcTyped
    <2> QED BY <1>1, <2>1, ShiftsAssumption DEF Boots
<1>3. ProcTyped' /\ proc'.stage = "booting"
    <2> DEFINE n == proc.count + 1
    <2>1. proc' = [proc EXCEPT !.stage = "booting", !.count = n] /\ n \in Boots
        BY <1>1, <1>2
    <2> HIDE DEF n
    <2> QED BY <2>1 DEF IInv, ProcTyped
<1>4. day \in Dates
    BY PlanFacts DEF IInv, Calendar
<1>5. /\ stored \in [plan : Plans, day : Dates] /\ (stored # NoRow => stored.plan # NoPlan)
    BY DEF IInv, StoredTyped, Floors
<1>6. floor' \in [plan : Plans, at : Dates] /\ floor'.at = day /\ floor'.plan # NoPlan
    BY <1>1, <1>4, <1>5, LayoutFacts
<1>7. LoopTyped' /\ AdminTyped' /\ CrossedTyped' /\ FloorTyped'
    BY <1>1, <1>6 DEF IInv, LoopTyped, AdminTyped, CrossedTyped, FloorTyped
<1>8. /\ StoredTyped' /\ (stored' # NoRow => stored'.plan # NoPlan)
      /\ stored' # NoRow => floor'.plan = EnsureLayout(stored', day).plan
    <2>1. CASE stored' = stored
        BY <1>1, <1>5, <2>1 DEF StoredTyped
    <2>2. CASE stored = NoRow /\ stored' = [plan |-> Starting, day |-> day]
        <3>1. stored'.plan = Starting /\ stored'.day = day /\ stored' # NoRow /\ StoredTyped'
            BY <1>4, <2>2, PlanFacts DEF StoredTyped
        <3>2. EnsureLayout(stored', day).plan = Starting
            BY <3>1, PlanFacts DEF EnsureLayout
        <3>3. floor'.plan = Starting
            BY <1>1, <2>2 DEF EnsureLayout
        <3> QED BY <3>1, <3>2, <3>3, PlanFacts
    <2> QED BY <1>1, <2>1, <2>2
<1>9. Employed'
    BY <1>1, EmployedKept DEF IInv, Employed
<1>10. ~Alive /\ Resting' /\ OfficeIsCurrent'
    BY <1>1 DEF IInv, Resting, Alive, OfficeIsCurrent
<1>11. Calendar'
    BY <1>1 DEF IInv, Calendar, Drawable
<1>12. Floors'
    BY <1>1, <1>3, <1>6, <1>8 DEF IInv, Floors
<1>13. ~Settled'
    BY <1>3 DEF Settled
<1> QED BY <1>3, <1>7, <1>8, <1>9, <1>10, <1>11, <1>12, <1>13
        DEF IInv, Employed, SameRoomAfterRestart

(* The service is built on the floor main read, which is the day's unless midnight passed. *)
LEMMA BootBuildsKeeps ==
    ASSUME IInv, BootBuilds
    PROVE  IInv'
<1>1. /\ proc.stage = "booting" /\ proc' = [proc EXCEPT !.stage = "up"]
      /\ installed' = day /\ writer' = [pc |-> "select", shift |-> 0]
      /\ crossed' = (floor.at # day)
      /\ UNCHANGED <<day, floor, office, work, loop, admin, saves, rows, stored, started,
                     installs, gone>>
    BY DEF BootBuilds, dbVars
<1>2. ProcTyped' /\ proc'.stage = "up"
    BY <1>1 DEF IInv, ProcTyped
<1>3. FloorTyped' /\ LoopTyped' /\ AdminTyped' /\ StoredTyped'
    BY <1>1 DEF IInv, FloorTyped, LoopTyped, AdminTyped, StoredTyped
<1>4. CrossedTyped'
    BY <1>1 DEF CrossedTyped
<1>5. writer.shift = 0 /\ writer'.shift = 0 /\ WriterTyped'
    BY <1>1 DEF IInv, Resting, Alive, WriterTyped
<1>6. WorkTyped' /\ QueueTyped'
    BY <1>1 DEF IInv, WorkTyped, QueueTyped
<1>7. Placed'
    <2>1. Worked' = Worked /\ Queued' = Queued /\ Writing' = Writing
        BY <1>1, <1>5 DEF Worked, IdsOf, Queued, Writing
    <2> QED BY <1>1, <2>1 DEF IInv, Placed, Apart
<1>8. OfficeIsCurrent'
    BY <1>1 DEF IInv, OfficeIsCurrent
<1>9. Calendar'
    <2>1. day \in 0..day
        BY ShiftsAssumption DEF IInv, Calendar
    <2> QED BY <1>1, <2>1 DEF IInv, Calendar, Drawable
<1>10. Resting'
    BY <1>2 DEF Resting, Alive
<1>11. Floors'
    BY <1>1, <1>2 DEF IInv, Floors
<1>12. SameRoomAfterRestart'
    <2> SUFFICES ASSUME ~crossed', stored' # NoRow
                 PROVE  EnsureLayout(stored', day').plan = floor'.plan
        BY DEF SameRoomAfterRestart
    <2>1. floor.at = day
        BY <1>1, Zenon
    <2>2. floor.plan = EnsureLayout(stored, day).plan
        BY <1>1, <2>1 DEF IInv, Floors
    <2> QED BY <1>1, <2>2
<1> QED BY <1>2, <1>3, <1>4, <1>5, <1>6, <1>7, <1>8, <1>9, <1>10, <1>11, <1>12 DEF IInv

(* A day that begins is not yet dealt with. *)
LEMMA NextDayKeeps ==
    ASSUME IInv, NextDay
    PROVE  IInv'
<1>1. /\ day < MaxDay /\ day' = day + 1
      /\ UNCHANGED <<proc, floor, installed, office, work, loop, admin, saves, writer, rows,
                     stored, started, installs, gone, crossed>>
    BY DEF NextDay, svcVars, dbVars
<1>2. ProcTyped' /\ FloorTyped' /\ LoopTyped' /\ AdminTyped' /\ StoredTyped' /\ CrossedTyped'
    BY <1>1 DEF IInv, ProcTyped, FloorTyped, LoopTyped, AdminTyped, StoredTyped, CrossedTyped
<1>3. Employed' /\ OfficeIsCurrent'
    BY <1>1, EmployedKept DEF IInv, Employed, OfficeIsCurrent
<1>4. /\ day \in 1..MaxDay /\ installed \in 0..day /\ loop.day \in Dates
      /\ \A b \in Admins : admin[b].at \in Dates /\ admin[b].at <= day
      /\ loop.day <= day
    BY DEF IInv, Calendar, LoopTyped, AdminTyped
<1>5. /\ day' \in 1..MaxDay /\ installed' \in 0..day' /\ installed' # day' /\ loop.day <= day'
      /\ \A b \in Admins : admin[b].at <= day'
    BY <1>1, <1>4, ShiftsAssumption DEF Dates
<1>6. Calendar'
    BY <1>1, <1>5 DEF IInv, Calendar, Drawable
<1>7. Resting'
    BY <1>1 DEF IInv, Resting, Alive
<1>8. Floors'
    BY <1>1 DEF IInv, Floors, EnsureLayout, DailyFloor, Daily, Drawable
<1>9. ~Settled'
    BY <1>5 DEF Settled
<1> QED BY <1>2, <1>3, <1>6, <1>7, <1>8, <1>9 DEF IInv, Employed, SameRoomAfterRestart

-----------------------------------------------------------------------------
(* The theorems *)

LEMMA InitHolds == Init => IInv
<1> SUFFICES ASSUME Init PROVE IInv
    OBVIOUS
<1>1. /\ day = 1 /\ proc = [stage |-> "down", count |-> 0, done |-> FALSE]
      /\ floor = [plan |-> NoPlan, at |-> 0] /\ installed = 0 /\ office = NoPlan /\ work = <<>>
      /\ loop = Idle /\ admin = [b \in Admins |-> NoRequest]
      /\ saves = <<>> /\ writer = [pc |-> "gone", shift |-> 0] /\ rows = {}
      /\ stored \in {NoRow, [plan |-> Plan("broken", 0), day |-> 1]}
      /\ started = 0 /\ installs = 0 /\ gone = {} /\ crossed = FALSE
    BY DEF Init
<1>2. 0 \in Boots /\ 1 \in Dates
    BY ShiftsAssumption DEF Boots, Dates
<1>3. ProcTyped
    BY <1>1, <1>2 DEF ProcTyped
<1>4. FloorTyped /\ LoopTyped
    BY <1>1, PlanFacts DEF FloorTyped, LoopTyped, Idle
<1>5. AdminTyped /\ \A b \in Admins : admin[b] = NoRequest
    BY <1>1, PlanFacts DEF AdminTyped, NoRequest
<1>6. StoredTyped /\ (stored # NoRow => stored.plan # NoPlan)
    BY <1>1, <1>2, PlanFacts DEF StoredTyped
<1>7. CrossedTyped
    BY <1>1 DEF CrossedTyped
<1>8. Calendar
    <2>1. Idle.day = 0 /\ Idle.pc = "idle" /\ NoRequest.at = 0
        BY DEF Idle, NoRequest
    <2>2. 1 \in 1..MaxDay /\ 0 \in 0..1 /\ 0 \in 0..MaxInstalls /\ 0 <= 1
        BY ShiftsAssumption
    <2> QED BY <1>1, <1>5, <2>1, <2>2 DEF Calendar
<1>9. /\ DOMAIN work = {} /\ Worked = {} /\ Writing = {} /\ WriterTyped
    BY <1>1 DEF Worked, IdsOf, Writing, WriterTyped
<1>10. saves \in Seq(Ids) /\ Len(saves) = 0 /\ Queued = {} /\ QueueTyped
    <2>1. saves \in Seq(Ids) /\ Len(saves) = 0
        BY <1>1, EmptySeq
    <2> QED BY <2>1, ShiftsAssumption DEF Queued, QueueTyped
<1>11. WorkTyped
    BY <1>9, FS_EmptySet, ShiftsAssumption DEF WorkTyped
<1>12. Placed
    <2>1. started \in 0..MaxShifts /\ 1..started = {} /\ 1..Len(saves) = {}
        BY <1>1, <1>10, ShiftsAssumption
    <2> QED BY <1>1, <1>9, <1>10, <2>1 DEF Placed, Apart
<1>13. Resting
    BY <1>1, <1>5, <1>9 DEF Resting
<1>14. Floors
    BY <1>1, <1>5, <1>6 DEF Floors, NoRequest
<1>15. OfficeIsCurrent
    BY <1>1, <1>9 DEF OfficeIsCurrent
<1>16. SameRoomAfterRestart
    BY <1>1 DEF SameRoomAfterRestart, Settled
<1> QED BY <1>3, <1>4, <1>5, <1>6, <1>7, <1>8, <1>9, <1>10, <1>11, <1>12, <1>13, <1>14,
           <1>15, <1>16 DEF IInv

LEMMA StutterKeeps ==
    ASSUME IInv, UNCHANGED vars
    PROVE  IInv'
<1>1. UNCHANGED <<day, proc, floor, installed, office, work, loop, admin, saves, writer, rows,
                  stored, started, installs, gone, crossed>>
    BY DEF vars, svcVars, dbVars
<1>2. ProcTyped' /\ FloorTyped' /\ LoopTyped' /\ AdminTyped' /\ StoredTyped' /\ CrossedTyped'
    BY <1>1 DEF IInv, ProcTyped, FloorTyped, LoopTyped, AdminTyped, StoredTyped, CrossedTyped
<1>3. Employed' /\ OfficeIsCurrent'
    BY <1>1, EmployedKept DEF IInv, Employed, OfficeIsCurrent
<1>4. Calendar' /\ Resting'
    BY <1>1 DEF IInv, Calendar, Drawable, Resting, Alive
<1>5. Floors'
    BY <1>1 DEF IInv, Floors, EnsureLayout, DailyFloor, Daily, Drawable
<1>6. Settled' => Settled
    BY <1>1 DEF Settled, Drawable
<1>7. SameRoomAfterRestart'
    BY <1>1, <1>6, RoomKept DEF IInv
<1> QED BY <1>2, <1>3, <1>4, <1>5, <1>7 DEF IInv, Employed

LEMMA NextKeeps == IInv /\ [Next]_vars => IInv'
<1> SUFFICES ASSUME IInv, [Next]_vars PROVE IInv'
    OBVIOUS
<1>1. ASSUME NEW a \in Accounts, Request(a) PROVE IInv'
    <2>1. /\ Alive
          /\ UNCHANGED <<day, proc, loop, admin, writer, dbVars, installs, crossed>>
        BY <1>1 DEF Request
    <2>2. CASE StartShift(a)
        BY <2>1, <2>2, StartShiftKeeps
    <2>3. CASE LeaveShift(a)
        BY <2>1, <2>3, LeaveShiftKeeps
    <2>4. CASE PurgeAccount(a)
        BY <2>1, <2>4, PurgeAccountKeeps
    <2> QED BY <1>1, <2>2, <2>3, <2>4 DEF Request
<1>2. ASSUME NEW b \in Admins, InstallBegins(b) \/ InsertLayout(b) \/ InstallSwaps(b)
      PROVE  IInv'
    BY <1>2, InstallBeginsKeeps, InsertLayoutKeeps, InstallSwapsKeeps
<1>3. CASE Loop
    BY <1>3, TickKeeps, RotateKeeps, RefusedDayKeeps, StepKeeps DEF Loop
<1>4. CASE Writer
    BY <1>4, WriterTakesKeeps, WriteShiftKeeps, WriterReturnsKeeps DEF Writer
<1>5. CASE LoopReturns \/ Stop \/ Exit \/ BootReads \/ BootBuilds \/ NextDay
    BY <1>5, LoopReturnsKeeps, StopKeeps, ExitKeeps, BootReadsKeeps, BootBuildsKeeps, NextDayKeeps
<1>6. CASE UNCHANGED vars
    BY <1>6, StutterKeeps
<1> QED BY <1>1, <1>2, <1>3, <1>4, <1>5, <1>6 DEF Next

(* The inductive invariant holds in every reachable state. *)
THEOREM Invariance == Spec => []IInv
<1>1. Init => IInv
    BY InitHolds
<1>2. IInv /\ [Next]_vars => IInv'
    BY NextKeeps
<1> QED BY <1>1, <1>2, PTL DEF Spec

LEMMA IInvTyped == IInv => TypeOK
<1> SUFFICES ASSUME IInv PROVE TypeOK
    OBVIOUS
<1>1. /\ proc \in [stage : {"down", "booting", "up", "stopping"}, count : 0..MaxBoots, done : BOOLEAN]
    BY DEF IInv, ProcTyped, Boots
<1>2. floor \in [plan : Plans, at : 0..MaxDay] /\ office \in Plans
    BY DEF IInv, FloorTyped, Dates
<1>3. /\ loop \in [pc : {"idle", "rotate", "refused", "step"}, day : 0..MaxDay]
      /\ admin \in [Admins -> [pc : {"idle", "insert", "swap"}, plan : Plans, at : 0..MaxDay]]
      /\ stored \in [plan : Plans, day : 0..MaxDay]
    BY DEF IInv, LoopTyped, AdminTyped, StoredTyped, Dates
<1>4. day \in 1..MaxDay /\ installed \in 0..MaxDay /\ installs \in 0..MaxInstalls
    BY ShiftsAssumption DEF IInv, Calendar
<1>5. /\ DOMAIN work \subseteq Accounts /\ Cardinality(DOMAIN work) <= MaxOccupants
      /\ \A a \in DOMAIN work : work[a] \in [id : 1..MaxShifts, quiet : 0..Grace]
    BY DEF IInv, WorkTyped, Ids, Quiets
<1>6. saves \in Seq(1..MaxShifts) /\ Len(saves) <= SavesBuffer
    BY DEF IInv, QueueTyped, Ids
<1>7. writer \in [pc : {"select", "gone"}, shift : 0..MaxShifts]
    <2>1. Ids \cup {0} = 0..MaxShifts
        BY ShiftsAssumption DEF Ids
    <2> QED BY <2>1 DEF IInv, WriterTyped
<1>8. /\ started \in 0..MaxShifts /\ rows \subseteq 1..started /\ gone \subseteq 1..started
    BY DEF IInv, Placed
<1>9. rows \subseteq 1..MaxShifts /\ gone \subseteq 1..MaxShifts
    <2>1. 1..started \subseteq 1..MaxShifts
        BY <1>8, ShiftsAssumption
    <2> QED BY <1>8, <2>1
<1>10. crossed \in BOOLEAN
    BY DEF IInv, CrossedTyped
<1> QED BY <1>1, <1>2, <1>3, <1>4, <1>5, <1>6, <1>7, <1>8, <1>9, <1>10 DEF TypeOK

(* A set with at most one member has one element, or none. *)
LEMMA AtMostOne ==
    ASSUME NEW S, \A x, y \in S : x = y
    PROVE  Cardinality(S) = IF S = {} THEN 0 ELSE 1
<1>1. CASE S = {}
    BY <1>1, FS_EmptySet
<1>2. CASE S # {}
    <2>1. PICK x : x \in S
        BY <1>2
    <2>2. S = {x}
        BY <2>1
    <2> QED BY <1>2, <2>2, FS_Singleton
<1> QED BY <1>1, <1>2

LEMMA IInvPlaces == IInv => ExactlyOnePlace
<1> SUFFICES ASSUME IInv, NEW i \in 1..started PROVE Places(i) = 1
    BY DEF ExactlyOnePlace
<1> DEFINE A == {a \in DOMAIN work : work[a].id = i}
           B == {k \in 1..Len(saves) : saves[k] = i}
           C == {x \in {writer.shift} : x = i}
           D == {i} \cap rows
           E == {i} \cap gone
<1>1. i # 0 /\ started \in 0..MaxShifts
    BY DEF IInv, Placed
<1>2. /\ \A x, y \in A : x = y
      /\ \A x, y \in B : x = y
      /\ \A x, y \in C : x = y
      /\ \A x, y \in D : x = y
      /\ \A x, y \in E : x = y
    BY DEF IInv, Placed
<1>3. /\ A # {} <=> i \in Worked
      /\ B # {} <=> i \in Queued
      /\ C # {} <=> i \in Writing
      /\ D # {} <=> i \in rows
      /\ E # {} <=> i \in gone
    BY <1>1 DEF Worked, IdsOf, Queued, Writing
<1>4. Places(i) = Cardinality(A) + Cardinality(B) + Cardinality(C) + Cardinality(D) + Cardinality(E)
    BY DEF Places
<1> HIDE DEF A, B, C, D, E
<1>5. /\ Cardinality(A) = IF A = {} THEN 0 ELSE 1
      /\ Cardinality(B) = IF B = {} THEN 0 ELSE 1
      /\ Cardinality(C) = IF C = {} THEN 0 ELSE 1
      /\ Cardinality(D) = IF D = {} THEN 0 ELSE 1
      /\ Cardinality(E) = IF E = {} THEN 0 ELSE 1
    BY <1>2, AtMostOne
<1>6. i \in Worked \/ i \in Queued \/ i \in Writing \/ i \in rows \/ i \in gone
    BY DEF IInv, Placed
<1>7. /\ ~(i \in Worked /\ i \in Queued) /\ ~(i \in Worked /\ i \in Writing)
      /\ ~(i \in Worked /\ i \in rows) /\ ~(i \in Worked /\ i \in gone)
      /\ ~(i \in Queued /\ i \in Writing) /\ ~(i \in Queued /\ i \in rows)
      /\ ~(i \in Queued /\ i \in gone) /\ ~(i \in Writing /\ i \in rows)
      /\ ~(i \in Writing /\ i \in gone) /\ ~(i \in rows /\ i \in gone)
    BY DEF IInv, Placed, Apart
<1> QED BY <1>3, <1>4, <1>5, <1>6, <1>7

(* Any shifts, floors, ticks, installs, writes and restarts: every shift   *)
(* started is worked, queued, being written, in the table or dropped, and  *)
(* never two of them; the office is open exactly while somebody works in   *)
(* it and is the floor in force; a restart at a quiet moment finds the     *)
(* room it left.                                                           *)
THEOREM ShiftsAlwaysSound == Spec => []ShiftsAreSound
<1>1. IInv => ShiftsAreSound
    BY IInvTyped, IInvPlaces DEF IInv, ShiftsAreSound
<1> QED BY <1>1, Invariance, PTL

(* The floor of an office changes only when nobody of the old one is left. *)
LEMMA FloorStands ==
    ASSUME IInv, [Next]_vars, NEW a \in DOMAIN work, a \in DOMAIN work'
    PROVE  office' = office
<1>1. office # NoPlan
    BY DEF IInv, OfficeIsCurrent
<1>2. ASSUME NEW b \in Accounts, Request(b) PROVE office' = office
    <2>1. CASE StartShift(b)
        BY <1>1, <2>1 DEF StartShift
    <2>2. CASE Vacate({b})
        BY <2>2 DEF Vacate, Without, Empties
    <2> QED BY <1>2, <2>1, <2>2 DEF Request, LeaveShift, PurgeAccount
<1>3. ASSUME NEW p, NEW d, PutInForce(p, d) PROVE office' = office
    BY <1>3 DEF PutInForce
<1>4. CASE Step
    <2>1. PICK seen \in SUBSET Accounts : StepFor(seen)
        BY <1>4 DEF Step
    <2>2. PICK caught \in SUBSET DOMAIN work :
              /\ work' = [c \in DOMAIN work \ (Abandoned(seen) \cup caught) |->
                            [work[c] EXCEPT !.quiet = Quiet(c, seen)]]
              /\ office' = IF Empties(Abandoned(seen) \cup caught) THEN NoPlan ELSE office
        BY <2>1 DEF StepFor
    <2>3. DOMAIN work' = DOMAIN work \ (Abandoned(seen) \cup caught)
        BY <2>2
    <2> QED BY <2>2, <2>3 DEF Empties
<1>5. CASE Exit
    BY <1>5 DEF Exit
<1>6. CASE UNCHANGED office
    BY <1>6
<1>7. [Next]_vars => \/ \E b \in Accounts : Request(b)
                     \/ \E p, d : PutInForce(p, d)
                     \/ Step \/ Exit \/ UNCHANGED office
    BY DEF Next, vars, svcVars, Loop, Writer, InstallBegins, InsertLayout, InstallSwaps, Tick,
           Rotate, RefusedDay, LoopReturns, WriterTakes, WriteShift, WriterReturns, Stop,
           BootReads, BootBuilds, NextDay
<1> QED BY <1>2, <1>3, <1>4, <1>5, <1>6, <1>7

(* No start, install, rotation, tick or restart changes the floor of the   *)
(* office somebody goes on working in.                                     *)
THEOREM FloorAlwaysStandsStill == Spec => FloorStandsStill
<1>1. IInv /\ [Next]_vars =>
          [\A a \in DOMAIN work \cap DOMAIN work' :
              work'[a].id = work[a].id => office' = office]_vars
    BY FloorStands
<1> QED BY <1>1, Invariance, PTL DEF Spec, FloorStandsStill

-----------------------------------------------------------------------------
(* Recursions, step by step. *)

(* What holds at nought and is handed on at each step holds up to the last. *)
LEMMA StepByStep ==
    ASSUME NEW n \in Nat, NEW T, 0 \in T, \A i \in 1..n : i - 1 \in T => i \in T
    PROVE  \A i \in 0..n : i \in T
<1> DEFINE U == {i \in 0..n : i \notin T}
           R == {ss \in Nat \X Nat : ss[1] < ss[2]}
<1> SUFFICES ASSUME U # {} PROVE FALSE
  OBVIOUS
<1>1. R = OpToRel(<, Nat)
  BY DEF OpToRel
<1>2. IsWellFoundedOn(R, Nat)
  BY <1>1, NatLessThanWellFounded
<1>3. PICK m \in U : \A i \in U : ~(<<i, m>> \in R)
  <2>1. U \subseteq Nat
    OBVIOUS
  <2> HIDE DEF R, U
  <2> QED
    BY <1>2, <2>1, WFMin
<1>4. m \in 1..n /\ m \notin T /\ m - 1 \in 0..n
  OBVIOUS
<1>5. m - 1 \in U
  BY <1>4
<1>6. <<m - 1, m>> \in R
  BY <1>4
<1> QED
  BY <1>3, <1>5, <1>6

(* f walks n steps from a, by G. *)
Walk(f, n, a, G) == f = [i \in 0..n |-> IF i = 0 THEN a ELSE G[i][f[i - 1]]]

(* A walk of n steps through S from a can be taken. *)
LEMMA StepsThrough ==
    ASSUME NEW n \in Nat, NEW S, NEW a \in S, NEW G \in [1..n -> [S -> S]]
    PROVE  \E f \in [0..n -> S] : Walk(f, n, a, G)
<1> DEFINE Walks(m, f) == f[0] = a /\ \A i \in 1..m : f[i] = G[i][f[i - 1]]
           T == {m \in 0..n : \E f \in [0..n -> S] : Walks(m, f)}
<1>1. 0 \in T
  <2>1. PICK f : f = [i \in 0..n |-> a]
    OBVIOUS
  <2>2. f \in [0..n -> S] /\ f[0] = a /\ \A i \in 1..0 : f[i] = G[i][f[i - 1]]
    BY <2>1
  <2>3. \E h \in [0..n -> S] : Walks(0, h)
    BY <2>2
  <2> QED
    BY <2>3
<1>2. ASSUME NEW m \in 1..n, m - 1 \in T PROVE m \in T
  <2>1. PICK f \in [0..n -> S] : Walks(m - 1, f)
    BY <1>2
  <2> DEFINE g == [f EXCEPT ![m] = G[m][f[m - 1]]]
  <2>2. m \in 0..n /\ m - 1 \in 0..n /\ 0 \in 0..n /\ m # 0
    OBVIOUS
  <2>3. G[m][f[m - 1]] \in S
    BY <2>2
  <2>4. g \in [0..n -> S] /\ g[m] = G[m][f[m - 1]] /\ \A i \in 0..n : i # m => g[i] = f[i]
    BY <2>2, <2>3
  <2> HIDE DEF g
  <2>5. ASSUME NEW i \in 1..m PROVE g[i] = G[i][g[i - 1]]
    <3>1. i \in 0..n /\ i - 1 \in 0..n /\ i - 1 # m
      OBVIOUS
    <3>2. CASE i = m
      BY <2>4, <3>1, <3>2
    <3>3. CASE i # m
      <4>1. i \in 1..(m - 1)
        BY <3>3
      <4> QED
        BY <2>1, <2>4, <3>1, <3>3, <4>1
    <3> QED
      BY <3>2, <3>3
  <2>6. Walks(m, g)
    BY <2>1, <2>2, <2>4, <2>5
  <2> QED
    BY <2>2, <2>4, <2>6
<1>3. n \in T
  <2>1. n \in 0..n
    OBVIOUS
  <2> HIDE DEF T
  <2> QED
    BY <1>1, <1>2, <2>1, StepByStep
<1>4. PICK f \in [0..n -> S] : Walks(n, f)
  BY <1>3
<1>5. \A i \in 0..n : f[i] = IF i = 0 THEN a ELSE G[i][f[i - 1]]
  <2> TAKE i \in 0..n
  <2>1. i = 0 \/ i \in 1..n
    OBVIOUS
  <2> QED
    BY <1>4, <2>1
<1>6. f = [i \in 0..n |-> f[i]]
  OBVIOUS
<1>7. f = [i \in 0..n |-> IF i = 0 THEN a ELSE G[i][f[i - 1]]]
  BY <1>5, <1>6
<1> QED
  BY <1>7 DEF Walk

-----------------------------------------------------------------------------
(* The floor: one pass over the furniture. *)

Rects == [x : Nat, y : Nat, w : Nat, h : Nat]
Points == Int \X Int

(* p is on the floor with the disc of radius r around it. *)
OnFloor(p, r) == r <= p[1] /\ p[1] <= OfficeW - r /\ r <= p[2] /\ p[2] <= OfficeH - r

(* The disc's square may touch the rectangle, and does no more than that. *)
Touching(d, p, r) ==
    /\ d.x - r <= p[1] /\ p[1] <= d.x + d.w + r
    /\ d.y - r <= p[2] /\ p[2] <= d.y + d.h + r

(* A radius the gaps leave room for. *)
Fits(r) == r \in Nat /\ 2 * r <= MinGap

LEMMA RadiiFit ==
    /\ Fits(PlayerRadius) /\ Fits(BossRadius)
    /\ MinGap \in Nat /\ OfficeW \in Nat /\ OfficeH \in Nat
    /\ 2 * MinGap <= OfficeW /\ 2 * MinGap <= OfficeH
    /\ SpotClear \in Nat /\ PlayerRadius <= BossRadius /\ 1 <= BossRadius /\ 1 <= MinGap
<1>1. /\ PlayerRadius \in Nat /\ BossRadius \in Nat /\ MinGap \in Nat /\ SpotClear \in Nat
      /\ OfficeW \in Nat /\ OfficeH \in Nat
  BY FloorAssumption
<1>2. PlayerRadius <= BossRadius /\ BossRadius # 0 /\ 2 * BossRadius <= MinGap /\ 2 * MinGap <= OfficeW /\ 2 * MinGap <= OfficeH
  BY FloorAssumption
<1> QED
  BY <1>1, <1>2 DEF Fits

LEMMA RectIs ==
    ASSUME NEW d \in Rects
    PROVE  d.x \in Nat /\ d.y \in Nat /\ d.w \in Nat /\ d.h \in Nat
BY DEF Rects

LEMMA BetweenFacts ==
    ASSUME NEW v \in Int, NEW lo \in Int, NEW hi \in Int, lo <= hi
    PROVE  /\ Between(v, lo, hi) \in Int /\ lo <= Between(v, lo, hi) /\ Between(v, lo, hi) <= hi
           /\ lo <= v /\ v <= hi => Between(v, lo, hi) = v
BY DEF Between, Upper, Lower

(* A clamped body is on the floor, and one that is there is left alone. *)
LEMMA ClampFacts ==
    ASSUME NEW p \in Points, NEW r, Fits(r)
    PROVE  /\ ClampToFloor(p, r) \in Points /\ OnFloor(ClampToFloor(p, r), r)
           /\ OnFloor(p, r) => ClampToFloor(p, r) = p
<1>1. PICK x \in Int, y \in Int : p = <<x, y>>
  BY DEF Points
<1>2. r \in Nat /\ 2 * r <= OfficeW /\ 2 * r <= OfficeH /\ OfficeW \in Nat /\ OfficeH \in Nat
  BY RadiiFit DEF Fits
<1>3. p[1] = x /\ p[2] = y
  BY <1>1
<1> DEFINE a == OfficeW - r
           b == OfficeH - r
           u == Between(x, r, a)
           v == Between(y, r, b)
<1>4. r \in Int /\ a \in Int /\ b \in Int /\ r <= a /\ r <= b
  BY <1>2
<1> HIDE DEF a, b
<1>5. /\ u \in Int /\ r <= u /\ u <= a /\ (r <= x /\ x <= a => u = x)
      /\ v \in Int /\ r <= v /\ v <= b /\ (r <= y /\ y <= b => v = y)
  BY <1>4, BetweenFacts
<1>6. ClampToFloor(p, r) = <<u, v>>
  BY <1>3 DEF ClampToFloor, a, b
<1> HIDE DEF u, v
<1> QED
  BY <1>1, <1>3, <1>5, <1>6 DEF Points, OnFloor, a, b

(* Pushed out of a solid that stands off the walls, a body is against it,  *)
(* outside it, and still on the floor.                                     *)
LEMMA PushFacts ==
    ASSUME NEW d \in Rects, WallGap(d) >= MinGap, NEW p \in Points, NEW r, Fits(r), OnFloor(p, r)
    PROVE  /\ PushOut(d, p, r) \in Points /\ OnFloor(PushOut(d, p, r), r)
           /\ ~InsideRect(d, PushOut(d, p, r), r)
           /\ PushOut(d, p, r) = p \/ Touching(d, PushOut(d, p, r), r)
<1>1. PICK px \in Int, py \in Int : p = <<px, py>>
  BY DEF Points
<1>2. PICK x \in Nat, y \in Nat, w \in Nat, h \in Nat : x = d.x /\ y = d.y /\ w = d.w /\ h = d.h
  BY RectIs
<1>3. /\ r \in Nat /\ 2 * r <= MinGap /\ MinGap \in Nat /\ OfficeW \in Nat /\ OfficeH \in Nat
  BY RadiiFit DEF Fits
<1>4. MinGap <= x /\ MinGap <= y /\ MinGap <= OfficeW - (x + w) /\ MinGap <= OfficeH - (y + h)
  BY <1>2, <1>3 DEF WallGap, Lower
<1>5. p[1] = px /\ p[2] = py
  BY <1>1
<1>6. CASE ~InsideRect(d, p, r)
  <2>1. PushOut(d, p, r) = p
    BY <1>6 DEF PushOut
  <2> QED
    BY <1>6, <2>1
<1>7. CASE InsideRect(d, p, r)
  <2>1. x - r < px /\ px < x + w + r /\ y - r < py /\ py < y + h + r
    BY <1>2, <1>5, <1>7 DEF InsideRect
  <2>2. PICK q \in Points : /\ q = PushOut(d, p, r)
                            /\ q \in {<<x - r, py>>, <<x + w + r, py>>, <<px, y - r>>, <<px, y + h + r>>}
    <3>1. {<<x - r, py>>, <<x + w + r, py>>, <<px, y - r>>, <<px, y + h + r>>} \subseteq Points
      BY <1>3 DEF Points
    <3>2. PushOut(d, p, r) \in {<<x - r, py>>, <<x + w + r, py>>, <<px, y - r>>, <<px, y + h + r>>}
      BY <1>2, <1>5, <1>7 DEF PushOut
    <3> QED
      BY <3>1, <3>2
  <2>3. PICK qx \in Int, qy \in Int : /\ qx = q[1] /\ qy = q[2]
                                      /\ \/ qx = x - r /\ qy = py
                                         \/ qx = x + w + r /\ qy = py
                                         \/ qx = px /\ qy = y - r
                                         \/ qx = px /\ qy = y + h + r
    BY <1>3, <2>2
  <2>4. r <= px /\ px <= OfficeW - r /\ r <= py /\ py <= OfficeH - r
    BY <1>5 DEF OnFloor
  <2>5. /\ ~(x - r < qx /\ qx < x + w + r /\ y - r < qy /\ qy < y + h + r)
        /\ r <= qx /\ qx <= OfficeW - r /\ r <= qy /\ qy <= OfficeH - r
        /\ x - r <= qx /\ qx <= x + w + r /\ y - r <= qy /\ qy <= y + h + r
    BY <1>3, <1>4, <2>1, <2>3, <2>4
  <2>6. ~InsideRect(d, q, r) /\ OnFloor(q, r) /\ Touching(d, q, r)
    BY <1>2, <2>3, <2>5 DEF InsideRect, OnFloor, Touching
  <2> QED
    BY <2>2, <2>6
<1> QED
  BY <1>6, <1>7

(* What is against one solid is not in another. *)
LEMMA TouchingIsApart ==
    ASSUME NEW d \in Rects, NEW e \in Rects, SepAxis(d, e) >= MinGap \/ SepAxis(e, d) >= MinGap,
           NEW p \in Points, NEW r, Fits(r), Touching(d, p, r)
    PROVE  ~InsideRect(e, p, r)
<1>1. PICK px \in Int, py \in Int : px = p[1] /\ py = p[2]
  BY DEF Points
<1>2. PICK x \in Nat, y \in Nat, w \in Nat, h \in Nat : x = d.x /\ y = d.y /\ w = d.w /\ h = d.h
  BY RectIs
<1>3. PICK u \in Nat, v \in Nat, m \in Nat, n \in Nat : u = e.x /\ v = e.y /\ m = e.w /\ n = e.h
  BY RectIs
<1>4. r \in Nat /\ 2 * r <= MinGap /\ MinGap \in Nat /\ 1 <= MinGap
  BY RadiiFit DEF Fits
<1>5. \/ x - (u + m) >= MinGap \/ u - (x + w) >= MinGap
      \/ y - (v + n) >= MinGap \/ v - (y + h) >= MinGap
  BY <1>2, <1>3, <1>4 DEF SepAxis, GapX, GapY, Upper
<1>6. x - r <= px /\ px <= x + w + r /\ y - r <= py /\ py <= y + h + r
  BY <1>1, <1>2 DEF Touching
<1>7. ~(u - r < px /\ px < u + m + r /\ v - r < py /\ py < v + n + r)
  BY <1>4, <1>5, <1>6
<1> QED
  BY <1>1, <1>3, <1>7 DEF InsideRect

(* A layout whose furniture stands off the walls and apart. *)
GapsKept(l) ==
    /\ l \in Seq(Rects)
    /\ \A i \in 1..Len(l) : WallGap(l[i]) >= MinGap
    /\ \A i, j \in 1..Len(l) : i < j => SepAxis(l[i], l[j]) >= MinGap

(* What the chain of pushes is: a walk that starts at p. *)
LEMMA PushedOutIs ==
    ASSUME NEW l, GapsKept(l), NEW p \in Points, NEW r, Fits(r), OnFloor(p, r)
    PROVE  \E f : /\ PushedOut(l, p, r) = f[Len(l)] /\ f[0] = p
                  /\ \A i \in 1..Len(l) : f[i] = PushOut(l[i], f[i - 1], r)
<1> DEFINE n == Len(l)
           S == {q \in Points : OnFloor(q, r)}
           G == [i \in 1..n |-> [q \in S |-> PushOut(l[i], q, r)]]
           Solves(f) == f = [i \in 0..n |-> IF i = 0 THEN p ELSE PushOut(l[i], f[i - 1], r)]
           after == CHOOSE f : Solves(f)
<1>1. n \in Nat /\ \A i \in 1..n : l[i] \in Rects /\ WallGap(l[i]) >= MinGap
  BY DEF GapsKept
<1>2. G \in [1..n -> [S -> S]]
  <2> SUFFICES ASSUME NEW i \in 1..n, NEW q \in S PROVE PushOut(l[i], q, r) \in S
    OBVIOUS
  <2>1. l[i] \in Rects /\ WallGap(l[i]) >= MinGap /\ q \in Points /\ OnFloor(q, r)
    BY <1>1
  <2> QED
    BY <2>1, PushFacts
<1>3. p \in S
  OBVIOUS
<1>4. \A i \in 1..n, q \in S : G[i][q] = PushOut(l[i], q, r)
  OBVIOUS
<1> HIDE DEF G, S, n
<1>5. PICK f \in [0..n -> S] : Walk(f, n, p, G)
  BY <1>1, <1>2, <1>3, StepsThrough
<1>6. Solves(f)
  <2>1. \A i \in 0..n : i = 0 \/ (i \in 1..n /\ i - 1 \in 0..n)
    BY <1>1
  <2>2. \A i \in 0..n : f[i] = IF i = 0 THEN p ELSE PushOut(l[i], f[i - 1], r)
    BY <1>4, <1>5, <2>1 DEF Walk
  <2>3. f = [i \in 0..n |-> f[i]]
    OBVIOUS
  <2> QED
    BY <2>2, <2>3
<1>7. Solves(after)
  BY <1>6
<1>8. PushedOut(l, p, r) = after[n]
  BY DEF PushedOut, n
<1> HIDE DEF after
<1>9. \A i \in 0..n : after[i] = IF i = 0 THEN p ELSE PushOut(l[i], after[i - 1], r)
  BY <1>7
<1>10. 0 \in 0..n /\ \A i \in 1..n : i \in 0..n /\ i # 0
  BY <1>1
<1> QED
  BY <1>8, <1>9, <1>10 DEF n

(***************************************************************************)
(* "ONE PASS IS ENOUGH, and it is a layout rule that makes it so" (Step):  *)
(* whatever is resolved on a floor whose furniture keeps the gap is clear  *)
(* of all of it, for a body of any radius the gap has room for; the last   *)
(* push does not undo an earlier one.                                      *)
(***************************************************************************)
THEOREM OnePassIsEnough ==
    ASSUME NEW l, GapsKept(l), NEW p \in Points, NEW r, Fits(r)
    PROVE  Resolve(l, p, r) \in Points /\ Clear(l, Resolve(l, p, r), r)
<1> DEFINE n == Len(l)
<1>1. n \in Nat /\ \A i \in 1..n : l[i] \in Rects /\ WallGap(l[i]) >= MinGap
  BY DEF GapsKept
<1>2. PICK q : q = ClampToFloor(p, r)
  OBVIOUS
<1>3. q \in Points /\ OnFloor(q, r)
  BY <1>2, ClampFacts
<1>4. PICK f : /\ PushedOut(l, q, r) = f[n] /\ f[0] = q
               /\ \A i \in 1..n : f[i] = PushOut(l[i], f[i - 1], r)
  BY <1>3, PushedOutIs
<1> DEFINE Outside(i, at) == \A j \in 1..i : ~InsideRect(l[j], at, r)
           Against(i, at) == \E j \in 1..i : Touching(l[j], at, r) /\ \A k \in 1..n : ~InsideRect(l[k], at, r)
           T == {i \in 0..n : /\ f[i] \in Points /\ OnFloor(f[i], r)
                              /\ Outside(i, f[i])
                              /\ f[i] = q \/ Against(i, f[i])}
<1>5. 0 \in T
  <2>1. 0 \in 0..n /\ f[0] \in Points /\ OnFloor(f[0], r) /\ f[0] = q /\ Outside(0, f[0])
    BY <1>1, <1>3, <1>4
  <2> QED
    BY <2>1
<1>6. ASSUME NEW i \in 1..n, i - 1 \in T PROVE i \in T
  <2>1. PICK a, b : a = f[i - 1] /\ b = f[i]
    OBVIOUS
  <2>2. /\ a \in Points /\ OnFloor(a, r) /\ Outside(i - 1, a) /\ (a = q \/ Against(i - 1, a))
        /\ b = PushOut(l[i], a, r)
    BY <1>4, <1>6, <2>1
  <2>3. l[i] \in Rects /\ WallGap(l[i]) >= MinGap /\ i \in 0..n
    BY <1>1
  <2>4. b \in Points /\ OnFloor(b, r) /\ ~InsideRect(l[i], b, r) /\ (b = a \/ Touching(l[i], b, r))
    <3>1. PICK d : d = l[i]
      OBVIOUS
    <3>2. d \in Rects /\ WallGap(d) >= MinGap /\ a \in Points /\ OnFloor(a, r)
      BY <2>2, <2>3, <3>1
    <3>3. /\ PushOut(d, a, r) \in Points /\ OnFloor(PushOut(d, a, r), r)
          /\ ~InsideRect(d, PushOut(d, a, r), r)
          /\ PushOut(d, a, r) = a \/ Touching(d, PushOut(d, a, r), r)
      BY <3>2, PushFacts
    <3> QED
      BY <2>2, <3>1, <3>3
  <2>5. CASE b = a
    <3>1. \A j \in 1..i : j = i \/ j \in 1..(i - 1)
      OBVIOUS
    <3>2. Outside(i, b)
      BY <2>2, <2>4, <2>5, <3>1
    <3>3. \A j \in 1..(i - 1) : j \in 1..i
      OBVIOUS
    <3>4. b = q \/ Against(i, b)
      BY <2>2, <2>5, <3>3
    <3> QED
      BY <2>1, <2>3, <2>4, <3>2, <3>4
  <2>6. CASE Touching(l[i], b, r)
    <3>1. ASSUME NEW k \in 1..n PROVE ~InsideRect(l[k], b, r)
      <4>1. CASE k = i
        BY <2>4, <4>1
      <4>2. CASE k # i
        <5>1. i < k \/ k < i
          BY <1>1, <4>2
        <5>2. SepAxis(l[i], l[k]) >= MinGap \/ SepAxis(l[k], l[i]) >= MinGap
          BY <5>1 DEF GapsKept
        <5>3. l[k] \in Rects
          BY <1>1
        <5> QED
          BY <2>3, <2>4, <2>6, <5>2, <5>3, TouchingIsApart
      <4> QED
        BY <4>1, <4>2
    <3>2. Outside(i, b)
      <4>1. \A j \in 1..i : j \in 1..n
        BY <1>1
      <4> QED
        BY <3>1, <4>1
    <3>3. Against(i, b)
      <4>1. i \in 1..i
        OBVIOUS
      <4> QED
        BY <2>6, <3>1, <4>1
    <3> QED
      BY <2>1, <2>3, <2>4, <3>2, <3>3
  <2> QED
    BY <2>4, <2>5, <2>6
<1>7. n \in T
  <2>1. n \in 0..n
    BY <1>1
  <2> HIDE DEF T, n
  <2> QED
    BY <1>1, <1>5, <1>6, <2>1, StepByStep
<1>8. f[n] \in Points /\ OnFloor(f[n], r) /\ Outside(n, f[n])
  BY <1>7
<1>9. Resolve(l, p, r) = f[n]
  BY <1>2, <1>4 DEF Resolve
<1>10. ClampToFloor(f[n], r) = f[n]
  BY <1>8, ClampFacts
<1> QED
  BY <1>8, <1>9, <1>10 DEF Clear

-----------------------------------------------------------------------------
(* The generator. *)

(* And whose furniture leaves the fixed points room. *)
Playable ==
    {l \in Seq(Rects) : /\ GapsKept(l)
                        /\ \A at \in FixedPoints, i \in 1..Len(l) : PointGap2(l[i], at) >= Square(SpotClear)}

(* What is drawn is a rectangle. *)
LEMMA DrawnAreRects == DrawSolid \subseteq Rects
<1> SUFFICES ASSUME NEW d \in DrawSolid PROVE d \in Rects
  OBVIOUS
<1>1. PICK s \in Sides :
        d \in {[x |-> x, y |-> y, w |-> s[1], h |-> s[2]] :
                  x \in {v \in MinGap..(OfficeW - MinGap - s[1]) : (v - MinGap) % PlaceStep = 0},
                  y \in {v \in MinGap..(OfficeH - MinGap - s[2]) : (v - MinGap) % PlaceStep = 0}}
  BY DEF DrawSolid
<1>2. PICK x \in MinGap..(OfficeW - MinGap - s[1]), y \in MinGap..(OfficeH - MinGap - s[2]) :
        d = [x |-> x, y |-> y, w |-> s[1], h |-> s[2]]
  BY <1>1
<1>3. s[1] \in Nat /\ s[2] \in Nat
  BY FloorAssumption
<1>4. x \in Nat /\ y \in Nat
  <2>1. x \in Int /\ MinGap <= x /\ y \in Int /\ MinGap <= y /\ MinGap \in Nat
    BY RadiiFit
  <2> QED
    BY <2>1
<1> QED
  BY <1>2, <1>3, <1>4 DEF Rects

(* A wish that is granted keeps the gaps. *)
LEMMA PlaceKeeps ==
    ASSUME NEW l \in Playable, NEW spawn, NEW m \in Place(l, spawn)
    PROVE  m \in Playable
<1>1. CASE m = l
  BY <1>1
<1>2. CASE m # l
  <2>1. PICK d \in DrawSolid : RoomFor(l, d) /\ m = Append(l, d)
    BY <1>2 DEF Place
  <2>2. d \in Rects /\ l \in Seq(Rects)
    BY DrawnAreRects DEF Playable
  <2>3. /\ m \in Seq(Rects) /\ Len(l) \in Nat /\ Len(m) = Len(l) + 1 /\ m[Len(l) + 1] = d
        /\ \A i \in 1..Len(l) : m[i] = l[i]
    BY <2>1, <2>2
  <2>4. \A i \in 1..Len(m) : i = Len(l) + 1 \/ i \in 1..Len(l)
    BY <2>3
  <2>5. /\ WallGap(d) >= MinGap
        /\ \A i \in 1..Len(l) : SepAxis(l[i], d) >= MinGap
        /\ \A at \in FixedPoints : PointGap2(d, at) >= Square(SpotClear)
    BY <2>1 DEF RoomFor
  <2>6. /\ \A i \in 1..Len(l) : WallGap(l[i]) >= MinGap
        /\ \A i, j \in 1..Len(l) : i < j => SepAxis(l[i], l[j]) >= MinGap
        /\ \A at \in FixedPoints, i \in 1..Len(l) : PointGap2(l[i], at) >= Square(SpotClear)
    BY DEF Playable, GapsKept
  <2>7. \A i \in 1..Len(m) : WallGap(m[i]) >= MinGap
    BY <2>3, <2>4, <2>5, <2>6
  <2>8. ASSUME NEW i \in 1..Len(m), NEW j \in 1..Len(m), i < j
        PROVE  SepAxis(m[i], m[j]) >= MinGap
    <3>1. i \in 1..Len(l)
      BY <2>3, <2>8
    <3>2. CASE j = Len(l) + 1
      BY <2>3, <2>5, <3>1, <3>2
    <3>3. CASE j \in 1..Len(l)
      BY <2>3, <2>6, <2>8, <3>1, <3>3
    <3> QED
      BY <2>4, <3>2, <3>3
  <2>9. \A at \in FixedPoints, i \in 1..Len(m) : PointGap2(m[i], at) >= Square(SpotClear)
    BY <2>3, <2>4, <2>5, <2>6
  <2> QED
    BY <2>3, <2>7, <2>8, <2>9 DEF Playable, GapsKept
<1> QED
  BY <1>1, <1>2

(* What one wish makes of the layouts there are. *)
Granted(L) == UNION {Place(l, BossSpawn) : l \in L}

LEMMA GrantedKeeps == \A L \in SUBSET Playable : Granted(L) \in SUBSET Playable
BY PlaceKeeps DEF Granted

(***************************************************************************)
(* Every office that is generated keeps the gaps that make one pass enough *)
(* and leaves the fixed points their room (place, RoomFor), wherever the   *)
(* dice put its furniture.                                                 *)
(***************************************************************************)
THEOREM OfficesArePlayable == Layouts \subseteq Playable
<1> DEFINE n == Wishes
           S == SUBSET Playable
           G == [w \in 1..n |-> [L \in S |-> Granted(L)]]
           Solves(f) == f = [w \in 0..n |-> IF w = 0 THEN {<<>>}
                                            ELSE Granted(f[w - 1])]
           placed == CHOOSE f : Solves(f)
<1>1. n \in Nat
  BY FloorAssumption
<1>2. G \in [1..n -> [S -> S]]
  <2> SUFFICES ASSUME NEW L \in S PROVE Granted(L) \in S
    OBVIOUS
  <2> QED
    BY GrantedKeeps
<1>3. {<<>>} \in S
  <2>1. <<>> \in Seq(Rects) /\ Len(<<>>) = 0
    OBVIOUS
  <2> QED
    BY <2>1 DEF Playable, GapsKept
<1>4. \A w \in 1..n, L \in S : G[w][L] = Granted(L)
  OBVIOUS
<1> HIDE DEF G, S, n
<1>5. PICK f \in [0..n -> S] : Walk(f, n, {<<>>}, G)
  BY <1>1, <1>2, <1>3, StepsThrough
<1>6. Solves(f)
  <2>1. \A i \in 0..n : i = 0 \/ (i \in 1..n /\ i - 1 \in 0..n)
    BY <1>1
  <2>2. \A i \in 0..n : f[i] = IF i = 0 THEN {<<>>} ELSE Granted(f[i - 1])
    BY <1>4, <1>5, <2>1 DEF Walk
  <2>3. f = [i \in 0..n |-> f[i]]
    OBVIOUS
  <2> QED
    BY <2>2, <2>3 DEF n
<1>7. Solves(placed)
  BY <1>6
<1>8. Layouts = {l \in placed[n] : Len(l) >= MinSolids}
  BY DEF Layouts, Generate, Granted, n
<1> HIDE DEF placed
<1>9. \A i \in 0..n : placed[i] = IF i = 0 THEN {<<>>}
                                  ELSE Granted(placed[i - 1])
  BY <1>7 DEF n
<1> DEFINE T == {i \in 0..n : placed[i] \in S}
<1>10. 0 \in T
  <2>1. 0 \in 0..n
    BY <1>1
  <2>2. placed[0] = {<<>>}
    BY <1>9, <2>1
  <2> QED
    BY <1>3, <2>1, <2>2
<1>11. ASSUME NEW i \in 1..n, i - 1 \in T PROVE i \in T
  <2>1. i \in 0..n /\ i # 0 /\ placed[i - 1] \in S
    BY <1>1, <1>11
  <2>2. placed[i] = Granted(placed[i - 1])
    BY <1>9, <2>1
  <2>3. placed[i] \in S
    BY <2>1, <2>2, GrantedKeeps DEF S
  <2> QED
    BY <2>1, <2>3
<1>12. n \in T
  <2>1. n \in 0..n
    BY <1>1
  <2> HIDE DEF T
  <2> QED
    BY <1>1, <1>10, <1>11, <2>1, StepByStep
<1> QED
  BY <1>8, <1>12 DEF S

(* A disc that stands on a fixed point is clear of all furniture. *)
LEMMA SpotIsClear ==
    ASSUME NEW l \in Playable, NEW at \in FixedPoints, NEW r \in {PlayerRadius, BossRadius},
           ClampToFloor(at, BossRadius) = at
    PROVE  at \in Points /\ Clear(l, at, r)
<1>1. at \in Points
  BY FloorAssumption DEF Points
<1>2. Fits(r) /\ r \in Nat /\ r <= BossRadius /\ BossRadius \in Nat /\ 1 <= BossRadius /\ SpotClear \in Nat
  BY RadiiFit DEF Fits
<1>3. ASSUME NEW i \in 1..Len(l), InsideRect(l[i], at, r) PROVE FALSE
  <2>1. l[i] \in Rects /\ PointGap2(l[i], at) >= Square(SpotClear)
    BY DEF Playable
  <2>2. PICK x \in Nat, y \in Nat, w \in Nat, h \in Nat :
           x = l[i].x /\ y = l[i].y /\ w = l[i].w /\ h = l[i].h
    BY <2>1, RectIs
  <2>3. PICK px \in Int, py \in Int : px = at[1] /\ py = at[2]
    BY <1>1 DEF Points
  <2>4. x - r < px /\ px < x + w + r /\ y - r < py /\ py < y + h + r
    BY <1>3, <2>2, <2>3 DEF InsideRect
  <2> DEFINE p == [x |-> at[1], y |-> at[2], w |-> 0, h |-> 0]
  <2>5. p.x = px /\ p.y = py /\ p.w = 0 /\ p.h = 0
    BY <2>3
  <2>6. PointGap2(l[i], at) = Square(GapX(l[i], p)) + Square(GapY(l[i], p))
    BY DEF PointGap2
  <2> HIDE DEF p
  <2>7. /\ GapX(l[i], p) \in 0..(BossRadius - 1)
        /\ GapY(l[i], p) \in 0..(BossRadius - 1)
    <3>1. /\ GapX(l[i], p) = Upper(0, Upper(px - (x + w), x - px))
          /\ GapY(l[i], p) = Upper(0, Upper(py - (y + h), y - py))
      BY <2>2, <2>5 DEF GapX, GapY
    <3>2. /\ px - (x + w) <= BossRadius - 1 /\ x - px <= BossRadius - 1
          /\ py - (y + h) <= BossRadius - 1 /\ y - py <= BossRadius - 1
      BY <1>2, <2>4
    <3> QED
      BY <1>2, <3>1, <3>2 DEF Upper
  <2>8. PICK a \in Nat, b \in Nat, m \in Nat : /\ a = GapX(l[i], p) /\ b = GapY(l[i], p) /\ m = BossRadius - 1
                                               /\ a <= m /\ b <= m
    BY <1>2, <2>7
  <2>9. a * a <= m * m /\ b * b <= m * m
    BY <2>8
  <2>10. 2 * (m * m) < SpotClear * SpotClear
    BY <2>8, OfficeAssumption DEF Square
  <2>11. a * a + b * b >= SpotClear * SpotClear
    BY <2>1, <2>6, <2>8 DEF Square
  <2>12. a * a \in Nat /\ b * b \in Nat /\ m * m \in Nat /\ SpotClear * SpotClear \in Nat
    BY <1>2
  <2> QED
    BY <2>9, <2>10, <2>11, <2>12
<1>4. ClampToFloor(at, r) = at
  <2>1. OnFloor(at, BossRadius)
    BY <1>1, ClampFacts, RadiiFit
  <2>2. OnFloor(at, r)
    <3>1. PICK px \in Int, py \in Int : px = at[1] /\ py = at[2]
      BY <1>1 DEF Points
    <3> QED
      BY <1>2, <2>1, <3>1, RadiiFit DEF OnFloor
  <2> QED
    BY <1>1, <1>2, <2>2, ClampFacts
<1> QED
  BY <1>1, <1>3, <1>4 DEF Clear

-----------------------------------------------------------------------------
(* Where the bodies go. *)

(* A set of naturals with anything in it has a least one. *)
LEMMA LeastIs ==
    ASSUME NEW S \in SUBSET Nat, S # {}
    PROVE  Least(S) \in S /\ \A b \in S : Least(S) <= b
<1> DEFINE R == {ss \in Nat \X Nat : ss[1] < ss[2]}
<1>1. R = OpToRel(<, Nat)
  BY DEF OpToRel
<1>2. IsWellFoundedOn(R, Nat)
  BY <1>1, NatLessThanWellFounded
<1>3. PICK m \in S : \A i \in S : ~(<<i, m>> \in R)
  <2> HIDE DEF R
  <2> QED
    BY <1>2, WFMin
<1>4. m \in S /\ \A b \in S : m <= b
  <2> SUFFICES ASSUME NEW b \in S PROVE m <= b
    BY <1>3
  <2>1. ~(<<b, m>> \in R) /\ b \in Nat /\ m \in Nat
    BY <1>3
  <2> QED
    BY <2>1
<1> QED
  BY <1>4 DEF Least

LEMMA SquareIs == \A v \in Int : Square(v) \in Nat
BY DEF Square

LEMMA HypotIs == \A p, q \in Points : Hypot2(p, q) \in Nat
<1> SUFFICES ASSUME NEW p \in Points, NEW q \in Points PROVE Hypot2(p, q) \in Nat
  OBVIOUS
<1>1. PICK a \in Int, b \in Int : a = p[1] - q[1] /\ b = p[2] - q[2]
  BY DEF Points
<1>2. Square(a) \in Nat /\ Square(b) \in Nat
  BY SquareIs
<1> QED
  BY <1>1, <1>2 DEF Hypot2

(* The layouts in the terms of the lemmas. *)
LEMMA LayoutIs ==
    ASSUME NEW l \in Layouts
    PROVE  l \in Playable /\ GapsKept(l)
BY OfficesArePlayable DEF Playable

LEMMA WaysAre == Ways \subseteq Points /\ Still \in Points
<1>1. ASSUME NEW w \in Ways PROVE w \in Points
  <2>1. DOMAIN FourWays = 1..4
    BY DEF FourWays
  <2>2. PICK i \in 1..4 : w = FourWays[i]
    BY <2>1 DEF Ways, ToSet
  <2>3. i = 1 \/ i = 2 \/ i = 3 \/ i = 4
    OBVIOUS
  <2> QED
    BY <2>2, <2>3 DEF FourWays, Points
<1>2. Still \in Points
  BY DEF Still, Points
<1> QED
  BY <1>1, <1>2

LEMMA WalkedIs ==
    ASSUME plan \in Layouts, NEW p \in Points, NEW way \in Ways \cup {Still}, NEW step \in Nat
    PROVE  Walked(p, way, step) \in Points /\ Clear(plan, Walked(p, way, step), PlayerRadius)
<1>1. PICK q : q = <<p[1] + way[1] * step, p[2] + way[2] * step>>
  OBVIOUS
<1>2. way \in Points
  BY WaysAre
<1>3. q \in Points
  <2>1. PICK a \in Int, b \in Int : a = way[1] /\ b = way[2]
    BY <1>2 DEF Points
  <2>2. a * step \in Int /\ b * step \in Int
    OBVIOUS
  <2>3. PICK c \in Int, d \in Int : c = a * step /\ d = b * step
    BY <2>2
  <2>4. q = <<p[1] + c, p[2] + d>>
    BY <1>1, <2>1, <2>3
  <2> QED
    BY <2>4 DEF Points
<1>4. GapsKept(plan) /\ Fits(PlayerRadius)
  BY LayoutIs, RadiiFit
<1>5. Walked(p, way, step) = Resolve(plan, q, PlayerRadius)
  BY <1>1 DEF Walked
<1> QED
  BY <1>3, <1>4, <1>5, OnePassIsEnough

LEMMA NearestIs ==
    ASSUME NEW targets \in SUBSET Nat, targets # {}, NEW at, \A a \in targets : at[a] \in Points,
           NEW p \in Points
    PROVE  NearestOf(p, at, targets) \in Points
<1> DEFINE D == {Hypot2(at[a], p) : a \in targets}
           M == {a \in targets : \A b \in targets : Hypot2(at[a], p) <= Hypot2(at[b], p)}
<1>1. D \in SUBSET Nat /\ D # {}
  BY HypotIs
<1>2. PICK d \in D : \A e \in D : d <= e
  <2> HIDE DEF D
  <2> QED
    BY <1>1, LeastIs
<1>3. PICK a \in targets : d = Hypot2(at[a], p)
  OBVIOUS
<1>4. a \in M
  BY <1>2, <1>3
<1>5. M \in SUBSET Nat /\ M # {} /\ M \subseteq targets
  BY <1>4
<1>6. NearestOf(p, at, targets) = at[Least(M)]
  BY DEF NearestOf
<1> HIDE DEF M
<1>7. Least(M) \in targets
  BY <1>5, LeastIs
<1> QED
  BY <1>6, <1>7

LEMMA NavCellIs == \A p \in Points : NavCellOf(p) \in Points
<1> SUFFICES ASSUME NEW p \in Points PROVE NavCellOf(p) \in Points
  OBVIOUS
<1>1. NavCell \in Nat /\ NavCell # 0 /\ OfficeW \in Nat /\ OfficeH \in Nat
  BY FloorAssumption
<1>2. PICK x \in Int, y \in Int, n \in Nat : x = p[1] /\ y = p[2] /\ n = NavCell /\ n > 0
  BY <1>1 DEF Points
<1>3. x \div n \in Int /\ y \div n \in Int /\ OfficeW \div n \in Int /\ OfficeH \div n \in Int
  BY <1>1, <1>2
<1>4. PICK a \in Int, b \in Int, c \in Int, d \in Int :
        a = x \div n /\ b = y \div n /\ c = (OfficeW \div n) - 1 /\ d = (OfficeH \div n) - 1
  BY <1>3
<1>5. NavCellOf(p) = <<Between(a, 0, c), Between(b, 0, d)>>
  BY <1>2, <1>4 DEF NavCellOf
<1>6. Between(a, 0, c) \in Int /\ Between(b, 0, d) \in Int
  BY <1>4 DEF Between, Upper, Lower
<1> QED
  BY <1>5, <1>6 DEF Points

LEMMA NavAimIs ==
    ASSUME NEW from \in Points, NEW to \in Points
    PROVE  NavAimAt(from, to) \in Points
<1> DEFINE field == Fields[<<plan, NavCellOf(to)>>]
           hereAt == NavCellOf(from)
           ways == {i \in 1..4 : /\ Beside(hereAt, FourWays[i]) \in DOMAIN field
                                 /\ field[Beside(hereAt, FourWays[i])] < field[hereAt]}
           centre == NavCentre(Beside(hereAt, FourWays[Least(ways)]))
<1>1. NavAimAt(from, to) = to \/ (ways # {} /\ NavAimAt(from, to) = centre)
  BY DEF NavAimAt
<1>2. ASSUME ways # {} PROVE centre \in Points
  <2>1. ways \in SUBSET Nat
    OBVIOUS
  <2>2. Least(ways) \in ways
    <3> HIDE DEF ways
    <3> QED
      BY <1>2, <2>1, LeastIs
  <2>3. PICK i \in 1..4 : i = Least(ways)
    BY <2>2
  <2>4. FourWays[i] \in Points
    <3>1. i = 1 \/ i = 2 \/ i = 3 \/ i = 4
      OBVIOUS
    <3> QED
      BY <3>1 DEF FourWays, Points
  <2>5. hereAt \in Points
    BY NavCellIs
  <2>6. PICK c \in Points : c = Beside(hereAt, FourWays[i])
    <3>1. PICK w \in Points, q \in Points : w = FourWays[i] /\ q = hereAt
      BY <2>4, <2>5
    <3>2. Beside(q, w) \in Points
      BY DEF Beside, Points
    <3> QED
      BY <3>1, <3>2
  <2>7. centre = NavCentre(c)
    BY <2>3, <2>6
  <2>8. NavCell \in Nat /\ NavCell \div 2 \in Int
    BY FloorAssumption
  <2>9. PICK x \in Int, y \in Int, h \in Int : x = c[1] /\ y = c[2] /\ h = NavCell \div 2
    BY <2>8 DEF Points
  <2>10. x * NavCell \in Int /\ y * NavCell \in Int
    BY <2>8
  <2>11. x * NavCell + h \in Int /\ y * NavCell + h \in Int
    BY <2>10
  <2>12. NavCentre(c) = <<x * NavCell + h, y * NavCell + h>>
    BY <2>9 DEF NavCentre
  <2> QED
    BY <2>7, <2>11, <2>12 DEF Points
<1> QED
  BY <1>1, <1>2

LEMMA PartIs ==
    ASSUME NEW v \in Int, NEW d, NEW step \in Nat
    PROVE  Part(v, d, step) \in Int
<1> DEFINE ks == {k \in 1..step : Square(2 * k - 1) * d <= 4 * Square(step) * Square(v)}
<1>1. IsFiniteSet(1..step)
  BY FS_Interval
<1>2. ks \subseteq 1..step
  OBVIOUS
<1>3. Part(v, d, step) = IF v < 0 THEN -Cardinality(ks) ELSE Cardinality(ks)
  BY DEF Part
<1> HIDE DEF ks
<1>4. Cardinality(ks) \in Nat
  BY <1>1, <1>2, FS_Subset, FS_CardinalityType
<1> QED
  BY <1>3, <1>4

LEMMA TowardIs ==
    ASSUME NEW p \in Points, NEW head \in Points, NEW step \in Nat, NEW sway \in {-1, 0, 1}
    PROVE  Toward(p, head, step, sway) \in Points
<1> DEFINE turn(u, v) == IF sway = 0 THEN u ELSE (9 * u - 18 * sway * v) \div 20
<1>1. PICK x \in Int, y \in Int, dx \in Int, dy \in Int :
        x = p[1] /\ y = p[2] /\ dx = head[1] - p[1] /\ dy = head[2] - p[2]
  BY DEF Points
<1>2. turn(dx, dy) \in Int /\ turn(dy, -dx) \in Int
  <2>1. sway = -1 \/ sway = 0 \/ sway = 1
    OBVIOUS
  <2>2. CASE sway = 0
    BY <2>2
  <2>3. CASE sway = 1
    BY <2>3
  <2>4. CASE sway = -1
    BY <2>4
  <2> QED
    BY <2>1, <2>2, <2>3, <2>4
<1>3. PICK d : d = Hypot2(p, head)
  OBVIOUS
<1>4. \/ Toward(p, head, step, sway) = head
      \/ Toward(p, head, step, sway) = <<x + Part(turn(dx, dy), d, step), y + Part(turn(dy, -dx), d, step)>>
  BY <1>1, <1>3 DEF Toward
<1> HIDE DEF turn
<1>5. Part(turn(dx, dy), d, step) \in Int /\ Part(turn(dy, -dx), d, step) \in Int
  BY <1>2, PartIs
<1> QED
  BY <1>4, <1>5 DEF Points

(* Numbers the office is given. *)
LEMMA NumbersAre ==
    /\ SlowStep \in Nat /\ DrunkStep \in Nat /\ WalkStep \in Nat /\ BossStep \in Nat
    /\ SpawnTries \in Nat /\ Staff \subseteq Nat /\ None \notin Staff
    /\ BossSpawn \in Points /\ ChaserSpawn \in Points /\ PlayerSpawn \in Points
BY OfficeAssumption, FloorAssumption DEF Points, None

LEMMA DownIs == \A n \in Nat : Down(n) \in Nat /\ Down(n) <= n
BY DEF Down, Upper

(* Where the bald man can be after a step, and how drunk. *)
LEMMA StepBossIs ==
    ASSUME plan \in Layouts, NEW b, b.pos \in Points, b.drunk \in Nat,
           NEW targets \in SUBSET Nat, NEW at, \A a \in targets : at[a] \in Points,
           NEW nb \in StepBoss(b, at, targets)
    PROVE  /\ nb = [pos |-> nb.pos, drunk |-> Down(b.drunk)]
           /\ nb.pos \in Points /\ Clear(plan, nb.pos, BossRadius)
<1>1. PICK aim : aim = IF targets = {} THEN BossSpawn ELSE NearestOf(b.pos, at, targets)
  OBVIOUS
<1>2. aim \in Points
  BY <1>1, NearestIs, NumbersAre
<1>3. PICK step : step = IF b.drunk > 0 THEN DrunkStep ELSE BossStep
  OBVIOUS
<1>4. step \in Nat
  BY <1>3, NumbersAre
<1>5. PICK sway \in {-1, 0, 1} :
        nb = [pos |-> Resolve(plan, Toward(b.pos, NavAimAt(b.pos, aim), step, sway), BossRadius),
              drunk |-> Down(b.drunk)]
  BY <1>1, <1>3 DEF StepBoss
<1>6. PICK h \in Points : h = NavAimAt(b.pos, aim)
  BY <1>2, NavAimIs
<1>7. PICK t \in Points : t = Toward(b.pos, h, step, sway)
  BY <1>4, TowardIs
<1>8. Resolve(plan, t, BossRadius) \in Points /\ Clear(plan, Resolve(plan, t, BossRadius), BossRadius)
  BY LayoutIs, RadiiFit, OnePassIsEnough
<1>9. nb = [pos |-> Resolve(plan, t, BossRadius), drunk |-> Down(b.drunk)]
  BY <1>5, <1>6, <1>7
<1> QED
  BY <1>8, <1>9

LEMMA StepChaserIs ==
    ASSUME plan \in Layouts, NEW p \in Points,
           NEW targets \in SUBSET Nat, NEW at, \A a \in targets : at[a] \in Points
    PROVE  StepChaser(p, at, targets) \in Points
<1>1. CASE targets = {}
  BY <1>1 DEF StepChaser
<1>2. CASE targets # {}
  <2>1. PICK aim \in Points : aim = NearestOf(p, at, targets)
    BY <1>2, NearestIs
  <2>2. PICK h \in Points : h = NavAimAt(p, aim)
    BY NavAimIs
  <2>3. PICK sway \in {-1, 0, 1} : sway = 0
    OBVIOUS
  <2>4. PICK t \in Points : t = Toward(p, h, BossStep, sway)
    BY NumbersAre, TowardIs
  <2>5. Resolve(plan, t, BossRadius) \in Points
    BY LayoutIs, RadiiFit, OnePassIsEnough
  <2> QED
    BY <1>2, <2>1, <2>2, <2>3, <2>4, <2>5 DEF StepChaser
<1> QED
  BY <1>1, <1>2

LEMMA YieldIs ==
    ASSUME NEW p \in Points, NEW other \in Points, NEW gap \in Nat
    PROVE  YieldFrom(p, other, gap) \in Points
<1>1. PICK d : d = Hypot2(p, other)
  OBVIOUS
<1>2. PICK x \in Int, y \in Int, u \in Int, v \in Int :
        x = other[1] /\ y = other[2] /\ u = p[1] - other[1] /\ v = p[2] - other[2]
  BY DEF Points
<1>3. d \in Nat
  BY <1>1, HypotIs
<1>4. Square(gap) \in Nat
  BY SquareIs
<1>5. YieldFrom(p, other, gap) \in {p, <<x + gap, y>>, <<x + Part(u, d, gap), y + Part(v, d, gap)>>}
  BY <1>1, <1>2, <1>3, <1>4 DEF YieldFrom
<1>6. Part(u, d, gap) \in Int /\ Part(v, d, gap) \in Int
  BY PartIs
<1> QED
  BY <1>5, <1>6 DEF Points

(* Claude's giving way is a walk over all of them, the least first; where it ends he is put clear. *)
LEMMA SeparateIs ==
    ASSUME plan \in Layouts, NEW p \in Points, NEW bossPos \in Points, NEW D \in SUBSET Nat, IsFiniteSet(D),
           NEW at, DOMAIN at = D, \A a \in D : at[a] \in Points
    PROVE  /\ Separate(p, bossPos, at) \in Points
           /\ Clear(plan, Separate(p, bossPos, at), BossRadius)
<1> DEFINE n == Cardinality(D)
           gap == PlayerRadius + BossRadius
           S == [pos : Points, others : SUBSET D]
           start == [pos |-> YieldFrom(p, bossPos, 2 * BossRadius), others |-> D]
           Given(s) == LET a == Least(s.others)
                       IN  [pos |-> YieldFrom(s.pos, at[a], gap), others |-> s.others \ {a}]
           H == [s \in S |-> IF s.others = {} THEN s ELSE Given(s)]
           G == [i \in 1..n |-> H]
           Solves(f) == f = [i \in 0..n |-> IF i = 0 THEN start ELSE Given(f[i - 1])]
           after == CHOOSE f : Solves(f)
<1>1. n \in Nat
  BY FS_CardinalityType
<1>2. gap \in Nat /\ 2 * BossRadius \in Nat
  BY RadiiFit DEF Fits
<1>3. start \in S
  <2>1. YieldFrom(p, bossPos, 2 * BossRadius) \in Points
    BY <1>2, YieldIs
  <2> QED
    BY <2>1
<1> HIDE DEF start
<1>4. ASSUME NEW s \in S, s.others # {}
      PROVE  /\ Given(s) \in S /\ Least(s.others) \in s.others
             /\ Given(s).others = s.others \ {Least(s.others)}
  <2>1. PICK o : o = s.others
    OBVIOUS
  <2>2. o \in SUBSET D /\ o # {} /\ s.pos \in Points /\ o \in SUBSET Nat
    BY <1>4, <2>1
  <2>3. PICK a \in o : a = Least(o)
    BY <2>2, LeastIs
  <2>4. PICK q \in Points : q = at[a]
    BY <2>2
  <2>5. PICK t \in Points : t = s.pos
    BY <2>2
  <2>6. YieldFrom(t, q, gap) \in Points
    <3> HIDE DEF gap
    <3> QED
      BY <1>2, YieldIs
  <2>7. Given(s) = [pos |-> YieldFrom(t, q, gap), others |-> o \ {a}]
    BY <2>1, <2>3, <2>4, <2>5
  <2> HIDE DEF Given, gap
  <2> QED
    BY <2>1, <2>2, <2>3, <2>6, <2>7
<1> HIDE DEF Given, gap
<1>5. H \in [S -> S] /\ \A s \in S : H[s] = IF s.others = {} THEN s ELSE Given(s)
  <2> SUFFICES ASSUME NEW s \in S PROVE (IF s.others = {} THEN s ELSE Given(s)) \in S
    OBVIOUS
  <2> HIDE DEF S
  <2> QED
    BY <1>4
<1> HIDE DEF H, S, n
<1>6. G \in [1..n -> [S -> S]] /\ \A i \in 1..n : G[i] = H
  BY <1>5
<1> HIDE DEF G
<1>7. PICK f \in [0..n -> S] : Walk(f, n, start, G)
  BY <1>1, <1>3, <1>6, StepsThrough
<1>8. /\ f[0] = start /\ \A i \in 1..n : f[i] = H[f[i - 1]]
      /\ \A i \in 0..n : f[i] \in S
  <2>1. 0 \in 0..n /\ \A i \in 1..n : i # 0 /\ i \in 0..n
    BY <1>1
  <2>2. \A i \in 0..n : f[i] = IF i = 0 THEN start ELSE G[i][f[i - 1]]
    BY <1>7 DEF Walk
  <2> QED
    BY <1>6, <2>1, <2>2
<1> DEFINE T == {i \in 0..n : Cardinality(f[i].others) = n - i}
<1>9. \A i \in 0..n : f[i].others \in SUBSET D /\ IsFiniteSet(f[i].others)
  BY <1>8, FS_Subset DEF S
<1>10. ASSUME NEW i \in 1..n, i - 1 \in T PROVE f[i - 1].others # {} /\ i \in T
  <2>1. i - 1 \in 0..n /\ i \in 0..n
    BY <1>1
  <2>2. PICK s \in S : s = f[i - 1]
    BY <1>8, <2>1
  <2>3. Cardinality(s.others) = n - (i - 1) /\ IsFiniteSet(s.others)
    BY <1>9, <1>10, <2>1, <2>2
  <2>4. s.others # {}
    <3>1. n - (i - 1) # 0
      BY <1>1
    <3> QED
      BY <2>3, <3>1, FS_EmptySet
  <2>5. f[i] = Given(s) /\ Least(s.others) \in s.others /\ f[i].others = s.others \ {Least(s.others)}
    BY <1>4, <1>5, <1>8, <2>2, <2>4
  <2>6. PICK o, a : o = s.others /\ a = Least(s.others)
    OBVIOUS
  <2>7. Cardinality(o \ {a}) = Cardinality(o) - 1
    BY <2>3, <2>5, <2>6, FS_RemoveElement, ZenonT(60)
  <2>8. Cardinality(f[i].others) = n - i
    BY <1>1, <2>3, <2>5, <2>6, <2>7
  <2> QED
    BY <2>1, <2>2, <2>4, <2>8
<1>11. 0 \in T
  <2>1. f[0].others = D /\ 0 \in 0..n /\ n - 0 = n
    BY <1>1, <1>8 DEF start
  <2> QED
    BY <2>1 DEF n
<1>12. \A i \in 0..n : i \in T
  <2>1. \A i \in 1..n : i - 1 \in T => i \in T
    BY <1>10
  <2> HIDE DEF T
  <2> QED
    BY <1>1, <1>11, <2>1, StepByStep
<1>13. Solves(f)
  <2>1. ASSUME NEW i \in 0..n PROVE f[i] = IF i = 0 THEN start ELSE Given(f[i - 1])
    <3>1. CASE i = 0
      BY <1>8, <3>1
    <3>2. CASE i # 0
      <4>1. i \in 1..n /\ i - 1 \in 0..n
        BY <1>1, <3>2
      <4>2. f[i - 1].others # {}
        BY <1>10, <1>12, <4>1
      <4>3. PICK s \in S : s = f[i - 1]
        BY <1>8, <4>1
      <4>4. H[s] = Given(s)
        BY <1>5, <4>2, <4>3
      <4> QED
        BY <1>8, <3>2, <4>1, <4>3, <4>4
    <3> QED
      BY <3>1, <3>2
  <2>2. f = [i \in 0..n |-> f[i]]
    OBVIOUS
  <2> QED
    BY <2>1, <2>2
<1>14. Solves(after)
  BY <1>13
<1>15. Separate(p, bossPos, at) = Resolve(plan, after[n].pos, BossRadius)
  BY DEF Separate, Given, n, start, gap
<1> HIDE DEF after
<1> DEFINE U == {i \in 0..n : after[i] = f[i]}
<1>16. \A i \in 0..n : after[i] = IF i = 0 THEN start ELSE Given(after[i - 1])
  BY <1>14
<1>17. 0 \in U
  <2>1. 0 \in 0..n
    BY <1>1
  <2> QED
    BY <1>8, <1>16, <2>1
<1>18. \A i \in 1..n : i - 1 \in U => i \in U
  <2> SUFFICES ASSUME NEW i \in 1..n, i - 1 \in U PROVE i \in U
    OBVIOUS
  <2>1. i \in 0..n /\ i # 0
    BY <1>1
  <2>2. after[i] = Given(after[i - 1]) /\ f[i] = Given(f[i - 1])
    BY <1>13, <1>16, <2>1
  <2>3. after[i - 1] = f[i - 1]
    OBVIOUS
  <2> QED
    BY <2>1, <2>2, <2>3
<1>19. after[n] = f[n]
  <2>1. n \in 0..n
    BY <1>1
  <2>2. \A i \in 0..n : i \in U
    <3> HIDE DEF U
    <3> QED
      BY <1>1, <1>17, <1>18, StepByStep
  <2> QED
    BY <2>1, <2>2
<1>20. PICK q \in Points : q = after[n].pos
  <2>1. n \in 0..n
    BY <1>1
  <2>2. f[n] \in S
    BY <1>8, <2>1
  <2> QED
    BY <1>19, <2>2 DEF S
<1>21. Resolve(plan, q, BossRadius) \in Points /\ Clear(plan, Resolve(plan, q, BossRadius), BossRadius)
  BY LayoutIs, RadiiFit, OnePassIsEnough
<1> QED
  BY <1>15, <1>20, <1>21

(* A body that is clear is on the floor. *)
LEMMA ClearIsGround ==
    ASSUME NEW l, NEW p \in Points, NEW r, Fits(r), Clear(l, p, r)
    PROVE  p \in Ground
<1>1. OnFloor(p, r)
  BY ClampFacts DEF Clear
<1>2. r \in Nat /\ OfficeW \in Nat /\ OfficeH \in Nat
  BY RadiiFit DEF Fits
<1>3. PICK x \in Int, y \in Int : p = <<x, y>>
  BY DEF Points
<1>4. r <= x /\ x <= OfficeW - r /\ r <= y /\ y <= OfficeH - r
  BY <1>1, <1>3 DEF OnFloor
<1>5. x \in 0..OfficeW /\ y \in 0..OfficeH
  BY <1>2, <1>4
<1> QED
  BY <1>3, <1>5 DEF Ground

LEMMA GroundIsPoints == Ground \subseteq Points
BY DEF Ground, Points

(* Whatever is drawn, the one who joins stands clear. *)
LEMMA SpawnIs ==
    ASSUME plan \in Layouts, boss.pos \in Points, NEW draws \in [1..SpawnTries -> SpawnPoints]
    PROVE  SpawnPoint(draws) \in Points /\ Clear(plan, SpawnPoint(draws), PlayerRadius)
<1> DEFINE legal == {i \in DOMAIN draws : FreeSpawn(draws[i])}
           gap(i) == Hypot2(boss.pos, draws[i])
           far == {i \in legal : gap(i) >= Square(SpawnFromBoss)}
           farthest == {i \in legal : \A j \in legal : gap(i) >= gap(j)}
<1>1. SpawnTries \in Nat /\ DOMAIN draws = 1..SpawnTries
  BY NumbersAre
<1>2. \A i \in 1..SpawnTries : draws[i] \in Points /\ gap(i) \in Nat
  <2>1. \A i \in 1..SpawnTries : draws[i] \in Points
    BY OfficeAssumption DEF Points
  <2> QED
    BY <2>1, HypotIs
<1>3. ASSUME NEW i \in legal PROVE draws[i] \in Points /\ Clear(plan, draws[i], PlayerRadius)
  <2>1. i \in 1..SpawnTries /\ FreeSpawn(draws[i])
    BY <1>1
  <2>2. ClampToFloor(draws[i], PlayerRadius) = draws[i]
    BY <2>1, OfficeAssumption
  <2> QED
    BY <1>2, <2>1, <2>2 DEF FreeSpawn, Clear
<1>4. legal # {} => farthest # {}
  <2> DEFINE first(m) == {i \in legal : i <= m}
             T == {m \in 0..SpawnTries : first(m) # {} => \E i \in first(m) : \A j \in first(m) : gap(i) >= gap(j)}
  <2>1. legal \subseteq 1..SpawnTries
    BY <1>1
  <2>2. 0 \in T
    <3>1. first(0) = {}
      BY <2>1
    <3> QED
      BY <1>1, <3>1
  <2>3. ASSUME NEW m \in 1..SpawnTries, m - 1 \in T PROVE m \in T
    <3>1. \A i \in first(m) : i = m \/ i \in first(m - 1)
      BY <2>1
    <3>2. first(m - 1) \subseteq first(m) /\ \A i \in first(m) : gap(i) \in Nat
      BY <1>2, <2>1
    <3>3. m \in 0..SpawnTries
      BY <1>1
    <3>4. CASE m \notin legal
      <4>1. first(m) = first(m - 1)
        BY <3>1, <3>2, <3>4
      <4> HIDE DEF first, gap
      <4> QED
        BY <2>3, <3>3, <4>1
    <3>5. CASE m \in legal /\ first(m - 1) = {}
      <4>1. \A i \in first(m) : i = m
        BY <3>1, <3>5
      <4>2. m \in first(m)
        BY <3>5
      <4>3. \A j \in first(m) : gap(m) >= gap(j)
        BY <3>2, <4>1, <4>2
      <4> QED
        BY <3>3, <4>2, <4>3
    <3>6. CASE m \in legal /\ first(m - 1) # {}
      <4>1. PICK k \in first(m - 1) : \A j \in first(m - 1) : gap(k) >= gap(j)
        BY <2>3, <3>6
      <4>2. m \in first(m) /\ k \in first(m)
        BY <3>2, <3>6, <4>1
      <4>3. PICK g : g = [i \in first(m) |-> gap(i)]
        OBVIOUS
      <4>4. \A i \in first(m) : g[i] = gap(i) /\ g[i] \in Nat
        BY <3>2, <4>3
      <4> HIDE DEF gap, first
      <4>5. CASE g[m] >= g[k]
        <5>1. \A j \in first(m) : g[m] >= g[j]
          <6> SUFFICES ASSUME NEW j \in first(m) PROVE g[m] >= g[j]
            OBVIOUS
          <6>1. j = m \/ j \in first(m - 1)
            BY <3>1
          <6>2. CASE j = m
            BY <4>4, <6>2
          <6>3. CASE j \in first(m - 1)
            <7>1. g[k] >= g[j]
              BY <4>1, <4>2, <4>4, <6>3
            <7> QED
              BY <4>2, <4>4, <4>5, <7>1
          <6> QED
            BY <6>1, <6>2, <6>3
        <5>2. \A j \in first(m) : gap(m) >= gap(j)
          BY <4>2, <4>4, <5>1
        <5> QED
          BY <3>3, <4>2, <5>2
      <4>6. CASE ~(g[m] >= g[k])
        <5>1. \A j \in first(m) : g[k] >= g[j]
          <6> SUFFICES ASSUME NEW j \in first(m) PROVE g[k] >= g[j]
            OBVIOUS
          <6>1. j = m \/ j \in first(m - 1)
            BY <3>1
          <6>2. CASE j = m
            BY <4>2, <4>4, <4>6, <6>2
          <6>3. CASE j \in first(m - 1)
            BY <4>1, <4>2, <4>4, <6>3
          <6> QED
            BY <6>1, <6>2, <6>3
        <5>2. \A j \in first(m) : gap(k) >= gap(j)
          BY <4>2, <4>4, <5>1
        <5> QED
          BY <3>3, <4>2, <5>2
      <4> QED
        BY <4>5, <4>6
    <3> QED
      BY <3>4, <3>5, <3>6
  <2>4. SpawnTries \in T
    <3>1. SpawnTries \in 0..SpawnTries
      BY <1>1
    <3> HIDE DEF T
    <3> QED
      BY <1>1, <2>2, <2>3, <3>1, StepByStep
  <2>5. first(SpawnTries) = legal
    BY <2>1
  <2> QED
    BY <2>4, <2>5
<1>5. legal \in SUBSET Nat /\ far \in SUBSET Nat /\ farthest \in SUBSET Nat
      /\ far \subseteq legal /\ farthest \subseteq legal
  BY <1>1
<1>6. \/ far # {} /\ SpawnPoint(draws) = draws[Least(far)]
      \/ far = {} /\ legal # {} /\ SpawnPoint(draws) = draws[Least(farthest)]
      \/ legal = {} /\ SpawnPoint(draws) = PlayerSpawn
  BY DEF SpawnPoint
<1> HIDE DEF legal, far, farthest
<1>7. CASE far # {} /\ SpawnPoint(draws) = draws[Least(far)]
  <2>1. Least(far) \in legal
    BY <1>5, <1>7, LeastIs
  <2> QED
    BY <1>3, <1>7, <2>1
<1>8. CASE far = {} /\ legal # {} /\ SpawnPoint(draws) = draws[Least(farthest)]
  <2>1. Least(farthest) \in legal
    BY <1>4, <1>5, <1>8, LeastIs
  <2> QED
    BY <1>3, <1>8, <2>1
<1>9. CASE legal = {} /\ SpawnPoint(draws) = PlayerSpawn
  <2>1. PlayerSpawn \in FixedPoints /\ ClampToFloor(PlayerSpawn, BossRadius) = PlayerSpawn
    BY OfficeAssumption
  <2>2. plan \in Playable
    BY LayoutIs
  <2>3. PlayerSpawn \in Points /\ Clear(plan, PlayerSpawn, PlayerRadius)
    BY <2>1, <2>2, SpotIsClear
  <2> QED
    BY <1>9, <2>3
<1> QED
  BY <1>6, <1>7, <1>8, <1>9

-----------------------------------------------------------------------------
(* The props. *)

Returns == Upper(BottleReturn, HookahReturn)

(* Props on spots of the catalogue, no two on one. *)
PropsKept(spots) ==
    {q \in Props(spots) : \A i, j \in 1..Len(q) : i # j => q[i].spot # q[j].spot}

PropOn(spots) == [spot : 1..Len(spots), gone : 0..Returns]

LEMMA ReturnsAre == Returns \in Nat /\ BottleReturn \in 0..Returns /\ HookahReturn \in 0..Returns
<1>1. BottleReturn \in Nat /\ HookahReturn \in Nat
  BY OfficeAssumption
<1> QED
  BY <1>1 DEF Returns, Upper

LEMMA PropsAre ==
    ASSUME NEW spots, NEW q \in PropsKept(spots)
    PROVE  /\ q \in Seq(PropOn(spots)) /\ Len(q) \in Nat
           /\ \A i \in 1..Len(q) : q[i] \in PropOn(spots) /\ q[i].spot \in 1..Len(spots) /\ q[i].gone \in 0..Returns
           /\ \A i, j \in 1..Len(q) : i # j => q[i].spot # q[j].spot
<1>1. q \in Seq(PropOn(spots)) /\ \A i, j \in 1..Len(q) : i # j => q[i].spot # q[j].spot
  BY DEF PropsKept, Props, PropOn, Returns
<1>2. \A i \in 1..Len(q) : q[i] \in PropOn(spots)
  BY <1>1
<1> QED
  BY <1>1, <1>2 DEF PropOn

LEMMA KeptIf ==
    ASSUME NEW spots, NEW q \in Seq(PropOn(spots)), \A i, j \in 1..Len(q) : i # j => q[i].spot # q[j].spot
    PROVE  q \in PropsKept(spots)
BY DEF PropsKept, Props, PropOn, Returns

(* Where the props are, those that are away included. *)
PlacesTaken(q) == {p.spot : p \in ToSet(q)}

(* What stands, and where the props are, by their places in the sequence. *)
LEMMA StandingIs ==
    ASSUME NEW X, NEW q \in Seq(X), NEW s
    PROVE  /\ s \in Standing(q) <=> \E i \in 1..Len(q) : q[i].gone = 0 /\ q[i].spot = s
           /\ s \in PlacesTaken(q) <=> \E i \in 1..Len(q) : q[i].spot = s
<1>1. DOMAIN q = 1..Len(q)
  OBVIOUS
<1>2. ToSet(q) = {q[i] : i \in 1..Len(q)}
  BY <1>1 DEF ToSet
<1> QED
  BY <1>2 DEF Standing, PlacesTaken

(* As long as there is a place, the draw is one where no other prop is. *)
LEMMA DrawIs ==
    ASSUME NEW spots, NEW q, NEW avoid, NEW free \in 1..Len(spots),
           free \notin PlacesTaken(q) \/ free = avoid,
           NEW s \in DrawSpot(spots, q, avoid)
    PROVE  s \in 1..Len(spots) /\ (s \notin PlacesTaken(q) \/ s = avoid)
<1> DEFINE taken == PlacesTaken(q)
           open == (1..Len(spots)) \ (taken \ {avoid})
<1>1. free \in open
  OBVIOUS
<1>2. s \in open
  BY <1>1 DEF DrawSpot, PlacesTaken
<1> QED
  BY <1>2

(* Fewer props than places leave a place. *)
LEMMA APlaceIsLeft ==
    ASSUME NEW spots, NEW N \in Nat, Len(spots) = N, NEW q \in PropsKept(spots), Len(q) < N
    PROVE  \E s \in 1..Len(spots) : \A i \in 1..Len(q) : q[i].spot # s
<1> SUFFICES ASSUME \A s \in 1..N : \E i \in 1..Len(q) : q[i].spot = s
             PROVE  FALSE
  OBVIOUS
<1> DEFINE f == [s \in 1..N |-> CHOOSE i \in 1..Len(q) : q[i].spot = s]
<1>1. Len(q) \in Nat
  BY PropsAre
<1>2. \A s \in 1..N : f[s] \in 1..Len(q) /\ q[f[s]].spot = s
  OBVIOUS
<1>3. f \in [1..N -> 1..Len(q)]
  BY <1>2
<1>4. PICK K \in Nat : K = Len(q)
  BY <1>1
<1>5. PICK S, T : S = 1..N /\ T = 1..K
  OBVIOUS
<1>6. IsFiniteSet(S) /\ Cardinality(S) = N
  BY <1>5, FS_Interval
<1>7. IsFiniteSet(T) /\ Cardinality(T) = K
  BY <1>5, FS_Interval
<1>8. PICK g \in [S -> T] : g = f
  BY <1>3, <1>4, <1>5
<1>9. \E x, y \in S : x # y /\ g[x] = g[y]
  <2>1. Cardinality(T) < Cardinality(S)
    BY <1>4, <1>6, <1>7
  <2> QED
    BY <1>6, <1>7, <2>1, FS_PigeonHole
<1> HIDE DEF f
<1>10. PICK x \in 1..N, y \in 1..N : x # y /\ f[x] = f[y]
  BY <1>5, <1>8, <1>9
<1> QED
  BY <1>2, <1>10

(* One more prop stands where none was, and nothing else is moved. *)
LEMMA GrownKeeps ==
    ASSUME NEW spots, Len(spots) \in Nat, NEW q \in PropsKept(spots),
           NEW want \in Nat, want <= Len(spots), NEW m \in Grown(q, spots, want)
    PROVE  m \in PropsKept(spots) /\ Standing(q) \subseteq Standing(m)
<1>1. CASE Len(q) >= want
  BY <1>1 DEF Grown
<1>2. CASE ~(Len(q) >= want)
  <2>1. /\ q \in Seq(PropOn(spots)) /\ Len(q) \in Nat /\ Len(q) < Len(spots)
        /\ \A i, j \in 1..Len(q) : i # j => q[i].spot # q[j].spot
    BY <1>2, PropsAre
  <2>2. PICK s \in DrawSpot(spots, q, 0) : m = Append(q, [spot |-> s, gone |-> 0])
    BY <1>2 DEF Grown
  <2>3. PICK free \in 1..Len(spots) : \A i \in 1..Len(q) : q[i].spot # free
    BY <2>1, APlaceIsLeft
  <2>4. free \notin PlacesTaken(q)
    <3> SUFFICES ASSUME free \in PlacesTaken(q) PROVE FALSE
      OBVIOUS
    <3>1. \E i \in 1..Len(q) : q[i].spot = free
      BY <2>1, StandingIs
    <3> QED
      BY <2>3, <3>1
  <2>5. s \in 1..Len(spots) /\ (s \notin PlacesTaken(q) \/ s = 0)
    <3>1. PICK zero : zero = 0
      OBVIOUS
    <3>2. s \in DrawSpot(spots, q, zero)
      BY <3>1
    <3> QED
      BY <2>4, <3>1, <3>2, DrawIs
  <2>6. \A i \in 1..Len(q) : q[i].spot # s
    <3>1. s \notin PlacesTaken(q)
      BY <2>5
    <3> QED
      BY <2>1, <3>1, StandingIs
  <2>7. PICK e : e = [spot |-> s, gone |-> 0]
    OBVIOUS
  <2>8. e \in PropOn(spots) /\ e.spot = s
    BY <2>5, <2>7, ReturnsAre DEF PropOn
  <2>9. /\ m = Append(q, e) /\ m \in Seq(PropOn(spots)) /\ Len(m) = Len(q) + 1
        /\ m[Len(q) + 1] = e /\ \A i \in 1..Len(q) : m[i] = q[i]
    BY <2>1, <2>2, <2>7, <2>8
  <2>10. ASSUME NEW i \in 1..Len(m), NEW j \in 1..Len(m), i # j PROVE m[i].spot # m[j].spot
    <3>1. (i \in 1..Len(q) \/ i = Len(q) + 1) /\ (j \in 1..Len(q) \/ j = Len(q) + 1)
      BY <2>1, <2>9
    <3> QED
      BY <2>1, <2>6, <2>8, <2>9, <2>10, <3>1
  <2>11. m \in PropsKept(spots)
    BY <2>9, <2>10, KeptIf
  <2>12. ASSUME NEW t \in Standing(q) PROVE t \in Standing(m)
    <3>1. PICK i \in 1..Len(q) : q[i].gone = 0 /\ q[i].spot = t
      BY <2>1, StandingIs
    <3>2. i \in 1..Len(m) /\ m[i] = q[i]
      BY <2>1, <2>9
    <3> QED
      BY <2>9, <3>1, <3>2, StandingIs
  <2> QED
    BY <2>11, <2>12
<1> QED
  BY <1>1, <1>2

(* Only one that is away is taken out. *)
LEMMA ShrunkKeeps ==
    ASSUME NEW spots, NEW q \in PropsKept(spots), NEW want \in Nat
    PROVE  Shrunk(q, want) \in PropsKept(spots) /\ Standing(q) \subseteq Standing(Shrunk(q, want))
<1> DEFINE away == {i \in 1..Len(q) : q[i].gone > 0}
<1>1. CASE Len(q) <= want \/ away = {}
  BY <1>1 DEF Shrunk
<1>2. CASE ~(Len(q) <= want \/ away = {})
  <2>1. /\ q \in Seq(PropOn(spots)) /\ Len(q) \in Nat
        /\ \A i \in 1..Len(q) : q[i].gone \in 0..Returns
        /\ \A i, j \in 1..Len(q) : i # j => q[i].spot # q[j].spot
    BY PropsAre
  <2>2. away \in SUBSET Nat /\ away # {}
    BY <1>2
  <2>3. PICK k \in away : k = Least(away)
    <3> HIDE DEF away
    <3> QED
      BY <2>2, LeastIs
  <2>4. k \in 1..Len(q) /\ q[k].gone > 0
    OBVIOUS
  <2>5. PICK m : m = Shrunk(q, want)
    OBVIOUS
  <2>6. m = SubSeq(q, 1, k - 1) \o SubSeq(q, k + 1, Len(q))
    BY <1>2, <2>3, <2>5 DEF Shrunk, RemoveAt
  <2> DEFINE a == SubSeq(q, 1, k - 1)
             b == SubSeq(q, k + 1, Len(q))
  <2>7. /\ a \in Seq(PropOn(spots)) /\ Len(a) = k - 1 /\ \A i \in 1..(k - 1) : a[i] = q[i]
        /\ b \in Seq(PropOn(spots)) /\ Len(b) = Len(q) - k /\ \A i \in 1..(Len(q) - k) : b[i] = q[k + i]
    <3>1. a \in Seq(PropOn(spots)) /\ Len(a) = k - 1 /\ \A i \in 1..(k - 1) : a[i] = q[i]
      BY <2>1, <2>4
    <3>2. b \in Seq(PropOn(spots)) /\ Len(b) = Len(q) - k /\ \A i \in 1..(Len(q) - k) : b[i] = q[k + i]
      BY <2>1, <2>4
    <3> QED
      BY <3>1, <3>2
  <2>8. m = a \o b
    BY <2>6
  <2> HIDE DEF a, b
  <2>9. /\ m \in Seq(PropOn(spots)) /\ Len(m) = Len(q) - 1
        /\ \A i \in 1..Len(m) : m[i] = IF i < k THEN q[i] ELSE q[i + 1]
    <3>1. m \in Seq(PropOn(spots)) /\ Len(m) = Len(a) + Len(b)
          /\ \A i \in 1..Len(m) : m[i] = IF i <= Len(a) THEN a[i] ELSE b[i - Len(a)]
      <4>1. a \in Seq(PropOn(spots)) /\ b \in Seq(PropOn(spots))
        BY <2>7
      <4> QED
        BY <2>8, <4>1, ConcatProperties
    <3>2. Len(m) = Len(q) - 1
      BY <2>1, <2>4, <2>7, <3>1
    <3>3. ASSUME NEW i \in 1..Len(m) PROVE m[i] = IF i < k THEN q[i] ELSE q[i + 1]
      <4>1. CASE i < k
        <5>1. i \in 1..(k - 1) /\ i <= Len(a)
          BY <2>4, <2>7, <4>1
        <5> QED
          BY <2>7, <3>1, <4>1, <5>1
      <4>2. CASE ~(i < k)
        <5>1. i - Len(a) \in 1..(Len(q) - k) /\ ~(i <= Len(a)) /\ k + (i - Len(a)) = i + 1
          BY <2>1, <2>4, <2>7, <3>2, <4>2
        <5> QED
          BY <2>7, <3>1, <4>2, <5>1
      <4> QED
        BY <4>1, <4>2
    <3> QED
      BY <3>1, <3>2, <3>3
  <2>10. ASSUME NEW i \in 1..Len(m), NEW j \in 1..Len(m), i # j PROVE m[i].spot # m[j].spot
    <3>1. PICK u \in 1..Len(q), v \in 1..Len(q) : /\ u = IF i < k THEN i ELSE i + 1
                                                  /\ v = IF j < k THEN j ELSE j + 1
      <4>1. (IF i < k THEN i ELSE i + 1) \in 1..Len(q)
        BY <2>1, <2>4, <2>9
      <4>2. (IF j < k THEN j ELSE j + 1) \in 1..Len(q)
        BY <2>1, <2>4, <2>9
      <4> QED
        BY <4>1, <4>2
    <3>2. u # v
      BY <2>4, <2>10, <3>1
    <3>3. m[i] = q[u] /\ m[j] = q[v]
      BY <2>9, <3>1
    <3> QED
      BY <2>1, <3>2, <3>3
  <2>11. m \in PropsKept(spots)
    BY <2>9, <2>10, KeptIf
  <2>12. ASSUME NEW t \in Standing(q) PROVE t \in Standing(m)
    <3>1. PICK i \in 1..Len(q) : q[i].gone = 0 /\ q[i].spot = t
      BY <2>1, StandingIs
    <3>2. i # k
      BY <2>1, <2>4, <3>1
    <3>3. PICK j \in 1..Len(m) : m[j] = q[i]
      <4>1. CASE i < k
        <5>1. i \in 1..Len(m)
          BY <2>1, <2>4, <2>9, <4>1
        <5> QED
          BY <2>9, <4>1, <5>1
      <4>2. CASE ~(i < k)
        <5>1. i - 1 \in 1..Len(m) /\ ~(i - 1 < k) /\ (i - 1) + 1 = i
          BY <2>1, <2>4, <2>9, <3>2, <4>2
        <5> QED
          BY <2>9, <5>1
      <4> QED
        BY <4>1, <4>2
    <3> QED
      BY <2>9, <3>1, <3>3, StandingIs
  <2> QED
    BY <2>5, <2>11, <2>12
<1> QED
  BY <1>1, <1>2

(* What every prop of a kind becomes, from any of the arrangements there are. *)
AllGrown(Q, spots, want) == UNION {Grown(p, spots, want) : p \in Q}
AllShrunk(Q, want) == {Shrunk(p, want) : p \in Q}

(* Arrangements in which what stood in props still stands. *)
Keeping(props, spots) == {q \in PropsKept(spots) : Standing(props) \subseteq Standing(q)}

LEMMA AllGrownKeep ==
    ASSUME NEW spots, Len(spots) \in Nat, NEW props, NEW want \in Nat, want <= Len(spots),
           NEW Q \in SUBSET Keeping(props, spots)
    PROVE  AllGrown(Q, spots, want) \in SUBSET Keeping(props, spots)
<1> SUFFICES ASSUME NEW p \in Q, NEW m \in Grown(p, spots, want) PROVE m \in Keeping(props, spots)
  BY DEF AllGrown
<1>1. p \in PropsKept(spots) /\ Standing(props) \subseteq Standing(p)
  BY DEF Keeping
<1>2. m \in PropsKept(spots) /\ Standing(p) \subseteq Standing(m)
  BY <1>1, GrownKeeps
<1> QED
  BY <1>1, <1>2 DEF Keeping

LEMMA AllShrunkKeep ==
    ASSUME NEW spots, NEW props, NEW want \in Nat, NEW Q \in SUBSET Keeping(props, spots)
    PROVE  AllShrunk(Q, want) \in SUBSET Keeping(props, spots)
<1> SUFFICES ASSUME NEW p \in Q PROVE Shrunk(p, want) \in Keeping(props, spots)
  BY DEF AllShrunk
<1>1. p \in PropsKept(spots) /\ Standing(props) \subseteq Standing(p)
  BY DEF Keeping
<1>2. Shrunk(p, want) \in PropsKept(spots) /\ Standing(p) \subseteq Standing(Shrunk(p, want))
  BY <1>1, ShrunkKeeps
<1> QED
  BY <1>1, <1>2 DEF Keeping

(* However many are here, reconciling moves nothing that stands. *)
LEMMA ReconcileKeeps ==
    ASSUME NEW spots, Len(spots) \in Nat, NEW props \in PropsKept(spots), NEW want \in Nat,
           NEW q \in ReconcileProps(props, spots, want)
    PROVE  q \in PropsKept(spots) /\ Standing(props) \subseteq Standing(q)
<1> DEFINE n == Lower(want, Len(spots))
           K == Keeping(props, spots)
           S == SUBSET K
           Ups(f) == f = [i \in 0..Desks |-> IF i = 0 THEN {props} ELSE AllGrown(f[i - 1], spots, n)]
           up == CHOOSE f : Ups(f)
           Downs(f) == f = [i \in 0..Desks |-> IF i = 0 THEN up[Desks] ELSE AllShrunk(f[i - 1], n)]
           down == CHOOSE f : Downs(f)
           GU == [i \in 1..Desks |-> [Q \in S |-> AllGrown(Q, spots, n)]]
           GD == [i \in 1..Desks |-> [Q \in S |-> AllShrunk(Q, n)]]
<1>1. Desks \in Nat /\ n \in Nat /\ n <= Len(spots)
  BY OfficeAssumption DEF Lower
<1>2. \A i \in 0..Desks : i = 0 \/ (i \in 1..Desks /\ i - 1 \in 0..Desks)
  BY <1>1
<1>3. q \in {props} \/ q \in down[Desks]
  BY DEF ReconcileProps, AllGrown, AllShrunk
<1> HIDE DEF n
<1>4. {props} \in S
  BY DEF Keeping
<1>5. \A Q \in S : AllGrown(Q, spots, n) \in S /\ AllShrunk(Q, n) \in S
  BY <1>1, AllGrownKeep, AllShrunkKeep
<1>6. /\ GU \in [1..Desks -> [S -> S]] /\ \A i \in 1..Desks, Q \in S : GU[i][Q] = AllGrown(Q, spots, n)
      /\ GD \in [1..Desks -> [S -> S]] /\ \A i \in 1..Desks, Q \in S : GD[i][Q] = AllShrunk(Q, n)
  BY <1>5
<1> HIDE DEF S, GU, GD, K
<1>7. PICK f \in [0..Desks -> S] : Walk(f, Desks, {props}, GU)
  BY <1>1, <1>4, <1>6, StepsThrough
<1>8. Ups(f)
  <2>1. \A i \in 0..Desks : f[i] = IF i = 0 THEN {props} ELSE AllGrown(f[i - 1], spots, n)
    <3>1. f = [i \in 0..Desks |-> IF i = 0 THEN {props} ELSE GU[i][f[i - 1]]]
      BY <1>7 DEF Walk
    <3>2. \A i \in 0..Desks : f[i] = IF i = 0 THEN {props} ELSE GU[i][f[i - 1]]
      BY <3>1
    <3>3. \A i \in 1..Desks : GU[i][f[i - 1]] = AllGrown(f[i - 1], spots, n)
      BY <1>1, <1>2, <1>6
    <3> QED
      BY <1>2, <3>2, <3>3
  <2>2. f = [i \in 0..Desks |-> f[i]]
    OBVIOUS
  <2> QED
    BY <2>1, <2>2
<1>9. Ups(up)
  BY <1>8
<1> HIDE DEF up
<1>10. \A i \in 0..Desks : up[i] = IF i = 0 THEN {props} ELSE AllGrown(up[i - 1], spots, n)
  BY <1>9
<1> DEFINE T == {i \in 0..Desks : up[i] \in S}
<1>11. up[Desks] \in S
  <2>1. 0 \in 0..Desks /\ Desks \in 0..Desks
    BY <1>1
  <2>2. 0 \in T
    BY <1>4, <1>10, <2>1
  <2>3. ASSUME NEW i \in 1..Desks, i - 1 \in T PROVE i \in T
    <3>1. i \in 0..Desks /\ i # 0 /\ up[i - 1] \in S
      BY <1>1, <2>3
    <3>2. up[i] = AllGrown(up[i - 1], spots, n)
      BY <1>10, <3>1
    <3>3. up[i] \in S
      BY <1>5, <3>1, <3>2
    <3> QED
      BY <3>1, <3>3
  <2>4. Desks \in T
    <3> HIDE DEF T
    <3> QED
      BY <1>1, <2>1, <2>2, <2>3, StepByStep
  <2> QED
    BY <2>4
<1>12. PICK g \in [0..Desks -> S] : Walk(g, Desks, up[Desks], GD)
  <2>1. PICK start \in S : start = up[Desks]
    BY <1>11
  <2> QED
    BY <1>1, <1>6, <2>1, StepsThrough
<1>13. Downs(g)
  <2>1. \A i \in 0..Desks : g[i] = IF i = 0 THEN up[Desks] ELSE AllShrunk(g[i - 1], n)
    BY <1>2, <1>6, <1>12 DEF Walk
  <2>2. g = [i \in 0..Desks |-> g[i]]
    OBVIOUS
  <2> QED
    BY <2>1, <2>2
<1>14. Downs(down)
  BY <1>13
<1> HIDE DEF down
<1>15. \A i \in 0..Desks : down[i] = IF i = 0 THEN up[Desks] ELSE AllShrunk(down[i - 1], n)
  BY <1>14
<1> DEFINE U == {i \in 0..Desks : down[i] \in S}
<1>16. down[Desks] \in S
  <2>1. 0 \in 0..Desks /\ Desks \in 0..Desks
    BY <1>1
  <2>2. 0 \in U
    BY <1>11, <1>15, <2>1
  <2>3. ASSUME NEW i \in 1..Desks, i - 1 \in U PROVE i \in U
    <3>1. i \in 0..Desks /\ i # 0 /\ down[i - 1] \in S
      BY <1>1, <2>3
    <3>2. down[i] = AllShrunk(down[i - 1], n)
      BY <1>15, <3>1
    <3>3. down[i] \in S
      BY <1>5, <3>1, <3>2
    <3> QED
      BY <3>1, <3>3
  <2>4. Desks \in U
    <3> HIDE DEF U
    <3> QED
      BY <1>1, <2>1, <2>2, <2>3, StepByStep
  <2> QED
    BY <2>4
<1> QED
  BY <1>3, <1>16 DEF S, K, Keeping

(* Nothing that stood is gone from after, but perhaps what prop p gave way to prop new. *)
LostOnly(props, after, p, new) ==
    \A s \in Standing(props) \ Standing(after) :
        p.gone = 0 /\ s = p.spot /\ (new.gone # 0 \/ new.spot # s)

Changed(q, i, new, r) == r = [q EXCEPT ![i] = new]

(* One prop changed, to a place where no other one is. *)
LEMMA ChangedIs ==
    ASSUME NEW spots, NEW q \in PropsKept(spots), NEW i \in 1..Len(q), NEW new \in PropOn(spots),
           \A j \in 1..Len(q) : j # i => q[j].spot # new.spot,
           NEW r, Changed(q, i, new, r)
    PROVE  /\ r \in PropsKept(spots) /\ Len(r) = Len(q)
           /\ LostOnly(q, r, q[i], new)
<1>1. /\ q \in Seq(PropOn(spots)) /\ Len(q) \in Nat
      /\ \A j, k \in 1..Len(q) : j # k => q[j].spot # q[k].spot
  BY PropsAre
<1>2. /\ r \in Seq(PropOn(spots)) /\ Len(r) = Len(q) /\ r[i] = new
      /\ \A j \in 1..Len(q) : j # i => r[j] = q[j]
  BY <1>1 DEF Changed
<1>3. ASSUME NEW j \in 1..Len(r), NEW k \in 1..Len(r), j # k PROVE r[j].spot # r[k].spot
  <2>1. j \in 1..Len(q) /\ k \in 1..Len(q)
    BY <1>2
  <2>2. CASE j = i
    BY <1>2, <1>3, <2>1, <2>2
  <2>3. CASE k = i
    BY <1>2, <1>3, <2>1, <2>3
  <2>4. CASE j # i /\ k # i
    BY <1>1, <1>2, <1>3, <2>1, <2>4
  <2> QED
    BY <2>2, <2>3, <2>4
<1>4. ASSUME NEW s \in Standing(q) \ Standing(r)
      PROVE  q[i].gone = 0 /\ s = q[i].spot /\ (new.gone # 0 \/ new.spot # s)
  <2>1. PICK j \in 1..Len(q) : q[j].gone = 0 /\ q[j].spot = s
    BY <1>1, StandingIs
  <2>2. ~ \E k \in 1..Len(r) : r[k].gone = 0 /\ r[k].spot = s
    <3>1. s \notin Standing(r)
      OBVIOUS
    <3> QED
      BY <1>2, <3>1, StandingIs
  <2>3. j = i
    BY <1>2, <2>1, <2>2
  <2> QED
    BY <1>2, <2>1, <2>2, <2>3
<1> QED
  BY <1>2, <1>3, <1>4, KeptIf DEF LostOnly

(* Who emptied a spot was within reach of it. *)
Paid(props, after, spots, at) ==
    \A s \in Standing(props) \ Standing(after) : \E a \in DOMAIN at : Within(at[a], spots[s], PropReach)

(* The outcomes of a step of the props: as many, apart, and paid for. *)
Outcomes(props, spots, at) ==
    {o \in [props : PropsKept(spots), takers : SUBSET DOMAIN at] :
        Len(o.props) = Len(props) /\ Paid(props, o.props, spots, at)}

LEMMA StepPropKeeps ==
    ASSUME NEW spots, NEW props, NEW at, DOMAIN at \subseteq Nat, NEW back \in 0..Returns,
           NEW o \in Outcomes(props, spots, at), NEW i \in 1..Len(props),
           NEW m \in StepProp(o, i, spots, back, at)
    PROVE  m \in Outcomes(props, spots, at)
<1> DEFINE q == o.props
           p == q[i]
           near == {a \in DOMAIN at : Within(at[a], spots[p.spot], PropReach)}
<1>1. /\ q \in PropsKept(spots) /\ o.takers \in SUBSET DOMAIN at /\ Len(q) = Len(props)
      /\ Paid(props, q, spots, at) /\ o = [props |-> q, takers |-> o.takers]
  BY DEF Outcomes
<1>2. /\ q \in Seq(PropOn(spots)) /\ i \in 1..Len(q) /\ p \in PropOn(spots)
      /\ p.spot \in 1..Len(spots) /\ p.gone \in 0..Returns
      /\ \A j \in 1..Len(q) : j # i => q[j].spot # p.spot
  BY <1>1, PropsAre
(* It is enough to know which one was changed, to what, and why if it is gone. *)
<1>3. ASSUME NEW new \in PropOn(spots), \A j \in 1..Len(q) : j # i => q[j].spot # new.spot,
             NEW t \in SUBSET DOMAIN at, m = [props |-> [q EXCEPT ![i] = new], takers |-> t],
             p.gone = 0 /\ (new.gone # 0 \/ new.spot # p.spot) => near # {}
      PROVE  m \in Outcomes(props, spots, at)
  <2>1. PICK r : r = [q EXCEPT ![i] = new]
    OBVIOUS
  <2>2. PICK qq \in PropsKept(spots) : qq = q
    BY <1>1
  <2>3. /\ i \in 1..Len(qq) /\ r = [qq EXCEPT ![i] = new]
        /\ \A j \in 1..Len(qq) : j # i => qq[j].spot # new.spot
    BY <1>2, <1>3, <2>1, <2>2
  <2>4. /\ r \in PropsKept(spots) /\ Len(r) = Len(qq)
        /\ LostOnly(qq, r, qq[i], new)
    <3> HIDE DEF q, p, near
    <3>1. /\ qq \in PropsKept(spots) /\ i \in 1..Len(qq) /\ new \in PropOn(spots)
          /\ \A j \in 1..Len(qq) : j # i => qq[j].spot # new.spot
          /\ Changed(qq, i, new, r)
      BY <1>3, <2>2, <2>3 DEF Changed
    <3> QED
      BY <3>1, ChangedIs
  <2>5. Paid(props, r, spots, at)
    <3> SUFFICES ASSUME NEW s \in Standing(props), s \notin Standing(r)
                 PROVE  \E a \in DOMAIN at : Within(at[a], spots[s], PropReach)
      BY DEF Paid
    <3>1. CASE s \notin Standing(q)
      BY <1>1, <3>1 DEF Paid
    <3>2. CASE s \in Standing(q)
      <4>1. p.gone = 0 /\ s = p.spot /\ (new.gone # 0 \/ new.spot # s)
        BY <2>2, <2>4, <3>2 DEF LostOnly
      <4>2. PICK a \in DOMAIN at : Within(at[a], spots[p.spot], PropReach)
        BY <1>3, <4>1
      <4> QED
        BY <4>1, <4>2
    <3> QED
      BY <3>1, <3>2
  <2>6. m = [props |-> r, takers |-> t]
    BY <1>3, <2>1
  <2>7. Len(r) = Len(props)
    BY <1>1, <2>2, <2>4
  <2> HIDE DEF q
  <2> QED
    BY <2>4, <2>5, <2>6, <2>7 DEF Outcomes
<1>4. CASE p.gone > 1
  <2>1. m = [o EXCEPT !.props[i].gone = @ - 1]
    BY <1>2, <1>4 DEF StepProp
  <2>2. PICK new : new = [spot |-> p.spot, gone |-> p.gone - 1]
    OBVIOUS
  <2>3. p = [spot |-> p.spot, gone |-> p.gone]
    BY <1>2 DEF PropOn
  <2>4. [p EXCEPT !.gone = @ - 1] = new
    BY <2>2, <2>3
  <2>5. new \in PropOn(spots) /\ new.spot = p.spot
    <3>1. p.gone - 1 \in 0..Returns
      BY <1>2, <1>4, ReturnsAre
    <3> QED
      BY <1>2, <2>2, <3>1 DEF PropOn
  <2>6. m = [o EXCEPT !.props = [q EXCEPT ![i] = [p EXCEPT !.gone = @ - 1]]]
    BY <2>1
  <2>7. m = [props |-> [q EXCEPT ![i] = new], takers |-> o.takers]
    BY <1>1, <2>4, <2>6
  <2>8. p.gone # 0
    BY <1>2, <1>4
  <2> HIDE DEF near, p, q
  <2> QED
    BY <1>1, <1>2, <1>3, <2>5, <2>7, <2>8
<1>5. CASE p.gone = 1
  <2>1. PICK s \in DrawSpot(spots, q, p.spot) : m = [o EXCEPT !.props[i] = [spot |-> s, gone |-> 0]]
    BY <1>2, <1>5 DEF StepProp
  <2>2. PICK own \in 1..Len(spots) : own = p.spot
    BY <1>2
  <2>3. s \in 1..Len(spots) /\ (s \notin PlacesTaken(q) \/ s = own)
    <3>1. s \in DrawSpot(spots, q, own)
      BY <2>1, <2>2
    <3> HIDE DEF q
    <3> QED
      BY <3>1, DrawIs
  <2>4. PICK new : new = [spot |-> s, gone |-> 0]
    OBVIOUS
  <2>5. new \in PropOn(spots) /\ new.spot = s
    BY <2>3, <2>4, ReturnsAre DEF PropOn
  <2>6. ASSUME NEW j \in 1..Len(q), j # i PROVE q[j].spot # new.spot
    <3>1. CASE s = own
      BY <1>2, <2>2, <2>5, <2>6, <3>1
    <3>2. CASE s \notin PlacesTaken(q)
      <4>1. ~ \E k \in 1..Len(q) : q[k].spot = s
        <5> HIDE DEF q
        <5> QED
          BY <1>2, <3>2, StandingIs DEF PlacesTaken
      <4> QED
        BY <2>5, <4>1
    <3> QED
      BY <2>3, <3>1, <3>2
  <2>7. m = [props |-> [q EXCEPT ![i] = new], takers |-> o.takers]
    <3>1. m = [o EXCEPT !.props = [q EXCEPT ![i] = new]]
      BY <2>1, <2>4
    <3> QED
      BY <1>1, <3>1
  <2>8. p.gone # 0
    BY <1>2, <1>5
  <2> HIDE DEF near, p, q
  <2> QED
    BY <1>1, <1>3, <2>5, <2>6, <2>7, <2>8
<1>6. CASE p.gone = 0 /\ near = {}
  <2>1. m = o
    BY <1>6 DEF StepProp
  <2> QED
    BY <2>1
<1>7. CASE p.gone = 0 /\ near # {}
  <2>1. m = [props |-> [q EXCEPT ![i].gone = back], takers |-> o.takers \cup {Least(near)}]
    BY <1>7 DEF StepProp
  <2>2. PICK new : new = [spot |-> p.spot, gone |-> back]
    OBVIOUS
  <2>3. p = [spot |-> p.spot, gone |-> p.gone]
    BY <1>2 DEF PropOn
  <2>4. [p EXCEPT !.gone = back] = new
    BY <2>2, <2>3
  <2>5. new \in PropOn(spots) /\ new.spot = p.spot
    BY <1>2, <2>2 DEF PropOn
  <2>6. Least(near) \in DOMAIN at
    <3>1. near \in SUBSET Nat /\ near # {} /\ near \subseteq DOMAIN at
      BY <1>7
    <3> HIDE DEF near
    <3> QED
      BY <3>1, LeastIs
  <2>7. PICK t \in SUBSET DOMAIN at : t = o.takers \cup {Least(near)}
    BY <1>1, <2>6
  <2>8. m = [props |-> [q EXCEPT ![i] = [p EXCEPT !.gone = back]], takers |-> t]
    BY <2>1, <2>7
  <2>9. m = [props |-> [q EXCEPT ![i] = new], takers |-> t]
    BY <2>4, <2>8
  <2> HIDE DEF near, p, q
  <2> QED
    BY <1>2, <1>3, <1>7, <2>5, <2>9
<1>8. p.gone > 1 \/ p.gone = 1 \/ p.gone = 0
  BY <1>2, ReturnsAre
<1> QED
  BY <1>4, <1>5, <1>6, <1>7, <1>8

AllStepped(O, i, spots, back, at) == UNION {StepProp(o, i, spots, back, at) : o \in O}

(* The props' step: whatever the draws, as many as before, apart, and paid for. *)
LEMMA StepPropsKeeps ==
    ASSUME NEW spots, NEW props \in PropsKept(spots), NEW at, DOMAIN at \subseteq Nat, NEW back \in 0..Returns,
           NEW m \in StepProps(props, spots, back, at)
    PROVE  m \in Outcomes(props, spots, at)
<1> DEFINE n == Len(props)
           S == SUBSET Outcomes(props, spots, at)
           start == {[props |-> props, takers |-> {}]}
           G == [i \in 1..n |-> [O \in S |-> AllStepped(O, i, spots, back, at)]]
           Solves(f) == f = [i \in 0..n |-> IF i = 0 THEN start ELSE AllStepped(f[i - 1], i, spots, back, at)]
           stepped == CHOOSE f : Solves(f)
<1>1. n \in Nat
  BY PropsAre
<1>2. start \in S
  BY DEF Outcomes, Paid
<1>3. m \in stepped[n]
  BY DEF StepProps, AllStepped
<1> HIDE DEF start
<1>4. \A i \in 1..n, O \in S : AllStepped(O, i, spots, back, at) \in S
  BY StepPropKeeps DEF AllStepped
<1>5. G \in [1..n -> [S -> S]] /\ \A i \in 1..n, O \in S : G[i][O] = AllStepped(O, i, spots, back, at)
  BY <1>4
<1> HIDE DEF G, S, n
<1>6. PICK f \in [0..n -> S] : Walk(f, n, start, G)
  BY <1>1, <1>2, <1>5, StepsThrough
<1>7. Solves(f)
  <2>1. \A i \in 0..n : i = 0 \/ (i \in 1..n /\ i - 1 \in 0..n)
    BY <1>1
  <2>2. \A i \in 0..n : f[i] = IF i = 0 THEN start ELSE AllStepped(f[i - 1], i, spots, back, at)
    BY <1>5, <1>6, <2>1 DEF Walk
  <2>3. f = [i \in 0..n |-> f[i]]
    OBVIOUS
  <2> QED
    BY <2>2, <2>3
<1>8. Solves(stepped)
  BY <1>7
<1> HIDE DEF stepped
<1>9. \A i \in 0..n : stepped[i] = IF i = 0 THEN start ELSE AllStepped(stepped[i - 1], i, spots, back, at)
  BY <1>8
<1> DEFINE T == {i \in 0..n : stepped[i] \in S}
<1>10. 0 \in 0..n /\ n \in 0..n
  BY <1>1
<1>11. 0 \in T
  BY <1>2, <1>9, <1>10
<1>12. ASSUME NEW i \in 1..n, i - 1 \in T PROVE i \in T
  <2>1. i \in 0..n /\ i # 0 /\ stepped[i - 1] \in S
    BY <1>1, <1>12
  <2>2. stepped[i] = AllStepped(stepped[i - 1], i, spots, back, at)
    BY <1>9, <2>1
  <2>3. stepped[i] \in S
    BY <1>4, <2>1, <2>2
  <2> QED
    BY <2>1, <2>3
<1>13. n \in T
  <2> HIDE DEF T
  <2> QED
    BY <1>1, <1>10, <1>11, <1>12, StepByStep
<1> QED
  BY <1>3, <1>13 DEF S

-----------------------------------------------------------------------------
(* The invariant of the office. *)

Occupants == [pos : Ground, walk : Ways \cup {Still}, rtt : 0..CatchRewindMax, cloud : 0..CloudFor,
              slow : 0..SlowFor, cool : 0..RedirectCooldown, online : BOOLEAN, unseen : 0..AbandonGrace]
Moments == [boss : Points, claude : Points]

OccOk(l, oc) ==
    /\ DOMAIN oc \subseteq Staff /\ IsFiniteSet(DOMAIN oc) /\ Cardinality(DOMAIN oc) <= Desks
    /\ oc \in [DOMAIN oc -> Occupants]
    /\ \A a \in DOMAIN oc : Clear(l, oc[a].pos, PlayerRadius)

MenOk(l, b, c) ==
    /\ b \in [pos : Ground, drunk : 0..DrunkFor] /\ Clear(l, b.pos, BossRadius)
    /\ c \in Ground /\ Clear(l, c, BossRadius)

(* The ring holds the last of the history, each moment where its tick puts it. *)
RingOk(ring, t, h) ==
    /\ t \in 0..(2 * TrailLen - 1) /\ h \in Seq(Moments)
    /\ DOMAIN ring = 0..(TrailLen - 1)
    /\ Len(h) = IF t < TrailLen THEN t + 1 ELSE TrailLen
    /\ \A k \in 0..(Len(h) - 1) : ring[(t - k) % TrailLen] = h[k + 1]

RedirectOk(rd) == rd \in [to : Staff \cup {None}, left : 0..RedirectFor]

(* Away and cooling go down together; what he is owed on the floor is waited for or has been had. *)
RouterOk(rt, f) ==
    /\ rt \in [away : 0..RouterFor, cool : 0..RouterCooldown] /\ f \in 0..RouterCooldown
    /\ rt.away > 0 => rt.cool - rt.away = RouterCooldown - RouterFor
    /\ rt.away = RouterFor => f > RouterCooldown - RouterFor
    /\ rt.away = 0 => f + rt.cool > RouterCooldown - RouterFor

PropsOk(bs, hs) == bs \in PropsKept(BottleSpots) /\ hs \in PropsKept(HookahSpots)

OfficeInv ==
    /\ plan \in Layouts
    /\ OccOk(plan, occ)
    /\ MenOk(plan, boss, claude)
    /\ RingOk(trail, tick, past)
    /\ RedirectOk(redirect)
    /\ RouterOk(router, onFloor)
    /\ PropsOk(bottles, hookahs)
    /\ used \in 0..Inputs

----------------------------------------------------------------------------
LEMMA SpotsAre ==
    /\ Len(BottleSpots) \in Nat /\ 1 <= Len(BottleSpots)
    /\ Len(HookahSpots) \in Nat /\ 1 <= Len(HookahSpots)
<1>1. BottleSpots \in Seq(Points) /\ BottleSpots # <<>> /\ HookahSpots \in Seq(Points) /\ HookahSpots # <<>>
  BY OfficeAssumption DEF Points
<1>2. Len(BottleSpots) # 0
  BY <1>1
<1>3. Len(HookahSpots) # 0
  BY <1>1
<1>4. Len(BottleSpots) \in Nat /\ Len(HookahSpots) \in Nat
  BY <1>1
<1> QED
  BY <1>2, <1>3, <1>4

LEMMA TrailIs == TrailLen \in Nat /\ TrailLen >= 2
<1>1. CatchRewindMax \in Nat
  BY OfficeAssumption
<1>2. CatchRewindMax \div 4 \in Nat
  BY <1>1
<1> QED
  BY <1>2 DEF TrailLen

LEMMA TimesAre ==
    /\ CatchRewindMax \in Nat /\ RenderDelay \in Nat /\ CloudFor \in Nat /\ SlowFor \in Nat
    /\ RedirectCooldown \in Nat /\ RedirectFor \in Nat /\ AbandonGrace \in Nat /\ DrunkFor \in Nat
    /\ RouterFor \in Nat /\ RouterFor # 0 /\ RouterCooldown \in Nat /\ RouterFor <= RouterCooldown
    /\ Desks \in Nat /\ Desks # 0 /\ Inputs \in Nat
BY OfficeAssumption

(* A remainder of what is less than two rounds. *)
LEMMA RoundIs ==
    ASSUME NEW n \in Nat, n >= 2, NEW x \in 0..(2 * n - 1)
    PROVE  x % n = IF x < n THEN x ELSE x - n
<1>1. CASE x < n
  BY <1>1
<1>2. CASE x >= n
  BY <1>2
<1> QED
  BY <1>1, <1>2

LEMMA RingSteps ==
    ASSUME NEW ring, NEW t, NEW h, RingOk(ring, t, h), NEW men \in Moments
    PROVE  RingOk([ring EXCEPT ![Later(t) % TrailLen] = men], Later(t),
                  SubSeq(<<men>> \o h, 1, Lower(TrailLen, Len(h) + 1)))
<1> DEFINE n == TrailLen
           t2 == Later(t)
           full == <<men>> \o h
           m == Lower(n, Len(h) + 1)
           h2 == SubSeq(full, 1, m)
           at2 == t2 % n
           ring2 == [ring EXCEPT ![at2] = men]
           Round(x) == IF x < n THEN x ELSE x - n
<1>1. n \in Nat /\ n >= 2
  BY TrailIs
<1>2. /\ t \in 0..(2 * n - 1) /\ h \in Seq(Moments) /\ Len(h) \in Nat
      /\ DOMAIN ring = 0..(n - 1)
      /\ Len(h) = IF t < n THEN t + 1 ELSE n
      /\ \A k \in 0..(Len(h) - 1) : ring[(t - k) % n] = h[k + 1]
  BY DEF RingOk
<1>3. t2 = IF t = 2 * n - 1 THEN n ELSE t + 1
  BY DEF Later
<1> HIDE DEF n
<1> HIDE DEF t2
<1>4. t2 \in 0..(2 * n - 1) /\ t2 \in Nat
  <2>1. t \in Nat /\ t <= 2 * n - 1
    BY <1>1, <1>2
  <2>2. CASE t = 2 * n - 1
    <3>1. t2 = n
      BY <1>3, <2>2
    <3> QED
      BY <1>1, <3>1
  <2>3. CASE t # 2 * n - 1
    <3>1. t2 = t + 1
      BY <1>3, <2>3
    <3> QED
      BY <1>1, <2>1, <2>3, <3>1
  <2> QED
    BY <2>2, <2>3
<1>5. at2 = Round(t2) /\ at2 \in 0..(n - 1)
  <2>1. at2 = Round(t2)
    BY <1>1, <1>4, RoundIs
  <2> HIDE DEF at2
  <2> QED
    BY <1>1, <1>4, <2>1
<1>6. \A x \in 0..(2 * n - 1) : x % n = Round(x)
  BY <1>1, RoundIs
<1>7. /\ full \in Seq(Moments) /\ Len(full) = Len(h) + 1
      /\ full[1] = men /\ \A i \in 1..Len(h) : full[i + 1] = h[i]
  <2>1. <<men>> \in Seq(Moments) /\ Len(<<men>>) = 1 /\ <<men>>[1] = men
    OBVIOUS
  <2>2. PICK one : one = <<men>>
    OBVIOUS
  <2>3. one \in Seq(Moments) /\ Len(one) = 1 /\ one[1] = men
    BY <2>1, <2>2
  <2>4. /\ one \o h \in Seq(Moments) /\ Len(one \o h) = Len(one) + Len(h)
        /\ \A i \in 1..(Len(one) + Len(h)) : (one \o h)[i] = IF i <= Len(one) THEN one[i] ELSE h[i - Len(one)]
    BY <1>2, <2>3, ConcatProperties
  <2>5. full = one \o h
    BY <2>2
  <2> HIDE DEF full
  <2>6. 1 \in 1..(Len(one) + Len(h)) /\ \A i \in 1..Len(h) : i + 1 \in 1..(Len(one) + Len(h)) /\ ~(i + 1 <= 1) /\ (i + 1) - 1 = i
    BY <1>2, <2>3
  <2>7. full \in Seq(Moments) /\ Len(full) = Len(h) + 1
    BY <1>2, <2>3, <2>4, <2>5
  <2>8. full[1] = men
    BY <2>3, <2>4, <2>5, <2>6
  <2>9. ASSUME NEW i \in 1..Len(h) PROVE full[i + 1] = h[i]
    <3>1. i + 1 \in 1..(Len(one) + Len(h)) /\ ~(i + 1 <= Len(one)) /\ (i + 1) - Len(one) = i
      BY <2>3, <2>6
    <3> QED
      BY <2>4, <2>5, <3>1
  <2> QED
    BY <2>7, <2>8, <2>9
<1> HIDE DEF full
<1>8. m \in 1..Len(full) /\ m = IF t2 < n THEN t2 + 1 ELSE n
  <2>1. m = IF n < Len(h) + 1 THEN n ELSE Len(h) + 1
    BY DEF Lower
  <2> HIDE DEF m
  <2>2. PICK k \in Nat, tt \in Nat, c \in Nat : k = Len(h) /\ tt = t /\ c = Len(full) /\ c = k + 1
    BY <1>1, <1>2, <1>7
  <2>3. k = IF tt < n THEN tt + 1 ELSE n
    BY <1>2, <2>2
  <2>4. t2 = IF tt = 2 * n - 1 THEN n ELSE tt + 1
    BY <1>3, <2>2
  <2>5. m = IF n < k + 1 THEN n ELSE k + 1
    BY <2>1, <2>2
  <2>6. m \in 1..c
    BY <1>1, <2>2, <2>3, <2>5
  <2>7. CASE tt < n
    <3>1. t2 = tt + 1
      BY <1>1, <2>4, <2>7
    <3> QED
      BY <1>1, <2>2, <2>3, <2>5, <2>6, <2>7, <3>1
  <2>8. CASE ~(tt < n)
    <3>1. k = n /\ m = n /\ ~(t2 < n)
      BY <1>1, <2>3, <2>4, <2>5, <2>8
    <3> QED
      BY <2>2, <2>6, <3>1
  <2> QED
    BY <2>7, <2>8
<1> HIDE DEF m
<1>9. h2 \in Seq(Moments) /\ Len(h2) = m /\ \A i \in 1..m : h2[i] = full[i]
  <2>1. m \in Nat /\ \A i \in 1..m : i \in 1..Len(full)
    BY <1>7, <1>8, <1>2, SMTT(30)
  <2> QED
    BY <1>7, <1>8, <2>1
<1> HIDE DEF h2, at2
<1>10. DOMAIN ring2 = 0..(n - 1) /\ ring2[at2] = men /\ \A x \in 0..(n - 1) : x # at2 => ring2[x] = ring[x]
  BY <1>2, <1>5
<1> HIDE DEF ring2
<1>11. ASSUME NEW k \in 0..(m - 1) PROVE ring2[(t2 - k) % n] = h2[k + 1]
  <2>1. m \in Nat /\ k \in Nat /\ k < m /\ k + 1 \in 1..m /\ m >= 1
    <3>1. m \in 1..Len(full) /\ Len(full) \in Nat
      BY <1>2, <1>7, <1>8
    <3>2. m \in Nat /\ m >= 1
      BY <3>1
    <3>3. k \in Nat /\ k < m
      BY <3>2
    <3> QED
      BY <3>2, <3>3
  <2>2. t2 - k \in 0..(2 * n - 1)
    BY <1>1, <1>4, <1>8, <2>1
  <2>3. CASE k = 0
    <3>1. (t2 - k) % n = at2
      BY <1>4, <2>3 DEF at2
    <3>2. h2[k + 1] = men
      BY <1>7, <1>9, <2>1, <2>3
    <3> QED
      BY <1>10, <3>1, <3>2
  <2>4. CASE k # 0
    <3>1. k - 1 \in 0..(Len(h) - 1) /\ k \in 1..Len(h)
      <4>1. PICK q \in Nat : q = Len(h) /\ m <= q + 1
        BY <1>2, <1>7, <1>8
      <4>2. k <= q /\ k >= 1
        BY <2>1, <2>4, <4>1
      <4> QED
        BY <2>1, <4>1, <4>2
    <3>2. h2[k + 1] = h[k]
      BY <1>7, <1>9, <2>1, <3>1
    <3>3. ring[(t - (k - 1)) % n] = h[k]
      <4>1. (k - 1) + 1 = k
        BY <2>1
      <4> QED
        BY <1>2, <3>1, <4>1
    <3>4. t - (k - 1) \in 0..(2 * n - 1)
      BY <1>1, <1>2, <2>1, <3>1
    <3>5. PICK u \in Int, v \in Int : u = t2 - k /\ v = t - (k - 1)
      BY <2>2, <3>4
    <3>6. u % n = Round(u) /\ v % n = Round(v)
      BY <1>6, <2>2, <3>4, <3>5
    <3>7. Round(u) = Round(v) /\ Round(u) # Round(t2) /\ Round(u) \in 0..(n - 1)
      BY <1>1, <1>2, <1>3, <1>4, <1>8, <2>1, <2>2, <2>4, <3>4, <3>5
    <3>8. ring2[u % n] = ring[v % n]
      BY <1>5, <1>10, <3>6, <3>7
    <3> QED
      BY <3>2, <3>3, <3>5, <3>8
  <2> QED
    BY <2>3, <2>4
<1>12. RingOk(ring2, t2, h2)
  BY <1>4, <1>8, <1>9, <1>10, <1>11 DEF RingOk, n
<1> QED
  BY <1>12 DEF ring2, t2, h2, at2, full, m, n

(* The rewind asks of the ring what it holds. *)
LEMMA RingAnswers ==
    ASSUME NEW ring, NEW t, NEW h, RingOk(ring, t, h), NEW rtt \in Nat
    PROVE  SeenBy(rtt, t, ring) = h[Lower(((Lower(rtt + RenderDelay, CatchRewindMax) + 2) \div 4) + 1, Len(h))]
<1> DEFINE d == Lower(rtt + RenderDelay, CatchRewindMax) + 2
<1>1. d \in Nat
  BY TimesAre DEF Lower
<1> HIDE DEF d
<1>2. PICK back \in Nat : back = d \div 4
  BY <1>1
<1>3. PICK n \in Nat : n = TrailLen /\ n >= 2
  BY TrailIs
<1>4. t \in 0..(2 * n - 1) /\ Len(h) = (IF t < n THEN t + 1 ELSE n)
  BY <1>3 DEF RingOk
<1>5. PICK k \in Int : k = Lower(Lower(back, n - 1), t)
  BY <1>3, <1>4 DEF Lower
<1>6. k \in 0..(Len(h) - 1) /\ k + 1 = Lower(back + 1, Len(h))
  BY <1>3, <1>4, <1>5 DEF Lower
<1>7. Rewind(rtt, t) = k
  BY <1>2, <1>3, <1>5 DEF Rewind, d
<1>8. ring[(t - k) % n] = h[k + 1]
  BY <1>3, <1>6 DEF RingOk
<1>9. SeenBy(rtt, t, ring) = h[Lower(back + 1, Len(h))]
  BY <1>3, <1>6, <1>7, <1>8 DEF SeenBy
<1> QED
  BY <1>2, <1>9 DEF d

(* The router's timers keep what Claude is owed, and never start his absence again. *)
LEMMA RouterTicks ==
    ASSUME NEW rt, NEW f, RouterOk(rt, f), NEW rt2, NEW f2,
           rt2 = [away |-> Down(rt.away), cool |-> Down(rt.cool)],
           f2 = IF rt.away > 1 THEN 0 ELSE Lower(RouterCooldown, f + 1)
    PROVE  RouterOk(rt2, f2) /\ rt2.away # RouterFor
<1>1. /\ rt.away \in 0..RouterFor /\ rt.cool \in 0..RouterCooldown /\ f \in 0..RouterCooldown
      /\ rt.away > 0 => rt.cool - rt.away = RouterCooldown - RouterFor
      /\ rt.away = 0 => f + rt.cool > RouterCooldown - RouterFor
  BY DEF RouterOk
<1>2. PICK F \in Nat, C \in Nat : F = RouterFor /\ C = RouterCooldown /\ F # 0 /\ F <= C
  BY TimesAre
<1>3. PICK a \in 0..F, c \in 0..C : a = rt.away /\ c = rt.cool
  BY <1>1, <1>2
<1>4. rt2.away = Down(a) /\ rt2.cool = Down(c)
  BY <1>3
<1>5. Down(a) = (IF a = 0 THEN 0 ELSE a - 1) /\ Down(c) = (IF c = 0 THEN 0 ELSE c - 1)
  BY DEF Down, Upper
<1>6. f2 = IF a > 1 THEN 0 ELSE IF C < f + 1 THEN C ELSE f + 1
  BY <1>2, <1>3 DEF Lower
<1>7. f \in 0..C /\ (a > 0 => c - a = C - F) /\ (a = 0 => f + c > C - F)
  BY <1>1, <1>2, <1>3
<1>8. rt2.away \in 0..F /\ rt2.cool \in 0..C /\ f2 \in 0..C /\ rt2.away # F
  BY <1>2, <1>4, <1>5, <1>6, <1>7
<1>9. rt2.away > 0 => rt2.cool - rt2.away = C - F
  BY <1>2, <1>4, <1>5, <1>7
<1>10. rt2.away = 0 => f2 + rt2.cool > C - F
  BY <1>2, <1>4, <1>5, <1>6, <1>7
<1>11. rt2 \in [away : 0..F, cool : 0..C]
  BY <1>4, <1>8
<1> QED
  BY <1>2, <1>8, <1>9, <1>10, <1>11 DEF RouterOk

(* An office that has just been opened is in order. *)
LEMMA OpenedIs ==
    ASSUME NEW l \in Layouts, NEW b, NEW c, NEW t, NEW ring, NEW rd, NEW rt, NEW bs, NEW hs, NEW h, NEW f,
           Opened(b, c, t, ring, rd, rt, bs, hs, h, f)
    PROVE  /\ MenOk(l, b, c) /\ RingOk(ring, t, h) /\ RedirectOk(rd)
           /\ RouterOk(rt, f) /\ rt.away # RouterFor /\ PropsOk(bs, hs)
<1>1. BossSpawn \in FixedPoints /\ ChaserSpawn \in FixedPoints
      /\ ClampToFloor(BossSpawn, BossRadius) = BossSpawn /\ ClampToFloor(ChaserSpawn, BossRadius) = ChaserSpawn
  BY OfficeAssumption
<1>2. BossSpawn \in Points /\ Clear(l, BossSpawn, BossRadius) /\ ChaserSpawn \in Points /\ Clear(l, ChaserSpawn, BossRadius)
  BY <1>1, LayoutIs, SpotIsClear
<1>3. BossSpawn \in Ground /\ ChaserSpawn \in Ground
  BY <1>2, RadiiFit, ClearIsGround
<1>4. MenOk(l, b, c)
  <2>1. b = [pos |-> BossSpawn, drunk |-> 0] /\ c = ChaserSpawn
    BY DEF Opened
  <2>2. 0 \in 0..DrunkFor
    BY TimesAre
  <2> QED
    BY <1>2, <1>3, <2>1, <2>2 DEF MenOk
<1>5. RingOk(ring, t, h)
  <2>1. /\ t = 0 /\ h = <<Men>>
        /\ ring = [i \in 0..(TrailLen - 1) |-> IF i = 0 THEN Men ELSE [boss |-> <<0, 0>>, claude |-> <<0, 0>>]]
    BY DEF Opened
  <2>2. Men \in Moments
    BY <1>2 DEF Men, Moments
  <2>3. h \in Seq(Moments) /\ Len(h) = 1 /\ h[1] = Men
    BY <2>1, <2>2
  <2>4. DOMAIN ring = 0..(TrailLen - 1) /\ ring[0] = Men /\ 0 \in 0..(2 * TrailLen - 1) /\ 0 < TrailLen
    BY <2>1, TrailIs
  <2>5. (t - 0) % TrailLen = 0
    BY <2>1, TrailIs, RoundIs
  <2>6. ASSUME NEW k \in 0..(Len(h) - 1) PROVE ring[(t - k) % TrailLen] = h[k + 1]
    <3>1. k = 0 /\ k + 1 = 1
      BY <2>3
    <3> QED
      BY <2>3, <2>4, <2>5, <3>1
  <2>7. t < TrailLen /\ t + 1 = 1 /\ t \in 0..(2 * TrailLen - 1)
    BY <2>1, <2>4
  <2>8. Len(h) = IF t < TrailLen THEN t + 1 ELSE TrailLen
    BY <2>3, <2>7
  <2> QED
    BY <2>3, <2>4, <2>6, <2>7, <2>8 DEF RingOk
<1>6. RedirectOk(rd)
  <2>1. rd = [to |-> None, left |-> 0]
    BY DEF Opened
  <2>2. 0 \in 0..RedirectFor
    BY TimesAre
  <2> QED
    BY <2>1, <2>2 DEF RedirectOk
<1>7. RouterOk(rt, f) /\ rt.away # RouterFor
  <2>1. rt = [away |-> 0, cool |-> 0] /\ f = RouterCooldown
    BY DEF Opened
  <2> QED
    BY <2>1, TimesAre DEF RouterOk
<1>8. PropsOk(bs, hs)
  <2>1. bs = <<[spot |-> 1, gone |-> 0]>> /\ hs = <<[spot |-> 1, gone |-> 0]>>
    BY DEF Opened
  <2>2. [spot |-> 1, gone |-> 0] \in PropOn(BottleSpots) /\ [spot |-> 1, gone |-> 0] \in PropOn(HookahSpots)
    BY SpotsAre, ReturnsAre DEF PropOn
  <2>3. bs \in Seq(PropOn(BottleSpots)) /\ Len(bs) = 1 /\ hs \in Seq(PropOn(HookahSpots)) /\ Len(hs) = 1
    BY <2>1, <2>2
  <2>4. \A i, j \in 1..1 : i = j
    OBVIOUS
  <2> QED
    BY <2>3, <2>4, KeptIf DEF PropsOk
<1> QED
  BY <1>4, <1>5, <1>6, <1>7, <1>8

-----------------------------------------------------------------------------
(* The calls of the clients. *)

LEMMA OccupantIs ==
    ASSUME NEW o \in Occupants
    PROVE  /\ o.pos \in Ground /\ o.pos \in Points /\ o.walk \in Ways \cup {Still}
           /\ o.rtt \in 0..CatchRewindMax /\ o.cloud \in 0..CloudFor /\ o.slow \in 0..SlowFor
           /\ o.cool \in 0..RedirectCooldown /\ o.online \in BOOLEAN /\ o.unseen \in 0..AbandonGrace
<1>1. /\ o.pos \in Ground /\ o.walk \in Ways \cup {Still}
      /\ o.rtt \in 0..CatchRewindMax /\ o.cloud \in 0..CloudFor /\ o.slow \in 0..SlowFor
      /\ o.cool \in 0..RedirectCooldown /\ o.online \in BOOLEAN /\ o.unseen \in 0..AbandonGrace
  BY Zenon DEF Occupants
<1> QED
  BY <1>1, GroundIsPoints

LEMMA OccupantMade ==
    ASSUME NEW p \in Ground, NEW w \in Ways \cup {Still}, NEW r \in 0..CatchRewindMax,
           NEW k \in 0..CloudFor, NEW s \in 0..SlowFor, NEW c \in 0..RedirectCooldown,
           NEW on \in BOOLEAN, NEW u \in 0..AbandonGrace
    PROVE  [pos |-> p, walk |-> w, rtt |-> r, cloud |-> k, slow |-> s, cool |-> c, online |-> on,
            unseen |-> u] \in Occupants
BY Zenon DEF Occupants

LEMMA NobodyIs == ASSUME NEW l PROVE OccOk(l, <<>>)
<1>1. DOMAIN <<>> = {}
  OBVIOUS
<1>2. IsFiniteSet({}) /\ Cardinality({}) = 0 /\ 0 <= Desks
  BY FS_EmptySet, TimesAre
<1>3. <<>> \in [DOMAIN <<>> -> Occupants]
  BY <1>1
<1> QED
  BY <1>1, <1>2, <1>3 DEF OccOk

LEMMA OccChanged ==
    ASSUME NEW l, NEW oc, OccOk(l, oc), NEW a \in DOMAIN oc, NEW o \in Occupants, o.pos = oc[a].pos,
           NEW oc2, oc2 = [oc EXCEPT ![a] = o]
    PROVE  OccOk(l, oc2)
<1>1. /\ DOMAIN oc \subseteq Staff /\ IsFiniteSet(DOMAIN oc) /\ Cardinality(DOMAIN oc) <= Desks
      /\ oc \in [DOMAIN oc -> Occupants]
      /\ \A b \in DOMAIN oc : Clear(l, oc[b].pos, PlayerRadius)
  BY DEF OccOk
<1>2. DOMAIN oc2 = DOMAIN oc /\ oc2 \in [DOMAIN oc -> Occupants]
  BY <1>1
<1>3. oc2[a] = o /\ \A b \in DOMAIN oc : b # a => oc2[b] = oc[b]
  BY <1>1
<1>4. \A b \in DOMAIN oc2 : Clear(l, oc2[b].pos, PlayerRadius)
  BY <1>1, <1>2, <1>3
<1> QED
  BY <1>1, <1>2, <1>4 DEF OccOk

(* Fewer people are no harder to keep in order. *)
LEMMA OccFewer ==
    ASSUME NEW l, NEW oc, OccOk(l, oc), NEW left \in SUBSET DOMAIN oc,
           NEW oc2, oc2 = [b \in left |-> oc[b]]
    PROVE  OccOk(l, oc2)
<1>1. /\ DOMAIN oc \subseteq Staff /\ IsFiniteSet(DOMAIN oc) /\ Cardinality(DOMAIN oc) <= Desks
      /\ oc \in [DOMAIN oc -> Occupants]
      /\ \A b \in DOMAIN oc : Clear(l, oc[b].pos, PlayerRadius)
  BY DEF OccOk
<1>2. DOMAIN oc2 = left /\ oc2 \in [left -> Occupants]
  BY <1>1
<1>3. IsFiniteSet(left) /\ Cardinality(left) <= Desks
  <2>1. IsFiniteSet(left) /\ Cardinality(left) <= Cardinality(DOMAIN oc)
    BY <1>1, FS_Subset
  <2>2. Cardinality(left) \in Nat /\ Cardinality(DOMAIN oc) \in Nat
    BY <1>1, <2>1, FS_CardinalityType
  <2> QED
    BY <1>1, <2>1, <2>2, TimesAre
<1> QED
  BY <1>1, <1>2, <1>3 DEF OccOk

(* One more is, as long as there is a desk. *)
LEMMA OccJoined ==
    ASSUME NEW l, NEW oc, OccOk(l, oc), NEW a \in Staff, a \notin DOMAIN oc, Cardinality(DOMAIN oc) < Desks,
           NEW o \in Occupants, Clear(l, o.pos, PlayerRadius), NEW oc2, oc2 = [b \in DOMAIN oc \cup {a} |-> IF b \in DOMAIN oc THEN oc[b] ELSE o]
    PROVE  OccOk(l, oc2)
<1>1. /\ DOMAIN oc \subseteq Staff /\ IsFiniteSet(DOMAIN oc)
      /\ oc \in [DOMAIN oc -> Occupants]
      /\ \A b \in DOMAIN oc : Clear(l, oc[b].pos, PlayerRadius)
  BY DEF OccOk
<1>3. DOMAIN oc2 = DOMAIN oc \cup {a} /\ oc2 \in [DOMAIN oc \cup {a} -> Occupants]
  BY <1>1
<1>4. \A b \in DOMAIN oc2 : Clear(l, oc2[b].pos, PlayerRadius)
  BY <1>1
<1>5. IsFiniteSet(DOMAIN oc \cup {a}) /\ Cardinality(DOMAIN oc \cup {a}) <= Desks
  <2>1. PICK D : D = DOMAIN oc
    OBVIOUS
  <2>2. IsFiniteSet(D \cup {a}) /\ Cardinality(D \cup {a}) = Cardinality(D) + 1
    BY <1>1, <2>1, FS_AddElement
  <2>3. Cardinality(D) \in Nat
    BY <1>1, <2>1, FS_CardinalityType
  <2> QED
    BY <2>1, <2>2, <2>3, TimesAre
<1> QED
  BY <1>1, <1>3, <1>4, <1>5 DEF OccOk

----------------------------------------------------------------------------
(* An action that touches neither the men nor the clocks nor the props. *)
LEMMA OnlyPeople ==
    ASSUME OfficeInv, OccOk(plan, occ'), used' \in 0..Inputs,
           UNCHANGED <<plan, boss, claude, tick, trail, redirect, router, bottles, hookahs, past, onFloor>>
    PROVE  OfficeInv'
BY DEF OfficeInv

LEMMA SpendIs == ASSUME OfficeInv, Spend PROVE used' \in 0..Inputs
<1>1. used \in 0..Inputs /\ Inputs \in Nat /\ used < Inputs /\ used' = used + 1
  BY TimesAre DEF OfficeInv, Spend
<1> QED
  BY <1>1

LEMMA JoinsKeep == ASSUME OfficeInv, NEW a \in Staff, Joins(a) PROVE OfficeInv'
<1>1. PICK draws \in [1..SpawnTries -> SpawnPoints] :
        occ' = [b \in Here \cup {a} |->
                    IF b \in Here THEN occ[b]
                    ELSE [pos |-> SpawnPoint(draws), walk |-> Still, rtt |-> 0, cloud |-> 0,
                          slow |-> 0, cool |-> 0, online |-> TRUE, unseen |-> 0]]
  BY DEF Joins
<1>2. plan \in Layouts /\ boss.pos \in Points /\ OccOk(plan, occ)
  <2>1. plan \in Layouts /\ OccOk(plan, occ) /\ boss \in [pos : Ground, drunk : 0..DrunkFor]
    BY DEF OfficeInv, MenOk
  <2> QED
    BY <2>1, GroundIsPoints
<1>3. PICK at : at = SpawnPoint(draws)
  OBVIOUS
<1>4. at \in Points /\ Clear(plan, at, PlayerRadius)
  BY <1>2, <1>3, SpawnIs
<1>5. at \in Ground
  BY <1>4, RadiiFit, ClearIsGround
<1>6. PICK o : o = [pos |-> at, walk |-> Still, rtt |-> 0, cloud |-> 0,
                    slow |-> 0, cool |-> 0, online |-> TRUE, unseen |-> 0]
  OBVIOUS
<1>7. o \in Occupants /\ o.pos = at
  <2>1. /\ 0 \in 0..CatchRewindMax /\ 0 \in 0..CloudFor /\ 0 \in 0..SlowFor /\ 0 \in 0..RedirectCooldown
        /\ 0 \in 0..AbandonGrace
    BY TimesAre
  <2>2. Still \in Ways \cup {Still} /\ TRUE \in BOOLEAN
    OBVIOUS
  <2> QED
    BY <1>5, <1>6, <2>1, <2>2, OccupantMade
<1>8. occ' = [b \in DOMAIN occ \cup {a} |-> IF b \in DOMAIN occ THEN occ[b] ELSE o] /\ a \notin DOMAIN occ /\ Cardinality(DOMAIN occ) < Desks
  BY <1>1, <1>3, <1>6 DEF Joins, Here
<1>9. OccOk(plan, occ')
  <2>1. PICK oc2 : oc2 = occ'
    OBVIOUS
  <2>2. OccOk(plan, oc2)
    BY <1>2, <1>4, <1>7, <1>8, <2>1, OccJoined, SMTT(30)
  <2> QED
    BY <2>1, <2>2
<1> QED
  BY <1>9, SpendIs, OnlyPeople DEF Joins

LEMMA EnqueueKeeps ==
    ASSUME OfficeInv, NEW a \in Staff, NEW lag \in Lags \cup {NoLag}, NEW way \in Ways \cup {Still},
           Enqueue(a, lag, way)
    PROVE  OfficeInv'
<1> DEFINE R == CASE lag = NoLag -> occ[a].rtt
                  [] lag # NoLag /\ occ[a].rtt = 0 -> Sample(lag)
                  [] OTHER -> (occ[a].rtt * 3 + Sample(lag)) \div 4
           W == IF way = Still THEN occ[a].walk ELSE way
           o == [occ[a] EXCEPT !.rtt = R, !.walk = W, !.unseen = 0]
<1>1. OccOk(plan, occ) /\ a \in DOMAIN occ
  BY DEF OfficeInv, Enqueue, Here
<1>2. occ \in [DOMAIN occ -> Occupants] /\ occ[a] \in Occupants
  BY <1>1 DEF OccOk
<1>3. R \in 0..CatchRewindMax
  <2>1. occ[a].rtt \in 0..CatchRewindMax /\ CatchRewindMax \in Nat
    BY <1>2, OccupantIs, TimesAre
  <2>2. CASE lag = NoLag
    BY <2>1, <2>2
  <2>3. CASE lag # NoLag
    <3>1. lag \in Nat
      BY <2>3, OfficeAssumption
    <3>2. Sample(lag) \in 0..CatchRewindMax
      BY <2>1, <3>1 DEF Sample, Lower
    <3>3. PICK s \in 0..CatchRewindMax, r \in 0..CatchRewindMax : s = Sample(lag) /\ r = occ[a].rtt
      BY <2>1, <3>2
    <3>4. (r * 3 + s) \div 4 \in 0..CatchRewindMax
      BY <2>1
    <3>5. R \in {Sample(lag), (occ[a].rtt * 3 + Sample(lag)) \div 4}
      BY <2>3
    <3> QED
      BY <3>2, <3>3, <3>4, <3>5
  <2> QED
    BY <2>2, <2>3
<1>4. W \in Ways \cup {Still}
  BY <1>2, OccupantIs
<1>5. occ' = [occ EXCEPT ![a].rtt = R, ![a].walk = W, ![a].unseen = 0]
  BY DEF Enqueue
<1> HIDE DEF R, W
<1>6. occ' = [occ EXCEPT ![a] = o]
  BY <1>1, <1>2, <1>5
<1>7. PICK p \in Occupants : p = occ[a]
  BY <1>2
<1>8. p = [pos |-> p.pos, walk |-> p.walk, rtt |-> p.rtt, cloud |-> p.cloud, slow |-> p.slow,
           cool |-> p.cool, online |-> p.online, unseen |-> p.unseen]
  BY DEF Occupants
<1>9. o = [pos |-> p.pos, walk |-> W, rtt |-> R, cloud |-> p.cloud, slow |-> p.slow,
           cool |-> p.cool, online |-> p.online, unseen |-> 0]
  <2>1. o = [p EXCEPT !.rtt = R, !.walk = W, !.unseen = 0]
    BY <1>7
  <2> HIDE DEF o
  <2>2. PICK pp, ww, kk, ss, cc, nn, rr, uu :
          /\ pp = p.pos /\ ww = p.walk /\ kk = p.cloud /\ ss = p.slow /\ cc = p.cool /\ nn = p.online
          /\ rr = p.rtt /\ uu = p.unseen
    OBVIOUS
  <2>3. p = [pos |-> pp, walk |-> ww, rtt |-> rr, cloud |-> kk, slow |-> ss, cool |-> cc, online |-> nn,
             unseen |-> uu]
    BY <1>8, <2>2
  <2>4. o = [pos |-> pp, walk |-> W, rtt |-> R, cloud |-> kk, slow |-> ss, cool |-> cc, online |-> nn,
             unseen |-> 0]
    BY <2>1, <2>3
  <2> QED
    BY <2>2, <2>4
<1> HIDE DEF o
<1>10. o \in Occupants /\ o.pos = occ[a].pos
  <2>1. 0 \in 0..AbandonGrace
    BY TimesAre
  <2>2. o \in Occupants
    BY <1>3, <1>4, <1>9, <2>1, OccupantIs, OccupantMade
  <2> QED
    BY <1>7, <1>9, <2>2
<1>11. OccOk(plan, occ')
  <2>1. PICK oc2 : oc2 = occ'
    OBVIOUS
  <2>2. OccOk(plan, oc2)
    BY <1>1, <1>6, <1>10, <2>1, OccChanged
  <2> QED
    BY <2>1, <2>2
<1> QED
  BY <1>11, SpendIs, OnlyPeople DEF Enqueue

LEMMA GoesQuietKeeps == ASSUME OfficeInv, NEW a \in Staff, GoesQuiet(a) PROVE OfficeInv'
<1>1. OccOk(plan, occ) /\ a \in DOMAIN occ
  BY DEF OfficeInv, GoesQuiet, Here
<1>2. occ \in [DOMAIN occ -> Occupants] /\ occ[a] \in Occupants
  BY <1>1 DEF OccOk
<1>3. PICK p \in Occupants : p = occ[a]
  BY <1>2
<1>4. p = [pos |-> p.pos, walk |-> p.walk, rtt |-> p.rtt, cloud |-> p.cloud, slow |-> p.slow,
           cool |-> p.cool, online |-> p.online, unseen |-> p.unseen]
  BY DEF Occupants
<1>5. PICK o : o = [pos |-> p.pos, walk |-> p.walk, rtt |-> p.rtt, cloud |-> p.cloud, slow |-> p.slow,
                    cool |-> p.cool, online |-> FALSE, unseen |-> p.unseen]
  OBVIOUS
<1>6. o \in Occupants /\ o.pos = occ[a].pos
  <2>1. FALSE \in BOOLEAN
    OBVIOUS
  <2>2. o \in Occupants
    BY <1>5, <2>1, OccupantIs, OccupantMade
  <2> QED
    BY <1>3, <1>5, <2>2
<1>7. occ' = [occ EXCEPT ![a] = o]
  <2>1. occ' = [occ EXCEPT ![a].online = FALSE]
    BY DEF GoesQuiet
  <2>2. occ' = [occ EXCEPT ![a] = [p EXCEPT !.online = FALSE]]
    BY <1>3, <2>1
  <2>3. [p EXCEPT !.online = FALSE] = o
    <3>1. PICK pp, ww, kk, ss, cc, nn, rr, uu, no :
            /\ pp = p.pos /\ ww = p.walk /\ kk = p.cloud /\ ss = p.slow /\ cc = p.cool /\ nn = p.online
            /\ rr = p.rtt /\ uu = p.unseen /\ no = FALSE
      OBVIOUS
    <3>2. p = [pos |-> pp, walk |-> ww, rtt |-> rr, cloud |-> kk, slow |-> ss, cool |-> cc, online |-> nn,
               unseen |-> uu]
      BY <1>4, <3>1
    <3>3. [p EXCEPT !.online = no] = [pos |-> pp, walk |-> ww, rtt |-> rr, cloud |-> kk, slow |-> ss,
                                      cool |-> cc, online |-> no, unseen |-> uu]
      BY <3>2
    <3> QED
      BY <1>5, <3>1, <3>3, Zenon
  <2> QED
    BY <2>2, <2>3
<1>8. OccOk(plan, occ')
  <2>1. PICK oc2 : oc2 = occ'
    OBVIOUS
  <2>2. OccOk(plan, oc2)
    BY <1>1, <1>6, <1>7, <2>1, OccChanged
  <2> QED
    BY <2>1, <2>2
<1> QED
  BY <1>8, SpendIs, OnlyPeople DEF GoesQuiet

LEMMA RedirectKeeps == ASSUME OfficeInv, NEW a \in Staff, NEW b \in Staff, Redirect(a, b) PROVE OfficeInv'
<1>1. OccOk(plan, occ) /\ a \in DOMAIN occ
  BY DEF OfficeInv, Redirect, Here
<1>2. occ \in [DOMAIN occ -> Occupants] /\ occ[a] \in Occupants
  BY <1>1 DEF OccOk
<1>3. PICK p \in Occupants : p = occ[a]
  BY <1>2
<1>4. p = [pos |-> p.pos, walk |-> p.walk, rtt |-> p.rtt, cloud |-> p.cloud, slow |-> p.slow,
           cool |-> p.cool, online |-> p.online, unseen |-> p.unseen]
  BY DEF Occupants
<1>5. PICK o : o = [pos |-> p.pos, walk |-> p.walk, rtt |-> p.rtt, cloud |-> p.cloud, slow |-> p.slow,
                    cool |-> RedirectCooldown, online |-> p.online, unseen |-> p.unseen]
  OBVIOUS
<1>6. o \in Occupants /\ o.pos = occ[a].pos
  <2>1. RedirectCooldown \in 0..RedirectCooldown
    BY TimesAre
  <2>2. o \in Occupants
    BY <1>5, <2>1, OccupantIs, OccupantMade
  <2> QED
    BY <1>3, <1>5, <2>2
<1>7. occ' = [occ EXCEPT ![a] = o]
  <2>1. occ' = [occ EXCEPT ![a].cool = RedirectCooldown]
    BY DEF Redirect
  <2>2. occ' = [occ EXCEPT ![a] = [p EXCEPT !.cool = RedirectCooldown]]
    BY <1>3, <2>1
  <2>3. [p EXCEPT !.cool = RedirectCooldown] = o
    BY <1>4, <1>5
  <2> QED
    BY <2>2, <2>3
<1>8. OccOk(plan, occ')
  <2>1. PICK oc2 : oc2 = occ'
    OBVIOUS
  <2>2. OccOk(plan, oc2)
    BY <1>1, <1>6, <1>7, <2>1, OccChanged
  <2> QED
    BY <2>1, <2>2
<1>9. RedirectOk(redirect')
  <2>1. redirect' = [to |-> b, left |-> RedirectFor] /\ RedirectFor \in 0..RedirectFor
    BY TimesAre DEF Redirect
  <2> QED
    BY <2>1 DEF RedirectOk
<1>10. used' \in 0..Inputs
  BY SpendIs DEF Redirect
<1> QED
  BY <1>8, <1>9, <1>10 DEF Redirect, OfficeInv

LEMMA RouterDownKeeps ==
    ASSUME OfficeInv, NEW a \in Staff, RouterDown(a)
    PROVE  OfficeInv' /\ onFloor > RouterCooldown - RouterFor
<1>1. RouterOk(router, onFloor)
  BY DEF OfficeInv
<1>2. router.cool = 0 /\ router.away = 0 /\ router' = [away |-> RouterFor, cool |-> RouterCooldown] /\ onFloor' = onFloor
  BY DEF RouterDown
<1>3. onFloor \in 0..RouterCooldown /\ onFloor > RouterCooldown - RouterFor
  BY <1>1, <1>2 DEF RouterOk
<1>4. RouterOk(router', onFloor')
  <2>1. router'.away = RouterFor /\ router'.cool = RouterCooldown /\ router'.away # 0
    BY <1>2, TimesAre
  <2>2. router' \in [away : 0..RouterFor, cool : 0..RouterCooldown]
    BY <1>2, TimesAre
  <2> QED
    BY <1>2, <1>3, <2>1, <2>2 DEF RouterOk
<1>5. used' \in 0..Inputs
  BY SpendIs DEF RouterDown
<1> QED
  BY <1>3, <1>4, <1>5 DEF RouterDown, OfficeInv

LEMMA DroppedKeeps ==
    ASSUME OfficeInv, Dropped, used' \in 0..Inputs
    PROVE  OfficeInv' /\ router'.away # RouterFor
<1>1. PICK l \in Layouts : l = plan
  BY DEF OfficeInv
<1>2. PICK b, c, t, ring, rd, rt, bs, hs, h, f :
        /\ b = boss' /\ c = claude' /\ t = tick' /\ ring = trail' /\ rd = redirect' /\ rt = router'
        /\ bs = bottles' /\ hs = hookahs' /\ h = past' /\ f = onFloor'
  OBVIOUS
<1>3. Opened(b, c, t, ring, rd, rt, bs, hs, h, f)
  BY <1>2 DEF Dropped
<1>4. /\ MenOk(l, b, c) /\ RingOk(ring, t, h) /\ RedirectOk(rd)
      /\ RouterOk(rt, f) /\ rt.away # RouterFor /\ PropsOk(bs, hs)
  BY <1>3, OpenedIs
<1>5. plan' = l /\ occ' = <<>>
  BY <1>1 DEF Dropped
<1>6. OccOk(plan', occ')
  BY <1>5, NobodyIs
<1> QED
  BY <1>2, <1>4, <1>5, <1>6 DEF OfficeInv

LEMMA LeaveKeeps ==
    ASSUME OfficeInv, NEW a \in Staff, Leave(a)
    PROVE  OfficeInv' /\ (router'.away # RouterFor \/ router' = router)
<1>1. used' \in 0..Inputs
  BY SpendIs DEF Leave
<1>2. CASE Here = {a}
  <2>1. Dropped
    BY <1>2 DEF Leave
  <2> QED
    BY <1>1, <2>1, DroppedKeeps
<1>3. CASE Here # {a}
  <2>1. /\ occ' = [b \in Here \ {a} |-> occ[b]]
        /\ UNCHANGED <<plan, boss, claude, tick, trail, redirect, router, bottles, hookahs, past, onFloor>>
    BY <1>3 DEF Leave
  <2>2. OccOk(plan, occ)
    BY DEF OfficeInv
  <2>3. PICK left, oc2 : left \in SUBSET DOMAIN occ /\ left = Here \ {a} /\ oc2 = occ'
    BY DEF Here
  <2>4. OccOk(plan, oc2)
    BY <2>1, <2>2, <2>3, OccFewer
  <2> QED
    BY <1>1, <2>1, <2>3, <2>4, OnlyPeople
<1> QED
  BY <1>2, <1>3

LEMMA OfficeInitIs == OfficeInit => OfficeInv
<1> SUFFICES ASSUME OfficeInit PROVE OfficeInv
  OBVIOUS
<1>1. plan \in Layouts /\ occ = <<>> /\ used = 0
      /\ Opened(boss, claude, tick, trail, redirect, router, bottles, hookahs, past, onFloor)
  BY DEF OfficeInit
<1>2. /\ MenOk(plan, boss, claude) /\ RingOk(trail, tick, past) /\ RedirectOk(redirect)
      /\ RouterOk(router, onFloor) /\ PropsOk(bottles, hookahs)
  BY <1>1, OpenedIs
<1>3. OccOk(plan, occ)
  BY <1>1, NobodyIs
<1>4. used \in 0..Inputs
  BY <1>1, TimesAre
<1> QED
  BY <1>1, <1>2, <1>3, <1>4 DEF OfficeInv

-----------------------------------------------------------------------------
(* The step of the office. *)

(* People in the middle of a step: the one gone too long has not been let go of yet. *)
Walkers == [pos : Ground, walk : Ways \cup {Still}, rtt : 0..CatchRewindMax, cloud : 0..CloudFor,
            slow : 0..SlowFor, cool : 0..RedirectCooldown, online : BOOLEAN, unseen : 0..(AbandonGrace + 1)]

LEMMA WalkerIs ==
    ASSUME NEW o \in Walkers
    PROVE  /\ o.pos \in Ground /\ o.pos \in Points /\ o.walk \in Ways \cup {Still}
           /\ o.rtt \in 0..CatchRewindMax /\ o.cloud \in 0..CloudFor /\ o.slow \in 0..SlowFor
           /\ o.cool \in 0..RedirectCooldown /\ o.online \in BOOLEAN /\ o.unseen \in 0..(AbandonGrace + 1)
<1>1. /\ o.pos \in Ground /\ o.walk \in Ways \cup {Still}
      /\ o.rtt \in 0..CatchRewindMax /\ o.cloud \in 0..CloudFor /\ o.slow \in 0..SlowFor
      /\ o.cool \in 0..RedirectCooldown /\ o.online \in BOOLEAN /\ o.unseen \in 0..(AbandonGrace + 1)
  BY Zenon DEF Walkers
<1> QED
  BY <1>1, GroundIsPoints

LEMMA WalkerMade ==
    ASSUME NEW p \in Ground, NEW w \in Ways \cup {Still}, NEW r \in 0..CatchRewindMax,
           NEW k \in 0..CloudFor, NEW s \in 0..SlowFor, NEW c \in 0..RedirectCooldown,
           NEW on \in BOOLEAN, NEW u \in 0..(AbandonGrace + 1)
    PROVE  [pos |-> p, walk |-> w, rtt |-> r, cloud |-> k, slow |-> s, cool |-> c, online |-> on,
            unseen |-> u] \in Walkers
BY Zenon DEF Walkers

(* What a step makes of one of them. *)
LEMMA SteppedIs ==
    ASSUME plan \in Layouts, NEW o \in Occupants
    PROVE  /\ StepPlayer(o).pos \in Points /\ Clear(plan, StepPlayer(o).pos, PlayerRadius)
           /\ Timed(StepPlayer(o)) \in Walkers /\ Timed(StepPlayer(o)).pos = StepPlayer(o).pos
           /\ [Timed(StepPlayer(o)) EXCEPT !.cloud = CloudFor] \in Walkers
           /\ [Timed(StepPlayer(o)) EXCEPT !.cloud = CloudFor].pos = StepPlayer(o).pos
<1>1. PICK p, w, r, k, s, c, n, u :
        /\ p = o.pos /\ w = o.walk /\ r = o.rtt /\ k = o.cloud /\ s = o.slow /\ c = o.cool
        /\ n = o.online /\ u = o.unseen
  OBVIOUS
<1>2. o = [pos |-> p, walk |-> w, rtt |-> r, cloud |-> k, slow |-> s, cool |-> c, online |-> n, unseen |-> u]
  BY <1>1 DEF Occupants
<1>3. /\ p \in Points /\ w \in Ways \cup {Still} /\ r \in 0..CatchRewindMax /\ k \in 0..CloudFor
      /\ s \in 0..SlowFor /\ c \in 0..RedirectCooldown /\ u \in 0..AbandonGrace
  BY <1>1, OccupantIs
<1>4. n \in BOOLEAN
  BY <1>1, OccupantIs, Zenon
<1>5. PICK slow, step : slow = Down(s) /\ step = IF slow > 0 THEN SlowStep ELSE WalkStep
  OBVIOUS
<1>6. slow \in 0..SlowFor /\ step \in Nat
  BY <1>3, <1>5, DownIs, NumbersAre, TimesAre
<1>7. PICK half : half = Walked(p, w, step)
  OBVIOUS
<1>8. half \in Points
  BY <1>3, <1>6, <1>7, WalkedIs
<1>9. PICK at : at = Walked(half, w, step)
  OBVIOUS
<1>10. at \in Points /\ Clear(plan, at, PlayerRadius)
  BY <1>3, <1>6, <1>8, <1>9, WalkedIs
<1>11. at \in Ground
  BY <1>10, RadiiFit, ClearIsGround
<1>12. PICK q : q = StepPlayer(o)
  OBVIOUS
<1>13. q = [o EXCEPT !.pos = Walked(Walked(p, w, step), w, step), !.walk = Still, !.slow = slow]
  BY <1>1, <1>5, <1>12 DEF StepPlayer
<1>14. q = [o EXCEPT !.pos = at, !.walk = Still, !.slow = slow]
  BY <1>7, <1>9, <1>13
<1>15. q = [pos |-> at, walk |-> Still, rtt |-> r, cloud |-> k, slow |-> slow, cool |-> c, online |-> n, unseen |-> u]
  BY <1>2, <1>14
<1>16. PICK cool, cloud, unseen : /\ cool = Down(c) /\ cloud = Down(k)
                                  /\ unseen = IF n THEN 0 ELSE u + 1
  OBVIOUS
<1>17. cool \in 0..RedirectCooldown /\ cloud \in 0..CloudFor
  BY <1>3, <1>16, DownIs, TimesAre
<1>18. unseen \in 0..(AbandonGrace + 1)
  <2>1. 0 \in 0..(AbandonGrace + 1) /\ u + 1 \in 0..(AbandonGrace + 1)
    BY <1>3, TimesAre
  <2> QED
    BY <1>4, <1>16, <2>1, Zenon
<1>19. PICK m : m = Timed(q)
  OBVIOUS
<1>20. m = [pos |-> at, walk |-> Still, rtt |-> r, cloud |-> cloud, slow |-> slow, cool |-> cool, online |-> n,
            unseen |-> unseen]
  <2>1. q.cool = c /\ q.cloud = k /\ q.unseen = u /\ q.online = n
    BY <1>15
  <2>2. PICK un : un = IF q.online THEN 0 ELSE q.unseen + 1
    OBVIOUS
  <2>3. m = [q EXCEPT !.cool = Down(q.cool), !.cloud = Down(q.cloud), !.unseen = un]
    BY <1>19, <2>2 DEF Timed
  <2>4. un = unseen
    BY <1>16, <2>1, <2>2, Zenon
  <2>5. m = [q EXCEPT !.cool = cool, !.cloud = cloud, !.unseen = unseen]
    BY <1>16, <2>1, <2>3, <2>4
  <2> QED
    BY <1>15, <2>5
<1>21. PICK v : v = [m EXCEPT !.cloud = CloudFor]
  OBVIOUS
<1>22. v = [pos |-> at, walk |-> Still, rtt |-> r, cloud |-> CloudFor, slow |-> slow, cool |-> cool, online |-> n,
            unseen |-> unseen]
  BY <1>20, <1>21
<1>23. Still \in Ways \cup {Still} /\ CloudFor \in 0..CloudFor
  BY TimesAre
<1>24. m \in Walkers
  BY <1>3, <1>4, <1>6, <1>11, <1>17, <1>18, <1>20, <1>23, WalkerMade
<1>25. v \in Walkers
  BY <1>3, <1>4, <1>6, <1>11, <1>17, <1>18, <1>22, <1>23, WalkerMade
<1>26. q.pos = at /\ m.pos = at /\ v.pos = at
  BY <1>15, <1>20, <1>22
<1> QED
  BY <1>10, <1>12, <1>19, <1>21, <1>24, <1>25, <1>26

(* Who is not let go of is an occupant, on his feet or landed on. *)
LEMMA LandedIs ==
    ASSUME NEW o \in Walkers, ~(o.unseen > AbandonGrace)
    PROVE  /\ o \in Occupants
           /\ [o EXCEPT !.slow = SlowFor] \in Occupants /\ [o EXCEPT !.slow = SlowFor].pos = o.pos
<1>1. PICK p, w, r, k, s, c, n, u :
        /\ p = o.pos /\ w = o.walk /\ r = o.rtt /\ k = o.cloud /\ s = o.slow /\ c = o.cool
        /\ n = o.online /\ u = o.unseen
  OBVIOUS
<1>2. o = [pos |-> p, walk |-> w, rtt |-> r, cloud |-> k, slow |-> s, cool |-> c, online |-> n, unseen |-> u]
  BY <1>1 DEF Walkers
<1>3. /\ p \in Ground /\ w \in Ways \cup {Still} /\ r \in 0..CatchRewindMax /\ k \in 0..CloudFor
      /\ s \in 0..SlowFor /\ c \in 0..RedirectCooldown /\ u \in 0..(AbandonGrace + 1)
  BY <1>1, WalkerIs
<1>4. n \in BOOLEAN
  BY <1>1, WalkerIs, Zenon
<1>5. u \in 0..AbandonGrace
  BY <1>1, <1>3, TimesAre
<1>6. PICK v : v = [o EXCEPT !.slow = SlowFor]
  OBVIOUS
<1>7. v = [pos |-> p, walk |-> w, rtt |-> r, cloud |-> k, slow |-> SlowFor, cool |-> c, online |-> n, unseen |-> u]
  BY <1>2, <1>6
<1>8. SlowFor \in 0..SlowFor
  BY TimesAre
<1>9. o \in Occupants
  BY <1>2, <1>3, <1>4, <1>5, OccupantMade
<1>10. v \in Occupants
  BY <1>3, <1>4, <1>5, <1>7, <1>8, OccupantMade
<1>11. v.pos = o.pos
  BY <1>1, <1>7
<1> QED
  BY <1>6, <1>9, <1>10, <1>11

(* The end of the step. *)
LEMMA ChaseKeeps ==
    ASSUME OfficeInv, used' \in 0..Inputs,
           NEW os, os \in [DOMAIN occ -> Walkers], \A a \in DOMAIN occ : Clear(plan, os[a].pos, PlayerRadius),
           NEW b, b \in [pos : Ground, drunk : 0..DrunkFor], NEW targets \in SUBSET DOMAIN occ,
           NEW ob, ob.props \in PropsKept(BottleSpots), NEW oh, oh.props \in PropsKept(HookahSpots),
           Chase(os, b, targets, ob, oh)
    PROVE  /\ OfficeInv' /\ router'.away # RouterFor
           /\ DOMAIN occ' = {} \/ (bottles' = ob.props /\ hookahs' = oh.props)
<1> DEFINE at == [a \in DOMAIN os |-> os[a].pos]
           away == Down(router.away)
           door == IF router.away = 1 THEN ChaserSpawn ELSE claude
           Claude(nb) == IF away > 0 THEN door ELSE Separate(StepChaser(door, at, targets), nb.pos, at)
           MenAt(nb) == [boss |-> nb.pos, claude |-> Claude(nb)]
           Ring(nb) == [trail EXCEPT ![Later(tick) % TrailLen] = MenAt(nb)]
           Left(nb) == {a \in DOMAIN os : ~Ended(os[a], Later(tick), Ring(nb))}
           Hit(nb) == Landings(os, Later(tick), Ring(nb), away)
<1>1. PICK nb \in StepBoss(b, at, targets) :
        IF Left(nb) = {}
        THEN Dropped
        ELSE /\ boss' = nb
             /\ claude' = Claude(nb)
             /\ tick' = Later(tick)
             /\ trail' = Ring(nb)
             /\ past' = SubSeq(<<MenAt(nb)>> \o past, 1, Lower(TrailLen, Len(past) + 1))
             /\ occ' = [a \in Left(nb) |-> Hit(nb)[a]]
             /\ bottles' = ob.props
             /\ hookahs' = oh.props
             /\ Clocks
             /\ UNCHANGED plan
  BY DEF Chase, Settle
<1>2. CASE Left(nb) = {}
  <2>1. Dropped
    BY <1>1, <1>2
  <2>2. DOMAIN occ' = {}
    BY <2>1 DEF Dropped
  <2> QED
    BY <2>1, <2>2, DroppedKeeps
<1>3. CASE Left(nb) # {}
  <2>1. /\ boss' = nb
        /\ claude' = Claude(nb)
        /\ tick' = Later(tick)
        /\ trail' = Ring(nb)
        /\ past' = SubSeq(<<MenAt(nb)>> \o past, 1, Lower(TrailLen, Len(past) + 1))
        /\ occ' = [a \in Left(nb) |-> Hit(nb)[a]]
        /\ bottles' = ob.props
        /\ hookahs' = oh.props
        /\ Clocks
        /\ plan' = plan
    BY <1>1, <1>3
  <2>2. /\ plan \in Layouts /\ OccOk(plan, occ) /\ MenOk(plan, boss, claude) /\ RingOk(trail, tick, past)
        /\ RedirectOk(redirect) /\ RouterOk(router, onFloor)
    BY DEF OfficeInv
  <2>3. DOMAIN os = DOMAIN occ /\ DOMAIN occ \subseteq Nat /\ IsFiniteSet(DOMAIN occ) /\ DOMAIN occ \subseteq Staff
    BY <2>2, NumbersAre DEF OccOk
  <2>4. DOMAIN at = DOMAIN occ /\ \A a \in DOMAIN occ : at[a] = os[a].pos /\ at[a] \in Points
    BY <2>3, WalkerIs
  <2>5. b.pos \in Points /\ b.pos \in Ground /\ b.drunk \in 0..DrunkFor
    BY GroundIsPoints
  <2>6. /\ nb = [pos |-> nb.pos, drunk |-> Down(b.drunk)]
        /\ nb.pos \in Points /\ Clear(plan, nb.pos, BossRadius)
    <3>1. targets \in SUBSET Nat /\ b.drunk \in Nat /\ \A a \in targets : at[a] \in Points
      BY <2>3, <2>4, <2>5, TimesAre
    <3>2. PICK aa : aa = at
      OBVIOUS
    <3> HIDE DEF at
    <3>3. nb \in StepBoss(b, aa, targets) /\ \A a \in targets : aa[a] \in Points
      BY <1>1, <3>1, <3>2
    <3> QED
      BY <2>2, <2>5, <3>1, <3>3, StepBossIs
  <2>7. claude \in Points /\ Clear(plan, claude, BossRadius)
    BY <2>2, GroundIsPoints DEF MenOk
  <2>8. door \in Points /\ Clear(plan, door, BossRadius)
    <3>1. ChaserSpawn \in Points /\ Clear(plan, ChaserSpawn, BossRadius)
      <4>1. ChaserSpawn \in FixedPoints /\ ClampToFloor(ChaserSpawn, BossRadius) = ChaserSpawn /\ plan \in Playable
        BY <2>2, OfficeAssumption, LayoutIs
      <4> QED
        BY <4>1, SpotIsClear
    <3> QED
      BY <2>7, <3>1
  <2>9. Claude(nb) \in Points /\ Clear(plan, Claude(nb), BossRadius)
    <3>1. CASE away > 0
      BY <2>8, <3>1
    <3>2. CASE ~(away > 0)
      <4>1. PICK aa, dd : aa = at /\ dd = door
        OBVIOUS
      <4> HIDE DEF at, door
      <4>2. /\ targets \in SUBSET Nat /\ dd \in Points /\ DOMAIN aa = DOMAIN occ
            /\ \A a \in DOMAIN occ : aa[a] \in Points
        BY <2>3, <2>4, <2>8, <4>1
      <4>3. StepChaser(dd, aa, targets) \in Points
        BY <2>2, <4>2, StepChaserIs
      <4>4. PICK p \in Points, q \in Points : p = StepChaser(dd, aa, targets) /\ q = nb.pos
        BY <2>6, <4>3
      <4>5. PICK D \in SUBSET Nat : D = DOMAIN occ
        BY <2>3
      <4>6. Separate(p, q, aa) \in Points /\ Clear(plan, Separate(p, q, aa), BossRadius)
        BY <2>2, <2>3, <4>2, <4>5, SeparateIs
      <4>7. Claude(nb) = Separate(p, q, aa)
        BY <3>2, <4>1, <4>4
      <4> QED
        BY <4>6, <4>7
    <3> QED
      BY <3>1, <3>2
  <2>10. MenOk(plan', boss', claude')
    <3>1. nb.pos \in Ground /\ Claude(nb) \in Ground
      <4> HIDE DEF Claude
      <4> QED
        BY <2>6, <2>9, RadiiFit, ClearIsGround
    <3>2. Down(b.drunk) \in 0..DrunkFor
      BY <2>5, DownIs, TimesAre
    <3>3. nb \in [pos : Ground, drunk : 0..DrunkFor]
      BY <2>6, <3>1, <3>2
    <3> HIDE DEF Claude
    <3> QED
      BY <2>1, <2>6, <2>9, <3>1, <3>3 DEF MenOk
  <2>11. RingOk(trail', tick', past')
    <3>1. MenAt(nb) \in Moments
      <4> HIDE DEF Claude
      <4> QED
        BY <2>6, <2>9 DEF Moments
    <3>2. PICK men \in Moments : men = MenAt(nb)
      BY <3>1
    <3>3. /\ trail' = [trail EXCEPT ![Later(tick) % TrailLen] = men]
          /\ past' = SubSeq(<<men>> \o past, 1, Lower(TrailLen, Len(past) + 1))
          /\ tick' = Later(tick)
      <4> HIDE DEF MenAt
      <4> QED
        BY <2>1, <3>2
    <3>4. RingOk([trail EXCEPT ![Later(tick) % TrailLen] = men], Later(tick),
                 SubSeq(<<men>> \o past, 1, Lower(TrailLen, Len(past) + 1)))
      BY <2>2, RingSteps
    <3> QED
      BY <3>3, <3>4
  <2>12. RedirectOk(redirect')
    <3>1. redirect \in [to : Staff \cup {None}, left : 0..RedirectFor]
      BY <2>2 DEF RedirectOk
    <3>2. redirect' = IF Pointed THEN [redirect EXCEPT !.left = @ - 1] ELSE [to |-> None, left |-> 0]
      BY <2>1 DEF Clocks
    <3>3. CASE Pointed
      <4>1. redirect.left - 1 \in 0..RedirectFor
        BY <3>1, <3>3, TimesAre DEF Pointed
      <4>2. redirect' = [to |-> redirect.to, left |-> redirect.left - 1]
        BY <3>1, <3>2, <3>3
      <4> QED
        BY <3>1, <4>1, <4>2 DEF RedirectOk
    <3>4. CASE ~Pointed
      <4>1. redirect' = [to |-> None, left |-> 0] /\ 0 \in 0..RedirectFor
        BY <3>2, <3>4, TimesAre
      <4> QED
        BY <4>1 DEF RedirectOk
    <3> QED
      BY <3>3, <3>4
  <2>13. RouterOk(router', onFloor') /\ router'.away # RouterFor
    <3>1. PICK rt2, f2 : rt2 = router' /\ f2 = onFloor'
      OBVIOUS
    <3>2. /\ rt2 = [away |-> Down(router.away), cool |-> Down(router.cool)]
          /\ f2 = IF router.away > 1 THEN 0 ELSE Lower(RouterCooldown, onFloor + 1)
      BY <2>1, <3>1 DEF Clocks
    <3>3. RouterOk(rt2, f2) /\ rt2.away # RouterFor
      BY <2>2, <3>2, RouterTicks
    <3> QED
      BY <3>1, <3>3
  <2>14. ASSUME NEW a \in Left(nb)
         PROVE  Hit(nb)[a] \in Occupants /\ Clear(plan, Hit(nb)[a].pos, PlayerRadius)
    <3>1. a \in DOMAIN occ /\ ~Ended(os[a], Later(tick), Ring(nb))
      BY <2>3
    <3>2. ~(os[a].unseen > AbandonGrace)
      BY <3>1 DEF Ended
    <3>3. PICK o \in Walkers : o = os[a]
      BY <3>1
    <3>4. /\ o \in Occupants
          /\ [o EXCEPT !.slow = SlowFor] \in Occupants /\ [o EXCEPT !.slow = SlowFor].pos = o.pos
      BY <3>2, <3>3, LandedIs
    <3>5. Hit(nb)[a] \in {o, [o EXCEPT !.slow = SlowFor]}
      <4> HIDE DEF Ring, away
      <4> QED
        BY <2>3, <3>1, <3>3 DEF Landings
    <3>6. Clear(plan, o.pos, PlayerRadius)
      BY <3>1, <3>3
    <3> HIDE DEF Hit, Left
    <3> QED
      BY <3>4, <3>5, <3>6
  <2>15. Left(nb) \subseteq DOMAIN occ
    BY <2>3
  <2> HIDE DEF Hit, Left, Ring, MenAt, Claude, at, away, door
  <2>16. OccOk(plan', occ')
    <3>1. DOMAIN occ' = Left(nb) /\ \A a \in Left(nb) : occ'[a] = Hit(nb)[a]
      BY <2>1
    <3>2. occ' \in [Left(nb) -> Occupants]
      BY <2>1, <2>14
    <3>3. PICK D, L : D = DOMAIN occ /\ L = Left(nb)
      OBVIOUS
    <3>4. IsFiniteSet(L) /\ Cardinality(L) <= Cardinality(D) /\ IsFiniteSet(D)
      BY <2>3, <2>15, <3>3, FS_Subset
    <3>5. Cardinality(L) \in Nat /\ Cardinality(D) \in Nat
      BY <3>4, FS_CardinalityType
    <3>6. Cardinality(D) <= Desks
      BY <2>2, <3>3 DEF OccOk
    <3>7. Cardinality(L) <= Desks
      BY <3>4, <3>5, <3>6, TimesAre
    <3> QED
      BY <2>1, <2>3, <2>14, <2>15, <3>1, <3>2, <3>3, <3>4, <3>7 DEF OccOk
  <2>17. PropsOk(bottles', hookahs')
    BY <2>1 DEF PropsOk
  <2>18. plan' \in Layouts
    BY <2>1, <2>2
  <2>19. OfficeInv'
    BY <2>10, <2>11, <2>12, <2>13, <2>16, <2>17, <2>18 DEF OfficeInv
  <2> QED
    BY <2>1, <2>13, <2>19
<1> QED
  BY <1>2, <1>3

StayStep ==
    (Here # {} /\ Here' # {}) => /\ Emptied(bottles, bottles', BottleSpots)
                                 /\ Emptied(hookahs, hookahs', HookahSpots)
TurnStep == router'.away = RouterFor => onFloor > RouterCooldown - RouterFor

(* What stood, still stands when nothing was moved. *)
LEMMA NothingMoved ==
    ASSUME UNCHANGED <<bottles, hookahs>>
    PROVE  StayStep
BY DEF StayStep, Emptied

LEMMA AdvanceKeeps ==
    ASSUME OfficeInv, Advance
    PROVE  OfficeInv' /\ TurnStep /\ StayStep
<1> DEFINE moved == [a \in Here |-> StepPlayer(occ[a])]
           at == [a \in Here |-> moved[a].pos]
           want == Cardinality(Here)
           Os(oh) == [a \in Here |-> IF a \in oh.takers THEN [Timed(moved[a]) EXCEPT !.cloud = CloudFor]
                                                        ELSE Timed(moved[a])]
           B(ob) == [boss EXCEPT !.drunk = IF ob.takers # {} THEN DrunkFor ELSE @]
<1>1. PICK bs \in ReconcileProps(bottles, BottleSpots, want),
           hs \in ReconcileProps(hookahs, HookahSpots, want) :
         \E ob \in StepProps(bs, BottleSpots, BottleReturn, at),
            oh \in StepProps(hs, HookahSpots, HookahReturn, at) :
                Chase(Os(oh), B(ob), Targets, ob, oh)
  BY DEF Advance
<1>2. PICK ob \in StepProps(bs, BottleSpots, BottleReturn, at),
           oh \in StepProps(hs, HookahSpots, HookahReturn, at) :
                Chase(Os(oh), B(ob), Targets, ob, oh)
  BY <1>1
<1>3. /\ plan \in Layouts /\ OccOk(plan, occ) /\ MenOk(plan, boss, claude)
      /\ RedirectOk(redirect) /\ PropsOk(bottles, hookahs) /\ used' \in 0..Inputs
  BY DEF OfficeInv, Advance
<1>4. /\ Here = DOMAIN occ /\ DOMAIN occ \subseteq Nat /\ IsFiniteSet(DOMAIN occ)
      /\ \A a \in DOMAIN occ : occ[a] \in Occupants
  BY <1>3, NumbersAre DEF OccOk, Here
<1>5. want \in Nat
  BY <1>4, FS_CardinalityType
<1>6. DOMAIN at = DOMAIN occ /\ \A a \in DOMAIN occ : at[a] = StepPlayer(occ[a]).pos
  BY <1>4
<1>7. /\ bs \in PropsKept(BottleSpots) /\ Standing(bottles) \subseteq Standing(bs)
      /\ hs \in PropsKept(HookahSpots) /\ Standing(hookahs) \subseteq Standing(hs)
  <2>1. bottles \in PropsKept(BottleSpots) /\ hookahs \in PropsKept(HookahSpots)
    BY <1>3 DEF PropsOk
  <2>2. bs \in PropsKept(BottleSpots) /\ Standing(bottles) \subseteq Standing(bs)
    <3> HIDE DEF want
    <3> QED
      BY <1>5, <2>1, SpotsAre, ReconcileKeeps
  <2>3. hs \in PropsKept(HookahSpots) /\ Standing(hookahs) \subseteq Standing(hs)
    <3> HIDE DEF want
    <3> QED
      BY <1>5, <2>1, SpotsAre, ReconcileKeeps
  <2> QED
    BY <2>2, <2>3
<1>8. ob \in Outcomes(bs, BottleSpots, at) /\ oh \in Outcomes(hs, HookahSpots, at)
  <2>1. PICK aa : aa = at
    OBVIOUS
  <2> HIDE DEF at
  <2>2. DOMAIN aa \subseteq Nat
    BY <1>4, <1>6, <2>1
  <2>3. PICK ba \in 0..Returns, ha \in 0..Returns : ba = BottleReturn /\ ha = HookahReturn
    BY ReturnsAre
  <2>4. ob \in StepProps(bs, BottleSpots, ba, aa) /\ oh \in StepProps(hs, HookahSpots, ha, aa)
    BY <2>1, <2>3
  <2>5. ob \in Outcomes(bs, BottleSpots, aa)
    BY <1>7, <2>2, <2>4, StepPropsKeeps
  <2>6. oh \in Outcomes(hs, HookahSpots, aa)
    BY <1>7, <2>2, <2>4, StepPropsKeeps
  <2> QED
    BY <2>1, <2>5, <2>6
<1> HIDE DEF at
<1>9. /\ ob.props \in PropsKept(BottleSpots) /\ Paid(bs, ob.props, BottleSpots, at)
      /\ oh.props \in PropsKept(HookahSpots) /\ Paid(hs, oh.props, HookahSpots, at)
  BY <1>8 DEF Outcomes
<1>10. PICK os : os = Os(oh)
  OBVIOUS
<1>11. os \in [DOMAIN occ -> Walkers] /\ \A a \in DOMAIN occ : Clear(plan, os[a].pos, PlayerRadius)
  <2>1. os = [a \in DOMAIN occ |-> IF a \in oh.takers THEN [Timed(StepPlayer(occ[a])) EXCEPT !.cloud = CloudFor]
                                                      ELSE Timed(StepPlayer(occ[a]))]
    BY <1>4, <1>10
  <2>2. ASSUME NEW a \in DOMAIN occ
        PROVE  os[a] \in Walkers /\ Clear(plan, os[a].pos, PlayerRadius)
    <3>1. PICK o \in Occupants : o = occ[a]
      BY <1>4
    <3>2. os[a] \in {Timed(StepPlayer(o)), [Timed(StepPlayer(o)) EXCEPT !.cloud = CloudFor]}
      BY <2>1, <3>1
    <3>3. /\ StepPlayer(o).pos \in Points /\ Clear(plan, StepPlayer(o).pos, PlayerRadius)
          /\ Timed(StepPlayer(o)) \in Walkers /\ Timed(StepPlayer(o)).pos = StepPlayer(o).pos
          /\ [Timed(StepPlayer(o)) EXCEPT !.cloud = CloudFor] \in Walkers
          /\ [Timed(StepPlayer(o)) EXCEPT !.cloud = CloudFor].pos = StepPlayer(o).pos
      BY <1>3, SteppedIs
    <3> QED
      BY <3>2, <3>3
  <2>3. os = [a \in DOMAIN occ |-> os[a]]
    BY <2>1
  <2> QED
    BY <2>2, <2>3
<1>12. PICK b : b = B(ob)
  OBVIOUS
<1>13. b \in [pos : Ground, drunk : 0..DrunkFor]
  <2>1. boss \in [pos : Ground, drunk : 0..DrunkFor]
    BY <1>3 DEF MenOk
  <2>2. PICK dr : dr = IF ob.takers # {} THEN DrunkFor ELSE boss.drunk
    OBVIOUS
  <2>3. dr \in 0..DrunkFor
    BY <2>1, <2>2, TimesAre
  <2>4. b = [pos |-> boss.pos, drunk |-> dr]
    BY <1>12, <2>1, <2>2
  <2> QED
    BY <2>1, <2>3, <2>4
<1>14. Targets \in SUBSET DOMAIN occ
  BY <1>4 DEF Targets, Pointed
<1>15. Chase(os, b, Targets, ob, oh)
  BY <1>2, <1>10, <1>12
<1>16. PICK targets \in SUBSET DOMAIN occ : targets = Targets
  BY <1>14
<1>17. Chase(os, b, targets, ob, oh)
  BY <1>15, <1>16
<1> HIDE DEF Os, B, want, moved
<1>18. /\ OfficeInv' /\ router'.away # RouterFor
       /\ DOMAIN occ' = {} \/ (bottles' = ob.props /\ hookahs' = oh.props)
  BY <1>3, <1>9, <1>11, <1>13, <1>17, ChaseKeeps
<1>19. StayStep
  <2> SUFFICES ASSUME Here' # {} PROVE Emptied(bottles, bottles', BottleSpots) /\ Emptied(hookahs, hookahs', HookahSpots)
    BY DEF StayStep
  <2>1. bottles' = ob.props /\ hookahs' = oh.props
    BY <1>18 DEF Here
  <2>2. ASSUME NEW props, NEW mid, NEW after, NEW spots, Standing(props) \subseteq Standing(mid), Paid(mid, after, spots, at)
        PROVE  Emptied(props, after, spots)
    <3> SUFFICES ASSUME NEW s \in Standing(props) \ Standing(after)
                 PROVE  \E a \in Here : Within(StepPlayer(occ[a]).pos, spots[s], PropReach)
      BY DEF Emptied
    <3>1. PICK a \in DOMAIN at : Within(at[a], spots[s], PropReach)
      BY <2>2 DEF Paid
    <3> QED
      BY <1>4, <1>6, <3>1
  <2>3. Emptied(bottles, ob.props, BottleSpots)
    BY <1>7, <1>9, <2>2
  <2>4. Emptied(hookahs, oh.props, HookahSpots)
    BY <1>7, <1>9, <2>2
  <2> QED
    BY <2>1, <2>3, <2>4
<1> QED
  BY <1>18, <1>19 DEF TurnStep

(* Every step keeps the office in order, and cheats nobody. *)
LEMMA OfficeStep ==
    ASSUME OfficeInv, [OfficeNext]_officeVars
    PROVE  OfficeInv' /\ TurnStep /\ StayStep
<1>1. ASSUME NEW a \in Staff, Joins(a) PROVE OfficeInv' /\ router' = router /\ StayStep
  BY <1>1, JoinsKeep, NothingMoved DEF Joins
<1>2. ASSUME NEW a \in Staff, Leave(a) PROVE OfficeInv' /\ (router'.away # RouterFor \/ router' = router) /\ StayStep
  <2>1. StayStep
    <3>1. CASE Here = {a}
      <4>1. Dropped
        BY <1>2, <3>1 DEF Leave
      <4>2. DOMAIN occ' = {}
        BY <4>1 DEF Dropped
      <4> QED
        BY <4>2 DEF StayStep, Here
    <3>2. CASE Here # {a}
      BY <1>2, <3>2, NothingMoved DEF Leave
    <3> QED
      BY <3>1, <3>2
  <2> QED
    BY <1>2, <2>1, LeaveKeeps
<1>3. ASSUME NEW a \in Staff, GoesQuiet(a) PROVE OfficeInv' /\ router' = router /\ StayStep
  BY <1>3, GoesQuietKeeps, NothingMoved DEF GoesQuiet
<1>4. ASSUME NEW a \in Staff, RouterDown(a) PROVE OfficeInv' /\ TurnStep /\ StayStep
  BY <1>4, RouterDownKeeps, NothingMoved DEF RouterDown, TurnStep
<1>5. ASSUME NEW a \in Staff, NEW b \in Staff, Redirect(a, b) PROVE OfficeInv' /\ router' = router /\ StayStep
  BY <1>5, RedirectKeeps, NothingMoved DEF Redirect
<1>6. ASSUME NEW a \in Staff, NEW lag \in Lags \cup {NoLag}, NEW way \in Ways \cup {Still}, Enqueue(a, lag, way)
      PROVE  OfficeInv' /\ router' = router /\ StayStep
  BY <1>6, EnqueueKeeps, NothingMoved DEF Enqueue
<1>7. router' = router => TurnStep
  <2>1. RouterOk(router, onFloor)
    BY DEF OfficeInv
  <2> QED
    BY <2>1 DEF RouterOk, TurnStep
<1>8. CASE UNCHANGED officeVars
  <2>1. OfficeInv'
    BY <1>8 DEF OfficeInv, officeVars
  <2>2. router' = router /\ StayStep
    BY <1>8, NothingMoved DEF officeVars
  <2> QED
    BY <1>7, <2>1, <2>2
<1>9. CASE Advance
  BY <1>9, AdvanceKeeps
<1>10. CASE ClientNext
  <2>1. PICK a \in Staff :
          \/ Joins(a) \/ Leave(a) \/ GoesQuiet(a) \/ RouterDown(a)
          \/ \E b \in Staff : Redirect(a, b)
          \/ \E way \in Ways : Enqueue(a, NoLag, way)
          \/ \E lag \in Lags : Enqueue(a, lag, Still)
    BY <1>10 DEF ClientNext
  <2>2. router'.away # RouterFor => TurnStep
    BY DEF TurnStep
  <2>3. ASSUME NEW lag \in Lags \cup {NoLag}, NEW way \in Ways \cup {Still}, Enqueue(a, lag, way)
        PROVE  OfficeInv' /\ TurnStep /\ StayStep
    BY <1>6, <1>7, <2>3
  <2>4. CASE \E way \in Ways : Enqueue(a, NoLag, way)
    <3>1. PICK way \in Ways : Enqueue(a, NoLag, way)
      BY <2>4
    <3>2. PICK lag \in Lags \cup {NoLag} : lag = NoLag
      OBVIOUS
    <3> QED
      BY <2>3, <3>1, <3>2
  <2>5. CASE \E lag \in Lags : Enqueue(a, lag, Still)
    <3>1. PICK lag \in Lags : Enqueue(a, lag, Still)
      BY <2>5
    <3>2. PICK way \in Ways \cup {Still} : way = Still
      OBVIOUS
    <3> QED
      BY <2>3, <3>1, <3>2
  <2>6. CASE Joins(a)
    BY <1>1, <1>7, <2>6
  <2>7. CASE Leave(a)
    BY <1>2, <1>7, <2>2, <2>7
  <2>8. CASE GoesQuiet(a)
    BY <1>3, <1>7, <2>8
  <2>9. CASE RouterDown(a)
    BY <1>4, <2>9
  <2>10. CASE \E b \in Staff : Redirect(a, b)
    BY <1>5, <1>7, <2>10
  <2> QED
    BY <2>1, <2>4, <2>5, <2>6, <2>7, <2>8, <2>9, <2>10
<1> QED
  BY <1>8, <1>9, <1>10 DEF OfficeNext

----------------------------------------------------------------------------
(* What the invariant says, in the words of the runs. *)
LEMMA OfficeInvSound == OfficeInv => StepIsSound
<1> SUFFICES ASSUME OfficeInv PROVE StepIsSound
  OBVIOUS
<1>1. /\ plan \in Layouts /\ OccOk(plan, occ) /\ MenOk(plan, boss, claude) /\ RingOk(trail, tick, past)
      /\ RedirectOk(redirect) /\ RouterOk(router, onFloor) /\ PropsOk(bottles, hookahs) /\ used \in 0..Inputs
  BY DEF OfficeInv
<1>2. /\ Here = DOMAIN occ /\ Here \subseteq Staff /\ Cardinality(Here) <= Desks
      /\ \A a \in Here : occ[a] \in Occupants /\ Clear(plan, occ[a].pos, PlayerRadius)
  BY <1>1 DEF OccOk, Here
<1>3. OfficeTypeOK
  <2>1. ASSUME NEW a \in Here
        PROVE  /\ occ[a].pos \in Ground /\ occ[a].walk \in Ways \cup {Still}
               /\ occ[a].rtt \in 0..CatchRewindMax /\ occ[a].cloud \in 0..CloudFor
               /\ occ[a].slow \in 0..SlowFor /\ occ[a].cool \in 0..RedirectCooldown
               /\ occ[a].online \in BOOLEAN /\ occ[a].unseen \in 0..AbandonGrace
    BY <1>2, OccupantIs, Zenon
  <2>2. boss.pos \in Ground /\ boss.drunk \in 0..DrunkFor /\ claude \in Ground
    BY <1>1 DEF MenOk
  <2>3. redirect.to \in Staff \cup {None} /\ redirect.left \in 0..RedirectFor
    BY <1>1 DEF RedirectOk
  <2>4. router.away \in 0..RouterFor /\ router.cool \in 0..RouterCooldown /\ onFloor \in 0..RouterCooldown
    BY <1>1 DEF RouterOk
  <2>5. bottles \in Props(BottleSpots) /\ hookahs \in Props(HookahSpots)
    BY <1>1 DEF PropsOk, PropsKept
  <2>6. tick \in 0..(2 * TrailLen - 1)
    BY <1>1 DEF RingOk
  <2> QED
    BY <1>1, <1>2, <2>1, <2>2, <2>3, <2>4, <2>5, <2>6, Zenon DEF OfficeTypeOK
<1>4. BodiesAreClear
  BY <1>1, <1>2 DEF BodiesAreClear, MenOk
<1>5. PropsApart
  BY <1>1 DEF PropsApart, PropsOk, PropsKept
<1>6. RewindIsTrue
  <2> SUFFICES ASSUME NEW a \in Here
               PROVE  SeenBy(occ[a].rtt, tick, trail)
                        = past[Lower(((Lower(occ[a].rtt + RenderDelay, CatchRewindMax) + 2) \div 4) + 1, Len(past))]
    BY DEF RewindIsTrue
  <2>1. PICK r \in Nat : r = occ[a].rtt
    <3>1. occ[a].rtt \in 0..CatchRewindMax
      BY <1>2, OccupantIs
    <3> QED
      BY <3>1, TimesAre
  <2>2. SeenBy(r, tick, trail) = past[Lower(((Lower(r + RenderDelay, CatchRewindMax) + 2) \div 4) + 1, Len(past))]
    BY <1>1, RingAnswers
  <2> QED
    BY <2>1, <2>2
<1> QED
  BY <1>3, <1>4, <1>5, <1>6 DEF StepIsSound

(* The office is in order after any history of joins, inputs, leaves and steps: types, clear   *)
(* bodies, props apart, a true ring, and a router that owes nobody a chaser.                   *)
THEOREM OfficeAlwaysInv == OfficeSpec => []OfficeInv
<1>1. OfficeInv /\ [OfficeNext]_officeVars => OfficeInv'
  BY OfficeStep
<1> QED
  BY <1>1, OfficeInitIs, PTL DEF OfficeSpec

(***************************************************************************)
(* After every step, on every floor the generator can build, whoever came, *)
(* went, was pushed or was pulled back: no body is in the furniture or off *)
(* the floor, no two props share a spot, and a rewind is answered with     *)
(* where both men really were (Step, seenBy, drawSpot).                    *)
(***************************************************************************)
THEOREM StepAlwaysSound == OfficeSpec => []StepIsSound
BY OfficeAlwaysInv, OfficeInvSound, PTL

(***************************************************************************)
(* A spot is emptied only by somebody within reach of it, while anybody is *)
(* there (reconcileProps, stepProp), and Claude has been on the floor for  *)
(* the whole of the wait before the router sends him away again            *)
(* (RouterDown), whoever presses the button and however often.             *)
(***************************************************************************)
THEOREM NobodyEverCheated == OfficeSpec => NobodyIsCheated
<1>1. OfficeInv /\ [OfficeNext]_officeVars =>
        [(Here # {} /\ Here' # {}) => /\ Emptied(bottles, bottles', BottleSpots)
                                      /\ Emptied(hookahs, hookahs', HookahSpots)]_officeVars
  BY OfficeStep DEF StayStep
<1>2. OfficeInv /\ [OfficeNext]_officeVars =>
        [router'.away = RouterFor => onFloor > RouterCooldown - RouterFor]_officeVars
  BY OfficeStep DEF TurnStep
<1>3. OfficeSpec => StandingPropStays
  BY <1>1, OfficeAlwaysInv, PTL DEF OfficeSpec, StandingPropStays
<1>4. OfficeSpec => ClaudeGetsHisTurn
  BY <1>2, OfficeAlwaysInv, PTL DEF OfficeSpec, ClaudeGetsHisTurn
<1> QED
  BY <1>3, <1>4 DEF NobodyIsCheated
=============================================================================
