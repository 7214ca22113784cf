--------------------------- MODULE DialogueProofs ---------------------------
(***************************************************************************)
(* Proofs about Dialogue, for any character, limits, rivals and number of  *)
(* turns: no theme opens that the conversation was not about, the prompt   *)
(* and the rules that judge its answer agree, a silent judge ends the run, *)
(* progress is kept, and the boards rank the runs that ended.              *)
(*                                                                         *)
(* The rules are pure functions of what the browser carries, worked out    *)
(* when the judge is asked and used when it answers.  What makes the       *)
(* answer's verdict true of the talk it is added to is that nothing moves  *)
(* meanwhile: Waits says that what was asked is what would be asked now.   *)
(* The rest is counting: an exchange adds at most one mention of a theme   *)
(* (MentionsAppend, HammeredAppend), and an option is aimed at a theme     *)
(* only while its mentions are below the threshold (SteerFacts).           *)
(*                                                                         *)
(* The boards are an order: as many records come before a record as it has *)
(* places before it (PlacesInOrder), in whatever way they were sorted      *)
(* (SortedFacts).  The rows follow the runs that ended: RowsFollow keeps   *)
(* the place each row came from, and that the run being sent has none yet. *)
(***************************************************************************)
EXTENDS Dialogue, FiniteSetTheorems, SequenceTheorems, NaturalsInduction, TLAPS

(* The limits and the character, one by one. *)
LEMMA Bounds ==
    /\ Drift \in Nat \ {0} /\ ConfirmTurns \in Nat \ {0} /\ AutoDoneTurns \in Nat \ {0}
    /\ OptionCount \in Nat \ {0} /\ Turns \in Nat \ {0} /\ Games \in Nat \ {0}
    /\ MaxAnger \in Nat /\ AngerLoseAt \in Nat /\ StartAnger \in Nat /\ History \in Nat
    /\ StartAnger < AngerLoseAt /\ AngerLoseAt <= MaxAnger /\ ConfirmTurns <= AutoDoneTurns
    /\ Themes \in Seq(Keys) /\ None \notin Keys
BY DialogueAssumption

(* Some number of a set of them is the least. *)
LEMMA LeastNumber ==
    ASSUME NEW T, T \subseteq Nat, T # {}
    PROVE  \E n \in T : \A m \in T : n <= m
<1> DEFINE R == {ss \in Nat \X Nat : ss[1] < ss[2]}
<1>1. R = OpToRel(<, Nat)
  BY DEF OpToRel
<1>2. IsWellFoundedOn(R, Nat)
  BY <1>1, NatLessThanWellFounded
<1>3. PICK n \in T : \A m \in T : ~(<<m, n>> \in R)
  <2> HIDE DEF R
  <2> QED
    BY <1>2, WFMin
<1>4. ASSUME NEW m \in T PROVE n <= m
  <2>1. ~(<<m, n>> \in R) /\ m \in Nat /\ n \in Nat
    BY <1>3
  <2>2. ~(m < n)
    BY <2>1
  <2> QED
    BY <2>1, <2>2
<1> QED
  BY <1>4

(* The first of some themes is one of them. *)
LEMMA FirstIsOne ==
    ASSUME NEW S \in SUBSET Keys, S # {}
    PROVE  First(S) \in S
<1> DEFINE T == {i \in DOMAIN Themes : Themes[i] \in S}
           P(i) == /\ i \in DOMAIN Themes /\ Themes[i] \in S
                   /\ \A j \in 1..(i - 1) : Themes[j] \notin S
<1>1. DOMAIN Themes = 1..Len(Themes) /\ Len(Themes) \in Nat
  BY Bounds
<1>2. T # {} /\ T \subseteq Nat
  <2>1. PICK t \in S : t \in Keys
    OBVIOUS
  <2>2. \E i \in DOMAIN Themes : Themes[i] = t
    BY <2>1 DEF Keys, ToSet
  <2> QED
    BY <1>1, <2>2
<1>3. PICK i \in T : \A j \in T : i <= j
  BY <1>2, LeastNumber
<1>4. P(i)
  <2>1. i \in 1..Len(Themes)
    BY <1>1
  <2>2. ASSUME NEW j \in 1..(i - 1) PROVE Themes[j] \notin S
    <3>1. j \in DOMAIN Themes /\ j < i
      BY <1>1, <2>1
    <3> QED
      BY <1>1, <1>3, <3>1
  <2> QED
    BY <2>2
<1>5. \E k \in DOMAIN Themes : Themes[k] \in S /\ \A j \in 1..(k - 1) : Themes[j] \notin S
  BY <1>4
<1> DEFINE k == CHOOSE k \in DOMAIN Themes : Themes[k] \in S /\ \A j \in 1..(k - 1) : Themes[j] \notin S
<1>6. Themes[k] \in S
  BY <1>5
<1> QED
  BY <1>6 DEF First

(* The theme engaged least is one of those it is sought among. *)
LEMMA LeastIsOne ==
    ASSUME NEW open \in SUBSET Keys, open # {}, NEW eng \in [Keys -> Nat]
    PROVE  Least(open, eng) \in open
<1> DEFINE T == {eng[t] : t \in open}
           S == {t \in open : \A u \in open : eng[t] <= eng[u]}
<1>1. T \subseteq Nat /\ T # {}
  OBVIOUS
<1>2. PICK n \in T : \A m \in T : n <= m
  BY <1>1, LeastNumber
<1>3. S # {} /\ S \in SUBSET Keys /\ S \subseteq open
  BY <1>2
<1> HIDE DEF S
<1>4. First(S) \in S
  BY <1>3, FirstIsOne
<1> QED
  BY <1>3, <1>4 DEF Least, S

(* Counting the places of a sequence that fit, and those of a longer one. *)
LEMMA CountPlaces ==
    ASSUME NEW n \in Nat, NEW T \in SUBSET (1..n)
    PROVE  /\ IsFiniteSet(T) /\ Cardinality(T) \in 0..n
           /\ Cardinality(T \cup {n + 1}) = Cardinality(T) + 1
<1>1. IsFiniteSet(1..n) /\ Cardinality(1..n) = n
  BY FS_Interval
<1>2. IsFiniteSet(T) /\ Cardinality(T) <= n /\ Cardinality(T) \in Nat
  BY <1>1, FS_Subset, FS_CardinalityType
<1>3. n + 1 \notin T
  OBVIOUS
<1> QED
  BY <1>2, <1>3, FS_AddElement

(* A theme is mentioned no more often than there were exchanges. *)
LEMMA MentionsBound ==
    ASSUME NEW S, NEW talk \in Seq(S), NEW t
    PROVE  Mentions(talk, t) \in 0..Len(talk) /\ Mentions(talk, t) \in Nat
<1> DEFINE T == {i \in DOMAIN talk : t \in talk[i].topics}
<1>1. T \in SUBSET (1..Len(talk)) /\ Len(talk) \in Nat
  OBVIOUS
<1> HIDE DEF T
<1>2. Cardinality(T) \in 0..Len(talk)
  BY <1>1, CountPlaces
<1> QED
  BY <1>1, <1>2 DEF T, Mentions

(* An exchange adds the themes it touches, once each. *)
LEMMA MentionsAppend ==
    ASSUME NEW S, NEW talk \in Seq(S), NEW x, NEW t
    PROVE  Mentions(Append(talk, x), t) = Mentions(talk, t) + (IF t \in x.topics THEN 1 ELSE 0)
<1> DEFINE p == Append(talk, x)
           n == Len(talk)
           T == {i \in DOMAIN talk : t \in talk[i].topics}
           U == {i \in DOMAIN p : t \in p[i].topics}
<1>1. n \in Nat /\ DOMAIN talk = 1..n /\ T \in SUBSET (1..n)
  OBVIOUS
<1>2. talk \in Seq(S \cup {x}) /\ x \in S \cup {x}
  OBVIOUS
<1>3. /\ DOMAIN p = 1..(n + 1) /\ p[n + 1] = x
      /\ \A i \in 1..n : p[i] = talk[i]
  BY <1>2, AppendProperties
<1> HIDE DEF p, n
<1>4. U = IF t \in x.topics THEN T \cup {n + 1} ELSE T
  BY <1>1, <1>3
<1> HIDE DEF T, U
<1>5. Cardinality(T) \in 0..n /\ Cardinality(T \cup {n + 1}) = Cardinality(T) + 1
  BY <1>1, CountPlaces
<1>6. Cardinality(U) = Cardinality(T) + (IF t \in x.topics THEN 1 ELSE 0)
  BY <1>1, <1>4, <1>5
<1> QED
  BY <1>6 DEF U, T, p, Mentions

-----------------------------------------------------------------------------
(* The invariant *)

Exchanges == [topics : SUBSET Keys, steer : Keys \cup {None}]
Asks ==
    [shown : 0..History, eng : [Keys -> 0..Turns], done : SUBSET Keys, open : SUBSET Keys,
     hinted : SUBSET Keys, steer : Keys \cup {None}, topic : Keys \cup {None}]

(* While the judge is asked the conversation waits: what was worked out of *)
(* it then is what would be worked out of it now.                          *)
Waits ==
    call.pc = "judge" =>
        /\ phase = "play" /\ turns < Turns
        /\ call.ask = Asked(call.choice)
        /\ ~call.said => call.choice = {}

(* A request that sends a run has one to send. *)
Sends == call.pc = "submit" => call.run # <<>>

(* A run is as long as its talk, and no longer than its turns. *)
Lengths ==
    /\ Len(game.talk) = game.steps /\ game.steps <= turns
    /\ forgot <= turns

(* Every turn the model leaves the tension out of adds the drift. *)
Rising == phase = "play" => forgot * Drift <= game.anger /\ game.anger < AngerLoseAt

DInv ==
    /\ TypeOK /\ Waits /\ Sends /\ Lengths /\ Rising
    /\ ThemesAreEarned /\ TalkOpens /\ NeverHammered

(* The types of the conversation, of the request, and of the rest. *)
GameTyped ==
    /\ game.talk \in Seq(Exchanges)
    /\ game.anger \in 0..MaxAnger /\ game.themes \in SUBSET Keys
    /\ game.steps \in 0..Turns /\ game.options \in 0..OptionCount /\ game.won \in BOOLEAN
CallTyped ==
    /\ call.pc \in {"idle", "judge", "submit", "boards"} /\ call.choice \in SUBSET Keys
    /\ call.said \in BOOLEAN
    /\ call.ask \in Asks /\ call.run \in Seq(Runs)
RestTyped ==
    /\ phase \in {"intro", "play", "ending"}
    /\ runs \in Seq(Runs) /\ ended \in Seq(Runs)
    /\ forgot \in 0..Turns /\ turns \in 0..Turns

(* The request that was never made. *)
LEMMA NoAskTyped == NoAsk \in Asks
BY Bounds DEF NoAsk, Asks

-----------------------------------------------------------------------------
(* What is asked *)

(* Engagement counts the talk and the line just said. *)
LEMMA EngagementTyped ==
    ASSUME NEW talk \in Seq(Exchanges), NEW c \in SUBSET Keys, Len(talk) < Turns
    PROVE  /\ ThemeEngagement(talk, c) \in [Keys -> 0..Turns]
           /\ ThemeEngagement(talk, c) \in [Keys -> Nat]
           /\ \A t \in Keys : ThemeEngagement(talk, c)[t] = Mentions(talk, t) + (IF t \in c THEN 1 ELSE 0)
<1>1. \A t \in Keys : Mentions(talk, t) \in 0..Len(talk) /\ Mentions(talk, t) \in Nat
  BY MentionsBound
<1>2. Len(talk) \in Nat /\ Turns \in Nat
  BY Bounds
<1>3. \A t \in Keys : Mentions(talk, t) + (IF t \in c THEN 1 ELSE 0) \in 0..Turns
  BY <1>1, <1>2
<1>4. \A t \in Keys : Mentions(talk, t) + (IF t \in c THEN 1 ELSE 0) \in Nat
  BY <1>1
<1> QED
  BY <1>3, <1>4 DEF ThemeEngagement

(* A theme is pushed only while it is closed and below the threshold. *)
LEMMA SteerFacts ==
    ASSUME NEW done \in SUBSET Keys, NEW eng \in [Keys -> Nat]
    PROVE  /\ SteerTheme(done, eng) \in Keys \cup {None}
           /\ \A t \in Keys : SteerTheme(done, eng) = t => t \notin done /\ eng[t] < ConfirmTurns
<1> DEFINE open == Keys \ done
           least == Least(open, eng)
<1>1. open # {} => least \in open
  BY LeastIsOne
<1> HIDE DEF least
<1>2. SteerTheme(done, eng) = IF open = {} \/ eng[least] >= ConfirmTurns THEN None ELSE least
  BY DEF SteerTheme, OpenThemes, least
<1>3. CASE open = {} \/ eng[least] >= ConfirmTurns
  BY <1>2, <1>3, Bounds
<1>4. CASE open # {} /\ ~(eng[least] >= ConfirmTurns)
  <2>1. least \in open /\ least \in Keys /\ eng[least] \in Nat
    BY <1>1, <1>4
  <2>2. SteerTheme(done, eng) = least
    BY <1>2, <1>4
  <2>3. eng[least] < ConfirmTurns
    BY <1>4, <2>1, Bounds
  <2> QED
    BY <2>1, <2>2, <2>3
<1> QED
  BY <1>3, <1>4

(* The current topic is a theme, or none. *)
LEMMA TopicTyped ==
    ASSUME NEW talk \in Seq(Exchanges), NEW c \in SUBSET Keys
    PROVE  CurrentTopic(talk, c) \in Keys \cup {None}
<1> DEFINE recent == c \cup (IF talk = <<>> THEN {} ELSE Last(talk).topics)
<1>1. recent \in SUBSET Keys
  <2>1. talk # <<>> => Last(talk) \in Exchanges
    BY DEF Last
  <2> QED
    BY <2>1 DEF Exchanges
<1> HIDE DEF recent
<1>2. recent # {} => First(recent) \in Keys
  BY <1>1, FirstIsOne
<1> QED
  BY <1>2 DEF CurrentTopic, recent

(* The window never shows more than it is wide. *)
LEMMA WindowTyped ==
    ASSUME NEW talk \in Seq(Exchanges)
    PROVE  Len(WindowTranscript(talk)) \in 0..History
<1> DEFINE m == IF Len(talk) > History THEN Len(talk) - History + 1 ELSE 1
<1>1. Len(talk) \in Nat /\ History \in Nat
  BY Bounds
<1>2. m \in 1..(Len(talk) + 1)
  BY <1>1
<1>3. \A i \in m..Len(talk) : talk[i] \in Exchanges
  BY <1>1, <1>2
<1>4. m <= Len(talk) => Len(talk) - m + 1 \in 0..History
  BY <1>1
<1> HIDE DEF m
<1>5. Len(SubSeq(talk, m, Len(talk))) = IF m <= Len(talk) THEN Len(talk) - m + 1 ELSE 0
  BY <1>1, <1>2, <1>3, SubSeqProperties
<1> QED
  BY <1>1, <1>4, <1>5 DEF WindowTranscript, m

(* What the judge is asked, part by part. *)
LEMMA AskedFacts ==
    ASSUME GameTyped, NEW c \in SUBSET Keys, Len(game.talk) < Turns
    PROVE  /\ Asked(c) \in Asks
           /\ Asked(c).eng = ThemeEngagement(game.talk, c)
           /\ Asked(c).done = AutoMarkThemes(game.themes, Asked(c).eng)
           /\ Asked(c).open = Keys \ Asked(c).done
           /\ Asked(c).hinted = {t \in Asked(c).open : Asked(c).eng[t] >= ConfirmTurns}
           /\ \A t \in Keys : Asked(c).steer = t =>
                 t \in Asked(c).open /\ Asked(c).eng[t] < ConfirmTurns
<1> DEFINE eng == ThemeEngagement(game.talk, c)
           done == AutoMarkThemes(game.themes, eng)
           shown == Len(WindowTranscript(game.talk))
           steer == SteerTheme(done, eng)
           topic == CurrentTopic(game.talk, c)
<1>1. eng \in [Keys -> 0..Turns] /\ eng \in [Keys -> Nat]
  BY EngagementTyped DEF GameTyped
<1> HIDE DEF eng
<1>2. done \in SUBSET Keys
  BY DEF AutoMarkThemes, GameTyped
<1> HIDE DEF done
<1>3. /\ steer \in Keys \cup {None}
      /\ \A t \in Keys : steer = t => t \notin done /\ eng[t] < ConfirmTurns
  BY <1>1, <1>2, SteerFacts
<1>4. shown \in 0..History /\ topic \in Keys \cup {None}
  BY WindowTyped, TopicTyped DEF GameTyped
<1>5. Asked(c) = [shown |-> shown, eng |-> eng, done |-> done, open |-> Keys \ done,
                  hinted |-> {t \in Keys \ done : eng[t] >= ConfirmTurns},
                  steer |-> steer, topic |-> topic]
  BY DEF Asked, BuildMessages, OpenThemes, eng, done
<1> HIDE DEF shown, steer, topic
<1>6. Asked(c) \in Asks
  BY <1>1, <1>2, <1>3, <1>4, <1>5 DEF Asks
<1>7. /\ Asked(c).eng = eng /\ Asked(c).done = done /\ Asked(c).open = Keys \ done
      /\ Asked(c).hinted = {t \in Keys \ done : eng[t] >= ConfirmTurns}
      /\ Asked(c).steer = steer
  BY <1>5
<1> QED
  BY <1>3, <1>6, <1>7 DEF eng, done

-----------------------------------------------------------------------------
(* What a turn adds to the talk *)

Hammered(talk, t) ==
    Cardinality({i \in DOMAIN talk : talk[i].steer = t /\ t \in talk[i].topics})

(* A theme is hammered no more often than it is mentioned. *)
LEMMA HammeredBound ==
    ASSUME NEW S, NEW talk \in Seq(S), NEW t
    PROVE  Hammered(talk, t) \in Nat /\ Hammered(talk, t) <= Mentions(talk, t)
<1> DEFINE T == {i \in DOMAIN talk : talk[i].steer = t /\ t \in talk[i].topics}
           U == {i \in DOMAIN talk : t \in talk[i].topics}
<1>1. T \subseteq U /\ U \in SUBSET (1..Len(talk)) /\ Len(talk) \in Nat
  OBVIOUS
<1> HIDE DEF T, U
<1>2. IsFiniteSet(U)
  BY <1>1, CountPlaces
<1>3. Cardinality(T) <= Cardinality(U) /\ IsFiniteSet(T)
  BY <1>1, <1>2, FS_Subset
<1>4. Cardinality(T) \in Nat
  BY <1>3, FS_CardinalityType
<1> QED
  BY <1>3, <1>4 DEF Hammered, Mentions, T, U

(* An exchange hammers the theme it was steered to, if it was about it. *)
LEMMA HammeredAppend ==
    ASSUME NEW S, NEW talk \in Seq(S), NEW x, NEW t
    PROVE  Hammered(Append(talk, x), t)
               = Hammered(talk, t) + (IF x.steer = t /\ t \in x.topics THEN 1 ELSE 0)
<1> DEFINE p == Append(talk, x)
           n == Len(talk)
           T == {i \in DOMAIN talk : talk[i].steer = t /\ t \in talk[i].topics}
           U == {i \in DOMAIN p : p[i].steer = t /\ t \in p[i].topics}
<1>1. n \in Nat /\ DOMAIN talk = 1..n /\ T \in SUBSET (1..n)
  OBVIOUS
<1>2. talk \in Seq(S \cup {x}) /\ x \in S \cup {x}
  OBVIOUS
<1>3. /\ DOMAIN p = 1..(n + 1) /\ p[n + 1] = x
      /\ \A i \in 1..n : p[i] = talk[i]
  BY <1>2, AppendProperties
<1> HIDE DEF p, n
<1>4. U = IF x.steer = t /\ t \in x.topics THEN T \cup {n + 1} ELSE T
  BY <1>1, <1>3
<1> HIDE DEF T, U
<1>5. Cardinality(T) \in 0..n /\ Cardinality(T \cup {n + 1}) = Cardinality(T) + 1
  BY <1>1, CountPlaces
<1>6. Cardinality(U) = Cardinality(T) + (IF x.steer = t /\ t \in x.topics THEN 1 ELSE 0)
  BY <1>1, <1>4, <1>5
<1> QED
  BY <1>6 DEF U, T, p, Hammered

(* Without its last exchange a talk that grew is what it was. *)
LEMMA BeforeLast ==
    ASSUME NEW S, NEW talk \in Seq(S), NEW x \in S
    PROVE  SubSeq(Append(talk, x), 1, Len(Append(talk, x)) - 1) = talk
<1> DEFINE p == Append(talk, x)
           n == Len(talk)
           q == SubSeq(p, 1, n)
<1>1. n \in Nat /\ DOMAIN talk = 1..n
  OBVIOUS
<1>2. /\ p \in Seq(S) /\ Len(p) = n + 1
      /\ \A i \in 1..n : p[i] = talk[i]
  BY AppendProperties
<1> HIDE DEF p, n
<1>3. \A i \in 1..n : p[i] \in S
  BY <1>1, <1>2
<1>4. q \in Seq(S) /\ Len(q) = n /\ \A i \in 1..n : q[i] = p[i]
  <2>1. /\ q \in Seq(S) /\ Len(q) = IF 1 <= n THEN n - 1 + 1 ELSE 0
        /\ \A i \in 1..(n - 1 + 1) : q[i] = p[1 + i - 1]
    BY <1>1, <1>3, SubSeqProperties
  <2> HIDE DEF q
  <2> QED
    BY <1>1, <2>1
<1>5. q = talk
  <2> HIDE DEF q
  <2>1. talk \in Seq(S) /\ Len(talk) = n
    BY DEF n
  <2> QED
    BY <1>1, <1>2, <1>4, <2>1
<1>6. Len(p) - 1 = n
  BY <1>1, <1>2
<1> QED
  BY <1>5, <1>6 DEF p

(* Nothing was said in a talk without exchanges. *)
LEMMA Silent ==
    /\ <<>> \in Seq(Exchanges) /\ Len(<<>>) = 0
    /\ \A t \in Keys : Mentions(SubSeq(<<>>, 1, 0 - 1), t) = 0
    /\ \A t \in Keys : Hammered(<<>>, t) = 0
<1>1. <<>> \in Seq(Exchanges) /\ Len(<<>>) = 0
  OBVIOUS
<1>2. \A t \in Keys : Mentions(SubSeq(<<>>, 1, 0 - 1), t) = 0
  <2>1. SubSeq(<<>>, 1, 0 - 1) \in Seq(Exchanges) /\ Len(SubSeq(<<>>, 1, 0 - 1)) = 0
    OBVIOUS
  <2> DEFINE q == SubSeq(<<>>, 1, 0 - 1)
  <2> HIDE DEF q
  <2>2. \A t \in Keys : Mentions(q, t) \in 0..Len(q)
    BY <2>1, MentionsBound DEF q
  <2> QED
    BY <2>1, <2>2 DEF q
<1>3. \A t \in Keys : Hammered(<<>>, t) = 0
  <2>1. \A t \in Keys : Mentions(<<>>, t) \in 0..0
    BY <1>1, MentionsBound
  <2>2. \A t \in Keys : Hammered(<<>>, t) \in Nat /\ Hammered(<<>>, t) <= Mentions(<<>>, t)
    BY <1>1, HammeredBound
  <2> QED
    BY <2>1, <2>2
<1> QED
  BY <1>1, <1>2, <1>3

(* A run that has not begun, before a step and after one. *)
LEMMA OpeningNow ==
    ASSUME game = Opening
    PROVE  /\ GameTyped /\ ThemesAreEarned /\ TalkOpens /\ NeverHammered
           /\ Len(game.talk) = 0 /\ game.steps = 0
           /\ game.anger = StartAnger
<1>1. /\ game.talk = <<>> /\ game.themes = {} /\ game.steps = 0
      /\ game.anger = StartAnger /\ game.options = OptionCount /\ game.won = FALSE
  BY DEF Opening
<1>2. GameTyped
  <2>1. game.won \in BOOLEAN
    BY <1>1
  <2>2. /\ game.talk \in Seq(Exchanges) /\ game.themes \in SUBSET Keys
        /\ game.anger \in 0..MaxAnger /\ game.steps \in 0..Turns
        /\ game.options \in 0..OptionCount
    BY <1>1, Silent, Bounds
  <2> QED
    BY <2>1, <2>2 DEF GameTyped
<1>3. TalkOpens
  BY <1>1, Silent, Bounds DEF TalkOpens
<1>4. NeverHammered
  BY <1>1, Silent, Bounds DEF NeverHammered, Hammered
<1> QED
  BY <1>1, <1>2, <1>3, <1>4, Silent DEF ThemesAreEarned

LEMMA OpeningFacts ==
    ASSUME game' = Opening
    PROVE  /\ GameTyped' /\ ThemesAreEarned' /\ TalkOpens' /\ NeverHammered'
           /\ Len(game'.talk) = 0 /\ game'.steps = 0
           /\ game'.anger = StartAnger
<1>1. /\ game'.talk = <<>> /\ game'.themes = {} /\ game'.steps = 0
      /\ game'.anger = StartAnger /\ game'.options = OptionCount /\ game'.won = FALSE
  BY DEF Opening
<1>2. GameTyped'
  <2>1. game'.won \in BOOLEAN
    BY <1>1
  <2>2. /\ game'.talk \in Seq(Exchanges) /\ game'.themes \in SUBSET Keys
        /\ game'.anger \in 0..MaxAnger /\ game'.steps \in 0..Turns
        /\ game'.options \in 0..OptionCount
    BY <1>1, Silent, Bounds
  <2> QED
    BY <2>1, <2>2 DEF GameTyped
<1>3. TalkOpens'
  BY <1>1, Silent, Bounds DEF TalkOpens
<1>4. NeverHammered'
  BY <1>1, Silent, Bounds DEF NeverHammered, Hammered
<1> QED
  BY <1>1, <1>2, <1>3, <1>4, Silent DEF ThemesAreEarned

(* The types, in the groups that steps change together. *)
LEMMA TypesAre == TypeOK <=> GameTyped /\ CallTyped /\ RestTyped
BY DEF TypeOK, GameTyped, CallTyped, RestTyped, Exchanges, Asks

(* The same after a step. *)
LEMMA TypesFollow ==
    ASSUME GameTyped', CallTyped', RestTyped'
    PROVE  TypeOK'
BY DEF TypeOK, GameTyped, CallTyped, RestTyped, Exchanges, Asks

-----------------------------------------------------------------------------
(* What is made of the answer *)

(* The themes after a turn: those of before, and none that was not earned. *)
LEMMA ClaimsFacts ==
    ASSUME NEW ask, NEW old \in SUBSET Keys, NEW eng \in [Keys -> Nat],
           ask.eng = eng, ask.done = AutoMarkThemes(old, eng),
           NEW themes \in Claims(ask)
    PROVE  /\ themes \in SUBSET Keys /\ old \subseteq themes
           /\ \A t \in themes : t \in old \/ eng[t] >= ConfirmTurns
           /\ \A t \in Keys : eng[t] >= AutoDoneTurns => t \in themes
<1> DEFINE done == old \cup {t \in Keys : eng[t] >= AutoDoneTurns}
<1>1. ask.done = done /\ done \in SUBSET Keys
  BY DEF AutoMarkThemes
<1>2. \A t \in done : t \in old \/ eng[t] >= ConfirmTurns
  BY Bounds
<1>3. \/ themes = done
      \/ \E S \in SUBSET (Keys \cup {None}) :
            themes = done \cup {t \in S \cap Keys : eng[t] >= ConfirmTurns}
  BY <1>1 DEF Claims, ConfirmThemes, ClampThemes
<1>4. \A t \in Keys : eng[t] >= AutoDoneTurns => t \in done
  OBVIOUS
<1>5. old \subseteq done
  OBVIOUS
<1> HIDE DEF done
<1> QED
  BY <1>1, <1>2, <1>3, <1>4, <1>5

(* The tension after a turn. *)
LEMMA ClampFacts ==
    ASSUME NEW v \in Int
    PROVE  /\ ClampAnger(v) \in 0..MaxAnger
           /\ v \in Nat => ClampAnger(v) = v \/ ClampAnger(v) = MaxAnger
BY Bounds DEF ClampAnger

(* The tension stays on its scale; unreported, it drifts up or is at its top. *)
LEMMA AngerFacts ==
    ASSUME NEW a \in 0..MaxAnger, NEW f \in Tensions
    PROVE  /\ NewAnger(a, f) \in 0..MaxAnger
           /\ f.field = "absent" =>
                 NewAnger(a, f) = a + Drift \/ NewAnger(a, f) = MaxAnger
<1>1. f.n \in Int
  BY Bounds DEF Tensions
<1>2. a + Drift \in Nat /\ a + Drift \in Int
  BY Bounds
<1> QED
  BY <1>1, <1>2, ClampFacts DEF NewAnger

(* There are options exactly while the run may go on. *)
LEMMA OptionFacts ==
    ASSUME NEW over \in BOOLEAN, NEW n \in {OptionsWhilePlaying(over, k) : k \in OptionCounts}
    PROVE  n \in 0..OptionCount /\ (n # 0 => ~over)
<1>1. PICK k \in OptionCounts : n = OptionsWhilePlaying(over, k)
  OBVIOUS
<1>2. k \in Nat
  <2>1. PICK m \in 0..OptionCount + 1, stray \in 0..OptionCount : k = Salvaged(m, stray)
    BY <1>1 DEF OptionCounts
  <2> QED
    BY <2>1, Bounds DEF Salvaged
<1> DEFINE b == IF k > OptionCount THEN OptionCount ELSE k
<1>3. b \in 0..OptionCount /\ 0 \in 0..OptionCount
  BY <1>2, Bounds
<1>4. n = IF over THEN 0 ELSE b
  BY <1>1 DEF OptionsWhilePlaying
<1> HIDE DEF b
<1> QED
  BY <1>3, <1>4

-----------------------------------------------------------------------------
(* The steps *)

(* A new run begins with nothing said and nothing open. *)
LEMMA StartKeeps ==
    ASSUME DInv, Start
    PROVE  DInv'
<1>1. GameTyped /\ CallTyped /\ RestTyped
  BY TypesAre DEF DInv
<1>2. game' = Opening /\ phase' = "play" /\ forgot' = 0 /\ UNCHANGED <<call, runs, ended, turns>>
      /\ phase # "play"
  BY DEF Start
<1>3. /\ GameTyped' /\ ThemesAreEarned' /\ TalkOpens' /\ NeverHammered'
      /\ Len(game'.talk) = 0 /\ game'.steps = 0 /\ game'.anger = StartAnger
  BY <1>2, OpeningFacts
<1>4. TypeOK'
  <2>1. CallTyped' /\ RestTyped'
    BY <1>1, <1>2, Bounds DEF CallTyped, RestTyped
  <2> QED
    BY <1>3, <2>1, TypesFollow
<1>5. Waits' /\ Sends'
  BY <1>2 DEF DInv, Waits, Sends
<1>6. Lengths' /\ Rising'
  BY <1>1, <1>2, <1>3, Bounds DEF Lengths, Rising, RestTyped
<1> QED
  BY <1>3, <1>4, <1>5, <1>6 DEF DInv

(* A line is judged by what is worked out of the talk it is said in. *)
LEMMA ChooseKeeps ==
    ASSUME DInv, NEW c \in SUBSET Keys, NEW said \in BOOLEAN, Choose(c, said)
    PROVE  DInv'
<1>1. GameTyped /\ CallTyped /\ RestTyped
  BY TypesAre DEF DInv
<1>2. /\ phase = "play" /\ turns < Turns
      /\ call' = [Idle EXCEPT !.pc = "judge", !.choice = c, !.said = said, !.ask = Asked(c)]
      /\ UNCHANGED <<phase, game, runs, forgot, ended, turns>>
      /\ ~said => c = {}
  BY DEF Choose
<1>3. Len(game.talk) < Turns
  BY <1>1, <1>2, Bounds, SMTT(30) DEF DInv, Lengths, GameTyped, RestTyped
<1>4. Asked(c) \in Asks /\ Asked(c)' = Asked(c)
  <2>1. Asked(c)' = Asked(c)
    BY <1>2 DEF Asked
  <2> QED
    BY <1>1, <1>3, <2>1, AskedFacts
<1>5. call'.pc = "judge" /\ call'.choice = c /\ call'.ask = Asked(c) /\ call'.run = <<>>
      /\ call'.said = said
  BY <1>2 DEF Idle
<1>6. TypeOK'
  <2>1. CallTyped'
    BY <1>4, <1>5 DEF CallTyped
  <2>2. GameTyped' /\ RestTyped'
    BY <1>1, <1>2 DEF GameTyped, RestTyped
  <2> QED
    BY <2>1, <2>2, TypesFollow
<1>7. Waits' /\ Sends'
  BY <1>2, <1>4, <1>5 DEF Waits, Sends, Asked
<1>8. Lengths' /\ Rising' /\ ThemesAreEarned' /\ TalkOpens' /\ NeverHammered'
  BY <1>2 DEF DInv, Lengths, Rising, ThemesAreEarned, TalkOpens, NeverHammered
<1> QED
  BY <1>6, <1>7, <1>8 DEF DInv

(* The steps that only end a request. *)
LEMMA CallEnds ==
    ASSUME DInv, UNCHANGED <<phase, game, forgot, ended, turns>>, runs' \in Seq(Runs),
           CallTyped', call'.pc # "judge", Sends'
    PROVE  DInv'
<1>1. GameTyped /\ CallTyped /\ RestTyped
  BY TypesAre DEF DInv
<1>2. TypeOK'
  <2>1. GameTyped' /\ RestTyped'
    BY <1>1 DEF GameTyped, RestTyped
  <2> QED
    BY <2>1, TypesFollow
<1>3. Waits'
  BY DEF Waits
<1>4. Lengths' /\ Rising' /\ ThemesAreEarned' /\ TalkOpens' /\ NeverHammered'
  BY DEF DInv, Lengths, Rising, ThemesAreEarned, TalkOpens, NeverHammered
<1> QED
  BY <1>2, <1>3, <1>4 DEF DInv

(* No request. *)
LEMMA IdleTyped ==
    /\ Idle.pc = "idle" /\ Idle.choice \in SUBSET Keys /\ Idle.said \in BOOLEAN
    /\ Idle.ask \in Asks /\ Idle.run \in Seq(Runs)
BY NoAskTyped DEF Idle

(* An answer that is no use, a row written, a board fetched. *)
LEMMA EndsKeep ==
    ASSUME DInv, Unusable \/ SubmitRun \/ SubmitFails \/ RefreshBoard
    PROVE  DInv'
<1>1. CallTyped /\ RestTyped /\ Sends
  BY TypesAre DEF DInv
<1>2. UNCHANGED <<phase, game, forgot, ended, turns>>
  BY DEF Unusable, SubmitRun, SubmitFails, RefreshBoard
<1>3. call' = Idle \/ call' = [Idle EXCEPT !.pc = "boards"]
  BY DEF Unusable, SubmitRun, SubmitFails, RefreshBoard
<1>4. CallTyped' /\ call'.pc # "judge" /\ Sends'
  <2>1. /\ call'.pc \in {"idle", "boards"} /\ call'.choice \in SUBSET Keys /\ call'.ask \in Asks
        /\ call'.run \in Seq(Runs) /\ call'.said \in BOOLEAN
    BY <1>3, IdleTyped DEF Idle
  <2> QED
    BY <2>1 DEF CallTyped, Sends
<1>5. runs' \in Seq(Runs)
  <2>1. runs \in Seq(Runs)
    BY <1>1 DEF RestTyped
  <2>2. CASE call.pc = "submit"
    <3>1. call.run[1] \in Runs
      BY <1>1, <2>2 DEF CallTyped, Sends
    <3>2. Append(runs, call.run[1]) \in Seq(Runs)
      BY <2>1, <3>1, AppendProperties
    <3>3. runs' = runs \/ runs' = Append(runs, call.run[1])
      BY <2>2 DEF Unusable, SubmitRun, SubmitFails, RefreshBoard
    <3> QED
      BY <2>1, <3>2, <3>3
  <2>3. CASE call.pc # "submit"
    BY <2>1, <2>3 DEF Unusable, SubmitRun, SubmitFails, RefreshBoard
  <2> QED
    BY <2>2, <2>3
<1> QED
  BY <1>2, <1>4, <1>5, CallEnds

(* The turn the judge answered, taken in by the view. *)
LEMMA JudgedKeeps ==
    ASSUME DInv, Judged
    PROVE  DInv'
<1>1. GameTyped /\ CallTyped /\ RestTyped /\ Waits /\ Lengths /\ Rising
  BY TypesAre DEF DInv
<1>2. PICK f \in Tensions, themes \in Claims(call.ask), reply \in SUBSET Keys,
           achieved \in BOOLEAN, gameOver \in BOOLEAN :
             Verdict(f, themes, reply, achieved, gameOver)
  BY DEF Judged
<1> DEFINE a == NewAnger(game.anger, f)
           lost == (gameOver \/ a >= AngerLoseAt) /\ ~achieved
           x == [topics |-> call.choice \cup reply, steer |-> call.ask.steer]
           eng == ThemeEngagement(game.talk, call.choice)
<1>3. /\ call.pc = "judge" /\ phase = "play" /\ turns < Turns /\ call.ask = Asked(call.choice)
      /\ call.choice \in SUBSET Keys /\ runs' = runs /\ (~call.said => call.choice = {})
  BY <1>1 DEF Judged, Waits, CallTyped
<1>4. PICK n \in {OptionsWhilePlaying(achieved \/ lost, k) : k \in OptionCounts} :
        LET g == [talk |-> Told(reply), anger |-> a, themes |-> themes, steps |-> Stepped,
                  options |-> n, won |-> achieved]
        IN  /\ game' = g /\ turns' = turns + 1
            /\ forgot' = IF f.field = "absent" THEN forgot + 1 ELSE 0
            /\ TurnEnds(g, achieved \/ lost)
  BY <1>2 DEF Verdict
<1> DEFINE g == [talk |-> Told(reply), anger |-> a, themes |-> themes, steps |-> Stepped,
                 options |-> n, won |-> achieved]
           over == achieved \/ lost
<1>5. /\ game' = g /\ turns' = turns + 1
      /\ forgot' = IF f.field = "absent" THEN forgot + 1 ELSE 0
      /\ IF over \/ (call.said /\ n = 0) THEN Finish(g)
         ELSE call' = Idle /\ UNCHANGED <<phase, ended>>
  BY <1>4 DEF TurnEnds
<1>6. /\ game.talk \in Seq(Exchanges) /\ Len(game.talk) = game.steps /\ game.steps < Turns
      /\ game.steps \in Nat /\ turns \in Nat /\ forgot \in Nat /\ forgot <= turns
      /\ game.steps <= turns /\ Turns \in Nat /\ game.anger \in 0..MaxAnger
      /\ game.themes \in SUBSET Keys
  <2>1. /\ game.talk \in Seq(Exchanges) /\ game.steps \in Nat /\ game.anger \in 0..MaxAnger
        /\ game.themes \in SUBSET Keys
    BY <1>1, Bounds DEF GameTyped
  <2>2. turns \in Nat /\ forgot \in Nat /\ Turns \in Nat
    BY <1>1, Bounds DEF RestTyped
  <2>3. Len(game.talk) = game.steps /\ game.steps <= turns /\ forgot <= turns
    BY <1>1 DEF Lengths
  <2>4. game.steps < Turns
    BY <1>3, <2>1, <2>2, <2>3
  <2> QED
    BY <2>1, <2>2, <2>3, <2>4
<1>7. x \in Exchanges /\ x.topics = call.choice \cup reply /\ x.steer = call.ask.steer
  BY <1>1, <1>3 DEF CallTyped, Asks, Exchanges
<1>8. /\ eng \in [Keys -> Nat] /\ call.ask.eng = eng
      /\ call.ask.done = AutoMarkThemes(game.themes, eng)
      /\ \A t \in Keys : eng[t] = Mentions(game.talk, t) + (IF t \in call.choice THEN 1 ELSE 0)
      /\ \A t \in Keys : call.ask.steer = t => eng[t] < ConfirmTurns
  <2>1. Len(game.talk) < Turns
    BY <1>6
  <2>2. /\ eng \in [Keys -> Nat]
        /\ \A t \in Keys : eng[t] = Mentions(game.talk, t) + (IF t \in call.choice THEN 1 ELSE 0)
    BY <1>3, <1>6, <2>1, EngagementTyped
  <2>3. /\ Asked(call.choice).eng = eng
        /\ Asked(call.choice).done = AutoMarkThemes(game.themes, Asked(call.choice).eng)
        /\ \A t \in Keys : Asked(call.choice).steer = t => Asked(call.choice).eng[t] < ConfirmTurns
    BY <1>1, <1>3, <2>1, AskedFacts
  <2> HIDE DEF eng
  <2> QED
    BY <1>3, <2>2, <2>3
<1> HIDE DEF eng
<1>9. /\ themes \in SUBSET Keys /\ game.themes \subseteq themes
      /\ \A t \in themes : t \in game.themes \/ eng[t] >= ConfirmTurns
      /\ \A t \in Keys : eng[t] >= AutoDoneTurns => t \in themes
  <2>1. PICK ask : ask = call.ask
    OBVIOUS
  <2>2. ask.eng = eng /\ ask.done = AutoMarkThemes(game.themes, eng) /\ themes \in Claims(ask)
    BY <1>2, <1>8, <2>1
  <2>3. game.themes \in SUBSET Keys /\ eng \in [Keys -> Nat]
    BY <1>6, <1>8
  <2> QED
    BY <2>2, <2>3, ClaimsFacts
<1>10. /\ a \in 0..MaxAnger
       /\ f.field = "absent" => a = game.anger + Drift \/ a = MaxAnger
  BY <1>6, AngerFacts
<1>11. over \in BOOLEAN
  OBVIOUS
<1>12. n \in 0..OptionCount
  BY <1>11, OptionFacts
<1>13. ~over => a < AngerLoseAt
  <2>1. ~over => ~(a >= AngerLoseAt)
    OBVIOUS
  <2> QED
    BY <1>10, <2>1, Bounds
<1> HIDE DEF lost, over, a, x
<1> DEFINE p == Told(reply)
           k == IF call.said THEN 1 ELSE 0
<1>14. /\ p = IF call.said THEN Append(game.talk, x) ELSE game.talk
       /\ Stepped = game.steps + k /\ k \in {0, 1}
  BY DEF Told, Stepped, x
<1>15. /\ call.said => p = Append(game.talk, x) /\ k = 1
       /\ ~call.said => p = game.talk /\ k = 0
  BY <1>14
<1> HIDE DEF p, k
<1>16. p \in Seq(Exchanges) /\ Len(p) = Len(game.talk) + k
  <2>1. Append(game.talk, x) \in Seq(Exchanges) /\ Len(Append(game.talk, x)) = Len(game.talk) + 1
    BY <1>6, <1>7, AppendProperties
  <2>2. CASE call.said
    BY <1>15, <2>1, <2>2
  <2>3. CASE ~call.said
    BY <1>6, <1>15, <2>3
  <2> QED
    BY <2>2, <2>3
<1>17. \A t \in Keys : Mentions(game.talk, t) \in Nat /\ Hammered(game.talk, t) \in Nat
         /\ Hammered(game.talk, t) <= Mentions(game.talk, t)
  BY <1>6, MentionsBound, HammeredBound
<1>18. \A t \in Keys :
         Mentions(p, t) \in Nat /\ Mentions(p, t) >= Mentions(game.talk, t) /\ Mentions(p, t) >= eng[t]
  <2> SUFFICES ASSUME NEW t \in Keys
               PROVE  /\ Mentions(p, t) \in Nat /\ Mentions(p, t) >= Mentions(game.talk, t)
                      /\ Mentions(p, t) >= eng[t]
    OBVIOUS
  <2>1. CASE call.said
    <3>1. Mentions(Append(game.talk, x), t)
            = Mentions(game.talk, t) + (IF t \in x.topics THEN 1 ELSE 0)
      BY <1>6, MentionsAppend
    <3>2. Mentions(p, t) = Mentions(game.talk, t) + (IF t \in x.topics THEN 1 ELSE 0)
      BY <1>15, <2>1, <3>1
    <3> QED
      BY <1>7, <1>8, <1>17, <3>2
  <2>2. CASE ~call.said
    <3>1. Mentions(p, t) = Mentions(game.talk, t) /\ t \notin call.choice
      BY <1>3, <1>15, <2>2
    <3> QED
      BY <1>8, <1>17, <3>1
  <2> QED
    BY <2>1, <2>2
<1>19. \A t \in Keys : \/ Hammered(p, t) = Hammered(game.talk, t)
                       \/ x.steer = t /\ Hammered(p, t) = Hammered(game.talk, t) + 1
  <2> SUFFICES ASSUME NEW t \in Keys
               PROVE  \/ Hammered(p, t) = Hammered(game.talk, t)
                      \/ x.steer = t /\ Hammered(p, t) = Hammered(game.talk, t) + 1
    OBVIOUS
  <2>1. CASE call.said
    <3>1. Hammered(Append(game.talk, x), t)
            = Hammered(game.talk, t) + (IF x.steer = t /\ t \in x.topics THEN 1 ELSE 0)
      BY <1>6, HammeredAppend
    <3>2. Hammered(p, t)
            = Hammered(game.talk, t) + (IF x.steer = t /\ t \in x.topics THEN 1 ELSE 0)
      BY <1>15, <2>1, <3>1
    <3> QED
      BY <1>17, <3>2
  <2>2. CASE ~call.said
    BY <1>15, <2>2
  <2> QED
    BY <2>1, <2>2
<1>20. /\ game'.talk = p /\ game'.anger = a /\ game'.themes = themes
       /\ game'.steps = game.steps + k /\ game'.options = n /\ game'.won = achieved
  BY <1>5, <1>14 DEF p
<1>21. GameTyped'
  <2>1. game'.won \in BOOLEAN
    BY <1>20
  <2>2. game.steps + k \in 0..Turns
    BY <1>6, <1>14
  <2>3. /\ game'.talk \in Seq(Exchanges) /\ game'.themes \in SUBSET Keys
        /\ game'.anger \in 0..MaxAnger /\ game'.steps \in 0..Turns
        /\ game'.options \in 0..OptionCount
    BY <1>9, <1>10, <1>12, <1>16, <1>20, <2>2
  <2> QED
    BY <2>1, <2>3 DEF GameTyped
<1>22. Lengths'
  <2>1. Len(game'.talk) = game'.steps
    BY <1>6, <1>14, <1>16, <1>20
  <2>2. game'.steps <= turns' /\ forgot' <= turns'
    BY <1>5, <1>6, <1>14, <1>20
  <2> QED
    BY <2>1, <2>2 DEF Lengths
<1>23. ThemesAreEarned'
  <2> SUFFICES ASSUME NEW t \in themes PROVE Mentions(p, t) >= ConfirmTurns
    BY <1>20 DEF ThemesAreEarned
  <2>1. t \in Keys /\ ConfirmTurns \in Nat
    BY <1>9, Bounds
  <2>2. CASE t \in game.themes
    <3>1. Mentions(game.talk, t) >= ConfirmTurns
      BY <2>2 DEF DInv, ThemesAreEarned
    <3> QED
      BY <1>17, <1>18, <2>1, <3>1
  <2>3. CASE eng[t] >= ConfirmTurns
    BY <1>8, <1>18, <2>1, <2>3
  <2> QED
    BY <1>9, <2>2, <2>3
<1>24. TalkOpens'
  <2>1. CASE call.said
    <3>1. SubSeq(p, 1, Len(p) - 1) = game.talk
      <4>1. SubSeq(Append(game.talk, x), 1, Len(Append(game.talk, x)) - 1) = game.talk
        BY <1>6, <1>7, BeforeLast
      <4> QED
        BY <1>15, <2>1, <4>1
    <3> SUFFICES ASSUME NEW t \in Keys, Mentions(game.talk, t) >= AutoDoneTurns PROVE t \in themes
      BY <1>20, <3>1 DEF TalkOpens
    <3>2. eng[t] >= AutoDoneTurns
      <4>1. Mentions(game.talk, t) \in Nat /\ AutoDoneTurns \in Nat
        BY <1>17, Bounds
      <4>2. eng[t] = Mentions(game.talk, t) \/ eng[t] = Mentions(game.talk, t) + 1
        BY <1>8, <4>1
      <4> QED
        BY <4>1, <4>2
    <3> QED
      BY <1>9, <3>2
  <2>2. CASE ~call.said
    <3>1. game'.talk = game.talk /\ game.themes \subseteq game'.themes
      BY <1>9, <1>15, <1>20, <2>2
    <3>2. TalkOpens
      BY DEF DInv
    <3> QED
      BY <3>1, <3>2 DEF TalkOpens
  <2> QED
    BY <2>1, <2>2
<1>25. NeverHammered'
  <2>1. NeverHammered' <=> \A t \in Keys : Hammered(p, t) <= ConfirmTurns
    BY <1>20 DEF NeverHammered, Hammered
  <2> SUFFICES ASSUME NEW t \in Keys PROVE Hammered(p, t) <= ConfirmTurns
    BY <2>1
  <2>2. Hammered(game.talk, t) <= ConfirmTurns
    BY DEF DInv, NeverHammered, Hammered
  <2>3. CASE x.steer = t
    <3>1. eng[t] < ConfirmTurns
      BY <1>7, <1>8, <2>3
    <3>2. Mentions(game.talk, t) <= eng[t]
      BY <1>8, <1>17
    <3> QED
      BY <1>8, <1>17, <1>19, <3>1, <3>2, Bounds
  <2>4. CASE x.steer # t
    BY <1>17, <1>19, <2>2, <2>4, Bounds
  <2> QED
    BY <2>3, <2>4
<1>26. Rising'
  <2> SUFFICES ASSUME phase' = "play" PROVE forgot' * Drift <= a /\ a < AngerLoseAt
    BY <1>20 DEF Rising
  <2>1. ~over
    BY <1>5 DEF Finish
  <2>2. a < AngerLoseAt /\ a \in Nat
    BY <1>10, <1>13, <2>1
  <2>3. CASE f.field = "absent"
    <3>1. a = game.anger + Drift
      BY <1>10, <2>2, <2>3, Bounds
    <3>2. forgot' = forgot + 1
      BY <1>5, <2>3
    <3>3. forgot * Drift <= game.anger
      BY <1>1, <1>3 DEF Rising
    <3>4. (forgot + 1) * Drift = forgot * Drift + Drift /\ forgot * Drift \in Nat
      <4>1. forgot \in Nat /\ Drift \in Nat
        BY <1>6, Bounds
      <4> QED
        BY <4>1
    <3> QED
      BY <1>6, <2>2, <3>1, <3>2, <3>3, <3>4, Bounds
  <2>4. CASE f.field # "absent"
    <3>1. forgot' = 0 /\ 0 * Drift = 0
      BY <1>5, <2>4, Bounds
    <3> QED
      BY <2>2, <3>1
  <2> QED
    BY <2>3, <2>4
<1> DEFINE ends == over \/ (call.said /\ n = 0)
<1>27. CallTyped' /\ RestTyped' /\ call'.pc # "judge" /\ Sends'
  <2>1. runs' \in Seq(Runs) /\ forgot' \in 0..Turns /\ turns' \in 0..Turns
    BY <1>1, <1>3, <1>5, <1>6 DEF RestTyped
  <2>2. CASE ends
    <3> DEFINE run == [account |-> Me, success |-> achieved, steps |-> game.steps + k]
    <3>1. /\ phase' = "ending" /\ call' = [Idle EXCEPT !.pc = "submit", !.run = <<run>>]
          /\ ended' = Append(ended, run)
      BY <1>5, <1>14, <2>2 DEF Finish
    <3>2. run \in Runs
      <4>1. game.steps + k \in Nat /\ Me \in {Me} \cup Rivals
        BY <1>6, <1>14
      <4> QED
        BY <4>1, Zenon DEF Runs
    <3> HIDE DEF run
    <3>3. ended' \in Seq(Runs)
      BY <1>1, <3>1, <3>2, AppendProperties DEF RestTyped
    <3>4. /\ call'.pc = "submit" /\ call'.run = <<run>> /\ call'.choice = Idle.choice
          /\ call'.ask = Idle.ask /\ call'.said = Idle.said
      BY <3>1 DEF Idle
    <3>5. <<run>> \in Seq(Runs) /\ <<run>> # <<>>
      BY <3>2
    <3> QED
      BY <2>1, <3>1, <3>3, <3>4, <3>5, IdleTyped DEF CallTyped, RestTyped, Sends
  <2>3. CASE ~ends
    <3>1. call' = Idle /\ phase' = phase /\ ended' = ended
      BY <1>5, <2>3
    <3> QED
      BY <1>1, <2>1, <3>1, IdleTyped DEF CallTyped, RestTyped, Sends
  <2> QED
    BY <2>2, <2>3
<1>28. TypeOK' /\ Waits'
  BY <1>21, <1>27, TypesFollow DEF Waits
<1> QED
  BY <1>22, <1>23, <1>24, <1>25, <1>26, <1>27, <1>28 DEF DInv

-----------------------------------------------------------------------------
(* The theorems *)

(* A set written down in some order is a sequence of its members. *)
LEMMA SetToSeqTyped ==
    ASSUME NEW S, IsFiniteSet(S)
    PROVE  SetToSeq(S) \in Seq(S)
<1>1. Cardinality(S) \in Nat /\ ExistsBijection(1..Cardinality(S), S)
  BY FS_CardinalityType
<1>2. \E f \in [1..Cardinality(S) -> S] : IsInjective(f)
  BY <1>1 DEF ExistsBijection, Bijection, Injection
<1>3. SetToSeq(S) \in [1..Cardinality(S) -> S]
  BY <1>2 DEF SetToSeq
<1> DEFINE q == SetToSeq(S)
<1> HIDE DEF q
<1>4. q \in [1..Cardinality(S) -> S]
  BY <1>3 DEF q
<1>5. q \in Seq(S)
  BY <1>1, <1>4
<1> QED
  BY <1>5 DEF q

(* At first the table has the rivals' rows, in some order. *)
RivalRuns == {[account |-> b, success |-> TRUE, steps |-> 2] : b \in Rivals}
LEMMA FirstRows == Init => runs \in Seq(RivalRuns)
<1> SUFFICES ASSUME Init PROVE runs \in Seq(RivalRuns)
  OBVIOUS
<1> DEFINE f == [b \in Rivals |-> [account |-> b, success |-> TRUE, steps |-> 2]]
<1>1. f \in Surjection(Rivals, RivalRuns) /\ IsFiniteSet(Rivals)
  BY DialogueAssumption DEF Surjection, RivalRuns
<1>2. IsFiniteSet(RivalRuns)
  <2> HIDE DEF f
  <2> QED
    BY <1>1, FS_Surjection
<1>3. runs = SetToSeq(RivalRuns)
  BY DEF Init, RivalRuns
<1> QED
  BY <1>2, <1>3, SetToSeqTyped

(* The invariant holds at first. *)
LEMMA InitDInv == Init => DInv
<1> SUFFICES ASSUME Init PROVE DInv
  OBVIOUS
<1>1. runs \in Seq(Runs)
  <2>1. RivalRuns \subseteq Runs
    <3> SUFFICES ASSUME NEW b \in Rivals
                 PROVE  [account |-> b, success |-> TRUE, steps |-> 2] \in Runs
      BY DEF RivalRuns
    <3>1. TRUE \in BOOLEAN /\ b \in {Me} \cup Rivals /\ 2 \in Nat
      OBVIOUS
    <3> QED
      BY <3>1, Zenon DEF Runs
  <2> QED
    BY <2>1, FirstRows
<1>2. /\ GameTyped /\ ThemesAreEarned /\ TalkOpens /\ NeverHammered
      /\ Len(game.talk) = 0 /\ game.steps = 0 /\ game.anger = StartAnger
  BY OpeningNow DEF Init
<1>3. CallTyped /\ Waits /\ Sends
  BY IdleTyped DEF Init, CallTyped, Waits, Sends
<1>4. RestTyped
  BY <1>1, Bounds DEF Init, RestTyped
<1>5. TypeOK
  BY <1>2, <1>3, <1>4, TypesAre
<1>6. Lengths /\ Rising
  BY <1>2, Bounds DEF Init, Lengths, Rising
<1> QED
  BY <1>2, <1>3, <1>5, <1>6 DEF DInv

(* And every step keeps it. *)
LEMMA NextKeepsDInv == DInv /\ [Next]_vars => DInv'
<1> SUFFICES ASSUME DInv, [Next]_vars PROVE DInv'
  OBVIOUS
<1>1. CASE UNCHANGED vars
  <2>1. UNCHANGED <<phase, game, call, runs, forgot, ended, turns>>
    BY <1>1 DEF vars
  <2>2. CASE call.pc # "judge"
    <3>1. CallTyped /\ RestTyped /\ Sends
      BY TypesAre DEF DInv
    <3>2. CallTyped' /\ Sends' /\ call'.pc # "judge" /\ runs' \in Seq(Runs)
      BY <2>1, <2>2, <3>1 DEF CallTyped, Sends, RestTyped
    <3> QED
      BY <2>1, <3>2, CallEnds
  <2>3. CASE call.pc = "judge"
    <3>1. TypeOK'
      BY <2>1 DEF DInv, TypeOK
    <3>2. Waits' /\ Sends'
      BY <2>1 DEF DInv, Waits, Sends, Asked
    <3>3. Lengths' /\ Rising' /\ ThemesAreEarned' /\ TalkOpens' /\ NeverHammered'
      BY <2>1 DEF DInv, Lengths, Rising, ThemesAreEarned, TalkOpens, NeverHammered
    <3> QED
      BY <3>1, <3>2, <3>3 DEF DInv
  <2> QED
    BY <2>2, <2>3
<1>2. CASE Start
  BY <1>2, StartKeeps
<1>3. ASSUME NEW c \in SUBSET Keys, NEW said \in BOOLEAN, Choose(c, said) PROVE DInv'
  BY <1>3, ChooseKeeps
<1>4. CASE Judged
  BY <1>4, JudgedKeeps
<1>5. CASE Unusable \/ SubmitRun \/ SubmitFails \/ RefreshBoard
  BY <1>5, EndsKeep
<1> QED
  BY <1>1, <1>2, <1>3, <1>4, <1>5 DEF Next

(***************************************************************************)
(* The inductive invariant of the browser's run and of the request it      *)
(* waits for, for any themes and limits.                                   *)
(***************************************************************************)
THEOREM DialogueInvariance == Spec => []DInv
BY InitDInv, NextKeepsDInv, PTL DEF Spec

(***************************************************************************)
(* The themes a run has opened are those its talk was about: none on the   *)
(* judge's word alone, and all that were talked about long enough          *)
(* (confirmThemes, autoMarkThemes); and the tension stays on its scale     *)
(* (clampAnger).                                                           *)
(***************************************************************************)
THEOREM ThemesAlwaysTrue == Spec => []ThemesAreTrue
<1>1. DInv => ThemesAreTrue
  BY DEF DInv, ThemesAreTrue
<1> QED
  BY <1>1, DialogueInvariance, PTL

(* What was asked agrees with the rules that will judge the answer. *)
LEMMA PromptHonoured == DInv => PromptIsHonoured
<1> SUFFICES ASSUME DInv, call.pc = "judge", NEW t \in Keys
             PROVE  /\ t \in call.ask.open =>
                          /\ Mentions(Append(game.talk, [topics |-> call.choice]), t) < AutoDoneTurns
                          /\ t \in call.ask.hinted <=> t \in ConfirmThemes({}, {t}, call.ask.eng)
                    /\ call.ask.steer = t => t \in call.ask.open \ call.ask.hinted
  BY DEF PromptIsHonoured
<1> DEFINE ask == call.ask
           eng == ThemeEngagement(game.talk, call.choice)
           x == [topics |-> call.choice]
<1>1. /\ GameTyped /\ ask = Asked(call.choice) /\ call.choice \in SUBSET Keys
      /\ game.talk \in Seq(Exchanges) /\ Len(game.talk) < Turns
  BY TypesAre, Bounds, SMTT(30) DEF DInv, Waits, CallTyped, GameTyped, RestTyped, Lengths
<1>2. /\ ask.eng = eng /\ ask.open = Keys \ ask.done
      /\ ask.done = AutoMarkThemes(game.themes, eng)
      /\ ask.hinted = {u \in ask.open : eng[u] >= ConfirmTurns}
      /\ ask.steer = t => t \in ask.open /\ eng[t] < ConfirmTurns
  <2> HIDE DEF ask, eng
  <2>1. /\ Asked(call.choice).eng = eng
        /\ Asked(call.choice).done = AutoMarkThemes(game.themes, Asked(call.choice).eng)
        /\ Asked(call.choice).open = Keys \ Asked(call.choice).done
        /\ Asked(call.choice).hinted =
              {u \in Asked(call.choice).open : Asked(call.choice).eng[u] >= ConfirmTurns}
        /\ \A u \in Keys : Asked(call.choice).steer = u =>
              u \in Asked(call.choice).open /\ Asked(call.choice).eng[u] < ConfirmTurns
    BY <1>1, AskedFacts DEF eng
  <2> QED
    BY <1>1, <2>1
<1>3. /\ eng \in [Keys -> Nat]
      /\ eng[t] = Mentions(game.talk, t) + (IF t \in call.choice THEN 1 ELSE 0)
  BY <1>1, EngagementTyped
<1>4. Mentions(Append(game.talk, x), t) = Mentions(game.talk, t) + (IF t \in x.topics THEN 1 ELSE 0)
  BY <1>1, MentionsAppend
<1>5. Mentions(Append(game.talk, x), t) = eng[t]
  BY <1>3, <1>4
<1> HIDE DEF ask, eng, x
<1>6. ASSUME t \in ask.open PROVE eng[t] < AutoDoneTurns
  <2>1. ~(eng[t] >= AutoDoneTurns)
    BY <1>2, <1>6 DEF AutoMarkThemes
  <2> QED
    BY <1>3, <2>1, Bounds
<1>7. t \in ConfirmThemes({}, {t}, eng) <=> eng[t] >= ConfirmTurns
  BY DEF ConfirmThemes
<1>8. ASSUME ask.steer = t PROVE t \in ask.open \ ask.hinted
  <2>1. ~(eng[t] >= ConfirmTurns)
    BY <1>2, <1>3, <1>8, Bounds
  <2> QED
    BY <1>2, <1>8, <2>1
<1>9. ASSUME t \in ask.open PROVE t \in ask.hinted <=> t \in ConfirmThemes({}, {t}, ask.eng)
  BY <1>2, <1>7, <1>9
<1>10. ASSUME t \in ask.open
       PROVE  Mentions(Append(game.talk, [topics |-> call.choice]), t) < AutoDoneTurns
  BY <1>5, <1>6, <1>10 DEF x
<1> QED
  BY <1>8, <1>9, <1>10 DEF ask

(***************************************************************************)
(* The judge is never asked for a theme that the talk has opened by        *)
(* itself, is prompted to mark just those that would count, and is never   *)
(* steered towards one theme for ever (buildMessages, steerTheme).         *)
(***************************************************************************)
THEOREM PromptAlwaysTrue == Spec => []PromptIsTrue
<1>1. DInv => PromptIsTrue
  BY PromptHonoured DEF DInv, PromptIsTrue
<1> QED
  BY <1>1, DialogueInvariance, PTL

(***************************************************************************)
(* A judge that stops reporting the tension cannot stall the run: the      *)
(* drift alone takes it to its end (angerDriftOnMissing).                  *)
(***************************************************************************)
THEOREM SilenceAlwaysEndsTheRun == Spec => []SilenceEndsTheRun
<1>1. DInv => SilenceEndsTheRun
  <2> SUFFICES ASSUME DInv, phase = "play" PROVE forgot * Drift < AngerLoseAt
    BY DEF SilenceEndsTheRun
  <2>1. forgot * Drift <= game.anger /\ game.anger < AngerLoseAt
    BY DEF DInv, Rising
  <2>2. forgot * Drift \in Nat /\ game.anger \in Nat /\ AngerLoseAt \in Nat
    BY TypesAre, Bounds, SMTT(30) DEF DInv, GameTyped, RestTyped
  <2> QED
    BY <2>1, <2>2
<1> QED
  BY <1>1, DialogueInvariance, PTL

(* A turn, or a failed one, closes no theme. *)
LEMMA ProgressStep ==
    ASSUME DInv, [Next]_vars, phase = "play"
    PROVE  game.themes \subseteq game'.themes
<1>1. CASE Judged
  <2>1. PICK f \in Tensions, themes \in Claims(call.ask), reply \in SUBSET Keys,
             achieved \in BOOLEAN, gameOver \in BOOLEAN :
               Verdict(f, themes, reply, achieved, gameOver)
    BY <1>1 DEF Judged
  <2>2. game'.themes = themes
    BY <2>1 DEF Verdict
  <2> DEFINE eng == ThemeEngagement(game.talk, call.choice)
  <2>3. /\ GameTyped /\ call.ask = Asked(call.choice) /\ call.choice \in SUBSET Keys
        /\ game.talk \in Seq(Exchanges) /\ Len(game.talk) < Turns
    <3>1. GameTyped /\ CallTyped /\ RestTyped /\ call.pc = "judge"
      BY <1>1, TypesAre DEF Judged, DInv
    <3>2. /\ call.ask = Asked(call.choice) /\ turns < Turns
          /\ Len(game.talk) = game.steps /\ game.steps <= turns
      BY <3>1 DEF DInv, Waits, Lengths
    <3>3. game.steps \in Nat /\ turns \in Nat /\ Turns \in Nat
      BY <3>1, Bounds DEF GameTyped, RestTyped
    <3> QED
      BY <3>1, <3>2, <3>3 DEF CallTyped, GameTyped
  <2>4. eng \in [Keys -> Nat]
    BY <2>3, EngagementTyped
  <2> HIDE DEF eng
  <2>5. /\ Asked(call.choice).eng = eng
        /\ Asked(call.choice).done = AutoMarkThemes(game.themes, Asked(call.choice).eng)
    BY <2>3, AskedFacts DEF eng
  <2>6. PICK ask : ask = call.ask
    OBVIOUS
  <2>7. /\ ask.eng = eng /\ ask.done = AutoMarkThemes(game.themes, eng)
        /\ themes \in Claims(ask) /\ game.themes \in SUBSET Keys
    BY <2>1, <2>3, <2>5, <2>6 DEF GameTyped
  <2>8. game.themes \subseteq themes
    BY <2>4, <2>7, ClaimsFacts
  <2> QED
    BY <2>2, <2>8
<1>2. CASE ~Judged
  <2>1. game' = game
    BY <1>2 DEF Next, Start, Choose, Unusable, SubmitRun, SubmitFails, RefreshBoard, vars
  <2> QED
    BY <2>1
<1> QED
  BY <1>1, <1>2

(***************************************************************************)
(* No turn, and no failed one, closes a theme that was open (turn,         *)
(* confirmThemes).                                                         *)
(***************************************************************************)
THEOREM ProgressAlwaysKept == Spec => ProgressIsKept
<1>1. DInv /\ [Next]_vars => [phase = "play" => game.themes \subseteq game'.themes]_vars
  BY ProgressStep
<1> QED
  BY <1>1, DialogueInvariance, PTL DEF Spec, ProgressIsKept

-----------------------------------------------------------------------------
(* What stands in an order *)

(* R orders the elements of S in a line; those before a. *)
Orders(R, S) ==
    /\ \A a \in S : <<a, a>> \notin R
    /\ \A a, b, c \in S : <<a, b>> \in R /\ <<b, c>> \in R => <<a, c>> \in R
    /\ \A a, b \in S : a = b \/ <<a, b>> \in R \/ <<b, a>> \in R
Below(R, S, a) == {b \in S : <<b, a>> \in R}

(* How many come before an element is its place, and each place is taken. *)
LEMMA PlacesInOrder ==
    ASSUME NEW S, IsFiniteSet(S), NEW R, Orders(R, S)
    PROVE  /\ Cardinality(S) \in Nat
           /\ \A a \in S : Cardinality(Below(R, S, a)) \in 0..(Cardinality(S) - 1)
           /\ \A a, b \in S : <<a, b>> \in R => Cardinality(Below(R, S, a)) < Cardinality(Below(R, S, b))
           /\ \A i \in 1..Cardinality(S) : \E a \in S : Cardinality(Below(R, S, a)) = i - 1
<1> DEFINE N == Cardinality(S)
           f == [a \in S |-> Cardinality(Below(R, S, a))]
           T == 0..(N - 1)
<1>1. N \in Nat
  BY FS_CardinalityType
<1>2. \A a \in S : IsFiniteSet(Below(R, S, a)) /\ Cardinality(Below(R, S, a)) \in Nat
  BY FS_Subset, FS_CardinalityType DEF Below
<1>3. ASSUME NEW a \in S PROVE Cardinality(Below(R, S, a)) \in T
  <2>1. Below(R, S, a) \in SUBSET S /\ Below(R, S, a) # S
    BY DEF Below, Orders
  <2>2. Cardinality(Below(R, S, a)) <= N /\ Cardinality(Below(R, S, a)) # N
    BY <2>1, FS_Subset
  <2>3. Cardinality(Below(R, S, a)) \in Nat
    BY <1>2
  <2> HIDE DEF N
  <2> QED
    BY <1>1, <2>2, <2>3
<1>4. ASSUME NEW a \in S, NEW b \in S, <<a, b>> \in R
      PROVE  Cardinality(Below(R, S, a)) < Cardinality(Below(R, S, b))
  <2>1. Below(R, S, a) \in SUBSET Below(R, S, b)
    BY <1>4 DEF Below, Orders
  <2>2. a \in Below(R, S, b) /\ a \notin Below(R, S, a)
    BY <1>4 DEF Below, Orders
  <2>3. IsFiniteSet(Below(R, S, b)) /\ Below(R, S, a) # Below(R, S, b)
    BY <1>2, <2>2
  <2>4. /\ Cardinality(Below(R, S, a)) <= Cardinality(Below(R, S, b))
        /\ Cardinality(Below(R, S, a)) # Cardinality(Below(R, S, b))
    BY <2>1, <2>3, FS_Subset
  <2> QED
    BY <1>2, <2>4
<1>5. \A a, b \in S : f[a] = f[b] => a = b
  <2> SUFFICES ASSUME NEW a \in S, NEW b \in S, a # b PROVE f[a] # f[b]
    OBVIOUS
  <2>1. f[a] = Cardinality(Below(R, S, a)) /\ f[b] = Cardinality(Below(R, S, b))
    OBVIOUS
  <2>2. <<a, b>> \in R \/ <<b, a>> \in R
    BY DEF Orders
  <2> HIDE DEF f
  <2> QED
    BY <1>2, <1>4, <2>1, <2>2
<1>6. f \in Injection(S, T)
  <2>1. f \in [S -> T]
    BY <1>3
  <2> HIDE DEF f, T
  <2> QED
    BY <1>5, <2>1 DEF Injection, IsInjective
<1>7. IsFiniteSet(T) /\ Cardinality(T) = N
  <2>1. 0 \in Int /\ N - 1 \in Int
    BY <1>1
  <2>2. /\ IsFiniteSet(0..(N - 1))
        /\ Cardinality(0..(N - 1)) = IF 0 > N - 1 THEN 0 ELSE N - 1 - 0 + 1
    BY <2>1, FS_Interval
  <2> HIDE DEF N
  <2> QED
    BY <1>1, <2>2
<1>8. \A i \in T : \E a \in S : f[a] = i
  <2> HIDE DEF f, T
  <2> QED
    BY <1>6, <1>7, FS_Injection DEF Surjection, N
<1>9. \A i \in 1..N : \E a \in S : Cardinality(Below(R, S, a)) = i - 1
  <2> TAKE i \in 1..N
  <2>1. i - 1 \in T
    <3> HIDE DEF N
    <3> QED
      BY <1>1
  <2> HIDE DEF N, T
  <2> QED
    BY <1>8, <2>1
<1> QED
  BY <1>1, <1>3, <1>4, <1>9

(* A finite set that is ordered can be put in its order. *)
LEMMA CanBeSorted ==
    ASSUME NEW S, IsFiniteSet(S), NEW R, Orders(R, S)
    PROVE  \E q \in [1..Cardinality(S) -> S] :
              \A i, j \in 1..Cardinality(S) : i < j => <<q[i], q[j]>> \in R
<1> DEFINE N == Cardinality(S)
           q == [i \in 1..N |-> CHOOSE a \in S : Cardinality(Below(R, S, a)) = i - 1]
<1>1. N \in Nat
  BY PlacesInOrder
<1>2. ASSUME NEW i \in 1..N
      PROVE  q[i] \in S /\ Cardinality(Below(R, S, q[i])) = i - 1
  BY PlacesInOrder
<1>3. q \in [1..N -> S]
  BY <1>2
<1> HIDE DEF q
<1>4. ASSUME NEW i \in 1..N, NEW j \in 1..N, i < j
      PROVE  <<q[i], q[j]>> \in R
  <2>1. q[i] \in S /\ q[j] \in S
    BY <1>2
  <2>2. /\ Cardinality(Below(R, S, q[i])) = i - 1 /\ Cardinality(Below(R, S, q[j])) = j - 1
        /\ i \in Nat /\ j \in Nat
    BY <1>1, <1>2
  <2>3. q[i] # q[j]
    BY <1>4, <2>2
  <2>4. <<q[j], q[i]>> \notin R
    <3>1. <<q[j], q[i]>> \in R => Cardinality(Below(R, S, q[j])) < Cardinality(Below(R, S, q[i]))
      BY <2>1, PlacesInOrder
    <3> QED
      BY <1>4, <2>2, <3>1
  <2> QED
    BY <2>1, <2>3, <2>4 DEF Orders
<1> QED
  BY <1>3, <1>4

(* q has each element of S once, at its place. *)
InPlace(R, S, q) ==
    /\ Cardinality(S) \in Nat
    /\ \A i, j \in 1..Cardinality(S) : q[i] = q[j] => i = j
    /\ \A a \in S : Cardinality(Below(R, S, a)) + 1 \in 1..Cardinality(S)
                    /\ q[Cardinality(Below(R, S, a)) + 1] = a

(* In whatever way it was sorted, each element stands once, at its place. *)
LEMMA SortedFacts ==
    ASSUME NEW S, IsFiniteSet(S), NEW R, Orders(R, S), NEW q \in [1..Cardinality(S) -> S],
           \A i, j \in 1..Cardinality(S) : i < j => <<q[i], q[j]>> \in R
    PROVE  InPlace(R, S, q)
<1> DEFINE N == Cardinality(S)
<1>1. N \in Nat /\ IsFiniteSet(1..N) /\ Cardinality(1..N) = N
  <2>1. N \in Nat
    BY PlacesInOrder
  <2>2. /\ IsFiniteSet(1..N)
        /\ Cardinality(1..N) = IF 1 > N THEN 0 ELSE N - 1 + 1
    BY <2>1, FS_Interval, SMTT(30)
  <2> HIDE DEF N
  <2> QED
    BY <2>1, <2>2
<1>2. \A i, j \in 1..N : q[i] = q[j] => i = j
  <2> SUFFICES ASSUME NEW i \in 1..N, NEW j \in 1..N, i # j PROVE q[i] # q[j]
    OBVIOUS
  <2>1. i < j \/ j < i
    BY <1>1
  <2>2. <<q[i], q[j]>> \in R \/ <<q[j], q[i]>> \in R
    BY <2>1
  <2>3. q[i] \in S /\ q[j] \in S
    OBVIOUS
  <2> QED
    BY <2>2, <2>3 DEF Orders
<1>3. q \in Injection(1..N, S)
  BY <1>2 DEF Injection, IsInjective
<1>4. \A a \in S : \E i \in 1..N : q[i] = a
  <2> HIDE DEF N
  <2>1. Cardinality(S) = N
    BY DEF N
  <2> QED
    BY <1>1, <1>3, <2>1, FS_Injection DEF Surjection
<1>5. ASSUME NEW i \in 1..N PROVE Cardinality(Below(R, S, q[i])) = i - 1
  <2> DEFINE h == [j \in 1..(i - 1) |-> q[j]]
             B == Below(R, S, q[i])
  <2>1. i \in Nat /\ \A j \in 1..(i - 1) : j \in 1..N /\ j < i
    BY <1>1
  <2>2. h \in [1..(i - 1) -> B]
    <3> SUFFICES ASSUME NEW j \in 1..(i - 1) PROVE q[j] \in B
      OBVIOUS
    <3>1. j \in 1..N /\ j < i
      BY <2>1
    <3> QED
      BY <3>1 DEF Below
  <2>3. \A j, k \in 1..(i - 1) : h[j] = h[k] => j = k
    BY <1>2, <2>1
  <2>4. \A b \in B : \E j \in 1..(i - 1) : h[j] = b
    <3> SUFFICES ASSUME NEW b \in B PROVE \E j \in 1..(i - 1) : h[j] = b
      OBVIOUS
    <3>1. b \in S /\ <<b, q[i]>> \in R
      BY DEF Below
    <3>2. PICK j \in 1..N : q[j] = b
      BY <1>4, <3>1
    <3>3. q[i] \in S
      OBVIOUS
    <3>4. ~(i < j)
      BY <3>1, <3>2, <3>3 DEF Orders
    <3>5. i # j
      BY <3>1, <3>2 DEF Orders
    <3>6. j \in 1..(i - 1)
      BY <1>1, <2>1, <3>2, <3>4, <3>5
    <3> QED
      BY <3>2, <3>6
  <2> HIDE DEF h, B
  <2>5. h \in Bijection(1..(i - 1), B)
    BY <2>2, <2>3, <2>4 DEF Bijection, Injection, Surjection, IsInjective
  <2>6. IsFiniteSet(1..(i - 1)) /\ Cardinality(1..(i - 1)) = i - 1
    <3>1. /\ IsFiniteSet(1..(i - 1))
          /\ Cardinality(1..(i - 1)) = IF 1 > i - 1 THEN 0 ELSE i - 1 - 1 + 1
      BY <2>1, FS_Interval
    <3> QED
      BY <1>1, <2>1, <3>1
  <2>7. Cardinality(B) = i - 1
    BY <2>5, <2>6, FS_Bijection DEF ExistsBijection
  <2> QED
    BY <2>7 DEF B
<1>6. ASSUME NEW a \in S
      PROVE  Cardinality(Below(R, S, a)) + 1 \in 1..N /\ q[Cardinality(Below(R, S, a)) + 1] = a
  <2>1. PICK i \in 1..N : q[i] = a
    BY <1>4
  <2>2. Cardinality(Below(R, S, a)) = i - 1
    BY <1>5, <2>1
  <2>3. (i - 1) + 1 = i
    BY <1>1
  <2> QED
    BY <2>1, <2>2, <2>3
<1> QED
  BY <1>1, <1>2, <1>6 DEF InPlace

-----------------------------------------------------------------------------
(* The boards *)

(* Some number of a set of them that has a bound is the greatest. *)
LEMMA GreatestNumber ==
    ASSUME NEW S, S \subseteq Nat, S # {}, NEW m \in Nat, \A o \in S : o <= m
    PROVE  \E n \in S : \A o \in S : o <= n
<1> DEFINE T == {n \in Nat : \A o \in S : o <= n}
<1>1. T \subseteq Nat /\ T # {}
  OBVIOUS
<1>2. PICK n \in T : \A l \in T : n <= l
  <2> HIDE DEF T
  <2> QED
    BY <1>1, LeastNumber
<1>3. n \in S
  <2> SUFFICES ASSUME n \notin S PROVE FALSE
    OBVIOUS
  <2>1. \A o \in S : o \in Nat /\ o < n
    <3> SUFFICES ASSUME NEW o \in S PROVE o \in Nat /\ o < n
      OBVIOUS
    <3>1. o \in Nat /\ o <= n /\ o # n /\ n \in Nat
      OBVIOUS
    <3> QED
      BY <3>1
  <2>2. PICK p \in S : TRUE
    OBVIOUS
  <2>3. n \in Nat /\ p \in Nat /\ p < n
    BY <2>1
  <2>4. n - 1 \in Nat /\ \A o \in S : o <= n - 1
    BY <2>1, <2>3
  <2>5. n - 1 \in T
    BY <2>4
  <2>6. n <= n - 1
    BY <1>2, <2>5
  <2> QED
    BY <2>3, <2>6
<1> QED
  BY <1>3

(* What a board ranks, and for whom. *)
Entries == [account : Nat, steps : Nat]
Accounts == {Me} \cup Rivals

(* The accounts are numbers, and finitely many. *)
LEMMA AccountsAre == Accounts \subseteq Nat /\ IsFiniteSet(Accounts)
<1>1. Rivals \subseteq Nat /\ IsFiniteSet(Rivals)
  BY DialogueAssumption
<1>2. IsFiniteSet(Rivals \cup {Me})
  BY <1>1, FS_AddElement
<1>3. Accounts = Rivals \cup {Me}
  BY DEF Accounts
<1> QED
  BY <1>1, <1>2, <1>3 DEF Me

(* Two numbers have one that bounds both. *)
LEMMA AboveBoth ==
    ASSUME NEW m \in Nat, NEW p \in Nat
    PROVE  \E l \in Nat : m <= l /\ p <= l
<1>1. CASE m <= p
  BY <1>1
<1>2. CASE p <= m
  BY <1>2
<1> QED
  BY <1>1, <1>2

(* The fields of a table's rows. *)
LEMMA RunFields ==
    ASSUME NEW q \in Seq(Runs)
    PROVE  /\ Len(q) \in Nat /\ DOMAIN q = 1..Len(q)
           /\ \A i \in DOMAIN q : q[i] \in Runs /\ q[i].steps \in Nat
<1>1. \A x \in Runs : x.steps \in Nat
  BY Zenon DEF Runs
<1>2. Len(q) \in Nat /\ DOMAIN q = 1..Len(q) /\ \A i \in DOMAIN q : q[i] \in Runs
  OBVIOUS
<1> QED
  BY <1>1, <1>2

(* The runs of the table have a longest. *)
LEMMA RunsAreBounded ==
    ASSUME NEW q \in Seq(Runs)
    PROVE  \E m \in Nat : \A i \in DOMAIN q : q[i].steps <= m
<1> DEFINE Bound(n, m) == \A i \in 1..n : q[i].steps <= m
           Without == {n \in 0..Len(q) : ~\E m \in Nat : Bound(n, m)}
<1>1. Len(q) \in Nat /\ DOMAIN q = 1..Len(q) /\ \A i \in 1..Len(q) : q[i].steps \in Nat
  BY RunFields
<1>2. CASE Without = {}
  <2>1. Len(q) \in 0..Len(q)
    BY <1>1
  <2>2. PICK m \in Nat : Bound(Len(q), m)
    BY <1>2, <2>1
  <2> QED
    BY <1>1, <2>2
<1>3. CASE Without # {}
  <2>1. Without \subseteq Nat
    OBVIOUS
  <2>2. PICK n \in Without : \A l \in Without : n <= l
    <3> HIDE DEF Without
    <3> QED
      BY <1>3, <2>1, LeastNumber
  <2>3. n \in 0..Len(q) /\ ~\E m \in Nat : Bound(n, m)
    OBVIOUS
  <2>4. n # 0
    <3>1. Bound(0, 0)
      OBVIOUS
    <3> QED
      BY <2>3, <3>1
  <2>5. n - 1 \in 0..Len(q) /\ n - 1 < n /\ n \in 1..Len(q)
    BY <1>1, <2>3, <2>4
  <2>6. n - 1 \notin Without
    <3>1. ~(n <= n - 1)
      BY <2>5
    <3> HIDE DEF Without
    <3> QED
      BY <2>2, <3>1
  <2>7. PICK m \in Nat : Bound(n - 1, m)
    BY <2>5, <2>6
  <2>8. PICK p \in Nat : p = q[n].steps
    BY <1>1, <2>5
  <2>9. PICK l \in Nat : m <= l /\ p <= l
    BY AboveBoth
  <2>10. Bound(n, l)
    <3> SUFFICES ASSUME NEW i \in 1..n PROVE q[i].steps <= l
      OBVIOUS
    <3>1. i = n \/ i \in 1..(n - 1)
      BY <2>5
    <3>2. CASE i = n
      BY <2>8, <2>9, <3>2
    <3>3. CASE i \in 1..(n - 1)
      <4>1. i \in 1..Len(q)
        BY <1>1, <2>5, <3>3
      <4>2. PICK o \in Nat : o = q[i].steps
        BY <1>1, <4>1
      <4>3. o <= m
        BY <2>7, <3>3, <4>2
      <4>4. o <= l
        BY <2>9, <4>3
      <4> QED
        BY <4>2, <4>4
    <3> QED
      BY <3>1, <3>2, <3>3
  <2> QED
    BY <2>3, <2>10
<1> QED
  BY <1>2, <1>3

(* An account has one record of a kind, or no run of it. *)
LEMMA RecordIs ==
    ASSUME runs \in Seq(Runs), NEW a, NEW k \in BoardKinds
    PROVE  /\ StepsOf(a, k.success) = {} => Record(a, k) = {}
           /\ StepsOf(a, k.success) # {} =>
                 \E n \in StepsOf(a, k.success) : n \in Nat /\ Record(a, k) = {[account |-> a, steps |-> n]}
<1> DEFINE S == StepsOf(a, k.success)
<1>1. PICK m \in Nat : \A i \in DOMAIN runs : runs[i].steps <= m
  BY RunsAreBounded
<1>2. \A n \in S : n \in Nat /\ n <= m
  <2>1. \A i \in DOMAIN runs : runs[i].steps \in Nat
    BY RunFields
  <2>2. \A n \in S : \E i \in DOMAIN runs : n = runs[i].steps
    BY DEF StepsOf, ToSet
  <2> QED
    BY <1>1, <2>1, <2>2
<1>3. Record(a, k) = {[account |-> a, steps |-> n] :
                         n \in {l \in S : \A o \in S : IF k.longest THEN l >= o ELSE l <= o}}
  BY DEF Record
<1> HIDE DEF S
<1>4. ASSUME S # {}
      PROVE  \E n \in S : n \in Nat /\ Record(a, k) = {[account |-> a, steps |-> n]}
  <2>1. PICK n \in S : \A o \in S : IF k.longest THEN n >= o ELSE n <= o
    <3>1. S \subseteq Nat
      BY <1>2
    <3>2. CASE k.longest
      <4>1. PICK n \in S : \A o \in S : o <= n
        BY <1>2, <1>4, <3>1, GreatestNumber
      <4> QED
        BY <3>1, <3>2, <4>1
    <3>3. CASE ~k.longest
      BY <1>4, <3>1, <3>3, LeastNumber
    <3> QED
      BY <3>2, <3>3
  <2>2. {l \in S : \A o \in S : IF k.longest THEN l >= o ELSE l <= o} = {n}
    <3>1. ASSUME NEW l \in S, \A o \in S : IF k.longest THEN l >= o ELSE l <= o
          PROVE  l = n
      <4>1. l \in Nat /\ n \in Nat
        BY <1>2
      <4>2. IF k.longest THEN l >= n /\ n >= l ELSE l <= n /\ n <= l
        BY <2>1, <3>1
      <4> QED
        BY <4>1, <4>2
    <3> QED
      BY <2>1, <3>1
  <2>3. Record(a, k) = {[account |-> a, steps |-> n]}
    BY <1>3, <2>2
  <2> QED
    BY <1>2, <2>3
<1>5. ASSUME S = {} PROVE Record(a, k) = {}
  BY <1>3, <1>5
<1> QED
  BY <1>4, <1>5 DEF S

(* So the records of a kind are finitely many, one to an account that has  *)
(* a run of it.                                                            *)
LEMMA AllRecordsAre ==
    ASSUME runs \in Seq(Runs), NEW k \in BoardKinds
    PROVE  /\ AllRecords(k) \subseteq Entries /\ IsFiniteSet(AllRecords(k))
           /\ \A e \in AllRecords(k) : e.account \in Accounts /\ Record(e.account, k) = {e}
           /\ \A a \in Accounts : StepsOf(a, k.success) # {} =>
                 \E e \in AllRecords(k) : e.account = a /\ e.steps \in StepsOf(a, k.success)
                                          /\ Record(a, k) = {e}
           /\ \A a \in Accounts : StepsOf(a, k.success) = {} => \A e \in AllRecords(k) : e.account # a
<1>1. AllRecords(k) = UNION {Record(a, k) : a \in Accounts}
  BY DEF AllRecords, Accounts
<1>2. ASSUME NEW e \in AllRecords(k)
      PROVE  e \in Entries /\ e.account \in Accounts /\ Record(e.account, k) = {e}
             /\ StepsOf(e.account, k.success) # {}
  <2>1. PICK a \in Accounts : e \in Record(a, k)
    BY <1>1
  <2>2. StepsOf(a, k.success) # {}
    BY <2>1, RecordIs
  <2>3. PICK n \in StepsOf(a, k.success) : n \in Nat /\ Record(a, k) = {[account |-> a, steps |-> n]}
    BY <2>2, RecordIs
  <2>4. e = [account |-> a, steps |-> n] /\ a \in Nat
    BY <2>1, <2>3, AccountsAre
  <2>5. e.account = a /\ e \in Entries
    BY <2>3, <2>4 DEF Entries
  <2> QED
    BY <2>2, <2>3, <2>4, <2>5
<1>3. ASSUME NEW a \in Accounts, StepsOf(a, k.success) # {}
      PROVE  \E e \in AllRecords(k) : e.account = a /\ e.steps \in StepsOf(a, k.success)
                                          /\ Record(a, k) = {e}
  <2>1. PICK n \in StepsOf(a, k.success) : n \in Nat /\ Record(a, k) = {[account |-> a, steps |-> n]}
    BY <1>3, RecordIs
  <2>2. [account |-> a, steps |-> n] \in AllRecords(k)
    BY <1>1, <2>1
  <2> QED
    BY <2>1, <2>2
<1>4. IsFiniteSet(AllRecords(k))
  <2> DEFINE f == [e \in AllRecords(k) |-> e.account]
  <2>1. f \in [AllRecords(k) -> Accounts]
    BY <1>2
  <2>2. \A e, g \in AllRecords(k) : f[e] = f[g] => e = g
    <3> SUFFICES ASSUME NEW e \in AllRecords(k), NEW g \in AllRecords(k), e.account = g.account
                 PROVE  e = g
      OBVIOUS
    <3>1. Record(e.account, k) = {e} /\ Record(g.account, k) = {g}
      BY <1>2
    <3> QED
      BY <3>1
  <2> HIDE DEF f
  <2>3. f \in Injection(AllRecords(k), Accounts)
    BY <2>1, <2>2 DEF Injection, IsInjective
  <2> QED
    BY <2>3, AccountsAre, FS_Injection
<1> QED
  BY <1>2, <1>3, <1>4

(* A board's order is an order. *)
Precedes(k, S) == {p \in S \X S : Before(k, p[1], p[2])}

LEMMA BeforeOrders ==
    ASSUME NEW k \in BoardKinds, NEW S, S \subseteq Entries
    PROVE  Orders(Precedes(k, S), S)
<1>1. \A e, f \in S : <<e, f>> \in Precedes(k, S) <=> Before(k, e, f)
  BY DEF Precedes
<1>2. \A e \in S : e.account \in Nat /\ e.steps \in Nat
  BY DEF Entries
<1>3. \A e, f \in S : e.account = f.account /\ e.steps = f.steps => e = f
  BY DEF Entries
<1>4. \A e \in S : ~Before(k, e, e)
  BY <1>2 DEF Before
<1>5. ASSUME NEW e \in S, NEW f \in S, NEW g \in S, Before(k, e, f), Before(k, f, g)
      PROVE  Before(k, e, g)
  <2>1. CASE k.longest
    BY <1>2, <1>5, <2>1 DEF Before
  <2>2. CASE ~k.longest
    BY <1>2, <1>5, <2>2 DEF Before
  <2> QED
    BY <2>1, <2>2
<1>6. ASSUME NEW e \in S, NEW f \in S, e # f
      PROVE  Before(k, e, f) \/ Before(k, f, e)
  <2>1. e.account # f.account \/ e.steps # f.steps
    BY <1>3, <1>6
  <2>2. CASE k.longest
    BY <1>2, <2>1, <2>2 DEF Before
  <2>3. CASE ~k.longest
    BY <1>2, <2>1, <2>3 DEF Before
  <2> QED
    BY <2>2, <2>3
<1> QED
  BY <1>1, <1>4, <1>5, <1>6 DEF Orders

(* A board before it is cut: each record once, after those that beat it. *)
LEMMA RankedFacts ==
    ASSUME NEW k \in BoardKinds, NEW S, S \subseteq Entries, IsFiniteSet(S)
    PROVE  /\ Cardinality(S) \in Nat /\ Ranked(S, k) \in [1..Cardinality(S) -> S]
           /\ \A i, j \in 1..Cardinality(S) : Ranked(S, k)[i] = Ranked(S, k)[j] => i = j
           /\ \A e \in S : /\ Cardinality({f \in S : Before(k, f, e)}) + 1 \in 1..Cardinality(S)
                           /\ Ranked(S, k)[Cardinality({f \in S : Before(k, f, e)}) + 1] = e
<1> DEFINE R == Precedes(k, S)
           N == Cardinality(S)
           q == Ranked(S, k)
<1>1. Orders(R, S)
  BY BeforeOrders
<1>2. \A e, f \in S : <<e, f>> \in R <=> Before(k, e, f)
  BY DEF Precedes
<1> HIDE DEF R
<1>3. \E p \in [1..N -> S] : \A i, j \in 1..N : i < j => <<p[i], p[j]>> \in R
  BY <1>1, CanBeSorted
<1>4. \E p \in [1..N -> S] : \A i, j \in DOMAIN p : i < j => Before(k, p[i], p[j])
  <2> HIDE DEF N
  <2> QED
    BY <1>2, <1>3
<1>5. q \in [1..N -> S] /\ \A i, j \in DOMAIN q : i < j => Before(k, q[i], q[j])
  <2>1. q = CHOOSE p \in [1..N -> S] : \A i, j \in DOMAIN p : i < j => Before(k, p[i], p[j])
    BY DEF Ranked
  <2> HIDE DEF N, q
  <2> QED
    BY <1>4, <2>1
<1>6. \A i, j \in 1..N : i < j => <<q[i], q[j]>> \in R
  <2> HIDE DEF N, q
  <2> QED
    BY <1>2, <1>5
<1> HIDE DEF q
<1>7. /\ q \in [1..Cardinality(S) -> S]
      /\ \A i, j \in 1..Cardinality(S) : i < j => <<q[i], q[j]>> \in R
  BY <1>5, <1>6
<1>8. PICK p, W : p = q /\ W = R
  OBVIOUS
<1>9. /\ Cardinality(S) \in Nat
      /\ \A i, j \in 1..Cardinality(S) : q[i] = q[j] => i = j
      /\ \A e \in S : Cardinality(Below(R, S, e)) + 1 \in 1..Cardinality(S)
                      /\ q[Cardinality(Below(R, S, e)) + 1] = e
  <2>1. Orders(W, S) /\ p \in [1..Cardinality(S) -> S] /\ IsFiniteSet(S)
    BY <1>1, <1>7, <1>8
  <2>2. \A i, j \in 1..Cardinality(S) : i < j => <<p[i], p[j]>> \in W
    BY <1>7, <1>8
  <2>3. /\ Cardinality(S) \in Nat
        /\ \A i, j \in 1..Cardinality(S) : p[i] = p[j] => i = j
        /\ \A e \in S : Cardinality(Below(W, S, e)) + 1 \in 1..Cardinality(S)
                        /\ p[Cardinality(Below(W, S, e)) + 1] = e
    <3>1. InPlace(W, S, p)
      BY <2>1, <2>2, SortedFacts
    <3> QED
      BY <3>1 DEF InPlace
  <2> QED
    BY <2>3, <1>8
<1>10. \A e \in S : Below(R, S, e) = {f \in S : Before(k, f, e)}
  BY <1>2 DEF Below
<1> QED
  BY <1>5, <1>9, <1>10 DEF q

(* Who beats an account is as many as whose records come before its own. *)
LEMMA BeatersAre ==
    ASSUME runs \in Seq(Runs), NEW k \in BoardKinds, NEW e \in AllRecords(k)
    PROVE  Cardinality({b \in Accounts : Beats(k, b, e.account)})
             = Cardinality({f \in AllRecords(k) : Before(k, f, e)})
<1> DEFINE B == {f \in AllRecords(k) : Before(k, f, e)}
           A == {b \in Accounts : Beats(k, b, e.account)}
           h == [f \in B |-> f.account]
<1>1. \A f \in AllRecords(k) : f.account \in Accounts /\ Record(f.account, k) = {f}
  BY AllRecordsAre
<1>2. ~Before(k, e, e)
  BY AllRecordsAre DEF Before, Entries
<1>3. \A f \in B : f.account \in A
  <2> SUFFICES ASSUME NEW f \in B PROVE f.account \in A
    OBVIOUS
  <2>1. f \in AllRecords(k) /\ Before(k, f, e) /\ f # e
    BY <1>2
  <2>2. Record(f.account, k) = {f} /\ Record(e.account, k) = {e} /\ f.account \in Accounts
    BY <1>1, <2>1
  <2>3. f.account # e.account
    BY <2>1, <2>2
  <2>4. Beats(k, f.account, e.account)
    BY <2>1, <2>2, <2>3 DEF Beats
  <2> QED
    BY <2>2, <2>4
<1>4. \A b \in A : \E f \in B : f.account = b
  <2> SUFFICES ASSUME NEW b \in A PROVE \E f \in B : f.account = b
    OBVIOUS
  <2>1. PICK f \in Record(b, k), g \in Record(e.account, k) : Before(k, f, g)
    BY DEF Beats
  <2>2. g = e /\ b \in Accounts
    BY <1>1, <2>1
  <2>3. f \in AllRecords(k)
    BY <2>1, <2>2 DEF AllRecords, Accounts
  <2>4. f.account = b
    <3>1. StepsOf(b, k.success) # {}
      BY <2>1, RecordIs
    <3>2. PICK n \in StepsOf(b, k.success) : Record(b, k) = {[account |-> b, steps |-> n]}
      BY <3>1, RecordIs
    <3>3. f = [account |-> b, steps |-> n]
      BY <2>1, <3>2
    <3> QED
      BY <3>3
  <2> QED
    BY <2>1, <2>2, <2>3, <2>4
<1>5. \A f, g \in B : f.account = g.account => f = g
  <2> SUFFICES ASSUME NEW f \in B, NEW g \in B, f.account = g.account PROVE f = g
    OBVIOUS
  <2>1. Record(f.account, k) = {f} /\ Record(g.account, k) = {g}
    BY <1>1
  <2> QED
    BY <2>1
<1>6. IsFiniteSet(B)
  <2>1. IsFiniteSet(AllRecords(k)) /\ B \in SUBSET AllRecords(k)
    BY AllRecordsAre
  <2> HIDE DEF B
  <2> QED
    BY <2>1, FS_Subset
<1>7. h \in Bijection(B, A)
  <2>1. h \in [B -> A]
    BY <1>3
  <2>2. \A f, g \in B : h[f] = h[g] => f = g
    BY <1>5
  <2>3. \A b \in A : \E f \in B : h[f] = b
    BY <1>4
  <2> HIDE DEF A, B, h
  <2> QED
    BY <2>1, <2>2, <2>3 DEF Bijection, Injection, Surjection, IsInjective
<1>8. Cardinality(A) = Cardinality(B)
  <2> HIDE DEF A, B, h
  <2> QED
    BY <1>6, <1>7, FS_Bijection DEF ExistsBijection
<1> QED
  BY <1>8

(* What a board shows is the head of its ranking. *)
LEMMA BoardFacts ==
    ASSUME runs \in Seq(Runs), NEW k \in BoardKinds
    PROVE  LET q == Ranked(AllRecords(k), k)
               N == Cardinality(AllRecords(k))
           IN  /\ \A i \in 1..N : i <= Limit => i \in DOMAIN Board(k) /\ Board(k)[i] = q[i]
               /\ \A i \in DOMAIN Board(k) : i \in 1..N /\ i <= Limit /\ Board(k)[i] = q[i]
<1> DEFINE q == Ranked(AllRecords(k), k)
           N == Cardinality(AllRecords(k))
           m == IF Len(q) > Limit THEN Limit ELSE Len(q)
<1>1. N \in Nat /\ q \in [1..N -> AllRecords(k)]
  BY AllRecordsAre, RankedFacts
<1>2. Board(k) = SubSeq(q, 1, m)
  BY DEF Board
<1>3. Limit \in Nat
  BY DialogueAssumption
<1> HIDE DEF q, N
<1>4. q \in Seq(AllRecords(k)) /\ Len(q) = N
  BY <1>1
<1>5. m \in 0..N /\ (\A i \in 1..m : i \in 1..N /\ i <= Limit) /\ (\A i \in 1..N : i <= Limit => i \in 1..m)
  BY <1>1, <1>3, <1>4
<1> HIDE DEF m
<1>6. /\ DOMAIN SubSeq(q, 1, m) = 1..m
      /\ \A i \in 1..m : SubSeq(q, 1, m)[i] = q[i]
  BY <1>1, <1>4, <1>5
<1> QED
  BY <1>2, <1>5, <1>6 DEF q, N

(* So every account stands on a board behind just those that beat it. *)
LEMMA BoardsRanked ==
    ASSUME runs \in Seq(Runs)
    PROVE  BoardsRank
<1> SUFFICES ASSUME NEW k \in BoardKinds, NEW a \in Accounts
             PROVE  LET rank == 1 + Cardinality({b \in Accounts : Beats(k, b, a)}) IN
                    IF StepsOf(a, k.success) # {} /\ rank <= Limit
                    THEN Board(k)[rank].account = a /\ Board(k)[rank].steps \in StepsOf(a, k.success)
                    ELSE \A e \in ToSet(Board(k)) : e.account # a
  BY DEF BoardsRank, Accounts
<1> DEFINE rank == 1 + Cardinality({b \in Accounts : Beats(k, b, a)})
           q == Ranked(AllRecords(k), k)
           N == Cardinality(AllRecords(k))
<1>1. /\ N \in Nat /\ q \in [1..N -> AllRecords(k)]
      /\ \A i, j \in 1..N : q[i] = q[j] => i = j
      /\ \A e \in AllRecords(k) : /\ Cardinality({f \in AllRecords(k) : Before(k, f, e)}) + 1 \in 1..N
                                  /\ q[Cardinality({f \in AllRecords(k) : Before(k, f, e)}) + 1] = e
  BY AllRecordsAre, RankedFacts
<1>2. /\ \A i \in 1..N : i <= Limit => i \in DOMAIN Board(k) /\ Board(k)[i] = q[i]
      /\ \A i \in DOMAIN Board(k) : i \in 1..N /\ i <= Limit /\ Board(k)[i] = q[i]
  BY BoardFacts
<1>3. \A e \in ToSet(Board(k)) : \E i \in 1..N : i <= Limit /\ e = q[i]
  BY <1>2 DEF ToSet
<1>4. CASE StepsOf(a, k.success) = {}
  <2>1. \A e \in AllRecords(k) : e.account # a
    BY <1>4, AllRecordsAre
  <2>2. \A e \in ToSet(Board(k)) : e \in AllRecords(k)
    <3> HIDE DEF q, N
    <3> QED
      BY <1>1, <1>3
  <2> QED
    BY <1>4, <2>1, <2>2
<1>5. CASE StepsOf(a, k.success) # {}
  <2>1. PICK e \in AllRecords(k) : e.account = a /\ e.steps \in StepsOf(a, k.success) /\ Record(a, k) = {e}
    BY <1>5, AllRecordsAre
  <2>2. rank \in 1..N /\ q[rank] = e
    <3>1. Cardinality({b \in Accounts : Beats(k, b, a)}) = Cardinality({f \in AllRecords(k) : Before(k, f, e)})
      BY <2>1, BeatersAre
    <3>2. Cardinality({f \in AllRecords(k) : Before(k, f, e)}) + 1 \in 1..N
      BY <1>1
    <3>3. IsFiniteSet({f \in AllRecords(k) : Before(k, f, e)})
      BY AllRecordsAre, FS_Subset
    <3>4. Cardinality({f \in AllRecords(k) : Before(k, f, e)}) \in Nat
      BY <3>3, FS_CardinalityType
    <3>5. rank = Cardinality({f \in AllRecords(k) : Before(k, f, e)}) + 1
      BY <3>1, <3>4
    <3> HIDE DEF rank, q, N
    <3> QED
      BY <1>1, <3>2, <3>5
  <2> HIDE DEF rank, q, N
  <2>3. CASE rank <= Limit
    <3>1. Board(k)[rank] = e
      BY <1>2, <2>2, <2>3
    <3> QED
      BY <1>5, <2>1, <2>3, <3>1 DEF rank
  <2>4. CASE ~(rank <= Limit)
    <3>1. ASSUME NEW g \in ToSet(Board(k)), g.account = a PROVE FALSE
      <4>1. PICK i \in 1..N : i <= Limit /\ g = q[i]
        BY <1>3
      <4>2. g \in AllRecords(k)
        BY <1>1, <4>1
      <4>3. Record(g.account, k) = {g}
        BY <4>2, AllRecordsAre
      <4>4. g = e
        BY <2>1, <3>1, <4>3
      <4>5. i = rank
        BY <1>1, <2>2, <4>1, <4>4
      <4> QED
        BY <2>4, <4>1, <4>5
    <3> QED
      BY <2>4, <3>1 DEF rank
  <2> QED
    BY <2>3, <2>4
<1> QED
  BY <1>4, <1>5

-----------------------------------------------------------------------------
(* The rows *)

(* at places the rows M of a table in the order of what came to an end. *)
InOrder(table, done, M, at) ==
    /\ \A i \in M : table[i] = done[at[i]]
    /\ \A i, j \in M : i < j => at[i] < at[j]

(* One more run at an end disturbs no row, and comes after all of them. *)
LEMMA EndedGrows ==
    ASSUME NEW S, NEW done \in Seq(S), NEW x \in S, NEW table, NEW M,
           NEW at \in [M -> DOMAIN done], InOrder(table, done, M, at)
    PROVE  /\ at \in [M -> DOMAIN Append(done, x)]
           /\ InOrder(table, Append(done, x), M, at)
           /\ Append(done, x) # <<>> /\ Append(done, x)[Len(Append(done, x))] = x
           /\ \A i \in M : at[i] < Len(Append(done, x))
<1> DEFINE more == Append(done, x)
<1>1. /\ Len(done) \in Nat /\ DOMAIN done = 1..Len(done)
      /\ more \in Seq(S) /\ Len(more) = Len(done) + 1 /\ DOMAIN more = 1..(Len(done) + 1)
      /\ more[Len(done) + 1] = x
      /\ \A l \in 1..Len(done) : more[l] = done[l]
  OBVIOUS
<1> HIDE DEF more
<1>2. \A i \in M : at[i] \in 1..Len(done)
  BY <1>1
<1>3. more # <<>>
  BY <1>1
<1>4. \A i \in M : at[i] \in DOMAIN more /\ at[i] < Len(more)
  BY <1>1, <1>2
<1>5. InOrder(table, more, M, at)
  BY <1>1, <1>2 DEF InOrder
<1> QED
  BY <1>1, <1>3, <1>4, <1>5 DEF more

(* A row for the last of them, once no other row is, goes to the end. *)
LEMMA TableGrows ==
    ASSUME NEW S, NEW table \in Seq(S), NEW done \in Seq(S), done # <<>>,
           NEW M \in SUBSET (1..Len(table)), NEW W \in SUBSET (M \cup {Len(table) + 1}),
           NEW at \in [M -> DOMAIN done], InOrder(table, done, M, at),
           \A i \in M : at[i] < Len(done)
    PROVE  \E to \in [W -> DOMAIN done] : InOrder(Append(table, done[Len(done)]), done, W, to)
<1> DEFINE more == Append(table, done[Len(done)])
           to == [i \in W |-> IF i = Len(table) + 1 THEN Len(done) ELSE at[i]]
<1>1. /\ Len(done) \in Nat /\ DOMAIN done = 1..Len(done) /\ Len(done) \in DOMAIN done
      /\ done[Len(done)] \in S /\ Len(table) \in Nat
  OBVIOUS
<1>2. /\ more[Len(table) + 1] = done[Len(done)]
      /\ \A i \in 1..Len(table) : more[i] = table[i]
  BY <1>1
<1>3. \A i \in W : i = Len(table) + 1 \/ (i \in M /\ i \in 1..Len(table) /\ i # Len(table) + 1)
  BY <1>1
<1>4. \A i \in M : at[i] \in DOMAIN done /\ at[i] \in Nat
  BY <1>1
<1>5. to \in [W -> DOMAIN done]
  BY <1>1, <1>3, <1>4
<1>6. /\ \A i \in W : i = Len(table) + 1 => to[i] = Len(done)
      /\ \A i \in W : i # Len(table) + 1 => to[i] = at[i]
  OBVIOUS
<1> HIDE DEF more, to
<1>7. \A i \in W : more[i] = done[to[i]]
  BY <1>2, <1>3, <1>6 DEF InOrder
<1>8. ASSUME NEW i \in W, NEW j \in W, i < j PROVE to[i] < to[j]
  <2>1. i \in M /\ i # Len(table) + 1 /\ to[i] = at[i]
    BY <1>1, <1>3, <1>6, <1>8
  <2>2. CASE j = Len(table) + 1
    BY <1>6, <2>1, <2>2
  <2>3. CASE j # Len(table) + 1
    BY <1>3, <1>6, <1>8, <2>1, <2>3 DEF InOrder
  <2> QED
    BY <2>2, <2>3
<1> QED
  BY <1>5, <1>7, <1>8 DEF InOrder, more

(* Every row of the player's has its run, and the one being sent has no    *)
(* row yet.                                                                *)
Follows(at) ==
    /\ InStep(at)
    /\ call.pc = "submit" =>
          /\ ended # <<>> /\ call.run = <<ended[Len(ended)]>>
          /\ \A i \in MyRows : at[i] < Len(ended)
RowsFollow == \E at \in [MyRows -> DOMAIN ended] : Follows(at)

(* At first there is no row of the player's. *)
LEMMA InitRowsFollow == Init => RowsFollow
<1> SUFFICES ASSUME Init PROVE RowsFollow
  OBVIOUS
<1>1. runs \in Seq(RivalRuns)
  BY FirstRows
<1>2. \A r \in RivalRuns : r.account # Me
  BY DialogueAssumption DEF Me, RivalRuns
<1>3. MyRows = {}
  BY <1>1, <1>2 DEF MyRows
<1>4. call.pc # "submit"
  BY DEF Init, Idle
<1>5. Follows(<<>>) /\ <<>> \in [MyRows -> DOMAIN ended]
  BY <1>3, <1>4 DEF Follows, InStep
<1> QED
  BY <1>5 DEF RowsFollow

(* A step that ends no run and writes no row. *)
LEMMA RowsStand ==
    ASSUME RowsFollow, UNCHANGED <<runs, ended>>, call'.pc = "submit" => call' = call
    PROVE  RowsFollow'
<1>1. PICK at \in [MyRows -> DOMAIN ended] : Follows(at)
  BY DEF RowsFollow
<1>2. MyRows' = MyRows
  BY DEF MyRows
<1>3. Follows(at)'
  BY <1>1, <1>2 DEF Follows, InStep
<1> QED
  BY <1>1, <1>2, <1>3 DEF RowsFollow

(* A run that ends is sent once it has ended. *)
LEMMA RowsWait ==
    ASSUME RowsFollow, ended \in Seq(Runs), runs' = runs, NEW x \in Runs,
           ended' = Append(ended, x), call'.run = <<x>>
    PROVE  RowsFollow'
<1>1. PICK at \in [MyRows -> DOMAIN ended] : Follows(at)
  BY DEF RowsFollow
<1>2. PICK table, done, M : table = runs /\ done = ended /\ M = MyRows
  OBVIOUS
<1>3. MyRows' = MyRows
  BY DEF MyRows
<1>4. InOrder(table, done, M, at) /\ done \in Seq(Runs) /\ at \in [M -> DOMAIN done]
  BY <1>1, <1>2 DEF Follows, InStep, InOrder
<1> DEFINE more == Append(done, x)
<1>5. /\ at \in [M -> DOMAIN more] /\ InOrder(table, more, M, at)
      /\ more # <<>> /\ more[Len(more)] = x /\ \A i \in M : at[i] < Len(more)
  BY <1>4, EndedGrows
<1>6. ended' = more /\ runs' = table /\ MyRows' = M
  BY <1>2, <1>3
<1> HIDE DEF more
<1>7. Follows(at)'
  BY <1>5, <1>6 DEF Follows, InStep, InOrder
<1> QED
  BY <1>5, <1>6, <1>7 DEF RowsFollow

(* A row written is the run that was sent. *)
LEMMA RowsArrive ==
    ASSUME RowsFollow, runs \in Seq(Runs), ended \in Seq(Runs), call.pc = "submit",
           runs' = Append(runs, call.run[1]), ended' = ended, call'.pc # "submit"
    PROVE  RowsFollow'
<1>1. PICK at \in [MyRows -> DOMAIN ended] : Follows(at)
  BY DEF RowsFollow
<1>2. PICK table, done, M, W : table = runs /\ done = ended /\ M = MyRows /\ W = MyRows'
  OBVIOUS
<1>3. /\ InOrder(table, done, M, at) /\ done \in Seq(Runs) /\ table \in Seq(Runs)
      /\ done # <<>> /\ at \in [M -> DOMAIN done] /\ \A i \in M : at[i] < Len(done)
  BY <1>1, <1>2 DEF Follows, InStep, InOrder
<1>4. call.run[1] = done[Len(done)] /\ done[Len(done)] \in Runs
  <2>1. call.run = <<done[Len(done)]>>
    BY <1>1, <1>2 DEF Follows
  <2> QED
    BY <1>3, <2>1
<1> DEFINE more == Append(table, done[Len(done)])
<1>5. /\ DOMAIN table = 1..Len(table) /\ Len(table) \in Nat
      /\ DOMAIN more = 1..(Len(table) + 1) /\ \A i \in 1..Len(table) : more[i] = table[i]
  BY <1>3, <1>4
<1>6. runs' = more /\ ended' = done
  BY <1>2, <1>4
<1> HIDE DEF more
<1>7. M \in SUBSET (1..Len(table)) /\ W \in SUBSET (M \cup {Len(table) + 1})
  <2>1. M = {i \in DOMAIN table : table[i].account = Me}
    BY <1>2 DEF MyRows
  <2>2. W = {i \in DOMAIN more : more[i].account = Me}
    BY <1>2, <1>6 DEF MyRows
  <2>3. \A i \in 1..(Len(table) + 1) : i = Len(table) + 1 \/ i \in 1..Len(table)
    BY <1>5
  <2> QED
    BY <1>5, <2>1, <2>2, <2>3
<1>8. PICK to \in [W -> DOMAIN done] : InOrder(more, done, W, to)
  BY <1>3, <1>7, TableGrows DEF more
<1>9. MyRows' = W
  BY <1>2
<1>10. Follows(to)'
  BY <1>6, <1>8, <1>9 DEF Follows, InStep, InOrder
<1> QED
  BY <1>6, <1>8, <1>9, <1>10 DEF RowsFollow

(* The run that Finish sends is a run. *)
LEMMA JudgedRows == DInv /\ RowsFollow /\ Judged => RowsFollow'
<1> SUFFICES ASSUME DInv, RowsFollow, Judged PROVE RowsFollow'
  OBVIOUS
<1>1. PICK f \in Tensions, themes \in Claims(call.ask), reply \in SUBSET Keys :
         \E achieved, gameOver \in BOOLEAN : Verdict(f, themes, reply, achieved, gameOver)
  BY DEF Judged
<1>2. PICK achieved \in BOOLEAN, gameOver \in BOOLEAN : Verdict(f, themes, reply, achieved, gameOver)
  BY <1>1
<1>3. runs' = runs
  BY DEF Judged
<1> DEFINE a == NewAnger(game.anger, f)
           lost == (gameOver \/ a >= AngerLoseAt) /\ ~achieved
<1>4. PICK n \in {OptionsWhilePlaying(achieved \/ lost, k) : k \in OptionCounts} :
        LET g == [talk |-> Told(reply), anger |-> a, themes |-> themes, steps |-> Stepped,
                  options |-> n, won |-> achieved]
        IN  TurnEnds(g, achieved \/ lost)
  BY <1>2 DEF Verdict
<1> DEFINE g == [talk |-> Told(reply), anger |-> a, themes |-> themes, steps |-> Stepped,
                 options |-> n, won |-> achieved]
           ends == achieved \/ lost \/ (call.said /\ n = 0)
<1>5. IF ends THEN Finish(g) ELSE call' = Idle /\ UNCHANGED <<phase, ended>>
  BY <1>4 DEF TurnEnds
<1>6. g.steps = Stepped /\ g.won = achieved
  OBVIOUS
<1> HIDE DEF g, ends
<1>7. CASE ~ends
  <2>1. call'.pc # "submit" /\ ended' = ended
    BY <1>5, <1>7 DEF Idle
  <2> QED
    BY <1>3, <2>1, RowsStand
<1>8. CASE ends
  <2>1. Finish(g)
    BY <1>5, <1>8
  <2>2. PICK r : r = [account |-> Me, success |-> g.won, steps |-> g.steps]
    OBVIOUS
  <2>3. ended' = Append(ended, r) /\ call'.run = <<r>>
    BY <2>1, <2>2 DEF Finish, Idle
  <2>4. Stepped \in Nat /\ ended \in Seq(Runs)
    <3>1. game.steps \in Nat /\ ended \in Seq(Runs)
      BY Bounds, TypesAre DEF DInv, GameTyped, RestTyped
    <3> QED
      BY <3>1 DEF Stepped
  <2>5. r \in Runs
    BY <1>6, <2>2, <2>4, Zenon DEF Runs
  <2> QED
    BY <1>3, <2>3, <2>4, <2>5, RowsWait
<1> QED
  BY <1>7, <1>8

(* Every step keeps the rows in step with the runs that ended. *)
LEMMA NextRowsFollow == DInv /\ RowsFollow /\ [Next]_vars => RowsFollow'
<1> SUFFICES ASSUME DInv, RowsFollow, [Next]_vars PROVE RowsFollow'
  OBVIOUS
<1>1. CASE Start \/ UNCHANGED vars
  <2>1. UNCHANGED <<runs, ended, call>>
    BY <1>1 DEF Start, vars
  <2> QED
    BY <2>1, RowsStand
<1>2. ASSUME NEW c \in SUBSET Keys, NEW said \in BOOLEAN, Choose(c, said) PROVE RowsFollow'
  <2>1. UNCHANGED <<runs, ended>> /\ call'.pc # "submit"
    BY <1>2 DEF Choose, Idle
  <2> QED
    BY <2>1, RowsStand
<1>3. CASE Judged
  BY <1>3, JudgedRows
<1>4. CASE Unusable \/ RefreshBoard
  <2>1. UNCHANGED <<runs, ended>> /\ call'.pc # "submit"
    BY <1>4 DEF Unusable, RefreshBoard, Idle
  <2> QED
    BY <2>1, RowsStand
<1>5. CASE SubmitRun \/ SubmitFails
  <2>1. call.pc = "submit" /\ call'.pc # "submit" /\ ended' = ended
    BY <1>5 DEF SubmitRun, SubmitFails, Idle
  <2>2. runs' = runs \/ runs' = Append(runs, call.run[1])
    BY <1>5 DEF SubmitRun, SubmitFails
  <2>3. runs \in Seq(Runs) /\ ended \in Seq(Runs)
    BY TypesAre DEF DInv, RestTyped
  <2> QED
    BY <2>1, <2>2, <2>3, RowsStand, RowsArrive
<1> QED
  BY <1>1, <1>2, <1>3, <1>4, <1>5 DEF Next

(***************************************************************************)
(* A run ends, also before a judge that reports no tension; it becomes at  *)
(* most one row, the run's own and in its place, whatever is started while *)
(* it is being sent (SubmitRun, Vue's finish); and the boards rank the     *)
(* rows (buildBoards, Records).                                            *)
(***************************************************************************)
THEOREM EndingsAlwaysTrue == Spec => []EndingsAreTrue
<1>1. Spec => [](DInv /\ RowsFollow)
  <2>1. Init => DInv /\ RowsFollow
    BY InitDInv, InitRowsFollow
  <2>2. DInv /\ RowsFollow /\ [Next]_vars => (DInv /\ RowsFollow)'
    BY NextKeepsDInv, NextRowsFollow
  <2> QED
    BY <2>1, <2>2, PTL DEF Spec
<1>2. DInv /\ RowsFollow => RowsAreRuns /\ BoardsRank
  <2>1. RowsFollow => RowsAreRuns
    BY DEF RowsFollow, RowsAreRuns, Follows
  <2>2. DInv => BoardsRank
    BY BoardsRanked, TypesAre DEF DInv, RestTyped
  <2> QED
    BY <2>1, <2>2
<1>3. SilenceEndsTheRun /\ RowsAreRuns /\ BoardsRank => EndingsAreTrue
  BY DEF EndingsAreTrue
<1> QED
  BY <1>1, <1>2, <1>3, SilenceAlwaysEndsTheRun, PTL

=============================================================================
