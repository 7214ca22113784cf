------------------------------ MODULE Dialogue ------------------------------
(***************************************************************************)
(* Khimki, the verse game (src/internal/gamekhimki): one player's dialogue *)
(* with a character, judged turn by turn by a language model whose answers *)
(* are only half trusted, and the table of finished runs behind the four   *)
(* record boards.                                                          *)
(*                                                                         *)
(* The server keeps nothing between turns: the browser carries the         *)
(* transcript, the tension and the themes opened so far, and sends them    *)
(* with every line.  The model behind the judge is external and may answer *)
(* anything, wrongly, late or not at all.  A line is here the set of       *)
(* themes its words touch (Theme.matches); wording, pictures and the       *)
(* formatting of the prompt are left out.                                  *)
(***************************************************************************)
EXTENDS Integers, FiniteSets, SequencesExt

CONSTANTS
    Themes,             \* the character's themes, in his own order
    MaxAnger, AngerLoseAt, StartAnger,
    Drift,              \* angerDriftOnMissing
    ConfirmTurns,       \* themeConfirmTurns
    AutoDoneTurns,      \* themeAutoDoneTurns
    History,            \* historyExchanges, the window the model is shown
    OptionCount,
    Rivals,             \* the other accounts, by id
    Limit,              \* of a leaderboard
    Games,              \* a bound on this model
    Turns               \* turns played in all games together: a bound on this model

Keys == ToSet(Themes)
None == "none"

ASSUME DialogueAssumption ==
    /\ Themes \in Seq(Keys) /\ None \notin Keys
    /\ {Drift, ConfirmTurns, AutoDoneTurns, OptionCount, Limit, Games, Turns} \subseteq Nat \ {0}
    /\ {MaxAnger, AngerLoseAt, StartAnger, History} \subseteq Nat
    /\ StartAnger < AngerLoseAt /\ AngerLoseAt <= MaxAnger
    /\ ConfirmTurns <= AutoDoneTurns
    /\ Rivals \subseteq Nat \ {0} /\ IsFiniteSet(Rivals)

VARIABLES
    phase,      \* the view's phase
    game,       \* what the browser carries, and shows
    call,       \* the request it is waiting for
    runs,       \* game_khimki_runs
    forgot,     \* history: turns in a row whose tension the model left out
    ended,      \* history: the runs that came to an ending, in order
    turns       \* turns played in all games together, which Turns bounds

vars == <<phase, game, call, runs, forgot, ended, turns>>

Me == 0
NoAsk == [shown |-> 0, eng |-> [t \in Keys |-> 0], done |-> {},
          open |-> {}, hinted |-> {}, steer |-> None, topic |-> None]
Idle == [pc |-> "idle", choice |-> {}, said |-> TRUE, ask |-> NoAsk, run |-> <<>>]

(* start: the greeting and the opening options, without a call. *)
Opening == [talk |-> <<>>, anger |-> StartAnger, themes |-> {}, steps |-> 0,
            options |-> OptionCount, won |-> FALSE]

Runs == [account : {Me} \cup Rivals, success : BOOLEAN, steps : Nat]

TypeOK ==
    /\ phase \in {"intro", "play", "ending"}
    /\ game.talk \in Seq([topics : SUBSET Keys, steer : Keys \cup {None}])
    /\ game.anger \in 0..MaxAnger /\ game.themes \subseteq Keys
    /\ game.steps \in 0..Turns /\ game.options \in 0..OptionCount /\ game.won \in BOOLEAN
    /\ call.pc \in {"idle", "judge", "submit", "boards"} /\ call.choice \subseteq Keys
    /\ call.said \in BOOLEAN
    /\ call.ask \in [shown : 0..History, eng : [Keys -> 0..Turns], done : SUBSET Keys,
                      open : SUBSET Keys, hinted : SUBSET Keys,
                      steer : Keys \cup {None}, topic : Keys \cup {None}]
    /\ runs \in Seq(Runs) /\ ended \in Seq(Runs) /\ call.run \in Seq(Runs)
    /\ forgot \in 0..Turns /\ turns \in 0..Turns

(* The rivals have won before, in two steps each. *)
Init ==
    /\ phase = "intro" /\ game = Opening /\ call = Idle
    /\ runs = SetToSeq({[account |-> b, success |-> TRUE, steps |-> 2] : b \in Rivals})
    /\ forgot = 0 /\ ended = <<>> /\ turns = 0

-----------------------------------------------------------------------------
(* What the conversation has engaged: llm.go *)

Mentions(talk, t) == Cardinality({i \in DOMAIN talk : t \in talk[i].topics})

(* windowTranscript: the newest exchanges the model is shown. *)
WindowTranscript(talk) ==
    SubSeq(talk, IF Len(talk) > History THEN Len(talk) - History + 1 ELSE 1, Len(talk))

(* Mutant of ThemeEngagement: what has left the window is forgotten. *)
EngagementInWindow(talk, choice) ==
    [t \in Keys |-> Mentions(WindowTranscript(talk), t) + (IF t \in choice THEN 1 ELSE 0)]

(* themeEngagement: over the whole run, and the line just said. *)
ThemeEngagement(talk, choice) ==
    [t \in Keys |-> Mentions(talk, t) + (IF t \in choice THEN 1 ELSE 0)]

AutoMarkThemes(done, eng) == done \cup {t \in Keys : eng[t] >= AutoDoneTurns}

(* clampThemes: a key the character does not have is dropped. *)
ClampThemes(claimed) == claimed \cap Keys

(* Mutants of ConfirmThemes: the model is believed; its list is the list. *)
ConfirmOnItsWord(done, claimed, eng) == done \cup claimed
ConfirmAfresh(done, claimed, eng) == {t \in claimed : eng[t] >= ConfirmTurns}

(* confirmThemes: a fresh claim needs a conversation behind it. *)
ConfirmThemes(done, claimed, eng) ==
    done \cup {t \in claimed : eng[t] >= ConfirmTurns}

OpenThemes(done) == Keys \ done

(* The one of the themes S that the character's own order puts first. *)
First(S) ==
    Themes[CHOOSE i \in DOMAIN Themes : Themes[i] \in S /\ \A j \in 1..(i - 1) : Themes[j] \notin S]
Least(open, eng) == First({t \in open : \A u \in open : eng[t] <= eng[u]})

(* Mutant of SteerTheme: one of the closed themes is always pushed. *)
SteerAlways(done, eng) ==
    IF OpenThemes(done) = {} THEN None ELSE Least(OpenThemes(done), eng)

(* steerTheme: the closed theme engaged least, unless even that one is     *)
(* already being talked about.                                             *)
SteerTheme(done, eng) ==
    LET open == OpenThemes(done) IN
    IF open = {} \/ eng[Least(open, eng)] >= ConfirmTurns THEN None ELSE Least(open, eng)

(* currentTopic: the first theme in this line and the last exchange. *)
CurrentTopic(talk, choice) ==
    LET recent == choice \cup (IF talk = <<>> THEN {} ELSE Last(talk).topics)
    IN  IF recent = {} THEN None ELSE First(recent)

(* buildMessages: what the model is told.  Of the history it sees a        *)
(* window; of the themes those still closed, those among them it is        *)
(* prompted to mark, the one the first option should aim at, and the one   *)
(* the fourth should keep off.                                             *)
BuildMessages(talk, choice, done, eng) ==
    LET open == OpenThemes(done) IN
    [shown |-> Len(WindowTranscript(talk)), eng |-> eng, done |-> done, open |-> open,
     hinted |-> {t \in open : eng[t] >= ConfirmTurns},
     steer |-> SteerTheme(done, eng), topic |-> CurrentTopic(talk, choice)]

-----------------------------------------------------------------------------
(* What is made of the model's answer: llm.go *)

(* Mutant of ClampAnger: the scale has no top. *)
ClampAngerFloor(v) == IF v < 0 THEN 0 ELSE v

ClampAnger(v) == IF v < 0 THEN 0 ELSE IF v > MaxAnger THEN MaxAnger ELSE v

(* The tension field: left out, or null; a number, perhaps quoted, on      *)
(* either side of each limit; or an empty string, for which flexInt leaves *)
(* nought in a pointer that is no longer nil.                              *)
Tensions ==
    {[field |-> "absent", n |-> 0], [field |-> "blank", n |-> 0]}
        \cup [field : {"number"}, n : {-1, AngerLoseAt - 1, AngerLoseAt, MaxAnger + 1}]

(* Mutant of NewAnger: a field left out leaves the tension where it was,   *)
(* as the comment on judgeReply's field has it (ForgottenStaysPut).        *)
NewAngerStill(a, f) == IF f.field = "absent" THEN a ELSE ClampAnger(f.n)

NewAnger(a, f) == IF f.field = "absent" THEN ClampAnger(a + Drift) ELSE ClampAnger(f.n)

(* salvageJudgeReply and strayOptions: options of a garbled answer parked  *)
(* under other keys make up for those that are missing.                    *)
Salvaged(n, stray) == IF n + stray <= OptionCount THEN n + stray
                      ELSE IF n < OptionCount THEN OptionCount ELSE n

OptionsWhilePlaying(over, n) == IF over THEN 0 ELSE IF n > OptionCount THEN OptionCount ELSE n

OptionCounts == {Salvaged(n, stray) : n \in 0..OptionCount + 1, stray \in 0..OptionCount}

-----------------------------------------------------------------------------
(* The browser: GameKhimkiView.vue *)

(* The button on the splash and on the ending, where the last run may      *)
(* still be on its way to the table.                                       *)
Start ==
    /\ phase \in {"intro", "ending"} /\ Len(ended) < Games
    /\ phase' = "play" /\ game' = Opening /\ forgot' = 0
    /\ UNCHANGED <<call, runs, ended, turns>>

(* Mutant of Asked: the messages are made before the line is counted. *)
AskedEarly(c) ==
    LET eng == ThemeEngagement(game.talk, c)
    IN  [BuildMessages(game.talk, c, game.themes, ThemeEngagement(game.talk, {}))
            EXCEPT !.done = AutoMarkThemes(game.themes, eng), !.eng = eng]

(* Judge up to the call: the server works out what the conversation has    *)
(* opened, this line included, and where to steer before it asks.          *)
Asked(c) ==
    LET eng == ThemeEngagement(game.talk, c)
    IN  BuildMessages(game.talk, c, AutoMarkThemes(game.themes, eng), eng)

(* An option chosen: what the browser carries goes with it.  One that the  *)
(* model left blank says nothing; the character's own opening options are  *)
(* not blank.                                                              *)
Choose(c, said) ==
    /\ phase = "play" /\ call.pc = "idle" /\ game.options > 0 /\ turns < Turns
    /\ ~said => c = {} /\ game.steps > 0
    /\ call' = [Idle EXCEPT !.pc = "judge", !.choice = c, !.said = said, !.ask = Asked(c)]
    /\ UNCHANGED <<phase, game, runs, forgot, ended, turns>>

(* finish: the run is sent as it stands. *)
Finish(g) ==
    LET run == [account |-> Me, success |-> g.won, steps |-> g.steps] IN
    /\ phase' = "ending"
    /\ call' = [Idle EXCEPT !.pc = "submit", !.run = <<run>>]
    /\ ended' = Append(ended, run)

(* What the judge may claim to be open, as Judge lets it count. *)
Claims(ask) == {ask.done} \cup {ConfirmThemes(ask.done, ClampThemes(S), ask.eng) :
                                    S \in SUBSET (Keys \cup {None})}

(* turn: what was said is an exchange of the talk and a step of the run; a *)
(* blank option is neither, whatever the character answered.               *)
Told(reply) ==
    IF call.said THEN Append(game.talk, [topics |-> call.choice \cup reply, steer |-> call.ask.steer])
    ELSE game.talk
Stepped == game.steps + (IF call.said THEN 1 ELSE 0)

(* Won or lost, the run is over; and so it is when no options are left,    *)
(* unless it was a blank one that was chosen.                              *)
TurnEnds(g, over) ==
    IF over \/ (call.said /\ g.options = 0) THEN Finish(g)
    ELSE call' = Idle /\ UNCHANGED <<phase, ended>>

(* Judge with an answer it could use, and the view taking it in. *)
Verdict(f, themes, reply, achieved, gameOver) ==
    LET a == NewAnger(game.anger, f)
        lost == (gameOver \/ a >= AngerLoseAt) /\ ~achieved
    IN  \E n \in {OptionsWhilePlaying(achieved \/ lost, k) : k \in OptionCounts} :
        LET g == [talk |-> Told(reply), anger |-> a, themes |-> themes, steps |-> Stepped,
                  options |-> n, won |-> achieved]
        IN  /\ game' = g /\ turns' = turns + 1
            /\ forgot' = IF f.field = "absent" THEN forgot + 1 ELSE 0
            /\ TurnEnds(g, achieved \/ lost)

Judged ==
    /\ call.pc = "judge"
    /\ \E f \in Tensions, themes \in Claims(call.ask), reply \in SUBSET Keys :
          \E achieved, gameOver \in BOOLEAN : Verdict(f, themes, reply, achieved, gameOver)
    /\ UNCHANGED runs

(* Mutant of Unusable: the spinner is left turning. *)
UnusableBusy == call.pc = "judge" /\ UNCHANGED vars

(* The judge not reached, rate limited, or answering in prose: the line    *)
(* was never said.                                                         *)
Unusable ==
    /\ call.pc = "judge"
    /\ call' = Idle
    /\ UNCHANGED <<phase, game, runs, forgot, ended, turns>>

(* Mutant of SubmitRun: the steps are read when the row is written. *)
SubmitRunLate ==
    /\ call.pc = "submit"
    /\ runs' = Append(runs, [call.run[1] EXCEPT !.steps = game.steps])
    /\ call' = [Idle EXCEPT !.pc = "boards"]
    /\ UNCHANGED <<phase, game, forgot, ended, turns>>

(* SubmitRun and RecordRun. *)
SubmitRun ==
    /\ call.pc = "submit"
    /\ runs' = Append(runs, call.run[1])
    /\ call' = [Idle EXCEPT !.pc = "boards"]
    /\ UNCHANGED <<phase, game, forgot, ended, turns>>

(* The request refused, or its answer lost after the row was written. *)
SubmitFails ==
    /\ call.pc = "submit"
    /\ runs' \in {runs, Append(runs, call.run[1])}
    /\ call' = Idle
    /\ UNCHANGED <<phase, game, forgot, ended, turns>>

(* refreshBoard, answered or not. *)
RefreshBoard ==
    /\ call.pc = "boards"
    /\ call' = Idle
    /\ UNCHANGED <<phase, game, runs, forgot, ended, turns>>

Next ==
    \/ Start
    \/ \E c \in SUBSET Keys, said \in BOOLEAN : Choose(c, said)
    \/ Judged \/ Unusable
    \/ SubmitRun \/ SubmitFails
    \/ RefreshBoard

Spec == Init /\ [][Next]_vars

(* A request that is not answered gives up: the judge's client and the     *)
(* browser's connection time out.                                          *)
FairSpec == Spec /\ WF_vars(Unusable) /\ WF_vars(SubmitFails) /\ WF_vars(RefreshBoard)

-----------------------------------------------------------------------------
(* The boards: service.go and postgres_repository.go *)

BoardKinds == [success : BOOLEAN, longest : BOOLEAN]
Before(k, e, f) ==
    \/ IF k.longest THEN e.steps > f.steps ELSE e.steps < f.steps
    \/ e.steps = f.steps /\ e.account < f.account

(* Records: an account's extreme run of a kind, none when it has no such run. *)
StepsOf(a, success) == {r.steps : r \in {q \in ToSet(runs) : q.account = a /\ q.success = success}}
Record(a, k) ==
    LET S == StepsOf(a, k.success) IN
    {[account |-> a, steps |-> n] :
        n \in {m \in S : \A o \in S : IF k.longest THEN m >= o ELSE m <= o}}

(* The records of a kind in the order of its board. *)
Ranked(S, k) ==
    CHOOSE q \in [1..Cardinality(S) -> S] : \A i, j \in DOMAIN q : i < j => Before(k, q[i], q[j])

AllRecords(k) == UNION {Record(a, k) : a \in {Me} \cup Rivals}

(* Mutant of Board: cut to the limit first. *)
BoardCutFirst(k) ==
    Ranked({e \in AllRecords(k) :
                Cardinality({f \in AllRecords(k) : f.account < e.account}) < Limit}, k)

(* buildBoards. *)
Board(k) ==
    LET ranked == Ranked(AllRecords(k), k)
    IN  SubSeq(ranked, 1, IF Len(ranked) > Limit THEN Limit ELSE Len(ranked))

-----------------------------------------------------------------------------
(* Properties *)

(* A theme is never open that the conversation has not been about: the     *)
(* model's claims, however early and however often repeated, open nothing  *)
(* without ConfirmTurns exchanges behind them (confirmThemes).             *)
ThemesAreEarned == \A t \in game.themes : Mentions(game.talk, t) >= ConfirmTurns

(* And a theme talked to death is open, whatever the model says or omits   *)
(* and however long ago the talk was: AutoDoneTurns exchanges before the   *)
(* last one have opened it (autoMarkThemes, "a fact about the run and must *)
(* not be forgotten because those turns fell out of the prompt").          *)
TalkOpens ==
    \A t \in Keys : Mentions(SubSeq(game.talk, 1, Len(game.talk) - 1), t) >= AutoDoneTurns
                        => t \in game.themes

(* Progress only grows: a turn, or a failed one, never closes a theme.     *)
ProgressIsKept == [][phase = "play" => game.themes \subseteq game'.themes]_vars

(* The first option never hammers one subject (the loop seen in production *)
(* that steerTheme exists to break): a theme is pushed in at most          *)
(* ConfirmTurns exchanges that were about it, in the whole of a run.       *)
NeverHammered ==
    \A t \in Keys :
        Cardinality({i \in DOMAIN game.talk : game.talk[i].steer = t /\ t \in game.talk[i].topics})
            <= ConfirmTurns

(* The prompt and the rules that judge its answer agree, although both are *)
(* derived anew each turn: the model is never asked for a theme that the   *)
(* talk has opened by itself, a theme it is prompted to mark counts as     *)
(* soon as it does, and one that would not count is not prompted for       *)
(* (buildMessages against autoMarkThemes and confirmThemes).               *)
PromptIsHonoured ==
    call.pc = "judge" =>
        \A t \in Keys :
            /\ t \in call.ask.open =>
                  /\ Mentions(Append(game.talk, [topics |-> call.choice]), t) < AutoDoneTurns
                  /\ t \in call.ask.hinted <=> t \in ConfirmThemes({}, {t}, call.ask.eng)
            /\ call.ask.steer = t => t \in call.ask.open \ call.ask.hinted

(* A model that stops reporting the tension cannot stall the game: however *)
(* low it was, the drift alone ends the run within AngerLoseAt / Drift     *)
(* such turns, those that said nothing included (llm.go, where the answer  *)
(* is used: "An omitted value drifts up by a small fixed amount").         *)
SilenceEndsTheRun == phase = "play" => forgot * Drift < AngerLoseAt

(* llm.go, where the answer is decoded: "a model that forgets the field    *)
(* must leave the tension where it was".  It drifts; NewAngerStill is what *)
(* that comment describes.                                                 *)
ForgottenStaysPut == [][forgot' > forgot => game'.anger = game.anger]_vars

(* And llm.go's "so every run still converges on an ending": but a blank   *)
(* option answered with none leaves a run that can neither go on nor end.  *)
RunGoesOn == phase = "play" /\ call.pc = "idle" => game.options > 0

(* Every row of the player's is a run that ended, in its order, with that  *)
(* run's outcome and length: starting again while the last run is still    *)
(* being sent neither alters nor doubles it.                               *)
MyRows == {i \in DOMAIN runs : runs[i].account = Me}
InStep(at) ==
    /\ \A i \in MyRows : runs[i] = ended[at[i]]
    /\ \A i, j \in MyRows : i < j => at[i] < at[j]
RowsAreRuns == \E at \in [MyRows -> DOMAIN ended] : InStep(at)

(* Rank i of a board is held by an account that exactly i - 1 others beat  *)
(* with a single run of that kind, and an account with such a run is       *)
(* missing only when Limit others beat it.                                 *)
Beats(k, a, b) == \E e \in Record(a, k), f \in Record(b, k) : a # b /\ Before(k, e, f)
BoardsRank ==
    \A k \in BoardKinds, a \in {Me} \cup Rivals :
        LET rank == 1 + Cardinality({b \in {Me} \cup Rivals : Beats(k, b, a)}) IN
        IF StepsOf(a, k.success) # {} /\ rank <= Limit
        THEN Board(k)[rank].account = a /\ Board(k)[rank].steps \in StepsOf(a, k.success)
        ELSE \A e \in ToSet(Board(k)) : e.account # a

(* The player is never left before a spinner: every call comes back, the   *)
(* one a run is still being sent with when a new one has begun included.   *)
TurnComesBack == call.pc # "idle" ~> call.pc = "idle"

(* The themes a run has opened are those its talk was about: none on the   *)
(* judge's word alone, and all that were talked about long enough.         *)
ThemesAreTrue == TypeOK /\ ThemesAreEarned /\ TalkOpens

(* What the judge is asked for agrees with the rules that will judge its   *)
(* answer, and no theme is pushed for ever.                                *)
PromptIsTrue == PromptIsHonoured /\ NeverHammered

(* Silence ends a run; a run that ended becomes one row, if it reaches the *)
(* table, and the row is ranked where it belongs.                          *)
EndingsAreTrue == SilenceEndsTheRun /\ RowsAreRuns /\ BoardsRank

(* No turn is left hanging, and none undoes an earlier one. *)
TurnsAreKept == ProgressIsKept /\ TurnComesBack

=============================================================================
