----------------------------- MODULE MatchCount -----------------------------
(***************************************************************************)
(* How the hooks of the battle scenes count a match for the statistics     *)
(* (main.cpp).  The cards the player uses are written down with the frame  *)
(* they are used on.  On the first frame of a match the player's deck is   *)
(* taken and the cards of the match before are forgotten; on the first     *)
(* frame after its end the match is counted.  Two flags, init and counted, *)
(* remember that both are done, and are taken back when the scene is left. *)
(* Netcode with rollback (Giuroll) goes back to an earlier frame and plays *)
(* the frames after it again.  Matches are played over the network,        *)
(* watched, or played on one computer: only the first ones count.          *)
(***************************************************************************)
EXTENDS Naturals, Sequences, SequencesExt

CONSTANTS
  MaxFrames,    \* the frames of a match
  MaxRollbacks, \* bound on the rollbacks of a match
  MaxMatches    \* bound on the matches

ASSUME MatchAssumption == {MaxFrames, MaxRollbacks, MaxMatches} \subseteq Nat

VARIABLES
  battle,      \* the scene: "none", "play", "watch" or "local"
  currentFrame,
  overAt,      \* the frames whose match state is past the end; those after the first are left out
  cardsUsed,   \* the frames on which the player used a card
  init, counted,
  deck,        \* whose deck is taken: "none", "own", "other"
  matches, rollbacks, \* bound the matches and the rollbacks
  truth,       \* history: the frames of the match, as it is now, on which a card was used
  records,     \* history: what countGame added for this match
  stale,       \* history: a match was watched, and no other scene left since
  undone       \* history: the frame that counted the match was rolled back

hooks     == <<cardsUsed, init, counted, deck>>
pastMatch == <<truth, records, stale, undone>>
matchVars == <<battle, currentFrame, overAt, hooks, matches, rollbacks, pastMatch>>

MatchInit ==
  /\ battle = "none" /\ currentFrame = 0 /\ overAt = {}
  /\ cardsUsed = <<>> /\ init = FALSE /\ counted = FALSE /\ deck = "none"
  /\ matches = 0 /\ rollbacks = 0
  /\ truth = {} /\ records = <<>> /\ stale = FALSE /\ undone = FALSE

\* The game enters a battle scene.
Begins ==
  /\ battle = "none" /\ battle' \in {"play", "watch", "local"}
  /\ matches < MaxMatches /\ matches' = matches + 1
  /\ currentFrame' = 0 /\ overAt' = {} /\ rollbacks' = 0
  /\ truth' = {} /\ records' = <<>> /\ undone' = FALSE
  /\ stale' = (stale \/ battle' = "watch")
  /\ UNCHANGED hooks

(***************************************************************************)
(* CBattleManager_OnProcess.                                               *)
(***************************************************************************)
\* onCardUsed, coinUsed: only over the network.
onCardUsed(uses) ==
  IF uses /\ battle = "play" THEN Append(cardsUsed, currentFrame) ELSE cardsUsed

\* The deck is taken, and the cards so far forgotten, when init says it was not done.
Prepares(used) ==
  /\ cardsUsed' = IF init THEN used ELSE <<>>
  /\ deck' = IF init THEN deck ELSE IF battle = "watch" THEN "other" ELSE "own"
  /\ init' = TRUE

\* countGame, which looks at the mode itself.
countGame ==
  IF battle = "play" THEN Append(records, [cards |-> ToSet(cardsUsed'), deck |-> deck'])
  ELSE records

\* The game plays a frame, on which the player may use a card (not on the first one, where
\* nothing can be played), and which may end the match.
Process ==
  /\ battle # "none" /\ currentFrame < MaxFrames /\ currentFrame' = currentFrame + 1
  /\ \E uses, ends \in BOOLEAN :
       /\ uses => overAt = {} /\ currentFrame > 0 /\ battle = "play"
       /\ truth' = IF uses THEN truth \cup {currentFrame} ELSE truth
       /\ Prepares(onCardUsed(uses))
       /\ overAt' = IF ends /\ overAt = {} THEN {currentFrame} ELSE overAt
  /\ IF overAt' # {} /\ ~counted THEN counted' = TRUE /\ records' = countGame
     ELSE UNCHANGED <<counted, records>>
  /\ UNCHANGED <<battle, matches, rollbacks, stale, undone>>

\* The cards left when those at the end of the list are taken off it, from the last one back,
\* as long as they were used on frame f or later.
PoppedFrom(f) ==
  LET n == CHOOSE n \in 0..Len(cardsUsed) :
             /\ \A i \in (n + 1)..Len(cardsUsed) : cardsUsed[i] >= f
             /\ n > 0 => cardsUsed[n] < f
  IN  SubSeq(cardsUsed, 1, n)

\* Mutant: the cards used on the frame that is played again are kept.
KeepsThatFrame(f) == PoppedFrom(f + 1)

\* rollbackEvents: the cards used on a frame that is played again are taken off the list.
rollbackEvents(f) == PoppedFrom(f)

\* The netcode goes back to the state before a frame.
RollsBack ==
  /\ battle = "play" /\ rollbacks < MaxRollbacks /\ rollbacks' = rollbacks + 1
  /\ \E f \in 0..(currentFrame - 1) :
       /\ currentFrame' = f
       /\ cardsUsed' = rollbackEvents(f)
       /\ truth' = {g \in truth : g < f}
       /\ overAt' = {g \in overAt : g < f}
       /\ undone' = (undone \/ \E g \in overAt : g >= f)
  /\ UNCHANGED <<battle, init, counted, deck, matches, records, stale>>

\* Mutant: the flags outlive every match.
ResetsNothing == UNCHANGED <<init, counted, stale>>

\* Battle-, BattleClient- and BattleServerOnProcess take the flags back when the game goes to
\* another scene; BattleWatchOnProcess does not.
Resets ==
  IF battle = "watch" THEN UNCHANGED <<init, counted, stale>>
  ELSE init' = FALSE /\ counted' = FALSE /\ stale' = FALSE

\* The match is over, or the connection was lost.
Leaves ==
  /\ battle # "none" /\ currentFrame > 0 /\ battle' = "none" /\ Resets
  /\ UNCHANGED <<currentFrame, overAt, cardsUsed, deck, matches, rollbacks, truth, records, undone>>

MatchNext == Begins \/ Process \/ RollsBack \/ Leaves

MatchSpec == MatchInit /\ [][MatchNext]_matchVars

(***************************************************************************)
(* Properties.                                                             *)
(***************************************************************************)
\* The type invariant.
MatchTypeOK ==
  /\ battle \in {"none", "play", "watch", "local"}
  /\ currentFrame \in 0..MaxFrames
  /\ overAt \cup truth \cup ToSet(cardsUsed) \subseteq 0..MaxFrames
  /\ {init, counted, stale, undone} \subseteq BOOLEAN
  /\ deck \in {"none", "own", "other"}
  /\ ToSet(records) \subseteq [cards : SUBSET (0..MaxFrames), deck : {"own", "other"}]
  /\ matches \in 0..MaxMatches /\ rollbacks \in 0..MaxRollbacks

\* A match that was played over the network to its end is counted once, with the cards that
\* were used in it, however often frames were played again, and with the player's own deck;
\* one that has not ended is not counted.  Two cases are left out: a match was watched since
\* the last one of another kind (its flags are still up: the match is not counted, or with
\* the deck that was watched), and the end itself was rolled back.
GamesAsPlayed ==
  battle = "play" /\ ~stale /\ ~undone =>
    records = IF overAt = {} THEN <<>> ELSE <<[cards |-> truth, deck |-> "own"]>>
=============================================================================
