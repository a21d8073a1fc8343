------------------------------- MODULE Records -------------------------------
(***************************************************************************)
(* The statistics of the matches, the achievements they earn, and the two  *)
(* files of the client that keep them (LobbyData).  A finished match is    *)
(* added to the statistics, which are saved in a temporary file; the file  *)
(* there is is copied over its backup, and the temporary one moved in its  *)
(* place.  Only then are achievements awarded, and their file written in   *)
(* place.  Starting reads the statistics, or their backup, and awards what *)
(* they deserve again.  The program may end between any two steps, every   *)
(* call of the system may fail, and a file may be damaged while the        *)
(* program does not run.                                                   *)
(*                                                                         *)
(* Two counters stand for the statistics: the games played with a          *)
(* character ("play"), for all that count games, and the uses of a card    *)
(* ("use_card").  Achievements that no counter tells of are "special".     *)
(* The files' bits and their checksum are left out: a file is read as it   *)
(* was written, or found broken.                                           *)
(***************************************************************************)
EXTENDS Naturals, FiniteSets

CONSTANTS
  Achievement, \* [type : {"play", "use_card", "special"}, count : Nat]
  MaxGames,    \* bound on the matches played
  MaxUses,     \* bound on the uses of the card in a match
  MaxDamages   \* bound on the files damaged

ASSUME RecordsAssumption ==
  /\ Achievement \subseteq [type : {"play", "use_card", "special"}, count : Nat]
  /\ \A a, b \in Achievement : a.type = "use_card" /\ b.type = "use_card" => a = b
  /\ {MaxGames, MaxUses, MaxDamages} \subseteq Nat

VARIABLES
  stats,     \* loadedCharacterStats, loadedCharacterCardUsage: [games, used]
  awarded,   \* the achievements whose awarded is set
  locked,    \* achievementsLocked: their file has been tampered with
  statsDat,  \* stats.dat, and its copy: "none", "broken" or "ok", with what they hold
  backupDat,
  achDat,    \* achievements.dat: whether the flags of a locked one are set, and which are awarded
  saving,    \* the step of the saving that comes next; "idle", or "off" when nothing runs
  counting,  \* the saving is countGame's
  played, damages,  \* bound the matches and the damages
  kept,      \* history: the statistics last saved, or read at the start
  before,    \* history: those that they replaced
  behind,    \* history: the backup holds neither of them
  damaged,   \* history: stats.dat was damaged, and not replaced since
  safe,      \* history: the achievements of the last file written to its end
  torn       \* history: that file was damaged, or emptied and not written again

memory      == <<stats, awarded, locked>>
statsFiles  == <<statsDat, backupDat>>
statsPast   == <<kept, before, behind, damaged>>
achPast     == <<safe, torn>>
recordsVars == <<memory, statsFiles, achDat, saving, counting, played, damages, statsPast, achPast>>

NoStats == [games |-> 0, used |-> 0]
StatsFile(s) == [state |-> "ok", stats |-> s]
Missing == [state |-> "none", stats |-> NoStats]
Unreadable == [state |-> "broken", stats |-> NoStats]
AchFile(flags, a) == [flags |-> flags, awarded |-> a]

RecordsInit ==
  /\ stats = NoStats /\ awarded = {} /\ locked = FALSE
  /\ statsDat = Missing /\ backupDat = Missing /\ achDat = AchFile(FALSE, {})
  /\ saving = "off" /\ counting = FALSE /\ played = 0 /\ damages = 0
  /\ kept = NoStats /\ before = NoStats /\ behind = FALSE /\ damaged = FALSE
  /\ safe = {} /\ torn = FALSE

(***************************************************************************)
(* What the statistics deserve.                                            *)
(***************************************************************************)
\* A card has to be used more often than its achievement's count.
Deserves(s, a) ==
  CASE a.type = "play" -> a.count <= s.games
    [] a.type = "use_card" -> s.used > a.count
    [] OTHER -> FALSE

Owed(s, have, type) == {a \in Achievement \ have : a.type = type /\ Deserves(s, a)}

\* At most one of those that are owed: find_if.
OneOf(owed) == IF owed = {} THEN {{}} ELSE {{a} : a \in owed}

\* Mutant: the first one of each type, as after a match.
GrantsOne(s, have) ==
  UNION {CHOOSE one \in OneOf(Owed(s, have, t)) : TRUE : t \in {"play", "use_card"}}

\* _grantStatsAchievements: all of a character's, at the start.
GrantsAll(s, have) == Owed(s, have, "play") \cup Owed(s, have, "use_card")

(***************************************************************************)
(* Saving.                                                                 *)
(***************************************************************************)
Saves(from, to) == saving = from /\ saving' = to

\* The end of saveStats: countGame then awards, the destructor saves the achievements.
StatsSaved == IF counting THEN "award" ELSE "open"

\* The temporary file is written: a failure is noticed, and nothing is replaced.
WritesTemporary ==
  /\ Saves("write", "copy") \/ Saves("write", StatsSaved)
  /\ UNCHANGED <<memory, statsFiles, achDat, counting, played, damages, statsPast, achPast>>

\* Mutant: the backup is left to the recovery.
CopiesNothing ==
  /\ Saves("copy", "replace")
  /\ UNCHANGED <<memory, statsFiles, achDat, counting, played, damages, statsPast, achPast>>

\* stats.dat, if there is one, is copied over its backup: the saving goes on if that fails,
\* whatever is left of the backup.
CopiesBackup ==
  /\ Saves("copy", "replace")
  /\ IF statsDat = Missing THEN UNCHANGED <<backupDat, behind>>
     ELSE /\ backupDat' \in {statsDat, backupDat, Unreadable}
          /\ behind' = (backupDat' # StatsFile(kept))
  /\ UNCHANGED <<memory, statsDat, achDat, counting, played, damages, kept, before, damaged,
                 achPast>>

\* The temporary file takes the place of stats.dat, or is removed.
Replaces ==
  /\ Saves("replace", StatsSaved)
  /\ \/ /\ statsDat' = StatsFile(stats)
        /\ kept' = stats /\ before' = kept /\ damaged' = FALSE
     \/ UNCHANGED <<statsDat, kept, before, damaged>>
  /\ UNCHANGED <<memory, backupDat, achDat, counting, played, damages, behind, achPast>>

\* countGame: one achievement of each type at most, and perhaps a special one (the move that
\* won, the skills at their highest level).
Awards ==
  /\ Saves("award", "open")
  /\ \E game \in OneOf(Owed(stats, awarded, "play")),
        card \in OneOf(Owed(stats, awarded, "use_card")),
        special \in {{}} \cup OneOf({a \in Achievement \ awarded : a.type = "special"}) :
          awarded' = awarded \cup game \cup card \cup special
  /\ UNCHANGED <<stats, locked, statsFiles, achDat, counting, played, damages, statsPast, achPast>>

\* saveAchievements: opening the file empties it.
OpensAchievements ==
  /\ \/ Saves("open", "fill") /\ achDat' = AchFile(FALSE, {})
     \/ Saves("open", "idle") /\ UNCHANGED achDat
  /\ UNCHANGED <<memory, statsFiles, counting, played, damages, statsPast, achPast>>

\* Nobody looks whether it was written.
FillsAchievements ==
  /\ Saves("fill", "idle")
  /\ \/ achDat' = AchFile(locked, awarded) /\ safe' = awarded /\ torn' = FALSE
     \/ UNCHANGED <<achDat, safe>> /\ torn' = TRUE
  /\ UNCHANGED <<memory, statsFiles, counting, played, damages, statsPast>>

(***************************************************************************)
(* What happens in the game.                                               *)
(***************************************************************************)
\* countGame.
Plays ==
  /\ Saves("idle", "write") /\ counting' = TRUE
  /\ played < MaxGames /\ played' = played + 1
  /\ \E uses \in 0..MaxUses :
       stats' = [games |-> stats.games + 1, used |-> stats.used + uses]
  /\ UNCHANGED <<awarded, locked, statsFiles, achDat, damages, statsPast, achPast>>

\* The achievements of the title screen are saved; those of the arcades and of a crash wait
\* for the next saving.
AwardsSpecial ==
  /\ Saves("idle", "open") \/ Saves("idle", "idle")
  /\ \E a \in Achievement \ awarded : a.type = "special" /\ awarded' = awarded \cup {a}
  /\ UNCHANGED <<stats, locked, statsFiles, achDat, counting, played, damages, statsPast, achPast>>

\* ~LobbyData.
SavesAll ==
  /\ Saves("idle", "write") /\ counting' = FALSE
  /\ UNCHANGED <<memory, statsFiles, achDat, played, damages, statsPast, achPast>>

EndsAnywhere ==
  /\ saving # "off" /\ saving' = "off" /\ counting' = FALSE
  /\ stats' = NoStats /\ awarded' = {} /\ locked' = FALSE
  /\ torn' = (torn \/ saving = "fill")
  /\ UNCHANGED <<statsFiles, achDat, played, damages, statsPast, safe>>

Damages ==
  /\ saving = "off" /\ damages < MaxDamages /\ damages' = damages + 1
  /\ \/ /\ statsDat # Missing /\ statsDat' = Unreadable /\ damaged' = TRUE
        /\ UNCHANGED <<backupDat, achDat, behind, torn>>
     \/ /\ backupDat # Missing /\ backupDat' = Unreadable /\ behind' = TRUE
        /\ UNCHANGED <<statsDat, achDat, damaged, torn>>
     \/ /\ \E flags \in BOOLEAN : achDat' = AchFile(flags, {})
        /\ torn' = TRUE /\ UNCHANGED <<statsFiles, behind, damaged>>
  /\ UNCHANGED <<memory, saving, counting, played, kept, before, safe>>

(***************************************************************************)
(* Starting.                                                               *)
(***************************************************************************)
\* What _loadStats finds.
Loaded == IF statsDat.state = "ok" THEN statsDat.stats
          ELSE IF backupDat.state = "ok" THEN backupDat.stats ELSE NoStats

\* A backup that was read is put in the place of stats.dat, if the system lets it; when
\* neither could be read, each is put aside.
Recovers ==
  IF statsDat.state = "ok" THEN UNCHANGED statsFiles
  ELSE IF backupDat.state = "ok" THEN statsDat' \in {statsDat, backupDat} /\ UNCHANGED backupDat
  ELSE statsDat' \in {statsDat, Missing} /\ backupDat' \in {backupDat, Missing}

\* The statistics, then the achievements, then what the first deserve of the second, which
\* is not saved yet.
Starts ==
  /\ saving = "off" /\ saving' = "idle"
  /\ stats' = Loaded /\ Recovers
  /\ locked' = achDat.flags
  /\ awarded' = achDat.awarded
                  \cup (IF achDat.flags THEN {} ELSE GrantsAll(Loaded, achDat.awarded))
  /\ IF statsDat.state = "ok" THEN UNCHANGED <<kept, before, behind>>
     ELSE kept' = Loaded /\ before' = Loaded /\ behind' = FALSE
  /\ damaged' = (statsDat'.state = "broken")
  /\ UNCHANGED <<achDat, counting, played, damages, achPast>>

RecordsNext ==
  \/ WritesTemporary \/ CopiesBackup \/ Replaces \/ Awards
  \/ OpensAchievements \/ FillsAchievements
  \/ Plays \/ AwardsSpecial \/ SavesAll \/ EndsAnywhere \/ Damages \/ Starts

(***************************************************************************)
(* Properties.                                                             *)
(***************************************************************************)
\* The type invariant.
RecordsTypeOK ==
  /\ {stats, kept, before} \subseteq [games : 0..MaxGames, used : 0..(MaxGames * MaxUses)]
  /\ {awarded, safe, achDat.awarded} \subseteq SUBSET Achievement
  /\ {statsDat, backupDat} \subseteq
       [state : {"none", "broken", "ok"},
        stats : [games : 0..MaxGames, used : 0..(MaxGames * MaxUses)]]
  /\ {locked, counting, behind, damaged, torn, achDat.flags} \subseteq BOOLEAN
  /\ saving \in {"off", "idle", "write", "copy", "replace", "award", "open", "fill"}
  /\ played \in 0..MaxGames /\ damages \in 0..MaxDamages

\* Wherever the program ends, the next start finds the statistics last saved, or those saved
\* before them when stats.dat was damaged and its backup was not.
StatsSurvive ==
  saving = "off" => \/ Loaded = kept
                    \/ damaged /\ (Loaded = before \/ behind)

\* Whenever the game goes on, unless the file is locked, the player has every achievement
\* that the statistics deserve, those of a file that was lost and those of a match whose
\* awards were never saved among them; an achievement that was once saved is not lost,
\* unless its file was.
NothingOwed ==
  saving = "idle" =>
    /\ locked \/ \A a \in Achievement : Deserves(stats, a) => a \in awarded
    /\ torn \/ safe \subseteq awarded

\* What saveStats, _loadStats, saveAchievements and _grantStatsAchievements are there for.
ProgressSurvives == StatsSurvive /\ NothingOwed

\* The achievements about a card say "Use ... 10 times": a player who used it so often has
\* them.
EarnedAsDescribed ==
  saving = "idle" /\ ~locked =>
    \A a \in Achievement : a.type = "use_card" /\ a.count <= stats.used => a \in awarded

RecordsSpec == RecordsInit /\ [][RecordsNext]_recordsVars
=============================================================================
