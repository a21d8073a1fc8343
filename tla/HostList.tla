------------------------------ MODULE HostList ------------------------------
(***************************************************************************)
(* The list of hosts that can be opened inside a lobby (SmallHostlist).    *)
(* A worker thread asks a web server for the games every ten seconds and   *)
(* leaves the answer aside, under _entriesMutex; the game thread puts it   *)
(* in the place of the two tabs at the start of a frame, under the player's *)
(* cursor.  Closing the list asks the worker to stop without waiting for   *)
(* it: the list is retired, and erased by a later frame once the worker    *)
(* has stopped; the lobby screen waits for it only when it is destroyed.   *)
(*                                                                         *)
(* A game is its address; the tabs are sequences of games without          *)
(* repetition (an address listed twice replaces its first entry).          *)
(***************************************************************************)
EXTENDS Naturals, Sequences

CONSTANTS
  Game,     \* the games the web server may list
  NoGame,   \* no game
  Visible,  \* MAX_VISIBLE_ENTRIES
  Answers   \* the answers of the web server: [host, play]

Tabs == {"host", "play"}
Elements(s) == {s[i] : i \in DOMAIN s}
Listings == {s \in UNION {[1..n -> Game] : n \in 0..3} :
               \A i, j \in DOMAIN s : s[i] = s[j] => i = j}

ASSUME HostListAssumption ==
  /\ Visible \in Nat \ {0} /\ NoGame \notin Game
  /\ Answers \subseteq [Tabs -> Listings]

VARIABLES
  shown,       \* _hostEntries, _playEntries
  pending,     \* _pendingHostEntries, _pendingPlayEntries
  hasPending,  \* _hasPendingEntries
  tab,         \* the tab on the screen: "play" when _spectator
  cursor,      \* _hostSelect
  offset,      \* _hostOffset, _playOffset
  browsing,    \* _selected: the cursor is in the list and not in the menu
  joining,     \* _parent->choice: an attempt to join is under way
  running,     \* _running
  worker,      \* where the worker is
  life,        \* the list is "open", "retired", "joining" its worker, or "erased"
  misjoined    \* history: a join went to another game than the one seen, still listed

tabsVars == <<shown, pending, hasPending>>
uiVars   == <<tab, cursor, offset, browsing, joining>>
hostListVars == <<tabsVars, uiVars, running, worker, life, misjoined>>

Nothing == [t \in Tabs |-> <<>>]

\* The game under the cursor, NoGame if the tab is empty.
Selected == IF cursor < Len(shown[tab]) THEN shown[tab][cursor + 1] ELSE NoGame

HostListInit ==
  /\ shown = Nothing /\ pending = Nothing /\ hasPending = FALSE
  /\ tab = "host" /\ cursor = 0 /\ offset = [t \in Tabs |-> 0]
  /\ browsing = FALSE /\ joining = FALSE
  /\ running = TRUE /\ worker = "refresh"
  /\ life = "open"
  /\ misjoined = FALSE

(***************************************************************************)
(* The worker.  Every test of _running makes the refresh return at once.   *)
(***************************************************************************)
\* The start of a refresh: the request.
Refresh ==
  /\ worker = "refresh"
  /\ worker' = IF running THEN "request" ELSE "wait"
  /\ UNCHANGED <<tabsVars, uiVars, running, life, misjoined>>

\* The answer; or an error, an abort or a request to stop, which leave the tabs alone.
\* wait_for looks at _running before it sleeps.
Receive ==
  /\ worker = "request"
  /\ worker' = "wait"
  /\ \/ /\ running
        /\ pending' \in Answers /\ hasPending' = TRUE
     \/ UNCHANGED <<pending, hasPending>>
  /\ UNCHANGED <<shown, uiVars, running, life, misjoined>>

\* wait_for begins: it returns at once if the list is closing, and sleeps otherwise.
Wait ==
  /\ worker = "wait"
  /\ worker' = IF running THEN "asleep" ELSE "stopped"
  /\ UNCHANGED <<tabsVars, uiVars, running, life, misjoined>>

\* Mutant: the worker waits for a notification only.
NoTimeOut == FALSE /\ UNCHANGED hostListVars

\* Ten seconds have passed.
TimeOut ==
  /\ worker = "asleep"
  /\ worker' = IF running THEN "refresh" ELSE "stopped"
  /\ UNCHANGED <<tabsVars, uiVars, running, life, misjoined>>

\* requestStop: the worker is woken if it is asleep.  _running is not set under
\* _wakeMutex: between its test and its sleep ("wait" to "asleep") a worker may miss the
\* notification, and sleeps its ten seconds.
requestStop ==
  /\ running' = FALSE
  /\ worker' \in (IF worker = "asleep" THEN {"stopped"}
                  ELSE IF worker = "wait" THEN {"wait", "asleep"} ELSE {worker})

(***************************************************************************)
(* The game thread: one frame is one step, the swap being under the mutex. *)
(***************************************************************************)
Lower(a, b) == IF a < b THEN a ELSE b

\* Mutant: the cursor keeps its place.
KeepIndex(games) ==
  IF games = <<>> THEN 0 ELSE Lower(cursor, Len(games) - 1)

\* Mutant: the cursor is not clamped to the new tab.
KeepCursor(games) == cursor

\* Where the cursor goes when the tab is replaced: with its game, or stays.
FindSelection(games) ==
  IF \E i \in DOMAIN games : games[i] = Selected
  THEN (CHOOSE i \in DOMAIN games : games[i] = Selected) - 1
  ELSE IF games = <<>> THEN 0 ELSE Lower(cursor, Len(games) - 1)

\* The first visible line, when the tab has n lines.
Clamped(first, n) ==
  IF n <= Visible THEN 0 ELSE Lower(first, n - Visible)

\* _applyPendingEntries: the tabs, the cursor and the scrolling it leaves.
Tab(t) == IF hasPending THEN pending[t] ELSE shown[t]
Cursor == IF hasPending THEN FindSelection(pending[tab]) ELSE cursor
Scroll == IF hasPending THEN [t \in Tabs |-> Clamped(offset[t], Len(pending[t]))]
          ELSE offset

TakePending ==
  IF hasPending
  THEN shown' = pending /\ pending' = Nothing /\ hasPending' = FALSE
  ELSE UNCHANGED tabsVars

\* adjustOffset, after the cursor has moved to c in a tab of n lines.
Follow(first, c, n) ==
  IF n <= Visible THEN 0
  ELSE IF c >= first + Visible THEN c - Visible + 1
  ELSE IF c < first THEN c ELSE first

\* update: the pending entries are taken first, then the keys of the frame are looked at.
NoKey ==
  /\ cursor' = Cursor /\ offset' = Scroll
  /\ UNCHANGED <<tab, browsing, joining, misjoined>>

OtherTab ==
  /\ tab' = IF tab = "host" THEN "play" ELSE "host"
  /\ cursor' = 0 /\ offset' = [t \in Tabs |-> 0]
  /\ UNCHANGED <<browsing, joining, misjoined>>

EnterOrLeaveTab ==
  /\ ~joining /\ browsing' = ~browsing
  /\ cursor' = Cursor /\ offset' = Scroll
  /\ UNCHANGED <<tab, joining, misjoined>>

Join ==
  /\ browsing /\ ~joining /\ Tab(tab) /= <<>>
  /\ joining' = TRUE
  /\ misjoined' = (misjoined \/ (Selected \in Elements(Tab(tab)) \ {Tab(tab)[Cursor + 1]}))
  /\ cursor' = Cursor /\ offset' = Scroll
  /\ UNCHANGED <<tab, browsing>>

MoveCursor ==
  LET n == Len(Tab(tab)) IN
  /\ browsing /\ ~joining /\ n > 0
  /\ cursor' \in {(Cursor + 1) % n, (Cursor + n - 1) % n}
  /\ offset' = [Scroll EXCEPT ![tab] = Follow(@, cursor', n)]
  /\ UNCHANGED <<tab, browsing, joining, misjoined>>

Update ==
  /\ life = "open"
  /\ TakePending
  /\ NoKey \/ OtherTab \/ EnterOrLeaveTab \/ Join \/ MoveCursor
  /\ UNCHANGED <<running, worker, life>>

\* The attempt to join has failed; if it succeeds, frames come back after the match.
JoinEnds ==
  /\ joining /\ joining' = FALSE
  /\ UNCHANGED <<tabsVars, tab, cursor, offset, browsing, running, worker, life,
                 misjoined>>

\* The player closes the list, or leaves the lobby with it open.
Close ==
  /\ life = "open"
  /\ requestStop
  /\ life' \in {"retired", "joining"}
  /\ UNCHANGED <<tabsVars, uiVars, misjoined>>

\* A later frame erases the list if isStopped; the lobby screen is destroyed with it
\* otherwise, and waits for the worker.
EraseList ==
  /\ life \in {"retired", "joining"} /\ worker = "stopped"
  /\ life' = "erased"
  /\ UNCHANGED <<tabsVars, uiVars, running, worker, misjoined>>

LeaveLobby ==
  /\ life = "retired" /\ life' = "joining"
  /\ UNCHANGED <<tabsVars, uiVars, running, worker, misjoined>>

Worker == Refresh \/ Receive \/ Wait \/ TimeOut
HostListNext == Worker \/ Update \/ JoinEnds \/ Close \/ LeaveLobby \/ EraseList

\* The worker keeps running; frames keep coming, and the lobby screen waits for the worker.
HostListSpec ==
  /\ HostListInit /\ [][HostListNext]_hostListVars
  /\ WF_hostListVars(Worker) /\ WF_hostListVars(EraseList)

(***************************************************************************)
(* Properties.                                                             *)
(***************************************************************************)
\* The type invariant; the cursor never points past the tab on the screen, whose line
\* is dereferenced on a join.
HostListTypeOK ==
  /\ {shown, pending} \subseteq [Tabs -> Listings]
  /\ {hasPending, browsing, joining, running, misjoined} \subseteq BOOLEAN
  /\ tab \in Tabs /\ offset \in [Tabs -> Nat]
  /\ cursor \in 0..Len(shown[tab]) /\ (cursor = 0 \/ cursor < Len(shown[tab]))
  /\ worker \in {"refresh", "request", "wait", "asleep", "stopped"}
  /\ life \in {"open", "retired", "joining", "erased"}

\* The game the player joins is the one he saw under the cursor, even if the tabs were
\* replaced in the frame of the key, as long as that game is still listed.
JoinsWhatWasSeen == ~misjoined

\* A closed list is erased: its worker stops, even if it missed the notification.
ClosedListIsErased == (life \in {"retired", "joining"}) ~> (life = "erased")
=============================================================================
