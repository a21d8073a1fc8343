# SokuLobbies in TLA+

SokuLobbies gives Touhou Hisoutensoku online lobbies: a *lobby server* where
players walk about, chat and sit down at arcade machines to play, a *main
server* that lists the lobbies, and a *client* (a mod of the game). This
directory holds TLA+ modules of the parts of it where threads, connections and
requests meet, the TLC configurations that check them on small instances, and
theorems about them that TLAPS checks for every instance.

Paths below are relative to the repository (`src/Server/Server.cpp` and so on).

## The system

| component | state | operations | hard parts |
|---|---|---|---|
| Lobby server, membership: `src/Server/Server.cpp`, `Connection.cpp` | list of connections, `_init`, `_infos.currentPlayers`, what each client has been told | accept, Hello, leave, disconnect, `/kick`, reaping, close | one thread per connection and a main thread; tests outside the mutex; a kick in another thread than the connection's own; a goodbye that keeps the socket |
| Lobby server, arcade machines: same files | `_machines` (seats in order), `_battleStatus`, `_machineId` | request, `/join`, start of a game, leave, eviction, boot of everybody, reaping | two records of the same fact, one under a mutex and one not, and a status the client writes as it likes |
| Lobby server, locks: same files | `_connectionsMutex`, `_machinesMutex`, joins of threads | every handler, the main thread | two orders of the same two mutexes, joins under a mutex, a catch clause that locks again |
| Lobby server: names, bans, chat, settings, commands | names, ban list | `_sanitizeName`, `/ban`, `/banip`, broadcasts | names tested under the lock and stored after it; a ban list searched before and extended beside the list of members |
| Registry: `src/MainServer/main.cpp`, `Server::_registerToMainServer` | `entries`, `Entry::last`; the socket of the registration thread | register, keep alive, time out, connect again, list | restarts, lost links, a result nobody looks at |
| Packets, sockets, encodings: `src/Common` | none | layouts, wrappers, conversions | |
| Client, connection: `src/SokuMod/Connection.cpp` | `_connected`, `_init`, `_me`, players, three mutexes | Hello and its repetitions, Leave, Kicked, end of the stream; net thread, position thread | a thread that is started by a packet and joined by a key; a snapshot sent later than it was taken |
| Client, lobby screen: `src/SokuMod/InLobbyMenu.cpp` | current machine, arcade join state, panels, chat text, keys | join, leave, connect, host, boot; keys and window messages | answers that come after the request they answer was given up; one key that reaches the program twice |
| Client, lobby list: `src/SokuMod/LobbyMenu.cpp` | entries, queue of callbacks | connect loop, master loop, net threads, interface | callbacks dropped after the eleventh; entries erased under another thread's index |
| Client, host list: `src/SokuMod/SmallHostlist.cpp` | hosts and games shown and pending, cursor | worker, update, join, stop | a wake-up that is missed; tabs replaced under the cursor |
| Client, block list: `Blocklist.cpp` (and `IniConfig.cpp`) | blocked players, addresses, files | load, save, migrate, add, remove | a crash between remove and rename |
| Client, statistics and achievements: `LobbyData.cpp`, `countGame` in `main.cpp` | counters, awards, two files and a backup | count a match, save, load, recover, award | a crash or a failure between any two steps |
| Client, hooks of the game: `main.cpp` | flags that last across scenes | battle scenes, keyboard, rollback netcode | scenes left by several ways, frames played twice |
| Client: options, input box, textures | settings | keys, rendering | |

How they interact. A client talks to its lobby server over TCP, in packets. The
lobby server decodes them in the net thread of the connection, calls the handler
`_prepareConnectionHandlers` installed, and the handler broadcasts to the other
connections. `Server::run` is the main thread: it accepts, reaps connections that
have closed and runs console commands. A lobby server tells the main server its
port every ten seconds over a connection of its own; clients ask the main server
for the list and then connect to each lobby of it. Players who sit down together
are told who hosts, and play peer to peer.

`PROJECT.json` lists every component with its status and, under `hazards`, every
place where this code is hard to test, with the properties that watch it.

## The modules

| module | models | lines of the code it follows |
|---|---|---|
| `LobbyServer` | membership and arcade machines of the lobby server | `Server.cpp` 155-543, 629-785, 917-940, 1184-1202; `Connection.cpp` 34-126, 260-331, 333-472, 538-548 |
| `SeatOrder` | abstract: what the machines promise | none, it is what `LobbyServer` implements |
| `ArcadeProtocol` | the clients at the arcade machines, composed with `LobbyServer` over the byte streams | `SokuMod/InLobbyMenu.cpp` 790-996, 1050-1072, 1238-1286, 1349-1373; `SokuMod/Connection.cpp` 375-491, 699-752; what the server sends: `Server.cpp` 430-543, 629-785 |
| `ServerLocks` | who waits for whom | the same handlers, as sequences of critical sections |
| `LobbyRegistry` | main server and registration threads | `MainServer/main.cpp`, `Server.cpp` 565-627 |
| `Admission` | names and bans, the parts of Hello that `LobbyServer` leaves out | `Server.cpp` 330-347, 475-497, 1097-1182; `Connection.cpp` 365-402 |
| `LobbySession` | the life of one connection to a lobby, from both ends | `SokuMod/Connection.cpp` 72-165, 238-340, 541-599, 699-712; `InLobbyMenu.cpp` 596-686, 891-971, 1007-1091; the server's `Connection.cpp` 333-446 |
| `LobbyList` | the threads of the lobby list and the queue to the interface | `LobbyMenu.cpp` 276-289, 840-1032 |
| `HostList` | the host list inside a lobby | `SmallHostlist.cpp` 328-592, 724-831; `InLobbyMenu.cpp` 944-949, 1000-1044 |
| `HotkeyRouting` | whom an Escape, and a B, belongs to | `InLobbyMenu.cpp` 2641-2729, 2916-2995, 4346-4378, 4746-4845; `main.cpp` 128-135, 955-1037, 1265-1307 |
| `ChatInput` | typing in the chat | `InLobbyMenu.cpp` 2588-2632, 2722-2911, 3279-3321, 4993-5012 |
| `BlockList` | the blocked players and their file | `Blocklist.cpp` 37-288; `InLobbyMenu.cpp` 694-719 |
| `Records` | statistics, achievements and their files | `LobbyData.cpp` 21-121, 393-486, 881-888, 1271-1384; `main.cpp` 471-726 |
| `MatchCount` | when a match is counted, and with what | `main.cpp` 331-341, 408-583, 922-1022, 1360-1370 |
| `MCLobbyServer`, `MCMembership`, `MCArcade`, `MCArcadeProtocol`, `MCLobbyRegistry`, `MCThreads`, `MCParts`, `MCRecords` | instances for TLC | |
| `LobbyServer_proofs`, `LobbyRoster_proofs`, `LobbyOrder_proofs`, `LobbyRegistry_proofs`, `ArcadeProtocol_proofs`, `Threads_proofs`, `Parts_proofs`, `HotkeyRouting_proofs` | theorems | |

An instance that answers two questions has a variable that the first state chooses and
no step changes: `absent` in `MCMembership` and `MCArcade` (the connections nobody has),
`inUse` in `MCArcade`, `part` in `MCThreads` and `MCParts`. The modules put side by side
by `part` share no variable; while one moves the others stay as they start, so a run is
the sum of its parts and not their product, and each property speaks of one part's
variables only.

### LobbyServer

An action is one critical section, or one run of unprotected code between two of
them. A handler that takes a mutex, lets it go and goes on is a chain of actions,
and `pc` says where its thread is: a Hello is `Hello` (capacity test, no lock),
`JoinSection` (under `_connectionsMutex`), `Admit` (`_init = true`); a departure is
`PlayerLeave` or `Drop`, `Farewell`, `Settle` (reads the status, no lock), `Unseat`
(under `_machinesMutex`); a console kick does the same in the main thread
(`Kick` ... `KickUnseat`), while the connection's own thread may be anywhere; the
reaping is `SweepBegin`, one `Visit` per connection, `Doom` and `Destroy`.

State and code: `link` is `_connected` and the list, `init` is `_init`, `status`
`_battleStatus`, `machineId` `_machineId`, `machines` `_machines`, `count`
`currentPlayers` (an `uint8_t`, modulo 256). `known[c]` is what the broadcasts have
told client `c`. `rogue`, `overlapped` and `rushed` are history: they name the
connections about which a property makes no promise, and why.

- `rogue`: a client that asked for a machine while it had a seat but had reported
  itself idle, that said Hello again from a seat, that was kicked, or that closed too
  late for the pass of the reaping that is going on. For these the server really
  loses track of a seat; `membership` reaches them.
- `overlapped`: joins and leaves whose windows met.
- `rushed`: two clients have been between the capacity test and the count.

Undefined behaviour is a choice: an empty `_machineId` that is dereferenced yields
any machine (`SeatSource`), reading a seat of a destroyed connection or
`machine[1]` of a machine with one seat may end the process (`Crash`). If it does
not, the two preferences compared in `_startRoom` are arbitrary.

Abstracted: names, rooms, addresses, chat and all other payloads; which of two
players hosts (`ArcadeProtocol` has it); the ban list, which is `Admission`'s (a banned
Hello has the effect of `Drop`); the id of a
client is identified with its connection. A `/join` looks its player up in the same
step as it reads the machine, so that a connection reaped in between is not modelled.
Kicks by a player on the server's own machine are in `ServerLocks` only.

### SeatOrder

At the arcade machines a player has at most one place, the last when it comes, keeps
its order among the others until it goes, and the players of a machine go one at a
time or all at once. `LobbyServer` implements it under the mapping `Order`: `at[c]` is
the machine in whose seats `c` occurs, `before` the order in them, and rogue
connections do not show. `FirstComeFirstServed` is `Order!Spec`.

### ArcadeProtocol

The server is `LobbyServer` itself: `Server` is an instance of it whose seats, machine
ids, statuses and program counters are this module's, while everything about
membership is fixed (everybody is in the lobby and stays). `TakeReport`, `TakeRequest`,
`JoinArcade` and so on are `LobbyServer`'s actions with the packet that triggers them
taken from `up[c]` and the packets they send put on the ends of `down`. What
`LobbyServer` leaves out of a section because only clients see it is added here: who is
asked to host (`Host`), whom a game in progress is offered to, who is told of a boot. A
broadcast is sent after the section, under the other mutex: `tell` holds it until
`Broadcast`.

A client is three threads. The game thread and the net thread hold `meMutex` for a
frame or a packet, so each key and each packet is one action (`Sit`, `Leave`,
`ConnectFailed`, `FoundOpponent`; `OnArcadeEngage`, `OnArcadeLeave`, `OnHostRequest`,
`OnConnectRequest`). `_()`, run when a game is over, sends without the mutex: `Back`,
`BackLeave`, `BackIdle`. The position thread copies the status under the mutex and
sends it after: `Snapshot`, `SendSnapshot`. `current` is `_currentMachine`, `me`
`_me->battleStatus`, `choice` `_parent->choice`, `counter` and `view` the client's
`playerCount` of each machine and `machineId` of each player. That the game finds its
opponent (`Play`) or does not is the environment's.

The history variable `excused` names the players something has overtaken: a boot that
arrives after a newer request, a request to host or connect that finds the player
gone, an old status sent by the position thread, a `/join` the client knows nothing of,
a bad address, a clash of preferences. Each of these leaves the two sides in
disagreement in the real code; the properties say that nothing else does. `deserted`
names the machines where one of the first two left before their game and a third moved
up.

### ServerLocks

Every handler as the sequence of sections it goes through (`"C"` under
`_connectionsMutex`, `"M"` under `_machinesMutex`, `"B"` under `_machinesMutex` with
broadcasts inside, `"K"` the end of a connection), and the main thread's own: accept,
reap, catch clause, end. `WaitsFor` is the graph of who waits for whom.

### LobbyRegistry

A link is a TCP connection, and `wire` what has become of it; a lost link is one that
nobody has been told about. `Register` is one round of the registration thread,
`Update` one pass over the main server's entries. `Tick` ends a window of ten seconds.

### Admission

What `LobbyServer` takes as the single step `Hello`, from the search of the ban list to the
name, in its own steps: `Hello` searches `_banList` and stores the name asked for, each
`Pass` is one turn of `_sanitizeName`'s loop under `_connectionsMutex`, `Store` is the
caller's assignment, `Admit` sets `_init`. The operator bans, collects the members with the
address under the mutex, and kicks them one by one. A name is a sequence of numbers, so that
"the first candidate of one name is the second of another" can happen. `raced` names the
pairs that chose at the same time, `slipped` those whose search was behind them when the
members were collected, or whose address was banned because of somebody else at it (`/ban`
kicks the one it names only): these really get the same name, or stay.

### LobbySession

`conn` is the client's `Connection` (`_connected`, `_init`, and whether `_me` is set), `menu`
where the game thread is between the list, the screen and the steps of
`Connection::disconnect` and `~InLobbyMenu`, `tries` the thread that repeats Hello,
`posThread` the position thread with the place where it is, `srv` the server's connection,
and `toServer`, `toClient` the two streams. A `std::thread` assigned over one that was not
joined is `died = "terminate"`, a null `_me` that is read `died = "null"`. `late` (an Olleh
after its screen had gone), `crossed` (what was sent behind a Leave), `left` and `accused`
are history. Pings change nothing of the session and are left out.

### LobbyList

`entries` are `_connections`, numbered in their order, `entry` what each entry made so far
has, `queue` is `_workerQueue`; new lobbies come in any order. `MasterReads` is one answer
of the main server; the connect thread is `ConnectNext`, `ConnectAnnounces`, `ConnectOpens`,
`ConnectRefreshes`, holding one entry at a time and no mutex between; `Frame` is
`execUiCallbacks`, which runs a batch and drops the rest. A link is "up" from its creation,
as `isConnected` says, "failing" once the socket has ended and not yet been reported. The
game thread that destroys the last reference to a connection under `_queueMutex` waits for a
net thread that waits for `_queueMutex`: `hung`. The master thread's pass over the list is
one step; its texts are queued with it.

### HostList

The worker is `Refresh`, `Receive`, `Wait`, `TimeOut`; between "wait" and "asleep" is the
window in which `requestStop`'s notification is lost. A frame (`Update`) takes the pending
tabs and then handles one key, so the key acts on tabs the player has not seen: `misjoined`
notes a join that went to another game than the one under the cursor, still listed. A
closed list is "retired", erased by a later frame or waited for by `~InLobbyMenu`.

### HotkeyRouting

The keyboard is `esc` and `bkey`; a press of Escape reaches the game when it reads the
keyboard (`ReadKeys`) and the mod when its message is dispatched (`WindowMessage`), in
either order. `log[g]` is what `_classifyEscapeOwner` found when generation `g` was made;
`consumed` and `native` are the generations used up by the mod and given to the game.
`FrameCalls` is the order of the calls in each kind of scene, and `stage` the next one.
`AskEscape` is `filterNativeEscape(true)`: the game may ask as often as it likes in a frame.
`effects` is what each press has done; `early` and `interrupted` name the presses about
which nothing is promised: the game asked about them before their message, or the window
lost the focus under them. Both are limits of the code (a press without a message has no
generation; `onInputFocusLost` forgets that the key is down, so that its next repetition is
a new press).

### ChatInput

`pressed` is the character that waits in `_lastPressed`, `flags` the other keys of
`keysPressed`, taken by the next frame in the order of `AfterKeys`. A character is one unit
of the text or a surrogate pair, as `ChatAssumption` says: a key gives a whole code point
(`UTF16Decode`, `InLobbyMenu.cpp:420`), and what is composed or pasted is taken to be well-formed
UTF-16. `ideal` is the reference: a box of whole characters that takes each key at once.
`hurried` says that two keys came between two frames in a way the flags cannot order;
`cut` that a paste ended in half a character (`_pasteFromClipboard` does not look, `addString`
does).

### BlockList

Every change is a call that starts a save (`Changed`), and a save is `Writes`, `Closes`,
`Removes`, `Renames`; each may fail, and the program may end between any two (`Ends`).
`Start` is `initialize`: the first valid of the binary file and two earlier forms, saved in
the new form, then the earlier ones removed. `contains` and `addIp` are the two calls of
`onMsg` about a blocked player's address. `exposed` names the windows in which the list is
really lost: between `remove` and `rename`, after a rename that failed, and when the last
bytes of the file did not fit.

### Records

`saving` is the step of `saveStats` and `saveAchievements` that comes next; `statsDat`,
`backupDat` and `achDat` are the files. `Plays` is `countGame` up to the saving, `Awards` the
rest of it, `Starts` the constructor's loading with the recovery from the backup
(`Recovers`) and `_grantStatsAchievements` (`GrantsAll`). Two counters stand for all; a
file is read as it was written or found broken. `countGame` awards one achievement of each
type (`std::find_if`), the start all that are owed.

### MatchCount

`init` and `counted` are the flags of `main.cpp`, `cardsUsed` the frames noted by
`onCardUsed`. `Process` is one frame of `CBattleManager_OnProcess`, `RollsBack` what rollback
netcode does: `currentFrame` goes back, `rollbackEvents` drops the later cards, the frames
are played again with possibly other cards. `Leaves` resets the flags in the scenes whose
hook does. `truth` is the match as it stands, `records` what `countGame` added; `stale`
says that a match was watched before (its hook resets nothing), `undone` that the end of
the match was rolled back.

## What the runs check

| run | instance | shows |
|---|---|---|
| `membership` | 3 connections for 2 places with Hello and PlayerLeave; or 2 connections, 1 machine, 1 kick, any status reported at any time | `RosterExact`, `CountDrift`, `CapacityUnlessRushed`: clients know exactly who is there, the count is right, the limit holds, outside the windows that the history variables name; `SeatsMatch`, `NoDanglingSeat`: seats and machine ids part only for rogue connections, no seat outlives its connection |
| `arcade` | 3 players of two versions at 1 machine; or 2 players, 2 machines, every packet but Report | `SameVersionSeats`, and `FirstComeFirstServed`: the seats implement `SeatOrder`, while players wait, play, are evicted, move by request and by `/join`, leave the lobby and come back |
| `protocol` | 3 players, two of them "client only", 1 machine, 3 requests | `Agreement`: once nothing is under way client and server agree on the machine; `RogueIsExcused`: the server loses a seat only when something was overtaken; `NobodyWaitsInVain` |
| `reports` | 2 players, `/join`, the position thread of one, bad address and host list of the other | `RequestsMakeSense`: a request never finds a status and a machine id that contradict each other; liveness: `StatusConverges` |
| `registry` | 2 lobbies, 4 links, 2 faults, timeout of 3 windows | `NoFalseTimeout`, and liveness: `ListRightInTheEnd`, an open lobby gets on the list and a closed one off it |
| `parts`, mutexes | 2 net threads and the main thread | `DeadlockNeedsMain`, `JoinWaitsForTheKicked` |
| `parts`, keys | 4 inputs, 1 message waiting | `PressActsAsMeant`: one press does one thing, and what it was made for; `EscapeReachesTheGame`: a press the game was meant to get is not refused |
| `parts`, chat | texts of 4 units, a character of 1 and one of 2, 2 keys a frame | `TextAsTyped`: what is shown and sent is what a box that takes each key at once would have, no character is ever split |
| `parts`, block list | 2 players, 1 address, 2 calls | `ListSurvives`: the next start finds the list saved last or the one being saved; `UnblockedStays`: an answer about a player does not bring him back |
| `parts`, statistics | 2 matches, 2 damaged files, 4 achievements | `ProgressSurvives`: the statistics last saved, or their predecessors, are found; nothing deserved stays unawarded, nothing saved is lost |
| `parts`, matches | 3 matches of 4 frames, 2 rollbacks each | `GamesAsPlayed`: a match is counted once, at its end, with its own cards and deck |
| `threads`, host list | 3 games, 5 answers, 2 lines visible | `JoinsWhatWasSeen`; liveness: `ClosedListIsErased` |
| `threads`, session | 2 tries, 2 visits, 2 packets in flight | `DiesOnlyLeaving`, `ScreenMatchesSession`, `HandshakeKept`; liveness: `JoiningEnds`, without anything asked of the server |
| `threads`, lobby list | 2 lobbies, 3 entries, queue of 3, batch of 2, 2 mishaps | `HangNeedsADrop`; liveness: `NamesAppear`, though callbacks are dropped, and `Reconnects` |
| `threads`, admission | 2 connections, 1 address, 2 names | `NamesDiffer`, `BannedAreOut` |
| `overfull` | 2 connections, room for 1 | violated: two clients pass the unlocked capacity test (`Server.cpp:331`) and the lobby is over its limit |
| `hostlist` | 1 player with the host list | violated: alone at a machine it has been at before, the player does not host (`InLobbyMenu.cpp:845`, against `SokuLobbies.ini:22`) |
| `boots` | 3 players | violated: "we boot everyone out" (`Server.cpp:767`) leaves out who came while the game was on |
| `jointimeout` | 2 tries, 1 visit | violated: a player who got in during the last interval is told that joining timed out (`InLobbyMenu.cpp:903`, against `SokuLobbies.ini:54`) |
| `usecards` | 1 match | violated: a card used as often as its achievement says earns nothing (`main.cpp:705`, against `assets/achievements.json:5068`) |

`parts` and `threads` are one run each, of `parts.cfg` and `threads.cfg`. The type
invariants of the modules in them are `PartsTypeOK` and `ThreadsTypeOK` (and `TypeOK` of
`ServerLocks`); some hold more than types: that `addresses` are those of
the blocked players, that the host list's cursor is in its tab. Each property has a mutant
in `PROJECT.json`: a change of a modelled definition, of the kind one makes by mistake, that
makes TLC find the property violated. The bodies of the mutants stand before the definitions
they replace, marked `Mutant`.

### Bounds, and why they are enough

- Two connections are enough for every race of two handlers and for a reaped object
  that is used again; the third is what it takes to have a queue behind a game
  (`arcade`: a game needs two seats, an eviction or a boot shows on the third) and a
  bystander who is told of two others (`membership`).
- Two machines are enough to leave one for another; a third would be like the second.
- `MaxSeats` bounds how long a queue a client joins: as many as there are players.
  Only rogue connections could make it longer.
- `MaxKicks` bounds console kicks: one is enough to race every step of a departure, and
  the other connection is the bystander. Each further kick adds one to what the count
  may be off by.
- In the second instance of `membership` nobody reports itself a spectator: the server tests
  a status for idle and for playing only, and one who waits stands for both others.
- `Packet` restricts what the clients of an instance send: a property about rosters
  does not need GameStart. Together the runs send everything.
- `arcade` and `boots` start with the players in the lobby (`InTheLobbyWithout`), a
  state the server reaches when they join one after the other.
- `MaxSits` bounds how often the players of `ArcadeProtocol` ask for a machine, all
  together. Three let three players form a queue, or one of two come back after a boot
  while the other's packets are still on their way. Channels need no bound of their own:
  every packet goes back to a request, and a snapshot is taken when the stream to the
  server is empty (the position thread runs once a second). `Watched`, `Reporting` and
  `Joining` say which parts of a client an instance looks at: counters of the other
  players matter to `hostlist` only; an instance that does not watch leaves what a
  counter says open.
- One machine is enough in `protocol`: the client never asks for a second one without
  having left the first. Moving is checked by `arcade`.
- Four links are enough in `registry`: one per lobby, and one more for each of two
  faults. `MaxFaults` bounds lost links and ends of the main server. The timeout is
  the code's: 30 seconds are three windows of ten.
- `MaxInputs` = 4 in `HotkeyRouting`: what the player does and changes of scene, all
  together. It takes one to open a panel, one to press, one to press again or change the
  scene, and one more. `MaxMessages` = 1: a second message behind the first adds nothing,
  since any step may come before either is dispatched.
- `Limit` = 4 units and `MaxKeys` = 2 in `ChatInput`: two characters of two units, or one
  with neighbours on both sides and a text that is full; two flags are what it takes to be
  in the wrong order.
- Two blocked players can share one address (`BlockList`); `MaxCalls` = 2 is a block and an
  unblock, in either order, each with its save and any number of crashes and starts between.
- `MaxGames` = 2 and `MaxDamages` = 2 in `Records`: a saving that replaces another, and both
  the file and its backup damaged. Two achievements for games can be owed at once when the
  file that told of the first is lost; one match owes one.
- `MaxFrames` = 4 and `MaxRollbacks` = 2 in `MatchCount`: a card before and after the frame
  gone back to, a rollback into an earlier one, the end and a frame after it. Three matches
  are one watched between two played.
- `Visible` = 2 and answers of up to three games in `HostList`: a tab that scrolls; the
  answers shrink, grow, reorder and empty the tab.
- `JoinTries` = 2, `MaxVisits` = 2 in `LobbySession`: a repeated Hello, and a lobby entered
  again on the same connection. `MaxFlight` = 2 holds back the senders that would repeat
  themselves for ever (positions, the others' packets); a Hello or a Leave is never held
  back. The session takes an unbounded number of positions and of packets about the others.
- `LobbyList`: two lobbies of which one is unsteady, a third entry for one that was erased
  and listed again, a queue of three with a batch of two, so that a callback is dropped, a
  retry every second sweep instead of every two-hundredth. A thread that would overfill the
  queue waits for the next frame; the code's queue has no limit.
- Two connections and one address are enough in `Admission`: races are between two, and
  bans concern those who share the address.
- `SYMMETRY` is used in the runs of invariants and action properties only; runs that check
  liveness use none.

`CHECK_DEADLOCK FALSE` is said in `membership` and `parts`, where the server really stops
when the reaping joins a thread that waits for the mutex the reaping holds (`parts` says
between whom this can happen) and the bounded inputs of the client's modules run out; in the
runs of `ArcadeProtocol`, where the players have nothing left to do once they have asked for
a machine `MaxSits` times; in `threads` and `jointimeout`, where a session ends for good, the
program may die and the list may hang; and in `usecards`.

### Fairness

`ArcadeProtocol!FairSpec`, for `StatusConverges`, assumes weak fairness of what runs by
itself: the client's net thread, its position thread (a loop with a sleep), a `_()` that
has begun, and the server's net threads, none of which waits for a player. Nobody has to
press a key and no game has to be found or to end.

`LobbyServer` and `ServerLocks` assume none. Their properties are safety properties,
and the code justifies little: a `std::mutex` promises no fairness and there are real
deadlocks. `LobbyRegistry` assumes weak fairness of the two loops (`Register`,
`Update`: threads that sleep and come back), of the accept thread, of `Notice` (TCP
gives up on a peer that answers nothing) and of time. Nobody has to open or close a
lobby, to restart the main server or to break anything. `Prompt` says that each loop
runs at least once in ten seconds, hence that no send blocks for long; where the main
server blocks on a slow client under its mutex (hazard at `MainServer/main.cpp:74`),
the assumption does not hold and neither does `NoFalseTimeout`.

The fairness of the client's modules is that of its threads, each a loop that sleeps and
comes back: `HostListSpec` of the worker (its request ends by an answer, an error or its
own time-out) and of the frame or destructor that erases the list; `SessionSpec` of the
tries, the position thread, the net thread and the game thread that has begun to leave,
while the player need not do anything and the server need never answer; `ListSpec` of the
master, connect and net threads, of frames while there is something queued, and of the
network, which answers pings of a connection that holds. `MCThreads!ThreadsSpec` says the
same for each part. `HotkeyRouting`, `ChatInput`, `BlockList`, `Records`, `MatchCount` and
`Admission` assume none.

## What is proved

Each theorem below is `Spec => []P` (or `Spec => P` for an action property) for every value
of the constants: any connections, machines, lobbies, names, presses, and whatever the
bounds. The assumptions are those the modules name (`ConstantsAssumption` and its like),
which TLC evaluates for the instances. Each is proved by an inductive invariant `I`, whose
parts are named in the proof module: the first state satisfies it (`...Init`), every step
keeps it (`...Next` or `...Kept`, one step or lemma per action), it implies the property.
Where TLC could check it in reasonable time, the invariant was model-checked before it was
proved.

| module | theorems about |
|---|---|
| `LobbyServer_proofs` | types and seats of the lobby server |
| `LobbyRoster_proofs` | its rosters, count, capacity and versions |
| `LobbyOrder_proofs` | that it implements `SeatOrder` |
| `LobbyRegistry_proofs` | the main server's registry |
| `ArcadeProtocol_proofs` | the arcade machines, clients and server together |
| `Threads_proofs` | names and bans, the host list, the session, the lobby list |
| `Parts_proofs` | the threads and mutexes of the lobby server, the block list, statistics and achievements, the counting of matches, the text of the chat; all of `MCParts` together |
| `HotkeyRouting_proofs` | Escape and B |

Seats (`TypeCorrect`, `SeatsMatchAlways`, `NoDanglingSeatAlways`). `SeatsMatch` is not
inductive: that the seat of a closed connection is gone when it is destroyed depends on
where the reaping stands. `SeatInv` adds that

- each connection fits everywhere: it has at most the one seat its `_machineId` names
  (`SeatsFit`; this is what an erase or an append keeps, `EraseFits`, `SeatsAfterFits`,
  `SeatsWithFits`);
- a net thread inside a handler has an open connection (`BusyOpen`), since only its own
  thread or a kick closes it;
- what the reaping has visited and what it destroys has no seat (`SweptUnseated`), nor has
  what is destroyed (`FreeUnseated`);
- the connection being kicked is rogue (`KickeeRogue`).

Versions (`SameVersionSeatsAlways`). `VersionInv` says of all pairs of a machine what the
code tests against its first seat only; a player who says Hello again from a seat is rogue.

Rosters (`RosterExactAlways`). `RosterInv` adds to `Sessions` (which thread has which
connection) that a connection which met nobody's joining or leaving, and was not kicked, is
led by its own thread from `Admit` to `Close` (`Settled`), and that who is there knows
exactly the others who are (`Knows`).

Count and capacity (`CountDriftAlways`, `CapacityUnlessRushedAlways`). A departure is
counted in the middle of a chain of sections, and a kick may run through the same chain
beside it. `CountInv` therefore says by how much the count may be off at each pair of places
of the net thread and the console (`Owes`, `Undead`, `Uncounted`, `Spare`, `Slack`), and that
what is left when nothing is under way is at most the number of kicks. `CapInv` has that
whoever is between the test and the count is alone there with a place left; `Exact`, that
without kicks the count is the number of players.

Refinement (`SeatsAreFirstComeFirstServed`). `LobbyServer` implements `SeatOrder` under the
mapping `Order`. What a step makes of a machine's seats is an erase, an append, an eviction
or nothing; `Orderly` says that the order among those who stay stays (`Kept`), and `Shows`
that each step of the server is a step of the abstract queue or leaves it alone. It uses
`SeatInv`, for who has at most one place.

Threads (`DeadlockNeedsMainAlways`, `JoinWaitsForTheKickedAlways`). A set of threads each of
which waits for another of the set has the main thread in it, waiting with
`_connectionsMutex` in its hands: a net thread that holds `_connectionsMutex` waits for
nothing, one that holds `_machinesMutex` waits for `_connectionsMutex` at most, so a circle
without the main thread would need two holders of one mutex. `LocksInv` has the mutual
exclusion and the places a net thread can be at. `LonelyInv` adds that, as long as nobody
was kicked, a connection that has closed was closed by the last section of its own thread.

Arcade machines, both sides (`TypeCorrect`, `AgreementAlways`, `RequestsMakeSenseAlways`,
`RogueIsExcusedAlways`, `NobodyWaitsInVainAlways`, of `ArcadeProtocol_proofs`).
`Agreement` speaks of moments at which nothing is under way; the invariant has to say what
holds meanwhile, with any number of packets in both streams. `InOrder(c)`, for a player who
was not overtaken, reads the stream to the server as a program whose later packets undo the
earlier ones (`Undone`): after each request comes a leave (`Freed`), after each packet that
makes the player busy an "idle" (`Idled`), after each "idle" a new request (`Kept`), each of
them counting what the server has already taken in as the first of the packets.

- `Orderly`: up to each request in the stream the player is freed and idle. So the server
  finds it idle and at no machine when the request comes up, which is `RequestsMakeSense`; a
  seat that is lost track of is one more of that kind (`RogueIsExcused`). A `/join` on its way
  finds the player freed, or busy for good, at the least.
- `Told`: the whole stream leads to what the client thinks of itself.
- `Settled` and `Held`: if the last word on its way to the player is that it is at no machine,
  so it is; and the machine its client thinks it is at is the server's, unless a refusal or a
  boot is on its way to the client or the request for it to the server.
- `Fits`: the player has at most one seat, at the machine of its `_machineId`.

When both streams are empty, `Told` and `Held` are `Agreement`. Each packet sent or received
is one of a few kinds (`Sent`, `Received`, `AskingAppend`, `PostedTail` and so on), so that
the lemmas about the streams are proved once and not for each of the 24 actions; a step of one
player's thread changes another's story only by booting it (`BootedKeeps`).

`Paired` is the inductive form of `NobodyWaitsInVain`: of the first two players of a machine
one `Stirs`, that is, it has been asked to host or told to connect by a packet still under
way, or does not wait, or its answer is on its way to the server. A pair comes about only by
a join, which asks one of the two (`JoinPaired`), or by a desertion, which is `deserted`'s
(`SeatsAfterPair`); who stops stirring because its start has been handled makes the other one
stir (`SectionPaired`).

Registry (`RegistryTypeCorrect`, `NoFalseTimeoutAlways`). The main server reads at most one
message per entry and second, so what has to be shown is that a link that is up always has a
message waiting or has just had one: `Heard`, from `OneMessage`, `Working` and
`SocketsOwned`. `RegistryAssumption` asks for a lobby to exist and a timeout of one window
at least.

Admission (`NamesDifferAlways`, `BannedAreOutAlways`). A name is free when it is chosen and
may not be when it is stored: `ChosenIsFree` says that only a rival in `raced` can have
taken it. `BannedAreKnown` says who of a banned address is still in: one that slipped by, or
one the operator has still to collect or to kick.

Host list (`HostListTypeCorrect`, `JoinsWhatWasSeenAlways`). The types bound cursor and
scrolling by the tab, which every answer replaces, so they are inductive only together
with what a key does in the same frame.

Session (`SessionTypeCorrect`, `DiesOnlyLeavingAlways`, `HandshakeKeptAlways`,
`ScreenMatchesSessionAlways`). The invariant is about the two streams: the server has a
session exactly if the client holds it, its Olleh is under way or the Leave that ends it is,
and of the three it is one only (`EndsAgree`); a Hello follows a Leave only in `crossed`
(`NothingReopens`); a position reaches the server inside a session (`PositionsInSession`);
what is about the others comes after Olleh (`OllehFirst`); the session and the position
thread come and go together (`ThreadAndSession`). `FlightBounded` counts what the visits
allow to be sent.

Lobby list (`ListTypeCorrect`, `HangNeedsADropAlways`). A frame can hang only on an entry that
was erased; such an entry is of a lobby that was dropped (`ErasedAreDropped`), because what
is neither listed nor dropped there is not (`UnlistedAreDropped`) and an entry of a listed
lobby stays. `Callbacks` says what may be queued about which entries. `ThreadsTypesCorrect`
puts the four modules of `MCThreads` together, under the specification the run checks.

Block list (`BlockTypeCorrect`, `ListSurvivesAlways`, `UnblockedStaysAlways`). `BlockInv` says
at every step of a replacement, and not only while the program does not run, that one of the
files has the list a start would find (`AlwaysSurvives`), what the temporary file holds, and
that the earlier forms are only retired when the new one is there.

Statistics (`RecordsTypeCorrect`, `ProgressSurvivesAlways`). `RecordsInv` follows the two
files and the backup through a saving (`MainFile`, `BackupFollows`, `AchievementsFile`) and
says which achievements may be owed while a match is being counted (`AllAwarded`).

Matches (`MatchTypeCorrect`, `GamesAsPlayedAlways`). The frames of used cards ascend and are
behind the current one (`Ascending`), so that a rollback takes back exactly those it goes
back over; the end is behind the last of them (`EndIsLast`); `CountedWhenOver` is the
property in the middle of a match.

Keys (`KeysTypeCorrect`, `PressActsAsMeantAlways`, `EscapeReachesTheGameAlways`). `KeysInv`
says that presses are announced in order and logged once (`InOrder`, `LoggedOnce`), so that
all that is done about one is its owner's (`EffectsMeant`); that a press which has done
nothing is in one place only, an event on its way (`EventsUndone`) or a request of the host
list or the lobby (`Requests`); that an Escape of the game or the lobby is ahead of the keys
that open panels (`EscapeEvents`); that a generation is used up only with a reason
(`GameAnswered`), for which the scene of the frame matters (`SceneOfFrame`); and that B stays
blocked from when it met the picker until it is let go (`PickerHidesB`). TLC checked it with
five inputs and two messages waiting.

Chat (`ChatInvariant`, `TextAsTypedAlways`). `ChatInv` says two things. Until a paste has cut
a character the box is `Real(i)`, the units of some box `i` of whole characters: no key can
put the caret inside one or take half of it. And while the player has not hurried `Agrees(i)`:
taking what still waits in `_lastPressed` or the one flag turns `i` into `ideal`. For the
first, a key does to the units what it does to the characters (`DoesReal`), because the unit
beside the caret is a surrogate exactly when its neighbour is the other half (`WidthReal`);
an inserted text is whole if it is cut where `addString` cuts it (`FittingUnits`,
`InsertString`). What the units of a sequence of characters are is shown by induction over
its length (`FlattenIsJoined`, `FlattenConcat`), written with the least length at which it would fail
(`SmallestNumber`).

Parts together (`PartsTypesCorrect`). A behaviour of `PartsSpec` is one of `ServerLocks`,
`HotkeyRouting`, `ChatInput`, `BlockList`, `Records` and `MatchCount` each
(`PartsAreTheModules`), so what is proved of the six holds in what `parts` checks.

Every invariant and every action property that a passing run checks is proved. Only
model-checked is what must happen in the end (`StatusConverges`, `ClosedListIsErased`,
`JoiningEnds`, `NamesAppear`, `Reconnects`, `ListRightInTheEnd`): liveness under fairness is
out of the prover's reach.

## What the work has shown about the code

- The capacity test is an unlocked equality; once the count is past it nobody is
  refused any more (run `overfull`).
- The comment at `Server.cpp:767` promises more than the loop under it does (run
  `boots`).
- Three kinds of circle among the threads of the lobby server, all with the main
  thread in them (run `parts`): the reaping against a boot, the reaping's join against
  a thread of a kicked connection, the catch clause against itself.
- A player's own count of the people at a machine is never taken back when it leaves by
  itself, so that the host list's promise is broken the second time (run `hostlist`).
- The first of two players who leaves before their game leaves a queue in which nobody is
  asked to host: `NobodyWaitsInVain` fails without `deserted`.
- The disjuncts of `excused` are behaviours TLC found. Without the one about old snapshots
  and host requests that come too late, TLC finds a request for which `_leaveArcade` reads an
  empty `_machineId` (`Server.cpp:761`); without the one about unanswered requests, a
  client that shows its player standing while the server has it seated. The window of
  `_()` matters only after a boot (an ArcadeLeave from a player without a machine is
  dropped and resets nothing), which takes one request more than `reports` allows.
- When two players "host only", or two "client only", meet, `machine.pop_back()` takes
  out the one who was waiting; its client and its `_machineId` still say it is there.
- Where the seats really go out of step (`rogue`): each disjunct was added because TLC
  found the behaviour.
- Joining can succeed and be reported as timed out (run `jointimeout`), and a player who
  leaves between a repeated Hello and its answer ends the program or stays in the lobby as a
  ghost (`DiesOnlyLeaving`, `ScreenMatchesSession` without `crossed` and `late`).
- `_posLoop` can read `_me` after `disconnect` has cleared it: the two use different mutexes
  (`DiesOnlyLeaving` without its first excuse).
- The lobby list hangs for good when the main server drops a lobby whose connection is
  ending while its callback is in the queue (`HangNeedsADrop` names the condition); and a
  name drawn before a connection was lost unseen is not drawn again over "Connecting"
  (`overdrawn`).
- Achievements about cards take one use more than they say (run `usecards`).
- A watched match leaves `init` and `counted` up (`BattleWatchOnProcess`, `main.cpp:966`, has
  no reset): the next match played is not counted, or counted with the deck that was
  watched. `GamesAsPlayed` fails without `stale`.
- After a recovery that could not replace `stats.dat`, the next saving copies the broken file
  over the good backup (`LobbyData.cpp:52`): between that copy and the replacement nothing
  readable is left. `behind` in `StatsSurvive` excuses it.
- The save of the block list reads the state of the stream before the stream is closed: a
  full disk replaces the list with a broken file (`ListSurvives` without `exposed`).
- Read, not modelled: the achievement of winning with the default deck (`main.cpp:673-689`)
  is awarded outside the test of the score, hence after a defeat as well.

## What is not modelled

Could still be modelled: the table of players a client keeps while others come and go; the
client's mutexes where a message box is open under them; a lobby joined by its address;
`IniConfig`, a sequential edit of a text that `tests/IniConfigTests.cpp` tests well.

Not worth modelling: rendering, textures and menus that only show something; the drawing
hooks and the patches of the game's machine code; packet layouts, sockets and encodings
(thin wrappers and tables); the relaying of positions, settings, emotes and messages; the
parsing of JSON and of command lines; `BackgroundHost.cpp` (all of it is commented out);
the JSON library (third party). Of the 60 500 lines of implementation, 39 500 are that
library and the two tables of the character conversion, and most of the rest draws: the
part of the code the modules follow is small because the part with states, threads and
files that can go wrong is.
