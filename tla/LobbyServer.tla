----------------------------- MODULE LobbyServer -----------------------------
(***************************************************************************)
(* The lobby server: src/src/Server/Server.cpp and Connection.cpp.         *)
(*                                                                         *)
(* The server runs one main thread (Server::run: accept, reap, console     *)
(* commands) and one net thread per Connection, which decodes the client's *)
(* packets and calls the callbacks Server::_prepareConnectionHandlers      *)
(* installed.  Two mutexes protect the shared state:                       *)
(*   _connectionsMutex (C)  the list of connections, rosters, player count *)
(*   _machinesMutex    (M)  the seats of the arcade machines               *)
(* The module's grain is one critical section, or one run of unprotected   *)
(* code between two of them, per action; a handler that takes a mutex,     *)
(* lets it go and goes on is several actions, and the program counter pc   *)
(* of its thread says where it is.  The order in which mutexes are waited  *)
(* for, and the deadlocks that come of it, are ServerLocks's subject.      *)
(*                                                                         *)
(* A Connection object is named by its place in memory, a value of Conn.   *)
(* The id the clients see (the smallest one not in use) is identified with *)
(* it: both are unique among the live connections and both are used again  *)
(* once the connection is destroyed.                                       *)
(***************************************************************************)
EXTENDS Integers, Sequences, FiniteSets

CONSTANTS
  Conn,        \* the Connection objects
  Machine,     \* the arcade machine numbers, keys of _machines
  NoMachine,   \* an empty std::optional _machineId
  NoConn,      \* no connection
  Profile,     \* what a Hello says of a client: [version, soku2, force]
  NoSoku2,     \* the Soku2 version of a client without Soku2
  Packet,      \* the kinds of packets the clients of an instance send
  MaxPlayers,  \* _infos.maxPlayers
  MaxKicks,    \* bound: how many /kick commands the console issues
  MaxSeats     \* bound: nobody asks for a machine with that many seats taken

PacketKinds == {"Hello", "PlayerLeave", "Report", "GameRequest", "JoinCommand",
                "GameStart", "ArcadeLeave"}

ASSUME ConstantsAssumption ==
  /\ IsFiniteSet(Conn) /\ NoConn \notin Conn
  /\ Machine # {} /\ NoMachine \notin Machine
  /\ \A p \in Profile : p.force \in BOOLEAN
  /\ Profile # {}
  /\ Packet \subseteq PacketKinds
  /\ MaxPlayers \in 1..255
  /\ MaxKicks \in Nat
  /\ MaxSeats \in Nat

Pref == {"client only", "host only", "no preference"}
Status == {"idle", "waiting", "playing", "spectating"}

\* Where a net thread is: at the top of _netLoop, in onJoin before and after its
\* section, in a callback that is about to take _machinesMutex, or in onDisconnect.
Pc == {"ready", "joining", "admitted", "request", "command", "starting",
       "farewell", "settle", "unseat"}
\* Where the main thread is: between two steps of run, in the two halves of the
\* reaping of closed connections, or in a kick.
MainPc == {"loop", "sweep", "join", "kick", "farewell", "settle", "unseat"}

VARIABLES
  up,          \* the process runs
  link,        \* Conn: "free", "open" (_connected) or "closed" (waits to be reaped)
  init,        \* Conn: _init, the player is in the lobby
  profile,     \* Conn: _versionString and _soku2Infos
  status,      \* Conn: _battleStatus
  machineId,   \* Conn: _machineId
  known,       \* Conn: the players the server has told the client of
  pc,          \* Conn: where its net thread is
  want,        \* Conn: the machine a pending join is about
  stays,       \* Conn: its onDisconnect is a PlayerLeave, the socket stays open
  machines,    \* Machine: _machines, the seats in order
  count,       \* _infos.currentPlayers, an uint8_t
  mpc,         \* where the main thread is
  kickee,      \* the connection the console is kicking
  batch,       \* the connections the reaping has yet to visit, or is destroying
  kicks,       \* history: how many kicks so far
  rogue,       \* history: connections whose seats the server may lose track of
  overlapped,  \* history: connections whose join or leave met another one's
  rushed       \* history: two clients have been between onJoin's test and its section

memberVars == <<link, init, profile, known, count>>
arcadeVars == <<status, machineId, machines>>
threadVars == <<pc, want, stays>>
mainVars == <<mpc, kickee, batch, kicks>>
ghostVars == <<rogue, overlapped, rushed>>
vars == <<up, memberVars, arcadeVars, threadVars, mainVars, ghostVars>>

\* _versionString and _soku2Infos before a Hello: nobody reads them.
SomeProfile == CHOOSE p \in Profile : TRUE

Init ==
  /\ up = TRUE
  /\ link = [c \in Conn |-> "free"]
  /\ init = [c \in Conn |-> FALSE]
  /\ profile = [c \in Conn |-> SomeProfile]
  /\ status = [c \in Conn |-> "idle"]
  /\ machineId = [c \in Conn |-> NoMachine]
  /\ known = [c \in Conn |-> {}]
  /\ pc = [c \in Conn |-> "ready"]
  /\ want = [c \in Conn |-> NoMachine]
  /\ stays = [c \in Conn |-> FALSE]
  /\ machines = [m \in Machine |-> <<>>]
  /\ count = 0
  /\ mpc = "loop"
  /\ kickee = NoConn
  /\ batch = {}
  /\ kicks = 0
  /\ rogue = {}
  /\ overlapped = {}
  /\ rushed = FALSE

-----------------------------------------------------------------------------
(* Helpers.                                                                *)

Members(s) == {s[i] : i \in 1..Len(s)}

\* Whether c has a seat at some machine.
Seated(c) == \E m \in Machine : c \in Members(machines[m])

\* std::find and erase: the first occurrence of c goes.
Erase(s, c) ==
  IF c \notin Members(s) THEN s
  ELSE [i \in 1..(Len(s) - 1) |-> IF \E j \in 1..i : s[j] = c THEN s[i + 1] ELSE s[i]]

\* _connectionsMutex is free unless the main thread is reaping.
Unlocked == mpc \notin {"sweep", "join"}

\* c is between onDisconnect's farewell and _init = false.
Parting(c) == pc[c] \in {"settle", "unseat"} \/ (kickee = c /\ mpc \in {"settle", "unseat"})

\* The connections whose _init does not say yet on which side of the roster they are.
InTransit == {c \in Conn : pc[c] = "admitted" \/ Parting(c)}

\* History: the connections that meet others in transit when c joins or leaves.
Meeting(c) ==
  IF InTransit \subseteq {c} THEN overlapped ELSE overlapped \cup InTransit \cup {c}

\* The net thread of c starts on a packet.
Receives(c, p) == up /\ p \in Packet /\ link[c] = "open" /\ pc[c] = "ready"

-----------------------------------------------------------------------------
(* Membership.                                                             *)

\* run() accepts a socket: a Connection is made and its thread started.  The id
\* it gets is free, so nothing is left of an earlier connection but its seats.
Accept(c) ==
  /\ up /\ mpc = "loop" /\ link[c] = "free"
  /\ link' = [link EXCEPT ![c] = "open"]
  /\ init' = [init EXCEPT ![c] = FALSE]
  /\ known' = [known EXCEPT ![c] = {}]
  /\ status' = [status EXCEPT ![c] = "idle"]
  /\ machineId' = [machineId EXCEPT ![c] = NoMachine]
  /\ UNCHANGED <<up, profile, count, machines, threadVars, mainVars, ghostVars>>

\* The closing of c comes too late for the reaping that is going on to take its
\* seat away, and early enough to be destroyed by it.
Late(c) == mpc = "sweep" /\ c \notin batch

\* Mutant: the limit is off by one.
HelloOffByOne(c, p) ==
  /\ Receives(c, "Hello") /\ ~init[c] /\ count <= MaxPlayers
  /\ profile' = [profile EXCEPT ![c] = p]
  /\ pc' = [pc EXCEPT ![c] = "joining"]
  /\ rushed' = (rushed \/ \E d \in Conn : pc[d] = "joining")
  /\ UNCHANGED <<up, link, init, known, count, arcadeVars, want, stays, mainVars, rogue,
                 overlapped>>

\* A Hello is handled up to onJoin's first section: the profile is stored and the
\* player count is compared with the limit, without a lock.
Hello(c, p) ==
  /\ Receives(c, "Hello") /\ ~init[c]
  /\ profile' = [profile EXCEPT ![c] = p]
  /\ IF count = MaxPlayers
     THEN /\ link' = [link EXCEPT ![c] = "closed"]
          /\ rogue' = IF Late(c) \/ Seated(c) THEN rogue \cup {c} ELSE rogue
          /\ UNCHANGED <<pc, rushed>>
     ELSE /\ pc' = [pc EXCEPT ![c] = "joining"]
          /\ rogue' = IF Seated(c) THEN rogue \cup {c} ELSE rogue
          /\ rushed' = (rushed \/ \E d \in Conn : pc[d] = "joining")
          /\ UNCHANGED link
  /\ UNCHANGED <<up, init, known, count, arcadeVars, want, stays, mainVars, overlapped>>

\* Mutant: the newcomer is announced to the others but not told of them.
JoinSectionUntold(c) ==
  /\ up /\ pc[c] = "joining" /\ Unlocked
  /\ known' = [d \in Conn |-> IF d # c /\ init[d] THEN known[d] \cup {c} ELSE known[d]]
  /\ count' = (count + 1) % 256
  /\ pc' = [pc EXCEPT ![c] = "admitted"]
  /\ overlapped' = Meeting(c)
  /\ UNCHANGED <<up, link, init, profile, arcadeVars, want, stays, mainVars, rogue, rushed>>

\* onJoin's section under C: the players in the lobby learn of c, c learns of
\* them, and it is counted.  _init is still false.
JoinSection(c) ==
  /\ up /\ pc[c] = "joining" /\ Unlocked
  /\ known' = [d \in Conn |-> IF d = c THEN {e \in Conn : init[e] /\ link[e] # "free"}
                              ELSE IF init[d] /\ link[d] # "free" THEN known[d] \cup {c}
                              ELSE known[d]]
  /\ count' = (count + 1) % 256
  /\ pc' = [pc EXCEPT ![c] = "admitted"]
  /\ overlapped' = Meeting(c)
  /\ UNCHANGED <<up, link, init, profile, arcadeVars, want, stays, mainVars, rogue, rushed>>

\* onJoin has returned: only now does the connection count as a player's.
Admit(c) ==
  /\ up /\ pc[c] = "admitted"
  /\ init' = [init EXCEPT ![c] = TRUE]
  /\ pc' = [pc EXCEPT ![c] = "ready"]
  /\ UNCHANGED <<up, link, profile, known, count, arcadeVars, want, stays, mainVars,
                 ghostVars>>

\* The client says goodbye but keeps its socket.
PlayerLeave(c) ==
  /\ Receives(c, "PlayerLeave") /\ init[c]
  /\ pc' = [pc EXCEPT ![c] = "farewell"]
  /\ stays' = [stays EXCEPT ![c] = TRUE]
  /\ UNCHANGED <<up, memberVars, arcadeVars, want, mainVars, ghostVars>>

\* Mutant: a lost socket is closed without onDisconnect.
DropUnannounced(c) ==
  /\ up /\ link[c] = "open" /\ pc[c] = "ready"
  /\ link' = [link EXCEPT ![c] = "closed"]
  /\ init' = [init EXCEPT ![c] = FALSE]
  /\ rogue' = IF Late(c) THEN rogue \cup {c} ELSE rogue
  /\ UNCHANGED <<up, profile, known, count, arcadeVars, threadVars, mainVars, overlapped,
                 rushed>>

\* The net thread finds the socket closed or in error, times out, or kicks its
\* own client (bad Hello, unexpected packet).  Without a player behind it
\* onDisconnect returns at once and the connection is closed.
Drop(c) ==
  /\ up /\ link[c] = "open" /\ pc[c] = "ready"
  /\ IF init[c]
     THEN /\ pc' = [pc EXCEPT ![c] = "farewell"]
          /\ stays' = [stays EXCEPT ![c] = FALSE]
          /\ UNCHANGED <<link, rogue>>
     ELSE /\ link' = [link EXCEPT ![c] = "closed"]
          /\ rogue' = IF Late(c) THEN rogue \cup {c} ELSE rogue
          /\ UNCHANGED <<pc, stays>>
  /\ UNCHANGED <<up, init, profile, known, count, arcadeVars, want, mainVars, overlapped,
                 rushed>>

\* Mutants: an int for the uint8_t; nobody is told.
ForgetSigned(c) ==
  /\ known' = [d \in Conn |-> IF d # c /\ init[d] THEN known[d] \ {c} ELSE known[d]]
  /\ count' = count + 255
  /\ overlapped' = Meeting(c)

\* onDisconnect's section under C: everybody in the lobby forgets c.
Forget(c) ==
  /\ known' = [d \in Conn |-> IF d # c /\ init[d] /\ link[d] # "free"
                              THEN known[d] \ {c} ELSE known[d]]
  /\ count' = (count + 255) % 256
  /\ overlapped' = Meeting(c)

\* What kick, _netLoop or the PlayerLeave handler do after onDisconnect.
Close(c, keep) ==
  /\ init' = [init EXCEPT ![c] = FALSE]
  /\ link' = [link EXCEPT ![c] = IF keep THEN @ ELSE "closed"]
  /\ rogue' = IF ~keep /\ Late(c) THEN rogue \cup {c} ELSE rogue

-----------------------------------------------------------------------------
(* Arcade machines.                                                        *)

\* The machine _leaveArcade looks at: *_machineId.  When there is none the code
\* reads an empty optional, and gets whatever number is there.
SeatSource(c) == IF machineId[c] # NoMachine THEN {machineId[c]} ELSE Machine

\* c is one of the two players of machine m, in a game: leaving ends it.
EndsGame(c, m) ==
  /\ status[c] = "playing"
  /\ \E i \in 1..2 : i <= Len(machines[m]) /\ machines[m][i] = c

\* Mutant: the seat is not given up.
SeatsKept(c, m) == IF EndsGame(c, m) THEN [machines EXCEPT ![m] = <<>>] ELSE machines

\* _leaveArcade: the seats of m once c is gone, and who gets setNotPlaying.
SeatsAfter(c, m) ==
  [machines EXCEPT ![m] = IF EndsGame(c, m) THEN <<>> ELSE Erase(@, c)]

BootedBy(c, m) == IF EndsGame(c, m) THEN Members(machines[m]) ELSE {}

\* setNotPlaying on a set of connections.
Reset(f, S, v) == [c \in Conn |-> IF c \in S THEN v ELSE f[c]]

\* Mutant: only a lone player is compared with the newcomer.
RefusedByOne(c, s) == Len(s) = 1 /\ profile[s[1]].version # profile[c].version

\* The version test of _onPlayerJoinArcade against the machine's first seat.
Refused(c, s) ==
  /\ s # <<>>
  /\ LET mine == profile[c]
         theirs == profile[s[1]]
     IN \/ theirs.version # mine.version
        \/ /\ theirs.soku2 # NoSoku2
           /\ \/ theirs.force
              \/ Len(s) >= 2 /\ profile[s[2]].soku2 = theirs.soku2
           /\ theirs.soku2 # mine.soku2

\* _startRoom: with the same exclusive preference on both sides the room cannot
\* start, and machine.pop_back() takes out the one who was waiting.
StartRoom(c, s, p1, p2) ==
  IF p1 = p2 /\ p1 # "no preference" THEN <<>> ELSE Append(s, c)

\* Mutant: a newcomer goes to the head of the queue.
SeatsJumped(c, s, st, p1, p2) ==
  IF \E i \in 1..2 : i <= Len(s) /\ st[s[i]] = "playing" THEN s
  ELSE IF Len(s) = 1 THEN StartRoom(c, s, p1, p2)
  ELSE <<c>> \o s

\* The seats of a machine once c has joined it: a game in progress is watched
\* without a seat, a lone player is paired, anyone else queues.
SeatsWith(c, s, st, p1, p2) ==
  IF \E i \in 1..2 : i <= Len(s) /\ st[s[i]] = "playing" THEN s
  ELSE IF Len(s) = 1 THEN StartRoom(c, s, p1, p2)
  ELSE Append(s, c)

\* The client reports its battle status (BattleStatusUpdate, Position).
Report(c, st) ==
  /\ Receives(c, "Report") /\ init[c]
  /\ status' = [status EXCEPT ![c] = st]
  /\ UNCHANGED <<up, memberVars, machineId, machines, threadVars, mainVars, ghostVars>>

\* A GameRequest, or a /join command naming a player who is at a machine, is
\* decoded: the handler is about to take _machinesMutex.
GameRequest(c, m) ==
  /\ Receives(c, "GameRequest") /\ init[c] /\ Len(machines[m]) < MaxSeats
  /\ pc' = [pc EXCEPT ![c] = "request"]
  /\ want' = [want EXCEPT ![c] = m]
  /\ UNCHANGED <<up, memberVars, arcadeVars, stays, mainVars, ghostVars>>
JoinCommand(c, d) ==
  /\ Receives(c, "JoinCommand") /\ init[c] /\ init[d] /\ link[d] # "free"
  /\ machineId[d] # NoMachine /\ Len(machines[machineId[d]]) < MaxSeats
  /\ pc' = [pc EXCEPT ![c] = "command"]
  /\ want' = [want EXCEPT ![c] = machineId[d]]
  /\ UNCHANGED <<up, memberVars, arcadeVars, stays, mainVars, ghostVars>>

\* A /join of somebody who is busy is ignored.
IgnoreCommand(c) ==
  /\ up /\ pc[c] = "command" /\ status[c] # "idle"
  /\ pc' = [pc EXCEPT ![c] = "ready"]
  /\ want' = [want EXCEPT ![c] = NoMachine]
  /\ UNCHANGED <<up, memberVars, arcadeVars, stays, mainVars, ghostVars>>

\* What _onPlayerJoinArcade's section under M does: c leaves the machine it is at, from
\* (only if its status says it is at one), and takes its place at the other.
Reseats(c, from) ==
  \E p1, p2 \in Pref :
    LET leaves == status[c] # "idle"
        out == {c} \cup (IF leaves THEN BootedBy(c, from) ELSE {})
        seats == IF leaves THEN SeatsAfter(c, from) ELSE machines
        st == Reset(status, out, "idle")
        m == want[c]
    IN /\ leaves /\ EndsGame(c, from) => Unlocked
       /\ IF Refused(c, seats[m])
          THEN /\ machines' = seats
               /\ status' = st
               /\ machineId' = Reset(machineId, out, NoMachine)
          ELSE /\ machineId' = [Reset(machineId, out, NoMachine) EXCEPT ![c] = m]
               /\ status' = [st EXCEPT ![c] = "waiting"]
               /\ machines' = [seats EXCEPT ![m] = SeatsWith(c, @, status', p1, p2)]

JoinArcade(c) ==
  /\ up
  /\ \/ pc[c] = "request"
     \/ pc[c] = "command" /\ status[c] = "idle"
  /\ \E from \in SeatSource(c) : Reseats(c, from)
  /\ pc' = [pc EXCEPT ![c] = "ready"]
  /\ want' = [want EXCEPT ![c] = NoMachine]
  /\ rogue' = IF status[c] = "idle" /\ Seated(c) THEN rogue \cup {c} ELSE rogue
  /\ UNCHANGED <<up, memberVars, stays, mainVars, overlapped, rushed>>

\* A GameStart is dropped unless its sender is at a machine; the test is outside
\* the lock.
GameStart(c) ==
  /\ Receives(c, "GameStart") /\ init[c] /\ machineId[c] # NoMachine
  /\ pc' = [pc EXCEPT ![c] = "starting"]
  /\ UNCHANGED <<up, memberVars, arcadeVars, want, stays, mainVars, ghostVars>>

\* onGameStart's section under M: the sender plays, or watches from the third
\* seat on.
StartSection(c) ==
  /\ up /\ pc[c] = "starting"
  /\ \E m \in SeatSource(c) :
       LET at == {i \in 1..Len(machines[m]) : machines[m][i] = c}
       IN status' = [status EXCEPT ![c] =
            IF at = {} THEN @
            ELSE IF \E i \in at : i > 2 THEN "spectating" ELSE "playing"]
  /\ pc' = [pc EXCEPT ![c] = "ready"]
  /\ UNCHANGED <<up, memberVars, machineId, machines, want, stays, mainVars, ghostVars>>

\* onArcadeLeave's section under M.
ArcadeLeave(c) ==
  /\ Receives(c, "ArcadeLeave") /\ init[c] /\ machineId[c] # NoMachine
  /\ EndsGame(c, machineId[c]) => Unlocked
  /\ LET out == {c} \cup BootedBy(c, machineId[c])
     IN /\ machines' = SeatsAfter(c, machineId[c])
        /\ status' = Reset(status, out, "idle")
        /\ machineId' = Reset(machineId, out, NoMachine)
  /\ UNCHANGED <<up, memberVars, threadVars, mainVars, ghostVars>>

\* onDisconnect's section under M.
LeaveSeat(c) ==
  \E m \in SeatSource(c) :
    /\ EndsGame(c, m) => Unlocked
    /\ machines' = SeatsAfter(c, m)
    /\ status' = Reset(status, BootedBy(c, m), "idle")
    /\ machineId' = Reset(machineId, BootedBy(c, m), NoMachine)

-----------------------------------------------------------------------------
(* onDisconnect, run by the connection's own thread.                       *)

Farewell(c) ==
  /\ up /\ pc[c] = "farewell" /\ Unlocked
  /\ Forget(c)
  /\ pc' = [pc EXCEPT ![c] = "settle"]
  /\ UNCHANGED <<up, link, init, profile, arcadeVars, want, stays, mainVars, rogue, rushed>>

\* The status is read outside any lock: an idle player has no seat to give up.
Settle(c) ==
  /\ up /\ pc[c] = "settle"
  /\ IF status[c] = "idle"
     THEN /\ Close(c, stays[c])
          /\ pc' = [pc EXCEPT ![c] = "ready"]
          /\ stays' = [stays EXCEPT ![c] = FALSE]
     ELSE /\ pc' = [pc EXCEPT ![c] = "unseat"]
          /\ UNCHANGED <<init, link, stays, rogue>>
  /\ UNCHANGED <<up, profile, known, count, arcadeVars, want, mainVars, overlapped, rushed>>

Unseat(c) ==
  /\ up /\ pc[c] = "unseat"
  /\ LeaveSeat(c) /\ Close(c, stays[c])
  /\ pc' = [pc EXCEPT ![c] = "ready"]
  /\ stays' = [stays EXCEPT ![c] = FALSE]
  /\ UNCHANGED <<up, profile, known, count, want, mainVars, overlapped, rushed>>

-----------------------------------------------------------------------------
(* The main thread.                                                        *)

\* A console /kick finds a player (and lets the lock go).
Kick(c) ==
  /\ up /\ mpc = "loop" /\ kicks < MaxKicks /\ link[c] # "free" /\ init[c]
  /\ mpc' = "kick"
  /\ kickee' = c
  /\ kicks' = kicks + 1
  /\ rogue' = rogue \cup {c}
  /\ overlapped' = overlapped \cup {c}
  /\ UNCHANGED <<up, memberVars, arcadeVars, threadVars, batch, rushed>>

\* Connection::kick calls onDisconnect, which only acts for a player.
KickBegin ==
  /\ up /\ mpc = "kick"
  /\ IF init[kickee]
     THEN mpc' = "farewell" /\ UNCHANGED <<init, link, rogue, kickee>>
     ELSE Close(kickee, FALSE) /\ mpc' = "loop" /\ kickee' = NoConn
  /\ UNCHANGED <<up, profile, known, count, arcadeVars, threadVars, batch, kicks, overlapped, rushed>>

KickFarewell ==
  /\ up /\ mpc = "farewell"
  /\ Forget(kickee)
  /\ mpc' = "settle"
  /\ UNCHANGED <<up, link, init, profile, arcadeVars, threadVars, kickee, batch, kicks, rogue,
                 rushed>>

KickSettle ==
  /\ up /\ mpc = "settle"
  /\ IF status[kickee] = "idle"
     THEN Close(kickee, FALSE) /\ mpc' = "loop" /\ kickee' = NoConn
     ELSE mpc' = "unseat" /\ UNCHANGED <<init, link, rogue, kickee>>
  /\ UNCHANGED <<up, profile, known, count, arcadeVars, threadVars, batch, kicks, overlapped, rushed>>

KickUnseat ==
  /\ up /\ mpc = "unseat"
  /\ LeaveSeat(kickee) /\ Close(kickee, FALSE)
  /\ mpc' = "loop" /\ kickee' = NoConn
  /\ UNCHANGED <<up, profile, known, count, threadVars, batch, kicks, overlapped, rushed>>

\* The reaping, under C throughout.  First the connections of the list are visited
\* in turn (M is held for each): one that is closed and at a machine loses its seat.
SweepBegin ==
  /\ up /\ mpc = "loop"
  /\ batch' = {c \in Conn : link[c] # "free"}
  /\ mpc' = "sweep"
  /\ UNCHANGED <<up, memberVars, arcadeVars, threadVars, kickee, kicks, ghostVars>>

\* Mutant: the reaping looks at the status, as onDisconnect does.
VisitBusy(c) ==
  /\ up /\ mpc = "sweep" /\ c \in batch
  /\ batch' = batch \ {c}
  /\ machines' = [m \in Machine |->
       IF link[c] = "closed" /\ machineId[c] = m /\ status[c] # "idle"
       THEN Erase(machines[m], c) ELSE machines[m]]
  /\ UNCHANGED <<up, memberVars, status, machineId, threadVars, mpc, kickee, kicks, ghostVars>>

Visit(c) ==
  /\ up /\ mpc = "sweep" /\ c \in batch
  /\ batch' = batch \ {c}
  /\ machines' = [m \in Machine |-> IF link[c] = "closed" /\ machineId[c] = m
                                     THEN Erase(machines[m], c) ELSE machines[m]]
  /\ UNCHANGED <<up, memberVars, status, machineId, threadVars, mpc, kickee, kicks, ghostVars>>

\* Then the connections that are closed by now leave the list ...
Doom ==
  /\ up /\ mpc = "sweep" /\ batch = {}
  /\ batch' = {c \in Conn : link[c] = "closed"}
  /\ mpc' = "join"
  /\ UNCHANGED <<up, memberVars, arcadeVars, threadVars, kickee, kicks, ghostVars>>

\* ... and are destroyed once their threads have ended.
Destroy ==
  /\ up /\ mpc = "join" /\ \A c \in batch : pc[c] = "ready"
  /\ link' = [c \in Conn |-> IF c \in batch THEN "free" ELSE link[c]]
  /\ batch' = {}
  /\ mpc' = "loop"
  /\ UNCHANGED <<up, init, profile, known, count, arcadeVars, threadVars, kickee, kicks,
                 ghostVars>>

\* close() and the end of run: everybody is kicked with an empty onDisconnect.
ServerClose ==
  /\ up /\ mpc = "loop"
  /\ up' = FALSE
  /\ init' = [c \in Conn |-> FALSE]
  /\ link' = [c \in Conn |-> IF link[c] = "free" THEN "free" ELSE "closed"]
  /\ UNCHANGED <<profile, known, count, arcadeVars, threadVars, mainVars, ghostVars>>

-----------------------------------------------------------------------------
(* Undefined behaviour.                                                    *)

\* The machines whose seats the section of c under M reads.
Touches(c) ==
  CASE pc[c] \in {"request", "command"} -> SeatSource(c) \cup {want[c]}
    [] pc[c] \in {"starting", "unseat"} -> SeatSource(c)
    [] pc[c] = "ready" /\ init[c] /\ "ArcadeLeave" \in Packet -> {machineId[c]} \cap Machine
    [] OTHER -> {}

\* A section reads the seat of a destroyed connection, or _startRoom reads
\* machine[1] of a machine with one seat: the process may end there.
Crash(c) ==
  /\ up
  /\ \/ \E m \in Touches(c) : \E d \in Members(machines[m]) : link[d] = "free"
     \/ pc[c] \in {"request", "command"} /\ Len(machines[want[c]]) = 1
  /\ up' = FALSE
  /\ UNCHANGED <<memberVars, arcadeVars, threadVars, mainVars, ghostVars>>

\* The process has ended.
Ended == ~up /\ UNCHANGED vars

NetThread(c) ==
  \/ \E p \in Profile : Hello(c, p)
  \/ JoinSection(c)
  \/ Admit(c)
  \/ PlayerLeave(c)
  \/ Drop(c)
  \/ \E st \in Status : Report(c, st)
  \/ \E m \in Machine : GameRequest(c, m)
  \/ \E d \in Conn : JoinCommand(c, d)
  \/ IgnoreCommand(c)
  \/ JoinArcade(c)
  \/ GameStart(c)
  \/ StartSection(c)
  \/ ArcadeLeave(c)
  \/ Farewell(c)
  \/ Settle(c)
  \/ Unseat(c)
  \/ Crash(c)

Kicking ==
  \/ \E c \in Conn : Kick(c)
  \/ KickBegin
  \/ KickFarewell
  \/ KickSettle
  \/ KickUnseat

Reaping ==
  \/ SweepBegin
  \/ \E c \in Conn : Visit(c)
  \/ Doom
  \/ Destroy

MainThread == (\E c \in Conn : Accept(c)) \/ Kicking \/ Reaping \/ ServerClose

Next == (\E c \in Conn : NetThread(c)) \/ MainThread \/ Ended

Spec == Init /\ [][Next]_vars

-----------------------------------------------------------------------------
(* Properties.                                                             *)

\* Every variable has its type.
TypeOK ==
  /\ up \in BOOLEAN
  /\ link \in [Conn -> {"free", "open", "closed"}]
  /\ init \in [Conn -> BOOLEAN]
  /\ profile \in [Conn -> Profile]
  /\ status \in [Conn -> Status]
  /\ machineId \in [Conn -> Machine \cup {NoMachine}]
  /\ known \in [Conn -> SUBSET Conn]
  /\ pc \in [Conn -> Pc]
  /\ want \in [Conn -> Machine \cup {NoMachine}]
  /\ stays \in [Conn -> BOOLEAN]
  /\ machines \in [Machine -> Seq(Conn)]
  /\ count \in 0..255
  /\ mpc \in MainPc
  /\ kickee \in Conn \cup {NoConn}
  /\ batch \subseteq Conn
  /\ kicks \in 0..MaxKicks
  /\ rogue \subseteq Conn
  /\ overlapped \subseteq Conn
  /\ rushed \in BOOLEAN
  /\ \A c \in Conn : pc[c] \in {"request", "command"} => want[c] \in Machine
  /\ mpc \in {"kick", "farewell", "settle", "unseat"} <=> kickee \in Conn

\* The two records of who sits where, _machines and _machineId, agree: a connection
\* has at most one seat, at the machine its own record names.  It goes wrong for a
\* connection that asked for a machine while it was seated but reported itself idle,
\* that said Hello again from a seat, or that the console kicked (rogue).
SeatsMatch ==
  \A m \in Machine : \A i \in 1..Len(machines[m]) :
    LET c == machines[m][i]
    IN c \notin rogue => /\ machineId[c] = m
                         /\ \A j \in 1..Len(machines[m]) : machines[m][j] = c => j = i

\* No seat is left to a connection that has been destroyed: whatever the order in
\* which its thread closes it and the main thread reaps it, the seat goes first.
NoDanglingSeat == \A c \in Conn \ rogue : link[c] = "free" => ~Seated(c)

\* The players of a machine have the same netplay version, though a newcomer is
\* compared with the first seat only and the first seat changes hands.
SameVersionSeats ==
  rogue = {} => \A m \in Machine : \A c, d \in Members(machines[m]) :
                   profile[c].version = profile[d].version

\* The seats in the terms of SeatOrder: the machine where c is, and who came before whom.
\* Rogue connections do not show.
SeatOf(c) ==
  IF c \in rogue \/ ~Seated(c) THEN NoMachine
  ELSE CHOOSE m \in Machine : c \in Members(machines[m])
Earlier(c, d) ==
  /\ {c, d} \cap rogue = {}
  /\ \E m \in Machine : \E i, j \in 1..Len(machines[m]) :
       i < j /\ machines[m][i] = c /\ machines[m][j] = d

Order == INSTANCE SeatOrder WITH
  Player <- Conn,
  at <- [c \in Conn |-> SeatOf(c)],
  before <- {p \in Conn \X Conn : Earlier(p[1], p[2])}

\* The machines keep SeatOrder's promise: first come, first served, nobody at two
\* machines, the seats of a machine lost one at a time or all at once, whatever the
\* players and the reaping do at the same time.
FirstComeFirstServed == Order!Spec

\* c counts as a player: its join section is over and its farewell is not.
Present(c) ==
  /\ link[c] # "free"
  /\ pc[c] = "admitted" \/ (init[c] /\ ~Parting(c))

\* Joins and leaves whose windows did not meet leave every client with the exact
\* roster: it knows of those who are there and of nobody who left, though _init
\* and the announcements change at different times.
RosterExact ==
  \A c \in Conn \ overlapped : \A d \in Conn \ (overlapped \cup {c}) :
    init[c] /\ link[c] = "open" /\ ~Parting(c) => (d \in known[c] <=> Present(d))

\* currentPlayers is the number of players, modulo 256; each console kick that races
\* the player's own leaving can put it off by one.
CountDrift ==
  up => \E k \in (-kicks)..kicks : count = (Cardinality({c \in Conn : Present(c)}) + k) % 256

\* The lobby never holds more players than it was configured for, as long as no two
\* clients stand between the unlocked test and the count, and nobody was kicked.
CapacityUnlessRushed == rushed \/ kicks > 0 \/ count <= MaxPlayers

\* "Server is full": the same without the conditions.
CapacityRespected == count <= MaxPlayers

\* "This is one of the players, so we boot everyone out": a machine emptied because a
\* player left its game has nobody at it any more.
BootsEveryone ==
  [][\A m \in Machine :
       /\ \E c \in Conn : EndsGame(c, m)
       /\ Len(machines[m]) >= 2
       /\ machines'[m] = <<>>
       => \A d \in Conn : link[d] = "open" /\ init[d] => machineId'[d] # m]_vars

=============================================================================
