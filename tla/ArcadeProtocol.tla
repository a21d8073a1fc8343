---------------------------- MODULE ArcadeProtocol ----------------------------
(***************************************************************************)
(* Players at the arcade machines: the clients' side of it                 *)
(* (src/src/SokuMod/InLobbyMenu.cpp and Connection.cpp), composed with the *)
(* lobby server's (LobbyServer) over the two byte streams of each player's *)
(* TCP connection.                                                         *)
(*                                                                         *)
(* A client has a game thread, which runs the lobby screen and owns        *)
(* _currentMachine, a net thread, which handles the server's packets, and  *)
(* a position thread, which reports the battle status every second.  The   *)
(* first two hold meMutex for a whole frame or packet: each is one action. *)
(* _(), called when a game is over, holds no mutex while it sends, and the *)
(* position thread sends after it has let meMutex go: these are several.   *)
(*                                                                         *)
(* The server's part is LobbyServer's, action by action, here with what it *)
(* sends.  Nobody joins or leaves the lobby meanwhile.                     *)
(***************************************************************************)
EXTENDS Integers, Sequences, FiniteSets

CONSTANTS
  Conn,        \* the players, one connection each
  Machine,     \* the arcade machines
  Machine0,    \* the one with number 0
  NoMachine,   \* no machine
  NoConn,      \* no player
  NoSoku2,     \* the Soku2 version of a client without Soku2
  ProfileOf,   \* Conn: version, soku2 and force of its Hello
  PrefOf,      \* Conn: its host preference
  Hostlist,    \* the players who accept players of the host list
  BadIp,       \* the players who have configured an address that is none
  Watched,     \* the players whose counts of the people at each machine are modelled:
               \* only these are sent what concerns other players
  Reporting,   \* the players whose position threads are modelled
  Joining,     \* whether the players type /join
  MaxSits      \* bound: how often the players, together, ask for a machine

Status == {"idle", "waiting", "playing", "spectating"}

ASSUME PlayersAssumption ==
  /\ IsFiniteSet(Conn) /\ NoConn \notin Conn
  /\ Machine0 \in Machine /\ NoMachine \notin Machine
  /\ \A c \in Conn : ProfileOf[c].force \in BOOLEAN
  /\ PrefOf \in [Conn -> {"client only", "host only", "no preference"}]
  /\ Hostlist \subseteq Conn /\ BadIp \subseteq Conn /\ Watched \subseteq Conn
  /\ Reporting \subseteq Conn /\ Joining \in BOOLEAN
  /\ \A c \in Hostlist : PrefOf[c] = "no preference"
  /\ MaxSits \in Nat

VARIABLES
  \* The server.
  status,      \* Conn: _battleStatus
  machineId,   \* Conn: _machineId
  machines,    \* Machine: _machines, the seats in order
  pc,          \* Conn: where its net thread is
  want,        \* Conn: the machine a pending join is about
  tell,        \* Conn: what its net thread is about to broadcast
  rogue,       \* history: players whose seats the server may lose track of
  \* The connections.
  up,          \* Conn: packets on their way to the server
  down,        \* Conn: packets on their way to the client
  \* The clients.
  me,          \* Conn: _me->battleStatus
  current,     \* Conn: _currentMachine
  choice,      \* Conn: _parent->choice, what the game is trying to do
  screen,      \* Conn: where the game thread is: in the title's lobby screen, in a
               \* game, or in _() after its first or its second packet
  snapshot,    \* Conn: the status the position thread is about to send
  view,        \* Conn, Conn: machineId of the other players, and of oneself
  counter,     \* Conn, Machine: playerCount of the machines
  sits,        \* history: how often the players have asked for a machine
  excused,     \* history: players whom something overtook
  deserted     \* history: machines that lost one of two players before their game

serverVars == <<status, machineId, machines, pc, want, rogue>>
clientVars == <<me, current, choice, screen, snapshot, view, counter, sits, excused, deserted>>
vars == <<serverVars, tell, up, down, clientVars>>

\* The rest of the server's state: everybody is in the lobby and stays.
Lobby ==
  [up |-> TRUE, link |-> [c \in Conn |-> "open"], init |-> [c \in Conn |-> TRUE],
   known |-> [c \in Conn |-> Conn \ {c}], stays |-> [c \in Conn |-> FALSE],
   count |-> Cardinality(Conn), mpc |-> "loop", kickee |-> NoConn, batch |-> {},
   kicks |-> 0, overlapped |-> {}, rushed |-> FALSE]

Server == INSTANCE LobbyServer WITH
  Profile <- {ProfileOf[c] : c \in Conn},
  Packet <- {"Report", "GameRequest", "JoinCommand", "GameStart", "ArcadeLeave"},
  MaxPlayers <- Cardinality(Conn), MaxKicks <- 0,
  MaxSeats <- MaxSits + 1,
  up <- Lobby.up, link <- Lobby.link, init <- Lobby.init, profile <- [c \in Conn |-> ProfileOf[c]],
  known <- Lobby.known, stays <- Lobby.stays, count <- Lobby.count, mpc <- Lobby.mpc,
  kickee <- Lobby.kickee, batch <- Lobby.batch, kicks <- Lobby.kicks,
  overlapped <- Lobby.overlapped, rushed <- Lobby.rushed

Request(m)   == [kind |-> "GameRequest", machine |-> m]
Report(st)   == [kind |-> "BattleStatusUpdate", status |-> st]
Command(d)   == [kind |-> "/join", player |-> d]
Started      == [kind |-> "GameStart"]
LeaveArcade  == [kind |-> "ArcadeLeave"]

Engaged(c, m) == [kind |-> "ArcadeEngage", player |-> c, machine |-> m]
Left(c)       == [kind |-> "ArcadeLeave", player |-> c]
HostRequest   == [kind |-> "GameRequest"]
Join(host, spectator) == [kind |-> "GameStart", player |-> host, spectator |-> spectator]

Nothing == [kind |-> "nothing"]

\* Whether d is to be sent what concerns p.
Sees(d, p) == d = p \/ d \in Watched

Init ==
  /\ status = [c \in Conn |-> "idle"]
  /\ machineId = [c \in Conn |-> NoMachine]
  /\ machines = [m \in Machine |-> <<>>]
  /\ pc = [c \in Conn |-> "ready"]
  /\ want = [c \in Conn |-> NoMachine]
  /\ tell = [c \in Conn |-> Nothing]
  /\ rogue = {}
  /\ up = [c \in Conn |-> <<>>]
  /\ down = [c \in Conn |-> <<>>]
  /\ me = [c \in Conn |-> "idle"]
  /\ current = [c \in Conn |-> NoMachine]
  /\ choice = [c \in Conn |-> "none"]
  /\ screen = [c \in Conn |-> "title"]
  /\ snapshot = [c \in Conn |-> Nothing]
  /\ view = [c \in Conn |-> [d \in Conn |-> Machine0]]
  /\ counter = [c \in Conn |-> [m \in Machine |-> 0]]
  /\ sits = 0
  /\ excused = {}
  /\ deserted = {}

-----------------------------------------------------------------------------
(* The client: its game thread.                                            *)

Send(c, packets) == up' = [up EXCEPT ![c] = @ \o packets]

\* Mutant: the request is built before _currentMachine is set.
SitStale(c, m) ==
  /\ screen[c] = "title" /\ current[c] = NoMachine /\ sits < MaxSits
  /\ current' = [current EXCEPT ![c] = m]
  /\ me' = [me EXCEPT ![c] = "waiting"]
  /\ Send(c, <<Request(current[c]), Report("waiting")>>)
  /\ sits' = sits + 1
  /\ UNCHANGED <<serverVars, tell, down, choice, screen, snapshot, view, counter, excused, deserted>>

\* The A button in front of a machine.
Sit(c, m) ==
  /\ screen[c] = "title" /\ current[c] = NoMachine /\ sits < MaxSits
  /\ current' = [current EXCEPT ![c] = m]
  /\ me' = [me EXCEPT ![c] = "waiting"]
  /\ Send(c, <<Request(m), Report("waiting")>>)
  /\ sits' = sits + 1
  /\ UNCHANGED <<serverVars, tell, down, choice, screen, snapshot, view, counter, excused, deserted>>

\* Mutant: the machine is left without a word to the server.
LeaveSilently(c) ==
  /\ screen[c] = "title" /\ current[c] # NoMachine
  /\ Send(c, <<Report("idle")>>)
  /\ me' = [me EXCEPT ![c] = "idle"]
  /\ current' = [current EXCEPT ![c] = NoMachine]
  /\ choice' = [choice EXCEPT ![c] = "none"]
  /\ UNCHANGED <<serverVars, tell, down, screen, snapshot, view, counter, sits, excused, deserted>>

\* The B button at a machine.
Leave(c) ==
  /\ screen[c] = "title" /\ current[c] # NoMachine
  /\ Send(c, <<Report("idle"), LeaveArcade>>)
  /\ me' = [me EXCEPT ![c] = "idle"]
  /\ current' = [current EXCEPT ![c] = NoMachine]
  /\ choice' = [choice EXCEPT ![c] = "none"]
  /\ UNCHANGED <<serverVars, tell, down, screen, snapshot, view, counter, sits, excused, deserted>>

\* A /join typed into the chat.
SayJoin(c, d) ==
  /\ Joining /\ sits < MaxSits /\ screen[c] \in {"title", "game"}
  /\ Send(c, <<Command(d)>>)
  /\ sits' = sits + 1
  /\ UNCHANGED <<serverVars, tell, down, me, current, choice, screen, snapshot, view, counter,
                 excused, deserted>>

\* The game gives up connecting to the opponent.
ConnectFailed(c) ==
  /\ screen[c] = "title" /\ choice[c] = "join"
  /\ Send(c, <<LeaveArcade, Report("idle")>>)
  /\ current' = [current EXCEPT ![c] = NoMachine]
  /\ me' = [me EXCEPT ![c] = "idle"]
  /\ choice' = [choice EXCEPT ![c] = "none"]
  /\ UNCHANGED <<serverVars, tell, down, screen, snapshot, view, counter, sits, excused, deserted>>

\* The game has found its opponent: the title screen is left.
Play(c) ==
  /\ screen[c] = "title" /\ choice[c] # "none"
  /\ screen' = [screen EXCEPT ![c] = "game"]
  /\ UNCHANGED <<serverVars, tell, up, down, me, current, choice, snapshot, view, counter, sits,
                 excused, deserted>>

\* The thread of the message boxes finds that a player waiting at a machine has got
\* an opponent from the host list.
FoundOpponent(c) ==
  /\ screen[c] = "game" /\ me[c] = "waiting"
  /\ me' = [me EXCEPT ![c] = "playing"]
  /\ Send(c, <<Report("playing"), Started>>)
  /\ UNCHANGED <<serverVars, tell, down, current, choice, screen, snapshot, view, counter, sits,
                 excused, deserted>>

\* _(): back in the title screen, in three steps.
Back(c) ==
  /\ screen[c] = "game"
  /\ screen' = [screen EXCEPT ![c] = "reported"]
  /\ Send(c, <<Report("idle")>>)
  /\ UNCHANGED <<serverVars, tell, down, me, current, choice, snapshot, view, counter, sits,
                 excused, deserted>>
BackLeave(c) ==
  /\ screen[c] = "reported"
  /\ screen' = [screen EXCEPT ![c] = "left"]
  /\ Send(c, <<LeaveArcade>>)
  /\ current' = [current EXCEPT ![c] = NoMachine]
  /\ choice' = [choice EXCEPT ![c] = "none"]
  /\ UNCHANGED <<serverVars, tell, down, me, snapshot, view, counter, sits, excused, deserted>>
BackIdle(c) ==
  /\ screen[c] = "left"
  /\ screen' = [screen EXCEPT ![c] = "title"]
  /\ me' = [me EXCEPT ![c] = "idle"]
  /\ UNCHANGED <<serverVars, tell, up, down, current, choice, snapshot, view, counter, sits,
                 excused, deserted>>

-----------------------------------------------------------------------------
(* The client: its position thread.                                        *)

\* Mutant: an idle player has nothing to report.
SnapshotBusy(c) ==
  /\ c \in Reporting /\ snapshot[c] = Nothing /\ up[c] = <<>> /\ me[c] # "idle"
  /\ snapshot' = [snapshot EXCEPT ![c] = Report(me[c])]
  /\ UNCHANGED <<serverVars, tell, up, down, me, current, choice, screen, view, counter, sits,
                 excused, deserted>>

\* _posLoop, once a second, which is slow: what was sent before has arrived.  The status
\* it reports may be a thing of the past when it is sent.
Snapshot(c) ==
  /\ c \in Reporting /\ snapshot[c] = Nothing /\ up[c] = <<>>
  /\ snapshot' = [snapshot EXCEPT ![c] = Report(me[c])]
  /\ UNCHANGED <<serverVars, tell, up, down, me, current, choice, screen, view, counter, sits,
                 excused, deserted>>
SendSnapshot(c) ==
  /\ snapshot[c] # Nothing
  /\ Send(c, <<snapshot[c]>>)
  /\ snapshot' = [snapshot EXCEPT ![c] = Nothing]
  /\ excused' = IF snapshot[c] # Report(me[c]) \/ screen[c] \in {"reported", "left"}
                THEN excused \cup {c} ELSE excused
  /\ UNCHANGED <<serverVars, tell, down, me, current, choice, screen, view, counter, sits, deserted>>

-----------------------------------------------------------------------------
(* The client: its net thread.                                             *)

Gets(c, kind) == down[c] # <<>> /\ Head(down[c]).kind = kind
Consume(c) == down' = [down EXCEPT ![c] = Tail(@)]

\* Player p has sat down at machine m.  (The count is unsigned in the code; it is only
\* compared with small numbers.)  A player who accepts the host list and finds
\* itself the first at a machine hosts.
OnArcadeEngage(c) ==
  /\ Gets(c, "ArcadeEngage") /\ Consume(c)
  /\ LET p == Head(down[c]).player
         m == Head(down[c]).machine
     IN /\ IF c \in Watched
           THEN /\ view' = [view EXCEPT ![c][p] = m]
                /\ counter' = [counter EXCEPT ![c][m] = @ + 1]
           ELSE UNCHANGED <<view, counter>>
        /\ \E first \in IF c \in Watched THEN {counter'[c][m] = 1} ELSE BOOLEAN :
             choice' = [choice EXCEPT ![c] =
                          IF p = c /\ c \in Hostlist /\ first THEN "host" ELSE @]
  /\ UNCHANGED <<serverVars, tell, up, me, current, screen, snapshot, sits, excused, deserted>>

\* The server has not answered yet what c has asked for last.
Unanswered(c) ==
  \/ \E i \in 1..Len(up[c]) : up[c][i].kind = "GameRequest"
  \/ pc[c] = "request" \/ tell[c].kind = "ArcadeEngage"
  \/ \E i \in 2..Len(down[c]) :
       down[c][i].kind \in {"ArcadeEngage", "ArcadeLeave"} /\ down[c][i].player = c

\* Mutant: the machine is not forgotten.
OnArcadeLeaveKept(c) ==
  /\ Gets(c, "ArcadeLeave") /\ Consume(c)
  /\ LET mine == Head(down[c]).player = c
     IN /\ me' = IF mine THEN [me EXCEPT ![c] = "idle"] ELSE me
        /\ up' = IF mine THEN [up EXCEPT ![c] = Append(@, Report("idle"))] ELSE up
  /\ UNCHANGED <<serverVars, tell, current, choice, screen, snapshot, view, counter, sits,
                 excused, deserted>>

\* Player p has left the machine it was at, or has been refused one.
OnArcadeLeave(c) ==
  /\ Gets(c, "ArcadeLeave") /\ Consume(c)
  /\ LET p == Head(down[c]).player
     IN /\ IF p = c
           THEN /\ current' = [current EXCEPT ![c] = NoMachine]
                /\ me' = [me EXCEPT ![c] = "idle"]
                /\ Send(c, <<Report("idle")>>)
                /\ excused' = IF current[c] # NoMachine /\ Unanswered(c)
                              THEN excused \cup {c} ELSE excused
           ELSE UNCHANGED <<current, me, up, excused>>
        /\ IF p = NoConn \/ c \notin Watched THEN UNCHANGED <<view, counter>>
           ELSE /\ counter' = [counter EXCEPT ![c][view[c][p]] = @ - 1]
                /\ view' = [view EXCEPT ![c][p] = Machine0]
  /\ UNCHANGED <<serverVars, tell, choice, screen, snapshot, sits, deserted>>

\* c is not at a machine any more, or about to leave the one it was at.
Gone(c) == current[c] = NoMachine \/ screen[c] = "reported"

\* The server asks c to host.
OnHostRequest(c) ==
  /\ Gets(c, "GameRequest") /\ Consume(c)
  /\ IF screen[c] = "game"
     THEN Send(c, <<Started>>) /\ UNCHANGED <<me, choice>>
     ELSE /\ Send(c, <<Report("playing"), Started>>)
          /\ me' = [me EXCEPT ![c] = "playing"]
          /\ choice' = [choice EXCEPT ![c] = IF @ = "none" THEN "host" ELSE @]
  /\ excused' = IF Gone(c) THEN excused \cup {c} ELSE excused
  /\ UNCHANGED <<serverVars, tell, current, screen, snapshot, view, counter, sits, deserted>>

\* The server tells c to connect to a host.
OnConnectRequest(c) ==
  /\ Gets(c, "GameStart") /\ Consume(c)
  /\ LET start == Head(down[c])
         st == IF start.spectator THEN "spectating" ELSE "playing"
     IN IF start.player \in BadIp
        THEN /\ Send(c, <<LeaveArcade>>)
             /\ excused' = excused \cup {c}
             /\ UNCHANGED <<me, choice>>
        ELSE /\ Send(c, <<Report(st)>>)
             /\ me' = [me EXCEPT ![c] = st]
             /\ choice' = [choice EXCEPT ![c] = "join"]
             /\ excused' = IF Gone(c) THEN excused \cup {c} ELSE excused
  /\ UNCHANGED <<serverVars, tell, current, screen, snapshot, view, counter, sits, deserted>>

Client(c) ==
  \/ \E m \in Machine : Sit(c, m)
  \/ Leave(c)
  \/ \E d \in Conn : SayJoin(c, d)
  \/ ConnectFailed(c)
  \/ Play(c)
  \/ FoundOpponent(c)
  \/ Back(c)
  \/ BackLeave(c)
  \/ BackIdle(c)
  \/ Snapshot(c)
  \/ SendSnapshot(c)
  \/ OnArcadeEngage(c)
  \/ OnArcadeLeave(c)
  \/ OnHostRequest(c)
  \/ OnConnectRequest(c)

-----------------------------------------------------------------------------
(* The server: LobbyServer's actions and what they send.                   *)

\* The net thread of c takes a packet of this kind.
Takes(c, kind) ==
  /\ tell[c] = Nothing /\ up[c] # <<>> /\ Head(up[c]).kind = kind
  /\ up' = [up EXCEPT ![c] = Tail(@)]

TakeReport(c) ==
  /\ Takes(c, "BattleStatusUpdate")
  /\ Server!Report(c, Head(up[c]).status)
  /\ UNCHANGED <<tell, down, clientVars>>

TakeRequest(c) ==
  /\ Takes(c, "GameRequest")
  /\ Server!GameRequest(c, Head(up[c]).machine)
  /\ UNCHANGED <<tell, down, clientVars>>

\* A /join is refused when the player named is at no machine.
TakeCommand(c) ==
  /\ Takes(c, "/join") /\ pc[c] = "ready"
  /\ IF machineId[Head(up[c]).player] = NoMachine
     THEN UNCHANGED serverVars
     ELSE Server!JoinCommand(c, Head(up[c]).player)
  /\ UNCHANGED <<tell, down, clientVars>>
IgnoreCommand(c) ==
  /\ Server!IgnoreCommand(c)
  /\ UNCHANGED <<tell, up, down, clientVars>>

\* Every player of s is sent the ArcadeLeave of everybody whom c, leaving machine m,
\* takes out with it, as far as it is modelled; c itself is not.
Boots(c, m) ==
  LET seats == machines[m]
  IN [d \in Conn |->
        IF d = c \/ ~Server!EndsGame(c, m) THEN <<>>
        ELSE IF d \in Watched THEN [i \in 1..Len(seats) |-> Left(seats[i])]
        ELSE [k \in 1..Cardinality({i \in 1..Len(seats) : seats[i] = d}) |-> Left(d)]]

\* c, one of two players whose game has not begun, gives up its seat to the next.
Deserts(c, m) ==
  /\ ~Server!EndsGame(c, m) /\ Len(machines[m]) >= 3
  /\ \E i \in 1..2 : machines[m][i] = c

\* Who is asked to host: the first player or the newcomer.
Host(s, c) ==
  LET p1 == PrefOf[s[1]]
      p2 == PrefOf[c]
      second == IF p1 = "no preference" THEN p2 = "host only"
                ELSE IF p2 = "no preference" THEN p1 = "client only"
                ELSE p1 # "host only"
  IN IF second THEN c ELSE s[1]

Clash(s, c) == Len(s) = 1 /\ PrefOf[s[1]] = PrefOf[c] /\ PrefOf[c] # "no preference"

\* The players who play at the machine already, by its first two seats.
Playing(s) == {i \in 1..2 : i <= Len(s) /\ status'[s[i]] = "playing"}

\* Mutant: the room is started when the third player comes.
AnswersLate(c, s) ==
  IF Server!Refused(c, s) THEN {[to |-> c, packet |-> Left(c)]}
  ELSE IF Playing(s) # {}
  THEN {[to |-> c, packet |-> Join(s[IF 1 \in Playing(s) THEN 1 ELSE 2], TRUE)]}
  ELSE IF Len(s) = 2 THEN {[to |-> Host(s, c), packet |-> HostRequest]}
  ELSE {[to |-> NoConn, packet |-> Nothing]}

\* What the section of _onPlayerJoinArcade sends when c finds the seats s: to whom,
\* and what.  Somebody refused is told to leave, and so is a newcomer whose
\* preference clashes (two "client only": under a player id read past the seats).
Answers(c, s) ==
  IF Server!Refused(c, s) THEN {[to |-> c, packet |-> Left(c)]}
  ELSE IF Playing(s) # {}
  THEN {[to |-> c, packet |-> Join(s[IF 1 \in Playing(s) THEN 1 ELSE 2], TRUE)]}
  ELSE IF Clash(s, c)
  THEN {[to |-> c, packet |-> Left(x)] :
          x \in IF PrefOf[c] = "client only" THEN Conn \cup {NoConn} ELSE {c}}
  ELSE IF Len(s) = 1 THEN {[to |-> Host(s, c), packet |-> HostRequest]}
  ELSE {[to |-> NoConn, packet |-> Nothing]}

JoinArcade(c) ==
  /\ Server!JoinArcade(c)
  /\ \E from \in Server!SeatSource(c) :
       Server!Reseats(c, from) /\
       LET leaves == status[c] # "idle"
           seats == IF leaves THEN Server!SeatsAfter(c, from) ELSE machines
           boots == IF leaves THEN Boots(c, from) ELSE [d \in Conn |-> <<>>]
           m == want[c]
           s == seats[m]
           refused == Server!Refused(c, s)
       IN /\ machines' = IF refused THEN seats
                         ELSE [seats EXCEPT ![m] =
                                 Server!SeatsWith(c, s, status',
                                   IF s = <<>> THEN PrefOf[c] ELSE PrefOf[s[1]], PrefOf[c])]
          /\ \E answer \in Answers(c, s) :
               down' = [d \in Conn |-> down[d] \o boots[d] \o
                                       IF answer.to = d THEN <<answer.packet>> ELSE <<>>]
          /\ tell' = [tell EXCEPT ![c] = IF refused \/ (Playing(s) = {} /\ Clash(s, c))
                                         THEN Nothing ELSE Engaged(c, m)]
          /\ excused' = excused \cup
               (IF pc[c] = "command" /\ ~refused THEN {c} ELSE {}) \cup
               (IF ~refused /\ Playing(s) = {} /\ Clash(s, c) THEN {c, s[1]} ELSE {})
          /\ deserted' = IF leaves /\ Deserts(c, from) THEN deserted \cup {from} ELSE deserted
  /\ UNCHANGED <<up, me, current, choice, screen, snapshot, view, counter, sits>>

\* A GameStart is dropped unless its sender is at a machine.
TakeStart(c) ==
  /\ Takes(c, "GameStart") /\ pc[c] = "ready"
  /\ IF machineId[c] = NoMachine THEN UNCHANGED serverVars ELSE Server!GameStart(c)
  /\ UNCHANGED <<tell, down, clientVars>>

\* onGameStart: the others at the machine are told, from the third seat on to watch.
StartSection(c) ==
  /\ Server!StartSection(c)
  /\ \E m \in Server!SeatSource(c) :
       LET s == machines[m]
       IN /\ status'[c] # status[c] => c \in Server!Members(s)
          /\ down' = [d \in Conn |-> down[d] \o
               IF d = c THEN <<>>
               ELSE [k \in 1..Cardinality({i \in 1..Len(s) : s[i] = d}) |->
                       Join(c, \A i \in 1..2 : i <= Len(s) => s[i] # d)]]
  /\ UNCHANGED <<tell, up, clientVars>>

\* onArcadeLeave, up to its broadcast.
TakeLeave(c) ==
  /\ Takes(c, "ArcadeLeave") /\ pc[c] = "ready"
  /\ IF machineId[c] = NoMachine
     THEN UNCHANGED <<serverVars, tell, down, deserted>>
     ELSE /\ Server!ArcadeLeave(c)
          /\ down' = [d \in Conn |-> down[d] \o Boots(c, machineId[c])[d]]
          /\ tell' = [tell EXCEPT ![c] = Left(c)]
          /\ deserted' = IF Deserts(c, machineId[c]) THEN deserted \cup {machineId[c]}
                         ELSE deserted
  /\ UNCHANGED <<me, current, choice, screen, snapshot, view, counter, sits, excused>>

\* The broadcast after a join goes to everybody, the one after a leave to the others.
Broadcast(c) ==
  /\ tell[c] # Nothing
  /\ down' = [d \in Conn |-> down[d] \o
                IF (d = c /\ tell[c].kind = "ArcadeLeave") \/ ~Sees(d, c)
                THEN <<>> ELSE <<tell[c]>>]
  /\ tell' = [tell EXCEPT ![c] = Nothing]
  /\ UNCHANGED <<serverVars, up, clientVars>>

NetThread(c) ==
  \/ TakeReport(c)
  \/ TakeRequest(c)
  \/ TakeCommand(c)
  \/ IgnoreCommand(c)
  \/ JoinArcade(c)
  \/ TakeStart(c)
  \/ StartSection(c)
  \/ TakeLeave(c)
  \/ Broadcast(c)

Next == \E c \in Conn : Client(c) \/ NetThread(c)

Spec == Init /\ [][Next]_vars

\* What does not wait for a player or for the game: the client's net thread, its position
\* thread and a _() that has begun, and the server's net thread.
Handles(c) == OnArcadeEngage(c) \/ OnArcadeLeave(c) \/ OnHostRequest(c) \/ OnConnectRequest(c)
Reports(c) == Snapshot(c) \/ SendSnapshot(c)
Returns(c) == BackLeave(c) \/ BackIdle(c)

FairSpec ==
  /\ Spec
  /\ \A c \in Conn : WF_vars(Handles(c)) /\ WF_vars(Returns(c)) /\ WF_vars(NetThread(c))
  /\ \A c \in Reporting : WF_vars(Reports(c))

-----------------------------------------------------------------------------
(* Properties.                                                             *)

UpPacket ==
  {Request(m) : m \in Machine} \cup {Report(st) : st \in Status} \cup
  {Command(d) : d \in Conn} \cup {Started, LeaveArcade}
DownPacket ==
  {Engaged(c, m) : c \in Conn, m \in Machine} \cup {Left(c) : c \in Conn \cup {NoConn}} \cup
  {Join(c, b) : c \in Conn, b \in BOOLEAN} \cup {HostRequest}

\* Every variable has its type.
TypeOK ==
  /\ status \in [Conn -> Status]
  /\ machineId \in [Conn -> Machine \cup {NoMachine}]
  /\ machines \in [Machine -> Seq(Conn)]
  /\ pc \in [Conn -> {"ready", "request", "command", "starting"}]
  /\ want \in [Conn -> Machine \cup {NoMachine}]
  /\ tell \in [Conn -> DownPacket \cup {Nothing}]
  /\ rogue \subseteq Conn
  /\ up \in [Conn -> Seq(UpPacket)]
  /\ down \in [Conn -> Seq(DownPacket)]
  /\ me \in [Conn -> Status]
  /\ current \in [Conn -> Machine \cup {NoMachine}]
  /\ choice \in [Conn -> {"none", "host", "join"}]
  /\ screen \in [Conn -> {"title", "game", "reported", "left"}]
  /\ snapshot \in [Conn -> {Report(st) : st \in Status} \cup {Nothing}]
  /\ view \in [Conn -> [Conn -> Machine]]
  /\ counter \in [Conn -> [Machine -> Int]]
  /\ sits \in 0..MaxSits
  /\ excused \subseteq Conn
  /\ deserted \subseteq Machine
  /\ \A c \in Conn : pc[c] \in {"request", "command"} => want[c] \in Machine

\* Nothing of c is under way.
Quiet(c) ==
  /\ up[c] = <<>> /\ down[c] = <<>> /\ snapshot[c] = Nothing
  /\ pc[c] = "ready" /\ tell[c] = Nothing /\ screen[c] \in {"title", "game"}

\* Once nothing of a player is under way, its client and the server agree on the machine
\* it is at, though requests, refusals and boots cross on their way.  Not so once the
\* player has been overtaken (excused): an ArcadeLeave met a newer request, a request to
\* host or to connect found it gone, the position thread sent an old status, a /join
\* seated it behind its client's back, its opponent's address was none, or a clash of
\* preferences took the waiting player out.
Agreement == \A c \in Conn \ excused : Quiet(c) => current[c] = machineId[c]

\* _onPlayerJoinArcade trusts the battle status to say whether there is a machine to
\* leave: when a request of a player that was not overtaken is about to be handled, the
\* status the client has sent and the machine the server has stored say the same.
\* Otherwise an empty _machineId is read, or a second seat is given.
RequestsMakeSense ==
  \A c \in Conn \ excused :
    pc[c] = "request" => (status[c] = "idle" <=> machineId[c] = NoMachine)

\* The server loses track of a seat (rogue, the exception SeatsMatch makes) only for a
\* player who was overtaken: a client on its own, whatever its player does and however
\* fast, never asks for a machine it reports idle from.
RogueIsExcused == rogue \subseteq excused

\* Two players who have come together at a machine do not both sit waiting when nothing
\* is under way any more: somebody was asked to host.  Not so at a machine where one of
\* the first two left before their game: the third moves up and nobody is asked again.
NobodyWaitsInVain ==
  \A m \in Machine :
    /\ m \notin deserted /\ Len(machines[m]) >= 2
    /\ \A c \in Conn : Quiet(c)
    /\ {machines[m][1], machines[m][2]} \cap excused = {}
    => \E i \in 1..2 : me[machines[m][i]] # "waiting"

\* The position thread repairs what went wrong with the battle status: whatever was
\* overtaken, the server's record of it is in the end the client's, for good.
StatusConverges == \A c \in Reporting : <>[](status[c] = me[c])

\* "Accept hostlist players to play with you by hosting directly when joining an empty
\* arcade": a player who has the lobby to itself hosts whenever it is told that it sits
\* at the machine it is at.
HostsWhenAlone ==
  [][\A c \in Hostlist :
       Conn = {c} /\ current[c] # NoMachine /\ OnArcadeEngage(c) => choice'[c] = "host"]_vars

=============================================================================
