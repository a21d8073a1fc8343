---------------------------- MODULE LobbySession ----------------------------
(***************************************************************************)
(* The life of one client Connection, shared by the list of the lobbies,   *)
(* which opened it, and the lobby screen, which joins and leaves the lobby *)
(* through it any number of times: the game thread (InLobbyMenu), the      *)
(* thread that repeats Hello until it is answered, the net thread, the     *)
(* thread that reports the position every second, and the server's         *)
(* connection at the other end.  Packets arrive in order, and each end     *)
(* handles one at a time; the game thread is between two of its frames     *)
(* whenever another thread runs.  Pings are left out: they change nothing  *)
(* of the session.                                                         *)
(***************************************************************************)
EXTENDS Naturals, Sequences

CONSTANTS
  JoinTries,  \* lobbyJoinTries
  MaxFlight,  \* bound on the packets in flight, when positions or others' are sent
  MaxVisits   \* bound on the times the player enters the lobby

ASSUME SessionAssumption ==
  JoinTries \in Nat \ {0} /\ MaxFlight \in Nat \ {0} /\ MaxVisits \in Nat

VARIABLES
  conn,      \* the Connection: connected, init, me (whether _me is set)
  posThread, \* _posThread; "none" when there is none to join
  menu,      \* what the game thread does about the lobby
  screen,    \* the lobby screen: wasConnected, disconnected, whether onConnect ran
  tries,     \* _connectThread of the screen, and the tries it has left
  toServer, toClient,  \* packets in flight
  srv,       \* the server's connection: open, init
  visits,    \* times the lobby was entered
  left,      \* history: Leave was sent: "no", "now" from this screen, "before"
  crossed,   \* history: the kinds of packets sent after the Leave
  late,      \* history: an Olleh arrived after its screen had gone
  accused,   \* history: the ends that complained of the handshake
  toldTimeout, \* history: "Connection timed out" was shown to a member
  died       \* the program: "no", "null" (_me dereferenced), "terminate"

endsVars    == <<conn, srv, toServer, toClient>>
screenVars  == <<menu, screen, tries, visits>>
sessHistory == <<left, crossed, late, accused, toldTimeout, died>>
sessionVars == <<endsVars, posThread, screenVars, sessHistory>>

NewScreen == [wasConnected |-> FALSE, disconnected |-> FALSE, ready |-> FALSE]

\* Connection::send: what is sent through a closed socket is lost.
Joined == conn.connected /\ srv.open
SentToServer(p) == IF Joined THEN Append(toServer, p) ELSE toServer

SessionInit ==
  /\ conn = [connected |-> TRUE, init |-> FALSE, me |-> FALSE]
  /\ srv = [open |-> TRUE, init |-> FALSE]
  /\ toServer = <<>> /\ toClient = <<>>
  /\ posThread = "none"
  /\ menu = "list" /\ screen = NewScreen
  /\ tries = [pc |-> "over", left |-> 0] /\ visits = 0
  /\ left = "no" /\ crossed = {} /\ late = FALSE /\ accused = {}
  /\ toldTimeout = FALSE /\ died = "no"

-----------------------------------------------------------------------------
(* The lobby screen.                                                       *)

\* _joinLobbyUpdate opens the screen of a connected lobby: its constructor
\* hooks the callbacks and starts the thread of the tries.
EnterLobby ==
  /\ menu = "list" /\ conn.connected /\ visits < MaxVisits
  /\ menu' = "screen" /\ screen' = NewScreen
  /\ left' = IF left = "no" THEN left ELSE "before"
  /\ tries' = [pc |-> "check", left |-> JoinTries]
  /\ visits' = visits + 1
  /\ UNCHANGED <<endsVars, posThread, crossed, late, accused, toldTimeout, died>>

\* A turn of the loop of the tries: it stops once there is nothing to ask.
TryCheck ==
  /\ tries.pc = "check" /\ tries.left > 0
  /\ tries' = [tries EXCEPT !.pc =
                 IF screen.disconnected \/ ~conn.connected \/ conn.init
                 THEN "over" ELSE "send"]
  /\ UNCHANGED <<endsVars, posThread, menu, screen, visits, sessHistory>>

\* connect(): Hello goes out unless the session was opened meanwhile.
TrySend ==
  /\ tries.pc = "send"
  /\ tries' = [pc |-> "check", left |-> tries.left - 1]
  /\ IF conn.init THEN UNCHANGED <<toServer, crossed>>
     ELSE /\ toServer' = SentToServer("hello")
          /\ crossed' = IF left = "now" THEN crossed \cup {"hello"} ELSE crossed
  /\ UNCHANGED <<conn, srv, toClient, posThread, menu, screen, visits,
                 left, late, accused, toldTimeout, died>>

\* Mutant: the loop forgets to tell the screen.
TimesOutSilently ==
  /\ tries.pc = "check" /\ tries.left = 0
  /\ tries' = [tries EXCEPT !.pc = "over"]
  /\ UNCHANGED <<endsVars, posThread, menu, screen, visits, sessHistory>>

\* After the last try and its second of sleep the player is told that joining
\* timed out, whatever has arrived during that second.
TimesOut ==
  /\ tries.pc = "check" /\ tries.left = 0
  /\ tries' = [tries EXCEPT !.pc = "over"]
  /\ screen' = [screen EXCEPT !.wasConnected = TRUE]
  /\ toldTimeout' = (toldTimeout \/ conn.init)
  /\ UNCHANGED <<endsVars, posThread, menu, visits, left, crossed, late,
                 accused, died>>

\* onProcess returns false: the screen is about to be destroyed.
ScreenCloses ==
  /\ menu = "screen"
  /\ \/ screen.disconnected
     \/ ~conn.init /\ (screen.wasConnected \/ ~conn.connected)
  /\ menu' = "closing"
  /\ UNCHANGED <<endsVars, posThread, screen, tries, visits, sessHistory>>

\* Nothing to leave: only the thread of the tries is waited for.
KeepsSession == menu' = "joinTries" /\ UNCHANGED <<toServer, left>>

\* Mutant: the session is closed on this side only.
LeavesQuietly == menu' = "leaving" /\ left' = "now" /\ UNCHANGED toServer

\* disconnect(), called by the screen and by its destructor, both of which put
\* the callbacks of the list back first: Leave is sent while the session is
\* still open.
_disconnect ==
  IF ~conn.init THEN KeepsSession
  ELSE /\ menu' = "leaving" /\ left' = "now"
       /\ toServer' = SentToServer("leave")

\* The player leaves: _lobbyExitRequested in onProcess.
PlayerLeaves ==
  /\ menu = "screen" /\ ~screen.disconnected /\ conn.init
  /\ _disconnect
  /\ UNCHANGED <<conn, srv, toClient, posThread, screen, tries, visits,
                 crossed, late, accused, toldTimeout, died>>

\* ~InLobbyMenu: a session that was opened after all is left.
Destroy ==
  /\ menu = "closing"
  /\ IF screen.disconnected THEN KeepsSession ELSE _disconnect
  /\ UNCHANGED <<conn, srv, toClient, posThread, screen, tries, visits,
                 crossed, late, accused, toldTimeout, died>>

\* disconnect(), under the mutexes of the packets.
LeaveClears ==
  /\ menu = "leaving"
  /\ menu' = "joinPos"
  /\ conn' = [conn EXCEPT !.init = FALSE, !.me = FALSE]
  /\ screen' = [screen EXCEPT !.disconnected = TRUE]
  /\ UNCHANGED <<srv, toServer, toClient, posThread, tries, visits, sessHistory>>

\* disconnect() ends when the position thread has.
LeaveJoins ==
  /\ menu = "joinPos" /\ posThread \in {"none", "done"}
  /\ menu' = "joinTries" /\ posThread' = "none"
  /\ UNCHANGED <<endsVars, screen, tries, visits, sessHistory>>

\* ~InLobbyMenu ends when the thread of the tries has.
BackToList ==
  /\ menu = "joinTries" /\ tries.pc = "over"
  /\ menu' = "list"
  /\ UNCHANGED <<endsVars, posThread, screen, tries, visits, sessHistory>>

-----------------------------------------------------------------------------
(* The position thread (_posLoop).                                         *)

PosGoes(from, to) == posThread = from /\ posThread' = to

PosTest ==
  /\ PosGoes("test", IF conn.init THEN "inside" ELSE "done")
  /\ UNCHANGED <<endsVars, screenVars, sessHistory>>

\* The packet is built from *_me, under meMutex.
PosBuild ==
  /\ PosGoes("inside", "built")
  /\ died' = IF conn.me THEN died ELSE "null"
  /\ UNCHANGED <<endsVars, screenVars, left, crossed, late, accused, toldTimeout>>

PosSend ==
  /\ PosGoes("built", "sleep") /\ (Joined => Len(toServer) < MaxFlight)
  /\ toServer' = SentToServer("position")
  /\ crossed' = IF left = "now" THEN crossed \cup {"position"} ELSE crossed
  /\ UNCHANGED <<conn, srv, toClient, screenVars, left, late, accused,
                 toldTimeout, died>>

PosSleep ==
  /\ PosGoes("sleep", "test")
  /\ UNCHANGED <<endsVars, screenVars, sessHistory>>

-----------------------------------------------------------------------------
(* The net thread of the client.                                           *)

Receives(p) ==
  conn.connected /\ toClient # <<>> /\ Head(toClient) = p /\ toClient' = Tail(toClient)

\* Olleh opens the session and starts the position thread: assigning over a
\* thread that was not joined ends the program.  onConnect is the screen's only
\* while the screen has its callbacks in place.
ReceiveOlleh ==
  /\ Receives("olleh")
  /\ conn' = [conn EXCEPT !.init = TRUE, !.me = TRUE]
  /\ posThread' = "test"
  /\ died' = IF posThread = "none" THEN died ELSE "terminate"
  /\ IF menu \in {"screen", "closing"}
     THEN screen' = [screen EXCEPT !.ready = TRUE] /\ UNCHANGED late
     ELSE late' = TRUE /\ UNCHANGED screen
  /\ UNCHANGED <<srv, toServer, menu, tries, visits, left, crossed, accused, toldTimeout>>

\* A packet about the others, in order: with no session, it is an error of the
\* server's, and error() closes the socket.  (onError tells the screen too.)
ReceiveOther ==
  /\ Receives("other")
  /\ IF conn.init THEN UNCHANGED <<conn, accused, screen>>
     ELSE /\ conn' = [conn EXCEPT !.connected = FALSE]
          /\ accused' = accused \cup {"server"}
          /\ screen' = IF menu \in {"screen", "closing"}
                       THEN [screen EXCEPT !.wasConnected = TRUE] ELSE screen
  /\ UNCHANGED <<srv, toServer, posThread, menu, tries, visits, left, crossed,
                 late, toldTimeout, died>>

\* Mutant: Kicked clears the player as disconnect() does.
ReceiveKickedClears ==
  /\ Receives("kicked")
  /\ conn' = [connected |-> FALSE, init |-> FALSE, me |-> FALSE]
  /\ UNCHANGED <<srv, toServer, posThread, screenVars, sessHistory>>

\* Kicked closes the session and the socket; _me stays.
ReceiveKicked ==
  /\ Receives("kicked")
  /\ conn' = [conn EXCEPT !.init = FALSE, !.connected = FALSE]
  /\ UNCHANGED <<srv, toServer, posThread, screenVars, sessHistory>>

\* The end of the stream: onError, then onDisconnect, which stays the screen's
\* until the destructor of the screen clears it.
ReceiveEnd ==
  /\ Receives("end")
  /\ conn' = [conn EXCEPT !.init = FALSE, !.connected = FALSE]
  /\ screen' = IF menu \in {"screen", "closing"}
               THEN [screen EXCEPT !.wasConnected = TRUE, !.disconnected = TRUE]
               ELSE screen
  /\ UNCHANGED <<srv, toServer, posThread, menu, tries, visits, sessHistory>>

-----------------------------------------------------------------------------
(* The server's connection.                                                *)

Handles(p) ==
  srv.open /\ toServer # <<>> /\ Head(toServer) = p /\ toServer' = Tail(toServer)

ToClient(ps) ==
  IF conn.connected
  THEN Len(toClient) + Len(ps) <= MaxFlight /\ toClient' = toClient \o ps
  ELSE UNCHANGED toClient

Unkicked == UNCHANGED <<conn, posThread, screenVars, left, crossed, late, toldTimeout, died>>

\* Mutant: the others are told of before Olleh is.
HandleHelloOthersFirst ==
  /\ Handles("hello")
  /\ \/ srv.init /\ UNCHANGED <<srv, toClient>>
     \/ ~srv.init /\ srv' = [srv EXCEPT !.init = TRUE] /\ ToClient(<<"other", "olleh">>)
     \/ ~srv.init /\ srv' = [open |-> FALSE, init |-> FALSE] /\ ToClient(<<"kicked">>)
  /\ UNCHANGED accused /\ Unkicked

\* Hello joins the lobby (onJoin sends Olleh before anything else) or is refused;
\* a Hello that was repeated finds the session open and is ignored.
HandleHello ==
  /\ Handles("hello")
  /\ \/ srv.init /\ UNCHANGED <<srv, toClient>>
     \/ ~srv.init /\ srv' = [srv EXCEPT !.init = TRUE] /\ ToClient(<<"olleh">>)
     \/ ~srv.init /\ srv' = [open |-> FALSE, init |-> FALSE] /\ ToClient(<<"kicked">>)
  /\ UNCHANGED accused /\ Unkicked

HandleLeave ==
  /\ Handles("leave") /\ srv.init
  /\ srv' = [srv EXCEPT !.init = FALSE]
  /\ UNCHANGED <<toClient, accused>> /\ Unkicked

\* Any other packet, with no session, gets its sender kicked.
HandlePosition ==
  /\ Handles("position")
  /\ IF srv.init THEN UNCHANGED <<srv, toClient, accused>>
     ELSE /\ srv' = [srv EXCEPT !.open = FALSE]
          /\ ToClient(<<"kicked">>)
          /\ accused' = accused \cup {"client"}
  /\ Unkicked

\* The other players move, join, talk.
Broadcast ==
  /\ srv.open /\ srv.init /\ ToClient(<<"other">>)
  /\ UNCHANGED <<srv, toServer, accused>> /\ Unkicked

\* A moderator kicks the player, or the server goes down.
ServerEnds ==
  /\ srv.open
  /\ srv' = [open |-> FALSE, init |-> FALSE]
  /\ \E p \in {"kicked", "end"} : ToClient(<<p>>)
  /\ UNCHANGED <<toServer, accused>> /\ Unkicked

\* The server sees that the client closed its socket.
ServerHangsUp ==
  /\ srv.open /\ ~conn.connected /\ toServer = <<>>
  /\ srv' = [open |-> FALSE, init |-> FALSE]
  /\ UNCHANGED <<toServer, toClient, accused>> /\ Unkicked

Screen == EnterLobby \/ PlayerLeaves \/ ScreenCloses \/ Destroy \/ LeaveClears
          \/ LeaveJoins \/ BackToList
Trying == TryCheck \/ TrySend \/ TimesOut
Position == PosTest \/ PosBuild \/ PosSend \/ PosSleep
Net == ReceiveOlleh \/ ReceiveOther \/ ReceiveKicked \/ ReceiveEnd
Server == HandleHello \/ HandleLeave \/ HandlePosition \/ Broadcast
          \/ ServerEnds \/ ServerHangsUp

SessionNext == died = "no" /\ (Screen \/ Trying \/ Position \/ Net \/ Server)

\* The client's threads keep running.  The player need not enter or leave, and
\* nothing is asked of the server: it may never read a Hello.
SessionFairness ==
  /\ WF_sessionVars(died = "no" /\ (Trying \/ ScreenCloses))
  /\ WF_sessionVars(died = "no" /\ Position)
  /\ WF_sessionVars(died = "no" /\ (Destroy \/ LeaveClears \/ LeaveJoins \/ BackToList))
  /\ WF_sessionVars(died = "no" /\ Net)

SessionSpec == SessionInit /\ [][SessionNext]_sessionVars /\ SessionFairness

-----------------------------------------------------------------------------
(* Properties.                                                             *)

\* The type invariant.
SessionTypeOK ==
  /\ conn \in [connected : BOOLEAN, init : BOOLEAN, me : BOOLEAN]
  /\ srv \in [open : BOOLEAN, init : BOOLEAN]
  /\ posThread \in {"none", "test", "inside", "built", "sleep", "done"}
  /\ menu \in {"list", "screen", "closing", "leaving", "joinPos", "joinTries"}
  /\ screen \in [wasConnected : BOOLEAN, disconnected : BOOLEAN, ready : BOOLEAN]
  /\ tries \in [pc : {"check", "send", "over"}, left : 0..JoinTries]
  /\ Len(toServer) <= MaxFlight + MaxVisits * (JoinTries + 1) /\ Len(toClient) <= MaxFlight
  /\ visits \in 0..MaxVisits
  /\ crossed \subseteq {"hello", "position"} /\ accused \subseteq {"server", "client"}

\* The program only dies while the player is leaving: of a position thread that
\* is past its test when disconnect() clears _me, or of a Hello that the thread
\* of the tries sent after the Leave.  A session that the server ends, repeated
\* Hellos and a lobby entered again never kill it.
DiesOnlyLeaving ==
  /\ died = "null" => left = "now"
  /\ died = "terminate" => "hello" \in crossed

\* A screen on an open session has had its onConnect (the machines, the map and
\* the music of this lobby), unless an Olleh came after the screen that had asked
\* for it was gone: connect() then has nothing left to ask.
ScreenIsReady == menu = "screen" /\ conn.init => screen.ready \/ late

\* Neither end complains of the other's handshake, unless the player left: the
\* client of a packet that the server sent before it read the Leave, the server
\* of a position that the client sent after it.
HandshakeKept ==
  /\ "server" \in accused => left # "no"
  /\ "client" \in accused => "position" \in crossed

\* Once everything in flight has arrived, a player back in the list is out of the
\* lobby, unless an Olleh came after the screen had gone.
NoGhosts ==
  menu = "list" /\ srv.init /\ conn.connected /\ toServer = <<>> /\ toClient = <<>> => late

\* The lobby screen and the session go together.
ScreenMatchesSession == ScreenIsReady /\ NoGhosts

\* The screen does not stay at "Connecting": the player gets in or back to the
\* list, even when no Hello is ever answered.
JoiningEnds ==
  (menu = "screen" /\ ~conn.init) ~> (conn.init \/ menu = "list" \/ died # "no")

\* The tries time out only for a player who has not joined.
TimedOutMeansNotJoined == ~toldTimeout

=============================================================================
