---------------------------- MODULE LobbyRegistry ----------------------------
(***************************************************************************)
(* How lobbies get on the main server's list and off it: the registration  *)
(* thread of a lobby (Server::_registerToMainServer) and the main server   *)
(* (MainServer/main.cpp), which keeps an Entry per connection, listed once *)
(* it has been sent a port.                                                *)
(*                                                                         *)
(* A link is a TCP connection.  wire says what became of it:               *)
(*   "up"     both ends are open                                           *)
(*   "lost"   nothing gets through any more, and nobody has been told      *)
(*   "fin"    the lobby has closed its end                                 *)
(*   "hup"    the main server has closed its end: one more send succeeds   *)
(*   "reset"  the lobby's next send says Disconnected                      *)
(*   "free"   there is no such connection                                  *)
(* Time goes by in windows of ten seconds, the period of the registration  *)
(* thread; the main server's loop runs every second.  Prompt is what this  *)
(* assumes of the scheduling.                                              *)
(***************************************************************************)
EXTENDS Naturals, FiniteSets

CONSTANTS
  Lobby,      \* the lobby servers
  Link,       \* bound: how many connections there are at a time
  NoLink,     \* a socket that is not connected
  Limit,      \* the timeout of 30 seconds, in windows
  MaxFaults   \* bound: how often a link is lost or the main server ends

ASSUME RegistryAssumption ==
  /\ Lobby # {}
  /\ NoLink \notin Link
  /\ Limit \in Nat \ {0}
  /\ MaxFaults \in Nat

VARIABLES
  life,     \* Lobby: "new", "open" (_opened) or "closed"
  sock,     \* Lobby: the link of its registration thread
  sent,     \* Lobby: its thread has been through the loop in this window
  wire,     \* Link: see above
  owner,    \* Link: the lobby at the other end
  far,      \* Link: "none", "backlog" (not accepted yet) or "entry" of the main server
  box,      \* Link: how many messages the main server has yet to read
  port,     \* Link: the entry has been told a port, and is listed
  age,      \* Link: the windows since Entry::last, as far as Limit + 1
  serving,  \* the main server runs
  swept,    \* its update loop has run since the last message was sent
  faults    \* how many faults so far

lobbyVars == <<life, sock, sent>>
entryVars == <<far, box, port, age>>
vars == <<lobbyVars, wire, owner, entryVars, serving, swept, faults>>

Init ==
  /\ life = [l \in Lobby |-> "new"]
  /\ sock = [l \in Lobby |-> NoLink]
  /\ sent = [l \in Lobby |-> FALSE]
  /\ wire = [k \in Link |-> "free"]
  /\ owner = [k \in Link |-> CHOOSE l \in Lobby : TRUE]
  /\ far = [k \in Link |-> "none"]
  /\ box = [k \in Link |-> 0]
  /\ port = [k \in Link |-> FALSE]
  /\ age = [k \in Link |-> 0]
  /\ serving = TRUE
  /\ swept = FALSE
  /\ faults = 0

-----------------------------------------------------------------------------
(* The lobby.                                                              *)

\* What is left of a link when the lobby lets go of it.
LetGo(k) == IF wire[k] = "up" THEN "fin" ELSE IF far[k] # "none" THEN "lost" ELSE "free"

\* connect(): the socket's old connection is given up; the new one (free links are all
\* alike) waits to be accepted.  The result is not looked at.
Connect(l) ==
  /\ \/ /\ serving /\ \E k \in Link : wire[k] = "free"
        /\ LET k == CHOOSE j \in Link : wire[j] = "free"
           IN /\ sock' = [sock EXCEPT ![l] = k]
              /\ owner' = [owner EXCEPT ![k] = l]
              /\ far' = [far EXCEPT ![k] = "backlog"]
              /\ box' = [box EXCEPT ![k] = 0]
              /\ port' = [port EXCEPT ![k] = FALSE]
              /\ age' = [age EXCEPT ![k] = 0]
     \/ /\ ~serving
        /\ sock' = [sock EXCEPT ![l] = NoLink]
        /\ UNCHANGED <<owner, entryVars>>
  /\ wire' = [j \in Link |-> IF j = sock'[l] THEN "up"
                             ELSE IF j = sock[l] THEN LetGo(j) ELSE wire[j]]

\* The lobby opens and its registration thread connects.
Open(l) ==
  /\ life[l] = "new"
  /\ life' = [life EXCEPT ![l] = "open"]
  /\ Connect(l)
  /\ UNCHANGED <<sent, serving, swept, faults>>

\* Mutant: the thread does not sleep.
RegisterSleepless(l) ==
  /\ life[l] = "open" /\ sock[l] # NoLink /\ wire[sock[l]] = "up"
  /\ sent' = [sent EXCEPT ![l] = TRUE]
  /\ box' = [box EXCEPT ![sock[l]] = @ + 1]
  /\ swept' = FALSE
  /\ UNCHANGED <<life, sock, wire, owner, far, port, age, serving, faults>>

\* One round of the registration thread: the port is sent; a send that says Disconnected
\* makes it connect, and the port goes out in the next round.
Register(l) ==
  /\ life[l] = "open" /\ ~sent[l]
  /\ sent' = [sent EXCEPT ![l] = TRUE]
  /\ LET k == sock[l]
     IN IF k = NoLink \/ wire[k] = "reset" THEN Connect(l)
        ELSE /\ box' = IF wire[k] = "up" THEN [box EXCEPT ![k] = @ + 1] ELSE box
             /\ wire' = IF wire[k] = "hup" THEN [wire EXCEPT ![k] = "reset"] ELSE wire
             /\ UNCHANGED <<sock, owner, far, port, age>>
  /\ swept' = FALSE
  /\ UNCHANGED <<life, serving, faults>>

\* The lobby closes, and its registration thread ends.
CloseLobby(l) ==
  /\ life[l] = "open"
  /\ life' = [life EXCEPT ![l] = "closed"]
  /\ wire' = [k \in Link |-> IF k = sock[l] THEN LetGo(k) ELSE wire[k]]
  /\ sock' = [sock EXCEPT ![l] = NoLink]
  /\ swept' = FALSE
  /\ UNCHANGED <<sent, owner, entryVars, serving, faults>>

-----------------------------------------------------------------------------
(* The main server.                                                        *)

\* The accept thread.
AcceptEntry(k) ==
  /\ serving /\ far[k] = "backlog"
  /\ far' = [far EXCEPT ![k] = "entry"]
  /\ swept' = FALSE
  /\ UNCHANGED <<lobbyVars, wire, owner, box, port, age, serving, faults>>

\* The entries a pass of the update loop reads a message of, and those it removes: their
\* lobby has closed, or was silent for too long.  Mutant: without the timeout.
Read(k) == far[k] = "entry" /\ box[k] > 0
RemovedClosed(k) == far[k] = "entry" /\ ~Read(k) /\ wire[k] = "fin"
Removed(k) == far[k] = "entry" /\ ~Read(k) /\ (wire[k] = "fin" \/ age[k] > Limit)

\* Mutant: only the first message counts as a sign of life.
UpdateFirst ==
  /\ serving
  /\ far' = [k \in Link |-> IF Removed(k) THEN "none" ELSE far[k]]
  /\ wire' = [k \in Link |-> IF Removed(k) THEN "hup" ELSE wire[k]]
  /\ box' = [k \in Link |-> IF Read(k) THEN box[k] - 1 ELSE box[k]]
  /\ age' = [k \in Link |-> IF Read(k) /\ ~port[k] THEN 0 ELSE age[k]]
  /\ port' = [k \in Link |-> (port[k] \/ Read(k)) /\ ~Removed(k)]
  /\ swept' = TRUE
  /\ UNCHANGED <<lobbyVars, owner, serving, faults>>

\* One pass over the entries, under the mutex: a message is read from each that has
\* one, and those that are gone or were not heard of in time are removed.
Update ==
  /\ serving
  /\ far' = [k \in Link |-> IF Removed(k) THEN "none" ELSE far[k]]
  /\ wire' = [k \in Link |->
       IF ~Removed(k) THEN wire[k]
       ELSE IF wire[k] = "up" THEN "hup"
       ELSE IF \E l \in Lobby : sock[l] = k THEN wire[k] ELSE "free"]
  /\ box' = [k \in Link |-> IF Read(k) THEN box[k] - 1 ELSE box[k]]
  /\ age' = [k \in Link |-> IF Read(k) THEN 0 ELSE age[k]]
  /\ port' = [k \in Link |-> (port[k] \/ Read(k)) /\ ~Removed(k)]
  /\ swept' = TRUE
  /\ UNCHANGED <<lobbyVars, owner, serving, faults>>

-----------------------------------------------------------------------------
(* Faults, and what the operating systems do about them.                   *)

Lose(k) ==
  /\ faults < MaxFaults /\ wire[k] = "up"
  /\ wire' = [wire EXCEPT ![k] = "lost"]
  /\ box' = [box EXCEPT ![k] = 0]
  /\ faults' = faults + 1
  /\ UNCHANGED <<lobbyVars, owner, far, port, age, serving, swept>>

\* The lobby's system gives up on a link that answers nothing.
Notice(l) ==
  /\ sock[l] # NoLink /\ wire[sock[l]] = "lost"
  /\ wire' = [wire EXCEPT ![sock[l]] = "reset"]
  /\ UNCHANGED <<lobbyVars, owner, entryVars, serving, swept, faults>>

\* The main server ends, and all its entries with it; and it starts again.
CrashRegistry ==
  /\ serving /\ faults < MaxFaults
  /\ serving' = FALSE
  /\ far' = [k \in Link |-> "none"]
  /\ port' = [k \in Link |-> FALSE]
  /\ wire' = [k \in Link |-> IF wire[k] = "up" THEN "hup"
                             ELSE IF \E l \in Lobby : sock[l] = k THEN wire[k] ELSE "free"]
  /\ box' = [k \in Link |-> 0]
  /\ faults' = faults + 1
  /\ UNCHANGED <<lobbyVars, owner, age, swept>>
RestartRegistry ==
  /\ ~serving
  /\ serving' = TRUE
  /\ swept' = FALSE
  /\ UNCHANGED <<lobbyVars, wire, owner, entryVars, faults>>

\* Every thread goes through its loop at least once in a window: sleeps of ten seconds
\* in the lobby, of one second in the main server, and no call that blocks for long.
Prompt ==
  /\ \A l \in Lobby : life[l] = "open" => sent[l]
  /\ serving => swept /\ \A k \in Link : far[k] # "backlog" /\ ~Read(k)

Tick ==
  /\ Prompt
  /\ \E l \in Lobby : life[l] # "new"
  /\ age' = [k \in Link |-> IF far[k] # "entry" THEN 0
                             ELSE IF age[k] > Limit THEN age[k] ELSE age[k] + 1]
  /\ sent' = [l \in Lobby |-> FALSE]
  /\ swept' = FALSE
  /\ UNCHANGED <<life, sock, wire, owner, far, box, port, serving, faults>>

Next ==
  \/ \E l \in Lobby : Open(l) \/ Register(l) \/ CloseLobby(l) \/ Notice(l)
  \/ \E k \in Link : AcceptEntry(k) \/ Lose(k)
  \/ Update
  \/ CrashRegistry
  \/ RestartRegistry
  \/ Tick

\* The threads run on, and time goes by.  Nobody has to open or close a lobby, to
\* restart the main server, or to break anything.
Fairness ==
  /\ \A l \in Lobby : WF_vars(Register(l)) /\ WF_vars(Notice(l))
  /\ \A k \in Link : WF_vars(AcceptEntry(k))
  /\ WF_vars(Update)
  /\ WF_vars(Tick)

Spec == Init /\ [][Next]_vars /\ Fairness

-----------------------------------------------------------------------------
(* Properties.                                                             *)

\* Whether a client that asks for the list is told of l.
Listed(l) == serving /\ \E k \in Link : far[k] = "entry" /\ port[k] /\ owner[k] = l

\* Every variable has its type; a link never holds more than two messages to read.
TypeOK ==
  /\ life \in [Lobby -> {"new", "open", "closed"}]
  /\ sock \in [Lobby -> Link \cup {NoLink}]
  /\ sent \in [Lobby -> BOOLEAN]
  /\ wire \in [Link -> {"up", "lost", "fin", "hup", "reset", "free"}]
  /\ owner \in [Link -> Lobby]
  /\ far \in [Link -> {"none", "backlog", "entry"}]
  /\ box \in [Link -> 0..2]
  /\ port \in [Link -> BOOLEAN]
  /\ age \in [Link -> 0..(Limit + 1)]
  /\ serving \in BOOLEAN
  /\ swept \in BOOLEAN
  /\ faults \in 0..MaxFaults

\* A lobby that is up and connected is not forgotten: its messages come three times as
\* often as the main server's timeout asks for.
NoFalseTimeout ==
  [][\A k \in Link : far[k] = "entry" /\ wire[k] = "up" /\ serving' => far'[k] = "entry"]_vars

\* Whatever was lost, the list is right in the end: a lobby that stays open is on it for
\* good, as long as there is a main server, and one that has closed leaves it, even when
\* nobody could tell the main server.
ListRightInTheEnd ==
  \A l \in Lobby :
    /\ <>[](serving /\ life[l] = "open") => <>[]Listed(l)
    /\ life[l] = "closed" ~> ~Listed(l)

=============================================================================
