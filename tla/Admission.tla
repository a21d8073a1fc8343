------------------------------ MODULE Admission ------------------------------
(***************************************************************************)
(* Who may come in, and under what name: the parts of Hello that           *)
(* LobbyServer leaves out.  A net thread searches the ban list, stores the *)
(* name the client asks for, looks among the names of all the connections  *)
(* until it finds a free one, stores that, and only later marks the        *)
(* connection as one of the lobby.  Other net threads do the same, and an  *)
(* operator bans, meanwhile; of all this only one pass over the            *)
(* connections, and the operator's, are under _connectionsMutex.           *)
(***************************************************************************)
EXTENDS Naturals, Sequences, FiniteSets

CONSTANTS
  Conn,   \* connections
  Ip,     \* addresses
  Wanted  \* the names clients ask for

\* A name is a sequence of numbers, which stand for its letters; <<>> is the empty one.
ASSUME AdmissionAssumption == Wanted \subseteq Seq(Nat)

VARIABLES
  place,   \* where the net thread is
  closed,  \* ~_connected
  ip,      \* getIp()
  name,    \* _name
  result,  \* result and nb of _sanitizeName
  banned,  \* _banList: the addresses in it
  op,      \* what the operator does, to which address or connections
  raced,   \* history: pairs of connections that chose their names at the same time
  slipped  \* history: connections that were past the search when their address was banned

admissionVars == <<place, closed, ip, name, result, banned, op, raced, slipped>>

\* "free" before it is accepted and once it is destroyed; "naming" from the first store of
\* the name to "chosen", before the second; "joining" until _init.
Places == {"free", "hello", "naming", "chosen", "joining", "in"}
Idle == [does |-> "nothing", ip |-> {}, conns |-> {}]
Choosing(c) == place[c] \in {"naming", "chosen"}
PastSearch(c) == Choosing(c) \/ place[c] = "joining"

\* The n-th name tried for w.
Candidate(w, n) == IF n = 0 /\ w # <<>> THEN w
                   ELSE Append(w, IF w = <<>> THEN n ELSE n - 1)

AdmissionInit ==
  /\ place = [c \in Conn |-> "free"] /\ closed = [c \in Conn |-> FALSE]
  /\ ip \in [Conn -> Ip] /\ name = [c \in Conn |-> <<>>]
  /\ result = [c \in Conn |-> 0]
  /\ banned = {} /\ op = Idle /\ raced = {} /\ slipped = {}

Goes(c, where) == place' = [place EXCEPT ![c] = where]
Operator == <<banned, op>>

Accept(c) ==
  /\ place[c] = "free" /\ Goes(c, "hello")
  /\ \E i \in Ip : ip' = [ip EXCEPT ![c] = i]
  /\ closed' = [closed EXCEPT ![c] = FALSE]
  /\ name' = [name EXCEPT ![c] = <<>>]
  /\ raced' = {p \in raced : c \notin p} /\ slipped' = slipped \ {c}
  /\ UNCHANGED <<result, Operator>>

\* Mutant: the search compares the address with its port, as the argument ip has it.
IsBannedWithPort(c) == FALSE

IsBanned(c) == ip[c] \in banned

\* onJoin, up to _sanitizeName: a connection whose address is banned is kicked.
Hello(c) ==
  /\ place[c] = "hello" /\ ~closed[c]
  /\ IF IsBanned(c)
     THEN /\ closed' = [closed EXCEPT ![c] = TRUE]
          /\ UNCHANGED <<place, name, result, raced, slipped>>
     ELSE /\ Goes(c, "naming") /\ UNCHANGED closed
          /\ \E w \in Wanted : name' = [name EXCEPT ![c] = w]
          /\ result' = [result EXCEPT ![c] = 0]
          /\ raced' = {p \in raced : c \notin p} \cup {{c, d} : d \in {x \in Conn : Choosing(x)}}
          /\ slipped' = slipped \ {c}
  /\ UNCHANGED <<ip, Operator>>

\* Mutant: only the names of the lobby's members are looked at.
TakenByMembers(c, n) == \E d \in Conn \ {c} : place[d] = "in" /\ name[d] = n

Taken(c, n) == \E d \in Conn \ {c} : place[d] # "free" /\ name[d] = n

\* A pass of _sanitizeName over the connections, closed ones included.
Pass(c) ==
  /\ place[c] = "naming"
  /\ IF Taken(c, Candidate(name[c], result[c]))
     THEN result' = [result EXCEPT ![c] = @ + 1] /\ UNCHANGED place
     ELSE Goes(c, "chosen") /\ UNCHANGED result
  /\ UNCHANGED <<closed, ip, name, Operator, raced, slipped>>

Store(c) ==
  /\ place[c] = "chosen" /\ Goes(c, "joining")
  /\ name' = [name EXCEPT ![c] = Candidate(@, result[c])]
  /\ UNCHANGED <<closed, ip, result, Operator, raced, slipped>>

\* _init = true, after the section that tells the others.
Admit(c) ==
  /\ place[c] = "joining" /\ Goes(c, "in")
  /\ UNCHANGED <<closed, ip, name, result, Operator, raced, slipped>>

\* PlayerLeave keeps the socket and the name.
Leave(c) ==
  /\ place[c] = "in" /\ Goes(c, "hello")
  /\ UNCHANGED <<closed, ip, name, result, Operator, raced, slipped>>

Drop(c) ==
  /\ place[c] \in {"hello", "in"} /\ Goes(c, "hello")
  /\ closed' = [closed EXCEPT ![c] = TRUE]
  /\ UNCHANGED <<ip, name, result, Operator, raced, slipped>>

\* The thread has ended: the connection is destroyed.
Reap(c) ==
  /\ closed[c] /\ place[c] \in {"hello", "in"} /\ Goes(c, "free")
  /\ c \notin op.conns
  /\ UNCHANGED <<closed, ip, name, result, Operator, raced, slipped>>

(***************************************************************************)
(* The operator.                                                           *)
(***************************************************************************)
ThoseAt(i) == {c \in Conn : ip[c] = i}
OpKeeps == UNCHANGED <<ip, name, result, raced>>

\* /banip: the address is banned first.
BanIp(i) ==
  /\ op.does = "nothing"
  /\ banned' = banned \cup {i}
  /\ op' = [does |-> "collect", ip |-> i, conns |-> {}]
  /\ UNCHANGED <<place, closed, slipped>> /\ OpKeeps

\* Then the members with that address are collected, under the mutex.
Collect ==
  /\ op.does = "collect"
  /\ op' = [op EXCEPT !.does = "kick", !.conns = {c \in ThoseAt(op.ip) : place[c] = "in"}]
  /\ slipped' = slipped \cup {c \in ThoseAt(op.ip) : PastSearch(c)}
  /\ UNCHANGED <<banned, place, closed>> /\ OpKeeps

\* /ban names one player, and kicks that one only.
Ban(c) ==
  /\ op.does = "nothing" /\ place[c] = "in"
  /\ banned' = banned \cup {ip[c]}
  /\ op' = [does |-> "kick", ip |-> ip[c], conns |-> {c}]
  /\ slipped' = slipped \cup {d \in ThoseAt(ip[c]) \ {c} : PastSearch(d) \/ place[d] = "in"}
  /\ UNCHANGED <<place, closed>> /\ OpKeeps

\* kick: it clears _init, which a thread in the middle of another Hello sets again.
Kick(c) ==
  /\ op.does = "kick" /\ c \in op.conns
  /\ closed' = [closed EXCEPT ![c] = TRUE]
  /\ place' = IF place[c] = "in" THEN [place EXCEPT ![c] = "hello"] ELSE place
  /\ op' = [op EXCEPT !.conns = @ \ {c}]
  /\ UNCHANGED <<banned, slipped>> /\ OpKeeps

Kicked ==
  /\ op.does = "kick" /\ op.conns = {}
  /\ op' = Idle
  /\ UNCHANGED <<place, closed, banned, slipped>> /\ OpKeeps

AdmissionNext ==
  \/ \E c \in Conn : \/ Accept(c) \/ Hello(c) \/ Pass(c) \/ Store(c) \/ Admit(c)
                     \/ Leave(c) \/ Drop(c) \/ Reap(c) \/ Ban(c) \/ Kick(c)
  \/ \E i \in Ip : BanIp(i)
  \/ Collect \/ Kicked

AdmissionSpec == AdmissionInit /\ [][AdmissionNext]_admissionVars

(***************************************************************************)
(* Properties.                                                             *)
(***************************************************************************)
\* The type invariant.
AdmissionTypeOK ==
  /\ place \in [Conn -> Places] /\ closed \in [Conn -> BOOLEAN]
  /\ ip \in [Conn -> Ip]
  /\ result \in [Conn -> Nat] /\ banned \subseteq Ip
  /\ op.does \in {"nothing", "collect", "kick"} /\ op.conns \subseteq Conn
  /\ slipped \subseteq Conn /\ raced \subseteq SUBSET Conn

\* Two members of the lobby have different names, whatever names are asked for, unless
\* they chose them at the same time.
NamesDiffer ==
  \A c, d \in Conn :
    c # d /\ place[c] = "in" /\ place[d] = "in" /\ name[c] = name[d] => {c, d} \in raced

\* When a ban is over nobody with the banned address is in the lobby, and nobody comes in
\* with it later, unless the search of the ban list was behind him when the members were
\* collected, or another player of the same address was banned by name.
BannedAreOut ==
  op.does = "nothing" =>
    \A c \in Conn : place[c] = "in" /\ ~closed[c] /\ ip[c] \in banned => c \in slipped
=============================================================================
