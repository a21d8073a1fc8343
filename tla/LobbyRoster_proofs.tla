-------------------------- MODULE LobbyRoster_proofs --------------------------
(***************************************************************************)
(* Theorems about who is in the lobby of LobbyServer, who is told of whom, *)
(* and how many are counted, for any connections, machines and bounds.     *)
(***************************************************************************)
EXTENDS LobbyServer_proofs, FiniteSetTheorems

-----------------------------------------------------------------------------
(* Sessions.                                                               *)

\* A thread that is at work has its Connection, one that is joining has no player yet, one
\* that works for its player has an open socket, and what the reaping destroys is closed.
Sessions ==
  \A c \in Conn : /\ pc[c] # "ready" => link[c] # "free"
                  /\ pc[c] \in {"joining", "admitted"} => ~init[c]
                  /\ up /\ init[c] /\ pc[c] # "ready" => link[c] = "open"
                  /\ mpc = "join" /\ c \in batch => link[c] = "closed"

\* Sessions holds when the server starts.
LEMMA SessionsInit == Init => Sessions
BY DEF Init, Sessions

\* Every step keeps Sessions: the reaping waits for the threads, and only Admit sets _init.
LEMMA SessionsNext == TypeOK /\ Sessions /\ [Next]_vars => Sessions'
<1> SUFFICES ASSUME TypeOK, Sessions, [Next]_vars PROVE Sessions'
  OBVIOUS
<1> USE DEF TypeOK, Sessions
<1>1. CASE UNCHANGED vars
  BY <1>1 DEF vars, memberVars, threadVars, mainVars
<1> USE DEF memberVars, arcadeVars, threadVars, mainVars
<1>2. ASSUME NEW c \in Conn, NetThread(c) PROVE Sessions'
  <2>1. ASSUME NEW p \in Profile, Hello(c, p) PROVE Sessions'
    BY <2>1 DEF Hello, Receives
  <2>2. CASE JoinSection(c)
    BY <2>2 DEF JoinSection
  <2>3. CASE Admit(c)
    BY <2>3 DEF Admit
  <2>4. CASE PlayerLeave(c) \/ Drop(c)
    BY <2>4 DEF PlayerLeave, Drop, Receives
  <2>5. ASSUME NEW st \in Status, Report(c, st) PROVE Sessions'
    BY <2>5 DEF Report
  <2>6. ASSUME NEW m \in Machine, GameRequest(c, m) PROVE Sessions'
    BY <2>6 DEF GameRequest, Receives
  <2>7. ASSUME NEW d \in Conn, JoinCommand(c, d) PROVE Sessions'
    BY <2>7 DEF JoinCommand, Receives
  <2>8. CASE IgnoreCommand(c) \/ JoinArcade(c) \/ StartSection(c)
    BY <2>8 DEF IgnoreCommand, JoinArcade, StartSection
  <2>9. CASE GameStart(c) \/ ArcadeLeave(c)
    BY <2>9 DEF GameStart, ArcadeLeave, Receives
  <2>10. CASE Farewell(c)
    BY <2>10 DEF Farewell
  <2>11. CASE Settle(c) \/ Unseat(c)
    BY <2>11 DEF Settle, Unseat, Close
  <2>12. CASE Crash(c)
    BY <2>12 DEF Crash
  <2> QED
    BY <1>2, <2>1, <2>2, <2>3, <2>4, <2>5, <2>6, <2>7, <2>8, <2>9, <2>10, <2>11, <2>12
    DEF NetThread
<1>3. CASE MainThread
  <2>1. ASSUME NEW c \in Conn, Accept(c) PROVE Sessions'
    BY <2>1 DEF Accept
  <2>2. ASSUME NEW c \in Conn, Kick(c) PROVE Sessions'
    BY <2>2 DEF Kick
  <2>3. CASE KickBegin \/ KickFarewell \/ KickSettle \/ KickUnseat
    BY <2>3 DEF KickBegin, KickFarewell, KickSettle, KickUnseat, Close
  <2>4. CASE SweepBegin \/ Doom \/ ServerClose
    BY <2>4 DEF SweepBegin, Doom, ServerClose
  <2>5. ASSUME NEW c \in Conn, Visit(c) PROVE Sessions'
    BY <2>5 DEF Visit
  <2>6. CASE Destroy
    BY <2>6 DEF Destroy
  <2> QED
    BY <1>3, <2>1, <2>2, <2>3, <2>4, <2>5, <2>6 DEF MainThread, Kicking, Reaping
<1>4. CASE Ended
  BY <1>1, <1>4 DEF Ended
<1> QED
  BY <1>1, <1>2, <1>3, <1>4 DEF Next

-----------------------------------------------------------------------------
(* Versions.                                                               *)

\* _leaveArcade adds nobody to a machine.
LEMMA SeatsAfterMembers ==
  ASSUME TypeOK, NEW c \in Conn, NEW m \in Machine, NEW n \in Machine
  PROVE  Members(SeatsAfter(c, m)[n]) \subseteq Members(machines[n])
<1>1. machines \in [Machine -> Seq(Conn)]
  BY DEF TypeOK
<1>2. CASE n # m
  BY <1>1, <1>2 DEF SeatsAfter
<1>3. CASE n = m /\ EndsGame(c, m)
  <2>1. SeatsAfter(c, m)[n] = <<>>
    BY <1>1, <1>3 DEF SeatsAfter
  <2> QED
    BY <2>1, EmptySeq DEF Members
<1>4. CASE n = m /\ ~EndsGame(c, m)
  <2>1. SeatsAfter(c, m)[n] = Erase(machines[m], c)
    BY <1>1, <1>4 DEF SeatsAfter
  <2>2. CASE c \in Members(machines[m])
    BY <1>1, <1>4, <2>1, <2>2, EraseType DEF Members
  <2>3. CASE c \notin Members(machines[m])
    BY <1>4, <2>1, <2>3 DEF Erase
  <2> QED
    BY <2>2, <2>3
<1> QED
  BY <1>2, <1>3, <1>4

\* Joining a machine adds nobody but the newcomer.
LEMMA SeatsWithMembers ==
  ASSUME NEW c \in Conn, NEW s \in Seq(Conn), NEW st, NEW p1, NEW p2
  PROVE  Members(SeatsWith(c, s, st, p1, p2)) \subseteq Members(s) \cup {c}
<1>1. SeatsWith(c, s, st, p1, p2) \in {<<>>, s, Append(s, c)}
  BY DEF SeatsWith, StartRoom
<1>2. Members(<<>>) = {}
  BY EmptySeq DEF Members
<1>3. Members(Append(s, c)) \subseteq Members(s) \cup {c}
  <2>1. Len(Append(s, c)) = Len(s) + 1 /\ Len(s) \in Nat
    BY LenProperties
  <2>2. \A i \in 1..(Len(s) + 1) : Append(s, c)[i] = IF i = Len(s) + 1 THEN c ELSE s[i]
    OBVIOUS
  <2> QED
    BY <2>1, <2>2 DEF Members
<1> QED
  BY <1>1, <1>2, <1>3

\* The players of machine m of ms all have one version.
Alike(ms, m) == \A c, d \in Members(ms[m]) : profile[c].version = profile[d].version

\* JoinArcade keeps the versions of a machine equal: the first seat speaks for all.
LEMMA JoinArcadeAlike ==
  ASSUME TypeOK, NEW c \in Conn, JoinArcade(c), \A m \in Machine : Alike(machines, m)
  PROVE  \A m \in Machine : Alike(machines', m)
<1> DEFINE leaves == status[c] # "idle"
           out(from) == {c} \cup (IF leaves THEN BootedBy(c, from) ELSE {})
           seats(from) == IF leaves THEN SeatsAfter(c, from) ELSE machines
           m == want[c]
<1>1. m \in Machine
  BY DEF TypeOK, JoinArcade
<1>2. PICK from \in SeatSource(c), p1 \in Pref, p2 \in Pref :
        \/ machines' = seats(from)
        \/ /\ ~Refused(c, seats(from)[m])
           /\ machines' = [seats(from) EXCEPT ![m] = SeatsWith(c, @, status', p1, p2)]
  BY DEF JoinArcade, Reseats
<1>3. from \in Machine
  BY SeatSourceType
<1>4. seats(from) \in [Machine -> Seq(Conn)]
  BY <1>3, SeatOpsType DEF TypeOK
<1>5. \A n \in Machine : Members(seats(from)[n]) \subseteq Members(machines[n])
  BY <1>3, SeatsAfterMembers
<1>6. \A n \in Machine : Alike(seats(from), n)
  BY <1>5 DEF Alike
<1> HIDE DEF seats, m
<1>7. ASSUME ~Refused(c, seats(from)[m]),
             machines' = [seats(from) EXCEPT ![m] = SeatsWith(c, @, status', p1, p2)]
      PROVE  \A n \in Machine : Alike(machines', n)
  <2> DEFINE s == seats(from)[m]
  <2>1. s \in Seq(Conn) /\ Len(s) \in Nat
    BY <1>1, <1>4, LenProperties
  <2>2. Members(machines'[m]) \subseteq Members(s) \cup {c}
    BY <1>1, <1>4, <1>7, <2>1, SeatsWithMembers
  <2>3. \A d \in Members(s) : profile[d].version = profile[c].version
    <3> SUFFICES ASSUME NEW d \in Members(s)
                 PROVE  profile[d].version = profile[c].version
      OBVIOUS
    <3>1. 1 \in 1..Len(s) /\ s # <<>>
      BY <2>1, EmptySeq DEF Members
    <3>2. profile[s[1]].version = profile[c].version
      BY <1>7, <3>1 DEF Refused
    <3>3. s[1] \in Members(s)
      BY <3>1 DEF Members
    <3> QED
      BY <1>1, <1>6, <3>2, <3>3 DEF Alike
  <2>4. Alike(machines', m)
    BY <1>1, <1>6, <2>2, <2>3 DEF Alike
  <2>5. \A n \in Machine \ {m} : machines'[n] = seats(from)[n]
    BY <1>4, <1>7
  <2> QED
    BY <1>6, <2>4, <2>5 DEF Alike
<1> QED
  BY <1>2, <1>6, <1>7

\* The invariant of the versions.
VersionInv == rogue = {} => \A m \in Machine : Alike(machines, m)

\* SameVersionSeats is VersionInv.
LEMMA VersionInvSuffices == VersionInv => SameVersionSeats
BY DEF VersionInv, Alike, SameVersionSeats

\* Steps that give nobody another version and let players only leave.
LEMMA VersionLeave ==
  ASSUME VersionInv, profile' = profile, rogue \subseteq rogue',
         \A m \in Machine : Members(machines'[m]) \subseteq Members(machines[m])
  PROVE  VersionInv'
BY DEF VersionInv, Alike

\* Nobody is at a machine when the server starts.
LEMMA VersionInvInit == Init => VersionInv
<1> SUFFICES ASSUME Init, NEW m \in Machine PROVE Alike(machines, m)
  BY DEF VersionInv
<1>1. Members(machines[m]) = {}
  BY EmptySeq DEF Init, Members
<1> QED
  BY <1>1 DEF Alike

\* Every step keeps VersionInv: a seated player who says Hello again is rogue.
LEMMA VersionInvNext == TypeOK /\ VersionInv /\ [Next]_vars => VersionInv'
<1> SUFFICES ASSUME TypeOK, VersionInv, [Next]_vars PROVE VersionInv'
  OBVIOUS
<1> DEFINE Same == machines' = machines /\ profile' = profile /\ rogue \subseteq rogue'
<1>1. CASE Same
  BY <1>1, VersionLeave
<1>2. UNCHANGED vars => Same
  BY DEF vars, memberVars, arcadeVars, ghostVars
<1> USE DEF memberVars, arcadeVars, threadVars, mainVars, ghostVars
<1>3. ASSUME NEW c \in Conn, NetThread(c) PROVE VersionInv'
  <2>1. ASSUME NEW p \in Profile, Hello(c, p) PROVE VersionInv'
    <3>1. /\ machines' = machines /\ rogue \subseteq rogue'
          /\ profile' = [profile EXCEPT ![c] = p]
          /\ Seated(c) => c \in rogue'
      BY <2>1 DEF Hello
    <3>2. ASSUME rogue' = {}, NEW m \in Machine PROVE Alike(machines, m)'
      <4>1. c \notin Members(machines[m])
        BY <3>1, <3>2 DEF Seated
      <4>2. \A d \in Members(machines[m]) : d \in Conn
        BY ElementOfSeq DEF TypeOK, Members
      <4>3. \A d \in Members(machines[m]) : profile'[d] = profile[d]
        BY <3>1, <4>1, <4>2 DEF TypeOK
      <4> QED
        BY <3>1, <3>2, <4>3 DEF Alike, VersionInv
    <3> QED
      BY <3>2 DEF VersionInv
  <2>2. CASE JoinSection(c) \/ Admit(c) \/ PlayerLeave(c) \/ Drop(c) \/ IgnoreCommand(c)
    BY <1>1, <2>2 DEF JoinSection, Admit, PlayerLeave, Drop, IgnoreCommand
  <2>3. ASSUME NEW st \in Status, Report(c, st) PROVE VersionInv'
    BY <1>1, <2>3 DEF Report
  <2>4. ASSUME NEW m \in Machine, GameRequest(c, m) PROVE VersionInv'
    BY <1>1, <2>4 DEF GameRequest
  <2>5. ASSUME NEW d \in Conn, JoinCommand(c, d) PROVE VersionInv'
    BY <1>1, <2>5 DEF JoinCommand
  <2>6. CASE JoinArcade(c)
    <3>1. rogue \subseteq rogue' /\ profile' = profile
      BY <2>6 DEF JoinArcade
    <3>2. ASSUME rogue' = {} PROVE \A m \in Machine : Alike(machines', m)
      BY <2>6, <3>1, <3>2, JoinArcadeAlike DEF VersionInv
    <3> QED
      BY <3>1, <3>2 DEF VersionInv, Alike
  <2>7. CASE GameStart(c) \/ StartSection(c) \/ Farewell(c) \/ Settle(c) \/ Crash(c)
    BY <1>1, <2>7 DEF GameStart, StartSection, Farewell, Settle, Crash, Close
  <2>8. CASE ArcadeLeave(c)
    <3>1. machineId[c] \in Machine /\ machines' = SeatsAfter(c, machineId[c])
      BY <2>8 DEF ArcadeLeave, TypeOK
    <3>2. profile' = profile /\ rogue' = rogue
      BY <2>8 DEF ArcadeLeave
    <3> QED
      BY <3>1, <3>2, SeatsAfterMembers, VersionLeave
  <2>9. CASE Unseat(c)
    <3>1. PICK m \in SeatSource(c) : machines' = SeatsAfter(c, m)
      BY <2>9 DEF Unseat, LeaveSeat
    <3>2. m \in Machine
      BY SeatSourceType
    <3>3. profile' = profile /\ rogue \subseteq rogue'
      BY <2>9 DEF Unseat, Close
    <3> QED
      BY <3>1, <3>2, <3>3, SeatsAfterMembers, VersionLeave
  <2> QED
    BY <1>3, <2>1, <2>2, <2>3, <2>4, <2>5, <2>6, <2>7, <2>8, <2>9 DEF NetThread
<1>4. CASE MainThread
  <2>1. ASSUME NEW c \in Conn, Accept(c) \/ Kick(c) PROVE VersionInv'
    BY <1>1, <2>1 DEF Accept, Kick
  <2>2. CASE KickBegin \/ KickFarewell \/ KickSettle
    BY <1>1, <2>2 DEF KickBegin, KickFarewell, KickSettle, Close
  <2>3. CASE KickUnseat
    <3>1. kickee \in Conn
      BY <2>3 DEF KickUnseat, TypeOK
    <3>2. PICK m \in SeatSource(kickee) : machines' = SeatsAfter(kickee, m)
      BY <2>3 DEF KickUnseat, LeaveSeat
    <3>3. m \in Machine
      BY <3>1, SeatSourceType
    <3>4. profile' = profile /\ rogue \subseteq rogue'
      BY <2>3 DEF KickUnseat, Close
    <3> QED
      BY <3>1, <3>2, <3>3, <3>4, SeatsAfterMembers, VersionLeave
  <2>4. CASE SweepBegin \/ Doom \/ Destroy \/ ServerClose
    BY <1>1, <2>4 DEF SweepBegin, Doom, Destroy, ServerClose
  <2>5. ASSUME NEW c \in Conn, Visit(c) PROVE VersionInv'
    <3>1. ASSUME NEW m \in Machine PROVE Members(machines'[m]) \subseteq Members(machines[m])
      <4>1. machines'[m] = machines[m] \/ machines'[m] = Erase(machines[m], c)
        BY <2>5, <3>1 DEF Visit
      <4>2. Members(Erase(machines[m], c)) \subseteq Members(machines[m])
        <5>1. machines[m] \in Seq(Conn)
          BY <3>1 DEF TypeOK
        <5>2. CASE c \in Members(machines[m])
          BY <5>1, <5>2, EraseType DEF Members
        <5>3. CASE c \notin Members(machines[m])
          BY <5>3 DEF Erase
        <5> QED
          BY <5>2, <5>3
      <4> QED
        BY <4>1, <4>2
    <3>2. profile' = profile /\ rogue' = rogue
      BY <2>5 DEF Visit
    <3> QED
      BY <3>1, <3>2, VersionLeave
  <2> QED
    BY <1>4, <2>1, <2>2, <2>3, <2>4, <2>5 DEF MainThread, Kicking, Reaping
<1>5. CASE Ended
  BY <1>1, <1>2, <1>5 DEF Ended
<1> QED
  BY <1>1, <1>2, <1>3, <1>4, <1>5 DEF Next

\* The players of a machine have the same netplay version (SameVersionSeats).
THEOREM SameVersionSeatsAlways == Spec => []SameVersionSeats
BY VersionInvInit, VersionInvNext, VersionInvSuffices, TypeCorrect, PTL DEF Spec

-----------------------------------------------------------------------------
(* Rosters.                                                                *)

\* A connection that has not met another's join or leave, and was not kicked, is led by
\* its own thread only: it has a player from Admit to Close.
Settled ==
  up => \A c \in Conn \ overlapped :
          /\ pc[c] # "ready" => link[c] = "open"
          /\ pc[c] \notin {"ready", "joining", "admitted"} => init[c]
          /\ init[c] => link[c] = "open"

KickeeOverlapped == kickee \in Conn => kickee \in overlapped

\* Whoever is there knows exactly the others who are there.
Knows ==
  \A c \in Conn \ overlapped : \A d \in Conn \ (overlapped \cup {c}) :
    Present(c) /\ (up \/ init[c]) => (d \in known[c] <=> Present(d))

\* The inductive invariant of the rosters.
RosterInv == Sessions /\ Settled /\ KickeeOverlapped /\ Knows

\* RosterExact is about those who are there.
LEMMA RosterInvSuffices == RosterInv => RosterExact
BY DEF RosterInv, Knows, RosterExact, Present

\* Nobody is there when the server starts.
LEMMA RosterInvInit == Init => RosterInv
<1> SUFFICES ASSUME Init PROVE RosterInv
  OBVIOUS
<1>1. NoConn \notin Conn
  BY ConstantsAssumption
<1>2. Settled /\ KickeeOverlapped
  BY <1>1 DEF Init, Settled, KickeeOverlapped
<1>3. Knows
  BY DEF Init, Knows, Present
<1> QED
  BY <1>2, <1>3, SessionsInit DEF RosterInv

\* Steps that change neither who is there nor what anybody knows.
LEMMA KnowsQuiet ==
  ASSUME Knows, known' = known, overlapped \subseteq overlapped', up' => up,
         \A c \in Conn \ overlapped' : Present(c)' = Present(c) /\ (init'[c] => init[c])
  PROVE  Knows'
BY DEF Knows

\* JoinSection: the newcomer learns of all who are there, and they of it.
LEMMA KnowsJoin ==
  ASSUME TypeOK, RosterInv, NEW c \in Conn, JoinSection(c)
  PROVE  Knows'
<1> USE DEF memberVars, arcadeVars, threadVars, mainVars, ghostVars
<1>1. /\ pc' = [pc EXCEPT ![c] = "admitted"]
      /\ overlapped \subseteq overlapped'
      /\ UNCHANGED <<up, link, init, mpc, kickee>>
      /\ up
  BY DEF JoinSection, Meeting
<1>2. link[c] # "free" /\ ~init[c] /\ pc[c] = "joining"
  BY DEF JoinSection, RosterInv, Sessions
<1>3. ASSUME NEW d \in Conn, d # c PROVE Present(d)' = Present(d)
  BY <1>1, <1>3 DEF Present, Parting, TypeOK
<1>4. Present(c)'
  BY <1>1, <1>2 DEF Present, TypeOK
<1>5. ASSUME NEW d \in Conn, NEW e \in Conn, c \notin overlapped'
      PROVE  e \in known'[d] <=>
               IF d = c THEN Present(e) ELSE e \in known[d] \/ (e = c /\ Present(d))
  <2>1. InTransit \subseteq {c}
    BY <1>5 DEF JoinSection, Meeting
  <2>2. ~Present(c)
    BY <1>2 DEF Present
  <2>3. \A f \in Conn \ {c} : pc[f] # "admitted" /\ ~Parting(f)
    BY <2>1 DEF InTransit
  <2>4. \A f \in Conn : (init[f] /\ link[f] # "free") <=> Present(f)
    BY <1>2, <2>2, <2>3 DEF Present
  <2> QED
    BY <2>4 DEF JoinSection, TypeOK
<1>6. ASSUME NEW d \in Conn \ {c}, NEW e \in Conn \ {c}
      PROVE  e \in known'[d] <=> e \in known[d]
  BY DEF JoinSection, TypeOK
<1> SUFFICES ASSUME NEW d \in Conn \ overlapped', NEW e \in Conn \ (overlapped' \cup {d}),
                    Present(d)', (up \/ init[d])'
             PROVE  e \in known'[d] <=> Present(e)'
  BY DEF Knows
<1>7. CASE d = c
  BY <1>3, <1>5, <1>7
<1>8. CASE e = c
  BY <1>3, <1>4, <1>5, <1>8
<1>9. CASE d # c /\ e # c
  BY <1>1, <1>3, <1>6, <1>9 DEF RosterInv, Knows
<1> QED
  BY <1>7, <1>8, <1>9

\* Forget, by its own thread: everybody who is there forgets the leaver.
LEMMA KnowsFarewell ==
  ASSUME TypeOK, RosterInv, NEW c \in Conn, Farewell(c)
  PROVE  Knows'
<1> USE DEF memberVars, arcadeVars, threadVars, mainVars, ghostVars
<1>1. /\ pc' = [pc EXCEPT ![c] = "settle"]
      /\ overlapped \subseteq overlapped'
      /\ UNCHANGED <<up, link, init, mpc, kickee>>
      /\ up
  BY DEF Farewell, Forget, Meeting
<1>2. ~Present(c)'
  BY <1>1 DEF Present, Parting, TypeOK
<1>3. ASSUME NEW d \in Conn, d # c PROVE Present(d)' = Present(d)
  BY <1>1, <1>3 DEF Present, Parting, TypeOK
<1>4. ASSUME NEW d \in Conn \ {c}, NEW e \in Conn \ {c}
      PROVE  e \in known'[d] <=> e \in known[d]
  BY DEF Farewell, Forget, TypeOK
<1>5. ASSUME NEW d \in Conn \ {c}, c \notin overlapped', Present(d)
      PROVE  c \notin known'[d]
  <2>1. InTransit \subseteq {c}
    BY <1>5 DEF Farewell, Forget, Meeting
  <2>2. init[d] /\ link[d] # "free"
    BY <1>5, <2>1 DEF Present, InTransit
  <2> QED
    BY <2>2 DEF Farewell, Forget, TypeOK
<1> SUFFICES ASSUME NEW d \in Conn \ overlapped', NEW e \in Conn \ (overlapped' \cup {d}),
                    Present(d)', (up \/ init[d])'
             PROVE  e \in known'[d] <=> Present(e)'
  BY DEF Knows
<1>6. CASE e = c
  BY <1>2, <1>3, <1>5, <1>6
<1>7. CASE e # c
  BY <1>1, <1>2, <1>3, <1>4, <1>7 DEF RosterInv, Knows
<1> QED
  BY <1>6, <1>7

\* Forget, by the console: the kicked player is not among those who know or are known.
LEMMA KnowsKickFarewell ==
  ASSUME TypeOK, RosterInv, KickFarewell
  PROVE  Knows'
<1> USE DEF memberVars, arcadeVars, threadVars, mainVars, ghostVars
<1>1. /\ kickee \in Conn /\ kickee \in overlapped /\ overlapped \subseteq overlapped'
      /\ UNCHANGED <<up, link, init, pc, kickee>>
  BY DEF KickFarewell, Forget, Meeting, TypeOK, RosterInv, KickeeOverlapped
<1>2. ASSUME NEW d \in Conn, d # kickee PROVE Present(d)' = Present(d)
  BY <1>1, <1>2 DEF Present, Parting
<1>3. ASSUME NEW d \in Conn, NEW e \in Conn, e # kickee
      PROVE  e \in known'[d] <=> e \in known[d]
  BY <1>3 DEF KickFarewell, Forget, TypeOK
<1> QED
  BY <1>1, <1>2, <1>3 DEF RosterInv, Knows

\* Every step of a net thread keeps the rosters.
LEMMA RosterNetThread ==
  ASSUME TypeOK, RosterInv, Sessions', NEW c \in Conn, NetThread(c)
  PROVE  RosterInv'
<1> USE DEF RosterInv
<1> USE DEF memberVars, arcadeVars, threadVars, mainVars, ghostVars
<1> DEFINE Quiet == /\ UNCHANGED <<known, overlapped, kickee, mpc>> /\ (up' => up)
                    /\ Settled'
                    /\ \A d \in Conn \ overlapped' :
                         Present(d)' = Present(d) /\ (init'[d] => init[d])
<1>1. Quiet => RosterInv'
  BY KnowsQuiet DEF KickeeOverlapped
<1> DEFINE Inside == UNCHANGED <<known, overlapped, kickee, mpc, init, link, up>>
<1>2. ASSUME Inside, NEW q \in Pc, pc' = [pc EXCEPT ![c] = q],
             pc[c] \notin {"joining", "admitted"}, q \notin {"joining", "admitted"},
             Parting(c) = Parting(c)', q # "ready" => init[c] /\ link[c] = "open"
      PROVE  Quiet
  BY <1>2 DEF Settled, Present, Parting, TypeOK
<1> USE DEF Pc
<1>3. ASSUME NEW p \in Profile, Hello(c, p) PROVE Quiet
  BY <1>3 DEF Hello, Receives, Settled, Present, Parting, TypeOK
<1>4. CASE JoinSection(c)
  <2>1. Settled' /\ KickeeOverlapped'
    BY <1>4 DEF JoinSection, Meeting, Settled, KickeeOverlapped, Sessions, TypeOK
  <2> QED
    BY <1>4, <2>1, KnowsJoin
<1>5. CASE Admit(c)
  <2>1. UNCHANGED <<known, overlapped, kickee, mpc, up, link>> /\ up /\ pc[c] = "admitted"
    BY <1>5 DEF Admit
  <2>2. Settled' /\ KickeeOverlapped'
    BY <1>5, <2>1 DEF Admit, Settled, KickeeOverlapped, TypeOK
  <2>3. \A d \in Conn \ overlapped' : Present(d)' = Present(d)
    BY <1>5, <2>1 DEF Admit, Present, Parting, KickeeOverlapped, Settled, TypeOK
  <2>4. Knows'
    BY <2>1, <2>3 DEF Knows
  <2> QED
    BY <2>2, <2>4
<1>6. CASE PlayerLeave(c)
  <2>1. Inside /\ pc' = [pc EXCEPT ![c] = "farewell"] /\ pc[c] = "ready"
    BY <1>6 DEF PlayerLeave, Receives
  <2> QED
    BY <1>1, <1>2, <1>6, <2>1 DEF PlayerLeave, Receives, Parting, TypeOK
<1>7. CASE Drop(c)
  <2>1. CASE init[c]
    <3>1. Inside /\ pc' = [pc EXCEPT ![c] = "farewell"] /\ pc[c] = "ready"
      BY <1>7, <2>1 DEF Drop
    <3> QED
      BY <1>1, <1>2, <1>7, <2>1, <3>1 DEF Drop, Parting, TypeOK
  <2>2. CASE ~init[c]
    <3>1. Quiet
      BY <1>7, <2>2 DEF Drop, Settled, Present, Parting, TypeOK
    <3> QED
      BY <1>1, <3>1
  <2> QED
    BY <2>1, <2>2
<1>8. ASSUME NEW st \in Status, Report(c, st) PROVE Quiet
  BY <1>8 DEF Report, Settled, Present, Parting
<1>9. ASSUME NEW m \in Machine, GameRequest(c, m) PROVE Quiet
  BY <1>2, <1>9 DEF GameRequest, Receives, Parting, TypeOK
<1>10. ASSUME NEW d \in Conn, JoinCommand(c, d) PROVE Quiet
  BY <1>2, <1>10 DEF JoinCommand, Receives, Parting, TypeOK
<1>11. CASE IgnoreCommand(c) \/ JoinArcade(c) \/ StartSection(c)
  <2>1. Inside /\ pc' = [pc EXCEPT ![c] = "ready"] /\ pc[c] \in {"request", "command", "starting"}
    BY <1>11 DEF IgnoreCommand, JoinArcade, StartSection
  <2>2. Parting(c) = Parting(c)'
    BY <2>1 DEF Parting, TypeOK
  <2> QED
    BY <1>1, <1>2, <2>1, <2>2
<1>12. CASE GameStart(c)
  BY <1>1, <1>2, <1>12 DEF GameStart, Receives, Parting, TypeOK
<1>13. CASE ArcadeLeave(c)
  <2>1. Quiet
    BY <1>13 DEF ArcadeLeave, Settled, Present, Parting
  <2> QED
    BY <1>1, <2>1
<1>14. CASE Farewell(c)
  <2>1. Settled' /\ KickeeOverlapped'
    BY <1>14 DEF Farewell, Forget, Meeting, Settled, KickeeOverlapped, TypeOK
  <2> QED
    BY <1>14, <2>1, KnowsFarewell
<1>15. CASE Settle(c) \/ Unseat(c)
  <2>1. UNCHANGED <<known, overlapped, kickee, mpc, up>> /\ up
    BY <1>15 DEF Settle, Unseat
  <2>2. \/ UNCHANGED <<init, link>> /\ pc[c] = "settle" /\ pc' = [pc EXCEPT ![c] = "unseat"]
        \/ /\ Close(c, stays[c]) /\ pc[c] \in {"settle", "unseat"}
           /\ pc' = [pc EXCEPT ![c] = "ready"]
    BY <1>15 DEF Settle, Unseat
  <2>3. Settled'
    BY <2>1, <2>2 DEF Settled, Close, TypeOK
  <2>4. \A d \in Conn \ overlapped' : Present(d)' = Present(d) /\ (init'[d] => init[d])
    BY <2>1, <2>2 DEF Settled, Close, Present, Parting, TypeOK
  <2> QED
    BY <1>1, <2>1, <2>3, <2>4
<1>16. CASE Crash(c)
  <2>1. Quiet
    BY <1>16 DEF Crash, Settled, Present, Parting
  <2> QED
    BY <1>1, <2>1
<1> QED
  BY <1>1, <1>3, <1>4, <1>5, <1>6, <1>7, <1>8, <1>9, <1>10, <1>11, <1>12, <1>13, <1>14,
     <1>15, <1>16 DEF NetThread

\* Every step keeps the rosters, those of the console and of the reaping too.
LEMMA RosterInvNext == TypeOK /\ RosterInv /\ [Next]_vars => RosterInv'
<1> SUFFICES ASSUME TypeOK, RosterInv, [Next]_vars PROVE RosterInv'
  OBVIOUS
<1> USE DEF RosterInv
<1> USE DEF memberVars, arcadeVars, threadVars, mainVars, ghostVars
<1>1. Sessions'
  BY SessionsNext
<1>2. ASSUME known' = known, overlapped \subseteq overlapped', KickeeOverlapped', Settled',
             up' => up,
             \A d \in Conn \ overlapped' : Present(d)' = Present(d) /\ (init'[d] => init[d])
      PROVE  RosterInv'
  BY <1>1, <1>2, KnowsQuiet
<1>3. CASE UNCHANGED vars
  BY <1>1, <1>2, <1>3 DEF vars, Settled, KickeeOverlapped, Present, Parting
<1>4. ASSUME NEW c \in Conn, NetThread(c) PROVE RosterInv'
  BY <1>1, <1>4, RosterNetThread
<1>5. CASE MainThread
  <2>1. ASSUME NEW c \in Conn, Accept(c) PROVE RosterInv'
    <3>1. /\ UNCHANGED <<overlapped, kickee, mpc, up, pc>> /\ up
          /\ init' = [init EXCEPT ![c] = FALSE] /\ link' = [link EXCEPT ![c] = "open"]
          /\ known' = [known EXCEPT ![c] = {}]
          /\ link[c] = "free" /\ pc[c] = "ready"
      BY <2>1 DEF Accept, Sessions
    <3>2. Settled' /\ KickeeOverlapped'
      BY <3>1 DEF Settled, KickeeOverlapped, TypeOK
    <3>3. \A d \in Conn : Present(d)' = Present(d) /\ ~Present(c)
      BY <3>1 DEF Present, Parting, TypeOK
    <3>4. \A d \in Conn \ {c} : known'[d] = known[d]
      BY <3>1 DEF TypeOK
    <3>5. Knows'
      BY <3>1, <3>3, <3>4 DEF Knows
    <3> QED
      BY <1>1, <3>2, <3>5
  <2>2. ASSUME NEW c \in Conn, Kick(c) PROVE RosterInv'
    <3>1. Settled' /\ KickeeOverlapped'
      BY <2>2 DEF Kick, Settled, KickeeOverlapped
    <3>2. \A d \in Conn \ overlapped' : Present(d)' = Present(d)
      BY <2>2 DEF Kick, Present, Parting
    <3> QED
      BY <1>2, <2>2, <3>1, <3>2 DEF Kick
  <2>3. CASE KickBegin \/ KickSettle \/ KickUnseat
    <3>1. /\ kickee \in Conn /\ kickee \in overlapped /\ NoConn \notin Conn
          /\ UNCHANGED <<known, overlapped, pc, up>>
      BY <2>3, ConstantsAssumption
      DEF KickBegin, KickSettle, KickUnseat, TypeOK, KickeeOverlapped
    <3>2. kickee' \in {kickee, NoConn}
      BY <2>3 DEF KickBegin, KickSettle, KickUnseat
    <3>3. \A d \in Conn \ {kickee} : init'[d] = init[d] /\ link'[d] = link[d]
      BY <2>3 DEF KickBegin, KickSettle, KickUnseat, Close, TypeOK
    <3>4. Settled' /\ KickeeOverlapped'
      BY <3>1, <3>2, <3>3 DEF Settled, KickeeOverlapped
    <3>5. \A d \in Conn \ overlapped' : Present(d)' = Present(d) /\ (init'[d] => init[d])
      BY <3>1, <3>2, <3>3 DEF Present, Parting
    <3> QED
      BY <1>2, <3>1, <3>4, <3>5
  <2>4. CASE KickFarewell
    <3>1. Settled' /\ KickeeOverlapped'
      BY <2>4 DEF KickFarewell, Forget, Meeting, Settled, KickeeOverlapped
    <3> QED
      BY <1>1, <2>4, <3>1, KnowsKickFarewell
  <2>5. CASE SweepBegin \/ Doom \/ (\E c \in Conn : Visit(c))
    <3>1. UNCHANGED <<known, overlapped, pc, up, init, link, kickee>>
          /\ mpc \notin {"settle", "unseat"} /\ mpc' \notin {"settle", "unseat"}
      BY <2>5 DEF SweepBegin, Doom, Visit
    <3> QED
      BY <1>2, <3>1 DEF Settled, KickeeOverlapped, Present, Parting
  <2>6. CASE Destroy
    <3>1. /\ UNCHANGED <<known, overlapped, pc, up, init, kickee>> /\ up
          /\ mpc \notin {"settle", "unseat"} /\ mpc' \notin {"settle", "unseat"}
          /\ \A d \in Conn : link'[d] = IF d \in batch THEN "free" ELSE link[d]
          /\ \A d \in batch : pc[d] = "ready" /\ link[d] = "closed"
      BY <2>6 DEF Destroy, Sessions, TypeOK
    <3>2. Settled' /\ KickeeOverlapped'
      BY <3>1 DEF Settled, KickeeOverlapped
    <3>3. \A d \in Conn \ overlapped' : Present(d)' = Present(d)
      BY <3>1 DEF Settled, Present, Parting
    <3> QED
      BY <1>2, <3>1, <3>2, <3>3
  <2>7. CASE ServerClose
    <3>1. /\ UNCHANGED <<known, overlapped, kickee, pc>> /\ ~up'
          /\ init' = [c \in Conn |-> FALSE]
      BY <2>7 DEF ServerClose
    <3> QED
      BY <1>1, <3>1 DEF Knows, Settled, KickeeOverlapped
  <2> QED
    BY <1>5, <2>1, <2>2, <2>3, <2>4, <2>5, <2>6, <2>7 DEF MainThread, Kicking, Reaping
<1>6. CASE Ended
  BY <1>3, <1>6 DEF Ended
<1> QED
  BY <1>3, <1>4, <1>5, <1>6 DEF Next

\* The invariant of the rosters holds of every behaviour.
THEOREM RosterInvariant == Spec => []RosterInv
BY RosterInvInit, RosterInvNext, TypeCorrect, PTL DEF Spec

\* Joins and leaves that did not meet leave every client with the exact roster (RosterExact).
THEOREM RosterExactAlways == Spec => []RosterExact
BY RosterInvariant, RosterInvSuffices, PTL

-----------------------------------------------------------------------------
(* The player count.                                                       *)

Players == {c \in Conn : Present(c)}

Bit(b) == IF b THEN 1 ELSE 0

\* The console has said goodbye to c, and not closed it yet.
Kicked(c) == kickee = c /\ mpc \in {"settle", "unseat"}

\* c's own goodbye is still to come, after the console's.
Owes(c) == pc[c] = "farewell" /\ (~init[c] \/ Kicked(c))

\* c is closed, and is or will be a player all the same, until it is reaped.
Undead(c) ==
  link[c] = "closed" /\ (pc[c] \in {"joining", "admitted"} \/ (pc[c] = "ready" /\ init[c]))

\* The kick under way has taken c off the count, and c's own thread has not put it there.
Uncounted(c) == ~init[c] \/ pc[c] \in {"settle", "unseat"}

\* The kick under way may still make the count one too small ...
Spare == Bit(\/ mpc \in {"kick", "farewell"}
             \/ mpc \in {"settle", "unseat"} /\ ~Uncounted(kickee) /\ pc[kickee] # "farewell")

\* ... or one too large, two if it has made it too small.
Slack == Bit(kickee \in Conn) + Bit(mpc \in {"settle", "unseat"} /\ Uncounted(kickee))

\* The count is off by k.
OffBy(k) ==
  /\ count = (Cardinality(Players) + k) % 256
  /\ Spare - kicks <= k - Cardinality({c \in Conn : Owes(c)})
  /\ k + Cardinality({c \in Conn : Undead(c)}) + Slack <= kicks

\* The inductive invariant of the count.
CountInv == up => \E k \in Int : OffBy(k)

\* A set of connections is finite, and changing one connection's membership changes its
\* size by one.
LEMMA OneChanges ==
  ASSUME NEW S \in SUBSET Conn, NEW T \in SUBSET Conn, NEW c \in Conn,
         \A d \in Conn \ {c} : d \in S <=> d \in T
  PROVE  /\ Cardinality(S) \in Nat /\ Cardinality(T) \in Nat
         /\ Cardinality(T) = Cardinality(S) + Bit(c \in T) - Bit(c \in S)
<1>1. IsFiniteSet(Conn)
  BY ConstantsAssumption
<1>2. /\ IsFiniteSet(S) /\ IsFiniteSet(T)
      /\ Cardinality(S) \in Nat /\ Cardinality(T) \in Nat
  BY <1>1, FS_Subset, FS_CardinalityType
<1>3. CASE c \in S <=> c \in T
  <2>1. S = T
    BY <1>3
  <2> QED
    BY <1>2, <1>3, <2>1 DEF Bit
<1>4. CASE c \notin S /\ c \in T
  <2>1. T = S \cup {c}
    BY <1>4
  <2> QED
    BY <1>2, <1>4, <2>1, FS_AddElement DEF Bit
<1>5. CASE c \in S /\ c \notin T
  <2>1. T = S \ {c}
    BY <1>5
  <2> QED
    BY <1>2, <1>5, <2>1, FS_RemoveElement DEF Bit
<1> QED
  BY <1>3, <1>4, <1>5

\* uint8_t arithmetic.
LEMMA Modulo ==
  ASSUME NEW a \in Int, NEW b \in Int
  PROVE  ((a % 256) + b) % 256 = (a + b) % 256
OBVIOUS

\* A uint8_t keeps its value when nothing is added to it, and 255 takes one away.
LEMMA SmallCounts ==
  ASSUME NEW n \in 0..255
  PROVE  (n + 0) % 256 = n /\ (n + 255) % 256 = (n + (-1)) % 256
OBVIOUS

\* A step that concerns no connection but c, and puts the count off by dk more.
LEMMA CountStep ==
  ASSUME TypeOK, TypeOK', up, CountInv, NEW c \in Conn, NEW dk \in Int,
         \A d \in Conn \ {c} : /\ Present(d)' <=> Present(d)
                               /\ Owes(d)' <=> Owes(d)
                               /\ Undead(d)' <=> Undead(d),
         count' = (count + (dk + Bit(Present(c)') - Bit(Present(c)))) % 256,
         Spare' - Spare - (kicks' - kicks) <= dk - (Bit(Owes(c)') - Bit(Owes(c))),
         dk + (Bit(Undead(c)') - Bit(Undead(c))) + (Slack' - Slack) <= kicks' - kicks
  PROVE  CountInv'
<1> DEFINE owing == {d \in Conn : Owes(d)}
           undead == {d \in Conn : Undead(d)}
<1>1. PICK k \in Int : OffBy(k)
  BY DEF CountInv
<1>2. /\ Cardinality(Players) \in Nat /\ Cardinality(Players') \in Nat
      /\ Cardinality(Players') = Cardinality(Players) + Bit(Present(c)') - Bit(Present(c))
  <2>1. /\ Players \in SUBSET Conn /\ Players' \in SUBSET Conn
        /\ \A d \in Conn \ {c} : d \in Players <=> d \in Players'
    BY DEF Players
  <2>2. Bit(c \in Players) = Bit(Present(c)) /\ Bit(c \in Players') = Bit(Present(c)')
    BY DEF Players, Bit
  <2> QED
    BY <2>1, <2>2, OneChanges
<1>3. /\ Cardinality(owing) \in Nat /\ Cardinality(owing') \in Nat
      /\ Cardinality(owing') = Cardinality(owing) + Bit(Owes(c)') - Bit(Owes(c))
  <2>1. /\ owing \in SUBSET Conn /\ owing' \in SUBSET Conn
        /\ \A d \in Conn \ {c} : d \in owing <=> d \in owing'
    OBVIOUS
  <2>2. Bit(c \in owing) = Bit(Owes(c)) /\ Bit(c \in owing') = Bit(Owes(c)')
    BY DEF Bit
  <2> HIDE DEF owing
  <2> QED
    BY <2>1, <2>2, OneChanges
<1>4. /\ Cardinality(undead) \in Nat /\ Cardinality(undead') \in Nat
      /\ Cardinality(undead') = Cardinality(undead) + Bit(Undead(c)') - Bit(Undead(c))
  <2>1. /\ undead \in SUBSET Conn /\ undead' \in SUBSET Conn
        /\ \A d \in Conn \ {c} : d \in undead <=> d \in undead'
    OBVIOUS
  <2>2. Bit(c \in undead) = Bit(Undead(c)) /\ Bit(c \in undead') = Bit(Undead(c)')
    BY DEF Bit
  <2> HIDE DEF undead
  <2> QED
    BY <2>1, <2>2, OneChanges
<1>5. /\ {Spare, Spare', Slack, Slack', kicks, kicks'} \subseteq Int
      /\ {Bit(Present(c)), Bit(Owes(c)), Bit(Undead(c))} \subseteq Int
      /\ {Bit(Present(c)'), Bit(Owes(c)'), Bit(Undead(c)')} \subseteq Int
  BY DEF Spare, Slack, Bit, TypeOK
<1> HIDE DEF owing, undead
<1>6. /\ count = (Cardinality(Players) + k) % 256
      /\ Spare - kicks <= k - Cardinality(owing)
      /\ k + Cardinality(undead) + Slack <= kicks
  BY <1>1 DEF OffBy, owing, undead
<1>7. count' = (Cardinality(Players') + (k + dk)) % 256
  <2>1. count' = ((Cardinality(Players) + k)
                   + (dk + Bit(Present(c)') - Bit(Present(c)))) % 256
    BY <1>2, <1>5, <1>6, Modulo
  <2> QED
    BY <1>2, <1>5, <2>1
<1>8. Spare' - kicks' <= (k + dk) - Cardinality(owing')
  BY <1>3, <1>5, <1>6
<1>9. (k + dk) + Cardinality(undead') + Slack' <= kicks'
  BY <1>4, <1>5, <1>6
<1>10. k + dk \in Int
  OBVIOUS
<1> QED
  BY <1>7, <1>8, <1>9, <1>10 DEF CountInv, OffBy, owing, undead

\* A step that leaves the count and what it is compared with alone.
LEMMA CountQuiet ==
  ASSUME CountInv, up' => up, UNCHANGED <<count, kicks, Spare, Slack>>,
         \A d \in Conn : /\ Present(d)' <=> Present(d)
                         /\ Owes(d)' <=> Owes(d)
                         /\ Undead(d)' <=> Undead(d)
  PROVE  CountInv'
<1>1. /\ Players' = Players
      /\ {d \in Conn : Owes(d)'} = {d \in Conn : Owes(d)}
      /\ {d \in Conn : Undead(d)'} = {d \in Conn : Undead(d)}
  BY DEF Players
<1> QED
  BY <1>1 DEF CountInv, OffBy

\* Nobody is counted when the server starts.
LEMMA CountInvInit == Init => CountInv
<1> SUFFICES ASSUME Init PROVE OffBy(0)
  BY DEF CountInv
<1>1. NoConn \notin Conn
  BY ConstantsAssumption
<1>2. /\ Players = {} /\ {c \in Conn : Owes(c)} = {} /\ {c \in Conn : Undead(c)} = {}
  BY <1>1 DEF Init, Players, Present, Owes, Undead
<1>3. Spare = 0 /\ Slack = 0 /\ kicks = 0 /\ count = 0
  BY <1>1 DEF Init, Spare, Slack, Bit
<1>4. Cardinality({}) = 0
  BY FS_EmptySet
<1>5. count = (Cardinality(Players) + 0) % 256
  BY <1>2, <1>3, <1>4
<1>6. Spare - kicks <= 0 - Cardinality({c \in Conn : Owes(c)})
  BY <1>2, <1>3, <1>4
<1>7. 0 + Cardinality({c \in Conn : Undead(c)}) + Slack <= kicks
  BY <1>2, <1>3, <1>4
<1> QED
  BY <1>5, <1>6, <1>7 DEF OffBy

\* A step of c's own thread during which c alone changes, seen from the count.
LEMMA CountOwnStep ==
  ASSUME TypeOK, TypeOK', up, up', CountInv, NEW c \in Conn, NEW dk \in Int,
         UNCHANGED <<kickee, mpc, kicks>>,
         \A d \in Conn \ {c} : link'[d] = link[d] /\ init'[d] = init[d] /\ pc'[d] = pc[d],
         count' = (count + (dk + Bit(Present(c)') - Bit(Present(c)))) % 256,
         IF kickee = c
         THEN /\ Spare' - Spare <= dk - (Bit(Owes(c)') - Bit(Owes(c)))
              /\ dk + (Bit(Undead(c)') - Bit(Undead(c))) + (Slack' - Slack) <= 0
         ELSE /\ 0 <= dk - (Bit(Owes(c)') - Bit(Owes(c)))
              /\ dk + (Bit(Undead(c)') - Bit(Undead(c))) <= 0
  PROVE  CountInv'
<1>1. \A d \in Conn \ {c} : /\ Present(d)' <=> Present(d)
                            /\ Owes(d)' <=> Owes(d)
                            /\ Undead(d)' <=> Undead(d)
  BY DEF Present, Parting, Owes, Kicked, Undead
<1>2. kickee # c => Spare' = Spare /\ Slack' = Slack
  BY DEF Spare, Slack, Uncounted, TypeOK
<1>3. {Spare, Spare', Slack, Slack', kicks, Bit(Owes(c)), Bit(Owes(c)'), Bit(Undead(c)),
       Bit(Undead(c)')} \subseteq Int
  BY DEF Spare, Slack, Bit, TypeOK
<1>4. Spare' - Spare - (kicks' - kicks) <= dk - (Bit(Owes(c)') - Bit(Owes(c)))
  BY <1>2, <1>3
<1>5. dk + (Bit(Undead(c)') - Bit(Undead(c))) + (Slack' - Slack) <= kicks' - kicks
  BY <1>2, <1>3
<1> QED
  BY <1>1, <1>4, <1>5, CountStep

\* Every step of a net thread keeps the count's invariant.
LEMMA CountNetThread ==
  ASSUME TypeOK, TypeOK', Sessions, CountInv, NEW c \in Conn, NetThread(c)
  PROVE  CountInv'
<1> USE DEF memberVars, arcadeVars, threadVars, mainVars, ghostVars
<1> DEFINE Inside ==
      /\ UNCHANGED <<count, kicks, kickee, mpc, init, link>> /\ (up' => up)
      /\ {pc[c], pc'[c]} \subseteq {"ready", "request", "command", "starting"}
      /\ pc'[c] = pc[c] \/ link[c] = "open" \/ ~init[c]
      /\ \A d \in Conn \ {c} : pc'[d] = pc[d]
<1>1. ASSUME Inside PROVE CountInv'
  <2>1. \A d \in Conn : /\ Present(d)' <=> Present(d)
                        /\ Owes(d)' <=> Owes(d)
                        /\ Undead(d)' <=> Undead(d)
    BY <1>1 DEF Present, Parting, Owes, Kicked, Undead
  <2>2. Spare' = Spare /\ Slack' = Slack
    BY <1>1 DEF Spare, Slack, Uncounted, TypeOK
  <2> QED
    BY <1>1, <2>1, <2>2, CountQuiet
<1>2. ASSUME NEW p \in Profile, Hello(c, p) PROVE CountInv'
  <2>1. /\ UNCHANGED <<count, kicks, kickee, mpc, init>> /\ up /\ up'
        /\ \A d \in Conn \ {c} : link'[d] = link[d] /\ pc'[d] = pc[d]
        /\ pc[c] = "ready" /\ ~init[c] /\ link[c] = "open"
        /\ \/ pc'[c] = "ready" /\ link'[c] = "closed"
           \/ pc'[c] = "joining" /\ link'[c] = "open"
    BY <1>2 DEF Hello, Receives, TypeOK
  <2>2. \A d \in Conn : /\ Present(d)' <=> Present(d)
                        /\ Owes(d)' <=> Owes(d)
                        /\ Undead(d)' <=> Undead(d)
    BY <2>1 DEF Present, Parting, Owes, Kicked, Undead
  <2>3. Spare' = Spare /\ Slack' = Slack
    BY <2>1 DEF Spare, Slack, Uncounted, TypeOK
  <2> QED
    BY <2>1, <2>2, <2>3, CountQuiet
<1>3. CASE JoinSection(c)
  <2>1. /\ UNCHANGED <<kicks, kickee, mpc, init, link>> /\ up /\ up'
        /\ \A d \in Conn \ {c} : pc'[d] = pc[d]
        /\ pc[c] = "joining" /\ pc'[c] = "admitted" /\ ~init[c] /\ link[c] # "free"
        /\ count' = (count + 1) % 256
    BY <1>3 DEF JoinSection, Sessions, TypeOK
  <2>2. /\ Bit(Present(c)) = 0 /\ Bit(Present(c)') = 1
        /\ Bit(Owes(c)) = 0 /\ Bit(Owes(c)') = 0
        /\ Bit(Undead(c)') = Bit(Undead(c)) /\ Bit(Undead(c)) \in 0..1
    BY <2>1 DEF Present, Owes, Undead, Bit
  <2>3. kickee = c => Spare' = Spare /\ Slack' = Slack
    BY <2>1 DEF Spare, Slack, Uncounted
  <2>4. Spare \in Int /\ Slack \in Int
    BY DEF Spare, Slack, Bit
  <2>5. count' = (count + (0 + Bit(Present(c)') - Bit(Present(c)))) % 256
    BY <2>1, <2>2
  <2> QED
    BY <2>1, <2>2, <2>3, <2>4, <2>5, CountOwnStep
<1>4. CASE Admit(c)
  <2>1. /\ UNCHANGED <<count, kicks, kickee, mpc, link>> /\ up /\ up'
        /\ \A d \in Conn \ {c} : pc'[d] = pc[d] /\ init'[d] = init[d]
        /\ pc[c] = "admitted" /\ pc'[c] = "ready" /\ ~init[c] /\ init'[c] /\ link[c] # "free"
    BY <1>4 DEF Admit, Sessions, TypeOK
  <2> DEFINE dk == Bit(Kicked(c))
  <2>2. /\ Bit(Present(c)) = 1 /\ Bit(Present(c)') = 1 - dk
        /\ Bit(Owes(c)) = 0 /\ Bit(Owes(c)') = 0
        /\ Bit(Undead(c)') = Bit(Undead(c)) /\ Bit(Undead(c)) \in 0..1
    BY <2>1 DEF Present, Parting, Owes, Undead, Bit, Kicked
  <2>3. dk \in 0..1 /\ (kickee # c => dk = 0)
    BY DEF Kicked, Bit
  <2>4. kickee = c => Spare' = Spare + dk /\ Slack' = Slack - dk
    BY <2>1 DEF Spare, Slack, Uncounted, Kicked, Bit
  <2>5. Spare \in Int /\ Slack \in Int
    BY DEF Spare, Slack, Bit
  <2> HIDE DEF dk
  <2>6. count' = (count + (dk + Bit(Present(c)') - Bit(Present(c)))) % 256
    <3>1. dk + Bit(Present(c)') - Bit(Present(c)) = 0
      BY <2>2, <2>3
    <3>2. (count + 0) % 256 = count
      BY SmallCounts DEF TypeOK
    <3> QED
      BY <2>1, <3>1, <3>2
  <2>7. IF kickee = c
        THEN /\ Spare' - Spare <= dk - (Bit(Owes(c)') - Bit(Owes(c)))
             /\ dk + (Bit(Undead(c)') - Bit(Undead(c))) + (Slack' - Slack) <= 0
        ELSE /\ 0 <= dk - (Bit(Owes(c)') - Bit(Owes(c)))
             /\ dk + (Bit(Undead(c)') - Bit(Undead(c))) <= 0
    BY <2>2, <2>3, <2>4, <2>5
  <2>8. dk \in Int
    BY <2>3
  <2> QED
    BY <2>1, <2>6, <2>7, <2>8, CountOwnStep
<1>5. CASE PlayerLeave(c) \/ (Drop(c) /\ init[c])
  <2>1. /\ UNCHANGED <<count, kicks, kickee, mpc, link, init>> /\ up /\ up'
        /\ \A d \in Conn \ {c} : pc'[d] = pc[d]
        /\ pc[c] = "ready" /\ pc'[c] = "farewell" /\ init[c] /\ link[c] = "open"
    BY <1>5 DEF PlayerLeave, Drop, Receives, TypeOK
  <2> DEFINE owed == Bit(Kicked(c))
  <2>2. /\ Bit(Present(c)) \in 0..1 /\ Bit(Present(c)') = Bit(Present(c))
        /\ Bit(Owes(c)) = 0 /\ Bit(Owes(c)') = owed
        /\ Bit(Undead(c)') = 0 /\ Bit(Undead(c)) = 0
    BY <2>1 DEF Present, Parting, Owes, Undead, Bit, Kicked
  <2>3. owed \in 0..1 /\ (kickee # c => owed = 0)
    BY DEF Kicked, Bit
  <2>4. kickee = c => Spare' = Spare - owed /\ Slack' = Slack
    BY <2>1 DEF Spare, Slack, Uncounted, Kicked, Bit
  <2>5. Spare \in Int /\ Slack \in Int
    BY DEF Spare, Slack, Bit
  <2> HIDE DEF owed
  <2>6. count' = (count + (0 + Bit(Present(c)') - Bit(Present(c)))) % 256
    <3>1. 0 + Bit(Present(c)') - Bit(Present(c)) = 0
      BY <2>2
    <3>2. (count + 0) % 256 = count
      BY SmallCounts DEF TypeOK
    <3> QED
      BY <2>1, <3>1, <3>2
  <2>7. IF kickee = c
        THEN /\ Spare' - Spare <= 0 - (Bit(Owes(c)') - Bit(Owes(c)))
             /\ 0 + (Bit(Undead(c)') - Bit(Undead(c))) + (Slack' - Slack) <= 0
        ELSE /\ 0 <= 0 - (Bit(Owes(c)') - Bit(Owes(c)))
             /\ 0 + (Bit(Undead(c)') - Bit(Undead(c))) <= 0
    BY <2>2, <2>3, <2>4, <2>5
  <2> QED
    BY <2>1, <2>6, <2>7, CountOwnStep
<1>6. CASE Drop(c) /\ ~init[c]
  <2>1. /\ UNCHANGED <<count, kicks, kickee, mpc, init, pc>> /\ up /\ up'
        /\ \A d \in Conn \ {c} : link'[d] = link[d]
        /\ pc[c] = "ready" /\ ~init[c] /\ link[c] = "open" /\ link'[c] = "closed"
    BY <1>6 DEF Drop, TypeOK
  <2>2. \A d \in Conn : /\ Present(d)' <=> Present(d)
                        /\ Owes(d)' <=> Owes(d)
                        /\ Undead(d)' <=> Undead(d)
    BY <2>1 DEF Present, Parting, Owes, Kicked, Undead
  <2>3. Spare' = Spare /\ Slack' = Slack
    BY <2>1 DEF Spare, Slack, Uncounted
  <2> QED
    BY <2>1, <2>2, <2>3, CountQuiet
<1>7. CASE Farewell(c)
  <2>1. /\ UNCHANGED <<kicks, kickee, mpc, link, init>> /\ up /\ up'
        /\ \A d \in Conn \ {c} : pc'[d] = pc[d]
        /\ pc[c] = "farewell" /\ pc'[c] = "settle" /\ link[c] # "free"
        /\ count' = (count + 255) % 256
    BY <1>7 DEF Farewell, Forget, Sessions, TypeOK
  <2> DEFINE owed == Bit(Owes(c))
             dk == 0 - owed
             late == Bit(Kicked(c) /\ init[c])
  <2>2. /\ Bit(Present(c)) = 1 - owed /\ Bit(Present(c)') = 0
        /\ Bit(Owes(c)') = 0 /\ owed \in 0..1
        /\ Bit(Undead(c)') = 0 /\ Bit(Undead(c)) = 0
    BY <2>1 DEF Present, Parting, Owes, Undead, Bit, Kicked
  <2>3. late \in 0..1 /\ late <= owed
    BY <2>1 DEF Owes, Bit
  <2>4. kickee = c => Spare' = Spare /\ Slack' = Slack + late
    BY <2>1 DEF Spare, Slack, Uncounted, Kicked, Bit
  <2>5. Spare \in Int /\ Slack \in Int
    BY DEF Spare, Slack, Bit
  <2> HIDE DEF owed, late
  <2>6. count' = (count + (dk + Bit(Present(c)') - Bit(Present(c)))) % 256
    <3>1. dk + Bit(Present(c)') - Bit(Present(c)) = -1
      BY <2>2
    <3>2. (count + 255) % 256 = (count + (-1)) % 256
      BY SmallCounts DEF TypeOK
    <3> QED
      BY <2>1, <3>1, <3>2
  <2>7. dk \in Int
    BY <2>2
  <2>8. IF kickee = c
        THEN /\ Spare' - Spare <= dk - (Bit(Owes(c)') - Bit(Owes(c)))
             /\ dk + (Bit(Undead(c)') - Bit(Undead(c))) + (Slack' - Slack) <= 0
        ELSE /\ 0 <= dk - (Bit(Owes(c)') - Bit(Owes(c)))
             /\ dk + (Bit(Undead(c)') - Bit(Undead(c))) <= 0
    BY <2>2, <2>3, <2>4, <2>5 DEF owed
  <2> QED
    BY <2>1, <2>6, <2>7, <2>8, CountOwnStep
<1>8. CASE Settle(c) \/ Unseat(c)
  <2>1. /\ UNCHANGED <<count, kicks, kickee, mpc>> /\ up /\ up'
        /\ pc[c] \in {"settle", "unseat"}
        /\ pc'[c] \in {"settle", "unseat"} \/ (pc'[c] = "ready" /\ ~init'[c])
    BY <1>8 DEF Settle, Unseat, Close, TypeOK
  <2>2. \A d \in Conn \ {c} : /\ pc'[d] = pc[d] /\ init'[d] = init[d]
                              /\ link'[d] = link[d]
    BY <1>8 DEF Settle, Unseat, Close, TypeOK
  <2>3. \A d \in Conn : /\ Present(d)' <=> Present(d)
                        /\ Owes(d)' <=> Owes(d)
                        /\ Undead(d)' <=> Undead(d)
    BY <2>1, <2>2 DEF Present, Parting, Owes, Kicked, Undead
  <2>4. Spare' = Spare /\ Slack' = Slack
    BY <2>1, <2>2 DEF Spare, Slack, Uncounted, TypeOK
  <2> QED
    BY <2>1, <2>3, <2>4, CountQuiet
<1>9. CASE Crash(c)
  BY <1>9 DEF Crash, CountInv
<1>10. ASSUME NEW st \in Status, Report(c, st) PROVE CountInv'
  BY <1>1, <1>10 DEF Report, Receives
<1>11. ASSUME NEW m \in Machine, GameRequest(c, m) PROVE CountInv'
  BY <1>1, <1>11 DEF GameRequest, Receives, TypeOK
<1>12. ASSUME NEW d \in Conn, JoinCommand(c, d) PROVE CountInv'
  BY <1>1, <1>12 DEF JoinCommand, Receives, TypeOK
<1>13. CASE IgnoreCommand(c)
  BY <1>1, <1>13 DEF IgnoreCommand, Sessions, TypeOK
<1>14. CASE JoinArcade(c)
  <2>1. /\ UNCHANGED <<up, memberVars, mainVars>> /\ up
        /\ pc[c] \in {"request", "command"} /\ pc' = [pc EXCEPT ![c] = "ready"]
    BY <1>14 DEF JoinArcade
  <2> QED
    BY <1>1, <2>1 DEF Sessions, TypeOK
<1>15. CASE GameStart(c)
  BY <1>1, <1>15 DEF GameStart, Receives, TypeOK
<1>16. CASE StartSection(c)
  <2>1. /\ UNCHANGED <<up, memberVars, mainVars>> /\ up
        /\ pc[c] = "starting" /\ pc' = [pc EXCEPT ![c] = "ready"]
    BY <1>16 DEF StartSection
  <2> QED
    BY <1>1, <2>1 DEF Sessions, TypeOK
<1>17. CASE ArcadeLeave(c)
  BY <1>1, <1>17 DEF ArcadeLeave, Receives
<1> QED
  BY <1>2, <1>3, <1>4, <1>5, <1>6, <1>7, <1>8, <1>9, <1>10, <1>11, <1>12, <1>13, <1>14,
     <1>15, <1>16, <1>17 DEF NetThread, Drop


\* The connection the console is kicking is not reaped meanwhile.
KickeeThere == kickee \in Conn => link[kickee] # "free"

\* The main thread does not reap during a kick.
LEMMA KickeeThereNext == TypeOK /\ KickeeThere /\ [Next]_vars => KickeeThere'
<1> SUFFICES ASSUME TypeOK, KickeeThere, [Next]_vars PROVE KickeeThere'
  OBVIOUS
<1> USE DEF KickeeThere
<1> USE DEF memberVars, arcadeVars, threadVars, mainVars, ghostVars
<1>1. CASE UNCHANGED vars
  BY <1>1 DEF vars
<1>2. ASSUME NEW c \in Conn, NetThread(c) PROVE KickeeThere'
  <2>1. /\ kickee' = kickee
        /\ \A d \in Conn : link'[d] # link[d] => link'[d] = "closed"
    BY <1>2 DEF NetThread, Hello, JoinSection, Admit, PlayerLeave, Drop, Report, GameRequest,
                JoinCommand, IgnoreCommand, JoinArcade, GameStart, StartSection, ArcadeLeave,
                Farewell, Settle, Unseat, Close, Crash, TypeOK
  <2> QED
    BY <2>1
<1>3. CASE MainThread
  <2>1. ASSUME NEW c \in Conn, Accept(c) PROVE KickeeThere'
    BY <2>1 DEF Accept, TypeOK
  <2>2. ASSUME NEW c \in Conn, Kick(c) PROVE KickeeThere'
    BY <2>2 DEF Kick
  <2>3. CASE KickBegin \/ KickSettle \/ KickUnseat
    <3>1. /\ kickee' \in {kickee, NoConn}
          /\ kickee' = kickee => link'[kickee] = link[kickee] \/ kickee \notin Conn
      BY <2>3, ConstantsAssumption DEF KickBegin, KickSettle, KickUnseat, Close, TypeOK
    <3> QED
      BY <3>1, ConstantsAssumption
  <2>4. CASE KickFarewell
    BY <2>4 DEF KickFarewell
  <2>5. CASE Reaping
    BY <2>5 DEF Reaping, SweepBegin, Visit, Doom, Destroy, TypeOK
  <2>6. CASE ServerClose
    BY <2>6 DEF ServerClose, TypeOK
  <2> QED
    BY <1>3, <2>1, <2>2, <2>3, <2>4, <2>5, <2>6 DEF MainThread, Kicking
<1>4. CASE Ended
  BY <1>1, <1>4 DEF Ended
<1> QED
  BY <1>1, <1>2, <1>3, <1>4 DEF Next

\* The console's closing of a connection, seen from the count.
LEMMA CountKickClose ==
  ASSUME TypeOK, TypeOK', Sessions, CountInv, kickee \in Conn, up, up',
         mpc = "kick" => ~init[kickee], mpc \in {"kick", "settle", "unseat"},
         Close(kickee, FALSE), mpc' = "loop", UNCHANGED <<count, kicks, pc>>
  PROVE  CountInv'
<1> PICK c \in Conn : c = kickee
  OBVIOUS
<1> DEFINE late == Bit(mpc # "kick" /\ Uncounted(c))
           gain == Bit(Undead(c)') - Bit(Undead(c))
<1>1. /\ kickee' \notin Conn
      /\ \A d \in Conn \ {c} : link'[d] = link[d] /\ init'[d] = init[d]
      /\ link'[c] = "closed" /\ ~init'[c]
  BY DEF Close, TypeOK
<1>2. \A d \in Conn \ {c} : /\ Present(d)' <=> Present(d)
                            /\ Owes(d)' <=> Owes(d)
                            /\ Undead(d)' <=> Undead(d)
  BY <1>1 DEF Present, Parting, Owes, Kicked, Undead
<1>3. /\ Bit(Present(c)') = Bit(Present(c)) /\ Bit(Present(c)) \in 0..1
      /\ Bit(Owes(c)') = Bit(Owes(c)) /\ Bit(Owes(c)) \in 0..1
  <2>1. Present(c)' <=> pc[c] = "admitted"
    BY <1>1 DEF Present
  <2>2. Present(c) <=> pc[c] = "admitted"
    BY DEF Present, Parting, Sessions
  <2>3. Owes(c)' <=> pc[c] = "farewell"
    BY <1>1 DEF Owes
  <2>4. Owes(c) <=> pc[c] = "farewell"
    BY DEF Owes, Kicked
  <2> QED
    BY <2>1, <2>2, <2>3, <2>4 DEF Bit
<1>4. gain \in Int /\ gain <= 1
  BY DEF Bit
<1>5. Spare' = 0 /\ Spare \in 0..1
  BY DEF Spare, Bit
<1>6. Slack' = 0 /\ Slack = 1 + late /\ late \in 0..1
  BY <1>1 DEF Slack, Bit
<1> HIDE DEF late, gain
<1>7. count' = (count + (0 + Bit(Present(c)') - Bit(Present(c)))) % 256
  <2>1. 0 + Bit(Present(c)') - Bit(Present(c)) = 0
    BY <1>3
  <2>2. (count + 0) % 256 = count
    BY SmallCounts DEF TypeOK
  <2> QED
    BY <2>1, <2>2
<1>8. Spare' - Spare - (kicks' - kicks) <= 0 - (Bit(Owes(c)') - Bit(Owes(c)))
  BY <1>3, <1>5 DEF TypeOK
<1>9. 0 + gain + (Slack' - Slack) <= kicks' - kicks
  BY <1>4, <1>6 DEF TypeOK
<1> QED
  BY <1>2, <1>7, <1>8, <1>9, CountStep DEF gain

\* The console's goodbye, seen from the count: it takes one away for somebody who may not
\* be counted, or whose own thread is taking it away too.
LEMMA CountKickFarewell ==
  ASSUME TypeOK, TypeOK', Sessions, KickeeThere, CountInv, KickFarewell
  PROVE  CountInv'
<1> USE DEF memberVars, arcadeVars, threadVars, mainVars, ghostVars
<1> PICK c \in Conn : c = kickee
  BY DEF KickFarewell, TypeOK
<1> DEFINE early == Bit(Uncounted(c))
           owed == Bit(Owes(c)') - Bit(Owes(c))
<1>1. /\ up /\ up' /\ link[c] # "free"
      /\ UNCHANGED <<kicks, link, init, pc, kickee>>
      /\ mpc = "farewell" /\ mpc' = "settle"
      /\ count' = (count + 255) % 256
  BY DEF KickFarewell, Forget, TypeOK, KickeeThere
<1>2. \A d \in Conn \ {c} : /\ Present(d)' <=> Present(d)
                            /\ Owes(d)' <=> Owes(d)
                            /\ Undead(d)' <=> Undead(d)
  BY <1>1 DEF Present, Parting, Owes, Kicked, Undead
<1>3. /\ early \in 0..1
      /\ Bit(Present(c)') - Bit(Present(c)) = early - 1
      /\ Bit(Present(c)') \in 0..1 /\ Bit(Present(c)) \in 0..1
  BY <1>1 DEF Present, Parting, Uncounted, Bit, Sessions
<1>4. owed \in 0..1 /\ Spare = 1 /\ Spare' = 1 - early - owed
  BY <1>1 DEF Owes, Kicked, Spare, Uncounted, Bit
<1>5. Slack = 1 /\ Slack' = 1 + early
  BY <1>1 DEF Slack, Uncounted, Bit
<1>6. Bit(Undead(c)') - Bit(Undead(c)) = 0
  <2>1. Undead(c)' <=> Undead(c)
    BY <1>1 DEF Undead
  <2> QED
    BY <2>1 DEF Bit
<1> HIDE DEF early, owed
<1>7. count' = (count + (-early + Bit(Present(c)') - Bit(Present(c)))) % 256
  <2>1. -early + Bit(Present(c)') - Bit(Present(c)) = -1
    BY <1>3
  <2>2. (count + 255) % 256 = (count + (-1)) % 256
    BY SmallCounts DEF TypeOK
  <2> QED
    BY <1>1, <2>1, <2>2
<1>8. Spare' - Spare - (kicks' - kicks) <= -early - owed
  BY <1>1, <1>3, <1>4 DEF TypeOK
<1>9. -early + (Bit(Undead(c)') - Bit(Undead(c))) + (Slack' - Slack) <= kicks' - kicks
  BY <1>1, <1>3, <1>5, <1>6 DEF TypeOK
<1>10. -early \in Int
  BY <1>3
<1> QED
  BY <1>1, <1>2, <1>7, <1>8, <1>9, <1>10, CountStep DEF owed


\* Reaping connections that count as players for good: the count stays, they go.
LEMMA CountDestroy ==
  ASSUME TypeOK, TypeOK', Sessions, CountInv, Destroy
  PROVE  CountInv'
<1> USE DEF memberVars, arcadeVars, threadVars, mainVars, ghostVars
<1> DEFINE owing == {d \in Conn : Owes(d)}
           undead == {d \in Conn : Undead(d)}
           gone == {d \in batch : init[d]}
<1>1. /\ up /\ up' /\ kickee \notin Conn /\ kickee' \notin Conn /\ mpc = "join" /\ mpc' = "loop"
      /\ UNCHANGED <<kicks, init, pc, count>>
      /\ \A d \in Conn : link'[d] = IF d \in batch THEN "free" ELSE link[d]
      /\ \A d \in batch : pc[d] = "ready" /\ link[d] = "closed" /\ d \in Conn
  BY DEF Destroy, TypeOK, Sessions
<1>2. PICK k \in Int : OffBy(k)
  BY <1>1 DEF CountInv
<1>3. /\ Players' = Players \ gone /\ Players \cap gone = gone
      /\ undead' = undead \ gone /\ undead \cap gone = gone
      /\ owing' = owing
  <2>1. \A d \in Conn : /\ Present(d)' <=> (Present(d) /\ d \notin gone)
                        /\ d \in gone => Present(d) /\ Undead(d)
    BY <1>1 DEF Present, Parting, Undead
  <2>2. \A d \in Conn : /\ Undead(d)' <=> (Undead(d) /\ d \notin gone)
                        /\ Owes(d)' <=> Owes(d)
    BY <1>1 DEF Undead, Owes, Kicked
  <2>3. gone \subseteq Conn
    BY <1>1
  <2> HIDE DEF gone
  <2> QED
    BY <2>1, <2>2, <2>3 DEF Players
<1>4. IsFiniteSet(Players) /\ IsFiniteSet(undead) /\ IsFiniteSet(gone)
  BY <1>1, FS_Subset, ConstantsAssumption DEF Players
<1>5. /\ Spare' = Spare /\ Spare = 0 /\ Slack' = Slack /\ Slack = 0
  BY <1>1 DEF Spare, Slack, Bit
<1> HIDE DEF owing, undead, gone
<1>6. /\ Cardinality(Players') = Cardinality(Players) - Cardinality(gone)
      /\ Cardinality(undead') = Cardinality(undead) - Cardinality(gone)
      /\ Cardinality(gone) \in Nat
      /\ Cardinality(undead) \in Nat /\ Cardinality(Players) \in Nat
  BY <1>3, <1>4, FS_Difference, FS_CardinalityType, ZenonT(40)
<1>7. Cardinality(owing) \in Nat
  BY FS_Subset, FS_CardinalityType, ConstantsAssumption DEF owing
<1>8. /\ count = (Cardinality(Players) + k) % 256
      /\ Spare - kicks <= k - Cardinality(owing)
      /\ k + Cardinality(undead) + Slack <= kicks
  BY <1>2 DEF OffBy, owing, undead
<1>9. count' = (Cardinality(Players') + (k + Cardinality(gone))) % 256
  <2>1. Cardinality(Players') + (k + Cardinality(gone)) = Cardinality(Players) + k
    BY <1>6
  <2> QED
    BY <1>1, <1>8, <2>1
<1>10. Spare' - kicks' <= (k + Cardinality(gone)) - Cardinality(owing')
  BY <1>1, <1>3, <1>5, <1>6, <1>7, <1>8 DEF TypeOK
<1>11. (k + Cardinality(gone)) + Cardinality(undead') + Slack' <= kicks'
  BY <1>1, <1>5, <1>6, <1>8 DEF TypeOK
<1>12. k + Cardinality(gone) \in Int
  BY <1>6
<1> QED
  BY <1>9, <1>10, <1>11, <1>12 DEF CountInv, OffBy, owing, undead

\* Every step of the main thread keeps the count's invariant.
LEMMA CountMainThread ==
  ASSUME TypeOK, TypeOK', Sessions, KickeeThere, CountInv, MainThread
  PROVE  CountInv'
<1> USE DEF memberVars, arcadeVars, threadVars, mainVars, ghostVars
<1>1. ASSUME NEW c \in Conn, Accept(c) PROVE CountInv'
  <2>1. /\ UNCHANGED <<count, kicks, kickee, mpc, pc>> /\ up /\ up' /\ mpc = "loop"
        /\ \A d \in Conn \ {c} : link'[d] = link[d] /\ init'[d] = init[d]
        /\ pc[c] = "ready" /\ ~init'[c] /\ link[c] = "free" /\ link'[c] = "open"
        /\ kickee \notin Conn
    BY <1>1 DEF Accept, Sessions, TypeOK
  <2>2. \A d \in Conn : /\ Present(d)' <=> Present(d)
                        /\ Owes(d)' <=> Owes(d)
                        /\ Undead(d)' <=> Undead(d)
    BY <2>1 DEF Present, Parting, Owes, Kicked, Undead
  <2>3. Spare' = Spare /\ Slack' = Slack
    BY <2>1 DEF Spare, Slack
  <2> QED
    BY <2>1, <2>2, <2>3, CountQuiet
<1>2. ASSUME NEW c \in Conn, Kick(c) PROVE CountInv'
  <2>1. /\ UNCHANGED <<count, link, init, pc>> /\ up /\ up'
        /\ mpc = "loop" /\ mpc' = "kick" /\ kickee \notin Conn /\ kickee' = c
        /\ kicks' = kicks + 1
    BY <1>2 DEF Kick, TypeOK
  <2>2. \A d \in Conn : /\ Present(d)' <=> Present(d)
                        /\ Owes(d)' <=> Owes(d)
                        /\ Undead(d)' <=> Undead(d)
    BY <2>1 DEF Present, Parting, Owes, Kicked, Undead
  <2>3. Spare' = 1 /\ Spare = 0 /\ Slack' = 1 /\ Slack = 0
    BY <2>1 DEF Spare, Slack, Bit
  <2>4. /\ Bit(Present(c)') = Bit(Present(c)) /\ Bit(Present(c)) \in 0..1
        /\ Bit(Owes(c)') = Bit(Owes(c)) /\ Bit(Owes(c)) \in 0..1
        /\ Bit(Undead(c)') = Bit(Undead(c)) /\ Bit(Undead(c)) \in 0..1
    BY <2>2 DEF Bit
  <2>5. count' = (count + (0 + Bit(Present(c)') - Bit(Present(c)))) % 256
    <3>1. 0 + Bit(Present(c)') - Bit(Present(c)) = 0
      BY <2>4
    <3>2. (count + 0) % 256 = count
      BY SmallCounts DEF TypeOK
    <3> QED
      BY <2>1, <3>1, <3>2
  <2>6. Spare' - Spare - (kicks' - kicks) <= 0 - (Bit(Owes(c)') - Bit(Owes(c)))
    BY <2>1, <2>3, <2>4 DEF TypeOK
  <2>7. 0 + (Bit(Undead(c)') - Bit(Undead(c))) + (Slack' - Slack) <= kicks' - kicks
    BY <2>1, <2>3, <2>4 DEF TypeOK
  <2> QED
    BY <2>1, <2>2, <2>5, <2>6, <2>7, CountStep
<1>3. CASE KickBegin
  <2>1. CASE init[kickee]
    <3>1. /\ UNCHANGED <<count, kicks, kickee, link, init, pc>> /\ up /\ up'
          /\ mpc = "kick" /\ mpc' = "farewell"
      BY <1>3, <2>1 DEF KickBegin
    <3>2. \A d \in Conn : /\ Present(d)' <=> Present(d)
                          /\ Owes(d)' <=> Owes(d)
                          /\ Undead(d)' <=> Undead(d)
      BY <3>1 DEF Present, Parting, Owes, Kicked, Undead
    <3>3. Spare' = Spare /\ Slack' = Slack
      BY <3>1 DEF Spare, Slack
    <3> QED
      BY <3>1, <3>2, <3>3, CountQuiet
  <2>2. CASE ~init[kickee]
    BY <1>3, <2>2, CountKickClose DEF KickBegin, TypeOK
  <2> QED
    BY <2>1, <2>2
<1>4. CASE KickFarewell
  BY <1>4, CountKickFarewell
<1>5. CASE KickSettle
  <2>1. CASE status[kickee] = "idle"
    BY <1>5, <2>1, CountKickClose DEF KickSettle, TypeOK
  <2>2. CASE status[kickee] # "idle"
    <3>1. /\ UNCHANGED <<count, kicks, kickee, link, init, pc>> /\ up /\ up'
          /\ mpc = "settle" /\ mpc' = "unseat"
      BY <1>5, <2>2 DEF KickSettle
    <3>2. \A d \in Conn : /\ Present(d)' <=> Present(d)
                          /\ Owes(d)' <=> Owes(d)
                          /\ Undead(d)' <=> Undead(d)
      BY <3>1 DEF Present, Parting, Owes, Kicked, Undead
    <3>3. Spare' = Spare /\ Slack' = Slack
      BY <3>1 DEF Spare, Slack, Uncounted
    <3> QED
      BY <3>1, <3>2, <3>3, CountQuiet
  <2> QED
    BY <2>1, <2>2
<1>6. CASE KickUnseat
  BY <1>6, CountKickClose DEF KickUnseat, TypeOK
<1>7. CASE SweepBegin \/ Doom \/ (\E c \in Conn : Visit(c))
  <2>1. /\ UNCHANGED <<count, kicks, kickee, link, init, pc>> /\ up /\ up'
        /\ {mpc, mpc'} \subseteq {"loop", "sweep", "join"} /\ kickee \notin Conn
    BY <1>7 DEF SweepBegin, Doom, Visit, TypeOK
  <2>2. \A d \in Conn : /\ Present(d)' <=> Present(d)
                        /\ Owes(d)' <=> Owes(d)
                        /\ Undead(d)' <=> Undead(d)
    BY <2>1 DEF Present, Parting, Owes, Kicked, Undead
  <2>3. Spare' = Spare /\ Slack' = Slack
    BY <2>1 DEF Spare, Slack
  <2> QED
    BY <2>1, <2>2, <2>3, CountQuiet
<1>8. CASE Destroy
  BY <1>8, CountDestroy
<1>9. CASE ServerClose
  BY <1>9 DEF ServerClose, CountInv
<1> QED
  BY <1>1, <1>2, <1>3, <1>4, <1>5, <1>6, <1>7, <1>8, <1>9 DEF MainThread, Kicking, Reaping


\* Every step keeps the count's invariant.
LEMMA CountInvNext ==
  TypeOK /\ TypeOK' /\ Sessions /\ KickeeThere /\ CountInv /\ [Next]_vars => CountInv'
<1> SUFFICES ASSUME TypeOK, TypeOK', Sessions, KickeeThere, CountInv, [Next]_vars
             PROVE  CountInv'
  OBVIOUS
<1>1. CASE UNCHANGED vars
  BY <1>1 DEF vars, memberVars, mainVars, threadVars, CountInv, OffBy, Players, Present, Parting,
              Owes, Kicked, Undead, Spare, Slack, Uncounted
<1>2. ASSUME NEW c \in Conn, NetThread(c) PROVE CountInv'
  BY <1>2, CountNetThread
<1>3. CASE MainThread
  BY <1>3, CountMainThread
<1>4. CASE Ended
  BY <1>1, <1>4 DEF Ended
<1> QED
  BY <1>1, <1>2, <1>3, <1>4 DEF Next

\* What the invariant says of the count: the kicks bound the error from both sides.
LEMMA CountInvSuffices == TypeOK /\ CountInv => CountDrift
<1> SUFFICES ASSUME TypeOK, CountInv, up
             PROVE  \E k \in (-kicks)..kicks : count = (Cardinality(Players) + k) % 256
  BY DEF CountDrift, Players
<1>1. PICK k \in Int : OffBy(k)
  BY DEF CountInv
<1>2. /\ Cardinality({c \in Conn : Owes(c)}) \in Nat
      /\ Cardinality({c \in Conn : Undead(c)}) \in Nat
  BY FS_Subset, FS_CardinalityType, ConstantsAssumption
<1>3. Spare \in Nat /\ Slack \in Nat /\ kicks \in Nat
  BY DEF Spare, Slack, Bit, TypeOK
<1>4. k \in (-kicks)..kicks
  BY <1>1, <1>2, <1>3 DEF OffBy
<1> QED
  BY <1>1, <1>4 DEF OffBy

\* The invariant of the count holds of every behaviour.
THEOREM CountInvariant == Spec => [](Sessions /\ KickeeThere /\ CountInv)
<1>1. Init => KickeeThere
  BY ConstantsAssumption DEF Init, KickeeThere
<1> QED
  BY <1>1, SessionsInit, CountInvInit, SessionsNext, KickeeThereNext, CountInvNext,
     InitType, NextType, PTL DEF Spec

\* currentPlayers is off by at most one for each console kick (CountDrift).
THEOREM CountDriftAlways == Spec => []CountDrift
BY CountInvariant, TypeCorrect, CountInvSuffices, PTL

-----------------------------------------------------------------------------
(* The capacity.                                                           *)

\* Without kicks and races for the last place there are at most MaxPlayers players, and
\* whoever is between onJoin's test and its section is alone there, with room left.
CapInv ==
  ~rushed /\ kicks = 0 =>
    /\ count <= MaxPlayers
    /\ up => Cardinality(Players) <= MaxPlayers
    /\ \A c, d \in Conn : pc[c] = "joining" /\ pc[d] = "joining" => c = d
    /\ \A c \in Conn : pc[c] = "joining" => count < MaxPlayers

\* Without kicks the count is the number of players.
Exact ==
  up /\ kicks = 0 => /\ count = Cardinality(Players) % 256
                     /\ Cardinality(Players) \in Nat
                     /\ kickee \notin Conn

\* CountInv says so.
LEMMA CountExact == TypeOK /\ CountInv => Exact
<1> SUFFICES ASSUME TypeOK, CountInv, up, kicks = 0
             PROVE  /\ count = Cardinality(Players) % 256
                    /\ Cardinality(Players) \in Nat
                    /\ kickee \notin Conn
  BY DEF Exact
<1>1. PICK k \in Int : OffBy(k)
  BY DEF CountInv
<1>2. /\ Cardinality({c \in Conn : Owes(c)}) \in Nat
      /\ Cardinality({c \in Conn : Undead(c)}) \in Nat
      /\ Cardinality(Players) \in Nat
  BY FS_Subset, FS_CardinalityType, ConstantsAssumption DEF Players
<1>3. Spare \in Nat /\ Slack \in Nat
  BY DEF Spare, Slack, Bit
<1>4. k = 0 /\ Slack = 0
  BY <1>1, <1>2, <1>3 DEF OffBy
<1>5. kickee \notin Conn
  BY <1>4 DEF Slack, Bit
<1> QED
  BY <1>1, <1>2, <1>4, <1>5 DEF OffBy

\* onJoin's section is the only step that adds a player.
LEMMA Newcomers ==
  ASSUME TypeOK, Sessions, [Next]_vars, up', kickee \notin Conn
  PROVE  (\E c \in Conn : JoinSection(c)) \/ Players' \subseteq Players
<1> USE DEF memberVars, arcadeVars, threadVars, mainVars, ghostVars
<1> SUFFICES ASSUME \A c \in Conn : ~JoinSection(c), NEW d \in Conn, ~Present(d)
             PROVE  ~Present(d)'
  BY DEF Players
<1>1. CASE UNCHANGED vars
  BY <1>1 DEF vars, Present, Parting
<1>2. ASSUME NEW c \in Conn, NetThread(c), ~JoinSection(c) PROVE ~Present(d)'
  <2>1. c # d => pc'[d] = pc[d] /\ init'[d] = init[d] /\ link'[d] = link[d]
    BY <1>2, ZenonT(40) DEF NetThread, Hello, Admit, PlayerLeave, Drop, Report, GameRequest,
                JoinCommand, IgnoreCommand, JoinArcade, GameStart, StartSection, ArcadeLeave,
                Farewell, Settle, Unseat, Close, Crash, TypeOK
  <2>2. kickee' = kickee
    BY <1>2 DEF NetThread, Hello, Admit, PlayerLeave, Drop, Report, GameRequest,
                JoinCommand, IgnoreCommand, JoinArcade, GameStart, StartSection, ArcadeLeave,
                Farewell, Settle, Unseat, Crash
  <2>3. CASE c # d
    BY <2>1, <2>2, <2>3 DEF Present, Parting
  <2>4. CASE c = d /\ (Settle(c) \/ Unseat(c))
    BY <2>2, <2>4, ZenonT(40) DEF Settle, Unseat, Close, Present, Parting, TypeOK
  <2>5. CASE c = d /\ Admit(c)
    BY <2>2, <2>5 DEF Admit, Present, Sessions
  <2>6. CASE c = d /\ ~(Settle(c) \/ Unseat(c) \/ Admit(c))
    <3>1. /\ init'[d] = init[d] /\ (link[d] = "free" => link'[d] = "free")
          /\ pc'[d] # "admitted" \/ pc'[d] = pc[d]
          /\ pc[d] \notin {"settle", "unseat"} \/ pc'[d] = pc[d]
      BY <1>2, <2>6, ZenonT(40) DEF NetThread, Hello, PlayerLeave, Drop, Report, GameRequest,
                JoinCommand, IgnoreCommand, JoinArcade, GameStart, StartSection, ArcadeLeave,
                Farewell, Crash, Receives, TypeOK
    <3> QED
      BY <2>2, <3>1 DEF Present, Parting
  <2> QED
    BY <2>3, <2>4, <2>5, <2>6
<1>3. CASE MainThread
  <2>1. ASSUME NEW c \in Conn, Accept(c) PROVE ~Present(d)'
    BY <2>1 DEF Accept, Present, Parting, Sessions, TypeOK
  <2>2. ASSUME NEW c \in Conn, Kick(c) PROVE ~Present(d)'
    BY <2>2 DEF Kick, Present, Parting
  <2>3. ~(KickBegin \/ KickFarewell \/ KickSettle \/ KickUnseat)
    BY DEF KickBegin, KickFarewell, KickSettle, KickUnseat, TypeOK
  <2>4. CASE Reaping
    <3>1. UNCHANGED <<pc, init, kickee>> /\ (link[d] = "free" => link'[d] = "free")
      BY <2>4 DEF Reaping, SweepBegin, Visit, Doom, Destroy, TypeOK
    <3> QED
      BY <3>1 DEF Present, Parting
  <2>5. ~ServerClose
    BY DEF ServerClose
  <2> QED
    BY <1>3, <2>1, <2>2, <2>3, <2>4, <2>5 DEF MainThread, Kicking
<1>4. CASE Ended
  BY <1>1, <1>4 DEF Ended
<1> QED
  BY <1>1, <1>2, <1>3, <1>4 DEF Next

\* A Hello is the only step after which somebody is about to join who was not.
LEMMA Joiners ==
  ASSUME TypeOK, [Next]_vars, NEW d \in Conn, pc'[d] = "joining", pc[d] # "joining"
  PROVE  \E p \in Profile : Hello(d, p)
<1> USE DEF memberVars, arcadeVars, threadVars, mainVars, ghostVars
<1>1. pc' # pc
  OBVIOUS
<1>2. PICK c \in Conn : NetThread(c)
  BY <1>1 DEF Next, vars, MainThread, Accept, Kicking, Kick, KickBegin, KickFarewell, KickSettle,
              KickUnseat, Reaping, SweepBegin, Visit, Doom, Destroy, ServerClose, Ended
<1>3. c # d => pc'[d] = pc[d]
  BY <1>2 DEF NetThread, Hello, JoinSection, Admit, PlayerLeave, Drop, Report, GameRequest,
              JoinCommand, IgnoreCommand, JoinArcade, GameStart, StartSection, ArcadeLeave,
              Farewell, Settle, Unseat, Crash, TypeOK
<1> QED
  BY <1>2, <1>3 DEF NetThread, JoinSection, Admit, PlayerLeave, Drop, Report, GameRequest,
              JoinCommand, IgnoreCommand, JoinArcade, GameStart, StartSection, ArcadeLeave,
              Farewell, Settle, Unseat, Crash, TypeOK


\* The process ends all at once: neither the count nor a thread moves any more.
LEMMA EndsAtOnce ==
  ASSUME [Next]_vars
  PROVE  UNCHANGED <<up, count, pc>> \/ (up /\ (up' \/ UNCHANGED <<count, pc>>))
<1> USE DEF memberVars, arcadeVars, threadVars, mainVars, ghostVars
<1>1. ASSUME NEW c \in Conn, NetThread(c) PROVE up /\ (up' \/ UNCHANGED <<count, pc>>)
  <2>1. CASE JoinArcade(c)
    BY <2>1 DEF JoinArcade
  <2>2. CASE StartSection(c)
    BY <2>2 DEF StartSection
  <2>3. CASE Crash(c)
    BY <2>3 DEF Crash
  <2>4. CASE ~(JoinArcade(c) \/ StartSection(c) \/ Crash(c))
    BY <1>1, <2>4 DEF NetThread, Hello, JoinSection, Admit, PlayerLeave, Drop, Report,
           GameRequest, JoinCommand, IgnoreCommand, GameStart, ArcadeLeave, Farewell, Settle,
           Unseat, Receives
  <2> QED
    BY <2>1, <2>2, <2>3, <2>4
<1>2. ASSUME MainThread PROVE up /\ (up' \/ UNCHANGED <<count, pc>>)
  <2>1. CASE Kicking
    <3>1. ASSUME NEW c \in Conn, Kick(c) PROVE up /\ up'
      BY <3>1 DEF Kick
    <3>2. CASE KickBegin
      BY <3>2 DEF KickBegin
    <3>3. CASE KickFarewell
      BY <3>3 DEF KickFarewell
    <3>4. CASE KickSettle
      BY <3>4 DEF KickSettle
    <3>5. CASE KickUnseat
      BY <3>5 DEF KickUnseat
    <3> QED
      BY <2>1, <3>1, <3>2, <3>3, <3>4, <3>5 DEF Kicking
  <2>2. CASE Reaping \/ ServerClose
    BY <2>2 DEF Reaping, SweepBegin, Visit, Doom, Destroy, ServerClose
  <2>3. CASE \E c \in Conn : Accept(c)
    BY <2>3 DEF Accept
  <2> QED
    BY <1>2, <2>1, <2>2, <2>3 DEF MainThread
<1>3. UNCHANGED vars => UNCHANGED <<up, count, pc>>
  BY DEF vars
<1> QED
  BY <1>1, <1>2, <1>3 DEF Next, Ended

\* Every step keeps the capacity's invariant.
LEMMA CapInvNext ==
  /\ TypeOK /\ Sessions /\ Exact /\ Exact' /\ CapInv
  /\ [Next]_vars
  => CapInv'
<1> USE DEF memberVars, arcadeVars, threadVars, mainVars, ghostVars
<1> SUFFICES ASSUME TypeOK, Sessions, Exact, Exact', CapInv, [Next]_vars,
                    ~rushed', kicks' = 0
             PROVE  /\ count' <= MaxPlayers
                    /\ up' => Cardinality(Players') <= MaxPlayers
                    /\ \A c, d \in Conn : pc'[c] = "joining" /\ pc'[d] = "joining" => c = d
                    /\ \A c \in Conn : pc'[c] = "joining" => count' < MaxPlayers
  BY DEF CapInv
<1>1. ~rushed /\ kicks = 0
  <2>1. rushed' = rushed \/ (\E c \in Conn, p \in Profile : Hello(c, p))
    BY DEF Next, vars, NetThread, JoinSection, Admit, PlayerLeave, Drop, Report, GameRequest,
           JoinCommand, IgnoreCommand, JoinArcade, GameStart, StartSection, ArcadeLeave,
           Farewell, Settle, Unseat, Crash, MainThread, Accept, Kicking, Kick, KickBegin,
           KickFarewell, KickSettle, KickUnseat, Reaping, SweepBegin, Visit, Doom, Destroy,
           ServerClose, Ended
  <2>2. ASSUME NEW c \in Conn, NEW p \in Profile, Hello(c, p) PROVE ~rushed
    BY <2>2 DEF Hello
  <2>3. kicks' = kicks \/ kicks' = kicks + 1
    BY ZenonT(40) DEF Next, vars, NetThread, Hello, JoinSection, Admit, PlayerLeave, Drop, Report,
           GameRequest, JoinCommand, IgnoreCommand, JoinArcade, GameStart, StartSection,
           ArcadeLeave, Farewell, Settle, Unseat, Crash, MainThread, Accept, Kicking, Kick,
           KickBegin, KickFarewell, KickSettle, KickUnseat, Reaping, SweepBegin, Visit, Doom,
           Destroy, ServerClose, Ended
  <2>4. kicks = 0
    BY <2>3 DEF TypeOK
  <2> QED
    BY <2>1, <2>2, <2>4
<1>2. /\ count <= MaxPlayers
      /\ up => Cardinality(Players) <= MaxPlayers
      /\ \A c, d \in Conn : pc[c] = "joining" /\ pc[d] = "joining" => c = d
      /\ \A c \in Conn : pc[c] = "joining" => count < MaxPlayers
  BY <1>1 DEF CapInv
<1>3. CASE ~up'
  <2>1. count' = count /\ pc' = pc
    BY <1>3, EndsAtOnce
  <2> QED
    BY <1>2, <1>3, <2>1
<1>4. CASE up'
  <2>1. up
    BY <1>4, EndsAtOnce
  <2>2. count = Cardinality(Players) % 256 /\ Cardinality(Players) \in Nat /\ kickee \notin Conn
    BY <1>1, <2>1 DEF Exact
  <2>3. count' = Cardinality(Players') % 256 /\ Cardinality(Players') \in Nat
    BY <1>4 DEF Exact
  <2>4. MaxPlayers \in 1..255
    BY ConstantsAssumption
  <2>5. count = Cardinality(Players)
    BY <1>2, <2>1, <2>2, <2>4
  <2>6. ASSUME NEW c \in Conn, JoinSection(c)
        PROVE  /\ Cardinality(Players') <= MaxPlayers
               /\ \A d \in Conn : pc'[d] # "joining"
    <3>1. /\ pc[c] = "joining" /\ pc' = [pc EXCEPT ![c] = "admitted"]
          /\ UNCHANGED <<link, init, kickee, mpc>>
      BY <2>6 DEF JoinSection
    <3>2. \A d \in Conn : pc'[d] # "joining"
      BY <1>2, <3>1 DEF TypeOK
    <3>3. \A d \in Conn \ {c} : d \in Players <=> d \in Players'
      BY <3>1 DEF Players, Present, Parting, TypeOK
    <3>4. Cardinality(Players') = Cardinality(Players) + Bit(c \in Players') - Bit(c \in Players)
      <4>1. Players \in SUBSET Conn /\ Players' \in SUBSET Conn
        BY DEF Players
      <4> QED
        BY <3>3, <4>1, OneChanges
    <3>5. count < MaxPlayers
      BY <1>2, <3>1
    <3>6. Bit(c \in Players') \in 0..1 /\ Bit(c \in Players) \in 0..1
      BY DEF Bit
    <3> QED
      BY <2>2, <2>4, <2>5, <3>2, <3>4, <3>5, <3>6
  <2>7. CASE Players' \subseteq Players
    <3>1. Cardinality(Players') <= Cardinality(Players)
      <4>1. IsFiniteSet(Players)
        BY FS_Subset, ConstantsAssumption DEF Players
      <4> QED
        BY <2>7, <4>1, FS_Subset
    <3>2. count' = Cardinality(Players') /\ count' <= count
      BY <1>2, <2>2, <2>3, <2>4, <2>5, <3>1
    <3>3. \A d \in Conn : pc'[d] = "joining" /\ pc[d] # "joining"
                          => count # MaxPlayers /\ \A c \in Conn : pc[c] # "joining"
                             /\ (c # d => pc'[c] = pc[c])
      <4> SUFFICES ASSUME NEW d \in Conn, pc'[d] = "joining", pc[d] # "joining"
                   PROVE  count # MaxPlayers /\ \A c \in Conn : pc[c] # "joining"
                             /\ (c # d => pc'[c] = pc[c])
        OBVIOUS
      <4>1. PICK p \in Profile : Hello(d, p)
        BY Joiners
      <4> QED
        BY <4>1 DEF Hello, TypeOK
    <3>4. \A d \in Conn : pc'[d] = "joining" => count < MaxPlayers
      BY <1>2, <2>2, <2>4, <2>5, <3>3
    <3>5. \A c, d \in Conn : pc'[c] = "joining" /\ pc'[d] = "joining" => c = d
      BY <1>2, <3>3
    <3> QED
      BY <1>2, <2>1, <2>2, <2>3, <2>4, <2>5, <3>1, <3>2, <3>4, <3>5
  <2>8. CASE \E c \in Conn : JoinSection(c)
    <3>1. Cardinality(Players') <= MaxPlayers /\ \A d \in Conn : pc'[d] # "joining"
      BY <2>6, <2>8
    <3>2. count' <= MaxPlayers
      BY <2>3, <2>4, <3>1
    <3> QED
      BY <3>1, <3>2
  <2> QED
    BY <1>4, <2>2, <2>7, <2>8, Newcomers
<1> QED
  BY <1>3, <1>4

\* The lobby holds at most MaxPlayers, unless two clients race for the last place or the
\* console has kicked somebody (CapacityUnlessRushed).
THEOREM CapacityUnlessRushedAlways == Spec => []CapacityUnlessRushed
<1>1. Init => CapInv
  <2> SUFFICES ASSUME Init PROVE CapInv
    OBVIOUS
  <2>1. Players = {}
    BY DEF Init, Players, Present
  <2>2. Cardinality(Players) = 0
    BY <2>1, FS_EmptySet
  <2> QED
    BY <2>2, ConstantsAssumption DEF Init, CapInv
<1>2. TypeOK /\ CapInv => CapacityUnlessRushed
  BY DEF CapInv, CapacityUnlessRushed, TypeOK
<1> QED
  BY <1>1, <1>2, CountInvariant, TypeCorrect, CountExact, CapInvNext, PTL DEF Spec

=============================================================================
