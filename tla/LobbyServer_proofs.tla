-------------------------- MODULE LobbyServer_proofs --------------------------
(***************************************************************************)
(* Theorems about LobbyServer, for any connections, machines and bounds.   *)
(***************************************************************************)
EXTENDS LobbyServer, TLAPS, SequenceTheorems

-----------------------------------------------------------------------------
(* Erasing a connection from the seats of a machine.                       *)

\* The place in s of what ends up at place i once the first c is erased.
Before(s, c, i) == IF \E j \in 1..i : s[j] = c THEN i + 1 ELSE i

\* Erase yields a sequence; nobody new appears in it, and different places of it come
\* from different places of s (vector::erase in _leaveArcade and in the reaping).
LEMMA EraseType ==
  ASSUME NEW S, NEW s \in Seq(S), NEW c
  PROVE  /\ Erase(s, c) \in Seq(S)
         /\ c \in Members(s) =>
              /\ Len(Erase(s, c)) = Len(s) - 1
              /\ \A i \in 1..Len(Erase(s, c)) : /\ Before(s, c, i) \in 1..Len(s)
                                                /\ Erase(s, c)[i] = s[Before(s, c, i)]
<1>1. CASE c \notin Members(s)
  BY <1>1 DEF Erase
<1>2. CASE c \in Members(s)
  <2> DEFINE n == Len(s) - 1
             e == [i \in 1..n |-> IF \E j \in 1..i : s[j] = c THEN s[i + 1] ELSE s[i]]
  <2>1. s \in [1..Len(s) -> S] /\ Len(s) \in Nat
    BY LenProperties
  <2>2. n \in Nat /\ n + 1 = Len(s)
    BY <1>2, <2>1 DEF Members
  <2>3. \A i \in 1..n : e[i] = s[Before(s, c, i)] /\ Before(s, c, i) \in 1..Len(s)
    BY <2>2 DEF Before
  <2>4. e \in [1..n -> S]
    BY <2>1, <2>2
  <2>5. e \in Seq(S) /\ Len(e) = n
    BY <2>2, <2>4, SeqDef
  <2>6. Erase(s, c) = e
    BY <1>2 DEF Erase
  <2> QED
    BY <2>3, <2>5, <2>6
<1> QED
  BY <1>1, <1>2

\* Erase keeps apart what was apart.
LEMMA BeforeInjective ==
  ASSUME NEW s, NEW c, NEW i \in Nat, NEW j \in Nat, i < j
  PROVE  Before(s, c, i) < Before(s, c, j)
<1>1. (\E k \in 1..i : s[k] = c) => (\E k \in 1..j : s[k] = c)
  OBVIOUS
<1> QED
  BY <1>1 DEF Before

-----------------------------------------------------------------------------
(* Types.                                                                  *)

\* What SeatsAfter, BootedBy, Reset and SeatsWith yield is of the right type.
LEMMA SeatOpsType ==
  ASSUME TypeOK, NEW c \in Conn, NEW m \in Machine
  PROVE  /\ SeatsAfter(c, m) \in [Machine -> Seq(Conn)]
         /\ BootedBy(c, m) \subseteq Conn
<1>1. machines \in [Machine -> Seq(Conn)]
  BY DEF TypeOK
<1>2. Erase(machines[m], c) \in Seq(Conn)
  BY <1>1, EraseType
<1>3. Members(machines[m]) \subseteq Conn
  BY <1>1, ElementOfSeq DEF Members
<1>4. <<>> \in Seq(Conn)
  BY EmptySeq
<1> QED
  BY <1>1, <1>2, <1>3, <1>4 DEF SeatsAfter, BootedBy

\* A joiner leaves a sequence of connections behind it (end of _onPlayerJoinArcade).
LEMMA SeatsWithType ==
  ASSUME NEW c \in Conn, NEW s \in Seq(Conn), NEW st, NEW p1, NEW p2
  PROVE  SeatsWith(c, s, st, p1, p2) \in Seq(Conn)
<1>1. Append(s, c) \in Seq(Conn) /\ <<>> \in Seq(Conn)
  BY EmptySeq
<1> QED
  BY <1>1 DEF SeatsWith, StartRoom

\* The machine _leaveArcade looks at is a machine, empty optional or not.
LEMMA SeatSourceType ==
  ASSUME TypeOK, NEW c \in Conn
  PROVE  SeatSource(c) \subseteq Machine
BY DEF TypeOK, SeatSource

\* Closing a connection keeps the types.
LEMMA CloseType ==
  ASSUME TypeOK, NEW c \in Conn, NEW keep \in BOOLEAN, Close(c, keep)
  PROVE  /\ init' \in [Conn -> BOOLEAN]
         /\ link' \in [Conn -> {"free", "open", "closed"}]
         /\ rogue' \subseteq Conn
<1>1. init' \in [Conn -> BOOLEAN]
  BY DEF TypeOK, Close
<1>2. link' \in [Conn -> {"free", "open", "closed"}]
  BY DEF TypeOK, Close
<1>3. rogue' \subseteq Conn
  <2>1. CASE ~keep /\ Late(c)
    BY <2>1 DEF TypeOK, Close
  <2>2. CASE ~(~keep /\ Late(c))
    BY <2>2 DEF TypeOK, Close
  <2> QED
    BY <2>1, <2>2
<1> QED
  BY <1>1, <1>2, <1>3

\* _onPlayerJoinArcade keeps the types, whichever way it goes.
LEMMA JoinArcadeType ==
  ASSUME TypeOK, NEW c \in Conn, JoinArcade(c)
  PROVE  /\ machines' \in [Machine -> Seq(Conn)]
         /\ status' \in [Conn -> Status]
         /\ machineId' \in [Conn -> Machine \cup {NoMachine}]
         /\ rogue' \subseteq Conn
<1> DEFINE leaves == status[c] # "idle"
           out(from) == {c} \cup (IF leaves THEN BootedBy(c, from) ELSE {})
           seats(from) == IF leaves THEN SeatsAfter(c, from) ELSE machines
           st(from) == Reset(status, out(from), "idle")
           ids(from) == Reset(machineId, out(from), NoMachine)
           m == want[c]
<1>1. m \in Machine
  BY DEF TypeOK, JoinArcade
<1>2. rogue' \subseteq Conn
  BY DEF TypeOK, JoinArcade
<1>3. PICK from \in SeatSource(c), p1 \in Pref, p2 \in Pref :
        IF Refused(c, seats(from)[m])
        THEN /\ machines' = seats(from)
             /\ status' = st(from)
             /\ machineId' = ids(from)
        ELSE /\ machineId' = [ids(from) EXCEPT ![c] = m]
             /\ status' = [st(from) EXCEPT ![c] = "waiting"]
             /\ machines' = [seats(from) EXCEPT
                               ![m] = SeatsWith(c, @, status', p1, p2)]
  BY DEF JoinArcade, Reseats
<1>4. from \in Machine
  BY SeatSourceType
<1>5. seats(from) \in [Machine -> Seq(Conn)]
  BY <1>4, SeatOpsType DEF TypeOK
<1>6. st(from) \in [Conn -> Status]
  BY DEF TypeOK, Reset, Status
<1>7. ids(from) \in [Conn -> Machine \cup {NoMachine}]
  BY DEF TypeOK, Reset
<1> HIDE DEF seats, st, ids, m
<1>8. SeatsWith(c, seats(from)[m], status', p1, p2) \in Seq(Conn)
  BY <1>1, <1>5, SeatsWithType
<1> QED
  BY <1>1, <1>2, <1>3, <1>5, <1>6, <1>7, <1>8 DEF Status

\* A server that has just started has its types (the fields' defaults).
LEMMA InitType == Init => TypeOK
<1> SUFFICES ASSUME Init PROVE TypeOK
  OBVIOUS
<1>1. SomeProfile \in Profile
  BY ConstantsAssumption DEF SomeProfile
<1>2. <<>> \in Seq(Conn)
  BY EmptySeq
<1>3. NoConn \notin Conn /\ 0 \in 0..MaxKicks
  BY ConstantsAssumption
<1>4. /\ up \in BOOLEAN
      /\ link \in [Conn -> {"free", "open", "closed"}]
      /\ init \in [Conn -> BOOLEAN]
      /\ stays \in [Conn -> BOOLEAN]
      /\ rushed \in BOOLEAN
  BY DEF Init
<1>5. /\ profile \in [Conn -> Profile]
      /\ machines \in [Machine -> Seq(Conn)]
  BY <1>1, <1>2 DEF Init
<1>6. /\ status \in [Conn -> Status]
      /\ machineId \in [Conn -> Machine \cup {NoMachine}]
      /\ known \in [Conn -> SUBSET Conn]
      /\ pc \in [Conn -> Pc]
      /\ want \in [Conn -> Machine \cup {NoMachine}]
      /\ \A c \in Conn : pc[c] \notin {"request", "command"}
  BY DEF Init, Status, Pc
<1>7. /\ count \in 0..255
      /\ kicks \in 0..MaxKicks
      /\ batch \subseteq Conn /\ rogue \subseteq Conn /\ overlapped \subseteq Conn
  BY <1>3 DEF Init
<1>8. /\ mpc \in MainPc
      /\ kickee \in Conn \cup {NoConn}
      /\ mpc \in {"kick", "farewell", "settle", "unseat"} <=> kickee \in Conn
  BY <1>3 DEF Init, MainPc
<1> QED
  BY <1>4, <1>5, <1>6, <1>7, <1>8 DEF TypeOK

\* Every step of a net thread or of the main thread keeps the types.
LEMMA NextType == TypeOK /\ [Next]_vars => TypeOK'
<1> SUFFICES ASSUME TypeOK, [Next]_vars PROVE TypeOK'
  OBVIOUS
<1> USE DEF TypeOK, Status, Pc, MainPc
<1>1. CASE UNCHANGED vars
  BY <1>1 DEF vars, memberVars, arcadeVars, threadVars, mainVars, ghostVars
<1> USE DEF memberVars, arcadeVars, threadVars, mainVars, ghostVars
<1>2. ASSUME NEW c \in Conn, NetThread(c) PROVE TypeOK'
  <2>1. ASSUME NEW p \in Profile, Hello(c, p) PROVE TypeOK'
    <3>1. profile' \in [Conn -> Profile]
      BY <2>1 DEF Hello
    <3>2. rogue' \subseteq Conn
      BY <2>1 DEF Hello
    <3>3. CASE count = MaxPlayers
      BY <2>1, <3>1, <3>2, <3>3 DEF Hello
    <3>4. CASE count # MaxPlayers
      BY <2>1, <3>1, <3>2, <3>4 DEF Hello
    <3> QED
      BY <3>3, <3>4
  <2>2. CASE JoinSection(c)
    BY <2>2 DEF JoinSection, Meeting, InTransit
  <2>3. CASE Admit(c)
    BY <2>3 DEF Admit
  <2>4. CASE PlayerLeave(c)
    BY <2>4 DEF PlayerLeave, Receives
  <2>5. CASE Drop(c)
    <3>1. rogue' \subseteq Conn
      BY <2>5 DEF Drop
    <3>2. CASE init[c]
      BY <2>5, <3>2 DEF Drop
    <3>3. CASE ~init[c]
      BY <2>5, <3>1, <3>3 DEF Drop
    <3> QED
      BY <3>2, <3>3
  <2>6. ASSUME NEW st \in Status, Report(c, st) PROVE TypeOK'
    BY <2>6 DEF Report, Receives
  <2>7. ASSUME NEW m \in Machine, GameRequest(c, m) PROVE TypeOK'
    BY <2>7 DEF GameRequest, Receives
  <2>8. ASSUME NEW d \in Conn, JoinCommand(c, d) PROVE TypeOK'
    BY <2>8 DEF JoinCommand, Receives
  <2>9. CASE IgnoreCommand(c)
    BY <2>9 DEF IgnoreCommand
  <2>10. CASE JoinArcade(c)
    BY <2>10, JoinArcadeType DEF JoinArcade
  <2>11. CASE GameStart(c)
    BY <2>11 DEF GameStart, Receives
  <2>12. CASE StartSection(c)
    BY <2>12, SeatSourceType DEF StartSection
  <2>13. CASE ArcadeLeave(c)
    BY <2>13, SeatOpsType DEF ArcadeLeave, Receives, Reset
  <2>14. CASE Farewell(c)
    BY <2>14 DEF Farewell, Forget, Meeting, InTransit
  <2>15. CASE Settle(c)
    <3>1. CASE status[c] = "idle"
      BY <2>15, <3>1, CloseType, ZenonT(40) DEF Settle
    <3>2. CASE status[c] # "idle"
      BY <2>15, <3>2 DEF Settle
    <3> QED
      BY <3>1, <3>2
  <2>16. CASE Unseat(c)
    BY <2>16, SeatOpsType, SeatSourceType, CloseType DEF Unseat, LeaveSeat, Reset
  <2>17. CASE Crash(c)
    BY <2>17 DEF Crash
  <2> QED
    BY <1>2, <2>1, <2>2, <2>3, <2>4, <2>5, <2>6, <2>7, <2>8, <2>9, <2>10, <2>11, <2>12,
       <2>13, <2>14, <2>15, <2>16, <2>17 DEF NetThread
<1>3. CASE MainThread
  <2>1. ASSUME NEW c \in Conn, Accept(c) PROVE TypeOK'
    BY <2>1 DEF Accept
  <2>2. ASSUME NEW c \in Conn, Kick(c) PROVE TypeOK'
    BY <2>2, ConstantsAssumption DEF Kick
  <2>3. CASE KickBegin
    <3>1. kickee \in Conn
      BY <2>3 DEF KickBegin
    <3>2. CASE init[kickee]
      BY <2>3, <3>1, <3>2, CloseType, ConstantsAssumption DEF KickBegin
    <3>3. CASE ~(init[kickee])
      BY <2>3, <3>1, <3>3, CloseType, ConstantsAssumption DEF KickBegin
    <3> QED
      BY <3>2, <3>3
  <2>4. CASE KickFarewell
    BY <2>4 DEF KickFarewell, Forget, Meeting, InTransit
  <2>5. CASE KickSettle
    <3>1. kickee \in Conn
      BY <2>5 DEF KickSettle
    <3>2. CASE status[kickee] = "idle"
      BY <2>5, <3>1, <3>2, CloseType, ConstantsAssumption DEF KickSettle
    <3>3. CASE ~(status[kickee] = "idle")
      BY <2>5, <3>1, <3>3, CloseType, ConstantsAssumption DEF KickSettle
    <3> QED
      BY <3>2, <3>3
  <2>6. CASE KickUnseat
    <3>1. kickee \in Conn
      BY <2>6 DEF KickUnseat
    <3>2. /\ machines' \in [Machine -> Seq(Conn)]
          /\ status' \in [Conn -> Status]
          /\ machineId' \in [Conn -> Machine \cup {NoMachine}]
      BY <2>6, <3>1, SeatOpsType, SeatSourceType DEF KickUnseat, LeaveSeat, Reset
    <3>3. NoConn \notin Conn
      BY ConstantsAssumption
    <3> QED
      BY <2>6, <3>1, <3>2, <3>3, CloseType DEF KickUnseat
  <2>7. CASE SweepBegin
    BY <2>7 DEF SweepBegin
  <2>8. ASSUME NEW c \in Conn, Visit(c) PROVE TypeOK'
    BY <2>8, EraseType DEF Visit
  <2>9. CASE Doom
    BY <2>9 DEF Doom
  <2>10. CASE Destroy
    BY <2>10 DEF Destroy
  <2>11. CASE ServerClose
    BY <2>11 DEF ServerClose
  <2> QED
    BY <1>3, <2>1, <2>2, <2>3, <2>4, <2>5, <2>6, <2>7, <2>8, <2>9, <2>10, <2>11
    DEF MainThread, Kicking, Reaping
<1>4. CASE Ended
  BY <1>1, <1>4 DEF Ended
<1> QED
  BY <1>1, <1>2, <1>3, <1>4 DEF Next

\* Every variable of the server keeps its type (TypeOK), whatever the clients send.
THEOREM TypeCorrect == Spec => []TypeOK
BY InitType, NextType, PTL DEF Spec

-----------------------------------------------------------------------------
(* Seats.                                                                  *)

Seats == [Machine -> Seq(Conn)]

\* c has a seat among ms.
Sits(c, ms) == \E m \in Machine : \E i \in 1..Len(ms[m]) : ms[m][i] = c

\* c has no seat among ms but one at machine id.
Fits(c, ms, id) ==
  \A m \in Machine : \A i, j \in 1..Len(ms[m]) :
    ms[m][i] = c => id = m /\ (ms[m][j] = c => j = i)

\* A connection without a seat fits anywhere; one that fits nowhere has none.
LEMMA FitsNowhere ==
  ASSUME NEW c, NEW ms, NEW id
  PROVE  /\ ~Sits(c, ms) => Fits(c, ms, id)
         /\ Fits(c, ms, NoMachine) => ~Sits(c, ms)
<1>1. NoMachine \notin Machine
  BY ConstantsAssumption
<1> QED
  BY <1>1 DEF Sits, Fits

\* Erasing c from machine m unseats nobody but c, and c for good.
LEMMA EraseFits ==
  ASSUME NEW ms \in Seats, NEW m \in Machine, NEW c \in Conn, NEW d \in Conn, NEW id,
         Fits(d, ms, id)
  PROVE  LET after == [ms EXCEPT ![m] = Erase(@, c)]
         IN /\ Fits(d, after, id)
            /\ Sits(d, after) => Sits(d, ms)
            /\ d = c /\ id = m => ~Sits(d, after)
<1> DEFINE s == ms[m]
           after == [ms EXCEPT ![m] = Erase(@, c)]
<1>1. s \in Seq(Conn) /\ Len(s) \in Nat
  BY LenProperties DEF Seats
<1>2. after[m] = Erase(s, c) /\ \A n \in Machine \ {m} : after[n] = ms[n]
  BY DEF Seats
<1>3. CASE c \notin Members(s)
  <2>1. after = ms
    BY <1>2, <1>3 DEF Erase, Seats
  <2>2. ~(d = c /\ id = m /\ Sits(d, ms))
    BY <1>3 DEF Sits, Fits, Members
  <2> QED
    BY <2>1, <2>2
<1>4. CASE c \in Members(s)
  <2>1. /\ Len(Erase(s, c)) = Len(s) - 1
        /\ \A i \in 1..Len(Erase(s, c)) : /\ Before(s, c, i) \in 1..Len(s)
                                          /\ Erase(s, c)[i] = s[Before(s, c, i)]
    BY <1>1, <1>4, EraseType
  <2>2. \A i \in 1..Len(after[m]) : /\ Before(s, c, i) \in 1..Len(s)
                                    /\ after[m][i] = s[Before(s, c, i)]
    BY <1>2, <2>1
  <2>3. Len(after[m]) \in Nat
    BY <1>1, <1>2, <1>4, <2>1 DEF Members
  <2>4. Sits(d, after) => Sits(d, ms)
    BY <1>2, <2>2 DEF Sits
  <2>5. ASSUME NEW i \in 1..Len(after[m]), NEW j \in 1..Len(after[m]),
               after[m][i] = d
        PROVE  id = m /\ (after[m][j] = d => j = i)
    <3>1. id = m
      BY <2>2, <2>5 DEF Fits
    <3>2. after[m][j] = d => Before(s, c, i) = Before(s, c, j)
      BY <2>2, <2>5 DEF Fits
    <3>3. i \in Nat /\ j \in Nat
      BY <2>3
    <3>4. Before(s, c, i) = Before(s, c, j) => i = j
      BY <3>3, BeforeInjective, <2>2
    <3> QED
      BY <3>1, <3>2, <3>4
  <2>6. Fits(d, after, id)
    BY <1>2, <2>5 DEF Fits
  <2>7. ASSUME d = c, id = m PROVE ~Sits(d, after)
    <3>1. \A n \in Machine \ {m} : \A i \in 1..Len(after[n]) : after[n][i] # d
      BY <1>2, <2>7 DEF Fits
    <3>2. ASSUME NEW i \in 1..Len(after[m]), after[m][i] = d PROVE FALSE
      <4>1. PICK k \in 1..Len(s) : s[k] = c
        BY <1>4 DEF Members
      <4>2. Before(s, c, i) = k
        BY <2>2, <2>7, <3>2, <4>1 DEF Fits
      <4>3. \A j \in 1..i : s[j] = c => j = k
        BY <1>1, <2>1, <1>2, <2>3, <2>7, <4>1 DEF Fits
      <4> QED
        BY <4>1, <4>2, <4>3, <2>3 DEF Before
    <3> QED
      BY <3>1, <3>2 DEF Sits
  <2> QED
    BY <2>4, <2>6, <2>7
<1> QED
  BY <1>3, <1>4

\* What _leaveArcade does to the seats: nobody is moved, the leaver of its own machine
\* is out, and so is everybody it boots.
LEMMA SeatsAfterFits ==
  ASSUME TypeOK, NEW c \in Conn, NEW m \in Machine, NEW d \in Conn, NEW id,
         Fits(d, machines, id)
  PROVE  /\ Fits(d, SeatsAfter(c, m), id)
         /\ Sits(d, SeatsAfter(c, m)) => Sits(d, machines)
         /\ d = c /\ id = m => ~Sits(d, SeatsAfter(c, m))
         /\ d \in BootedBy(c, m) => ~Sits(d, SeatsAfter(c, m))
<1>1. machines \in Seats
  BY DEF TypeOK, Seats
<1>2. CASE EndsGame(c, m)
  <2> DEFINE after == [machines EXCEPT ![m] = <<>>]
  <2>1. SeatsAfter(c, m) = after
    BY <1>2 DEF SeatsAfter
  <2>2. after[m] = <<>> /\ Len(after[m]) = 0 /\ \A n \in Machine \ {m} : after[n] = machines[n]
    BY <1>1, EmptySeq DEF Seats
  <2>3. Fits(d, after, id) /\ (Sits(d, after) => Sits(d, machines))
    BY <2>2 DEF Fits, Sits
  <2>4. id = m => ~Sits(d, after)
    BY <2>2 DEF Fits, Sits
  <2>5. d \in BootedBy(c, m) => id = m
    BY <1>2 DEF BootedBy, Members, Fits
  <2> QED
    BY <2>1, <2>3, <2>4, <2>5
<1>3. CASE ~EndsGame(c, m)
  <2>1. SeatsAfter(c, m) = [machines EXCEPT ![m] = Erase(@, c)]
    BY <1>3 DEF SeatsAfter
  <2>2. BootedBy(c, m) = {}
    BY <1>3 DEF BootedBy
  <2> DEFINE after == [machines EXCEPT ![m] = Erase(@, c)]
  <2>3. /\ Fits(d, after, id)
        /\ Sits(d, after) => Sits(d, machines)
        /\ d = c /\ id = m => ~Sits(d, after)
    BY <1>1, EraseFits
  <2> QED
    BY <2>1, <2>2, <2>3
<1> QED
  BY <1>2, <1>3

\* What joining does to the seats: nobody else is moved, and a newcomer that had no
\* seat has at most the one it takes.
LEMMA SeatsWithFits ==
  ASSUME NEW ms \in Seats, NEW m \in Machine, NEW c \in Conn, NEW d \in Conn, NEW id,
         NEW st, NEW p1, NEW p2,
         IF d = c THEN id = m /\ ~Sits(c, ms) ELSE Fits(d, ms, id)
  PROVE  LET with == [ms EXCEPT ![m] = SeatsWith(c, @, st, p1, p2)]
         IN /\ Fits(d, with, id)
            /\ d # c /\ Sits(d, with) => Sits(d, ms)
<1> DEFINE s == ms[m]
           with == [ms EXCEPT ![m] = SeatsWith(c, @, st, p1, p2)]
<1>1. s \in Seq(Conn) /\ Len(s) \in Nat
  BY LenProperties DEF Seats
<1>2. with[m] = SeatsWith(c, s, st, p1, p2) /\ \A n \in Machine \ {m} : with[n] = ms[n]
  BY DEF Seats
<1>3. with[m] \in {<<>>, s, Append(s, c)}
  BY <1>2 DEF SeatsWith, StartRoom
<1>4. Fits(d, ms, id)
  BY FitsNowhere
<1>5. CASE with[m] = <<>>
  BY <1>2, <1>4, <1>5 DEF Fits, Sits
<1>6. CASE with[m] = s
  BY <1>2, <1>4, <1>6 DEF Fits, Sits
<1>7. CASE with[m] = Append(s, c)
  <2>1. /\ Len(with[m]) = Len(s) + 1
        /\ \A i \in 1..Len(s) : with[m][i] = s[i]
        /\ with[m][Len(s) + 1] = c
    BY <1>1, <1>7
  <2>2. CASE d = c
    BY <1>1, <1>2, <2>1, <2>2 DEF Fits, Sits
  <2>3. CASE d # c
    BY <1>1, <1>2, <1>4, <2>1, <2>3 DEF Fits, Sits
  <2> QED
    BY <2>2, <2>3
<1> QED
  BY <1>3, <1>5, <1>6, <1>7

\* Every connection has at most the seat its own record names.
SeatsFit == \A c \in Conn \ rogue : Fits(c, machines, machineId[c])

\* A net thread at work has an open connection: it is its thread that closes it.
BusyOpen == \A c \in Conn \ rogue : up /\ pc[c] # "ready" => link[c] = "open"

\* The reaping has taken the seats of the closed connections it has visited, and of
\* those it destroys.
SweptUnseated ==
  \A c \in Conn \ rogue :
    /\ mpc = "sweep" /\ link[c] = "closed" /\ c \notin batch => ~Sits(c, machines)
    /\ mpc = "join" /\ c \in batch => link[c] = "closed" /\ ~Sits(c, machines)

FreeUnseated == \A c \in Conn \ rogue : link[c] = "free" => ~Sits(c, machines)

KickeeRogue == kickee \in Conn => kickee \in rogue

\* The inductive invariant of the seats.
SeatInv == TypeOK /\ SeatsFit /\ BusyOpen /\ SweptUnseated /\ FreeUnseated /\ KickeeRogue

\* No seat is taken when the server starts.
LEMMA SeatInvInit == Init => SeatInv
<1> SUFFICES ASSUME Init PROVE SeatInv
  OBVIOUS
<1>1. TypeOK
  BY InitType
<1>2. \A m \in Machine : Len(machines[m]) = 0
  BY EmptySeq DEF Init
<1>3. \A c \in Conn : ~Sits(c, machines) /\ Fits(c, machines, machineId[c])
  BY <1>2 DEF Sits, Fits
<1>4. NoConn \notin Conn
  BY ConstantsAssumption
<1>5. BusyOpen /\ KickeeRogue
  BY <1>4 DEF Init, BusyOpen, KickeeRogue
<1>6. SeatsFit /\ FreeUnseated
  BY <1>3 DEF SeatsFit, FreeUnseated
<1>7. SweptUnseated
  BY DEF Init, SweptUnseated
<1> QED
  BY <1>1, <1>5, <1>6, <1>7 DEF SeatInv

\* Steps that leave the seats alone.
LEMMA SeatInvStutter ==
  ASSUME SeatInv, TypeOK',
         machines' = machines, machineId' = machineId, rogue \subseteq rogue',
         BusyOpen', SweptUnseated', FreeUnseated', KickeeRogue'
  PROVE  SeatInv'
<1>1. SeatsFit'
  BY DEF SeatInv, SeatsFit
<1> QED
  BY <1>1 DEF SeatInv

\* Steps by which c leaves or takes a seat while no connection is opened or closed.
LEMMA SeatInvMove ==
  ASSUME SeatInv, TypeOK', NEW c \in Conn,
         UNCHANGED <<up, link, mpc, batch, kickee>>, rogue \subseteq rogue',
         c \in rogue' \/ link[c] = "open",
         SeatsFit',
         \A d \in Conn \ rogue' : d # c /\ Sits(d, machines') => Sits(d, machines),
         \A d \in Conn : pc'[d] # "ready" => pc[d] # "ready"
  PROVE  SeatInv'
<1>1. BusyOpen'
  BY DEF SeatInv, BusyOpen
<1>2. SweptUnseated'
  BY DEF SeatInv, SweptUnseated, BusyOpen
<1>3. FreeUnseated'
  BY DEF SeatInv, FreeUnseated, BusyOpen
<1>4. KickeeRogue'
  BY DEF SeatInv, KickeeRogue
<1> QED
  BY <1>1, <1>2, <1>3, <1>4 DEF SeatInv

\* Steps of c's thread inside a handler: no connection is opened, closed or reaped.
LEMMA SeatInvQuiet ==
  ASSUME SeatInv, TypeOK', NEW c \in Conn,
         UNCHANGED <<machines, machineId, link, mpc, batch, kickee>>, rogue \subseteq rogue',
         up' => up,
         \A d \in Conn : pc'[d] # "ready" => pc[d] # "ready" \/ link[d] = "open"
  PROVE  SeatInv'
<1>1. BusyOpen'
  BY DEF SeatInv, BusyOpen
<1>2. SweptUnseated' /\ FreeUnseated' /\ KickeeRogue'
  BY DEF SeatInv, SweptUnseated, FreeUnseated, KickeeRogue
<1> QED
  BY <1>1, <1>2, SeatInvStutter

\* Closing c, once its thread is done with it, in time for the reaping or marked rogue.
LEMMA SeatInvClose ==
  ASSUME SeatInv, TypeOK', NEW c \in Conn,
         UNCHANGED <<up, mpc, batch, kickee>>,
         link' = [link EXCEPT ![c] = "closed"],
         rogue \subseteq rogue',
         Late(c) => c \in rogue',
         c \in rogue' \/ link[c] = "open",
         c \in rogue' \/ pc'[c] = "ready",
         \A d \in Conn \ {c} : pc'[d] = pc[d],
         SeatsFit',
         \A d \in Conn \ rogue' : Sits(d, machines') => Sits(d, machines)
  PROVE  SeatInv'
<1>1. BusyOpen'
  BY DEF SeatInv, BusyOpen, TypeOK
<1>2. SweptUnseated'
  BY DEF SeatInv, SweptUnseated, Late, TypeOK
<1>3. FreeUnseated'
  BY DEF SeatInv, FreeUnseated, TypeOK
<1>4. KickeeRogue'
  BY DEF SeatInv, KickeeRogue
<1> QED
  BY <1>1, <1>2, <1>3, <1>4 DEF SeatInv

\* A section of onDisconnect or onArcadeLeave that leaves machine m.
LEMMA SeatInvLeave ==
  ASSUME SeatInv, NEW c \in Conn, NEW m \in Machine,
         machines' = SeatsAfter(c, m),
         machineId' = Reset(machineId, BootedBy(c, m), NoMachine) \/
           (machineId[c] = m /\ machineId' = Reset(machineId, {c} \cup BootedBy(c, m), NoMachine)),
         rogue \subseteq rogue'
  PROVE  /\ SeatsFit'
         /\ \A d \in Conn : d \notin rogue /\ Sits(d, machines') => Sits(d, machines)
<1>1. ASSUME NEW d \in Conn, d \notin rogue
      PROVE  /\ Fits(d, machines', machineId[d])
             /\ Sits(d, machines') => Sits(d, machines)
             /\ d = c /\ machineId[d] = m => ~Sits(d, machines')
             /\ d \in BootedBy(c, m) => ~Sits(d, machines')
  BY <1>1, SeatsAfterFits DEF SeatInv, SeatsFit
<1>2. ASSUME NEW d \in Conn, d \notin rogue PROVE Fits(d, machines', machineId'[d])
  <2>1. machineId'[d] = machineId[d] \/ ~Sits(d, machines')
    BY <1>1, <1>2 DEF Reset
  <2> QED
    BY <1>1, <1>2, <2>1, FitsNowhere
<1> QED
  BY <1>1, <1>2 DEF SeatsFit

\* _onPlayerJoinArcade preserves the invariant: what it leaves, whom it boots and what it
\* takes.
LEMMA SeatInvJoinArcade ==
  ASSUME SeatInv, TypeOK', NEW c \in Conn, JoinArcade(c)
  PROVE  SeatInv'
<1> DEFINE leaves == status[c] # "idle"
           out(from) == {c} \cup (IF leaves THEN BootedBy(c, from) ELSE {})
           seats(from) == IF leaves THEN SeatsAfter(c, from) ELSE machines
           st(from) == Reset(status, out(from), "idle")
           ids(from) == Reset(machineId, out(from), NoMachine)
           m == want[c]
<1>1. m \in Machine
  BY DEF SeatInv, TypeOK, JoinArcade
<1>2. PICK from \in SeatSource(c), p1 \in Pref, p2 \in Pref :
        IF Refused(c, seats(from)[m])
        THEN /\ machines' = seats(from)
             /\ status' = st(from)
             /\ machineId' = ids(from)
        ELSE /\ machineId' = [ids(from) EXCEPT ![c] = m]
             /\ status' = [st(from) EXCEPT ![c] = "waiting"]
             /\ machines' = [seats(from) EXCEPT
                               ![m] = SeatsWith(c, @, status', p1, p2)]
  BY DEF JoinArcade, Reseats
<1>3. from \in Machine
  BY SeatSourceType DEF SeatInv
<1>4. seats(from) \in Seats
  BY <1>3, SeatOpsType DEF SeatInv, TypeOK, Seats
<1>5. rogue \subseteq rogue' /\ (Seated(c) /\ ~leaves => c \in rogue')
  BY DEF JoinArcade
<1>6. ASSUME NEW d \in Conn, d \notin rogue'
      PROVE  /\ Fits(d, seats(from), machineId[d])
             /\ Sits(d, seats(from)) => Sits(d, machines)
             /\ d \in out(from) => ~Sits(d, seats(from))
  <2>1. Fits(d, machines, machineId[d])
    BY <1>5, <1>6 DEF SeatInv, SeatsFit
  <2>2. CASE leaves
    <3>1. d = c => machineId[c] = from \/ ~Sits(c, machines)
      BY <2>1, FitsNowhere DEF SeatSource
    <3> QED
      BY <1>3, <2>1, <2>2, <3>1, SeatsAfterFits DEF SeatInv
  <2>3. CASE ~leaves
    BY <1>5, <1>6, <2>1, <2>3 DEF Seated, Sits, Members
  <2> QED
    BY <2>2, <2>3
<1>7. ASSUME NEW d \in Conn
      PROVE  ids(from)[d] = IF d \in out(from) THEN NoMachine ELSE machineId[d]
  BY DEF Reset
<1> HIDE DEF seats, st, m
<1>8. ASSUME NEW d \in Conn, d \notin rogue'
      PROVE  /\ Fits(d, machines', machineId'[d])
             /\ d # c /\ Sits(d, machines') => Sits(d, machines)
  <2>1. Fits(d, seats(from), ids(from)[d])
    BY <1>6, <1>7, <1>8, FitsNowhere
  <2>2. CASE Refused(c, seats(from)[m])
    BY <1>2, <1>6, <1>8, <2>1, <2>2
  <2>3. CASE ~Refused(c, seats(from)[m])
    <3> DEFINE with == [seats(from) EXCEPT ![m] = SeatsWith(c, @, status', p1, p2)]
    <3>1. machines' = with /\ machineId' = [ids(from) EXCEPT ![c] = m]
      BY <1>2, <2>3
    <3>2. machineId'[d] = IF d = c THEN m ELSE ids(from)[d]
      BY <3>1 DEF Reset
    <3>3. IF d = c THEN machineId'[d] = m /\ ~Sits(c, seats(from))
                   ELSE Fits(d, seats(from), machineId'[d])
      BY <1>6, <1>8, <2>1, <3>2
    <3>4. Fits(d, with, machineId'[d]) /\ (d # c /\ Sits(d, with) => Sits(d, seats(from)))
      BY <1>1, <1>4, <3>3, SeatsWithFits
    <3> QED
      BY <1>6, <1>8, <3>1, <3>4
  <2> QED
    BY <2>2, <2>3
<1>9. SeatsFit'
  BY <1>8 DEF SeatsFit
<1>10. UNCHANGED <<up, link, mpc, batch, kickee>>
  BY DEF JoinArcade, memberVars, mainVars
<1>11. c \in rogue' \/ link[c] = "open"
  BY <1>5 DEF JoinArcade, SeatInv, BusyOpen
<1>12. \A d \in Conn : pc'[d] # "ready" => pc[d] # "ready"
  BY DEF JoinArcade, SeatInv, TypeOK
<1> QED
  BY <1>5, <1>8, <1>9, <1>10, <1>11, <1>12, SeatInvMove

\* Its own thread closes c at the end of onDisconnect, or keeps it open.
LEMMA SeatInvOwnClose ==
  ASSUME SeatInv, TypeOK', NEW c \in Conn, up, pc[c] # "ready",
         UNCHANGED <<up, mpc, batch, kickee>>,
         pc' = [pc EXCEPT ![c] = "ready"],
         Close(c, stays[c]),
         SeatsFit',
         \A d \in Conn : d \notin rogue /\ Sits(d, machines') => Sits(d, machines)
  PROVE  SeatInv'
<1>1. c \in rogue \/ link[c] = "open"
  BY DEF SeatInv, BusyOpen
<1>2. /\ rogue \subseteq rogue'
      /\ pc'[c] = "ready" /\ \A d \in Conn \ {c} : pc'[d] = pc[d]
  BY DEF Close, SeatInv, TypeOK
<1>3. CASE stays[c]
  <2>1. link' = link /\ rogue' = rogue
    BY <1>3 DEF Close, SeatInv, TypeOK
  <2>2. BusyOpen' /\ SweptUnseated' /\ FreeUnseated' /\ KickeeRogue'
    BY <1>2, <2>1 DEF SeatInv, BusyOpen, SweptUnseated, FreeUnseated, KickeeRogue
  <2> QED
    BY <2>2 DEF SeatInv
<1>4. CASE ~stays[c]
  <2>1. link' = [link EXCEPT ![c] = "closed"] /\ (Late(c) => c \in rogue')
    BY <1>4 DEF Close
  <2> QED
    BY <1>1, <1>2, <2>1, SeatInvClose
<1> QED
  BY <1>3, <1>4

\* The steps of a kick before and after the end of onDisconnect.
LEMMA SeatInvKicking ==
  ASSUME SeatInv, TypeOK', mpc \notin {"sweep", "join"}, mpc' \notin {"sweep", "join"},
         UNCHANGED <<up, machines, machineId, link, pc, batch, kickee, rogue>>
  PROVE  SeatInv'
<1>1. BusyOpen' /\ SweptUnseated' /\ FreeUnseated' /\ KickeeRogue'
  BY DEF SeatInv, BusyOpen, SweptUnseated, FreeUnseated, KickeeRogue
<1> QED
  BY <1>1, SeatInvStutter

\* A kick closes the kickee (Connection::kick), which is rogue already.
LEMMA SeatInvKicked ==
  ASSUME SeatInv, TypeOK', mpc \in {"kick", "settle", "unseat"}, mpc' = "loop",
         UNCHANGED <<up, pc, batch>>, kickee' = NoConn,
         Close(kickee, FALSE),
         SeatsFit',
         \A d \in Conn : d \notin rogue /\ Sits(d, machines') => Sits(d, machines)
  PROVE  SeatInv'
<1>1. kickee \in Conn /\ kickee \in rogue
  BY DEF SeatInv, TypeOK, KickeeRogue
<1>2. link' = [link EXCEPT ![kickee] = "closed"] /\ rogue' = rogue
  BY DEF Close, Late
<1>3. BusyOpen' /\ SweptUnseated' /\ FreeUnseated'
  BY <1>1, <1>2 DEF SeatInv, TypeOK, BusyOpen, SweptUnseated, FreeUnseated
<1>4. KickeeRogue'
  BY ConstantsAssumption DEF KickeeRogue
<1> QED
  BY <1>3, <1>4 DEF SeatInv

\* The reaping visits c.
LEMMA SeatInvVisit ==
  ASSUME SeatInv, TypeOK', NEW c \in Conn, Visit(c)
  PROVE  SeatInv'
<1>1. /\ UNCHANGED <<up, machineId, link, pc, mpc, kickee, rogue>>
      /\ mpc = "sweep" /\ batch' = batch \ {c}
  BY DEF Visit, memberVars, threadVars, ghostVars
<1>2. CASE link[c] = "closed" /\ machineId[c] # NoMachine
  <2> DEFINE m == machineId[c]
             after == [machines EXCEPT ![m] = Erase(@, c)]
  <2>1. m \in Machine /\ machines \in Seats
    BY <1>2 DEF SeatInv, TypeOK, Seats
  <2>2. machines' = after
    BY <1>2, <2>1 DEF Visit, Seats
  <2>3. ASSUME NEW d \in Conn, d \notin rogue
        PROVE  /\ Fits(d, after, machineId[d])
               /\ Sits(d, after) => Sits(d, machines)
               /\ d = c => ~Sits(d, after)
    <3>1. Fits(d, machines, machineId[d])
      BY <2>3 DEF SeatInv, SeatsFit
    <3> QED
      BY <2>1, <3>1, EraseFits
  <2>4. SeatsFit'
    BY <1>1, <2>2, <2>3 DEF SeatsFit
  <2>5. BusyOpen' /\ KickeeRogue'
    BY <1>1 DEF SeatInv, BusyOpen, KickeeRogue
  <2>6. SweptUnseated' /\ FreeUnseated'
    BY <1>1, <2>2, <2>3 DEF SeatInv, SweptUnseated, FreeUnseated
  <2> QED
    BY <2>4, <2>5, <2>6 DEF SeatInv
<1>3. CASE ~(link[c] = "closed" /\ machineId[c] # NoMachine)
  <2>1. machines' = machines
    <3>1. NoMachine \notin Machine
      BY ConstantsAssumption
    <3>2. machines' = [m \in Machine |-> machines[m]]
      BY <1>3, <3>1 DEF Visit
    <3> QED
      BY <3>2 DEF SeatInv, TypeOK
  <2>2. c \in rogue \/ machineId[c] # NoMachine \/ ~Sits(c, machines)
    BY FitsNowhere DEF SeatInv, SeatsFit
  <2>3. BusyOpen' /\ SweptUnseated' /\ FreeUnseated' /\ KickeeRogue'
    BY <1>1, <1>3, <2>1, <2>2
    DEF SeatInv, BusyOpen, SweptUnseated, FreeUnseated, KickeeRogue
  <2> QED
    BY <1>1, <2>1, <2>3, SeatInvStutter
<1> QED
  BY <1>2, <1>3

\* Every step of a net thread or of the main thread keeps the seats' invariant.
LEMMA SeatInvNext == SeatInv /\ [Next]_vars => SeatInv'
<1> SUFFICES ASSUME SeatInv, [Next]_vars PROVE SeatInv'
  OBVIOUS
<1>1. TypeOK /\ TypeOK'
  BY NextType DEF SeatInv
<1> USE DEF memberVars, arcadeVars, threadVars, mainVars, ghostVars
<1>2. CASE UNCHANGED vars
  <2>1. BusyOpen' /\ SweptUnseated' /\ FreeUnseated' /\ KickeeRogue'
    BY <1>2 DEF vars, SeatInv, BusyOpen, SweptUnseated, FreeUnseated, KickeeRogue
  <2> QED
    BY <1>1, <1>2, <2>1, SeatInvStutter DEF vars
<1>3. ASSUME NEW c \in Conn, NetThread(c) PROVE SeatInv'
  <2>1. ASSUME NEW p \in Profile, Hello(c, p) PROVE SeatInv'
    <3>1. UNCHANGED <<up, machines, machineId, mpc, batch, kickee>> /\ link[c] = "open"
      BY <2>1 DEF Hello, Receives
    <3>2. CASE count # MaxPlayers
      <4>1. UNCHANGED link /\ rogue \subseteq rogue' /\ pc' = [pc EXCEPT ![c] = "joining"]
        BY <2>1, <3>2 DEF Hello
      <4> QED
        BY <1>1, <3>1, <4>1, SeatInvQuiet DEF TypeOK
    <3>3. CASE count = MaxPlayers
      <4>1. /\ link' = [link EXCEPT ![c] = "closed"]
            /\ rogue \subseteq rogue' /\ (Late(c) => c \in rogue')
            /\ pc' = pc /\ pc[c] = "ready"
        BY <2>1, <3>3 DEF Hello, Receives
      <4>2. SeatsFit'
        BY <3>1, <4>1 DEF SeatInv, SeatsFit
      <4> QED
        BY <1>1, <3>1, <4>1, <4>2, SeatInvClose
    <3> QED
      BY <3>2, <3>3
  <2>2. CASE JoinSection(c)
    BY <1>1, <2>2, SeatInvQuiet DEF JoinSection, TypeOK
  <2>3. CASE Admit(c)
    BY <1>1, <2>3, SeatInvQuiet DEF Admit, TypeOK
  <2>4. CASE PlayerLeave(c)
    BY <1>1, <2>4, SeatInvQuiet DEF PlayerLeave, Receives, TypeOK
  <2>5. CASE Drop(c)
    <3>1. /\ UNCHANGED <<up, machines, machineId, mpc, batch, kickee>>
          /\ link[c] = "open" /\ pc[c] = "ready" /\ rogue \subseteq rogue'
      BY <2>5 DEF Drop
    <3>2. CASE init[c]
      BY <1>1, <2>5, <3>1, <3>2, SeatInvQuiet DEF Drop, TypeOK
    <3>3. CASE ~init[c]
      <4>1. /\ link' = [link EXCEPT ![c] = "closed"] /\ pc' = pc
            /\ Late(c) => c \in rogue'
        BY <2>5, <3>3 DEF Drop
      <4>2. SeatsFit'
        BY <3>1 DEF SeatInv, SeatsFit
      <4> QED
        BY <1>1, <3>1, <4>1, <4>2, SeatInvClose
    <3> QED
      BY <3>2, <3>3
  <2>6. ASSUME NEW st \in Status, Report(c, st) PROVE SeatInv'
    BY <1>1, <2>6, SeatInvQuiet DEF Report, TypeOK
  <2>7. ASSUME NEW m \in Machine, GameRequest(c, m) PROVE SeatInv'
    BY <1>1, <2>7, SeatInvQuiet DEF GameRequest, Receives, TypeOK
  <2>8. ASSUME NEW d \in Conn, JoinCommand(c, d) PROVE SeatInv'
    BY <1>1, <2>8, SeatInvQuiet DEF JoinCommand, Receives, TypeOK
  <2>9. CASE IgnoreCommand(c)
    BY <1>1, <2>9, SeatInvQuiet DEF IgnoreCommand, TypeOK
  <2>10. CASE JoinArcade(c)
    BY <1>1, <2>10, SeatInvJoinArcade
  <2>11. CASE GameStart(c)
    BY <1>1, <2>11, SeatInvQuiet DEF GameStart, Receives, TypeOK
  <2>12. CASE StartSection(c)
    BY <1>1, <2>12, SeatInvQuiet DEF StartSection, TypeOK
  <2>13. CASE ArcadeLeave(c)
    <3>1. machineId[c] \in Machine
      BY <1>1, <2>13 DEF ArcadeLeave, TypeOK
    <3>2. /\ SeatsFit'
          /\ \A d \in Conn : d \notin rogue /\ Sits(d, machines') => Sits(d, machines)
      BY <2>13, <3>1, SeatInvLeave DEF ArcadeLeave
    <3>3. /\ UNCHANGED <<up, link, pc, mpc, batch, kickee, rogue>>
          /\ link[c] = "open"
      BY <2>13 DEF ArcadeLeave, Receives
    <3> QED
      BY <1>1, <3>2, <3>3, SeatInvMove
  <2>14. CASE Farewell(c)
    BY <1>1, <2>14, SeatInvQuiet DEF Farewell, Forget, TypeOK
  <2>15. CASE Settle(c)
    <3>1. /\ UNCHANGED <<up, machines, machineId, mpc, batch, kickee>>
          /\ up /\ pc[c] = "settle"
      BY <2>15 DEF Settle
    <3>2. CASE status[c] # "idle"
      BY <1>1, <2>15, <3>1, <3>2, SeatInvQuiet DEF Settle, TypeOK
    <3>3. CASE status[c] = "idle"
      <4>1. Close(c, stays[c]) /\ pc' = [pc EXCEPT ![c] = "ready"]
        BY <2>15, <3>3 DEF Settle
      <4>2. SeatsFit'
        BY <3>1, <4>1 DEF SeatInv, SeatsFit, Close
      <4> QED
        BY <1>1, <3>1, <4>1, <4>2, SeatInvOwnClose
    <3> QED
      BY <3>2, <3>3
  <2>16. CASE Unseat(c)
    <3>1. /\ UNCHANGED <<up, mpc, batch, kickee>>
          /\ up /\ pc[c] = "unseat" /\ pc' = [pc EXCEPT ![c] = "ready"]
          /\ Close(c, stays[c])
      BY <2>16 DEF Unseat
    <3>2. PICK m \in SeatSource(c) :
            /\ machines' = SeatsAfter(c, m)
            /\ machineId' = Reset(machineId, BootedBy(c, m), NoMachine)
      BY <2>16 DEF Unseat, LeaveSeat
    <3>3. m \in Machine /\ rogue \subseteq rogue'
      BY <1>1, <3>1, SeatSourceType DEF Close
    <3>4. /\ SeatsFit'
          /\ \A d \in Conn : d \notin rogue /\ Sits(d, machines') => Sits(d, machines)
      BY <3>2, <3>3, SeatInvLeave
    <3> QED
      BY <1>1, <3>1, <3>4, SeatInvOwnClose
  <2>17. CASE Crash(c)
    BY <1>1, <2>17, SeatInvQuiet DEF Crash, TypeOK
  <2> QED
    BY <1>3, <2>1, <2>2, <2>3, <2>4, <2>5, <2>6, <2>7, <2>8, <2>9, <2>10, <2>11, <2>12, <2>13, <2>14, <2>15, <2>16, <2>17
    DEF NetThread
<1>4. CASE MainThread
  <2>1. ASSUME NEW c \in Conn, Accept(c) PROVE SeatInv'
    <3>1. /\ link[c] = "free" /\ mpc = "loop"
          /\ link' = [link EXCEPT ![c] = "open"]
          /\ machineId' = [machineId EXCEPT ![c] = NoMachine]
          /\ UNCHANGED <<up, machines, pc, mpc, batch, kickee, rogue>>
      BY <2>1 DEF Accept
    <3>2. \A d \in Conn \ {c} : machineId'[d] = machineId[d] /\ link'[d] = link[d]
      BY <1>1, <3>1 DEF TypeOK
    <3>3. c \notin rogue => ~Sits(c, machines)
      BY <3>1 DEF SeatInv, FreeUnseated
    <3>4. SeatsFit'
      BY <3>1, <3>2, <3>3, FitsNowhere DEF SeatInv, SeatsFit
    <3>5. BusyOpen' /\ SweptUnseated' /\ FreeUnseated' /\ KickeeRogue'
      BY <1>1, <3>1, <3>2
      DEF TypeOK, SeatInv, BusyOpen, SweptUnseated, FreeUnseated, KickeeRogue
    <3> QED
      BY <1>1, <3>4, <3>5 DEF SeatInv
  <2>2. ASSUME NEW c \in Conn, Kick(c) PROVE SeatInv'
    <3>1. BusyOpen' /\ SweptUnseated' /\ FreeUnseated' /\ KickeeRogue'
      BY <2>2 DEF Kick, SeatInv, BusyOpen, SweptUnseated, FreeUnseated, KickeeRogue
    <3> QED
      BY <1>1, <2>2, <3>1, SeatInvStutter DEF Kick
  <2>3. CASE KickBegin
    <3>1. CASE init[kickee]
      <4>1. /\ UNCHANGED <<up, machines, machineId, link, pc, batch, kickee, rogue>>
            /\ mpc = "kick" /\ mpc' = "farewell"
        BY <2>3, <3>1 DEF KickBegin
      <4> QED
        BY <1>1, <4>1, SeatInvKicking
    <3>2. CASE ~init[kickee]
      <4>1. /\ Close(kickee, FALSE) /\ kickee' = NoConn /\ mpc' = "loop" /\ mpc = "kick"
            /\ UNCHANGED <<up, pc, batch, machines, machineId>>
        BY <2>3, <3>2 DEF KickBegin
      <4>2. SeatsFit'
        BY <4>1 DEF SeatInv, SeatsFit, Close
      <4> QED
        BY <1>1, <4>1, <4>2, SeatInvKicked
    <3> QED
      BY <3>1, <3>2
  <2>4. CASE KickFarewell
    BY <1>1, <2>4, SeatInvKicking DEF KickFarewell, Forget
  <2>5. CASE KickSettle
    <3>1. CASE status[kickee] # "idle"
      <4>1. /\ UNCHANGED <<up, machines, machineId, link, pc, batch, kickee, rogue>>
            /\ mpc = "settle" /\ mpc' = "unseat"
        BY <2>5, <3>1 DEF KickSettle
      <4> QED
        BY <1>1, <4>1, SeatInvKicking
    <3>2. CASE status[kickee] = "idle"
      <4>1. /\ Close(kickee, FALSE) /\ kickee' = NoConn /\ mpc' = "loop" /\ mpc = "settle"
            /\ UNCHANGED <<up, pc, batch, machines, machineId>>
        BY <2>5, <3>2 DEF KickSettle
      <4>2. SeatsFit'
        BY <4>1 DEF SeatInv, SeatsFit, Close
      <4> QED
        BY <1>1, <4>1, <4>2, SeatInvKicked
    <3> QED
      BY <3>1, <3>2
  <2>6. CASE KickUnseat
    <3>1. /\ Close(kickee, FALSE) /\ kickee' = NoConn /\ mpc' = "loop" /\ mpc = "unseat"
          /\ UNCHANGED <<up, pc, batch>>
      BY <2>6 DEF KickUnseat
    <3>2. kickee \in Conn
      BY <1>1, <3>1 DEF TypeOK
    <3>3. PICK m \in SeatSource(kickee) :
            /\ machines' = SeatsAfter(kickee, m)
            /\ machineId' = Reset(machineId, BootedBy(kickee, m), NoMachine)
      BY <2>6 DEF KickUnseat, LeaveSeat
    <3>4. m \in Machine /\ rogue \subseteq rogue'
      BY <1>1, <3>1, <3>2, SeatSourceType DEF Close
    <3>5. /\ SeatsFit'
          /\ \A d \in Conn : d \notin rogue /\ Sits(d, machines') => Sits(d, machines)
      BY <3>2, <3>3, <3>4, SeatInvLeave
    <3> QED
      BY <1>1, <3>1, <3>5, SeatInvKicked
  <2>7. CASE SweepBegin
    <3>1. /\ UNCHANGED <<up, machines, machineId, link, pc, kickee, rogue>>
          /\ mpc' = "sweep" /\ batch' = {c \in Conn : link[c] # "free"}
      BY <2>7 DEF SweepBegin
    <3>2. BusyOpen' /\ SweptUnseated' /\ FreeUnseated' /\ KickeeRogue'
      BY <3>1 DEF SeatInv, BusyOpen, SweptUnseated, FreeUnseated, KickeeRogue
    <3> QED
      BY <1>1, <3>1, <3>2, SeatInvStutter
  <2>8. ASSUME NEW c \in Conn, Visit(c) PROVE SeatInv'
    BY <1>1, <2>8, SeatInvVisit
  <2>9. CASE Doom
    <3>1. /\ UNCHANGED <<up, machines, machineId, link, pc, kickee, rogue>>
          /\ mpc = "sweep" /\ mpc' = "join" /\ batch = {}
          /\ batch' = {c \in Conn : link[c] = "closed"}
      BY <2>9 DEF Doom
    <3>2. BusyOpen' /\ SweptUnseated' /\ FreeUnseated' /\ KickeeRogue'
      BY <3>1 DEF SeatInv, BusyOpen, SweptUnseated, FreeUnseated, KickeeRogue
    <3> QED
      BY <1>1, <3>1, <3>2, SeatInvStutter
  <2>10. CASE Destroy
    <3>1. /\ UNCHANGED <<up, machines, machineId, pc, kickee, rogue>>
          /\ mpc = "join" /\ mpc' = "loop" /\ \A c \in batch : pc[c] = "ready"
          /\ \A c \in Conn : link'[c] = IF c \in batch THEN "free" ELSE link[c]
      BY <2>10 DEF Destroy
    <3>2. BusyOpen' /\ SweptUnseated' /\ FreeUnseated' /\ KickeeRogue'
      BY <3>1 DEF SeatInv, BusyOpen, SweptUnseated, FreeUnseated, KickeeRogue
    <3> QED
      BY <1>1, <3>1, <3>2, SeatInvStutter
  <2>11. CASE ServerClose
    <3>1. /\ UNCHANGED <<machines, machineId, pc, mpc, batch, kickee, rogue>>
          /\ up' = FALSE /\ mpc = "loop"
          /\ \A c \in Conn : link'[c] = IF link[c] = "free" THEN "free" ELSE "closed"
      BY <2>11 DEF ServerClose
    <3>2. BusyOpen' /\ SweptUnseated' /\ FreeUnseated' /\ KickeeRogue'
      BY <3>1 DEF SeatInv, BusyOpen, SweptUnseated, FreeUnseated, KickeeRogue
    <3> QED
      BY <1>1, <3>1, <3>2, SeatInvStutter
  <2> QED
    BY <1>4, <2>1, <2>2, <2>3, <2>4, <2>5, <2>6, <2>7, <2>8, <2>9, <2>10, <2>11
    DEF MainThread, Kicking, Reaping
<1>5. CASE Ended
  BY <1>2, <1>5 DEF Ended
<1> QED
  BY <1>2, <1>3, <1>4, <1>5 DEF Next

\* The invariant gives the two properties.
LEMMA SeatInvSuffices == SeatInv => SeatsMatch /\ NoDanglingSeat
<1> SUFFICES ASSUME SeatInv PROVE SeatsMatch /\ NoDanglingSeat
  OBVIOUS
<1>1. ASSUME NEW m \in Machine, NEW i \in 1..Len(machines[m])
      PROVE  machines[m][i] \in Conn
  BY ElementOfSeq DEF SeatInv, TypeOK
<1>2. SeatsMatch
  BY <1>1 DEF SeatInv, SeatsFit, Fits, SeatsMatch
<1>3. NoDanglingSeat
  BY DEF SeatInv, FreeUnseated, Sits, NoDanglingSeat, Seated, Members
<1> QED
  BY <1>2, <1>3

\* The server's invariant of the seats holds of every behaviour.
THEOREM SeatsInvariant == Spec => []SeatInv
BY SeatInvInit, SeatInvNext, PTL DEF Spec

\* _machines and _machineId agree about every connection that is not rogue (SeatsMatch).
THEOREM SeatsMatchAlways == Spec => []SeatsMatch
BY SeatsInvariant, SeatInvSuffices, PTL

\* A destroyed connection leaves no pointer behind in _machines (NoDanglingSeat).
THEOREM NoDanglingSeatAlways == Spec => []NoDanglingSeat
BY SeatsInvariant, SeatInvSuffices, PTL

=============================================================================
