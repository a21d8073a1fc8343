----------------------------- MODULE Threads_proofs -----------------------------
(***************************************************************************)
(* Theorems about the modules that MCThreads checks side by side: the      *)
(* admission of a player, the client's host list, its session with a       *)
(* lobby and the lobby list, for any names, addresses, connections, games, *)
(* answers, lobbies and bounds.                                            *)
(***************************************************************************)
EXTENDS MCThreads, FiniteSetTheorems, SequenceTheorems, WellFoundedInduction, TLAPS

-----------------------------------------------------------------------------
(* Admission.                                                              *)

AdmissionTypes ==
  /\ AdmissionTypeOK
  /\ name \in [Conn -> Seq(Nat)]
  /\ op \in [does : {"nothing", "collect", "kick"}, ip : Ip \cup {{}}, conns : SUBSET Conn]

Named(c) == place[c] \in {"joining", "in"}

\* Two connections that are choosing names know that they race.
ChoosersRace ==
  \A c, d \in Conn : c # d /\ Choosing(c) /\ Choosing(d) => {c, d} \in raced

\* A name that is chosen and not stored yet is not that of another player, unless they race.
ChosenIsFree ==
  \A c, d \in Conn :
    c # d /\ Named(c) /\ place[d] = "chosen" /\ name[c] = Candidate(name[d], result[d])
      => {c, d} \in raced

NamedDiffer ==
  \A c, d \in Conn : c # d /\ Named(c) /\ Named(d) /\ name[c] = name[d] => {c, d} \in raced

\* A connection of a banned address that is in the lobby or past the search is one that
\* slipped by, or the operator is still at it.
BannedAreKnown ==
  \A c \in Conn :
    (PastSearch(c) \/ place[c] = "in") /\ ~closed[c] /\ ip[c] \in banned
      => \/ c \in slipped
         \/ op.does = "collect" /\ ip[c] = op.ip
         \/ op.does = "kick" /\ c \in op.conns

AdmissionInv ==
  AdmissionTypes /\ ChoosersRace /\ ChosenIsFree /\ NamedDiffer /\ BannedAreKnown

\* Whatever name is tried is a name.
LEMMA CandidateType ==
  ASSUME NEW w \in Seq(Nat), NEW n \in Nat PROVE Candidate(w, n) \in Seq(Nat)
<1>1. CASE n = 0 /\ w # <<>>
  BY <1>1 DEF Candidate
<1>2. CASE ~(n = 0 /\ w # <<>>)
  <2>1. (IF w = <<>> THEN n ELSE n - 1) \in Nat
    BY <1>2
  <2> QED
    BY <1>2, <2>1 DEF Candidate
<1> QED
  BY <1>1, <1>2

\* Nobody is connected when the server starts.
LEMMA AdmissionStarts == AdmissionInit => AdmissionInv
<1> SUFFICES ASSUME AdmissionInit PROVE AdmissionInv
  OBVIOUS
<1>1. AdmissionTypes
  BY DEF AdmissionInit, AdmissionTypes, AdmissionTypeOK, Places, Idle
<1>2. ChoosersRace /\ ChosenIsFree /\ NamedDiffer /\ BannedAreKnown
  BY DEF AdmissionInit, ChoosersRace, ChosenIsFree, NamedDiffer, BannedAreKnown, Named,
     Choosing, PastSearch
<1> QED
  BY <1>1, <1>2 DEF AdmissionInv

\* Every step of a connection or of the operator keeps the types.
LEMMA AdmissionTypesKept ==
  ASSUME AdmissionTypes, [AdmissionNext]_admissionVars PROVE AdmissionTypes'
<1> USE AdmissionAssumption DEF AdmissionTypes, AdmissionTypeOK, Places
<1>1. ASSUME NEW c \in Conn, Accept(c) PROVE AdmissionTypes'
  BY <1>1 DEF Accept, Goes, Operator
<1>2. ASSUME NEW c \in Conn, Hello(c) PROVE AdmissionTypes'
  <2>1. place' \in [Conn -> Places] /\ closed' \in [Conn -> BOOLEAN]
    <3>1. /\ place' \in {place, [place EXCEPT ![c] = "naming"]}
          /\ closed' \in {closed, [closed EXCEPT ![c] = TRUE]}
      BY <1>2 DEF Hello, Goes
    <3> QED
      BY <3>1
  <2>2. result' \in [Conn -> Nat] /\ name' \in [Conn -> Seq(Nat)]
    <3>1. /\ result' = result \/ result' = [result EXCEPT ![c] = 0]
          /\ name' = name \/ \E w \in Wanted : name' = [name EXCEPT ![c] = w]
      BY <1>2 DEF Hello
    <3>2. result' \in [Conn -> Nat]
      BY <3>1
    <3>3. name' \in [Conn -> Seq(Nat)]
      BY <3>1
    <3> QED
      BY <3>2, <3>3
  <2>3. ip' = ip /\ banned' = banned /\ op' = op
    BY <1>2 DEF Hello, Operator
  <2>4. slipped' \subseteq Conn
    BY <1>2 DEF Hello
  <2>5. raced' \subseteq SUBSET Conn
    <3>1. \/ raced' = raced
          \/ raced' = {p \in raced : c \notin p} \cup {{c, d} : d \in {x \in Conn : Choosing(x)}}
      BY <1>2 DEF Hello
    <3> HIDE DEF AdmissionTypeOK
    <3>2. raced \subseteq SUBSET Conn
      BY DEF AdmissionTypeOK
    <3>3. {{c, d} : d \in {x \in Conn : Choosing(x)}} \subseteq SUBSET Conn
      BY Zenon
    <3> QED
      BY <3>1, <3>2, <3>3
  <2> QED
    BY <2>1, <2>2, <2>3, <2>4, <2>5
<1>3. ASSUME NEW c \in Conn, Pass(c) PROVE AdmissionTypes'
  <2>1. place' \in [Conn -> Places] /\ result' \in [Conn -> Nat]
    <3>1. /\ place' = place \/ place' = [place EXCEPT ![c] = "chosen"]
          /\ result' = result \/ result' = [result EXCEPT ![c] = result[c] + 1]
      BY <1>3 DEF Pass, Goes
    <3>2. place' \in [Conn -> Places]
      BY <3>1
    <3>3. result' \in [Conn -> Nat]
      <4>1. result \in [Conn -> Nat] /\ result[c] + 1 \in Nat
        OBVIOUS
      <4> QED
        BY <3>1, <4>1
    <3> QED
      BY <3>2, <3>3
  <2>2. UNCHANGED <<closed, ip, name, banned, op, raced, slipped>>
    BY <1>3 DEF Pass, Operator
  <2> QED
    BY <2>1, <2>2
<1>4. ASSUME NEW c \in Conn, Store(c) PROVE AdmissionTypes'
  <2>1. Candidate(name[c], result[c]) \in Seq(Nat)
    BY CandidateType
  <2>2. name' \in [Conn -> Seq(Nat)]
    BY <1>4, <2>1 DEF Store
  <2> QED
    BY <1>4, <2>2 DEF Store, Goes, Operator
<1>5. ASSUME NEW c \in Conn, Admit(c) \/ Leave(c) \/ Drop(c) \/ Reap(c) PROVE AdmissionTypes'
  BY <1>5 DEF Admit, Leave, Drop, Reap, Goes, Operator
<1>6. ASSUME NEW c \in Conn, Ban(c) PROVE AdmissionTypes'
  BY <1>6 DEF Ban, OpKeeps, ThoseAt
<1>7. ASSUME NEW c \in Conn, Kick(c) PROVE AdmissionTypes'
  BY <1>7 DEF Kick, OpKeeps
<1>8. ASSUME NEW i \in Ip, BanIp(i) PROVE AdmissionTypes'
  BY <1>8 DEF BanIp, OpKeeps
<1>9. CASE Collect \/ Kicked
  <2>1. op' \in [does : {"nothing", "collect", "kick"}, ip : Ip \cup {{}}, conns : SUBSET Conn]
    <3>1. CASE Collect
      <4>1. {c \in ThoseAt(op.ip) : place[c] = "in"} \in SUBSET Conn
        BY DEF ThoseAt
      <4> QED
        BY <3>1, <4>1 DEF Collect
    <3>2. CASE Kicked
      BY <3>2 DEF Kicked, Idle
    <3> QED
      BY <1>9, <3>1, <3>2
  <2>2. slipped' \subseteq Conn
    BY <1>9 DEF Collect, Kicked, ThoseAt
  <2>3. UNCHANGED <<place, closed, ip, name, result, banned, raced>>
    BY <1>9 DEF Collect, Kicked, OpKeeps
  <2> QED
    BY <2>1, <2>2, <2>3
<1>10. CASE UNCHANGED admissionVars
  BY <1>10 DEF admissionVars
<1> QED
  BY <1>1, <1>2, <1>3, <1>4, <1>5, <1>6, <1>7, <1>8, <1>9, <1>10 DEF AdmissionNext

\* Names: what is found free in a pass stays free but for those who choose meanwhile.
LEMMA NamesKept ==
  ASSUME AdmissionInv, [AdmissionNext]_admissionVars
  PROVE ChoosersRace' /\ ChosenIsFree' /\ NamedDiffer'
<1> USE DEF AdmissionInv, AdmissionTypes, AdmissionTypeOK, ChoosersRace, ChosenIsFree,
        NamedDiffer, Named, Choosing
<1>1. ASSUME NEW c \in Conn, Accept(c) PROVE ChoosersRace' /\ ChosenIsFree' /\ NamedDiffer'
  BY <1>1 DEF Accept, Goes
<1>2. ASSUME NEW c \in Conn, Hello(c) PROVE ChoosersRace' /\ ChosenIsFree' /\ NamedDiffer'
  <2>1. CASE IsBanned(c)
    BY <1>2, <2>1 DEF Hello
  <2>2. CASE ~IsBanned(c)
    <3>1. /\ place[c] = "hello" /\ place' = [place EXCEPT ![c] = "naming"]
          /\ \A d \in Conn \ {c} : name'[d] = name[d] /\ result'[d] = result[d]
          /\ raced' = {p \in raced : c \notin p} \cup {{c, d} : d \in {x \in Conn : Choosing(x)}}
      BY <1>2, <2>2 DEF Hello, Goes
    <3>2. ASSUME NEW a \in Conn, NEW b \in Conn, a # b, Choosing(a)', Choosing(b)'
          PROVE {a, b} \in raced'
      <4>1. CASE a = c
        BY <3>1, <3>2, <4>1
      <4>2. CASE b = c
        <5>1. {a, b} = {c, a}
          BY <4>2
        <5> QED
          BY <3>1, <3>2, <4>2, <5>1
      <4>3. CASE a # c /\ b # c
        BY <3>1, <3>2, <4>3
      <4> QED
        BY <4>1, <4>2, <4>3
    <3>3. ChosenIsFree' /\ NamedDiffer'
      BY <3>1
    <3> QED
      BY <3>2, <3>3
  <2> QED
    BY <2>1, <2>2
<1>3. ASSUME NEW c \in Conn, Pass(c) PROVE ChoosersRace' /\ ChosenIsFree' /\ NamedDiffer'
  <2>1. /\ place[c] = "naming" /\ name' = name /\ raced' = raced
        /\ \A d \in Conn \ {c} : result'[d] = result[d]
    BY <1>3 DEF Pass
  <2>2. \/ place' = place
        \/ /\ place' = [place EXCEPT ![c] = "chosen"] /\ result' = result
           /\ ~Taken(c, Candidate(name[c], result[c]))
    BY <1>3 DEF Pass, Goes
  <2>3. ChoosersRace' /\ NamedDiffer'
    BY <2>1, <2>2
  <2>4. ChosenIsFree'
    BY <2>1, <2>2 DEF Taken
  <2> QED
    BY <2>3, <2>4
<1>4. ASSUME NEW c \in Conn, Store(c) PROVE ChoosersRace' /\ ChosenIsFree' /\ NamedDiffer'
  <2>1. /\ place[c] = "chosen" /\ place' = [place EXCEPT ![c] = "joining"]
        /\ name' = [name EXCEPT ![c] = Candidate(name[c], result[c])]
        /\ raced' = raced /\ result' = result
    BY <1>4 DEF Store, Goes
  <2>2. ChoosersRace'
    BY <2>1
  <2>3. ChosenIsFree'
    BY <2>1
  <2>4. ASSUME NEW a \in Conn, NEW b \in Conn, a # b, Named(a)', Named(b)', name'[a] = name'[b]
        PROVE {a, b} \in raced'
    <3>1. CASE a = c
      <4>1. name[b] = Candidate(name[c], result[c]) /\ Named(b)
        BY <2>1, <2>4, <3>1
      <4>2. {a, b} = {b, c}
        BY <3>1
      <4> QED
        BY <2>1, <2>4, <3>1, <4>1, <4>2
    <3>2. CASE b = c
      <4>1. name[a] = Candidate(name[c], result[c]) /\ Named(a)
        BY <2>1, <2>4, <3>2
      <4> QED
        BY <2>1, <2>4, <3>2, <4>1
    <3>3. CASE a # c /\ b # c
      BY <2>1, <2>4, <3>3
    <3> QED
      BY <3>1, <3>2, <3>3
  <2> QED
    BY <2>2, <2>3, <2>4
<1>5. ASSUME NEW c \in Conn, Admit(c) \/ Leave(c) \/ Drop(c) \/ Reap(c)
      PROVE ChoosersRace' /\ ChosenIsFree' /\ NamedDiffer'
  BY <1>5 DEF Admit, Leave, Drop, Reap, Goes
<1>6. ASSUME NEW c \in Conn, Kick(c) PROVE ChoosersRace' /\ ChosenIsFree' /\ NamedDiffer'
  BY <1>6 DEF Kick, OpKeeps
<1>7. CASE \/ \E c \in Conn : Ban(c)
           \/ \E i \in Ip : BanIp(i)
           \/ Collect \/ Kicked \/ UNCHANGED admissionVars
  <2>1. place' = place /\ name' = name /\ result' = result /\ raced' = raced
    BY <1>7 DEF Ban, BanIp, Collect, Kicked, OpKeeps, admissionVars
  <2> QED
    BY <2>1
<1> QED
  BY <1>1, <1>2, <1>3, <1>4, <1>5, <1>6, <1>7 DEF AdmissionNext

\* Bans: the operator's two kinds of ban leave nobody out of account.
LEMMA BansKept ==
  ASSUME AdmissionInv, [AdmissionNext]_admissionVars PROVE BannedAreKnown'
<1> USE DEF AdmissionInv, AdmissionTypes, AdmissionTypeOK, BannedAreKnown, PastSearch, Choosing
<1>1. ASSUME NEW c \in Conn, Accept(c) \/ Hello(c) PROVE BannedAreKnown'
  <2>1. CASE Accept(c)
    BY <2>1 DEF Accept, Goes, Operator
  <2>2. CASE Hello(c)
    BY <2>2 DEF Hello, IsBanned, Goes, Operator
  <2> QED
    BY <1>1, <2>1, <2>2
<1>2. ASSUME NEW c \in Conn, Pass(c) \/ Store(c) \/ Admit(c) PROVE BannedAreKnown'
  BY <1>2 DEF Pass, Store, Admit, Goes, Operator
<1>3. ASSUME NEW c \in Conn, Leave(c) \/ Drop(c) \/ Reap(c) PROVE BannedAreKnown'
  BY <1>3 DEF Leave, Drop, Reap, Goes, Operator
<1>4. ASSUME NEW c \in Conn, Ban(c) PROVE BannedAreKnown'
  BY <1>4 DEF Ban, OpKeeps, ThoseAt
<1>5. ASSUME NEW c \in Conn, Kick(c) PROVE BannedAreKnown'
  BY <1>5 DEF Kick, OpKeeps
<1>6. ASSUME NEW i \in Ip, BanIp(i) PROVE BannedAreKnown'
  BY <1>6 DEF BanIp, OpKeeps
<1>7. CASE Collect
  BY <1>7 DEF Collect, OpKeeps, ThoseAt
<1>8. CASE Kicked
  BY <1>8 DEF Kicked, OpKeeps
<1>9. CASE UNCHANGED admissionVars
  BY <1>9 DEF admissionVars
<1> QED
  BY <1>1, <1>2, <1>3, <1>4, <1>5, <1>6, <1>7, <1>8, <1>9 DEF AdmissionNext

\* Every step of admission keeps its invariant.
LEMMA AdmissionStep ==
  ASSUME AdmissionInv, [AdmissionNext]_admissionVars PROVE AdmissionInv'
BY AdmissionTypesKept, NamesKept, BansKept DEF AdmissionInv

\* The invariant of admission holds for any connections, addresses and names.
THEOREM AdmissionInvariant == AdmissionSpec => []AdmissionInv
<1>1. AdmissionInv /\ [AdmissionNext]_admissionVars => AdmissionInv'
  BY AdmissionStep
<1> QED
  BY <1>1, AdmissionStarts, PTL DEF AdmissionSpec

\* Two members of a lobby have different names unless they chose them at the same time,
\* whatever names are asked for (_sanitizeName).
THEOREM NamesDifferAlways == AdmissionSpec => []NamesDiffer
<1>1. AdmissionInv => NamesDiffer
  BY DEF AdmissionInv, NamedDiffer, NamesDiffer, Named
<1> QED
  BY <1>1, AdmissionInvariant, PTL

\* When a ban is over nobody of a banned address is in the lobby or comes in later, but for
\* those who were past the search of the ban list.
THEOREM BannedAreOutAlways == AdmissionSpec => []BannedAreOut
<1>1. AdmissionInv => BannedAreOut
  BY DEF AdmissionInv, BannedAreKnown, BannedAreOut
<1> QED
  BY <1>1, AdmissionInvariant, PTL

-----------------------------------------------------------------------------
(* The host list.                                                          *)

HostListInv == HostListTypeOK /\ ~misjoined

\* A listing is a sequence of games.
LEMMA ListingIsSeq ==
  ASSUME NEW s \in Listings PROVE s \in Seq(Game) /\ Len(s) \in Nat /\ DOMAIN s = 1..Len(s)
<1>1. PICK n \in 0..3 : s \in [1..n -> Game]
  BY DEF Listings
<1>2. n \in Nat /\ s \in Seq(Game)
  BY <1>1
<1> QED
  BY <1>2

\* When a tab is replaced the cursor goes to its game if that is still listed, and points
\* into the new tab in any case.
LEMMA SelectionFound ==
  ASSUME NEW games \in Listings, cursor \in Nat
  PROVE  /\ FindSelection(games) \in Nat
         /\ FindSelection(games) = 0 \/ FindSelection(games) < Len(games)
         /\ Selected \in Elements(games) => games[FindSelection(games) + 1] = Selected
<1>1. Len(games) \in Nat /\ DOMAIN games = 1..Len(games) /\ games \in Seq(Game)
  BY ListingIsSeq
<1>2. CASE \E i \in DOMAIN games : games[i] = Selected
  <2> DEFINE at == CHOOSE i \in DOMAIN games : games[i] = Selected
  <2>1. at \in DOMAIN games /\ games[at] = Selected
    BY <1>2
  <2>2. FindSelection(games) = at - 1
    BY <1>2 DEF FindSelection
  <2> QED
    BY <1>1, <2>1, <2>2
<1>3. CASE ~\E i \in DOMAIN games : games[i] = Selected
  <2>1. FindSelection(games) = (IF games = <<>> THEN 0 ELSE Lower(cursor, Len(games) - 1))
    BY <1>3 DEF FindSelection
  <2>2. Selected \notin Elements(games)
    BY <1>3 DEF Elements
  <2>3. games # <<>> => Len(games) > 0
    BY <1>1
  <2> QED
    BY <1>1, <2>1, <2>2, <2>3 DEF Lower
<1> QED
  BY <1>2, <1>3

\* What a frame finds after it has taken the pending entries.
LEMMA FrameFinds ==
  ASSUME HostListInv
  PROVE  /\ \A t \in Tabs : Tab(t) \in Listings
         /\ Cursor \in Nat /\ (Cursor = 0 \/ Cursor < Len(Tab(tab)))
         /\ Scroll \in [Tabs -> Nat]
<1> USE DEF HostListInv, HostListTypeOK
<1>1. \A t \in Tabs : Tab(t) \in Listings
  BY DEF Tab
<1>2. cursor \in Nat /\ (cursor = 0 \/ cursor < Len(shown[tab]))
  <2>1. shown[tab] \in Listings
    OBVIOUS
  <2> QED
    BY <2>1, ListingIsSeq
<1>3. Cursor \in Nat /\ (Cursor = 0 \/ Cursor < Len(Tab(tab)))
  <2>1. CASE hasPending
    <3>1. pending[tab] \in Listings
      OBVIOUS
    <3> QED
      BY <1>2, <2>1, <3>1, SelectionFound DEF Cursor, Tab
  <2>2. CASE ~hasPending
    BY <1>2, <2>2 DEF Cursor, Tab
  <2> QED
    BY <2>1, <2>2
<1>4. Scroll \in [Tabs -> Nat]
  <2>1. ASSUME NEW t \in Tabs PROVE Clamped(offset[t], Len(pending[t])) \in Nat
    <3>1. pending[t] \in Listings /\ offset[t] \in Nat /\ Visible \in Nat
      BY HostListAssumption
    <3>2. Len(pending[t]) \in Nat
      BY <3>1, ListingIsSeq
    <3> QED
      BY <3>1, <3>2 DEF Clamped, Lower
  <2> QED
    BY <2>1 DEF Scroll
<1> QED
  BY <1>1, <1>3, <1>4

\* The empty tabs a list begins with.
LEMMA NothingListed == <<>> \in Listings /\ Nothing \in [Tabs -> Listings]
<1>1. <<>> \in [1..0 -> Game] /\ DOMAIN <<>> = {} /\ 0 \in 0..3
  OBVIOUS
<1>2. <<>> \in Listings
  BY <1>1 DEF Listings
<1> QED
  BY <1>2 DEF Nothing

\* The host list is well formed when it is made.
LEMMA HostListStarts == HostListInit => HostListInv
<1> SUFFICES ASSUME HostListInit PROVE HostListInv
  OBVIOUS
<1>1. {shown, pending} \subseteq [Tabs -> Listings] /\ {"host", "play"} = Tabs
  BY NothingListed DEF HostListInit, Tabs
<1>2. shown[tab] = <<>> /\ tab \in Tabs /\ cursor = 0
  BY <1>1 DEF HostListInit, Nothing
<1>3. cursor \in 0..Len(shown[tab])
  BY <1>2
<1>4. offset \in [Tabs -> Nat]
  BY DEF HostListInit
<1> QED
  BY <1>1, <1>2, <1>3, <1>4 DEF HostListInit, HostListInv, HostListTypeOK

\* A join in the frame that replaces the tabs goes to the game that was under the cursor.
LEMMA JoinStep == ASSUME HostListInv, Join, tab \in Tabs PROVE ~misjoined' /\ misjoined' \in BOOLEAN
<1>1. misjoined' = (Selected \in Elements(Tab(tab)) \ {Tab(tab)[Cursor + 1]})
  BY DEF Join, HostListInv, HostListTypeOK
<1>2. cursor \in Nat /\ (cursor = 0 \/ cursor < Len(shown[tab]))
  <2>1. shown[tab] \in Listings
    BY DEF HostListInv, HostListTypeOK
  <2> QED
    BY <2>1, ListingIsSeq DEF HostListInv, HostListTypeOK
<1>3. ASSUME hasPending PROVE ~misjoined'
  <2>1. pending[tab] \in Listings
    BY DEF HostListInv, HostListTypeOK
  <2>2. Selected \in Elements(pending[tab])
          => pending[tab][FindSelection(pending[tab]) + 1] = Selected
    BY <1>2, <2>1, SelectionFound
  <2> QED
    BY <1>1, <1>3, <2>2 DEF Tab, Cursor
<1>4. ASSUME ~hasPending PROVE ~misjoined'
  <2>1. Tab(tab) = shown[tab] /\ Cursor = cursor
    BY <1>4 DEF Tab, Cursor
  <2>2. shown[tab] \in Seq(Game)
    BY ListingIsSeq DEF HostListInv, HostListTypeOK
  <2>3. NoGame \notin Elements(shown[tab])
    BY <2>2, HostListAssumption DEF Elements
  <2>4. Selected \in {NoGame, shown[tab][cursor + 1]}
    BY DEF Selected
  <2> QED
    BY <1>1, <2>1, <2>3, <2>4
<1>5. misjoined' \in BOOLEAN
  <2> DEFINE lost == Selected \in Elements(Tab(tab)) \ {Tab(tab)[Cursor + 1]}
  <2>1. misjoined' = lost
    BY <1>1
  <2>2. lost \in BOOLEAN
    <3>1. CASE lost
      <4>1. lost = TRUE
        BY <3>1
      <4> QED
        BY <4>1
    <3>2. CASE ~lost
      <4>1. lost = FALSE
        BY <3>2
      <4> QED
        BY <4>1
    <3> QED
      BY <3>1, <3>2
  <2> HIDE DEF lost
  <2> QED
    BY <2>1, <2>2
<1> QED
  BY <1>3, <1>4, <1>5, hasPending \in BOOLEAN DEF HostListInv, HostListTypeOK

\* A frame.
LEMMA UpdateStep == ASSUME HostListInv, Update PROVE HostListInv'
<1>1. /\ \A t \in Tabs : Tab(t) \in Listings
      /\ Cursor \in Nat /\ (Cursor = 0 \/ Cursor < Len(Tab(tab)))
      /\ Scroll \in [Tabs -> Nat]
  BY FrameFinds
<1>2. /\ tab \in Tabs /\ {shown, pending} \subseteq [Tabs -> Listings]
      /\ ~misjoined /\ misjoined \in BOOLEAN
      /\ hasPending \in BOOLEAN /\ browsing \in BOOLEAN /\ joining \in BOOLEAN
  BY DEF HostListInv, HostListTypeOK
<1>3. /\ shown' \in [Tabs -> Listings] /\ \A t \in Tabs : shown'[t] = Tab(t)
      /\ pending' \in [Tabs -> Listings] /\ hasPending' \in BOOLEAN
  BY <1>2, NothingListed DEF Update, TakePending, Tab, tabsVars
<1>4. /\ worker' \in {"refresh", "request", "wait", "asleep", "stopped"}
      /\ life' \in {"open", "retired", "joining", "erased"} /\ running' \in BOOLEAN
  BY DEF Update, HostListInv, HostListTypeOK
<1> DEFINE Good == /\ tab' \in Tabs /\ browsing' \in BOOLEAN /\ joining' \in BOOLEAN
                   /\ misjoined' \in BOOLEAN /\ ~misjoined' /\ offset' \in [Tabs -> Nat]
                   /\ cursor' \in Nat /\ (cursor' = 0 \/ cursor' < Len(Tab(tab')))
<1>5. ASSUME NoKey PROVE Good
  BY <1>1, <1>2, <1>5 DEF NoKey
<1>6. ASSUME OtherTab PROVE Good
  BY <1>2, <1>6 DEF OtherTab, Tabs
<1>7. ASSUME EnterOrLeaveTab PROVE Good
  BY <1>1, <1>2, <1>7 DEF EnterOrLeaveTab
<1>8. ASSUME Join PROVE Good
  <2>1. ~misjoined' /\ misjoined' \in BOOLEAN
    BY <1>2, <1>8, JoinStep
  <2> QED
    BY <1>1, <1>2, <1>8, <2>1 DEF Join
<1>9. ASSUME MoveCursor PROVE Good
  <2> DEFINE n == Len(Tab(tab))
  <2>1. n \in Nat /\ n > 0 /\ cursor' \in {(Cursor + 1) % n, (Cursor + n - 1) % n}
    BY <1>1, <1>2, <1>9, ListingIsSeq DEF MoveCursor
  <2>2. ASSUME NEW a \in Nat, NEW b \in Nat \ {0} PROVE a % b \in 0..(b - 1)
    OBVIOUS
  <2>3. Cursor + 1 \in Nat /\ Cursor + n - 1 \in Nat
    BY <1>1, <2>1
  <2>4. cursor' \in 0..(n - 1)
    <3> HIDE DEF n
    <3>1. (Cursor + 1) % n \in 0..(n - 1)
      BY <2>1, <2>2, <2>3
    <3>2. (Cursor + n - 1) % n \in 0..(n - 1)
      BY <2>1, <2>2, <2>3
    <3> QED
      BY <2>1, <3>1, <3>2
  <2>5. offset' = [Scroll EXCEPT ![tab] = Follow(@, cursor', n)]
    BY <1>9 DEF MoveCursor
  <2>6. Follow(Scroll[tab], cursor', n) \in Nat
    <3> HIDE DEF n
    <3>1. Scroll[tab] \in Nat /\ cursor' \in Nat /\ Visible \in Nat /\ n \in Nat
      BY <1>1, <1>2, <2>1, <2>4, HostListAssumption
    <3>2. ASSUME NEW f \in Nat, NEW v \in Nat, NEW c \in Nat, c >= f + v PROVE c - v + 1 \in Nat
      BY <3>2
    <3> QED
      BY <3>1, <3>2 DEF Follow
  <2>7. offset' \in [Tabs -> Nat]
    BY <1>1, <2>5, <2>6
  <2> QED
    BY <1>2, <1>9, <2>1, <2>4, <2>7 DEF MoveCursor
<1>10. Good
  BY <1>5, <1>6, <1>7, <1>8, <1>9 DEF Update
<1>11. cursor' \in 0..Len(shown'[tab']) /\ (cursor' = 0 \/ cursor' < Len(shown'[tab']))
  <2>1. shown'[tab'] = Tab(tab') /\ shown'[tab'] \in Listings
    BY <1>3, <1>10
  <2>2. Len(shown'[tab']) \in Nat
    BY <2>1, ListingIsSeq
  <2> QED
    BY <1>10, <2>1, <2>2
<1> QED
  BY <1>3, <1>4, <1>10, <1>11 DEF HostListInv, HostListTypeOK

\* The worker, and the end of the list.
LEMMA HostListOthers ==
  ASSUME HostListInv, Worker \/ JoinEnds \/ Close \/ LeaveLobby \/ EraseList
  PROVE  HostListInv'
<1> USE DEF HostListInv, HostListTypeOK, tabsVars, uiVars
<1>1. CASE Refresh
  BY <1>1 DEF Refresh
<1>2. CASE Receive
  <2>1. pending' \in [Tabs -> Listings] /\ hasPending' \in BOOLEAN
    BY <1>2, HostListAssumption DEF Receive
  <2>2. UNCHANGED <<shown, tab, cursor, offset, browsing, joining, running, life, misjoined>>
    BY <1>2 DEF Receive
  <2>3. worker' = "wait"
    BY <1>2 DEF Receive
  <2> QED
    BY <2>1, <2>2, <2>3
<1>3. CASE Wait
  BY <1>3 DEF Wait
<1>4. CASE TimeOut
  BY <1>4 DEF TimeOut
<1>5. CASE JoinEnds
  BY <1>5 DEF JoinEnds
<1>6. CASE Close
  BY <1>6 DEF Close, requestStop
<1>7. CASE LeaveLobby \/ EraseList
  BY <1>7 DEF LeaveLobby, EraseList
<1> QED
  BY <1>1, <1>2, <1>3, <1>4, <1>5, <1>6, <1>7 DEF Worker

\* Every step of the host list keeps its invariant.
LEMMA HostListStep ==
  ASSUME HostListInv, [HostListNext]_hostListVars PROVE HostListInv'
<1>1. ASSUME UNCHANGED hostListVars PROVE HostListInv'
  BY <1>1 DEF HostListInv, HostListTypeOK, hostListVars, tabsVars, uiVars
<1> QED
  BY <1>1, UpdateStep, HostListOthers DEF HostListNext

\* The invariant of the host list holds for any games and answers, and any window of the tab.
THEOREM HostListInvariant == HostListSpec => []HostListInv
<1>1. HostListInv /\ [HostListNext]_hostListVars => HostListInv'
  BY HostListStep
<1> QED
  BY <1>1, HostListStarts, PTL DEF HostListSpec

\* The types, and that the cursor never points past the tab on the screen.
THEOREM HostListTypeCorrect == HostListSpec => []HostListTypeOK
<1>1. HostListInv => HostListTypeOK
  BY DEF HostListInv
<1> QED
  BY <1>1, HostListInvariant, PTL

\* The game the player joins is the one he saw under the cursor as long as it is still
\* listed (_applyPendingEntries), whatever the web server answers and whenever.
THEOREM JoinsWhatWasSeenAlways == HostListSpec => []JoinsWhatWasSeen
<1>1. HostListInv => JoinsWhatWasSeen
  BY DEF HostListInv, JoinsWhatWasSeen
<1> QED
  BY <1>1, HostListInvariant, PTL


-----------------------------------------------------------------------------
(* The session of a lobby.                                                 *)

ToServers == {"hello", "leave", "position"}
ToClients == {"olleh", "other", "kicked", "end"}

Has(s, p) == \E i \in 1..Len(s) : s[i] = p
Once(s, p) == \A i, j \in 1..Len(s) : s[i] = p /\ s[j] = p => i = j
NoneAfter(s, q, p) == \A i, j \in 1..Len(s) : i < j /\ s[i] = q => s[j] # p
Led(s) == \A j \in 1..Len(s) : s[j] = "other" => \E i \in 1..(j - 1) : s[i] = "olleh"

\* What the visits so far have allowed the client to send without a limit, and not sent yet:
\* the tries that are left and the Leave.
Unsent == tries.left + (IF menu \in {"screen", "closing"} THEN 1 ELSE 0)
Allowed == visits * (JoinTries + 1) - Unsent

SessionTypes ==
  /\ conn \in [connected : BOOLEAN, init : BOOLEAN, me : BOOLEAN]
  /\ srv \in [open : BOOLEAN, init : BOOLEAN]
  /\ posThread \in {"none", "test", "inside", "built", "sleep", "done"}
  /\ menu \in {"list", "screen", "closing", "leaving", "joinPos", "joinTries"}
  /\ screen \in [wasConnected : BOOLEAN, disconnected : BOOLEAN, ready : BOOLEAN]
  /\ tries \in [pc : {"check", "send", "over"}, left : 0..JoinTries]
  /\ visits \in 0..MaxVisits
  /\ crossed \subseteq {"hello", "position"} /\ accused \subseteq {"server", "client"}
  /\ left \in {"no", "now", "before"} /\ died \in {"no", "null", "terminate"}
  /\ toServer \in Seq(ToServers) /\ toClient \in Seq(ToClients)

\* No more is in flight than the senders' limits and the visits so far allow.
FlightBounded ==
  /\ Len(toClient) <= MaxFlight
  /\ Allowed \in Nat /\ Len(toServer) <= MaxFlight + Allowed
  /\ tries.pc = "send" => tries.left > 0

Leaving == menu \in {"leaving", "joinPos"}

\* The client has a session that it has not left.
Held == posThread # "none" /\ ~Leaving

\* The session, the player of it and the position thread come and go together; what is not
\* so is a session that the server ended, or that came when its screen had gone.
ThreadAndSession ==
  /\ srv.init => srv.open
  /\ Leaving => left = "now"
  /\ died # "no" => Leaving
  /\ died = "no" =>
       /\ Leaving => posThread # "none"
       /\ conn.init => posThread # "none" /\ menu # "joinPos"
       /\ posThread # "none" /\ ~conn.me => menu = "joinPos"
       /\ conn.connected /\ Held => conn.init
       /\ menu \in {"list", "joinTries"} /\ conn.connected /\ posThread # "none" => late
  /\ menu \in {"screen", "closing"} /\ screen.disconnected => ~conn.connected

\* The two ends agree on the session, up to what is in flight: the server has one exactly if
\* the client holds it, its Olleh is on the way, or the Leave that ends it is; and of the
\* three it is one only.
EndsAgree ==
  died = "no" /\ conn.connected =>
    /\ Once(toClient, "olleh") /\ Once(toServer, "leave")
    /\ Held => ~Has(toClient, "olleh")
    /\ srv.open =>
         /\ srv.init <=> Held \/ Has(toClient, "olleh") \/ Has(toServer, "leave")
         /\ ~(Has(toServer, "leave") /\ (Held \/ Has(toClient, "olleh")))

\* While the player is leaving no Hello follows the Leave, unless it crossed it.
NothingReopens ==
  died = "no" /\ conn.connected /\ Leaving /\ "hello" \notin crossed =>
    /\ ~Has(toClient, "olleh")
    /\ srv.open => /\ NoneAfter(toServer, "leave", "hello")
                   /\ ~srv.init => ~Has(toServer, "hello")

\* A position reaches the server inside a session, unless it crossed the Leave.
PositionsInSession ==
  srv.open /\ "position" \notin crossed =>
    /\ NoneAfter(toServer, "leave", "position")
    /\ Has(toServer, "position") => srv.init

\* Before the player has left anything, what comes about the others comes after Olleh.
OllehFirst ==
  left = "no" /\ conn.connected /\ ~conn.init =>
    /\ Led(toClient)
    /\ srv.init => Has(toClient, "olleh")

SessionInv ==
  /\ SessionTypes /\ FlightBounded /\ ThreadAndSession /\ EndsAgree /\ NothingReopens
  /\ PositionsInSession /\ OllehFirst
  /\ DiesOnlyLeaving /\ HandshakeKept /\ ScreenIsReady

\* What is in a queue after one more packet, and after its first has been taken.
LEMMA Appended ==
  ASSUME NEW S, NEW s \in Seq(S), NEW x \in S
  PROVE  /\ Append(s, x) \in Seq(S) /\ Len(Append(s, x)) = Len(s) + 1
         /\ \A p : Has(Append(s, x), p) <=> Has(s, p) \/ x = p
         /\ \A p : Once(s, p) /\ (x = p => ~Has(s, p)) => Once(Append(s, x), p)
         /\ \A p, q : NoneAfter(s, q, p) /\ (x = p => ~Has(s, q)) => NoneAfter(Append(s, x), q, p)
         /\ Led(s) /\ (x = "other" => Has(s, "olleh")) => Led(Append(s, x))
<1> DEFINE t == Append(s, x)
<1>1. /\ t \in Seq(S) /\ Len(t) = Len(s) + 1 /\ Len(s) \in Nat
      /\ \A i \in 1..Len(s) : t[i] = s[i]
      /\ t[Len(s) + 1] = x
  OBVIOUS
<1>2. \A i \in 1..Len(t) : i \in 1..Len(s) \/ i = Len(s) + 1
  BY <1>1
<1>3. 1..Len(s) \subseteq 1..Len(t) /\ Len(s) + 1 \in 1..Len(t)
  BY <1>1
<1> HIDE DEF t
<1>4. \A p : Has(t, p) <=> Has(s, p) \/ x = p
  BY <1>1, <1>2, <1>3 DEF Has
<1>5. \A p : Once(s, p) /\ (x = p => ~Has(s, p)) => Once(t, p)
  BY <1>1, <1>2 DEF Once, Has
<1>6. \A p, q : NoneAfter(s, q, p) /\ (x = p => ~Has(s, q)) => NoneAfter(t, q, p)
  BY <1>1, <1>2 DEF NoneAfter, Has
<1>7. ASSUME Led(s), x = "other" => Has(s, "olleh") PROVE Led(t)
  <2>1. ASSUME NEW j \in 1..Len(t), t[j] = "other" PROVE \E i \in 1..(j - 1) : t[i] = "olleh"
    <3>1. CASE j \in 1..Len(s)
      <4>1. PICK i \in 1..(j - 1) : s[i] = "olleh"
        BY <1>1, <1>7, <2>1, <3>1 DEF Led
      <4>2. i \in 1..Len(s)
        BY <1>1, <3>1, <4>1
      <4> QED
        BY <1>1, <4>1, <4>2
    <3>2. CASE j = Len(s) + 1
      <4>1. PICK i \in 1..Len(s) : s[i] = "olleh"
        BY <1>1, <1>7, <2>1, <3>2 DEF Has
      <4>2. i \in 1..(j - 1)
        BY <1>1, <3>2
      <4> QED
        BY <1>1, <4>1, <4>2
    <3> QED
      BY <1>2, <3>1, <3>2
  <2> QED
    BY <2>1 DEF Led
<1> QED
  BY <1>1, <1>4, <1>5, <1>6, <1>7 DEF t

\* What is left of a stream when its first packet is taken.
LEMMA FirstTaken ==
  ASSUME NEW S, NEW s \in Seq(S), s # <<>>
  PROVE  /\ Tail(s) \in Seq(S) /\ Len(s) = Len(Tail(s)) + 1
         /\ \A p : Has(s, p) <=> Has(Tail(s), p) \/ Head(s) = p
         /\ \A p : Once(s, p) => Once(Tail(s), p) /\ (Head(s) = p => ~Has(Tail(s), p))
         /\ \A p, q : NoneAfter(s, q, p) =>
                         NoneAfter(Tail(s), q, p) /\ (Head(s) = q => ~Has(Tail(s), p))
         /\ Led(s) => Head(s) # "other"
<1> DEFINE t == Tail(s)
<1>1. /\ t \in Seq(S) /\ Len(s) = Len(t) + 1 /\ Len(t) \in Nat /\ Len(s) \in Nat
      /\ \A i \in 1..Len(t) : t[i] = s[i + 1]
      /\ Head(s) = s[1]
  OBVIOUS
<1>2. \A i \in 1..Len(s) : i = 1 \/ (i - 1 \in 1..Len(t) /\ s[i] = t[i - 1])
  BY <1>1
<1>3. \A i \in 1..Len(t) : i + 1 \in 1..Len(s) /\ i + 1 # 1 /\ 1 < i + 1
  BY <1>1
<1>4. 1 \in 1..Len(s)
  BY <1>1
<1> HIDE DEF t
<1>5. \A p : Has(s, p) <=> Has(t, p) \/ Head(s) = p
  BY <1>1, <1>2, <1>3, <1>4 DEF Has
<1>6. ASSUME NEW p, Once(s, p) PROVE Once(t, p) /\ (Head(s) = p => ~Has(t, p))
  <2>1. ASSUME NEW i \in 1..Len(t), NEW j \in 1..Len(t), t[i] = p, t[j] = p PROVE i = j
    <3>1. i + 1 = j + 1
      BY <1>1, <1>3, <1>6, <2>1 DEF Once
    <3> QED
      BY <3>1
  <2>2. ASSUME NEW i \in 1..Len(t), Head(s) = p PROVE t[i] # p
    BY <1>1, <1>3, <1>4, <1>6, <2>2 DEF Once
  <2> QED
    BY <2>1, <2>2 DEF Once, Has
<1>7. ASSUME NEW p, NEW q, NoneAfter(s, q, p)
      PROVE  NoneAfter(t, q, p) /\ (Head(s) = q => ~Has(t, p))
  <2>1. ASSUME NEW i \in 1..Len(t), NEW j \in 1..Len(t), i < j, t[i] = q PROVE t[j] # p
    <3>1. i + 1 < j + 1
      BY <2>1
    <3> QED
      BY <1>1, <1>3, <1>7, <2>1, <3>1 DEF NoneAfter
  <2>2. ASSUME NEW i \in 1..Len(t), Head(s) = q PROVE t[i] # p
    BY <1>1, <1>3, <1>4, <1>7, <2>2 DEF NoneAfter
  <2> QED
    BY <2>1, <2>2 DEF NoneAfter, Has
<1>8. Led(s) => Head(s) # "other"
  BY <1>1, <1>4 DEF Led
<1> QED
  BY <1>1, <1>5, <1>6, <1>7, <1>8 DEF t

\* What the client sends is lost unless both ends are open.
LEMMA SentToServerIs ==
  ASSUME NEW p, toServer' = SentToServer(p)
  PROVE  IF Joined THEN toServer' = Append(toServer, p) ELSE toServer' = toServer
BY DEF SentToServer

\* The server's packets are lost once the client has closed its end.
LEMMA ToClientIs ==
  ASSUME SessionTypes, NEW p \in ToClients, ToClient(<<p>>)
  PROVE  IF conn.connected
         THEN toClient' = Append(toClient, p) /\ Len(toClient) + 1 <= MaxFlight
         ELSE toClient' = toClient
<1>1. toClient \in Seq(ToClients) /\ Len(<<p>>) = 1
  BY DEF SessionTypes
<1>2. toClient \o <<p>> = Append(toClient, p)
  BY <1>1
<1> QED
  BY <1>1, <1>2 DEF ToClient

\* The invariant of a session holds before the first try.
LEMMA SessionStarts == SessionInit => SessionInv
<1> SUFFICES ASSUME SessionInit PROVE SessionInv
  OBVIOUS
<1>1. JoinTries \in Nat /\ MaxFlight \in Nat /\ MaxVisits \in Nat
  BY SessionAssumption
<1>2. SessionTypes
  BY <1>1 DEF SessionInit, SessionTypes, NewScreen
<1>3. toServer = <<>> /\ toClient = <<>> /\ 1..Len(<<>>) = {} /\ Len(<<>>) = 0
  BY DEF SessionInit
<1>4. FlightBounded
  <2>1. Unsent = 0 /\ Allowed = 0
    BY <1>1 DEF SessionInit, Unsent, Allowed
  <2> QED
    BY <1>1, <1>3, <2>1 DEF SessionInit, FlightBounded
<1>5. ThreadAndSession
  BY DEF SessionInit, ThreadAndSession, Leaving, Held
<1>6. /\ \A p : ~Has(toServer, p) /\ ~Has(toClient, p) /\ Once(toServer, p) /\ Once(toClient, p)
      /\ \A p, q : NoneAfter(toServer, q, p)
      /\ Led(toClient)
  BY <1>3 DEF Has, Once, NoneAfter, Led
<1>7. EndsAgree /\ NothingReopens /\ PositionsInSession /\ OllehFirst
  BY <1>6 DEF SessionInit, EndsAgree, NothingReopens, PositionsInSession, OllehFirst,
              Held, Leaving
<1>8. DiesOnlyLeaving /\ HandshakeKept /\ ScreenIsReady
  BY DEF SessionInit, DiesOnlyLeaving, HandshakeKept, ScreenIsReady
<1> QED
  BY <1>2, <1>4, <1>5, <1>7, <1>8 DEF SessionInv


\* The lobby screen's steps keep the types.
LEMMA ScreenTypes == ASSUME SessionInv, Screen PROVE SessionTypes'
<1> USE DEF SessionTypes, endsVars, screenVars, sessHistory
<1>1. SessionTypes /\ JoinTries \in Nat /\ MaxVisits \in Nat
  BY SessionAssumption DEF SessionInv
<1>2. \A p \in ToServers : SentToServer(p) \in Seq(ToServers)
  <2>1. ASSUME NEW p \in ToServers PROVE SentToServer(p) \in Seq(ToServers)
    BY <1>1, Appended DEF SentToServer
  <2> QED
    BY <2>1
<1>3. CASE EnterLobby
  BY <1>1, <1>3 DEF EnterLobby, NewScreen
<1>4. CASE PlayerLeaves \/ Destroy
  <2>1. "leave" \in ToServers
    BY DEF ToServers
  <2>2. /\ menu' \in {"leaving", "joinTries"} /\ left' \in {left, "now"}
        /\ toServer' \in {toServer, SentToServer("leave")}
    BY <1>4 DEF PlayerLeaves, Destroy, _disconnect, KeepsSession
  <2>3. toServer' \in Seq(ToServers)
    BY <1>1, <1>2, <2>1, <2>2
  <2>4. UNCHANGED <<conn, srv, toClient, posThread, screen, tries, visits, crossed, accused, died>>
    BY <1>4 DEF PlayerLeaves, Destroy
  <2> QED
    BY <1>1, <2>2, <2>3, <2>4
<1>5. CASE ScreenCloses
  BY <1>1, <1>5 DEF ScreenCloses
<1>6. CASE LeaveClears
  BY <1>1, <1>6 DEF LeaveClears
<1>7. CASE LeaveJoins \/ BackToList
  BY <1>1, <1>7 DEF LeaveJoins, BackToList
<1> QED
  BY <1>3, <1>4, <1>5, <1>6, <1>7 DEF Screen

\* So do those of the two threads that send.
LEMMA SenderTypes == ASSUME SessionInv, Trying \/ Position PROVE SessionTypes'
<1> USE DEF SessionTypes, endsVars, screenVars, sessHistory
<1>1. SessionTypes /\ JoinTries \in Nat /\ (tries.pc = "send" => tries.left > 0)
  BY SessionAssumption DEF SessionInv, FlightBounded
<1>2. \A p \in ToServers : SentToServer(p) \in Seq(ToServers)
  <2>1. ASSUME NEW p \in ToServers PROVE SentToServer(p) \in Seq(ToServers)
    BY <1>1, Appended DEF SentToServer
  <2> QED
    BY <2>1
<1>3. "hello" \in ToServers /\ "position" \in ToServers
  BY DEF ToServers
<1>4. CASE TryCheck
  BY <1>1, <1>4 DEF TryCheck
<1>5. CASE TrySend
  <2>1. toServer' \in Seq(ToServers)
    BY <1>1, <1>2, <1>3, <1>5 DEF TrySend
  <2>2. tries' \in [pc : {"check", "send", "over"}, left : 0..JoinTries]
    BY <1>1, <1>5 DEF TrySend
  <2>3. crossed' \subseteq {"hello", "position"}
    BY <1>1, <1>5 DEF TrySend
  <2> QED
    BY <1>1, <1>5, <2>1, <2>2, <2>3 DEF TrySend
<1>6. CASE TimesOut
  <2>1. screen' \in [wasConnected : BOOLEAN, disconnected : BOOLEAN, ready : BOOLEAN]
    BY <1>1, <1>6 DEF TimesOut
  <2>2. tries' \in [pc : {"check", "send", "over"}, left : 0..JoinTries]
    BY <1>1, <1>6 DEF TimesOut
  <2> QED
    BY <1>1, <1>6, <2>1, <2>2 DEF TimesOut
<1>7. CASE PosTest \/ PosSleep
  BY <1>1, <1>7 DEF PosTest, PosSleep, PosGoes
<1>8. CASE PosBuild
  BY <1>1, <1>8 DEF PosBuild, PosGoes
<1>9. CASE PosSend
  BY <1>1, <1>2, <1>3, <1>9 DEF PosSend, PosGoes
<1> QED
  BY <1>4, <1>5, <1>6, <1>7, <1>8, <1>9 DEF Trying, Position

\* So do those of the client's net thread.
LEMMA NetTypes == ASSUME SessionInv, Net PROVE SessionTypes'
<1> USE DEF SessionTypes, Receives
<1>1. SessionTypes
  BY DEF SessionInv
<1>2. toClient # <<>> /\ toClient' = Tail(toClient)
  BY DEF Net, ReceiveOlleh, ReceiveOther, ReceiveKicked, ReceiveEnd
<1>3. toClient' \in Seq(ToClients)
  BY <1>1, <1>2, FirstTaken
<1>4. CASE ReceiveOlleh
  BY <1>1, <1>3, <1>4, ZenonT(40) DEF ReceiveOlleh
<1>5. CASE ReceiveOther
  <2>1. /\ conn' \in {conn, [conn EXCEPT !.connected = FALSE]}
        /\ screen' \in {screen, [screen EXCEPT !.wasConnected = TRUE]}
        /\ accused' \in {accused, accused \cup {"server"}}
    BY <1>5 DEF ReceiveOther
  <2>2. /\ conn' \in [connected : BOOLEAN, init : BOOLEAN, me : BOOLEAN]
        /\ screen' \in [wasConnected : BOOLEAN, disconnected : BOOLEAN, ready : BOOLEAN]
        /\ accused' \subseteq {"server", "client"}
    BY <1>1, <2>1
  <2> QED
    BY <1>1, <1>3, <1>5, <2>2 DEF ReceiveOther
<1>6. CASE ReceiveKicked
  <2>1. conn' \in [connected : BOOLEAN, init : BOOLEAN, me : BOOLEAN]
    BY <1>1, <1>6 DEF ReceiveKicked
  <2>2. UNCHANGED <<srv, toServer, posThread, menu, screen, tries, visits, left, crossed,
                    accused, died>>
    BY <1>6 DEF ReceiveKicked, screenVars, sessHistory
  <2> QED
    BY <1>1, <1>3, <2>1, <2>2
<1>7. CASE ReceiveEnd
  <2>1. /\ conn' = [conn EXCEPT !.init = FALSE, !.connected = FALSE]
        /\ screen' \in {screen, [screen EXCEPT !.wasConnected = TRUE, !.disconnected = TRUE]}
    BY <1>7 DEF ReceiveEnd
  <2>2. /\ conn' \in [connected : BOOLEAN, init : BOOLEAN, me : BOOLEAN]
        /\ screen' \in [wasConnected : BOOLEAN, disconnected : BOOLEAN, ready : BOOLEAN]
    BY <1>1, <2>1
  <2>3. UNCHANGED <<srv, toServer, posThread, menu, tries, visits, left, crossed, accused, died>>
    BY <1>7 DEF ReceiveEnd, sessHistory
  <2> QED
    BY <1>1, <1>3, <2>2, <2>3
<1> QED
  BY <1>4, <1>5, <1>6, <1>7 DEF Net

\* What the server's steps do to the two queues.
LEMMA ServerSteps ==
  ASSUME SessionTypes, Server
  PROVE  /\ srv.open
         /\ \/ toServer' = toServer
            \/ toServer # <<>> /\ toServer' = Tail(toServer)
         /\ \/ toClient' = toClient
            \/ conn.connected /\ \E p \in ToClients :
                  toClient' = Append(toClient, p) /\ Len(toClient) + 1 <= MaxFlight
         /\ srv' \in [open : BOOLEAN, init : BOOLEAN]
         /\ accused' \in {accused, accused \cup {"client"}}
         /\ UNCHANGED <<conn, posThread, menu, screen, tries, visits, left, crossed, late,
                        toldTimeout, died>>
<1> DEFINE Sends == \E p \in ToClients : ToClient(<<p>>)
<1>1. {"olleh", "kicked", "other", "end"} \subseteq ToClients
  BY DEF ToClients
<1>2. /\ srv.open
      /\ toServer' = toServer \/ (toServer # <<>> /\ toServer' = Tail(toServer))
      /\ toClient' = toClient \/ Sends
  <2>1. CASE HandleHello \/ HandleLeave \/ HandlePosition
    BY <1>1, <2>1 DEF HandleHello, HandleLeave, HandlePosition, Handles
  <2>2. CASE Broadcast \/ ServerEnds \/ ServerHangsUp
    BY <1>1, <2>2 DEF Broadcast, ServerEnds, ServerHangsUp
  <2> QED
    BY <2>1, <2>2 DEF Server
<1>3. Sends => \/ toClient' = toClient
               \/ conn.connected /\ \E p \in ToClients :
                     toClient' = Append(toClient, p) /\ Len(toClient) + 1 <= MaxFlight
  BY ToClientIs
<1>4. /\ srv' \in {srv, [srv EXCEPT !.init = TRUE], [srv EXCEPT !.init = FALSE],
                  [srv EXCEPT !.open = FALSE], [open |-> FALSE, init |-> FALSE]}
      /\ accused' \in {accused, accused \cup {"client"}}
  <2>1. CASE HandleHello \/ HandleLeave
    BY <2>1 DEF HandleHello, HandleLeave
  <2>2. CASE HandlePosition
    BY <2>2 DEF HandlePosition
  <2>3. CASE Broadcast \/ ServerEnds \/ ServerHangsUp
    BY <2>3 DEF Broadcast, ServerEnds, ServerHangsUp
  <2> QED
    BY <2>1, <2>2, <2>3 DEF Server
<1>5. UNCHANGED <<conn, posThread, menu, screen, tries, visits, left, crossed, late,
                  toldTimeout, died>>
  BY DEF Server, HandleHello, HandleLeave, HandlePosition, Broadcast, ServerEnds, ServerHangsUp,
         Unkicked, screenVars
<1>6. srv' \in [open : BOOLEAN, init : BOOLEAN]
  <2>1. srv \in [open : BOOLEAN, init : BOOLEAN]
    BY DEF SessionTypes
  <2>2. /\ [srv EXCEPT !.init = TRUE] \in [open : BOOLEAN, init : BOOLEAN]
        /\ [srv EXCEPT !.init = FALSE] \in [open : BOOLEAN, init : BOOLEAN]
    BY <2>1
  <2>3. [srv EXCEPT !.open = FALSE] \in [open : BOOLEAN, init : BOOLEAN]
    BY <2>1
  <2>4. [open |-> FALSE, init |-> FALSE] \in [open : BOOLEAN, init : BOOLEAN]
    OBVIOUS
  <2> QED
    BY <1>4, <2>1, <2>2, <2>3, <2>4
<1> QED
  BY <1>2, <1>3, <1>4, <1>5, <1>6

\* The server's side of the types is kept by the steps of the server.
LEMMA ServerTypes == ASSUME SessionInv, Server PROVE SessionTypes'
<1>1. SessionTypes
  BY DEF SessionInv
<1>2. toServer' \in Seq(ToServers)
  <2>1. toServer' = toServer \/ (toServer # <<>> /\ toServer' = Tail(toServer))
    BY <1>1, ServerSteps
  <2>2. toServer \in Seq(ToServers)
    BY <1>1 DEF SessionTypes
  <2> QED
    BY <2>1, <2>2, FirstTaken
<1>3. toClient' \in Seq(ToClients)
  <2>1. toClient' = toClient \/ \E p \in ToClients : toClient' = Append(toClient, p)
    BY <1>1, ServerSteps
  <2>2. toClient \in Seq(ToClients)
    BY <1>1 DEF SessionTypes
  <2> QED
    BY <2>1, <2>2, Appended
<1> QED
  BY <1>1, <1>2, <1>3, ServerSteps DEF SessionTypes

\* The server keeps to its limit; the client to its own, with one Hello for each try and one
\* Leave for each visit besides.
LEMMA FlightKept == ASSUME SessionInv, SessionNext, SessionTypes' PROVE FlightBounded'
<1>1. /\ JoinTries \in Nat /\ MaxFlight \in Nat /\ MaxFlight > 0 /\ MaxVisits \in Nat
      /\ visits \in Nat /\ tries.left \in 0..JoinTries
      /\ Len(toServer) \in Nat /\ Len(toClient) \in Nat
      /\ toServer \in Seq(ToServers) /\ toClient \in Seq(ToClients)
      /\ tries.pc \in {"check", "send", "over"}
      /\ tries \in [pc : {"check", "send", "over"}, left : 0..JoinTries]
  BY SessionAssumption DEF SessionInv, SessionTypes
<1>2. /\ Len(toClient) <= MaxFlight
      /\ Allowed \in Nat /\ Len(toServer) <= MaxFlight + Allowed
      /\ tries.pc = "send" => tries.left > 0
  BY DEF SessionInv, FlightBounded
<1>3. CASE Screen
  <2>1. UNCHANGED toClient /\ (tries' = tries \/ tries' = [pc |-> "check", left |-> JoinTries])
    BY <1>3 DEF Screen, EnterLobby, PlayerLeaves, ScreenCloses, Destroy, LeaveClears, LeaveJoins,
                BackToList, endsVars
  <2>2. Len(toServer') <= MaxFlight + Allowed' /\ Allowed' \in Nat
    <3>1. CASE EnterLobby
      <4>1. /\ menu = "list" /\ menu' = "screen" /\ visits' = visits + 1
            /\ tries'.left = JoinTries /\ toServer' = toServer
        BY <3>1 DEF EnterLobby, endsVars
      <4>2. (visits + 1) * (JoinTries + 1) = visits * (JoinTries + 1) + JoinTries + 1
        BY <1>1
      <4>3. visits * (JoinTries + 1) \in Nat
        BY <1>1
      <4>4. Allowed' = Allowed + tries.left
        BY <1>1, <4>1, <4>2, <4>3 DEF Allowed, Unsent
      <4> QED
        BY <1>1, <1>2, <4>1, <4>4
    <3>2. CASE PlayerLeaves \/ Destroy
      <4>1. /\ menu \in {"screen", "closing"} /\ menu' \in {"leaving", "joinTries"}
            /\ tries' = tries /\ visits' = visits
            /\ toServer' = toServer \/ toServer' = SentToServer("leave")
        BY <3>2 DEF PlayerLeaves, Destroy, _disconnect, KeepsSession
      <4>2. Len(toServer') <= Len(toServer) + 1
        <5>1. Len(Append(toServer, "leave")) = Len(toServer) + 1
          BY <1>1
        <5> QED
          BY <1>1, <4>1, <5>1 DEF SentToServer
      <4>3. visits * (JoinTries + 1) \in Nat
        BY <1>1
      <4>4. Allowed' = Allowed + 1
        BY <1>1, <4>1, <4>3 DEF Allowed, Unsent
      <4>5. Len(toServer') \in Nat
        BY DEF SessionTypes
      <4> QED
        BY <1>1, <1>2, <4>2, <4>4, <4>5
    <3>3. CASE ScreenCloses \/ LeaveClears \/ LeaveJoins \/ BackToList
      <4>1. Allowed' = Allowed /\ toServer' = toServer
        BY <3>3 DEF ScreenCloses, LeaveClears, LeaveJoins, BackToList, Allowed, Unsent, endsVars
      <4> QED
        BY <1>2, <4>1
    <3> QED
      BY <1>3, <3>1, <3>2, <3>3 DEF Screen
  <2> QED
    BY <1>1, <1>2, <2>1, <2>2 DEF FlightBounded
<1>4. CASE TrySend
  <2>1. /\ tries.left > 0 /\ tries'.left = tries.left - 1 /\ tries'.pc = "check"
        /\ menu' = menu /\ visits' = visits /\ toClient' = toClient
        /\ toServer' = toServer \/ toServer' = SentToServer("hello")
    BY <1>2, <1>4 DEF TrySend
  <2>2. Len(toServer') <= Len(toServer) + 1 /\ Len(toServer') \in Nat
    <3>1. Len(Append(toServer, "hello")) = Len(toServer) + 1
      BY <1>1
    <3> QED
      BY <1>1, <2>1, <3>1 DEF SentToServer
  <2>3. visits * (JoinTries + 1) \in Nat
    BY <1>1
  <2>4. Allowed' = Allowed + 1
    BY <1>1, <2>1, <2>3 DEF Allowed, Unsent
  <2> QED
    BY <1>1, <1>2, <2>1, <2>2, <2>4 DEF FlightBounded
<1>5. CASE TryCheck \/ TimesOut
  <2>1. /\ tries'.left = tries.left /\ (tries'.pc = "send" => tries.left > 0)
        /\ UNCHANGED <<menu, visits, toServer, toClient>>
    BY <1>1, <1>5 DEF TryCheck, TimesOut, endsVars
  <2>2. Allowed' = Allowed
    BY <2>1 DEF Allowed, Unsent
  <2> QED
    BY <1>2, <2>1, <2>2 DEF FlightBounded
<1>6. CASE Position
  <2>1. UNCHANGED <<menu, visits, tries, toClient>>
    BY <1>6 DEF Position, PosTest, PosBuild, PosSend, PosSleep, screenVars, endsVars
  <2>2. Allowed' = Allowed
    BY <2>1 DEF Allowed, Unsent
  <2>3. Len(toServer') <= MaxFlight + Allowed
    <3>1. CASE PosSend
      <4>1. toServer' = SentToServer("position") /\ (Joined => Len(toServer) < MaxFlight)
        BY <3>1 DEF PosSend
      <4>2. Len(Append(toServer, "position")) = Len(toServer) + 1
        BY <1>1
      <4> QED
        BY <1>1, <1>2, <4>1, <4>2 DEF SentToServer
    <3>2. CASE ~PosSend
      <4>1. toServer' = toServer
        BY <1>6, <3>2 DEF Position, PosTest, PosBuild, PosSleep, endsVars
      <4> QED
        BY <1>2, <4>1
    <3> QED
      BY <3>1, <3>2
  <2> QED
    BY <1>2, <2>1, <2>2, <2>3 DEF FlightBounded
<1>7. CASE Net
  <2>1. UNCHANGED <<menu, visits, tries, toServer>> /\ toClient # <<>> /\ toClient' = Tail(toClient)
    BY <1>7 DEF Net, ReceiveOlleh, ReceiveOther, ReceiveKicked, ReceiveEnd, Receives, screenVars
  <2>2. Allowed' = Allowed
    BY <2>1 DEF Allowed, Unsent
  <2>3. Len(toClient') <= Len(toClient) /\ Len(toClient') \in Nat
    BY <1>1, <2>1, FirstTaken
  <2> QED
    BY <1>1, <1>2, <2>1, <2>2, <2>3 DEF FlightBounded
<1>8. CASE Server
  <2>1. SessionTypes
    BY DEF SessionInv
  <2>2. UNCHANGED <<menu, visits, tries>>
    BY <1>8, <2>1, ServerSteps
  <2>3. Allowed' = Allowed
    BY <2>2 DEF Allowed, Unsent
  <2>4. Len(toServer') <= Len(toServer) /\ Len(toServer') \in Nat
    BY <1>1, <1>8, <2>1, ServerSteps, FirstTaken
  <2>5. Len(toClient') <= MaxFlight
    BY <1>1, <1>2, <1>8, <2>1, ServerSteps, Appended
  <2> QED
    BY <1>1, <1>2, <2>2, <2>3, <2>4, <2>5 DEF FlightBounded
<1> QED
  BY <1>3, <1>4, <1>5, <1>6, <1>7, <1>8 DEF SessionNext, Trying


\* A session and its position thread come and go together.
LEMMA ThreadKept == ASSUME SessionInv, SessionNext PROVE ThreadAndSession'
<1> USE DEF ThreadAndSession, Leaving, Held
<1>1. /\ conn \in [connected : BOOLEAN, init : BOOLEAN, me : BOOLEAN]
      /\ srv \in [open : BOOLEAN, init : BOOLEAN]
      /\ screen \in [wasConnected : BOOLEAN, disconnected : BOOLEAN, ready : BOOLEAN]
  BY DEF SessionInv, SessionTypes
<1>2. ThreadAndSession /\ died = "no"
  BY DEF SessionInv, SessionNext
<1>3. CASE EnterLobby
  BY <1>1, <1>2, <1>3 DEF EnterLobby, endsVars, NewScreen
<1>4. CASE PlayerLeaves \/ Destroy
  <2>1. /\ menu \in {"screen", "closing"}
        /\ \/ menu' = "leaving" /\ left' = "now" /\ conn.init
           \/ menu' = "joinTries" /\ left' = left /\ (~conn.init \/ ~conn.connected)
    BY <1>2, <1>4 DEF PlayerLeaves, Destroy, _disconnect, KeepsSession
  <2>2. UNCHANGED <<conn, srv, posThread, screen, late, died>>
    BY <1>4 DEF PlayerLeaves, Destroy
  <2> QED
    BY <1>1, <1>2, <2>1, <2>2
<1>5. CASE ScreenCloses
  BY <1>1, <1>2, <1>5 DEF ScreenCloses, endsVars, sessHistory
<1>6. CASE LeaveClears
  BY <1>1, <1>2, <1>6 DEF LeaveClears, sessHistory
<1>7. CASE LeaveJoins
  BY <1>1, <1>2, <1>7 DEF LeaveJoins, endsVars, sessHistory
<1>8. CASE BackToList
  BY <1>1, <1>2, <1>8 DEF BackToList, endsVars, sessHistory
<1>9. CASE Trying
  <2>1. UNCHANGED <<conn, srv, posThread, menu, left, late, died>>
    BY <1>9 DEF Trying, TryCheck, TrySend, TimesOut, endsVars, sessHistory
  <2>2. screen'.disconnected = screen.disconnected
    BY <1>1, <1>9 DEF Trying, TryCheck, TrySend, TimesOut
  <2> QED
    BY <1>2, <2>1, <2>2
<1>10. CASE Position
  <2>1. UNCHANGED <<conn, srv, menu, screen, left, late>>
    BY <1>10 DEF Position, PosTest, PosBuild, PosSend, PosSleep, endsVars, screenVars, sessHistory
  <2>2. posThread # "none" /\ posThread' # "none"
    BY <1>10 DEF Position, PosTest, PosBuild, PosSend, PosSleep, PosGoes
  <2>3. died' = died \/ ~conn.me
    BY <1>10 DEF Position, PosTest, PosBuild, PosSend, PosSleep, screenVars, sessHistory
  <2> QED
    BY <1>2, <2>1, <2>2, <2>3
<1>11. CASE ReceiveOlleh
  <2>1. /\ conn'.init /\ conn'.me /\ conn'.connected = conn.connected /\ conn.connected
        /\ posThread' = "test"
        /\ died' = IF posThread # "none" THEN "terminate" ELSE died
        /\ screen'.disconnected = screen.disconnected
        /\ (menu \notin {"screen", "closing"} => late')
        /\ UNCHANGED <<srv, menu, left>>
    BY <1>1, <1>11 DEF ReceiveOlleh, Receives
  <2>2. Has(toClient, "olleh")
    <3>1. toClient \in Seq(ToClients) /\ toClient # <<>> /\ Head(toClient) = "olleh"
      BY <1>11 DEF SessionInv, SessionTypes, ReceiveOlleh, Receives
    <3> QED
      BY <3>1, FirstTaken
  <2>3. posThread # "none" => Leaving
    BY <1>2, <2>1, <2>2 DEF SessionInv, EndsAgree
  <2> QED
    BY <1>2, <2>1, <2>3
<1>12. CASE ReceiveOther
  <2>1. /\ conn'.init = conn.init /\ conn'.me = conn.me
        /\ conn'.connected => conn.connected
        /\ screen'.disconnected = screen.disconnected
        /\ UNCHANGED <<srv, posThread, menu, left, late, died>>
    BY <1>1, <1>12 DEF ReceiveOther, Receives
  <2> QED
    BY <1>2, <2>1
<1>13. CASE ReceiveKicked \/ ReceiveEnd
  <2>1. /\ ~conn'.init /\ conn'.me = conn.me /\ ~conn'.connected
        /\ UNCHANGED <<srv, posThread, menu, left, late, died>>
    BY <1>1, <1>13 DEF ReceiveKicked, ReceiveEnd, screenVars, sessHistory
  <2> QED
    BY <1>2, <2>1
<1>14. CASE Server
  <2>1. UNCHANGED <<conn, posThread, menu, screen, left, late, died>>
    BY <1>14, ServerSteps DEF SessionInv
  <2>2. srv'.init => srv'.open
    <3>1. CASE HandleHello
      BY <1>1, <1>2, <3>1 DEF HandleHello, Handles
    <3>2. CASE HandleLeave \/ HandlePosition
      BY <1>1, <1>2, <3>2 DEF HandleLeave, HandlePosition, Handles
    <3>3. CASE Broadcast \/ ServerEnds \/ ServerHangsUp
      BY <1>1, <1>2, <3>3 DEF Broadcast, ServerEnds, ServerHangsUp
    <3> QED
      BY <1>14, <3>1, <3>2, <3>3 DEF Server
  <2> QED
    BY <1>2, <2>1, <2>2
<1> QED
  BY <1>3, <1>4, <1>5, <1>6, <1>7, <1>8, <1>9, <1>10, <1>11, <1>12, <1>13, <1>14
     DEF SessionNext, Screen, Net


\* What a packet at the end of a queue, or gone from its head, says about the others.
LEMMA QueueFacts ==
  ASSUME SessionTypes
  PROVE  /\ \A p : \A x \in ToServers :
              Has(Append(toServer, x), p) <=> Has(toServer, p) \/ x = p
         /\ \A p : \A x \in ToClients :
              Has(Append(toClient, x), p) <=> Has(toClient, p) \/ x = p
         /\ toServer # <<>> => \A p : Has(toServer, p) <=> Has(Tail(toServer), p) \/ Head(toServer) = p
         /\ toClient # <<>> => \A p : Has(toClient, p) <=> Has(Tail(toClient), p) \/ Head(toClient) = p
<1>1. toServer \in Seq(ToServers) /\ toClient \in Seq(ToClients)
  BY DEF SessionTypes
<1> QED
  BY <1>1, Appended, FirstTaken

\* What the server takes and sends, handler by handler.
LEMMA HandlersAre ==
  ASSUME SessionTypes, Server, conn.connected
  PROVE  \/ /\ toServer # <<>> /\ Head(toServer) = "hello" /\ toServer' = Tail(toServer)
            /\ accused' = accused
            /\ \/ srv.init /\ srv' = srv /\ toClient' = toClient
               \/ /\ ~srv.init /\ srv'.open /\ srv'.init
                  /\ toClient' = Append(toClient, "olleh")
               \/ ~srv'.open /\ ~srv'.init /\ toClient' = Append(toClient, "kicked")
         \/ /\ toServer # <<>> /\ Head(toServer) = "leave" /\ toServer' = Tail(toServer)
            /\ srv.init /\ ~srv'.init /\ srv'.open /\ toClient' = toClient /\ accused' = accused
         \/ /\ toServer # <<>> /\ Head(toServer) = "position" /\ toServer' = Tail(toServer)
            /\ \/ srv.init /\ srv' = srv /\ toClient' = toClient /\ accused' = accused
               \/ /\ ~srv.init /\ ~srv'.open /\ ~srv'.init
                  /\ toClient' = Append(toClient, "kicked")
                  /\ accused' = accused \cup {"client"}
         \/ /\ toServer' = toServer /\ accused' = accused
            /\ \/ srv.init /\ srv' = srv /\ toClient' = Append(toClient, "other")
               \/ /\ ~srv'.open /\ ~srv'.init
                  /\ \E p \in {"kicked", "end"} : toClient' = Append(toClient, p)
<1>1. srv \in [open : BOOLEAN, init : BOOLEAN]
  BY DEF SessionTypes
<1>2. \A p \in ToClients : ToClient(<<p>>) => toClient' = Append(toClient, p)
  BY ToClientIs
<1>3. {"olleh", "kicked", "other", "end"} \subseteq ToClients
  BY DEF ToClients
<1>4. srv.open
  BY ServerSteps
<1>5. CASE HandleHello
  BY <1>1, <1>2, <1>3, <1>4, <1>5 DEF HandleHello, Handles
<1>6. CASE HandleLeave
  BY <1>1, <1>4, <1>6 DEF HandleLeave, Handles
<1>7. CASE HandlePosition
  BY <1>1, <1>2, <1>3, <1>7 DEF HandlePosition, Handles
<1>8. CASE Broadcast
  BY <1>2, <1>3, <1>8 DEF Broadcast
<1>9. CASE ServerEnds
  BY <1>2, <1>3, <1>9 DEF ServerEnds
<1>10. CASE ServerHangsUp
  BY <1>10 DEF ServerHangsUp
<1> QED
  BY <1>5, <1>6, <1>7, <1>8, <1>9, <1>10 DEF Server

\* The two ends agree on the session, whoever moves.
LEMMA EndsKept == ASSUME SessionInv, SessionNext PROVE EndsAgree'
<1> USE DEF EndsAgree, Leaving, Held
<1>1. /\ conn \in [connected : BOOLEAN, init : BOOLEAN, me : BOOLEAN]
      /\ srv \in [open : BOOLEAN, init : BOOLEAN]
      /\ toServer \in Seq(ToServers) /\ toClient \in Seq(ToClients)
  BY DEF SessionInv, SessionTypes
<1>2. EndsAgree /\ ThreadAndSession /\ died = "no"
  BY DEF SessionInv, SessionNext
<1>3. /\ \A p : \A x \in ToServers :
           Has(Append(toServer, x), p) <=> Has(toServer, p) \/ x = p
      /\ \A p : \A x \in ToClients :
           Has(Append(toClient, x), p) <=> Has(toClient, p) \/ x = p
      /\ toServer # <<>> => \A p : Has(toServer, p) <=> Has(Tail(toServer), p) \/ Head(toServer) = p
      /\ toClient # <<>> => \A p : Has(toClient, p) <=> Has(Tail(toClient), p) \/ Head(toClient) = p
  BY QueueFacts DEF SessionInv
<1>4. /\ \A p : \A x \in ToServers :
           Once(toServer, p) /\ (x = p => ~Has(toServer, p)) => Once(Append(toServer, x), p)
      /\ \A p : \A x \in ToClients :
           Once(toClient, p) /\ (x = p => ~Has(toClient, p)) => Once(Append(toClient, x), p)
      /\ toServer # <<>> => \A p : Once(toServer, p) =>
           Once(Tail(toServer), p) /\ (Head(toServer) = p => ~Has(Tail(toServer), p))
      /\ toClient # <<>> => \A p : Once(toClient, p) =>
           Once(Tail(toClient), p) /\ (Head(toClient) = p => ~Has(Tail(toClient), p))
  BY <1>1, Appended, FirstTaken
<1>5. {"hello", "leave", "position"} \subseteq ToServers
      /\ {"olleh", "kicked", "other", "end"} \subseteq ToClients
  BY DEF ToServers, ToClients
<1>6. CASE EnterLobby \/ ScreenCloses \/ BackToList
  BY <1>2, <1>6 DEF EnterLobby, ScreenCloses, BackToList, endsVars, sessHistory
<1>7. CASE PlayerLeaves \/ Destroy
  <2>1. /\ menu \in {"screen", "closing"}
        /\ \/ menu' = "leaving" /\ conn.init /\ toServer' = SentToServer("leave")
           \/ menu' = "joinTries" /\ toServer' = toServer
        /\ UNCHANGED <<conn, srv, posThread, toClient, died>>
    BY <1>7 DEF PlayerLeaves, Destroy, _disconnect, KeepsSession
  <2>2. CASE menu' = "joinTries" /\ toServer' = toServer
    BY <1>2, <2>1, <2>2
  <2>3. CASE menu' = "leaving" /\ conn.init /\ toServer' = SentToServer("leave") /\ conn.connected
    <3>1. posThread # "none" /\ Held
      BY <1>2, <2>1, <2>3 DEF ThreadAndSession
    <3>2. /\ srv.open => toServer' = Append(toServer, "leave")
          /\ ~srv.open => toServer' = toServer
      BY <1>1, <2>3 DEF SentToServer, Joined
    <3>3. ASSUME srv.open PROVE Has(toServer', "leave") /\ Once(toServer', "leave")
      <4>1. Once(toServer, "leave") /\ ~Has(toServer, "leave")
        BY <1>2, <2>3, <3>1, <3>3
      <4>2. Has(Append(toServer, "leave"), "leave") /\ Once(Append(toServer, "leave"), "leave")
        BY <1>3, <1>4, <1>5, <4>1
      <4> QED
        BY <3>2, <3>3, <4>2
    <3>4. Once(toServer', "leave")
      BY <1>2, <2>3, <3>2, <3>3
    <3> QED
      BY <1>2, <2>1, <2>3, <3>1, <3>3, <3>4
  <2> QED
    BY <1>1, <2>1, <2>2, <2>3
<1>8. CASE LeaveClears
  BY <1>1, <1>2, <1>8 DEF LeaveClears, sessHistory
<1>9. CASE LeaveJoins
  BY <1>2, <1>9 DEF LeaveJoins, endsVars, sessHistory
<1>10. CASE Trying \/ Position
  <2>1. UNCHANGED <<conn, srv, toClient, menu>> /\ (posThread # "none" <=> posThread' # "none")
    BY <1>10 DEF Trying, TryCheck, TrySend, TimesOut, Position, PosTest, PosBuild, PosSend, PosSleep,
                 PosGoes, endsVars, screenVars, sessHistory
  <2>2. \/ toServer' = toServer
        \/ toServer' = Append(toServer, "hello")
        \/ toServer' = Append(toServer, "position")
    BY <1>10 DEF Trying, TryCheck, TrySend, TimesOut, Position, PosTest, PosBuild, PosSend, PosSleep,
                 endsVars, SentToServer
  <2>3. /\ Has(toServer', "leave") <=> Has(toServer, "leave")
        /\ Once(toServer, "leave") => Once(toServer', "leave")
    <3>1. ASSUME NEW x \in {"hello", "position"}
          PROVE  /\ Has(Append(toServer, x), "leave") <=> Has(toServer, "leave")
                 /\ Once(toServer, "leave") => Once(Append(toServer, x), "leave")
      BY <1>3, <1>4, <1>5
    <3> QED
      BY <2>2, <3>1
  <2> QED
    BY <1>2, <2>1, <2>3
<1>11. CASE ReceiveOlleh
  <2>1. /\ conn'.connected = conn.connected /\ conn.connected
        /\ toClient # <<>> /\ Head(toClient) = "olleh" /\ toClient' = Tail(toClient)
        /\ posThread' = "test" /\ (posThread # "none" => died' = "terminate")
        /\ UNCHANGED <<srv, menu, toServer>>
    BY <1>1, <1>11 DEF ReceiveOlleh, Receives
  <2>2. Has(toClient, "olleh") /\ ~Has(toClient', "olleh") /\ Once(toClient', "olleh")
    BY <1>2, <1>3, <1>4, <2>1
  <2> QED
    BY <1>2, <2>1, <2>2 DEF ThreadAndSession
<1>12. CASE ReceiveOther
  <2>1. /\ conn'.connected => conn.connected
        /\ toClient # <<>> /\ Head(toClient) = "other" /\ toClient' = Tail(toClient)
        /\ UNCHANGED <<srv, posThread, menu, toServer, died>>
    BY <1>1, <1>12 DEF ReceiveOther, Receives
  <2>2. /\ Has(toClient', "olleh") <=> Has(toClient, "olleh")
        /\ Once(toClient, "olleh") => Once(toClient', "olleh")
    BY <1>3, <1>4, <2>1
  <2> QED
    BY <1>2, <2>1, <2>2
<1>13. CASE ReceiveKicked \/ ReceiveEnd
  BY <1>1, <1>13 DEF ReceiveKicked, ReceiveEnd
<1>14. CASE Server
  <2>1. UNCHANGED <<conn, posThread, menu, died>> /\ srv.open
    BY <1>14, ServerSteps DEF SessionInv
  <2>2. CASE ~conn.connected
    BY <2>1, <2>2
  <2>3. CASE conn.connected
    <3>1. /\ \/ Has(toServer', "leave") <=> Has(toServer, "leave")
             \/ ~Has(toServer', "leave")
          /\ Once(toServer', "leave")
      <4>1. \/ toServer' = toServer
            \/ toServer # <<>> /\ toServer' = Tail(toServer)
               /\ Head(toServer) \in {"hello", "leave", "position"}
        BY <1>14, <2>3, HandlersAre DEF SessionInv
      <4>2. toServer # <<>> =>
              /\ Once(toServer, "leave") =>
                   Once(Tail(toServer), "leave")
                   /\ (Head(toServer) = "leave" => ~Has(Tail(toServer), "leave"))
              /\ Has(toServer, "leave") <=> Has(Tail(toServer), "leave") \/ Head(toServer) = "leave"
        BY <1>3, <1>4
      <4> QED
        BY <1>2, <2>3, <4>1, <4>2
    <3>2. \/ srv.init /\ srv' = srv
             /\ (Has(toServer', "leave") <=> Has(toServer, "leave"))
             /\ (Has(toClient', "olleh") <=> Has(toClient, "olleh"))
             /\ Once(toClient', "olleh")
          \/ ~srv.init /\ srv'.open /\ srv'.init
             /\ (Has(toServer', "leave") <=> Has(toServer, "leave"))
             /\ Has(toClient', "olleh") /\ Once(toClient', "olleh")
          \/ srv.init /\ srv'.open /\ ~srv'.init /\ Has(toServer, "leave") /\ ~Has(toServer', "leave")
             /\ toClient' = toClient
          \/ ~srv'.open
             /\ (Has(toClient', "olleh") <=> Has(toClient, "olleh"))
             /\ Once(toClient', "olleh")
      <4>1. ASSUME NEW x \in {"kicked", "other", "end"}
            PROVE  /\ Has(Append(toClient, x), "olleh") <=> Has(toClient, "olleh")
                   /\ Once(toClient, "olleh") => Once(Append(toClient, x), "olleh")
        BY <1>3, <1>4, <1>5
      <4>2. /\ Has(Append(toClient, "olleh"), "olleh")
            /\ Once(toClient, "olleh") /\ ~Has(toClient, "olleh")
                 => Once(Append(toClient, "olleh"), "olleh")
        BY <1>3, <1>4, <1>5
      <4>3. toServer # <<>> =>
              /\ Head(toServer) \in {"hello", "position"} =>
                   (Has(Tail(toServer), "leave") <=> Has(toServer, "leave"))
              /\ Head(toServer) = "leave" => Has(toServer, "leave")
              /\ Once(toServer, "leave") /\ Head(toServer) = "leave" => ~Has(Tail(toServer), "leave")
        BY <1>3, <1>4
      <4>4. Once(toServer, "leave") /\ Once(toClient, "olleh")
            /\ (~srv.init => ~Has(toClient, "olleh"))
        BY <1>2, <2>1, <2>3
      <4> QED
        BY <1>14, <2>3, <4>1, <4>2, <4>3, <4>4, HandlersAre DEF SessionInv
    <3> QED
      BY <1>2, <2>1, <2>3, <3>1, <3>2
  <2> QED
    BY <1>1, <2>2, <2>3
<1> QED
  BY <1>6, <1>7, <1>8, <1>9, <1>10, <1>11, <1>12, <1>13, <1>14 DEF SessionNext, Screen, Net


\* The server's side of the same, whether the client's end is still open or not.
LEMMA HandlersTake ==
  ASSUME SessionTypes, Server
  PROVE  \/ /\ toServer # <<>> /\ Head(toServer) = "hello" /\ toServer' = Tail(toServer)
            /\ accused' = accused /\ (srv'.init \/ ~srv'.open)
         \/ /\ toServer # <<>> /\ Head(toServer) = "leave" /\ toServer' = Tail(toServer)
            /\ accused' = accused
         \/ /\ toServer # <<>> /\ Head(toServer) = "position" /\ toServer' = Tail(toServer)
            /\ \/ srv.init /\ srv' = srv /\ accused' = accused
               \/ ~srv.init /\ ~srv'.open /\ accused' = accused \cup {"client"}
         \/ toServer' = toServer /\ accused' = accused /\ (srv' = srv \/ ~srv'.open)
<1>1. srv \in [open : BOOLEAN, init : BOOLEAN]
  BY DEF SessionTypes
<1>2. CASE HandleHello
  BY <1>1, <1>2 DEF HandleHello, Handles
<1>3. CASE HandleLeave
  BY <1>3 DEF HandleLeave, Handles
<1>4. CASE HandlePosition
  BY <1>1, <1>4 DEF HandlePosition, Handles
<1>5. CASE Broadcast \/ ServerEnds \/ ServerHangsUp
  BY <1>5 DEF Broadcast, ServerEnds, ServerHangsUp
<1> QED
  BY <1>2, <1>3, <1>4, <1>5 DEF Server

\* No Hello that follows the Leave is answered while the client is leaving.
LEMMA ReopeningKept == ASSUME SessionInv, SessionNext PROVE NothingReopens'
<1> USE DEF NothingReopens, Leaving, Held
<1>1. /\ conn \in [connected : BOOLEAN, init : BOOLEAN, me : BOOLEAN]
      /\ srv \in [open : BOOLEAN, init : BOOLEAN]
      /\ toServer \in Seq(ToServers) /\ toClient \in Seq(ToClients)
  BY DEF SessionInv, SessionTypes
<1>2. NothingReopens /\ EndsAgree /\ ThreadAndSession /\ died = "no"
  BY DEF SessionInv, SessionNext
<1>3. /\ \A x \in {"leave", "position"} :
           /\ Has(Append(toServer, x), "hello") <=> Has(toServer, "hello")
           /\ NoneAfter(toServer, "leave", "hello") => NoneAfter(Append(toServer, x), "leave", "hello")
      /\ \A x \in {"kicked", "other", "end"} :
           Has(Append(toClient, x), "olleh") <=> Has(toClient, "olleh")
  <2>1. {"leave", "position"} \subseteq ToServers /\ {"kicked", "other", "end"} \subseteq ToClients
    BY DEF ToServers, ToClients
  <2> QED
    BY <1>1, <2>1, Appended
<1>4. toServer # <<>> =>
        /\ Has(toServer, "hello") <=> Has(Tail(toServer), "hello") \/ Head(toServer) = "hello"
        /\ NoneAfter(toServer, "leave", "hello") =>
             /\ NoneAfter(Tail(toServer), "leave", "hello")
             /\ Head(toServer) = "leave" => ~Has(Tail(toServer), "hello")
  BY <1>1, FirstTaken
<1>5. toClient # <<>> =>
        (Has(toClient, "olleh") <=> Has(Tail(toClient), "olleh") \/ Head(toClient) = "olleh")
  BY <1>1, FirstTaken
<1>6. CASE EnterLobby \/ ScreenCloses \/ BackToList \/ LeaveJoins
  BY <1>6 DEF EnterLobby, ScreenCloses, BackToList, LeaveJoins
<1>7. CASE PlayerLeaves \/ Destroy
  <2>1. /\ menu \in {"screen", "closing"}
        /\ \/ menu' = "leaving" /\ conn.init /\ toServer' = SentToServer("leave")
           \/ menu' = "joinTries"
        /\ UNCHANGED <<conn, srv, posThread, toClient, died>>
    BY <1>7 DEF PlayerLeaves, Destroy, _disconnect, KeepsSession
  <2>2. CASE menu' = "joinTries" \/ ~conn.connected
    BY <2>1, <2>2
  <2>3. CASE menu' = "leaving" /\ conn.init /\ toServer' = SentToServer("leave") /\ conn.connected
    <3>1. Held
      BY <1>2, <2>1, <2>3 DEF ThreadAndSession
    <3>2. ~Has(toClient, "olleh") /\ (srv.open => srv.init /\ ~Has(toServer, "leave"))
      BY <1>2, <2>3, <3>1 DEF EndsAgree
    <3>3. ~Has(toServer, "leave") => NoneAfter(toServer, "leave", "hello")
      BY DEF Has, NoneAfter
    <3>4. srv.open => toServer' = Append(toServer, "leave")
      BY <2>3 DEF SentToServer, Joined
    <3> QED
      BY <1>3, <2>1, <3>2, <3>3, <3>4
  <2> QED
    BY <1>1, <2>1, <2>2, <2>3
<1>8. CASE LeaveClears
  BY <1>1, <1>2, <1>8 DEF LeaveClears, sessHistory
<1>9. CASE TrySend
  <2>1. /\ UNCHANGED <<conn, srv, toClient, menu>>
        /\ \/ toServer' = toServer /\ crossed' = crossed
           \/ left = "now" => "hello" \in crossed'
    BY <1>9 DEF TrySend
  <2> QED
    BY <1>2, <2>1 DEF ThreadAndSession
<1>10. CASE TryCheck \/ TimesOut \/ PosTest \/ PosBuild \/ PosSleep
  <2>1. UNCHANGED <<conn, srv, toClient, toServer, menu, crossed>>
    BY <1>10 DEF TryCheck, TimesOut, PosTest, PosBuild, PosSleep, endsVars, screenVars, sessHistory
  <2> QED
    BY <1>2, <2>1
<1>11. CASE PosSend
  <2>1. /\ UNCHANGED <<conn, srv, toClient, menu>> /\ ("hello" \in crossed => "hello" \in crossed')
        /\ toServer' = toServer \/ toServer' = Append(toServer, "position")
    BY <1>11 DEF PosSend, screenVars, SentToServer
  <2> QED
    BY <1>2, <1>3, <2>1
<1>12. CASE ReceiveOlleh
  <2>1. /\ UNCHANGED menu /\ (posThread # "none" => died' = "terminate")
    BY <1>12 DEF ReceiveOlleh
  <2> QED
    BY <1>2, <2>1 DEF ThreadAndSession
<1>13. CASE ReceiveOther
  <2>1. /\ conn'.connected => conn.connected
        /\ toClient # <<>> /\ toClient' = Tail(toClient)
        /\ UNCHANGED <<srv, menu, toServer, died, crossed>>
    BY <1>1, <1>13 DEF ReceiveOther, Receives
  <2> QED
    BY <1>2, <1>5, <2>1
<1>14. CASE ReceiveKicked \/ ReceiveEnd
  BY <1>1, <1>14 DEF ReceiveKicked, ReceiveEnd
<1>15. CASE Server
  <2>1. UNCHANGED <<conn, menu, died, crossed>> /\ srv.open
    BY <1>15, ServerSteps DEF SessionInv
  <2>2. CASE ~conn.connected \/ ~Leaving \/ "hello" \in crossed
    BY <2>1, <2>2
  <2>3. CASE conn.connected /\ Leaving /\ "hello" \notin crossed
    <3>1. /\ ~Has(toClient, "olleh") /\ NoneAfter(toServer, "leave", "hello")
          /\ ~srv.init => ~Has(toServer, "hello")
      BY <1>2, <2>1, <2>3
    <3> QED
      BY <1>3, <1>4, <1>15, <2>1, <2>3, <3>1, HandlersAre DEF SessionInv
  <2> QED
    BY <1>1, <2>2, <2>3
<1> QED
  BY <1>6, <1>7, <1>8, <1>9, <1>10, <1>11, <1>12, <1>13, <1>14, <1>15
     DEF SessionNext, Screen, Trying, Position, Net

\* A position is sent into a session that the Leave has not ended, but for those that cross it.
LEMMA PositionsKept == ASSUME SessionInv, SessionNext PROVE PositionsInSession'
<1> USE DEF PositionsInSession
<1>1. /\ conn \in [connected : BOOLEAN, init : BOOLEAN, me : BOOLEAN]
      /\ srv \in [open : BOOLEAN, init : BOOLEAN]
      /\ toServer \in Seq(ToServers) /\ toClient \in Seq(ToClients)
  BY DEF SessionInv, SessionTypes
<1>2. PositionsInSession /\ EndsAgree /\ ThreadAndSession /\ died = "no"
  BY DEF SessionInv, SessionNext
<1>3. /\ \A x \in {"leave", "hello"} :
           /\ Has(Append(toServer, x), "position") <=> Has(toServer, "position")
           /\ NoneAfter(toServer, "leave", "position") =>
                NoneAfter(Append(toServer, x), "leave", "position")
      /\ ~Has(toServer, "leave") => NoneAfter(Append(toServer, "position"), "leave", "position")
  <2>1. {"leave", "position", "hello"} \subseteq ToServers
    BY DEF ToServers
  <2>2. ~Has(toServer, "leave") => NoneAfter(toServer, "leave", "position")
    BY DEF Has, NoneAfter
  <2> QED
    BY <1>1, <2>1, <2>2, Appended
<1>4. toServer # <<>> =>
        /\ Has(toServer, "position") <=> Has(Tail(toServer), "position") \/ Head(toServer) = "position"
        /\ NoneAfter(toServer, "leave", "position") =>
             /\ NoneAfter(Tail(toServer), "leave", "position")
             /\ Head(toServer) = "leave" => ~Has(Tail(toServer), "position")
  BY <1>1, FirstTaken
<1>5. CASE PlayerLeaves \/ Destroy
  <2>1. /\ toServer' = toServer \/ toServer' = Append(toServer, "leave")
        /\ UNCHANGED <<srv, crossed>>
    BY <1>5 DEF PlayerLeaves, Destroy, _disconnect, KeepsSession, SentToServer
  <2> QED
    BY <1>2, <1>3, <2>1
<1>6. CASE TrySend
  <2>1. /\ toServer' = toServer \/ toServer' = Append(toServer, "hello")
        /\ UNCHANGED srv /\ ("position" \in crossed => "position" \in crossed')
    BY <1>6 DEF TrySend, SentToServer
  <2> QED
    BY <1>2, <1>3, <2>1
<1>7. CASE PosSend
  <2>1. /\ posThread = "built" /\ UNCHANGED srv /\ ("position" \in crossed => "position" \in crossed')
        /\ left = "now" => "position" \in crossed'
        /\ \/ toServer' = toServer
           \/ conn.connected /\ srv.open /\ toServer' = Append(toServer, "position")
    BY <1>7 DEF PosSend, PosGoes, SentToServer, Joined
  <2>2. CASE toServer' = toServer
    BY <1>2, <2>1, <2>2
  <2>3. CASE /\ conn.connected /\ srv.open /\ left # "now"
             /\ toServer' = Append(toServer, "position")
    <3>1. Held
      BY <1>2, <2>1, <2>3 DEF ThreadAndSession, Held
    <3>2. srv.init /\ ~Has(toServer, "leave")
      BY <1>2, <2>3, <3>1 DEF EndsAgree
    <3> QED
      BY <1>3, <2>1, <2>3, <3>2
  <2> QED
    BY <2>1, <2>2, <2>3
<1>8. CASE Server
  <2>1. UNCHANGED crossed /\ srv.open
    BY <1>8, ServerSteps DEF SessionInv
  <2> QED
    BY <1>2, <1>4, <1>8, <2>1, HandlersTake DEF SessionInv
<1>9. CASE \/ EnterLobby \/ ScreenCloses \/ LeaveClears \/ LeaveJoins \/ BackToList
           \/ TryCheck \/ TimesOut \/ PosTest \/ PosBuild \/ PosSleep \/ Net
  <2>1. UNCHANGED <<srv, toServer, crossed>>
    BY <1>9 DEF EnterLobby, ScreenCloses, LeaveClears, LeaveJoins, BackToList, TryCheck, TimesOut,
                PosTest, PosBuild, PosSleep, Net, ReceiveOlleh, ReceiveOther, ReceiveKicked,
                ReceiveEnd, endsVars, screenVars, sessHistory
  <2> QED
    BY <1>2, <2>1
<1> QED
  BY <1>5, <1>6, <1>7, <1>8, <1>9 DEF SessionNext, Screen, Trying, Position

\* The server answers a Hello before it sends anything else.
LEMMA OllehKept == ASSUME SessionInv, SessionNext PROVE OllehFirst'
<1> USE DEF OllehFirst
<1>1. /\ conn \in [connected : BOOLEAN, init : BOOLEAN, me : BOOLEAN]
      /\ srv \in [open : BOOLEAN, init : BOOLEAN]
      /\ toServer \in Seq(ToServers) /\ toClient \in Seq(ToClients)
  BY DEF SessionInv, SessionTypes
<1>2. OllehFirst /\ ThreadAndSession
  BY DEF SessionInv
<1>3. CASE EnterLobby \/ ScreenCloses \/ LeaveJoins \/ BackToList \/ Trying \/ Position
  <2>1. UNCHANGED <<conn, srv, toClient>> /\ (left' = "no" => left = "no")
    BY <1>3 DEF EnterLobby, ScreenCloses, LeaveJoins, BackToList, Trying, TryCheck, TrySend, TimesOut,
                Position, PosTest, PosBuild, PosSend, PosSleep, endsVars, screenVars, sessHistory
  <2> QED
    BY <1>2, <2>1
<1>4. CASE PlayerLeaves \/ Destroy
  <2>1. UNCHANGED <<conn, srv, toClient>> /\ (left' = "now" \/ left' = left)
    BY <1>4 DEF PlayerLeaves, Destroy, _disconnect, KeepsSession
  <2> QED
    BY <1>2, <2>1
<1>5. CASE LeaveClears
  BY <1>2, <1>5 DEF LeaveClears, sessHistory, ThreadAndSession, Leaving
<1>6. CASE Net
  <2>1. conn'.init \/ ~conn'.connected
    BY <1>1, <1>6 DEF Net, ReceiveOlleh, ReceiveOther, ReceiveKicked, ReceiveEnd
  <2> QED
    BY <2>1
<1>7. CASE Server
  <2>1. UNCHANGED <<conn, left>>
    BY <1>7, ServerSteps DEF SessionInv
  <2>2. CASE ~conn.connected \/ conn.init \/ left # "no"
    BY <2>1, <2>2
  <2>3. CASE conn.connected /\ ~conn.init /\ left = "no"
    <3>1. Led(toClient) /\ (srv.init => Has(toClient, "olleh"))
      BY <1>2, <2>3
    <3>2. /\ \A x \in {"olleh", "kicked", "end"} : Led(Append(toClient, x))
          /\ srv.init => Led(Append(toClient, "other")) /\ Has(Append(toClient, "other"), "olleh")
          /\ Has(Append(toClient, "olleh"), "olleh")
      <4>1. {"olleh", "kicked", "other", "end"} \subseteq ToClients
        BY DEF ToClients
      <4> QED
        BY <1>1, <3>1, <4>1, Appended
    <3> QED
      BY <1>7, <2>1, <2>3, <3>1, <3>2, HandlersAre DEF SessionInv
  <2> QED
    BY <1>1, <2>2, <2>3
<1> QED
  BY <1>3, <1>4, <1>5, <1>6, <1>7 DEF SessionNext, Screen


\* What the invariants say of a death, of a complaint and of a screen that is shown.
LEMMA PromisesKept ==
  ASSUME SessionInv, SessionNext PROVE DiesOnlyLeaving' /\ HandshakeKept' /\ ScreenIsReady'
<1> USE DEF DiesOnlyLeaving, HandshakeKept, ScreenIsReady
<1>1. /\ conn \in [connected : BOOLEAN, init : BOOLEAN, me : BOOLEAN]
      /\ screen \in [wasConnected : BOOLEAN, disconnected : BOOLEAN, ready : BOOLEAN]
      /\ toServer \in Seq(ToServers) /\ toClient \in Seq(ToClients)
  BY DEF SessionInv, SessionTypes
<1>2. HandshakeKept /\ ScreenIsReady /\ ThreadAndSession /\ died = "no"
  BY DEF SessionInv, SessionNext
<1>3. CASE EnterLobby
  <2>1. /\ menu = "list" /\ conn.connected
        /\ UNCHANGED <<conn, late, accused, crossed, died>> /\ (left' = "no" => left = "no")
    BY <1>3 DEF EnterLobby, endsVars
  <2>2. conn.init => late
    BY <1>2, <2>1 DEF ThreadAndSession
  <2> QED
    BY <1>2, <2>1, <2>2
<1>4. CASE PlayerLeaves \/ Destroy
  <2>1. /\ menu' # "screen" /\ UNCHANGED <<accused, crossed, died>> /\ (left' = "no" => left = "no")
    BY <1>4 DEF PlayerLeaves, Destroy, _disconnect, KeepsSession
  <2> QED
    BY <1>2, <2>1
<1>5. CASE ScreenCloses \/ LeaveClears \/ LeaveJoins \/ BackToList
  <2>1. menu' # "screen" /\ UNCHANGED <<accused, crossed, died, left>>
    BY <1>5 DEF ScreenCloses, LeaveClears, LeaveJoins, BackToList, sessHistory
  <2> QED
    BY <1>2, <2>1
<1>6. CASE Trying
  <2>1. /\ UNCHANGED <<conn, menu, left, late, accused, died>> /\ crossed \subseteq crossed'
        /\ screen'.ready = screen.ready
    BY <1>1, <1>6 DEF Trying, TryCheck, TrySend, TimesOut, endsVars, sessHistory
  <2> QED
    BY <1>2, <2>1
<1>7. CASE Position
  <2>1. UNCHANGED <<conn, menu, screen, left, late, accused>> /\ crossed \subseteq crossed'
    BY <1>7 DEF Position, PosTest, PosBuild, PosSend, PosSleep, endsVars, screenVars, sessHistory
  <2>2. died' = died \/ (posThread = "inside" /\ ~conn.me /\ died' = "null")
    BY <1>7 DEF Position, PosTest, PosBuild, PosSend, PosSleep, PosGoes, screenVars, sessHistory
  <2>3. posThread = "inside" /\ ~conn.me => left = "now"
    BY <1>2 DEF ThreadAndSession, Leaving
  <2> QED
    BY <1>2, <2>1, <2>2, <2>3
<1>8. CASE ReceiveOlleh
  <2>1. /\ conn.connected /\ toClient # <<>> /\ Head(toClient) = "olleh"
        /\ UNCHANGED <<menu, left, crossed, accused>>
        /\ died' = "no" \/ (died' = "terminate" /\ posThread # "none")
        /\ menu = "screen" => screen'.ready
    BY <1>1, <1>2, <1>8 DEF ReceiveOlleh, Receives
  <2>2. Has(toClient, "olleh")
    BY <1>1, <2>1, FirstTaken
  <2>3. posThread # "none" => Leaving
    BY <1>2, <2>1, <2>2 DEF SessionInv, EndsAgree, Held
  <2>4. posThread # "none" => "hello" \in crossed
    BY <1>2, <2>1, <2>2, <2>3 DEF SessionInv, NothingReopens
  <2> QED
    BY <1>2, <2>1, <2>4
<1>9. CASE ReceiveOther
  <2>1. /\ conn.connected /\ toClient # <<>> /\ Head(toClient) = "other"
        /\ UNCHANGED <<menu, left, crossed, late, died>>
        /\ accused' = accused \/ (accused' = accused \cup {"server"} /\ ~conn.init)
        /\ screen'.ready = screen.ready /\ conn'.init = conn.init
    BY <1>1, <1>9 DEF ReceiveOther, Receives
  <2>2. Led(toClient) => Head(toClient) # "other"
    BY <1>1, <2>1, FirstTaken
  <2>3. ~conn.init => left # "no"
    BY <2>1, <2>2 DEF SessionInv, OllehFirst
  <2> QED
    BY <1>2, <2>1, <2>3
<1>10. CASE ReceiveKicked \/ ReceiveEnd
  <2>1. ~conn'.init /\ UNCHANGED <<left, crossed, accused, died>>
    BY <1>1, <1>10 DEF ReceiveKicked, ReceiveEnd, sessHistory
  <2> QED
    BY <1>2, <2>1
<1>11. CASE Server
  <2>1. UNCHANGED <<conn, menu, screen, left, crossed, late, died>> /\ srv.open
    BY <1>11, ServerSteps DEF SessionInv
  <2>2. \/ accused' = accused
        \/ /\ toServer # <<>> /\ Head(toServer) = "position" /\ ~srv.init
           /\ accused' = accused \cup {"client"}
    BY <1>11, HandlersTake DEF SessionInv
  <2>3. toServer # <<>> /\ Head(toServer) = "position" => Has(toServer, "position")
    BY <1>1, FirstTaken
  <2>4. toServer # <<>> /\ Head(toServer) = "position" /\ ~srv.init => "position" \in crossed
    BY <2>1, <2>3 DEF SessionInv, PositionsInSession
  <2> QED
    BY <1>2, <2>1, <2>2, <2>4
<1> QED
  BY <1>3, <1>4, <1>5, <1>6, <1>7, <1>8, <1>9, <1>10, <1>11 DEF SessionNext, Screen, Net

\* Every step of the session keeps its invariant.
LEMMA SessionStep == ASSUME SessionInv, [SessionNext]_sessionVars PROVE SessionInv'
<1>1. ASSUME SessionNext PROVE SessionInv'
  <2>1. SessionTypes'
    BY <1>1, ScreenTypes, SenderTypes, NetTypes, ServerTypes DEF SessionNext
  <2>2. FlightBounded'
    BY <1>1, <2>1, FlightKept
  <2> QED
    BY <1>1, <2>1, <2>2, ThreadKept, EndsKept, ReopeningKept, PositionsKept, OllehKept,
       PromisesKept DEF SessionInv
<1>2. ASSUME UNCHANGED sessionVars PROVE SessionInv'
  <2>1. UNCHANGED <<conn, srv, toServer, toClient, posThread, menu, screen, tries, visits, left,
                    crossed, late, accused, toldTimeout, died>>
    BY <1>2 DEF sessionVars, endsVars, screenVars, sessHistory
  <2> QED
    BY <1>2, <2>1 DEF SessionInv, SessionTypes, FlightBounded, ThreadAndSession, EndsAgree,
       NothingReopens, PositionsInSession, OllehFirst, DiesOnlyLeaving, HandshakeKept,
       ScreenIsReady, Allowed, Unsent, Leaving, Held, Has, Once, NoneAfter, Led
<1> QED
  BY <1>1, <1>2

\* The invariant of the session holds for any number of tries, visits and packets in flight.
THEOREM SessionInvariant == SessionSpec => []SessionInv
<1>1. SessionInv /\ [SessionNext]_sessionVars => SessionInv'
  BY SessionStep
<1> QED
  BY <1>1, SessionStarts, PTL DEF SessionSpec

\* The invariant has the types that TLC checks, with the bound on what is in flight: the
\* position thread's limit, and one packet for every try and one Leave for every visit.
LEMMA SessionTypesShown == SessionInv => SessionTypeOK
<1> SUFFICES ASSUME SessionInv PROVE SessionTypeOK
  OBVIOUS
<1>1. SessionTypes /\ FlightBounded
  BY DEF SessionInv
<1>2. /\ JoinTries \in Nat /\ MaxVisits \in Nat /\ MaxFlight \in Nat
      /\ visits \in 0..MaxVisits /\ tries.left \in Nat /\ Len(toServer) \in Nat
  BY <1>1, SessionAssumption DEF SessionTypes
<1>3. visits * (JoinTries + 1) <= MaxVisits * (JoinTries + 1)
  BY <1>2
<1>4. Allowed <= visits * (JoinTries + 1)
  BY <1>2 DEF Allowed, Unsent
<1>5. Len(toServer) <= MaxFlight + MaxVisits * (JoinTries + 1)
  <2>1. /\ visits * (JoinTries + 1) \in Nat /\ MaxVisits * (JoinTries + 1) \in Nat
        /\ Allowed \in Nat /\ Len(toServer) <= MaxFlight + Allowed
    BY <1>1, <1>2 DEF FlightBounded
  <2> QED
    BY <1>2, <1>3, <1>4, <2>1
<1> QED
  BY <1>1, <1>5 DEF SessionTypes, FlightBounded, SessionTypeOK

\* The types of the session hold for any number of tries, visits and packets in flight.
THEOREM SessionTypeCorrect == SessionSpec => []SessionTypeOK
BY SessionInvariant, SessionTypesShown, PTL

\* The program only dies while the player leaves: of the position thread that disconnect()
\* overtook, or of a Hello sent after the Leave.
THEOREM DiesOnlyLeavingAlways == SessionSpec => []DiesOnlyLeaving
<1>1. SessionInv => DiesOnlyLeaving
  BY DEF SessionInv
<1> QED
  BY <1>1, SessionInvariant, PTL

\* Neither end finds a fault in the other's handshake, but for packets that cross the Leave.
THEOREM HandshakeKeptAlways == SessionSpec => []HandshakeKept
<1>1. SessionInv => HandshakeKept
  BY DEF SessionInv
<1> QED
  BY <1>1, SessionInvariant, PTL

\* A lobby screen on an open session has been told of it, and a player back in the list is out
\* of the lobby once everything in flight has arrived, unless Olleh came too late.
THEOREM ScreenMatchesSessionAlways == SessionSpec => []ScreenMatchesSession
<1>1. SessionInv => ScreenMatchesSession
  <2> SUFFICES ASSUME SessionInv PROVE ScreenMatchesSession
    OBVIOUS
  <2>1. ASSUME menu = "list", srv.init, conn.connected, toServer = <<>>, toClient = <<>>
        PROVE  late
    <3>0. died = "no"
      BY <2>1 DEF SessionInv, ThreadAndSession, Leaving
    <3>1. ~Has(toServer, "leave") /\ ~Has(toClient, "olleh")
      BY <2>1 DEF Has
    <3>2. Held
      BY <2>1, <3>0, <3>1 DEF SessionInv, EndsAgree, ThreadAndSession
    <3> QED
      BY <2>1, <3>0, <3>2 DEF SessionInv, ThreadAndSession, Held
  <2> QED
    BY <2>1 DEF SessionInv, ScreenMatchesSession, NoGhosts
<1> QED
  BY <1>1, SessionInvariant, PTL

-----------------------------------------------------------------------------
(* The lobby list.                                                         *)

\* The texts an entry can show.
Shown == {"", "in queue", "connecting", "name", "error"}

EntryRecords ==
  [lobby : Listable, link : {"none", "up", "failing", "down"}, info : {"", "name"},
   lastName : {"", "name", "error"}, screen : BOOLEAN, text : Shown, first : BOOLEAN,
   overdrawn : BOOLEAN]

\* The callbacks that can be queued when n entries have been made: only the last name
\* drawn is remembered, and what a status says is not a name.
Callbacks(n) ==
  {f \in [kind : {"status", "name", "error"}, entry : 1..n, text : Shown] :
     f.kind # "status" => f.text \in {"", "name", "error"}}

\* The types, with what is queued: each callback is of an entry that has been made.
ListTypes ==
  /\ listed \subseteq Listable /\ dropped \subseteq Listable
  /\ entry \in Seq(EntryRecords) /\ Len(entry) <= MaxEntries /\ entries \subseteq Made
  /\ current \in Made \cup {None} /\ (connecting # "next" => current \in Made)
  /\ queue \in Seq(Callbacks(Len(entry))) /\ Len(queue) <= MaxQueue
  /\ sweep \in 0..(RetryEvery - 1) /\ index \in Nat
  /\ connecting \in {"next", "open", "create", "opened", "info"}
  /\ mishaps \in 0..MaxMishaps /\ hung \in BOOLEAN

\* What is not listed has been dropped.
UnlistedAreDropped == Listable \ listed \subseteq dropped

\* An entry is erased only when the main server has dropped its lobby.
ErasedAreDropped == \A e \in Made : ~InList(e) => entry[e].lobby \in dropped

ListInv == ListTypes /\ UnlistedAreDropped /\ ErasedAreDropped

\* A set of numbers up to n has a largest one.
LEMMA MaxOfSome ==
  ASSUME NEW n \in Nat, NEW S \in SUBSET (1..n), S # {} PROVE Max(S) \in S
<1> DEFINE Bounds == {k \in Nat : \A j \in S : j <= k}
<1>1. n \in Bounds /\ Bounds \subseteq Nat
  OBVIOUS
<1>2. IsWellFoundedOn(OpToRel(<, Nat), Nat)
  BY NatLessThanWellFounded, Zenon
<1>3. PICK m \in Bounds : \A k \in Bounds : ~(<<k, m>> \in OpToRel(<, Nat))
  <2> HIDE DEF Bounds
  <2> QED
    BY <1>1, <1>2, WFMin, Zenon
<1>4. \A k \in Bounds : ~(k < m)
  BY <1>3 DEF OpToRel
<1>5. m \in S
  <2> SUFFICES ASSUME m \notin S PROVE FALSE
    OBVIOUS
  <2>1. PICK j \in S : TRUE
    OBVIOUS
  <2>2. j \in 1..n /\ j <= m /\ m \in Nat
    OBVIOUS
  <2>3. m - 1 \in Nat
    BY <2>2
  <2>4. \A i \in S : i <= m - 1
    OBVIOUS
  <2>5. m - 1 \in Bounds
    BY <2>3, <2>4
  <2> QED
    BY <1>4, <2>5, <2>3
<1>6. \A y \in S : m >= y
  OBVIOUS
<1> QED
  BY <1>5, <1>6 DEF Max

\* What is queued for some entries is queued for more.
LEMMA QueueOfMore ==
  ASSUME NEW m \in Nat, NEW n \in Nat, m <= n, NEW q \in Seq(Callbacks(m))
  PROVE  q \in Seq(Callbacks(n))
<1>1. ASSUME NEW f \in Callbacks(m) PROVE f \in Callbacks(n)
  <2>1. f \in [kind : {"status", "name", "error"}, entry : 1..m, text : Shown]
    BY DEF Callbacks
  <2>2. f.entry \in 1..n
    BY <2>1
  <2>3. f \in [kind : {"status", "name", "error"}, entry : 1..n, text : Shown]
    BY <2>1, <2>2
  <2> QED
    BY <2>3 DEF Callbacks
<1> QED
  BY <1>1

\* A callback is queued at the end.
LEMMA Pushed ==
  ASSUME ListTypes, NEW f \in Callbacks(Len(entry)), Push(f)
  PROVE  queue' \in Seq(Callbacks(Len(entry))) /\ Len(queue') <= MaxQueue
<1>1. queue \in Seq(Callbacks(Len(entry))) /\ Len(queue) < MaxQueue /\ MaxQueue \in Nat
  BY LobbyListAssumption DEF ListTypes, Push
<1>2. queue' = Append(queue, f)
  BY DEF Push
<1> HIDE DEF Callbacks
<1> QED
  BY <1>1, <1>2

\* The entries made are numbered from 1.
LEMMA MadeIs == ASSUME ListTypes PROVE Made = 1..Len(entry) /\ Len(entry) \in Nat
<1>1. entry \in Seq(EntryRecords)
  BY DEF ListTypes
<1> QED
  BY <1>1 DEF Made

\* What is queued about an entry is a callback.
LEMMA CallbackOf ==
  ASSUME ListTypes, NEW x \in Made, NEW text \in Shown,
         NEW kind \in {"status", "name", "error"},
         kind # "status" => text \in {"", "name", "error"}
  PROVE  Callback(kind, x, text) \in Callbacks(Len(entry))
<1> DEFINE f == Callback(kind, x, text)
<1>1. x \in 1..Len(entry)
  BY MadeIs
<1>2. f \in [kind : {"status", "name", "error"}, entry : 1..Len(entry), text : Shown]
  BY <1>1 DEF Callback
<1>3. f.kind = kind /\ f.text = text
  BY DEF Callback
<1> HIDE DEF f
<1>4. f \in Callbacks(Len(entry))
  BY <1>2, <1>3 DEF Callbacks
<1> QED
  BY <1>4 DEF f

\* The list is empty when the menu opens.
LEMMA ListStarts == ListInit => ListInv
<1> SUFFICES ASSUME ListInit PROVE ListInv
  OBVIOUS
<1>1. Made = {} /\ Len(entry) = 0
  BY DEF ListInit, Made
<1>2. ListTypes
  <2>1. listed \subseteq Listable /\ dropped \subseteq Listable /\ entries \subseteq Made
    BY DEF ListInit
  <2>2. entry \in Seq(EntryRecords) /\ queue \in Seq(Callbacks(Len(entry)))
    BY DEF ListInit
  <2>3. Len(entry) <= MaxEntries /\ Len(queue) <= MaxQueue
    BY LobbyListAssumption DEF ListInit
  <2>4. /\ current \in Made \cup {None} /\ (connecting # "next" => current \in Made)
        /\ connecting \in {"next", "open", "create", "opened", "info"} /\ hung \in BOOLEAN
    BY DEF ListInit
  <2>5. sweep \in 0..(RetryEvery - 1) /\ index \in Nat /\ mishaps \in 0..MaxMishaps
    BY LobbyListAssumption DEF ListInit
  <2> QED
    BY <2>1, <2>2, <2>3, <2>4, <2>5 DEF ListTypes
<1> QED
  BY <1>1, <1>2 DEF ListInit, ListInv, UnlistedAreDropped, ErasedAreDropped

\* An entry that is drawn or whose connection changes is still that of its lobby.
LEMMA EntryChanged ==
  ASSUME ListTypes, NEW e \in Made, NEW r \in EntryRecords,
         entry' = [entry EXCEPT ![e] = r]
  PROVE  /\ entry' \in Seq(EntryRecords) /\ Len(entry') = Len(entry) /\ Made' = Made
         /\ (r.lobby = entry[e].lobby => \A x \in Made : entry'[x].lobby = entry[x].lobby)
<1>1. entry \in Seq(EntryRecords) /\ e \in 1..Len(entry)
  BY DEF ListTypes, Made
<1> HIDE DEF EntryRecords
<1>2. entry' \in Seq(EntryRecords) /\ Len(entry') = Len(entry) /\ DOMAIN entry' = DOMAIN entry
  BY <1>1
<1>3. \A x \in Made : entry'[x] = IF x = e THEN r ELSE entry[x]
  BY <1>1 DEF Made
<1> QED
  BY <1>2, <1>3 DEF Made

\* Of an entry there is a record.
LEMMA RecordOf == ASSUME ListTypes, NEW e \in Made PROVE entry[e] \in EntryRecords
<1> HIDE DEF EntryRecords
<1> QED
  BY DEF ListTypes, Made

\* A step that keeps the entries, what is listed and the history keeps what was erased.
LEMMA ErasedStay ==
  ASSUME ErasedAreDropped, entries' = entries, Made' = Made, dropped \subseteq dropped',
         \A x \in Made : entry'[x].lobby = entry[x].lobby
  PROVE  ErasedAreDropped'
BY DEF ErasedAreDropped, InList

\* The entries erased are of lobbies that are not listed; the new ones are of listed ones.
LEMMA MasterKeeps == ASSUME ListInv, MasterReads PROVE ListInv'
<1> DEFINE n == Len(entry)
           stay == {e \in entries : Stays(e)}
           missing == {l \in listed : \A e \in stay : entry[e].lobby # l}
<1>1. PICK new \in SetToSeqs(missing) :
        /\ n + Len(new) <= MaxEntries /\ Len(queue) + Len(new) <= MaxQueue
        /\ entry' = entry \o [i \in DOMAIN new |-> NewEntry(new[i])]
        /\ entries' = stay \cup {n + i : i \in DOMAIN new}
        /\ queue' = queue \o [i \in DOMAIN new |-> Callback("status", n + i, "in queue")]
  BY DEF MasterReads
<1>2. /\ UNCHANGED <<listed, dropped, hung, mishaps, sweep, index, current, connecting>>
  BY DEF MasterReads, connectVars, listHistory
<1>3. /\ entry \in Seq(EntryRecords) /\ queue \in Seq(Callbacks(n)) /\ n \in Nat
      /\ listed \subseteq Listable /\ entries \subseteq 1..n /\ Made = 1..n
  BY DEF ListInv, ListTypes, Made
<1>4. PICK k \in Nat : new \in [1..k -> Listable]
  <2>1. IsFiniteSet(missing) /\ missing \subseteq Listable
    BY <1>3, LobbyListAssumption, FS_Subset
  <2>2. Cardinality(missing) \in Nat
    BY <2>1, FS_CardinalityType
  <2> QED
    BY <1>1, <2>1, <2>2 DEF SetToSeqs
<1> DEFINE made == [i \in 1..k |-> NewEntry(new[i])]
           calls == [i \in 1..k |-> Callback("status", n + i, "in queue")]
<1>5. Len(new) = k /\ DOMAIN new = 1..k
  BY <1>4
<1>6. made \in Seq(EntryRecords) /\ Len(made) = k
  <2>1. \A i \in 1..k : NewEntry(new[i]) \in EntryRecords
    BY <1>4 DEF NewEntry, EntryRecords, Shown
  <2> HIDE DEF EntryRecords
  <2> QED
    BY <2>1
<1>7. calls \in Seq(Callbacks(n + k)) /\ Len(calls) = k
  <2>1. \A i \in 1..k : n + i \in 1..(n + k)
    BY <1>3
  <2>2. \A i \in 1..k : Callback("status", n + i, "in queue") \in Callbacks(n + k)
    BY <2>1 DEF Callback, Callbacks, Shown
  <2>3. calls \in [1..k -> Callbacks(n + k)]
    BY <2>2
  <2> HIDE DEF calls
  <2> QED
    BY <2>3, <1>4
<1>8. queue \in Seq(Callbacks(n + k))
  BY <1>3, QueueOfMore
<1>9. entry' = entry \o made /\ queue' = queue \o calls
  BY <1>1, <1>5
<1> HIDE DEF made, calls
<1>10. entry' \in Seq(EntryRecords) /\ Len(entry') = n + k
  BY <1>3, <1>6, <1>9, ConcatProperties
<1>11. queue' \in Seq(Callbacks(n + k)) /\ Len(queue') = Len(queue) + k
  BY <1>7, <1>8, <1>9, ConcatProperties
<1>12. Made' = 1..(n + k)
  BY <1>10 DEF Made
<1>13. \A x \in 1..n : entry'[x] = entry[x]
  BY <1>3, <1>6, <1>9, ConcatProperties
<1>14. entries' = stay \cup {n + i : i \in 1..k}
  BY <1>1, <1>5
<1>15. entries' \subseteq Made'
  <2>1. \A i \in 1..k : n + i \in 1..(n + k)
    BY <1>3
  <2>2. stay \subseteq 1..n
    BY <1>3
  <2>3. 1..n \subseteq 1..(n + k)
    BY <1>3
  <2> QED
    BY <1>14, <1>12, <2>1, <2>2, <2>3
<1>16. ListTypes'
  <2>1. /\ Len(entry') <= MaxEntries /\ Len(queue') <= MaxQueue
    BY <1>1, <1>5, <1>10, <1>11
  <2>2. current' \in Made' \cup {None} /\ (connecting' # "next" => current' \in Made')
    BY <1>2, <1>3, <1>12 DEF ListInv, ListTypes
  <2>3. /\ listed' \subseteq Listable /\ dropped' \subseteq Listable
        /\ sweep' \in 0..(RetryEvery - 1) /\ index' \in Nat
        /\ connecting' \in {"next", "open", "create", "opened", "info"}
        /\ mishaps' \in 0..MaxMishaps /\ hung' \in BOOLEAN
    BY <1>2 DEF ListInv, ListTypes
  <2>4. queue' \in Seq(Callbacks(Len(entry')))
    BY <1>10, <1>11
  <2> QED
    BY <1>10, <1>15, <2>1, <2>2, <2>3, <2>4 DEF ListTypes
<1>17. UnlistedAreDropped'
  BY <1>2 DEF ListInv, UnlistedAreDropped
<1>18. ErasedAreDropped'
  <2> SUFFICES ASSUME NEW x \in 1..(n + k), x \notin entries' PROVE entry'[x].lobby \in dropped
    BY <1>2, <1>12 DEF ErasedAreDropped, InList
  <2>1. x \in 1..n
    <3> SUFFICES ASSUME x \notin 1..n PROVE FALSE
      OBVIOUS
    <3>1. x - n \in 1..k /\ x = n + (x - n)
      BY <1>3
    <3> QED
      BY <3>1, <1>14
  <2>2. CASE x \notin entries
    BY <2>1, <2>2, <1>3, <1>13 DEF ListInv, ErasedAreDropped, InList
  <2>3. CASE x \in entries
    <3>1. entry[x].lobby \notin listed
      BY <2>3, <1>14 DEF Stays
    <3>2. entry[x].lobby \in Listable
      <4>1. entry[x] \in EntryRecords
        BY <2>1, <1>3
      <4> QED
        BY <4>1 DEF EntryRecords
    <3> QED
      BY <3>1, <3>2, <2>1, <1>13 DEF ListInv, UnlistedAreDropped
  <2> QED
    BY <2>2, <2>3
<1> QED
  BY <1>16, <1>17, <1>18 DEF ListInv

\* The steps that change one entry, its lobby aside, and queue a callback about it at most.
LEMMA OneEntryChanges ==
  ASSUME ListInv, NEW e \in Made,
         \/ entry' = entry
         \/ \E r \in EntryRecords : r.lobby = entry[e].lobby /\ entry' = [entry EXCEPT ![e] = r],
         \/ queue' = queue
         \/ \E f \in Callbacks(Len(entry)) : Push(f),
         entries' = entries, listed' = listed, dropped' = dropped, hung' \in BOOLEAN,
         current' \in Made \cup {None}, connecting' # "next" => current' \in Made,
         connecting' \in {"next", "open", "create", "opened", "info"},
         sweep' \in 0..(RetryEvery - 1), index' \in Nat, mishaps' \in 0..MaxMishaps
  PROVE  ListInv'
<1>1. ListTypes
  BY DEF ListInv
<1>2. /\ entry' \in Seq(EntryRecords) /\ Len(entry') = Len(entry) /\ Made' = Made
      /\ \A x \in Made : entry'[x].lobby = entry[x].lobby
  <2>1. CASE entry' = entry
    BY <2>1, <1>1 DEF ListTypes, Made
  <2>2. ASSUME NEW r \in EntryRecords, r.lobby = entry[e].lobby, entry' = [entry EXCEPT ![e] = r]
        PROVE  <1>2!1 /\ <1>2!2
    BY <2>2, <1>1, EntryChanged
  <2> QED
    BY <2>1, <2>2
<1>3. queue' \in Seq(Callbacks(Len(entry))) /\ Len(queue') <= MaxQueue
  BY <1>1, Pushed DEF ListTypes
<1>4. ListTypes'
  BY <1>1, <1>2, <1>3 DEF ListTypes
<1>5. UnlistedAreDropped' /\ ErasedAreDropped'
  BY <1>2, ErasedStay DEF ListInv, UnlistedAreDropped
<1> QED
  BY <1>4, <1>5 DEF ListInv

\* The steps of the connect thread.
LEMMA ConnectKeeps == ASSUME ListInv, Connect PROVE ListInv'
<1>1. ListTypes
  BY DEF ListInv
<1>2. /\ UNCHANGED <<listed, entries, mishaps, dropped, hung>>
  BY DEF Connect, ConnectNext, ConnectAnnounces, ConnectOpens, ConnectRefreshes, listHistory
<1>3. RetryEvery \in Nat \ {0} /\ sweep \in 0..(RetryEvery - 1)
      /\ (sweep + 1) % RetryEvery \in 0..(RetryEvery - 1)
  BY <1>1, LobbyListAssumption DEF ListTypes
<1>4. ASSUME ConnectNext PROVE ListInv'
  <2>1. entry' = entry /\ queue' = queue
    BY <1>4 DEF ConnectNext
  <2>4. /\ connecting = "next" /\ index \in Nat /\ entries \subseteq Made
        /\ current \in Made \cup {None}
    BY <1>4, <1>1 DEF ConnectNext, ListTypes
  <2>2. /\ index' \in Nat /\ sweep' \in 0..(RetryEvery - 1)
        /\ current' \in Made \cup {None} /\ (connecting' # "next" => current' \in Made)
        /\ connecting' \in {"next", "open", "info"}
    <3>1. CASE ~(index < Cardinality(entries))
      BY <3>1, <1>4, <2>4, <1>3 DEF ConnectNext
    <3>2. CASE index < Cardinality(entries)
      <4>1. /\ index' = index + 1 /\ sweep' = sweep
            /\ \/ \E x \in entries : current' = x /\ connecting' \in {"info", "open"}
               \/ current' = current /\ connecting' = connecting
        BY <3>2, <1>4 DEF ConnectNext
      <4> QED
        BY <4>1, <2>4, <1>3
    <3> QED
      BY <3>1, <3>2
  <2>3. ListTypes'
    BY <1>1, <1>2, <2>1, <2>2 DEF ListTypes, Made
  <2> QED
    BY <2>1, <2>3, <1>2, ErasedStay DEF ListInv, UnlistedAreDropped, Made
<1> DEFINE e == current
<1>5. ASSUME connecting # "next" PROVE e \in Made /\ entry[e] \in EntryRecords
  BY <1>5, <1>1, RecordOf DEF ListTypes
<1>6. /\ sweep \in 0..(RetryEvery - 1) /\ index \in Nat /\ mishaps \in 0..MaxMishaps
      /\ hung \in BOOLEAN
  BY <1>1 DEF ListTypes
<1>8. ASSUME ConnectAnnounces PROVE ListInv'
  <2> DEFINE r == [entry[e] EXCEPT !.first = FALSE]
  <2>1. e \in Made /\ entry[e] \in EntryRecords
    BY <1>8, <1>5 DEF ConnectAnnounces
  <2>2. r \in EntryRecords /\ r.lobby = entry[e].lobby
    BY <2>1 DEF EntryRecords
  <2>3. entry' = [entry EXCEPT ![e] = r]
    BY <1>8 DEF ConnectAnnounces
  <2>4. Push(Callback("status", e, "connecting"))
    BY <1>8 DEF ConnectAnnounces
  <2>5. Callback("status", e, "connecting") \in Callbacks(Len(entry))
    BY <1>1, CallbackOf, <2>1 DEF Shown
  <2>6. connecting' = "create" /\ UNCHANGED <<sweep, index, current>>
    BY <1>8 DEF ConnectAnnounces
  <2> HIDE DEF r
  <2> QED
    BY <2>1, <2>2, <2>3, <2>4, <2>5, <2>6, <1>2, <1>6, OneEntryChanges
<1>9. ASSUME ConnectOpens PROVE ListInv'
  <2> DEFINE r == [entry[e] EXCEPT !.link = "up", !.info = "", !.screen = FALSE]
  <2>1. e \in Made /\ entry[e] \in EntryRecords
    BY <1>9, <1>5 DEF ConnectOpens
  <2>2. r \in EntryRecords /\ r.lobby = entry[e].lobby
    BY <2>1 DEF EntryRecords
  <2>3. entry' = [entry EXCEPT ![e] = r]
    BY <1>9, <2>1 DEF ConnectOpens, EntryRecords
  <2>4. connecting' = "opened" /\ UNCHANGED <<queue, sweep, index, current>>
    BY <1>9 DEF ConnectOpens
  <2> HIDE DEF r
  <2> QED
    BY <2>1, <2>2, <2>3, <2>4, <1>2, <1>6, OneEntryChanges
<1>10. ASSUME ConnectRefreshes PROVE ListInv'
  <2>1. e \in Made /\ entry[e] \in EntryRecords
    BY <1>10, <1>5 DEF ConnectRefreshes
  <2>2. entry' = entry
    BY <1>10 DEF ConnectRefreshes, QueuesName
  <2>3. queue' = queue \/ Push(Callback("name", e, entry[e].info))
    BY <1>10 DEF ConnectRefreshes, QueuesName
  <2>4. Callback("name", e, entry[e].info) \in Callbacks(Len(entry))
    <3>1. entry[e].info \in {"", "name"}
      BY <2>1 DEF EntryRecords
    <3> QED
      BY <3>1, <2>1, <1>1, CallbackOf DEF Shown
  <2>5. connecting' = "next" /\ current' = None /\ UNCHANGED <<sweep, index>>
    BY <1>10 DEF ConnectRefreshes
  <2> QED
    BY <2>1, <2>2, <2>3, <2>4, <2>5, <1>2, <1>6, OneEntryChanges
<1> QED
  BY <1>4, <1>8, <1>9, <1>10 DEF Connect

\* What happens to a connection, and the screens opened from the list.
LEMMA LinksKeep ==
  ASSUME ListInv, NEW e \in Made,
         \/ Link(e) \/ LinkRefused(e) \/ LinkLost(e) \/ ScreenOpens(e) \/ ScreenLeft(e)
  PROVE  ListInv'
<1>1. ListTypes /\ entry[e] \in EntryRecords
  BY RecordOf DEF ListInv
<1>2. /\ UNCHANGED <<listed, entries, sweep, index, current, connecting, dropped, hung>>
      /\ mishaps' = mishaps \/ (mishaps < MaxMishaps /\ mishaps' = mishaps + 1)
  BY DEF Link, Pong, LinkReports, LinkRefused, LinkLost, ScreenOpens, ScreenLeft, Mishap,
         connectVars, listHistory
<1>3. /\ sweep \in 0..(RetryEvery - 1) /\ index \in Nat /\ hung \in BOOLEAN
      /\ connecting \in {"next", "open", "create", "opened", "info"}
      /\ current \in Made \cup {None} /\ (connecting # "next" => current \in Made)
  BY <1>1 DEF ListTypes
<1>4. mishaps' \in 0..MaxMishaps
  <2>1. mishaps \in 0..MaxMishaps /\ MaxMishaps \in Nat
    BY <1>1, LobbyListAssumption DEF ListTypes
  <2> QED
    BY <1>2, <2>1
<1>5. queue' = queue \/ \E f \in Callbacks(Len(entry)) : Push(f)
  <2>1. queue' = queue \/ Push(Callback("error", e, "error"))
    BY DEF Link, Pong, LinkReports, LinkRefused, LinkLost, ScreenOpens, ScreenLeft, ReportsError
  <2>2. Callback("error", e, "error") \in Callbacks(Len(entry))
    BY <1>1, CallbackOf DEF Shown
  <2> QED
    BY <2>1, <2>2
<1>6. \E r \in EntryRecords : r.lobby = entry[e].lobby /\ entry' = [entry EXCEPT ![e] = r]
  <2>1. ASSUME NEW l \in {"none", "up", "failing", "down"}, LinkBecomes(e, l) PROVE <1>6
    <3> DEFINE r == [entry[e] EXCEPT !.link = l]
    <3>1. r \in EntryRecords /\ r.lobby = entry[e].lobby
      BY <1>1 DEF EntryRecords
    <3>2. entry' = [entry EXCEPT ![e] = r]
      BY <2>1 DEF LinkBecomes
    <3> HIDE DEF r
    <3> QED
      BY <3>1, <3>2
  <2>2. ASSUME NEW b \in BOOLEAN, entry' = [entry EXCEPT ![e].screen = b] PROVE <1>6
    <3> DEFINE r == [entry[e] EXCEPT !.screen = b]
    <3>1. r \in EntryRecords /\ r.lobby = entry[e].lobby
      BY <1>1 DEF EntryRecords
    <3>2. entry' = [entry EXCEPT ![e] = r]
      BY <2>2
    <3> HIDE DEF r
    <3> QED
      BY <3>1, <3>2
  <2>3. ASSUME Pong(e) PROVE <1>6
    <3> DEFINE r == [entry[e] EXCEPT !.info = "name"]
    <3>1. r \in EntryRecords /\ r.lobby = entry[e].lobby
      BY <1>1 DEF EntryRecords
    <3>2. entry' = [entry EXCEPT ![e] = r]
      BY <2>3 DEF Pong
    <3> HIDE DEF r
    <3> QED
      BY <3>1, <3>2
  <2>4. CASE LinkReports(e) \/ LinkRefused(e)
    BY <2>4, <2>1 DEF LinkReports, LinkRefused
  <2>5. CASE LinkLost(e)
    BY <2>5, <2>1 DEF LinkLost
  <2>6. CASE ScreenOpens(e)
    BY <2>6, <2>2 DEF ScreenOpens
  <2>7. CASE ScreenLeft(e)
    BY <2>7, <2>2 DEF ScreenLeft
  <2> QED
    BY <2>3, <2>4, <2>5, <2>6, <2>7 DEF Link
<1> QED
  BY <1>2, <1>3, <1>4, <1>5, <1>6, OneEntryChanges

\* What the callbacks leave in an entry is an entry of the same lobby.
LEMMA RunsIs ==
  ASSUME ListTypes, NEW e \in Made, NEW run \in Seq(Callbacks(Len(entry)))
  PROVE  Runs(run, e) \in EntryRecords /\ Runs(run, e).lobby = entry[e].lobby
<1>1. entry[e] \in EntryRecords
  BY RecordOf
<1>2. \A i \in 1..Len(run) : run[i] \in Callbacks(Len(entry))
  OBVIOUS
<1>3. \A i \in 1..Len(run) : /\ run[i].text \in Shown
                             /\ run[i].kind # "status" => run[i].text \in {"", "name", "error"}
  BY <1>2 DEF Callbacks
<1>4. LastNameAt(run, e, Len(run)) \in {"", "name", "error"}
  <2> DEFINE named == {i \in 1..Len(run) : run[i].entry = e /\ run[i].kind # "status"}
  <2>1. CASE named = {}
    BY <2>1, <1>1 DEF LastNameAt, EntryRecords
  <2>2. CASE named # {}
    <3>1. Max(named) \in named
      <4> HIDE DEF named
      <4>1. named \in SUBSET (1..Len(run)) /\ Len(run) \in Nat
        BY DEF named
      <4> QED
        BY <4>1, <2>2, MaxOfSome
    <3>2. run[Max(named)].text \in {"", "name", "error"}
      BY <3>1, <1>3
    <3> QED
      BY <2>2, <3>2 DEF LastNameAt
  <2> QED
    BY <2>1, <2>2
<1> DEFINE drawn == {i \in DOMAIN run : run[i].entry = e}
           text == IF drawn = {} THEN entry[e].text ELSE run[Max(drawn)].text
           last == LastNameAt(run, e, Len(run))
           over == entry[e].overdrawn \/ \E i \in drawn : /\ run[i].kind = "status"
                                                         /\ LastNameAt(run, e, i) = "name"
<1>5. text \in Shown
  <2>1. CASE drawn = {}
    BY <2>1, <1>1 DEF EntryRecords
  <2>2. CASE drawn # {}
    <3>1. Max(drawn) \in drawn
      <4> HIDE DEF drawn
      <4>1. drawn \in SUBSET (1..Len(run)) /\ Len(run) \in Nat
        BY DEF drawn
      <4> QED
        BY <4>1, <2>2, MaxOfSome
    <3>2. drawn \subseteq 1..Len(run)
      OBVIOUS
    <3>3. run[Max(drawn)].text \in Shown
      <4> HIDE DEF drawn
      <4> QED
        BY <3>1, <3>2, <1>3
    <3> QED
      BY <2>2, <3>3
  <2> QED
    BY <2>1, <2>2
<1>6. over \in BOOLEAN
  <2> entry[e].overdrawn \in BOOLEAN
    BY <1>1 DEF EntryRecords
  <2> QED
    OBVIOUS
<1>7. Runs(run, e) = [entry[e] EXCEPT !.text = text, !.lastName = last, !.overdrawn = over]
  BY DEF Runs
<1>8. last \in {"", "name", "error"}
  BY <1>4
<1> HIDE DEF text, last, over
<1> QED
  BY <1>1, <1>5, <1>6, <1>7, <1>8 DEF EntryRecords

\* A frame of the game redraws entries, and can hang only on one that was erased.
LEMMA FrameKeeps == ASSUME ListInv, Frame PROVE ListInv' /\ (hung' => dropped # {})
<1>1. ListTypes
  BY DEF ListInv
<1> DEFINE n == IF Len(queue) < Batch THEN Len(queue) ELSE Batch
           run == SubSeq(queue, 1, n)
<1>2. /\ entry' = [e \in Made |-> Runs(run, e)] /\ queue' = <<>>
      /\ UNCHANGED <<listed, entries, sweep, index, current, connecting, mishaps, dropped>>
      /\ hung' \in BOOLEAN
      /\ hung' => \E f \in ToSet(queue) : ~InList(f.entry)
  BY DEF Frame, connectVars
<1>3. run \in Seq(Callbacks(Len(entry)))
  <2>1. queue \in Seq(Callbacks(Len(entry))) /\ Len(queue) \in Nat /\ n \in 0..Len(queue)
    BY <1>1, LobbyListAssumption DEF ListTypes
  <2>2. \A i \in 1..n : queue[i] \in Callbacks(Len(entry))
    BY <2>1
  <2> HIDE DEF n
  <2> QED
    BY <2>1, <2>2, SubSeqProperties
<1>4. Made = 1..Len(entry) /\ Len(entry) \in Nat
  BY <1>1, MadeIs
<1>5. \A e \in Made : entry'[e] \in EntryRecords /\ entry'[e].lobby = entry[e].lobby
  <2> HIDE DEF run
  <2> QED
    BY <1>1, <1>2, <1>3, RunsIs
<1>6. entry' \in Seq(EntryRecords) /\ Len(entry') = Len(entry) /\ Made' = Made
  <2> HIDE DEF run
  <2>1. entry' \in [1..Len(entry) -> EntryRecords]
    BY <1>2, <1>4, <1>5
  <2>2. entry' \in Seq(EntryRecords) /\ Len(entry') = Len(entry)
    BY <2>1, <1>4
  <2> QED
    BY <2>2, <1>4, <2>1 DEF Made
<1>7. ListTypes'
  <2>1. queue' \in Seq(Callbacks(Len(entry'))) /\ Len(queue') <= MaxQueue
    BY <1>2, LobbyListAssumption
  <2> QED
    BY <1>1, <1>2, <1>6, <2>1 DEF ListTypes
<1>8. UnlistedAreDropped' /\ ErasedAreDropped'
  BY <1>2, <1>5, <1>6, ErasedStay DEF ListInv, UnlistedAreDropped
<1>9. ASSUME hung' PROVE dropped # {}
  <2>1. PICK f \in ToSet(queue) : ~InList(f.entry)
    BY <1>2, <1>9
  <2>2. f \in Callbacks(Len(entry))
    BY <1>1 DEF ToSet, ListTypes
  <2>3. f.entry \in Made
    BY <2>2, <1>4 DEF Callbacks
  <2> QED
    BY <2>1, <2>3 DEF ListInv, ErasedAreDropped
<1> QED
  BY <1>7, <1>8, <1>9 DEF ListInv

\* What starts or stops is listed or dropped.
LEMMA ChangesKeep == ASSUME ListInv, ListChanges PROVE ListInv'
<1>1. ListTypes
  BY DEF ListInv
<1>2. PICK l \in Listable :
        /\ Mishap(l)
        /\ \/ l \in listed /\ listed' = listed \ {l} /\ dropped' = dropped \cup {l}
           \/ l \notin listed /\ listed' = listed \cup {l} /\ dropped' = dropped
  BY DEF ListChanges
<1>3. UNCHANGED <<entries, entry, queue, sweep, index, current, connecting, hung>>
  BY DEF ListChanges, connectVars
<1>4. mishaps' \in 0..MaxMishaps
  BY <1>1, <1>2, LobbyListAssumption DEF Mishap, ListTypes
<1>5. /\ listed' \subseteq Listable /\ dropped' \subseteq Listable /\ dropped \subseteq dropped'
  BY <1>1, <1>2 DEF ListTypes
<1>6. ListTypes'
  BY <1>1, <1>3, <1>4, <1>5 DEF ListTypes, Made
<1>7. UnlistedAreDropped'
  BY <1>2 DEF ListInv, UnlistedAreDropped
<1>8. ErasedAreDropped'
  BY <1>3, <1>5, ErasedStay DEF ListInv, Made
<1> QED
  BY <1>6, <1>7, <1>8 DEF ListInv

\* Every step of the list keeps its invariant, and hangs only after a drop.
LEMMA ListStep ==
  ASSUME ListInv, HangNeedsADrop, [ListNext]_listVars PROVE ListInv' /\ HangNeedsADrop'
<1>1. CASE MasterReads
  <2>1. hung' = hung /\ dropped' = dropped
    BY <1>1 DEF MasterReads, listHistory
  <2> QED
    BY <1>1, <2>1, MasterKeeps DEF HangNeedsADrop
<1>2. CASE Connect
  <2>1. hung' = hung /\ dropped' = dropped
    BY <1>2 DEF Connect, ConnectNext, ConnectAnnounces, ConnectOpens, ConnectRefreshes,
                listHistory
  <2> QED
    BY <1>2, <2>1, ConnectKeeps DEF HangNeedsADrop
<1>3. CASE Frame
  <2>1. dropped' = dropped
    BY <1>3 DEF Frame
  <2> QED
    BY <1>3, <2>1, FrameKeeps DEF HangNeedsADrop
<1>4. CASE ListChanges
  <2>1. hung' = hung /\ (dropped # {} => dropped' # {})
    BY <1>4 DEF ListChanges
  <2> QED
    BY <1>4, <2>1, ChangesKeep DEF HangNeedsADrop
<1>5. ASSUME NEW e \in Made,
             Link(e) \/ LinkRefused(e) \/ LinkLost(e) \/ ScreenOpens(e) \/ ScreenLeft(e)
      PROVE  ListInv' /\ HangNeedsADrop'
  <2>1. hung' = hung /\ dropped' = dropped
    BY <1>5 DEF Link, Pong, LinkReports, LinkRefused, LinkLost, ScreenOpens, ScreenLeft,
                listHistory
  <2> QED
    BY <1>5, <2>1, LinksKeep DEF HangNeedsADrop
<1>6. CASE UNCHANGED listVars
  <2>1. UNCHANGED <<listed, entries, entry, queue, sweep, index, current, connecting,
                    mishaps, dropped, hung>>
    BY <1>6 DEF listVars, connectVars, listHistory
  <2> QED
    BY <2>1 DEF HangNeedsADrop, ListInv, ListTypes, UnlistedAreDropped, ErasedAreDropped,
                InList, Made
<1> QED
  BY <1>1, <1>2, <1>3, <1>4, <1>5, <1>6 DEF ListNext

\* LobbyList: an entry is erased only when the main server has stopped listing its lobby.
THEOREM ListInvariant == ListSpec => [](ListInv /\ HangNeedsADrop)
<1>1. ListInit => ListInv /\ HangNeedsADrop
  BY ListStarts DEF ListInit, HangNeedsADrop
<1>2. (ListInv /\ HangNeedsADrop) /\ [ListNext]_listVars => (ListInv /\ HangNeedsADrop)'
  BY ListStep
<1> QED
  BY <1>1, <1>2, PTL DEF ListSpec

\* The invariant has the types that TLC checks.
LEMMA ListTypesShown == ListInv => ListTypeOK
<1> SUFFICES ASSUME ListInv PROVE ListTypeOK
  OBVIOUS
<1>1. ListTypes
  BY DEF ListInv
<1>2. \A f \in ToSet(queue) : f.entry \in Made /\ f.kind \in {"status", "name", "error"}
  <2> SUFFICES ASSUME NEW f \in ToSet(queue)
               PROVE  f.entry \in Made /\ f.kind \in {"status", "name", "error"}
    OBVIOUS
  <2>1. f \in Callbacks(Len(entry))
    BY <1>1 DEF ToSet, ListTypes
  <2>2. Made = 1..Len(entry)
    BY <1>1, MadeIs
  <2> QED
    BY <2>1, <2>2 DEF Callbacks
<1> QED
  BY <1>1, <1>2 DEF ListTypeOK, ListTypes, EntryRecords, Shown

\* Every variable of LobbyList keeps its type.
THEOREM ListTypeCorrect == ListSpec => []ListTypeOK
BY ListInvariant, ListTypesShown, PTL

\* The game thread and a net thread wait for each other only after the main server has
\* stopped listing a lobby (LobbyMenu::execUiCallbacks, _masterServerLoop).
THEOREM HangNeedsADropAlways == ListSpec => []HangNeedsADrop
BY ListInvariant, PTL

-----------------------------------------------------------------------------
(* The four together, as the run checks them.                              *)

\* The types of the four modules side by side (ThreadsSpec), each while the others rest.
THEOREM ThreadsTypesCorrect == ThreadsSpec => []ThreadsTypeOK
<1> DEFINE All == HostListInv /\ SessionInv /\ ListInv /\ HangNeedsADrop /\ AdmissionInv
<1>1. ThreadsInit => All
  BY HostListStarts, SessionStarts, ListStarts, AdmissionStarts
     DEF ThreadsInit, ListInit, HangNeedsADrop
<1>2. All /\ [ThreadsNext]_threadsVars => All'
  <2> SUFFICES ASSUME All, [ThreadsNext]_threadsVars PROVE All'
    OBVIOUS
  <2>1. /\ [HostListNext]_hostListVars /\ [SessionNext]_sessionVars
        /\ [ListNext]_listVars /\ [AdmissionNext]_admissionVars
    BY DEF ThreadsNext, threadsVars, HostsOnly, SessionOnly, ListOnly, AdmissionOnly, Only
  <2> QED
    BY <2>1, HostListStep, SessionStep, ListStep, AdmissionStep
<1>3. All => ThreadsTypeOK
  BY SessionTypesShown, ListTypesShown
     DEF ThreadsTypeOK, HostListInv, AdmissionInv, AdmissionTypes
<1> QED
  BY <1>1, <1>2, <1>3, PTL DEF ThreadsSpec

=============================================================================
