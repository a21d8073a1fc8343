---------------------------- MODULE Parts_proofs ----------------------------
(***************************************************************************)
(* Theorems, for every value of the constants, about the parts that        *)
(* MCParts checks side by side: the mutexes of the lobby server            *)
(* (ServerLocks), the list of the blocked players and its file             *)
(* (BlockList), the statistics and the achievements with theirs (Records), *)
(* the hooks that count a match (MatchCount) and the chat's text           *)
(* (ChatInput); those about the keys are in HotkeyRouting_proofs.  At the  *)
(* end they are put together.                                              *)
(***************************************************************************)
EXTENDS MCParts, HotkeyRouting_proofs, WellFoundedInduction

\* A set of numbers has a smallest one.
LEMMA SmallestNumber ==
  ASSUME NEW T \in SUBSET Nat, T # {}
  PROVE  \E m \in T : \A k \in T : m <= k
<1>1. IsWellFoundedOn(OpToRel(<, Nat), Nat)
  BY NatLessThanWellFounded, Zenon
<1>2. PICK m \in T : \A k \in T : ~(<<k, m>> \in OpToRel(<, Nat))
  BY <1>1, WFMin, Zenon
<1>3. \A k \in T : ~(k < m)
  BY <1>2 DEF OpToRel
<1> QED
  BY <1>3

(***************************************************************************)
(* The mutexes of the lobby server, for any number of net threads.         *)
(***************************************************************************)
\* The sections a net thread can go through.
NetSections == {"C", "M", "B", "K"}

\* TypeOK, and what tells net threads from the main thread.
LocksInv ==
  /\ TypeOK
  /\ \A u \in Net : todo[u] \in Seq(NetSections)
  /\ \A t \in Thread : at[t] \in NetLabels \ {"out"} => todo[t] # <<>>

\* The programs are sequences of sections.
LEMMA ProgramTypes ==
  /\ \A h \in Handlers \cup OnDisconnect : h \in Seq(NetSections)
  /\ \A h \in OnDisconnect : <<"C">> \o h \in Seq(NetSections)
  /\ \A s \in Seq(NetSections) : s \in Seq(Sections)
<1>1. <<"C">> \in Seq(NetSections) /\ <<"M">> \in Seq(NetSections) /\ <<"B">> \in Seq(NetSections)
  BY DEF NetSections
<1>2. /\ <<"C", "C">> \in Seq(NetSections) /\ <<"B", "C">> \in Seq(NetSections)
      /\ <<"C", "B">> \in Seq(NetSections) /\ <<"C", "K">> \in Seq(NetSections)
  BY DEF NetSections
<1>3. <<"C", "B", "C">> \in Seq(NetSections) /\ <<"C", "B", "K">> \in Seq(NetSections)
  BY DEF NetSections
<1>4. \A h \in Handlers \cup OnDisconnect : h \in Seq(NetSections)
  BY <1>1, <1>2, <1>3 DEF Handlers, OnDisconnect
<1>5. \A h \in OnDisconnect : <<"C">> \o h \in Seq(NetSections)
  BY <1>1, <1>4
<1>6. \A s \in Seq(NetSections) : s \in Seq(Sections)
  BY DEF NetSections, Sections
<1> QED
  BY <1>4, <1>5, <1>6

\* LocksInv holds at first.
LEMMA LocksInit == Init => LocksInv
<1> SUFFICES ASSUME Init PROVE LocksInv
  OBVIOUS
<1>1. <<>> \in Seq(Sections) /\ <<>> \in Seq(NetSections)
  OBVIOUS
<1>2. at \in [Thread -> Labels] /\ \A u \in Thread : at[u] = "out"
  BY DEF Init, Labels
<1>3. todo \in [Thread -> Seq(Sections)] /\ \A u \in Net : todo[u] \in Seq(NetSections)
  BY <1>1 DEF Init, Thread
<1>4. /\ target \in [Thread -> Thread] /\ link \in [Net -> {"free", "open", "closed"}]
      /\ batch \subseteq Net /\ kicked \in BOOLEAN
  BY DEF Init
<1> QED
  BY <1>2, <1>3, <1>4 DEF LocksInv, TypeOK, NetLabels, Thread

\* Every step keeps LocksInv.
LEMMA LocksNext == LocksInv /\ [Next]_vars => LocksInv'
<1> SUFFICES ASSUME LocksInv, [Next]_vars PROVE LocksInv'
  OBVIOUS
<1> USE MainAssumption DEF LocksInv, TypeOK, Labels, NetLabels, Thread
<1>1. CASE UNCHANGED vars
  BY <1>1 DEF vars
<1>2. ASSUME NEW u \in Net, NEW h \in Handlers \cup OnDisconnect, Handle(u, h) PROVE LocksInv'
  BY <1>2, ProgramTypes DEF Handle, Idle
<1>3. ASSUME NEW t \in Thread, Section(t) PROVE LocksInv'
  <2>1. ASSUME NEW u \in Net, NEW h \in OnDisconnect, Kick(t, u, h) PROVE LocksInv'
    BY <2>1, ProgramTypes DEF Kick, Idle
  <2>2. CASE Enter(t)
    <3>1. t \in Net => Head(todo[t]) \in NetSections
      BY <2>2 DEF Enter
    <3> QED
      BY <2>2, <3>1 DEF Enter, Move, NetSections
  <2>3. ASSUME todo[t] # <<>>, todo' = [todo EXCEPT ![t] = Tail(@)]
        PROVE /\ todo' \in [Thread -> Seq(Sections)]
              /\ \A u \in Net : todo'[u] \in Seq(NetSections)
    BY <2>3
  <2>4. CASE Leave(t)
    BY <2>4 DEF Leave
  <2>5. CASE Boot(t)
    BY <2>5 DEF Boot, Move
  <2>6. CASE BootBroadcast(t)
    BY <2>6 DEF BootBroadcast, Move
  <2>7. CASE BootDone(t)
    BY <2>7 DEF BootDone, Move
  <2>8. CASE Close(t)
    BY <2>8, <2>3 DEF Close
  <2> QED
    BY <1>3, <2>1, <2>2, <2>4, <2>5, <2>6, <2>7, <2>8 DEF Section
<1>4. CASE MainStep
  <2>1. ASSUME NEW s \in {"A", "R", "X", "Q", "C"}, MainStarts(s) PROVE LocksInv'
    BY <2>1 DEF MainStarts, Sections
  <2>2. ASSUME NEW u \in Net, Accept(u) PROVE LocksInv'
    BY <2>2 DEF Accept, EndSection, Move
  <2>3. CASE Throw
    BY <2>3 DEF Throw, Move
  <2>4. CASE Visit
    BY <2>4 DEF Visit, Move
  <2>5. CASE VisitSeat
    BY <2>5 DEF VisitSeat, Move
  <2>6. CASE VisitDone
    BY <2>6 DEF VisitDone, Move
  <2>7. CASE Doom
    BY <2>7 DEF Doom, Move
  <2>8. CASE Destroy
    BY <2>8 DEF Destroy, EndSection, Move
  <2>9. CASE Catch
    BY <2>9 DEF Catch, Move
  <2>10. CASE Quit
    BY <2>10 DEF Quit, Move
  <2> QED
    BY <1>4, <2>1, <2>2, <2>3, <2>4, <2>5, <2>6, <2>7, <2>8, <2>9, <2>10 DEF MainStep
<1> QED
  BY <1>1, <1>2, <1>3, <1>4 DEF Next

\* Every variable has its type, a net thread never waits with C in its hands, and it only
\* goes through the sections of the handlers.
THEOREM LocksTyped == Spec => []LocksInv
BY LocksInit, LocksNext, PTL DEF Spec

\* The type invariant by itself.
THEOREM LocksTypeCorrect == Spec => []TypeOK
<1>1. LocksInv => TypeOK
  BY DEF LocksInv
<1> QED
  BY <1>1, LocksTyped, PTL

\* A thread that holds C waits for nothing, the main thread apart when it overreaches.
LEMMA HolderOfCMoves ==
  ASSUME LocksInv, NEW t \in Thread, NEW u \in Thread, HoldsC(t), WaitsFor(t, u)
  PROVE  t = Main /\ MainOverreaches
<1>1. CASE t \in Net
  BY <1>1, MainAssumption
     DEF LocksInv, TypeOK, NetLabels, HoldsC, WaitsFor, WantsC, WantsM, Upcoming
<1>2. CASE t = Main
  BY <1>2 DEF HoldsC, WaitsFor, WantsC, WantsM, Upcoming, MainOverreaches
<1> QED
  BY <1>1, <1>2 DEF Thread

\* Whoever holds M waits for C if for anything.
LEMMA HolderOfMWantsC == ASSUME NEW t, HoldsM(t) PROVE ~WantsM(t)
BY DEF HoldsM, WantsM, Upcoming

\* A circle of waiting threads without an overreaching main thread: nobody in it can hold
\* C, so all of them wait for M, and the one that holds M does not.
LEMMA NoCircle == LocksInv => DeadlockNeedsMain
<1> SUFFICES ASSUME LocksInv, NEW D \in SUBSET Thread, Deadlocked(D),
                    ~(Main \in D /\ MainOverreaches)
             PROVE  FALSE
  BY DEF DeadlockNeedsMain
<1>1. \A t \in D : \E u \in D : WaitsFor(t, u)
  BY DEF Deadlocked
<1>2. \A t \in D : ~HoldsC(t)
  BY <1>1, HolderOfCMoves
<1>3. \A t \in D : \E u \in D : WantsM(t) /\ HoldsM(u)
  BY <1>1, <1>2 DEF WaitsFor, MainOverreaches
<1>4. PICK t \in D : TRUE
  BY DEF Deadlocked
<1> QED
  BY <1>3, <1>4, HolderOfMWantsC

\* The threads of the server can only end up in a circle of waits with the main thread
\* in it, holding C: _leaveArcade's broadcasts under M are safe among the net threads.
THEOREM DeadlockNeedsMainAlways == Spec => []DeadlockNeedsMain
BY LocksTyped, NoCircle, PTL

-----------------------------------------------------------------------------
\* Without a kick, a thread only closes its own connection, as the last thing of a
\* handler; so a closed connection's thread has ended, except after run's own end.
LonelyInv ==
  ~kicked =>
    /\ \A t \in Thread : target[t] = t
    /\ \A u \in Net : \A i \in 1..Len(todo[u]) : todo[u][i] = "K" => i = Len(todo[u])
    /\ at[Main] # "end" => \A u \in Net : link[u] # "open" => Idle(u)
    /\ at[Main] = "join" => \A u \in batch : link[u] # "open"

\* A handler closes its connection last if at all.
LEMMA CloseIsLast ==
  \A h \in Handlers \cup OnDisconnect : \A i \in 1..Len(h) : h[i] = "K" => i = Len(h)
<1> SUFFICES ASSUME NEW h \in Handlers \cup OnDisconnect, NEW i \in 1..Len(h), h[i] = "K"
             PROVE  i = Len(h)
  OBVIOUS
<1>1. CASE h \in {<<"C">>, <<"M">>, <<"B">>}
  BY <1>1
<1>2. CASE h \in {<<"C", "C">>, <<"B", "C">>, <<"C", "B">>}
  BY <1>2
<1>3. CASE h = <<"C", "K">>
  BY <1>3
<1>4. CASE h = <<"C", "B", "C">>
  BY <1>4
<1>5. CASE h = <<"C", "B", "K">>
  BY <1>5
<1> QED
  BY <1>1, <1>2, <1>3, <1>4, <1>5 DEF Handlers, OnDisconnect

\* LonelyInv holds at first.
LEMMA LonelyInit == Init => LonelyInv
<1> SUFFICES ASSUME Init PROVE LonelyInv
  OBVIOUS
<1>1. \A u \in Net : Len(todo[u]) = 0 /\ link[u] = "open"
  BY DEF Init, Thread
<1>2. \A t \in Thread : target[t] = t /\ at[t] = "out"
  BY DEF Init
<1>3. at[Main] = "out"
  BY <1>2 DEF Thread
<1> QED
  BY <1>1, <1>2, <1>3 DEF LonelyInv

\* Every step keeps LonelyInv.
LEMMA LonelyNext == LocksInv /\ LonelyInv /\ [Next]_vars => LonelyInv'
<1> SUFFICES ASSUME LocksInv, LonelyInv, [Next]_vars, ~kicked' PROVE LonelyInv'
  BY DEF LonelyInv
<1> USE MainAssumption DEF LonelyInv, Thread, Idle
<1>0. /\ at \in [Thread -> Labels] /\ todo \in [Thread -> Seq(Sections)]
      /\ target \in [Thread -> Thread] /\ link \in [Net -> {"free", "open", "closed"}]
  BY DEF LocksInv, TypeOK
<1>1. CASE UNCHANGED vars
  BY <1>1 DEF vars
<1>2. ASSUME NEW u \in Net, NEW h \in Handlers \cup OnDisconnect, Handle(u, h) PROVE LonelyInv'
  BY <1>0, <1>2, CloseIsLast DEF Handle
<1>3. ASSUME NEW t \in Thread, Section(t) PROVE LonelyInv'
  <2>1. ASSUME NEW u \in Net, NEW h \in OnDisconnect, Kick(t, u, h) PROVE LonelyInv'
    BY <2>1 DEF Kick
  <2>2. CASE Enter(t)
    BY <1>0, <2>2 DEF Enter, Move
  <2>3. ASSUME todo[t] # <<>>, todo' = [todo EXCEPT ![t] = Tail(@)], ~kicked
        PROVE  \A u \in Net : \A i \in 1..Len(todo'[u]) : todo'[u][i] = "K" => i = Len(todo'[u])
    <3> SUFFICES ASSUME NEW u \in Net, NEW i \in 1..Len(todo'[u]), todo'[u][i] = "K"
                 PROVE  i = Len(todo'[u])
      OBVIOUS
    <3>1. CASE u # t
      BY <1>0, <2>3, <3>1
    <3>2. CASE u = t
      <4>1. todo'[u] = Tail(todo[u]) /\ todo[u] \in Seq(Sections) /\ todo[u] # <<>>
        BY <1>0, <2>3, <3>2
      <4>2. /\ Len(todo'[u]) = Len(todo[u]) - 1
            /\ todo'[u][i] = todo[u][i + 1]
            /\ i + 1 \in 1..Len(todo[u])
        BY <4>1
      <4> QED
        BY <1>0, <2>3, <4>1, <4>2
    <3> QED
      BY <3>1, <3>2
  <2>4. CASE Leave(t)
    <3>1. ~kicked /\ at[t] # "out"
      BY <2>4 DEF Leave
    <3>2. CASE todo[t] # <<>>
      BY <1>0, <2>3, <2>4, <3>1, <3>2 DEF Leave
    <3>3. CASE todo[t] = <<>>
      BY <1>0, <2>4, <3>1, <3>3 DEF Leave
    <3> QED
      BY <3>2, <3>3
  <2>5. CASE Boot(t)
    BY <1>0, <2>5 DEF Boot, Move
  <2>6. CASE BootBroadcast(t)
    BY <1>0, <2>6 DEF BootBroadcast, Move
  <2>7. CASE BootDone(t)
    BY <1>0, <2>7 DEF BootDone, Move
  <2>8. CASE Close(t)
    <3>1. ~kicked /\ todo[t] # <<>> /\ Head(todo[t]) = "K" /\ at[t] = "out"
      BY <2>8 DEF Close
    <3>2. t \in Net => Tail(todo[t]) = <<>>
      BY <1>0, <3>1
    <3>3. CASE t \in Net
      BY <1>0, <2>3, <2>8, <3>1, <3>2, <3>3 DEF Close
    <3>4. CASE t = Main
      BY <1>0, <2>8, <3>1, <3>4 DEF Close
    <3> QED
      BY <3>3, <3>4
  <2> QED
    BY <1>3, <2>1, <2>2, <2>4, <2>5, <2>6, <2>7, <2>8 DEF Section
<1>4. CASE MainStep
  <2>1. ASSUME NEW s \in {"A", "R", "X", "Q", "C"}, MainStarts(s) PROVE LonelyInv'
    BY <1>0, <2>1 DEF MainStarts
  <2>2. ASSUME NEW u \in Net, Accept(u) PROVE LonelyInv'
    BY <1>0, <2>2 DEF Accept, EndSection, Move
  <2>3. CASE Throw
    BY <1>0, <2>3 DEF Throw, Move
  <2>4. CASE Visit
    BY <1>0, <2>4 DEF Visit, Move
  <2>5. CASE VisitSeat
    BY <1>0, <2>5 DEF VisitSeat, Move
  <2>6. CASE VisitDone
    BY <1>0, <2>6 DEF VisitDone, Move
  <2>7. CASE Doom
    BY <1>0, <2>7 DEF Doom, Move
  <2>8. CASE Destroy
    BY <1>0, <2>8 DEF Destroy, EndSection, Move
  <2>9. CASE Catch
    BY <1>0, <2>9 DEF Catch, Move
  <2>10. CASE Quit
    BY <1>0, <2>10 DEF Quit, Move
  <2> QED
    BY <1>4, <2>1, <2>2, <2>3, <2>4, <2>5, <2>6, <2>7, <2>8, <2>9, <2>10 DEF MainStep
<1> QED
  BY <1>1, <1>2, <1>3, <1>4 DEF Next

\* The join of the reaping, under C, only ever waits for a connection that was closed
\* from outside, by a kick.
THEOREM JoinWaitsForTheKickedAlways == Spec => []JoinWaitsForTheKicked
<1>1. LocksInv /\ LonelyInv => JoinWaitsForTheKicked
  <2> SUFFICES ASSUME LocksInv, LonelyInv, at[Main] = "join", ~kicked, NEW u \in batch
               PROVE  Finished(u)
    BY DEF JoinWaitsForTheKicked
  <2>1. u \in Net
    BY DEF LocksInv, TypeOK
  <2> QED
    BY <2>1 DEF LonelyInv, Finished, Idle
<1> QED
  BY <1>1, LocksTyped, LonelyInit, LonelyNext, PTL DEF Spec

(***************************************************************************)
(* The block list.                                                         *)
(***************************************************************************)
\* While a save is under way, the temporary file holds the list, or is broken.
TemporaryHoldsTheList ==
  step \in {"close", "remove", "rename"} => tmp = Broken \/ tmp = File("ok", list)

\* The earlier forms are only removed once the new one is there.
RetiredWhenReplaced ==
  step \in {"retire", "retire text"} => exposed \/ dat.state = "ok"

\* What ListSurvives says, at every moment and not only when the program does not run: the
\* files hold a list the next start may find, but for the moment between the removal and
\* the renaming.
AlwaysSurvives ==
  ~exposed /\ ~(step = "rename" /\ dat = NoFile) => Found.list \in durable

\* An answer in hand is about a player who was not unblocked since, or during a match.
AnswerInHand ==
  answer # NoAnswer /\ answer.name \in unblocked => answer.name \in midAnswer

BlockInv ==
  /\ BlockTypeOK
  /\ TemporaryHoldsTheList
  /\ RetiredWhenReplaced
  /\ AlwaysSurvives
  /\ AnswerInHand
  /\ UnblockedStays
\* A list is a function on some of the players, whose values are sets of addresses.
LEMMA ListsAreMaps ==
  ASSUME NEW ns, ns \subseteq Name, NEW l \in [ns -> SUBSET IpAddress]
  PROVE  l \in Lists
BY DEF Lists

\* The players of a list are players, and it is what it maps them to.
LEMMA ListShape ==
  ASSUME NEW l \in Lists
  PROVE  /\ DOMAIN l \subseteq Name
         /\ \A n \in DOMAIN l : l[n] \subseteq IpAddress
         /\ l = [n \in DOMAIN l |-> l[n]]
<1>1. PICK ns \in SUBSET Name : l \in [ns -> SUBSET IpAddress]
  BY DEF Lists
<1> QED
  BY <1>1

LEMMA NobodyIsAList == Nobody \in Lists /\ Addresses(Nobody) = {} /\ DOMAIN Nobody = {}
<1>1. Nobody \in Lists
  <2>1. Nobody \in [{} -> SUBSET IpAddress]
    BY DEF Nobody
  <2> QED
    BY <2>1 DEF Lists
<1> QED
  BY <1>1 DEF Addresses, Nobody

\* What add, remove and addIp make of the list is a list, and its addresses are as told.
LEMMA AddedIsAList ==
  ASSUME NEW l \in Lists, NEW n \in Name,
         NEW k, k = [x \in DOMAIN l \cup {n} |-> IF x = n THEN {} ELSE l[x]],
         n \notin DOMAIN l
  PROVE  k \in Lists /\ Addresses(k) = Addresses(l) /\ DOMAIN k = DOMAIN l \cup {n}
<1> DEFINE ns == DOMAIN l \cup {n}
<1>1. ns \subseteq Name /\ k \in [ns -> SUBSET IpAddress]
  BY ListShape
<1>2. k \in Lists
  BY <1>1, ListsAreMaps
<1>3. Addresses(k) \subseteq Addresses(l)
  BY DEF Addresses
<1>4. Addresses(l) \subseteq Addresses(k)
  BY DEF Addresses
<1> QED
  BY <1>2, <1>3, <1>4

\* remove takes one player out of the list, with its addresses.
LEMMA RemovedIsAList ==
  ASSUME NEW l \in Lists, NEW n,
         NEW k, k = [x \in DOMAIN l \ {n} |-> l[x]]
  PROVE  /\ k \in Lists
         /\ Addresses(k) = UNION {l[x] : x \in DOMAIN l \ {n}}
         /\ DOMAIN k = DOMAIN l \ {n}
<1> DEFINE ns == DOMAIN l \ {n}
<1>1. ns \subseteq Name /\ k \in [ns -> SUBSET IpAddress]
  BY ListShape
<1>2. k \in Lists
  BY <1>1, ListsAreMaps
<1> QED
  BY <1>2 DEF Addresses

\* The list with one more address of a player.
Extended(l, n, i) ==
  [x \in DOMAIN l \cup {n} |->
     (IF x \in DOMAIN l THEN l[x] ELSE {}) \cup (IF x = n THEN {i} ELSE {})]

\* addIp adds one address to those of a player.
LEMMA ExtendedIsAList ==
  ASSUME NEW l \in Lists, NEW n \in Name, NEW i \in IpAddress
  PROVE  /\ Extended(l, n, i) \in Lists
         /\ Addresses(Extended(l, n, i)) = Addresses(l) \cup {i}
<1> DEFINE ns == DOMAIN l \cup {n}
<1>1. ns \subseteq Name /\ Extended(l, n, i) \in [ns -> SUBSET IpAddress]
  BY ListShape DEF Extended
<1>2. Extended(l, n, i) \in Lists
  BY <1>1, ListsAreMaps
<1>3. PICK k : k = Extended(l, n, i)
  OBVIOUS
<1>4. \A x \in DOMAIN l : x \in DOMAIN k /\ l[x] \subseteq k[x]
  BY <1>3 DEF Extended
<1>5. n \in DOMAIN k /\ i \in k[n]
  BY <1>3 DEF Extended
<1>6. \A x \in DOMAIN k : \A j \in k[x] : j = i \/ (x \in DOMAIN l /\ j \in l[x])
  BY <1>3 DEF Extended
<1>7. Addresses(k) \subseteq Addresses(l) \cup {i}
  BY <1>6 DEF Addresses
<1>8. Addresses(l) \subseteq Addresses(k)
  BY <1>4 DEF Addresses
<1>9. i \in Addresses(k)
  BY <1>5 DEF Addresses
<1> QED
  BY <1>1, <1>2, <1>3, <1>7, <1>8, <1>9

\* The forms a file may have.
Forms == {dat, tmp, json, txt, NoFile, Broken, File("ok", list)}

\* The files are well typed when each has one of these forms, or is as it was.
LEMMA FilesTyped ==
  ASSUME BlockTypeOK, {dat', tmp', json', txt'} \subseteq Forms
  PROVE  \A f \in {dat', tmp', json', txt'} :
           f.state \in {"none", "broken", "ok"} /\ f.list \in Lists
<1>1. \A f \in Forms : f.state \in {"none", "broken", "ok"} /\ f.list \in Lists
  <2>1. \A f \in {dat, tmp, json, txt} : f.state \in {"none", "broken", "ok"} /\ f.list \in Lists
    BY DEF BlockTypeOK
  <2>2. /\ NoFile.state = "none" /\ NoFile.list = Nobody
        /\ Broken.state = "broken" /\ Broken.list = Nobody
        /\ File("ok", list).state = "ok" /\ File("ok", list).list = list
    BY DEF NoFile, Broken, File
  <2>3. list \in Lists
    BY DEF BlockTypeOK
  <2> QED
    BY <2>1, <2>2, <2>3, NobodyIsAList DEF Forms
<1> QED
  BY <1>1

\* What saving leaves alone.
SavingKeeps ==
  UNCHANGED <<list, addresses, migrated, answer, inMatch, calls, unblocked, midAnswer>>

\* A step keeps the types.
LEMMA BlockTypesKept ==
  ASSUME BlockInv, [BlockNext]_blockVars
  PROVE  BlockTypeOK'
<1> USE DEF BlockInv, BlockTypeOK
<1> USE NobodyIsAList
<1> DEFINE Kept == /\ SavingKeeps /\ {dat', tmp', json', txt'} \subseteq Forms
                   /\ step' \in {"off", "idle", "write", "close", "remove", "rename", "retire",
                                 "retire text"}
                   /\ durable' \in {durable, {list}} /\ exposed' \in BOOLEAN
<1>0. ASSUME Kept PROVE BlockTypeOK'
  <2>1. \A f \in {dat', tmp', json', txt'} :
          f.state \in {"none", "broken", "ok"} /\ f.list \in Lists
    BY <1>0, FilesTyped DEF Forms
  <2>2. /\ list' \in Lists /\ addresses' = Addresses(list') /\ calls' \in 0..MaxCalls
        /\ answer' = NoAnswer \/ answer' \in [name : Name, ip : IpAddress]
        /\ migrated' \in BOOLEAN /\ inMatch' \in BOOLEAN /\ exposed' \in BOOLEAN
        /\ durable' \subseteq Lists
    BY <1>0 DEF SavingKeeps
  <2> QED
    BY <1>0, <2>1, <2>2
<1>1. CASE Start
  <2>1. Found.list \in Lists
    BY DEF Found
  <2>2. step' \in {"write", "idle"} /\ migrated' \in BOOLEAN
    BY <1>1 DEF Start
  <2> QED
    BY <1>1, <2>1, <2>2 DEF Start, files
<1>2. CASE Ends
  <2>1. exposed' \in BOOLEAN
    BY <1>2 DEF Ends
  <2> QED
    BY <1>2, <2>1 DEF Ends, files
<1>3. CASE Scene
  BY <1>3 DEF Scene, files, blockHistory
<1>4. CASE Writes
  <2>1. Kept
    BY <1>4 DEF Writes, Saving, Untouched, GivesUp, Forms, SavingKeeps
  <2> QED
    BY <2>1, <1>0
<1>5. CASE Closes
  <2>1. Kept
    BY <1>5 DEF Closes, Saving, Untouched, Forms, SavingKeeps
  <2> QED
    BY <2>1, <1>0
<1>6. CASE Removes
  <2>1. Kept
    BY <1>6 DEF Removes, Saving, Forms, SavingKeeps
  <2> QED
    BY <2>1, <1>0
<1>7. CASE Renames
  <2>1. Kept
    BY <1>7 DEF Renames, Saving, GivesUp, Forms, SavingKeeps
  <2> QED
    BY <2>1, <1>0
<1>8. CASE Retires
  <2>1. Kept
    BY <1>8 DEF Retires, Saving, Forms, SavingKeeps
  <2> QED
    BY <2>1, <1>0
<1>9. CASE RetiresText
  <2>1. Kept
    BY <1>9 DEF RetiresText, Saving, Forms, SavingKeeps
  <2> QED
    BY <2>1, <1>0
<1>10. ASSUME NEW n \in Name, add(n)
       PROVE  BlockTypeOK'
  <2>1. /\ list' \in Lists /\ Addresses(list') = Addresses(list)
        /\ n \notin DOMAIN list /\ addresses' = addresses
    BY <1>10, AddedIsAList DEF add, Changed
  <2>2. /\ UNCHANGED <<files, inMatch, exposed, answer>> /\ step' = "write"
        /\ migrated' = FALSE /\ durable' = durable \cup {list'} /\ calls' \in 0..MaxCalls
    BY <1>10, BlockAssumption DEF add, Changed, Calls
  <2> QED
    BY <2>1, <2>2 DEF files
<1>11. ASSUME NEW n \in Name, remove(n)
       PROVE  BlockTypeOK'
  <2>1. list' \in Lists /\ addresses' = Addresses(list')
    BY <1>11, RemovedIsAList DEF remove, Changed, Rebuilt
  <2>2. /\ UNCHANGED <<files, inMatch, exposed, answer>> /\ step' = "write"
        /\ migrated' = FALSE /\ durable' = durable \cup {list'} /\ calls' \in 0..MaxCalls
    BY <1>11, BlockAssumption DEF remove, Changed, Calls
  <2> QED
    BY <2>1, <2>2 DEF files
<1>12. ASSUME NEW n \in Name, NEW i \in IpAddress, contains(n, i)
       PROVE  BlockTypeOK'
  BY <1>12 DEF contains, files, blockHistory
<1>13. CASE addIp
  <2>0. answer # NoAnswer
    BY <1>13 DEF addIp
  <2>1. answer.name \in Name /\ answer.ip \in IpAddress /\ list \in Lists
    BY <2>0
  <2> DEFINE k == Extended(list, answer.name, answer.ip)
  <2>2. k \in Lists /\ Addresses(k) = Addresses(list) \cup {answer.ip}
    BY <2>1, ExtendedIsAList
  <2>3. list' = k /\ addresses' = addresses \cup {answer.ip}
    <3> HIDE DEF BlockInv, BlockTypeOK
    <3>1. CASE k = list
      BY <1>13, <3>1 DEF addIp, Changed, Extended
    <3>2. CASE k # list
      BY <1>13, <3>2 DEF addIp, Changed, Extended
    <3> QED
      BY <3>1, <3>2
  <2>4. /\ UNCHANGED <<files, inMatch, exposed, calls>> /\ answer' = NoAnswer
        /\ step' \in {step, "write"} /\ migrated' \in {migrated, FALSE}
        /\ durable' \in {durable, durable \cup {list'}}
    BY <1>13 DEF addIp, Changed
  <2> QED
    BY <2>2, <2>3, <2>4 DEF files
<1>14. CASE UNCHANGED blockVars
  BY <1>14 DEF blockVars, files, blockHistory
<1> QED
  BY <1>1, <1>2, <1>3, <1>4, <1>5, <1>6, <1>7, <1>8, <1>9, <1>10, <1>11, <1>12, <1>13, <1>14
     DEF BlockNext

\* A step keeps what the files are said to hold.
LEMMA BlockFilesKept ==
  ASSUME BlockInv, [BlockNext]_blockVars
  PROVE  TemporaryHoldsTheList' /\ RetiredWhenReplaced' /\ AlwaysSurvives'
<1> USE DEF TemporaryHoldsTheList, RetiredWhenReplaced, AlwaysSurvives, Found
<1> DEFINE Good == TemporaryHoldsTheList' /\ RetiredWhenReplaced' /\ AlwaysSurvives'
<1>0. /\ TemporaryHoldsTheList /\ RetiredWhenReplaced /\ AlwaysSurvives
      /\ exposed \in BOOLEAN
  BY DEF BlockInv, BlockTypeOK
<1>a. /\ NoFile.state = "none" /\ Broken.state = "broken"
      /\ \A l : File("ok", l).state = "ok" /\ File("ok", l).list = l
  BY DEF NoFile, Broken, File
<1>1. CASE Start
  BY <1>1 DEF Start, files
<1>2. CASE Ends
  BY <1>0, <1>2 DEF Ends, files
<1>3. CASE Scene
  BY <1>0, <1>3 DEF Scene, files, blockHistory
<1>4. CASE Writes
  BY <1>0, <1>4 DEF Writes, Saving, Untouched, GivesUp
<1>5. CASE Closes
  BY <1>0, <1>5 DEF Closes, Saving, Untouched
<1>6. CASE Removes
  BY <1>0, <1>6 DEF Removes, Saving
<1>7. CASE Renames
  <2>1. CASE dat' = tmp /\ durable' = {list} /\ exposed' = (tmp = Broken) /\ list' = list
             /\ step' \in {"retire", "idle"}
    <3>1. tmp = Broken \/ tmp = File("ok", list)
      BY <1>0, <1>7 DEF Renames, Saving
    <3>2. dat'.state = "ok" => dat'.list \in durable'
      BY <1>a, <2>1, <3>1
    <3>3. exposed' \/ dat'.state = "ok"
      BY <1>a, <2>1, <3>1
    <3> QED
      BY <2>1, <3>2, <3>3
  <2>2. CASE GivesUp /\ exposed' = (exposed \/ dat = NoFile)
             /\ UNCHANGED <<dat, tmp, durable, json, txt>>
    <3>1. ~exposed' => Found.list \in durable
      BY <1>0, <2>2
    <3> QED
      BY <2>2, <3>1 DEF GivesUp
  <2> QED
    BY <1>7, <2>1, <2>2 DEF Renames, Saving
<1>8. CASE Retires
  BY <1>0, <1>8 DEF Retires, Saving
<1>9. CASE RetiresText
  BY <1>0, <1>9 DEF RetiresText, Saving
<1>10. ASSUME NEW l, step = "idle", Changed(l)
       PROVE  Good
  BY <1>0, <1>10 DEF Changed, files
<1>11. ASSUME NEW n \in Name, add(n)
       PROVE  Good
  BY <1>10, <1>11 DEF add, Calls
<1>12. ASSUME NEW n \in Name, remove(n)
       PROVE  Good
  BY <1>10, <1>12 DEF remove, Calls
<1>13. ASSUME NEW n \in Name, NEW i \in IpAddress, contains(n, i)
       PROVE  Good
  BY <1>0, <1>13 DEF contains, files, blockHistory
<1>14. CASE addIp
  <2>1. step = "idle"
    BY <1>14 DEF addIp
  <2>2. \/ UNCHANGED <<list, files, step, durable, exposed>>
        \/ \E l : Changed(l)
    BY <1>14 DEF addIp
  <2> QED
    BY <1>0, <1>10, <2>1, <2>2 DEF files
<1>15. CASE UNCHANGED blockVars
  BY <1>0, <1>15 DEF blockVars, files, blockHistory
<1> QED
  BY <1>1, <1>2, <1>3, <1>4, <1>5, <1>6, <1>7, <1>8, <1>9, <1>11, <1>12, <1>13, <1>14, <1>15
     DEF BlockNext

\* A step keeps what is said of the players who were unblocked.
LEMMA UnblockedKept ==
  ASSUME BlockInv, [BlockNext]_blockVars
  PROVE  AnswerInHand' /\ UnblockedStays'
<1> USE DEF AnswerInHand, UnblockedStays
<1> DEFINE Good == AnswerInHand' /\ UnblockedStays'
<1>0. AnswerInHand /\ UnblockedStays
  BY DEF BlockInv
<1>1. CASE Start
  BY <1>1 DEF Start
<1>2. CASE Ends
  BY <1>2 DEF Ends
<1>3. CASE Scene
  BY <1>0, <1>3 DEF Scene, blockHistory
<1>4. CASE \/ Writes \/ Closes \/ Removes \/ Renames \/ Retires \/ RetiresText
  <2>1. UNCHANGED <<list, answer, unblocked, midAnswer>>
    BY <1>4 DEF Writes, Closes, Removes, Renames, Retires, RetiresText, Saving
  <2> QED
    BY <1>0, <2>1
<1>5. ASSUME NEW n \in Name, add(n)
      PROVE  Good
  <2>1. DOMAIN list' = DOMAIN list \cup {n}
    BY <1>5 DEF add, Changed
  <2> QED
    BY <1>0, <1>5, <2>1 DEF add
<1>6. ASSUME NEW n \in Name, remove(n)
      PROVE  Good
  <2>1. DOMAIN list' = DOMAIN list \ {n}
    BY <1>6 DEF remove, Changed
  <2>2. answer = NoAnswer \/ inMatch
    BY <1>6 DEF remove, NoPacketInHand
  <2> QED
    BY <1>0, <1>6, <2>1, <2>2 DEF remove
<1>7. ASSUME NEW n \in Name, NEW i \in IpAddress, contains(n, i)
      PROVE  Good
  BY <1>0, <1>7 DEF contains, blockHistory
<1>8. CASE addIp
  <2>1. \/ UNCHANGED list
        \/ DOMAIN list' = DOMAIN list \cup {answer.name}
    BY <1>8 DEF addIp, Changed
  <2>2. answer # NoAnswer /\ answer' = NoAnswer /\ UNCHANGED <<unblocked, midAnswer>>
    BY <1>8 DEF addIp
  <2> QED
    BY <1>0, <2>1, <2>2
<1>9. CASE UNCHANGED blockVars
  BY <1>0, <1>9 DEF blockVars, blockHistory
<1> QED
  BY <1>1, <1>2, <1>3, <1>4, <1>5, <1>6, <1>7, <1>8, <1>9 DEF BlockNext

\* The invariant holds with the one file, in one of its forms or none, that is there at first.
LEMMA BlockInitially ==
  ASSUME BlockInit
  PROVE  BlockInv
<1>1. PICK n \in Name, i \in IpAddress, place \in {"dat", "json", "txt", "nowhere"} :
        LET old == File("ok", [x \in {n} |-> {i}]) IN
          /\ dat = IF place = "dat" THEN old ELSE NoFile
          /\ json = IF place = "json" THEN old ELSE NoFile
          /\ txt = IF place = "txt" THEN old ELSE NoFile
          /\ durable = IF place = "nowhere" THEN {Nobody} ELSE {old.list}
  BY DEF BlockInit
<1> DEFINE l == [x \in {n} |-> {i}]
<1>2. l \in Lists
  <2>1. {n} \subseteq Name /\ l \in [{n} -> SUBSET IpAddress]
    OBVIOUS
  <2> QED
    BY <2>1, ListsAreMaps
<1>3. /\ File("ok", l).state = "ok" /\ File("ok", l).list = l
      /\ NoFile.state = "none" /\ NoFile.list = Nobody
  BY DEF File, NoFile
<1> HIDE DEF l
<1>4. \A f \in {dat, tmp, json, txt} : f = NoFile \/ f = File("ok", l)
  BY <1>1 DEF BlockInit, l
<1>5. BlockTypeOK
  <2>1. \A f \in {dat, tmp, json, txt} : f.state \in {"none", "broken", "ok"} /\ f.list \in Lists
    BY <1>2, <1>3, <1>4, NobodyIsAList
  <2>2. durable \subseteq Lists
    BY <1>1, <1>2, <1>3, NobodyIsAList DEF l
  <2> QED
    <3>1. calls \in 0..MaxCalls
      BY BlockAssumption DEF BlockInit
    <3>2. list \in Lists /\ addresses = Addresses(list)
      BY NobodyIsAList DEF BlockInit
    <3>3. /\ answer = NoAnswer /\ {migrated, inMatch, exposed} \subseteq BOOLEAN
          /\ step = "off"
      BY DEF BlockInit
    <3> QED
      BY <2>1, <2>2, <3>1, <3>2, <3>3 DEF BlockTypeOK
<1>6. Found.list \in durable
  <2>1. dat = NoFile \/ dat = File("ok", l)
    BY <1>4
  <2>2. CASE place = "dat"
    BY <1>1, <1>3, <2>2 DEF Found, l
  <2>3. CASE place = "json"
    BY <1>1, <1>3, <2>3 DEF Found, l
  <2>4. CASE place = "txt"
    BY <1>1, <1>3, <2>4 DEF Found, l
  <2>5. CASE place = "nowhere"
    BY <1>1, <1>3, <2>5 DEF Found, l
  <2> QED
    BY <2>2, <2>3, <2>4, <2>5
<1> QED
  BY <1>5, <1>6
     DEF BlockInit, BlockInv, TemporaryHoldsTheList, RetiredWhenReplaced, AlwaysSurvives,
         AnswerInHand, UnblockedStays

\* What the block list keeps at every moment: its types, the list and its addresses in
\* step, what the files hold through the steps of a save, and what an answer in hand is
\* about.
THEOREM BlockInvariant == BlockSpec => []BlockInv
<1>1. BlockInit => BlockInv
  BY BlockInitially
<1>2. BlockInv /\ [BlockNext]_blockVars => BlockInv'
  BY BlockTypesKept, BlockFilesKept, UnblockedKept DEF BlockInv
<1> QED
  BY <1>1, <1>2, PTL DEF BlockSpec

\* The addresses refused are those of the blocked players, whoever shares one
\* (rebuildAddressesLocked, addIp).
THEOREM BlockTypeCorrect == BlockSpec => []BlockTypeOK
<1>1. BlockInv => BlockTypeOK
  BY DEF BlockInv
<1> QED
  BY <1>1, BlockInvariant, PTL

\* Wherever the program ends, between two steps of saveLocked or of initialize, its next
\* start finds the list as it was saved last, or as the change under way makes it.
THEOREM ListSurvivesAlways == BlockSpec => []ListSurvives
<1>1. BlockInv => ListSurvives
  BY DEF BlockInv, AlwaysSurvives, ListSurvives
<1> QED
  BY <1>1, BlockInvariant, PTL

\* The server's answer about a player does not put him back after /unblock, but during a
\* match.
THEOREM UnblockedStaysAlways == BlockSpec => []UnblockedStays
<1>1. BlockInv => UnblockedStays
  BY DEF BlockInv
<1> QED
  BY <1>1, BlockInvariant, PTL

(***************************************************************************)
(* The statistics and the achievements.                                    *)
(***************************************************************************)
\* Statistics of at most p matches.
StatsUpTo(p) == [games : 0..p, used : 0..(p * MaxUses)]

\* What the matches played so far may have left, in memory, in a file, in the past.
RecordsTypes ==
  /\ played \in 0..MaxGames /\ damages \in 0..MaxDamages
  /\ {stats, kept, before, statsDat.stats, backupDat.stats} \subseteq StatsUpTo(played)
  /\ awarded \subseteq Achievement /\ safe \subseteq Achievement
  /\ achDat.awarded \subseteq Achievement /\ achDat.flags \in BOOLEAN
  /\ locked \in BOOLEAN /\ counting \in BOOLEAN /\ behind \in BOOLEAN
  /\ damaged \in BOOLEAN /\ torn \in BOOLEAN
  /\ saving \in {"off", "idle", "write", "copy", "replace", "award", "open", "fill"}

\* stats.dat holds what was kept, or nothing that can be read; without it there is nothing
\* worth keeping.
MainFile ==
  /\ \/ statsDat = StatsFile(kept)
     \/ statsDat = Unreadable /\ damaged
     \/ statsDat = Missing /\ backupDat.state # "ok" /\ kept = NoStats
  /\ \/ backupDat.state = "ok" /\ backupDat = StatsFile(backupDat.stats)
     \/ backupDat \in {Missing, Unreadable}

\* What a start would make of the backup.
BackupValue == IF backupDat.state = "ok" THEN backupDat.stats ELSE NoStats

\* The backup is not more than one saving behind; it has caught up when stats.dat is about
\* to be replaced.
BackupFollows ==
  ~behind => /\ BackupValue \in {kept, before}
             /\ saving = "replace" => BackupValue = kept

\* A match was counted, and not awarded for yet.
Owing == counting /\ saving \in {"write", "copy", "replace", "award"}

\* Every achievement the statistics deserve has been awarded, but for those of the match
\* that is being counted: the card's, and that of exactly so many games.
AllAwarded ==
  /\ saving = "award" => counting
  /\ saving # "off" /\ ~locked =>
       \A a \in Achievement :
         Deserves(stats, a) =>
           \/ a \in awarded
           \/ Owing /\ (a.type = "use_card" \/ (a.type = "play" /\ a.count = stats.games))

\* The achievements' file is whole but while it is being written, and nothing it held is
\* forgotten.
AchievementsFile ==
  ~torn => /\ saving # "fill" => achDat.awarded = safe
           /\ saving # "off" => safe \subseteq awarded

RecordsInv ==
  /\ RecordsTypes
  /\ MainFile
  /\ BackupFollows
  /\ AllAwarded
  /\ AchievementsFile

\* Statistics of few matches are statistics of more.
LEMMA StatsGrow ==
  ASSUME NEW p \in Nat, NEW q \in Nat, p <= q
  PROVE  StatsUpTo(p) \subseteq StatsUpTo(q)
<1>1. MaxUses \in Nat
  BY RecordsAssumption
<1>2. p * MaxUses \in Nat /\ q * MaxUses \in Nat /\ p * MaxUses <= q * MaxUses
  BY <1>1
<1>3. 0..p \subseteq 0..q /\ 0..(p * MaxUses) \subseteq 0..(q * MaxUses)
  BY <1>2
<1> QED
  BY <1>3 DEF StatsUpTo

\* One more match, with as many uses as a match may have.
LEMMA OneMoreMatch ==
  ASSUME NEW p \in Nat, NEW s \in StatsUpTo(p), NEW uses \in 0..MaxUses
  PROVE  [games |-> s.games + 1, used |-> s.used + uses] \in StatsUpTo(p + 1)
<1>1. MaxUses \in Nat
  BY RecordsAssumption
<1>2. p * MaxUses \in Nat /\ (p + 1) * MaxUses = p * MaxUses + MaxUses
  BY <1>1
<1>3. s.games \in 0..p /\ s.used \in 0..(p * MaxUses)
  BY DEF StatsUpTo
<1>4. s.games + 1 \in 0..(p + 1)
  BY <1>3
<1>5. s.used + uses \in 0..((p + 1) * MaxUses)
  BY <1>1, <1>2, <1>3
<1> QED
  BY <1>4, <1>5 DEF StatsUpTo

\* Empty statistics are those of no match, or of fewer than p.
LEMMA NothingPlayed ==
  ASSUME NEW p \in Nat
  PROVE  NoStats \in StatsUpTo(p)
<1>1. p * MaxUses \in Nat
  BY RecordsAssumption
<1> QED
  BY <1>1 DEF NoStats, StatsUpTo

\* What the statistics, of the memory and of the files, may become without a match.
StatsForms == {NoStats, stats, kept, before, statsDat.stats, backupDat.stats}

\* Copied statistics are of no more matches than were played.
LEMMA StatsTyped ==
  ASSUME RecordsTypes, UNCHANGED played,
         {stats', kept', before', statsDat'.stats, backupDat'.stats} \subseteq StatsForms
  PROVE  {stats', kept', before', statsDat'.stats, backupDat'.stats} \subseteq StatsUpTo(played')
<1>1. played \in Nat
  BY RecordsAssumption DEF RecordsTypes
<1>2. StatsForms \subseteq StatsUpTo(played)
  BY <1>1, NothingPlayed DEF RecordsTypes, StatsForms
<1> QED
  BY <1>2

\* Every step keeps the types.
LEMMA RecordsTypesKept ==
  ASSUME RecordsInv, [RecordsNext]_recordsVars
  PROVE  RecordsTypes'
<1> DEFINE Simple == /\ played' \in 0..MaxGames /\ damages' \in 0..MaxDamages
                     /\ awarded' \subseteq Achievement /\ safe' \subseteq Achievement
                     /\ achDat'.awarded \subseteq Achievement /\ achDat'.flags \in BOOLEAN
                     /\ locked' \in BOOLEAN /\ counting' \in BOOLEAN /\ behind' \in BOOLEAN
                     /\ damaged' \in BOOLEAN /\ torn' \in BOOLEAN
                     /\ saving' \in {"off", "idle", "write", "copy", "replace", "award",
                                     "open", "fill"}
<1> DEFINE Valued == {stats', kept', before', statsDat'.stats, backupDat'.stats}
                       \subseteq StatsUpTo(played')
<1>0. RecordsTypes /\ MainFile
  BY DEF RecordsInv
<1>a. /\ \A s : StatsFile(s).stats = s
      /\ Missing.stats = NoStats /\ Unreadable.stats = NoStats
  BY DEF StatsFile, Missing, Unreadable
<1>b. \A f, a : AchFile(f, a).flags = f /\ AchFile(f, a).awarded = a
  BY DEF AchFile
<1>c. \A s, have : GrantsAll(s, have) \subseteq Achievement
  BY DEF GrantsAll, Owed
<1>1. CASE WritesTemporary
  <2>1. Simple
    BY <1>0, <1>1 DEF RecordsTypes, WritesTemporary, Saves, StatsSaved, memory, statsPast, achPast
  <2>2. Valued
    BY <1>0, <1>1, StatsTyped DEF WritesTemporary, memory, statsFiles, statsPast, StatsForms
  <2> QED
    BY <2>1, <2>2 DEF RecordsTypes
<1>2. CASE CopiesBackup
  <2>1. Simple
    BY <1>0, <1>2 DEF RecordsTypes, CopiesBackup, Saves, memory, achPast
  <2>2. backupDat' \in {statsDat, backupDat, Unreadable}
    BY <1>2 DEF CopiesBackup
  <2>3. UNCHANGED <<stats, kept, before, statsDat, played>>
    BY <1>2 DEF CopiesBackup, memory
  <2>4. Valued
    BY <1>0, <1>a, <2>2, <2>3, StatsTyped DEF StatsForms
  <2> QED
    BY <2>1, <2>4 DEF RecordsTypes
<1>3. CASE Replaces
  <2>1. Simple
    BY <1>0, <1>3 DEF RecordsTypes, Replaces, Saves, StatsSaved, memory, achPast
  <2>2. \/ statsDat' = StatsFile(stats) /\ kept' = stats /\ before' = kept
        \/ UNCHANGED <<statsDat, kept, before>>
    BY <1>3 DEF Replaces
  <2>3. UNCHANGED <<stats, backupDat, played>>
    BY <1>3 DEF Replaces, memory
  <2>4. Valued
    BY <1>0, <1>a, <2>2, <2>3, StatsTyped DEF StatsForms
  <2> QED
    BY <2>1, <2>4 DEF RecordsTypes
<1>4. CASE Awards
  <2>1. awarded' \subseteq Achievement
    BY <1>0, <1>4 DEF RecordsTypes, Awards, OneOf, Owed
  <2>2. Simple
    BY <1>0, <1>4, <2>1 DEF RecordsTypes, Awards, Saves, memory, statsPast, achPast
  <2>3. Valued
    BY <1>0, <1>4, StatsTyped DEF Awards, statsFiles, statsPast, StatsForms
  <2> QED
    BY <2>2, <2>3 DEF RecordsTypes
<1>5. CASE OpensAchievements
  <2>1. Simple
    BY <1>0, <1>b, <1>5, ZenonT(40)
       DEF RecordsTypes, OpensAchievements, Saves, memory, statsPast, achPast
  <2>2. Valued
    BY <1>0, <1>5, StatsTyped DEF OpensAchievements, memory, statsFiles, statsPast, StatsForms
  <2> QED
    BY <2>1, <2>2 DEF RecordsTypes
<1>6. CASE FillsAchievements
  <2>0. /\ achDat' = achDat \/ achDat' = AchFile(locked, awarded)
        /\ safe' \in {safe, awarded} /\ torn' \in BOOLEAN
    BY <1>6 DEF FillsAchievements
  <2>a. achDat'.awarded \subseteq Achievement /\ achDat'.flags \in BOOLEAN
    BY <1>0, <1>b, <2>0 DEF RecordsTypes
  <2>1. Simple
    BY <1>0, <1>6, <2>0, <2>a DEF RecordsTypes, FillsAchievements, Saves, memory, statsPast
  <2>2. Valued
    BY <1>0, <1>6, StatsTyped DEF FillsAchievements, memory, statsFiles, statsPast, StatsForms
  <2> QED
    BY <2>1, <2>2 DEF RecordsTypes
<1>7. CASE Plays
  <2>1. played \in Nat /\ played' = played + 1 /\ played' \in 0..MaxGames
    BY <1>0, <1>7, RecordsAssumption DEF RecordsTypes, Plays
  <2>2. Simple
    BY <1>0, <1>7, <2>1 DEF RecordsTypes, Plays, Saves, statsPast, achPast
  <2>3. stats' \in StatsUpTo(played + 1)
    BY <1>0, <1>7, <2>1, OneMoreMatch DEF RecordsTypes, Plays
  <2>4. StatsUpTo(played) \subseteq StatsUpTo(played + 1)
    BY <2>1, StatsGrow
  <2>5. UNCHANGED <<kept, before, statsDat, backupDat>>
    BY <1>7 DEF Plays, statsFiles, statsPast
  <2>6. {kept, before, statsDat.stats, backupDat.stats} \subseteq StatsUpTo(played)
    BY <1>0 DEF RecordsTypes
  <2>7. Valued
    BY <2>1, <2>3, <2>4, <2>5, <2>6
  <2> QED
    BY <2>2, <2>7 DEF RecordsTypes
<1>8. CASE AwardsSpecial
  <2>1. Simple
    BY <1>0, <1>8 DEF RecordsTypes, AwardsSpecial, Saves, statsPast, achPast
  <2>2. Valued
    BY <1>0, <1>8, StatsTyped DEF AwardsSpecial, statsFiles, statsPast, StatsForms
  <2> QED
    BY <2>1, <2>2 DEF RecordsTypes
<1>9. CASE SavesAll
  <2>1. Simple
    BY <1>0, <1>9 DEF RecordsTypes, SavesAll, Saves, memory, statsPast, achPast
  <2>2. Valued
    BY <1>0, <1>9, StatsTyped DEF SavesAll, memory, statsFiles, statsPast, StatsForms
  <2> QED
    BY <2>1, <2>2 DEF RecordsTypes
<1>10. CASE EndsAnywhere
  <2>1. torn' \in BOOLEAN
    BY <1>0, <1>10 DEF RecordsTypes, EndsAnywhere
  <2>2. Simple
    BY <1>0, <1>10, <2>1 DEF RecordsTypes, EndsAnywhere, statsPast
  <2>3. Valued
    BY <1>0, <1>10, StatsTyped DEF EndsAnywhere, statsFiles, statsPast, StatsForms
  <2> QED
    BY <2>2, <2>3 DEF RecordsTypes
<1>11. CASE Damages
  <2>1. damages' \in 0..MaxDamages
    BY <1>0, <1>11, RecordsAssumption DEF RecordsTypes, Damages
  <2>2. UNCHANGED <<stats, awarded, locked, saving, counting, played, kept, before, safe>>
    BY <1>11 DEF Damages, memory
  <2>3. /\ achDat' = achDat \/ \E f \in BOOLEAN : achDat' = AchFile(f, {})
        /\ statsDat' \in {statsDat, Unreadable} /\ backupDat' \in {backupDat, Unreadable}
        /\ behind' \in {behind, TRUE} /\ damaged' \in {damaged, TRUE} /\ torn' \in {torn, TRUE}
    BY <1>11 DEF Damages, statsFiles
  <2>4. achDat'.awarded \subseteq Achievement /\ achDat'.flags \in BOOLEAN
    BY <1>0, <1>b, <2>3 DEF RecordsTypes
  <2>5. Simple
    BY <1>0, <2>1, <2>2, <2>3, <2>4 DEF RecordsTypes
  <2>6. Valued
    BY <1>0, <1>a, <2>2, <2>3, StatsTyped DEF StatsForms
  <2> QED
    BY <2>5, <2>6 DEF RecordsTypes
<1>12. CASE Starts
  <2>1. Loaded \in StatsForms
    BY DEF Loaded, StatsForms
  <2>2. /\ statsDat' \in {statsDat, backupDat, Missing} /\ backupDat' \in {backupDat, Missing}
        /\ stats' = Loaded /\ kept' \in {kept, Loaded} /\ before' \in {before, Loaded}
        /\ UNCHANGED played
    BY <1>12 DEF Starts, Recovers, statsFiles
  <2>3. Valued
    BY <1>0, <1>a, <2>1, <2>2, StatsTyped DEF StatsForms
  <2>4. awarded' \subseteq Achievement
    BY <1>0, <1>c, <1>12 DEF RecordsTypes, Starts
  <2>5. damaged' \in BOOLEAN /\ behind' \in BOOLEAN /\ locked' \in BOOLEAN
    BY <1>0, <1>12 DEF RecordsTypes, Starts
  <2>6. Simple
    BY <1>0, <1>12, <2>4, <2>5 DEF RecordsTypes, Starts, achPast
  <2> QED
    BY <2>3, <2>6 DEF RecordsTypes
<1>13. CASE UNCHANGED recordsVars
  BY <1>0, <1>13 DEF RecordsTypes, recordsVars, memory, statsFiles, statsPast, achPast
<1> QED
  BY <1>1, <1>2, <1>3, <1>4, <1>5, <1>6, <1>7, <1>8, <1>9, <1>10, <1>11, <1>12, <1>13
     DEF RecordsNext

\* A step keeps what the two files of the statistics hold.
LEMMA StatsFilesKept ==
  ASSUME RecordsInv, [RecordsNext]_recordsVars
  PROVE  MainFile' /\ BackupFollows'
<1> USE DEF MainFile, BackupFollows, BackupValue
<1> DEFINE Good == MainFile' /\ BackupFollows'
<1>0. MainFile /\ BackupFollows
  BY DEF RecordsInv
<1>a. /\ \A s : StatsFile(s).state = "ok" /\ StatsFile(s).stats = s
      /\ Missing.state = "none" /\ Unreadable.state = "broken"
      /\ Missing.stats = NoStats /\ Unreadable.stats = NoStats
  BY DEF StatsFile, Missing, Unreadable
<1>1. CASE \/ WritesTemporary \/ Awards \/ OpensAchievements \/ FillsAchievements
           \/ Plays \/ AwardsSpecial \/ SavesAll \/ EndsAnywhere
  <2>1. UNCHANGED <<statsDat, backupDat, kept, before, behind, damaged>>
    BY <1>1 DEF WritesTemporary, Awards, OpensAchievements, FillsAchievements, Plays,
                AwardsSpecial, SavesAll, EndsAnywhere, statsFiles, statsPast
  <2>2. saving' # "replace"
    BY <1>1 DEF WritesTemporary, Awards, OpensAchievements, FillsAchievements, Plays,
                AwardsSpecial, SavesAll, EndsAnywhere, Saves, StatsSaved
  <2> QED
    BY <1>0, <2>1, <2>2
<1>2. CASE CopiesBackup
  <2>1. UNCHANGED <<statsDat, kept, before, damaged>>
    BY <1>2 DEF CopiesBackup
  <2>2. CASE statsDat = Missing
    <3>1. UNCHANGED <<backupDat, behind>>
      BY <1>2, <2>2 DEF CopiesBackup
    <3> QED
      BY <1>0, <1>a, <2>1, <2>2, <3>1
  <2>3. CASE statsDat # Missing
    <3>1. backupDat' \in {statsDat, backupDat, Unreadable}
      BY <1>2, <2>3 DEF CopiesBackup
    <3>2. ~behind' => backupDat' = StatsFile(kept)
      BY <1>2, <2>3 DEF CopiesBackup
    <3>3. BackupFollows'
      BY <1>a, <2>1, <3>2
    <3>4. MainFile'
      BY <1>0, <1>a, <2>1, <2>3, <3>1
    <3> QED
      BY <3>3, <3>4
  <2> QED
    BY <2>2, <2>3
<1>3. CASE Replaces
  <2>1. saving = "replace" /\ saving' # "replace" /\ UNCHANGED <<backupDat, behind>>
    BY <1>3 DEF Replaces, Saves, StatsSaved
  <2>2. \/ statsDat' = StatsFile(stats) /\ kept' = stats /\ before' = kept /\ damaged' = FALSE
        \/ UNCHANGED <<statsDat, kept, before, damaged>>
    BY <1>3 DEF Replaces
  <2> QED
    BY <1>0, <1>a, <2>1, <2>2
<1>4. CASE Damages
  <2>1. UNCHANGED <<saving, kept, before>> /\ saving = "off"
    BY <1>4 DEF Damages
  <2>2. \/ statsDat # Missing /\ statsDat' = Unreadable /\ damaged' = TRUE
           /\ UNCHANGED <<backupDat, behind>>
        \/ backupDat # Missing /\ backupDat' = Unreadable /\ behind' = TRUE
           /\ UNCHANGED <<statsDat, damaged>>
        \/ UNCHANGED <<statsDat, backupDat, behind, damaged>>
    BY <1>4 DEF Damages, statsFiles
  <2> QED
    BY <1>0, <1>a, <2>1, <2>2
<1>5. CASE Starts
  <2>0. saving' = "idle" /\ damaged' = (statsDat'.state = "broken")
    BY <1>5 DEF Starts
  <2>1. CASE statsDat.state = "ok"
    <3>1. UNCHANGED <<statsDat, backupDat, kept, before, behind>>
      BY <1>5, <2>1 DEF Starts, Recovers, statsFiles
    <3> QED
      BY <1>0, <1>a, <2>0, <2>1, <3>1
  <2>2. CASE statsDat.state # "ok" /\ backupDat.state = "ok"
    <3>1. /\ statsDat' \in {statsDat, backupDat} /\ UNCHANGED backupDat
          /\ kept' = backupDat.stats /\ before' = backupDat.stats
      BY <1>5, <2>2 DEF Starts, Recovers, Loaded
    <3>2. statsDat = Unreadable /\ backupDat = StatsFile(backupDat.stats)
      BY <1>0, <1>a, <2>2
    <3> QED
      BY <1>a, <2>0, <2>2, <3>1, <3>2
  <2>3. CASE statsDat.state # "ok" /\ backupDat.state # "ok"
    <3>1. /\ statsDat' \in {statsDat, Missing} /\ backupDat' \in {backupDat, Missing}
          /\ kept' = NoStats /\ before' = NoStats
      BY <1>5, <2>3 DEF Starts, Recovers, Loaded
    <3>2. statsDat \in {Missing, Unreadable} /\ backupDat \in {Missing, Unreadable}
      BY <1>0, <1>a, <2>3
    <3> QED
      BY <1>a, <2>0, <3>1, <3>2
  <2> QED
    BY <2>1, <2>2, <2>3
<1>6. CASE UNCHANGED recordsVars
  BY <1>0, <1>6 DEF recordsVars, statsFiles, statsPast
<1> QED
  BY <1>1, <1>2, <1>3, <1>4, <1>5, <1>6 DEF RecordsNext

\* Statistics of one match more deserve what they did, the card's achievement, and that of
\* just so many games.
LEMMA DeservedSinceMatch ==
  ASSUME NEW p \in Nat, NEW s \in StatsUpTo(p), NEW uses \in 0..MaxUses,
         NEW t, t = [games |-> s.games + 1, used |-> s.used + uses],
         NEW a \in Achievement, Deserves(t, a)
  PROVE  \/ Deserves(s, a)
         \/ a.type = "use_card"
         \/ a.type = "play" /\ a.count = t.games
<1>1. /\ a.type \in {"play", "use_card", "special"} /\ a.count \in Nat
      /\ MaxUses \in Nat
  BY RecordsAssumption
<1>2. p * MaxUses \in Nat
  BY <1>1
<1>3. s.games \in Nat /\ s.used \in Nat /\ t.games = s.games + 1
  BY <1>2 DEF StatsUpTo
<1>4. CASE a.type = "play"
  BY <1>1, <1>3, <1>4 DEF Deserves
<1>5. CASE a.type = "special"
  BY <1>5 DEF Deserves
<1> QED
  BY <1>1, <1>4, <1>5

\* countGame awards one of each kind, and there is only one that a match may have earned.
LEMMA AwardsEnough ==
  ASSUME RecordsInv, Awards, ~locked,
         NEW a \in Achievement, Deserves(stats, a)
  PROVE  a \in awarded'
<1>1. PICK game \in OneOf(Owed(stats, awarded, "play")),
           card \in OneOf(Owed(stats, awarded, "use_card")),
           special \in {{}} \cup OneOf({b \in Achievement \ awarded : b.type = "special"}) :
             awarded' = awarded \cup game \cup card \cup special
  BY DEF Awards
<1>2. \/ a \in awarded
      \/ a.type = "use_card"
      \/ a.type = "play" /\ a.count = stats.games
  BY DEF RecordsInv, AllAwarded, Awards, Saves
<1>3. Achievement \subseteq [type : {"play", "use_card", "special"}, count : Nat]
  BY RecordsAssumption
<1>4. CASE a \in awarded
  BY <1>1, <1>4
<1>5. CASE a \notin awarded /\ a.type = "use_card"
  <2>1. a \in Owed(stats, awarded, "use_card")
    BY <1>5 DEF Owed
  <2>2. \A b \in Owed(stats, awarded, "use_card") : b = a
    BY <1>5, RecordsAssumption DEF Owed
  <2>3. card = {a}
    BY <2>1, <2>2 DEF OneOf
  <2> QED
    BY <1>1, <2>3
<1>6. CASE a \notin awarded /\ a.type = "play" /\ a.count = stats.games
  <2>1. a \in Owed(stats, awarded, "play")
    BY <1>6 DEF Owed
  <2>2. \A b \in Owed(stats, awarded, "play") : b.type = "play" /\ b.count = stats.games
    <3> TAKE b \in Owed(stats, awarded, "play")
    <3>1. b \in Achievement /\ b \notin awarded /\ b.type = "play" /\ Deserves(stats, b)
      BY DEF Owed
    <3> QED
      BY <3>1 DEF RecordsInv, AllAwarded, Awards, Saves
  <2>3. \A b \in Owed(stats, awarded, "play") : b = a
    <3> TAKE b \in Owed(stats, awarded, "play")
    <3>1. b \in Achievement
      BY DEF Owed
    <3> QED
      BY <1>3, <1>6, <2>2, <3>1
  <2>4. game = {a}
    BY <2>1, <2>3 DEF OneOf
  <2> QED
    BY <1>1, <2>4
<1> QED
  BY <1>2, <1>4, <1>5, <1>6

\* At the start, everything the statistics deserve is awarded.
LEMMA GrantsWhatIsDeserved ==
  ASSUME NEW s, NEW have, NEW a \in Achievement, Deserves(s, a)
  PROVE  a \in have \cup GrantsAll(s, have)
<1>1. a.type = "play" \/ a.type = "use_card"
  BY DEF Deserves
<1> QED
  BY <1>1 DEF GrantsAll, Owed

\* A step keeps what is said of the awards and of their file.
LEMMA AwardsKept ==
  ASSUME RecordsInv, [RecordsNext]_recordsVars
  PROVE  AllAwarded'
<1> DEFINE Rest(a) == Owing /\ (a.type = "use_card" \/ (a.type = "play" /\ a.count = stats.games))
<1>0. /\ saving = "award" => counting
      /\ saving # "off" /\ ~locked =>
           \A a \in Achievement : Deserves(stats, a) => a \in awarded \/ Rest(a)
  BY DEF RecordsInv, AllAwarded
<1>1. CASE \/ WritesTemporary \/ CopiesBackup \/ Replaces \/ OpensAchievements
           \/ FillsAchievements \/ SavesAll
  <2>1. UNCHANGED <<stats, awarded, locked>>
    BY <1>1 DEF WritesTemporary, CopiesBackup, Replaces, OpensAchievements,
                FillsAchievements, SavesAll, memory
  <2>a. saving # "off" /\ saving' # "off"
    BY <1>1 DEF WritesTemporary, CopiesBackup, Replaces, OpensAchievements,
                FillsAchievements, SavesAll, Saves, StatsSaved
  <2>b. ASSUME WritesTemporary \/ Replaces PROVE saving' = "award" => counting'
    BY <2>b DEF WritesTemporary, Replaces, Saves, StatsSaved
  <2>c. ASSUME ~(WritesTemporary \/ Replaces) PROVE saving' # "award"
    BY <1>1, <2>c DEF CopiesBackup, OpensAchievements, FillsAchievements, SavesAll, Saves
  <2>2. saving # "off" /\ saving' # "off" /\ (saving' = "award" => counting')
    BY <2>a, <2>b, <2>c
  <2>3. Owing => Owing'
    BY <1>0, <1>1 DEF WritesTemporary, CopiesBackup, Replaces, OpensAchievements,
                FillsAchievements, SavesAll, Saves, StatsSaved, Owing
  <2> QED
    BY <1>0, <2>1, <2>2, <2>3 DEF AllAwarded
<1>2. CASE Awards
  <2>1. saving' = "open" /\ UNCHANGED <<stats, locked>>
    BY <1>2 DEF Awards, Saves
  <2> QED
    BY <1>2, <2>1, AwardsEnough DEF AllAwarded
<1>3. CASE Plays
  <2>1. saving = "idle" /\ saving' = "write" /\ counting' /\ UNCHANGED <<awarded, locked>>
    BY <1>3 DEF Plays, Saves
  <2>2. Owing' /\ ~Owing
    BY <2>1 DEF Owing
  <2>3. PICK uses \in 0..MaxUses :
          stats' = [games |-> stats.games + 1, used |-> stats.used + uses]
    BY <1>3 DEF Plays
  <2>4. played \in Nat /\ stats \in StatsUpTo(played)
    BY RecordsAssumption DEF RecordsInv, RecordsTypes
  <2>5. ASSUME NEW a \in Achievement, Deserves(stats', a)
        PROVE  \/ Deserves(stats, a)
               \/ a.type = "use_card"
               \/ a.type = "play" /\ a.count = stats'.games
    BY <2>3, <2>4, <2>5, DeservedSinceMatch
  <2> QED
    BY <1>0, <2>1, <2>2, <2>5 DEF AllAwarded
<1>4. CASE AwardsSpecial
  <2>1. /\ saving = "idle" /\ saving' \in {"open", "idle"} /\ UNCHANGED <<stats, locked>>
        /\ awarded \subseteq awarded'
    BY <1>4 DEF AwardsSpecial, Saves
  <2> QED
    BY <1>0, <2>1 DEF AllAwarded, Owing
<1>5. CASE EndsAnywhere
  BY <1>5 DEF EndsAnywhere, AllAwarded
<1>6. CASE Damages
  <2>1. saving = "off" /\ saving' = "off"
    BY <1>6 DEF Damages
  <2> QED
    BY <2>1 DEF AllAwarded
<1>7. CASE Starts
  <2>1. saving' = "idle" /\ stats' = Loaded /\ locked' = achDat.flags
    BY <1>7 DEF Starts
  <2>2. ~locked' => awarded' = achDat.awarded \cup GrantsAll(Loaded, achDat.awarded)
    BY <1>7 DEF Starts
  <2> QED
    BY <2>1, <2>2, GrantsWhatIsDeserved DEF AllAwarded
<1>8. CASE UNCHANGED recordsVars
  BY <1>0, <1>8 DEF recordsVars, memory, AllAwarded, Owing
<1> QED
  BY <1>1, <1>2, <1>3, <1>4, <1>5, <1>6, <1>7, <1>8 DEF RecordsNext

\* Every step keeps what the file of achievements holds.
LEMMA AchievementsFileKept ==
  ASSUME RecordsInv, [RecordsNext]_recordsVars
  PROVE  AchievementsFile'
<1> USE DEF AchievementsFile
<1>0. AchievementsFile
  BY DEF RecordsInv
<1>a. \A f, a : AchFile(f, a).awarded = a
  BY DEF AchFile
<1>1. CASE WritesTemporary \/ CopiesBackup \/ Replaces \/ Awards \/ Plays \/ AwardsSpecial
           \/ SavesAll
  <2>1. UNCHANGED <<achDat, safe, torn>> /\ awarded \subseteq awarded'
    BY <1>1 DEF WritesTemporary, CopiesBackup, Replaces, Awards, Plays, AwardsSpecial,
                SavesAll, memory, achPast
  <2>2. saving \notin {"off", "fill"}
    BY <1>1 DEF WritesTemporary, CopiesBackup, Replaces, Awards, Plays, AwardsSpecial,
                SavesAll, Saves
  <2> QED
    BY <1>0, <2>1, <2>2
<1>2. CASE OpensAchievements
  BY <1>0, <1>2 DEF OpensAchievements, Saves, memory, achPast
<1>3. CASE FillsAchievements
  BY <1>0, <1>a, <1>3 DEF FillsAchievements, Saves, memory
<1>4. CASE EndsAnywhere
  BY <1>0, <1>4 DEF EndsAnywhere
<1>5. CASE Damages
  BY <1>0, <1>5 DEF Damages
<1>6. CASE Starts
  BY <1>0, <1>6 DEF Starts, achPast
<1>7. CASE UNCHANGED recordsVars
  BY <1>0, <1>7 DEF recordsVars, memory, achPast
<1> QED
  BY <1>1, <1>2, <1>3, <1>4, <1>5, <1>6, <1>7 DEF RecordsNext

\* The invariant holds before the first start.
LEMMA RecordsInitially ==
  ASSUME RecordsInit
  PROVE  RecordsInv
<1>1. played \in Nat /\ played \in 0..MaxGames /\ damages \in 0..MaxDamages
  BY RecordsAssumption DEF RecordsInit
<1>2. {stats, kept, before, statsDat.stats, backupDat.stats} \subseteq StatsUpTo(played)
  <2>1. stats = NoStats /\ kept = NoStats /\ before = NoStats /\ statsDat = Missing
        /\ backupDat = Missing /\ Missing.stats = NoStats
    BY DEF RecordsInit, Missing
  <2> QED
    BY <1>1, <2>1, NothingPlayed
<1>3. achDat.awarded = {} /\ achDat.flags = FALSE /\ Missing.state = "none"
      /\ Missing.stats = NoStats
  BY DEF RecordsInit, AchFile, Missing
<1>4. RecordsTypes
  BY <1>1, <1>2, <1>3 DEF RecordsInit, RecordsTypes
<1>5. MainFile /\ BackupFollows
  BY <1>3 DEF RecordsInit, MainFile, BackupFollows, BackupValue
<1>6. AllAwarded /\ AchievementsFile
  BY <1>3 DEF RecordsInit, AllAwarded, AchievementsFile
<1> QED
  BY <1>4, <1>5, <1>6 DEF RecordsInv

\* What the statistics and the achievements keep at every moment, through every step of a
\* saving: what each file holds of what was saved, and which achievements may still be owed.
THEOREM RecordsInvariant == RecordsSpec => []RecordsInv
<1>1. RecordsInit => RecordsInv
  BY RecordsInitially
<1>2. RecordsInv /\ [RecordsNext]_recordsVars => RecordsInv'
  BY RecordsTypesKept, StatsFilesKept, AwardsKept, AchievementsFileKept DEF RecordsInv
<1> QED
  BY <1>1, <1>2, PTL DEF RecordsSpec

\* The counters of the statistics, in memory and in the files, are of the matches that were
\* played, and what is awarded is an achievement of the game.
THEOREM RecordsTypeCorrect == RecordsSpec => []RecordsTypeOK
<1>1. RecordsInv => RecordsTypeOK
  <2> SUFFICES ASSUME RecordsInv
               PROVE  RecordsTypeOK
    OBVIOUS
  <2>1. RecordsTypes /\ MainFile
    BY DEF RecordsInv
  <2>2. MaxGames \in Nat /\ played \in Nat /\ played <= MaxGames
    BY <2>1, RecordsAssumption DEF RecordsTypes
  <2>3. StatsUpTo(played) \subseteq StatsUpTo(MaxGames)
    BY <2>2, StatsGrow
  <2>4. \A s \in {stats, kept, before, statsDat.stats, backupDat.stats} :
          s \in StatsUpTo(MaxGames)
    BY <2>1, <2>3 DEF RecordsTypes
  <2>5. {stats, kept, before} \subseteq
          [games : 0..MaxGames, used : 0..(MaxGames * MaxUses)]
    BY <2>4 DEF StatsUpTo
  <2>6. NoStats \in StatsUpTo(MaxGames)
    BY <2>2, NothingPlayed
  <2> DEFINE Files == [state : {"none", "broken", "ok"},
                       stats : [games : 0..MaxGames, used : 0..(MaxGames * MaxUses)]]
  <2>7. \A s \in StatsUpTo(MaxGames) : StatsFile(s) \in Files
    BY DEF StatsUpTo, StatsFile
  <2>8. Missing \in Files /\ Unreadable \in Files
    BY <2>6 DEF StatsUpTo, Missing, Unreadable
  <2>9. statsDat \in Files /\ backupDat \in Files
    <3> HIDE DEF Files
    <3>1. statsDat \in {StatsFile(kept), Missing, Unreadable}
      BY <2>1 DEF MainFile
    <3>2. backupDat \in {StatsFile(backupDat.stats), Missing, Unreadable}
      BY <2>1 DEF MainFile
    <3> QED
      BY <2>4, <2>7, <2>8, <3>1, <3>2
  <2>10. {statsDat, backupDat} \subseteq Files
    BY <2>9
  <2> QED
    BY <2>1, <2>5, <2>10 DEF RecordsTypeOK, RecordsTypes
<1> QED
  BY <1>1, RecordsInvariant, PTL

\* Wherever the program ends, the next start finds the statistics last saved, or those of
\* the saving before when stats.dat was damaged and its backup was not; and whenever the
\* game goes on the player has every achievement they deserve, and all that were saved.
THEOREM ProgressSurvivesAlways == RecordsSpec => []ProgressSurvives
<1>1. RecordsInv => ProgressSurvives
  <2> SUFFICES ASSUME RecordsInv
               PROVE  ProgressSurvives
    OBVIOUS
  <2>1. StatsSurvive
    <3>1. /\ \A s : StatsFile(s).state = "ok" /\ StatsFile(s).stats = s
          /\ Missing.state = "none" /\ Unreadable.state = "broken"
      BY DEF StatsFile, Missing, Unreadable
    <3>2. MainFile /\ BackupFollows
      BY DEF RecordsInv
    <3> QED
      BY <3>1, <3>2 DEF StatsSurvive, Loaded, MainFile, BackupFollows, BackupValue
  <2>2. NothingOwed
    BY DEF RecordsInv, NothingOwed, AllAwarded, AchievementsFile, Owing
  <2> QED
    BY <2>1, <2>2 DEF ProgressSurvives
<1> QED
  BY <1>1, RecordsInvariant, PTL

(***************************************************************************)
(* The hooks that count a match.                                           *)
(***************************************************************************)
\* The flags are down outside of a match, unless one was watched.
FlagsDown ==
  /\ battle = "none" /\ ~stale => ~init /\ ~counted
  /\ battle = "watch" => stale

\* The frames of the list ascend, and are before the current one.
Ascending ==
  /\ \A i, j \in 1..Len(cardsUsed) : i < j => cardsUsed[i] < cardsUsed[j]
  /\ \A i \in 1..Len(cardsUsed) : cardsUsed[i] < currentFrame

\* Before its first frame nothing of a match has happened; after it, the list holds the
\* cards of this match, as often as it was rolled back, and the deck is the player's.
Prepared ==
  /\ ~init => /\ truth = {} /\ overAt = {} /\ records = <<>> /\ ~counted
              /\ currentFrame = 0
  /\ init => /\ deck = "own" /\ ToSet(cardsUsed) = truth
             /\ Ascending

\* No card is used after the end.
EndIsLast ==
  \A g \in overAt : g < currentFrame /\ \A h \in truth : h <= g

\* The match was counted, unless its end was rolled back, once it is over.
CountedWhenOver ==
  ~undone => /\ counted <=> overAt # {}
             /\ records = IF overAt = {} THEN <<>> ELSE <<[cards |-> truth, deck |-> "own"]>>

MatchRecord == [cards : SUBSET (0..MaxFrames), deck : {"own", "other"}]

MatchTypes ==
  /\ battle \in {"none", "play", "watch", "local"}
  /\ currentFrame \in 0..MaxFrames
  /\ overAt \subseteq 0..MaxFrames /\ truth \subseteq 0..MaxFrames
  /\ cardsUsed \in Seq(0..MaxFrames)
  /\ init \in BOOLEAN /\ counted \in BOOLEAN /\ stale \in BOOLEAN /\ undone \in BOOLEAN
  /\ deck \in {"none", "own", "other"} /\ (init => deck # "none")
  /\ records \in Seq(MatchRecord)
  /\ matches \in 0..MaxMatches /\ rollbacks \in 0..MaxRollbacks

MatchInv ==
  /\ MatchTypes
  /\ FlagsDown
  /\ battle = "play" /\ ~stale => Prepared /\ EndIsLast /\ CountedWhenOver

\* What PoppedFrom takes off the list is what it says.
LEMMA PopsTheEnd ==
  ASSUME cardsUsed \in Seq(Nat), NEW f \in Nat
  PROVE  \E n \in 0..Len(cardsUsed) :
           /\ PoppedFrom(f) = SubSeq(cardsUsed, 1, n)
           /\ \A i \in (n + 1)..Len(cardsUsed) : cardsUsed[i] >= f
           /\ n > 0 => cardsUsed[n] < f
<1> DEFINE Late(n) == \A i \in (n + 1)..Len(cardsUsed) : cardsUsed[i] >= f
<1> DEFINE T == {n \in 0..Len(cardsUsed) : Late(n)}
<1>1. Len(cardsUsed) \in Nat /\ \A i \in 1..Len(cardsUsed) : cardsUsed[i] \in Nat
  OBVIOUS
<1>2. Len(cardsUsed) \in T /\ T \subseteq Nat
  BY <1>1
<1>3. PICK m \in T : \A k \in T : m <= k
  <2> HIDE DEF T
  <2> QED
    BY <1>2, SmallestNumber
<1>4. m > 0 => cardsUsed[m] < f
  <2> SUFFICES ASSUME m > 0, ~(cardsUsed[m] < f)
               PROVE  FALSE
    OBVIOUS
  <2>1. m \in 1..Len(cardsUsed) /\ cardsUsed[m] >= f
    BY <1>1
  <2>2. \A i \in m..Len(cardsUsed) : i = m \/ i \in (m + 1)..Len(cardsUsed)
    BY <2>1, <1>1
  <2>3. (m - 1) + 1 = m /\ m - 1 \in 0..Len(cardsUsed)
    BY <2>1, <1>1
  <2>4. Late(m - 1)
    BY <2>1, <2>2, <2>3
  <2>5. m <= m - 1
    BY <1>3, <2>3, <2>4
  <2> QED
    BY <2>1, <2>5
<1> DEFINE Right(n) == Late(n) /\ (n > 0 => cardsUsed[n] < f)
<1> DEFINE c == CHOOSE n \in 0..Len(cardsUsed) : Right(n)
<1>5. c \in 0..Len(cardsUsed) /\ Right(c)
  <2>1. m \in 0..Len(cardsUsed) /\ Right(m)
    BY <1>4
  <2> HIDE DEF Right
  <2> QED
    BY <2>1
<1>6. PoppedFrom(f) = SubSeq(cardsUsed, 1, c)
  BY DEF PoppedFrom
<1> HIDE DEF c
<1> QED
  BY <1>5, <1>6

\* The prefix of an ascending list that is left holds just the frames before f.
LEMMA PoppedFrames ==
  ASSUME cardsUsed \in Seq(0..MaxFrames), NEW f \in Nat
  PROVE  /\ PoppedFrom(f) \in Seq(0..MaxFrames)
         /\ Ascending =>
              LET s == PoppedFrom(f) IN
              /\ \A i, j \in 1..Len(s) : i < j => s[i] < s[j]
              /\ \A i \in 1..Len(s) : s[i] < f
              /\ ToSet(s) = {g \in ToSet(cardsUsed) : g < f}
<1>1. MaxFrames \in Nat
  BY MatchAssumption
<1>2. 0..MaxFrames \subseteq Nat
  BY <1>1
<1>3. cardsUsed \in Seq(Nat)
  BY <1>2, SeqMonotonic
<1>4. PICK n \in 0..Len(cardsUsed) :
        /\ PoppedFrom(f) = SubSeq(cardsUsed, 1, n)
        /\ \A i \in (n + 1)..Len(cardsUsed) : cardsUsed[i] >= f
        /\ n > 0 => cardsUsed[n] < f
  BY <1>3, PopsTheEnd
<1>5. PICK s : s = PoppedFrom(f)
  OBVIOUS
<1>6. Len(cardsUsed) \in Nat /\ n \in Int
      /\ \A i \in 1..Len(cardsUsed) : cardsUsed[i] \in 0..MaxFrames
  BY <1>1, LenProperties, ElementOfSeq
<1>7. /\ s \in Seq(0..MaxFrames) /\ Len(s) = n
      /\ \A i \in 1..n : s[i] = cardsUsed[i]
  <2>1. \A i \in 1..n : cardsUsed[i] \in 0..MaxFrames
    BY <1>6
  <2> QED
    BY <1>4, <1>5, <1>6, <2>1, SubSeqProperties
<1>8. ASSUME Ascending
      PROVE  /\ \A i, j \in 1..Len(s) : i < j => s[i] < s[j]
             /\ \A i \in 1..Len(s) : s[i] < f
             /\ ToSet(s) = {g \in ToSet(cardsUsed) : g < f}
  <2>1. \A i, j \in 1..Len(cardsUsed) : i < j => cardsUsed[i] < cardsUsed[j]
    BY <1>8 DEF Ascending
  <2>2. \A i, j \in 1..Len(s) : i < j => s[i] < s[j]
    BY <1>6, <1>7, <2>1
  <2>3. \A i \in 1..n : cardsUsed[i] < f
    <3> TAKE i \in 1..n
    <3>1. n > 0 /\ cardsUsed[n] < f /\ n \in 1..Len(cardsUsed) /\ i \in 1..Len(cardsUsed)
      BY <1>4, <1>6
    <3>2. CASE i = n
      BY <3>1, <3>2
    <3>3. CASE i < n
      <4>1. cardsUsed[i] < cardsUsed[n]
        BY <2>1, <3>1, <3>3
      <4>2. cardsUsed[i] \in Nat /\ cardsUsed[n] \in Nat
        BY <1>2, <1>6, <3>1
      <4> QED
        BY <3>1, <4>1, <4>2
    <3> QED
      BY <1>6, <3>2, <3>3
  <2>4. \A i \in 1..Len(s) : s[i] < f
    BY <1>7, <2>3
  <2>5. ToSet(s) \subseteq {g \in ToSet(cardsUsed) : g < f}
    <3>1. \A i \in 1..n : i \in 1..Len(cardsUsed)
      BY <1>6
    <3> QED
      BY <1>7, <2>4, <3>1 DEF ToSet
  <2>6. ASSUME NEW i \in 1..Len(cardsUsed), cardsUsed[i] < f
        PROVE  cardsUsed[i] \in ToSet(s)
    <3>1. i \in 1..n
      <4>1. i \notin (n + 1)..Len(cardsUsed)
        <5>1. cardsUsed[i] \in Nat
          BY <1>2, <1>6
        <5> QED
          BY <1>4, <2>6, <5>1
      <4> QED
        BY <1>6, <4>1
    <3> QED
      BY <1>7, <3>1 DEF ToSet
  <2>7. {g \in ToSet(cardsUsed) : g < f} \subseteq ToSet(s)
    BY <2>6 DEF ToSet
  <2> QED
    BY <2>2, <2>4, <2>5, <2>7
<1> QED
  BY <1>5, <1>7, <1>8

\* The elements of a sequence are of the set it is over.
LEMMA ToSetIsInside ==
  ASSUME NEW S, NEW s \in Seq(S)
  PROVE  ToSet(s) \subseteq S
BY DEF ToSet

\* One more card, used on the current frame.
LEMMA OneMoreCard ==
  ASSUME MatchTypes, currentFrame < MaxFrames,
         NEW s, s = Append(cardsUsed, currentFrame)
  PROVE  /\ s \in Seq(0..MaxFrames)
         /\ Ascending =>
              /\ \A i, j \in 1..Len(s) : i < j => s[i] < s[j]
              /\ \A i \in 1..Len(s) : s[i] < currentFrame + 1
              /\ ToSet(s) = ToSet(cardsUsed) \cup {currentFrame}
<1> DEFINE F == 0..MaxFrames
<1>1. cardsUsed \in Seq(F) /\ currentFrame \in F
  BY DEF MatchTypes
<1>2. Len(cardsUsed) \in Nat /\ \A i \in 1..Len(cardsUsed) : cardsUsed[i] \in F
  <2> HIDE DEF F
  <2> QED
    BY <1>1, LenProperties, ElementOfSeq
<1>3. /\ s \in Seq(F) /\ Len(s) = Len(cardsUsed) + 1
      /\ \A i \in 1..Len(cardsUsed) : s[i] = cardsUsed[i]
      /\ s[Len(cardsUsed) + 1] = currentFrame
  <2> HIDE DEF F
  <2> QED
    BY <1>1, AppendProperties
<1>a. \A g \in F : g \in Nat
  BY MatchAssumption
<1>4. ASSUME Ascending
      PROVE  /\ \A i, j \in 1..Len(s) : i < j => s[i] < s[j]
             /\ \A i \in 1..Len(s) : s[i] < currentFrame + 1
             /\ ToSet(s) = ToSet(cardsUsed) \cup {currentFrame}
  <2> HIDE DEF F
  <2>0. /\ \A i, j \in 1..Len(cardsUsed) : i < j => cardsUsed[i] < cardsUsed[j]
        /\ \A i \in 1..Len(cardsUsed) : cardsUsed[i] < currentFrame
    BY <1>4 DEF Ascending
  <2>1. \A i \in 1..Len(s) : i \in 1..Len(cardsUsed) \/ i = Len(cardsUsed) + 1
    BY <1>2, <1>3
  <2>2. \A i, j \in 1..Len(s) : i < j => i \in 1..Len(cardsUsed)
    BY <1>2, <1>3
  <2>3. \A i, j \in 1..Len(s) : i < j => s[i] < s[j]
    BY <1>3, <2>0, <2>1, <2>2
  <2>4. currentFrame \in Nat /\ \A i \in 1..Len(cardsUsed) : cardsUsed[i] \in Nat
    BY <1>1, <1>2, <1>a
  <2>5. \A i \in 1..Len(s) : s[i] < currentFrame + 1
    BY <1>3, <2>0, <2>1, <2>4
  <2>6. DOMAIN s = 1..Len(s) /\ DOMAIN cardsUsed = 1..Len(cardsUsed)
    BY <1>1, <1>3, LenProperties
  <2>7. ToSet(s) \subseteq ToSet(cardsUsed) \cup {currentFrame}
    BY <1>3, <2>1, <2>6 DEF ToSet
  <2>8. ToSet(cardsUsed) \cup {currentFrame} \subseteq ToSet(s)
    <3>1. Len(cardsUsed) + 1 \in DOMAIN s
      BY <1>2, <1>3, <2>6
    <3>2. currentFrame \in ToSet(s)
      BY <1>3, <3>1 DEF ToSet
    <3>3. \A i \in DOMAIN cardsUsed : i \in DOMAIN s /\ cardsUsed[i] = s[i]
      BY <1>2, <1>3, <2>6
    <3> QED
      BY <3>2, <3>3 DEF ToSet
  <2> QED
    BY <2>3, <2>5, <2>7, <2>8
<1> QED
  BY <1>3, <1>4

\* What a frame does, in the terms of the invariant.
LEMMA ProcessTypes ==
  ASSUME MatchInv, Process
  PROVE  MatchTypes'
<1> USE DEF MatchTypes
<1>0. MatchTypes /\ MaxFrames \in Nat
  BY MatchAssumption DEF MatchInv
<1>1. PICK uses \in BOOLEAN, ends \in BOOLEAN :
        /\ uses => overAt = {} /\ currentFrame > 0 /\ battle = "play"
        /\ truth' = IF uses THEN truth \cup {currentFrame} ELSE truth
        /\ Prepares(onCardUsed(uses))
        /\ overAt' = IF ends /\ overAt = {} THEN {currentFrame} ELSE overAt
  BY DEF Process
<1>2. /\ currentFrame < MaxFrames /\ currentFrame' = currentFrame + 1
      /\ UNCHANGED <<battle, matches, rollbacks, stale, undone>>
  BY DEF Process
<1>3. currentFrame' \in 0..MaxFrames /\ truth' \subseteq 0..MaxFrames
      /\ overAt' \subseteq 0..MaxFrames
  BY <1>0, <1>1, <1>2
<1>4. cardsUsed' \in Seq(0..MaxFrames)
  <2>1. cardsUsed' \in {<<>>, cardsUsed, Append(cardsUsed, currentFrame)}
    BY <1>1 DEF Prepares, onCardUsed
  <2>2. Append(cardsUsed, currentFrame) \in Seq(0..MaxFrames)
    BY <1>0, <1>2, OneMoreCard
  <2>3. <<>> \in Seq(0..MaxFrames)
    BY EmptySeq
  <2> QED
    BY <1>0, <2>1, <2>2, <2>3
<1>5. init' = TRUE /\ deck' \in {"own", "other"}
  BY <1>0, <1>1 DEF Prepares
<1>6. counted' \in BOOLEAN /\ records' \in Seq(MatchRecord)
  <2>1. ToSet(cardsUsed') \subseteq 0..MaxFrames
    BY <1>4, ToSetIsInside
  <2>2. [cards |-> ToSet(cardsUsed'), deck |-> deck'] \in MatchRecord
    BY <1>5, <2>1 DEF MatchRecord
  <2>3. Append(records, [cards |-> ToSet(cardsUsed'), deck |-> deck']) \in Seq(MatchRecord)
    <3> HIDE DEF MatchTypes
    <3>1. records \in Seq(MatchRecord)
      BY <1>0 DEF MatchTypes
    <3> QED
      BY <2>2, <3>1, AppendProperties
  <2>4. records' \in {records, Append(records, [cards |-> ToSet(cardsUsed'), deck |-> deck'])}
    BY DEF Process, countGame
  <2>5. counted' \in {counted, TRUE}
    BY DEF Process
  <2> QED
    BY <1>0, <2>3, <2>4, <2>5
<1> QED
  BY <1>0, <1>2, <1>3, <1>4, <1>5, <1>6

\* A frame of a match that is played counts its cards, and its end once.
LEMMA ProcessCounts ==
  ASSUME MatchInv, Process, battle = "play", ~stale
  PROVE  Prepared' /\ EndIsLast' /\ CountedWhenOver'
<1>0. /\ MatchTypes /\ Prepared /\ EndIsLast /\ CountedWhenOver
      /\ MaxFrames \in Nat /\ currentFrame \in Nat
  BY MatchAssumption DEF MatchInv, MatchTypes
<1>1. PICK uses \in BOOLEAN, ends \in BOOLEAN :
        /\ uses => overAt = {} /\ currentFrame > 0 /\ battle = "play"
        /\ truth' = IF uses THEN truth \cup {currentFrame} ELSE truth
        /\ Prepares(onCardUsed(uses))
        /\ overAt' = IF ends /\ overAt = {} THEN {currentFrame} ELSE overAt
  BY DEF Process
<1>2. /\ currentFrame < MaxFrames /\ currentFrame' = currentFrame + 1
      /\ UNCHANGED <<battle, matches, rollbacks, stale, undone>>
  BY DEF Process
<1>3. /\ init' = TRUE /\ deck' = "own" /\ ToSet(cardsUsed') = truth' /\ Ascending'
  <2>1. CASE ~init
    <3>1. truth = {} /\ currentFrame = 0
      BY <1>0, <2>1 DEF Prepared
    <3>2. uses = FALSE /\ truth' = {}
      BY <1>1, <3>1
    <3>3. cardsUsed' = <<>> /\ deck' = "own" /\ init' = TRUE
      BY <1>1, <2>1 DEF Prepares
    <3>4. Len(cardsUsed') = 0 /\ ToSet(cardsUsed') = {}
      BY <3>3 DEF ToSet
    <3>5. Ascending'
      BY <3>4 DEF Ascending
    <3> QED
      BY <3>2, <3>3, <3>4, <3>5
  <2>2. CASE init /\ ~uses
    <3>1. UNCHANGED <<cardsUsed, truth, deck>> /\ init' = TRUE
      BY <1>1, <2>2 DEF Prepares, onCardUsed
    <3>2. deck = "own" /\ ToSet(cardsUsed) = truth /\ Ascending
      BY <1>0, <2>2 DEF Prepared
    <3>3. \A i \in 1..Len(cardsUsed) : cardsUsed[i] \in Nat
      <4> DEFINE F == 0..MaxFrames
      <4>1. cardsUsed \in Seq(F)
        BY <1>0 DEF MatchTypes
      <4>2. \A g \in F : g \in Nat
        BY <1>0
      <4> HIDE DEF F
      <4> QED
        BY <4>1, <4>2, ElementOfSeq
    <3>4. Ascending'
      BY <1>0, <1>2, <3>1, <3>2, <3>3 DEF Ascending
    <3> QED
      BY <3>1, <3>2, <3>4
  <2>3. CASE init /\ uses
    <3>1. /\ cardsUsed' = Append(cardsUsed, currentFrame) /\ init' = TRUE
          /\ truth' = truth \cup {currentFrame} /\ deck' = deck
      BY <1>1, <2>3 DEF Prepares, onCardUsed
    <3>2. deck = "own" /\ ToSet(cardsUsed) = truth /\ Ascending
      BY <1>0, <2>3 DEF Prepared
    <3>3. /\ \A i, j \in 1..Len(cardsUsed') : i < j => cardsUsed'[i] < cardsUsed'[j]
          /\ \A i \in 1..Len(cardsUsed') : cardsUsed'[i] < currentFrame + 1
          /\ ToSet(cardsUsed') = ToSet(cardsUsed) \cup {currentFrame}
      BY <1>0, <1>2, <3>1, <3>2, OneMoreCard
    <3>4. Ascending'
      BY <1>2, <3>3 DEF Ascending
    <3> QED
      BY <3>1, <3>2, <3>3, <3>4
  <2> QED
    BY <1>0, <2>1, <2>2, <2>3
<1>4. Prepared'
  BY <1>3 DEF Prepared
<1>5. EndIsLast'
  <2>1. truth \subseteq Nat /\ overAt \subseteq Nat
    BY <1>0 DEF MatchTypes
  <2>2. \A h \in truth : h < currentFrame
    <3>1. CASE init
      BY <1>0, <3>1, SMTT(30) DEF Prepared, Ascending, ToSet, MatchTypes
    <3>2. CASE ~init
      BY <1>0, <3>2 DEF Prepared
    <3> QED
      BY <3>1, <3>2
  <2>3. CASE overAt = {}
    <3>1. \A g \in overAt' : g = currentFrame
      BY <1>1, <2>3
    <3>2. \A h \in truth' : h < currentFrame \/ h = currentFrame
      BY <1>1, <2>2
    <3>3. \A h \in truth' : h <= currentFrame
      <4>1. \A h \in truth' : h \in Nat
        BY <1>0, <1>1, <2>1
      <4> QED
        BY <1>0, <3>2, <4>1
    <3>4. \A g \in overAt' : g < currentFrame'
      BY <1>0, <1>2, <3>1
    <3> QED
      BY <3>1, <3>3, <3>4 DEF EndIsLast
  <2>4. CASE overAt # {}
    <3>1. UNCHANGED <<overAt, truth>>
      BY <1>1, <2>4
    <3>2. \A g \in overAt' : g < currentFrame' /\ \A h \in truth' : h <= g
      BY <1>0, <1>2, <2>1, <3>1 DEF EndIsLast
    <3> QED
      BY <3>2 DEF EndIsLast
  <2> QED
    BY <2>3, <2>4
<1>6. CountedWhenOver'
  <2> SUFFICES ASSUME ~undone'
               PROVE  /\ counted' <=> overAt' # {}
                      /\ records' = IF overAt' = {} THEN <<>>
                                    ELSE <<[cards |-> truth', deck |-> "own"]>>
    BY DEF CountedWhenOver
  <2>0. /\ counted <=> overAt # {}
        /\ records = IF overAt = {} THEN <<>> ELSE <<[cards |-> truth, deck |-> "own"]>>
    BY <1>0, <1>2 DEF CountedWhenOver
  <2>1. CASE overAt' # {} /\ ~counted
    <3>1. overAt = {} /\ records = <<>>
      BY <2>0, <2>1
    <3>2. counted' = TRUE /\ records' = countGame
      BY <2>1 DEF Process
    <3>3. records' = <<[cards |-> truth', deck |-> "own"]>>
      BY <1>3, <3>1, <3>2 DEF countGame
    <3> QED
      BY <2>1, <3>2, <3>3
  <2>2. CASE ~(overAt' # {} /\ ~counted)
    <3>1. UNCHANGED <<counted, records>>
      BY <2>2 DEF Process
    <3>2. overAt = {} => overAt' = {}
      BY <2>0, <2>2
    <3>3. overAt # {} => UNCHANGED <<overAt, truth>>
      BY <1>1
    <3> QED
      BY <2>0, <3>1, <3>2, <3>3
  <2> QED
    BY <2>1, <2>2
<1> QED
  BY <1>4, <1>5, <1>6

\* A rollback takes back the cards and the end of the frames it goes back over.
LEMMA RollsBackKeeps ==
  ASSUME MatchInv, RollsBack
  PROVE  MatchInv'
<1>0. /\ MatchTypes /\ MaxFrames \in Nat /\ currentFrame \in Nat /\ MaxRollbacks \in Nat
      /\ rollbacks \in Nat
  BY MatchAssumption DEF MatchInv, MatchTypes
<1>1. PICK f \in 0..(currentFrame - 1) :
        /\ currentFrame' = f
        /\ cardsUsed' = rollbackEvents(f)
        /\ truth' = {g \in truth : g < f}
        /\ overAt' = {g \in overAt : g < f}
        /\ undone' = (undone \/ \E g \in overAt : g >= f)
  BY DEF RollsBack
<1>2. /\ UNCHANGED <<battle, init, counted, deck, matches, records, stale>>
      /\ battle = "play" /\ rollbacks < MaxRollbacks /\ rollbacks' = rollbacks + 1
  BY DEF RollsBack
<1>3. f \in Nat /\ f < currentFrame /\ cardsUsed' = PoppedFrom(f)
  BY <1>0, <1>1 DEF rollbackEvents
<1>4. /\ cardsUsed' \in Seq(0..MaxFrames)
      /\ Ascending => /\ \A i, j \in 1..Len(cardsUsed') : i < j => cardsUsed'[i] < cardsUsed'[j]
                      /\ \A i \in 1..Len(cardsUsed') : cardsUsed'[i] < f
                      /\ ToSet(cardsUsed') = {g \in ToSet(cardsUsed) : g < f}
  BY <1>0, <1>3, PoppedFrames DEF MatchTypes
<1>5. MatchTypes'
  <2>1. undone' \in BOOLEAN
    BY <1>1
  <2>2. currentFrame' \in 0..MaxFrames /\ rollbacks' \in 0..MaxRollbacks
    BY <1>0, <1>1, <1>2, <1>3 DEF MatchTypes
  <2>3. truth' \subseteq 0..MaxFrames /\ overAt' \subseteq 0..MaxFrames
    BY <1>0, <1>1 DEF MatchTypes
  <2> QED
    BY <1>0, <1>2, <1>4, <2>1, <2>2, <2>3 DEF MatchTypes
<1>6. FlagsDown'
  BY <1>2 DEF FlagsDown
<1>7. ASSUME ~stale
      PROVE  Prepared' /\ EndIsLast' /\ CountedWhenOver'
  <2>1. Prepared /\ EndIsLast /\ CountedWhenOver
    BY <1>2, <1>7 DEF MatchInv
  <2>2. init /\ deck = "own" /\ ToSet(cardsUsed) = truth /\ Ascending
    BY <1>0, <1>3, <2>1 DEF Prepared
  <2>3. Prepared'
    <3>1. Ascending'
      BY <1>1, <1>4, <2>2 DEF Ascending
    <3> QED
      BY <1>1, <1>2, <1>4, <2>2, <3>1 DEF Prepared
  <2>4. truth \subseteq Nat /\ overAt \subseteq Nat
    BY <1>0 DEF MatchTypes
  <2>5. EndIsLast'
    BY <1>1, <2>1 DEF EndIsLast
  <2>6. ASSUME ~undone'
        PROVE  ~undone /\ overAt' = overAt /\ (overAt # {} => truth' = truth)
    <3>1. ~undone /\ \A g \in overAt : ~(g >= f)
      BY <1>1, <2>6
    <3>2. \A g \in overAt : g < f
      BY <1>3, <2>4, <3>1
    <3>3. overAt' = overAt
      BY <1>1, <3>2
    <3>4. ASSUME NEW g \in overAt
          PROVE  truth' = truth
      <4>1. \A h \in truth : h <= g /\ g < f
        BY <2>1, <3>2, <3>4 DEF EndIsLast
      <4>2. \A h \in truth : h < f
        BY <1>3, <2>4, <4>1
      <4> QED
        BY <1>1, <4>2
    <3> QED
      BY <3>1, <3>3, <3>4
  <2>7. CountedWhenOver'
    BY <1>2, <2>1, <2>6 DEF CountedWhenOver
  <2> QED
    BY <2>3, <2>5, <2>7
<1> QED
  BY <1>2, <1>5, <1>6, <1>7 DEF MatchInv

\* Every step keeps the invariant.
LEMMA MatchStep ==
  ASSUME MatchInv, [MatchNext]_matchVars
  PROVE  MatchInv'
<1>0. MatchTypes /\ FlagsDown
  BY DEF MatchInv
<1>1. CASE Begins
  <2>1. /\ currentFrame' = 0 /\ overAt' = {} /\ truth' = {} /\ records' = <<>>
        /\ undone' = FALSE /\ rollbacks' = 0 /\ UNCHANGED <<cardsUsed, init, counted, deck>>
        /\ battle = "none" /\ battle' \in {"play", "watch", "local"}
        /\ stale' = (stale \/ battle' = "watch")
    BY <1>1 DEF Begins, hooks
  <2>2. matches' \in 0..MaxMatches
    BY <1>0, <1>1, MatchAssumption DEF Begins, MatchTypes
  <2>3. <<>> \in Seq(MatchRecord)
    BY EmptySeq
  <2>4. 0 \in 0..MaxFrames /\ 0 \in 0..MaxRollbacks
    BY MatchAssumption
  <2>5. MatchTypes'
    BY <1>0, <2>1, <2>2, <2>3, <2>4 DEF MatchTypes
  <2>6. FlagsDown'
    BY <2>1 DEF FlagsDown
  <2>7. ASSUME battle' = "play" /\ ~stale'
        PROVE  Prepared' /\ EndIsLast' /\ CountedWhenOver'
    <3>1. ~init /\ ~counted
      BY <1>0, <2>1, <2>7 DEF FlagsDown
    <3> QED
      BY <2>1, <3>1 DEF Prepared, EndIsLast, CountedWhenOver
  <2> QED
    BY <2>5, <2>6, <2>7 DEF MatchInv
<1>2. CASE Process
  <2>1. UNCHANGED <<battle, stale>> /\ battle # "none"
    BY <1>2 DEF Process
  <2>2. FlagsDown'
    BY <1>0, <2>1 DEF FlagsDown
  <2> QED
    BY <1>2, <2>1, <2>2, ProcessTypes, ProcessCounts DEF MatchInv
<1>3. CASE RollsBack
  BY <1>3, RollsBackKeeps
<1>4. CASE Leaves
  <2>1. /\ battle' = "none"
        /\ UNCHANGED <<currentFrame, overAt, cardsUsed, deck, matches, rollbacks, truth, records,
                       undone>>
    BY <1>4 DEF Leaves
  <2>2. \/ battle = "watch" /\ UNCHANGED <<init, counted, stale>>
        \/ init' = FALSE /\ counted' = FALSE /\ stale' = FALSE
    BY <1>4 DEF Leaves, Resets
  <2>a. init' \in {init, FALSE} /\ counted' \in {counted, FALSE} /\ stale' \in {stale, FALSE}
    BY <2>2
  <2>b. init' \in BOOLEAN /\ counted' \in BOOLEAN /\ stale' \in BOOLEAN
    BY <1>0, <2>a DEF MatchTypes
  <2>c. init' => deck # "none"
    BY <1>0, <2>2 DEF MatchTypes
  <2>3. MatchTypes'
    BY <1>0, <2>1, <2>b, <2>c DEF MatchTypes
  <2>4. FlagsDown'
    BY <1>0, <2>1, <2>2 DEF FlagsDown
  <2> QED
    BY <2>1, <2>3, <2>4 DEF MatchInv
<1>5. CASE UNCHANGED matchVars
  <2>1. UNCHANGED <<battle, currentFrame, overAt, cardsUsed, init, counted, deck, matches,
                    rollbacks, truth, records, stale, undone>>
    BY <1>5 DEF matchVars, hooks, pastMatch
  <2> QED
    BY <2>1 DEF MatchInv, MatchTypes, FlagsDown, Prepared, Ascending, EndIsLast, CountedWhenOver
<1> QED
  BY <1>1, <1>2, <1>3, <1>4, <1>5 DEF MatchNext

\* The invariant holds before the first match.
LEMMA MatchInitially ==
  ASSUME MatchInit
  PROVE  MatchInv
<1>1. <<>> \in Seq(MatchRecord) /\ <<>> \in Seq(0..MaxFrames)
  BY EmptySeq
<1>2. 0 \in 0..MaxFrames /\ 0 \in 0..MaxRollbacks /\ 0 \in 0..MaxMatches
  BY MatchAssumption
<1> QED
  BY <1>1, <1>2 DEF MatchInit, MatchInv, MatchTypes, FlagsDown

\* What the hooks of the battle scenes keep at every frame: whose flags are up, which cards
\* the list holds and in which order, and what was counted.
THEOREM MatchInvariant == MatchSpec => []MatchInv
<1>1. MatchInit => MatchInv
  BY MatchInitially
<1>2. MatchInv /\ [MatchNext]_matchVars => MatchInv'
  BY MatchStep
<1> QED
  BY <1>1, <1>2, PTL DEF MatchSpec

\* The cards are of frames of the match, and a match is counted with a deck that was taken.
THEOREM MatchTypeCorrect == MatchSpec => []MatchTypeOK
<1>1. MatchInv => MatchTypeOK
  <2> SUFFICES ASSUME MatchInv
               PROVE  MatchTypeOK
    OBVIOUS
  <2>1. MatchTypes
    BY DEF MatchInv
  <2>2. ToSet(cardsUsed) \subseteq 0..MaxFrames /\ ToSet(records) \subseteq MatchRecord
    BY <2>1, ToSetIsInside DEF MatchTypes
  <2> QED
    <3>1. overAt \cup truth \cup ToSet(cardsUsed) \subseteq 0..MaxFrames
      BY <2>1, <2>2 DEF MatchTypes
    <3>2. {init, counted, stale, undone} \subseteq BOOLEAN
      BY <2>1 DEF MatchTypes
    <3>3. /\ battle \in {"none", "play", "watch", "local"} /\ currentFrame \in 0..MaxFrames
          /\ deck \in {"none", "own", "other"}
          /\ matches \in 0..MaxMatches /\ rollbacks \in 0..MaxRollbacks
      BY <2>1 DEF MatchTypes
    <3>4. ToSet(records) \subseteq [cards : SUBSET (0..MaxFrames), deck : {"own", "other"}]
      BY <2>2 DEF MatchRecord
    <3> QED
      BY <3>1, <3>2, <3>3, <3>4 DEF MatchTypeOK
<1> QED
  BY <1>1, MatchInvariant, PTL

\* A match over the network is counted once, when it is over, with the cards that were used
\* in it and the player's deck, however often its frames were played again.
THEOREM GamesAsPlayedAlways == MatchSpec => []GamesAsPlayed
<1>1. MatchInv => GamesAsPlayed
  BY DEF MatchInv, CountedWhenOver, GamesAsPlayed
<1> QED
  BY <1>1, MatchInvariant, PTL

(***************************************************************************)
(* What is typed in the chat.                                              *)
(***************************************************************************)
\* g joins the sequences of s, up to each of the first n.
Joined(g, s, n) == g = [i \in 1..n |-> IF i = 1 THEN s[i] ELSE g[i - 1] \o s[i]]

\* There is such a g.
LEMMA JoinedExists ==
  ASSUME NEW s, NEW n \in Nat
  PROVE  \E g : Joined(g, s, n)
<1> DEFINE T == {k \in Nat : ~\E g : Joined(g, s, k)}
<1>1. SUFFICES ASSUME T # {} PROVE FALSE
  OBVIOUS
<1>2. PICK m \in T : \A k \in T : m <= k
  <2>1. T \in SUBSET Nat
    OBVIOUS
  <2> HIDE DEF T
  <2> QED
    BY <1>1, <2>1, SmallestNumber
<1>3. m \in Nat /\ ~\E g : Joined(g, s, m)
  OBVIOUS
<1>4. CASE m = 0
  <2>1. Joined([i \in 1..0 |-> s[i]], s, 0)
    BY DEF Joined
  <2> QED
    BY <1>3, <1>4, <2>1
<1>5. CASE m > 0
  <2>1. m - 1 \in Nat /\ m - 1 \notin T
    BY <1>2, <1>3, <1>5
  <2>2. PICK g : Joined(g, s, m - 1)
    BY <2>1
  <2> DEFINE h == [i \in 1..m |-> IF i = 1 THEN s[i] ELSE g[i - 1] \o s[i]]
  <2> HIDE DEF T
  <2>3. ASSUME NEW i \in 1..(m - 1) PROVE h[i] = g[i]
    <3>1. g[i] = IF i = 1 THEN s[i] ELSE g[i - 1] \o s[i]
      BY <2>2 DEF Joined
    <3>2. i \in 1..m
      BY <1>3
    <3> QED
      BY <3>1, <3>2
  <2>4. ASSUME NEW i \in 1..m, i # 1 PROVE h[i - 1] = g[i - 1]
    <3>1. i - 1 \in 1..(m - 1)
      BY <1>3, <2>4
    <3> HIDE DEF h
    <3> QED
      BY <2>3, <3>1
  <2>5. Joined(h, s, m)
    BY <2>4 DEF Joined
  <2> QED
    BY <1>3, <2>5
<1> QED
  BY <1>3, <1>4, <1>5

\* And only one, as far as it goes.
LEMMA JoinedUnique ==
  ASSUME NEW s, NEW t, NEW m \in Nat, NEW n \in Nat, m <= n, \A i \in 1..m : s[i] = t[i],
         NEW g, Joined(g, s, m), NEW h, Joined(h, t, n)
  PROVE  \A i \in 1..m : g[i] = h[i]
<1> DEFINE T == {k \in 1..m : g[k] # h[k]}
<1>1. SUFFICES ASSUME T # {} PROVE FALSE
  OBVIOUS
<1>2. PICK k \in T : \A j \in T : k <= j
  <2>1. T \in SUBSET Nat
    OBVIOUS
  <2> HIDE DEF T
  <2> QED
    BY <1>1, <2>1, SmallestNumber
<1>3. k \in 1..m /\ k \in 1..n /\ g[k] # h[k]
  OBVIOUS
<1>4. /\ g[k] = IF k = 1 THEN s[k] ELSE g[k - 1] \o s[k]
      /\ h[k] = IF k = 1 THEN t[k] ELSE h[k - 1] \o t[k]
  BY <1>3 DEF Joined
<1>5. k # 1 => g[k - 1] = h[k - 1]
  <2>1. k # 1 => k - 1 \in 1..m /\ k - 1 \notin T
    BY <1>2, <1>3
  <2> QED
    BY <2>1
<1> QED
  BY <1>3, <1>4, <1>5

\* It is what FlattenSeq takes the last of.
LEMMA FlattenIsJoined ==
  ASSUME NEW S, NEW s \in Seq(S), Len(s) > 0
  PROVE  \E g : Joined(g, s, Len(s)) /\ FlattenSeq(s) = g[Len(s)]
<1> DEFINE F == CHOOSE g : Joined(g, s, Len(s))
<1>1. Joined(F, s, Len(s))
  <2>1. Len(s) \in Nat
    BY LenProperties
  <2> QED
    BY <2>1, JoinedExists
<1>2. FlattenSeq(s) = F[Len(s)]
  BY DEF FlattenSeq, Joined
<1> QED
  BY <1>1, <1>2

\* Nothing is joined to nothing, and one sequence more is appended.
LEMMA FlattenAppend ==
  ASSUME NEW S, NEW s \in Seq(S), NEW c \in S
  PROVE  /\ FlattenSeq(<<>>) = <<>>
         /\ FlattenSeq(Append(s, c)) = IF s = <<>> THEN c ELSE FlattenSeq(s) \o c
<1> DEFINE t == Append(s, c)
<1>1. FlattenSeq(<<>>) = <<>>
  BY EmptySeq DEF FlattenSeq
<1>2. /\ t \in Seq(S) /\ Len(s) \in Nat /\ Len(t) = Len(s) + 1 /\ t[Len(s) + 1] = c
      /\ \A i \in 1..Len(s) : t[i] = s[i]
  BY AppendProperties, LenProperties
<1> HIDE DEF t
<1>3. PICK h : Joined(h, t, Len(t)) /\ FlattenSeq(t) = h[Len(t)]
  BY <1>2, FlattenIsJoined
<1>4. h[Len(t)] = IF Len(t) = 1 THEN t[1] ELSE h[Len(s)] \o c
  <2>1. Len(t) \in 1..Len(t) /\ Len(t) - 1 = Len(s)
    BY <1>2
  <2>2. h[Len(t)] = IF Len(t) = 1 THEN t[Len(t)] ELSE h[Len(t) - 1] \o t[Len(t)]
    BY <1>3, <2>1 DEF Joined
  <2>3. t[Len(t)] = c
    <3>1. \A k : k = Len(s) + 1 => t[k] = c
      BY <1>2
    <3> QED
      BY <1>2, <3>1
  <2> QED
    BY <2>1, <2>2, <2>3
<1>5. CASE s = <<>>
  <2>1. Len(s) = 0 /\ Len(t) = 1
    BY <1>2, <1>5, EmptySeq
  <2>2. FlattenSeq(t) = t[1] /\ t[1] = c
    BY <1>2, <1>3, <1>4, <2>1
  <2> QED
    BY <1>1, <1>5, <2>2 DEF t
<1>6. CASE s # <<>>
  <2>1. Len(s) > 0
    BY <1>6, EmptySeq
  <2>2. PICK g : Joined(g, s, Len(s)) /\ FlattenSeq(s) = g[Len(s)]
    BY <2>1, FlattenIsJoined
  <2>3. Len(s) \in 1..Len(s)
    BY <1>2, <2>1
  <2>4. Len(s) <= Len(t) /\ Len(t) \in Nat
    BY <1>2
  <2>5. \A i \in 1..Len(s) : s[i] = t[i]
    BY <1>2
  <2>6. Joined(g, s, Len(s)) /\ Joined(h, t, Len(t)) /\ Len(s) \in Nat
    BY <1>2, <1>3, <2>2
  <2>7. g[Len(s)] = h[Len(s)]
    BY <2>3, <2>4, <2>5, <2>6, JoinedUnique
  <2>8. Len(t) # 1
    BY <1>2, <2>1
  <2>9. FlattenSeq(t) = FlattenSeq(s) \o c
    BY <1>3, <1>4, <2>2, <2>7, <2>8
  <2> QED
    BY <1>1, <1>6, <2>9 DEF t
<1> QED
  BY <1>1, <1>5, <1>6 DEF t

\* A set of sequences with the empty one, and with every one that is one longer than another
\* of its members, is the set of all of them.
LEMMA AllSequences ==
  ASSUME NEW S, NEW T \in SUBSET Seq(S), <<>> \in T,
         \A s \in T, e \in S : Append(s, e) \in T
  PROVE  T = Seq(S)
<1> DEFINE U == {n \in Nat : \E s \in Seq(S) : s \notin T /\ Len(s) = n}
<1>1. SUFFICES ASSUME U # {} PROVE FALSE
  <2>1. \A s \in Seq(S) : Len(s) \in Nat
    BY LenProperties
  <2> QED
    BY <2>1
<1>2. PICK n \in U : \A k \in U : n <= k
  <2>1. U \in SUBSET Nat
    OBVIOUS
  <2> HIDE DEF U
  <2> QED
    BY <1>1, <2>1, SmallestNumber
<1>3. PICK s \in Seq(S) : s \notin T /\ Len(s) = n
  OBVIOUS
<1>4. PICK r \in Seq(S), e \in S : s = Append(r, e)
  BY <1>3, SequenceEmptyOrAppend
<1>5. Len(r) \in Nat /\ Len(r) = n - 1
  BY <1>3, <1>4, LenProperties, AppendProperties
<1>6. r \in T
  BY <1>2, <1>5
<1> QED
  BY <1>3, <1>4, <1>6

\* The texts, and what a character is in them.
Units == Seq(STRING)

\* A character is one unit that is no surrogate, or a high one and a low one.
LEMMA CharUnits ==
  ASSUME NEW c \in Char
  PROVE  /\ c \in Units /\ Len(c) \in {1, 2} /\ Len(c) \in Nat /\ Len(c) > 0
         /\ Len(c) = 1 => ~IsHigh(c[1]) /\ ~IsLow(c[1])
         /\ Len(c) = 2 => IsHigh(c[1]) /\ ~IsLow(c[1]) /\ IsLow(c[2]) /\ ~IsHigh(c[2])
<1>1. c \in Units /\ (c = <<"H", "L">> \/ (Len(c) = 1 /\ c[1] \notin {"H", "L"}))
  BY ChatAssumption DEF Units
<1>2. CASE c = <<"H", "L">>
  <2>1. Len(c) = 2 /\ c[1] = "H" /\ c[2] = "L"
    BY <1>2
  <2> QED
    BY <1>1, <2>1 DEF IsHigh, IsLow
<1>3. CASE Len(c) = 1 /\ c[1] \notin {"H", "L"}
  BY <1>1, <1>3 DEF IsHigh, IsLow
<1> QED
  BY <1>1, <1>2, <1>3

\* The text of characters one after the other is a text, longer than that of fewer.
LEMMA FlattenChars ==
  /\ FlattenSeq(<<>>) = <<>>
  /\ \A s \in Seq(Char) : FlattenSeq(s) \in Units
  /\ \A s \in Seq(Char), c \in Char : FlattenSeq(Append(s, c)) = FlattenSeq(s) \o c
<1>1. FlattenSeq(<<>>) = <<>>
  BY EmptySeq DEF FlattenSeq
<1>2. ASSUME NEW s \in Seq(Char), NEW c \in Char
      PROVE  FlattenSeq(Append(s, c)) = FlattenSeq(s) \o c
  <2>1. c \in Seq(STRING)
    BY CharUnits DEF Units
  <2>2. <<>> \o c = c
    BY <2>1, ConcatEmptySeq
  <2>3. FlattenSeq(Append(s, c)) = IF s = <<>> THEN c ELSE FlattenSeq(s) \o c
    BY FlattenAppend
  <2> QED
    BY <1>1, <2>2, <2>3
<1> DEFINE T == {s \in Seq(Char) : FlattenSeq(s) \in Units}
<1>3. <<>> \in T
  BY <1>1, EmptySeq DEF Units
<1>4. ASSUME NEW s \in T, NEW c \in Char PROVE Append(s, c) \in T
  <2>1. s \in Seq(Char) /\ FlattenSeq(s) \in Seq(STRING) /\ c \in Seq(STRING)
    BY CharUnits DEF Units
  <2>2. FlattenSeq(s) \o c \in Seq(STRING)
    BY <2>1, ConcatProperties
  <2>3. Append(s, c) \in Seq(Char)
    BY <2>1, AppendProperties
  <2> QED
    BY <1>2, <2>1, <2>2, <2>3 DEF Units
<1>5. T \in SUBSET Seq(Char)
  OBVIOUS
<1> HIDE DEF T
<1>6. T = Seq(Char)
  BY <1>3, <1>4, <1>5, AllSequences
<1> QED
  BY <1>1, <1>2, <1>6 DEF T

\* The text of two pieces one after the other.
LEMMA FlattenConcat ==
  ASSUME NEW s \in Seq(Char), NEW t \in Seq(Char)
  PROVE  FlattenSeq(s \o t) = FlattenSeq(s) \o FlattenSeq(t)
<1> DEFINE T == {r \in Seq(Char) : FlattenSeq(s \o r) = FlattenSeq(s) \o FlattenSeq(r)}
<1>1. <<>> \in T
  <2>1. FlattenSeq(s) \in Seq(STRING) /\ <<>> \in Seq(Char) /\ FlattenSeq(<<>>) = <<>>
    BY FlattenChars, EmptySeq DEF Units
  <2>2. s \o <<>> = s /\ FlattenSeq(s) \o <<>> = FlattenSeq(s)
    BY <2>1, ConcatEmptySeq
  <2> QED
    BY <2>1, <2>2
<1>2. ASSUME NEW r \in T, NEW c \in Char PROVE Append(r, c) \in T
  <2>1. r \in Seq(Char) /\ FlattenSeq(s \o r) = FlattenSeq(s) \o FlattenSeq(r)
    OBVIOUS
  <2>2. s \o r \in Seq(Char) /\ Append(r, c) \in Seq(Char)
    BY <2>1, ConcatProperties, AppendProperties
  <2>3. s \o Append(r, c) = Append(s \o r, c)
    <3>1. <<c>> \in Seq(Char)
      OBVIOUS
    <3>2. Append(r, c) = r \o <<c>>
      BY <2>1, AppendIsConcat
    <3>3. Append(s \o r, c) = (s \o r) \o <<c>>
      BY <2>2, AppendIsConcat
    <3>4. (s \o r) \o <<c>> = s \o (r \o <<c>>)
      BY <2>1, <3>1, ConcatAssociative
    <3> QED
      BY <3>2, <3>3, <3>4
  <2>4. /\ FlattenSeq(Append(s \o r, c)) = FlattenSeq(s \o r) \o c
        /\ FlattenSeq(Append(r, c)) = FlattenSeq(r) \o c
    BY <2>1, <2>2, FlattenChars
  <2>5. (FlattenSeq(s) \o FlattenSeq(r)) \o c = FlattenSeq(s) \o (FlattenSeq(r) \o c)
    <3>1. FlattenSeq(s) \in Seq(STRING) /\ FlattenSeq(r) \in Seq(STRING) /\ c \in Seq(STRING)
      BY <2>1, FlattenChars, CharUnits DEF Units
    <3> QED
      BY <3>1, ConcatAssociative
  <2>6. FlattenSeq(s \o Append(r, c)) = FlattenSeq(s) \o FlattenSeq(Append(r, c))
    BY <2>1, <2>3, <2>4, <2>5
  <2> QED
    BY <2>2, <2>6
<1>3. T \in SUBSET Seq(Char)
  OBVIOUS
<1> HIDE DEF T
<1>4. T = Seq(Char)
  BY <1>1, <1>2, <1>3, AllSequences
<1> QED
  BY <1>4 DEF T

\* Three texts one after the other, and how to take them apart again.
LEMMA CutConcat ==
  ASSUME NEW S, NEW x \in Seq(S), NEW y \in Seq(S)
  PROVE  /\ x \o y \in Seq(S) /\ Len(x) \in Nat /\ Len(y) \in Nat
         /\ Len(x \o y) = Len(x) + Len(y)
         /\ SubSeq(x \o y, 1, Len(x)) = x
         /\ SubSeq(x \o y, Len(x) + 1, Len(x \o y)) = y
         /\ \A i \in 1..Len(x) : (x \o y)[i] = x[i]
         /\ \A i \in 1..Len(y) : (x \o y)[Len(x) + i] = y[i]
<1> DEFINE z == x \o y
<1>1. /\ z \in Seq(S) /\ Len(x) \in Nat /\ Len(y) \in Nat /\ Len(z) = Len(x) + Len(y)
      /\ \A i \in 1..Len(x) + Len(y) : z[i] = IF i <= Len(x) THEN x[i] ELSE y[i - Len(x)]
  BY ConcatProperties, LenProperties
<1> HIDE DEF z
<1>2. \A i \in 1..Len(z) : z[i] \in S
  BY <1>1, ElementOfSeq
<1>3. \A i \in 1..Len(x) : z[i] = x[i]
  BY <1>1
<1>4. ASSUME NEW i \in 1..Len(y) PROVE z[Len(x) + i] = y[i]
  <2>1. Len(x) + i \in 1..Len(x) + Len(y) /\ ~(Len(x) + i <= Len(x)) /\ (Len(x) + i) - Len(x) = i
    BY <1>1
  <2> QED
    BY <1>1, <2>1
<1>5. SubSeq(z, 1, Len(x)) = x
  <2>1. /\ SubSeq(z, 1, Len(x)) \in Seq(S) /\ Len(SubSeq(z, 1, Len(x))) = Len(x)
        /\ \A i \in 1..Len(x) : SubSeq(z, 1, Len(x))[i] = z[i]
    <3>1. 1 \in Int /\ Len(x) \in Int /\ \A i \in 1..Len(x) : z[i] \in S
      BY <1>1, <1>2
    <3>2. /\ SubSeq(z, 1, Len(x)) \in Seq(S)
          /\ Len(SubSeq(z, 1, Len(x))) = IF 1 <= Len(x) THEN Len(x) - 1 + 1 ELSE 0
          /\ \A i \in 1..Len(x) - 1 + 1 : SubSeq(z, 1, Len(x))[i] = z[1 + i - 1]
      BY <3>1, SubSeqProperties
    <3> QED
      BY <1>1, <3>2
  <2>2. \A i \in 1..Len(x) : SubSeq(z, 1, Len(x))[i] = x[i]
    BY <1>3, <2>1
  <2> QED
    BY <2>1, <2>2, SeqEqual
<1>6. SubSeq(z, Len(x) + 1, Len(z)) = y
  <2> DEFINE r == SubSeq(z, Len(x) + 1, Len(z))
  <2>1. Len(x) + 1 \in Int /\ Len(z) \in Int /\ \A i \in (Len(x) + 1)..Len(z) : z[i] \in S
    BY <1>1, <1>2
  <2>2. /\ r \in Seq(S)
        /\ Len(r) = IF Len(x) + 1 <= Len(z) THEN Len(z) - (Len(x) + 1) + 1 ELSE 0
        /\ \A i \in 1..Len(z) - (Len(x) + 1) + 1 : r[i] = z[(Len(x) + 1) + i - 1]
    BY <2>1, SubSeqProperties
  <2> HIDE DEF r
  <2>3. Len(r) = Len(y)
    BY <1>1, <2>2
  <2>4. ASSUME NEW i \in 1..Len(y) PROVE r[i] = y[i]
    <3>1. i \in 1..Len(z) - (Len(x) + 1) + 1 /\ (Len(x) + 1) + i - 1 = Len(x) + i
      BY <1>1
    <3> QED
      BY <1>4, <2>2, <3>1
  <2>5. r = y
    BY <2>2, <2>3, <2>4, SeqEqual
  <2> QED
    BY <2>5 DEF r
<1> QED
  BY <1>1, <1>3, <1>4, <1>5, <1>6 DEF z

\* The same of three pieces.
LEMMA ThreeParts ==
  ASSUME NEW S, NEW x \in Seq(S), NEW y \in Seq(S), NEW z \in Seq(S), NEW t, t = (x \o y) \o z
  PROVE  /\ t \in Seq(S) /\ t = x \o (y \o z)
         /\ Len(x) \in Nat /\ Len(y) \in Nat /\ Len(z) \in Nat
         /\ Len(t) = Len(x) + Len(y) + Len(z)
         /\ SubSeq(t, 1, Len(x)) = x
         /\ SubSeq(t, 1, Len(x) + Len(y)) = x \o y
         /\ SubSeq(t, Len(x) + 1, Len(t)) = y \o z
         /\ SubSeq(t, Len(x) + Len(y) + 1, Len(t)) = z
         /\ \A i \in 1..Len(y) : t[Len(x) + i] = y[i]
<1>1. /\ x \o y \in Seq(S) /\ y \o z \in Seq(S) /\ Len(x \o y) = Len(x) + Len(y)
      /\ Len(y \o z) = Len(y) + Len(z)
      /\ Len(x) \in Nat /\ Len(y) \in Nat /\ Len(z) \in Nat
      /\ \A i \in 1..Len(y) : (y \o z)[i] = y[i]
  BY CutConcat
<1>2. t = x \o (y \o z)
  BY ConcatAssociative
<1>3. /\ t \in Seq(S) /\ Len(t) = Len(x \o y) + Len(z)
      /\ SubSeq(t, 1, Len(x \o y)) = x \o y
      /\ SubSeq(t, Len(x \o y) + 1, Len(t)) = z
  <2> DEFINE u == x \o y
  <2>1. u \in Seq(S) /\ t = u \o z
    BY <1>1
  <2> HIDE DEF u
  <2>2. /\ t \in Seq(S) /\ Len(t) = Len(u) + Len(z)
        /\ SubSeq(t, 1, Len(u)) = u
        /\ SubSeq(t, Len(u) + 1, Len(t)) = z
    BY <2>1, CutConcat
  <2> QED
    BY <2>2 DEF u
<1>4. /\ SubSeq(t, 1, Len(x)) = x
      /\ SubSeq(t, Len(x) + 1, Len(t)) = y \o z
      /\ \A i \in 1..Len(y \o z) : t[Len(x) + i] = (y \o z)[i]
  <2> DEFINE u == y \o z
  <2>1. u \in Seq(S) /\ t = x \o u
    BY <1>1, <1>2
  <2> HIDE DEF u
  <2>2. /\ SubSeq(t, 1, Len(x)) = x
        /\ SubSeq(t, Len(x) + 1, Len(t)) = u
        /\ \A i \in 1..Len(u) : t[Len(x) + i] = u[i]
    BY <2>1, CutConcat
  <2> QED
    BY <2>2 DEF u
<1>5. \A i \in 1..Len(y) : t[Len(x) + i] = y[i]
  BY <1>1, <1>4
<1>6. /\ Len(t) = Len(x) + Len(y) + Len(z)
      /\ SubSeq(t, 1, Len(x) + Len(y)) = x \o y
      /\ SubSeq(t, Len(x) + Len(y) + 1, Len(t)) = z
  BY <1>1, <1>3
<1> QED
  BY <1>1, <1>2, <1>3, <1>4, <1>5, <1>6

\* A text that is not empty, from either end.
LEMMA BothEnds ==
  ASSUME NEW S, NEW s \in Seq(S), s # <<>>
  PROVE  /\ Front(s) \in Seq(S) /\ Last(s) \in S /\ s = Append(Front(s), Last(s))
         /\ Tail(s) \in Seq(S) /\ Head(s) \in S /\ s = <<Head(s)>> \o Tail(s)
<1>1. PICK r \in Seq(S), e \in S : s = Append(r, e)
  BY SequenceEmptyOrAppend
<1>2. s = r \o <<e>> /\ <<e>> \in Seq(S) /\ Len(<<e>>) = 1
  BY <1>1, AppendIsConcat
<1>3. Len(s) = Len(r) + 1 /\ SubSeq(s, 1, Len(r)) = r /\ s[Len(r) + 1] = e /\ Len(r) \in Nat
  <2>1. Len(s) = Len(r) + 1 /\ s[Len(r) + 1] = e
    BY <1>1, AppendProperties
  <2>2. SubSeq(s, 1, Len(r)) = r /\ Len(r) \in Nat
    BY <1>2, CutConcat
  <2> QED
    BY <2>1, <2>2
<1>4. Front(s) = r
  <2>1. Len(s) - 1 = Len(r)
    BY <1>3
  <2> QED
    BY <1>3, <2>1 DEF Front
<1>5. Last(s) = e
  <2>1. \A k : k = Len(r) + 1 => s[k] = e
    BY <1>3
  <2> QED
    BY <1>3, <2>1 DEF Last
<1>6. Tail(s) \in Seq(S) /\ Head(s) \in S
  BY HeadTailProperties
<1>7. s = <<Head(s)>> \o Tail(s)
  <2>1. Len(s) \in 1..Len(s) /\ 1 \in 1..Len(s)
    BY <1>3
  <2>2. SubSeq(s, 1, Len(s)) = <<s[1]>> \o SubSeq(s, 2, Len(s))
    BY <2>1, SubSeqRecursiveFirst
  <2>3. SubSeq(s, 1, Len(s)) = s /\ Tail(s) = SubSeq(s, 2, Len(s)) /\ Head(s) = s[1]
    BY SubSeqFull, TailIsSubSeq
  <2> QED
    BY <2>2, <2>3
<1> QED
  BY <1>1, <1>4, <1>5, <1>6, <1>7

\* The text of characters does not end in half of one.
LEMMA LastNotHigh ==
  ASSUME NEW s \in Seq(Char), Len(FlattenSeq(s)) > 0
  PROVE  ~IsHigh(FlattenSeq(s)[Len(FlattenSeq(s))])
<1>1. s # <<>>
  <2>1. Len(<<>>) = 0
    BY EmptySeq
  <2> QED
    BY <2>1, FlattenChars
<1>2. PICK r \in Seq(Char), c \in Char : s = Append(r, c)
  BY <1>1, SequenceEmptyOrAppend
<1>3. FlattenSeq(s) = FlattenSeq(r) \o c /\ FlattenSeq(r) \in Seq(STRING) /\ c \in Seq(STRING)
  BY <1>2, FlattenChars, CharUnits DEF Units
<1> DEFINE u == FlattenSeq(s)
           v == FlattenSeq(r)
<1>4. u = v \o c /\ v \in Seq(STRING) /\ c \in Seq(STRING)
  BY <1>3
<1> HIDE DEF u, v
<1>5. /\ Len(u) = Len(v) + Len(c) /\ Len(v) \in Nat
      /\ \A i \in 1..Len(c) : u[Len(v) + i] = c[i]
  BY <1>4, CutConcat
<1>6. Len(c) \in 1..Len(c) /\ ~IsHigh(c[Len(c)])
  <2>1. Len(c) \in Nat /\ Len(c) > 0 /\ Len(c) \in {1, 2}
    BY CharUnits
  <2>2. CASE Len(c) = 1
    <3>1. ~IsHigh(c[1])
      BY <2>2, CharUnits
    <3> QED
      BY <2>1, <2>2, <3>1
  <2>3. CASE Len(c) = 2
    <3>1. ~IsHigh(c[2])
      BY <2>3, CharUnits
    <3> QED
      BY <2>1, <2>3, <3>1
  <2> QED
    BY <2>1, <2>2, <2>3
<1>7. u[Len(u)] = c[Len(c)]
  BY <1>5, <1>6
<1>8. ~IsHigh(u[Len(u)])
  BY <1>6, <1>7
<1> QED
  BY <1>8 DEF u

\* No half of a character without the other.
Whole(u) == \A k \in 0..Len(u) : (k > 0 /\ IsHigh(u[k])) <=> (k < Len(u) /\ IsLow(u[k + 1]))

\* The text of characters has no half of one without the other.
LEMMA CharsWhole ==
  ASSUME NEW s \in Seq(Char)
  PROVE  Whole(FlattenSeq(s))
<1> DEFINE T == {r \in Seq(Char) : Whole(FlattenSeq(r))}
<1>1. <<>> \in T
  <2>1. <<>> \in Seq(Char) /\ Len(<<>>) = 0
    BY EmptySeq
  <2>2. Whole(<<>>)
    BY <2>1 DEF Whole
  <2> QED
    BY <2>1, <2>2, FlattenChars
<1>2. ASSUME NEW r \in T, NEW c \in Char PROVE Append(r, c) \in T
  <2> DEFINE u == FlattenSeq(r)
             v == FlattenSeq(Append(r, c))
  <2>1. r \in Seq(Char) /\ Whole(u)
    OBVIOUS
  <2>2. Append(r, c) \in Seq(Char)
    BY <2>1, AppendProperties
  <2>3. v = u \o c /\ u \in Seq(STRING) /\ c \in Seq(STRING)
    BY <2>1, FlattenChars, CharUnits DEF Units
  <2> HIDE DEF u, v, T
  <2>4. /\ Len(v) = Len(u) + Len(c) /\ Len(u) \in Nat
        /\ \A i \in 1..Len(u) : v[i] = u[i]
        /\ \A i \in 1..Len(c) : v[Len(u) + i] = c[i]
    BY <2>3, CutConcat
  <2>5. Len(u) > 0 => ~IsHigh(u[Len(u)])
    BY <2>1, <2>4 DEF Whole
  <2>6. v[Len(u) + 1] = c[1] /\ (Len(c) = 2 => v[Len(u) + 2] = c[2])
    <3>1. Len(c) \in {1, 2}
      BY CharUnits
    <3> QED
      BY <2>4, <3>1
  <2>7. ~IsLow(v[Len(u) + 1])
    BY <2>6, CharUnits
  <2>8. ASSUME NEW k \in 0..Len(v)
        PROVE  (k > 0 /\ IsHigh(v[k])) <=> (k < Len(v) /\ IsLow(v[k + 1]))
    <3>1. Len(c) \in {1, 2} /\ Len(v) \in Nat
      BY <2>4, CharUnits
    <3>2. CASE k < Len(u)
      <4>1. k + 1 \in 1..Len(u) /\ v[k + 1] = u[k + 1] /\ k < Len(v)
        BY <2>4, <3>1, <3>2
      <4>2. k > 0 => v[k] = u[k]
        BY <2>4, <3>2
      <4>3. (k > 0 /\ IsHigh(u[k])) <=> (k < Len(u) /\ IsLow(u[k + 1]))
        BY <2>1, <2>4, <3>2 DEF Whole
      <4> QED
        BY <3>2, <4>1, <4>2, <4>3
    <3>3. CASE k = Len(u)
      <4>1. k > 0 => v[k] = u[k]
        BY <2>4, <3>3
      <4>2. k > 0 => ~IsHigh(v[k])
        BY <2>5, <3>3, <4>1
      <4> QED
        BY <2>7, <3>3, <4>2
    <3>4. CASE k = Len(u) + 1
      <4>1. v[k] = c[1] /\ (Len(c) = 2 => v[k + 1] = c[2])
        <5>1. k + 1 = Len(u) + 2
          BY <2>4, <3>4
        <5> QED
          BY <2>6, <3>4, <5>1
      <4>2. /\ k > 0
            /\ Len(c) = 1 => ~(k < Len(v))
            /\ Len(c) = 2 => k < Len(v)
        <5>1. Len(v) = Len(u) + Len(c) /\ Len(u) \in Nat /\ Len(c) \in Nat
          BY <2>4, <3>1
        <5>2. k > 0
          BY <3>4, <5>1
        <5>3. Len(c) = 1 => ~(k < Len(v))
          BY <3>4, <5>1
        <5>4. Len(c) = 2 => k < Len(v)
          BY <3>4, <5>1
        <5> QED
          BY <5>2, <5>3, <5>4
      <4>3. IsHigh(c[1]) <=> Len(c) = 2
        <5>1. (Len(c) = 1 => ~IsHigh(c[1])) /\ (Len(c) = 2 => IsHigh(c[1]))
          BY CharUnits
        <5>2. Len(c) = 1 \/ Len(c) = 2
          BY <3>1
        <5> QED
          BY <5>1, <5>2
      <4>4. Len(c) = 2 => IsLow(c[2])
        BY CharUnits
      <4>5. CASE Len(c) = 1
        <5>1. ~IsHigh(v[k]) /\ ~(k < Len(v))
          BY <4>1, <4>2, <4>3, <4>5
        <5> QED
          BY <5>1
      <4>6. CASE Len(c) = 2
        <5>1. k > 0 /\ IsHigh(v[k]) /\ k < Len(v) /\ IsLow(v[k + 1])
          BY <4>1, <4>2, <4>3, <4>4, <4>6
        <5> QED
          BY <5>1
      <4> QED
        BY <3>1, <4>5, <4>6
    <3>5. CASE k = Len(u) + 2
      <4>1. Len(c) = 2 /\ k = Len(v)
        BY <2>4, <3>1, <3>5
      <4>2. v[k] = c[2]
        BY <2>6, <3>5, <4>1
      <4>3. ~IsHigh(c[2])
        BY <4>1, CharUnits
      <4>4. ~(k < Len(v))
        BY <3>1, <4>1
      <4> QED
        BY <4>2, <4>3, <4>4
    <3>6. k < Len(u) \/ k = Len(u) \/ k = Len(u) + 1 \/ k = Len(u) + 2
      BY <2>4, <3>1
    <3> QED
      BY <3>2, <3>3, <3>4, <3>5, <3>6
  <2>9. Whole(v)
    BY <2>8 DEF Whole
  <2> QED
    BY <2>2, <2>9 DEF T, v
<1>3. T \in SUBSET Seq(Char)
  OBVIOUS
<1> HIDE DEF T
<1>4. T = Seq(Char)
  BY <1>1, <1>2, <1>3, AllSequences
<1> QED
  BY <1>4 DEF T

\* The boxes that hold whole characters with the caret between two of them.
Ideals == {i \in [before : Seq(Char), after : Seq(Char)] : Len(Shown(i)) <= Limit}
Real(i) == Box(Shown(i), Len(FlattenSeq(i.before)))

\* The text of a box of characters is those before the caret and those after it.
LEMMA RealParts ==
  ASSUME NEW i \in [before : Seq(Char), after : Seq(Char)]
  PROVE  /\ i.before \in Seq(Char) /\ i.after \in Seq(Char)
         /\ FlattenSeq(i.before) \in Units /\ FlattenSeq(i.after) \in Units
         /\ Shown(i) = FlattenSeq(i.before) \o FlattenSeq(i.after)
         /\ Shown(i) \in Units
         /\ Len(FlattenSeq(i.before)) \in Nat /\ Len(FlattenSeq(i.after)) \in Nat
         /\ Len(Shown(i)) = Len(FlattenSeq(i.before)) + Len(FlattenSeq(i.after))
         /\ Real(i).text = Shown(i) /\ Real(i).caret = Len(FlattenSeq(i.before))
<1>1. i.before \in Seq(Char) /\ i.after \in Seq(Char)
  OBVIOUS
<1>2. FlattenSeq(i.before) \in Units /\ FlattenSeq(i.after) \in Units
  BY <1>1, FlattenChars
<1>3. Shown(i) = FlattenSeq(i.before) \o FlattenSeq(i.after)
  BY <1>1, FlattenConcat DEF Shown
<1>4. /\ Shown(i) \in Units
      /\ Len(FlattenSeq(i.before)) \in Nat /\ Len(FlattenSeq(i.after)) \in Nat
      /\ Len(Shown(i)) = Len(FlattenSeq(i.before)) + Len(FlattenSeq(i.after))
  BY <1>2, <1>3, CutConcat DEF Units
<1>5. Real(i).text = Shown(i) /\ Real(i).caret = Len(FlattenSeq(i.before))
  BY DEF Real, Box
<1> QED
  BY <1>1, <1>2, <1>3, <1>4, <1>5

\* Whole characters put at the caret are put at the caret of the text.
LEMMA InsertPiece ==
  ASSUME NEW i \in Ideals, NEW j \in [before : Seq(Char), after : Seq(Char)], NEW w \in Units,
         FlattenSeq(j.before) = FlattenSeq(i.before) \o w, j.after = i.after
  PROVE  /\ Len(Shown(j)) = Len(Shown(i)) + Len(w) /\ Len(w) \in Nat
         /\ Len(Shown(i)) + Len(w) <= Limit => Insert(Real(i), w) = Real(j)
<1> DEFINE x == FlattenSeq(i.before)
           y == FlattenSeq(i.after)
           b == Real(i)
<1>1. i \in [before : Seq(Char), after : Seq(Char)]
  BY DEF Ideals
<1>2. /\ x \in Seq(STRING) /\ y \in Seq(STRING) /\ Shown(i) = x \o y
      /\ b.text = x \o y /\ b.caret = Len(x)
      /\ Len(Shown(i)) = Len(x) + Len(y) /\ Len(x) \in Nat /\ Len(y) \in Nat
  BY <1>1, RealParts DEF Units
<1>3. FlattenSeq(j.before) = x \o w /\ FlattenSeq(j.after) = y
  OBVIOUS
<1>4. /\ Shown(j) = (x \o w) \o y /\ Real(j) = Box(Shown(j), Len(x \o w))
      /\ Len(Shown(j)) = Len(x \o w) + Len(y)
  BY <1>3, RealParts DEF Real
<1> HIDE DEF x, y, b
<1>5. Len(x \o w) = Len(x) + Len(w) /\ Len(w) \in Nat
  BY <1>2, CutConcat DEF Units
<1>6. Len(Shown(j)) = Len(Shown(i)) + Len(w)
  BY <1>2, <1>4, <1>5
<1>7. ASSUME Len(Shown(i)) + Len(w) <= Limit PROVE Insert(b, w) = Real(j)
  <2>1. ~(Len(b.text) + Len(w) > Limit)
    BY <1>2, <1>5, <1>7, ChatAssumption
  <2>2. SubSeq(b.text, 1, b.caret) = x /\ SubSeq(b.text, b.caret + 1, Len(b.text)) = y
    BY <1>2, CutConcat
  <2>3. Insert(b, w) = Box(x \o w \o y, Len(x) + Len(w))
    BY <1>2, <2>1, <2>2 DEF Insert
  <2> QED
    BY <1>4, <1>5, <2>3
<1> QED
  BY <1>5, <1>6, <1>7 DEF b

\* A character put in the text is put among the characters, if there is room.
LEMMA InsertChar ==
  ASSUME NEW i \in Ideals, NEW c \in Char
  PROVE  IdealInsert(i, c) \in Ideals /\ Insert(Real(i), c) = Real(IdealInsert(i, c))
<1> DEFINE j == [i EXCEPT !.before = Append(@, c)]
<1>1. i.before \in Seq(Char) /\ i \in [before : Seq(Char), after : Seq(Char)]
  BY DEF Ideals
<1>2. /\ j \in [before : Seq(Char), after : Seq(Char)]
      /\ j.before = Append(i.before, c) /\ j.after = i.after
  BY <1>1, AppendProperties
<1>3. FlattenSeq(j.before) = FlattenSeq(i.before) \o c /\ c \in Units
  BY <1>1, <1>2, FlattenChars, CharUnits
<1> HIDE DEF j
<1>4. /\ Len(Shown(j)) = Len(Shown(i)) + Len(c) /\ Len(c) \in Nat
      /\ Len(Shown(i)) + Len(c) <= Limit => Insert(Real(i), c) = Real(j)
  BY <1>2, <1>3, InsertPiece
<1>5. Len(Shown(i)) \in Nat /\ Limit \in Nat
  BY <1>1, RealParts, LenProperties, ChatAssumption DEF Units
<1>6. CASE Len(Shown(i)) + Len(c) > Limit
  <2>1. IdealInsert(i, c) = i /\ Insert(Real(i), c) = Real(i)
    <3>1. Real(i).text = Shown(i)
      BY <1>1, RealParts
    <3> QED
      BY <1>6, <3>1 DEF IdealInsert, Insert
  <2> QED
    BY <2>1
<1>7. CASE Len(Shown(i)) + Len(c) <= Limit
  <2>1. IdealInsert(i, c) = j
    BY <1>4, <1>5, <1>7 DEF IdealInsert, j
  <2>2. j \in Ideals
    BY <1>2, <1>4, <1>7 DEF Ideals
  <2> QED
    BY <1>4, <1>7, <2>1, <2>2
<1> QED
  BY <1>4, <1>5, <1>6, <1>7

\* The texts that fit, with a caret that may be in the middle of a character.
Boxes == {b \in [text : Units, caret : Nat] : b.caret <= Len(b.text) /\ Len(b.text) <= Limit}

\* A box of characters that fit is one of those.
LEMMA RealIsBox ==
  ASSUME NEW i \in Ideals
  PROVE  Real(i) \in Boxes
<1>1. i \in [before : Seq(Char), after : Seq(Char)] /\ Len(Shown(i)) <= Limit
  BY DEF Ideals
<1> DEFINE n == Len(FlattenSeq(i.before))
<1>2. Real(i) = [text |-> Shown(i), caret |-> n]
  BY DEF Real, Box
<1>3. Shown(i) \in Units /\ n \in Nat /\ n <= Len(Shown(i))
  BY <1>1, RealParts
<1> HIDE DEF n
<1> QED
  BY <1>1, <1>2, <1>3 DEF Boxes

\* A piece of a text.
LEMMA PieceOf ==
  ASSUME NEW t \in Units, NEW m \in Nat, m > 0, NEW n \in Nat, n <= Len(t)
  PROVE  /\ SubSeq(t, m, n) \in Units
         /\ Len(SubSeq(t, m, n)) = IF m <= n THEN n - m + 1 ELSE 0
         /\ \A k \in 1..(n - m + 1) : SubSeq(t, m, n)[k] = t[m + k - 1]
<1>1. Len(t) \in Nat /\ m \in Int /\ n \in Int
  BY LenProperties DEF Units
<1>2. \A k \in m..n : t[k] \in STRING
  <2>1. \A k \in 1..Len(t) : t[k] \in STRING
    BY ElementOfSeq DEF Units
  <2> QED
    BY <1>1, <2>1
<1> QED
  BY <1>1, <1>2, SubSeqProperties DEF Units

\* The first units of a text.
LEMMA PrefixOf ==
  ASSUME NEW t \in Units, NEW n \in Nat, n <= Len(t)
  PROVE  /\ SubSeq(t, 1, n) \in Units /\ Len(SubSeq(t, 1, n)) = n
         /\ \A k \in 1..n : SubSeq(t, 1, n)[k] = t[k]
<1>1. /\ SubSeq(t, 1, n) \in Units
      /\ Len(SubSeq(t, 1, n)) = IF 1 <= n THEN n - 1 + 1 ELSE 0
      /\ \A k \in 1..(n - 1 + 1) : SubSeq(t, 1, n)[k] = t[1 + k - 1]
  BY PieceOf
<1>2. Len(SubSeq(t, 1, n)) = n
  BY <1>1
<1>3. \A k \in 1..n : SubSeq(t, 1, n)[k] = t[k]
  BY <1>1
<1> QED
  BY <1>1, <1>2, <1>3

\* What is put in a text leaves a text that fits, with the caret in it.
LEMMA InsertBox ==
  ASSUME NEW b \in Boxes, NEW w \in Units
  PROVE  Insert(b, w) \in Boxes
<1> DEFINE x == SubSeq(b.text, 1, b.caret)
           y == SubSeq(b.text, b.caret + 1, Len(b.text))
           z == (x \o w) \o y
<1>1. /\ b.text \in Units /\ b.caret \in Nat /\ b.caret <= Len(b.text) /\ Len(b.text) <= Limit
      /\ Len(b.text) \in Nat /\ Limit \in Nat
  BY LenProperties, ChatAssumption DEF Boxes, Units
<1>2. x \in Units /\ Len(x) = b.caret
  BY <1>1, PrefixOf
<1>3. y \in Units /\ Len(y) = Len(b.text) - b.caret
  <2>1. b.caret + 1 \in Nat /\ b.caret + 1 > 0
    BY <1>1
  <2>2. /\ y \in Units
        /\ Len(y) = IF b.caret + 1 <= Len(b.text) THEN Len(b.text) - (b.caret + 1) + 1 ELSE 0
    BY <1>1, <2>1, PieceOf
  <2> QED
    BY <1>1, <2>2
<1> HIDE DEF x, y
<1>4. /\ z \in Units /\ Len(z) = Len(x) + Len(w) + Len(y) /\ Len(w) \in Nat
  BY <1>2, <1>3, ThreeParts DEF Units
<1> HIDE DEF z
<1>5. CASE Len(b.text) + Len(w) > Limit
  BY <1>5 DEF Insert
<1>6. CASE ~(Len(b.text) + Len(w) > Limit)
  <2>1. Insert(b, w) = [text |-> z, caret |-> b.caret + Len(w)]
    BY <1>6 DEF Insert, Box, x, y, z
  <2>2. /\ b.caret + Len(w) \in Nat /\ b.caret + Len(w) <= Len(z) /\ Len(z) <= Limit
    BY <1>1, <1>2, <1>3, <1>4, <1>6
  <2> QED
    BY <1>4, <2>1, <2>2 DEF Boxes
<1> QED
  BY <1>5, <1>6

\* So does a key.
LEMMA DoesBox ==
  ASSUME NEW b \in Boxes, NEW key \in Keys
  PROVE  Does(b, key) \in Boxes
<1>1. /\ b.text \in Units /\ b.caret \in Nat /\ b.caret <= Len(b.text) /\ Len(b.text) <= Limit
      /\ Len(b.text) \in Nat /\ Limit \in Nat
  BY LenProperties, ChatAssumption DEF Boxes, Units
<1>2. ASSUME NEW n \in Nat, n <= Len(b.text) PROVE Box(b.text, n) \in Boxes
  BY <1>1, <1>2 DEF Box, Boxes
<1>3. ASSUME NEW from \in Nat, NEW n \in Nat, from + n <= Len(b.text)
      PROVE  Erase(b, from, n) \in Boxes
  <2> DEFINE x == SubSeq(b.text, 1, from)
             y == SubSeq(b.text, (from + n) + 1, Len(b.text))
  <2>1. x \in Units /\ Len(x) = from
    <3>1. from <= Len(b.text)
      BY <1>1, <1>3
    <3> QED
      BY <1>1, <3>1, PrefixOf
  <2>2. y \in Units /\ Len(y) = Len(b.text) - (from + n)
    <3>1. (from + n) + 1 \in Nat /\ (from + n) + 1 > 0
      OBVIOUS
    <3>2. /\ y \in Units
          /\ Len(y) = IF (from + n) + 1 <= Len(b.text)
                      THEN Len(b.text) - ((from + n) + 1) + 1 ELSE 0
      BY <1>1, <3>1, PieceOf
    <3>3. from + n <= Len(b.text) /\ Len(b.text) \in Nat
      BY <1>1, <1>3
    <3>4. Len(y) = Len(b.text) - (from + n)
      <4> HIDE DEF y
      <4> QED
        BY <3>2, <3>3
    <3> QED
      BY <3>2, <3>4
  <2>3. Erase(b, from, n) = [text |-> x \o y, caret |-> from]
    BY DEF Erase, Box
  <2> HIDE DEF x, y
  <2>4. x \o y \in Units /\ Len(x \o y) = Len(x) + Len(y)
    BY <2>1, <2>2, CutConcat DEF Units
  <2>5. from <= Len(x \o y) /\ Len(x \o y) <= Limit
    <3>1. Len(x \o y) = from + (Len(b.text) - (from + n))
      BY <2>1, <2>2, <2>4
    <3>2. Len(b.text) \in Nat /\ Len(b.text) <= Limit /\ Limit \in Nat /\ from + n <= Len(b.text)
      BY <1>1, <1>3
    <3>3. ASSUME NEW l \in Nat, NEW m \in Nat, l <= m, from + n <= l
          PROVE  from <= from + (l - (from + n)) /\ from + (l - (from + n)) <= m
      BY <3>3
    <3> QED
      BY <3>1, <3>2, <3>3, Zenon
  <2>6. [text |-> x \o y, caret |-> from] \in [text : Units, caret : Nat]
    BY <2>4
  <2>7. /\ [text |-> x \o y, caret |-> from].caret = from
        /\ [text |-> x \o y, caret |-> from].text = x \o y
    OBVIOUS
  <2> QED
    BY <2>3, <2>5, <2>6, <2>7, Zenon DEF Boxes
<1>4. b.caret > 0 => WidthBefore(b) \in Nat /\ WidthBefore(b) <= b.caret
  BY <1>1 DEF WidthBefore
<1>5. b.caret < Len(b.text) => WidthAfter(b) \in Nat /\ b.caret + WidthAfter(b) <= Len(b.text)
  BY <1>1 DEF WidthAfter
<1>6. CASE key = "HOME"
  <2>1. Does(b, key) = Box(b.text, 0)
    BY <1>6 DEF Does
  <2> QED
    BY <1>1, <1>2, <2>1
<1>7. CASE key = "END"
  <2>1. Does(b, key) = Box(b.text, Len(b.text))
    BY <1>7 DEF Does
  <2> QED
    BY <1>1, <1>2, <2>1
<1>8. CASE key = "BACK" /\ b.caret > 0
  <2>1. Does(b, key) = Erase(b, b.caret - WidthBefore(b), WidthBefore(b))
    BY <1>8 DEF Does
  <2>2. /\ b.caret - WidthBefore(b) \in Nat /\ WidthBefore(b) \in Nat
        /\ (b.caret - WidthBefore(b)) + WidthBefore(b) <= Len(b.text)
    BY <1>1, <1>4, <1>8
  <2> QED
    BY <1>3, <2>1, <2>2
<1>9. CASE key = "DELETE" /\ b.caret < Len(b.text)
  <2>1. Does(b, key) = Erase(b, b.caret, WidthAfter(b))
    BY <1>9 DEF Does
  <2> QED
    BY <1>1, <1>3, <1>5, <1>9, <2>1
<1>10. CASE key = "LEFT" /\ b.caret > 0
  <2>1. Does(b, key) = Box(b.text, b.caret - WidthBefore(b))
    BY <1>10 DEF Does
  <2>2. b.caret - WidthBefore(b) \in Nat /\ b.caret - WidthBefore(b) <= Len(b.text)
    BY <1>1, <1>4, <1>10
  <2> QED
    BY <1>2, <2>1, <2>2
<1>11. CASE key = "RIGHT" /\ b.caret < Len(b.text)
  <2>1. Does(b, key) = Box(b.text, b.caret + WidthAfter(b))
    BY <1>11 DEF Does
  <2>2. b.caret + WidthAfter(b) \in Nat
    BY <1>1, <1>5, <1>11
  <2> QED
    BY <1>2, <1>5, <1>11, <2>1, <2>2
<1>12. CASE /\ key # "HOME" /\ key # "END"
            /\ ~(key = "BACK" /\ b.caret > 0) /\ ~(key = "DELETE" /\ b.caret < Len(b.text))
            /\ ~(key = "LEFT" /\ b.caret > 0) /\ ~(key = "RIGHT" /\ b.caret < Len(b.text))
  <2>1. Does(b, key) = b
    BY <1>12 DEF Does
  <2> QED
    BY <2>1
<1> QED
  BY <1>6, <1>7, <1>8, <1>9, <1>10, <1>11, <1>12

\* The characters before and after the caret are as wide as they are.
LEMMA WidthReal ==
  ASSUME NEW i \in Ideals
  PROVE  /\ i.before = <<>> => Real(i).caret = 0
         /\ i.after = <<>> => Real(i).caret = Len(Real(i).text)
         /\ \A r \in Seq(Char), c \in Char :
              i.before = Append(r, c) =>
                /\ Real(i).caret > 0 /\ WidthBefore(Real(i)) = Len(c)
                /\ Real(i).caret = Len(FlattenSeq(r)) + Len(c)
         /\ \A r \in Seq(Char), c \in Char :
              i.after = <<c>> \o r =>
                /\ Real(i).caret < Len(Real(i).text) /\ WidthAfter(Real(i)) = Len(c)
                /\ FlattenSeq(i.after) = c \o FlattenSeq(r)
<1> DEFINE x == FlattenSeq(i.before)
           y == FlattenSeq(i.after)
           b == Real(i)
           t == b.text
<1>1. i \in [before : Seq(Char), after : Seq(Char)]
  BY DEF Ideals
<1>2. /\ x \in Seq(STRING) /\ y \in Seq(STRING) /\ t = x \o y /\ b.caret = Len(x)
      /\ Len(t) = Len(x) + Len(y) /\ Len(x) \in Nat /\ Len(y) \in Nat
      /\ i.before \in Seq(Char) /\ i.after \in Seq(Char)
  BY <1>1, RealParts DEF Units
<1>3. /\ \A k \in 1..Len(x) : t[k] = x[k]
      /\ \A k \in 1..Len(y) : t[Len(x) + k] = y[k]
  <2> HIDE DEF x, y, t
  <2> QED
    BY <1>2, CutConcat
<1>4. i.before = <<>> => x = <<>>
  BY FlattenChars
<1>5. i.after = <<>> => y = <<>>
  BY FlattenChars
<1>6. i.before = <<>> => b.caret = 0
  BY <1>2, <1>4, EmptySeq
<1>7. i.after = <<>> => b.caret = Len(t)
  <2>1. y = <<>> => Len(y) = 0
    BY EmptySeq
  <2> QED
    BY <1>2, <1>5, <2>1
<1>8. ASSUME NEW r \in Seq(Char), NEW c \in Char, i.before = Append(r, c)
      PROVE  b.caret > 0 /\ WidthBefore(b) = Len(c) /\ b.caret = Len(FlattenSeq(r)) + Len(c)
  <2> DEFINE v == FlattenSeq(r)
  <2>1. x = v \o c /\ v \in Seq(STRING) /\ c \in Seq(STRING)
    BY <1>8, FlattenChars, CharUnits DEF Units
  <2> HIDE DEF x, y, t, v
  <2>2. /\ Len(x) = Len(v) + Len(c) /\ Len(v) \in Nat
        /\ \A k \in 1..Len(c) : x[Len(v) + k] = c[k]
    BY <2>1, CutConcat
  <2>3. Len(c) = 1 \/ Len(c) = 2
    BY CharUnits
  <2>4. b.caret > 0 /\ b.caret = Len(v) + Len(c) /\ b.caret \in 1..Len(x)
    <3>1. b.caret = Len(x) /\ Len(x) = Len(v) + Len(c) /\ Len(v) \in Nat
      BY <1>2, <2>2
    <3>2. Len(c) \in Nat /\ Len(c) > 0
      BY CharUnits
    <3>3. b.caret > 0
      BY <3>1, <3>2
    <3>4. b.caret = Len(v) + Len(c)
      BY <3>1
    <3>5. b.caret \in 1..Len(x)
      BY <3>1, <3>2
    <3> QED
      BY <3>3, <3>4, <3>5
  <2>5. CASE Len(c) = 1
    <3>1. x[b.caret] = c[1]
      BY <2>2, <2>4, <2>5
    <3>2. ~IsLow(b.text[b.caret])
      BY <1>3, <2>4, <2>5, <3>1, CharUnits DEF t
    <3> QED
      BY <2>4, <2>5, <3>2 DEF WidthBefore, v
  <2>6. CASE Len(c) = 2
    <3>1. x[b.caret] = c[2]
      BY <2>2, <2>4, <2>6
    <3>2. b.caret - 1 = Len(v) + 1 /\ b.caret - 1 \in 1..Len(x) /\ b.caret > 1
      BY <2>2, <2>4, <2>6
    <3>3. x[b.caret - 1] = c[1]
      BY <2>2, <2>6, <3>2
    <3>4. IsLow(b.text[b.caret]) /\ IsHigh(b.text[b.caret - 1])
      BY <1>3, <2>4, <2>6, <3>1, <3>2, <3>3, CharUnits DEF t
    <3> QED
      BY <2>4, <2>6, <3>2, <3>4 DEF WidthBefore, v
  <2> QED
    BY <2>3, <2>5, <2>6
<1>9. ASSUME NEW r \in Seq(Char), NEW c \in Char, i.after = <<c>> \o r
      PROVE  b.caret < Len(t) /\ WidthAfter(b) = Len(c) /\ y = c \o FlattenSeq(r)
  <2> DEFINE v == FlattenSeq(r)
  <2>1. v \in Seq(STRING) /\ c \in Seq(STRING)
    BY FlattenChars, CharUnits DEF Units
  <2>2. y = c \o v
    <3>1. <<c>> \in Seq(Char) /\ <<>> \in Seq(Char) /\ <<c>> = Append(<<>>, c)
      BY EmptySeq
    <3>2. FlattenSeq(<<c>> \o r) = FlattenSeq(<<c>>) \o v
      BY <3>1, FlattenConcat
    <3>3. FlattenSeq(<<c>>) = <<>> \o c
      BY <3>1, FlattenChars
    <3>4. <<>> \o c = c
      BY <2>1, ConcatEmptySeq
    <3> QED
      BY <1>9, <3>2, <3>3, <3>4
  <2> HIDE DEF x, y, t, v
  <2>3. /\ Len(y) = Len(c) + Len(v) /\ Len(v) \in Nat
        /\ \A k \in 1..Len(c) : y[k] = c[k]
    BY <2>1, <2>2, CutConcat
  <2>4. Len(c) = 1 \/ Len(c) = 2
    BY CharUnits
  <2>5. b.caret < Len(t) /\ b.caret + 1 = Len(x) + 1 /\ b.caret + 2 = Len(x) + 2
    <3>1. b.caret = Len(x) /\ Len(t) = Len(x) + Len(y) /\ Len(x) \in Nat
      BY <1>2
    <3>2. Len(c) \in Nat /\ Len(c) > 0
      BY CharUnits
    <3>3. Len(y) = Len(c) + Len(v) /\ Len(v) \in Nat
      BY <2>3
    <3>4. b.caret < Len(t)
      BY <3>1, <3>2, <3>3
    <3>5. b.caret + 1 = Len(x) + 1 /\ b.caret + 2 = Len(x) + 2
      BY <3>1
    <3> QED
      BY <3>4, <3>5
  <2>6. t[b.caret + 1] = c[1]
    <3>1. 1 \in 1..Len(y) /\ 1 \in 1..Len(c)
      BY <2>3, <2>4
    <3>2. t[Len(x) + 1] = y[1]
      BY <1>3, <3>1
    <3> QED
      BY <2>3, <2>5, <3>1, <3>2
  <2>7. CASE Len(c) = 1
    <3>1. ~IsHigh(b.text[b.caret + 1])
      BY <2>6, <2>7, CharUnits DEF t
    <3> QED
      BY <2>2, <2>5, <2>7, <3>1 DEF WidthAfter, v
  <2>8. CASE Len(c) = 2
    <3>1. 2 \in 1..Len(y) /\ 2 \in 1..Len(c)
      BY <2>3, <2>8
    <3>2. t[Len(x) + 2] = y[2]
      BY <1>3, <3>1
    <3>3. t[b.caret + 2] = c[2]
      BY <2>3, <2>5, <3>1, <3>2
    <3>4. IsHigh(b.text[b.caret + 1]) /\ IsLow(b.text[b.caret + 2])
      BY <2>6, <2>8, <3>3, CharUnits DEF t
    <3>5. b.caret + 1 < Len(b.text)
      <4>1. b.caret + 1 < Len(t)
        BY <1>2, <2>3, <2>8
      <4> QED
        BY <4>1 DEF t
    <3> QED
      BY <2>2, <2>5, <2>8, <3>4, <3>5 DEF WidthAfter, v
  <2> QED
    BY <2>4, <2>7, <2>8
<1> HIDE DEF x, b
<1> QED
  BY <1>6, <1>7, <1>8, <1>9 DEF b

\* A key does to the text what it does to the characters.
LEMMA DoesReal ==
  ASSUME NEW i \in Ideals, NEW key \in Keys
  PROVE  IdealDoes(i, key) \in Ideals /\ Does(Real(i), key) = Real(IdealDoes(i, key))
<1> DEFINE x == FlattenSeq(i.before)
           y == FlattenSeq(i.after)
           b == Real(i)
           R == [before : Seq(Char), after : Seq(Char)]
<1>1. /\ i \in R /\ i.before \in Seq(Char) /\ i.after \in Seq(Char) /\ Len(Shown(i)) <= Limit
      /\ i.before \o i.after \in Seq(Char) /\ <<>> \in Seq(Char)
  BY ConcatProperties, EmptySeq DEF Ideals
<1>2. /\ x \in Seq(STRING) /\ y \in Seq(STRING)
      /\ b.text = x \o y /\ b.text = Shown(i) /\ b.caret = Len(x)
      /\ Len(b.text) = Len(x) + Len(y) /\ Len(x) \in Nat /\ Len(y) \in Nat
  BY <1>1, RealParts DEF Units
\* What shows the same text is told apart by the caret.
<1>3. ASSUME NEW p \in Seq(Char), NEW q \in Seq(Char), p \o q = i.before \o i.after
      PROVE  /\ [before |-> p, after |-> q] \in Ideals
             /\ Real([before |-> p, after |-> q]) = Box(b.text, Len(FlattenSeq(p)))
  <2> DEFINE j == [before |-> p, after |-> q]
  <2>1. j \in R /\ j.before = p /\ j.after = q
    OBVIOUS
  <2> HIDE DEF j
  <2>2. Shown(j) = Shown(i)
    BY <1>3, <2>1 DEF Shown
  <2>3. j \in Ideals
    BY <1>1, <2>1, <2>2 DEF Ideals
  <2>4. Real(j) = Box(b.text, Len(FlattenSeq(p)))
    BY <1>2, <2>1, <2>2 DEF Real
  <2> QED
    BY <2>3, <2>4 DEF j
\* What is taken from the text.
<1>4. ASSUME NEW j \in R, NEW u \in Seq(STRING), NEW c \in Char, NEW v \in Seq(STRING),
             FlattenSeq(j.before) = u, FlattenSeq(j.after) = v, b.text = (u \o c) \o v
      PROVE  j \in Ideals /\ Erase(b, Len(u), Len(c)) = Real(j)
  <2>1. c \in Seq(STRING)
    BY CharUnits DEF Units
  <2>2. Shown(j) = u \o v /\ Real(j) = Box(u \o v, Len(u))
    BY <1>4, RealParts DEF Real
  <2>3. /\ Len(b.text) = Len(u) + Len(c) + Len(v)
        /\ SubSeq(b.text, 1, Len(u)) = u
        /\ SubSeq(b.text, Len(u) + Len(c) + 1, Len(b.text)) = v
        /\ Len(u) \in Nat /\ Len(c) \in Nat /\ Len(v) \in Nat
    BY <1>4, <2>1, ThreeParts
  <2>4. Erase(b, Len(u), Len(c)) = Real(j)
    BY <2>2, <2>3 DEF Erase
  <2>5. Len(Shown(j)) = Len(u) + Len(v)
    BY <2>2, CutConcat
  <2>6. Len(Shown(j)) <= Limit
    <3>1. Len(b.text) <= Limit /\ Limit \in Nat
      BY <1>1, <1>2, ChatAssumption
    <3> QED
      BY <2>3, <2>5, <3>1
  <2>7. j \in Ideals
    BY <2>6 DEF Ideals
  <2> QED
    BY <2>4, <2>7
<1>5. CASE key = "HOME"
  <2>1. IdealDoes(i, key) = [before |-> <<>>, after |-> i.before \o i.after]
    BY <1>5 DEF IdealDoes
  <2>2. Does(b, key) = Box(b.text, 0)
    BY <1>5 DEF Does
  <2>3. <<>> \o (i.before \o i.after) = i.before \o i.after
    BY <1>1, ConcatEmptySeq
  <2>4. Len(FlattenSeq(<<>>)) = 0
    BY FlattenChars, EmptySeq
  <2> QED
    BY <1>1, <1>3, <2>1, <2>2, <2>3, <2>4
<1>6. CASE key = "END"
  <2>1. IdealDoes(i, key) = [before |-> i.before \o i.after, after |-> <<>>]
    BY <1>6 DEF IdealDoes
  <2>2. Does(b, key) = Box(b.text, Len(b.text))
    BY <1>6 DEF Does
  <2>3. (i.before \o i.after) \o <<>> = i.before \o i.after
    BY <1>1, ConcatEmptySeq
  <2>4. FlattenSeq(i.before \o i.after) = b.text
    BY <1>2 DEF Shown
  <2> QED
    BY <1>1, <1>3, <2>1, <2>2, <2>3, <2>4
<1>7. CASE i.before # <<>> /\ key \in {"BACK", "LEFT"}
  <2> DEFINE p == Front(i.before)
             c == Last(i.before)
             u == FlattenSeq(p)
  <2>1. p \in Seq(Char) /\ c \in Char /\ i.before = Append(p, c)
    BY <1>1, <1>7, BothEnds
  <2>2. b.caret > 0 /\ WidthBefore(b) = Len(c) /\ b.caret = Len(u) + Len(c)
    BY <2>1, WidthReal
  <2>3. x = u \o c /\ u \in Seq(STRING) /\ Len(u) \in Nat /\ Len(c) \in Nat
    <3>1. x = u \o c /\ u \in Seq(STRING)
      BY <2>1, FlattenChars DEF Units
    <3> QED
      BY <2>1, <3>1, LenProperties, CharUnits DEF Units
  <2>4. b.caret - WidthBefore(b) = Len(u)
    <3> HIDE DEF u, c, b
    <3> QED
      BY <2>2, <2>3
  <2>5. CASE key = "BACK"
    <3> DEFINE j == [i EXCEPT !.before = p]
    <3>1. IdealDoes(i, key) = j
      BY <1>7, <2>5 DEF IdealDoes
    <3>2. Does(b, key) = Erase(b, Len(u), Len(c))
      BY <2>2, <2>4, <2>5 DEF Does
    <3>3. j \in R /\ j.before = p /\ j.after = i.after
      BY <1>1, <2>1
    <3>4. FlattenSeq(j.before) = u /\ FlattenSeq(j.after) = y
      BY <3>3
    <3>5. b.text = (u \o c) \o y
      BY <1>2, <2>3
    <3> HIDE DEF j, u, c, y
    <3>6. j \in Ideals /\ Erase(b, Len(u), Len(c)) = Real(j)
      BY <1>2, <1>4, <2>1, <2>3, <3>3, <3>4, <3>5
    <3> QED
      BY <3>1, <3>2, <3>6
  <2>6. CASE key = "LEFT"
    <3> DEFINE q == <<c>> \o i.after
    <3>1. IdealDoes(i, key) = [before |-> p, after |-> q]
      BY <1>7, <2>6 DEF IdealDoes
    <3>2. Does(b, key) = Box(b.text, Len(u))
      BY <2>2, <2>4, <2>6 DEF Does
    <3>3. q \in Seq(Char) /\ p \o q = i.before \o i.after
      <4>1. <<c>> \in Seq(Char)
        BY <2>1
      <4>2. q \in Seq(Char)
        BY <1>1, <4>1, ConcatProperties
      <4>3. p \o q = (p \o <<c>>) \o i.after
        BY <1>1, <2>1, <4>1, ConcatAssociative
      <4>4. p \o <<c>> = i.before
        BY <2>1, AppendIsConcat
      <4> QED
        BY <4>2, <4>3, <4>4
    <3> HIDE DEF p, q, b
    <3>4. [before |-> p, after |-> q] \in Ideals
          /\ Real([before |-> p, after |-> q]) = Box(b.text, Len(FlattenSeq(p)))
      BY <1>3, <2>1, <3>3
    <3> QED
      BY <3>1, <3>2, <3>4 DEF b
  <2> QED
    BY <1>7, <2>5, <2>6
<1>8. CASE i.after # <<>> /\ key \in {"DELETE", "RIGHT"}
  <2> DEFINE q == Tail(i.after)
             c == Head(i.after)
             v == FlattenSeq(q)
  <2>1. q \in Seq(Char) /\ c \in Char /\ i.after = <<c>> \o q
    BY <1>1, <1>8, BothEnds
  <2>2. b.caret < Len(b.text) /\ WidthAfter(b) = Len(c) /\ y = c \o v
    BY <2>1, WidthReal
  <2>3. v \in Seq(STRING) /\ c \in Seq(STRING)
    BY <2>1, FlattenChars, CharUnits DEF Units
  <2>4. CASE key = "DELETE"
    <3> DEFINE j == [i EXCEPT !.after = q]
    <3>1. IdealDoes(i, key) = j
      BY <1>8, <2>4 DEF IdealDoes
    <3>2. Does(b, key) = Erase(b, Len(x), Len(c))
      <4>1. key = "DELETE" /\ b.caret < Len(b.text)
        BY <2>2, <2>4
      <4>2. Does(b, key) = Erase(b, b.caret, WidthAfter(b))
        BY <4>1 DEF Does
      <4> QED
        BY <1>2, <2>2, <4>2
    <3>3. j \in R /\ j.before = i.before /\ j.after = q
      BY <1>1, <2>1
    <3>4. FlattenSeq(j.before) = x /\ FlattenSeq(j.after) = v
      BY <3>3
    <3>5. b.text = (x \o c) \o v
      <4> HIDE DEF x, y, c, v
      <4>1. x \o (c \o v) = (x \o c) \o v
        <5>1. x \in Seq(STRING) /\ c \in Seq(STRING) /\ v \in Seq(STRING)
          BY <1>2, <2>3
        <5> QED
          BY <5>1, ConcatAssociative
      <4> QED
        BY <1>2, <2>2, <4>1
    <3> HIDE DEF j, v, c, x
    <3>6. j \in Ideals /\ Erase(b, Len(x), Len(c)) = Real(j)
      BY <1>2, <1>4, <2>1, <2>3, <3>3, <3>4, <3>5
    <3> QED
      BY <3>1, <3>2, <3>6
  <2>5. CASE key = "RIGHT"
    <3> DEFINE p == Append(i.before, c)
    <3>1. IdealDoes(i, key) = [before |-> p, after |-> q]
      BY <1>8, <2>5 DEF IdealDoes
    <3>2. Does(b, key) = Box(b.text, Len(x) + Len(c))
      BY <1>2, <2>2, <2>5 DEF Does
    <3>3. p \in Seq(Char) /\ p \o q = i.before \o i.after
      <4>1. <<c>> \in Seq(Char)
        BY <2>1
      <4>2. p = i.before \o <<c>> /\ p \in Seq(Char)
        BY <1>1, <2>1, AppendIsConcat, AppendProperties
      <4>3. (i.before \o <<c>>) \o q = i.before \o (<<c>> \o q)
        BY <1>1, <2>1, <4>1, ConcatAssociative
      <4> QED
        BY <2>1, <4>2, <4>3
    <3>4. Len(FlattenSeq(p)) = Len(x) + Len(c)
      <4>1. FlattenSeq(p) = x \o c
        BY <1>1, <2>1, FlattenChars
      <4> HIDE DEF x, c
      <4>2. Len(x \o c) = Len(x) + Len(c)
        BY <1>2, <2>3, CutConcat
      <4> QED
        BY <4>1, <4>2
    <3> HIDE DEF p, q, b, x
    <3>5. [before |-> p, after |-> q] \in Ideals
          /\ Real([before |-> p, after |-> q]) = Box(b.text, Len(FlattenSeq(p)))
      BY <1>3, <2>1, <3>3
    <3> QED
      BY <3>1, <3>2, <3>4, <3>5 DEF b
  <2> QED
    BY <1>8, <2>4, <2>5
<1>9. CASE /\ key # "HOME" /\ key # "END"
           /\ ~(key \in {"BACK", "LEFT"} /\ i.before # <<>>)
           /\ ~(key \in {"DELETE", "RIGHT"} /\ i.after # <<>>)
  <2>1. i.before = <<>> => ~(b.caret > 0)
    BY WidthReal
  <2>2. i.after = <<>> => ~(b.caret < Len(b.text))
    <3>1. i.after = <<>> => b.caret = Len(b.text)
      BY WidthReal
    <3> HIDE DEF b, x, y
    <3> QED
      BY <1>2, <3>1
  <2>3. IdealDoes(i, key) = i
    BY <1>9 DEF IdealDoes
  <2>4. Does(b, key) = b
    BY <1>9, <2>1, <2>2 DEF Does
  <2> QED
    BY <2>3, <2>4
<1> QED
  BY <1>5, <1>6, <1>7, <1>8, <1>9

\* A sequence, cut anywhere.
LEMMA CutAt ==
  ASSUME NEW S, NEW s \in Seq(S), NEW k \in 0..Len(s)
  PROVE  /\ SubSeq(s, 1, k) \in Seq(S) /\ SubSeq(s, k + 1, Len(s)) \in Seq(S)
         /\ s = SubSeq(s, 1, k) \o SubSeq(s, k + 1, Len(s))
         /\ Len(SubSeq(s, 1, k)) = k
         /\ k < Len(s) => /\ SubSeq(s, 1, k + 1) = Append(SubSeq(s, 1, k), s[k + 1])
                          /\ s[k + 1] \in S
<1>1. Len(s) \in Nat /\ k \in Nat /\ k <= Len(s)
  BY LenProperties
<1>2. \A j \in 1..Len(s) : s[j] \in S
  BY ElementOfSeq
<1>3. SubSeq(s, 1, k) \in Seq(S) /\ Len(SubSeq(s, 1, k)) = k
  <2>1. 1 \in Int /\ k \in Int /\ \A j \in 1..k : s[j] \in S
    BY <1>1, <1>2
  <2>2. SubSeq(s, 1, k) \in Seq(S) /\ Len(SubSeq(s, 1, k)) = IF 1 <= k THEN k - 1 + 1 ELSE 0
    BY <2>1, SubSeqProperties
  <2> QED
    BY <1>1, <2>2
<1>4. SubSeq(s, k + 1, Len(s)) \in Seq(S)
  <2>1. k + 1 \in Int /\ Len(s) \in Int /\ \A j \in (k + 1)..Len(s) : s[j] \in S
    BY <1>1, <1>2
  <2> QED
    BY <2>1, SubSeqProperties
<1>5. s = SubSeq(s, 1, k) \o SubSeq(s, k + 1, Len(s))
  <2>1. 1 \in 1..Len(s) + 1 /\ k \in 1 - 1..Len(s) /\ Len(s) \in k..Len(s)
    BY <1>1
  <2>2. SubSeq(s, 1, k) \o SubSeq(s, k + 1, Len(s)) = SubSeq(s, 1, Len(s))
    BY <2>1, ConcatAdjacentSubSeq
  <2> QED
    BY <2>2, SubSeqFull
<1>6. ASSUME k < Len(s)
      PROVE  SubSeq(s, 1, k + 1) = Append(SubSeq(s, 1, k), s[k + 1]) /\ s[k + 1] \in S
  <2>1. 1 \in 1..Len(s) /\ k + 1 \in 1..Len(s) /\ (k + 1) - 1 = k
    BY <1>1, <1>6
  <2>2. s[k + 1] \in S
    BY <1>2, <2>1
  <2>3. SubSeq(s, 1, k + 1) = SubSeq(s, 1, (k + 1) - 1) \o <<s[k + 1]>>
    <3>1. k + 1 \in 1..Len(s)
      BY <2>1
    <3> QED
      BY <2>1, <3>1, SubSeqRecursiveSecond
  <2> QED
    BY <1>3, <2>1, <2>2, <2>3, AppendIsConcat
<1> QED
  BY <1>3, <1>4, <1>5, <1>6

\* The first k characters of s are those that fit in the room there is.
Fitting(s, room, k) ==
  /\ k \in 0..Len(s) /\ Len(FlattenSeq(SubSeq(s, 1, k))) <= room
  /\ \A j \in 0..Len(s) : Len(FlattenSeq(SubSeq(s, 1, j))) <= room => j <= k

\* Some number of characters is the most that fit.
LEMMA SomeFit ==
  ASSUME NEW s \in Seq(Char), NEW room \in Nat
  PROVE  \E k : Fitting(s, room, k)
<1> DEFINE fits(k) == Len(FlattenSeq(SubSeq(s, 1, k))) <= room
           T == {m \in 0..Len(s) : fits(Len(s) - m)}
<1>1. Len(s) \in Nat
  BY LenProperties
<1>2. fits(0)
  <2>1. SubSeq(s, 1, 0) = <<>> /\ Len(<<>>) = 0
    BY EmptySeq, SubSeqEmpty
  <2>2. FlattenSeq(SubSeq(s, 1, 0)) = <<>>
    BY <2>1, FlattenChars
  <2>3. Len(FlattenSeq(SubSeq(s, 1, 0))) = 0
    BY <2>1, <2>2
  <2>4. 0 <= room
    OBVIOUS
  <2> QED
    BY <2>3, <2>4
<1> HIDE DEF fits
<1>3. T \in SUBSET Nat /\ T # {}
  <2>1. Len(s) \in T
    <3>1. Len(s) - Len(s) = 0 /\ Len(s) \in 0..Len(s)
      BY <1>1
    <3> QED
      BY <1>2, <3>1
  <2> QED
    BY <2>1
<1>4. PICK m \in T : \A j \in T : m <= j
  <2> HIDE DEF T
  <2> QED
    BY <1>3, SmallestNumber
<1>5. m \in 0..Len(s) /\ fits(Len(s) - m)
  BY <1>4
<1>6. ASSUME NEW j \in 0..Len(s), fits(j) PROVE j <= Len(s) - m
  <2>1. Len(s) - j \in 0..Len(s) /\ Len(s) - (Len(s) - j) = j
    BY <1>1
  <2>2. fits(Len(s) - (Len(s) - j))
    BY <1>6, <2>1
  <2>3. m <= Len(s) - j
    BY <1>4, <2>1, <2>2
  <2> QED
    BY <1>1, <1>5, <2>3
<1>7. Len(s) - m \in 0..Len(s)
  BY <1>1, <1>5
<1> QED
  BY <1>5, <1>6, <1>7 DEF Fitting, fits

\* They are all the units that fit, or all but one which is the first half of a character.
LEMMA FittingUnits ==
  ASSUME NEW s \in Seq(Char), NEW room \in Nat, NEW k, Fitting(s, room, k),
         NEW n, n = IF Len(FlattenSeq(s)) < room THEN Len(FlattenSeq(s)) ELSE room
  PROVE  /\ n \in Nat /\ n <= Len(FlattenSeq(s))
         /\ SubSeq(s, 1, k) \in Seq(Char)
         /\ n = 0 \/ ~IsHigh(FlattenSeq(s)[n]) =>
              FlattenSeq(SubSeq(s, 1, k)) = SubSeq(FlattenSeq(s), 1, n)
         /\ n > 0 /\ IsHigh(FlattenSeq(s)[n]) =>
              FlattenSeq(SubSeq(s, 1, k)) = SubSeq(FlattenSeq(s), 1, n - 1)
<1> DEFINE p == SubSeq(s, 1, k)
           u == FlattenSeq(p)
           t == FlattenSeq(s)
<1>1. /\ k \in 0..Len(s) /\ Len(s) \in Nat /\ Len(u) <= room
      /\ \A j \in 0..Len(s) : Len(FlattenSeq(SubSeq(s, 1, j))) <= room => j <= k
  BY LenProperties DEF Fitting
<1>2. p \in Seq(Char) /\ SubSeq(s, k + 1, Len(s)) \in Seq(Char)
      /\ s = p \o SubSeq(s, k + 1, Len(s))
  BY <1>1, CutAt
<1>3. u \in Seq(STRING) /\ t \in Seq(STRING) /\ Len(u) \in Nat /\ Len(t) \in Nat
  BY <1>2, FlattenChars, LenProperties DEF Units
<1>4. Len(u) > 0 => ~IsHigh(u[Len(u)])
  BY <1>2, LastNotHigh
<1>5. n \in Nat /\ n <= Len(t)
  BY <1>3
<1>6. CASE k = Len(s)
  <2>1. p = s
    BY <1>6, SubSeqFull
  <2>2. u = t
    BY <2>1
  <2> HIDE DEF u, t, p
  <2>3. Len(t) <= room
    BY <1>1, <2>2
  <2>4. n = Len(t)
    BY <1>3, <2>3 DEF t
  <2>5. SubSeq(t, 1, n) = t
    BY <1>3, <2>4, SubSeqFull
  <2>6. n > 0 => ~IsHigh(t[n])
    BY <1>4, <2>2, <2>4
  <2> QED
    BY <1>2, <1>5, <2>2, <2>5, <2>6 DEF u, t, p
<1>7. CASE k < Len(s)
  <2> DEFINE c == s[k + 1]
             q == SubSeq(s, k + 2, Len(s))
             v == FlattenSeq(q)
  <2>1. SubSeq(s, 1, k + 1) = Append(p, c) /\ c \in Char
    BY <1>1, <1>7, CutAt
  <2>2. q \in Seq(Char) /\ s = Append(p, c) \o q /\ k + 1 \in 0..Len(s) /\ ~(k + 1 <= k)
    <3>1. k + 1 \in 0..Len(s) /\ (k + 1) + 1 = k + 2 /\ ~(k + 1 <= k)
      BY <1>1, <1>7
    <3>2. /\ SubSeq(s, (k + 1) + 1, Len(s)) \in Seq(Char)
          /\ s = SubSeq(s, 1, k + 1) \o SubSeq(s, (k + 1) + 1, Len(s))
      BY <3>1, CutAt
    <3> QED
      BY <2>1, <3>1, <3>2
  <2>3. /\ FlattenSeq(Append(p, c)) = u \o c /\ t = (u \o c) \o v
        /\ v \in Seq(STRING) /\ c \in Seq(STRING)
    <3>1. Append(p, c) \in Seq(Char)
      BY <1>2, <2>1, AppendProperties
    <3>2. t = FlattenSeq(Append(p, c)) \o v
      <4>1. t = FlattenSeq(Append(p, c) \o q)
        BY <2>2
      <4> HIDE DEF q, p, c
      <4> QED
        BY <2>2, <3>1, <4>1, FlattenConcat
    <3>3. FlattenSeq(Append(p, c)) = u \o c
      BY <1>2, <2>1, FlattenChars
    <3>4. v \in Seq(STRING) /\ c \in Seq(STRING)
      BY <2>1, <2>2, FlattenChars, CharUnits DEF Units
    <3> QED
      BY <3>2, <3>3, <3>4
  <2>4. ~(Len(u \o c) <= room)
    <3>1. ~(Len(FlattenSeq(SubSeq(s, 1, k + 1))) <= room)
      BY <1>1, <2>2
    <3> QED
      BY <2>1, <2>3, <3>1
  <2>5. (Len(c) = 1 \/ Len(c) = 2) /\ Len(c) \in Nat
    BY <2>1, CharUnits
  <2> HIDE DEF p, q, u, v, t, c
  <2>6. /\ Len(t) = Len(u) + Len(c) + Len(v) /\ Len(v) \in Nat
        /\ SubSeq(t, 1, Len(u)) = u
        /\ \A i \in 1..Len(c) : t[Len(u) + i] = c[i]
    BY <1>3, <2>3, ThreeParts
  <2>7. Len(u \o c) = Len(u) + Len(c)
    BY <1>3, <2>3, CutConcat
  <2>8. n = room
    <3>1. ~(Len(t) < room)
      BY <1>3, <2>4, <2>5, <2>6, <2>7
    <3> QED
      BY <3>1 DEF t
  <2>9. n = Len(u) \/ (Len(c) = 2 /\ n = Len(u) + 1)
    <3>1. Len(u) <= n /\ n < Len(u) + Len(c)
      BY <1>1, <1>3, <2>4, <2>5, <2>7, <2>8
    <3>2. CASE Len(c) = 1
      BY <1>3, <1>5, <3>1, <3>2
    <3>3. CASE Len(c) = 2
      BY <1>3, <1>5, <3>1, <3>3
    <3> QED
      BY <2>5, <3>2, <3>3
  <2>10. CASE n = Len(u)
    <3>1. n > 0 => ~IsHigh(t[n])
      <4>1. SubSeq(t, 1, Len(u)) = u
        BY <2>6
      <4>2. \A i \in 1..Len(u) : t[i] = u[i]
        <5>1. t = u \o (c \o v)
          BY <1>3, <2>3, ConcatAssociative
        <5>2. c \o v \in Seq(STRING)
          BY <2>3, ConcatProperties
        <5> QED
          BY <1>3, <5>1, <5>2, CutConcat
      <4>3. n > 0 => t[n] = u[Len(u)]
        BY <1>3, <2>10, <4>2
      <4> QED
        BY <1>4, <2>10, <4>3
    <3> QED
      BY <1>2, <1>5, <2>6, <2>10, <3>1 DEF u, t, p
  <2>11. CASE Len(c) = 2 /\ n = Len(u) + 1
    <3>1. t[n] = c[1]
      <4>1. 1 \in 1..Len(c)
        BY <2>11
      <4> QED
        BY <2>6, <2>11, <4>1
    <3>2. IsHigh(c[1])
      BY <2>1, <2>11, CharUnits
    <3>3. n > 0 /\ n - 1 = Len(u)
      BY <1>3, <2>11
    <3>4. IsHigh(t[n]) /\ n # 0
      BY <1>5, <3>1, <3>2, <3>3
    <3> QED
      BY <1>2, <1>5, <2>6, <3>3, <3>4 DEF u, t, p
  <2> QED
    BY <2>9, <2>10, <2>11
<1> QED
  BY <1>1, <1>6, <1>7

\* As many characters of a piece as fit are as many of its units as fit, but for the first
\* half of the next one.
LEMMA InsertString ==
  ASSUME NEW i \in Ideals, NEW s \in Seq(Char), NEW n,
         n = IF Len(FlattenSeq(s)) < Limit - Len(Shown(i)) THEN Len(FlattenSeq(s))
             ELSE Limit - Len(Shown(i))
  PROVE  /\ n \in Nat /\ n <= Len(FlattenSeq(s))
         /\ IdealString(i, s) \in Ideals
         /\ n = 0 \/ ~IsHigh(FlattenSeq(s)[n]) =>
              Insert(Real(i), SubSeq(FlattenSeq(s), 1, n)) = Real(IdealString(i, s))
         /\ n > 0 /\ IsHigh(FlattenSeq(s)[n]) =>
              Insert(Real(i), SubSeq(FlattenSeq(s), 1, n - 1)) = Real(IdealString(i, s))
<1> DEFINE room == Limit - Len(Shown(i))
           R == [before : Seq(Char), after : Seq(Char)]
           K == CHOOSE k \in 0..Len(s) :
                  /\ Len(Shown(i)) + Len(FlattenSeq(SubSeq(s, 1, k))) <= Limit
                  /\ \A j \in 0..Len(s) :
                       Len(Shown(i)) + Len(FlattenSeq(SubSeq(s, 1, j))) <= Limit => j <= k
           p == SubSeq(s, 1, K)
           j == [i EXCEPT !.before = @ \o p]
<1>1. /\ i \in R /\ i.before \in Seq(Char) /\ Len(Shown(i)) \in Nat /\ Len(Shown(i)) <= Limit
  BY RealParts, LenProperties DEF Ideals, Units
<1>2. room \in Nat /\ Limit \in Nat
  BY <1>1, ChatAssumption
<1>3. \A k \in 0..Len(s) : Len(FlattenSeq(SubSeq(s, 1, k))) \in Nat
  <2> SUFFICES ASSUME NEW k \in 0..Len(s) PROVE Len(FlattenSeq(SubSeq(s, 1, k))) \in Nat
    OBVIOUS
  <2>1. SubSeq(s, 1, k) \in Seq(Char)
    BY CutAt
  <2> QED
    BY <2>1, FlattenChars, LenProperties DEF Units
<1>4. \A k \in 0..Len(s) :
        (Len(Shown(i)) + Len(FlattenSeq(SubSeq(s, 1, k))) <= Limit)
          <=> (Len(FlattenSeq(SubSeq(s, 1, k))) <= room)
  BY <1>1, <1>2, <1>3
<1>5. Fitting(s, room, K)
  <2>1. \E k : Fitting(s, room, k)
    <3> HIDE DEF room
    <3> QED
      BY <1>2, SomeFit
  <2> HIDE DEF room
  <2>2. \E k \in 0..Len(s) :
          /\ Len(Shown(i)) + Len(FlattenSeq(SubSeq(s, 1, k))) <= Limit
          /\ \A m \in 0..Len(s) :
               Len(Shown(i)) + Len(FlattenSeq(SubSeq(s, 1, m))) <= Limit => m <= k
    BY <1>4, <2>1 DEF Fitting
  <2>3. /\ K \in 0..Len(s)
        /\ Len(Shown(i)) + Len(FlattenSeq(SubSeq(s, 1, K))) <= Limit
        /\ \A m \in 0..Len(s) :
             Len(Shown(i)) + Len(FlattenSeq(SubSeq(s, 1, m))) <= Limit => m <= K
    BY <2>2
  <2> HIDE DEF K
  <2> QED
    BY <1>4, <2>3 DEF Fitting
<1>6. IdealString(i, s) = j
  BY DEF IdealString
<1> HIDE DEF K
<1>7. /\ n \in Nat /\ n <= Len(FlattenSeq(s)) /\ p \in Seq(Char)
      /\ n = 0 \/ ~IsHigh(FlattenSeq(s)[n]) => FlattenSeq(p) = SubSeq(FlattenSeq(s), 1, n)
      /\ n > 0 /\ IsHigh(FlattenSeq(s)[n]) => FlattenSeq(p) = SubSeq(FlattenSeq(s), 1, n - 1)
  <2>1. n = IF Len(FlattenSeq(s)) < room THEN Len(FlattenSeq(s)) ELSE room
    OBVIOUS
  <2> HIDE DEF room
  <2> QED
    BY <1>2, <1>5, <2>1, FittingUnits
<1>8. FlattenSeq(p) \in Units /\ Len(FlattenSeq(p)) \in Nat /\ Len(FlattenSeq(p)) <= room
  <2>1. Len(FlattenSeq(p)) <= room
    BY <1>5 DEF Fitting
  <2> QED
    BY <1>7, <2>1, FlattenChars, LenProperties DEF Units
<1>9. j \in R /\ j.before = i.before \o p /\ j.after = i.after
  BY <1>1, <1>7, ConcatProperties
<1>10. FlattenSeq(j.before) = FlattenSeq(i.before) \o FlattenSeq(p)
  <2>1. FlattenSeq(i.before \o p) = FlattenSeq(i.before) \o FlattenSeq(p)
    <3> HIDE DEF p
    <3> QED
      BY <1>1, <1>7, FlattenConcat
  <2> QED
    BY <1>9, <2>1
<1> HIDE DEF j, p
<1>11. /\ Len(Shown(j)) = Len(Shown(i)) + Len(FlattenSeq(p))
       /\ Len(Shown(i)) + Len(FlattenSeq(p)) <= Limit => Insert(Real(i), FlattenSeq(p)) = Real(j)
  BY <1>8, <1>9, <1>10, InsertPiece
<1>12. Len(Shown(i)) + Len(FlattenSeq(p)) <= Limit
  BY <1>1, <1>2, <1>8
<1>13. j \in Ideals /\ Insert(Real(i), FlattenSeq(p)) = Real(j)
  BY <1>9, <1>11, <1>12 DEF Ideals
<1> QED
  BY <1>6, <1>7, <1>13

(***************************************************************************)
(* The invariant: what is left to be done to the characters in the box     *)
(* makes those of the history of them.                                     *)
(***************************************************************************)
Agrees(i) ==
  \/ flags = {} /\ ideal = IF Waiting THEN IdealInsert(i, pressed) ELSE i
  \/ /\ ~Waiting
     /\ \E key \in Keys :
          /\ flags = {key}
          /\ ideal = IF key = "PASTE" THEN IdealString(i, clip) ELSE IdealDoes(i, key)

ChatInv ==
  /\ Box(text, caret) \in Boxes /\ ideal \in Ideals
  /\ pressed \in Char \cup {<<>>} /\ flags \subseteq Keys
  /\ {fresh, editing, hurried, cut, missent} \subseteq BOOLEAN
  /\ clip \in Strings
  /\ ~editing => flags \subseteq {"CHAT"}
  /\ ~missent
  /\ ~cut => \E i \in Ideals : Box(text, caret) = Real(i)
  /\ editing /\ ~hurried =>
       /\ flags = {} \/ (~Waiting /\ \E key \in Keys : flags = {key})
       /\ ~cut => \E i \in Ideals : Box(text, caret) = Real(i) /\ Agrees(i)

\* What the invariant says is what is asked.
LEMMA ChatInvImplies ==
  ASSUME ChatInv
  PROVE  ChatTypeOK /\ TextAsTyped
<1>1. ChatTypeOK
  <2>1. text \in Units /\ caret \in Nat /\ caret <= Len(text) /\ Len(text) <= Limit
    BY DEF ChatInv, Boxes, Box
  <2>2. Len(text) \in Nat
    BY <2>1, LenProperties DEF Units
  <2> QED
    BY <2>1, <2>2 DEF ChatInv, ChatTypeOK
<1>2. ASSUME editing, flags = {}, ~Waiting, ~hurried, ~cut
      PROVE  Box(text, caret) = Box(Shown(ideal), Len(FlattenSeq(ideal.before)))
  <2>1. PICK i \in Ideals : Box(text, caret) = Real(i) /\ Agrees(i)
    BY <1>2 DEF ChatInv
  <2>2. ideal = i
    BY <1>2, <2>1 DEF Agrees
  <2> QED
    BY <2>1, <2>2 DEF Real
<1>3. ASSUME ~cut PROVE CharactersWhole
  <2>1. PICK i \in Ideals : Box(text, caret) = Real(i)
    BY <1>3 DEF ChatInv
  <2>2. i \in [before : Seq(Char), after : Seq(Char)]
    BY DEF Ideals
  <2> DEFINE x == FlattenSeq(i.before)
             y == FlattenSeq(i.after)
  <2>3. /\ x \in Seq(STRING) /\ y \in Seq(STRING) /\ Shown(i) = x \o y
        /\ Real(i).text = Shown(i) /\ Real(i).caret = Len(x)
        /\ i.before \in Seq(Char) /\ i.after \in Seq(Char)
    BY <2>2, RealParts DEF Units
  <2>4. Box(text, caret).text = text /\ Box(text, caret).caret = caret
    BY DEF Box
  <2>5. text = Shown(i) /\ caret = Len(x)
    BY <2>1, <2>3, <2>4
  <2>6. Whole(text)
    <3>1. i.before \o i.after \in Seq(Char)
      BY <2>3, ConcatProperties
    <3>2. Whole(FlattenSeq(i.before \o i.after))
      BY <3>1, CharsWhole
    <3> QED
      BY <2>5, <3>2 DEF Shown
  <2>7. Len(x) > 0 => ~IsHigh(x[Len(x)])
    BY <2>3, LastNotHigh
  <2> HIDE DEF x, y
  <2>8. /\ Len(x) \in Nat
        /\ \A k \in 1..Len(x) : text[k] = x[k]
    BY <2>3, <2>5, CutConcat
  <2>9. Len(x) > 0 => text[Len(x)] = x[Len(x)]
    BY <2>8
  <2>10. caret > 0 => ~IsHigh(text[caret])
    BY <2>5, <2>7, <2>9
  <2>11. ASSUME NEW k \in 0..Len(text)
         PROVE  /\ (k > 0 /\ IsHigh(text[k])) = (k < Len(text) /\ IsLow(text[k + 1]))
                /\ k = caret => ~(k > 0 /\ IsHigh(text[k]))
    <3>1. (k > 0 /\ IsHigh(text[k])) <=> (k < Len(text) /\ IsLow(text[k + 1]))
      BY <2>6 DEF Whole
    <3>2. k = caret => ~(k > 0 /\ IsHigh(text[k]))
      BY <2>10
    <3> QED
      BY <3>1, <3>2
  <2> QED
    BY <2>11 DEF CharactersWhole
<1>4. cut \in BOOLEAN
  BY DEF ChatInv
<1> QED
  BY <1>1, <1>2, <1>3, <1>4 DEF TextAsTyped, ChatInv

\* A box is its text and its caret.
LEMMA BoxOf ==
  /\ \A b \in Boxes : Box(b.text, b.caret) = b
  /\ Blank \in Ideals /\ Real(Blank) = Box(<<>>, 0)
<1>1. \A b \in Boxes : Box(b.text, b.caret) = b
  BY DEF Box, Boxes
<1>2. <<>> \in Seq(Char) /\ <<>> \o <<>> = <<>> /\ Len(<<>>) = 0
  BY EmptySeq, ConcatEmptySeq
<1>3. Shown(Blank) = <<>> /\ FlattenSeq(Blank.before) = <<>>
  BY <1>2, FlattenChars DEF Shown, Blank
<1>4. Real(Blank) = Box(<<>>, 0)
  BY <1>2, <1>3 DEF Real
<1>5. Blank \in Ideals
  <2>1. Len(Shown(Blank)) <= Limit
    <3>1. 0 <= Limit
      BY ChatAssumption
    <3> QED
      BY <1>2, <1>3, <3>1
  <2>2. Blank \in [before : Seq(Char), after : Seq(Char)]
    BY <1>2 DEF Blank
  <2> QED
    BY <2>1, <2>2 DEF Ideals
<1> QED
  BY <1>1, <1>4, <1>5

\* What is put in a history makes a history.
LEMMA IdealStringIn ==
  ASSUME NEW i \in Ideals, NEW s \in Strings
  PROVE  IdealString(i, s) \in Ideals
<1>1. s \in Seq(Char)
  BY ChatAssumption
<1> QED
  BY <1>1, InsertString

\* What Remember makes of the history: it is kept as long as the player does not hurry.
LEMMA Remembered ==
  ASSUME ChatInv, NEW i \in Ideals, NEW h \in BOOLEAN, Remember(i, h)
  PROVE  /\ ideal' \in Ideals /\ hurried' \in BOOLEAN
         /\ ~hurried' => ~hurried /\ ~h /\ ideal' = i
<1>1. hurried \in BOOLEAN
  BY DEF ChatInv
<1> QED
  BY <1>1, BoxOf DEF Remember

\* The character that waits goes where it goes in the history.
LEMMA SettledReal ==
  ASSUME ChatInv
  PROVE  /\ Settled \in Boxes
         /\ \A i \in Ideals :
              Box(text, caret) = Real(i) =>
                \E m \in Ideals : /\ m = IF Waiting THEN IdealInsert(i, pressed) ELSE i
                                  /\ Settled = Real(m)
<1>1. Box(text, caret) \in Boxes /\ pressed \in Char \cup {<<>>}
  BY DEF ChatInv
<1>2. Waiting => pressed \in Char
  BY <1>1 DEF Waiting
<1>3. Settled \in Boxes
  <2>1. Waiting => Insert(Box(text, caret), pressed) \in Boxes
    BY <1>1, <1>2, CharUnits, InsertBox
  <2> QED
    BY <1>1, <2>1 DEF Settled
<1>4. ASSUME NEW i \in Ideals, Box(text, caret) = Real(i)
      PROVE  \E m \in Ideals : /\ m = IF Waiting THEN IdealInsert(i, pressed) ELSE i
                               /\ Settled = Real(m)
  <2>1. CASE Waiting
    <3>1. /\ IdealInsert(i, pressed) \in Ideals
          /\ Insert(Real(i), pressed) = Real(IdealInsert(i, pressed))
      BY <1>2, <2>1, InsertChar
    <3> QED
      BY <1>4, <2>1, <3>1 DEF Settled
  <2>2. CASE ~Waiting
    BY <1>4, <2>2 DEF Settled
  <2> QED
    BY <2>1, <2>2
<1> QED
  BY <1>3, <1>4

\* A character takes the place of the one that waited, which goes in the text.
LEMMA OnKeyPressedKeeps ==
  ASSUME ChatInv, NEW c \in Char, onKeyPressed(c)
  PROVE  ChatInv'
<1>1. /\ editing /\ Becomes(Settled) /\ pressed' = c /\ fresh' = TRUE
      /\ Remember(IdealInsert(ideal, c), flags # {})
      /\ flags' = flags /\ editing' = editing /\ clip' = clip /\ cut' = cut /\ missent' = missent
  BY DEF onKeyPressed
<1>2. Settled \in Boxes
  BY SettledReal
<1>3. Box(text, caret)' = Settled
  BY <1>1, <1>2, BoxOf DEF Becomes, Box
<1>4. IdealInsert(ideal, c) \in Ideals /\ ideal \in Ideals
  BY InsertChar DEF ChatInv
<1>5. /\ ideal' \in Ideals /\ hurried' \in BOOLEAN
      /\ ~hurried' => ~hurried /\ flags = {} /\ ideal' = IdealInsert(ideal, c)
  BY <1>1, <1>4, Remembered
<1>6. ~cut => \E i \in Ideals : Settled = Real(i)
  BY SettledReal DEF ChatInv
<1>7. ASSUME ~hurried', ~cut PROVE \E i \in Ideals : Settled = Real(i) /\ Agrees(i)'
  <2>1. PICK i \in Ideals : Box(text, caret) = Real(i) /\ Agrees(i)
    BY <1>1, <1>5, <1>7 DEF ChatInv
  <2>2. PICK m \in Ideals : /\ m = IF Waiting THEN IdealInsert(i, pressed) ELSE i
                            /\ Settled = Real(m)
    BY <2>1, SettledReal
  <2>3. ideal = m
    BY <1>5, <1>7, <2>1, <2>2 DEF Agrees
  <2>4. Waiting' /\ pressed' = c
    <3>1. c # <<>>
      <4>1. Len(c) > 0 /\ Len(<<>>) = 0
        BY CharUnits, EmptySeq
      <4> QED
        BY <4>1
    <3> QED
      BY <1>1, <3>1 DEF Waiting
  <2>5. flags' = {} /\ ideal' = IdealInsert(m, c)
    BY <1>1, <1>5, <1>7, <2>3
  <2>6. Agrees(m)'
    BY <2>4, <2>5 DEF Agrees
  <2> QED
    BY <2>2, <2>6
<1>8. ~hurried' => flags' = {}
  BY <1>1, <1>5
<1> QED
  BY <1>1, <1>2, <1>3, <1>5, <1>6, <1>7, <1>8 DEF ChatInv

\* The character that waited goes in the text when a key is let go.
LEMMA OnKeyReleasedKeeps ==
  ASSUME ChatInv, onKeyReleased
  PROVE  ChatInv'
<1>1. /\ Becomes(Settled) /\ pressed' = <<>> /\ fresh' = TRUE
      /\ flags' = flags /\ editing' = editing /\ clip' = clip
      /\ ideal' = ideal /\ hurried' = hurried /\ cut' = cut /\ missent' = missent
  BY DEF onKeyReleased, ideals
<1>2. Settled \in Boxes
  BY SettledReal
<1>3. Box(text, caret)' = Settled
  BY <1>1, <1>2, BoxOf DEF Becomes, Box
<1>4. ~Waiting'
  BY <1>1 DEF Waiting
<1>5. ~cut => \E i \in Ideals : Settled = Real(i)
  BY SettledReal DEF ChatInv
<1>6. ASSUME editing, ~hurried, ~cut PROVE \E i \in Ideals : Settled = Real(i) /\ Agrees(i)'
  <2>1. PICK i \in Ideals : Box(text, caret) = Real(i) /\ Agrees(i)
    BY <1>6 DEF ChatInv
  <2>2. PICK m \in Ideals : /\ m = IF Waiting THEN IdealInsert(i, pressed) ELSE i
                            /\ Settled = Real(m)
    BY <2>1, SettledReal
  <2>3. CASE flags = {} /\ ideal = IF Waiting THEN IdealInsert(i, pressed) ELSE i
    <3>1. Agrees(m)'
      BY <1>1, <1>4, <2>2, <2>3 DEF Agrees
    <3> QED
      BY <2>2, <3>1
  <2>4. CASE /\ ~Waiting
             /\ \E key \in Keys :
                  /\ flags = {key}
                  /\ ideal = IF key = "PASTE" THEN IdealString(i, clip) ELSE IdealDoes(i, key)
    <3>1. m = i /\ Agrees(i)'
      BY <1>1, <1>4, <2>2, <2>4 DEF Agrees
    <3> QED
      BY <2>2, <3>1
  <2> QED
    BY <2>1, <2>3, <2>4 DEF Agrees
<1>7. editing /\ ~hurried => (flags' = {} \/ (~Waiting' /\ \E key \in Keys : flags' = {key}))
  BY <1>1, <1>4 DEF ChatInv
<1> QED
  BY <1>1, <1>2, <1>3, <1>5, <1>6, <1>7 DEF ChatInv

\* The units that a composition puts in the text.
LEMMA ComposedUnits ==
  ASSUME NEW units \in Units, NEW n \in Nat, n <= Len(units), NEW fit, fit = SubSeq(units, 1, n),
         NEW w, w = IF fit # <<>> /\ IsHigh(Last(fit)) THEN Front(fit) ELSE fit
  PROVE  /\ w \in Units
         /\ n = 0 \/ ~IsHigh(units[n]) => w = SubSeq(units, 1, n)
         /\ n > 0 /\ IsHigh(units[n]) => w = SubSeq(units, 1, n - 1)
<1>1. fit \in Units /\ Len(fit) = n /\ \A k \in 1..n : fit[k] = units[k]
  BY PrefixOf
<1>2. CASE n = 0
  <2>1. fit = <<>>
    BY <1>1, <1>2, EmptySeq DEF Units
  <2> QED
    BY <1>1, <1>2, <2>1
<1>3. CASE n > 0
  <2>1. fit # <<>>
    <3>1. Len(<<>>) = 0
      BY EmptySeq
    <3> QED
      BY <1>1, <1>3, <3>1
  <2>2. Last(fit) = units[n]
    <3>1. n \in 1..n
      BY <1>3
    <3> QED
      BY <1>1, <3>1 DEF Last
  <2>3. Front(fit) \in Units /\ Front(fit) = SubSeq(units, 1, n - 1)
    <3>1. PICK m \in Nat : m = n - 1 /\ m <= Len(fit) /\ m <= Len(units)
      <4>1. Len(units) \in Nat
        BY LenProperties DEF Units
      <4>2. n - 1 \in Nat /\ n - 1 <= Len(fit) /\ n - 1 <= Len(units)
        BY <1>1, <1>3, <4>1
      <4> QED
        BY <4>2
    <3> DEFINE f == SubSeq(fit, 1, m)
               g == SubSeq(units, 1, m)
    <3>2. f \in Units /\ Len(f) = m /\ \A k \in 1..m : f[k] = fit[k]
      <4>1. fit \in Units /\ m <= Len(fit)
        BY <1>1, <3>1
      <4> QED
        BY <4>1, PrefixOf, Zenon
    <3>3. g \in Units /\ Len(g) = m /\ \A k \in 1..m : g[k] = units[k]
      BY <3>1, PrefixOf, Zenon
    <3> HIDE DEF f, g
    <3>6. \A k \in 1..m : k \in 1..n
      BY <3>1
    <3>7. \A k \in 1..Len(f) : f[k] = g[k]
      BY <1>1, <3>2, <3>3, <3>6
    <3>8. f = g
      BY <3>2, <3>3, <3>7, SeqEqual DEF Units
    <3>9. Front(fit) = f /\ g = SubSeq(units, 1, n - 1)
      BY <1>1, <3>1 DEF Front, f, g
    <3> QED
      BY <3>2, <3>8, <3>9
  <2> QED
    BY <1>1, <1>3, <2>1, <2>2, <2>3
<1>4. n = 0 \/ n > 0
  OBVIOUS
<1> QED
  BY <1>2, <1>3, <1>4

\* What an input method gives goes in the text, behind the character that waited.
LEMMA ComposeKeeps ==
  ASSUME ChatInv, NEW s \in Strings, Compose(s)
  PROVE  ChatInv'
<1> DEFINE b == Settled
           units == FlattenSeq(s)
           n == IF Len(units) < Limit - Len(b.text) THEN Len(units) ELSE Limit - Len(b.text)
           fit == SubSeq(units, 1, n)
           w == IF fit # <<>> /\ IsHigh(Last(fit)) THEN Front(fit) ELSE fit
           done == Insert(b, w)
<1>1. /\ editing /\ Becomes(done) /\ pressed' = <<>> /\ fresh' = TRUE
      /\ Remember(IdealString(ideal, s), flags # {})
      /\ flags' = flags /\ editing' = editing /\ clip' = clip /\ cut' = cut /\ missent' = missent
  BY DEF Compose
<1>2. s \in Seq(Char) /\ units \in Units /\ b \in Boxes
  BY FlattenChars, SettledReal, ChatAssumption
<1> HIDE DEF b, units
<1>3. n \in Nat /\ n <= Len(units)
  <2>1. Len(units) \in Nat /\ Len(b.text) \in Nat /\ Len(b.text) <= Limit /\ Limit \in Nat
    BY <1>2, LenProperties, ChatAssumption DEF Boxes, Units
  <2> QED
    BY <2>1
<1> HIDE DEF n
<1>4. /\ w \in Units
      /\ n = 0 \/ ~IsHigh(units[n]) => w = SubSeq(units, 1, n)
      /\ n > 0 /\ IsHigh(units[n]) => w = SubSeq(units, 1, n - 1)
  <2> HIDE DEF fit
  <2>1. w = IF fit # <<>> /\ IsHigh(Last(fit)) THEN Front(fit) ELSE fit
    OBVIOUS
  <2> HIDE DEF w
  <2>2. fit = SubSeq(units, 1, n)
    BY DEF fit
  <2> QED
    BY <1>2, <1>3, <2>1, <2>2, ComposedUnits
<1> HIDE DEF w
<1>5. done \in Boxes
  BY <1>2, <1>4, InsertBox
\* What was typed and then composed, in characters.
<1>6. ASSUME NEW m \in Ideals, b = Real(m)
      PROVE  IdealString(m, s) \in Ideals /\ done = Real(IdealString(m, s))
  <2>1. b.text = Shown(m)
    <3>1. m \in [before : Seq(Char), after : Seq(Char)]
      BY DEF Ideals
    <3> QED
      BY <1>6, <3>1, RealParts
  <2>2. n = IF Len(FlattenSeq(s)) < Limit - Len(Shown(m)) THEN Len(FlattenSeq(s))
            ELSE Limit - Len(Shown(m))
    BY <2>1 DEF n, units
  <2>3. /\ IdealString(m, s) \in Ideals
        /\ n = 0 \/ ~IsHigh(units[n]) =>
             Insert(Real(m), SubSeq(units, 1, n)) = Real(IdealString(m, s))
        /\ n > 0 /\ IsHigh(units[n]) =>
             Insert(Real(m), SubSeq(units, 1, n - 1)) = Real(IdealString(m, s))
    BY <1>2, <2>2, InsertString DEF units
  <2>4. n = 0 \/ n > 0
    BY <1>3
  <2> QED
    BY <1>4, <1>6, <2>3, <2>4
<1> HIDE DEF done
<1>7. Box(text, caret)' = done
  BY <1>1, <1>5, BoxOf DEF Becomes, Box
<1>8. IdealString(ideal, s) \in Ideals
  BY IdealStringIn DEF ChatInv
<1>9. /\ ideal' \in Ideals /\ hurried' \in BOOLEAN
      /\ ~hurried' => ~hurried /\ flags = {} /\ ideal' = IdealString(ideal, s)
  BY <1>1, <1>8, Remembered
<1>10. ASSUME ~cut PROVE \E i \in Ideals : done = Real(i)
  <2>1. PICK i \in Ideals : Box(text, caret) = Real(i)
    BY <1>10 DEF ChatInv
  <2>2. PICK m \in Ideals : b = Real(m)
    BY <2>1, SettledReal DEF b
  <2> QED
    BY <1>6, <2>2
<1>11. ASSUME ~hurried', ~cut PROVE \E i \in Ideals : done = Real(i) /\ Agrees(i)'
  <2>1. PICK i \in Ideals : Box(text, caret) = Real(i) /\ Agrees(i)
    BY <1>1, <1>9, <1>11 DEF ChatInv
  <2>2. PICK m \in Ideals : m = (IF Waiting THEN IdealInsert(i, pressed) ELSE i) /\ b = Real(m)
    BY <2>1, SettledReal DEF b
  <2>3. ideal = m
    BY <1>9, <1>11, <2>1, <2>2 DEF Agrees
  <2>4. Agrees(IdealString(m, s))'
    BY <1>1, <1>9, <1>11, <2>3 DEF Agrees, Waiting
  <2> QED
    BY <1>6, <2>2, <2>4
<1>12. ~hurried' => flags' = {}
  BY <1>1, <1>9
<1> QED
  BY <1>1, <1>5, <1>7, <1>9, <1>10, <1>11, <1>12 DEF ChatInv

\* A key that finds nothing waiting is the one the frame will take.
LEMMA KeyDownKeeps ==
  ASSUME ChatInv, NEW key \in Keys, KeyDown(key)
  PROVE  ChatInv'
<1> DEFINE j == IF key = "PASTE" THEN IdealString(ideal, clip) ELSE IdealDoes(ideal, key)
<1>1. /\ (key = "CHAT") = ~editing /\ flags' = flags \cup {key}
      /\ Remember(j, flags # {} \/ Waiting)
      /\ text' = text /\ caret' = caret /\ pressed' = pressed /\ fresh' = fresh
      /\ editing' = editing /\ clip' = clip /\ cut' = cut /\ missent' = missent
  BY DEF KeyDown, typing
<1>2. j \in Ideals
  BY IdealStringIn, DoesReal DEF ChatInv
<1>3. /\ ideal' \in Ideals /\ hurried' \in BOOLEAN
      /\ ~hurried' => ~hurried /\ flags = {} /\ ~Waiting /\ ideal' = j
  <2> HIDE DEF j
  <2>1. (flags # {} \/ Waiting) \in BOOLEAN
    OBVIOUS
  <2> QED
    BY <1>1, <1>2, <2>1, Remembered
<1>4. Box(text, caret)' = Box(text, caret)
  BY <1>1 DEF Box
<1>5. (Waiting)' = Waiting
  BY <1>1 DEF Waiting
<1>6. ~editing => flags' \subseteq {"CHAT"}
  BY <1>1 DEF ChatInv
<1>7. ~hurried' => ~Waiting' /\ \E k \in Keys : flags' = {k}
  BY <1>1, <1>3, <1>5
<1>8. ASSUME editing, ~hurried', ~cut
      PROVE  \E i \in Ideals : Box(text, caret) = Real(i) /\ Agrees(i)'
  <2>1. PICK i \in Ideals : Box(text, caret) = Real(i) /\ Agrees(i)
    BY <1>3, <1>8 DEF ChatInv
  <2>2. ideal = i
    BY <1>3, <1>8, <2>1 DEF Agrees
  <2>3. /\ flags' = {key} /\ ~Waiting'
        /\ ideal' = IF key = "PASTE" THEN IdealString(i, clip') ELSE IdealDoes(i, key)
    BY <1>1, <1>3, <1>5, <1>8, <2>2
  <2>4. Agrees(i)'
    BY <2>3 DEF Agrees
  <2> QED
    BY <2>1, <2>4
<1> HIDE DEF j
<1> QED
  BY <1>1, <1>3, <1>4, <1>6, <1>7, <1>8 DEF ChatInv

\* The chat opens with an empty text.
LEMMA OpensKeeps ==
  ASSUME ChatInv, Opens
  PROVE  ChatInv'
<1>1. ~editing /\ flags' = {} /\ clip' = clip /\ missent' = missent
  BY DEF Opens
<1>2. CASE "CHAT" \in flags
  <2>1. /\ editing' = TRUE /\ Becomes(Box(<<>>, 0)) /\ pressed' = <<>> /\ fresh' = TRUE
        /\ ideal' = Blank /\ hurried' = FALSE /\ cut' = FALSE
    BY <1>2 DEF Opens
  <2>2. Blank \in Ideals /\ Real(Blank) = Box(<<>>, 0) /\ Real(Blank) \in Boxes
    BY BoxOf, RealIsBox
  <2>3. Box(text, caret)' = Real(Blank)
    BY <2>1, <2>2 DEF Becomes, Box
  <2>4. Agrees(Blank)'
    BY <1>1, <2>1 DEF Agrees, Waiting
  <2> QED
    BY <1>1, <2>1, <2>2, <2>3, <2>4 DEF ChatInv
<1>3. CASE "CHAT" \notin flags
  <2>1. /\ text' = text /\ caret' = caret /\ pressed' = pressed /\ fresh' = fresh
        /\ editing' = editing /\ ideal' = ideal /\ hurried' = hurried /\ cut' = cut
    BY <1>3 DEF Opens, typing
  <2>2. Box(text, caret)' = Box(text, caret)
    BY <2>1 DEF Box
  <2> QED
    BY <1>1, <2>1, <2>2 DEF ChatInv
<1> QED
  BY <1>2, <1>3

\* A paste that is not cut puts in the text what fits of its characters.
LEMMA PastesKeeps ==
  ASSUME ChatInv, Pastes
  PROVE  ChatInv'
<1> DEFINE units == FlattenSeq(clip)
           room == Limit - Len(text)
           n == IF Len(units) < room THEN Len(units) ELSE room
           b == Box(text, caret)
           done == Insert(b, SubSeq(units, 1, n))
<1>1. /\ editing /\ "PASTE" \in flags /\ flags' = {} /\ Becomes(done)
      /\ cut' = (cut \/ (n > 0 /\ IsHigh(units[n])))
      /\ pressed' = pressed /\ fresh' = fresh
      /\ editing' = editing /\ clip' = clip
      /\ ideal' = ideal /\ hurried' = hurried /\ missent' = missent
  BY DEF Pastes, typing
<1>2. clip \in Seq(Char) /\ units \in Units /\ b \in Boxes /\ b.text = text
  BY FlattenChars, ChatAssumption DEF ChatInv, Box
<1>3. n \in Nat /\ n <= Len(units)
  <2>1. Len(units) \in Nat /\ Len(text) \in Nat /\ Len(text) <= Limit /\ Limit \in Nat
    BY <1>2, LenProperties, ChatAssumption DEF Boxes, Units
  <2> HIDE DEF units
  <2> QED
    BY <2>1
<1> HIDE DEF units, n, b
<1>4. done \in Boxes
  <2>1. SubSeq(units, 1, n) \in Units
    BY <1>2, <1>3, PrefixOf
  <2> QED
    BY <1>2, <2>1, InsertBox
<1>5. ASSUME NEW i \in Ideals, b = Real(i), ~cut'
      PROVE  IdealString(i, clip) \in Ideals /\ done = Real(IdealString(i, clip))
  <2>1. text = Shown(i)
    <3>1. i \in [before : Seq(Char), after : Seq(Char)]
      BY DEF Ideals
    <3> QED
      BY <1>2, <1>5, <3>1, RealParts
  <2>2. n = IF Len(FlattenSeq(clip)) < Limit - Len(Shown(i)) THEN Len(FlattenSeq(clip))
            ELSE Limit - Len(Shown(i))
    BY <2>1 DEF n, units
  <2>3. /\ IdealString(i, clip) \in Ideals
        /\ n = 0 \/ ~IsHigh(units[n]) =>
             Insert(Real(i), SubSeq(units, 1, n)) = Real(IdealString(i, clip))
    BY <1>2, <2>2, InsertString DEF units
  <2>4. n = 0 \/ n > 0
    BY <1>3
  <2>5. n = 0 \/ ~IsHigh(units[n])
    BY <1>1, <1>5, <2>4
  <2> QED
    BY <1>5, <2>3, <2>5
<1> HIDE DEF done
<1>6. Box(text, caret)' = done
  BY <1>1, <1>4, BoxOf DEF Becomes, Box
<1>7. cut' \in BOOLEAN /\ (~cut' => ~cut)
  <2>1. cut \in BOOLEAN
    BY DEF ChatInv
  <2> QED
    BY <1>1, <2>1
<1>8. ASSUME ~cut' PROVE \E i \in Ideals : done = Real(i)
  <2>1. PICK i \in Ideals : b = Real(i)
    BY <1>7, <1>8 DEF ChatInv, b
  <2> QED
    BY <1>5, <1>8, <2>1
<1>9. ASSUME ~hurried, ~cut' PROVE \E i \in Ideals : done = Real(i) /\ Agrees(i)'
  <2>1. PICK i \in Ideals : b = Real(i) /\ Agrees(i)
    BY <1>1, <1>7, <1>9 DEF ChatInv, b
  <2>2. ~Waiting /\ ideal = IdealString(i, clip)
    BY <1>1, <2>1 DEF Agrees
  <2>3. PICK j \in Ideals : j = IdealString(i, clip) /\ done = Real(j)
    BY <1>5, <1>9, <2>1
  <2>4. Agrees(j)'
    BY <1>1, <2>2, <2>3 DEF Agrees, Waiting
  <2> QED
    BY <2>3, <2>4
<1> QED
  BY <1>1, <1>4, <1>6, <1>7, <1>8, <1>9 DEF ChatInv

\* What is sent is what was typed.
LEMMA SendsKeeps ==
  ASSUME ChatInv, Sends
  PROVE  ChatInv'
<1>1. /\ editing /\ "RETURN" \in flags /\ flags' = {} /\ editing' = FALSE
      /\ missent' = (missent \/ (~hurried /\ ~cut /\ text # Shown(ideal)))
      /\ text' = text /\ caret' = caret /\ pressed' = pressed /\ fresh' = fresh
      /\ clip' = clip /\ ideal' = ideal /\ hurried' = hurried /\ cut' = cut
  BY DEF Sends, typing
<1>2. Box(text, caret)' = Box(text, caret)
  BY <1>1 DEF Box
<1>3. ASSUME ~hurried, ~cut PROVE text = Shown(ideal)
  <2>1. PICK i \in Ideals : Box(text, caret) = Real(i) /\ Agrees(i)
    BY <1>1, <1>3 DEF ChatInv
  <2>2. ideal = IdealDoes(i, "RETURN")
    BY <1>1, <2>1 DEF Agrees
  <2>3. ideal = i
    BY <2>2 DEF IdealDoes
  <2>4. i \in [before : Seq(Char), after : Seq(Char)] /\ Box(text, caret).text = text
    BY DEF Ideals, Box
  <2> QED
    BY <2>1, <2>3, <2>4, RealParts
<1>4. missent' = FALSE
  <2>1. ~missent /\ missent \in BOOLEAN
    BY DEF ChatInv
  <2> QED
    BY <1>1, <1>3, <2>1
<1> QED
  BY <1>1, <1>2, <1>4 DEF ChatInv

\* The keys of a frame leave whole characters; one key does what it does.
LEMMA AfterKeysReal ==
  ASSUME ChatInv
  PROVE  /\ AfterKeys \in Boxes
         /\ \A i \in Ideals : Box(text, caret) = Real(i) =>
              /\ \E j \in Ideals : AfterKeys = Real(j)
              /\ flags = {} => AfterKeys = Real(i)
              /\ \A key \in Keys : flags = {key} =>
                   IdealDoes(i, key) \in Ideals /\ AfterKeys = Real(IdealDoes(i, key))
<1>1. ASSUME NEW b \in Boxes, NEW key \in Keys PROVE Takes(b, key) \in Boxes
  BY DoesBox DEF Takes
<1>2. ASSUME NEW i \in Ideals, NEW key \in Keys
      PROVE  \E j \in Ideals : Takes(Real(i), key) = Real(j)
  BY DoesReal DEF Takes
<1> DEFINE b0 == Box(text, caret)
           b1 == Takes(b0, "HOME")
           b2 == Takes(b1, "END")
           b3 == Takes(b2, "BACK")
           b4 == Takes(b3, "DELETE")
           b5 == Takes(b4, "LEFT")
           b6 == Takes(b5, "RIGHT")
<1>3. AfterKeys = b6
  BY DEF AfterKeys
<1>4. {"HOME", "END", "BACK", "DELETE", "LEFT", "RIGHT"} \subseteq Keys
  BY DEF Keys
<1>5. b0 \in Boxes
  BY DEF ChatInv
<1>6. AfterKeys \in Boxes
  <2> HIDE DEF b0
  <2>1. b1 \in Boxes
    BY <1>1, <1>4, <1>5
  <2> HIDE DEF b1
  <2>2. b2 \in Boxes
    BY <1>1, <1>4, <2>1
  <2> HIDE DEF b2
  <2>3. b3 \in Boxes
    BY <1>1, <1>4, <2>2
  <2> HIDE DEF b3
  <2>4. b4 \in Boxes
    BY <1>1, <1>4, <2>3
  <2> HIDE DEF b4
  <2>5. b5 \in Boxes
    BY <1>1, <1>4, <2>4
  <2> HIDE DEF b5
  <2> QED
    BY <1>1, <1>3, <1>4, <2>5
<1>7. ASSUME NEW i \in Ideals, b0 = Real(i)
      PROVE  \E j \in Ideals : AfterKeys = Real(j)
  <2> HIDE DEF b0
  <2>1. PICK i1 \in Ideals : b1 = Real(i1)
    BY <1>2, <1>4, <1>7
  <2> HIDE DEF b1
  <2>2. PICK i2 \in Ideals : b2 = Real(i2)
    BY <1>2, <1>4, <2>1
  <2> HIDE DEF b2
  <2>3. PICK i3 \in Ideals : b3 = Real(i3)
    BY <1>2, <1>4, <2>2
  <2> HIDE DEF b3
  <2>4. PICK i4 \in Ideals : b4 = Real(i4)
    BY <1>2, <1>4, <2>3
  <2> HIDE DEF b4
  <2>5. PICK i5 \in Ideals : b5 = Real(i5)
    BY <1>2, <1>4, <2>4
  <2> HIDE DEF b5
  <2> QED
    BY <1>2, <1>3, <1>4, <2>5
<1>8. flags = {} => AfterKeys = b0
  BY <1>3 DEF Takes
<1>9. ASSUME NEW key \in Keys, flags = {key} PROVE AfterKeys = Does(b0, key)
  <2> HIDE DEF b0
  <2>1. \A b, k : Takes(b, k) = IF k = key THEN Does(b, key) ELSE b
    BY <1>9 DEF Takes
  <2>2. CASE key \in {"HOME", "END", "BACK", "DELETE", "LEFT", "RIGHT"}
    BY <1>3, <2>1, <2>2
  <2>3. CASE key \in {"CHAT", "RETURN", "PASTE"}
    <3>1. Does(b0, key) = b0
      BY <2>3 DEF Does
    <3>2. AfterKeys = b0
      BY <1>3, <2>1, <2>3
    <3> QED
      BY <3>1, <3>2
  <2> QED
    BY <2>2, <2>3 DEF Keys
<1> HIDE DEF b0, b6
<1>10. ASSUME NEW i \in Ideals, b0 = Real(i), NEW key \in Keys, flags = {key}
       PROVE  IdealDoes(i, key) \in Ideals /\ AfterKeys = Real(IdealDoes(i, key))
  BY <1>9, <1>10, DoesReal
<1> QED
  BY <1>6, <1>7, <1>8, <1>10 DEF b0

\* A frame does what its key says, then puts the character that waits in the text.
LEMMA EditsKeeps ==
  ASSUME ChatInv, Edits
  PROVE  ChatInv'
<1>1. /\ editing /\ flags' = {} /\ fresh' = (fresh /\ pressed = <<>>)
      /\ pressed' = pressed /\ editing' = editing /\ clip' = clip
      /\ cut' = cut /\ missent' = missent
  BY DEF Edits
<1>2. AfterKeys \in Boxes /\ fresh' \in BOOLEAN /\ ~Waiting' /\ ideal \in Ideals
  BY <1>1, AfterKeysReal DEF Waiting, ChatInv
<1>3. ASSUME ~cut PROVE \E i \in Ideals : AfterKeys = Real(i)
  BY <1>3, AfterKeysReal DEF ChatInv
\* What the keys of the frame leave, when the player has not hurried.
<1>4. ASSUME ~hurried, "PASTE" \notin flags, ~cut
      PROVE  \E j \in Ideals :
               /\ AfterKeys = Real(j)
               /\ ideal = IF Waiting THEN IdealInsert(j, pressed) ELSE j
  <2>1. PICK i \in Ideals : Box(text, caret) = Real(i) /\ Agrees(i)
    BY <1>1, <1>4 DEF ChatInv
  <2>2. CASE flags = {} /\ ideal = IF Waiting THEN IdealInsert(i, pressed) ELSE i
    BY <2>1, <2>2, AfterKeysReal
  <2>3. CASE /\ ~Waiting
             /\ \E key \in Keys :
                  /\ flags = {key}
                  /\ ideal = IF key = "PASTE" THEN IdealString(i, clip) ELSE IdealDoes(i, key)
    <3>1. PICK key \in Keys : flags = {key} /\ ideal = IdealDoes(i, key)
      BY <1>4, <2>3
    <3>2. IdealDoes(i, key) \in Ideals /\ AfterKeys = Real(IdealDoes(i, key))
      BY <2>1, <3>1, AfterKeysReal
    <3> QED
      BY <2>3, <3>1, <3>2
  <2> QED
    BY <2>1, <2>2, <2>3 DEF Agrees
<1>5. CASE /\ pressed # <<>> /\ Becomes(Insert(AfterKeys, pressed))
           /\ Remember(IF fresh THEN ideal ELSE IdealInsert(ideal, pressed), "PASTE" \in flags)
  <2> DEFINE done == Insert(AfterKeys, pressed)
             i1 == IF fresh THEN ideal ELSE IdealInsert(ideal, pressed)
  <2>1. pressed \in Char /\ fresh \in BOOLEAN /\ (Waiting <=> fresh)
    BY <1>5 DEF ChatInv, Waiting
  <2>2. done \in Boxes
    BY <1>2, <2>1, CharUnits, InsertBox
  <2>3. i1 \in Ideals
    BY <1>2, <2>1, InsertChar
  <2> HIDE DEF i1, done
  <2>4. ("PASTE" \in flags) \in BOOLEAN /\ Remember(i1, "PASTE" \in flags)
    BY <1>5 DEF i1
  <2>5. /\ ideal' \in Ideals /\ hurried' \in BOOLEAN
        /\ ~hurried' => ~hurried /\ "PASTE" \notin flags /\ ideal' = i1
    BY <2>3, <2>4, Remembered
  <2>6. Box(text, caret)' = done
    BY <1>5, <2>2, BoxOf DEF Becomes, Box, done
  <2>7. ASSUME ~cut PROVE \E i \in Ideals : done = Real(i)
    BY <1>3, <2>1, <2>7, InsertChar DEF done
  <2>8. ASSUME ~hurried', ~cut PROVE \E i \in Ideals : done = Real(i) /\ Agrees(i)'
    <3>1. PICK j \in Ideals :
            AfterKeys = Real(j) /\ ideal = IF Waiting THEN IdealInsert(j, pressed) ELSE j
      BY <1>4, <2>5, <2>8
    <3>2. PICK k \in Ideals : k = IdealInsert(j, pressed) /\ done = Real(k)
      BY <2>1, <3>1, InsertChar DEF done
    <3>3. ideal' = k
      BY <2>1, <2>5, <2>8, <3>1, <3>2 DEF i1
    <3>4. Agrees(k)'
      BY <1>1, <1>2, <3>3 DEF Agrees
    <3> QED
      BY <3>2, <3>4
  <2> QED
    BY <1>1, <1>2, <2>2, <2>5, <2>6, <2>7, <2>8 DEF ChatInv
<1>6. CASE ~Waiting /\ Becomes(AfterKeys) /\ Remember(ideal, "PASTE" \in flags)
  <2>1. ("PASTE" \in flags) \in BOOLEAN
    OBVIOUS
  <2>2. /\ ideal' \in Ideals /\ hurried' \in BOOLEAN
        /\ ~hurried' => ~hurried /\ "PASTE" \notin flags /\ ideal' = ideal
    BY <1>2, <1>6, <2>1, Remembered
  <2>3. Box(text, caret)' = AfterKeys
    BY <1>2, <1>6, BoxOf DEF Becomes, Box
  <2>4. ASSUME ~hurried', ~cut PROVE \E i \in Ideals : AfterKeys = Real(i) /\ Agrees(i)'
    <3>1. PICK j \in Ideals : AfterKeys = Real(j) /\ ideal = j
      BY <1>4, <1>6, <2>2, <2>4
    <3>2. Agrees(j)'
      BY <1>1, <1>2, <2>2, <2>4, <3>1 DEF Agrees
    <3> QED
      BY <3>1, <3>2
  <2> QED
    BY <1>1, <1>2, <1>3, <2>2, <2>3, <2>4 DEF ChatInv
<1> QED
  BY <1>5, <1>6 DEF Edits

\* The invariant holds in every state that the chat reaches.
THEOREM ChatInvariant == ChatSpec => []ChatInv
<1>1. ChatInit => ChatInv
  <2> SUFFICES ASSUME ChatInit PROVE ChatInv
    OBVIOUS
  <2>1. Blank \in Ideals /\ Real(Blank) = Box(<<>>, 0) /\ Real(Blank) \in Boxes
    BY BoxOf, RealIsBox
  <2>2. Box(text, caret) = Real(Blank)
    BY <2>1 DEF ChatInit
  <2> QED
    BY <2>1, <2>2 DEF ChatInit, ChatInv
<1>2. ChatInv /\ [ChatNext]_chatVars => ChatInv'
  <2> SUFFICES ASSUME ChatInv, [ChatNext]_chatVars PROVE ChatInv'
    OBVIOUS
  <2>1. CASE \E c \in Char : onKeyPressed(c)
    BY <2>1, OnKeyPressedKeeps
  <2>2. CASE onKeyReleased
    BY <2>2, OnKeyReleasedKeeps
  <2>3. CASE \E s \in Strings : Compose(s)
    BY <2>3, ComposeKeeps
  <2>4. CASE \E key \in Keys : KeyDown(key)
    BY <2>4, KeyDownKeeps
  <2>5. CASE Opens
    BY <2>5, OpensKeeps
  <2>6. CASE Pastes
    BY <2>6, PastesKeeps
  <2>7. CASE Sends
    BY <2>7, SendsKeeps
  <2>8. CASE Edits
    BY <2>8, EditsKeeps
  <2>9. CASE UNCHANGED chatVars
    BY <2>9 DEF chatVars, typing, ideals, ChatInv, Agrees, Waiting, Box
  <2> QED
    BY <2>1, <2>2, <2>3, <2>4, <2>5, <2>6, <2>7, <2>8, <2>9 DEF ChatNext
<1> QED
  BY <1>1, <1>2, PTL DEF ChatSpec

\* What is in the box and what is sent is what was typed, and no character is ever split,
\* whatever the limit and whatever is typed, composed and pasted (_inputBoxUpdate).
THEOREM TextAsTypedAlways == ChatSpec => [](ChatTypeOK /\ TextAsTyped)
<1>1. ChatInv => ChatTypeOK /\ TextAsTyped
  BY ChatInvImplies
<1> QED
  BY <1>1, ChatInvariant, PTL

(***************************************************************************)
(* The parts together, as the run checks them.                             *)
(***************************************************************************)
\* What the run checks side by side behaves as each of the modules by itself.
LEMMA PartsAreTheModules ==
  PartsSpec => Spec /\ KeysSpec /\ ChatSpec /\ BlockSpec /\ RecordsSpec /\ MatchSpec
<1>1. PartsInit => Init /\ KeysInit /\ ChatInit /\ BlockInit /\ RecordsInit /\ MatchInit
  BY DEF PartsInit
<1>2. [PartsNext]_partsVars =>
        /\ [Next]_vars /\ [KeysNext]_keysVars /\ [ChatNext]_chatVars
        /\ [BlockNext]_blockVars /\ [RecordsNext]_recordsVars /\ [MatchNext]_matchVars
  BY DEF PartsNext, partsVars, LocksOnly, KeysOnly, ChatOnly, BlocksOnly, RecordsOnly, MatchOnly,
         Only
<1> QED
  BY <1>1, <1>2, PTL
     DEF PartsSpec, Spec, KeysSpec, ChatSpec, BlockSpec, RecordsSpec, MatchSpec

\* The types of the modules side by side (PartsSpec), each while the others rest.
THEOREM PartsTypesCorrect == PartsSpec => []PartsTypeOK
<1>1. KeysTypeOK /\ (ChatTypeOK /\ TextAsTyped) /\ BlockTypeOK /\ RecordsTypeOK /\ MatchTypeOK
        => PartsTypeOK
  BY DEF PartsTypeOK
<1> QED
  BY <1>1, PartsAreTheModules, KeysTypeCorrect, TextAsTypedAlways, BlockTypeCorrect,
     RecordsTypeCorrect, MatchTypeCorrect, PTL

=============================================================================
