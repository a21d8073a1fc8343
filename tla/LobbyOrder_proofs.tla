--------------------------- MODULE LobbyOrder_proofs ---------------------------
(***************************************************************************)
(* LobbyServer implements SeatOrder: whatever the players, the console and *)
(* the reaping do, the arcade machines are first come, first served.       *)
(***************************************************************************)
EXTENDS LobbyServer_proofs

-----------------------------------------------------------------------------
(* The order of the seats of a machine.                                    *)

\* d has a seat of s before one of e.
Ahead(s, d, e) == \E i, j \in 1..Len(s) : i < j /\ s[i] = d /\ s[j] = e

\* Where place p of s, which is not c's, ends up once the first c is erased.
Later(s, c, p) == IF \E j \in 1..p : s[j] = c THEN p - 1 ELSE p

\* Later is the way back from Before.
LEMMA LaterBefore ==
  ASSUME NEW S, NEW s \in Seq(S), NEW c, c \in Members(s), NEW p \in 1..Len(s), s[p] # c
  PROVE  /\ Later(s, c, p) \in 1..(Len(s) - 1)
         /\ Before(s, c, Later(s, c, p)) = p
<1>1. Len(s) \in Nat
  BY LenProperties
<1>2. CASE \E j \in 1..p : s[j] = c
  <2>1. PICK j \in 1..p : s[j] = c
    BY <1>2
  <2>2. j \in 1..(p - 1)
    BY <1>1, <2>1
  <2>3. Later(s, c, p) = p - 1 /\ p - 1 \in 1..(Len(s) - 1)
    BY <1>1, <1>2, <2>2 DEF Later
  <2> QED
    BY <1>1, <2>1, <2>2, <2>3 DEF Before
<1>3. CASE ~\E j \in 1..p : s[j] = c
  <2>1. PICK k \in 1..Len(s) : s[k] = c
    BY DEF Members
  <2>2. p < k
    BY <1>1, <1>3, <2>1
  <2> QED
    BY <1>1, <1>3, <2>1, <2>2 DEF Later, Before
<1> QED
  BY <1>2, <1>3

\* The others keep their seats, and their order, when c is erased or appended, or when
\* nothing happens.
Kept(s, t, c) ==
  /\ \A d \in Conn \ {c} : d \in Members(t) <=> d \in Members(s)
  /\ \A d, e \in Conn \ {c} : Ahead(t, d, e) <=> Ahead(s, d, e)

\* Erasing c keeps the others in order.
LEMMA EraseKept ==
  ASSUME NEW s \in Seq(Conn), NEW c \in Conn
  PROVE  Kept(s, Erase(s, c), c)
<1> DEFINE t == Erase(s, c)
<1>1. CASE c \notin Members(s)
  BY <1>1 DEF Erase, Kept
<1>2. CASE c \in Members(s)
  <2>1. Len(s) \in Nat /\ t \in Seq(Conn) /\ Len(t) = Len(s) - 1
    BY <1>2, EraseType, LenProperties
  <2>2. \A i \in 1..Len(t) : Before(s, c, i) \in 1..Len(s) /\ t[i] = s[Before(s, c, i)]
    BY <1>2, EraseType
  <2>3. \A p \in 1..Len(s) : s[p] # c => /\ Later(s, c, p) \in 1..Len(t)
                                         /\ Before(s, c, Later(s, c, p)) = p
                                         /\ t[Later(s, c, p)] = s[p]
    BY <1>2, <2>1, <2>2, LaterBefore
  <2>4. Len(t) \in Nat
    BY <2>1, LenProperties
  <2> HIDE DEF t
  <2>5. ASSUME NEW d \in Conn \ {c} PROVE d \in Members(t) <=> d \in Members(s)
    BY <2>2, <2>3 DEF Members
  <2>6. ASSUME NEW d \in Conn \ {c}, NEW e \in Conn \ {c}
        PROVE  Ahead(t, d, e) <=> Ahead(s, d, e)
    <3>1. ASSUME Ahead(t, d, e) PROVE Ahead(s, d, e)
      <4>1. PICK i \in 1..Len(t), j \in 1..Len(t) : i < j /\ t[i] = d /\ t[j] = e
        BY <3>1 DEF Ahead
      <4>2. i \in Nat /\ j \in Nat
        BY <2>4
      <4>3. Before(s, c, i) < Before(s, c, j)
        BY <4>1, <4>2, BeforeInjective
      <4> QED
        BY <2>2, <4>1, <4>3 DEF Ahead
    <3>2. ASSUME Ahead(s, d, e) PROVE Ahead(t, d, e)
      <4>1. PICK p \in 1..Len(s), q \in 1..Len(s) : p < q /\ s[p] = d /\ s[q] = e
        BY <3>2 DEF Ahead
      <4> DEFINE i == Later(s, c, p)
                 j == Later(s, c, q)
      <4>2. /\ i \in 1..Len(t) /\ j \in 1..Len(t) /\ t[i] = d /\ t[j] = e
            /\ Before(s, c, i) = p /\ Before(s, c, j) = q
        BY <2>3, <4>1
      <4> HIDE DEF i, j
      <4>3. i \in Nat /\ j \in Nat /\ p \in Nat /\ q \in Nat
        BY <2>1, <2>4, <4>2
      <4>4. ~(j < i) /\ i # j
        BY <4>1, <4>2, <4>3, BeforeInjective
      <4>5. i < j
        BY <4>3, <4>4
      <4> QED
        BY <4>2, <4>5 DEF Ahead
    <3> QED
      BY <3>1, <3>2
  <2> QED
    BY <2>5, <2>6 DEF Kept, t
<1> QED
  BY <1>1, <1>2

\* Appending c keeps the others in order, and puts c after them if it was not there.
LEMMA AppendKept ==
  ASSUME NEW s \in Seq(Conn), NEW c \in Conn
  PROVE  /\ Kept(s, Append(s, c), c)
         /\ c \in Members(Append(s, c))
         /\ c \notin Members(s) =>
              \A d \in Conn \ {c} : /\ Ahead(Append(s, c), d, c) <=> d \in Members(s)
                                    /\ ~Ahead(Append(s, c), c, d)
         /\ c \notin Members(s) => ~Ahead(Append(s, c), c, c)
<1> DEFINE t == Append(s, c)
<1>1. /\ Len(s) \in Nat /\ Len(t) = Len(s) + 1
      /\ \A i \in 1..Len(s) : t[i] = s[i]
      /\ t[Len(s) + 1] = c
  BY LenProperties
<1> HIDE DEF t
<1>2. \A d \in Conn \ {c} : d \in Members(t) <=> d \in Members(s)
  BY <1>1 DEF Members
<1>3. c \in Members(t)
  BY <1>1 DEF Members
<1>4. \A d, e \in Conn \ {c} : Ahead(t, d, e) <=> Ahead(s, d, e)
  BY <1>1 DEF Ahead
<1>5. ASSUME c \notin Members(s), NEW d \in Conn
      PROVE  /\ d # c => (Ahead(t, d, c) <=> d \in Members(s))
             /\ ~Ahead(t, c, d)
  <2>1. \A i \in 1..Len(s) : s[i] # c
    BY <1>5 DEF Members
  <2>2. ~Ahead(t, c, d)
    BY <1>1, <2>1 DEF Ahead
  <2>3. d # c => (Ahead(t, d, c) <=> d \in Members(s))
    BY <1>1, <2>1 DEF Ahead, Members
  <2> QED
    BY <2>2, <2>3
<1> QED
  BY <1>2, <1>3, <1>4, <1>5 DEF Kept, t

\* Keeping the others twice keeps them.
LEMMA KeptTwice ==
  ASSUME NEW r, NEW s, NEW t, NEW c, Kept(r, s, c), Kept(s, t, c)
  PROVE  Kept(r, t, c)
BY DEF Kept


-----------------------------------------------------------------------------
(* The refinement mapping.                                                 *)

SeatAt(c, m) == c \in Members(machines[m])

\* SeatOf finds the seat of a connection the server has not lost track of, and Earlier is
\* the order of the seats.
Mapping ==
  \A c \in Conn :
    /\ SeatOf(c) \in Machine \cup {NoMachine}
    /\ \A m \in Machine : SeatOf(c) = m <=> c \notin rogue /\ SeatAt(c, m)
    /\ \A d \in Conn : Earlier(c, d) <=> /\ c \notin rogue /\ d \notin rogue
                                         /\ \E m \in Machine : Ahead(machines[m], c, d)

\* Nobody has two seats, so SeatOf has no choice.
LEMMA MappingHolds == SeatInv => Mapping
<1> SUFFICES ASSUME SeatInv, NEW c \in Conn
             PROVE  /\ SeatOf(c) \in Machine \cup {NoMachine}
                    /\ \A m \in Machine : SeatOf(c) = m <=> c \notin rogue /\ SeatAt(c, m)
                    /\ \A d \in Conn :
                         Earlier(c, d) <=> /\ c \notin rogue /\ d \notin rogue
                                           /\ \E m \in Machine : Ahead(machines[m], c, d)
  BY DEF Mapping
<1>1. NoMachine \notin Machine
  BY ConstantsAssumption
<1>2. \A d \in Conn : Earlier(c, d) <=> /\ c \notin rogue /\ d \notin rogue
                                        /\ \E m \in Machine : Ahead(machines[m], c, d)
  BY DEF Earlier, Ahead
<1>3. CASE c \in rogue \/ ~Seated(c)
  BY <1>1, <1>2, <1>3 DEF SeatOf, Seated, SeatAt
<1>4. CASE c \notin rogue /\ Seated(c)
  <2>1. \A m \in Machine : SeatAt(c, m) => m = machineId[c]
    BY <1>4 DEF SeatInv, SeatsFit, Fits, SeatAt, Members
  <2>2. PICK m \in Machine : SeatAt(c, m)
    BY <1>4 DEF Seated, SeatAt
  <2>3. SeatOf(c) \in Machine /\ SeatAt(c, SeatOf(c))
    BY <1>4, <2>2 DEF SeatOf, SeatAt
  <2> QED
    BY <1>2, <1>4, <2>1, <2>3
<1> QED
  BY <1>3, <1>4

\* The machines start empty.
LEMMA OrderInit == Init => Order!Init
<1> SUFFICES ASSUME Init PROVE Order!Init
  OBVIOUS
<1>1. \A m \in Machine : Len(machines[m]) = 0
  BY EmptySeq DEF Init
<1>2. \A c \in Conn : ~Seated(c)
  BY <1>1 DEF Seated, Members
<1>3. \A c, d \in Conn : ~Earlier(c, d)
  BY <1>1 DEF Earlier
<1>4. [c \in Conn |-> SeatOf(c)] = [c \in Conn |-> NoMachine]
  BY <1>2 DEF SeatOf
<1>5. {p \in Conn \X Conn : Earlier(p[1], p[2])} = {}
  BY <1>3
<1> QED
  BY <1>4, <1>5 DEF Order!Init

\* At most c is left.
Cleared(t, c) == Members(t) \subseteq {c}

\* Each machine loses everybody but c, or its seats are kept by everybody but c.
Orderly(c) ==
  /\ rogue \subseteq rogue' /\ rogue' \subseteq rogue \cup {c}
  /\ \A m \in Machine : Cleared(machines'[m], c) \/ Kept(machines[m], machines'[m], c)

\* What an orderly step does to the abstract seats and their order.
LEMMA OrderlyStep ==
  ASSUME Mapping, Mapping', NEW c \in Conn, Orderly(c)
  PROVE  /\ \A d \in Conn \ {c} : /\ SeatOf(d)' \in {SeatOf(d), NoMachine}
                                  /\ \A m \in Machine : SeatOf(d) = m =>
                                       (SeatOf(d)' = m <=> ~Cleared(machines'[m], c))
         /\ \A d, e \in Conn \ {c} :
              Earlier(d, e)' <=> Earlier(d, e) /\ SeatOf(d)' = SeatOf(d) /\ SeatOf(e)' = SeatOf(e)
<1> NoMachine \notin Machine
  BY ConstantsAssumption
<1>1. \A d \in Conn \ {c} : \A m \in Machine :
        SeatAt(d, m)' <=> SeatAt(d, m) /\ ~Cleared(machines'[m], c)
  BY DEF Orderly, Kept, SeatAt, Cleared
<1>2. \A d \in Conn \ {c} : d \in rogue' <=> d \in rogue
  BY DEF Orderly
<1>3. \A d \in Conn \ {c} : \A m \in Machine :
         SeatOf(d)' = m <=> SeatOf(d) = m /\ ~Cleared(machines'[m], c)
  BY <1>1, <1>2 DEF Mapping
<1>4. \A d \in Conn : SeatOf(d)' \in Machine \cup {NoMachine} /\ SeatOf(d) \in Machine \cup {NoMachine}
  BY DEF Mapping
<1>5. ASSUME NEW d \in Conn \ {c}, NEW e \in Conn \ {c}
      PROVE  Earlier(d, e)' <=> Earlier(d, e) /\ SeatOf(d)' = SeatOf(d) /\ SeatOf(e)' = SeatOf(e)
  <2>1. \A m \in Machine : Ahead(machines'[m], d, e)
                             <=> Ahead(machines[m], d, e) /\ ~Cleared(machines'[m], c)
    <3>1. \A m \in Machine : Ahead(machines'[m], d, e) => d \in Members(machines'[m])
      BY DEF Ahead, Members
    <3>2. \A m \in Machine : d \in Members(machines'[m]) => ~Cleared(machines'[m], c)
      BY DEF Cleared
    <3>3. \A m \in Machine : Ahead(machines[m], d, e) => d \in Members(machines[m])
      BY DEF Ahead, Members
    <3> QED
      BY <3>1, <3>2, <3>3 DEF Orderly, Kept
  <2>2. \A m \in Machine : /\ Ahead(machines[m], d, e) => SeatAt(d, m) /\ SeatAt(e, m)
    BY DEF Ahead, SeatAt, Members
  <2> QED
    BY <1>2, <1>3, <2>1, <2>2 DEF Mapping
<1> QED
  BY <1>3, <1>4, <1>5


\* Whoever comes before or after somebody has a seat.
LEMMA EarlierSeated ==
  ASSUME Mapping, NEW c \in Conn, NEW d \in Conn, Earlier(c, d)
  PROVE  SeatOf(c) # NoMachine /\ SeatOf(d) # NoMachine
BY ConstantsAssumption DEF Mapping, Ahead, SeatAt, Members

\* The same after a step.
LEMMA EarlierSeatedNext ==
  ASSUME Mapping', NEW c \in Conn, NEW d \in Conn, Earlier(c, d)'
  PROVE  SeatOf(c)' # NoMachine /\ SeatOf(d)' # NoMachine
BY ConstantsAssumption DEF Mapping, Ahead, SeatAt, Members

\* The abstract step is fair to the others: with those who are gone, c aside, all go.
LEMMA OrderlyFair ==
  ASSUME Mapping, Mapping', NEW c \in Conn, Orderly(c), NEW S \in SUBSET Conn,
         SeatOf(c) # NoMachine => c \in S,
         \A d \in Conn \ {c} : d \in S <=> SeatOf(d) # NoMachine /\ SeatOf(d)' # SeatOf(d)
  PROVE  Order!Fair(S)
<1> NoMachine \notin Machine
  BY ConstantsAssumption
<1> SUFFICES ASSUME NEW m \in Machine
             PROVE  LET here == {d \in Conn : SeatOf(d) = m}
                    IN \/ S \cap here = {}
                       \/ \E d \in here : S \cap here = {d}
                       \/ here \subseteq S
  BY DEF Order!Fair
<1> DEFINE here == {d \in Conn : SeatOf(d) = m}
<1>1. \A d \in Conn \ {c} : SeatOf(d) = m => (d \in S <=> Cleared(machines'[m], c))
  BY OrderlyStep
<1>2. CASE Cleared(machines'[m], c)
  BY <1>1, <1>2
<1>3. CASE ~Cleared(machines'[m], c) /\ c \in here
  <2>1. S \cap here = {c}
    BY <1>1, <1>3
  <2> QED
    BY <1>3, <2>1
<1>4. CASE ~Cleared(machines'[m], c) /\ c \notin here
  BY <1>1, <1>4
<1> QED
  BY <1>2, <1>3, <1>4

\* The mapped variables, and who is gone.
at == [d \in Conn |-> SeatOf(d)]
before == {p \in Conn \X Conn : Earlier(p[1], p[2])}
gone == {d \in Conn : SeatOf(d) # NoMachine /\ SeatOf(d)' # SeatOf(d)}

\* An orderly step after which c has no seat is a Go of SeatOrder.
LEMMA GoStep ==
  ASSUME Mapping, Mapping', NEW c \in Conn, Orderly(c), SeatOf(c)' = NoMachine
  PROVE  Order!Go
<1>1. Order!Gone = gone /\ gone \subseteq Conn
  BY DEF Order!Gone, gone
<1>2. \A d \in Conn : SeatOf(d)' \in {SeatOf(d), NoMachine}
  BY OrderlyStep
<1>3. Order!Fair(gone)
  <2>1. \A d \in Conn : d \in gone <=> SeatOf(d) # NoMachine /\ SeatOf(d)' # SeatOf(d)
    BY DEF gone
  <2> QED
    BY <1>1, <2>1, OrderlyFair
<1>4. ASSUME NEW d \in Conn, NEW e \in Conn
      PROVE  Earlier(d, e)' <=> Earlier(d, e) /\ d \notin gone /\ e \notin gone
  <2>1. CASE d # c /\ e # c
    BY <2>1, OrderlyStep, EarlierSeated DEF gone
  <2>2. CASE d = c \/ e = c
    BY <2>2, EarlierSeated, EarlierSeatedNext DEF gone
  <2> QED
    BY <2>1, <2>2
<1>5. before' = {p \in before : p[1] \notin gone /\ p[2] \notin gone}
  BY <1>4 DEF before
<1> QED
  BY <1>1, <1>2, <1>3, <1>5 DEF Order!Go, Order!Without, before

\* An orderly step after which c has the last seat of a machine is a Sit of SeatOrder.
LEMMA SitStep ==
  ASSUME Mapping, Mapping', NEW c \in Conn, Orderly(c), SeatOf(c)' \in Machine,
         ~Earlier(c, c)',
         \A d \in Conn \ {c} : /\ Earlier(d, c)' <=> SeatOf(d)' = SeatOf(c)'
                              /\ ~Earlier(c, d)'
  PROVE  Order!Sit(c)
<1> DEFINE left == gone \cup {c}
           here == {d \in Conn \ {c} : SeatOf(d)' = SeatOf(c)'}
<1>1. Order!Gone = gone /\ gone \subseteq Conn /\ left \subseteq Conn
  BY DEF Order!Gone, gone
<1>2. \A d \in Conn \ {c} : SeatOf(d)' \in {SeatOf(d), NoMachine}
  BY OrderlyStep
<1>3. Order!Fair(left)
  <2>1. \A d \in Conn \ {c} : d \in left <=> SeatOf(d) # NoMachine /\ SeatOf(d)' # SeatOf(d)
    BY DEF gone
  <2> QED
    BY <1>1, <2>1, OrderlyFair
<1>4. ASSUME NEW d \in Conn, NEW e \in Conn
      PROVE  Earlier(d, e)' <=> \/ Earlier(d, e) /\ d \notin left /\ e \notin left
                                \/ d \in here /\ e = c
  <2>1. CASE d # c /\ e # c
    BY <2>1, OrderlyStep, EarlierSeated DEF gone
  <2>2. CASE d = c \/ e = c
    BY <2>2
  <2> QED
    BY <2>1, <2>2
<1>5. before' = {p \in before : p[1] \notin left /\ p[2] \notin left}
                 \cup {<<d, c>> : d \in here}
  <2>1. \A p \in before' : p \in {q \in before : q[1] \notin left /\ q[2] \notin left}
                                 \cup {<<d, c>> : d \in here}
    BY <1>4 DEF before
  <2>2. \A p \in before : p[1] \notin left /\ p[2] \notin left => p \in before'
    BY <1>4 DEF before
  <2>3. \A d \in here : <<d, c>> \in before'
    BY <1>4 DEF before
  <2> QED
    BY <2>1, <2>2, <2>3
<1> QED
  BY <1>1, <1>2, <1>3, <1>5 DEF Order!Sit, Order!Without, before

\* A step that leaves the seats alone, and loses track of nobody, does not show.
LEMMA QuietStep ==
  ASSUME UNCHANGED <<machines, rogue>>
  PROVE  at' = at /\ before' = before
BY DEF at, before, SeatOf, Seated, Earlier


-----------------------------------------------------------------------------
(* Every step.                                                             *)

Shows == Order!Next \/ (at' = at /\ before' = before)

\* Whom the server has lost track of, and whoever is nowhere, has no abstract seat.
LEMMA Unseen ==
  ASSUME Mapping', NEW c \in Conn, c \in rogue' \/ ~Sits(c, machines')
  PROVE  SeatOf(c)' = NoMachine
BY DEF Mapping, SeatAt, Sits, Members

\* Losing track of c, with the seats as they are.
LEMMA SameSeats ==
  ASSUME Mapping, Mapping', NEW c \in Conn, machines' = machines,
         rogue' \in {rogue, rogue \cup {c}}
  PROVE  Shows
<1>1. CASE rogue' = rogue
  BY <1>1, QuietStep DEF Shows
<1>2. CASE rogue' = rogue \cup {c}
  <2>1. Orderly(c)
    BY <1>2 DEF Orderly, Kept
  <2>2. SeatOf(c)' = NoMachine
    BY <1>2, Unseen
  <2> QED
    BY <2>1, <2>2, GoStep DEF Shows, Order!Next
<1> QED
  BY <1>1, <1>2

\* _leaveArcade is orderly.
LEMMA SeatsAfterKept ==
  ASSUME TypeOK, NEW c \in Conn, NEW m \in Machine, NEW n \in Machine
  PROVE  \/ SeatsAfter(c, m)[n] = <<>>
         \/ Kept(machines[n], SeatsAfter(c, m)[n], c)
<1>1. machines \in [Machine -> Seq(Conn)] /\ machines[m] \in Seq(Conn)
  BY DEF TypeOK
<1>2. Kept(machines[n], machines[n], c)
  BY DEF Kept
<1>3. Kept(machines[m], Erase(machines[m], c), c)
  BY <1>1, EraseKept
<1>4. SeatsAfter(c, m)[n] \in {<<>>, machines[n], IF n = m THEN Erase(machines[m], c) ELSE machines[n]}
  BY <1>1 DEF SeatsAfter
<1> QED
  BY <1>2, <1>3, <1>4

\* Nobody has a seat of an empty machine.
LEMMA EmptyCleared == \A c : Cleared(<<>>, c)
BY EmptySeq DEF Cleared, Members

\* c leaves the machine its record names, or any if it names none.
LEMMA LeaveStep ==
  ASSUME SeatInv, Mapping, Mapping', NEW c \in Conn, NEW m \in SeatSource(c),
         machines' = SeatsAfter(c, m), rogue' \in {rogue, rogue \cup {c}}
  PROVE  Shows
<1>1. m \in Machine /\ TypeOK
  BY SeatSourceType DEF SeatInv
<1>2. Orderly(c)
  BY <1>1, SeatsAfterKept, EmptyCleared DEF Orderly
<1>3. c \notin rogue' => ~Sits(c, machines')
  <2> SUFFICES ASSUME c \notin rogue' PROVE ~Sits(c, machines')
    OBVIOUS
  <2>1. Fits(c, machines, machineId[c])
    BY DEF SeatInv, SeatsFit
  <2>2. machineId[c] = m \/ machineId[c] = NoMachine
    BY DEF SeatSource
  <2> QED
    BY <1>1, <2>1, <2>2, SeatsAfterFits, FitsNowhere
<1>4. SeatOf(c)' = NoMachine
  BY <1>3, Unseen
<1> QED
  BY <1>2, <1>4, GoStep DEF Shows, Order!Next

\* The reaping takes the seat of a closed connection.
LEMMA VisitStep ==
  ASSUME SeatInv, Mapping, Mapping', NEW c \in Conn, Visit(c)
  PROVE  Shows
<1>1. /\ rogue' = rogue
      /\ machines \in [Machine -> Seq(Conn)]
      /\ \A m \in Machine : machines'[m] = IF link[c] = "closed" /\ machineId[c] = m
                                           THEN Erase(machines[m], c) ELSE machines[m]
      /\ machines' \in [Machine -> Seq(Conn)]
  BY EraseType DEF Visit, ghostVars, SeatInv, TypeOK
<1>2. CASE link[c] = "closed" /\ machineId[c] \in Machine
  <2> DEFINE m == machineId[c]
  <2>1. machines' = [machines EXCEPT ![m] = Erase(@, c)]
    BY <1>1, <1>2
  <2>2. Orderly(c)
    <3> SUFFICES ASSUME NEW n \in Machine PROVE Kept(machines[n], machines'[n], c)
      BY <1>1 DEF Orderly
    <3>1. Kept(machines[m], Erase(machines[m], c), c)
      BY <1>1, <1>2, EraseKept
    <3> QED
      BY <1>1, <1>2, <3>1 DEF Kept
  <2>3. c \notin rogue => ~Sits(c, machines')
    <3> SUFFICES ASSUME c \notin rogue PROVE ~Sits(c, machines')
      OBVIOUS
    <3>1. Fits(c, machines, m)
      BY DEF SeatInv, SeatsFit
    <3> QED
      BY <1>1, <1>2, <2>1, <3>1, EraseFits DEF Seats
  <2>4. SeatOf(c)' = NoMachine
    BY <1>1, <2>3, Unseen
  <2> QED
    BY <2>2, <2>4, GoStep DEF Shows, Order!Next
<1>3. CASE ~(link[c] = "closed" /\ machineId[c] \in Machine)
  <2>1. machines' = machines
    BY <1>1, <1>3
  <2> QED
    BY <1>1, <2>1, SameSeats
<1> QED
  BY <1>2, <1>3


\* Joining a machine: c leaves its own, perhaps ending a game, and takes the last place,
\* if it is let in and there is a place to take.
LEMMA JoinStep ==
  ASSUME SeatInv, Mapping, Mapping', NEW c \in Conn, JoinArcade(c)
  PROVE  Shows
<1> DEFINE leaves == status[c] # "idle"
           seats(from) == IF leaves THEN SeatsAfter(c, from) ELSE machines
           m == want[c]
<1>1. m \in Machine /\ TypeOK
  BY DEF SeatInv, TypeOK, JoinArcade
<1>2. PICK from \in SeatSource(c), p1 \in Pref, p2 \in Pref :
        \/ machines' = seats(from)
        \/ machines' = [seats(from) EXCEPT ![m] = SeatsWith(c, @, status', p1, p2)]
  BY DEF JoinArcade, Reseats
<1>3. from \in Machine
  BY <1>1, SeatSourceType
<1> DEFINE ms == seats(from)
<1>4. ms \in [Machine -> Seq(Conn)]
  BY <1>1, <1>3, SeatOpsType DEF TypeOK
<1>5. /\ rogue' \in {rogue, rogue \cup {c}}
      /\ Seated(c) /\ ~leaves => c \in rogue'
  BY DEF JoinArcade
<1>6. \A n \in Machine : Cleared(ms[n], c) \/ Kept(machines[n], ms[n], c)
  <2>1. \A n \in Machine : Kept(machines[n], machines[n], c)
    BY DEF Kept
  <2> QED
    BY <1>1, <1>3, <2>1, SeatsAfterKept, EmptyCleared
<1>7. c \notin rogue' => ~Sits(c, ms)
  <2> SUFFICES ASSUME c \notin rogue' PROVE ~Sits(c, ms)
    OBVIOUS
  <2>1. Fits(c, machines, machineId[c])
    BY <1>5 DEF SeatInv, SeatsFit
  <2>2. machineId[c] = from \/ machineId[c] = NoMachine
    BY DEF SeatSource
  <2>3. CASE leaves
    BY <1>1, <1>3, <2>1, <2>2, <2>3, SeatsAfterFits, FitsNowhere
  <2>4. CASE ~leaves
    BY <1>5, <2>4 DEF Seated, Sits, Members
  <2> QED
    BY <2>3, <2>4
<1> HIDE DEF seats, m
<1>8. ASSUME machines' = ms \/ machines' = [ms EXCEPT ![m] = <<>>] PROVE Shows
  <2>1. Orderly(c)
    <3>1. \A n \in Machine : machines'[n] = ms[n] \/ machines'[n] = <<>>
      BY <1>4, <1>8
    <3> QED
      BY <1>5, <1>6, <3>1, EmptyCleared DEF Orderly
  <2>2. c \notin rogue' => ~Sits(c, machines')
    <3>1. \A n \in Machine : machines'[n] = ms[n] \/ Len(machines'[n]) = 0
      BY <1>4, <1>8, EmptySeq
    <3> QED
      BY <1>7, <3>1 DEF Sits
  <2>3. SeatOf(c)' = NoMachine
    BY <2>2, Unseen
  <2> QED
    BY <2>1, <2>3, GoStep DEF Shows, Order!Next
<1>9. ASSUME machines' = [ms EXCEPT ![m] = Append(ms[m], c)] PROVE Shows
  <2>1. /\ machines'[m] = Append(ms[m], c) /\ ms[m] \in Seq(Conn)
        /\ \A n \in Machine \ {m} : machines'[n] = ms[n]
    BY <1>1, <1>4, <1>9
  <2>2. /\ Kept(ms[m], machines'[m], c)
        /\ c \in Members(machines'[m])
        /\ c \notin Members(ms[m]) =>
             \A d \in Conn \ {c} : /\ Ahead(machines'[m], d, c) <=> d \in Members(ms[m])
                                   /\ ~Ahead(machines'[m], c, d)
        /\ c \notin Members(ms[m]) => ~Ahead(machines'[m], c, c)
    BY <2>1, AppendKept
  <2>3. Orderly(c)
    <3> SUFFICES ASSUME NEW n \in Machine
                 PROVE  Cleared(machines'[n], c) \/ Kept(machines[n], machines'[n], c)
      BY <1>5 DEF Orderly
    <3>1. CASE n # m
      BY <1>6, <2>1, <3>1
    <3>2. CASE n = m /\ Kept(machines[m], ms[m], c)
      BY <2>2, <3>2, KeptTwice
    <3>3. CASE n = m /\ Cleared(ms[m], c)
      <4>1. Members(machines'[m]) \subseteq Conn
        BY <2>1, ElementOfSeq DEF Members
      <4> QED
        BY <2>2, <3>3, <4>1 DEF Kept, Cleared
    <3> QED
      BY <1>1, <1>6, <3>1, <3>2, <3>3
  <2>4. CASE c \in rogue'
    BY <2>3, <2>4, Unseen, GoStep DEF Shows, Order!Next
  <2>5. CASE c \notin rogue'
    <3>1. \A n \in Machine : c \notin Members(ms[n])
      BY <1>7, <2>5 DEF Sits, Members
    <3>2. SeatOf(c)' = m
      BY <1>1, <2>2, <2>5 DEF Mapping, SeatAt
    <3>3. \A n \in Machine \ {m} : \A d \in Conn :
            ~Ahead(machines'[n], c, d) /\ ~Ahead(machines'[n], d, c)
      BY <2>1, <3>1 DEF Ahead, Members
    <3>4. ~Earlier(c, c)' /\ \A d \in Conn \ {c} : ~Earlier(c, d)'
      BY <1>1, <2>2, <3>1, <3>3 DEF Mapping
    <3>5. ASSUME NEW d \in Conn \ {c} PROVE Earlier(d, c)' <=> SeatOf(d)' = m
      <4>1. Ahead(machines'[m], d, c) <=> d \in Members(machines'[m])
        BY <1>1, <2>2, <3>1 DEF Kept
      <4> QED
        BY <1>1, <2>5, <3>3, <4>1 DEF Mapping, SeatAt
    <3> QED
      BY <1>1, <2>3, <3>2, <3>4, <3>5, SitStep DEF Shows, Order!Next
  <2> QED
    BY <2>4, <2>5
<1>10. \/ machines' = ms
       \/ machines' = [ms EXCEPT ![m] = <<>>]
       \/ machines' = [ms EXCEPT ![m] = Append(ms[m], c)]
  <2>1. SeatsWith(c, ms[m], status', p1, p2) \in {<<>>, ms[m], Append(ms[m], c)}
    BY DEF SeatsWith, StartRoom
  <2>2. [ms EXCEPT ![m] = ms[m]] = ms
    BY <1>1, <1>4
  <2>3. machines' = ms \/ machines' = [ms EXCEPT ![m] = SeatsWith(c, ms[m], status', p1, p2)]
    BY <1>2
  <2> HIDE DEF ms
  <2> QED
    BY <2>1, <2>2, <2>3
<1> QED
  BY <1>8, <1>9, <1>10


\* Every step of LobbyServer is a step of SeatOrder, or does not show there.
LEMMA OrderNext ==
  SeatInv /\ Mapping /\ Mapping' /\ [Next]_vars => Shows
<1> SUFFICES ASSUME SeatInv, Mapping, Mapping', [Next]_vars PROVE Shows
  OBVIOUS
<1> USE DEF memberVars, arcadeVars, threadVars, mainVars, ghostVars
<1>1. TypeOK
  BY DEF SeatInv
<1>2. ASSUME UNCHANGED <<machines, rogue>> PROVE Shows
  BY <1>2, QuietStep DEF Shows
<1>3. ASSUME NEW c \in Conn, NetThread(c) PROVE Shows
  <2>1. ASSUME NEW p \in Profile, Hello(c, p) PROVE Shows
    <3>1. machines' = machines /\ rogue' \in {rogue, rogue \cup {c}}
      BY <2>1 DEF Hello
    <3> QED
      BY <3>1, SameSeats
  <2>2. CASE JoinSection(c)
    BY <1>2, <2>2 DEF JoinSection
  <2>3. CASE Admit(c)
    BY <1>2, <2>3 DEF Admit
  <2>4. CASE PlayerLeave(c)
    BY <1>2, <2>4 DEF PlayerLeave
  <2>5. CASE Drop(c)
    <3>1. machines' = machines /\ rogue' \in {rogue, rogue \cup {c}}
      BY <2>5 DEF Drop
    <3> QED
      BY <3>1, SameSeats
  <2>6. ASSUME NEW st \in Status, Report(c, st) PROVE Shows
    BY <1>2, <2>6 DEF Report
  <2>7. ASSUME NEW m \in Machine, GameRequest(c, m) PROVE Shows
    BY <1>2, <2>7 DEF GameRequest
  <2>8. ASSUME NEW d \in Conn, JoinCommand(c, d) PROVE Shows
    BY <1>2, <2>8 DEF JoinCommand
  <2>9. CASE IgnoreCommand(c)
    BY <1>2, <2>9 DEF IgnoreCommand
  <2>10. CASE JoinArcade(c)
    BY <2>10, JoinStep
  <2>11. CASE GameStart(c)
    BY <1>2, <2>11 DEF GameStart
  <2>12. CASE StartSection(c)
    BY <1>2, <2>12 DEF StartSection
  <2>13. CASE ArcadeLeave(c)
    <3>1. machineId[c] \in SeatSource(c)
      BY <2>13 DEF ArcadeLeave, SeatSource
    <3>2. machines' = SeatsAfter(c, machineId[c]) /\ rogue' = rogue
      BY <2>13 DEF ArcadeLeave
    <3> QED
      BY <3>1, <3>2, LeaveStep
  <2>14. CASE Farewell(c)
    BY <1>2, <2>14 DEF Farewell
  <2>15. CASE Settle(c)
    <3>1. machines' = machines /\ rogue' \in {rogue, rogue \cup {c}}
      BY <2>15 DEF Settle, Close
    <3> QED
      BY <3>1, SameSeats
  <2>16. CASE Unseat(c)
    <3>1. PICK m \in SeatSource(c) : machines' = SeatsAfter(c, m)
      BY <2>16 DEF Unseat, LeaveSeat
    <3>2. rogue' \in {rogue, rogue \cup {c}}
      BY <2>16 DEF Unseat, Close
    <3> QED
      BY <3>1, <3>2, LeaveStep
  <2>17. CASE Crash(c)
    BY <1>2, <2>17 DEF Crash
  <2> QED
    BY <1>3, <2>1, <2>2, <2>3, <2>4, <2>5, <2>6, <2>7, <2>8, <2>9, <2>10, <2>11, <2>12,
       <2>13, <2>14, <2>15, <2>16, <2>17 DEF NetThread
<1>4. CASE MainThread
  <2>1. ASSUME NEW c \in Conn, Accept(c) PROVE Shows
    BY <1>2, <2>1 DEF Accept
  <2>2. ASSUME NEW c \in Conn, Kick(c) PROVE Shows
    <3>1. machines' = machines /\ rogue' \in {rogue, rogue \cup {c}}
      BY <2>2 DEF Kick
    <3> QED
      BY <3>1, SameSeats
  <2>3. CASE KickBegin \/ KickSettle
    <3>1. kickee \in Conn
      BY <1>1, <2>3 DEF KickBegin, KickSettle, TypeOK
    <3>2. machines' = machines /\ rogue' \in {rogue, rogue \cup {kickee}}
      BY <2>3 DEF KickBegin, KickSettle, Close
    <3> QED
      BY <3>1, <3>2, SameSeats
  <2>4. CASE KickFarewell
    BY <1>2, <2>4 DEF KickFarewell
  <2>5. CASE KickUnseat
    <3>1. kickee \in Conn
      BY <1>1, <2>5 DEF KickUnseat, TypeOK
    <3>2. PICK m \in SeatSource(kickee) : machines' = SeatsAfter(kickee, m)
      BY <2>5 DEF KickUnseat, LeaveSeat
    <3>3. rogue' \in {rogue, rogue \cup {kickee}}
      BY <2>5 DEF KickUnseat, Close
    <3> QED
      BY <3>1, <3>2, <3>3, LeaveStep
  <2>6. CASE SweepBegin \/ Doom \/ Destroy \/ ServerClose
    BY <1>2, <2>6 DEF SweepBegin, Doom, Destroy, ServerClose
  <2>7. ASSUME NEW c \in Conn, Visit(c) PROVE Shows
    BY <2>7, VisitStep
  <2> QED
    BY <1>4, <2>1, <2>2, <2>3, <2>4, <2>5, <2>6, <2>7 DEF MainThread, Kicking, Reaping
<1>5. CASE Ended \/ UNCHANGED vars
  BY <1>2, <1>5 DEF Ended, vars
<1> QED
  BY <1>3, <1>4, <1>5 DEF Next

\* LobbyServer implements SeatOrder (FirstComeFirstServed): first come, first served at
\* every machine, whatever the players, the console and the reaping do.
THEOREM SeatsAreFirstComeFirstServed == Spec => FirstComeFirstServed
<1>1. SeatInv /\ Mapping /\ Mapping' /\ [Next]_vars
      => [Order!Next]_<<[c \in Conn |-> SeatOf(c)], {p \in Conn \X Conn : Earlier(p[1], p[2])}>>
  BY OrderNext DEF Shows, at, before
<1> QED
  BY <1>1, OrderInit, MappingHolds, SeatsInvariant, PTL DEF Spec, FirstComeFirstServed, Order!Spec

=============================================================================
