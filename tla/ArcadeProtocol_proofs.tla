------------------------ MODULE ArcadeProtocol_proofs ------------------------
(***************************************************************************)
(* Theorems about the players at the arcade machines and the lobby server  *)
(* they talk to (ArcadeProtocol), for any players, machines, versions,     *)
(* preferences and any number of requests.                                 *)
(***************************************************************************)
EXTENDS ArcadeProtocol, SequenceTheorems, FiniteSetTheorems, TLAPS

-----------------------------------------------------------------------------
(* Packets.                                                                *)

\* The kinds of packets a client sends, by what they do to the server's record of it.
Asks == {Request(m) : m \in Machine}
Says == {Command(d) : d \in Conn}
Idles == {Report("idle")}
Quits == {LeaveArcade}
Busies == Asks \cup {Report(st) : st \in Status \ {"idle"}} \cup {Started}

\* What each packet for the server is, by its kind.
LEMMA UpKinds ==
  ASSUME NEW p \in UpPacket
  PROVE  /\ p.kind = "GameRequest" => \E m \in Machine : p = Request(m)
         /\ p.kind = "BattleStatusUpdate" => \E st \in Status : p = Report(st)
         /\ p.kind = "/join" => \E d \in Conn : p = Command(d)
         /\ p.kind = "GameStart" => p = Started
         /\ p.kind = "ArcadeLeave" => p = LeaveArcade
BY DEF UpPacket, Request, Report, Command, Started, LeaveArcade

\* What each packet for a client is, by its kind.
LEMMA DownKinds ==
  ASSUME NEW p \in DownPacket
  PROVE  /\ p.kind = "ArcadeEngage" => \E d \in Conn, m \in Machine : p = Engaged(d, m)
         /\ p.kind = "ArcadeLeave" => \E d \in Conn \cup {NoConn} : p = Left(d)
         /\ p.kind = "GameRequest" => p = HostRequest
         /\ p.kind = "GameStart" => \E d \in Conn, b \in BOOLEAN : p = Join(d, b)
BY DEF DownPacket, Engaged, Left, HostRequest, Join

\* The packets are packets.
LEMMA PacketsTyped ==
  /\ \A m \in Machine : Request(m) \in UpPacket
  /\ \A st \in Status : Report(st) \in UpPacket
  /\ \A d \in Conn : Command(d) \in UpPacket
  /\ Started \in UpPacket /\ LeaveArcade \in UpPacket
  /\ \A d \in Conn, m \in Machine : Engaged(d, m) \in DownPacket
  /\ \A d \in Conn \cup {NoConn} : Left(d) \in DownPacket
  /\ \A d \in Conn, b \in BOOLEAN : Join(d, b) \in DownPacket
  /\ HostRequest \in DownPacket
BY DEF UpPacket, DownPacket

\* The fields of the packets.
LEMMA PacketFields ==
  /\ \A m : Request(m).kind = "GameRequest" /\ Request(m).machine = m
  /\ \A st : Report(st).kind = "BattleStatusUpdate" /\ Report(st).status = st
  /\ \A d : Command(d).kind = "/join" /\ Command(d).player = d
  /\ Started.kind = "GameStart" /\ LeaveArcade.kind = "ArcadeLeave"
  /\ \A d, m : /\ Engaged(d, m).kind = "ArcadeEngage"
               /\ Engaged(d, m).player = d /\ Engaged(d, m).machine = m
  /\ \A d : Left(d).kind = "ArcadeLeave" /\ Left(d).player = d
  /\ \A d, b : /\ Join(d, b).kind = "GameStart"
               /\ Join(d, b).player = d /\ Join(d, b).spectator = b
  /\ HostRequest.kind = "GameRequest" /\ Nothing.kind = "nothing"
BY DEF Request, Report, Command, Started, LeaveArcade, Engaged, Left, Join, HostRequest, Nothing

\* Which packets ask, say, idle, quit or keep busy.
LEMMA PacketClasses ==
  /\ \A m \in Machine : Request(m) \in Asks \cap Busies
  /\ \A m : Request(m) \notin Says \cup Idles \cup Quits
  /\ \A st \in Status : /\ Report(st) \in Idles <=> st = "idle"
                        /\ Report(st) \in Busies <=> st # "idle"
  /\ \A st : Report(st) \notin Asks \cup Says \cup Quits
  /\ \A d \in Conn : Command(d) \in Says
  /\ \A d : Command(d) \notin Asks \cup Idles \cup Quits \cup Busies
  /\ Started \in Busies /\ Started \notin Asks \cup Says \cup Idles \cup Quits
  /\ LeaveArcade \in Quits /\ LeaveArcade \notin Asks \cup Says \cup Idles \cup Busies
<1> USE DEF Asks, Says, Idles, Quits, Busies
<1>1. \A st, st2 : Report(st) = Report(st2) <=> st = st2
  BY DEF Report
<1>2. \A st, m : Report(st) # Request(m) /\ Report(st) # Command(m)
  BY DEF Report, Request, Command
<1>3. \A d, m : Command(d) # Request(m)
  BY DEF Command, Request
<1>4. \A x : /\ Started \notin {Request(x), Report(x), Command(x), LeaveArcade}
             /\ LeaveArcade \notin {Request(x), Report(x), Command(x)}
  BY DEF Started, LeaveArcade, Request, Report, Command
<1> QED
  BY <1>1, <1>2, <1>3, <1>4

-----------------------------------------------------------------------------
(* Packets on their way.                                                   *)

\* After each of the first n packets of q that is in A comes one that is in B, and so it
\* does now, if A is what the receiver is left with.
Undone(q, n, A, B, now) ==
  /\ \A k \in 1..n : q[k] \in A => \E j \in (k + 1)..n : q[j] \in B
  /\ now => \E j \in 1..n : q[j] \in B

\* The head of a queue is received: it is not A that the receiver is left with, unless it
\* was, and the head does not undo it, or the head says so.
LEMMA UndoneTail ==
  ASSUME NEW S, NEW q \in Seq(S), q # <<>>, NEW n \in 1..Len(q), NEW A, NEW B,
         NEW now, NEW later, Undone(q, n, A, B, now),
         later => Head(q) \in A \/ (now /\ Head(q) \notin B)
  PROVE  Undone(Tail(q), n - 1, A, B, later)
<1>1. /\ Len(q) \in Nat /\ Head(q) = q[1]
      /\ Len(Tail(q)) = Len(q) - 1
      /\ \A k \in 1..(Len(q) - 1) : Tail(q)[k] = q[k + 1]
  BY HeadTailProperties, LenProperties
<1>2. \A k \in 1..(n - 1) : Tail(q)[k] = q[k + 1] /\ k + 1 \in 1..n
  BY <1>1
<1>3. ASSUME NEW k \in 1..(n - 1), Tail(q)[k] \in A
      PROVE  \E j \in (k + 1)..(n - 1) : Tail(q)[j] \in B
  <2>1. PICK j \in (k + 2)..n : q[j] \in B
    BY <1>2, <1>3 DEF Undone
  <2>2. j - 1 \in (k + 1)..(n - 1) /\ Tail(q)[j - 1] = q[j]
    BY <1>2
  <2> QED
    BY <2>1, <2>2
<1>4. ASSUME later PROVE \E j \in 1..(n - 1) : Tail(q)[j] \in B
  <2>1. PICK j \in 2..n : q[j] \in B
    <3>1. CASE Head(q) \in A
      BY <1>1, <3>1 DEF Undone
    <3>2. CASE now /\ Head(q) \notin B
      BY <1>1, <3>2 DEF Undone
    <3> QED
      BY <1>4, <3>1, <3>2
  <2>2. j - 1 \in 1..(n - 1) /\ Tail(q)[j - 1] = q[j]
    BY <1>2
  <2> QED
    BY <2>1, <2>2
<1> QED
  BY <1>3, <1>4 DEF Undone

\* A packet is sent: it does not matter to those before it, and undoes A if it is in B.
LEMMA UndoneAppend ==
  ASSUME NEW S, NEW q \in Seq(S), NEW x \in S, NEW A, NEW B, NEW now
  PROVE  /\ Len(Append(q, x)) = Len(q) + 1 /\ Append(q, x) \in Seq(S)
         /\ Append(q, x)[Len(q) + 1] = x
         /\ \A i \in 1..Len(q) : Append(q, x)[i] = q[i]
         /\ \A n \in 0..Len(q) : Undone(q, n, A, B, now) => Undone(Append(q, x), n, A, B, now)
         /\ x \notin A /\ (x \in B \/ Undone(q, Len(q), A, B, now))
              => Undone(Append(q, x), Len(q) + 1, A, B, now)
<1> DEFINE r == Append(q, x)
<1>1. /\ Len(q) \in Nat
      /\ r \in Seq(S) /\ Len(r) = Len(q) + 1
      /\ r[Len(q) + 1] = x
      /\ \A i \in 1..Len(q) : r[i] = q[i]
  BY AppendProperties, LenProperties
<1> HIDE DEF r
<1>2. ASSUME NEW n \in 0..Len(q), Undone(q, n, A, B, now) PROVE Undone(r, n, A, B, now)
  <2>1. \A i \in 1..n : r[i] = q[i]
    BY <1>1
  <2>2. ASSUME NEW k \in 1..n, r[k] \in A PROVE \E j \in (k + 1)..n : r[j] \in B
    BY <1>1, <1>2, <2>1, <2>2 DEF Undone
  <2>3. now => \E j \in 1..n : r[j] \in B
    BY <1>2, <2>1 DEF Undone
  <2> QED
    BY <2>2, <2>3 DEF Undone
<1>3. ASSUME x \notin A, x \in B PROVE Undone(r, Len(q) + 1, A, B, now)
  <2>1. ASSUME NEW k \in 1..(Len(q) + 1), r[k] \in A
        PROVE  \E j \in (k + 1)..(Len(q) + 1) : r[j] \in B
    <3>1. k # Len(q) + 1
      BY <1>1, <1>3, <2>1
    <3>2. Len(q) + 1 \in (k + 1)..(Len(q) + 1)
      BY <1>1, <3>1
    <3> QED
      BY <1>1, <1>3, <3>2
  <2> QED
    BY <1>1, <1>3, <2>1 DEF Undone
<1>4. ASSUME x \notin A, Undone(q, Len(q), A, B, now)
      PROVE  Undone(r, Len(q) + 1, A, B, now)
  <2>1. Undone(r, Len(q), A, B, now)
    BY <1>1, <1>2, <1>4
  <2>2. ASSUME NEW k \in 1..(Len(q) + 1), r[k] \in A
        PROVE  \E j \in (k + 1)..(Len(q) + 1) : r[j] \in B
    <3>1. k \in 1..Len(q)
      BY <1>1, <1>4, <2>2
    <3>2. PICK j \in (k + 1)..Len(q) : r[j] \in B
      BY <2>1, <2>2, <3>1 DEF Undone
    <3> QED
      BY <1>1, <3>2
  <2> QED
    BY <1>1, <2>1, <2>2 DEF Undone
<1> QED
  BY <1>1, <1>2, <1>3, <1>4 DEF r

\* The receiver is left with less.
LEMMA UndoneWeaker ==
  ASSUME NEW q, NEW n, NEW A, NEW B, NEW now, NEW later,
         Undone(q, n, A, B, now), later => now
  PROVE  Undone(q, n, A, B, later)
BY DEF Undone

-----------------------------------------------------------------------------
(* What a client has told the server, and what the server makes of it.     *)

\* What the server's record of a player comes to: it has a machine, or is about to get
\* one; it is not idle, or is about not to be; it is idle at a machine.
Seat(p, id) == p = "request" \/ id # NoMachine
Busy(p, st) == p \in {"request", "starting"} \/ st # "idle"
Odd(p, st, id) == p # "request" /\ st = "idle" /\ id # NoMachine

\* What is left with the server once it has received the first n packets.
Freed(u, n, p, id)    == Undone(u, n, Asks, Quits, Seat(p, id))
Idled(u, n, p, st)    == Undone(u, n, Busies, Idles, Busy(p, st))
Kept(u, n, p, st, id) == Undone(u, n, Idles, Asks, Odd(p, st, id))

\* A machine is asked for by who has left the last one and is idle; a /join is said by
\* who has left, or is not idle, at the least.
Orderly(u, p, st, id) ==
  \A i \in 1..Len(u) :
    /\ u[i] \in Asks => Freed(u, i - 1, p, id) /\ Idled(u, i - 1, p, st)
    /\ u[i] \in Says => Freed(u, i - 1, p, id) \/ Kept(u, i - 1, p, st, id)

\* What the client has of itself agrees with what it has sent.
Told(u, p, st, id, cur, scr) ==
  /\ cur = NoMachine => Freed(u, Len(u), p, id)
  /\ cur = NoMachine \/ scr = "reported" => Idled(u, Len(u), p, st)
  /\ ~(cur = NoMachine \/ scr = "reported") => Kept(u, Len(u), p, st, id)

\* The server receives the client's next packet, and its record becomes what it says.
LEMMA Received ==
  ASSUME NEW u \in Seq(UpPacket), u # <<>>, NEW p, NEW st, NEW id, NEW p2, NEW st2, NEW id2,
         Seat(p2, id2) => Head(u) \in Asks \/ (Seat(p, id) /\ Head(u) \notin Quits),
         Busy(p2, st2) => Head(u) \in Busies \/ (Busy(p, st) /\ Head(u) \notin Idles),
         Odd(p2, st2, id2) => Head(u) \in Idles \/ (Odd(p, st, id) /\ Head(u) \notin Asks)
  PROVE  /\ Orderly(u, p, st, id) => Orderly(Tail(u), p2, st2, id2)
         /\ \A cur, scr : Told(u, p, st, id, cur, scr) => Told(Tail(u), p2, st2, id2, cur, scr)
<1>1. /\ Len(u) \in Nat \ {0}
      /\ Len(Tail(u)) = Len(u) - 1
      /\ \A k \in 1..(Len(u) - 1) : Tail(u)[k] = u[k + 1]
  BY HeadTailProperties, LenProperties, EmptySeq
<1>2. \A n \in 1..Len(u) : /\ Freed(u, n, p, id) => Freed(Tail(u), n - 1, p2, id2)
                           /\ Idled(u, n, p, st) => Idled(Tail(u), n - 1, p2, st2)
                           /\ Kept(u, n, p, st, id) => Kept(Tail(u), n - 1, p2, st2, id2)
  BY UndoneTail DEF Freed, Idled, Kept
<1>3. ASSUME Orderly(u, p, st, id), NEW i \in 1..Len(Tail(u))
      PROVE  /\ Tail(u)[i] \in Asks => /\ Freed(Tail(u), i - 1, p2, id2)
                                       /\ Idled(Tail(u), i - 1, p2, st2)
             /\ Tail(u)[i] \in Says => \/ Freed(Tail(u), i - 1, p2, id2)
                                       \/ Kept(Tail(u), i - 1, p2, st2, id2)
  <2>1. i \in 1..Len(u) /\ i + 1 \in 1..Len(u) /\ (i + 1) - 1 = i /\ Tail(u)[i] = u[i + 1]
    BY <1>1
  <2>2. /\ u[i + 1] \in Asks => Freed(u, i, p, id) /\ Idled(u, i, p, st)
        /\ u[i + 1] \in Says => Freed(u, i, p, id) \/ Kept(u, i, p, st, id)
    BY <1>3, <2>1 DEF Orderly
  <2> QED
    BY <1>2, <2>1, <2>2
<1>4. Orderly(u, p, st, id) => Orderly(Tail(u), p2, st2, id2)
  BY <1>3 DEF Orderly
<1>5. ASSUME NEW cur, NEW scr, Told(u, p, st, id, cur, scr)
      PROVE  Told(Tail(u), p2, st2, id2, cur, scr)
  <2>1. Len(u) \in 1..Len(u) /\ Len(Tail(u)) = Len(u) - 1
    BY <1>1
  <2> QED
    BY <1>2, <1>5, <2>1 DEF Told
<1> QED
  BY <1>4, <1>5

\* The server's record of a player comes to less than it did.
LEMMA Lessened ==
  ASSUME NEW u, NEW p, NEW st, NEW id, NEW p2, NEW st2, NEW id2,
         Seat(p2, id2) => Seat(p, id), Busy(p2, st2) => Busy(p, st),
         Odd(p2, st2, id2) => Odd(p, st, id)
  PROVE  /\ Orderly(u, p, st, id) => Orderly(u, p2, st2, id2)
         /\ \A cur, scr : Told(u, p, st, id, cur, scr) => Told(u, p2, st2, id2, cur, scr)
<1>1. \A n : /\ Freed(u, n, p, id) => Freed(u, n, p2, id2)
             /\ Idled(u, n, p, st) => Idled(u, n, p2, st2)
             /\ Kept(u, n, p, st, id) => Kept(u, n, p2, st2, id2)
  BY UndoneWeaker DEF Freed, Idled, Kept
<1>2. Orderly(u, p, st, id) => Orderly(u, p2, st2, id2)
  BY <1>1 DEF Orderly
<1>3. \A cur, scr : Told(u, p, st, id, cur, scr) => Told(u, p2, st2, id2, cur, scr)
  BY <1>1 DEF Told
<1> QED
  BY <1>2, <1>3

\* The client sends x: it may ask when it has left and is idle, and say /join when it has
\* left or is not idle.
LEMMA Sent ==
  ASSUME NEW u \in Seq(UpPacket), NEW x \in UpPacket, NEW p, NEW st, NEW id
  PROVE  LET n == Len(u)
             v == Append(u, x)
         IN /\ /\ Orderly(u, p, st, id)
               /\ x \in Asks => Freed(u, n, p, id) /\ Idled(u, n, p, st)
               /\ x \in Says => Freed(u, n, p, id) \/ Kept(u, n, p, st, id)
               => Orderly(v, p, st, id)
            /\ x \notin Asks /\ (x \in Quits \/ Freed(u, n, p, id)) => Freed(v, Len(v), p, id)
            /\ x \notin Busies /\ (x \in Idles \/ Idled(u, n, p, st)) => Idled(v, Len(v), p, st)
            /\ x \notin Idles /\ (x \in Asks \/ Kept(u, n, p, st, id))
                 => Kept(v, Len(v), p, st, id)
<1> DEFINE n == Len(u)
           v == Append(u, x)
<1>1. /\ n \in Nat /\ Len(v) = n + 1 /\ v[n + 1] = x
      /\ \A i \in 1..n : v[i] = u[i]
  BY AppendProperties, LenProperties
<1>2. \A i \in 0..n : /\ Freed(u, i, p, id) => Freed(v, i, p, id)
                      /\ Idled(u, i, p, st) => Idled(v, i, p, st)
                      /\ Kept(u, i, p, st, id) => Kept(v, i, p, st, id)
  BY UndoneAppend DEF Freed, Idled, Kept
<1>3. /\ x \notin Asks /\ (x \in Quits \/ Freed(u, n, p, id)) => Freed(v, n + 1, p, id)
      /\ x \notin Busies /\ (x \in Idles \/ Idled(u, n, p, st)) => Idled(v, n + 1, p, st)
      /\ x \notin Idles /\ (x \in Asks \/ Kept(u, n, p, st, id)) => Kept(v, n + 1, p, st, id)
  BY UndoneAppend DEF Freed, Idled, Kept
<1> HIDE DEF n, v
<1>4. ASSUME Orderly(u, p, st, id),
             x \in Asks => Freed(u, n, p, id) /\ Idled(u, n, p, st),
             x \in Says => Freed(u, n, p, id) \/ Kept(u, n, p, st, id)
      PROVE  Orderly(v, p, st, id)
  <2>1. ASSUME NEW i \in 1..Len(v)
        PROVE  /\ v[i] \in Asks => Freed(u, i - 1, p, id) /\ Idled(u, i - 1, p, st)
               /\ v[i] \in Says => Freed(u, i - 1, p, id) \/ Kept(u, i - 1, p, st, id)
    <3>1. CASE i = n + 1
      BY <1>1, <1>4, <3>1
    <3>2. CASE i \in 1..n
      BY <1>1, <1>4, <3>2 DEF Orderly, n
    <3> QED
      BY <1>1, <2>1, <3>1, <3>2
  <2>2. \A i \in 1..Len(v) : i - 1 \in 0..n
    BY <1>1
  <2> QED
    BY <1>2, <2>1, <2>2 DEF Orderly
<1> QED
  BY <1>1, <1>3, <1>4 DEF n, v

\* One packet is sent, or two.
LEMMA Sends ==
  ASSUME NEW S, NEW u \in Seq(S), NEW x \in S, NEW y \in S
  PROVE  /\ u \o <<x>> = Append(u, x)
         /\ u \o <<x, y>> = Append(Append(u, x), y)
<1>1. u \o <<x>> = Append(u, x)
  BY AppendIsConcat
<1>2. /\ Append(u, x) \in Seq(S) /\ Len(Append(u, x)) = Len(u) + 1 /\ Len(u) \in Nat
      /\ Append(u, x)[Len(u) + 1] = x
      /\ \A i \in 1..Len(u) : Append(u, x)[i] = u[i]
  BY AppendProperties, LenProperties
<1> DEFINE v == Append(Append(u, x), y)
           w == u \o <<x, y>>
<1>3. /\ v \in Seq(S) /\ Len(v) = Len(u) + 2
      /\ v[Len(u) + 1] = x /\ v[Len(u) + 2] = y
      /\ \A i \in 1..Len(u) : v[i] = u[i]
  <2> HIDE DEF v
  <2>1. /\ v \in Seq(S) /\ Len(v) = (Len(u) + 1) + 1
        /\ v[(Len(u) + 1) + 1] = y
        /\ \A i \in 1..(Len(u) + 1) : v[i] = Append(u, x)[i]
    BY <1>2, AppendProperties DEF v
  <2> QED
    BY <1>2, <2>1
<1>4. <<x, y>> \in Seq(S) /\ Len(<<x, y>>) = 2 /\ <<x, y>>[1] = x /\ <<x, y>>[2] = y
  OBVIOUS
<1>5. /\ w \in Seq(S) /\ Len(w) = Len(u) + 2
      /\ w[Len(u) + 1] = x /\ w[Len(u) + 2] = y
      /\ \A i \in 1..Len(u) : w[i] = u[i]
  BY <1>2, <1>4, ConcatProperties
<1> HIDE DEF v, w
<1>6. \A i \in 1..Len(v) : v[i] = w[i]
  <2>1. \A i \in 1..Len(v) : i \in 1..Len(u) \/ i = Len(u) + 1 \/ i = Len(u) + 2
    BY <1>2, <1>3
  <2> QED
    BY <1>3, <1>5, <2>1
<1>7. v = w
  BY <1>3, <1>5, <1>6, SeqEqual
<1> QED
  BY <1>1, <1>7 DEF v, w

-----------------------------------------------------------------------------
(* What is left of what a client has asked for.                            *)

\* No request and no leave is on its way; the last of those is a request for m.
Silent(u) == \A j \in 1..Len(u) : u[j] \notin Asks \cup Quits
Asking(u, m) ==
  \E i \in 1..Len(u) : u[i] = Request(m) /\ \A j \in (i + 1)..Len(u) : u[j] \notin Asks \cup Quits

\* A refusal or a boot is on its way to c.
Posted(d, c) == \E i \in 1..Len(d) : d[i] = Left(c)

\* Packets about c being at a machine.
Own(p, c) == p.kind \in {"ArcadeEngage", "ArcadeLeave"} /\ p.player = c

\* When the last word on its way to c is that it is at no machine, so it is.
Settled(d, t, c, id) ==
  t # "ArcadeEngage" =>
    \A i \in 1..Len(d) :
      d[i] = Left(c) /\ (\A j \in (i + 1)..Len(d) : ~Own(d[j], c)) => id = NoMachine

\* The machine cur the client c thinks it is at is the server's, unless a packet that
\* will change that is under way.
Held(c, d, u, cur, p, w, id) ==
  cur # NoMachine =>
    \/ Posted(d, c)
    \/ Asking(u, cur)
    \/ Silent(u) /\ IF p = "request" THEN w = cur ELSE id = cur

\* The server receives a packet.
LEMMA AskingTail ==
  ASSUME NEW u \in Seq(UpPacket), u # <<>>, NEW m
  PROVE  /\ Asking(u, m) => Asking(Tail(u), m) \/ (Head(u) = Request(m) /\ Silent(Tail(u)))
         /\ Silent(u) => Silent(Tail(u)) /\ Head(u) \notin Asks \cup Quits
<1>1. /\ Len(u) \in Nat \ {0} /\ Head(u) = u[1]
      /\ Len(Tail(u)) = Len(u) - 1
      /\ \A k \in 1..(Len(u) - 1) : Tail(u)[k] = u[k + 1]
  BY HeadTailProperties, LenProperties, EmptySeq
<1>2. ASSUME Asking(u, m)
      PROVE  Asking(Tail(u), m) \/ (Head(u) = Request(m) /\ Silent(Tail(u)))
  <2>1. PICK i \in 1..Len(u) :
          u[i] = Request(m) /\ \A j \in (i + 1)..Len(u) : u[j] \notin Asks \cup Quits
    BY <1>2 DEF Asking
  <2>2. \A j \in i..Len(Tail(u)) : Tail(u)[j] \notin Asks \cup Quits
    BY <1>1, <2>1
  <2>3. CASE i = 1
    BY <1>1, <2>1, <2>2, <2>3 DEF Silent
  <2>4. CASE i # 1
    <3>1. i - 1 \in 1..Len(Tail(u)) /\ Tail(u)[i - 1] = Request(m) /\ (i - 1) + 1 = i
      BY <1>1, <2>1, <2>4
    <3> QED
      BY <2>2, <3>1 DEF Asking
  <2> QED
    BY <2>3, <2>4
<1>3. Silent(u) => Silent(Tail(u)) /\ Head(u) \notin Asks \cup Quits
  BY <1>1 DEF Silent
<1> QED
  BY <1>2, <1>3

\* The client sends a packet.
LEMMA AskingAppend ==
  ASSUME NEW u \in Seq(UpPacket), NEW x \in UpPacket, NEW m
  PROVE  /\ x \notin Asks \cup Quits /\ Asking(u, m) => Asking(Append(u, x), m)
         /\ x \notin Asks \cup Quits /\ Silent(u) => Silent(Append(u, x))
         /\ x = Request(m) => Asking(Append(u, x), m)
<1> DEFINE v == Append(u, x)
<1>1. /\ Len(u) \in Nat /\ Len(v) = Len(u) + 1 /\ v[Len(u) + 1] = x
      /\ \A i \in 1..Len(u) : v[i] = u[i]
  BY AppendProperties, LenProperties
<1> HIDE DEF v
<1>2. x \notin Asks \cup Quits /\ Silent(u) => Silent(v)
  BY <1>1 DEF Silent
<1>3. x = Request(m) => Asking(v, m)
  <2> SUFFICES ASSUME x = Request(m) PROVE Asking(v, m)
    OBVIOUS
  <2>1. Len(v) \in 1..Len(v) /\ v[Len(v)] = Request(m) /\ (Len(v) + 1)..Len(v) = {}
    BY <1>1
  <2> QED
    BY <2>1 DEF Asking
<1>4. ASSUME x \notin Asks \cup Quits, Asking(u, m) PROVE Asking(v, m)
  <2>1. PICK i \in 1..Len(u) :
          u[i] = Request(m) /\ \A j \in (i + 1)..Len(u) : u[j] \notin Asks \cup Quits
    BY <1>4 DEF Asking
  <2>2. i \in 1..Len(v) /\ v[i] = Request(m)
    BY <1>1, <2>1
  <2>3. \A j \in (i + 1)..Len(v) : v[j] \notin Asks \cup Quits
    BY <1>1, <1>4, <2>1
  <2> QED
    BY <2>2, <2>3 DEF Asking
<1> QED
  BY <1>2, <1>3, <1>4 DEF v

\* The client receives a packet that is not about itself leaving, or any packet.
LEMMA PostedTail ==
  ASSUME NEW d \in Seq(DownPacket), d # <<>>, NEW c
  PROVE  /\ Posted(d, c) => Posted(Tail(d), c) \/ Head(d) = Left(c)
         /\ \A t, id : Settled(d, t, c, id) => Settled(Tail(d), t, c, id)
<1>1. /\ Len(d) \in Nat \ {0} /\ Head(d) = d[1]
      /\ Len(Tail(d)) = Len(d) - 1
      /\ \A k \in 1..(Len(d) - 1) : Tail(d)[k] = d[k + 1]
  BY HeadTailProperties, LenProperties, EmptySeq
<1>2. ASSUME Posted(d, c), Head(d) # Left(c) PROVE Posted(Tail(d), c)
  <2>1. PICK i \in 1..Len(d) : d[i] = Left(c)
    BY <1>2 DEF Posted
  <2>2. i - 1 \in 1..Len(Tail(d)) /\ Tail(d)[i - 1] = Left(c)
    BY <1>1, <1>2, <2>1
  <2> QED
    BY <2>2 DEF Posted
<1>3. ASSUME NEW t, NEW id, Settled(d, t, c, id) PROVE Settled(Tail(d), t, c, id)
  <2> SUFFICES ASSUME t # "ArcadeEngage",
                      NEW i \in 1..Len(Tail(d)), Tail(d)[i] = Left(c),
                      \A j \in (i + 1)..Len(Tail(d)) : ~Own(Tail(d)[j], c)
               PROVE  id = NoMachine
    BY DEF Settled
  <2>1. i + 1 \in 1..Len(d) /\ d[i + 1] = Left(c)
    BY <1>1
  <2>2. ASSUME NEW j \in ((i + 1) + 1)..Len(d) PROVE ~Own(d[j], c)
    <3>1. j - 1 \in (i + 1)..Len(Tail(d)) /\ Tail(d)[j - 1] = d[j]
      BY <1>1
    <3> QED
      BY <3>1
  <2> QED
    BY <1>3, <2>1, <2>2 DEF Settled
<1> QED
  BY <1>2, <1>3

\* Packets are sent to the client.
LEMMA PostedConcat ==
  ASSUME NEW d \in Seq(DownPacket), NEW e \in Seq(DownPacket), NEW c
  PROVE  /\ Posted(d, c) \/ Posted(e, c) => Posted(d \o e, c)
         /\ \A t, t2, id :
              /\ Settled(d, t, c, id) /\ (t2 # "ArcadeEngage" => t # "ArcadeEngage")
              /\ \A i \in 1..Len(e) : ~Own(e[i], c)
              => Settled(d \o e, t2, c, id)
<1> DEFINE f == d \o e
<1>1. /\ f \in Seq(DownPacket)
      /\ Len(d) \in Nat /\ Len(e) \in Nat /\ Len(f) = Len(d) + Len(e)
      /\ \A i \in 1..Len(d) : f[i] = d[i]
      /\ \A i \in 1..Len(e) : f[Len(d) + i] = e[i]
  BY ConcatProperties, LenProperties
<1> HIDE DEF f
<1>2. Posted(d, c) => Posted(f, c)
  BY <1>1 DEF Posted
<1>3. ASSUME Posted(e, c) PROVE Posted(f, c)
  <2>1. PICK i \in 1..Len(e) : e[i] = Left(c)
    BY <1>3 DEF Posted
  <2>2. Len(d) + i \in 1..Len(f) /\ f[Len(d) + i] = Left(c)
    BY <1>1, <2>1
  <2> QED
    BY <2>2 DEF Posted
<1>4. ASSUME NEW t, NEW t2, NEW id, Settled(d, t, c, id),
             t2 # "ArcadeEngage" => t # "ArcadeEngage",
             \A i \in 1..Len(e) : ~Own(e[i], c)
      PROVE  Settled(f, t2, c, id)
  <2> SUFFICES ASSUME t2 # "ArcadeEngage", NEW i \in 1..Len(f), f[i] = Left(c),
                      \A j \in (i + 1)..Len(f) : ~Own(f[j], c)
               PROVE  id = NoMachine
    BY DEF Settled
  <2>1. Own(Left(c), c)
    BY DEF Own, Left
  <2>2. i \in 1..Len(d)
    <3>1. CASE i > Len(d)
      <4>1. PICK k \in 1..Len(e) : i = Len(d) + k
        <5>1. i - Len(d) \in 1..Len(e) /\ i = Len(d) + (i - Len(d))
          BY <1>1, <3>1
        <5> QED
          BY <5>1
      <4>2. f[i] = e[k]
        BY <1>1, <4>1
      <4> QED
        BY <1>4, <2>1, <4>2
    <3> QED
      BY <1>1, <3>1
  <2>3. d[i] = Left(c)
    BY <1>1, <2>2
  <2>4. \A j \in (i + 1)..Len(d) : ~Own(d[j], c)
    BY <1>1, <2>2
  <2> QED
    BY <1>4, <2>2, <2>3, <2>4 DEF Settled
<1> QED
  BY <1>2, <1>3, <1>4 DEF f

\* The last word is that c is at a machine.
LEMMA SettledEngaged ==
  ASSUME NEW d \in Seq(DownPacket), NEW c, NEW m, Engaged(c, m) \in DownPacket, NEW t, NEW id
  PROVE  Settled(d \o <<Engaged(c, m)>>, t, c, id)
<1> DEFINE f == d \o <<Engaged(c, m)>>
<1>1. f = Append(d, Engaged(c, m))
  BY AppendIsConcat
<1>2. Len(f) = Len(d) + 1 /\ Len(d) \in Nat /\ f[Len(f)] = Engaged(c, m)
  BY <1>1, AppendProperties, LenProperties
<1>3. Own(Engaged(c, m), c) /\ Engaged(c, m) # Left(c)
  BY DEF Own, Engaged, Left
<1> HIDE DEF f
<1>4. \A i \in 1..Len(f) : i = Len(f) \/ Len(f) \in (i + 1)..Len(f)
  BY <1>2
<1>5. Settled(f, t, c, id)
  BY <1>2, <1>3, <1>4 DEF Settled
<1> QED
  BY <1>5 DEF f

-----------------------------------------------------------------------------
(* Seats: who has one, and what LobbyServer's sections make of them.       *)

\* The place in s of what ends up at place i once the first c is erased.
Before(s, c, i) == IF \E j \in 1..i : s[j] = c THEN i + 1 ELSE i

\* Erase yields a sequence; nobody new appears in it, and different places of it come
\* from different places of s (vector::erase in _leaveArcade and in the reaping).
LEMMA EraseType ==
  ASSUME NEW S, NEW s \in Seq(S), NEW c
  PROVE  /\ Server!Erase(s, c) \in Seq(S)
         /\ c \in Server!Members(s) =>
              /\ Len(Server!Erase(s, c)) = Len(s) - 1
              /\ \A i \in 1..Len(Server!Erase(s, c)) : /\ Before(s, c, i) \in 1..Len(s)
                                                /\ Server!Erase(s, c)[i] = s[Before(s, c, i)]
<1>1. CASE c \notin Server!Members(s)
  BY <1>1 DEF Server!Erase
<1>2. CASE c \in Server!Members(s)
  <2> DEFINE n == Len(s) - 1
             e == [i \in 1..n |-> IF \E j \in 1..i : s[j] = c THEN s[i + 1] ELSE s[i]]
  <2>1. s \in [1..Len(s) -> S] /\ Len(s) \in Nat
    BY LenProperties
  <2>2. n \in Nat /\ n + 1 = Len(s)
    BY <1>2, <2>1 DEF Server!Members
  <2>3. \A i \in 1..n : e[i] = s[Before(s, c, i)] /\ Before(s, c, i) \in 1..Len(s)
    BY <2>2 DEF Before
  <2>4. e \in [1..n -> S]
    BY <2>1, <2>2
  <2>5. e \in Seq(S) /\ Len(e) = n
    BY <2>2, <2>4, SeqDef
  <2>6. Server!Erase(s, c) = e
    BY <1>2 DEF Server!Erase
  <2> QED
    BY <2>3, <2>5, <2>6
<1> QED
  BY <1>1, <1>2

\* Erase keeps apart what was apart.
LEMMA BeforeInjective ==
  ASSUME NEW s, NEW c, NEW i \in Nat, NEW j \in Nat, i < j
  PROVE  Before(s, c, i) < Before(s, c, j)
<1>1. (\E k \in 1..i : s[k] = c) => (\E k \in 1..j : s[k] = c)
  OBVIOUS
<1> QED
  BY <1>1 DEF Before

Seats == [Machine -> Seq(Conn)]

\* c has a seat among ms.
Sits(c, ms) == \E m \in Machine : \E i \in 1..Len(ms[m]) : ms[m][i] = c

\* c has no seat among ms but one at machine id.
Fits(c, ms, id) ==
  \A m \in Machine : \A i, j \in 1..Len(ms[m]) :
    ms[m][i] = c => id = m /\ (ms[m][j] = c => j = i)

\* A connection without a seat fits anywhere; one that fits nowhere has none.
LEMMA FitsNowhere ==
  ASSUME NEW c, NEW ms, NEW id
  PROVE  /\ ~Sits(c, ms) => Fits(c, ms, id)
         /\ Fits(c, ms, NoMachine) => ~Sits(c, ms)
<1>1. NoMachine \notin Machine
  BY PlayersAssumption
<1> QED
  BY <1>1 DEF Sits, Fits

\* Erasing c from machine m unseats nobody but c, and c for good.
LEMMA EraseFits ==
  ASSUME NEW ms \in Seats, NEW m \in Machine, NEW c \in Conn, NEW d \in Conn, NEW id,
         Fits(d, ms, id)
  PROVE  LET after == [ms EXCEPT ![m] = Server!Erase(@, c)]
         IN /\ Fits(d, after, id)
            /\ Sits(d, after) => Sits(d, ms)
            /\ d = c /\ id = m => ~Sits(d, after)
<1> DEFINE s == ms[m]
           after == [ms EXCEPT ![m] = Server!Erase(@, c)]
<1>1. s \in Seq(Conn) /\ Len(s) \in Nat
  BY LenProperties DEF Seats
<1>2. after[m] = Server!Erase(s, c) /\ \A n \in Machine \ {m} : after[n] = ms[n]
  BY DEF Seats
<1>3. CASE c \notin Server!Members(s)
  <2>1. after = ms
    BY <1>2, <1>3 DEF Server!Erase, Seats
  <2>2. ~(d = c /\ id = m /\ Sits(d, ms))
    BY <1>3 DEF Sits, Fits, Server!Members
  <2> QED
    BY <2>1, <2>2
<1>4. CASE c \in Server!Members(s)
  <2>1. /\ Len(Server!Erase(s, c)) = Len(s) - 1
        /\ \A i \in 1..Len(Server!Erase(s, c)) : /\ Before(s, c, i) \in 1..Len(s)
                                          /\ Server!Erase(s, c)[i] = s[Before(s, c, i)]
    BY <1>1, <1>4, EraseType
  <2>2. \A i \in 1..Len(after[m]) : /\ Before(s, c, i) \in 1..Len(s)
                                    /\ after[m][i] = s[Before(s, c, i)]
    BY <1>2, <2>1
  <2>3. Len(after[m]) \in Nat
    BY <1>1, <1>2, <1>4, <2>1 DEF Server!Members
  <2>4. Sits(d, after) => Sits(d, ms)
    BY <1>2, <2>2 DEF Sits
  <2>5. ASSUME NEW i \in 1..Len(after[m]), NEW j \in 1..Len(after[m]),
               after[m][i] = d
        PROVE  id = m /\ (after[m][j] = d => j = i)
    <3>1. id = m
      BY <2>2, <2>5 DEF Fits
    <3>2. after[m][j] = d => Before(s, c, i) = Before(s, c, j)
      BY <2>2, <2>5 DEF Fits
    <3>3. i \in Nat /\ j \in Nat
      BY <2>3
    <3>4. Before(s, c, i) = Before(s, c, j) => i = j
      BY <3>3, BeforeInjective, <2>2
    <3> QED
      BY <3>1, <3>2, <3>4
  <2>6. Fits(d, after, id)
    BY <1>2, <2>5 DEF Fits
  <2>7. ASSUME d = c, id = m PROVE ~Sits(d, after)
    <3>1. \A n \in Machine \ {m} : \A i \in 1..Len(after[n]) : after[n][i] # d
      BY <1>2, <2>7 DEF Fits
    <3>2. ASSUME NEW i \in 1..Len(after[m]), after[m][i] = d PROVE FALSE
      <4>1. PICK k \in 1..Len(s) : s[k] = c
        BY <1>4 DEF Server!Members
      <4>2. Before(s, c, i) = k
        BY <2>2, <2>7, <3>2, <4>1 DEF Fits
      <4>3. \A j \in 1..i : s[j] = c => j = k
        BY <1>1, <2>1, <1>2, <2>3, <2>7, <4>1 DEF Fits
      <4> QED
        BY <4>1, <4>2, <4>3, <2>3 DEF Before
    <3> QED
      BY <3>1, <3>2 DEF Sits
  <2> QED
    BY <2>4, <2>6, <2>7
<1> QED
  BY <1>3, <1>4

\* What _leaveArcade does to the seats: nobody is moved, the leaver of its own machine
\* is out, and so is everybody it boots.
LEMMA SeatsAfterFits ==
  ASSUME machines \in Seats, NEW c \in Conn, NEW m \in Machine, NEW d \in Conn, NEW id,
         Fits(d, machines, id)
  PROVE  /\ Fits(d, Server!SeatsAfter(c, m), id)
         /\ Sits(d, Server!SeatsAfter(c, m)) => Sits(d, machines)
         /\ d = c /\ id = m => ~Sits(d, Server!SeatsAfter(c, m))
         /\ d \in Server!BootedBy(c, m) => ~Sits(d, Server!SeatsAfter(c, m))
<1>1. machines \in Seats
  OBVIOUS
<1>2. CASE Server!EndsGame(c, m)
  <2> DEFINE after == [machines EXCEPT ![m] = <<>>]
  <2>1. Server!SeatsAfter(c, m) = after
    BY <1>2 DEF Server!SeatsAfter
  <2>2. after[m] = <<>> /\ Len(after[m]) = 0 /\ \A n \in Machine \ {m} : after[n] = machines[n]
    BY <1>1, EmptySeq DEF Seats
  <2>3. Fits(d, after, id) /\ (Sits(d, after) => Sits(d, machines))
    BY <2>2 DEF Fits, Sits
  <2>4. id = m => ~Sits(d, after)
    BY <2>2 DEF Fits, Sits
  <2>5. d \in Server!BootedBy(c, m) => id = m
    BY <1>2 DEF Server!BootedBy, Server!Members, Fits
  <2> QED
    BY <2>1, <2>3, <2>4, <2>5
<1>3. CASE ~Server!EndsGame(c, m)
  <2>1. Server!SeatsAfter(c, m) = [machines EXCEPT ![m] = Server!Erase(@, c)]
    BY <1>3 DEF Server!SeatsAfter
  <2>2. Server!BootedBy(c, m) = {}
    BY <1>3 DEF Server!BootedBy
  <2> DEFINE after == [machines EXCEPT ![m] = Server!Erase(@, c)]
  <2>3. /\ Fits(d, after, id)
        /\ Sits(d, after) => Sits(d, machines)
        /\ d = c /\ id = m => ~Sits(d, after)
    BY <1>1, EraseFits
  <2> QED
    BY <2>1, <2>2, <2>3
<1> QED
  BY <1>2, <1>3

\* What joining does to the seats: nobody else is moved, and a newcomer that had no
\* seat has at most the one it takes.
LEMMA SeatsWithFits ==
  ASSUME NEW ms \in Seats, NEW m \in Machine, NEW c \in Conn, NEW d \in Conn, NEW id,
         NEW st, NEW p1, NEW p2,
         IF d = c THEN id = m /\ ~Sits(c, ms) ELSE Fits(d, ms, id)
  PROVE  LET with == [ms EXCEPT ![m] = Server!SeatsWith(c, @, st, p1, p2)]
         IN /\ Fits(d, with, id)
            /\ d # c /\ Sits(d, with) => Sits(d, ms)
<1> DEFINE s == ms[m]
           with == [ms EXCEPT ![m] = Server!SeatsWith(c, @, st, p1, p2)]
<1>1. s \in Seq(Conn) /\ Len(s) \in Nat
  BY LenProperties DEF Seats
<1>2. with[m] = Server!SeatsWith(c, s, st, p1, p2) /\ \A n \in Machine \ {m} : with[n] = ms[n]
  BY DEF Seats
<1>3. with[m] \in {<<>>, s, Append(s, c)}
  BY <1>2 DEF Server!SeatsWith, Server!StartRoom
<1>4. Fits(d, ms, id)
  BY FitsNowhere
<1>5. CASE with[m] = <<>>
  BY <1>2, <1>4, <1>5 DEF Fits, Sits
<1>6. CASE with[m] = s
  BY <1>2, <1>4, <1>6 DEF Fits, Sits
<1>7. CASE with[m] = Append(s, c)
  <2>1. /\ Len(with[m]) = Len(s) + 1
        /\ \A i \in 1..Len(s) : with[m][i] = s[i]
        /\ with[m][Len(s) + 1] = c
    BY <1>1, <1>7
  <2>2. CASE d = c
    BY <1>1, <1>2, <2>1, <2>2 DEF Fits, Sits
  <2>3. CASE d # c
    BY <1>1, <1>2, <1>4, <2>1, <2>3 DEF Fits, Sits
  <2> QED
    BY <2>2, <2>3
<1> QED
  BY <1>3, <1>5, <1>6, <1>7

-----------------------------------------------------------------------------
(* Types.                                                                  *)

\* The places of d in s are counted (so many times is d sent a packet).
LEMMA CountType ==
  ASSUME NEW s \in Seq(Conn), NEW d
  PROVE  LET at == {i \in 1..Len(s) : s[i] = d}
         IN Cardinality(at) \in Nat /\ (Cardinality(at) = 0 <=> at = {})
<1> DEFINE at == {i \in 1..Len(s) : s[i] = d}
<1>1. Len(s) \in Nat
  BY LenProperties
<1>2. IsFiniteSet(1..Len(s))
  BY <1>1, FS_Interval
<1>3. at \subseteq 1..Len(s)
  OBVIOUS
<1>4. IsFiniteSet(at)
  BY <1>2, <1>3, FS_Subset
<1> HIDE DEF at
<1>5. Cardinality(at) \in Nat /\ (Cardinality(at) = 0 <=> at = {})
  BY <1>4, FS_CardinalityType, FS_EmptySet
<1> QED
  BY <1>5 DEF at

\* The machine _leaveArcade looks at is a machine, empty optional or not.
LEMMA SeatSourceType ==
  ASSUME machineId \in [Conn -> Machine \cup {NoMachine}], NEW c \in Conn
  PROVE  Server!SeatSource(c) \subseteq Machine
BY DEF Server!SeatSource

\* What SeatsAfter and BootedBy yield is of the right type.
LEMMA SeatOpsType ==
  ASSUME machines \in Seats, NEW c \in Conn, NEW m \in Machine
  PROVE  /\ Server!SeatsAfter(c, m) \in Seats
         /\ Server!BootedBy(c, m) \subseteq Conn
<1>1. machines \in [Machine -> Seq(Conn)]
  BY DEF Seats
<1>2. Server!Erase(machines[m], c) \in Seq(Conn)
  BY <1>1, EraseType
<1>3. Server!Members(machines[m]) \subseteq Conn
  BY <1>1, ElementOfSeq DEF Server!Members
<1>4. <<>> \in Seq(Conn)
  BY EmptySeq
<1> QED
  BY <1>1, <1>2, <1>3, <1>4 DEF Server!SeatsAfter, Server!BootedBy, Seats

\* The seats of a machine that has been joined are connections.
LEMMA SeatsWithType ==
  ASSUME NEW c \in Conn, NEW s \in Seq(Conn), NEW st, NEW p1, NEW p2
  PROVE  Server!SeatsWith(c, s, st, p1, p2) \in Seq(Conn)
<1>1. Append(s, c) \in Seq(Conn) /\ <<>> \in Seq(Conn)
  BY EmptySeq
<1> QED
  BY <1>1 DEF Server!SeatsWith, Server!StartRoom

\* Whoever is booted is told, and nobody else is told to leave for itself; what a boot
\* sends is packets.
LEMMA BootsType ==
  ASSUME machines \in Seats, NEW c \in Conn, NEW m \in Machine, NEW d \in Conn
  PROVE  /\ Boots(c, m)[d] \in Seq(DownPacket)
         /\ d # c /\ d \in Server!BootedBy(c, m) => Posted(Boots(c, m)[d], d)
         /\ d = c \/ d \notin Server!BootedBy(c, m)
              => \A i \in 1..Len(Boots(c, m)[d]) : ~Own(Boots(c, m)[d][i], d)
<1> DEFINE s == machines[m]
           at == {i \in 1..Len(s) : s[i] = d}
           n == Cardinality(at)
           all == [i \in 1..Len(s) |-> Left(s[i])]
           own == [k \in 1..n |-> Left(d)]
<1>1. s \in Seq(Conn) /\ Len(s) \in Nat /\ \A i \in 1..Len(s) : s[i] \in Conn
  BY LenProperties, ElementOfSeq DEF Seats
<1>2. n \in Nat /\ (n = 0 <=> at = {})
  BY <1>1, CountType
<1>3. Boots(c, m)[d] = IF d = c \/ ~Server!EndsGame(c, m) THEN <<>>
                       ELSE IF d \in Watched THEN all ELSE own
  BY DEF Boots
<1>4. d \in Server!BootedBy(c, m) <=> Server!EndsGame(c, m) /\ at # {}
  BY DEF Server!BootedBy, Server!Members
<1>5. \A x : Own(Left(x), d) <=> x = d
  BY DEF Own, Left
<1>6. all \in Seq(DownPacket) /\ Len(all) = Len(s) /\ \A i \in 1..Len(s) : all[i] = Left(s[i])
  <2>1. all \in [1..Len(s) -> DownPacket]
    BY <1>1, PacketsTyped
  <2> QED
    BY <1>1, <2>1, SeqDef
<1>7. own \in Seq(DownPacket) /\ Len(own) = n /\ \A k \in 1..n : own[k] = Left(d)
  <2>1. own \in [1..n -> DownPacket]
    BY PacketsTyped
  <2> HIDE DEF n
  <2> QED
    BY <1>2, <2>1, SeqDef
<1>8. <<>> \in Seq(DownPacket) /\ Len(<<>>) = 0
  BY EmptySeq
<1>9. at # {} => Posted(all, d) /\ Posted(own, d)
  <2> SUFFICES ASSUME at # {} PROVE Posted(all, d) /\ Posted(own, d)
    OBVIOUS
  <2>1. PICK i \in 1..Len(s) : s[i] = d
    OBVIOUS
  <2>2. Posted(all, d)
    BY <1>6, <2>1 DEF Posted
  <2> HIDE DEF n, at, own, all
  <2>3. 1 \in 1..Len(own) /\ own[1] = Left(d)
    BY <1>2, <1>7
  <2> QED
    BY <2>2, <2>3 DEF Posted
<1> HIDE DEF s, at, n, all, own
<1>10. Boots(c, m)[d] \in Seq(DownPacket)
  BY <1>3, <1>6, <1>7, <1>8
<1>11. d # c /\ d \in Server!BootedBy(c, m) => Posted(Boots(c, m)[d], d)
  BY <1>3, <1>4, <1>9
<1>12. CASE d = c \/ ~Server!EndsGame(c, m)
  BY <1>3, <1>8, <1>10, <1>11, <1>12
<1>13. CASE d # c /\ Server!EndsGame(c, m) /\ d \notin Server!BootedBy(c, m)
  <2>1. at = {}
    BY <1>4, <1>13
  <2>2. n = 0 /\ \A i \in 1..Len(s) : s[i] # d
    BY <1>2, <2>1 DEF at
  <2>3. \A i \in 1..Len(all) : ~Own(all[i], d)
    BY <1>5, <1>6, <2>2
  <2>4. \A i \in 1..Len(own) : ~Own(own[i], d)
    BY <1>7, <2>2
  <2> QED
    BY <1>3, <1>10, <1>11, <1>13, <2>3, <2>4
<1>14. CASE d # c /\ d \in Server!BootedBy(c, m)
  BY <1>10, <1>11, <1>14
<1> QED
  BY <1>12, <1>13, <1>14

\* _onPlayerJoinArcade's section, one way it may go: c leaves from, the seats are then
\* seats, and the newcomer is answered.
Joins(c, from, seats, answer) ==
  LET leaves == status[c] # "idle"
      out == {c} \cup (IF leaves THEN Server!BootedBy(c, from) ELSE {})
      boots == IF leaves THEN Boots(c, from) ELSE [d \in Conn |-> <<>>]
      m == want[c]
      s == seats[m]
      refused == Server!Refused(c, s)
      clash == Playing(s) = {} /\ Clash(s, c)
  IN /\ pc[c] = "request" \/ (pc[c] = "command" /\ status[c] = "idle")
     /\ seats = IF leaves THEN Server!SeatsAfter(c, from) ELSE machines
     /\ machines' = IF refused THEN seats
                    ELSE [seats EXCEPT ![m] = Server!SeatsWith(c, @, status',
                            IF s = <<>> THEN PrefOf[c] ELSE PrefOf[s[1]], PrefOf[c])]
     /\ status' = IF refused THEN Server!Reset(status, out, "idle")
                  ELSE [Server!Reset(status, out, "idle") EXCEPT ![c] = "waiting"]
     /\ machineId' = IF refused THEN Server!Reset(machineId, out, NoMachine)
                     ELSE [Server!Reset(machineId, out, NoMachine) EXCEPT ![c] = m]
     /\ pc' = [pc EXCEPT ![c] = "ready"]
     /\ want' = [want EXCEPT ![c] = NoMachine]
     /\ rogue' = IF status[c] = "idle" /\ Server!Seated(c) THEN rogue \cup {c} ELSE rogue
     /\ answer \in Answers(c, s)
     /\ down' = [d \in Conn |-> down[d] \o boots[d] \o
                                IF answer.to = d THEN <<answer.packet>> ELSE <<>>]
     /\ tell' = [tell EXCEPT ![c] = IF refused \/ clash THEN Nothing ELSE Engaged(c, m)]
     /\ excused' = excused \cup (IF pc[c] = "command" /\ ~refused THEN {c} ELSE {}) \cup
                   (IF ~refused /\ clash THEN {c, s[1]} ELSE {})
     /\ deserted' = IF leaves /\ Deserts(c, from) THEN deserted \cup {from} ELSE deserted
     /\ UNCHANGED <<up, me, current, choice, screen, snapshot, view, counter, sits>>

\* The section goes one of these ways.
LEMMA JoinSteps ==
  ASSUME TypeOK, NEW c \in Conn, JoinArcade(c)
  PROVE  /\ want[c] \in Machine
         /\ \E from \in Machine, seats \in Seats : \E answer : Joins(c, from, seats, answer)
<1> DEFINE leaves == status[c] # "idle"
           out(from) == {c} \cup (IF leaves THEN Server!BootedBy(c, from) ELSE {})
           after(from) == IF leaves THEN Server!SeatsAfter(c, from) ELSE machines
           m == want[c]
<1>0. /\ pc[c] = "request" \/ (pc[c] = "command" /\ status[c] = "idle")
      /\ pc' = [pc EXCEPT ![c] = "ready"]
      /\ want' = [want EXCEPT ![c] = NoMachine]
      /\ rogue' = IF status[c] = "idle" /\ Server!Seated(c) THEN rogue \cup {c} ELSE rogue
  BY DEF JoinArcade, Server!JoinArcade
<1>1. m \in Machine
  BY <1>0 DEF TypeOK
<1>2. PICK from \in Server!SeatSource(c) :
        /\ Server!Reseats(c, from)
        /\ LET boots == IF leaves THEN Boots(c, from) ELSE [d \in Conn |-> <<>>]
               s == after(from)[m]
               refused == Server!Refused(c, s)
           IN /\ machines' = IF refused THEN after(from)
                             ELSE [after(from) EXCEPT ![m] =
                                     Server!SeatsWith(c, s, status',
                                       IF s = <<>> THEN PrefOf[c] ELSE PrefOf[s[1]], PrefOf[c])]
              /\ \E answer \in Answers(c, s) :
                   down' = [d \in Conn |-> down[d] \o boots[d] \o
                                           IF answer.to = d THEN <<answer.packet>> ELSE <<>>]
              /\ tell' = [tell EXCEPT ![c] = IF refused \/ (Playing(s) = {} /\ Clash(s, c))
                                             THEN Nothing ELSE Engaged(c, m)]
              /\ excused' = excused \cup
                   (IF pc[c] = "command" /\ ~refused THEN {c} ELSE {}) \cup
                   (IF ~refused /\ Playing(s) = {} /\ Clash(s, c) THEN {c, s[1]} ELSE {})
              /\ deserted' = IF leaves /\ Deserts(c, from) THEN deserted \cup {from}
                             ELSE deserted
  BY DEF JoinArcade
<1>3. UNCHANGED <<up, me, current, choice, screen, snapshot, view, counter, sits>>
  BY DEF JoinArcade
<1>4. from \in Machine
  BY SeatSourceType DEF TypeOK
<1>5. machines \in Seats
  BY DEF TypeOK, Seats
<1>6. after(from) \in Seats
  BY <1>4, <1>5, SeatOpsType
<1>7. \E p1, p2 \in Server!Pref :
        IF Server!Refused(c, after(from)[m])
        THEN /\ status' = Server!Reset(status, out(from), "idle")
             /\ machineId' = Server!Reset(machineId, out(from), NoMachine)
        ELSE /\ machineId' = [Server!Reset(machineId, out(from), NoMachine) EXCEPT ![c] = m]
             /\ status' = [Server!Reset(status, out(from), "idle") EXCEPT ![c] = "waiting"]
  BY <1>2 DEF Server!Reseats
<1>8. /\ status' = IF Server!Refused(c, after(from)[m])
                   THEN Server!Reset(status, out(from), "idle")
                   ELSE [Server!Reset(status, out(from), "idle") EXCEPT ![c] = "waiting"]
      /\ machineId' = IF Server!Refused(c, after(from)[m])
                      THEN Server!Reset(machineId, out(from), NoMachine)
                      ELSE [Server!Reset(machineId, out(from), NoMachine) EXCEPT ![c] = m]
  BY <1>7
<1>9. PICK answer \in Answers(c, after(from)[m]) :
        down' = [d \in Conn |-> down[d] \o
                   (IF leaves THEN Boots(c, from) ELSE [e \in Conn |-> <<>>])[d] \o
                   IF answer.to = d THEN <<answer.packet>> ELSE <<>>]
  BY <1>2
<1>10. Joins(c, from, after(from), answer)
  BY <1>0, <1>2, <1>3, <1>8, <1>9 DEF Joins
<1> QED
  BY <1>1, <1>4, <1>6, <1>10

\* The answer is a packet, and if it is one of the newcomer leaving, the newcomer is refused
\* or its preference clashes.
LEMMA AnswerType ==
  ASSUME NEW c \in Conn, NEW s \in Seq(Conn), NEW answer \in Answers(c, s)
  PROVE  /\ answer.to \in Conn => answer.packet \in DownPacket
         /\ answer.to \in Conn /\ answer.packet.kind \in {"ArcadeEngage", "ArcadeLeave"}
              => Server!Refused(c, s) \/ (Playing(s) = {} /\ Clash(s, c))
         /\ Server!Refused(c, s) => answer.to = c /\ answer.packet = Left(c)
         /\ Playing(s) = {} /\ Clash(s, c) => answer.to = c
<1>1. Len(s) \in Nat /\ \A i \in 1..Len(s) : s[i] \in Conn
  BY LenProperties, ElementOfSeq
<1>2. NoConn \notin Conn
  BY PlayersAssumption
<1>3. CASE Server!Refused(c, s)
  <2>1. answer = [to |-> c, packet |-> Left(c)]
    BY <1>3 DEF Answers
  <2> QED
    BY <1>3, <2>1, PacketsTyped
<1>4. CASE ~Server!Refused(c, s) /\ Playing(s) # {}
  <2> DEFINE i == IF 1 \in Playing(s) THEN 1 ELSE 2
  <2>1. answer = [to |-> c, packet |-> Join(s[i], TRUE)]
    BY <1>4 DEF Answers
  <2>2. i \in 1..Len(s)
    BY <1>1, <1>4 DEF Playing
  <2> HIDE DEF i
  <2>3. s[i] \in Conn
    BY <1>1, <2>2
  <2>4. Join(s[i], TRUE) \in DownPacket
    BY <2>3, PacketsTyped
  <2>5. Join(s[i], TRUE).kind = "GameStart"
    BY DEF Join
  <2> QED
    BY <1>4, <2>1, <2>4, <2>5
<1>5. CASE ~Server!Refused(c, s) /\ Playing(s) = {} /\ Clash(s, c)
  <2>1. PICK x \in Conn \cup {NoConn} : answer = [to |-> c, packet |-> Left(x)]
    BY <1>5 DEF Answers
  <2> QED
    BY <1>5, <2>1, PacketsTyped
<1>6. CASE ~Server!Refused(c, s) /\ Playing(s) = {} /\ ~Clash(s, c)
  <2>1. answer.to = NoConn \/ answer.packet = HostRequest
    BY <1>6 DEF Answers
  <2> QED
    BY <1>2, <1>6, <2>1, PacketsTyped, PacketFields
<1> QED
  BY <1>3, <1>4, <1>5, <1>6

\* What is used of the constants.
LEMMA Constants ==
  /\ MaxSits \in Nat /\ Machine0 \in Machine /\ NoMachine \notin Machine /\ NoConn \notin Conn
BY PlayersAssumption

\* A client sends packets and takes one; so does the server.
LEMMA QueueTypes ==
  ASSUME TypeOK, NEW c \in Conn
  PROVE  /\ \A x \in UpPacket : Send(c, <<x>>) => up' \in [Conn -> Seq(UpPacket)]
         /\ \A x, y \in UpPacket : Send(c, <<x, y>>) => up' \in [Conn -> Seq(UpPacket)]
         /\ \A kind : Gets(c, kind) =>
              /\ Head(down[c]) \in DownPacket
              /\ Consume(c) => down' \in [Conn -> Seq(DownPacket)]
         /\ \A kind : Takes(c, kind) =>
              /\ Head(up[c]) \in UpPacket
              /\ up' \in [Conn -> Seq(UpPacket)]
<1>1. up \in [Conn -> Seq(UpPacket)] /\ down \in [Conn -> Seq(DownPacket)]
  BY DEF TypeOK
<1>2. \A x \in UpPacket : Send(c, <<x>>) => up' \in [Conn -> Seq(UpPacket)]
  BY <1>1 DEF Send
<1>3. \A x, y \in UpPacket : Send(c, <<x, y>>) => up' \in [Conn -> Seq(UpPacket)]
  BY <1>1 DEF Send
<1>4. ASSUME NEW kind, Gets(c, kind)
      PROVE  /\ Head(down[c]) \in DownPacket
             /\ Consume(c) => down' \in [Conn -> Seq(DownPacket)]
  <2>1. down[c] \in Seq(DownPacket) /\ down[c] # <<>>
    BY <1>1, <1>4 DEF Gets
  <2>2. Head(down[c]) \in DownPacket /\ Tail(down[c]) \in Seq(DownPacket)
    BY <2>1, HeadTailProperties
  <2> QED
    BY <1>1, <2>2 DEF Consume
<1>5. ASSUME NEW kind, Takes(c, kind)
      PROVE  /\ Head(up[c]) \in UpPacket
             /\ up' \in [Conn -> Seq(UpPacket)]
  <2>1. up[c] \in Seq(UpPacket) /\ up[c] # <<>>
    BY <1>1, <1>5 DEF Takes
  <2>2. Head(up[c]) \in UpPacket /\ Tail(up[c]) \in Seq(UpPacket)
    BY <2>1, HeadTailProperties
  <2> QED
    BY <1>1, <1>5, <2>2 DEF Takes
<1> QED
  BY <1>2, <1>3, <1>4, <1>5

\* Packets sent to everybody are packets.
LEMMA SpreadType ==
  ASSUME TypeOK, NEW e, \A d \in Conn : e[d] \in Seq(DownPacket),
         down' = [d \in Conn |-> down[d] \o e[d]]
  PROVE  down' \in [Conn -> Seq(DownPacket)]
<1>1. \A d \in Conn : down[d] \o e[d] \in Seq(DownPacket)
  BY ConcatProperties DEF TypeOK
<1> QED
  BY <1>1

\* Everybody starts with nothing, at no machine.
LEMMA InitType == Init => TypeOK
<1> SUFFICES ASSUME Init PROVE TypeOK
  OBVIOUS
<1>1. /\ <<>> \in Seq(Conn) /\ <<>> \in Seq(UpPacket) /\ <<>> \in Seq(DownPacket)
      /\ Machine0 \in Machine /\ 0 \in 0..MaxSits
  BY EmptySeq, Constants
<1>2. /\ status \in [Conn -> Status]
      /\ machineId \in [Conn -> Machine \cup {NoMachine}]
      /\ machines \in [Machine -> Seq(Conn)]
      /\ pc \in [Conn -> {"ready", "request", "command", "starting"}]
      /\ want \in [Conn -> Machine \cup {NoMachine}]
      /\ tell \in [Conn -> DownPacket \cup {Nothing}]
      /\ rogue \subseteq Conn
  BY <1>1 DEF Init, Status
<1>3. /\ up \in [Conn -> Seq(UpPacket)]
      /\ down \in [Conn -> Seq(DownPacket)]
      /\ me \in [Conn -> Status]
      /\ current \in [Conn -> Machine \cup {NoMachine}]
      /\ choice \in [Conn -> {"none", "host", "join"}]
      /\ screen \in [Conn -> {"title", "game", "reported", "left"}]
      /\ snapshot \in [Conn -> {Report(st) : st \in Status} \cup {Nothing}]
  BY <1>1 DEF Init, Status
<1>4. /\ view \in [Conn -> [Conn -> Machine]]
      /\ counter \in [Conn -> [Machine -> Int]]
      /\ sits \in 0..MaxSits
      /\ excused \subseteq Conn
      /\ deserted \subseteq Machine
  BY <1>1 DEF Init
<1>5. \A c \in Conn : pc[c] \in {"request", "command"} => want[c] \in Machine
  BY DEF Init
<1> QED
  BY <1>2, <1>3, <1>4, <1>5 DEF TypeOK

\* The steps of a client keep the types.
LEMMA ClientType ==
  ASSUME TypeOK, NEW c \in Conn, Client(c)
  PROVE  TypeOK'
<1> USE DEF serverVars, Status
<1>0. /\ \A m \in Machine : Request(m) \in UpPacket
      /\ \A st \in Status : Report(st) \in UpPacket
      /\ \A d \in Conn : Command(d) \in UpPacket
      /\ Started \in UpPacket /\ LeaveArcade \in UpPacket
  BY PacketsTyped
<1>1. ASSUME NEW m \in Machine, Sit(c, m) PROVE TypeOK'
  <2>1. up' \in [Conn -> Seq(UpPacket)]
    BY <1>0, <1>1, QueueTypes DEF Sit
  <2>2. sits' \in 0..MaxSits
    <3>1. sits \in 0..MaxSits /\ sits < MaxSits /\ sits' = sits + 1
      BY <1>1 DEF Sit, TypeOK
    <3> QED
      BY <3>1, Constants
  <2> QED
    BY <1>1, <2>1, <2>2 DEF Sit, TypeOK
<1>2. CASE Leave(c)
  <2>1. up' \in [Conn -> Seq(UpPacket)]
    BY <1>0, <1>2, QueueTypes DEF Leave
  <2> QED
    BY <1>2, <2>1 DEF Leave, TypeOK
<1>3. ASSUME NEW d \in Conn, SayJoin(c, d) PROVE TypeOK'
  <2>1. up' \in [Conn -> Seq(UpPacket)]
    BY <1>0, <1>3, QueueTypes DEF SayJoin
  <2>2. sits' \in 0..MaxSits
    <3>1. sits \in 0..MaxSits /\ sits < MaxSits /\ sits' = sits + 1
      BY <1>3 DEF SayJoin, TypeOK
    <3> QED
      BY <3>1, Constants
  <2> QED
    BY <1>3, <2>1, <2>2 DEF SayJoin, TypeOK
<1>4. CASE ConnectFailed(c)
  <2>1. up' \in [Conn -> Seq(UpPacket)]
    BY <1>0, <1>4, QueueTypes DEF ConnectFailed
  <2> QED
    BY <1>4, <2>1 DEF ConnectFailed, TypeOK
<1>5. CASE Play(c)
  BY <1>5 DEF Play, TypeOK
<1>6. CASE FoundOpponent(c)
  <2>1. up' \in [Conn -> Seq(UpPacket)]
    BY <1>0, <1>6, QueueTypes DEF FoundOpponent
  <2> QED
    BY <1>6, <2>1 DEF FoundOpponent, TypeOK
<1>7. CASE Back(c)
  <2>1. up' \in [Conn -> Seq(UpPacket)]
    BY <1>0, <1>7, QueueTypes DEF Back
  <2> QED
    BY <1>7, <2>1 DEF Back, TypeOK
<1>8. CASE BackLeave(c)
  <2>1. up' \in [Conn -> Seq(UpPacket)]
    BY <1>0, <1>8, QueueTypes DEF BackLeave
  <2> QED
    BY <1>8, <2>1 DEF BackLeave, TypeOK
<1>9. CASE BackIdle(c)
  BY <1>9 DEF BackIdle, TypeOK
<1>10. CASE Snapshot(c)
  BY <1>10 DEF Snapshot, TypeOK
<1>11. CASE SendSnapshot(c)
  <2>1. snapshot[c] \in UpPacket
    <3>1. snapshot[c] \in {Report(st) : st \in Status} \cup {Nothing} /\ snapshot[c] # Nothing
      BY <1>11 DEF SendSnapshot, TypeOK
    <3> QED
      BY <1>0, <3>1
  <2>2. up' \in [Conn -> Seq(UpPacket)]
    BY <1>11, <2>1, QueueTypes DEF SendSnapshot
  <2>3. excused' \subseteq Conn
    BY <1>11 DEF SendSnapshot, TypeOK
  <2> QED
    BY <1>11, <2>2, <2>3 DEF SendSnapshot, TypeOK
<1>12. CASE OnArcadeEngage(c)
  <2> DEFINE p == Head(down[c]).player
             m == Head(down[c]).machine
  <2>1. Head(down[c]) \in DownPacket /\ down' \in [Conn -> Seq(DownPacket)]
    BY <1>12, QueueTypes DEF OnArcadeEngage
  <2>2. p \in Conn /\ m \in Machine
    BY <1>12, <2>1, DownKinds, PacketFields DEF OnArcadeEngage, Gets
  <2> HIDE DEF p, m
  <2>3. view' \in [Conn -> [Conn -> Machine]]
    <3>1. view' = view \/ view' = [view EXCEPT ![c][p] = m]
      BY <1>12 DEF OnArcadeEngage, p, m
    <3>2. view \in [Conn -> [Conn -> Machine]]
      BY DEF TypeOK
    <3> QED
      BY <2>2, <3>1, <3>2
  <2>4. counter' \in [Conn -> [Machine -> Int]]
    <3>1. counter' = counter \/ counter' = [counter EXCEPT ![c][m] = @ + 1]
      BY <1>12 DEF OnArcadeEngage, p, m
    <3>2. counter \in [Conn -> [Machine -> Int]]
      BY DEF TypeOK
    <3> QED
      BY <2>2, <3>1, <3>2
  <2>5. choice' \in [Conn -> {"none", "host", "join"}]
    <3>1. choice' = choice \/ choice' = [choice EXCEPT ![c] = "host"]
            \/ choice' = [choice EXCEPT ![c] = @]
      BY <1>12 DEF OnArcadeEngage, p, m
    <3> QED
      BY <3>1 DEF TypeOK
  <2> QED
    BY <1>12, <2>1, <2>3, <2>4, <2>5 DEF OnArcadeEngage, TypeOK
<1>13. CASE OnArcadeLeave(c)
  <2> DEFINE p == Head(down[c]).player
  <2>1. Head(down[c]) \in DownPacket /\ down' \in [Conn -> Seq(DownPacket)]
    BY <1>13, QueueTypes DEF OnArcadeLeave
  <2>2. p \in Conn \cup {NoConn}
    BY <1>13, <2>1, DownKinds, PacketFields DEF OnArcadeLeave, Gets
  <2> HIDE DEF p
  <2>3. /\ up' \in [Conn -> Seq(UpPacket)]
        /\ me' \in [Conn -> Status]
        /\ current' \in [Conn -> Machine \cup {NoMachine}]
        /\ excused' \subseteq Conn
    <3>1. CASE p = c
      <4>1. up' \in [Conn -> Seq(UpPacket)]
        BY <1>0, <1>13, <3>1, QueueTypes DEF OnArcadeLeave, p
      <4>2. excused' \subseteq Conn
        BY <1>13, <3>1 DEF OnArcadeLeave, p, TypeOK
      <4> QED
        BY <1>13, <3>1, <4>1, <4>2 DEF OnArcadeLeave, p, TypeOK
    <3>2. CASE p # c
      BY <1>13, <3>2 DEF OnArcadeLeave, p, TypeOK
    <3> QED
      BY <3>1, <3>2
  <2>4. /\ view' \in [Conn -> [Conn -> Machine]]
        /\ counter' \in [Conn -> [Machine -> Int]]
    <3>1. CASE p = NoConn \/ c \notin Watched
      BY <1>13, <3>1 DEF OnArcadeLeave, p, TypeOK
    <3>2. CASE ~(p = NoConn \/ c \notin Watched)
      <4>1. /\ counter' = [counter EXCEPT ![c][view[c][p]] = @ - 1]
            /\ view' = [view EXCEPT ![c][p] = Machine0]
        BY <1>13, <3>2 DEF OnArcadeLeave, p
      <4>2. view \in [Conn -> [Conn -> Machine]] /\ counter \in [Conn -> [Machine -> Int]]
        BY DEF TypeOK
      <4>3. p \in Conn /\ Machine0 \in Machine
        BY <2>2, <3>2, Constants
      <4>4. view[c][p] \in Machine
        BY <4>2, <4>3
      <4> QED
        BY <4>1, <4>2, <4>3, <4>4
    <3> QED
      BY <3>1, <3>2
  <2> QED
    BY <1>13, <2>1, <2>3, <2>4 DEF OnArcadeLeave, TypeOK
<1>14. CASE OnHostRequest(c)
  <2>1. down' \in [Conn -> Seq(DownPacket)]
    BY <1>14, QueueTypes DEF OnHostRequest
  <2>2. excused' \subseteq Conn
    BY <1>14 DEF OnHostRequest, TypeOK
  <2>3. up' \in [Conn -> Seq(UpPacket)]
    BY <1>0, <1>14, QueueTypes DEF OnHostRequest
  <2>4. me' \in [Conn -> Status] /\ choice' \in [Conn -> {"none", "host", "join"}]
    <3>1. CASE screen[c] = "game"
      BY <1>14, <3>1 DEF OnHostRequest, TypeOK
    <3>2. CASE screen[c] # "game"
      <4>1. /\ me' = [me EXCEPT ![c] = "playing"]
            /\ choice' = [choice EXCEPT ![c] = IF @ = "none" THEN "host" ELSE @]
        BY <1>14, <3>2 DEF OnHostRequest
      <4>2. me \in [Conn -> Status] /\ choice \in [Conn -> {"none", "host", "join"}]
        BY DEF TypeOK
      <4> QED
        BY <4>1, <4>2
    <3> QED
      BY <3>1, <3>2
  <2> QED
    BY <1>14, <2>1, <2>2, <2>3, <2>4 DEF OnHostRequest, TypeOK
<1>15. CASE OnConnectRequest(c)
  <2>1. down' \in [Conn -> Seq(DownPacket)]
    BY <1>15, QueueTypes DEF OnConnectRequest
  <2>2. excused' \subseteq Conn
    BY <1>15 DEF OnConnectRequest, TypeOK
  <2>3. up' \in [Conn -> Seq(UpPacket)]
    BY <1>0, <1>15, QueueTypes DEF OnConnectRequest
  <2>4. me' \in [Conn -> Status] /\ choice' \in [Conn -> {"none", "host", "join"}]
    BY <1>15 DEF OnConnectRequest, TypeOK
  <2> QED
    BY <1>15, <2>1, <2>2, <2>3, <2>4 DEF OnConnectRequest, TypeOK
<1> QED
  BY <1>1, <1>2, <1>3, <1>4, <1>5, <1>6, <1>7, <1>8, <1>9, <1>10, <1>11, <1>12, <1>13, <1>14,
     <1>15 DEF Client

-----------------------------------------------------------------------------
(* The server's steps, without the rest of LobbyServer's state.            *)

\* A status report.
LEMMA ReportStep ==
  ASSUME NEW c \in Conn, TakeReport(c)
  PROVE  /\ Takes(c, "BattleStatusUpdate") /\ pc[c] = "ready"
         /\ status' = [status EXCEPT ![c] = Head(up[c]).status]
         /\ UNCHANGED <<machineId, machines, pc, want, rogue, tell, down>>
         /\ UNCHANGED clientVars
BY DEF TakeReport, Server!Report, Server!Receives, Server!threadVars, Server!ghostVars

\* A request: _machinesMutex is about to be taken for it.
LEMMA RequestStep ==
  ASSUME NEW c \in Conn, TakeRequest(c)
  PROVE  /\ Takes(c, "GameRequest") /\ pc[c] = "ready"
         /\ pc' = [pc EXCEPT ![c] = "request"]
         /\ want' = [want EXCEPT ![c] = Head(up[c]).machine]
         /\ UNCHANGED <<status, machineId, machines, rogue, tell, down>>
         /\ UNCHANGED clientVars
BY DEF TakeRequest, Server!GameRequest, Server!Receives, Server!arcadeVars, Server!ghostVars

\* A /join: refused, or _machinesMutex is about to be taken for it.
LEMMA CommandStep ==
  ASSUME NEW c \in Conn, TakeCommand(c)
  PROVE  /\ Takes(c, "/join") /\ pc[c] = "ready"
         /\ \/ UNCHANGED <<pc, want>>
            \/ /\ pc' = [pc EXCEPT ![c] = "command"]
               /\ machineId[Head(up[c]).player] # NoMachine
               /\ want' = [want EXCEPT ![c] = machineId[Head(up[c]).player]]
         /\ UNCHANGED <<status, machineId, machines, rogue, tell, down>>
         /\ UNCHANGED clientVars
BY DEF TakeCommand, Server!JoinCommand, Server!Receives, Server!arcadeVars, Server!ghostVars,
       serverVars

\* A /join of somebody who is busy by now.
LEMMA IgnoreStep ==
  ASSUME NEW c \in Conn, IgnoreCommand(c)
  PROVE  /\ pc[c] = "command"
         /\ pc' = [pc EXCEPT ![c] = "ready"]
         /\ want' = [want EXCEPT ![c] = NoMachine]
         /\ UNCHANGED <<status, machineId, machines, rogue, tell, up, down>>
         /\ UNCHANGED clientVars
BY DEF IgnoreCommand, Server!IgnoreCommand, Server!arcadeVars, Server!ghostVars

\* A GameStart, from somebody at a machine or at none.
LEMMA StartStep ==
  ASSUME NEW c \in Conn, TakeStart(c)
  PROVE  /\ Takes(c, "GameStart") /\ pc[c] = "ready"
         /\ IF machineId[c] = NoMachine THEN pc' = pc
            ELSE pc' = [pc EXCEPT ![c] = "starting"]
         /\ UNCHANGED <<status, machineId, machines, want, rogue, tell, down>>
         /\ UNCHANGED clientVars
<1>1. CASE machineId[c] = NoMachine
  BY <1>1 DEF TakeStart, serverVars
<1>2. CASE machineId[c] # NoMachine
  BY <1>2 DEF TakeStart, Server!GameStart, Server!Receives, Server!arcadeVars, Server!ghostVars
<1> QED
  BY <1>1, <1>2

\* What onGameStart's section sends to d, if c starts at a machine with the seats s.
Starts(c, s, d) ==
  IF d = c THEN <<>>
  ELSE [k \in 1..Cardinality({i \in 1..Len(s) : s[i] = d}) |->
          Join(c, \A i \in 1..2 : i <= Len(s) => s[i] # d)]

\* They are packets, and somebody with a seat there is sent one; nobody is told that it
\* left or sat down.
LEMMA StartsType ==
  ASSUME NEW c \in Conn, NEW s \in Seq(Conn), NEW d \in Conn
  PROVE  /\ Starts(c, s, d) \in Seq(DownPacket)
         /\ \A i \in 1..Len(Starts(c, s, d)) : Starts(c, s, d)[i].kind = "GameStart"
         /\ d # c /\ (\E i \in 1..Len(s) : s[i] = d) => 1 \in 1..Len(Starts(c, s, d))
<1> DEFINE at == {i \in 1..Len(s) : s[i] = d}
           n == Cardinality(at)
           b == \A i \in 1..2 : i <= Len(s) => s[i] # d
           e == [k \in 1..n |-> Join(c, b)]
<1>1. n \in Nat /\ (n = 0 <=> at = {})
  BY CountType
<1>2. Join(c, b) \in DownPacket /\ Join(c, b).kind = "GameStart"
  <2>1. b \in BOOLEAN
    OBVIOUS
  <2> HIDE DEF b
  <2> QED
    BY <2>1, PacketsTyped DEF Join
<1> HIDE DEF b, n
<1>3. e \in Seq(DownPacket) /\ Len(e) = n /\ \A k \in 1..n : e[k] = Join(c, b)
  <2>1. e \in [1..n -> DownPacket]
    BY <1>2
  <2> QED
    BY <1>1, <2>1, SeqDef
<1>4. <<>> \in Seq(DownPacket) /\ Len(<<>>) = 0
  BY EmptySeq
<1>5. Starts(c, s, d) = IF d = c THEN <<>> ELSE e
  BY DEF Starts, n, b
<1> HIDE DEF e
<1>6. (\E i \in 1..Len(s) : s[i] = d) => n # 0
  BY <1>1
<1> QED
  BY <1>1, <1>2, <1>3, <1>4, <1>5, <1>6

\* onGameStart's section.
LEMMA SectionStep ==
  ASSUME machineId \in [Conn -> Machine \cup {NoMachine}], status \in [Conn -> Status],
         NEW c \in Conn, StartSection(c)
  PROVE  /\ pc[c] = "starting"
         /\ pc' = [pc EXCEPT ![c] = "ready"]
         /\ status' \in {status, [status EXCEPT ![c] = "playing"],
                         [status EXCEPT ![c] = "spectating"]}
         /\ \E m \in Machine : /\ m \in Server!SeatSource(c)
                               /\ down' = [d \in Conn |-> down[d] \o Starts(c, machines[m], d)]
         /\ UNCHANGED <<machineId, machines, want, rogue, tell, up>>
         /\ UNCHANGED clientVars
<1>1. Server!StartSection(c) /\ UNCHANGED <<tell, up, clientVars>>
  BY DEF StartSection
<1>2. pc[c] = "starting" /\ pc' = [pc EXCEPT ![c] = "ready"]
  BY <1>1 DEF Server!StartSection
<1>3. UNCHANGED <<machineId, machines, want, rogue>>
  BY <1>1 DEF Server!StartSection, Server!ghostVars
<1>4. status' \in {status, [status EXCEPT ![c] = "playing"], [status EXCEPT ![c] = "spectating"]}
  <2>1. PICK v \in {status[c], "spectating", "playing"} : status' = [status EXCEPT ![c] = v]
    BY <1>1 DEF Server!StartSection
  <2> QED
    BY <2>1
<1>5. PICK m \in Server!SeatSource(c) :
        down' = [d \in Conn |-> down[d] \o Starts(c, machines[m], d)]
  BY DEF StartSection, Starts
<1>6. m \in Machine
  BY SeatSourceType
<1> QED
  BY <1>1, <1>2, <1>3, <1>4, <1>5, <1>6

\* onArcadeLeave's section, from somebody at a machine or at none.
LEMMA LeaveStep ==
  ASSUME NEW c \in Conn, TakeLeave(c)
  PROVE  LET m == machineId[c]
             out == {c} \cup Server!BootedBy(c, m)
         IN /\ Takes(c, "ArcadeLeave") /\ pc[c] = "ready"
            /\ IF m = NoMachine
               THEN UNCHANGED <<status, machineId, machines, tell, down, deserted>>
               ELSE /\ machines' = Server!SeatsAfter(c, m)
                    /\ status' = Server!Reset(status, out, "idle")
                    /\ machineId' = Server!Reset(machineId, out, NoMachine)
                    /\ down' = [d \in Conn |-> down[d] \o Boots(c, m)[d]]
                    /\ tell' = [tell EXCEPT ![c] = Left(c)]
                    /\ deserted' = IF Deserts(c, m) THEN deserted \cup {m} ELSE deserted
            /\ UNCHANGED <<pc, want, rogue>>
            /\ UNCHANGED <<me, current, choice, screen, snapshot, view, counter, sits, excused>>
<1>1. CASE machineId[c] = NoMachine
  BY <1>1 DEF TakeLeave, serverVars
<1>2. CASE machineId[c] # NoMachine
  BY <1>2 DEF TakeLeave, Server!ArcadeLeave, Server!Receives, Server!threadVars, Server!ghostVars
<1> QED
  BY <1>1, <1>2

\* The broadcast after a join or a leave.
LEMMA BroadcastStep ==
  ASSUME NEW c \in Conn, Broadcast(c)
  PROVE  /\ tell[c] # Nothing
         /\ tell' = [tell EXCEPT ![c] = Nothing]
         /\ down' = [d \in Conn |-> down[d] \o
                      IF (d = c /\ tell[c].kind = "ArcadeLeave") \/ ~Sees(d, c)
                      THEN <<>> ELSE <<tell[c]>>]
         /\ UNCHANGED <<status, machineId, machines, pc, want, rogue, up>>
         /\ UNCHANGED clientVars
BY DEF Broadcast, serverVars

\* A net thread goes to p, with the machine w to join.
LEMMA PcType ==
  ASSUME TypeOK, NEW c \in Conn, NEW p \in {"ready", "request", "command", "starting"},
         NEW w \in Machine \cup {NoMachine}, p \in {"request", "command"} => w \in Machine,
         pc' = [pc EXCEPT ![c] = p], want' = [want EXCEPT ![c] = w]
  PROVE  /\ want' \in [Conn -> Machine \cup {NoMachine}]
         /\ pc' \in [Conn -> {"ready", "request", "command", "starting"}]
         /\ \A d \in Conn : pc'[d] \in {"request", "command"} => want'[d] \in Machine
<1>1. /\ pc \in [Conn -> {"ready", "request", "command", "starting"}]
      /\ want \in [Conn -> Machine \cup {NoMachine}]
      /\ \A d \in Conn : pc[d] \in {"request", "command"} => want[d] \in Machine
  BY DEF TypeOK
<1> QED
  BY <1>1

\* The steps of a net thread keep the types.
LEMMA NetThreadType ==
  ASSUME TypeOK, NEW c \in Conn, NetThread(c)
  PROVE  TypeOK'
<1> USE DEF clientVars
<1>1. CASE TakeReport(c)
  <2>1. Head(up[c]) \in UpPacket /\ up' \in [Conn -> Seq(UpPacket)]
    BY <1>1, ReportStep, QueueTypes
  <2>2. Head(up[c]).status \in Status
    BY <1>1, <2>1, ReportStep, UpKinds, PacketFields DEF Takes
  <2>3. status' \in [Conn -> Status]
    BY <1>1, <2>2, ReportStep DEF TypeOK
  <2> QED
    BY <1>1, <2>1, <2>3, ReportStep DEF TypeOK
<1>2. CASE TakeRequest(c)
  <2>1. Head(up[c]) \in UpPacket /\ up' \in [Conn -> Seq(UpPacket)]
    BY <1>2, RequestStep, QueueTypes
  <2>2. Head(up[c]).machine \in Machine
    BY <1>2, <2>1, RequestStep, UpKinds, PacketFields DEF Takes
  <2>3. /\ want' \in [Conn -> Machine \cup {NoMachine}]
        /\ pc' \in [Conn -> {"ready", "request", "command", "starting"}]
        /\ \A d \in Conn : pc'[d] \in {"request", "command"} => want'[d] \in Machine
    BY <1>2, <2>2, RequestStep, PcType
  <2> QED
    BY <1>2, <2>1, <2>3, RequestStep DEF TypeOK
<1>3. CASE TakeCommand(c)
  <2>1. Head(up[c]) \in UpPacket /\ up' \in [Conn -> Seq(UpPacket)]
    BY <1>3, CommandStep, QueueTypes
  <2>2. Head(up[c]).player \in Conn
    BY <1>3, <2>1, CommandStep, UpKinds, PacketFields DEF Takes
  <2>3. /\ want' \in [Conn -> Machine \cup {NoMachine}]
        /\ pc' \in [Conn -> {"ready", "request", "command", "starting"}]
        /\ \A d \in Conn : pc'[d] \in {"request", "command"} => want'[d] \in Machine
    <3>1. CASE UNCHANGED <<pc, want>>
      BY <3>1 DEF TypeOK
    <3>2. CASE ~UNCHANGED <<pc, want>>
      <4> DEFINE w == machineId[Head(up[c]).player]
      <4>1. pc' = [pc EXCEPT ![c] = "command"] /\ want' = [want EXCEPT ![c] = w] /\ w # NoMachine
        BY <1>3, <3>2, CommandStep
      <4>2. w \in Machine
        BY <2>2, <4>1 DEF TypeOK
      <4> HIDE DEF w
      <4> QED
        BY <4>1, <4>2, PcType
    <3> QED
      BY <3>1, <3>2
  <2> QED
    BY <1>3, <2>1, <2>3, CommandStep DEF TypeOK
<1>4. CASE IgnoreCommand(c)
  <2>1. /\ want' \in [Conn -> Machine \cup {NoMachine}]
        /\ pc' \in [Conn -> {"ready", "request", "command", "starting"}]
        /\ \A d \in Conn : pc'[d] \in {"request", "command"} => want'[d] \in Machine
    BY <1>4, IgnoreStep, PcType
  <2> QED
    BY <1>4, <2>1, IgnoreStep DEF TypeOK
<1>5. CASE JoinArcade(c)
  <2>1. want[c] \in Machine
    BY <1>5, JoinSteps
  <2>2. PICK from \in Machine, seats \in Seats : \E answer : Joins(c, from, seats, answer)
    BY <1>5, JoinSteps
  <2>3. PICK answer : Joins(c, from, seats, answer)
    BY <2>2
  <2> DEFINE m == want[c]
             s == seats[m]
  <2>4. s \in Seq(Conn)
    BY <2>1 DEF Seats
  <2>5. machines' \in [Machine -> Seq(Conn)]
    <3>1. Server!SeatsWith(c, s, status', IF s = <<>> THEN PrefOf[c] ELSE PrefOf[s[1]], PrefOf[c])
            \in Seq(Conn)
      BY <2>4, SeatsWithType
    <3> QED
      BY <2>1, <2>3, <3>1 DEF Joins, Seats
  <2>6. status' \in [Conn -> Status]
    BY <2>3 DEF Joins, TypeOK, Server!Reset, Status
  <2>7. machineId' \in [Conn -> Machine \cup {NoMachine}]
    BY <2>1, <2>3 DEF Joins, TypeOK, Server!Reset
  <2>8. /\ want' \in [Conn -> Machine \cup {NoMachine}]
        /\ pc' \in [Conn -> {"ready", "request", "command", "starting"}]
        /\ \A d \in Conn : pc'[d] \in {"request", "command"} => want'[d] \in Machine
    BY <2>3 DEF Joins, TypeOK
  <2>9. rogue' \subseteq Conn
    BY <2>3 DEF Joins, TypeOK
  <2>10. excused' \subseteq Conn
    <3>1. Clash(s, c) => s[1] \in Conn
      <4>1. Clash(s, c) => Len(s) = 1
        BY DEF Clash
      <4> QED
        BY <2>4, <4>1, ElementOfSeq
    <3>2. excused' \subseteq excused \cup {c} \cup (IF Clash(s, c) THEN {s[1]} ELSE {})
      BY <2>3 DEF Joins
    <3> QED
      BY <3>1, <3>2 DEF TypeOK
  <2>11. deserted' \subseteq Machine
    BY <2>3 DEF Joins, TypeOK
  <2>12. tell' \in [Conn -> DownPacket \cup {Nothing}]
    BY <2>1, <2>3, PacketsTyped DEF Joins, TypeOK
  <2>13. down' \in [Conn -> Seq(DownPacket)]
    <3> DEFINE boots == IF status[c] # "idle" THEN Boots(c, from) ELSE [d \in Conn |-> <<>>]
    <3>1. <<>> \in Seq(DownPacket)
      BY EmptySeq
    <3>2. \A d \in Conn : boots[d] \in Seq(DownPacket)
      BY <3>1, BootsType DEF TypeOK, Seats
    <3>3. answer \in Answers(c, s)
      BY <2>3 DEF Joins
    <3>4. answer.to \in Conn => answer.packet \in DownPacket
      BY <2>4, <3>3, AnswerType
    <3>5. down' = [d \in Conn |-> down[d] \o boots[d] \o
                                  IF answer.to = d THEN <<answer.packet>> ELSE <<>>]
      BY <2>3 DEF Joins
    <3> HIDE DEF boots
    <3>6. \A d \in Conn : down[d] \o boots[d] \in Seq(DownPacket)
      BY <3>2, ConcatProperties DEF TypeOK
    <3>7. \A d \in Conn : (IF answer.to = d THEN <<answer.packet>> ELSE <<>>) \in Seq(DownPacket)
      BY <3>1, <3>4
    <3>8. \A d \in Conn : down[d] \o boots[d] \o
                            (IF answer.to = d THEN <<answer.packet>> ELSE <<>>) \in Seq(DownPacket)
      BY <3>6, <3>7, ConcatProperties
    <3> QED
      BY <3>5, <3>8
  <2>14. UNCHANGED <<up, me, current, choice, screen, snapshot, view, counter, sits>>
    BY <2>3 DEF Joins
  <2> QED
    BY <2>5, <2>6, <2>7, <2>8, <2>9, <2>10, <2>11, <2>12, <2>13, <2>14 DEF TypeOK
<1>6. CASE TakeStart(c)
  <2>1. up' \in [Conn -> Seq(UpPacket)]
    BY <1>6, StartStep, QueueTypes
  <2>2. /\ pc' \in [Conn -> {"ready", "request", "command", "starting"}]
        /\ \A d \in Conn : pc'[d] \in {"request", "command"} => want'[d] \in Machine
    BY <1>6, StartStep DEF TypeOK
  <2> QED
    BY <1>6, <2>1, <2>2, StartStep DEF TypeOK
<1>7. CASE StartSection(c)
  <2>1. PICK m \in Machine : down' = [d \in Conn |-> down[d] \o Starts(c, machines[m], d)]
    <3>1. machineId \in [Conn -> Machine \cup {NoMachine}] /\ status \in [Conn -> Status]
      BY DEF TypeOK
    <3> QED
      BY <1>7, <3>1, SectionStep
  <2>2. \A d \in Conn : Starts(c, machines[m], d) \in Seq(DownPacket)
    BY StartsType DEF TypeOK, Seats
  <2>3. down' \in [Conn -> Seq(DownPacket)]
    <3>1. \A d \in Conn : down[d] \o Starts(c, machines[m], d) \in Seq(DownPacket)
      BY <2>2, ConcatProperties DEF TypeOK
    <3> QED
      BY <2>1, <3>1
  <2>4. machineId \in [Conn -> Machine \cup {NoMachine}] /\ status \in [Conn -> Status]
    BY DEF TypeOK
  <2>5. status' \in [Conn -> Status]
    BY <1>7, <2>4, SectionStep DEF Status
  <2>6. /\ pc' \in [Conn -> {"ready", "request", "command", "starting"}]
        /\ \A d \in Conn : pc'[d] \in {"request", "command"} => want'[d] \in Machine
    BY <1>7, <2>4, SectionStep DEF TypeOK
  <2> QED
    BY <1>7, <2>3, <2>4, <2>5, <2>6, SectionStep DEF TypeOK
<1>8. CASE TakeLeave(c)
  <2> DEFINE m == machineId[c]
  <2>1. up' \in [Conn -> Seq(UpPacket)]
    BY <1>8, LeaveStep, QueueTypes
  <2>2. CASE m = NoMachine
    BY <1>8, <2>1, <2>2, LeaveStep DEF TypeOK
  <2>3. CASE m # NoMachine
    <3>1. m \in Machine
      BY <2>3 DEF TypeOK
    <3>3. /\ machines \in Seats
          /\ status \in [Conn -> Status]
          /\ machineId \in [Conn -> Machine \cup {NoMachine}]
          /\ "idle" \in Status
      BY DEF TypeOK, Seats, Status
    <3>4. machines' \in Seats
      BY <1>8, <2>3, <3>1, <3>3, LeaveStep, SeatOpsType
    <3>5. /\ status' \in [Conn -> Status]
          /\ machineId' \in [Conn -> Machine \cup {NoMachine}]
      BY <1>8, <2>3, <3>3, LeaveStep DEF Server!Reset
    <3>6. tell' \in [Conn -> DownPacket \cup {Nothing}] /\ deserted' \subseteq Machine
      <4>1. /\ tell' = [tell EXCEPT ![c] = Left(c)]
            /\ deserted' = IF Deserts(c, m) THEN deserted \cup {m} ELSE deserted
        BY <1>8, <2>3, LeaveStep
      <4>2. tell \in [Conn -> DownPacket \cup {Nothing}] /\ deserted \subseteq Machine
        BY DEF TypeOK
      <4>3. Left(c) \in DownPacket
        BY PacketsTyped
      <4> HIDE DEF m
      <4> QED
        BY <3>1, <4>1, <4>2, <4>3
    <3>7. down' \in [Conn -> Seq(DownPacket)]
      <4>1. \A d \in Conn : Boots(c, m)[d] \in Seq(DownPacket)
        BY <3>1, BootsType DEF TypeOK, Seats
      <4>2. \A d \in Conn : down[d] \o Boots(c, m)[d] \in Seq(DownPacket)
        BY <4>1, ConcatProperties DEF TypeOK
      <4> QED
        BY <1>8, <2>3, <4>2, LeaveStep
    <3> QED
      BY <1>8, <2>1, <3>4, <3>5, <3>6, <3>7, LeaveStep DEF TypeOK, Seats
  <2> QED
    BY <2>2, <2>3
<1>9. CASE Broadcast(c)
  <2>1. tell[c] \in DownPacket
    BY <1>9, BroadcastStep DEF TypeOK
  <2> DEFINE e(d) == IF (d = c /\ tell[c].kind = "ArcadeLeave") \/ ~Sees(d, c)
                     THEN <<>> ELSE <<tell[c]>>
  <2>2. \A d \in Conn : e(d) \in Seq(DownPacket)
    BY <2>1, EmptySeq
  <2>3. \A d \in Conn : down[d] \o e(d) \in Seq(DownPacket)
    BY <2>2, ConcatProperties DEF TypeOK
  <2>4. down' \in [Conn -> Seq(DownPacket)]
    BY <1>9, <2>3, BroadcastStep
  <2> QED
    BY <1>9, <2>4, BroadcastStep DEF TypeOK
<1> QED
  BY <1>1, <1>2, <1>3, <1>4, <1>5, <1>6, <1>7, <1>8, <1>9 DEF NetThread

\* Every step keeps the types.
LEMMA NextType == TypeOK /\ [Next]_vars => TypeOK'
<1> SUFFICES ASSUME TypeOK, [Next]_vars PROVE TypeOK'
  OBVIOUS
<1>1. CASE UNCHANGED vars
  BY <1>1 DEF vars, serverVars, clientVars, TypeOK
<1>2. ASSUME NEW c \in Conn, Client(c) \/ NetThread(c) PROVE TypeOK'
  BY <1>2, ClientType, NetThreadType
<1> QED
  BY <1>1, <1>2 DEF Next

\* Every variable of the clients, the server and the packets between them keeps its type
\* (TypeOK): a request is only handled for a machine, a /join of somebody at none is not.
THEOREM TypeCorrect == Spec => []TypeOK
BY InitType, NextType, PTL DEF Spec

-----------------------------------------------------------------------------
(* The inductive invariant.                                                *)

\* A player whom nothing has overtaken: what its client thinks, what its packets say and
\* what the server has of it are the same story at different times.
InOrder(c) ==
  /\ Orderly(up[c], pc[c], status[c], machineId[c])
  /\ Told(up[c], pc[c], status[c], machineId[c], current[c], screen[c])
  /\ Settled(down[c], tell[c].kind, c, machineId[c])
  /\ Held(c, down[c], up[c], current[c], pc[c], want[c], machineId[c])
  /\ Fits(c, machines, machineId[c])
  /\ pc[c] = "request" => status[c] = "idle" /\ machineId[c] = NoMachine
  /\ pc[c] = "command" /\ status[c] = "idle" => machineId[c] = NoMachine
  /\ screen[c] = "left" => current[c] = NoMachine
  /\ screen[c] # "left" => (current[c] = NoMachine <=> me[c] = "idle")

\* c does not just wait: it has been asked to host or told to connect, and a packet of
\* that is still under way, or it plays, or is leaving.
Stirs(c) ==
  \/ me[c] # "waiting"
  \/ pc[c] = "starting"
  \/ \E i \in 1..Len(up[c]) : up[c][i] \in {LeaveArcade, Started}
  \/ \E i \in 1..Len(down[c]) : down[c][i].kind \in {"GameRequest", "GameStart"}

\* The seats s have two players at their head, neither of them overtaken.
Pair(s, a, b, lost) == Len(s) >= 2 /\ s[1] = a /\ s[2] = b /\ {a, b} \cap lost = {}

Paired ==
  \A m \in Machine \ deserted : \A a, b \in Conn :
    Pair(machines[m], a, b, excused) => Stirs(a) \/ Stirs(b)

\* A net thread broadcasts what its own player does.
TellsOwn ==
  \A c \in Conn : tell[c] \in {Nothing, Left(c)} \cup {Engaged(c, m) : m \in Machine}

ProtocolInv ==
  /\ TypeOK
  /\ TellsOwn
  /\ rogue \subseteq excused
  /\ \A c \in Conn \ excused : InOrder(c)
  /\ Paired

\* At the start nobody has asked for anything.
LEMMA ProtocolInit == Init => ProtocolInv
<1> SUFFICES ASSUME Init PROVE ProtocolInv
  OBVIOUS
<1>1. TypeOK
  BY InitType
<1>2. Len(<<>>) = 0
  BY EmptySeq
<1>3. ASSUME NEW c \in Conn PROVE InOrder(c)
  <2>1. /\ up[c] = <<>> /\ down[c] = <<>> /\ pc[c] = "ready" /\ status[c] = "idle"
        /\ machineId[c] = NoMachine /\ current[c] = NoMachine /\ screen[c] = "title"
        /\ me[c] = "idle"
    BY DEF Init
  <2>2. Orderly(up[c], pc[c], status[c], machineId[c])
    BY <1>2, <2>1 DEF Orderly
  <2>3. Told(up[c], pc[c], status[c], machineId[c], current[c], screen[c])
    BY <1>2, <2>1 DEF Told, Freed, Idled, Undone, Seat, Busy
  <2>4. Settled(down[c], tell[c].kind, c, machineId[c])
    BY <2>1 DEF Settled
  <2>5. Held(c, down[c], up[c], current[c], pc[c], want[c], machineId[c])
    BY <2>1 DEF Held
  <2>6. Fits(c, machines, machineId[c])
    BY <1>2 DEF Init, Fits
  <2> QED
    BY <2>1, <2>2, <2>3, <2>4, <2>5, <2>6 DEF InOrder
<1>4. Paired
  BY <1>2 DEF Init, Paired, Pair
<1>5. rogue \subseteq excused
  BY DEF Init
<1>6. TellsOwn
  BY DEF Init, TellsOwn
<1> QED
  BY <1>1, <1>3, <1>4, <1>5, <1>6 DEF ProtocolInv

\* A step that does not touch d leaves it in order.
LEMMA Untouched ==
  ASSUME NEW d, InOrder(d), machines' = machines,
         up'[d] = up[d], down'[d] = down[d], tell'[d] = tell[d],
         pc'[d] = pc[d], want'[d] = want[d], status'[d] = status[d],
         machineId'[d] = machineId[d], me'[d] = me[d], current'[d] = current[d],
         screen'[d] = screen[d]
  PROVE  InOrder(d)'
BY DEF InOrder

-----------------------------------------------------------------------------
(* The client's steps keep its story in order.                             *)

\* What to show of a step of c's client.
LEMMA ClientKeeps ==
  ASSUME NEW c \in Conn, InOrder(c), UNCHANGED serverVars, UNCHANGED tell,
         Orderly(up'[c], pc[c], status[c], machineId[c]),
         Told(up'[c], pc[c], status[c], machineId[c], current'[c], screen'[c]),
         Settled(down'[c], tell[c].kind, c, machineId[c]),
         Held(c, down'[c], up'[c], current'[c], pc[c], want[c], machineId[c]),
         screen'[c] = "left" => current'[c] = NoMachine,
         screen'[c] # "left" => (current'[c] = NoMachine <=> me'[c] = "idle")
  PROVE  InOrder(c)'
BY DEF InOrder, serverVars

\* A packet that is no request and no leave takes nothing back of what c has asked for.
LEMMA HeldSent ==
  ASSUME NEW u \in Seq(UpPacket), NEW x \in UpPacket, x \notin Asks \cup Quits,
         NEW c, NEW d, NEW cur, NEW p, NEW w, NEW id, Held(c, d, u, cur, p, w, id)
  PROVE  Held(c, d, Append(u, x), cur, p, w, id)
BY AskingAppend DEF Held

\* Nor does a packet that c receives, unless it is told to leave.
LEMMA HeldTail ==
  ASSUME NEW d \in Seq(DownPacket), d # <<>>, NEW c, Head(d) # Left(c),
         NEW u, NEW cur, NEW p, NEW w, NEW id, Held(c, d, u, cur, p, w, id)
  PROVE  Held(c, Tail(d), u, cur, p, w, id)
BY PostedTail DEF Held

\* Sitting down.
LEMMA SitInOrder ==
  ASSUME TypeOK, NEW c \in Conn, InOrder(c), NEW m \in Machine, Sit(c, m)
  PROVE  InOrder(c)'
<1> DEFINE u == up[c]
           v == Append(u, Request(m))
           w == Append(v, Report("waiting"))
           p == pc[c]
           st == status[c]
           id == machineId[c]
<1>1. u \in Seq(UpPacket) /\ up \in [Conn -> Seq(UpPacket)]
  BY DEF TypeOK
<1>2. /\ Request(m) \in UpPacket /\ Report("waiting") \in UpPacket
      /\ Request(m) \in Asks \cap Busies /\ Request(m) \notin Says \cup Idles \cup Quits
      /\ Report("waiting") \in Busies /\ Report("waiting") \notin Asks \cup Says \cup Idles \cup Quits
  BY PacketsTyped, PacketClasses DEF Status
<1>3. up'[c] = w
  BY <1>1, <1>2, Sends DEF Sit, Send
<1>4. v \in Seq(UpPacket)
  BY <1>1, <1>2, AppendProperties
<1>5. /\ current[c] = NoMachine /\ screen[c] = "title" /\ screen' = screen
      /\ current'[c] = m /\ me'[c] = "waiting"
  BY DEF Sit, TypeOK
<1>6. m # NoMachine
  BY Constants
<1>7. Orderly(u, p, st, id) /\ Freed(u, Len(u), p, id) /\ Idled(u, Len(u), p, st)
  BY <1>5 DEF InOrder, Told
<1> HIDE DEF u, p, st, id
<1>8. Orderly(v, p, st, id) /\ Kept(v, Len(v), p, st, id)
  BY <1>1, <1>2, <1>7, Sent DEF v
<1> HIDE DEF v
<1>9. Orderly(w, p, st, id) /\ Kept(w, Len(w), p, st, id)
  BY <1>2, <1>4, <1>8, Sent DEF w
<1>10. Told(w, p, st, id, m, screen[c])
  BY <1>5, <1>6, <1>9 DEF Told
<1>11. Asking(w, m)
  <2>1. Asking(v, m)
    BY <1>1, <1>2, AskingAppend DEF v
  <2> QED
    BY <1>2, <1>4, <2>1, AskingAppend DEF w
<1>12. Held(c, down[c], w, m, p, want[c], id)
  BY <1>11 DEF Held
<1> HIDE DEF w
<1>13. UNCHANGED serverVars /\ UNCHANGED tell /\ down' = down
  BY DEF Sit
<1>14. Settled(down[c], tell[c].kind, c, machineId[c])
  BY DEF InOrder
<1> QED
  BY <1>3, <1>5, <1>6, <1>9, <1>10, <1>12, <1>13, <1>14, ClientKeeps DEF p, st, id

\* Leaving the machine, in whatever order the two packets are sent.
LEMMA LeaveInOrder ==
  ASSUME TypeOK, NEW c \in Conn, InOrder(c), Leave(c) \/ ConnectFailed(c)
  PROVE  InOrder(c)'
<1> DEFINE u == up[c]
           p == pc[c]
           st == status[c]
           id == machineId[c]
<1>1. u \in Seq(UpPacket) /\ up \in [Conn -> Seq(UpPacket)]
  BY DEF TypeOK
<1>2. /\ LeaveArcade \in UpPacket /\ Report("idle") \in UpPacket
      /\ LeaveArcade \in Quits /\ LeaveArcade \notin Asks \cup Says \cup Idles \cup Busies
      /\ Report("idle") \in Idles /\ Report("idle") \notin Asks \cup Says \cup Busies \cup Quits
  BY PacketsTyped, PacketClasses DEF Status
<1>3. PICK x \in {LeaveArcade, Report("idle")}, y \in {LeaveArcade, Report("idle")} :
        x # y /\ up'[c] = Append(Append(u, x), y)
  BY <1>1, <1>2, Sends DEF Leave, ConnectFailed, Send
<1>4. Append(u, x) \in Seq(UpPacket)
  BY <1>1, <1>2, AppendProperties
<1>5. /\ current'[c] = NoMachine /\ me'[c] = "idle" /\ screen[c] = "title" /\ screen' = screen
      /\ UNCHANGED serverVars /\ UNCHANGED tell /\ down' = down
  BY DEF Leave, ConnectFailed, TypeOK
<1>6. Orderly(u, p, st, id) /\ Settled(down[c], tell[c].kind, c, id)
  BY DEF InOrder
<1> DEFINE v == Append(u, x)
           w == Append(v, y)
<1> HIDE DEF u, p, st, id
<1>7. Orderly(v, p, st, id)
  BY <1>1, <1>2, <1>6, Sent DEF v
<1>8. /\ x \in Quits => Freed(v, Len(v), p, id)
      /\ x \in Idles => Idled(v, Len(v), p, st)
  BY <1>1, <1>2, Sent DEF v
<1> HIDE DEF v
<1>9. Orderly(w, p, st, id) /\ Freed(w, Len(w), p, id) /\ Idled(w, Len(w), p, st)
  <2>1. v \in Seq(UpPacket) /\ y \in UpPacket
    BY <1>2, <1>4 DEF v
  <2>2. Orderly(w, p, st, id)
    BY <1>2, <1>7, <2>1, Sent DEF w
  <2>3. CASE x = LeaveArcade /\ y = Report("idle")
    BY <1>2, <1>8, <2>1, <2>2, <2>3, Sent DEF w
  <2>4. CASE x = Report("idle") /\ y = LeaveArcade
    BY <1>2, <1>8, <2>1, <2>2, <2>4, Sent DEF w
  <2> QED
    BY <1>3, <2>3, <2>4
<1> HIDE DEF w
<1>10. Told(w, p, st, id, NoMachine, screen[c])
  BY <1>9 DEF Told
<1>11. Held(c, down[c], w, NoMachine, p, want[c], id)
  BY DEF Held
<1>12. up'[c] = w
  BY <1>3 DEF v, w
<1> QED
  BY <1>5, <1>6, <1>9, <1>10, <1>11, <1>12, ClientKeeps DEF p, st, id

\* Typing /join.
LEMMA SayJoinInOrder ==
  ASSUME TypeOK, NEW c \in Conn, InOrder(c), NEW d \in Conn, SayJoin(c, d)
  PROVE  InOrder(c)'
<1> DEFINE u == up[c]
           v == Append(u, Command(d))
           p == pc[c]
           st == status[c]
           id == machineId[c]
<1>1. u \in Seq(UpPacket) /\ up \in [Conn -> Seq(UpPacket)]
  BY DEF TypeOK
<1>2. /\ Command(d) \in UpPacket
      /\ Command(d) \in Says /\ Command(d) \notin Asks \cup Idles \cup Quits \cup Busies
  BY PacketsTyped, PacketClasses
<1>3. up'[c] = v
  BY <1>1, <1>2, Sends DEF SayJoin, Send
<1>4. /\ screen[c] \in {"title", "game"} /\ UNCHANGED <<screen, current, me, down, tell>>
      /\ UNCHANGED serverVars
  BY DEF SayJoin
<1>5. /\ Orderly(u, p, st, id) /\ Told(u, p, st, id, current[c], screen[c])
      /\ Settled(down[c], tell[c].kind, c, id)
      /\ Held(c, down[c], u, current[c], p, want[c], id)
      /\ screen[c] # "left" => (current[c] = NoMachine <=> me[c] = "idle")
  BY DEF InOrder
<1> HIDE DEF u, p, st, id
<1>6. Freed(u, Len(u), p, id) \/ Kept(u, Len(u), p, st, id)
  BY <1>4, <1>5 DEF Told
<1>7. Orderly(v, p, st, id) /\ Told(v, p, st, id, current[c], screen[c])
  BY <1>1, <1>2, <1>5, <1>6, Sent DEF Told
<1>8. Held(c, down[c], v, current[c], p, want[c], id)
  BY <1>1, <1>2, <1>5, HeldSent
<1> HIDE DEF v
<1> QED
  BY <1>3, <1>4, <1>5, <1>7, <1>8, ClientKeeps DEF p, st, id

\* A player at a machine says that it is busy.
LEMMA BusySent ==
  ASSUME NEW u \in Seq(UpPacket), NEW x \in UpPacket,
         x \in Busies, x \notin Asks \cup Says \cup Idles \cup Quits,
         NEW p, NEW st, NEW id, NEW cur, NEW scr, cur # NoMachine, scr # "reported",
         Orderly(u, p, st, id), Told(u, p, st, id, cur, scr)
  PROVE  /\ Orderly(Append(u, x), p, st, id)
         /\ Told(Append(u, x), p, st, id, cur, scr)
<1>1. Kept(u, Len(u), p, st, id)
  BY DEF Told
<1> QED
  BY <1>1, Sent DEF Told

\* A client without a machine, or back from its game, reports that it is idle.
LEMMA IdleSent ==
  ASSUME NEW u \in Seq(UpPacket),
         NEW p, NEW st, NEW id, NEW cur, NEW scr, cur = NoMachine \/ scr = "reported",
         Orderly(u, p, st, id), cur = NoMachine => Freed(u, Len(u), p, id)
  PROVE  /\ Orderly(Append(u, Report("idle")), p, st, id)
         /\ Told(Append(u, Report("idle")), p, st, id, cur, scr)
<1> DEFINE x == Report("idle")
<1>1. x \in UpPacket /\ x \in Idles /\ x \notin Asks \cup Says \cup Busies \cup Quits
  BY PacketsTyped, PacketClasses DEF Status
<1> HIDE DEF x
<1>2. /\ Orderly(Append(u, x), p, st, id)
      /\ Told(Append(u, x), p, st, id, cur, scr)
  BY <1>1, Sent DEF Told
<1> QED
  BY <1>2 DEF x

\* An opponent from the host list.
LEMMA FoundOpponentInOrder ==
  ASSUME TypeOK, NEW c \in Conn, InOrder(c), FoundOpponent(c)
  PROVE  InOrder(c)'
<1> DEFINE u == up[c]
           v == Append(u, Report("playing"))
           w == Append(v, Started)
           p == pc[c]
           st == status[c]
           id == machineId[c]
<1>1. u \in Seq(UpPacket) /\ up \in [Conn -> Seq(UpPacket)]
  BY DEF TypeOK
<1>2. /\ Report("playing") \in UpPacket /\ Started \in UpPacket
      /\ Report("playing") \in Busies
      /\ Report("playing") \notin Asks \cup Says \cup Idles \cup Quits
      /\ Started \in Busies /\ Started \notin Asks \cup Says \cup Idles \cup Quits
  BY PacketsTyped, PacketClasses DEF Status
<1>3. up'[c] = w
  BY <1>1, <1>2, Sends DEF FoundOpponent, Send
<1>4. v \in Seq(UpPacket)
  BY <1>1, <1>2, AppendProperties
<1>5. /\ screen[c] = "game" /\ me[c] = "waiting" /\ me'[c] = "playing"
      /\ UNCHANGED <<screen, current, down, tell>> /\ UNCHANGED serverVars
  BY DEF FoundOpponent, TypeOK
<1>6. /\ Orderly(u, p, st, id) /\ Told(u, p, st, id, current[c], screen[c])
      /\ Settled(down[c], tell[c].kind, c, id)
      /\ Held(c, down[c], u, current[c], p, want[c], id)
      /\ current[c] # NoMachine
  BY <1>5 DEF InOrder
<1> HIDE DEF u, p, st, id
<1>7. /\ Orderly(v, p, st, id) /\ Told(v, p, st, id, current[c], screen[c])
      /\ Held(c, down[c], v, current[c], p, want[c], id)
  BY <1>1, <1>2, <1>5, <1>6, BusySent, HeldSent DEF v
<1> HIDE DEF v
<1>8. /\ Orderly(w, p, st, id) /\ Told(w, p, st, id, current[c], screen[c])
      /\ Held(c, down[c], w, current[c], p, want[c], id)
  BY <1>2, <1>4, <1>5, <1>6, <1>7, BusySent, HeldSent DEF w
<1> HIDE DEF w
<1> QED
  BY <1>3, <1>5, <1>6, <1>8, ClientKeeps DEF p, st, id

\* Going to the game, and coming back from it.
LEMMA BackInOrder ==
  ASSUME TypeOK, NEW c \in Conn, InOrder(c), Play(c) \/ Back(c) \/ BackLeave(c) \/ BackIdle(c)
  PROVE  InOrder(c)'
<1> DEFINE u == up[c]
           p == pc[c]
           st == status[c]
           id == machineId[c]
<1>1. u \in Seq(UpPacket) /\ up \in [Conn -> Seq(UpPacket)]
  BY DEF TypeOK
<1>2. /\ Orderly(u, p, st, id) /\ Told(u, p, st, id, current[c], screen[c])
      /\ Settled(down[c], tell[c].kind, c, id)
      /\ Held(c, down[c], u, current[c], p, want[c], id)
      /\ screen[c] = "left" => current[c] = NoMachine
      /\ screen[c] # "left" => (current[c] = NoMachine <=> me[c] = "idle")
  BY DEF InOrder
<1>3. /\ LeaveArcade \in UpPacket /\ Report("idle") \in UpPacket
      /\ LeaveArcade \in Quits /\ LeaveArcade \notin Asks \cup Says \cup Idles \cup Busies
      /\ Report("idle") \notin Asks \cup Quits
  BY PacketsTyped, PacketClasses DEF Status
<1> HIDE DEF u, p, st, id
<1>4. CASE Play(c)
  <2>1. /\ screen[c] = "title" /\ screen'[c] = "game"
        /\ UNCHANGED <<up, current, me, down, tell>> /\ UNCHANGED serverVars
    BY <1>4 DEF Play, TypeOK
  <2>2. Told(u, p, st, id, current[c], "game")
    BY <1>2, <2>1 DEF Told
  <2> QED
    BY <1>2, <2>1, <2>2, ClientKeeps DEF u, p, st, id
<1>5. CASE Back(c)
  <2> DEFINE v == Append(u, Report("idle"))
  <2>1. /\ screen[c] = "game" /\ screen'[c] = "reported" /\ up'[c] = v
        /\ UNCHANGED <<current, me, down, tell>> /\ UNCHANGED serverVars
    BY <1>1, <1>3, <1>5, Sends DEF Back, Send, TypeOK, u
  <2>2. Orderly(v, p, st, id) /\ Told(v, p, st, id, current[c], "reported")
    BY <1>1, <1>2, IdleSent DEF Told
  <2>3. Held(c, down[c], v, current[c], p, want[c], id)
    BY <1>1, <1>2, <1>3, HeldSent
  <2> HIDE DEF v
  <2> QED
    BY <1>2, <2>1, <2>2, <2>3, ClientKeeps DEF p, st, id
<1>6. CASE BackLeave(c)
  <2> DEFINE v == Append(u, LeaveArcade)
  <2>1. /\ screen[c] = "reported" /\ screen'[c] = "left" /\ up'[c] = v /\ current'[c] = NoMachine
        /\ UNCHANGED <<me, down, tell>> /\ UNCHANGED serverVars
    BY <1>1, <1>3, <1>6, Sends DEF BackLeave, Send, TypeOK, u
  <2>2. Idled(u, Len(u), p, st)
    BY <1>2, <2>1 DEF Told
  <2>3. Orderly(v, p, st, id) /\ Told(v, p, st, id, NoMachine, "left")
    BY <1>1, <1>2, <1>3, <2>2, Sent DEF Told
  <2>4. Held(c, down[c], v, NoMachine, p, want[c], id)
    BY DEF Held
  <2> HIDE DEF v
  <2> QED
    BY <1>2, <2>1, <2>3, <2>4, ClientKeeps DEF p, st, id
<1>7. CASE BackIdle(c)
  <2>1. /\ screen[c] = "left" /\ screen'[c] = "title" /\ me'[c] = "idle"
        /\ UNCHANGED <<up, current, down, tell>> /\ UNCHANGED serverVars
    BY <1>7 DEF BackIdle, TypeOK
  <2>2. current[c] = NoMachine /\ Told(u, p, st, id, current[c], "title")
    BY <1>2, <2>1 DEF Told
  <2> QED
    BY <1>2, <2>1, <2>2, ClientKeeps DEF u, p, st, id
<1> QED
  BY <1>4, <1>5, <1>6, <1>7

\* The position thread.
LEMMA ReportsInOrder ==
  ASSUME TypeOK, NEW c \in Conn, InOrder(c), Snapshot(c) \/ SendSnapshot(c), c \notin excused'
  PROVE  InOrder(c)'
<1>1. CASE Snapshot(c)
  BY <1>1, ClientKeeps DEF Snapshot, InOrder
<1>2. CASE SendSnapshot(c)
  <2> DEFINE u == up[c]
             x == Report(me[c])
             v == Append(u, x)
             p == pc[c]
             st == status[c]
             id == machineId[c]
  <2>1. u \in Seq(UpPacket) /\ up \in [Conn -> Seq(UpPacket)] /\ me[c] \in Status
    BY DEF TypeOK
  <2>2. /\ snapshot[c] = x /\ screen[c] \notin {"reported", "left"}
        /\ UNCHANGED <<current, me, screen, down, tell>> /\ UNCHANGED serverVars
    BY <1>2 DEF SendSnapshot
  <2>3. /\ x \in UpPacket /\ x \notin Asks \cup Says \cup Quits
        /\ x \in Idles <=> me[c] = "idle"
        /\ x \in Busies <=> me[c] # "idle"
    BY <2>1, PacketsTyped, PacketClasses
  <2>4. up'[c] = v
    BY <1>2, <2>1, <2>2, <2>3, Sends DEF SendSnapshot, Send
  <2>5. /\ Orderly(u, p, st, id) /\ Told(u, p, st, id, current[c], screen[c])
        /\ Settled(down[c], tell[c].kind, c, id)
        /\ Held(c, down[c], u, current[c], p, want[c], id)
        /\ current[c] = NoMachine <=> me[c] = "idle"
    BY <2>2 DEF InOrder
  <2> HIDE DEF u, p, st, id
  <2>6. Orderly(v, p, st, id) /\ Told(v, p, st, id, current[c], screen[c])
    <3>1. CASE me[c] = "idle"
      BY <2>1, <2>5, <3>1, IdleSent DEF Told
    <3>2. CASE me[c] # "idle"
      BY <2>1, <2>2, <2>3, <2>5, <3>2, BusySent
    <3> QED
      BY <3>1, <3>2
  <2>7. Held(c, down[c], v, current[c], p, want[c], id)
    BY <2>1, <2>3, <2>5, HeldSent
  <2> HIDE DEF v
  <2> QED
    BY <2>2, <2>4, <2>5, <2>6, <2>7, ClientKeeps DEF p, st, id
<1> QED
  BY <1>1, <1>2

\* Somebody has sat down.
LEMMA EngageInOrder ==
  ASSUME TypeOK, NEW c \in Conn, InOrder(c), OnArcadeEngage(c)
  PROVE  InOrder(c)'
<1> DEFINE d == down[c]
<1>1. d \in Seq(DownPacket) /\ d # <<>> /\ Head(d).kind = "ArcadeEngage" /\ down'[c] = Tail(d)
  BY DEF OnArcadeEngage, Gets, Consume, TypeOK
<1>2. Head(d) # Left(c)
  BY <1>1, PacketFields
<1>3. UNCHANGED <<up, current, me, screen, tell>> /\ UNCHANGED serverVars
  BY DEF OnArcadeEngage
<1>4. /\ Settled(d, tell[c].kind, c, machineId[c])
      /\ Held(c, d, up[c], current[c], pc[c], want[c], machineId[c])
  BY DEF InOrder
<1> HIDE DEF d
<1>5. /\ Settled(Tail(d), tell[c].kind, c, machineId[c])
      /\ Held(c, Tail(d), up[c], current[c], pc[c], want[c], machineId[c])
  BY <1>1, <1>2, <1>4, PostedTail, HeldTail
<1> QED
  BY <1>1, <1>3, <1>5, ClientKeeps DEF InOrder

\* Somebody has left, perhaps c itself: then the server has not got it at a machine, unless
\* c has asked for another one since, and it is excused.
LEMMA ArcadeLeaveInOrder ==
  ASSUME TypeOK, NEW c \in Conn, InOrder(c), OnArcadeLeave(c), c \notin excused'
  PROVE  InOrder(c)'
<1> DEFINE d == down[c]
           u == up[c]
           p == pc[c]
           st == status[c]
           id == machineId[c]
<1>1. /\ d \in Seq(DownPacket) /\ d # <<>> /\ Head(d).kind = "ArcadeLeave" /\ down'[c] = Tail(d)
      /\ u \in Seq(UpPacket) /\ up \in [Conn -> Seq(UpPacket)]
  BY DEF OnArcadeLeave, Gets, Consume, TypeOK
<1>2. UNCHANGED <<screen, tell>> /\ UNCHANGED serverVars
  BY DEF OnArcadeLeave
<1>3. /\ Orderly(u, p, st, id) /\ Told(u, p, st, id, current[c], screen[c])
      /\ Settled(d, tell[c].kind, c, id)
      /\ Held(c, d, u, current[c], p, want[c], id)
      /\ screen[c] = "left" => current[c] = NoMachine
      /\ screen[c] # "left" => (current[c] = NoMachine <=> me[c] = "idle")
  BY DEF InOrder
<1>4. Settled(Tail(d), tell[c].kind, c, id)
  BY <1>1, <1>3, PostedTail
<1>5. CASE Head(d).player # c
  <2>1. UNCHANGED <<current, me, up>>
    BY <1>5 DEF OnArcadeLeave
  <2>2. Head(d) # Left(c)
    BY <1>5, PacketFields
  <2> HIDE DEF d, u
  <2>3. Held(c, Tail(d), u, current[c], p, want[c], id)
    BY <1>1, <1>3, <2>2, HeldTail
  <2> QED
    BY <1>1, <1>2, <1>3, <1>4, <2>1, <2>3, ClientKeeps DEF u, p, st, id
<1>6. CASE Head(d).player = c
  <2> DEFINE v == Append(u, Report("idle"))
  <2>1. /\ current'[c] = NoMachine /\ me'[c] = "idle"
        /\ current[c] = NoMachine \/ ~Unanswered(c)
    BY <1>6 DEF OnArcadeLeave, TypeOK
  <2>2. up'[c] = v
    <3>1. Report("idle") \in UpPacket
      BY PacketsTyped DEF Status
    <3> QED
      BY <1>1, <1>6, <3>1, Sends DEF OnArcadeLeave, Send
  <2>3. Freed(u, Len(u), p, id)
    <3>1. CASE current[c] = NoMachine
      BY <1>3, <3>1 DEF Told
    <3>2. CASE ~Unanswered(c)
      <4>1. Head(d) = Left(c)
        BY <1>1, <1>6, DownKinds, HeadTailProperties, PacketFields
      <4>2. d[1] = Left(c) /\ 1 \in 1..Len(d)
        BY <1>1, <4>1, HeadTailProperties, LenProperties, EmptySeq
      <4>3. \A j \in 2..Len(d) : ~Own(d[j], c)
        BY <3>2 DEF Unanswered, Own
      <4>4. tell[c].kind # "ArcadeEngage" /\ p # "request"
        BY <3>2 DEF Unanswered
      <4>5. id = NoMachine
        BY <1>3, <4>2, <4>3, <4>4 DEF Settled
      <4>6. ~Seat(p, id)
        BY <4>4, <4>5 DEF Seat
      <4>7. \A i \in 1..Len(u) : u[i] \notin Asks
        BY <3>2, PacketFields DEF Unanswered, Asks
      <4> QED
        BY <4>6, <4>7 DEF Freed, Undone
    <3> QED
      BY <2>1, <3>1, <3>2
  <2> HIDE DEF d, u, p, st, id
  <2>4. Orderly(v, p, st, id) /\ Told(v, p, st, id, NoMachine, screen[c])
    BY <1>1, <1>3, <2>3, IdleSent
  <2>5. Held(c, Tail(d), v, NoMachine, p, want[c], id)
    BY DEF Held
  <2> HIDE DEF v
  <2> QED
    BY <1>1, <1>2, <1>4, <2>1, <2>2, <2>4, <2>5, ClientKeeps DEF p, st, id
<1> QED
  BY <1>5, <1>6

\* A request to host, or to connect.
LEMMA HostInOrder ==
  ASSUME TypeOK, NEW c \in Conn, InOrder(c), OnHostRequest(c) \/ OnConnectRequest(c),
         c \notin excused'
  PROVE  InOrder(c)'
<1> DEFINE d == down[c]
           u == up[c]
           p == pc[c]
           st == status[c]
           id == machineId[c]
<1>1. /\ d \in Seq(DownPacket) /\ d # <<>> /\ Head(d).kind # "ArcadeLeave" /\ down'[c] = Tail(d)
      /\ u \in Seq(UpPacket) /\ up \in [Conn -> Seq(UpPacket)]
  BY DEF OnHostRequest, OnConnectRequest, Gets, Consume, TypeOK
<1>2. UNCHANGED <<screen, tell, current>> /\ UNCHANGED serverVars
  BY DEF OnHostRequest, OnConnectRequest
<1>3. ~Gone(c)
  BY DEF OnHostRequest, OnConnectRequest
<1>4. /\ Orderly(u, p, st, id) /\ Told(u, p, st, id, current[c], screen[c])
      /\ Settled(d, tell[c].kind, c, id)
      /\ Held(c, d, u, current[c], p, want[c], id)
      /\ screen[c] = "left" => current[c] = NoMachine
      /\ screen[c] # "left" => (current[c] = NoMachine <=> me[c] = "idle")
  BY DEF InOrder
<1>5. current[c] # NoMachine /\ screen[c] \notin {"reported", "left"} /\ me[c] # "idle"
  BY <1>3, <1>4 DEF Gone
<1>6. Head(d) # Left(c)
  BY <1>1, PacketFields
<1>7. Settled(Tail(d), tell[c].kind, c, id) /\ Held(c, Tail(d), u, current[c], p, want[c], id)
  BY <1>1, <1>4, <1>6, PostedTail, HeldTail
<1>8. \A x \in {Started, Report("playing"), Report("spectating")} :
        x \in UpPacket /\ x \in Busies /\ x \notin Asks \cup Says \cup Idles \cup Quits
  BY PacketsTyped, PacketClasses DEF Status
<1>9. /\ me'[c] # "idle"
      /\ \/ \E x \in {Started, Report("playing"), Report("spectating")} : Send(c, <<x>>)
         \/ Send(c, <<Report("playing"), Started>>)
  <2>1. CASE OnHostRequest(c)
    BY <1>5, <2>1 DEF OnHostRequest, TypeOK
  <2>2. CASE OnConnectRequest(c)
    BY <2>2 DEF OnConnectRequest, TypeOK
  <2> QED
    BY <2>1, <2>2
<1>10. /\ Orderly(up'[c], p, st, id)
       /\ Told(up'[c], p, st, id, current[c], screen[c])
       /\ Held(c, Tail(d), up'[c], current[c], p, want[c], id)
  <2>1. CASE \E x \in {Started, Report("playing"), Report("spectating")} : Send(c, <<x>>)
    <3>1. PICK x \in {Started, Report("playing"), Report("spectating")} : Send(c, <<x>>)
      BY <2>1
    <3> HIDE DEF u, p, st, id, d
    <3>2. up'[c] = Append(u, x)
      BY <1>1, <1>8, <3>1, Sends DEF Send, u
    <3> QED
      BY <1>1, <1>4, <1>5, <1>7, <1>8, <3>2, BusySent, HeldSent
  <2>2. CASE Send(c, <<Report("playing"), Started>>)
    <3> DEFINE v == Append(u, Report("playing"))
    <3> HIDE DEF u, p, st, id, d
    <3>1. up'[c] = Append(v, Started)
      BY <1>1, <1>8, <2>2, Sends DEF Send, u
    <3>2. /\ v \in Seq(UpPacket) /\ Orderly(v, p, st, id)
          /\ Told(v, p, st, id, current[c], screen[c])
          /\ Held(c, Tail(d), v, current[c], p, want[c], id)
      BY <1>1, <1>4, <1>5, <1>7, <1>8, BusySent, HeldSent, AppendProperties
    <3> HIDE DEF v
    <3> QED
      BY <1>4, <1>5, <1>8, <3>1, <3>2, BusySent, HeldSent
  <2> QED
    BY <1>9, <2>1, <2>2
<1> HIDE DEF d, u
<1> QED
  BY <1>1, <1>2, <1>5, <1>7, <1>9, <1>10, ClientKeeps DEF p, st, id

\* A step of c's client is its own: the server's state and the other clients stay.
LEMMA ClientFrame ==
  ASSUME TypeOK, NEW c \in Conn, Client(c)
  PROVE  /\ UNCHANGED serverVars /\ UNCHANGED tell /\ UNCHANGED deserted
         /\ excused \subseteq excused'
         /\ \A d \in Conn \ {c} :
              /\ up'[d] = up[d] /\ down'[d] = down[d] /\ me'[d] = me[d]
              /\ current'[d] = current[d] /\ screen'[d] = screen[d]
<1> USE DEF Client, Sit, Leave, SayJoin, ConnectFailed, Play, FoundOpponent, Back, BackLeave,
            BackIdle, Snapshot, SendSnapshot, OnArcadeEngage, OnArcadeLeave, OnHostRequest,
            OnConnectRequest
<1>1. UNCHANGED serverVars /\ UNCHANGED tell /\ UNCHANGED deserted /\ excused \subseteq excused'
  OBVIOUS
<1>2. \A d \in Conn \ {c} : up'[d] = up[d] /\ down'[d] = down[d]
  <2>1. up \in [Conn -> Seq(UpPacket)] /\ down \in [Conn -> Seq(DownPacket)]
    BY DEF TypeOK
  <2> QED
    BY <2>1 DEF Send, Consume
<1>3. \A d \in Conn \ {c} :
        me'[d] = me[d] /\ current'[d] = current[d] /\ screen'[d] = screen[d]
  <2>1. /\ me \in [Conn -> Status] /\ current \in [Conn -> Machine \cup {NoMachine}]
        /\ screen \in [Conn -> {"title", "game", "reported", "left"}]
    BY DEF TypeOK
  <2> QED
    BY <2>1
<1> QED
  BY <1>1, <1>2, <1>3

\* No step of c's client puts a player out of order, but those it excuses.
LEMMA ClientInOrder ==
  ASSUME ProtocolInv, NEW c \in Conn, Client(c), NEW d \in Conn \ excused'
  PROVE  InOrder(d)'
<1>1. TypeOK
  BY DEF ProtocolInv
<1>2. excused \subseteq excused'
  BY <1>1, ClientFrame
<1>3. InOrder(d)
  BY <1>2 DEF ProtocolInv
<1>4. CASE d = c
  BY <1>1, <1>3, <1>4, SitInOrder, LeaveInOrder, SayJoinInOrder, FoundOpponentInOrder,
     BackInOrder, ReportsInOrder, EngageInOrder, ArcadeLeaveInOrder, HostInOrder DEF Client
<1>5. CASE d # c
  BY <1>1, <1>3, <1>5, ClientFrame, Untouched DEF serverVars
<1> QED
  BY <1>4, <1>5

-----------------------------------------------------------------------------
(* The server's steps keep it in order.                                    *)

\* What to show of a step of c's net thread about c itself.
LEMMA ServerKeeps ==
  ASSUME NEW c \in Conn, InOrder(c), UNCHANGED <<me, current, screen>>,
         Orderly(up'[c], pc'[c], status'[c], machineId'[c]),
         Told(up'[c], pc'[c], status'[c], machineId'[c], current[c], screen[c]),
         Settled(down'[c], tell'[c].kind, c, machineId'[c]),
         Held(c, down'[c], up'[c], current[c], pc'[c], want'[c], machineId'[c]),
         Fits(c, machines', machineId'[c]),
         pc'[c] = "request" => status'[c] = "idle" /\ machineId'[c] = NoMachine,
         pc'[c] = "command" /\ status'[c] = "idle" => machineId'[c] = NoMachine
  PROVE  InOrder(c)'
BY DEF InOrder

\* A packet that is no request and no leave is received; so is a leave.
LEMMA HeldReceived ==
  ASSUME NEW u \in Seq(UpPacket), u # <<>>, NEW c, NEW d, NEW cur, NEW p, NEW w, NEW id,
         Held(c, d, u, cur, p, w, id),
         NEW p2, NEW w2, NEW id2
  PROVE  /\ \A m : cur # NoMachine /\ Head(u) = Request(m) /\ Head(u) \in Asks
                     => Held(c, d, Tail(u), cur, "request", m, id)
         /\ Head(u) \notin Asks /\ p # "request" /\ p2 # "request" /\ id2 = id
              => Held(c, d, Tail(u), cur, p2, w2, id2)
         /\ Head(u) \in Quits => Held(c, d, Tail(u), cur, p2, w2, id2)
<1>1. /\ Asking(u, cur) => Asking(Tail(u), cur) \/ (Head(u) = Request(cur) /\ Silent(Tail(u)))
      /\ Silent(u) => Silent(Tail(u)) /\ Head(u) \notin Asks \cup Quits
  BY AskingTail
<1>2. \A m : Request(cur) = Request(m) => cur = m
  BY PacketFields
<1>3. \A m : Request(m) \notin Quits
  BY PacketClasses
<1>4. \A m : cur # NoMachine /\ Head(u) = Request(m) /\ Head(u) \in Asks
               => Held(c, d, Tail(u), cur, "request", m, id)
  BY <1>1, <1>2 DEF Held
<1>5. Asking(u, cur) /\ Head(u) \notin Asks => Asking(Tail(u), cur)
  <2> SUFFICES ASSUME Asking(u, cur), Head(u) \notin Asks, Head(u) = Request(cur)
               PROVE  Asking(Tail(u), cur)
    BY <1>1
  <2>1. Head(u) \in UpPacket
    BY HeadTailProperties
  <2>2. Head(u).kind = "GameRequest"
    BY PacketFields
  <2> QED
    BY <2>1, <2>2, UpKinds DEF Asks
<1>6. Head(u) \notin Asks /\ p # "request" /\ p2 # "request" /\ id2 = id
        => Held(c, d, Tail(u), cur, p2, w2, id2)
  BY <1>1, <1>5 DEF Held
<1>7. Head(u) \in Quits => Held(c, d, Tail(u), cur, p2, w2, id2)
  BY <1>1, <1>3 DEF Held
<1> QED
  BY <1>4, <1>6, <1>7

\* A status report.
LEMMA ReportInOrder ==
  ASSUME TypeOK, NEW c \in Conn, InOrder(c), TakeReport(c)
  PROVE  InOrder(c)'
<1> DEFINE u == up[c]
           st2 == Head(u).status
           p == pc[c]
           st == status[c]
           id == machineId[c]
<1>1. u \in Seq(UpPacket) /\ u # <<>> /\ Head(u) \in UpPacket /\ up'[c] = Tail(u)
  BY ReportStep, QueueTypes DEF Takes, TypeOK
<1>2. p = "ready" /\ pc' = pc /\ want' = want
  BY ReportStep
<1>3. PICK s \in Status : Head(u) = Report(s)
  BY <1>1, ReportStep, UpKinds DEF Takes
<1>4. status'[c] = s /\ UNCHANGED <<machineId, machines, tell, down>> /\ UNCHANGED clientVars
  <2>1. st2 = s
    BY <1>3, PacketFields
  <2>2. status' = [status EXCEPT ![c] = st2]
    BY ReportStep
  <2>3. status \in [Conn -> Status]
    BY DEF TypeOK
  <2> HIDE DEF st2
  <2>4. status'[c] = s
    BY <2>1, <2>2, <2>3
  <2> QED
    BY <2>4, ReportStep
<1>5. /\ Head(u) \notin Asks \cup Says \cup Quits
      /\ Head(u) \in Idles <=> s = "idle"
      /\ Head(u) \in Busies <=> s # "idle"
  BY <1>3, PacketClasses
<1>6. /\ Orderly(u, p, st, id) /\ Told(u, p, st, id, current[c], screen[c])
      /\ Settled(down[c], tell[c].kind, c, id)
      /\ Held(c, down[c], u, current[c], p, want[c], id)
      /\ Fits(c, machines, id)
  BY DEF InOrder
<1> HIDE DEF u, p, st, id
<1>7. /\ Seat(p, id) => Head(u) \in Asks \/ (Seat(p, id) /\ Head(u) \notin Quits)
      /\ Busy(p, s) => Head(u) \in Busies \/ (Busy(p, st) /\ Head(u) \notin Idles)
      /\ Odd(p, s, id) => Head(u) \in Idles \/ (Odd(p, st, id) /\ Head(u) \notin Asks)
  BY <1>2, <1>5 DEF Busy, Odd
<1>8. Orderly(Tail(u), p, s, id) /\ Told(Tail(u), p, s, id, current[c], screen[c])
  BY <1>1, <1>6, <1>7, Received
<1>9. Held(c, down[c], Tail(u), current[c], p, want[c], id)
  BY <1>1, <1>2, <1>5, <1>6, HeldReceived
<1> QED
  BY <1>1, <1>2, <1>4, <1>6, <1>8, <1>9, ServerKeeps DEF p, id, clientVars

\* A request: whoever is in order has left the last machine and is idle.
LEMMA RequestInOrder ==
  ASSUME TypeOK, NEW c \in Conn, InOrder(c), TakeRequest(c)
  PROVE  InOrder(c)'
<1> DEFINE u == up[c]
           p == pc[c]
           st == status[c]
           id == machineId[c]
<1>1. u \in Seq(UpPacket) /\ u # <<>> /\ Head(u) \in UpPacket /\ up'[c] = Tail(u)
  BY RequestStep, QueueTypes DEF Takes, TypeOK
<1>2. PICK m \in Machine : Head(u) = Request(m)
  BY <1>1, RequestStep, UpKinds DEF Takes
<1>3. p = "ready" /\ pc'[c] = "request" /\ want'[c] = m
  <2> DEFINE m2 == Head(u).machine
  <2>1. m2 = m
    BY <1>2, PacketFields
  <2>2. /\ p = "ready"
        /\ pc' = [pc EXCEPT ![c] = "request"]
        /\ want' = [want EXCEPT ![c] = m2]
    BY RequestStep
  <2>3. /\ pc \in [Conn -> {"ready", "request", "command", "starting"}]
        /\ want \in [Conn -> Machine \cup {NoMachine}]
    BY DEF TypeOK
  <2> HIDE DEF m2
  <2> QED
    BY <2>1, <2>2, <2>3
<1>4. UNCHANGED <<status, machineId, machines, tell, down>> /\ UNCHANGED clientVars
  BY RequestStep
<1>5. Head(u) \in Asks /\ Head(u) \in Busies /\ Head(u) \notin Quits
  BY <1>2, PacketClasses
<1>6. /\ Orderly(u, p, st, id) /\ Told(u, p, st, id, current[c], screen[c])
      /\ Settled(down[c], tell[c].kind, c, id)
      /\ Held(c, down[c], u, current[c], p, want[c], id)
      /\ Fits(c, machines, id)
  BY DEF InOrder
<1>7. st = "idle" /\ id = NoMachine
  <2>1. 1 \in 1..Len(u) /\ u[1] = Head(u) /\ 1 - 1 = 0
    BY <1>1, HeadTailProperties, LenProperties, EmptySeq
  <2>2. Freed(u, 0, p, id) /\ Idled(u, 0, p, st)
    BY <1>5, <1>6, <2>1 DEF Orderly
  <2>3. ~Seat(p, id) /\ ~Busy(p, st)
    BY <2>2 DEF Freed, Idled, Undone
  <2> QED
    BY <2>3 DEF Seat, Busy
<1> HIDE DEF u, p, st, id
<1>8. /\ Seat("request", id) => Head(u) \in Asks \/ (Seat(p, id) /\ Head(u) \notin Quits)
      /\ Busy("request", st) => Head(u) \in Busies \/ (Busy(p, st) /\ Head(u) \notin Idles)
      /\ ~Odd("request", st, id)
  BY <1>5 DEF Odd
<1>9. /\ Orderly(Tail(u), "request", st, id)
      /\ Told(Tail(u), "request", st, id, current[c], screen[c])
  BY <1>1, <1>6, <1>8, Received
<1>10. Held(c, down[c], Tail(u), current[c], "request", m, id)
  <2>1. CASE current[c] = NoMachine
    BY <2>1 DEF Held
  <2>2. CASE current[c] # NoMachine
    BY <1>1, <1>2, <1>5, <1>6, <2>2, HeldReceived
  <2> QED
    BY <2>1, <2>2
<1> QED
  BY <1>1, <1>3, <1>4, <1>6, <1>7, <1>9, <1>10, ServerKeeps DEF st, id, clientVars

\* A /join.
LEMMA CommandInOrder ==
  ASSUME TypeOK, NEW c \in Conn, InOrder(c), TakeCommand(c)
  PROVE  InOrder(c)'
<1> DEFINE u == up[c]
           p == pc[c]
           p2 == pc'[c]
           st == status[c]
           id == machineId[c]
<1>1. u \in Seq(UpPacket) /\ u # <<>> /\ Head(u) \in UpPacket /\ up'[c] = Tail(u)
  BY CommandStep, QueueTypes DEF Takes, TypeOK
<1>2. PICK d \in Conn : Head(u) = Command(d)
  BY <1>1, CommandStep, UpKinds DEF Takes
<1>3. p = "ready" /\ p2 \in {"ready", "command"}
  BY CommandStep DEF TypeOK
<1>4. UNCHANGED <<status, machineId, machines, tell, down>> /\ UNCHANGED clientVars
  BY CommandStep
<1>5. Head(u) \in Says /\ Head(u) \notin Asks \cup Idles \cup Quits \cup Busies
  BY <1>2, PacketClasses
<1>6. /\ Orderly(u, p, st, id) /\ Told(u, p, st, id, current[c], screen[c])
      /\ Settled(down[c], tell[c].kind, c, id)
      /\ Held(c, down[c], u, current[c], p, want[c], id)
      /\ Fits(c, machines, id)
  BY DEF InOrder
<1>7. st = "idle" => id = NoMachine
  <2>1. 1 \in 1..Len(u) /\ u[1] = Head(u) /\ 1 - 1 = 0
    BY <1>1, HeadTailProperties, LenProperties, EmptySeq
  <2>2. Freed(u, 0, p, id) \/ Kept(u, 0, p, st, id)
    BY <1>5, <1>6, <2>1 DEF Orderly
  <2>3. ~Seat(p, id) \/ ~Odd(p, st, id)
    BY <2>2 DEF Freed, Kept, Undone
  <2> QED
    BY <1>3, <2>3 DEF Seat, Odd
<1> HIDE DEF u, p, p2, st, id
<1>8. /\ Seat(p2, id) => Head(u) \in Asks \/ (Seat(p, id) /\ Head(u) \notin Quits)
      /\ Busy(p2, st) => Head(u) \in Busies \/ (Busy(p, st) /\ Head(u) \notin Idles)
      /\ Odd(p2, st, id) => Head(u) \in Idles \/ (Odd(p, st, id) /\ Head(u) \notin Asks)
  BY <1>3, <1>5 DEF Seat, Busy, Odd
<1>9. Orderly(Tail(u), p2, st, id) /\ Told(Tail(u), p2, st, id, current[c], screen[c])
  BY <1>1, <1>6, <1>8, Received
<1>10. Held(c, down[c], Tail(u), current[c], p2, want'[c], id)
  BY <1>1, <1>3, <1>5, <1>6, HeldReceived
<1> QED
  BY <1>1, <1>3, <1>4, <1>6, <1>7, <1>9, <1>10, ServerKeeps DEF p2, st, id, clientVars

\* The /join is ignored.
LEMMA IgnoreInOrder ==
  ASSUME TypeOK, NEW c \in Conn, InOrder(c), IgnoreCommand(c)
  PROVE  InOrder(c)'
<1> DEFINE p == pc[c]
           st == status[c]
           id == machineId[c]
<1>1. p = "command" /\ pc'[c] = "ready"
  BY IgnoreStep DEF TypeOK
<1>2. UNCHANGED <<status, machineId, machines, tell, down, up>> /\ UNCHANGED clientVars
  BY IgnoreStep
<1>3. /\ Orderly(up[c], p, st, id) /\ Told(up[c], p, st, id, current[c], screen[c])
      /\ Settled(down[c], tell[c].kind, c, id)
      /\ Held(c, down[c], up[c], current[c], p, want[c], id)
      /\ Fits(c, machines, id)
  BY DEF InOrder
<1> HIDE DEF p, st, id
<1>4. /\ Seat("ready", id) => Seat(p, id)
      /\ Busy("ready", st) => Busy(p, st)
      /\ Odd("ready", st, id) => Odd(p, st, id)
  BY <1>1 DEF Seat, Busy, Odd
<1>5. Orderly(up[c], "ready", st, id) /\ Told(up[c], "ready", st, id, current[c], screen[c])
  BY <1>3, <1>4, Lessened
<1>6. Held(c, down[c], up[c], current[c], "ready", want'[c], id)
  BY <1>1, <1>3 DEF Held
<1> QED
  BY <1>1, <1>2, <1>3, <1>5, <1>6, ServerKeeps DEF st, id, clientVars

\* Packets are sent to c.
LEMMA HeldMore ==
  ASSUME NEW d \in Seq(DownPacket), NEW e \in Seq(DownPacket), NEW c,
         NEW u, NEW cur, NEW p, NEW w, NEW id, Held(c, d, u, cur, p, w, id)
  PROVE  Held(c, d \o e, u, cur, p, w, id)
BY PostedConcat DEF Held

\* A GameStart.
LEMMA StartInOrder ==
  ASSUME TypeOK, NEW c \in Conn, InOrder(c), TakeStart(c)
  PROVE  InOrder(c)'
<1> DEFINE u == up[c]
           p == pc[c]
           p2 == pc'[c]
           st == status[c]
           id == machineId[c]
<1>1. u \in Seq(UpPacket) /\ u # <<>> /\ Head(u) \in UpPacket /\ up'[c] = Tail(u)
  <2>1. up \in [Conn -> Seq(UpPacket)]
    BY DEF TypeOK
  <2>2. u # <<>> /\ up'[c] = Tail(u)
    BY <2>1, StartStep DEF Takes
  <2> QED
    BY <2>1, <2>2, HeadTailProperties
<1>2. Head(u) = Started
  BY <1>1, StartStep, UpKinds DEF Takes
<1>3. p = "ready" /\ p2 \in {"ready", "starting"}
  <2>1. pc \in [Conn -> {"ready", "request", "command", "starting"}]
    BY DEF TypeOK
  <2> QED
    BY <2>1, StartStep
<1>4. UNCHANGED <<status, machineId, machines, want, tell, down>> /\ UNCHANGED clientVars
  BY StartStep
<1>5. Head(u) \in Busies /\ Head(u) \notin Asks \cup Says \cup Idles \cup Quits
  BY <1>2, PacketClasses
<1>6. /\ Orderly(u, p, st, id) /\ Told(u, p, st, id, current[c], screen[c])
      /\ Settled(down[c], tell[c].kind, c, id)
      /\ Held(c, down[c], u, current[c], p, want[c], id)
      /\ Fits(c, machines, id)
  BY DEF InOrder
<1> HIDE DEF u, p, p2, st, id
<1>7. /\ Seat(p2, id) => Head(u) \in Asks \/ (Seat(p, id) /\ Head(u) \notin Quits)
      /\ Busy(p2, st) => Head(u) \in Busies \/ (Busy(p, st) /\ Head(u) \notin Idles)
      /\ Odd(p2, st, id) => Head(u) \in Idles \/ (Odd(p, st, id) /\ Head(u) \notin Asks)
  BY <1>3, <1>5 DEF Seat, Odd
<1>8. Orderly(Tail(u), p2, st, id) /\ Told(Tail(u), p2, st, id, current[c], screen[c])
  BY <1>1, <1>6, <1>7, Received
<1>9. Held(c, down[c], Tail(u), current[c], p2, want[c], id)
  BY <1>1, <1>3, <1>5, <1>6, HeldReceived
<1> QED
  BY <1>1, <1>3, <1>4, <1>6, <1>8, <1>9, ServerKeeps DEF p2, st, id, clientVars

\* An ArcadeLeave: the server has c at no machine afterwards.
LEMMA LeaveTakenInOrder ==
  ASSUME TypeOK, NEW c \in Conn, InOrder(c), TakeLeave(c)
  PROVE  InOrder(c)'
<1> DEFINE u == up[c]
           p == pc[c]
           st == status[c]
           st2 == status'[c]
           id == machineId[c]
<1>1. u \in Seq(UpPacket) /\ u # <<>> /\ Head(u) \in UpPacket /\ up'[c] = Tail(u)
  <2>1. Takes(c, "ArcadeLeave")
    BY LeaveStep
  <2>2. Head(u) \in UpPacket /\ up \in [Conn -> Seq(UpPacket)]
    BY <2>1, QueueTypes DEF TypeOK
  <2> QED
    BY <2>1, <2>2 DEF Takes
<1>2. Head(u) = LeaveArcade
  BY <1>1, LeaveStep, UpKinds DEF Takes
<1>3. p = "ready" /\ UNCHANGED <<pc, want, me, current, screen>>
  BY LeaveStep
<1>4. Head(u) \in Quits /\ Head(u) \notin Asks \cup Says \cup Idles \cup Busies
  BY <1>2, PacketClasses
<1>5. /\ Orderly(u, p, st, id) /\ Told(u, p, st, id, current[c], screen[c])
      /\ Settled(down[c], tell[c].kind, c, id)
      /\ Held(c, down[c], u, current[c], p, want[c], id)
      /\ Fits(c, machines, id)
  BY DEF InOrder
<1>6. machineId'[c] = NoMachine /\ (st2 = "idle" \/ st2 = st)
  <2>1. status \in [Conn -> Status] /\ machineId \in [Conn -> Machine \cup {NoMachine}]
    BY DEF TypeOK
  <2> QED
    BY <2>1, LeaveStep DEF Server!Reset
<1>7. Settled(down'[c], tell'[c].kind, c, NoMachine)
  BY DEF Settled
<1>8. Fits(c, machines', NoMachine)
  <2>1. CASE id = NoMachine
    BY <1>5, <2>1, LeaveStep
  <2>2. CASE id # NoMachine
    <3>1. machines \in Seats /\ id \in Machine
      BY <2>2 DEF TypeOK, Seats
    <3>2. machines' = Server!SeatsAfter(c, id)
      BY <2>2, LeaveStep
    <3> HIDE DEF id
    <3>3. ~Sits(c, Server!SeatsAfter(c, id))
      BY <1>5, <3>1, SeatsAfterFits
    <3> QED
      BY <3>2, <3>3, FitsNowhere
  <2> QED
    BY <2>1, <2>2
<1> HIDE DEF u, p, st, st2, id
<1>9. /\ ~Seat(p, NoMachine) /\ ~Odd(p, st2, NoMachine)
      /\ Busy(p, st2) => Head(u) \in Busies \/ (Busy(p, st) /\ Head(u) \notin Idles)
  BY <1>3, <1>4, <1>6 DEF Seat, Odd, Busy
<1>10. /\ Orderly(Tail(u), p, st2, NoMachine)
       /\ Told(Tail(u), p, st2, NoMachine, current[c], screen[c])
  BY <1>1, <1>5, <1>9, Received
<1>11. Held(c, down'[c], Tail(u), current[c], p, want[c], NoMachine)
  <2>1. Held(c, down[c], Tail(u), current[c], p, want[c], NoMachine)
    BY <1>1, <1>4, <1>5, HeldReceived
  <2>2. CASE id = NoMachine
    BY <2>1, <2>2, LeaveStep DEF id
  <2>3. CASE id # NoMachine
    <3>1. down' = [d \in Conn |-> down[d] \o Boots(c, machineId[c])[d]]
      BY <2>3, LeaveStep DEF id
    <3>2. machines \in Seats /\ machineId[c] \in Machine /\ down[c] \in Seq(DownPacket)
      BY <2>3 DEF TypeOK, Seats, id
    <3>3. Boots(c, machineId[c])[c] \in Seq(DownPacket)
      BY <3>2, BootsType
    <3>4. down'[c] = down[c] \o Boots(c, machineId[c])[c]
      BY <3>1
    <3> QED
      BY <2>1, <3>2, <3>3, <3>4, HeldMore
  <2> QED
    BY <2>2, <2>3
<1> QED
  BY <1>1, <1>3, <1>6, <1>7, <1>8, <1>10, <1>11, ServerKeeps DEF p, st2

\* onGameStart's section: c was busy with it.
LEMMA SectionInOrder ==
  ASSUME TypeOK, NEW c \in Conn, InOrder(c), StartSection(c)
  PROVE  InOrder(c)'
<1> DEFINE u == up[c]
           p == pc[c]
           st == status[c]
           st2 == status'[c]
           id == machineId[c]
<1>1. machineId \in [Conn -> Machine \cup {NoMachine}] /\ status \in [Conn -> Status]
  BY DEF TypeOK
<1>2. /\ p = "starting" /\ pc'[c] = "ready"
      /\ st2 = st \/ st2 \in {"playing", "spectating"}
      /\ UNCHANGED <<machineId, machines, want, tell, up, me, current, screen>>
  <2>1. pc \in [Conn -> {"ready", "request", "command", "starting"}]
    BY DEF TypeOK
  <2> QED
    BY <1>1, <2>1, SectionStep DEF clientVars
<1>3. PICK m \in Machine : down' = [d \in Conn |-> down[d] \o Starts(c, machines[m], d)]
  BY <1>1, SectionStep
<1>4. Starts(c, machines[m], c) = <<>> /\ <<>> \in Seq(DownPacket) /\ down[c] \in Seq(DownPacket)
  BY EmptySeq DEF Starts, TypeOK
<1>5. down'[c] = down[c]
  BY <1>3, <1>4, ConcatEmptySeq
<1>6. /\ Orderly(u, p, st, id) /\ Told(u, p, st, id, current[c], screen[c])
      /\ Settled(down[c], tell[c].kind, c, id)
      /\ Held(c, down[c], u, current[c], p, want[c], id)
      /\ Fits(c, machines, id)
  BY DEF InOrder
<1> HIDE DEF u, p, st, st2, id
<1>7. /\ Seat("ready", id) => Seat(p, id)
      /\ Busy("ready", st2) => Busy(p, st)
      /\ Odd("ready", st2, id) => Odd(p, st, id)
  BY <1>2 DEF Seat, Busy, Odd
<1>8. Orderly(u, "ready", st2, id) /\ Told(u, "ready", st2, id, current[c], screen[c])
  BY <1>6, <1>7, Lessened
<1>9. Held(c, down[c], u, current[c], "ready", want[c], id)
  BY <1>2, <1>6 DEF Held
<1> QED
  BY <1>2, <1>5, <1>6, <1>8, <1>9, ServerKeeps DEF u, st2, id

\* The broadcast of what c itself has done.
LEMMA BroadcastInOrder ==
  ASSUME TypeOK, TellsOwn, NEW c \in Conn, InOrder(c), Broadcast(c)
  PROVE  InOrder(c)'
<1> DEFINE d == down[c]
           t == tell[c]
           e == IF t.kind = "ArcadeLeave" \/ ~Sees(c, c) THEN <<>> ELSE <<t>>
<1>1. /\ t # Nothing /\ tell'[c] = Nothing /\ down'[c] = d \o e
      /\ UNCHANGED <<status, machineId, machines, pc, want, up, me, current, screen>>
  BY BroadcastStep DEF clientVars, TypeOK
<1>2. Sees(c, c)
  BY DEF Sees
<1>3. d \in Seq(DownPacket) /\ t \in DownPacket
  BY <1>1 DEF TypeOK
<1>4. t = Left(c) \/ \E m \in Machine : t = Engaged(c, m)
  BY <1>1 DEF TellsOwn
<1>5. /\ Settled(d, t.kind, c, machineId[c])
      /\ Held(c, d, up[c], current[c], pc[c], want[c], machineId[c])
  BY DEF InOrder
<1> HIDE DEF d, t
<1>6. e \in Seq(DownPacket)
  BY <1>3, EmptySeq
<1>7. Held(c, d \o e, up[c], current[c], pc[c], want[c], machineId[c])
  BY <1>3, <1>5, <1>6, HeldMore
<1>8. Settled(d \o e, "nothing", c, machineId[c])
  <2>1. CASE t = Left(c)
    <3>1. t.kind = "ArcadeLeave"
      BY <2>1, PacketFields
    <3>2. d \o e = d
      BY <1>3, <3>1, ConcatEmptySeq
    <3> QED
      BY <1>5, <3>1, <3>2 DEF Settled
  <2>2. CASE \E m \in Machine : t = Engaged(c, m)
    <3>1. PICK m \in Machine : t = Engaged(c, m)
      BY <2>2
    <3>2. e = <<Engaged(c, m)>>
      BY <1>2, <3>1, PacketFields
    <3> QED
      BY <1>3, <3>1, <3>2, SettledEngaged
  <2> QED
    BY <1>4, <2>1, <2>2
<1>9. Nothing.kind = "nothing"
  BY PacketFields
<1> HIDE DEF e
<1> QED
  BY <1>1, <1>7, <1>8, <1>9, ServerKeeps DEF InOrder, d

\* What _onPlayerJoinArcade's section sends to d: a boot, when c takes d out with it, and
\* the answer, when it is for d; to others than c nothing else is about themselves.
LEMMA JoinSends ==
  ASSUME TypeOK, NEW c \in Conn, want[c] \in Machine, NEW from \in Machine, NEW seats \in Seats,
         NEW answer, Joins(c, from, seats, answer), NEW d \in Conn
  PROVE  LET booted == status[c] # "idle" /\ d \in Server!BootedBy(c, from)
         IN \E e \in Seq(DownPacket) :
              /\ down'[d] = down[d] \o e
              /\ d # c /\ booted => Posted(e, d)
              /\ d # c /\ ~booted => \A i \in 1..Len(e) : ~Own(e[i], d)
              /\ answer.to = d => \E i \in 1..Len(e) : e[i] = answer.packet
<1> DEFINE s == seats[want[c]]
           leaves == status[c] # "idle"
           booted == leaves /\ d \in Server!BootedBy(c, from)
           b == IF leaves THEN Boots(c, from)[d] ELSE <<>>
           a == IF answer.to = d THEN <<answer.packet>> ELSE <<>>
           e == b \o a
<1>1. s \in Seq(Conn) /\ machines \in Seats /\ down[d] \in Seq(DownPacket)
  BY DEF Seats, TypeOK
<1>2. answer \in Answers(c, s)
  BY DEF Joins
<1>3. /\ answer.to = d => answer.packet \in DownPacket
      /\ d # c /\ answer.to = d => ~Own(answer.packet, d)
  BY <1>1, <1>2, AnswerType DEF Own
<1>4. <<>> \in Seq(DownPacket) /\ Len(<<>>) = 0
  BY EmptySeq
<1>5. /\ b \in Seq(DownPacket)
      /\ d # c /\ booted => Posted(b, d)
      /\ ~booted => \A i \in 1..Len(b) : ~Own(b[i], d)
  <2>1. CASE leaves
    BY <1>1, <2>1, BootsType
  <2>2. CASE ~leaves
    BY <1>4, <2>2
  <2> QED
    BY <2>1, <2>2
<1>6. /\ a \in Seq(DownPacket) /\ Len(a) \in {0, 1}
      /\ answer.to = d => Len(a) = 1 /\ a[1] = answer.packet
      /\ answer.to # d => Len(a) = 0
  BY <1>3, <1>4
<1>7. down'[d] = (down[d] \o b) \o a
  <2>1. down' = [x \in Conn |-> down[x] \o
                   (IF leaves THEN Boots(c, from) ELSE [y \in Conn |-> <<>>])[x] \o
                   IF answer.to = x THEN <<answer.packet>> ELSE <<>>]
    BY DEF Joins
  <2> QED
    BY <2>1
<1> HIDE DEF a, b, s
<1>8. down'[d] = down[d] \o e
  <2>1. down[d] \in Seq(DownPacket) /\ b \in Seq(DownPacket) /\ a \in Seq(DownPacket)
    BY <1>1, <1>5, <1>6
  <2>2. \A x, y, z \in Seq(DownPacket) : (x \o y) \o z = x \o (y \o z)
    BY ConcatAssociative
  <2> QED
    BY <1>7, <2>1, <2>2
<1>9. /\ e \in Seq(DownPacket) /\ Len(e) = Len(b) + Len(a) /\ Len(b) \in Nat
      /\ \A i \in 1..Len(b) : e[i] = b[i]
      /\ \A i \in 1..Len(a) : e[Len(b) + i] = a[i]
  BY <1>5, <1>6, ConcatProperties, LenProperties
<1> HIDE DEF e, booted
<1>10. d # c /\ booted => Posted(e, d)
  BY <1>5, <1>6, <1>9, PostedConcat DEF e
<1>11. answer.to = d => \E i \in 1..Len(e) : e[i] = answer.packet
  <2> SUFFICES ASSUME answer.to = d PROVE \E i \in 1..Len(e) : e[i] = answer.packet
    OBVIOUS
  <2>1. Len(a) = 1 /\ a[1] = answer.packet
    BY <1>6
  <2>2. Len(b) + 1 \in 1..Len(e) /\ e[Len(b) + 1] = answer.packet
    BY <1>9, <2>1
  <2> QED
    BY <2>2
<1>12. ASSUME d # c, ~booted, NEW i \in 1..Len(e) PROVE ~Own(e[i], d)
  <2>1. CASE i \in 1..Len(b)
    BY <1>5, <1>9, <1>12, <2>1
  <2>2. CASE i \notin 1..Len(b)
    <3>1. Len(a) = 1 /\ i = Len(b) + 1
      BY <1>6, <1>9, <2>2
    <3>2. e[i] = answer.packet /\ answer.to = d
      BY <1>6, <1>9, <3>1
    <3> QED
      BY <1>3, <1>12, <3>2
  <2> QED
    BY <2>1, <2>2
<1> QED
  BY <1>8, <1>9, <1>10, <1>11, <1>12 DEF booted

\* A request is handled: whoever is in order comes from no machine, and is at the one it
\* asked for or refused.
LEMMA JoinInOrder ==
  ASSUME TypeOK, NEW c \in Conn, InOrder(c), JoinArcade(c), c \notin excused'
  PROVE  InOrder(c)'
<1>1. want[c] \in Machine
  BY JoinSteps
<1>2. PICK from \in Machine, seats \in Seats : \E answer : Joins(c, from, seats, answer)
  BY JoinSteps
<1>3. PICK answer : Joins(c, from, seats, answer)
  BY <1>2
<1> DEFINE u == up[c]
           m == want[c]
           s == machines[m]
           refused == Server!Refused(c, s)
<1>4. status[c] = "idle" /\ machineId[c] = NoMachine
  BY <1>3 DEF Joins, InOrder
<1>5. seats = machines /\ seats \in Seats
  BY <1>3, <1>4 DEF Joins
<1>6. ~Sits(c, machines)
  <2>1. Fits(c, machines, NoMachine)
    BY <1>4 DEF InOrder
  <2> QED
    BY <2>1, FitsNowhere
<1>7. PICK e \in Seq(DownPacket) :
        /\ down'[c] = down[c] \o e
        /\ answer.to = c => \E i \in 1..Len(e) : e[i] = answer.packet
  BY <1>1, <1>3, JoinSends
<1>8. down[c] \in Seq(DownPacket)
  BY DEF TypeOK
<1>9. /\ UNCHANGED <<me, current, screen, up>> /\ pc'[c] = "ready"
  BY <1>3 DEF Joins, TypeOK
<1>10. /\ Orderly(u, pc[c], "idle", NoMachine)
       /\ Told(u, pc[c], "idle", NoMachine, current[c], screen[c])
       /\ Held(c, down[c], u, current[c], pc[c], m, NoMachine)
  BY <1>4 DEF InOrder
<1>11. CASE refused
  <2>1. /\ machineId'[c] = NoMachine /\ status'[c] = "idle" /\ machines' = machines
    BY <1>3, <1>5, <1>11 DEF Joins, TypeOK, Server!Reset
  <2>2. answer.to = c /\ answer.packet = Left(c)
    <3>1. s \in Seq(Conn) /\ answer \in Answers(c, s)
      BY <1>1, <1>3, <1>5 DEF Joins, Seats
    <3> QED
      BY <1>11, <3>1, AnswerType
  <2>3. Posted(down'[c], c)
    <3>1. Posted(e, c)
      BY <1>7, <2>2 DEF Posted
    <3> QED
      BY <1>7, <1>8, <3>1, PostedConcat
  <2>4. Held(c, down'[c], u, current[c], "ready", want'[c], NoMachine)
    BY <2>3 DEF Held
  <2>5. Settled(down'[c], tell'[c].kind, c, NoMachine)
    BY DEF Settled
  <2>6. Fits(c, machines', NoMachine)
    BY <1>4, <2>1 DEF InOrder
  <2>7. ~Seat("ready", NoMachine) /\ ~Busy("ready", "idle") /\ ~Odd("ready", "idle", NoMachine)
    BY DEF Seat, Busy, Odd
  <2>8. /\ Orderly(u, "ready", "idle", NoMachine)
        /\ Told(u, "ready", "idle", NoMachine, current[c], screen[c])
    BY <1>10, <2>7, Lessened
  <2> QED
    BY <1>9, <2>1, <2>4, <2>5, <2>6, <2>8, ServerKeeps
<1>12. CASE ~refused
  <2>1. pc[c] = "request"
    BY <1>3, <1>5, <1>12 DEF Joins
  <2>2. ~(Playing(s) = {} /\ Clash(s, c))
    BY <1>3, <1>5, <1>12 DEF Joins
  <2>3. /\ machineId'[c] = m /\ status'[c] = "waiting" /\ tell'[c] = Engaged(c, m)
    <3>1. /\ machineId \in [Conn -> Machine \cup {NoMachine}] /\ status \in [Conn -> Status]
          /\ tell \in [Conn -> DownPacket \cup {Nothing}]
      BY DEF TypeOK
    <3>2. tell' = [tell EXCEPT ![c] = Engaged(c, m)]
      BY <1>3, <1>5, <1>12, <2>2 DEF Joins
    <3>3. machineId'[c] = m /\ status'[c] = "waiting"
      BY <1>3, <1>5, <1>12, <3>1 DEF Joins, Server!Reset
    <3> QED
      BY <3>1, <3>2, <3>3
  <2>4. Settled(down'[c], tell'[c].kind, c, m)
    BY <2>3, PacketFields DEF Settled
  <2>5. Held(c, down'[c], u, current[c], "ready", want'[c], m)
    <3>1. Posted(down[c], c) => Posted(down'[c], c)
      BY <1>7, <1>8, PostedConcat
    <3> QED
      BY <1>10, <2>1, <3>1 DEF Held
  <2>6. Fits(c, machines', m)
    <3> DEFINE p1 == IF s = <<>> THEN PrefOf[c] ELSE PrefOf[s[1]]
    <3>1. machines' = [machines EXCEPT ![m] = Server!SeatsWith(c, @, status', p1, PrefOf[c])]
      BY <1>3, <1>5, <1>12 DEF Joins
    <3> HIDE DEF p1, m
    <3> QED
      BY <1>1, <1>5, <1>6, <3>1, SeatsWithFits DEF m
  <2>7. ~Odd("ready", "waiting", m) /\ Seat(pc[c], NoMachine) /\ Busy(pc[c], "idle")
    BY <2>1 DEF Seat, Busy, Odd
  <2>8. /\ Orderly(u, "ready", "waiting", m)
        /\ Told(u, "ready", "waiting", m, current[c], screen[c])
    BY <1>10, <2>7, Lessened
  <2> QED
    BY <1>9, <2>3, <2>4, <2>5, <2>6, <2>8, ServerKeeps
<1> QED
  BY <1>11, <1>12

\* Others are sent what is not about themselves, and keep their seats.
LEMMA SpreadKeeps ==
  ASSUME NEW d, InOrder(d), NEW e \in Seq(DownPacket),
         down[d] \in Seq(DownPacket), down'[d] = down[d] \o e,
         \A i \in 1..Len(e) : ~Own(e[i], d),
         UNCHANGED <<me, current, screen>>, up'[d] = up[d], tell'[d] = tell[d],
         pc'[d] = pc[d], want'[d] = want[d], status'[d] = status[d],
         machineId'[d] = machineId[d], Fits(d, machines', machineId[d])
  PROVE  InOrder(d)'
<1>1. /\ Settled(down[d], tell[d].kind, d, machineId[d])
      /\ Held(d, down[d], up[d], current[d], pc[d], want[d], machineId[d])
  BY DEF InOrder
<1>2. /\ Settled(down[d] \o e, tell[d].kind, d, machineId[d])
      /\ Held(d, down[d] \o e, up[d], current[d], pc[d], want[d], machineId[d])
  BY <1>1, PostedConcat, HeldMore
<1> QED
  BY <1>2 DEF InOrder

\* Others are booted: they lose their seat, and are told so.
LEMMA BootedKeeps ==
  ASSUME NEW d, InOrder(d), NEW e \in Seq(DownPacket),
         down[d] \in Seq(DownPacket), down'[d] = down[d] \o e, Posted(e, d),
         UNCHANGED <<me, current, screen>>, up'[d] = up[d], tell'[d] = tell[d],
         pc'[d] = pc[d], want'[d] = want[d], status'[d] = "idle",
         machineId'[d] = NoMachine, ~Sits(d, machines')
  PROVE  InOrder(d)'
<1> DEFINE u == up[d]
           p == pc[d]
           st == status[d]
           id == machineId[d]
<1>1. Orderly(u, p, st, id) /\ Told(u, p, st, id, current[d], screen[d])
  BY DEF InOrder
<1>2. /\ Seat(p, NoMachine) => Seat(p, id)
      /\ Busy(p, "idle") => Busy(p, st)
      /\ ~Odd(p, "idle", NoMachine)
  BY DEF Seat, Busy, Odd
<1>3. Orderly(u, p, "idle", NoMachine) /\ Told(u, p, "idle", NoMachine, current[d], screen[d])
  BY <1>1, <1>2, Lessened
<1>4. Settled(down'[d], tell[d].kind, d, NoMachine)
  BY DEF Settled
<1>5. Held(d, down'[d], u, current[d], p, want[d], NoMachine)
  BY PostedConcat DEF Held
<1>6. Fits(d, machines', NoMachine)
  BY FitsNowhere
<1> QED
  BY <1>3, <1>4, <1>5, <1>6 DEF InOrder

\* What leaving a machine does to the others there.
LEMMA LeaveTakenOthers ==
  ASSUME TypeOK, NEW c \in Conn, TakeLeave(c), NEW d \in Conn, d # c, InOrder(d)
  PROVE  InOrder(d)'
<1> DEFINE m == machineId[c]
           out == {c} \cup Server!BootedBy(c, m)
<1>1. /\ UNCHANGED <<me, current, screen, pc, want>> /\ Takes(c, "ArcadeLeave")
  BY LeaveStep
<1>2. up'[d] = up[d]
  BY <1>1 DEF Takes, TypeOK
<1>3. CASE m = NoMachine
  BY <1>1, <1>2, <1>3, LeaveStep, Untouched
<1>4. CASE m # NoMachine
  <2>1. /\ machines' = Server!SeatsAfter(c, m)
        /\ status' = Server!Reset(status, out, "idle")
        /\ machineId' = Server!Reset(machineId, out, NoMachine)
        /\ down' = [x \in Conn |-> down[x] \o Boots(c, m)[x]]
        /\ tell' = [tell EXCEPT ![c] = Left(c)]
    BY <1>4, LeaveStep
  <2>2. machines \in Seats /\ m \in Machine
    BY <1>4 DEF TypeOK, Seats
  <2>3. down[d] \in Seq(DownPacket) /\ tell'[d] = tell[d]
    BY <2>1 DEF TypeOK
  <2> HIDE DEF m
  <2>4. /\ Boots(c, m)[d] \in Seq(DownPacket)
        /\ d \in Server!BootedBy(c, m) => Posted(Boots(c, m)[d], d)
        /\ d \notin Server!BootedBy(c, m)
             => \A i \in 1..Len(Boots(c, m)[d]) : ~Own(Boots(c, m)[d][i], d)
    BY <2>2, BootsType
  <2>5. Fits(d, machines, machineId[d])
    BY DEF InOrder
  <2>6. /\ Fits(d, machines', machineId[d])
        /\ d \in Server!BootedBy(c, m) => ~Sits(d, machines')
    BY <2>1, <2>2, <2>5, SeatsAfterFits
  <2>7. down'[d] = down[d] \o Boots(c, m)[d]
    BY <2>1
  <2>8. /\ status'[d] = IF d \in Server!BootedBy(c, m) THEN "idle" ELSE status[d]
        /\ machineId'[d] = IF d \in Server!BootedBy(c, m) THEN NoMachine ELSE machineId[d]
    BY <2>1 DEF Server!Reset
  <2>9. CASE d \in Server!BootedBy(c, m)
    BY <1>1, <1>2, <2>3, <2>4, <2>6, <2>7, <2>8, <2>9, BootedKeeps
  <2>10. CASE d \notin Server!BootedBy(c, m)
    BY <1>1, <1>2, <2>3, <2>4, <2>6, <2>7, <2>8, <2>10, SpreadKeeps
  <2> QED
    BY <2>9, <2>10
<1> QED
  BY <1>3, <1>4

\* What joining does to the others: to those of the machine that is left, and to those of the
\* one that is joined.
LEMMA JoinOthers ==
  ASSUME TypeOK, NEW c \in Conn, JoinArcade(c), NEW d \in Conn, d # c, InOrder(d)
  PROVE  InOrder(d)'
<1>1. want[c] \in Machine
  BY JoinSteps
<1>2. PICK from \in Machine, seats \in Seats : \E answer : Joins(c, from, seats, answer)
  BY JoinSteps
<1>3. PICK answer : Joins(c, from, seats, answer)
  BY <1>2
<1> DEFINE leaves == status[c] # "idle"
           booted == leaves /\ d \in Server!BootedBy(c, from)
           m == want[c]
<1>4. PICK e \in Seq(DownPacket) :
        /\ down'[d] = down[d] \o e
        /\ booted => Posted(e, d)
        /\ ~booted => \A i \in 1..Len(e) : ~Own(e[i], d)
  BY <1>1, <1>3, JoinSends
<1>5. down[d] \in Seq(DownPacket) /\ machines \in Seats
  BY DEF TypeOK, Seats
<1>6. /\ UNCHANGED <<me, current, screen, up>>
      /\ pc'[d] = pc[d] /\ want'[d] = want[d] /\ tell'[d] = tell[d]
  BY <1>3 DEF Joins, TypeOK
<1>7. /\ status'[d] = IF booted THEN "idle" ELSE status[d]
      /\ machineId'[d] = IF booted THEN NoMachine ELSE machineId[d]
  BY <1>3 DEF Joins, Server!Reset
<1>8. /\ Fits(d, seats, machineId[d])
      /\ booted => ~Sits(d, seats)
  <2>1. Fits(d, machines, machineId[d])
    BY DEF InOrder
  <2>2. CASE leaves
    <3>1. seats = Server!SeatsAfter(c, from)
      BY <1>3, <2>2 DEF Joins
    <3> QED
      BY <1>5, <2>1, <3>1, SeatsAfterFits
  <2>3. CASE ~leaves
    <3>1. seats = machines
      BY <1>3, <2>3 DEF Joins
    <3> QED
      BY <2>1, <2>3, <3>1
  <2> QED
    BY <2>2, <2>3
<1>9. /\ Fits(d, machines', machineId[d])
      /\ booted => ~Sits(d, machines')
  <2>1. CASE machines' = seats
    BY <1>8, <2>1
  <2>2. CASE machines' # seats
    <3> DEFINE s == seats[m]
               p1 == IF s = <<>> THEN PrefOf[c] ELSE PrefOf[s[1]]
    <3>1. machines' = [seats EXCEPT ![m] = Server!SeatsWith(c, @, status', p1, PrefOf[c])]
      BY <1>3, <2>2 DEF Joins
    <3> HIDE DEF p1, m
    <3>2. m \in Machine
      BY <1>1 DEF m
    <3> HIDE DEF booted
    <3>3. Fits(d, machines', machineId[d]) /\ (Sits(d, machines') => Sits(d, seats))
      BY <1>8, <3>1, <3>2, SeatsWithFits
    <3> QED
      BY <1>8, <3>3
  <2> QED
    BY <2>1, <2>2
<1> HIDE DEF booted
<1>10. CASE booted
  BY <1>4, <1>5, <1>6, <1>7, <1>9, <1>10, BootedKeeps
<1>11. CASE ~booted
  BY <1>4, <1>5, <1>6, <1>7, <1>9, <1>11, SpreadKeeps
<1> QED
  BY <1>10, <1>11

\* No step of c's net thread puts another player out of order.
LEMMA OthersInOrder ==
  ASSUME TypeOK, TellsOwn, NEW c \in Conn, NetThread(c), NEW d \in Conn, d # c, InOrder(d)
  PROVE  InOrder(d)'
<1> USE DEF clientVars
<1>1. /\ pc \in [Conn -> {"ready", "request", "command", "starting"}]
      /\ want \in [Conn -> Machine \cup {NoMachine}]
      /\ status \in [Conn -> Status]
      /\ machineId \in [Conn -> Machine \cup {NoMachine}]
      /\ up \in [Conn -> Seq(UpPacket)]
      /\ tell \in [Conn -> DownPacket \cup {Nothing}]
      /\ down[d] \in Seq(DownPacket)
  BY DEF TypeOK
<1>2. ASSUME NEW kind, Takes(c, kind) PROVE up'[d] = up[d]
  BY <1>1, <1>2 DEF Takes
<1>3. CASE TakeReport(c)
  <2>1. Takes(c, "BattleStatusUpdate") /\ status'[d] = status[d]
    BY <1>1, <1>3, ReportStep
  <2> QED
    BY <1>2, <1>3, <2>1, ReportStep, Untouched
<1>4. CASE TakeRequest(c)
  <2>1. Takes(c, "GameRequest") /\ pc'[d] = pc[d] /\ want'[d] = want[d]
    BY <1>1, <1>4, RequestStep
  <2> QED
    BY <1>2, <1>4, <2>1, RequestStep, Untouched
<1>5. CASE TakeCommand(c)
  <2>1. Takes(c, "/join") /\ pc'[d] = pc[d] /\ want'[d] = want[d]
    BY <1>1, <1>5, CommandStep
  <2> QED
    BY <1>2, <1>5, <2>1, CommandStep, Untouched
<1>6. CASE IgnoreCommand(c)
  <2>1. pc'[d] = pc[d] /\ want'[d] = want[d]
    BY <1>1, <1>6, IgnoreStep
  <2> QED
    BY <1>6, <2>1, IgnoreStep, Untouched
<1>7. CASE JoinArcade(c)
  BY <1>7, JoinOthers
<1>8. CASE TakeStart(c)
  <2>1. Takes(c, "GameStart") /\ pc'[d] = pc[d]
    BY <1>1, <1>8, StartStep
  <2> QED
    BY <1>2, <1>8, <2>1, StartStep, Untouched
<1>9. CASE StartSection(c)
  <2>1. PICK m \in Machine : down' = [x \in Conn |-> down[x] \o Starts(c, machines[m], x)]
    BY <1>1, <1>9, SectionStep
  <2>2. pc'[d] = pc[d] /\ status'[d] = status[d]
    BY <1>1, <1>9, SectionStep
  <2> DEFINE e == Starts(c, machines[m], d)
  <2>3. down'[d] = down[d] \o e
    BY <2>1
  <2>4. e \in Seq(DownPacket) /\ \A i \in 1..Len(e) : e[i].kind = "GameStart"
    BY StartsType DEF TypeOK
  <2> HIDE DEF e
  <2>5. \A i \in 1..Len(e) : ~Own(e[i], d)
    BY <2>4 DEF Own
  <2>6. Fits(d, machines, machineId[d])
    BY DEF InOrder
  <2> QED
    BY <1>1, <1>9, <2>2, <2>3, <2>4, <2>5, <2>6, SectionStep, SpreadKeeps
<1>10. CASE TakeLeave(c)
  BY <1>10, LeaveTakenOthers
<1>11. CASE Broadcast(c)
  <2> DEFINE e == IF (d = c /\ tell[c].kind = "ArcadeLeave") \/ ~Sees(d, c)
                  THEN <<>> ELSE <<tell[c]>>
  <2>1. /\ tell[c] # Nothing /\ tell' = [tell EXCEPT ![c] = Nothing]
        /\ down' = [x \in Conn |-> down[x] \o
                     IF (x = c /\ tell[c].kind = "ArcadeLeave") \/ ~Sees(x, c)
                     THEN <<>> ELSE <<tell[c]>>]
    BY <1>11, BroadcastStep
  <2>2. tell'[d] = tell[d] /\ down'[d] = down[d] \o e
    BY <1>1, <2>1
  <2>3. tell[c] \in DownPacket
    BY <1>1, <2>1
  <2>4. ~Own(tell[c], d)
    BY <2>1, PacketFields DEF TellsOwn, Own
  <2>5. e \in Seq(DownPacket) /\ \A i \in 1..Len(e) : ~Own(e[i], d)
    BY <2>3, <2>4, EmptySeq
  <2>6. Fits(d, machines, machineId[d])
    BY DEF InOrder
  <2> HIDE DEF e
  <2> QED
    BY <1>1, <1>11, <2>2, <2>5, <2>6, BroadcastStep, SpreadKeeps
<1> QED
  BY <1>3, <1>4, <1>5, <1>6, <1>7, <1>8, <1>9, <1>10, <1>11 DEF NetThread

\* A net thread excuses nobody but by a join, and takes no excuse back.
LEMMA ExcusedGrows ==
  ASSUME NEW c \in Conn, NetThread(c)
  PROVE  excused \subseteq excused'
BY DEF NetThread, TakeReport, TakeRequest, TakeCommand, IgnoreCommand, JoinArcade, TakeStart,
       StartSection, TakeLeave, Broadcast, clientVars

\* No step of a net thread puts a player out of order, but those it excuses.
LEMMA NetThreadInOrder ==
  ASSUME ProtocolInv, NEW c \in Conn, NetThread(c), NEW d \in Conn \ excused'
  PROVE  InOrder(d)'
<1>1. TypeOK /\ TellsOwn /\ InOrder(d)
  BY ExcusedGrows DEF ProtocolInv
<1>2. CASE d = c
  BY <1>1, <1>2, ReportInOrder, RequestInOrder, CommandInOrder, IgnoreInOrder, JoinInOrder,
     StartInOrder, SectionInOrder, LeaveTakenInOrder, BroadcastInOrder DEF NetThread
<1>3. CASE d # c
  BY <1>1, <1>3, OthersInOrder
<1> QED
  BY <1>2, <1>3

\* A net thread says only what its own player does.
LEMMA TellsOwnKept ==
  ASSUME TypeOK, TellsOwn, NEW c \in Conn, Client(c) \/ NetThread(c)
  PROVE  TellsOwn'
<1>1. CASE UNCHANGED tell
  BY <1>1 DEF TellsOwn
<1>0. ASSUME NEW t \in {Nothing, Left(c)} \cup {Engaged(c, m) : m \in Machine},
             tell' = [tell EXCEPT ![c] = t]
      PROVE  TellsOwn'
  <2>1. tell \in [Conn -> DownPacket \cup {Nothing}]
    BY DEF TypeOK
  <2>2. \A d \in Conn : tell'[d] = IF d = c THEN t ELSE tell[d]
    BY <1>0, <2>1
  <2> QED
    BY <2>2 DEF TellsOwn
<1>2. CASE JoinArcade(c)
  <2>1. PICK from \in Machine, seats \in Seats : \E answer : Joins(c, from, seats, answer)
    BY <1>2, JoinSteps
  <2>2. want[c] \in Machine
    BY <1>2, JoinSteps
  <2>3. tell' = [tell EXCEPT ![c] = Nothing] \/ tell' = [tell EXCEPT ![c] = Engaged(c, want[c])]
    BY <2>1 DEF Joins
  <2> QED
    BY <1>0, <2>2, <2>3
<1>3. CASE TakeLeave(c)
  <2>1. tell' = tell \/ tell' = [tell EXCEPT ![c] = Left(c)]
    BY <1>3, LeaveStep
  <2> QED
    BY <1>0, <1>1, <2>1
<1>4. CASE Broadcast(c)
  <2>1. tell' = [tell EXCEPT ![c] = Nothing]
    BY <1>4, BroadcastStep
  <2> QED
    BY <1>0, <2>1
<1>5. CASE Client(c)
  BY <1>1, <1>5, ClientFrame
<1>6. CASE \/ TakeReport(c) \/ TakeRequest(c) \/ TakeCommand(c) \/ IgnoreCommand(c)
           \/ TakeStart(c) \/ StartSection(c)
  <2>1. UNCHANGED tell
    BY <1>6 DEF TakeReport, TakeRequest, TakeCommand, IgnoreCommand, TakeStart, StartSection
  <2> QED
    BY <1>1, <2>1
<1> QED
  BY <1>2, <1>3, <1>4, <1>5, <1>6 DEF NetThread

\* A player in order whose request is handled is idle and has no seat.
LEMMA JoinsSeatless ==
  ASSUME NEW c, InOrder(c), pc[c] = "request" \/ (pc[c] = "command" /\ status[c] = "idle")
  PROVE  status[c] = "idle" /\ machineId[c] = NoMachine /\ ~Sits(c, machines)
<1>1. status[c] = "idle" /\ machineId[c] = NoMachine
  BY DEF InOrder
<1>2. Fits(c, machines, NoMachine)
  BY <1>1 DEF InOrder
<1> QED
  BY <1>1, <1>2, FitsNowhere

\* The server loses track of the seats of none but the excused.
LEMMA RogueKept ==
  ASSUME ProtocolInv, NEW c \in Conn, Client(c) \/ NetThread(c)
  PROVE  rogue' \subseteq excused'
<1>1. TypeOK /\ rogue \subseteq excused
  BY DEF ProtocolInv
<1>2. CASE JoinArcade(c)
  <2>1. PICK from \in Machine, seats \in Seats : \E answer : Joins(c, from, seats, answer)
    BY <1>1, <1>2, JoinSteps
  <2>2. excused \subseteq excused'
    BY <2>1 DEF Joins
  <2>3. rogue' = IF status[c] = "idle" /\ Server!Seated(c) THEN rogue \cup {c} ELSE rogue
    BY <2>1 DEF Joins
  <2>4. Server!Seated(c) => Sits(c, machines)
    BY DEF Server!Seated, Server!Members, Sits
  <2>5. pc[c] = "request" \/ (pc[c] = "command" /\ status[c] = "idle")
    BY <2>1 DEF Joins
  <2>6. c \notin excused => ~Server!Seated(c)
    BY <2>4, <2>5, JoinsSeatless DEF ProtocolInv
  <2>7. rogue' = rogue \/ (rogue' = rogue \cup {c} /\ c \in excused)
    BY <2>3, <2>6
  <2> QED
    BY <1>1, <2>2, <2>7
<1>3. CASE Client(c)
  BY <1>1, <1>3, ClientFrame DEF serverVars
<1>4. CASE \/ TakeReport(c) \/ TakeRequest(c) \/ TakeCommand(c) \/ IgnoreCommand(c)
           \/ TakeStart(c) \/ StartSection(c) \/ TakeLeave(c) \/ Broadcast(c)
  <2>1. rogue' = rogue
    <3>1. machineId \in [Conn -> Machine \cup {NoMachine}] /\ status \in [Conn -> Status]
      BY <1>1 DEF TypeOK
    <3> QED
      BY <1>4, <3>1, ReportStep, RequestStep, CommandStep, IgnoreStep, StartStep, SectionStep,
         LeaveStep, BroadcastStep
  <2>2. excused \subseteq excused'
    BY <1>4, ExcusedGrows DEF NetThread
  <2> QED
    BY <1>1, <2>1, <2>2
<1> QED
  BY <1>2, <1>3, <1>4 DEF NetThread

-----------------------------------------------------------------------------
(* Two players who have met do not both wait.                              *)

\* x is among the packets of q.
Carries(q, x) == \E i \in 1..Len(q) : q[i] = x

\* What is in a queue stays in it when more is sent, and so is what is sent.
LEMMA Extended ==
  ASSUME NEW S, NEW q \in Seq(S), NEW e \in Seq(S)
  PROVE  /\ \A i \in 1..Len(q) : i \in 1..Len(q \o e) /\ (q \o e)[i] = q[i]
         /\ \A x : Carries(e, x) => Carries(q \o e, x)
<1> DEFINE r == q \o e
<1>1. /\ Len(r) = Len(q) + Len(e) /\ Len(q) \in Nat /\ Len(e) \in Nat
      /\ \A i \in 1..Len(q) : r[i] = q[i]
      /\ \A i \in 1..Len(e) : r[Len(q) + i] = e[i]
  BY ConcatProperties, LenProperties
<1> HIDE DEF r
<1>2. ASSUME NEW i \in 1..Len(e) PROVE \E j \in 1..Len(r) : r[j] = e[i]
  <2>1. Len(q) + i \in 1..Len(r) /\ r[Len(q) + i] = e[i]
    BY <1>1
  <2> QED
    BY <2>1
<1>3. \A i \in 1..Len(q) : i \in 1..Len(r) /\ r[i] = q[i]
  BY <1>1
<1>4. \A x : Carries(e, x) => Carries(r, x)
  BY <1>2 DEF Carries
<1> QED
  BY <1>3, <1>4 DEF r

\* The rest of a queue is what was behind its head.
LEMMA Shortened ==
  ASSUME NEW S, NEW q \in Seq(S), q # <<>>
  PROVE  \A i \in 1..Len(q) : q[i] = Head(q) \/ \E j \in 1..Len(Tail(q)) : Tail(q)[j] = q[i]
<1>1. /\ Len(q) \in Nat \ {0} /\ Head(q) = q[1]
      /\ Len(Tail(q)) = Len(q) - 1
      /\ \A k \in 1..(Len(q) - 1) : Tail(q)[k] = q[k + 1]
  BY HeadTailProperties, LenProperties, EmptySeq
<1>2. \A i \in 1..Len(q) : i = 1 \/ (i - 1 \in 1..Len(Tail(q)) /\ Tail(q)[i - 1] = q[i])
  BY <1>1
<1> QED
  BY <1>1, <1>2

\* Who is sent something, and stays where it is, stirs on.
LEMMA StirsOn ==
  ASSUME NEW x, Stirs(x), NEW e \in Seq(DownPacket), down[x] \in Seq(DownPacket),
         down'[x] = down[x] \o e,
         up'[x] = up[x], me'[x] = me[x], pc'[x] = pc[x]
  PROVE  Stirs(x)'
<1>1. \A i \in 1..Len(down[x]) : i \in 1..Len(down'[x]) /\ down'[x][i] = down[x][i]
  BY Extended
<1> QED
  BY <1>1 DEF Stirs

\* Who sends something stirs on.
LEMMA StirsSending ==
  ASSUME NEW x, Stirs(x), NEW e \in Seq(UpPacket), up[x] \in Seq(UpPacket),
         up'[x] = up[x] \o e, down' = down, me' = me, pc' = pc
  PROVE  Stirs(x)'
<1>1. \A i \in 1..Len(up[x]) : i \in 1..Len(up'[x]) /\ up'[x][i] = up[x][i]
  BY Extended
<1> QED
  BY <1>1 DEF Stirs

\* A player with a seat who stirs goes on until the server knows, whatever its client does:
\* to sit down elsewhere it must have left.
LEMMA ClientStirs ==
  ASSUME TypeOK, NEW c \in Conn, InOrder(c), Client(c), Sits(c, machines), Stirs(c)
  PROVE  Stirs(c)'
<1> DEFINE u == up[c]
           d == down[c]
<1>1. /\ up \in [Conn -> Seq(UpPacket)] /\ u \in Seq(UpPacket)
      /\ d \in Seq(DownPacket) /\ down \in [Conn -> Seq(DownPacket)]
      /\ me \in [Conn -> Status]
  BY DEF TypeOK
<1>2. /\ \A m \in Machine : Request(m) \in UpPacket
      /\ \A st \in Status : Report(st) \in UpPacket
      /\ \A x \in Conn : Command(x) \in UpPacket
      /\ Started \in UpPacket /\ LeaveArcade \in UpPacket
      /\ {"idle", "waiting", "playing", "spectating"} \subseteq Status
  BY PacketsTyped DEF Status
<1>3. /\ \A x : Send(c, <<x>>) => up'[c] = u \o <<x>>
      /\ \A x, y : Send(c, <<x, y>>) => up'[c] = u \o <<x, y>>
  BY <1>1 DEF Send
<1>4. ASSUME NEW e \in Seq(UpPacket), up'[c] = u \o e,
             NEW i \in 1..Len(e), e[i] \in {LeaveArcade, Started}
      PROVE  Stirs(c)'
  <2> HIDE DEF u
  <2>1. Carries(e, e[i])
    BY DEF Carries
  <2>2. Carries(up'[c], e[i])
    BY <1>1, <1>4, <2>1, Extended
  <2> QED
    BY <1>4, <2>2 DEF Carries, Stirs
<1>5. ASSUME NEW m \in Machine, Sit(c, m) PROVE Stirs(c)'
  <2>1. machineId[c] # NoMachine
    <3>1. Fits(c, machines, machineId[c])
      BY DEF InOrder
    <3> QED
      BY <3>1, FitsNowhere
  <2>2. Freed(u, Len(u), pc[c], machineId[c])
    BY <1>5 DEF Sit, InOrder, Told
  <2>3. PICK j \in 1..Len(u) : u[j] = LeaveArcade
    BY <2>1, <2>2 DEF Freed, Undone, Seat, Quits
  <2> DEFINE e == <<Request(m), Report("waiting")>>
  <2>4. e \in Seq(UpPacket) /\ up'[c] = u \o e
    BY <1>2, <1>3, <1>5 DEF Sit
  <2> HIDE DEF e, u
  <2>5. j \in 1..Len(u \o e) /\ (u \o e)[j] = u[j]
    BY <1>1, <2>3, <2>4, Extended
  <2> QED
    BY <2>3, <2>4, <2>5 DEF Stirs
<1>6. CASE Leave(c) \/ ConnectFailed(c)
  <2>1. \E x, y \in UpPacket : up'[c] = u \o <<x, y>> /\ LeaveArcade \in {x, y}
    BY <1>2, <1>3, <1>6 DEF Leave, ConnectFailed
  <2>2. PICK x \in UpPacket, y \in UpPacket : up'[c] = u \o <<x, y>> /\ LeaveArcade \in {x, y}
    BY <2>1
  <2> DEFINE e == <<x, y>>
  <2>3. e \in Seq(UpPacket) /\ Len(e) = 2 /\ e[1] = x /\ e[2] = y
    OBVIOUS
  <2>4. \E i \in 1..Len(e) : e[i] \in {LeaveArcade, Started}
    BY <2>2, <2>3
  <2> HIDE DEF e
  <2> QED
    BY <1>4, <2>2, <2>3, <2>4 DEF e
<1>7. CASE BackLeave(c) \/ OnHostRequest(c)
  <2>1. \/ \E x \in {LeaveArcade, Started} : up'[c] = u \o <<x>>
        \/ up'[c] = u \o <<Report("playing"), Started>>
    BY <1>2, <1>3, <1>7 DEF BackLeave, OnHostRequest
  <2>2. ASSUME NEW x \in {LeaveArcade, Started}, up'[c] = u \o <<x>> PROVE Stirs(c)'
    <3> DEFINE e == <<x>>
    <3>1. e \in Seq(UpPacket) /\ Len(e) = 1 /\ e[1] = x
      BY <1>2
    <3>2. 1 \in 1..Len(e) /\ e[1] \in {LeaveArcade, Started}
      BY <3>1
    <3> HIDE DEF e
    <3> QED
      BY <1>4, <2>2, <3>1, <3>2 DEF e
  <2>3. CASE up'[c] = u \o <<Report("playing"), Started>>
    <3> DEFINE e == <<Report("playing"), Started>>
    <3>1. e \in Seq(UpPacket) /\ Len(e) = 2 /\ e[2] = Started
      BY <1>2
    <3>2. 2 \in 1..Len(e) /\ e[2] \in {LeaveArcade, Started}
      BY <3>1
    <3> HIDE DEF e
    <3> QED
      BY <1>4, <2>3, <3>1, <3>2 DEF e
  <2> QED
    BY <2>1, <2>2, <2>3
<1>8. CASE \/ BackIdle(c) \/ FoundOpponent(c)
           \/ (OnArcadeLeave(c) /\ Head(d).player = c)
           \/ (OnConnectRequest(c) /\ Head(d).player \notin BadIp)
  <2>1. me'[c] # "waiting"
    BY <1>1, <1>8 DEF BackIdle, FoundOpponent, OnArcadeLeave, OnConnectRequest
  <2> QED
    BY <2>1 DEF Stirs
<1>9. CASE OnConnectRequest(c) /\ Head(d).player \in BadIp
  <2> DEFINE e == <<LeaveArcade>>
  <2>1. e \in Seq(UpPacket) /\ Len(e) = 1 /\ e[1] = LeaveArcade /\ up'[c] = u \o e
    BY <1>2, <1>3, <1>9 DEF OnConnectRequest
  <2>2. 1 \in 1..Len(e) /\ e[1] \in {LeaveArcade, Started}
    BY <2>1
  <2> HIDE DEF e
  <2> QED
    BY <1>4, <2>1, <2>2
<1>10. CASE (\E x \in Conn : SayJoin(c, x)) \/ Back(c) \/ SendSnapshot(c)
  <2>1. /\ UNCHANGED <<me, pc, down>>
        /\ \E x \in UpPacket : Send(c, <<x>>)
    <3>1. CASE SendSnapshot(c)
      <4>1. snapshot[c] \in {Report(st) : st \in Status}
        BY <3>1 DEF SendSnapshot, TypeOK
      <4> QED
        BY <1>2, <3>1, <4>1 DEF SendSnapshot, serverVars
    <3>2. CASE ~SendSnapshot(c)
      BY <1>2, <1>10, <3>2 DEF SayJoin, Back, serverVars
    <3> QED
      BY <3>1, <3>2
  <2>2. PICK x \in UpPacket : Send(c, <<x>>)
    BY <2>1
  <2>3. <<x>> \in Seq(UpPacket) /\ up'[c] = u \o <<x>>
    BY <1>3, <2>2
  <2> QED
    BY <1>1, <2>1, <2>3, StirsSending
<1>11. CASE Play(c) \/ Snapshot(c)
  BY <1>11 DEF Play, Snapshot, Stirs, serverVars
<1>12. CASE OnArcadeEngage(c) \/ (OnArcadeLeave(c) /\ Head(d).player # c)
  <2>1. /\ UNCHANGED <<me, pc, up>>
        /\ d # <<>> /\ down'[c] = Tail(d)
        /\ Head(d).kind \in {"ArcadeEngage", "ArcadeLeave"}
    BY <1>1, <1>12 DEF OnArcadeEngage, OnArcadeLeave, Gets, Consume, serverVars
  <2>2. \A i \in 1..Len(d) : d[i] = Head(d) \/ \E j \in 1..Len(Tail(d)) : Tail(d)[j] = d[i]
    BY <1>1, <2>1, Shortened
  <2> QED
    BY <2>1, <2>2 DEF Stirs
<1> QED
  BY <1>5, <1>6, <1>7, <1>8, <1>9, <1>10, <1>11, <1>12 DEF Client

\* The two of a pair have their seats, at the machine the server has for them.
LEMMA PairSits ==
  ASSUME NEW ms \in Seats, NEW m \in Machine, NEW a, NEW b, NEW lost, Pair(ms[m], a, b, lost)
  PROVE  /\ Sits(a, ms) /\ Sits(b, ms)
         /\ a \notin lost /\ b \notin lost
<1>1. Len(ms[m]) \in Nat /\ Len(ms[m]) >= 2 /\ ms[m][1] = a /\ ms[m][2] = b
  BY LenProperties DEF Pair, Seats
<1>2. 1 \in 1..Len(ms[m]) /\ 2 \in 1..Len(ms[m])
  BY <1>1
<1> QED
  BY <1>1, <1>2 DEF Sits, Pair

\* Nor is either of them at another machine, or twice at this one.
LEMMA PairPlaces ==
  ASSUME NEW ms \in Seats, NEW m \in Machine, NEW a \in Conn, NEW b \in Conn, NEW lost,
         Pair(ms[m], a, b, lost), NEW f, \A x \in Conn \ lost : Fits(x, ms, f[x])
  PROVE  f[a] = m /\ f[b] = m /\ a # b
<1>1. Len(ms[m]) \in Nat /\ Len(ms[m]) >= 2 /\ ms[m][1] = a /\ ms[m][2] = b
  BY LenProperties DEF Pair, Seats
<1>2. 1 \in 1..Len(ms[m]) /\ 2 \in 1..Len(ms[m])
  BY <1>1
<1>3. Fits(a, ms, f[a]) /\ Fits(b, ms, f[b])
  BY DEF Pair
<1> QED
  BY <1>1, <1>2, <1>3 DEF Fits

\* A client's steps leave no pair waiting.
LEMMA ClientPaired ==
  ASSUME ProtocolInv, NEW c \in Conn, Client(c)
  PROVE  Paired'
<1>1. TypeOK /\ Paired
  BY DEF ProtocolInv
<1>2. machines' = machines /\ deserted' = deserted /\ excused \subseteq excused' /\ pc' = pc
  BY <1>1, ClientFrame DEF serverVars
<1>3. ASSUME NEW x \in Conn, x \notin excused', Sits(x, machines), Stirs(x)
      PROVE  Stirs(x)'
  <2>1. CASE x = c
    <3>1. InOrder(c)
      BY <1>2, <1>3, <2>1 DEF ProtocolInv
    <3> QED
      BY <1>1, <1>3, <2>1, <3>1, ClientStirs
  <2>2. CASE x # c
    <3>1. up'[x] = up[x] /\ down'[x] = down[x] /\ me'[x] = me[x]
      BY <1>1, <2>2, ClientFrame
    <3> QED
      BY <1>2, <1>3, <3>1 DEF Stirs
  <2> QED
    BY <2>1, <2>2
<1>4. ASSUME NEW m \in Machine \ deserted, NEW a \in Conn, NEW b \in Conn,
             Pair(machines[m], a, b, excused')
      PROVE  Stirs(a)' \/ Stirs(b)'
  <2>1. machines \in Seats
    BY <1>1 DEF TypeOK, Seats
  <2>2. Sits(a, machines) /\ Sits(b, machines) /\ a \notin excused' /\ b \notin excused'
    BY <1>4, <2>1, PairSits
  <2>3. Pair(machines[m], a, b, excused)
    BY <1>2, <1>4 DEF Pair
  <2>4. Stirs(a) \/ Stirs(b)
    BY <1>1, <2>3 DEF Paired
  <2> QED
    BY <1>3, <2>2, <2>4
<1> QED
  BY <1>2, <1>4 DEF Paired

\* Whoever leaves a machine breaks up no pair there but its own, and a pair that is there
\* afterwards was there before, unless the machine is deserted now.
LEMMA SeatsAfterPair ==
  ASSUME machines \in Seats, NEW c \in Conn, NEW m \in Machine, NEW k \in Machine,
         ~(k = m /\ Deserts(c, m)), NEW a, NEW b, NEW lost,
         Pair(Server!SeatsAfter(c, m)[k], a, b, lost)
  PROVE  Pair(machines[k], a, b, lost) /\ (k = m => a # c /\ b # c)
<1> DEFINE s == machines[m]
           e == Server!Erase(s, c)
<1>1. s \in Seq(Conn) /\ Len(s) \in Nat
  BY LenProperties DEF Seats
<1>2. CASE k # m
  <2>1. Server!SeatsAfter(c, m)[k] = machines[k]
    BY <1>2 DEF Server!SeatsAfter, Seats
  <2> QED
    BY <1>2, <2>1
<1>3. CASE k = m /\ Server!EndsGame(c, m)
  <2>1. Server!SeatsAfter(c, m)[k] = <<>>
    BY <1>3 DEF Server!SeatsAfter, Seats
  <2>2. Len(<<>>) = 0
    BY EmptySeq
  <2> QED
    BY <2>1, <2>2 DEF Pair
<1>4. CASE k = m /\ ~Server!EndsGame(c, m)
  <2>1. Server!SeatsAfter(c, m)[k] = e
    BY <1>4 DEF Server!SeatsAfter, Seats
  <2>2. Len(e) >= 2 /\ e[1] = a /\ e[2] = b /\ {a, b} \cap lost = {}
    BY <2>1 DEF Pair
  <2>3. CASE c \notin Server!Members(s)
    <3>1. e = s
      BY <2>3 DEF Server!Erase
    <3>2. s[1] # c /\ s[2] # c
      BY <1>1, <2>2, <2>3, <3>1 DEF Server!Members
    <3> HIDE DEF e, s
    <3> QED
      BY <1>4, <2>2, <3>1, <3>2 DEF Pair, s
  <2>4. CASE c \in Server!Members(s)
    <3>1. /\ Len(e) = Len(s) - 1
          /\ \A i \in 1..Len(e) : e[i] = s[Before(s, c, i)]
      BY <1>1, <2>4, EraseType
    <3> HIDE DEF e, s
    <3>2. Len(s) >= 3 /\ 1 \in 1..Len(e) /\ 2 \in 1..Len(e)
      BY <1>1, <2>2, <3>1
    <3>3. s[1] # c /\ s[2] # c
      BY <1>4, <3>2 DEF Deserts, s
    <3>4. Before(s, c, 1) = 1 /\ Before(s, c, 2) = 2
      BY <3>3 DEF Before
    <3>5. s[1] = a /\ s[2] = b
      BY <2>2, <3>1, <3>2, <3>4
    <3> QED
      BY <1>1, <1>4, <2>2, <3>2, <3>3, <3>5 DEF Pair, s
  <2> QED
    BY <2>3, <2>4
<1> QED
  BY <1>2, <1>3, <1>4

\* The steps of c's net thread that leave every seat as it is: only a GameStart that is
\* handled changes whether c stirs, and then the other one of its pair is told to connect.
LEMMA QuietPaired ==
  ASSUME ProtocolInv, NEW c \in Conn,
         \/ TakeReport(c) \/ TakeRequest(c) \/ TakeCommand(c) \/ IgnoreCommand(c)
         \/ TakeStart(c) \/ Broadcast(c)
  PROVE  Paired'
<1> USE DEF clientVars
<1>1. TypeOK /\ Paired
  BY DEF ProtocolInv
<1>2. /\ up \in [Conn -> Seq(UpPacket)] /\ down \in [Conn -> Seq(DownPacket)]
      /\ pc \in [Conn -> {"ready", "request", "command", "starting"}]
      /\ machines \in Seats
  BY <1>1 DEF TypeOK, Seats
<1>3. UNCHANGED <<me, machines, machineId, deserted, excused>>
  BY ReportStep, RequestStep, CommandStep, IgnoreStep, StartStep, BroadcastStep
<1>4. ASSUME NEW x \in Conn, x # c, Stirs(x) PROVE Stirs(x)'
  <2>1. CASE Broadcast(c)
    <3> DEFINE e == IF (x = c /\ tell[c].kind = "ArcadeLeave") \/ ~Sees(x, c)
                    THEN <<>> ELSE <<tell[c]>>
    <3>1. UNCHANGED <<up, me, pc>> /\ down'[x] = down[x] \o e /\ tell[c] # Nothing
      BY <2>1, BroadcastStep
    <3>2. tell[c] \in DownPacket
      BY <1>1, <3>1 DEF TypeOK
    <3>3. e \in Seq(DownPacket)
      BY <3>2, EmptySeq
    <3> HIDE DEF e
    <3> QED
      BY <1>2, <1>4, <3>1, <3>3, StirsOn
  <2>2. CASE ~Broadcast(c)
    <3>1. down' = down /\ up'[x] = up[x] /\ pc'[x] = pc[x]
      BY <1>2, <1>4, <2>2, ReportStep, RequestStep, CommandStep, IgnoreStep, StartStep DEF Takes
    <3> QED
      BY <1>3, <1>4, <3>1 DEF Stirs
  <2> QED
    BY <2>1, <2>2
<1>5. ASSUME Sits(c, machines), c \notin excused, Stirs(c) PROVE Stirs(c)'
  <2>1. CASE Broadcast(c)
    <3> DEFINE e == IF (c = c /\ tell[c].kind = "ArcadeLeave") \/ ~Sees(c, c)
                    THEN <<>> ELSE <<tell[c]>>
    <3>1. UNCHANGED <<up, me, pc>> /\ down'[c] = down[c] \o e /\ tell[c] # Nothing
      BY <2>1, BroadcastStep
    <3>2. tell[c] \in DownPacket
      BY <1>1, <3>1 DEF TypeOK
    <3>3. e \in Seq(DownPacket)
      BY <3>2, EmptySeq
    <3> HIDE DEF e
    <3> QED
      BY <1>2, <1>5, <3>1, <3>3, StirsOn
  <2>2. CASE IgnoreCommand(c)
    BY <1>2, <1>5, <2>2, IgnoreStep DEF Stirs
  <2>3. CASE TakeReport(c) \/ TakeRequest(c) \/ TakeCommand(c) \/ TakeStart(c)
    <3>1. /\ up[c] # <<>> /\ up'[c] = Tail(up[c]) /\ pc[c] = "ready" /\ UNCHANGED <<me, down>>
          /\ Head(up[c]).kind \in {"BattleStatusUpdate", "GameRequest", "/join", "GameStart"}
          /\ Head(up[c]).kind = "GameStart" => TakeStart(c)
      BY <1>2, <2>3, ReportStep, RequestStep, CommandStep, StartStep DEF Takes
    <3>2. \A i \in 1..Len(up[c]) :
            up[c][i] = Head(up[c]) \/ \E j \in 1..Len(Tail(up[c])) : Tail(up[c])[j] = up[c][i]
      BY <1>2, <3>1, Shortened
    <3>3. Head(up[c]) # LeaveArcade
      BY <3>1, PacketFields
    <3>4. CASE Head(up[c]) = Started
      <4>1. TakeStart(c)
        BY <3>1, <3>4, PacketFields
      <4>2. machineId[c] # NoMachine
        <5>1. Fits(c, machines, machineId[c])
          BY <1>5 DEF ProtocolInv, InOrder
        <5> QED
          BY <1>5, <5>1, FitsNowhere
      <4>3. pc'[c] = "starting"
        BY <1>2, <4>1, <4>2, StartStep
      <4> QED
        BY <4>3 DEF Stirs
    <3>5. CASE Head(up[c]) # Started
      BY <1>5, <3>1, <3>2, <3>3, <3>5 DEF Stirs
    <3> QED
      BY <3>4, <3>5
  <2> QED
    BY <2>1, <2>2, <2>3
<1>6. ASSUME NEW m \in Machine \ deserted, NEW a \in Conn, NEW b \in Conn,
             Pair(machines[m], a, b, excused)
      PROVE  Stirs(a)' \/ Stirs(b)'
  <2>0. machines \in Seats
    BY <1>2
  <2>1. Sits(a, machines) /\ Sits(b, machines) /\ a \notin excused /\ b \notin excused
    BY <1>6, <2>0, PairSits
  <2>2. Stirs(a) \/ Stirs(b)
    BY <1>1, <1>6 DEF Paired
  <2>3. Stirs(a) => Stirs(a)'
    BY <1>4, <1>5, <2>1
  <2>4. Stirs(b) => Stirs(b)'
    BY <1>4, <1>5, <2>1
  <2> QED
    BY <2>2, <2>3, <2>4
<1> QED
  BY <1>3, <1>6 DEF Paired

\* Who is asked to host or told to connect stirs.
LEMMA StirsAsked ==
  ASSUME NEW x, NEW e \in Seq(DownPacket), down[x] \in Seq(DownPacket),
         down'[x] = down[x] \o e, NEW y, Carries(e, y), y.kind \in {"GameRequest", "GameStart"}
  PROVE  Stirs(x)'
<1>1. Carries(down'[x], y)
  BY Extended
<1> QED
  BY <1>1 DEF Carries, Stirs

\* onGameStart's section: whoever has started stirs no more for that, but the other one of
\* its pair is told to connect.
LEMMA SectionPaired ==
  ASSUME ProtocolInv, NEW c \in Conn, StartSection(c)
  PROVE  Paired'
<1>1. TypeOK /\ Paired
  BY DEF ProtocolInv
<1>2. /\ down \in [Conn -> Seq(DownPacket)]
      /\ pc \in [Conn -> {"ready", "request", "command", "starting"}]
      /\ machineId \in [Conn -> Machine \cup {NoMachine}] /\ status \in [Conn -> Status]
  BY <1>1 DEF TypeOK
<1>3. machines \in Seats
  BY <1>1 DEF TypeOK, Seats
<1>4. PICK k \in Machine :
        /\ k \in Server!SeatSource(c)
        /\ down' = [d \in Conn |-> down[d] \o Starts(c, machines[k], d)]
  BY <1>2, SectionStep
<1>5. /\ UNCHANGED <<me, up, machines, machineId, deserted, excused>>
      /\ pc' = [pc EXCEPT ![c] = "ready"]
  BY <1>2, SectionStep DEF clientVars
<1>6. ASSUME NEW x \in Conn
      PROVE  /\ Starts(c, machines[k], x) \in Seq(DownPacket)
             /\ down[x] \in Seq(DownPacket)
             /\ down'[x] = down[x] \o Starts(c, machines[k], x)
  <2>1. machines[k] \in Seq(Conn)
    BY <1>3 DEF Seats
  <2> QED
    BY <1>2, <1>4, <2>1, StartsType
<1>7. ASSUME NEW x \in Conn, x # c, Stirs(x) PROVE Stirs(x)'
  <2> DEFINE e == Starts(c, machines[k], x)
  <2>1. e \in Seq(DownPacket) /\ down[x] \in Seq(DownPacket) /\ down'[x] = down[x] \o e
    BY <1>6
  <2>2. up'[x] = up[x] /\ me'[x] = me[x] /\ pc'[x] = pc[x]
    BY <1>2, <1>5, <1>7
  <2> HIDE DEF e
  <2> QED
    BY <1>7, <2>1, <2>2, StirsOn
<1>8. ASSUME NEW x \in Conn, x # c, \E i \in 1..Len(machines[k]) : machines[k][i] = x
      PROVE  Stirs(x)'
  <2> DEFINE e == Starts(c, machines[k], x)
  <2>1. e \in Seq(DownPacket) /\ down[x] \in Seq(DownPacket) /\ down'[x] = down[x] \o e
    BY <1>6
  <2>2. 1 \in 1..Len(e) /\ e[1].kind = "GameStart"
    <3>1. machines[k] \in Seq(Conn)
      BY <1>3 DEF Seats
    <3> QED
      BY <1>8, <3>1, StartsType
  <2> HIDE DEF e
  <2>3. Carries(e, e[1])
    BY <2>2 DEF Carries
  <2> QED
    BY <2>1, <2>2, <2>3, StirsAsked
<1>9. ASSUME NEW m \in Machine \ deserted, NEW a \in Conn, NEW b \in Conn,
             Pair(machines[m], a, b, excused)
      PROVE  Stirs(a)' \/ Stirs(b)'
  <2>1. Stirs(a) \/ Stirs(b)
    BY <1>1, <1>9 DEF Paired
  <2>2. \A x \in Conn \ excused : Fits(x, machines, machineId[x])
    BY DEF ProtocolInv, InOrder
  <2>3. machineId[a] = m /\ machineId[b] = m /\ a # b
    <3>1. m \in Machine
      OBVIOUS
    <3> QED
      BY <1>3, <1>9, <2>2, <3>1, PairPlaces
  <2>4. c \in {a, b} => k = m /\ a # b
    <3>1. c \in {a, b} => machineId[c] = m /\ a # b
      BY <2>3
    <3>2. m # NoMachine
      BY Constants
    <3> QED
      BY <1>4, <3>1, <3>2 DEF Server!SeatSource
  <2>5. \A x \in {a, b} : \E i \in 1..Len(machines[m]) : machines[m][i] = x
    <3>1. /\ Len(machines[m]) \in Nat /\ Len(machines[m]) >= 2
          /\ machines[m][1] = a /\ machines[m][2] = b
      BY <1>3, <1>9, LenProperties DEF Pair, Seats
    <3>2. 1 \in 1..Len(machines[m]) /\ 2 \in 1..Len(machines[m])
      BY <3>1
    <3> QED
      BY <3>1, <3>2
  <2>6. CASE c \notin {a, b}
    BY <1>7, <2>1, <2>6
  <2>7. CASE c \in {a, b}
    BY <1>8, <2>4, <2>5, <2>7
  <2> QED
    BY <2>6, <2>7
<1> QED
  BY <1>5, <1>9 DEF Paired

\* Leaving a machine.
LEMMA LeavePaired ==
  ASSUME ProtocolInv, NEW c \in Conn, TakeLeave(c)
  PROVE  Paired'
<1> DEFINE k == machineId[c]
<1>1. TypeOK /\ Paired
  BY DEF ProtocolInv
<1>2. /\ down \in [Conn -> Seq(DownPacket)] /\ up \in [Conn -> Seq(UpPacket)]
      /\ machineId \in [Conn -> Machine \cup {NoMachine}]
  BY <1>1 DEF TypeOK
<1>3. machines \in Seats
  BY <1>1 DEF TypeOK, Seats
<1>4. Takes(c, "ArcadeLeave") /\ UNCHANGED <<me, pc, excused>>
  BY LeaveStep
<1>5. ASSUME NEW x \in Conn, x # c, Stirs(x) PROVE Stirs(x)'
  <2>1. up'[x] = up[x] /\ me'[x] = me[x] /\ pc'[x] = pc[x]
    BY <1>2, <1>4, <1>5 DEF Takes
  <2>2. CASE k = NoMachine
    <3>1. down' = down
      BY <2>2, LeaveStep
    <3> QED
      BY <1>5, <2>1, <3>1 DEF Stirs
  <2>3. CASE k # NoMachine
    <3> DEFINE e == Boots(c, k)[x]
    <3>1. k \in Machine
      BY <1>2, <2>3
    <3>2. down' = [d \in Conn |-> down[d] \o Boots(c, k)[d]]
      BY <2>3, LeaveStep
    <3> HIDE DEF k
    <3>3. e \in Seq(DownPacket)
      BY <1>3, <3>1, BootsType
    <3>4. down'[x] = down[x] \o e /\ down[x] \in Seq(DownPacket)
      BY <1>2, <3>2
    <3> HIDE DEF e
    <3> QED
      BY <1>5, <2>1, <3>3, <3>4, StirsOn
  <2> QED
    BY <2>2, <2>3
<1>6. /\ IF k = NoMachine THEN machines' = machines /\ deserted' = deserted
         ELSE /\ machines' = Server!SeatsAfter(c, k)
              /\ deserted' = IF Deserts(c, k) THEN deserted \cup {k} ELSE deserted
  BY LeaveStep
<1> HIDE DEF k
<1>7. ASSUME NEW m \in Machine \ deserted', NEW a \in Conn, NEW b \in Conn,
             Pair(machines'[m], a, b, excused)
      PROVE  Pair(machines[m], a, b, excused) /\ m \notin deserted /\ (k = m => c \notin {a, b})
  <2>1. CASE k = NoMachine
    BY <1>6, <1>7, <2>1, Constants
  <2>2. CASE k # NoMachine
    <3>1. k \in Machine /\ ~(m = k /\ Deserts(c, k)) /\ m \notin deserted
      BY <1>2, <1>6, <1>7, <2>2 DEF k
    <3>2. Pair(Server!SeatsAfter(c, k)[m], a, b, excused)
      BY <1>6, <1>7, <2>2
    <3>3. Pair(machines[m], a, b, excused) /\ (m = k => a # c /\ b # c)
      BY <1>3, <3>1, <3>2, SeatsAfterPair
    <3> QED
      BY <3>1, <3>3
  <2> QED
    BY <2>1, <2>2
<1>8. ASSUME NEW m \in Machine \ deserted', NEW a \in Conn, NEW b \in Conn,
             Pair(machines'[m], a, b, excused)
      PROVE  Stirs(a)' \/ Stirs(b)'
  <2>1. Pair(machines[m], a, b, excused) /\ m \notin deserted /\ (k = m => c \notin {a, b})
    BY <1>7, <1>8
  <2>2. Stirs(a) \/ Stirs(b)
    BY <1>1, <2>1 DEF Paired
  <2>3. \A x \in Conn \ excused : Fits(x, machines, machineId[x])
    BY DEF ProtocolInv, InOrder
  <2>4. machineId[a] = m /\ machineId[b] = m
    <3>1. m \in Machine
      OBVIOUS
    <3>2. Pair(machines[m], a, b, excused)
      BY <2>1
    <3> DEFINE f == machineId
    <3>3. \A x \in Conn \ excused : Fits(x, machines, f[x])
      BY <2>3
    <3> HIDE DEF f
    <3>4. f[a] = m /\ f[b] = m
      BY <1>3, <3>1, <3>2, <3>3, PairPlaces
    <3> QED
      BY <3>4 DEF f
  <2>5. c \notin {a, b}
    BY <2>1, <2>4 DEF k
  <2> QED
    BY <1>5, <2>2, <2>5
<1> QED
  BY <1>4, <1>8 DEF Paired

\* Joining a machine: when two players meet there one of them is asked to host, unless their
\* preferences clash.
LEMMA JoinPaired ==
  ASSUME ProtocolInv, NEW c \in Conn, JoinArcade(c)
  PROVE  Paired'
<1>1. TypeOK /\ Paired
  BY DEF ProtocolInv
<1>2. want[c] \in Machine
  BY <1>1, JoinSteps
<1>3. PICK from \in Machine, seats \in Seats : \E answer : Joins(c, from, seats, answer)
  BY <1>1, JoinSteps
<1>4. PICK answer : Joins(c, from, seats, answer)
  BY <1>3
<1> DEFINE w == want[c]
           s == seats[w]
           refused == Server!Refused(c, s)
<1>5. machines \in Seats /\ s \in Seq(Conn) /\ Len(s) \in Nat
  BY <1>1, <1>2, LenProperties DEF TypeOK, Seats
<1>6. UNCHANGED <<me, up>> /\ excused \subseteq excused' /\ answer \in Answers(c, s)
  BY <1>4 DEF Joins
<1>7. ASSUME NEW x \in Conn
      PROVE  \E e \in Seq(DownPacket) :
               /\ down[x] \in Seq(DownPacket) /\ down'[x] = down[x] \o e
               /\ answer.to = x => Carries(e, answer.packet)
  <2>1. down[x] \in Seq(DownPacket)
    BY <1>1 DEF TypeOK
  <2> QED
    BY <1>1, <1>2, <1>4, <2>1, JoinSends DEF Carries
<1>8. ASSUME NEW x \in Conn, x # c, Stirs(x) PROVE Stirs(x)'
  <2>1. up'[x] = up[x] /\ me'[x] = me[x] /\ pc'[x] = pc[x]
    BY <1>1, <1>4, <1>6, <1>8 DEF Joins, TypeOK
  <2>2. PICK e \in Seq(DownPacket) : down[x] \in Seq(DownPacket) /\ down'[x] = down[x] \o e
    BY <1>7
  <2> QED
    BY <1>8, <2>1, <2>2, StirsOn
<1>9. ASSUME NEW x \in Conn, answer.to = x, answer.packet = HostRequest PROVE Stirs(x)'
  <2>1. PICK e \in Seq(DownPacket) : /\ down[x] \in Seq(DownPacket) /\ down'[x] = down[x] \o e
                                     /\ Carries(e, HostRequest)
    BY <1>7, <1>9
  <2>2. HostRequest.kind \in {"GameRequest", "GameStart"}
    BY PacketFields
  <2> QED
    BY <2>1, <2>2, StirsAsked
<1>10. c \notin excused' => ~Sits(c, machines)
  <2>1. pc[c] = "request" \/ (pc[c] = "command" /\ status[c] = "idle")
    BY <1>4 DEF Joins
  <2> QED
    BY <1>6, <2>1, JoinsSeatless DEF ProtocolInv
\* A pair that was there before.
<1>11. ASSUME NEW m \in Machine \ deserted', NEW a \in Conn, NEW b \in Conn,
              Pair(seats[m], a, b, excused')
       PROVE  Stirs(a)' \/ Stirs(b)'
  <2>1. Pair(machines[m], a, b, excused') /\ m \notin deserted
    <3> DEFINE leaves == status[c] # "idle"
    <3>1. /\ seats = IF leaves THEN Server!SeatsAfter(c, from) ELSE machines
          /\ deserted' = IF leaves /\ Deserts(c, from) THEN deserted \cup {from} ELSE deserted
      BY <1>4 DEF Joins
    <3>2. CASE leaves
      <4>1. Pair(Server!SeatsAfter(c, from)[m], a, b, excused')
        BY <1>11, <3>1, <3>2
      <4>2. ~(m = from /\ Deserts(c, from)) /\ m \notin deserted
        BY <1>11, <3>1, <3>2
      <4>3. machines \in Seats
        BY <1>5
      <4> QED
        BY <4>1, <4>2, <4>3, SeatsAfterPair
    <3>3. CASE ~leaves
      BY <1>11, <3>1, <3>3
    <3> QED
      BY <3>2, <3>3
  <2>2. Pair(machines[m], a, b, excused)
    BY <1>6, <2>1 DEF Pair
  <2>3. Stirs(a) \/ Stirs(b)
    BY <1>1, <2>1, <2>2 DEF Paired
  <2>4. machines \in Seats
    BY <1>5
  <2>5. Sits(a, machines) /\ Sits(b, machines) /\ a \notin excused' /\ b \notin excused'
    <3>1. m \in Machine
      OBVIOUS
    <3>2. Pair(machines[m], a, b, excused')
      BY <2>1
    <3> QED
      BY <2>4, <3>1, <3>2, PairSits
  <2>6. c \notin {a, b}
    BY <1>10, <2>5
  <2> QED
    BY <1>8, <2>3, <2>6
<1>12. ASSUME NEW m \in Machine \ deserted', NEW a \in Conn, NEW b \in Conn,
              Pair(machines'[m], a, b, excused')
       PROVE  Stirs(a)' \/ Stirs(b)'
  <2>1. CASE machines'[m] = seats[m]
    BY <1>11, <1>12, <2>1
  <2>2. CASE machines'[m] # seats[m]
    <3> DEFINE p1 == IF s = <<>> THEN PrefOf[c] ELSE PrefOf[s[1]]
               t == Server!SeatsWith(c, s, status', p1, PrefOf[c])
    <3>1. m = w /\ ~refused /\ machines'[m] = t
      <4>1. machines' = IF refused THEN seats ELSE [seats EXCEPT ![w] = t]
        BY <1>4 DEF Joins
      <4>2. seats \in [Machine -> Seq(Conn)]
        BY DEF Seats
      <4> HIDE DEF refused, t, w
      <4> QED
        BY <2>2, <4>1, <4>2
    <3>2. t # s /\ Pair(t, a, b, excused')
      BY <1>12, <2>2, <3>1
    <3>3. t = <<>> \/ (t = Append(s, c) /\ Playing(s) = {})
      <4> DEFINE busy == \E i \in 1..2 : i <= Len(s) /\ status'[s[i]] = "playing"
      <4>1. CASE busy
        <5>1. t = s
          BY <4>1 DEF Server!SeatsWith
        <5> QED
          BY <3>2, <5>1
      <4>2. CASE ~busy
        <5>1. Playing(s) = {}
          BY <4>2 DEF Playing
        <5>2. t \in {<<>>, Append(s, c)}
          BY <4>2 DEF Server!SeatsWith, Server!StartRoom
        <5> QED
          BY <5>1, <5>2
      <4> QED
        BY <4>1, <4>2
    <3>4. t = Append(s, c)
      <4>1. Len(<<>>) = 0
        BY EmptySeq
      <4> QED
        BY <3>2, <3>3, <4>1 DEF Pair
    <3>5. /\ Len(Append(s, c)) = Len(s) + 1 /\ Append(s, c)[Len(s) + 1] = c
          /\ \A i \in 1..Len(s) : Append(s, c)[i] = s[i]
      BY <1>5, AppendProperties
    <3>6. CASE Len(s) >= 2
      <4>1. Pair(s, a, b, excused')
        <5>1. 1 \in 1..Len(s) /\ 2 \in 1..Len(s)
          BY <1>5, <3>6
        <5> HIDE DEF s, t
        <5> QED
          BY <3>2, <3>4, <3>5, <3>6, <5>1 DEF Pair
      <4> QED
        BY <1>11, <1>12, <3>1, <4>1
    <3>7. CASE Len(s) = 1
      <4> HIDE DEF s, t
      <4>1. a = s[1] /\ b = c /\ {a, b} \cap excused' = {}
        BY <3>2, <3>4, <3>5, <3>7 DEF Pair
      <4>2. ~Clash(s, c)
        <5>1. refused \/ ~(Playing(s) = {} /\ Clash(s, c)) \/ c \in excused'
          BY <1>4 DEF Joins, s
        <5> QED
          BY <3>1, <3>3, <3>4, <4>1, <5>1, EmptySeq
      <4>3. answer.to = Host(s, c) /\ answer.packet = HostRequest
        <5>1. Playing(s) = {}
          BY <3>3, <3>4, <3>5, <3>7, EmptySeq
        <5>2. answer \in Answers(c, s)
          BY <1>6 DEF s
        <5>3. ~Server!Refused(c, s)
          BY <3>1 DEF s
        <5>4. answer = [to |-> Host(s, c), packet |-> HostRequest]
          BY <3>7, <4>2, <5>1, <5>2, <5>3 DEF Answers
        <5> QED
          BY <5>4
      <4>4. Host(s, c) \in {a, b}
        BY <4>1 DEF Host
      <4> QED
        BY <1>9, <4>3, <4>4
    <3>8. CASE Len(s) = 0
      <4> HIDE DEF s, t
      <4> QED
        BY <3>2, <3>4, <3>5, <3>8 DEF Pair
    <3>9. Len(s) >= 2 \/ Len(s) = 1 \/ Len(s) = 0
      <4>1. Len(s) \in Nat
        BY <1>5
      <4>2. \A n \in Nat : n >= 2 \/ n = 1 \/ n = 0
        OBVIOUS
      <4> HIDE DEF s
      <4> QED
        BY <4>1, <4>2
    <3> QED
      BY <3>6, <3>7, <3>8, <3>9
  <2> QED
    BY <2>1, <2>2
<1> QED
  BY <1>12 DEF Paired

-----------------------------------------------------------------------------
(* The theorems.                                                           *)

\* Every step keeps the invariant.
LEMMA ProtocolNext == ProtocolInv /\ [Next]_vars => ProtocolInv'
<1> SUFFICES ASSUME ProtocolInv, [Next]_vars PROVE ProtocolInv'
  OBVIOUS
<1>1. TypeOK'
  BY NextType DEF ProtocolInv
<1>2. CASE UNCHANGED vars
  <2>1. UNCHANGED <<status, machineId, machines, pc, want, rogue, tell, up, down, me, current,
                    screen, excused, deserted>>
    BY <1>2 DEF vars, serverVars, clientVars
  <2>2. TellsOwn'
    BY <2>1 DEF ProtocolInv, TellsOwn
  <2>3. rogue' \subseteq excused'
    BY <2>1 DEF ProtocolInv
  <2>4. ASSUME NEW d \in Conn \ excused' PROVE InOrder(d)'
    <3>1. InOrder(d)
      BY <2>1 DEF ProtocolInv
    <3> QED
      BY <2>1, <3>1, Untouched
  <2>5. Paired'
    <3>1. Paired
      BY DEF ProtocolInv
    <3> QED
      BY <2>1, <3>1 DEF Paired, Stirs
  <2> QED
    BY <1>1, <2>2, <2>3, <2>4, <2>5 DEF ProtocolInv
<1>3. ASSUME NEW c \in Conn, Client(c) \/ NetThread(c) PROVE ProtocolInv'
  <2>1. TypeOK /\ TellsOwn
    BY DEF ProtocolInv
  <2>2. TellsOwn'
    BY <1>3, <2>1, TellsOwnKept
  <2>3. rogue' \subseteq excused'
    BY <1>3, RogueKept
  <2>4. ASSUME NEW d \in Conn \ excused' PROVE InOrder(d)'
    <3>1. CASE Client(c)
      BY <3>1, ClientInOrder
    <3>2. CASE NetThread(c)
      BY <3>2, NetThreadInOrder
    <3> QED
      BY <1>3, <3>1, <3>2
  <2>5. CASE Client(c)
    <3>1. Paired'
      BY <2>5, ClientPaired
    <3> QED
      BY <1>1, <2>2, <2>3, <2>4, <3>1 DEF ProtocolInv
  <2>6. CASE NetThread(c)
    <3>1. Paired'
      BY <2>6, QuietPaired, SectionPaired, LeavePaired, JoinPaired DEF NetThread
    <3> QED
      BY <1>1, <2>2, <2>3, <2>4, <3>1 DEF ProtocolInv
  <2> QED
    BY <1>3, <2>5, <2>6
<1> QED
  BY <1>2, <1>3 DEF Next

\* The inductive invariant (ProtocolInv): the packets of every player who was not overtaken
\* are in an order in which the later ones undo the earlier, they and the server's record of
\* the player lead to what its client thinks, its seats are those of the record, and of two
\* players who have met at a machine one has been asked to do something.
THEOREM ProtocolInvariant == Spec => []ProtocolInv
BY ProtocolInit, ProtocolNext, PTL DEF Spec

\* When nothing of a player is under way, there is nothing left to make up a difference.
LEMMA QuietAgrees ==
  ASSUME TypeOK, NEW c \in Conn, InOrder(c), Quiet(c)
  PROVE  current[c] = machineId[c]
<1>1. /\ up[c] = <<>> /\ down[c] = <<>> /\ pc[c] = "ready"
      /\ Len(up[c]) = 0 /\ Len(down[c]) = 0
  BY EmptySeq DEF Quiet
<1>2. /\ Told(up[c], pc[c], status[c], machineId[c], current[c], screen[c])
      /\ Held(c, down[c], up[c], current[c], pc[c], want[c], machineId[c])
  BY DEF InOrder
<1>3. CASE current[c] = NoMachine
  <2>1. Freed(up[c], 0, pc[c], machineId[c])
    BY <1>1, <1>2, <1>3 DEF Told
  <2>2. ~Seat(pc[c], machineId[c])
    BY <2>1 DEF Freed, Undone
  <2> QED
    BY <1>3, <2>2 DEF Seat
<1>4. CASE current[c] # NoMachine
  <2>1. ~Posted(down[c], c) /\ ~Asking(up[c], current[c])
    BY <1>1 DEF Posted, Asking
  <2> QED
    BY <1>1, <1>2, <1>4, <2>1 DEF Held
<1> QED
  BY <1>3, <1>4

\* Once nothing of a player is under way, its client and the server agree on the machine it
\* is at (Agreement), however its requests, its leaves, the server's refusals and the boots
\* by other players crossed on their way, unless it was overtaken.
THEOREM AgreementAlways == Spec => []Agreement
<1>1. ProtocolInv => Agreement
  BY QuietAgrees DEF ProtocolInv, Agreement
<1> QED
  BY <1>1, ProtocolInvariant, PTL

\* The battle status by which _onPlayerJoinArcade decides whether there is a machine to leave
\* says the same as the stored machine whenever it handles a request of a player who was not
\* overtaken (RequestsMakeSense).
THEOREM RequestsMakeSenseAlways == Spec => []RequestsMakeSense
<1>1. ProtocolInv => RequestsMakeSense
  BY DEF ProtocolInv, RequestsMakeSense, InOrder
<1> QED
  BY <1>1, ProtocolInvariant, PTL

\* The server loses track of nobody's seat but an overtaken player's (RogueIsExcused): that
\* a request finds the player idle and yet seated takes more than its own client.
THEOREM RogueIsExcusedAlways == Spec => []RogueIsExcused
<1>1. ProtocolInv => RogueIsExcused
  BY DEF ProtocolInv, RogueIsExcused
<1> QED
  BY <1>1, ProtocolInvariant, PTL

\* Two players who have come together at a machine do not both sit waiting once nothing is
\* under way, unless one of the first two has left before their game (NobodyWaitsInVain):
\* _onPlayerJoinArcade asks one of them to host, and neither forgets it.
THEOREM NobodyWaitsInVainAlways == Spec => []NobodyWaitsInVain
<1>1. ASSUME ProtocolInv PROVE NobodyWaitsInVain
  <2>1. TypeOK /\ Paired
    BY <1>1 DEF ProtocolInv
  <2> SUFFICES ASSUME NEW m \in Machine, m \notin deserted, Len(machines[m]) >= 2,
                      \A c \in Conn : Quiet(c),
                      {machines[m][1], machines[m][2]} \cap excused = {}
               PROVE  \E i \in 1..2 : me[machines[m][i]] # "waiting"
    BY DEF NobodyWaitsInVain
  <2> DEFINE a == machines[m][1]
             b == machines[m][2]
  <2>2. a \in Conn /\ b \in Conn
    <3>1. machines[m] \in Seq(Conn) /\ Len(machines[m]) \in Nat
      BY <2>1, LenProperties DEF TypeOK
    <3>2. 1 \in 1..Len(machines[m]) /\ 2 \in 1..Len(machines[m])
      BY <3>1
    <3> QED
      BY <3>1, <3>2, ElementOfSeq
  <2>3. Pair(machines[m], a, b, excused)
    BY DEF Pair
  <2>4. Stirs(a) \/ Stirs(b)
    BY <2>1, <2>2, <2>3 DEF Paired
  <2>5. ASSUME NEW c \in Conn, Stirs(c) PROVE me[c] # "waiting"
    <3>1. /\ up[c] = <<>> /\ down[c] = <<>> /\ pc[c] = "ready"
          /\ Len(up[c]) = 0 /\ Len(down[c]) = 0
      BY EmptySeq DEF Quiet
    <3> QED
      BY <2>5, <3>1 DEF Stirs
  <2>6. me[a] # "waiting" \/ me[b] # "waiting"
    BY <2>2, <2>4, <2>5
  <2> QED
    BY <2>6
<1> QED
  BY <1>1, ProtocolInvariant, PTL

=============================================================================
