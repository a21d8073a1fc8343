----------------------------- MODULE ServerLocks -----------------------------
(***************************************************************************)
(* Who waits for whom in the lobby server: the order in which its threads  *)
(* take _connectionsMutex (C) and _machinesMutex (M), and the joins of net *)
(* threads.                                                                *)
(*                                                                         *)
(* A handler is the sequence of sections it goes through:                  *)
(*   "C"  a section under C (a broadcast, _findPlayer, _sanitizeName)      *)
(*   "M"  a section under M (onGameStart)                                  *)
(*   "B"  a section under M that may boot players, each boot being a       *)
(*        broadcast under C inside it (_leaveArcade)                       *)
(*   "K"  the end of a kick or of onDisconnect: the connection is closed   *)
(* and the main thread has four more:                                      *)
(*   "A"  accepting a connection, under C                                  *)
(*   "R"  the reaping, under C: M is taken for every closed connection that*)
(*        is at a machine, then the threads of the closed connections are  *)
(*        joined                                                           *)
(*   "X"  the catch clause of run: everybody is kicked under C             *)
(*   "Q"  the end of run: everybody is kicked, with an empty onDisconnect  *)
(* std::mutex does not nest: a thread that waits for a mutex it holds      *)
(* waits for ever.                                                         *)
(***************************************************************************)
EXTENDS Naturals, Sequences

CONSTANTS
  Net,     \* the net threads, one per connection
  Main     \* the main thread

ASSUME MainAssumption == Main \notin Net

Thread == Net \cup {Main}

VARIABLES
  at,      \* Thread: what it holds and waits for (see Labels)
  todo,    \* Thread: the sections it has yet to go through
  target,  \* Thread: the connection its "K" is about
  link,    \* Net: "free" (no such connection), "open" or "closed"
  batch,   \* the connections being destroyed
  kicked   \* history: somebody has been kicked

vars == <<at, todo, target, link, batch, kicked>>

\* "out" outside; "inC", "inM" in a section; "boot" in a "B", waiting for C; "inMC" in
\* a "B", broadcasting.  Main only: "sweep", "visit", "inCM", "join" the reaping (holds
\* C; in "visit" waits for M, in "inCM" holds it, in "join" waits for threads);
\* "relock" waits for C in the catch clause, which holds it; "end" run has returned.
Labels == {"out", "inC", "inM", "boot", "inMC", "accept", "sweep", "visit", "inCM", "join",
           "catch", "relock", "quit", "end"}
NetLabels == {"out", "inC", "inM", "boot", "inMC"}
Sections == {"C", "M", "B", "K", "A", "R", "X", "Q"}

\* Mutant: the connection is closed before onDisconnect is called.
ClosesFirst == {<<"K", "C">>, <<"K", "C", "B">>}

\* onDisconnect at the end of a connection, or in a kick.
OnDisconnect == {<<"C", "K">>, <<"C", "B", "K">>}

\* What the other handlers go through, PlayerLeave's onDisconnect included.
Handlers ==
  {<<"C">>,              \* onMove, onPosition, onBattleStatus, onMessage, onSettingsUpdate
   <<"C", "C">>,         \* onJoin: _sanitizeName, then the section
   <<"M">>,              \* onGameStart
   <<"B">>, <<"B", "C">>,             \* onGameRequest, onArcadeLeave
   <<"C", "B">>, <<"C", "B", "C">>}   \* /join

Init ==
  /\ at = [t \in Thread |-> "out"]
  /\ todo = [t \in Thread |-> <<>>]
  /\ target = [t \in Thread |-> t]
  /\ link = [u \in Net |-> "open"]
  /\ batch = {}
  /\ kicked = FALSE

-----------------------------------------------------------------------------
HoldsC(t) == at[t] \in {"inC", "inMC", "accept", "sweep", "visit", "inCM", "join", "catch",
                        "relock", "quit"}
HoldsM(t) == at[t] \in {"inM", "boot", "inMC", "inCM"}

\* The section t is about to enter.
Upcoming(t) == IF at[t] = "out" /\ todo[t] # <<>> THEN Head(todo[t]) ELSE "none"

WantsC(t) == Upcoming(t) \in {"C", "A", "R", "X", "Q"} \/ at[t] \in {"boot", "relock"}
WantsM(t) == Upcoming(t) \in {"M", "B"} \/ at[t] = "visit"

FreeC == \A t \in Thread : ~HoldsC(t)
FreeM == \A t \in Thread : ~HoldsM(t)

\* A net thread has ended: its connection is closed and its last handler is over.
Finished(u) == link[u] # "open" /\ at[u] = "out" /\ todo[u] = <<>>

Idle(t) == at[t] = "out" /\ todo[t] = <<>>
Move(t, from, to) == at[t] = from /\ at' = [at EXCEPT ![t] = to]

-----------------------------------------------------------------------------
(* Starting something.                                                     *)

Handle(u, h) ==
  /\ Idle(u) /\ link[u] = "open"
  /\ todo' = [todo EXCEPT ![u] = h]
  /\ UNCHANGED <<at, target, link, batch, kicked>>

\* A /kick by t, at the console or in the lobby from the server's own machine: the
\* player is found, then kicked.
Kick(t, u, h) ==
  /\ Idle(t) /\ link[u] = "open" /\ (t # Main => link[t] = "open")
  /\ todo' = [todo EXCEPT ![t] = <<"C">> \o h]
  /\ target' = [target EXCEPT ![t] = u]
  /\ kicked' = TRUE
  /\ UNCHANGED <<at, link, batch>>

\* The main thread: a step of the loop, an exception, or the end of the loop.
MainStarts(s) ==
  /\ Idle(Main)
  /\ s = "A" => \E u \in Net : link[u] = "free"
  /\ todo' = [todo EXCEPT ![Main] = <<s>>]
  /\ UNCHANGED <<at, target, link, batch, kicked>>

-----------------------------------------------------------------------------
(* Sections.                                                               *)

\* lock() of C or M at the start of a section.
Enter(t) ==
  /\ at[t] = "out" /\ todo[t] # <<>>
  /\ \/ Head(todo[t]) = "C" /\ FreeC /\ Move(t, "out", "inC")
     \/ Head(todo[t]) \in {"M", "B"} /\ FreeM /\ Move(t, "out", "inM")
     \/ Head(todo[t]) = "A" /\ FreeC /\ Move(t, "out", "accept")
     \/ Head(todo[t]) = "R" /\ FreeC /\ Move(t, "out", "sweep")
     \/ Head(todo[t]) = "X" /\ FreeC /\ Move(t, "out", "catch")
     \/ Head(todo[t]) = "Q" /\ FreeC /\ Move(t, "out", "quit")
  /\ UNCHANGED <<todo, target, link, batch, kicked>>

\* unlock() at its end.
Leave(t) ==
  /\ at[t] \in {"inC", "inM"}
  /\ at' = [at EXCEPT ![t] = "out"]
  /\ todo' = [todo EXCEPT ![t] = Tail(@)]
  /\ UNCHANGED <<target, link, batch, kicked>>

\* Mutant: a handler takes M inside its section under C, as the reaping does.
BootUnderC(t) ==
  /\ Move(t, "inM", "boot") \/ Move(t, "inC", "visit")
  /\ UNCHANGED <<todo, target, link, batch, kicked>>

\* _leaveArcade boots a player: a broadcast under C, M being held.
Boot(t) ==
  /\ at[t] = "inM" /\ Head(todo[t]) = "B"
  /\ Move(t, "inM", "boot")
  /\ UNCHANGED <<todo, target, link, batch, kicked>>
BootBroadcast(t) ==
  /\ FreeC
  /\ Move(t, "boot", "inMC")
  /\ UNCHANGED <<todo, target, link, batch, kicked>>
BootDone(t) ==
  /\ Move(t, "inMC", "inM")
  /\ UNCHANGED <<todo, target, link, batch, kicked>>

\* _connected = false, outside the mutexes.
Close(t) ==
  /\ at[t] = "out" /\ todo[t] # <<>> /\ Head(todo[t]) = "K"
  /\ link' = [link EXCEPT ![target[t]] = IF @ = "open" THEN "closed" ELSE @]
  /\ todo' = [todo EXCEPT ![t] = Tail(@)]
  /\ target' = [target EXCEPT ![t] = t]
  /\ UNCHANGED <<at, batch, kicked>>

-----------------------------------------------------------------------------
(* The main thread, under C.                                               *)

EndSection(from) ==
  /\ Move(Main, from, "out")
  /\ todo' = [todo EXCEPT ![Main] = <<>>]

\* The new connection's thread is started.
Accept(u) ==
  /\ link[u] = "free" /\ EndSection("accept")
  /\ link' = [link EXCEPT ![u] = "open"]
  /\ UNCHANGED <<target, batch, kicked>>

\* An exception while C is held (no thread to be had): C is not released.
Throw == Move(Main, "accept", "relock") /\ UNCHANGED <<todo, target, link, batch, kicked>>

Visit ==
  /\ \E u \in Net : link[u] = "closed"
  /\ Move(Main, "sweep", "visit")
  /\ UNCHANGED <<todo, target, link, batch, kicked>>
VisitSeat == FreeM /\ Move(Main, "visit", "inCM") /\ UNCHANGED <<todo, target, link, batch, kicked>>
VisitDone == Move(Main, "inCM", "sweep") /\ UNCHANGED <<todo, target, link, batch, kicked>>

Doom ==
  /\ Move(Main, "sweep", "join")
  /\ batch' = {u \in Net : link[u] = "closed"}
  /\ UNCHANGED <<todo, target, link, kicked>>
Destroy ==
  /\ EndSection("join")
  /\ \A u \in batch : Finished(u)
  /\ link' = [u \in Net |-> IF u \in batch THEN "free" ELSE link[u]]
  /\ batch' = {}
  /\ UNCHANGED <<target, kicked>>

\* The catch clause kicks a player, whose onDisconnect wants C; without players it is
\* over, and so is run.
Catch ==
  /\ Move(Main, "catch", "relock") \/ Move(Main, "catch", "end")
  /\ UNCHANGED <<todo, target, link, batch, kicked>>

Quit ==
  /\ Move(Main, "quit", "end")
  /\ link' = [u \in Net |-> IF link[u] = "open" THEN "closed" ELSE link[u]]
  /\ UNCHANGED <<todo, target, batch, kicked>>

Section(t) ==
  \/ \E u \in Net, h \in OnDisconnect : Kick(t, u, h)
  \/ Enter(t)
  \/ Leave(t)
  \/ Boot(t)
  \/ BootBroadcast(t)
  \/ BootDone(t)
  \/ Close(t)

MainStep ==
  \/ \E s \in {"A", "R", "X", "Q", "C"} : MainStarts(s)
  \/ \E u \in Net : Accept(u)
  \/ Throw
  \/ Visit
  \/ VisitSeat
  \/ VisitDone
  \/ Doom
  \/ Destroy
  \/ Catch
  \/ Quit

Next == (\E u \in Net, h \in Handlers \cup OnDisconnect : Handle(u, h)) \/ (\E t \in Thread : Section(t)) \/ MainStep

Spec == Init /\ [][Next]_vars

-----------------------------------------------------------------------------
(* Properties.                                                             *)

\* Every variable has its type, and a net thread never waits with C in its hands.
TypeOK ==
  /\ at \in [Thread -> Labels]
  /\ \A u \in Net : at[u] \in NetLabels
  /\ todo \in [Thread -> Seq(Sections)]
  /\ target \in [Thread -> Thread]
  /\ link \in [Net -> {"free", "open", "closed"}]
  /\ batch \subseteq Net
  /\ kicked \in BOOLEAN

\* t waits for u: for a mutex u holds, or to join u's thread.
WaitsFor(t, u) ==
  \/ WantsC(t) /\ HoldsC(u)
  \/ WantsM(t) /\ HoldsM(u)
  \/ t = Main /\ at[t] = "join" /\ u \in batch /\ ~Finished(u)

\* Each thread of D waits for one of D: none of them will ever move again.
Deadlocked(D) == D # {} /\ \A t \in D : \E u \in D : WaitsFor(t, u)

\* The main thread holds C and waits for something else.
MainOverreaches == at[Main] \in {"visit", "join", "relock"}

\* The threads of the server can only end up waiting for each other in a circle when the
\* main thread is in it and waits with C in its hands: for M while it reaps, for a
\* thread it joins, or for C itself in the catch clause.  The handlers alone, however
\* many run at once, never deadlock, for all that _leaveArcade broadcasts under M.
DeadlockNeedsMain ==
  \A D \in SUBSET Thread : Deadlocked(D) => Main \in D /\ MainOverreaches

\* The join of the reaping only ever waits after a kick: a connection that closed itself
\* has nothing left to do, one that was closed from outside may be in any handler.
JoinWaitsForTheKicked ==
  at[Main] = "join" /\ ~kicked => \A u \in batch : Finished(u)

=============================================================================
