----------------------------- MODULE LobbyList -----------------------------
(***************************************************************************)
(* The list of the lobbies (LobbyMenu).  The master thread asks the main   *)
(* server for the lobbies, erases the entries that are neither connected   *)
(* nor listed and adds the new ones; the connect thread goes through the   *)
(* entries, opens their connections and asks for their texts to be drawn;  *)
(* the net thread of each connection reports its end.  None of them draws: *)
(* they queue callbacks, and the game thread runs the first of the queue,  *)
(* a batch at most, in each of its frames and drops the others.            *)
(*                                                                         *)
(* The texts are the name of the entry (the count of its players is kept   *)
(* up by the same callbacks) and the lobbies do not change their names.    *)
(* The screen of a lobby takes the errors of the connection for itself.    *)
(* Closing the menu is left out.                                           *)
(***************************************************************************)
EXTENDS Naturals, Sequences, FiniteSets, SequencesExt

CONSTANTS
  Listable,    \* the lobbies the main server may list
  Unsteady,    \* those of them that something happens to
  MaxEntries,  \* bound on the entries made
  MaxQueue,    \* bound on the callbacks that wait
  Batch,       \* callbacks run in a frame (11)
  RetryEvery,  \* sweeps of the connect thread between two retries (200)
  MaxMishaps   \* bound on connections lost, lobbies entered, changes of the list

ASSUME LobbyListAssumption ==
  /\ IsFiniteSet(Listable) /\ Unsteady \subseteq Listable
  /\ MaxEntries \in Nat /\ MaxQueue \in Nat \ {0} /\ Batch \in Nat \ {0}
  /\ RetryEvery \in Nat \ {0} /\ MaxMishaps \in Nat

VARIABLES
  listed,     \* the lobbies the main server lists
  entries,    \* _connections: the numbers of the entries, which are in the order they were made
  entry,      \* the entries made so far
  queue,      \* _workerQueue
  sweep, index,  \* i and j of the connect thread
  current, connecting,  \* the entry it holds, and where it is with it
  mishaps,    \* bounds the faults
  dropped,    \* history: the lobbies that the main server has stopped listing
  hung        \* history: the game thread and a net thread wait for each other

connectVars == <<sweep, index, current, connecting>>
listHistory == <<dropped, hung>>
listVars == <<listed, entries, entry, queue, connectVars, mishaps, listHistory>>

None == 0
Made == DOMAIN entry
Callback(kind, e, text) == [kind |-> kind, entry |-> e, text |-> text]
Push(f) == Len(queue) < MaxQueue /\ queue' = Append(queue, f)

\* isConnected(): a connection is, until it fails, even before it is open.
IsConnected(e) == entry[e].link = "up"
InList(e) == e \in entries

\* A callback of the menu keeps its entry alive, an error's does not.
Keeps(f, e) == f.entry = e /\ f.kind # "error"

NewEntry(l) ==
  [lobby |-> l, link |-> "none", info |-> "", text |-> "", lastName |-> "",
   first |-> TRUE, screen |-> FALSE, overdrawn |-> FALSE]

ListInit ==
  /\ listed = Listable
  /\ entries = {} /\ entry = <<>>
  /\ queue = <<>>
  /\ sweep = 0 /\ index = 0 /\ current = None /\ connecting = "next"
  /\ mishaps = 0 /\ dropped = {} /\ hung = FALSE

-----------------------------------------------------------------------------
(* The master thread.                                                      *)

\* Mutant: every entry without a connection is erased.
StaysIfConnected(e) == IsConnected(e)

\* The lobbies that are gone stay as long as they are connected.
Stays(e) == IsConnected(e) \/ entry[e].lobby \in listed

\* The answer of the main server: the entries that do not stay are erased, and a
\* lobby that has none gets one, with a first text.  (The thread lets go of the
\* list between two entries and queues their texts without it: the others then
\* see a part of the new list, and nothing can have answered by then.)
MasterReads ==
  LET stay == {e \in entries : Stays(e)}
      missing == {l \in listed : \A e \in stay : entry[e].lobby # l}
  IN \E new \in SetToSeqs(missing) :
     /\ Len(entry) + Len(new) <= MaxEntries /\ Len(queue) + Len(new) <= MaxQueue
     /\ entry' = entry \o [i \in DOMAIN new |-> NewEntry(new[i])]
     /\ entries' = stay \cup {Len(entry) + i : i \in DOMAIN new}
     /\ queue' = queue \o [i \in DOMAIN new |-> Callback("status", Len(entry) + i, "in queue")]
     /\ UNCHANGED <<listed, connectVars, mishaps, listHistory>>

-----------------------------------------------------------------------------
(* The connect thread (_connectLoop).                                      *)

\* Mutant: only new entries are tried.
SkipsOld(e) == ~entry[e].first

\* A connection that failed is tried again in one sweep of RetryEvery.
Skips(e) == sweep # 0 /\ ~entry[e].first

\* The next entry of the list, whatever has been erased before it meanwhile; at
\* the end of the list the thread sleeps and starts another sweep.
ConnectNext ==
  /\ connecting = "next"
  /\ IF index < Cardinality(entries)
     THEN \E e \in entries :
          /\ Cardinality({x \in entries : x < e}) = index
          /\ index' = index + 1 /\ UNCHANGED sweep
          /\ \/ IsConnected(e) /\ connecting' = "info" /\ current' = e
             \/ ~IsConnected(e) /\ ~Skips(e) /\ connecting' = "open" /\ current' = e
             \/ ~IsConnected(e) /\ Skips(e) /\ UNCHANGED <<connecting, current>>
     ELSE /\ index' = 0 /\ sweep' = (sweep + 1) % RetryEvery
          /\ UNCHANGED <<connecting, current>>
  /\ UNCHANGED <<listed, entries, entry, queue, mishaps, listHistory>>

ConnectAnnounces ==
  /\ connecting = "open" /\ connecting' = "create"
  /\ Push(Callback("status", current, "connecting"))
  /\ entry' = [entry EXCEPT ![current].first = FALSE]
  /\ UNCHANGED <<listed, entries, sweep, index, current, mishaps, listHistory>>

\* A new Connection takes the place of the old one and knows nothing yet.  The
\* old one goes once its net thread has ended, unless a lobby screen keeps it.
ConnectOpens ==
  /\ connecting = "create" /\ connecting' = "opened"
  /\ entry[current].link = "failing" => entry[current].screen
  /\ entry' = [entry EXCEPT ![current].link = "up", ![current].info = "",
                            ![current].screen = FALSE]
  /\ UNCHANGED <<listed, entries, queue, sweep, index, current, mishaps, listHistory>>

\* Mutant: the name is remembered when its callback is queued.
QueuesNameOnce(e) ==
  /\ Push(Callback("name", e, entry[e].info))
  /\ entry' = [entry EXCEPT ![e].lastName = entry[e].info]

\* The name is remembered by its callback, when it is drawn.
QueuesName(e) == Push(Callback("name", e, entry[e].info)) /\ UNCHANGED entry

\* A name that is not the last one drawn is queued, in each sweep until it is.
ConnectRefreshes ==
  /\ connecting \in {"info", "opened"} /\ connecting' = "next" /\ current' = None
  /\ IF entry[current].info # entry[current].lastName THEN QueuesName(current)
     ELSE UNCHANGED <<entry, queue>>
  /\ UNCHANGED <<listed, entries, sweep, index, mishaps, listHistory>>

-----------------------------------------------------------------------------
(* The connections.                                                        *)

LinkBecomes(e, link) == entry' = [entry EXCEPT ![e].link = link]
Mishap(l) == l \in Unsteady /\ mishaps < MaxMishaps /\ mishaps' = mishaps + 1

\* The answer to a ping of _netLoop.  It has the network to cross twice: the
\* connect thread, which reads the name of a connection as soon as it has opened
\* it, is done by then.
Pong(e) ==
  /\ entry[e].link = "up" /\ entry[e].info = ""
  /\ ~(connecting = "opened" /\ current = e)
  /\ entry' = [entry EXCEPT ![e].info = "name"]
  /\ UNCHANGED <<listed, entries, queue, connectVars, mishaps, listHistory>>

\* onError: the list's callback, unless a lobby screen has put its own.
ReportsError(e) ==
  IF entry[e].screen THEN UNCHANGED queue ELSE Push(Callback("error", e, "error"))

\* error() and Kicked, and a connection that cannot be opened: the end is
\* reported before the connection is marked as closed.
LinkRefused(e) ==
  /\ IsConnected(e) /\ Mishap(entry[e].lobby)
  /\ ReportsError(e) /\ LinkBecomes(e, "down")
  /\ UNCHANGED <<listed, entries, connectVars, listHistory>>

\* The end of the stream: the connection is marked as closed, and reported, under
\* the mutexes of its packets, after that.
LinkLost(e) ==
  /\ entry[e].link = "up" /\ Mishap(entry[e].lobby)
  /\ LinkBecomes(e, "failing")
  /\ UNCHANGED <<listed, entries, queue, connectVars, listHistory>>

LinkReports(e) ==
  /\ entry[e].link = "failing"
  /\ ReportsError(e) /\ LinkBecomes(e, "down")
  /\ UNCHANGED <<listed, entries, connectVars, mishaps, listHistory>>

-----------------------------------------------------------------------------
(* The game thread, and the main server.                                   *)

\* lastName after the first n of the callbacks run: an error takes its place too.
LastNameAt(run, e, n) ==
  LET named == {i \in 1..n : run[i].entry = e /\ run[i].kind # "status"}
  IN IF named = {} THEN entry[e].lastName ELSE run[Max(named)].text

\* What the callbacks do to an entry; overdrawn is a history: "Connecting" was drawn
\* over a name, which is still the last one drawn.
Runs(run, e) ==
  LET drawn == {i \in DOMAIN run : run[i].entry = e}
  IN [entry[e] EXCEPT
        !.text = IF drawn = {} THEN @ ELSE run[Max(drawn)].text,
        !.lastName = LastNameAt(run, e, Len(run)),
        !.overdrawn = @ \/ \E i \in drawn : /\ run[i].kind = "status"
                                           /\ LastNameAt(run, e, i) = "name"]

\* A frame (execUiCallbacks): a batch is run, the rest is dropped, and the last
\* of the references to an erased entry may go with the queue, under its mutex.
\* The destructor then waits for the net thread, which, when it has still to
\* report the end, waits for the queue.
Frame ==
  LET run  == SubSeq(queue, 1, IF Len(queue) < Batch THEN Len(queue) ELSE Batch)
  IN /\ queue # <<>>
     /\ entry' = [e \in Made |-> Runs(run, e)]
     /\ queue' = <<>>
     /\ hung' = \E f \in ToSet(queue) :
                  LET e == f.entry IN
                  /\ Keeps(f, e) /\ ~InList(e) /\ current # e
                  /\ entry[e].link = "failing" /\ ~entry[e].screen
     /\ UNCHANGED <<listed, entries, connectVars, mishaps, dropped>>

\* The player opens and closes the screen of a lobby.
ScreenOpens(e) ==
  /\ InList(e) /\ IsConnected(e) /\ \A x \in Made : ~entry[x].screen
  /\ Mishap(entry[e].lobby)
  /\ entry' = [entry EXCEPT ![e].screen = TRUE]
  /\ UNCHANGED <<listed, entries, queue, connectVars, listHistory>>

ScreenLeft(e) ==
  /\ entry[e].screen
  /\ entry' = [entry EXCEPT ![e].screen = FALSE]
  /\ UNCHANGED <<listed, entries, queue, connectVars, mishaps, listHistory>>

\* A lobby starts or stops.
ListChanges ==
  /\ \E l \in Listable :
       /\ Mishap(l)
       /\ \/ l \in listed /\ listed' = listed \ {l} /\ dropped' = dropped \cup {l}
          \/ l \notin listed /\ listed' = listed \cup {l} /\ UNCHANGED dropped
  /\ UNCHANGED <<entries, entry, queue, connectVars, hung>>

Connect == ConnectNext \/ ConnectAnnounces \/ ConnectOpens \/ ConnectRefreshes
Link(e) == Pong(e) \/ LinkReports(e)

ListNext ==
  ~hung /\ ( \/ MasterReads \/ Connect \/ Frame \/ ListChanges
             \/ \E e \in Made : \/ Link(e) \/ LinkRefused(e) \/ LinkLost(e)
                                \/ ScreenOpens(e) \/ ScreenLeft(e) )

\* The threads keep running, and the network keeps answering.
ListFairness ==
  /\ WF_listVars(~hung /\ MasterReads) /\ WF_listVars(~hung /\ Connect)
  /\ WF_listVars(~hung /\ Frame)
  /\ \A e \in 1..MaxEntries : WF_listVars(~hung /\ e \in Made /\ Link(e))

ListSpec == ListInit /\ [][ListNext]_listVars /\ ListFairness

-----------------------------------------------------------------------------
(* Properties.                                                             *)

\* The type invariant.
ListTypeOK ==
  /\ listed \subseteq Listable /\ dropped \subseteq Listable
  /\ entry \in Seq([lobby : Listable, link : {"none", "up", "failing", "down"},
                    info : {"", "name"}, lastName : {"", "name", "error"}, screen : BOOLEAN,
                    text : {"", "in queue", "connecting", "name", "error"}, first : BOOLEAN,
                    overdrawn : BOOLEAN])
  /\ Len(entry) <= MaxEntries /\ entries \subseteq Made
  /\ current \in Made \cup {None}
  /\ Len(queue) <= MaxQueue
  /\ \A f \in ToSet(queue) : f.entry \in Made /\ f.kind \in {"status", "name", "error"}
  /\ sweep \in 0..(RetryEvery - 1) /\ index \in Nat
  /\ connecting \in {"next", "open", "create", "opened", "info"}
  /\ mishaps \in 0..MaxMishaps

\* A lobby whose connection holds ends up with its name on the screen, in whatever
\* order the threads queue the callbacks and whichever of them are dropped; unless
\* "Connecting" was drawn over a name while the list was not told that the former
\* connection had ended: the name, the last one drawn, need not be drawn again.
NamesAppear ==
  \A e \in 1..MaxEntries :
    <>[](e \in Made /\ InList(e) /\ entry[e].link = "up")
      => <>[](hung \/ (e \in Made /\ (entry[e].text = "name" \/ entry[e].overdrawn)))

\* A connection that ended is opened again, or its entry erased.
Reconnects ==
  \A e \in 1..MaxEntries :
    (e \in Made /\ InList(e) /\ entry[e].link = "down")
      ~> (hung \/ ~InList(e) \/ entry[e].link # "down")

\* The game thread only waits for a net thread that waits for it when the main
\* server has dropped the lobby of the entry: what it lists is never erased.
HangNeedsADrop == hung => dropped # {}

=============================================================================
