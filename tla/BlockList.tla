------------------------------ MODULE BlockList ------------------------------
(***************************************************************************)
(* The blocked players, their addresses (Blocklist) and the file they are  *)
(* kept in.  Every change is saved at once: a temporary file is written,   *)
(* the file removed, the temporary one renamed.  The program may end       *)
(* between any two steps, and a step may fail.  Two earlier forms of the   *)
(* file are read when there is no valid one, saved in the new form and     *)
(* then removed.  All calls hold blocklistMutex, so one runs at a time;    *)
(* the server's answer about a blocked player's address makes two.         *)
(***************************************************************************)
EXTENDS Naturals

CONSTANTS
  Name, IpAddress,  \* players and addresses
  MaxCalls   \* bound on the changes of the list

ASSUME BlockAssumption == MaxCalls \in Nat

\* A list: the addresses known of each blocked player.
Lists == UNION {[ns -> SUBSET IpAddress] : ns \in SUBSET Name}
Nobody == [n \in {} |-> {}]
Addresses(l) == UNION {l[n] : n \in DOMAIN l}

VARIABLES
  list,      \* blockedEntries
  addresses, \* blockedAddresses
  dat, tmp,  \* blocklist.dat and its temporary: "none", "broken" or "ok", with its list
  json, txt, \* the earlier forms, likewise
  step,      \* where saveLocked is; "off" when the program does not run
  migrated,  \* the save is initialize's
  answer,    \* an address the net thread is about to add: [name, ip] or NoAnswer
  inMatch,   \* the game has left the lobby screen for a match
  calls,     \* bounds the changes
  durable,   \* history: the lists the next start may find
  exposed,   \* history: the file was last left removed, or renamed broken
  unblocked, \* history: the players unblocked since the start, and not blocked again
  midAnswer  \* history: those unblocked during a match, in the middle of an answer

files     == <<dat, tmp, json, txt>>
blockHistory == <<durable, exposed, unblocked, midAnswer>>
blockVars == <<list, addresses, files, step, migrated, answer, inMatch, calls, blockHistory>>

File(state, l) == [state |-> state, list |-> l]
NoFile == File("none", Nobody)
Broken == File("broken", Nobody)
NoAnswer == [name |-> {}, ip |-> {}]

\* A game that has one player's list in one of its forms, or none.
BlockInit ==
  /\ list = Nobody /\ addresses = {} /\ step = "off" /\ migrated = FALSE /\ calls = 0
  /\ tmp = NoFile /\ answer = NoAnswer /\ inMatch = FALSE
  /\ exposed = FALSE /\ unblocked = {} /\ midAnswer = {}
  /\ \E n \in Name, i \in IpAddress :
       LET old == File("ok", [x \in {n} |-> {i}]) IN
       \E at \in {"dat", "json", "txt", "nowhere"} :
         /\ dat = IF at = "dat" THEN old ELSE NoFile
         /\ json = IF at = "json" THEN old ELSE NoFile
         /\ txt = IF at = "txt" THEN old ELSE NoFile
         /\ durable = IF at = "nowhere" THEN {Nobody} ELSE {old.list}

(***************************************************************************)
(* Saving (saveLocked).                                                    *)
(***************************************************************************)
Saving(at) == step = at /\ UNCHANGED <<list, addresses, migrated, answer, inMatch, calls,
                                        unblocked, midAnswer>>
Untouched == UNCHANGED <<dat, json, txt>>

\* A save that gives up leaves the list as it was in the file.
GivesUp == step' = "idle"

\* The temporary file is opened and written: either may fail, and is noticed.
Writes ==
  /\ Saving("write") /\ Untouched
  /\ \/ tmp' = File("ok", list) /\ step' = "close"
     \/ tmp' \in {tmp, Broken} /\ GivesUp
  /\ UNCHANGED <<durable, exposed>>

\* Its last bytes are written when it is closed, after the test: nobody looks whether
\* they were.
Closes ==
  /\ Saving("close") /\ Untouched
  /\ step' = "remove"
  /\ tmp' \in {tmp, Broken}
  /\ UNCHANGED <<durable, exposed>>

\* The error of the removal is not looked at.
Removes ==
  /\ Saving("remove") /\ UNCHANGED <<json, txt, tmp, exposed, durable>>
  /\ dat' \in {dat, NoFile}
  /\ step' = "rename"

\* rename replaces a file that is still there.
Renames ==
  /\ Saving("rename") /\ UNCHANGED <<json, txt>>
  /\ \/ /\ dat' = tmp /\ tmp' = NoFile
        /\ step' = IF migrated THEN "retire" ELSE "idle"
        /\ durable' = {list} /\ exposed' = (tmp = Broken)
     \/ /\ GivesUp /\ exposed' = (exposed \/ dat = NoFile)
        /\ UNCHANGED <<dat, tmp, durable>>

\* The end of initialize: the earlier forms are removed, one after the other.
Retires ==
  /\ Saving("retire") /\ UNCHANGED <<dat, tmp, durable, exposed>>
  /\ json' = NoFile /\ UNCHANGED txt
  /\ step' = "retire text"

RetiresText ==
  /\ Saving("retire text") /\ UNCHANGED <<dat, tmp, json, durable, exposed>>
  /\ txt' = NoFile
  /\ step' = "idle"

(***************************************************************************)
(* Starting and ending.                                                    *)
(***************************************************************************)
\* Mutant: the earlier forms come first.
OldFormsFirst == IF json.state = "ok" THEN json ELSE IF txt.state = "ok" THEN txt ELSE dat

\* What initialize finds: the first form that is there and valid.
Found == IF dat.state = "ok" THEN dat ELSE IF json.state = "ok" THEN json ELSE txt

Start ==
  /\ step = "off"
  /\ list' = Found.list /\ addresses' = Addresses(Found.list)
  /\ migrated' = (dat.state # "ok" /\ Found.state = "ok")
  /\ step' = IF migrated' THEN "write" ELSE "idle"
  /\ durable' = {Found.list} /\ exposed' = FALSE
  /\ unblocked' = {} /\ midAnswer' = {}
  /\ UNCHANGED <<files, answer, inMatch, calls>>

\* Between two steps of a save, or of the rest of the program.
Ends ==
  /\ step # "off" /\ step' = "off"
  /\ list' = Nobody /\ addresses' = {} /\ migrated' = FALSE
  /\ answer' = NoAnswer /\ inMatch' = FALSE
  /\ exposed' = (exposed \/ (step = "rename" /\ dat = NoFile))
  /\ unblocked' = {} /\ midAnswer' = {}
  /\ UNCHANGED <<files, calls, durable>>

(***************************************************************************)
(* The calls.                                                              *)
(***************************************************************************)
Calls == step = "idle" /\ calls < MaxCalls /\ calls' = calls + 1

\* The list has changed, and is saved.
Changed(l) ==
  /\ list' = l /\ step' = "write" /\ migrated' = FALSE
  /\ durable' = durable \cup {l}
  /\ UNCHANGED <<files, inMatch, exposed>>

\* Mutant: a command of the lobby screen does not wait for the packets.
NeverWaits == TRUE

\* A command typed in the lobby screen is run under the mutex of the packets; one typed
\* during a match is not.
NoPacketInHand == answer = NoAnswer \/ inMatch

\* add: /block.
add(n) ==
  /\ Calls /\ NoPacketInHand /\ n \notin DOMAIN list
  /\ Changed([x \in DOMAIN list \cup {n} |-> IF x = n THEN {} ELSE list[x]])
  /\ unblocked' = unblocked \ {n}
  /\ UNCHANGED <<addresses, answer, midAnswer>>

\* Mutant: the addresses of the player are taken out.
TakenOut(n) == addresses \ list[n]

\* rebuildAddressesLocked, without the player.
Rebuilt(n) == UNION {list[x] : x \in DOMAIN list \ {n}}

\* remove: /unblock.
remove(n) ==
  /\ Calls /\ NoPacketInHand /\ n \in DOMAIN list
  /\ Changed([x \in DOMAIN list \ {n} |-> list[x]])
  /\ addresses' = Rebuilt(n)
  /\ unblocked' = unblocked \cup {n}
  /\ midAnswer' = IF inMatch /\ answer.name = n THEN midAnswer \cup {n} ELSE midAnswer
  /\ UNCHANGED answer

\* The server tells the address of a player: it is of use if he is blocked.
contains(n, i) ==
  /\ step = "idle" /\ answer = NoAnswer /\ n \in DOMAIN list
  /\ answer' = [name |-> n, ip |-> i]
  /\ UNCHANGED <<list, addresses, files, step, migrated, inMatch, calls, blockHistory>>

\* addIp: the player is put in the list if he is not there.
addIp ==
  LET n == answer.name
      l == [x \in DOMAIN list \cup {n} |->
              (IF x \in DOMAIN list THEN list[x] ELSE {}) \cup
              (IF x = n THEN {answer.ip} ELSE {})]
  IN  /\ answer # NoAnswer /\ step = "idle" /\ answer' = NoAnswer
      /\ addresses' = addresses \cup {answer.ip}
      /\ IF l = list
         THEN UNCHANGED <<list, files, step, migrated, inMatch, durable, exposed>>
         ELSE Changed(l)
      /\ UNCHANGED <<calls, unblocked, midAnswer>>

\* A match begins or ends.
Scene ==
  /\ step = "idle" /\ inMatch' = ~inMatch
  /\ UNCHANGED <<list, addresses, files, step, migrated, answer, calls, blockHistory>>

BlockNext ==
  \/ Start \/ Ends \/ Scene
  \/ Writes \/ Closes \/ Removes \/ Renames \/ Retires \/ RetiresText
  \/ \E n \in Name : add(n) \/ remove(n) \/ \E i \in IpAddress : contains(n, i)
  \/ addIp

BlockSpec == BlockInit /\ [][BlockNext]_blockVars

(***************************************************************************)
(* Properties.                                                             *)
(***************************************************************************)
\* The type invariant; the addresses refused are those of the blocked players, whoever
\* shares one.
BlockTypeOK ==
  /\ list \in Lists /\ addresses = Addresses(list)
  /\ \A f \in {dat, tmp, json, txt} : f.state \in {"none", "broken", "ok"} /\ f.list \in Lists
  /\ step \in {"off", "idle", "write", "close", "remove", "rename", "retire", "retire text"}
  /\ calls \in 0..MaxCalls /\ durable \subseteq Lists
  /\ answer = NoAnswer \/ answer \in [name : Name, ip : IpAddress]
  /\ {migrated, inMatch, exposed} \subseteq BOOLEAN

\* Wherever the program ends, its next start finds the list as it was saved last, or as
\* the change under way makes it; not so when it ends between the removal and the
\* renaming, when the renaming fails, or when the last bytes of the file did not fit.
ListSurvives == step = "off" /\ ~exposed => Found.list \in durable

\* A player who was unblocked is not put back by the server's answer about him, unless he
\* was unblocked during a match in the middle of it.
UnblockedStays == unblocked \cap DOMAIN list \subseteq midAnswer
=============================================================================
