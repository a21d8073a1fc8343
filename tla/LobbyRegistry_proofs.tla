------------------------ MODULE LobbyRegistry_proofs ------------------------
(***************************************************************************)
(* Theorems about LobbyRegistry, for any lobbies, any number of links, any *)
(* timeout of at least one window and any number of faults.                *)
(***************************************************************************)
EXTENDS LobbyRegistry, TLAPS

\* A registration thread that has a socket runs, and the link it has is its own.
SocketsOwned ==
  \A l \in Lobby : \A k \in Link :
    sock[l] = k => life[l] = "open" /\ owner[k] = l /\ wire[k] # "free"

\* A link that works is in the hands of both sides, and of an open lobby.
Working ==
  \A k \in Link : wire[k] = "up" => /\ serving /\ far[k] # "none"
                                    /\ life[owner[k]] = "open" /\ sock[owner[k]] = k

\* A message is in the box only after the lobby's turn in this window, and only one.
OneMessage ==
  \A k \in Link : box[k] <= 1 /\ (wire[k] = "up" /\ ~sent[owner[k]] => box[k] = 0)

\* A working link has not been silent for longer than a window; once the lobby has had
\* its turn, there is a message to read or the one that was sent has been read.
Heard ==
  \A k \in Link : wire[k] = "up" => /\ age[k] <= 1
                                    /\ sent[owner[k]] /\ box[k] = 0 => age[k] = 0

RegistryInv == TypeOK /\ SocketsOwned /\ Working /\ OneMessage /\ Heard

\* Nothing is connected when everything starts.
LEMMA RegistryInit == Init => RegistryInv
<1> SUFFICES ASSUME Init PROVE RegistryInv
  OBVIOUS
<1>1. /\ NoLink \notin Link /\ Limit \in Nat \ {0} /\ MaxFaults \in Nat
      /\ (CHOOSE l \in Lobby : TRUE) \in Lobby
  BY RegistryAssumption
<1>2. TypeOK
  <2>1. /\ owner \in [Link -> Lobby] /\ sock \in [Lobby -> Link \cup {NoLink}]
        /\ life \in [Lobby -> {"new", "open", "closed"}]
        /\ wire \in [Link -> {"up", "lost", "fin", "hup", "reset", "free"}]
        /\ far \in [Link -> {"none", "backlog", "entry"}]
    BY <1>1 DEF Init
  <2>2. /\ sent \in [Lobby -> BOOLEAN] /\ port \in [Link -> BOOLEAN]
        /\ serving \in BOOLEAN /\ swept \in BOOLEAN
    BY DEF Init
  <2>3. box \in [Link -> 0..2] /\ age \in [Link -> 0..(Limit + 1)] /\ faults \in 0..MaxFaults
    BY <1>1 DEF Init
  <2> QED
    BY <2>1, <2>2, <2>3 DEF TypeOK
<1>3. SocketsOwned /\ Working /\ OneMessage /\ Heard
  BY <1>1 DEF Init, SocketsOwned, Working, OneMessage, Heard
<1> QED
  BY <1>2, <1>3 DEF RegistryInv

\* connect() makes the lobby's new link, if there is a main server, and gives up the old one.
LEMMA ConnectStep ==
  ASSUME RegistryInv, NEW l \in Lobby, Connect(l), life'[l] = "open",
         UNCHANGED serving,
         \A j \in Lobby \ {l} : life'[j] = life[j] /\ sent'[j] = sent[j]
  PROVE  /\ sock' \in [Lobby -> Link \cup {NoLink}]
         /\ wire' \in [Link -> {"up", "lost", "fin", "hup", "reset", "free"}]
         /\ owner' \in [Link -> Lobby]
         /\ far' \in [Link -> {"none", "backlog", "entry"}]
         /\ box' \in [Link -> 0..2]
         /\ port' \in [Link -> BOOLEAN]
         /\ age' \in [Link -> 0..(Limit + 1)]
         /\ SocketsOwned' /\ Working' /\ OneMessage' /\ Heard'
<1> USE DEF RegistryInv, TypeOK, entryVars
<1>1. NoLink \notin Link /\ Limit \in Nat
  BY RegistryAssumption
<1>2. \A k \in Link : LetGo(k) \in {"fin", "lost", "free"}
  BY DEF LetGo
<1>3. wire' = [j \in Link |-> IF j = sock'[l] THEN "up"
                              ELSE IF j = sock[l] THEN LetGo(j) ELSE wire[j]]
  BY DEF Connect
<1>4. CASE serving
  <2> DEFINE k == CHOOSE j \in Link : wire[j] = "free"
  <2>1. k \in Link /\ wire[k] = "free"
    BY <1>4 DEF Connect
  <2>2. /\ sock' = [sock EXCEPT ![l] = k]
        /\ owner' = [owner EXCEPT ![k] = l]
        /\ far' = [far EXCEPT ![k] = "backlog"]
        /\ box' = [box EXCEPT ![k] = 0]
        /\ port' = [port EXCEPT ![k] = FALSE]
        /\ age' = [age EXCEPT ![k] = 0]
    BY <1>4 DEF Connect
  <2> HIDE DEF k
  <2>3. k # sock[l] /\ \A j \in Lobby : sock[j] # k
    BY <2>1 DEF SocketsOwned
  <2>4. \A j \in Link : wire'[j] = IF j = k THEN "up"
                                   ELSE IF j = sock[l] THEN LetGo(j) ELSE wire[j]
    BY <1>3, <2>2
  <2>5. \A j \in Link \ {k} : wire'[j] = "up" => wire[j] = "up" /\ owner[j] # l
    BY <1>2, <2>4 DEF Working
  <2>6. SocketsOwned'
    <3> SUFFICES ASSUME NEW i \in Lobby, NEW j \in Link, sock'[i] = j
                 PROVE  life'[i] = "open" /\ owner'[j] = i /\ wire'[j] # "free"
      BY DEF SocketsOwned
    <3>1. CASE i = l
      BY <2>1, <2>2, <2>4, <3>1
    <3>2. CASE i # l
      <4>1. sock[i] = j /\ j # k /\ life[i] = "open" /\ owner[j] = i /\ wire[j] # "free"
        BY <2>2, <2>3, <3>2 DEF SocketsOwned
      <4>2. j # sock[l]
        BY <3>2, <4>1 DEF SocketsOwned
      <4> QED
        BY <2>2, <2>4, <3>2, <4>1, <4>2
    <3> QED
      BY <3>1, <3>2
  <2>7. Working'
    BY <1>4, <2>1, <2>2, <2>5 DEF Working
  <2>8. OneMessage' /\ Heard'
    BY <2>1, <2>2, <2>5 DEF OneMessage, Heard
  <2>9. /\ sock' \in [Lobby -> Link \cup {NoLink}]
        /\ owner' \in [Link -> Lobby]
        /\ far' \in [Link -> {"none", "backlog", "entry"}]
        /\ box' \in [Link -> 0..2]
        /\ port' \in [Link -> BOOLEAN]
        /\ age' \in [Link -> 0..(Limit + 1)]
    BY <1>1, <2>1, <2>2
  <2>10. wire' \in [Link -> {"up", "lost", "fin", "hup", "reset", "free"}]
    BY <1>2, <1>3
  <2> QED
    BY <2>6, <2>7, <2>8, <2>9, <2>10
<1>5. CASE ~serving
  <2>1. sock' = [sock EXCEPT ![l] = NoLink] /\ UNCHANGED <<owner, far, box, port, age>>
    BY <1>5 DEF Connect
  <2>2. \A j \in Link : wire'[j] = IF j = sock[l] THEN LetGo(j) ELSE wire[j]
    BY <1>1, <1>3, <2>1
  <2>3. \A j \in Link : wire'[j] # "up"
    BY <1>2, <1>5, <2>2 DEF Working
  <2>4. SocketsOwned'
    BY <1>1, <2>1, <2>2 DEF SocketsOwned
  <2>5. Working' /\ OneMessage' /\ Heard'
    BY <2>1, <2>3 DEF Working, OneMessage, Heard
  <2> QED
    BY <1>1, <1>2, <1>3, <2>1, <2>2, <2>4, <2>5
<1> QED
  BY <1>4, <1>5


\* Steps that connect nobody, send nothing, read nothing and let no time go by.
LEMMA RegistryQuiet ==
  ASSUME RegistryInv, TypeOK', UNCHANGED <<sent, owner, age>>,
         \A l \in Lobby : \/ sock'[l] = NoLink
                          \/ sock'[l] = sock[l] /\ life'[l] = life[l],
         \A k \in Link : wire'[k] = "up" => /\ wire[k] = "up" /\ serving' /\ far'[k] # "none"
                                            /\ sock'[owner[k]] = sock[owner[k]]
                                            /\ life'[owner[k]] = life[owner[k]]
                                            /\ box'[k] = box[k],
         \A k \in Link : wire'[k] = "free" => \A l \in Lobby : sock'[l] = k => wire[k] = "free",
         \A k \in Link : box'[k] \in {0, box[k]}
  PROVE  RegistryInv'
<1> USE DEF RegistryInv
<1>1. NoLink \notin Link
  BY RegistryAssumption
<1>2. \A k \in Link : owner[k] \in Lobby /\ box[k] \in Nat
  BY DEF TypeOK
<1>3. SocketsOwned'
  BY <1>1 DEF SocketsOwned
<1>4. Working'
  BY <1>2 DEF Working
<1>5. OneMessage' /\ Heard'
  BY <1>2 DEF OneMessage, Heard
<1> QED
  BY <1>3, <1>4, <1>5

\* Every step keeps the invariant.
LEMMA RegistryNext == RegistryInv /\ [Next]_vars => RegistryInv'
<1> SUFFICES ASSUME RegistryInv, [Next]_vars PROVE RegistryInv'
  OBVIOUS
<1> USE DEF lobbyVars, entryVars
<1>1. /\ NoLink \notin Link /\ Limit \in Nat \ {0} /\ MaxFaults \in Nat
  BY RegistryAssumption
<1>2. TypeOK /\ \A k \in Link : owner[k] \in Lobby
  BY DEF RegistryInv, TypeOK
<1>3. ASSUME NEW l \in Lobby, Open(l) PROVE RegistryInv'
  <2>1. /\ life' = [life EXCEPT ![l] = "open"] /\ Connect(l)
        /\ UNCHANGED <<sent, serving, swept, faults>>
    BY <1>3 DEF Open
  <2>2. life'[l] = "open" /\ \A j \in Lobby \ {l} : life'[j] = life[j] /\ sent'[j] = sent[j]
    BY <1>2, <2>1 DEF TypeOK
  <2>3. life' \in [Lobby -> {"new", "open", "closed"}]
    BY <1>2, <2>1 DEF TypeOK
  <2> QED
    BY <1>2, <2>1, <2>2, <2>3, ConnectStep DEF RegistryInv, TypeOK
<1>4. ASSUME NEW l \in Lobby, Register(l) PROVE RegistryInv'
  <2> DEFINE k == sock[l]
  <2>1. /\ life[l] = "open" /\ ~sent[l] /\ sent' = [sent EXCEPT ![l] = TRUE] /\ swept' = FALSE
        /\ UNCHANGED <<life, serving, faults>>
    BY <1>4 DEF Register
  <2>2. CASE k = NoLink \/ wire[k] = "reset"
    <3>1. Connect(l)
      BY <1>4, <2>2 DEF Register
    <3>2. \A j \in Lobby \ {l} : life'[j] = life[j] /\ sent'[j] = sent[j]
      BY <1>2, <2>1 DEF TypeOK
    <3> QED
      BY <1>2, <2>1, <3>1, <3>2, ConnectStep DEF RegistryInv, TypeOK
  <2>3. CASE k # NoLink /\ wire[k] # "reset"
    <3>1. /\ box' = IF wire[k] = "up" THEN [box EXCEPT ![k] = @ + 1] ELSE box
          /\ wire' = IF wire[k] = "hup" THEN [wire EXCEPT ![k] = "reset"] ELSE wire
          /\ UNCHANGED <<sock, owner, far, port, age>>
      BY <1>4, <2>3 DEF Register
    <3>2. k \in Link /\ owner[k] = l
      BY <1>2, <2>3 DEF TypeOK, RegistryInv, SocketsOwned
    <3>3. wire[k] = "up" => box[k] = 0
      BY <2>1, <3>2 DEF RegistryInv, OneMessage
    <3>4. /\ \A j \in Link \ {k} : box'[j] = box[j] /\ wire'[j] = wire[j]
          /\ box'[k] = IF wire[k] = "up" THEN 1 ELSE box[k]
          /\ wire'[k] # "up" <=> wire[k] # "up"
          /\ wire'[k] = "free" <=> wire[k] = "free"
      BY <1>2, <3>1, <3>2, <3>3 DEF TypeOK
    <3>5. \A j \in Link \ {k} : wire[j] = "up" => owner[j] # l
      BY DEF RegistryInv, Working
    <3>6. TypeOK'
      <4>1. box' \in [Link -> 0..2]
        BY <1>2, <3>1, <3>2, <3>3 DEF TypeOK
      <4>2. wire' \in [Link -> {"up", "lost", "fin", "hup", "reset", "free"}]
        BY <1>2, <3>1 DEF TypeOK
      <4> QED
        BY <1>2, <2>1, <3>1, <4>1, <4>2 DEF TypeOK
    <3>7. SocketsOwned' /\ Working'
      BY <2>1, <3>1, <3>4 DEF RegistryInv, SocketsOwned, Working
    <3>8. OneMessage'
      BY <1>2, <2>1, <3>1, <3>2, <3>4, <3>5 DEF RegistryInv, OneMessage, TypeOK
    <3>9. Heard'
      BY <1>2, <2>1, <3>1, <3>2, <3>4, <3>5 DEF RegistryInv, Heard, TypeOK
    <3> QED
      BY <3>6, <3>7, <3>8, <3>9 DEF RegistryInv
  <2> QED
    BY <2>2, <2>3
<1>5. ASSUME NEW l \in Lobby, CloseLobby(l) PROVE RegistryInv'
  <2>1. /\ life' = [life EXCEPT ![l] = "closed"] /\ sock' = [sock EXCEPT ![l] = NoLink]
        /\ wire' = [j \in Link |-> IF j = sock[l] THEN LetGo(j) ELSE wire[j]]
        /\ swept' = FALSE /\ UNCHANGED <<sent, owner, entryVars, serving, faults>>
    BY <1>5 DEF CloseLobby
  <2>2. \A j \in Link : LetGo(j) \in {"fin", "lost", "free"}
    BY DEF LetGo
  <2>3. TypeOK'
    BY <1>2, <2>1, <2>2 DEF TypeOK
  <2>4. \A j \in Lobby : \/ sock'[j] = NoLink
                         \/ sock'[j] = sock[j] /\ life'[j] = life[j]
    BY <1>2, <2>1 DEF TypeOK
  <2>5. \A j \in Link : wire'[j] = "up" => wire[j] = "up" /\ j # sock[l]
    BY <2>1, <2>2
  <2>6. \A j \in Link : wire'[j] = "up" => owner[j] # l
    BY <2>5 DEF RegistryInv, Working
  <2>7. \A j \in Link : wire'[j] = "free" => \A i \in Lobby : sock'[i] = j => wire[j] = "free"
    <3> SUFFICES ASSUME NEW j \in Link, NEW i \in Lobby, sock'[i] = j, wire'[j] = "free"
                 PROVE  wire[j] = "free"
      OBVIOUS
    <3>1. i # l /\ sock[i] = j
      BY <1>1, <1>2, <2>1 DEF TypeOK
    <3>2. j # sock[l]
      BY <3>1 DEF RegistryInv, SocketsOwned
    <3> QED
      BY <2>1, <3>2
  <2>8. \A j \in Link : wire'[j] = "up" =>
          /\ wire[j] = "up" /\ serving' /\ far'[j] # "none"
          /\ sock'[owner[j]] = sock[owner[j]] /\ life'[owner[j]] = life[owner[j]]
          /\ box'[j] = box[j]
    BY <1>2, <2>1, <2>5, <2>6 DEF RegistryInv, Working, TypeOK
  <2> QED
    BY <2>1, <2>3, <2>4, <2>7, <2>8, RegistryQuiet
<1>6. ASSUME NEW l \in Lobby, Notice(l) PROVE RegistryInv'
  <2>1. /\ wire[sock[l]] = "lost" /\ wire' = [wire EXCEPT ![sock[l]] = "reset"]
        /\ UNCHANGED <<lobbyVars, owner, entryVars, serving, swept, faults>>
    BY <1>6 DEF Notice
  <2>2. TypeOK'
    BY <1>2, <2>1 DEF TypeOK
  <2>3. \A j \in Link : wire'[j] \in {"up", "free"} => wire'[j] = wire[j]
    BY <1>2, <2>1 DEF TypeOK
  <2> QED
    BY <2>1, <2>2, <2>3, RegistryQuiet DEF RegistryInv, Working
<1>7. ASSUME NEW k \in Link, AcceptEntry(k) PROVE RegistryInv'
  <2>1. /\ far' = [far EXCEPT ![k] = "entry"] /\ swept' = FALSE
        /\ UNCHANGED <<lobbyVars, wire, owner, box, port, age, serving, faults>>
    BY <1>7 DEF AcceptEntry
  <2>2. TypeOK'
    BY <1>2, <2>1 DEF TypeOK
  <2>3. \A j \in Link : far[j] # "none" => far'[j] # "none"
    BY <1>2, <2>1 DEF TypeOK
  <2> QED
    BY <2>1, <2>2, <2>3, RegistryQuiet DEF RegistryInv, Working
<1>8. ASSUME NEW k \in Link, Lose(k) PROVE RegistryInv'
  <2>1. /\ wire' = [wire EXCEPT ![k] = "lost"] /\ box' = [box EXCEPT ![k] = 0]
        /\ faults < MaxFaults /\ faults' = faults + 1
        /\ UNCHANGED <<lobbyVars, owner, far, port, age, serving, swept>>
    BY <1>8 DEF Lose
  <2>2. TypeOK'
    BY <1>1, <1>2, <2>1 DEF TypeOK
  <2>3. \A j \in Link : /\ wire'[j] \in {"up", "free"} => wire'[j] = wire[j] /\ j # k
                        /\ box'[j] \in {0, box[j]} /\ (j # k => box'[j] = box[j])
    BY <1>2, <2>1 DEF TypeOK
  <2> QED
    BY <2>1, <2>2, <2>3, RegistryQuiet DEF RegistryInv, Working
<1>9. CASE Update
  <2>1. /\ serving
        /\ far' = [k \in Link |-> IF Removed(k) THEN "none" ELSE far[k]]
        /\ wire' = [k \in Link |->
             IF ~Removed(k) THEN wire[k]
             ELSE IF wire[k] = "up" THEN "hup"
             ELSE IF \E l \in Lobby : sock[l] = k THEN wire[k] ELSE "free"]
        /\ box' = [k \in Link |-> IF Read(k) THEN box[k] - 1 ELSE box[k]]
        /\ age' = [k \in Link |-> IF Read(k) THEN 0 ELSE age[k]]
        /\ port' = [k \in Link |-> (port[k] \/ Read(k)) /\ ~Removed(k)]
        /\ swept' = TRUE
        /\ UNCHANGED <<lobbyVars, owner, serving, faults>>
    BY <1>9 DEF Update
  <2>2. \A k \in Link : Read(k) => box[k] = 1
    BY <1>2 DEF Read, RegistryInv, OneMessage, TypeOK
  <2>3. TypeOK'
    <3>1. /\ far' \in [Link -> {"none", "backlog", "entry"}]
          /\ wire' \in [Link -> {"up", "lost", "fin", "hup", "reset", "free"}]
      BY <1>2, <2>1 DEF TypeOK
    <3>2. box' \in [Link -> 0..2] /\ age' \in [Link -> 0..(Limit + 1)]
      BY <1>1, <1>2, <2>1, <2>2 DEF TypeOK
    <3>3. port' \in [Link -> BOOLEAN]
      BY <1>2, <2>1 DEF TypeOK, Read, Removed
    <3> QED
      BY <1>2, <2>1, <3>1, <3>2, <3>3 DEF TypeOK
  <2>4. \A k \in Link :
          /\ wire'[k] = "up" => wire[k] = "up" /\ far'[k] = far[k]
          /\ wire'[k] = "free" => wire[k] = "free" \/ \A l \in Lobby : sock[l] # k
          /\ box'[k] <= 1 /\ (box[k] = 0 => box'[k] = 0)
          /\ age'[k] <= age[k] /\ (box'[k] = 0 => box[k] = 0 \/ age'[k] = 0)
    BY <1>2, <2>1, <2>2 DEF RegistryInv, OneMessage, TypeOK
  <2>5. SocketsOwned' /\ Working'
    BY <2>1, <2>4 DEF RegistryInv, SocketsOwned, Working
  <2>6. OneMessage'
    BY <2>1, <2>4 DEF RegistryInv, OneMessage
  <2>7. Heard'
    <3>1. \A k \in Link : age[k] \in Nat /\ age'[k] \in Nat
      BY <1>1, <1>2, <2>3 DEF TypeOK
    <3> QED
      BY <2>1, <2>4, <3>1 DEF RegistryInv, Heard
  <2> QED
    BY <2>3, <2>5, <2>6, <2>7 DEF RegistryInv
<1>10. CASE CrashRegistry
  <2>1. /\ serving' = FALSE /\ far' = [k \in Link |-> "none"] /\ port' = [k \in Link |-> FALSE]
        /\ wire' = [k \in Link |-> IF wire[k] = "up" THEN "hup"
                     ELSE IF \E l \in Lobby : sock[l] = k THEN wire[k] ELSE "free"]
        /\ box' = [k \in Link |-> 0] /\ faults < MaxFaults /\ faults' = faults + 1
        /\ UNCHANGED <<lobbyVars, owner, age, swept>>
    BY <1>10 DEF CrashRegistry
  <2>2. TypeOK'
    <3>1. wire' \in [Link -> {"up", "lost", "fin", "hup", "reset", "free"}]
      BY <1>2, <2>1 DEF TypeOK
    <3>2. faults' \in 0..MaxFaults /\ box' \in [Link -> 0..2]
      BY <1>1, <1>2, <2>1 DEF TypeOK
    <3> QED
      BY <1>2, <2>1, <3>1, <3>2 DEF TypeOK
  <2>3. \A k \in Link : wire'[k] # "up" /\ box'[k] = 0
                        /\ (wire'[k] = "free" => wire[k] = "free" \/ \A l \in Lobby : sock[l] # k)
    BY <2>1
  <2> QED
    BY <2>1, <2>2, <2>3, RegistryQuiet
<1>11. CASE RestartRegistry
  <2>1. serving' = TRUE /\ swept' = FALSE /\ UNCHANGED <<lobbyVars, wire, owner, entryVars, faults>>
    BY <1>11 DEF RestartRegistry
  <2>2. TypeOK'
    BY <1>2, <2>1 DEF TypeOK
  <2> QED
    BY <2>1, <2>2, RegistryQuiet DEF RegistryInv, Working
<1>12. CASE Tick
  <2>1. /\ Prompt
        /\ age' = [k \in Link |-> IF far[k] # "entry" THEN 0
                                   ELSE IF age[k] > Limit THEN age[k] ELSE age[k] + 1]
        /\ sent' = [l \in Lobby |-> FALSE] /\ swept' = FALSE
        /\ UNCHANGED <<life, sock, wire, owner, far, box, port, serving, faults>>
    BY <1>12 DEF Tick
  <2>2. TypeOK'
    <3>1. age' \in [Link -> 0..(Limit + 1)]
      BY <1>1, <1>2, <2>1 DEF TypeOK
    <3> QED
      BY <1>2, <2>1, <3>1 DEF TypeOK
  <2>3. \A k \in Link : wire[k] = "up" => box[k] = 0 /\ age[k] = 0
    <3> SUFFICES ASSUME NEW k \in Link, wire[k] = "up" PROVE box[k] = 0 /\ age[k] = 0
      OBVIOUS
    <3>1. serving /\ far[k] # "none" /\ life[owner[k]] = "open"
      BY DEF RegistryInv, Working
    <3>2. far[k] = "entry" /\ box[k] = 0
      BY <1>2, <2>1, <3>1 DEF Prompt, Read, TypeOK
    <3>3. sent[owner[k]]
      BY <1>2, <2>1, <3>1 DEF Prompt
    <3> QED
      BY <3>2, <3>3 DEF RegistryInv, Heard
  <2>4. \A k \in Link : wire[k] = "up" => age'[k] <= 1
    BY <1>1, <2>1, <2>3
  <2>5. SocketsOwned' /\ Working'
    BY <2>1 DEF RegistryInv, SocketsOwned, Working
  <2>6. OneMessage' /\ Heard'
    BY <1>2, <2>1, <2>3, <2>4 DEF RegistryInv, OneMessage, Heard
  <2> QED
    BY <2>2, <2>5, <2>6 DEF RegistryInv
<1>13. CASE UNCHANGED vars
  BY <1>13 DEF vars, RegistryInv, TypeOK, SocketsOwned, Working, OneMessage, Heard
<1> QED
  BY <1>3, <1>4, <1>5, <1>6, <1>7, <1>8, <1>9, <1>10, <1>11, <1>12, <1>13 DEF Next

\* Every variable keeps its type, and a link never holds more than one message unread.
THEOREM RegistryInvariant == Spec => []RegistryInv
BY RegistryInit, RegistryNext, PTL DEF Spec

\* The types of the registry (TypeOK).
THEOREM RegistryTypeCorrect == Spec => []TypeOK
<1>1. RegistryInv => TypeOK
  BY DEF RegistryInv
<1> QED
  BY <1>1, RegistryInvariant, PTL

\* The main server drops no lobby that is up and connected: its registrations come often
\* enough for any timeout of a window or more (NoFalseTimeout).
THEOREM NoFalseTimeoutAlways == Spec => NoFalseTimeout
<1> DEFINE Safe == \A k \in Link : far[k] = "entry" /\ wire[k] = "up" /\ serving' => far'[k] = "entry"
<1>1. RegistryInv /\ [Next]_vars => [Safe]_vars
  <2> SUFFICES ASSUME RegistryInv, Next, NEW k \in Link,
                      far[k] = "entry", wire[k] = "up", serving'
               PROVE  far'[k] = "entry"
    OBVIOUS
  <2> USE DEF lobbyVars, entryVars
  <2>1. TypeOK /\ Limit \in Nat \ {0}
    BY RegistryAssumption DEF RegistryInv
  <2>2. ASSUME NEW l \in Lobby, Connect(l) PROVE far'[k] = "entry"
    <3>1. far' = far \/ \E j \in Link : wire[j] = "free" /\ far' = [far EXCEPT ![j] = "backlog"]
      BY <2>2 DEF Connect
    <3> QED
      BY <2>1, <3>1 DEF TypeOK
  <2>3. ASSUME NEW l \in Lobby, Open(l) \/ Register(l) \/ CloseLobby(l) \/ Notice(l)
        PROVE  far'[k] = "entry"
    BY <2>2, <2>3 DEF Open, Register, CloseLobby, Notice
  <2>4. ASSUME NEW j \in Link, AcceptEntry(j) \/ Lose(j) PROVE far'[k] = "entry"
    BY <2>1, <2>4 DEF AcceptEntry, Lose, TypeOK
  <2>5. CASE Update
    <3>1. Read(k) \/ age[k] <= 1
      BY DEF RegistryInv, Heard
    <3>2. ~Removed(k)
      BY <2>1, <3>1 DEF Removed, TypeOK
    <3> QED
      BY <2>5, <3>2 DEF Update
  <2>6. CASE CrashRegistry \/ RestartRegistry \/ Tick
    BY <2>6 DEF CrashRegistry, RestartRegistry, Tick
  <2> QED
    BY <2>3, <2>4, <2>5, <2>6 DEF Next
<1> QED
  BY <1>1, RegistryInvariant, PTL DEF Spec, NoFalseTimeout
=============================================================================
