---------------------------- MODULE MCLobbyServer ----------------------------
(* Instances of LobbyServer for TLC.                                       *)
EXTENDS LobbyServer, TLC

Symmetry == Permutations(Conn) \cup Permutations(Machine)

Plain(version) == [version |-> version, soku2 |-> NoSoku2, force |-> FALSE]

\* Clients of one kind.
OneProfile == {Plain("1.10a")}
\* Clients with two netplay versions.
TwoVersions == {Plain("1.10a"), Plain("1.10c")}

\* The instances about the arcade machines start when all the players have joined, one
\* after the other, and nobody else connects.
InTheLobbyWithout(out) ==
  /\ up = TRUE
  /\ link = [c \in Conn |-> IF c \in out THEN "free" ELSE "open"]
  /\ init = [c \in Conn |-> c \notin out]
  /\ profile \in [Conn -> Profile] /\ \A c \in out : profile[c] = SomeProfile
  /\ status = [c \in Conn |-> "idle"]
  /\ machineId = [c \in Conn |-> NoMachine]
  /\ known = [c \in Conn |-> IF c \in out THEN {} ELSE Conn \ (out \cup {c})]
  /\ pc = [c \in Conn |-> "ready"]
  /\ want = [c \in Conn |-> NoMachine]
  /\ stays = [c \in Conn |-> FALSE]
  /\ machines = [m \in Machine |-> <<>>]
  /\ count = Cardinality(Conn \ out)
  /\ mpc = "loop"
  /\ kickee = NoConn
  /\ batch = {}
  /\ kicks = 0
  /\ rogue = {}
  /\ overlapped = {}
  /\ rushed = FALSE

=============================================================================
