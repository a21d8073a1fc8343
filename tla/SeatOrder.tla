------------------------------ MODULE SeatOrder ------------------------------
(***************************************************************************)
(* What the arcade machines promise to the players who use them honestly:  *)
(* a player is at one machine at most, takes the last place when it comes, *)
(* keeps its place among the others until it goes, and a machine loses its *)
(* players one at a time or all at once, never some of them.               *)
(*                                                                         *)
(* How the lobby server keeps the promise is LobbyServer's subject; where  *)
(* the places are stored, and who ends a game, does not show here.         *)
(***************************************************************************)

CONSTANTS
  Player,
  Machine,
  NoMachine

VARIABLES
  at,      \* Player: the machine it has a seat at
  before   \* the pairs <<c, d>> where c came before d to the machine both are at

Init ==
  /\ at = [c \in Player |-> NoMachine]
  /\ before = {}

\* The players of S go all at once: for each machine that is nobody, somebody, or all.
Fair(S) ==
  \A m \in Machine :
    LET here == {c \in Player : at[c] = m}
    IN \/ S \cap here = {}
       \/ \E c \in here : S \cap here = {c}
       \/ here \subseteq S

\* The order among the players who are not in S.
Without(S) == {p \in before : p[1] \notin S /\ p[2] \notin S}

\* Those who are not at the machine any more where they were.
Gone == {c \in Player : at[c] # NoMachine /\ at'[c] # at[c]}

\* Some players go.
Go ==
  /\ \A c \in Player : at'[c] \in {at[c], NoMachine}
  /\ Fair(Gone)
  /\ before' = Without(Gone)

\* Player c takes the last seat of a machine (it may have been there before), while
\* others may go: those it leaves behind when it ends their game.
Sit(c) ==
  /\ at'[c] \in Machine
  /\ \A d \in Player \ {c} : at'[d] \in {at[d], NoMachine}
  /\ Fair(Gone \cup {c})
  /\ before' = Without(Gone \cup {c}) \cup {<<d, c>> : d \in {e \in Player \ {c} : at'[e] = at'[c]}}

Next == Go \/ \E c \in Player : Sit(c)

Spec == Init /\ [][Next]_<<at, before>>

=============================================================================
