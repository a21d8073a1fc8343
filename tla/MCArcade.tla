------------------------------ MODULE MCArcade ------------------------------
(***************************************************************************)
(* Two instances of LobbyServer about the arcade machines for TLC: three   *)
(* players around one machine, who come and go at it or drop, and two      *)
(* players with two machines, who also leave the lobby, say Hello again    *)
(* and join each other by command.  The first state chooses one of them.   *)
(***************************************************************************)
EXTENDS MCLobbyServer

VARIABLES
  absent,  \* the connections nobody has, the third player's in the second instance
  inUse    \* the machines somebody walks to

ArcadeInit ==
  /\ \/ absent = {} /\ \E m \in Machine : inUse = {m}
     \/ inUse = Machine /\ \E c \in Conn : absent = {c}
  /\ InTheLobbyWithout(absent)

\* What the players of the first instance do not do.
OneMachineOnly ==
  \A c \in Conn : pc'[c] # "command" /\ want'[c] \in inUse \cup {NoMachine} /\ stays'[c] = FALSE

ArcadeNext ==
  /\ (\E c \in Conn : NetThread(c)) \/ Kicking \/ Reaping \/ ServerClose \/ Ended
  /\ absent = {} => OneMachineOnly
  /\ UNCHANGED <<absent, inUse>>

ArcadeSpec == ArcadeInit /\ [][ArcadeNext]_<<vars, absent, inUse>>

=============================================================================
