--------------------------- MODULE MCArcadeProtocol ---------------------------
(* Instances of ArcadeProtocol for TLC.                                    *)
EXTENDS ArcadeProtocol, TLC

\* Clients of one kind.
SameVersion == [c \in Conn |-> [version |-> "1.10a", soku2 |-> NoSoku2, force |-> FALSE]]
NoPreference == [c \in Conn |-> "no preference"]

\* All but one of the players only want to connect to others.
Picky == CHOOSE c \in Conn : TRUE
MostlyClients == [c \in Conn |-> IF c = Picky THEN "no preference" ELSE "client only"]

Symmetry == Permutations({c \in Conn : PrefOf[c] = PrefOf[CHOOSE d \in Conn : d # Picky]})

=============================================================================
