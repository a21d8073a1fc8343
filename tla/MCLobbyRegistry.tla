--------------------------- MODULE MCLobbyRegistry ---------------------------
(* Instances of LobbyRegistry for TLC. *)
EXTENDS LobbyRegistry, TLC

\* Three windows of ten seconds.
ThirtySeconds == 3

=============================================================================
