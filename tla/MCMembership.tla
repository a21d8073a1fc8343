---------------------------- MODULE MCMembership ----------------------------
(***************************************************************************)
(* Two instances of LobbyServer about who is in the lobby for TLC: three   *)
(* connections for two places, which come, leave, stay after a leave, drop *)
(* and are reaped, and two that also sit down at a machine, report what    *)
(* they do and are kicked by the console.  The first state chooses one.    *)
(***************************************************************************)
EXTENDS MCLobbyServer

\* The connections nobody has, the third one in the second instance.
VARIABLE absent

MembershipInit == Init /\ (absent = {} \/ \E c \in Conn : absent = {c})

\* Nobody sits down, and nobody is kicked.
Crowd ==
  \/ \E c \in Conn :
       \/ Accept(c) \/ (\E p \in Profile : Hello(c, p)) \/ JoinSection(c) \/ Admit(c)
       \/ PlayerLeave(c) \/ Drop(c) \/ Farewell(c) \/ Settle(c)
  \/ Reaping \/ ServerClose \/ Ended

\* They close when they leave.  To the server one who watches is like one who waits, so
\* that nobody reports the former.
Pair ==
  /\ \/ \E c \in Conn \ absent : NetThread(c) \/ Accept(c)
     \/ Kicking \/ Reaping \/ ServerClose \/ Ended
  /\ \A c \in Conn : stays'[c] = FALSE /\ status'[c] # "spectating"

MembershipNext ==
  /\ (absent = {} /\ Crowd) \/ (absent # {} /\ Pair)
  /\ UNCHANGED absent

MembershipSpec == MembershipInit /\ [][MembershipNext]_<<vars, absent>>

=============================================================================
