------------------------------ MODULE MCThreads ------------------------------
(***************************************************************************)
(* Instances for TLC of four modules whose threads share a list, a         *)
(* connection or a name: they have no state in common, and are checked     *)
(* side by side.  The first state chooses one of them; the others stay as  *)
(* they start.                                                             *)
(***************************************************************************)
EXTENDS HostList, LobbySession, LobbyList, Admission

CONSTANTS g1, g2, g3

MCGame == {g1, g2, g3}
MCAnswers ==
  {[host |-> h, play |-> <<g3>>] : h \in {<<>>, <<g1>>, <<g2, g1>>, <<g1, g2, g3>>}}
    \cup {[host |-> <<g3, g2>>, play |-> <<>>]}

\* Asked for as it is, the second name is also the first one with a number after it.
MCWanted == {<<7>>, <<7, 0>>}

VARIABLE part

\* The module checked; the variables of the others stay.
Only(p, others) == part = p /\ UNCHANGED <<part, others>>
HostsOnly == Only("hosts", <<sessionVars, listVars, admissionVars>>)
SessionOnly == Only("session", <<hostListVars, listVars, admissionVars>>)
ListOnly == Only("list", <<hostListVars, sessionVars, admissionVars>>)
AdmissionOnly == Only("admission", <<hostListVars, sessionVars, listVars>>)

threadsVars == <<part, hostListVars, sessionVars, listVars, admissionVars>>

ThreadsInit ==
  /\ part \in {"hosts", "session", "list", "admission"}
  /\ HostListInit /\ SessionInit /\ ListInit /\ AdmissionInit

ThreadsNext ==
  \/ HostsOnly /\ HostListNext
  \/ SessionOnly /\ SessionNext
  \/ ListOnly /\ ListNext
  \/ AdmissionOnly /\ AdmissionNext

\* The fairness of HostListSpec, SessionSpec and ListSpec.
ThreadsSpec ==
  /\ ThreadsInit /\ [][ThreadsNext]_threadsVars
  /\ WF_threadsVars(HostsOnly /\ Worker) /\ WF_threadsVars(HostsOnly /\ EraseList)
  /\ WF_threadsVars(SessionOnly /\ died = "no" /\ (Trying \/ ScreenCloses))
  /\ WF_threadsVars(SessionOnly /\ died = "no" /\ Position)
  /\ WF_threadsVars(SessionOnly /\ died = "no"
                    /\ (Destroy \/ LeaveClears \/ LeaveJoins \/ BackToList))
  /\ WF_threadsVars(SessionOnly /\ died = "no" /\ Net)
  /\ WF_threadsVars(ListOnly /\ ~hung /\ MasterReads)
  /\ WF_threadsVars(ListOnly /\ ~hung /\ Connect)
  /\ WF_threadsVars(ListOnly /\ ~hung /\ Frame)
  /\ \A e \in 1..MaxEntries : WF_threadsVars(ListOnly /\ ~hung /\ e \in Made /\ Link(e))

\* The type invariants of the four modules.
ThreadsTypeOK == HostListTypeOK /\ SessionTypeOK /\ ListTypeOK /\ AdmissionTypeOK
=============================================================================
