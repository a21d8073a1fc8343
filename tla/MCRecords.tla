------------------------------ MODULE MCRecords ------------------------------
(* Instances of Records for TLC.                                           *)
EXTENDS Records

\* Two achievements are for the games played: one match can deserve both only when the file
\* that told of the first was lost.
MCAchievement ==
  {[type |-> "play", count |-> 1], [type |-> "play", count |-> 2],
   [type |-> "use_card", count |-> 1], [type |-> "special", count |-> 0]}

=============================================================================
