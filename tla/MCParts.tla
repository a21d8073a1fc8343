------------------------------ MODULE MCParts ------------------------------
(***************************************************************************)
(* Instances for TLC of six modules without fairness: they have no state   *)
(* in common, and are checked side by side.  The first state chooses one   *)
(* of them; the others stay as they start.                                 *)
(***************************************************************************)
EXTENDS ServerLocks, HotkeyRouting, ChatInput, BlockList, MCRecords, MatchCount, TLC

\* The net threads are alike.
Symmetry == Permutations(Net)

\* Two units make the second character.
MCChar == {<<"a">>, <<"H", "L">>}
MCStrings == {<<<<"a">>, <<"H", "L">>>>}

VARIABLE part

\* The module checked; the variables of the others stay.
Only(p, others) == part = p /\ UNCHANGED <<part, others>>

LocksOnly == Only("locks", <<keysVars, chatVars, blockVars, recordsVars, matchVars>>)
KeysOnly == Only("keys", <<vars, chatVars, blockVars, recordsVars, matchVars>>)
ChatOnly == Only("chat", <<vars, keysVars, blockVars, recordsVars, matchVars>>)
BlocksOnly == Only("blocks", <<vars, keysVars, chatVars, recordsVars, matchVars>>)
RecordsOnly == Only("records", <<vars, keysVars, chatVars, blockVars, matchVars>>)
MatchOnly == Only("match", <<vars, keysVars, chatVars, blockVars, recordsVars>>)

PartsInit ==
  /\ part \in {"locks", "keys", "chat", "blocks", "records", "match"}
  /\ Init /\ KeysInit /\ ChatInit /\ RecordsInit /\ MatchInit
  /\ BlockInit /\ (part = "blocks" \/ {dat, json, txt} = {NoFile})

PartsNext ==
  \/ LocksOnly /\ Next
  \/ KeysOnly /\ KeysNext
  \/ ChatOnly /\ ChatNext
  \/ BlocksOnly /\ BlockNext
  \/ RecordsOnly /\ RecordsNext
  \/ MatchOnly /\ MatchNext

partsVars == <<part, vars, keysVars, chatVars, blockVars, recordsVars, matchVars>>

PartsSpec == PartsInit /\ [][PartsNext]_partsVars

\* The type invariants of all but ServerLocks, whose is TypeOK.
PartsTypeOK == KeysTypeOK /\ ChatTypeOK /\ BlockTypeOK /\ RecordsTypeOK /\ MatchTypeOK
=============================================================================
