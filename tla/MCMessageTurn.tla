--------------------------- MODULE MCMessageTurn ---------------------------
(***************************************************************************)
(* MessageTurn for TLC: two requests that may be retries of each other,    *)
(* and a third that retries them or comes without a key.                   *)
(***************************************************************************)
EXTENDS MessageTurn

CONSTANTS r1, r2, r3, m1, a1

KeysUsed == [r \in Requests |-> IF r = r3 THEN {m1, NoKey} ELSE {m1, a1}]
=============================================================================
