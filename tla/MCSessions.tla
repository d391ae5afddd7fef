----------------------------- MODULE MCSessions ------------------------------
(* Small instances of the coordination game with player sessions for TLC.  *)
EXTENDS GameSessions

CONSTANTS op, mm   \* the operator and a second matchmaker

MCWindows == {<<0, 3>>}

MCOffices == [authority : {op}, matchmaker : {op, mm}, treasury : {op}, bps : SplitBps]
=============================================================================
