------------------------------- MODULE MCGame -------------------------------
(* Small instances of the coordination game for TLC.                       *)
EXTENDS GameProperties, TLC

(* One tournament window: long enough to create a game (the cutoff is one  *)
(* unit before the end) and to end while a game still runs.                *)
MCWindows == {<<0, 2>>}

Symmetry == Permutations(Players)
=============================================================================
