---------------------------- MODULE MCCommandParse ----------------------------
(* A small instance of CommandParse for TLC.                               *)
EXTENDS CommandParse

CONSTANT Letter

SomeCharacters == {0, 1, 2, 3, 5, 9, Letter}
===============================================================================
