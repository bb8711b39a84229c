--------------------------- MODULE MCGameLibrary ---------------------------
(* GameLibrary with a library that loads, one that is seen not to only once   *)
(* it is opened, and one that is none, for TLC.                               *)
EXTENDS GameLibrary

ThreeLibs == {"good", "spoilt", "wrong"}
LibKinds == [good |-> "loads", spoilt |-> "checks", wrong |-> "refused"]
=============================================================================
