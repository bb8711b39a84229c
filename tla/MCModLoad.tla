----------------------------- MODULE MCModLoad -----------------------------
(* ModLoad with the folders of ModFolders, for TLC. *)
EXTENDS ModLoad, ModFolders
=============================================================================
