--------------------------- MODULE MCModCallbacks ---------------------------
(* ModCallbacks with two mods for TLC. *)
EXTENDS ModCallbacks

TwoMods == [k \in Kinds |-> CASE k \in {"safe", "effect", "texture"} -> <<"m1", "m2">>
                              [] k \in {"scene", "frame", "event"} -> <<"m2">>
                              [] OTHER -> <<"m1">>]
=============================================================================
