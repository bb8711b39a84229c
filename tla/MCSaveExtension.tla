-------------------------- MODULE MCSaveExtension --------------------------
(* SaveExtension with chunk sizes for TLC. *)
EXTENDS SaveExtension

\* Every chunk as large as the gap: a second mod's is in the tail.
EvenBytes(m, v) == 2

\* A chunk that outgrows all the room.
GrownBytes(m, v) == IF v = 1 THEN 1 ELSE AllRoom + 1
=============================================================================
