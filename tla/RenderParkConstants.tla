------------------------ MODULE RenderParkConstants ------------------------
(* The constants of RenderPark, and what is assumed of them. *)
EXTENDS Integers

CONSTANTS
    N,            \* workers
    QueueCap,     \* QUEUE_CAP
    LowMod,       \* a Linux futex compares the low 32 bits: 2^32
    MaxCommands   \* bound on the commands published, for TLC

ASSUME ParkAssumption ==
    /\ N \in Nat \ {0}
    /\ QueueCap \in Nat \ {0}
    /\ LowMod \in Nat /\ LowMod >= 2 * QueueCap
    /\ MaxCommands \in Nat
============================================================================
