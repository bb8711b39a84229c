-------------------------- MODULE BackendConstants --------------------------
(* The constants of the Vulkan backend's two modules, PipeCompiler and      *)
(* GpuSlots, and what is assumed of them.                                   *)
EXTENDS Integers

CONSTANTS
    \* PipeCompiler's
    Shapes,       \* TEV shapes
    Jobs,         \* JOBS
    Keys,         \* keys of pipe_state
    PipeSlots,    \* PIPE_SLOTS
    CanFail,      \* the shapes a driver may fail to make a pipeline of
    MaxDraws,     \* bound on the draws, for TLC
    \* GpuSlots'
    NSlots,       \* g_nslots: 2, or 1 by SOA_GPU_FRAMES
    HalfRoom,     \* textures a slot's half of the pool holds
    LandMax,      \* LAND_MAX
    Textures,     \* decoded textures, by number
    Spans,        \* copies to memory: [span, writes, image], over cells of RAM
    Early,        \* ~g_land_early_off: a copy is sent as it is recorded
    MaxCommands   \* bound on the commands, for TLC

\* The interpreter is no shape.
ASSUME PipeAssumption ==
    /\ Jobs \in Nat \ {0}
    /\ "interp" \notin Shapes

\* A copy's bytes are of the span it covers.
ASSUME GpuAssumption ==
    /\ NSlots \in {1, 2} /\ HalfRoom \in Nat \ {0} /\ LandMax \in Nat \ {0}
    /\ Textures \subseteq Nat
    /\ \A k \in Spans : k.writes \subseteq k.span /\ k.image \in BOOLEAN
=============================================================================
