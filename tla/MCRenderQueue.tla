--------------------------- MODULE MCRenderQueue ---------------------------
(* Small instances of RenderQueue for TLC.                                 *)
EXTENDS RenderQueueInv

CONSTANTS c1, c2

Shape(reach, screen, clears, dest) ==
    [reach |-> reach, screen |-> screen, clears |-> clears, dest |-> dest, packed |-> TRUE]

\* Textures within each other: a write to the bytes of the larger that the
\* smaller does not hold is not among what hooks and the game may write.
NestedTextures == {{c1}, {c1, c2}}
NestedSamples  == {{}, {{c1}}, {{c1}, {c1, c2}}}

\* A filtered screen copy that clears, a half-scale copy to a texture that
\* clears, and two plain ones over memory they share.
FrameShapes == {Shape("near", TRUE, TRUE, {}), Shape("all", FALSE, TRUE, {c1}),
                Shape("own", FALSE, FALSE, {c1}), Shape("own", FALSE, FALSE, {c1, c2})}

\* Two textures beside each other and one over both.
ApartTextures == {{c1}, {c2}, {c1, c2}}
ApartSamples  == {{{c2}}}
ApartShapes   == {Shape("own", FALSE, FALSE, {c2}), Shape("own", FALSE, FALSE, {c1, c2})}

MidOff  == {FALSE}
MidBoth == BOOLEAN
=============================================================================
