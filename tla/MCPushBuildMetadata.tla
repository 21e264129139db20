------------------------ MODULE MCPushBuildMetadata ------------------------
EXTENDS PushBuildMetadata, TLC

CONSTANTS r1, r2, r3, d1, d2

\* Two runs share a digest, the third publishes another one.
MCRuns     == {r1, r2, r3}
MCDigests  == {d1, d2}
MCDigestOf == (r1 :> d1) @@ (r2 :> d1) @@ (r3 :> d2)
=============================================================================
