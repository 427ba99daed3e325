---------------------------- MODULE MCConfigLoad ----------------------------
EXTENDS ConfigLoad

CONSTANTS a1, a2, m0, mBad, u1, uBad

\* Two addresses so that a two-element list can repeat one; one metadata
\* value that parses and one that does not; one good and one bad URL.
MCAddrs == {a1, a2}
MCMetadata == {m0, mBad}
MCBadMetadata == {mBad}
MCUrls == {u1, uBad}
MCBadUrls == {uBad}
MCMaxList == 2
=============================================================================
