--------------------------- MODULE MCClientRegistry ---------------------------
EXTENDS ClientRegistry

CONSTANTS c1, c2, g1, g2

OfOne == [c \in Client |-> g1]
OfTwo == [c \in Client |-> IF c = c1 THEN g1 ELSE g2]

\* The two requests are of one player, or of two.  Of the two ids and the two slots,
\* one may be another player's: the clients have to follow one another on the other.
SettingsTwo ==
    {<<OfOne, {}, {}>>, <<OfTwo, {}, {}>>, <<OfTwo, {1}, {}>>, <<OfTwo, {}, {0}>>}
=============================================================================
