------------------------- MODULE MCResourceLifecycle -------------------------
EXTENDS ResourceLifecycle

CONSTANTS a, b, c

\* One on the other, two on one, and each on all before it.
Acyclic == {{<<b, a>>, <<c, b>>}, {<<b, a>>, <<c, a>>}, {<<b, a>>, <<c, a>>, <<c, b>>}}
=============================================================================
