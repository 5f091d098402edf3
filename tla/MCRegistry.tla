----------------------------- MODULE MCRegistry -----------------------------
\* The default plugins and one more of each kind.
EXTENDS Registry

CONSTANT extra

MCAliases == {Default, extra}

=============================================================================
