----------------------------- MODULE MCGateway -----------------------------
\* Two sub-devices, the name of one a prefix of the name of the other.
EXTENDS Gateway

MCNamePrefixes == {<<"dev1", "dev10">>}
============================================================================
