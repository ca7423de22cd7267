-------------------------- MODULE MCEndpointCache --------------------------
EXTENDS EndpointCache

CONSTANTS a, b, home, away, none

\* One peer is registered at home, the other without an endpoint.
MCIds == {a, b}
MCPlaces == {home, away}
MCEverywhere == MCPlaces
MCAway == {away}
MCRegistered == [id \in MCIds |-> IF id = a THEN home ELSE none]
=============================================================================
