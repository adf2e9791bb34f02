------------------------- MODULE MCGatewayMultiplex -------------------------
(* GatewayMultiplex on small instances: one stream with every fault, and two *)
(* streams without faults for what one does to the other.                    *)
EXTENDS GatewayMultiplex

CONSTANTS s1, s2

MCStreams == {s1, s2}
=============================================================================
