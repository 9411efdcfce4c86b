-------------------------- MODULE MCGatewayRuntime --------------------------
\* One event, two processes, a handler whose reply depends on the control
\* state it reads and that fails with the class a conflicting reply raises.
EXTENDS GatewayRuntime

CONSTANTS running, paused, valueError

MCReplies == {running, paused}
MCBodies  == MCReplies \cup {valueError}
=============================================================================
