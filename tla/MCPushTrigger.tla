--------------------------- MODULE MCPushTrigger ---------------------------
\* The instance of PushTrigger that TLC checks.
EXTENDS PushTrigger
=============================================================================
