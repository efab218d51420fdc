----------------------------- MODULE MCPlateSensor -----------------------------
EXTENDS PlateSensor
=============================================================================
