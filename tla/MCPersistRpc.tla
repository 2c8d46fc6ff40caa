----------------------------- MODULE MCPersistRpc -----------------------------
EXTENDS PersistRpc
=============================================================================
