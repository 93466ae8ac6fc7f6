------------------------------ MODULE MCNfsRpc ------------------------------
EXTENDS NfsRpc
=============================================================================
