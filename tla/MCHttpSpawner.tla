--------------------------- MODULE MCHttpSpawner ---------------------------
EXTENDS HttpSpawner
=============================================================================
