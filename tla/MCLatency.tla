----------------------------- MODULE MCLatency -----------------------------
EXTENDS LatencyTest
=============================================================================
