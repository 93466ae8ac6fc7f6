------------------------------ MODULE MCDaemon ------------------------------
EXTENDS IpbenchDaemon, TLC

\* Handlers differ only in their names.
HandlerSymmetry == Permutations(Handlers)
=============================================================================
