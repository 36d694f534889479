------------------------------ MODULE MCDaemon ------------------------------
\* Model checking: the values of the constants are in the configurations.
EXTENDS Daemon
AllKinds == {"get", "order", "open", "page", "junk"}
=============================================================================
