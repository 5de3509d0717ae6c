----------------------------- MODULE MCWatcher -----------------------------
\* Two FailoverServices on the remote cluster.
EXTENDS RemoteWatcher

=============================================================================
