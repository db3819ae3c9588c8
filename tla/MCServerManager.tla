---------------------------- MODULE MCServerManager ----------------------------
\* Values for TLC's instance of ServerManager.
EXTENDS ServerManager
=============================================================================
