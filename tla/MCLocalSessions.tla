--------------------------- MODULE MCLocalSessions ---------------------------
\* One session, previewed on the host.
EXTENDS LocalSessions
=============================================================================
