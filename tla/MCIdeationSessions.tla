------------------------- MODULE MCIdeationSessions -------------------------
EXTENDS IdeationSessions
=============================================================================
