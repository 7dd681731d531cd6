--------------------------- MODULE MCRunProgression ---------------------------
EXTENDS RunProgression

Packet(route, required, human, technical, automated) ==
    [route |-> route, required |-> required, human |-> human, technical |-> technical,
     automated |-> automated, revisions |-> 1, repairs |-> 1]

\* Required tests with automatic revisions, tests by route behind an
\* architecture, a human exemption, and an exemption by the test role.
MCPackets ==
    { Packet("default", TRUE, FALSE, FALSE, TRUE),
      Packet("design-acceptance", FALSE, TRUE, FALSE, FALSE),
      Packet("default", TRUE, TRUE, FALSE, TRUE),
      Packet("acceptance", FALSE, FALSE, TRUE, FALSE) }

=============================================================================
