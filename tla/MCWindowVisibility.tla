------------------------- MODULE MCWindowVisibility -------------------------
EXTENDS WindowVisibility

\* /proc fails and the map is full where all windows are reported; the timer is on its own where
\* /proc can be read.
MCEnvironments ==
  {[procMayFail |-> TRUE, reportsClosed |-> TRUE, maxMapSize |-> 1],
   [procMayFail |-> FALSE, reportsClosed |-> FALSE, maxMapSize |-> 2]}
=============================================================================
