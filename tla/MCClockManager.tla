--------------------------- MODULE MCClockManager ---------------------------
\* Two clients, a four-entry clock table whose top entry is beyond what the
\* chip can do, and a calibration window of three periods.
EXTENDS ClockManager

MCTable == 1 .. 4
=============================================================================
