-------------------------- MODULE MCCameraTracks --------------------------
EXTENDS CameraTracks

CONSTANTS a, b

\* One of the two crosses, and stops on the line; the other comes and goes outside.
OneCrosses == [p \in People |-> IF p = a THEN Places ELSE {"out", "away"}]
=============================================================================
