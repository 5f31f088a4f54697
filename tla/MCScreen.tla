------------------------------ MODULE MCScreen ------------------------------
EXTENDS ScreenServer

CONSTANTS painter

\* A program with a byte channel beside its frames.
MCConns == {<<painter, "frames">>, <<painter, "bytes">>}
=============================================================================
