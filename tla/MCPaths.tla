------------------------------ MODULE MCPaths -------------------------------
EXTENDS Paths

\* The main thread calls a function from a statement; the other receives, and
\* returns what it received.
Depths == <<4, 2>>
=============================================================================
