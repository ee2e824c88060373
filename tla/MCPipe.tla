------------------------------- MODULE MCPipe -------------------------------
EXTENDS Pipeline
=============================================================================
