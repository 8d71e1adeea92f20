---------------------------- MODULE MCSweAgentLoop ----------------------------
EXTENDS SweAgentLoop
=============================================================================
