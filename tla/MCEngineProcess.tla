-------------------------- MODULE MCEngineProcess --------------------------
EXTENDS EngineProcess
============================================================================
