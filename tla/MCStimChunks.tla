---------------------------- MODULE MCStimChunks ----------------------------
EXTENDS StimChunks
=============================================================================
