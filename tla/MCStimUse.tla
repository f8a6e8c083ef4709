------------------------------ MODULE MCStimUse ------------------------------
EXTENDS StimUse
=============================================================================
