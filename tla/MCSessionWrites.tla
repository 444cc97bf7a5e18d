---------------------------- MODULE MCSessionWrites ----------------------------
EXTENDS SessionWrites

===============================================================================
