---------------------------- MODULE MCHttpReceiver ----------------------------
EXTENDS HttpReceiver
=============================================================================
