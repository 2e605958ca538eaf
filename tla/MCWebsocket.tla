----------------------------- MODULE MCWebsocket -----------------------------
EXTENDS Websocket
=============================================================================
