-------------------------- MODULE MCWebsocketClient --------------------------
(* Small instances of WebsocketClient: two URLs.                          *)
EXTENDS WebsocketClient

CONSTANTS u1, u2

MCUrls == {u1, u2}
==============================================================================
