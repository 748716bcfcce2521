-------------------------------- MODULE Client --------------------------------
(***************************************************************************)
(* The browser client: the chat and the settings panels on one page.  They *)
(* share the event loop and nothing else that is modelled.                 *)
(***************************************************************************)
EXTENDS ClientChat, ClientPanels

\* init of app.js: no conversation and no panel is open; the readiness it asks for is a click of its own.
ClientInit == ChatInit /\ PanelInit
ClientNext ==
    \/ ChatNext /\ UNCHANGED panelVars
    \/ PanelNext /\ UNCHANGED chatVars

ClientSpec == ClientInit /\ [][ClientNext]_<<chatVars, panelVars>> /\ ChatFair
===============================================================================
