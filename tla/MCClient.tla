------------------------------- MODULE MCClient -------------------------------
(* One session of the chat, or one visit to the settings. *)
EXTENDS Client

Session(n, o, c, t, es, br, ap) ==
    [sends |-> n, opens |-> o, controls |-> c, typed |-> t, known |-> {1},
     eventSource |-> es, breaks |-> br, approvals |-> ap]
MCSessions ==
  [leave |-> Session(1, 2, 0, 0, TRUE, TRUE, FALSE),        \* conversations change while a run streams
   control |-> Session(1, 1, 2, 0, TRUE, FALSE, TRUE),      \* stop, steer, decide
   poll |-> Session(1, 1, 1, 0, FALSE, FALSE, TRUE),        \* no EventSource
   overlap |-> Session(2, 0, 0, 0, TRUE, FALSE, FALSE),     \* a second message while the first runs
   find |-> Session(0, 1, 0, 3, TRUE, FALSE, FALSE),        \* the search
   idle |-> Session(0, 0, 0, 0, TRUE, FALSE, FALSE)]

Visit(ps, hs, n, ms, az, fs, ts) ==
    [tests |-> ts, panels |-> ps, handlers |-> hs, clicks |-> n, models |-> ms, azure |-> az, failures |-> fs]
AllHandlers == DOMAIN Handlers
MCVisits ==
  [pick |-> Visit({"providers"}, {"discoverProviderModels"}, 5, {"a", "b"}, FALSE, TRUE, {}),
   azure |-> Visit({"providers"}, {}, 5, {"a", "b"}, TRUE, FALSE, {}),
   cards |-> Visit({"providers"}, Panels["providers"].handlers, 3, {}, FALSE, TRUE, DOMAIN Guards),
   models |-> Visit({"models", "templates"}, AllHandlers, 3, {}, FALSE, FALSE, {}),
   memory |-> Visit({"memory"}, Panels["memory"].handlers, 3, {}, FALSE, TRUE, DOMAIN Guards),
   others |-> Visit({"modules", "safety", "wizard", "test", "browser"}, AllHandlers, 3, {}, FALSE, TRUE, DOMAIN Guards),
   none |-> Visit({}, {}, 0, {}, FALSE, FALSE, {})]

MCInit == ClientInit /\ (session = "idle" \/ visit = "none")
MCSpec == MCInit /\ [][ClientNext]_<<chatVars, panelVars>> /\ ChatFair
===============================================================================
