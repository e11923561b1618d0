-------------------------- MODULE MCClientServices --------------------------
(* An instance of ClientServices for TLC: the environment's defaults, and a *)
(* form for each way of being served, refused and blank.                    *)
EXTENDS ClientServices

Form(backend, update, api, ws, interval) ==
  [backend |-> backend, update |-> update, api |-> api, ws |-> ws,
   interval |-> interval]

MCEnvConfig == Form("dummy", "polling", FALSE, FALSE, 5000)

MCForms ==
  {Form("api", "polling", TRUE, FALSE, 1000),
   Form("api", "polling", FALSE, FALSE, 5000),
   Form("dummy", "polling", FALSE, FALSE, 999),
   Form("dummy", "websocket", FALSE, TRUE, 5000),
   Form("dummy", "sse", FALSE, FALSE, 5000)}
=============================================================================
