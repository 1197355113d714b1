----------------------------- MODULE MCServer -----------------------------
(***************************************************************************)
(* Six components of the server that share no state, in one model: a       *)
(* behaviour takes the steps of one of them, chosen at the start, and the  *)
(* others stay as they began.                                              *)
(***************************************************************************)
EXTENDS Credentials, RateLimiter, Service, GitHubClient, Startup, Events

VARIABLE part

allVars == <<part, vars, limiterVars, serviceVars, clientVars, startupVars, eventVars>>

MCInit ==
  /\ part \in {"credentials", "limiter", "service", "client", "startup", "events"}
  /\ Init /\ LimiterInit /\ ServiceInit /\ ClientInit /\ StartupInit /\ EventsInit
  /\ part = "service" \/ alerts = TRUE
  /\ part = "startup" \/ schema = Columns

\* The steps of the part p.
Step(p, next) == part = p /\ next /\ UNCHANGED part

MCNext ==
  \/ Step("credentials", Next) /\ UNCHANGED <<limiterVars, serviceVars, clientVars, startupVars, eventVars>>
  \/ Step("limiter", LimiterNext) /\ UNCHANGED <<vars, serviceVars, clientVars, startupVars, eventVars>>
  \/ Step("service", ServiceNext) /\ UNCHANGED <<vars, limiterVars, clientVars, startupVars, eventVars>>
  \/ Step("client", ClientNext) /\ UNCHANGED <<vars, limiterVars, serviceVars, startupVars, eventVars>>
  \/ Step("startup", StartupNext) /\ UNCHANGED <<vars, limiterVars, serviceVars, clientVars, eventVars>>
  \/ Step("events", EventsNext) /\ UNCHANGED <<vars, limiterVars, serviceVars, clientVars, startupVars>>

\* The fairness of Credentials and of Service, for the part that runs.
MCFairness ==
  /\ \A h \in Handlers : WF_vars(part = "credentials" /\ TxStep(h))
  /\ \A g \in Goroutines : WF_serviceVars(part = "service" /\ ReportStep(g))
  /\ WF_serviceVars(part = "service" /\ Shutdown)
  /\ WF_serviceVars(part = "service" /\ ServiceTick)

MCSpec == MCInit /\ [][MCNext]_allVars /\ MCFairness

\* The type invariants of the parts.
ServerTypeOK == /\ TypeOK /\ LimiterTypeOK /\ ServiceTypeOK
                /\ ClientTypeOK /\ StartupTypeOK /\ EventsTypeOK
=============================================================================
