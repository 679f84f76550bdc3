----------------------------- MODULE BotLifecycle -----------------------------
(***************************************************************************)
(* The start and the stop of the Telegram bot service: the lifespan of     *)
(* create_app (python-services/shared/epta_common/app.py), the hooks of    *)
(* bot/app/main.py, BotRunner, UserbotManager and BackendClient.           *)
(*                                                                         *)
(* Each await of the hooks may fail (Telegram or the network answer with   *)
(* an error); the exception leaves the hook at that point.  Polling is a   *)
(* task beside the service, which may end by an error of its own.          *)
(***************************************************************************)
CONSTANTS
    Faults   \* TRUE: an await may raise

VARIABLES
    config,   \* the settings: "bot", "webhook" (its mode), "url", "userbot", "backend"
    phase,    \* where the lifespan is
    up        \* the resources that are open; a webhook is kept by Telegram

botVars == <<config, phase, up>>

Infra == {"engine", "redis"}
Polls == "bot" \in config /\ "webhook" \notin config
Hooks == {"bot", "webhook", "url"} \subseteq config
Phases == {"infra", "session", "telegram", "userbot", "backend", "serving", "stopPolling",
           "stopWebhook", "closeSession", "stopUserbot", "closeBackend", "closeRedis",
           "closeEngine", "stopped", "aborted"}

BotInit ==
    /\ config \in SUBSET {"bot", "webhook", "url", "userbot", "backend"}
    /\ up \in {{}, {"webhook"}}      \* left by an earlier run, or not
    /\ phase = "infra"

Pass(at, next, now) ==
    /\ phase = at /\ phase' = next
    /\ up' = now
    /\ UNCHANGED config
Acquire(at, next, what) == Pass(at, next, up \cup what)
Release(at, next, what) == Pass(at, next, up \ what)
If(name, what) == IF name \in config THEN what ELSE {}

-----------------------------------------------------------------------------
(* lifespan(): the engine and the client of Redis are made, not connected. *)
OpenInfra == Acquire("infra", "session", Infra)

(* BotRunner.start(): without a token, nothing; else the session, and then *)
(* delete_webhook() and the polling task, or set_webhook().                *)
OpenSession == Acquire("session", "telegram", If("bot", {"session"}))

StartTelegram ==
    Pass("telegram", "userbot",
         IF Polls THEN (up \ {"webhook"}) \cup {"polling"}
         ELSE IF Hooks THEN up \cup {"webhook"} ELSE up)
StartUserbot == Acquire("userbot", "backend", If("userbot", {"userbot"}))
MakeBackendClient == Acquire("backend", "serving", If("backend", {"backend"}))

(* An error while starting: lifespan() has not reached its try, so that    *)
(* nothing is closed; the process ends.                                    *)
StartFails ==
    /\ Faults
    /\ \/ phase = "telegram" /\ (Polls \/ Hooks)
       \/ phase = "userbot" /\ "userbot" \in config
    /\ phase' = "aborted"
    /\ UNCHANGED <<config, up>>

(* The dispatcher gives up, for instance because another poller has come.  *)
PollingDies ==
    /\ Faults
    /\ phase # "aborted" /\ "polling" \in up
    /\ up' = up \ {"polling"}
    /\ UNCHANGED <<config, phase>>

-----------------------------------------------------------------------------
\* Faulty variant: Redis and the engine are closed before the hook runs.
Terminate_InfraFirst == Release("serving", "stopPolling", Infra)

(* The hook of the shutdown runs "before engine and redis are closed".     *)
Terminate == Release("serving", "stopPolling", {})

StopPolling ==
    /\ Polls => "polling" \in up
    /\ Release("stopPolling", "stopWebhook", {"polling"})
DeleteWebhook ==
    \/ Release("stopWebhook", "closeSession", IF Hooks THEN {"webhook"} ELSE {})
    \/ Faults /\ Release("stopWebhook", "closeSession", {})      \* the error is suppressed
CloseSession == Release("closeSession", "stopUserbot", {"session"})
StopUserbot == Release("stopUserbot", "closeBackend", {"userbot"})
CloseBackend == Release("closeBackend", "closeRedis", {"backend"})
CloseRedis == Release("closeRedis", "closeEngine", {"redis"})
CloseEngine == Release("closeEngine", "stopped", {"engine"})

(* stop() of a polling that has died raises; so may the others.  What      *)
(* comes after it in the hook, and Redis and the engine, stay open.        *)
StopFails ==
    /\ \/ phase = "stopPolling" /\ Polls /\ "polling" \notin up
       \/ Faults /\ phase = "closeSession" /\ "session" \in up
       \/ Faults /\ phase = "stopUserbot" /\ "userbot" \in up
    /\ phase' = "aborted"
    /\ UNCHANGED <<config, up>>

BotNext ==
    \/ OpenInfra \/ OpenSession \/ StartTelegram \/ StartUserbot \/ MakeBackendClient
    \/ StartFails \/ PollingDies
    \/ Terminate \/ StopPolling \/ DeleteWebhook \/ CloseSession \/ StopUserbot
    \/ CloseBackend \/ CloseRedis \/ CloseEngine \/ StopFails

BotSpec == BotInit /\ [][BotNext]_botVars

(* Whatever the settings enable, and whatever fails: what still works in   *)
(* the background has its infrastructure under it (app.py: the hook runs   *)
(* before engine and redis are closed, "so that the background tasks can   *)
(* end while it is alive"); the bot never polls while Telegram keeps a     *)
(* webhook, its own or an earlier run's; and a service that stopped has    *)
(* left nothing open but a webhook that Telegram would not take back.      *)
StopsInOrder ==
    /\ phase \in Phases
    /\ up \cap {"polling", "userbot", "backend"} # {} => Infra \subseteq up
    /\ ~({"polling", "webhook"} \subseteq up)
    /\ phase = "stopped" => up \subseteq {"webhook"}

=============================================================================
