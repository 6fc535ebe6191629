------------------------------ MODULE Lifespan ------------------------------
(***************************************************************************)
(* The life of one gateway process: create_app, the lifespan's sequence of *)
(* pre-flight checks and bootstrap functions, serving, and _shutdown.      *)
(* Every bootstrap function may raise; what then happens differs: some are *)
(* caught and leave the service out, some close the cache and re-raise,    *)
(* the others just propagate.  open is what the process holds open (tasks, *)
(* threads, clients, engines, listeners); attr is what app.state refers    *)
(* to, which is all that _shutdown can find.                               *)
(***************************************************************************)
EXTENDS Naturals, Sequences, FiniteSets

CONSTANTS
    Boots,          \* deployments: [mode, ca, autostart, volume, kms, creds, prod]
    MaxRetries      \* max_retries of _check_with_retry

ASSUME LifespanAssumption == MaxRetries \in Nat \ {0}

VARIABLES
    boot,           \* the deployment
    life,           \* "boot", "serving", "stopping", "stopped", "failed"
    at,             \* index of the next bootstrap step, or of the next stop
    tries,          \* attempts of the Presidio check
    open,           \* resources that exist and have not been closed
    attr,           \* services app.state holds
    broke,          \* a stop raised
    ready           \* the last answer of /health/ready

lifeVars == <<boot, life, at, tries, open, attr, broke, ready>>

\* The order of create_app, lifespan and run_startup_checks.
Steps == << "create_app", "secrets", "cache", "provider_credentials", "production_secrets",
            "cache_health", "presidio", "languages", "kms", "secret_reloader", "locale",
            "policy", "ca", "mitm", "audit", "slo", "governance", "gateway", "mcp",
            "normalizer", "sinks", "monitor", "deployment", "listen", "trust", "compliance" >>

\* What a step leaves open when it succeeds.
Opens == [s \in {Steps[i] : i \in DOMAIN Steps} |->
    CASE s = "cache" -> {"cache"}       [] s = "secret_reloader" -> {"reloader"}
      [] s = "locale" -> {"presidio"}   [] s = "ca" -> {"ca"}
      [] s = "audit" -> {"audit"}       [] s = "slo" -> {"webhook"}
      [] s = "normalizer" -> {"normalizer"} [] s = "sinks" -> {"sinks"}
      [] s = "monitor" -> {"monitor"}   [] s = "listen" -> {"proxy"}
      [] OTHER -> {}]

\* What a step puts on app.state: the sinks only after the monitor started,
\* the proxy before it listens.
Attrs == [s \in DOMAIN Opens |->
    CASE s = "cache" -> {}              [] s = "locale" -> {"presidio", "pipeline"}
      [] s = "policy" -> {"policy"}     [] s = "kms" -> {"cache", "kms"}
      [] s = "governance" -> {"approvals"}
      [] s = "sinks" -> {}              [] s = "monitor" -> {"sinks", "monitor"}
      [] s = "deployment" -> {"proxy"}  [] s = "listen" -> {}
      [] OTHER -> Opens[s]]

\* Handlers that close the cache and re-raise.
ClosesCache == {"provider_credentials", "production_secrets", "cache_health", "presidio",
                "languages", "policy", "deployment", "listen"}

\* Mutated Tolerated: a gateway without its policy engine starts.
Tolerated_Policy == {"mcp", "normalizer", "sinks", "monitor", "trust", "policy"}

\* Handlers that log and go on.
Tolerated == {"mcp", "normalizer", "sinks", "monitor", "trust"}

\* Steps this deployment passes over.
Skipped(s) ==
    \/ s = "locale" /\ boot.mode = "proxy-only"
    \/ s = "secret_reloader" /\ ~boot.volume
    \/ s = "mitm" /\ boot.ca # "valid"
    \/ s = "listen" /\ ~boot.autostart

\* A step whose input is refused.  With a loadable CA bootstrap_mitm_proxy
\* registers a middleware, which Starlette refuses once the application runs
\* (external).
Refused(s) ==
    \/ s = "create_app" /\ boot.mode = "unknown"
    \/ s = "provider_credentials" /\ ~boot.creds
    \/ s = "production_secrets" /\ ~boot.prod
    \/ s = "mitm"

LifeInit ==
    /\ boot \in Boots
    /\ life = "boot" /\ at = 1 /\ tries = 0
    /\ open = {} /\ attr = {} /\ broke = FALSE /\ ready = "unknown"

Here == Steps[at]

\* Only the local KMS backend exists; with another one the cache is served
\* without encryption.
NotImplemented == IF boot.kms = "local" THEN {} ELSE {"kms"}

Advance ==
    /\ at' = at + 1
    /\ life' = IF at = Len(Steps) THEN "serving" ELSE "boot"

\* A bootstrap function returns.
StepDone ==
    /\ life = "boot" /\ Here # "presidio"
    /\ Skipped(Here) \/ ~Refused(Here)
    /\ Advance
    /\ IF Skipped(Here) THEN UNCHANGED <<open, attr>>
       ELSE /\ open' = open \union Opens[Here]
            /\ attr' = (attr \union Attrs[Here]) \ NotImplemented
    /\ UNCHANGED <<boot, tries, broke, ready>>

Fail(closing) ==
    /\ life' = "failed"
    /\ open' = IF closing THEN open \ {"cache"} ELSE open
    /\ UNCHANGED <<boot, at, tries, attr, broke, ready>>

\* A bootstrap function raises.  Only a missing English bundle makes locale
\* close the cache.  Some sinks may run when start_all raises, and all of
\* them do when the monitor fails; neither gets their router onto app.state.
StepRaises ==
    /\ life = "boot" /\ ~Skipped(Here)
    /\ Here \notin {"presidio", "cache"}
    /\ IF Here \in Tolerated
       THEN /\ at' = IF Here = "sinks" THEN at + 2 ELSE at + 1
            /\ open' \in {open, open \union (Opens[Here] \intersect {"sinks"})}
            /\ UNCHANGED <<boot, life, tries, attr, broke, ready>>
       ELSE \E english \in BOOLEAN :
            Fail(Here \in ClosesCache \/ (Here = "locale" /\ ~english))

\* _check_with_retry on check_presidio.
PresidioAnswers ==
    /\ life = "boot" /\ Here = "presidio"
    /\ Advance /\ tries' = tries + 1
    /\ UNCHANGED <<boot, open, attr, broke, ready>>

\* Mutated PresidioSilent: the retry counter wraps.
PresidioSilent_Loop ==
    /\ life = "boot" /\ Here = "presidio"
    /\ tries' = (tries + 1) % MaxRetries
    /\ UNCHANGED <<boot, life, at, open, attr, broke, ready>>

PresidioSilent ==
    /\ life = "boot" /\ Here = "presidio" /\ tries < MaxRetries - 1
    /\ tries' = tries + 1
    /\ UNCHANGED <<boot, life, at, open, attr, broke, ready>>

PresidioGivenUp ==
    /\ life = "boot" /\ Here = "presidio" /\ tries = MaxRetries - 1
    /\ Fail(TRUE)

\* An httpx error outside the three that check_presidio handles is no
\* DependencyUnavailableError: lifespan does not close the cache.
PresidioUnexpected ==
    /\ life = "boot" /\ Here = "presidio"
    /\ Fail(FALSE)

\* health_ready, with whatever Valkey and Presidio answer now.
HealthReady(cache, presidio) ==
    /\ life = "serving"
    /\ ready' = IF "cache" \in attr /\ cache /\ presidio THEN "200" ELSE "503"
    /\ UNCHANGED <<boot, life, at, tries, open, attr, broke>>

-----------------------------------------------------------------------------
(* Shutdown. *)

\* Mutated StopOrder: the secret reloader is forgotten.
StopOrder_NoReloader == << "proxy", "monitor", "sinks", "normalizer", "webhook",
                           "audit", "ca", "presidio", "cache" >>

\* The order of _shutdown; the handler of an intercepted TLS connection is
\* never set, see Refused.
StopOrder == << "proxy", "monitor", "sinks", "normalizer", "webhook", "reloader",
                "audit", "ca", "presidio", "cache" >>

SignalStop ==
    /\ life = "serving"
    /\ life' = "stopping" /\ at' = 1
    /\ UNCHANGED <<boot, tries, open, attr, broke, ready>>

\* One service that app.state knows is stopped; the others are passed over.
StopOne ==
    /\ life = "stopping"
    /\ open' = IF StopOrder[at] \in attr \union {"cache"} THEN open \ {StopOrder[at]} ELSE open
    /\ at' = at + 1
    /\ life' = IF at = Len(StopOrder) THEN "stopped" ELSE "stopping"
    /\ UNCHANGED <<boot, tries, attr, broke, ready>>

\* A stop raises: nothing after it is stopped.
StopRaises ==
    /\ life = "stopping" /\ StopOrder[at] \in attr
    /\ life' = "stopped" /\ broke' = TRUE
    /\ UNCHANGED <<boot, at, tries, open, attr, ready>>

LifeNext ==
    \/ StepDone \/ StepRaises
    \/ PresidioAnswers \/ PresidioSilent \/ PresidioGivenUp \/ PresidioUnexpected
    \/ \E cache, presidio \in BOOLEAN : HealthReady(cache, presidio)
    \/ SignalStop \/ StopOne \/ StopRaises

\* Every check has a timeout and every await of the lifespan returns or
\* raises.
LifeStep == \/ StepDone \/ StepRaises \/ PresidioAnswers \/ PresidioSilent
            \/ PresidioGivenUp \/ PresidioUnexpected \/ StopOne \/ StopRaises

LifeFair == WF_lifeVars(LifeStep)

LifeSpec == LifeInit /\ [][LifeNext]_lifeVars /\ LifeFair

-----------------------------------------------------------------------------
\* A process that accepts traffic has what the pipeline fails closed on: the
\* cache with its key, the policy engine, the audit chain, the approvals,
\* and, except in proxy-only mode, detection.
ServesWhole ==
    life = "serving" =>
        /\ {"cache", "policy", "audit", "approvals"} \subseteq attr
        /\ boot.kms = "local" => "kms" \in attr
        /\ boot.mode # "proxy-only" => {"pipeline", "presidio"} \subseteq attr
        /\ boot.creds /\ boot.prod /\ {"cache", "audit"} \subseteq open

\* A shutdown in which no stop raised has closed everything the process
\* opened, except the sinks whose router or health monitor failed to start.
CleanStopClosesAll ==
    life = "stopped" /\ ~broke =>
        open \subseteq (IF "sinks" \in attr THEN {} ELSE {"sinks"})

\* The two ends of a process: it serves only whole, and leaves nothing open
\* when its stop raises nowhere.
ServiceWhole ==
    /\ ServesWhole
    /\ CleanStopClosesAll

\* A start ends: in service, or with the error that refuses it, also while
\* Presidio never answers (main.py's lifespan and startup_checks.py).
StartEnds == (life = "boot") ~> (life \in {"serving", "failed"})

(* Said of the code and not kept by it. *)

\* "Clean shutdown": after a failed start, or a monitor that failed, tasks
\* and connections stay open.
FailedStartClosesAll == life = "failed" => open = {}
StopClosesAll == life = "stopped" => open = {}

\* A transparent proxy with a loadable CA comes up.
CaDeploymentServes == life = "failed" => boot.ca # "valid" \/ Here # "mitm"
=============================================================================
