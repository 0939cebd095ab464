--------------------------- MODULE GatewaySession ---------------------------
(***************************************************************************)
(* The agent's session with the gateway: the initial authentication, the   *)
(* token refresh loop, the reauthentication of the NATS connection, the    *)
(* two files a new token is written to, and the suspension that gates      *)
(* them all (module Deactivation).  A crash loses the process, not disk.   *)
(*                                                                         *)
(* A call asks for a token with the refresh token and, when that fails,    *)
(* with the client credentials.  Its reply is drawn when the gateway       *)
(* answers and recorded when the task runs again, so replies of the two    *)
(* callers may be recorded in another order than they were given.          *)
(* Sleeping is leaving a loop where it is; durations are left out.         *)
(***************************************************************************)
EXTENDS Deactivation

CONSTANT MaxFlips    \* bound: changes of the gateway

ASSUME SessionAssumption == MaxFlips \in Nat

VARIABLES
    gateway,      \* what it answers: "ok", "gone" or "down"
    main,         \* start(): "auth", "connect" or "run"
    call,         \* where the call of each caller is
    wire,         \* the status on its way to the caller
    probing,      \* the loop's call is a suspension probe
    hasToken,     \* agent_config.json holds an access token
    configBy,     \* the caller whose token it is
    agree,        \* shared_token.enc holds the same token
    flips

tokens == <<hasToken, configBy, agree>>
sessionVars == <<gateway, main, call, wire, probing, tokens, flips>>
vars == <<deactivationVars, sessionVars>>

\* Positions of a call: not running ("idle"; "go" once the loop's wait is over), waiting
\* for the answer to a refresh token or to the client credentials, writing the tokens,
\* connected (NATS only).
Positions == {"idle", "go", "refresh", "secret", "saveConfig", "saveShared", "connected"}
Asking == {"refresh", "secret"}
NoReply == "none"

SessionTypeOK ==
    /\ TypeOK
    /\ gateway \in {"ok", "gone", "down"} /\ main \in {"auth", "connect", "run"}
    /\ call \in [Callers -> Positions]
    /\ wire \in [Callers -> {NoReply, "ok", "gone", "other"}]
    /\ probing \in BOOLEAN /\ hasToken \in BOOLEAN /\ agree \in BOOLEAN
    /\ configBy \in Callers
    /\ flips \in 0..MaxFlips

Init ==
    /\ DeactivationInit
    /\ gateway = "ok" /\ main = "auth"
    /\ call = [c \in Callers |-> "idle"] /\ wire = [c \in Callers |-> NoReply]
    /\ probing = FALSE /\ hasToken = FALSE /\ configBy = "loop" /\ agree = FALSE
    /\ flips = 0

-----------------------------------------------------------------------------
(* The environment *)

GatewayTurns(g) ==
    /\ gateway # g /\ flips < MaxFlips
    /\ gateway' = g /\ flips' = flips + 1
    /\ UNCHANGED <<deactivationVars, main, call, wire, probing, tokens>>

\* The gateway answers.  A refresh token may be refused (rotated, expired); the client
\* credentials are good while the tenant lives.
Answer(c, status) ==
    /\ up /\ call[c] \in Asking /\ wire[c] = NoReply /\ c \notin due
    /\ status \in CASE gateway = "gone" -> {"gone"}
                    [] gateway = "down" -> {"other"}
                    [] OTHER -> IF call[c] = "refresh" THEN {"ok", "other"} ELSE {"ok"}
    /\ wire' = [wire EXCEPT ![c] = status]
    /\ UNCHANGED <<deactivationVars, gateway, main, call, probing, tokens, flips>>

Time == Tick /\ UNCHANGED sessionVars
Jump == ClockJumps /\ UNCHANGED sessionVars

\* The process ends, by itself or because the uninstaller stops it.
Crash ==
    /\ up /\ Fault(~launched)
    /\ up' = FALSE
    /\ NewProcess
    /\ call' = [c \in Callers |-> "idle"] /\ wire' = [c \in Callers |-> NoReply]
    /\ main' = "auth" /\ probing' = FALSE
    /\ UNCHANGED <<launched, marker, goneFor, trusted, gateway, tokens, flips>>

\* The service manager starts the agent again; NewProcess has read the marker.
Boot ==
    /\ ~up /\ ~launched
    /\ up' = TRUE
    /\ goneSince' = marker
    /\ UNCHANGED <<phase, consecutive, backoff, triggered, elapsed, due, commands, attempts,
                   launched, toolManager, marker, faults, history, sessionVars>>

-----------------------------------------------------------------------------
(* A call *)

\* The end of a call: the loop goes back to its top, except that a failed refresh is
\* retried at once unless the tenant went gone meanwhile; the initial authentication
\* ends with a token.
Finish(c, success, suspended) ==
    /\ call' = [call EXCEPT ![c] =
                  IF c = "nats" THEN IF success THEN "connected" ELSE "idle"
                  ELSE IF main = "auth" \/ success \/ probing \/ suspended THEN "idle"
                  ELSE "go"]
    /\ main' = IF c = "loop" /\ main = "auth" /\ success THEN "connect" ELSE main
    /\ probing' = (probing /\ c # "loop")

\* The status is recorded before it is looked at; a refused refresh token falls back to
\* the client credentials, 410s included.
HandleReply(c) ==
    /\ up /\ wire[c] # NoReply
    /\ on_gateway_status(c, wire[c])
    /\ wire' = [wire EXCEPT ![c] = NoReply]
    /\ IF wire[c] = "ok" \/ call[c] = "refresh" THEN
            /\ call' = [call EXCEPT ![c] = IF wire[c] = "ok" THEN "saveConfig" ELSE "secret"]
            /\ UNCHANGED <<main, probing>>
       ELSE Finish(c, FALSE, phase' = "Suspended")
    /\ UNCHANGED <<gateway, tokens, flips>>

RequestUninstall(c) ==
    /\ up /\ request_uninstall(c)
    /\ UNCHANGED sessionVars

\* save_tokens_to_config: the configuration first.
SaveConfig(c) ==
    /\ up /\ call[c] = "saveConfig" /\ c \notin due
    /\ hasToken' = TRUE /\ configBy' = c /\ agree' = FALSE
    /\ call' = [call EXCEPT ![c] = "saveShared"]
    /\ UNCHANGED <<deactivationVars, gateway, main, wire, probing, flips>>

\* then shared_token.enc, with the token of this call.
SaveShared(c) ==
    /\ up /\ call[c] = "saveShared"
    /\ agree' = (configBy = c)
    /\ Finish(c, TRUE, is_suspended)
    /\ UNCHANGED <<deactivationVars, gateway, wire, hasToken, configBy, flips>>

\* Either write fails: the call fails, and a refresh that fails here still falls back to
\* the client credentials (not distinguished from the first: the call is made again).
SaveFails(c) ==
    /\ up /\ call[c] \in {"saveConfig", "saveShared"} /\ c \notin due
    /\ Fault(TRUE)
    /\ \/ Finish(c, FALSE, is_suspended)
       \/ /\ main # "auth" /\ call' = [call EXCEPT ![c] = "secret"]
          /\ UNCHANGED <<main, probing>>
    /\ UNCHANGED <<up, process, due, commands, attempts, launched, toolManager, marker,
                   history, gateway, wire, tokens, flips>>

\* REAUTH_TIMEOUT, or the 10 s of the NATS callback: the call is dropped wherever it
\* waits, a reply that was not recorded and an uninstall not yet requested with it.
TimesOut(c) ==
    /\ up /\ call[c] \in Asking /\ (c = "loop" => main # "auth")
    /\ Fault(TRUE)
    /\ due' = due \ {c}
    /\ wire' = [wire EXCEPT ![c] = NoReply]
    /\ Finish(c, FALSE, is_suspended)
    /\ UNCHANGED <<up, process, commands, attempts, launched, toolManager, marker, history,
                   gateway, tokens, flips>>

-----------------------------------------------------------------------------
(* The tasks *)

\* InitialAuthenticationProcessor: skipped when there is a token, else tried until it
\* works, suspended or not.
AuthSkipped ==
    /\ up /\ main = "auth" /\ hasToken /\ call["loop"] = "idle"
    /\ main' = "connect"
    /\ UNCHANGED <<deactivationVars, gateway, call, wire, probing, tokens, flips>>

\* A mutant: so does the initial authentication.
AuthAttempt_Gated ==
    /\ up /\ main = "auth" /\ ~hasToken /\ call["loop"] = "idle" /\ "loop" \notin due
    /\ ~is_suspended
    /\ call' = [call EXCEPT !["loop"] = "secret"]
    /\ UNCHANGED <<deactivationVars, gateway, main, wire, probing, tokens, flips>>

AuthAttempt ==
    /\ up /\ main = "auth" /\ ~hasToken /\ call["loop"] = "idle" /\ "loop" \notin due
    /\ call' = [call EXCEPT !["loop"] = "secret"]
    /\ UNCHANGED <<deactivationVars, gateway, main, wire, probing, tokens, flips>>

\* The loop's top: while suspended it hands out a probe delay.
RefreshWait ==
    /\ up /\ main # "auth" /\ call["loop"] = "idle" /\ "loop" \notin due
    /\ call' = [call EXCEPT !["loop"] = "go"]
    /\ probing' = is_suspended
    /\ IF is_suspended THEN next_probe_delay ELSE UNCHANGED deactivationVars
    /\ UNCHANGED <<gateway, main, wire, tokens, flips>>

\* A mutant: the loop stops calling while suspended, like every other caller.
RefreshGo_Gated ==
    /\ up /\ call["loop"] = "go" /\ ~is_suspended
    /\ call' = [call EXCEPT !["loop"] = "refresh"]
    /\ UNCHANGED <<deactivationVars, gateway, main, wire, probing, tokens, flips>>

RefreshGo ==
    /\ up /\ call["loop"] = "go"
    /\ call' = [call EXCEPT !["loop"] = "refresh"]
    /\ UNCHANGED <<deactivationVars, gateway, main, wire, probing, tokens, flips>>

\* connect() returns at once (retry_on_initial_connect); start() goes on to run the
\* tools, whose supervisors end at once while the manager is shutting down.
StartTools ==
    /\ up /\ main = "connect"
    /\ main' = "run"
    /\ supervised' = (supervised \/ ~shuttingDown)
    /\ UNCHANGED <<up, process, due, commands, attempts, launched, shuttingDown, marker, faults,
                   history, gateway, call, wire, probing, tokens, flips>>

\* perform_reauthentication_and_build_url: refused locally while suspended.
NatsReauth ==
    /\ up /\ main = "run" /\ call["nats"] = "idle" /\ "nats" \notin due
    /\ ~is_suspended
    /\ call' = [call EXCEPT !["nats"] = "refresh"]
    /\ UNCHANGED <<deactivationVars, gateway, main, wire, probing, tokens, flips>>

ConnectionLost ==
    /\ call["nats"] = "connected" /\ Fault(TRUE)
    /\ call' = [call EXCEPT !["nats"] = "idle"]
    /\ UNCHANGED <<up, process, due, commands, attempts, launched, toolManager, marker,
                   history, gateway, main, wire, probing, tokens, flips>>

Supervisor ==
    /\ StopTools \/ RestartTools \/ Uninstall \/ SpawnUninstaller
    /\ UNCHANGED sessionVars

Step(c) == HandleReply(c) \/ RequestUninstall(c) \/ SaveConfig(c) \/ SaveShared(c)

Next ==
    \/ \E g \in {"ok", "gone", "down"} : GatewayTurns(g)
    \/ \E c \in Callers :
        \/ \E status \in {"ok", "gone", "other"} : Answer(c, status)
        \/ HandleReply(c) \/ RequestUninstall(c) \/ SaveConfig(c) \/ SaveShared(c)
        \/ SaveFails(c) \/ TimesOut(c)
    \/ Time \/ Jump \/ Crash \/ Boot
    \/ AuthSkipped \/ AuthAttempt \/ RefreshWait \/ RefreshGo \/ StartTools
    \/ NatsReauth \/ ConnectionLost \/ Supervisor

\* Time passes, requests are answered or time out, the runtime polls every task, and
\* the service manager restarts the agent.
Fairness ==
    /\ WF_vars(Time) /\ WF_vars(Boot) /\ WF_vars(Supervisor)
    /\ \A c \in Callers :
        WF_vars(\E status \in {"ok", "gone", "other"} : Answer(c, status)) /\ WF_vars(Step(c))
    /\ WF_vars(AuthSkipped) /\ WF_vars(AuthAttempt) /\ WF_vars(RefreshWait)
    /\ WF_vars(RefreshGo) /\ WF_vars(StartTools) /\ WF_vars(NatsReauth)

Spec == Init /\ [][Next]_vars /\ Fairness

-----------------------------------------------------------------------------
(* Properties *)

Working == up /\ ~is_suspended /\ supervised /\ ~shuttingDown
RestartFailed == main = "run" /\ ~supervised /\ ~shuttingDown

\* When the gateway stays healthy the agent returns to work: it leaves the suspension,
\* its tools are supervised, NATS connects and both token files hold the same token.
\* It does not when it has already triggered the uninstall, whose flag silences every
\* later 2xx (record_healthy), or when a restart of the tools failed.
Recovers ==
    <>[](gateway = "ok") =>
        \/ <>[](triggered \/ launched \/ RestartFailed)
        \/ []<>(Working /\ call["nats"] = "connected" /\ agree)

\* When the tenant stays gone the agent ends up uninstalling itself, or has tried to
\* SpawnAttempts times: restarts postpone the deadline by the grace period, they do not
\* cancel it, and the gated callers leave one that keeps asking.
GoneForGood ==
    <>[](gateway = "gone") =>
        <>(launched \/ (triggered /\ commands = <<>> /\ attempts = 0))
=============================================================================
