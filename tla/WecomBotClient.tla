--------------------------- MODULE WecomBotClient ---------------------------
(***************************************************************************)
(* The WebSocket client of one WeCom bot                                   *)
(* (agent/ai-platform/gateway/src/adapters/wecom/WecomBotClient.ts), and   *)
(* the registry that starts and stops it (channels/BotRegistry.ts).        *)
(*                                                                         *)
(* An event (a socket event, a timer, a call) runs with all its            *)
(* microtasks as one step: a rejected request makes subscribe(), then      *)
(* connect(), then whoever called connect() fail within it.  A socket      *)
(* lives on when the client drops it: removeAllListeners only makes it     *)
(* unheard.  start() may run connect() while a reconnect is under way, so  *)
(* there may be several sockets with listeners on the one client object.   *)
(***************************************************************************)
EXTENDS Integers, FiniteSets

CONSTANTS
    Sockets,        \* a bound on the sockets that exist at one time
    NoSocket,       \* the client's ws is null
    MaxAttempts,    \* maxReconnectAttempts
    TimeoutCount,   \* heartbeatTimeoutCount
    MaxFailures,    \* bound: sockets or subscriptions that fail
    MaxStarts       \* bound: calls of start()

ASSUME NoSocketAssumption == NoSocket \notin Sockets
ASSUME LimitAssumption == MaxAttempts \in Nat /\ TimeoutCount \in Nat /\ MaxFailures \in Nat
                            /\ MaxStarts \in Nat

VARIABLES
    run,        \* shouldRun
    state,      \* ConnectionState
    ws,         \* the client's current socket
    attempts,   \* reconnectAttempts
    missed,     \* missedHeartbeats
    timer,      \* the reconnect timer is armed
    beating,    \* the heartbeat timer is armed
    socks,      \* the sockets: see NoSock
    entry,      \* the registry entry: "stopped", "starting" or "started"
    fatal,      \* an unhandled error or rejection: index.ts shuts the gateway down
    failures, starts    \* use of the bounds

conn == <<run, state, ws, attempts, missed, timer, beating>>
bounds == <<failures, starts>>
vars == <<conn, socks, entry, fatal, bounds>>

\* heard: listeners attached; request: its subscribe request waits for an answer
\* on the socket `via`; caller: who awaits its connect(), "none" once settled;
\* silent: the peer is gone without a word.
NoSock == [phase |-> "none", heard |-> FALSE, silent |-> FALSE, request |-> FALSE,
           via |-> NoSocket, caller |-> "none"]
SockType == [phase : {"none", "connecting", "open"}, heard : BOOLEAN, silent : BOOLEAN,
             request : BOOLEAN, via : Sockets \cup {NoSocket}, caller : {"none", "start", "timer"}]

TypeOK ==
    /\ run \in BOOLEAN /\ timer \in BOOLEAN /\ beating \in BOOLEAN /\ fatal \in BOOLEAN
    /\ state \in {"disconnected", "connecting", "subscribing", "heartbeating", "reconnecting"}
    /\ ws \in Sockets \cup {NoSocket}
    /\ attempts \in 0..MaxAttempts /\ missed \in 0..TimeoutCount
    /\ socks \in [Sockets -> SockType]
    /\ entry \in {"stopped", "starting", "started"}
    /\ failures \in 0..MaxFailures /\ starts \in 0..MaxStarts

Init ==
    /\ run = FALSE /\ state = "disconnected" /\ ws = NoSocket
    /\ attempts = 0 /\ missed = 0 /\ timer = FALSE /\ beating = FALSE
    /\ socks = [s \in Sockets |-> NoSock]
    /\ entry = "stopped" /\ fatal = FALSE
    /\ failures = 0 /\ starts = 0

-----------------------------------------------------------------------------
(* connect(), handleDisconnect() and scheduleReconnect() *)

Connected == state = "heartbeating"
Requests == {s \in Sockets : socks[s].request}
Awaited(S, who) == {s \in S : socks[s].caller = who}

\* A new socket becomes the current one; the old one keeps its listeners.
Connect(who) ==
    \E s \in Sockets :
        /\ socks[s].phase = "none"
        /\ socks' = [socks EXCEPT ![s] = [NoSock EXCEPT !.phase = "connecting", !.heard = TRUE,
                                                        !.caller = who]]
        /\ ws' = s /\ run' = TRUE /\ state' = "connecting"

\* What handleDisconnect leaves of the sockets: `gone` is closed, the current one
\* loses its listeners, and the connect() of the sockets R has failed.
SocksAfter(gone, R) ==
    [s \in Sockets |->
        IF s = gone THEN NoSock
        ELSE [socks[s] EXCEPT !.heard = @ /\ s # ws, !.request = FALSE, !.via = NoSocket,
                              !.caller = IF s \in R THEN "none" ELSE @]]

\* How often scheduleReconnect runs in the step: in each of n calls of
\* handleDisconnect while the client should run, and once more in the timer
\* callback whose connect() has failed, whether or not the client should run.
MutSchedules(running, n, R) == Cardinality(Awaited(R, "timer"))
Schedules(running, n, R) ==
    (IF running THEN n ELSE 0) + Cardinality(Awaited(R, "timer"))

Limit == MaxAttempts

\* n calls of scheduleReconnect; the last one decides.
Scheduled(n) ==
    /\ attempts' = IF attempts + n <= Limit THEN attempts + n ELSE Limit
    /\ timer' = IF n = 0 THEN timer ELSE attempts + n <= Limit
    /\ state' = IF n > 0 /\ attempts + n <= Limit THEN "reconnecting" ELSE "disconnected"

\* The socket `gone` has ended, or none has; the connect() of R fails, and with it
\* the requests in flight.
HandleDisconnect(gone, R) ==
    LET failed == R \cup Requests IN
    /\ Scheduled(Schedules(run, 1 + Cardinality(Requests), failed))
    /\ ws' = NoSocket /\ beating' = FALSE
    /\ socks' = SocksAfter(gone, failed)
    /\ entry' = IF Awaited(failed, "start") # {} THEN "stopped" ELSE entry
    /\ UNCHANGED run

-----------------------------------------------------------------------------
(* BotRegistry.startEntry, and the reconnect timer *)

Start ==
    /\ entry = "stopped" /\ starts < MaxStarts /\ starts' = starts + 1
    /\ IF Connected
         THEN entry' = "started" /\ UNCHANGED <<conn, socks>>
         ELSE /\ Connect("start") /\ entry' = "starting"
              /\ UNCHANGED <<attempts, missed, timer, beating>>
    /\ UNCHANGED <<fatal, failures>>

RetryFires ==
    /\ timer /\ timer' = FALSE
    /\ IF Connected
         THEN UNCHANGED <<run, state, ws, socks>>
         ELSE Connect("timer")
    /\ UNCHANGED <<attempts, missed, beating, entry, fatal, bounds>>

\* BotRegistry.stopBot calls disconnect() of a started entry; the rejected
\* requests fail after it.
Stop ==
    /\ entry = "started" /\ entry' = "stopped"
    /\ run' = FALSE /\ beating' = FALSE /\ ws' = NoSocket
    /\ LET n == Schedules(FALSE, Cardinality(Requests), Requests)
       IN  /\ attempts' = IF attempts + n <= Limit THEN attempts + n ELSE Limit
           /\ timer' = (n > 0 /\ attempts + n <= Limit)
           /\ state' = IF timer' THEN "reconnecting" ELSE "disconnected"
    /\ socks' = SocksAfter(IF ws # NoSocket /\ socks[ws].phase = "open" THEN ws ELSE NoSocket,
                           Requests)
    /\ UNCHANGED <<missed, fatal, bounds>>

-----------------------------------------------------------------------------
(* Events of the sockets *)

Failure == failures < MaxFailures /\ failures' = failures + 1 /\ starts' = starts

\* 'open': subscribe() sends on the current socket, whichever opened.  Where that
\* is not open the send throws, and the request it leaves behind is rejected
\* with nobody awaiting it.
Opens(s) ==
    /\ socks[s].phase = "connecting"
    /\ IF socks[s].heard /\ (ws = s \/ (ws # NoSocket /\ socks[ws].phase = "open"))
         THEN /\ socks' = [socks EXCEPT ![s].phase = "open", ![s].request = TRUE, ![s].via = ws]
              /\ state' = "subscribing"
              /\ UNCHANGED <<run, ws, attempts, missed, timer, beating, entry, fatal>>
         ELSE /\ fatal' = socks[s].heard
              /\ socks' = [socks EXCEPT ![s].phase = "open"]
              /\ UNCHANGED <<conn, entry>>
    /\ UNCHANGED bounds

\* 'close', 'error' or 'unexpected-response'.  A connect() still under way fails
\* if the client's state is one of connecting.
Ended(s) ==
    LET R == IF state \in {"connecting", "subscribing"} THEN {s} ELSE {} IN
    /\ socks[s].phase # "none" /\ socks[s].heard
    /\ Failure
    /\ HandleDisconnect(s, R)
    /\ UNCHANGED <<missed, fatal>>

\* A handshake that fails emits 'error', which without a listener is an uncaught
\* exception.
FailsUnheard(s) ==
    /\ socks[s].phase = "connecting" /\ ~socks[s].heard
    /\ Failure
    /\ fatal' = TRUE
    /\ socks' = [socks EXCEPT ![s] = NoSock]
    /\ UNCHANGED <<conn, entry>>

\* A connection nobody listens to ends in the end.
Forgotten(s) ==
    /\ socks[s].phase = "open" /\ ~socks[s].heard
    /\ socks' = [socks EXCEPT ![s] = NoSock]
    /\ UNCHANGED <<conn, entry, fatal, bounds>>

\* The subscription is accepted ...
Answerable(s) ==
    /\ socks[s].request
    /\ socks[socks[s].via].heard /\ ~socks[socks[s].via].silent
Subscribed(s) ==
    /\ Answerable(s)
    /\ socks' = [socks EXCEPT ![s].request = FALSE, ![s].via = NoSocket, ![s].caller = "none"]
    /\ state' = "heartbeating" /\ attempts' = 0 /\ missed' = 0 /\ beating' = TRUE
    /\ entry' = IF socks[s].caller = "start" THEN "started" ELSE entry
    /\ UNCHANGED <<run, ws, timer, fatal, bounds>>

\* ... refused, or not answered within subscribeTimeoutMs.
Refused(s) ==
    /\ socks[s].request
    /\ IF Answerable(s) THEN Failure ELSE UNCHANGED bounds
    /\ HandleDisconnect(NoSocket, {s})
    /\ UNCHANGED <<missed, fatal>>

\* The peer is gone and neither side is told.
GoesSilent(s) ==
    /\ socks[s].phase = "open" /\ ~socks[s].silent
    /\ Failure
    /\ socks' = [socks EXCEPT ![s].silent = TRUE]
    /\ UNCHANGED <<conn, entry, fatal>>

-----------------------------------------------------------------------------
(* The heartbeat *)

\* A ping is counted as missed until it is answered.
MutMissed == missed
Missed == missed + 1

Beat ==
    /\ beating /\ ws # NoSocket /\ socks[ws].phase = "open"
    /\ missed' = Missed
    /\ IF Missed >= TimeoutCount
         THEN HandleDisconnect(NoSocket, {})
         ELSE UNCHANGED <<run, state, ws, attempts, timer, beating, socks, entry>>
    /\ UNCHANGED <<fatal, bounds>>

Pong ==
    /\ beating /\ missed > 0 /\ ws # NoSocket
    /\ socks[ws].phase = "open" /\ socks[ws].heard /\ ~socks[ws].silent
    /\ missed' = 0
    /\ UNCHANGED <<run, state, ws, attempts, timer, beating, socks, entry, fatal, bounds>>

-----------------------------------------------------------------------------

SocketEvent(s) ==
    \/ Opens(s) \/ Ended(s) \/ FailsUnheard(s) \/ Forgotten(s) \/ Subscribed(s) \/ Refused(s) \/ GoesSilent(s)

\* After an unhandled error the gateway process shuts down.
Next ==
    /\ ~fatal
    /\ \/ Start \/ Stop \/ RetryFires \/ Beat \/ Pong
       \/ \E s \in Sockets : SocketEvent(s)

Spec == Init /\ [][Next]_vars

\* Timers fire, sockets open and peers that are there answer; failures are
\* bounded, and a peer that answers does so before the next ping.
FairSpec ==
    /\ Spec
    /\ WF_vars(~fatal /\ RetryFires)
    /\ WF_vars(~fatal /\ Beat)
    /\ SF_vars(~fatal /\ Pong)
    /\ \A s \in Sockets :
          /\ WF_vars(~fatal /\ Opens(s)) /\ WF_vars(~fatal /\ Subscribed(s))
          /\ WF_vars(~fatal /\ ~Answerable(s) /\ Refused(s))
          /\ WF_vars(~fatal /\ Forgotten(s))

-----------------------------------------------------------------------------
(* Properties *)

Served == Connected /\ ws # NoSocket /\ socks[ws].phase = "open"
GaveUp == run /\ ~timer /\ attempts = MaxAttempts /\ ws = NoSocket

\* A client that should run and is not subscribed will be, whatever sockets fail or
\* go silent on the way and however many connect() are under way at once: it stays
\* without a connection only when it is stopped, has used up its attempts
\* (scheduleReconnect gives up), or the gateway process shuts down.
Recovers == (run /\ ~Served) ~> (Served \/ ~run \/ GaveUp \/ fatal)

\* A peer that has gone without a word is noticed by the heartbeat: its socket is
\* not kept as the client's connection.
DeadPeerNoticed ==
    \A s \in Sockets :
        (ws = s /\ Connected /\ socks[s].silent) ~> (ws # s \/ ~socks[s].silent \/ fatal)

\* A stopped client is started again by nothing but a call of start() (comment of
\* shouldRun).  Does not hold: disconnect() rejects the subscribe request of a
\* reconnect in flight, and the failed reconnect schedules the next one.
StoppedStaysStopped == [][(~run /\ run') => starts' # starts]_vars

\* A call of start() returns, so that the registry goes on to its next bot.  Does
\* not hold: start() beside a reconnect opens a second socket, and the end of one
\* takes the listeners of the other, whose connect() then never settles.
StartReturns == entry = "starting" ~> (entry # "starting" \/ fatal)

=============================================================================
