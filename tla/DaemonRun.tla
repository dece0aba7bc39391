----------------------------- MODULE DaemonRun -----------------------------
(***************************************************************************)
(* One life of the daemon process: runDaemon (src/cmd/mydockerd/main.go)      *)
(* opens the Store, recovers, starts the API server                           *)
(* (src/internal/server/server.go) and the watchers, waits for a signal or for *)
(* one of the two to stop, and shuts both down under timeouts before it        *)
(* closes the Store.                                                          *)
(*                                                                         *)
(* The main goroutine, the goroutine that serves, the one that shuts the       *)
(* server down, the watchers and each request run in any interleaving.  A      *)
(* request may take as long as it likes (it may wait for a target lock or for   *)
(* the grace period of a kill), and so may a pass of the watchers.              *)
(***************************************************************************)
EXTENDS Naturals

CONSTANT Requests   \* API requests that may be accepted

VARIABLES
    main,       \* where runDaemon is
    signalled,  \* SIGINT or SIGTERM was received
    store,      \* the Store: none, open or closed
    mayClose,   \* runtimeMayClose
    serve,      \* http.Serve: none, serving, closing, returned or failed
    request,    \* [Requests -> none, running, cut (without its connection), answered, killed]
    watchers,   \* RunBackground: none, running, ended or failed
    cancelled,  \* the watchers' context
    waitMsg,    \* the result of Wait: none, ready or taken
    watchMsg,   \* the result of RunBackground: none, ready or taken
    drain,      \* Shutdown: none, draining, drained, overdue, ok or error
    timer,      \* the timeout of the current phase: off, running or fired
    failed      \* runDaemon will return an error

vars == <<main, signalled, store, mayClose, serve, request, watchers, cancelled, waitMsg, watchMsg, drain, timer, failed>>
server == <<serve, request, drain>>
messages == <<waitMsg, watchMsg>>

Phases == {"open", "preflight", "reconcile", "start", "select", "preserve", "shutdown", "confirm", "join",
           "close", "exited"}
Messages == {"none", "ready", "taken"}

\* The type invariant of DaemonRun: also, nothing is served from a Store that
\* was not opened.
TypeOK ==
    /\ main \in Phases /\ {signalled, mayClose, cancelled, failed} \subseteq BOOLEAN
    /\ store \in {"none", "open", "closed"}
    /\ serve \in {"none", "serving", "closing", "returned", "failed"}
    /\ request \in [Requests -> {"none", "running", "cut", "answered", "killed"}]
    /\ watchers \in {"none", "running", "ended", "failed"}
    /\ {waitMsg, watchMsg} \subseteq Messages
    /\ drain \in {"none", "draining", "drained", "overdue", "ok", "error"}
    /\ timer \in {"off", "running", "fired"}
    /\ serve # "none" => store # "none"

Init ==
    /\ main = "open" /\ signalled = FALSE /\ store = "none" /\ mayClose = FALSE
    /\ serve = "none" /\ request = [r \in Requests |-> "none"] /\ watchers = "none" /\ cancelled = FALSE
    /\ waitMsg = "none" /\ watchMsg = "none" /\ drain = "none" /\ timer = "off" /\ failed = FALSE

Unfinished == {r \in Requests : request[r] \in {"running", "cut"}}

-----------------------------------------------------------------------------
(* runDaemon.                                                                *)

\* The process ends and takes whatever still runs with it.
Exit ==
    /\ main' = "exited"
    /\ request' = [r \in Requests |-> IF r \in Unfinished THEN "killed" ELSE request[r]]
    /\ UNCHANGED <<serve, drain>>

\* The Store is opened, or the daemon ends at once.
OpenRuntime ==
    /\ main = "open" /\ UNCHANGED <<signalled, watchers, cancelled, messages, timer>>
    /\ \/ main' = "preflight" /\ store' = "open" /\ mayClose' = TRUE /\ UNCHANGED <<server, failed>>
       \/ Exit /\ failed' = TRUE /\ UNCHANGED <<store, mayClose>>

\* Preflight and recovery, or an error of one of them.
Prepare ==
    /\ main \in {"preflight", "reconcile"} /\ UNCHANGED <<signalled, store, mayClose, server, watchers, cancelled, messages, timer>>
    /\ \/ main' = (IF main = "preflight" THEN "reconcile" ELSE "start") /\ UNCHANGED failed
       \/ main' = "close" /\ failed' = TRUE

\* The server binds its socket and serves, and the watchers start.
Start ==
    /\ main = "start" /\ UNCHANGED <<signalled, store, request, drain, cancelled, messages, timer>>
    /\ \/ /\ main' = "select" /\ mayClose' = FALSE /\ serve' = "serving" /\ watchers' = "running" /\ UNCHANGED failed
       \/ main' = "close" /\ failed' = TRUE /\ UNCHANGED <<mayClose, serve, watchers>>

\* The first of the three events that end the service.
Select ==
    /\ main = "select" /\ main' = "preserve"
    /\ UNCHANGED <<signalled, store, mayClose, server, watchers, cancelled, timer>>
    /\ \/ waitMsg = "ready" /\ waitMsg' = "taken" /\ failed' = TRUE /\ UNCHANGED watchMsg
       \/ signalled /\ UNCHANGED <<messages, failed>>
       \/ watchMsg = "ready" /\ watchMsg' = "taken" /\ failed' = TRUE /\ UNCHANGED waitMsg

Taken(message) == IF message = "ready" THEN "taken" ELSE message

\* Results that were ready as well; then the shutdown starts its timeout.
Preserve ==
    /\ main = "preserve" /\ main' = "shutdown" /\ drain' = "draining" /\ timer' = "running"
    /\ waitMsg' = Taken(waitMsg) /\ watchMsg' = Taken(watchMsg)
    /\ failed' = (failed \/ waitMsg = "ready" \/ watchMsg = "ready")
    /\ UNCHANGED <<signalled, store, mayClose, serve, request, watchers, cancelled>>

\* The watchers are told to stop, with a timeout of their own.
StopBackground(apiQuiescent, error) ==
    /\ main' = "join" /\ timer' = "running" /\ cancelled' = TRUE
    /\ mayClose' = apiQuiescent /\ failed' = (failed \/ error)

\* Mutant: the shutdown is awaited without a timeout.
Mut_NoTimeout ==
    /\ main = "shutdown" /\ UNCHANGED <<signalled, store, server, watchers, messages>>
    /\ \/ drain = "ok" /\ waitMsg = "taken" /\ StopBackground(TRUE, FALSE)
       \/ drain = "ok" /\ waitMsg # "taken" /\ main' = "confirm" /\ UNCHANGED <<mayClose, cancelled, timer, failed>>
       \/ drain = "error" /\ Unfinished = {} /\ StopBackground(FALSE, TRUE)

\* shutdownEndpoint: Shutdown's result, or its timeout.
ShutdownEndpoint ==
    /\ main = "shutdown" /\ UNCHANGED <<signalled, store, server, watchers, messages>>
    /\ \/ drain = "ok" /\ waitMsg = "taken" /\ StopBackground(TRUE, FALSE)
       \/ drain = "ok" /\ waitMsg # "taken" /\ main' = "confirm" /\ UNCHANGED <<mayClose, cancelled, timer, failed>>
       \/ drain = "error" /\ StopBackground(FALSE, TRUE)
       \/ timer = "fired" /\ StopBackground(FALSE, TRUE)

\* shutdownEndpoint: Wait confirms that serving ended, or the timeout comes.
ConfirmWait ==
    /\ main = "confirm" /\ UNCHANGED <<signalled, store, server, watchers, watchMsg>>
    /\ \/ waitMsg = "ready" /\ waitMsg' = "taken" /\ StopBackground(TRUE, serve = "failed")
       \/ timer = "fired" /\ StopBackground(FALSE, TRUE) /\ UNCHANGED waitMsg

\* joinBackground: the watchers ended, or the timeout says nothing of them.
JoinBackground ==
    /\ main = "join" /\ main' = "close" /\ timer' = "off"
    /\ UNCHANGED <<signalled, store, server, watchers, cancelled, waitMsg>>
    /\ \/ watchMsg = "taken" /\ UNCHANGED <<watchMsg, mayClose, failed>>
       \/ watchMsg = "ready" /\ watchMsg' = "taken" /\ failed' = (failed \/ watchers = "failed") /\ UNCHANGED mayClose
       \/ timer = "fired" /\ mayClose' = FALSE /\ failed' = TRUE /\ UNCHANGED watchMsg

\* The deferred Close, only when nothing can use the Store any more.
CloseRuntime ==
    /\ main = "close" /\ Exit /\ UNCHANGED <<signalled, mayClose, watchers, cancelled, messages, timer>>
    /\ IF mayClose THEN store' = "closed" /\ failed' \in {failed, TRUE} ELSE UNCHANGED <<store, failed>>

-----------------------------------------------------------------------------
(* The server.                                                               *)

Running == main # "exited"

\* A request is accepted, and answered.
Accept(r) ==
    /\ Running /\ serve = "serving" /\ request[r] = "none" /\ request' = [request EXCEPT ![r] = "running"]
    /\ UNCHANGED <<main, signalled, store, mayClose, serve, watchers, cancelled, messages, drain, timer, failed>>
Answer(r) ==
    /\ Running /\ r \in Unfinished
    /\ request' = [request EXCEPT ![r] = IF request[r] = "cut" THEN "killed" ELSE "answered"]
    /\ UNCHANGED <<main, signalled, store, mayClose, serve, watchers, cancelled, messages, drain, timer, failed>>

\* Serve returns: after Shutdown or Close, or with an error of its own.
ServeReturns ==
    /\ Running /\ waitMsg = "none" /\ waitMsg' = "ready"
    /\ serve' \in (IF serve = "closing" THEN {"returned"} ELSE IF serve = "serving" THEN {"failed"} ELSE {})
    /\ UNCHANGED <<main, signalled, store, mayClose, request, watchers, cancelled, watchMsg, drain, timer, failed>>

\* http.Server.Shutdown closes the listener first.
CloseListener ==
    /\ Running /\ drain = "draining" /\ serve = "serving" /\ serve' = "closing"
    /\ UNCHANGED <<main, signalled, store, mayClose, request, watchers, cancelled, messages, drain, timer, failed>>

\* Mutant: Shutdown does not wait for the requests.
Mut_NoDrain ==
    /\ Running /\ drain = "draining" /\ serve # "serving" /\ UNCHANGED <<main, signalled, store, mayClose, serve, watchers, cancelled, messages, timer, failed>>
    /\ drain' = "drained" /\ UNCHANGED request

\* Shutdown: no request is left; or the timeout comes first, and Close cuts the
\* connections, which ends no handler.
Drain ==
    /\ Running /\ drain = "draining" /\ serve # "serving" /\ UNCHANGED <<main, signalled, store, mayClose, serve, watchers, cancelled, messages, timer, failed>>
    /\ \/ Unfinished = {} /\ drain' = "drained" /\ UNCHANGED request
       \/ /\ timer = "fired" /\ drain' = "overdue"
          /\ request' = [r \in Requests |-> IF request[r] = "running" THEN "cut" ELSE request[r]]

\* Shutdown waits for Serve and returns both errors.
ShutdownReturns ==
    /\ Running /\ drain \in {"drained", "overdue"} /\ serve \in {"returned", "failed"}
    /\ drain' = IF drain = "drained" /\ serve = "returned" THEN "ok" ELSE "error"
    /\ UNCHANGED <<main, signalled, store, mayClose, serve, request, watchers, cancelled, messages, timer, failed>>

-----------------------------------------------------------------------------
(* The rest of the process.                                                  *)

\* The watchers end: with an error, or because they were told to.
WatchersEnd ==
    /\ Running /\ watchers = "running" /\ watchMsg' = "ready"
    /\ watchers' \in (IF cancelled THEN {"ended", "failed"} ELSE {"failed"})
    /\ UNCHANGED <<main, signalled, store, mayClose, server, cancelled, waitMsg, timer, failed>>

\* The operator stops the daemon.
Signal ==
    /\ Running /\ ~signalled /\ signalled' = TRUE
    /\ UNCHANGED <<main, store, mayClose, server, watchers, cancelled, messages, drain, timer, failed>>

\* The timeout of a phase expires.
TimerFires ==
    /\ Running /\ timer = "running" /\ timer' = "fired"
    /\ UNCHANGED <<main, signalled, store, mayClose, server, watchers, cancelled, messages, drain, failed>>

MainStep == OpenRuntime \/ Prepare \/ Start \/ Select \/ Preserve \/ ShutdownEndpoint \/ ConfirmWait
            \/ JoinBackground \/ CloseRuntime
ServerStep == CloseListener \/ Drain \/ ShutdownReturns

Next ==
    \/ MainStep \/ ServerStep \/ ServeReturns \/ WatchersEnd \/ Signal \/ TimerFires
    \/ \E r \in Requests : Accept(r) \/ Answer(r)

\* Goroutines that can go on do, and timers fire; requests and watchers may
\* hang for ever.
Fairness == WF_vars(MainStep) /\ WF_vars(TimerFires) /\ WF_vars(ServerStep)

Spec == Init /\ [][Next]_vars
FairSpec == Spec /\ Fairness

-----------------------------------------------------------------------------
(* What follows states what the order of the shutdown is for.                *)

\* main.go:183: the Store is never closed under a request or a watcher that may
\* still use it.
CloseIsQuiet == [][store' = "closed" /\ store # "closed" => Unfinished = {} /\ watchers # "running"]_vars

\* main.go: a daemon that exits without an error has answered all it accepted
\* and closed its Store behind the last of its watchers.
CleanExitIsComplete ==
    main = "exited" /\ ~failed =>
        /\ \A r \in Requests : request[r] \in {"none", "answered"}
        /\ store = "closed" /\ watchers = "ended" /\ serve = "returned"

\* main.go:308: a part that stopped by itself is an error of the daemon, also when
\* it stops during the shutdown.
FailureReported == main = "exited" /\ (serve = "failed" \/ watchers = "failed") => failed

\* server.go:147: a signal, or the end of one part, ends the whole daemon, even
\* while requests wait for locks or grace periods: it never serves without its
\* watchers, nor watches without serving.
Ends == signalled \/ serve = "failed" \/ watchers = "failed" ~> main = "exited"
=============================================================================
