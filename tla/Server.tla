------------------------------- MODULE Server -------------------------------
(***************************************************************************)
(* The life of the process (src/main.go) around the hook: listen, serve,   *)
(* a signal, the shutdown of the HTTP server with its deadline, and then   *)
(* the deferred calls in reverse order: the network, the pool, the end.    *)
(* Until main has asked for signals, one ends the process on the spot.     *)
(*                                                                         *)
(* net/http and tsnet are modelled by what main relies on: Shutdown closes *)
(* the listener and returns when no connection is active or at its         *)
(* deadline; a connection accepted before that may still deliver its       *)
(* request; closing the tsnet node ends every connection, closing a local  *)
(* listener ends none.  pool.Shutdown is Compressor's Close and the end of *)
(* the running jobs (Pool: ShutdownCompletes).  Scrapes are left out.      *)
(***************************************************************************)
EXTENDS Hook

VARIABLES
  main,      \* where main is
  serve,     \* the goroutine in httpSrv.Serve
  local,     \* -local-addr is set: plain HTTP instead of tsnet
  late,      \* the deadline of httpSrv.Shutdown passed
  cut        \* requests that the end of the process or of the network cut off

mainVars == <<main, serve, local, late, cut>>
serverVars == <<vars, mainVars>>

MainStates ==
  {"start", "listening", "serving", "drain", "cleanup", "stop", "stopping", "exited", "killed"}

\* The process is there no more.
Over == main \in {"exited", "killed"}

ServerInit ==
  /\ Init
  /\ main = "start"
  /\ serve = "none"
  /\ local \in BOOLEAN
  /\ late = FALSE
  /\ cut = {}

-----------------------------------------------------------------------------
\* listen returns, and the goroutine that serves is started.
Listen ==
  /\ main = "start"
  /\ main' = "listening"
  /\ serve' = "accepting"
  /\ UNCHANGED <<vars, local, late, cut>>

\* signal.Notify: from here on a signal comes through the channel.
Notify ==
  /\ main = "listening"
  /\ main' = "serving"
  /\ UNCHANGED <<vars, serve, local, late, cut>>

\* Before that SIGINT and SIGTERM do what they do by default, while listen
\* blocks or with the first requests under way.  No deferred call runs.
EarlySignal ==
  /\ main \in {"start", "listening"}
  /\ main' = "killed"
  /\ cut' = cut \cup {r \in Active : reply[r] = Null}
  /\ UNCHANGED <<vars, serve, local, late>>

\* os.Exit skips the deferred calls, pool.Shutdown among them.
ListenFails ==
  /\ main = "start"
  /\ main' = "exited"
  /\ UNCHANGED <<vars, serve, local, late, cut>>

\* An accept error: Serve returns and is logged, and main goes on waiting.
ServeFails ==
  /\ serve = "accepting"
  /\ main \in {"listening", "serving"}
  /\ serve' = "failed"
  /\ UNCHANGED <<vars, main, local, late, cut>>

\* main waits for the requests under way and leaves the listener open.
Signal_KeepsAccepting ==
  /\ main = "serving"
  /\ main' = "drain"
  /\ UNCHANGED <<vars, serve, local, late, cut>>

\* SIGINT or SIGTERM; httpSrv.Shutdown closes the listener.
Signal ==
  /\ main = "serving"
  /\ main' = "drain"
  /\ serve' = IF serve = "accepting" THEN "closed" ELSE serve
  /\ UNCHANGED <<vars, local, late, cut>>

\* httpSrv.Close instead of Shutdown.
Drained_AtOnce ==
  /\ main = "drain"
  /\ main' = "cleanup"
  /\ UNCHANGED <<vars, serve, local, late, cut>>

Drained ==
  /\ main = "drain"
  /\ Active = {}
  /\ main' = "cleanup"
  /\ UNCHANGED <<vars, serve, local, late, cut>>

\* Shutdown is given a context without a deadline.
DeadlinePasses_Never == FALSE /\ UNCHANGED serverVars

DeadlinePasses ==
  /\ main = "drain"
  /\ late' = TRUE
  /\ main' = "cleanup"
  /\ UNCHANGED <<vars, serve, local, cut>>

\* The contexts of the handlers whose connections end are done.
Cleanup ==
  /\ main = "cleanup"
  /\ IF local
     THEN UNCHANGED <<gone, cut>>
     ELSE /\ gone' = [r \in Requests |-> gone[r] \/ r \in Active]
          /\ cut' = cut \cup {r \in Active : reply[r] = Null}
  /\ main' = "stop"
  /\ UNCHANGED <<pc, input, enc, s, reply, tries, clientVars, metrics, scrape, compVars,
                 serve, local, late>>

\* The pool is shut down before the HTTP server.
PoolShutdown_First ==
  /\ main \in {"drain", "stop"}
  /\ C!Close
  /\ main' = IF main = "stop" THEN "stopping" ELSE main
  /\ UNCHANGED <<handlerVars, clientVars, metrics, scrape, serve, local, late, cut>>

PoolShutdown ==
  /\ main = "stop"
  /\ C!Close
  /\ main' = "stopping"
  /\ UNCHANGED <<handlerVars, clientVars, metrics, scrape, serve, local, late, cut>>

\* pool.Shutdown and main return, whatever the handlers are doing.
Exit ==
  /\ main = "stopping"
  /\ \A r \in Requests : job[r] # "running"
  /\ main' = "exited"
  /\ cut' = cut \cup {r \in Active : reply[r] = Null}
  /\ UNCHANGED <<vars, serve, local, late>>

\* A connection brings its request while Serve accepts, or later if it was
\* accepted before Serve failed or was closed: until Shutdown has seen all
\* connections end, or the connection is cut.  A retry comes over the
\* connection of the refusal.
Accepts ==
  \/ main \in {"listening", "serving", "drain"}
  \/ late /\ ~Over /\ (local \/ main = "cleanup")

ServerNext ==
  \/ Listen \/ ListenFails \/ Notify \/ EarlySignal \/ ServeFails \/ Signal
  \/ Drained \/ DeadlinePasses \/ Cleanup \/ PoolShutdown \/ Exit
  \/ Accepts /\ (\E r \in Requests : Arrive(r)) /\ UNCHANGED mainVars
  \/ main \in {"listening", "serving"} /\ (\E r \in Requests : Retry(r)) /\ UNCHANGED mainVars
  \/ main # "start" /\ ~Over /\ Serving /\ UNCHANGED mainVars
  \/ Over /\ UNCHANGED serverVars

ServerSpec == ServerInit /\ [][ServerNext]_serverVars

\* main runs on and the deadline is a timer.  Nothing is asked of handlers,
\* clients or signals.  A job ends once the pool's context is done, if its
\* worker drains its stdin (Pool: ShutdownCompletes).
ServerFairness ==
  /\ WF_serverVars(DeadlinePasses) /\ WF_serverVars(Cleanup)
  /\ WF_serverVars(PoolShutdown) /\ WF_serverVars(Exit)
  /\ \A r \in Requests :
       WF_serverVars(main = "stopping" /\ C!Finish(r) /\ Compressing(r) /\ UNCHANGED mainVars)

ServerFairSpec == ServerSpec /\ ServerFairness

-----------------------------------------------------------------------------
(* Properties.                                                             *)

\* The types, with what serve may be once the listener is closed.
ServerTypeOK ==
  /\ TypeOK
  /\ main \in MainStates
  /\ serve \in {"none", "accepting", "failed", "closed"}
  /\ serve = "accepting" => main \in {"listening", "serving", "killed"}
  /\ local \in BOOLEAN
  /\ late \in BOOLEAN
  /\ cut \subseteq Requests

\* Shutdown "stops accepting" and then waits (main.go:126): no request is cut
\* off by the end of the network or of the process, whenever it arrived,
\* unless the shutdown ran past its deadline, or the signal came before main
\* asked for it (main.go:103-120), with requests already being served.
GracefulUnlessLate == cut # {} => late \/ main = "killed"

\* "Defers tear down pool + tsnet" (main.go:126), which must come after the HTTP
\* server: no request fails because the pool closed under it, again unless
\* the deadline passed.
PoolOutlivesRequests == (\E r \in Requests : answer[r] \in C!ClosingErrors) => late

\* A signal that main receives ends the process, although clients may never
\* send the rest of their bodies, handlers may hang, and Serve may have failed
\* before.  This rests on the jobs ending when the pool is closed, which is to
\* say on workers that drain their stdin: one that does not can hold up
\* pool.Shutdown for good (Pool: DoIsBounded).
SignalEndsProcess == main = "drain" ~> main = "exited"
=============================================================================
