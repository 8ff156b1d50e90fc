------------------------------ MODULE Manager ------------------------------
(***************************************************************************)
(* Manager.Start (internal/runner/manager.go): the process around the      *)
(* pools.  It starts the signal handler, the metrics and health servers    *)
(* and one pool per [[runners]] entry, waits for the root context to end,  *)
(* shuts the servers down and waits for every goroutine or for the         *)
(* shutdown timeout, whichever comes first.                                *)
(*                                                                         *)
(* A pool is what RunnerPool shows it to be: it runs until the context is  *)
(* done and stops some time after.                                         *)
(***************************************************************************)
EXTENDS Naturals, Sequences

CONSTANTS
  Pools,      \* the number of [[runners]] entries
  MaxSignals, \* bound on the signals sent to the process
  Faults      \* what may go wrong, among FaultKinds

FaultKinds == {"client",  \* NewClient refuses a runner's options
               "listen",  \* a server cannot listen on its address
               "serve",   \* a server's accept loop fails
               "parent"}  \* the context Start was given ends

ASSUME PoolsAssumption  == Pools \in Nat
ASSUME SignalAssumption == MaxSignals \in Nat
ASSUME FaultsAssumption == Faults \subseteq FaultKinds

Servers == {"metrics", "health"}
Signals == {"TERM", "HUP"}   \* SIGINT is handled as SIGTERM is

VARIABLES
  ctxDone,  \* the root context is done
  sigCh,    \* the signal channel, of capacity 1
  signals,  \* how many signals were sent
  handler,  \* the signal goroutine
  main,     \* where Start is
  pools,    \* the pools created so far
  srv,      \* the goroutine of each server's Start
  shut,     \* the servers whose http.Server is shut down
  ready,    \* what /readyz answers
  expired,  \* the shutdown timeout has expired
  result    \* what Start returned

vars == <<ctxDone, sigCh, signals, handler, main, pools, srv, shut, ready, expired, result>>

TypeOK ==
  /\ ctxDone \in BOOLEAN /\ ready \in BOOLEAN /\ expired \in BOOLEAN
  /\ sigCh \in Seq(Signals) /\ Len(sigCh) <= 1
  /\ signals \in 0..MaxSignals
  /\ handler \in {"absent", "loop", "returned", "unregistered"}
  /\ main \in {"boot", "pools", "wait", "shutMetrics", "shutHealth", "select", "exited"}
  /\ pools \in Seq({"running", "stopped"}) /\ Len(pools) <= Pools
  /\ srv \in [Servers -> {"absent", "starting", "unbound", "serving", "returned"}]
  /\ shut \subseteq Servers
  /\ result \in {"none", "nil", "clientError", "timeout"}

Init ==
  /\ ctxDone = FALSE /\ ready = FALSE /\ expired = FALSE
  /\ sigCh = <<>> /\ signals = 0
  /\ handler = "absent" /\ main = "boot"
  /\ pools = <<>>
  /\ srv = [s \in Servers |-> "absent"] /\ shut = {}
  /\ result = "none"

\* When Start returns the process exits and takes the other goroutines with it.
Alive == main # "exited"

-----------------------------------------------------------------------------
\* The environment.

\* os/signal does not block: a signal that finds the channel full is dropped.
SendSignal(sig) ==
  /\ Alive /\ handler # "unregistered" /\ signals < MaxSignals
  /\ signals' = signals + 1
  /\ sigCh' = IF Len(sigCh) < 1 THEN Append(sigCh, sig) ELSE sigCh
  /\ UNCHANGED <<ctxDone, handler, main, pools, srv, shut, ready, expired, result>>

ParentCancel ==
  /\ Alive /\ "parent" \in Faults /\ ~ctxDone
  /\ ctxDone' = TRUE
  /\ UNCHANGED <<sigCh, signals, handler, main, pools, srv, shut, ready, expired, result>>

-----------------------------------------------------------------------------
\* The signal goroutine.

\* Wrong on purpose: the goroutine waits for signals only.
HandlerStopNever == FALSE

\* SIGHUP is only logged; SIGTERM cancels the root context and ends the goroutine.
HandleSignal ==
  /\ Alive /\ handler = "loop" /\ sigCh # <<>>
  /\ sigCh' = Tail(sigCh)
  /\ \/ /\ Head(sigCh) = "HUP"
        /\ UNCHANGED <<ctxDone, handler>>
     \/ /\ Head(sigCh) = "TERM"
        /\ ctxDone' = TRUE
        /\ handler' = "returned"
  /\ UNCHANGED <<signals, main, pools, srv, shut, ready, expired, result>>

\* signal.Stop: from here on SIGTERM has its default effect, which is not modelled.
HandlerStop ==
  /\ Alive /\ handler = "loop" /\ ctxDone
  /\ handler' = "unregistered"
  /\ UNCHANGED <<ctxDone, sigCh, signals, main, pools, srv, shut, ready, expired, result>>

-----------------------------------------------------------------------------
\* The servers (metrics/server.go and health/health.go, Start and Shutdown).

Listen(s) ==
  /\ Alive /\ srv[s] = "starting"
  /\ \/ srv' = [srv EXCEPT ![s] = "serving"]
     \/ "listen" \in Faults /\ srv' = [srv EXCEPT ![s] = "unbound"]
  /\ UNCHANGED <<ctxDone, sigCh, signals, handler, main, pools, shut, ready, expired, result>>

\* The goroutine each server starts to shut itself down with the context.
SelfShutdown(s) ==
  /\ Alive /\ srv[s] \in {"serving", "returned"} /\ ctxDone /\ s \notin shut
  /\ shut' = shut \cup {s}
  /\ UNCHANGED <<ctxDone, sigCh, signals, handler, main, pools, srv, ready, expired, result>>

\* Serve returns when the server was shut down, also if that happened before Serve
\* was called, or on an error of the listener.
ServeReturns(s) ==
  /\ Alive /\ srv[s] = "serving"
  /\ s \in shut \/ "serve" \in Faults
  /\ srv' = [srv EXCEPT ![s] = "returned"]
  /\ UNCHANGED <<ctxDone, sigCh, signals, handler, main, pools, shut, ready, expired, result>>

-----------------------------------------------------------------------------
\* Start itself.

\* The goroutines of the handler and the servers; SetReady(true).
StartServers ==
  /\ main = "boot"
  /\ handler' = "loop"
  /\ srv' = [s \in Servers |-> "starting"]
  /\ ready' = TRUE
  /\ main' = "pools"
  /\ UNCHANGED <<ctxDone, sigCh, signals, pools, shut, expired, result>>

MorePools == Len(pools) < Pools

\* createClient fails: the URL has no owner, or NewClient refuses the token or the CA bundle.
ClientRefused == "client" \in Faults

\* One turn of the loop over cfg.Runners.  A client that cannot be made ends Start
\* at once, through the deferred rootCancel and without waiting for anyone.
CreatePool ==
  /\ main = "pools" /\ MorePools
  /\ \/ /\ pools' = Append(pools, "running")
        /\ UNCHANGED <<ctxDone, main, result>>
     \/ /\ ClientRefused
        /\ ctxDone' = TRUE
        /\ main' = "exited"
        /\ result' = "clientError"
        /\ UNCHANGED pools
  /\ UNCHANGED <<sigCh, signals, handler, srv, shut, ready, expired>>

Started ==
  /\ main = "pools" /\ ~MorePools
  /\ main' = "wait"
  /\ UNCHANGED <<ctxDone, sigCh, signals, handler, pools, srv, shut, ready, expired, result>>

\* Wrong on purpose: the drain begins without waiting for the context.
DrainAtOnce ==
  /\ main = "wait"
  /\ ready' = FALSE
  /\ main' = "shutMetrics"
  /\ UNCHANGED <<ctxDone, sigCh, signals, handler, pools, srv, shut, expired, result>>

\* The context is done: SetReady(false), and the shutdown timeout starts.
Drain ==
  /\ main = "wait" /\ ctxDone
  /\ ready' = FALSE
  /\ main' = "shutMetrics"
  /\ UNCHANGED <<ctxDone, sigCh, signals, handler, pools, srv, shut, expired, result>>

\* Shutdown returns when the server's requests are done or the timeout has expired.
ShutdownServer(s, at, next) ==
  /\ main = at
  /\ shut' = shut \cup {s}
  /\ main' = next
  /\ UNCHANGED <<ctxDone, sigCh, signals, handler, pools, srv, ready, expired, result>>

Expire ==
  /\ main \in {"shutMetrics", "shutHealth", "select"} /\ ~expired
  /\ expired' = TRUE
  /\ UNCHANGED <<ctxDone, sigCh, signals, handler, main, pools, srv, shut, ready, result>>

PoolsStopped == \A p \in 1..Len(pools) : pools[p] = "stopped"

\* Wrong on purpose: no wg.Add for the pools.
AllReturnedButPools ==
  handler # "loop" /\ \A s \in Servers : srv[s] \in {"returned", "unbound"}

\* wg.Wait has returned and doneCh is closed.
AllReturned ==
  /\ handler # "loop"
  /\ \A s \in Servers : srv[s] \in {"returned", "unbound"}
  /\ PoolsStopped

\* Wrong on purpose: no timeout in the select.
FinishWaits ==
  /\ main = "select"
  /\ AllReturned /\ result' = "nil"
  /\ main' = "exited"
  /\ UNCHANGED <<ctxDone, sigCh, signals, handler, pools, srv, shut, ready, expired>>

\* The last select; with both cases ready either is taken.
Finish ==
  /\ main = "select"
  /\ \/ AllReturned /\ result' = "nil"
     \/ expired /\ result' = "timeout"
  /\ main' = "exited"
  /\ UNCHANGED <<ctxDone, sigCh, signals, handler, pools, srv, shut, ready, expired>>

Main ==
  \/ StartServers \/ CreatePool \/ Started \/ Drain
  \/ ShutdownServer("metrics", "shutMetrics", "shutHealth")
  \/ ShutdownServer("health", "shutHealth", "select")
  \/ Finish

PoolStops(p) ==
  /\ Alive /\ pools[p] = "running" /\ ctxDone
  /\ pools' = [pools EXCEPT ![p] = "stopped"]
  /\ UNCHANGED <<ctxDone, sigCh, signals, handler, main, srv, shut, ready, expired, result>>

Terminated == ~Alive /\ UNCHANGED vars

Next ==
  \/ Main \/ Expire
  \/ HandleSignal \/ HandlerStop
  \/ \E s \in Servers : Listen(s) \/ SelfShutdown(s) \/ ServeReturns(s)
  \/ \E p \in 1..Len(pools) : PoolStops(p)
  \/ \E sig \in Signals : SendSignal(sig)
  \/ ParentCancel
  \/ Terminated

Spec == Init /\ [][Next]_vars

\* Goroutines are scheduled.  Nothing is assumed of signals, of failures, of how long
\* a pool needs for its jobs, or of how long the shutdown timeout is.
Fairness ==
  /\ WF_vars(Main)
  /\ WF_vars(HandleSignal) /\ WF_vars(HandlerStop)
  /\ \A s \in Servers : WF_vars(Listen(s)) /\ WF_vars(SelfShutdown(s)) /\ WF_vars(s \in shut /\ ServeReturns(s))

FairSpec == Spec /\ Fairness

-----------------------------------------------------------------------------
\* Safety.

\* Start returns nil only when every configured pool was started and has stopped and
\* no server, shut down before or after it began to listen, is left serving.
CleanExit ==
  result = "nil" =>
    Len(pools) = Pools /\ PoolsStopped /\ \A s \in Servers : srv[s] \in {"returned", "unbound"}

\* Without a shutdown request nothing shuts down: no pool stops, no server is closed,
\* the process neither drains nor exits, and once its pools are all there /readyz is
\* positive and stays so.  (Before that, code and documentation differ on /readyz.)
NoSpontaneousStop ==
  ~ctxDone =>
    /\ \A p \in 1..Len(pools) : pools[p] = "running"
    /\ shut = {}
    /\ main \in {"boot", "pools", "wait"} /\ result = "none"
    /\ main = "wait" => ready

-----------------------------------------------------------------------------
\* Liveness, of FairSpec.

\* The process exits once the context is done, even if a pool never stops, because the
\* timer of the shutdown timeout fires.
ShutdownBounded == WF_vars(Expire) => (ctxDone ~> ~Alive)

\* If the pools do stop, the process exits without waiting for the timeout: no goroutine
\* of the manager's own, whatever ended the context, keeps the WaitGroup from draining.
CleanShutdown ==
  <>[](Len(pools) = Pools /\ PoolsStopped) =>
    (ctxDone ~> (result = "nil" \/ expired \/ result = "clientError"))
=============================================================================
