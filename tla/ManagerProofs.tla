--------------------------- MODULE ManagerProofs ---------------------------
(***************************************************************************)
(* Proofs about Manager, for any number of pools and of signals and any    *)
(* set of faults.                                                          *)
(***************************************************************************)
EXTENDS Manager, TLAPS

\* Every variable keeps its type: in particular the signal channel never holds two
\* signals and Start never creates more pools than there are [[runners]] entries.
THEOREM ManagerTypeCorrect == Spec => []TypeOK
<1>1. Init => TypeOK
  <2> SUFFICES ASSUME Init PROVE TypeOK
    OBVIOUS
  <2>1. sigCh \in Seq(Signals) /\ Len(sigCh) <= 1
    BY DEF Init
  <2>2. pools \in Seq({"running", "stopped"}) /\ Len(pools) <= Pools
    BY PoolsAssumption DEF Init
  <2>3. signals \in 0..MaxSignals
    BY SignalAssumption DEF Init
  <2>4. srv \in [Servers -> {"absent", "starting", "unbound", "serving", "returned"}]
    BY DEF Init
  <2>5. shut \subseteq Servers
    BY DEF Init
  <2> QED
    BY <2>1, <2>2, <2>3, <2>4, <2>5, Zenon DEF Init, TypeOK
<1>2. TypeOK /\ [Next]_vars => TypeOK'
  <2> SUFFICES ASSUME TypeOK, [Next]_vars PROVE TypeOK'
    OBVIOUS
  <2> USE PoolsAssumption, SignalAssumption DEF TypeOK
  <2>1. CASE StartServers
    BY <2>1 DEF StartServers
  <2>2. CASE CreatePool
    <3>1. pools' \in Seq({"running", "stopped"}) /\ Len(pools') <= Pools
      BY SMTT(30), <2>2 DEF CreatePool, MorePools
    <3> QED
      BY <2>2, <3>1 DEF CreatePool
  <2>3. CASE Started
    BY <2>3 DEF Started
  <2>4. CASE Drain
    BY <2>4 DEF Drain
  <2>5. ASSUME NEW s \in Servers, NEW at, NEW next \in {"shutHealth", "select"},
               ShutdownServer(s, at, next)
        PROVE  TypeOK'
    BY <2>5 DEF ShutdownServer
  <2>6. CASE Finish
    BY <2>6 DEF Finish
  <2>7. CASE Expire
    BY <2>7 DEF Expire
  <2>8. CASE HandleSignal
    <3>1. sigCh' \in Seq(Signals) /\ Len(sigCh') <= 1
      BY <2>8 DEF HandleSignal
    <3> QED
      BY <2>8, <3>1 DEF HandleSignal
  <2>9. CASE HandlerStop
    BY <2>9 DEF HandlerStop
  <2>10. ASSUME NEW s \in Servers, Listen(s) \/ SelfShutdown(s) \/ ServeReturns(s)
         PROVE  TypeOK'
    BY <2>10 DEF Listen, SelfShutdown, ServeReturns
  <2>11. ASSUME NEW p \in 1..Len(pools), PoolStops(p)
         PROVE  TypeOK'
    <3>1. pools' \in Seq({"running", "stopped"}) /\ Len(pools') = Len(pools)
      BY <2>11 DEF PoolStops
    <3> QED
      BY <2>11, <3>1 DEF PoolStops
  <2>12. ASSUME NEW sig \in Signals, SendSignal(sig)
         PROVE  TypeOK'
    <3>1. sigCh' \in Seq(Signals) /\ Len(sigCh') <= 1
      BY <2>12 DEF SendSignal
    <3> QED
      BY <2>12, <3>1 DEF SendSignal
  <2>13. CASE ParentCancel
    BY <2>13 DEF ParentCancel
  <2>14. CASE UNCHANGED vars
    BY <2>14 DEF vars
  <2>15. CASE Terminated
    BY <2>14, <2>15 DEF Terminated
  <2>16. CASE Main
    BY <2>16, <2>1, <2>2, <2>3, <2>4, <2>5, <2>6 DEF Main, Servers
  <2> QED
    BY <2>7, <2>8, <2>9, <2>10, <2>11, <2>12, <2>13, <2>14, <2>15, <2>16 DEF Next
<1> QED
  BY <1>1, <1>2, PTL DEF Spec

\* What makes it inductive: SetReady(true) comes before the pools.
ReadyEarly == ~ctxDone /\ main = "pools" => ready

\* As long as nobody asked for a shutdown, nothing shuts down.
THEOREM NothingStopsByItself == Spec => []NoSpontaneousStop
<1>1. Init => NoSpontaneousStop /\ ReadyEarly
  BY DEF Init, NoSpontaneousStop, ReadyEarly
<1>2. TypeOK /\ NoSpontaneousStop /\ ReadyEarly /\ [Next]_vars
        => NoSpontaneousStop' /\ ReadyEarly'
  <2> SUFFICES ASSUME TypeOK, NoSpontaneousStop, ReadyEarly, [Next]_vars, ~ctxDone'
               PROVE  /\ \A p \in 1..Len(pools') : pools'[p] = "running"
                      /\ shut' = {}
                      /\ main' \in {"boot", "pools", "wait"} /\ result' = "none"
                      /\ main' \in {"pools", "wait"} => ready'
    BY DEF NoSpontaneousStop, ReadyEarly
  <2> USE DEF ReadyEarly
  <2>1. CASE StartServers \/ Started
    BY <2>1 DEF StartServers, Started, NoSpontaneousStop
  <2>2. CASE CreatePool
    <3>1. pools' = Append(pools, "running") /\ UNCHANGED <<ctxDone, main, result, shut, ready>>
      BY <2>2 DEF CreatePool
    <3> QED
      BY <3>1 DEF NoSpontaneousStop, TypeOK
  <2>3. CASE ctxDone
    BY <2>3 DEF Next, Main, StartServers, CreatePool, Started, Drain, ShutdownServer, Finish,
                Expire, HandleSignal, HandlerStop, Listen, SelfShutdown, ServeReturns,
                PoolStops, SendSignal, ParentCancel, Terminated, vars, TypeOK
  <2>4. CASE ~ctxDone /\ ~(StartServers \/ Started \/ CreatePool)
    BY <2>4 DEF Next, Main, Drain, ShutdownServer, Finish, Expire, HandleSignal, HandlerStop,
                Listen, SelfShutdown, ServeReturns, PoolStops, SendSignal, ParentCancel,
                Terminated, vars, NoSpontaneousStop
  <2> QED
    BY <2>1, <2>2, <2>3, <2>4
<1> QED
  BY <1>1, <1>2, ManagerTypeCorrect, PTL DEF Spec

-----------------------------------------------------------------------------
\* What makes CleanExit inductive: Start waits only when the loop over the runners is
\* through, and it has a result exactly when it has returned.
Progress ==
  /\ main \in {"wait", "shutMetrics", "shutHealth", "select"} => Len(pools) = Pools
  /\ result = "none" <=> main # "exited"

\* Start returns nil only when every configured pool has stopped and no server is left.
THEOREM NilMeansClean == Spec => []CleanExit
<1> DEFINE Inv == Progress /\ CleanExit
<1>1. Init => Inv
  BY DEF Init, Progress, CleanExit
<1>2. TypeOK /\ Inv /\ [Next]_vars => Inv'
  <2> SUFFICES ASSUME TypeOK, Inv, [Next]_vars PROVE Inv'
    OBVIOUS
  <2>1. CASE main = "exited"
    BY <2>1 DEF Next, Main, StartServers, CreatePool, Started, Drain, ShutdownServer, Finish,
                Expire, HandleSignal, HandlerStop, Listen, SelfShutdown, ServeReturns,
                PoolStops, SendSignal, ParentCancel, Terminated, Alive, vars,
                Progress, CleanExit, PoolsStopped
  <2>2. CASE Finish
    BY <2>2 DEF Finish, AllReturned, Progress, CleanExit, PoolsStopped
  <2>3. CASE CreatePool
    BY <2>3 DEF CreatePool, Progress, CleanExit
  <2>4. CASE Started
    BY <2>4, PoolsAssumption DEF Started, MorePools, Progress, CleanExit, TypeOK
  <2>5. ASSUME NEW p \in 1..Len(pools), PoolStops(p)
        PROVE  Inv'
    <3>1. Len(pools') = Len(pools)
      BY <2>5 DEF PoolStops, TypeOK
    <3> QED
      BY <2>5, <3>1 DEF PoolStops, Alive, Progress, CleanExit
  <2>6. CASE main # "exited" /\ UNCHANGED <<pools, result>> /\ main' # "exited" /\ ~Started
    BY <2>6 DEF Next, Main, StartServers, CreatePool, Drain, ShutdownServer, Finish,
                Expire, HandleSignal, HandlerStop, Listen, SelfShutdown, ServeReturns,
                PoolStops, SendSignal, ParentCancel, Terminated, vars, Progress, CleanExit
  <2>7. CASE main # "exited" /\ ~Finish /\ ~CreatePool /\ ~Started
             /\ ~(\E p \in 1..Len(pools) : PoolStops(p))
    <3>1. UNCHANGED <<pools, result>> /\ main' # "exited"
      BY <2>7 DEF Next, Main, StartServers, Drain, ShutdownServer,
                  Expire, HandleSignal, HandlerStop, Listen, SelfShutdown, ServeReturns,
                  SendSignal, ParentCancel, Terminated, Alive, vars
    <3> QED
      BY <2>6, <2>7, <3>1
  <2> QED
    BY <2>1, <2>2, <2>3, <2>4, <2>5, <2>7
<1> QED
  BY <1>1, <1>2, ManagerTypeCorrect, PTL DEF Spec
=============================================================================
