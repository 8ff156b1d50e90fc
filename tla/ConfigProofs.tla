---------------------------- MODULE ConfigProofs ----------------------------
(***************************************************************************)
(* Proofs about the configuration file's two sides: Watcher, which reads   *)
(* it, for every bound on its changes and every set of faults, and         *)
(* Registration, whose commands write it, for any number of shells, names, *)
(* runners and daemons.  The two share no state here.  Only the hypothesis *)
(* of RunnersStayListed restricts the constants.                           *)
(***************************************************************************)
EXTENDS Registration, Watcher, FiniteSetTheorems, TLAPS

-----------------------------------------------------------------------------
\* Watcher.

\* What happens to the file leaves the watcher alone.
LEMMA FileStep ==
  ASSUME Truncate \/ WriteMore \/ Replace
  PROVE  UNCHANGED <<watchVars, task, loaded, current, undisturbed, begun, late>>
<1>1. ASSUME NEW content, NEW e, Change(content, e)
      PROVE  UNCHANGED <<watchVars, task, loaded, current, undisturbed, begun, late>>
  BY <1>1 DEF Change
<1>2. CASE Truncate
  BY <1>1, <1>2 DEF Truncate
<1>3. CASE WriteMore
  BY <1>1, <1>3 DEF WriteMore
<1>4. CASE Replace
  BY <1>1, <1>4 DEF Replace
<1> QED
  BY <1>2, <1>3, <1>4

-----------------------------------------------------------------------------
\* The types hold because an event, and so a timer, needs a change of the file.
TypeInv == WatchTypeOK /\ disk.version <= changes /\ timer + Len(events) <= changes

\* A change that the bound allows, of one version more at most, keeps the types.
LEMMA ChangeTypes ==
  ASSUME TypeInv, NEW content \in Content, content.version <= changes + 1,
         NEW e \in Events, Change(content, e), watching' \in BOOLEAN
  PROVE  TypeInv'
<1>1. changes' = changes + 1 /\ changes' \in 0..MaxChanges /\ changes \in Nat
  BY WatcherAssumption DEF TypeInv, WatchTypeOK, Change
<1>2. /\ events' \in Seq(Events) /\ noticed' \in BOOLEAN
      /\ Len(events') <= Len(events) + 1
  <2>1. CASE ~watching
    BY <2>1 DEF TypeInv, WatchTypeOK, Change, Notify
  <2>2. CASE watching
    <3>1. PICK v \in Events : events' = Append(events, v) /\ noticed' \in BOOLEAN
      BY <2>2 DEF Change, Notify, Events
    <3> QED
      BY <3>1 DEF TypeInv, WatchTypeOK
  <2> QED
    BY <2>1, <2>2 DEF TypeInv, WatchTypeOK
<1>3. timer \in Nat /\ timer' = timer /\ Len(events) \in Nat /\ Len(events') \in Nat
  BY <1>2 DEF TypeInv, WatchTypeOK, Change, watchVars, Timers, NoTimer
<1>4. timer' + Len(events') <= changes'
  BY <1>1, <1>2, <1>3 DEF TypeInv
<1>5. disk' = content /\ UNCHANGED <<watchVars, task, loaded, current, undisturbed, begun, late>>
  BY DEF Change
<1> QED
  BY <1>1, <1>2, <1>4, <1>5 DEF TypeInv, WatchTypeOK, watchVars

LEMMA TypeStep == ASSUME TypeInv, [WatchNext]_watcherVars PROVE TypeInv'
<1>1. CASE Truncate
  <2> DEFINE c == [version |-> disk.version + 1, part |-> "nothing", valid |-> FALSE]
  <2>1. disk \in Content /\ disk.version \in Nat /\ disk.version + 1 <= changes + 1
        /\ changes + 1 <= MaxChanges /\ changes \in Nat
    BY <1>1, WatcherAssumption DEF TypeInv, WatchTypeOK, Content, Truncate, Change
  <2>2. c \in Content /\ c.version <= changes + 1
    BY <2>1, WatcherAssumption DEF Content
  <2>3. Change(c, "write") /\ watching' \in BOOLEAN
    BY <1>1 DEF Truncate, TypeInv, WatchTypeOK
  <2> QED
    BY <2>2, <2>3, ChangeTypes DEF Events
<1>2. CASE WriteMore
  <2>1. PICK all \in BOOLEAN, ok \in BOOLEAN :
          Change([version |-> disk.version, part |-> IF all THEN "all" ELSE "some", valid |-> ok],
                 "write")
    BY <1>2 DEF WriteMore
  <2> DEFINE c == [version |-> disk.version, part |-> IF all THEN "all" ELSE "some", valid |-> ok]
  <2>2. c \in Content /\ c.version <= changes + 1
    BY WatcherAssumption DEF TypeInv, WatchTypeOK, Content
  <2>3. Change(c, "write") /\ watching' \in BOOLEAN
    BY <1>2, <2>1 DEF WriteMore, TypeInv, WatchTypeOK
  <2> QED
    BY <2>2, <2>3, ChangeTypes DEF Events
<1>3. CASE Replace
  <2>1. PICK ok \in BOOLEAN :
          Change([version |-> disk.version + 1, part |-> "all", valid |-> ok], "other")
    BY <1>3 DEF Replace
  <2> DEFINE c == [version |-> disk.version + 1, part |-> "all", valid |-> ok]
  <2>2. c \in Content /\ c.version <= changes + 1
    BY <2>1, WatcherAssumption DEF TypeInv, WatchTypeOK, Content, Change
  <2>3. Change(c, "other") /\ watching' \in BOOLEAN
    BY <1>3, <2>1 DEF Replace, TypeInv, WatchTypeOK
  <2> QED
    BY <2>2, <2>3, ChangeTypes DEF Events
<1>4. CASE Cancel
  BY <1>4 DEF Cancel, TypeInv, WatchTypeOK, diskVars, ghosts
<1>5. CASE IgnoreEvent
  <2>1. events' \in Seq(Events) /\ Len(events') = Len(events) - 1 /\ Len(events) \in Nat
    BY <1>5 DEF IgnoreEvent, TypeInv, WatchTypeOK
  <2>2. timer \in Nat /\ timer' = timer /\ changes \in Nat /\ changes' = changes
    BY <1>5, WatcherAssumption
       DEF IgnoreEvent, TypeInv, WatchTypeOK, watchVars, diskVars, Timers, NoTimer
  <2>3. timer' + Len(events') <= changes'
    BY <2>1, <2>2 DEF TypeInv
  <2> QED
    BY <1>5, <2>1, <2>3 DEF IgnoreEvent, TypeInv, WatchTypeOK, diskVars, watchVars, ghosts
<1>6. CASE HandleEvent
  <2>1. events' \in Seq(Events) /\ Len(events') = Len(events) - 1 /\ Len(events) \in Nat \ {0}
    BY <1>6 DEF HandleEvent, TypeInv, WatchTypeOK
  <2>2. timer \in Nat /\ timer' = timer + 1 /\ changes \in 0..MaxChanges /\ changes' = changes
    BY <1>6, WatcherAssumption
       DEF HandleEvent, TypeInv, WatchTypeOK, diskVars, Timers, NoTimer
  <2>3. timer' + Len(events') <= changes' /\ timer' \in Timers
    BY <2>1, <2>2, WatcherAssumption DEF TypeInv, Timers
  <2>4. task' \in [Timers -> TaskState]
    BY <1>6 DEF HandleEvent, Rearmed, TaskState, TypeInv, WatchTypeOK
  <2> QED
    BY <1>6, <2>1, <2>3, <2>4 DEF HandleEvent, TypeInv, WatchTypeOK, diskVars, ghosts
<1>7. CASE RunReturns
  BY <1>7 DEF RunReturns, TypeInv, WatchTypeOK, diskVars
<1>8. ASSUME NEW n \in Timers, Fire(n) \/ CheckStopped(n) PROVE TypeInv'
  BY <1>8 DEF Fire, CheckStopped, TypeInv, WatchTypeOK, TaskState, diskVars, watchVars, ghosts
<1>9. ASSUME NEW n \in Timers, LoadFile(n) PROVE TypeInv'
  BY <1>9 DEF LoadFile, TypeInv, WatchTypeOK, TaskState, diskVars, watchVars, ghosts
<1>10. ASSUME NEW n \in Timers, Deliver(n) PROVE TypeInv'
  <2>1. First \in Content
    BY WatcherAssumption DEF First, Content
  <2>2. late' \subseteq Timers /\ current' \in Content
    BY <1>10 DEF Deliver, TypeInv, WatchTypeOK
  <2> QED
    BY <1>10, <2>1, <2>2 DEF Deliver, TypeInv, WatchTypeOK, TaskState, diskVars, watchVars
<1>11. CASE UNCHANGED watcherVars
  BY <1>11 DEF watcherVars, TypeInv, WatchTypeOK, diskVars, watchVars, ghosts
<1> QED
  BY <1>1, <1>2, <1>3, <1>4, <1>5, <1>6, <1>7, <1>8, <1>9, <1>10, <1>11 DEF WatchNext, Run, Reload

LEMMA TypeInit == ASSUME WatchInit PROVE TypeInv
<1>1. First \in Content /\ First.version = 0
  BY WatcherAssumption DEF First, Content
<1>2. events \in Seq(Events) /\ Len(events) = 0
  BY DEF WatchInit
<1>3. /\ timer \in Timers \cup {NoTimer} /\ timer = 0
      /\ task \in [Timers -> TaskState] /\ loaded \in [Timers -> Content]
  BY <1>1 DEF WatchInit, TaskState, NoTimer
<1>4. /\ watching \in BOOLEAN /\ noticed \in BOOLEAN /\ undisturbed \in BOOLEAN
      /\ ctxDone \in BOOLEAN /\ stopped \in BOOLEAN
  BY DEF WatchInit
<1> QED
  BY <1>1, <1>2, <1>3, <1>4, WatcherAssumption DEF WatchInit, TypeInv, WatchTypeOK

\* The watcher's variables have their types, and there are never more timers than changes.
THEOREM WatcherTypeCorrect == WatchSpec => []TypeInv
<1>1. WatchInit => TypeInv
  BY TypeInit
<1>2. TypeInv /\ [WatchNext]_watcherVars => TypeInv'
  BY TypeStep
<1> QED
  BY <1>1, <1>2, PTL DEF WatchSpec

-----------------------------------------------------------------------------
\* Changes that follow each other closely are one reload: however many events there are,
\* one timer at most waits to fire, and it is the last that was made.
THEOREM OneTimerArmed == WatchSpec => []Coalesced
<1>1. WatchInit => Coalesced
  BY DEF WatchInit, Coalesced
<1>2. TypeInv /\ Coalesced /\ [WatchNext]_watcherVars => Coalesced'
  <2> SUFFICES ASSUME TypeInv, Coalesced, [WatchNext]_watcherVars PROVE Coalesced'
    OBVIOUS
  <2>1. CASE Truncate \/ WriteMore \/ Replace
    BY <2>1, FileStep DEF watchVars, Coalesced
  <2>2. CASE Cancel \/ IgnoreEvent \/ RunReturns
    BY <2>2 DEF Cancel, IgnoreEvent, RunReturns, watchVars, Coalesced
  <2>3. CASE HandleEvent
    <3>1. timer' = timer + 1 /\ task' = Rearmed
      BY <2>3 DEF HandleEvent
    <3>2. ASSUME NEW n \in Timers, n # timer + 1 PROVE Rearmed[n] # "armed"
      BY <3>2 DEF Rearmed, Coalesced
    <3> QED
      BY <3>1, <3>2 DEF Coalesced
  <2>4. ASSUME NEW n \in Timers, Fire(n) \/ CheckStopped(n) \/ LoadFile(n) \/ Deliver(n)
        PROVE  Coalesced'
    BY <2>4 DEF Fire, CheckStopped, LoadFile, Deliver, watchVars, Coalesced, TypeInv, WatchTypeOK
  <2>5. CASE UNCHANGED watcherVars
    BY <2>5 DEF watcherVars, watchVars, Coalesced
  <2> QED
    BY <2>1, <2>2, <2>3, <2>4, <2>5 DEF WatchNext, Run, Reload
<1> QED
  BY <1>1, <1>2, WatcherTypeCorrect, PTL DEF WatchSpec

-----------------------------------------------------------------------------
\* LateOnlyIfBegun is not inductive: a reload past the flag must be one that was past it
\* when Run returned, and the flag must say that Run has.
Begun(n) == task[n] \in {"load", "validate"}

LateInv ==
  /\ TypeInv
  /\ (stopped <=> run = "returned")
  /\ stopped => \A n \in Timers : Begun(n) => n \in begun
  /\ ~stopped => late = {}
  /\ LateOnlyIfBegun

\* A timer that Run left armed fires in vain: the callbacks after Run has returned are of
\* reloads that had begun.
THEOREM NoneBeginsLate == WatchSpec => []LateOnlyIfBegun
<1>1. WatchInit => LateInv
  <2> SUFFICES ASSUME WatchInit PROVE LateInv
    OBVIOUS
  <2>1. \A n \in Timers : ~Begun(n)
    BY DEF WatchInit, Begun
  <2>2. stopped \in BOOLEAN /\ ~stopped /\ run # "returned" /\ late = {}
    BY DEF WatchInit
  <2> QED
    BY TypeInit, <2>1, <2>2 DEF LateInv, LateOnlyIfBegun
<1>2. LateInv /\ [WatchNext]_watcherVars => LateInv'
  <2> SUFFICES ASSUME LateInv, [WatchNext]_watcherVars, TypeInv' PROVE LateInv'
    BY TypeStep DEF LateInv
  <2> USE DEF LateInv, LateOnlyIfBegun, Begun
  <2>1. CASE Truncate \/ WriteMore \/ Replace
    BY <2>1, FileStep DEF watchVars
  <2>2. CASE Cancel \/ IgnoreEvent
    BY <2>2 DEF Cancel, IgnoreEvent, watchVars, ghosts
  <2>3. CASE HandleEvent
    <3>1. \A n \in Timers : task'[n] \in {"load", "validate"} => task[n] = task'[n]
      BY <2>3 DEF HandleEvent, Rearmed
    <3> QED
      BY <2>3, <3>1 DEF HandleEvent, ghosts
  <2>4. CASE RunReturns
    BY <2>4 DEF RunReturns
  <2>5. ASSUME NEW n \in Timers, Fire(n) PROVE LateInv'
    BY <2>5 DEF Fire, watchVars, TypeInv, WatchTypeOK
  <2>6. ASSUME NEW n \in Timers, CheckStopped(n) PROVE LateInv'
    BY <2>6 DEF CheckStopped, MayReload, watchVars, ghosts, TypeInv, WatchTypeOK
  <2>7. ASSUME NEW n \in Timers, LoadFile(n) PROVE LateInv'
    BY <2>7 DEF LoadFile, watchVars, ghosts, TypeInv, WatchTypeOK
  <2>8. ASSUME NEW n \in Timers, Deliver(n) PROVE LateInv'
    BY <2>8 DEF Deliver, watchVars, TypeInv, WatchTypeOK
  <2>9. CASE UNCHANGED watcherVars
    BY <2>9 DEF watcherVars, watchVars, ghosts
  <2> QED
    BY <2>1, <2>2, <2>3, <2>4, <2>5, <2>6, <2>7, <2>8, <2>9 DEF WatchNext, Run, Reload
<1> QED
  BY <1>1, <1>2, PTL DEF WatchSpec, LateInv

-----------------------------------------------------------------------------
\* Registration: start and stop.

\* A daemon that was started when no other one ran can be stopped: the PID file names it
\* (runStart, runStop).
THEOREM AlwaysStoppable == Spec => []DaemonStoppable
<1>1. Init => DaemonStoppable
  BY DEF Init, DaemonStoppable
<1>2. DaemonStoppable /\ [Next]_vars => DaemonStoppable'
  <2> SUFFICES ASSUME DaemonStoppable, [Next]_vars PROVE DaemonStoppable'
    OBVIOUS
  <2>1. ASSUME UNCHANGED daemonVars PROVE DaemonStoppable'
    BY <2>1 DEF daemonVars, DaemonStoppable
  <2>2. ASSUME NEW p \in Procs, NEW at, NEW c, Begin(p, at, c) PROVE UNCHANGED daemonVars
    BY <2>2 DEF Begin
  <2>3. ASSUME NEW p \in Procs, NEW n \in Names, NEW override \in BOOLEAN,
               Register(p, n) \/ Unregister(p, "unregister", n, override)
                 \/ Unregister(p, "unregisterAll", n, override)
        PROVE  UNCHANGED daemonVars
    BY <2>2, <2>3 DEF Register, Unregister
  <2>4. ASSUME NEW p \in Procs, RegisterCall(p) \/ Keep(p) \/ Find(p) \/ Remove(p) \/ Removed(p)
        PROVE  UNCHANGED daemonVars
    BY <2>4 DEF RegisterCall, Keep, Find, Remove, Removed, Abandon
  <2>5. ASSUME NEW p \in Procs, Create(p) \/ Write(p) \/ Crash(p)
        PROVE  UNCHANGED daemonVars
    BY <2>5 DEF Create, Write, Crash, Abandon
  <2>6. CASE Edit \/ UNCHANGED vars
    BY <2>1, <2>6 DEF Edit, vars, daemonVars
  <2>7. CASE Start
    <3>1. alone' => daemons = {}
      BY <2>7, Zenon DEF Start
    <3>2. (daemons' = daemons \cup {pids + 1} /\ pidFile' = pids + 1) \/ daemons' = daemons
      BY <2>7 DEF Start
    <3> QED
      BY <3>1, <3>2 DEF DaemonStoppable
  <2>8. CASE Stop
    BY <2>8 DEF Stop, DaemonStoppable
  <2>9. ASSUME NEW d \in daemons, Exit(d) \/ Kill(d) PROVE DaemonStoppable'
    BY <2>9 DEF Exit, Kill, DaemonStoppable
  <2>10. CASE \E p \in Procs :
            \/ \E n \in Names :
                 \/ Register(p, n)
                 \/ \E override \in BOOLEAN :
                      \/ Unregister(p, "unregister", n, override)
                      \/ Unregister(p, "unregisterAll", n, override)
            \/ RegisterCall(p)
            \/ Keep(p) \/ Find(p) \/ Remove(p) \/ Removed(p)
            \/ Create(p) \/ Write(p) \/ Crash(p)
    <3>1. UNCHANGED daemonVars
      BY <2>3, <2>4, <2>5, <2>10
    <3> QED
      BY <2>1, <3>1
  <2> QED
    BY <2>6, <2>7, <2>8, <2>9, <2>10 DEF Next
<1> QED
  BY <1>1, <1>2, PTL DEF Spec
-----------------------------------------------------------------------------
\* Registration: lists of entries.

LEMMA NamesAppend ==
  ASSUME NEW rs \in Seq(Entry), NEW e \in Entry
  PROVE  Append(rs, e) \in Seq(Entry) /\ NamesOf(Append(rs, e)) = NamesOf(rs) \cup {e.name}
<1>1. Append(rs, e) \in Seq(Entry) /\ Len(Append(rs, e)) = Len(rs) + 1 /\ Len(rs) \in Nat
  OBVIOUS
<1>2. Append(rs, e)[Len(rs) + 1] = e /\ \A i \in 1..Len(rs) : Append(rs, e)[i] = rs[i]
  OBVIOUS
<1>3. PICK new : new = Append(rs, e)
  OBVIOUS
<1>4. \A i \in 1..Len(rs) : i \in 1..(Len(rs) + 1)
  BY <1>1
<1>5. \A i \in 1..(Len(rs) + 1) : i = Len(rs) + 1 \/ i \in 1..Len(rs)
  BY <1>1
<1>6. Len(rs) + 1 \in 1..(Len(rs) + 1)
  BY <1>1
<1>7. NamesOf(new) = NamesOf(rs) \cup {e.name}
  BY <1>1, <1>2, <1>3, <1>4, <1>5, <1>6 DEF NamesOf
<1> QED
  BY <1>1, <1>3, <1>7

LEMMA NamesTail ==
  ASSUME NEW rs \in Seq(Entry), rs # <<>>
  PROVE  /\ Head(rs) \in Entry /\ Tail(rs) \in Seq(Entry)
         /\ NamesOf(rs) = {Head(rs).name} \cup NamesOf(Tail(rs))
<1>1. /\ Len(rs) \in Nat \ {0} /\ Head(rs) = rs[1] /\ Head(rs) \in Entry
      /\ Tail(rs) \in Seq(Entry) /\ Len(Tail(rs)) = Len(rs) - 1
      /\ \A i \in 1..(Len(rs) - 1) : Tail(rs)[i] = rs[i + 1]
  OBVIOUS
<1>2. PICK t \in Seq(Entry), n \in Nat \ {0} : t = Tail(rs) /\ n = Len(rs)
  BY <1>1
<1>3. Len(t) = n - 1 /\ \A i \in 1..(n - 1) : t[i] = rs[i + 1]
  BY <1>1, <1>2
<1>4. /\ 1 \in 1..n /\ \A i \in 1..(n - 1) : i + 1 \in 1..n
      /\ \A i \in 1..n : i = 1 \/ (i - 1 \in 1..(n - 1) /\ (i - 1) + 1 = i)
  OBVIOUS
<1>5. NamesOf(rs) \subseteq {rs[1].name} \cup NamesOf(t)
  <2>1. ASSUME NEW i \in 1..n, i # 1 PROVE rs[i].name \in NamesOf(t)
    <3>1. PICK j \in 1..(n - 1) : i = j + 1
      BY <1>4, <2>1
    <3> QED
      BY <1>3, <3>1 DEF NamesOf
  <2> QED
    BY <1>2, <2>1 DEF NamesOf
<1>6. {rs[1].name} \cup NamesOf(t) \subseteq NamesOf(rs)
  BY <1>2, <1>3, <1>4 DEF NamesOf
<1> QED
  BY <1>1, <1>2, <1>5, <1>6

\* Entries that are rewritten one by one keep their names.
LEMMA NamesKept ==
  ASSUME NEW rs \in Seq(Entry), NEW new, new = [i \in 1..Len(rs) |-> new[i]],
         \A i \in 1..Len(rs) : new[i] \in Entry /\ new[i].name = rs[i].name
  PROVE  new \in Seq(Entry) /\ NamesOf(new) = NamesOf(rs)
<1>1. Len(rs) \in Nat
  OBVIOUS
<1>2. new \in Seq(Entry) /\ Len(new) = Len(rs)
  BY <1>1
<1> QED
  BY <1>2 DEF NamesOf

LEMMA NamesLoad ==
  ASSUME file.runners \in Seq(Entry), NEW set \in BOOLEAN
  PROVE  Load(set) \in Seq(Entry) /\ NamesOf(Load(set)) = NamesOf(file.runners)
<1>1. PICK rs \in Seq(Entry) : rs = file.runners
  OBVIOUS
<1>2. PICK new : new = [i \in 1..Len(rs) |-> Expand(rs[i], set)]
  OBVIOUS
<1>3. \A e \in Entry : Expand(e, set) \in Entry /\ Expand(e, set).name = e.name
  BY DEF Expand, Entry
<1>4. \A i \in 1..Len(rs) : rs[i] \in Entry
  OBVIOUS
<1>5. \A i \in 1..Len(rs) : new[i] \in Entry /\ new[i].name = rs[i].name
  BY <1>2, <1>3, <1>4
<1>6. new = [i \in 1..Len(rs) |-> new[i]]
  BY <1>2
<1>7. new \in Seq(Entry) /\ NamesOf(new) = NamesOf(rs)
  BY <1>5, <1>6, NamesKept
<1> QED
  BY <1>1, <1>2, <1>7 DEF Load

-----------------------------------------------------------------------------
\* Registration: the inductive invariant.

\* The answer to ListRunners has room for every runner.
OnePage == PageSize \in Nat \ {0} /\ MaxIds \in Nat /\ MaxIds <= PageSize

Command ==
  [ kind : {"none", "register", "unregister", "unregisterAll"}, name : Names \cup {"none"},
    token : BOOLEAN, cfg : Seq(Entry), rest : Seq(Entry), id : Nat ]

Points == {"idle", "register", "loop", "remove", "create", "write"}

USE DEF Points

Types ==
  /\ file.state \in {"absent", "ok", "broken"} /\ file.runners \in Seq(Entry)
  /\ github \subseteq [name : Names, id : Nat] /\ ids \in Nat /\ mine \subseteq 1..ids
  /\ pc \in [Procs -> Points]
  /\ cmd \in [Procs -> Command] /\ intact \in BOOLEAN

\* GitHub gives an id and a name to one runner.
GitHubInv ==
  /\ ids <= PageSize /\ \A r \in github : r.id \in 1..ids
  /\ \A r, q \in github : (r.id = q.id \/ r.name = q.name) => r = q

\* The runners whose ids are in S have their names in N.
Listed(S, N) == \A r \in github : r.id \in S => r.name \in N

\* Where a command is.
CommandAt(p) ==
  /\ cmd[p].id \in 0..ids
  /\ pc[p] = "register" => cmd[p].kind = "register" /\ cmd[p].name \in Names
  /\ pc[p] \in {"loop", "remove"} => cmd[p].kind # "register"
  /\ pc[p] \in {"create", "write"} /\ cmd[p].kind = "register" => cmd[p].id # 0
  /\ pc[p] = "remove" =>
       /\ cmd[p].cfg # <<>>
       /\ \A r \in github : r.id = cmd[p].id => r.name = Head(cmd[p].cfg).name

CommandInv == \A p \in Procs : CommandAt(p)

\* The runners a command writes into the file when it succeeds.
Owed(p) == mine \cup IF cmd[p].kind = "register" THEN {cmd[p].id} ELSE {}

\* What a command that nobody interferes with knows of the runners.
KnowsAt(p) ==
  /\ pc[p] = "register" => Listed(mine, NamesOf(cmd[p].cfg))
  /\ pc[p] \in {"loop", "remove"} => Listed(mine, NamesOf(cmd[p].cfg) \cup NamesOf(cmd[p].rest))
  /\ pc[p] \in {"create", "write"} => Listed(Owed(p), NamesOf(cmd[p].cfg))
  /\ pc[p] = "write" => file = File(<<>>)

KnowsInv ==
  /\ \A p \in Procs : KnowsAt(p)
  /\ \A p \in Procs : \A q \in Procs \ {p} : Idle(p) \/ Idle(q)

ListedInv == Types /\ GitHubInv /\ CommandInv /\ (intact => KnowsInv) /\ StillListed

LEMMA EmptyNames == NamesOf(<<>>) = {}
  BY DEF NamesOf

LEMMA NoCmdType == NoCmd \in Command
  BY DEF NoCmd, Command

LEMMA ListedInit == ASSUME OnePage, Init PROVE ListedInv
<1>1. pc = [p \in Procs |-> "idle"] /\ cmd = [p \in Procs |-> NoCmd] /\ intact = TRUE
  BY DEF Init
<1>2. CASE file = Absent /\ github = {} /\ ids = 0 /\ mine = {}
  <2>1. Types
    BY <1>1, <1>2, NoCmdType DEF Types, Absent
  <2> QED
    BY <1>1, <1>2, <2>1
       DEF OnePage, ListedInv, GitHubInv, CommandInv, CommandAt, KnowsInv, KnowsAt,
           StillListed, Idle, NoCmd
<1>3. ASSUME NEW n \in Names,
             file = File(<<[name |-> n, token |-> "ref", complete |-> TRUE]>>),
             github = {[name |-> n, id |-> 1]}, ids = 1, mine = {1}
      PROVE  ListedInv
  <2>1. PICK e \in Entry : e = [name |-> n, token |-> "ref", complete |-> TRUE]
    BY DEF Entry
  <2>2. PICK rs : rs = <<e>>
    OBVIOUS
  <2>3. rs \in Seq(Entry) /\ Len(rs) = 1 /\ rs[1] = e
    BY <2>2
  <2>4. NamesOf(rs) = {n}
    BY <2>1, <2>3 DEF NamesOf
  <2>5. file.state = "ok" /\ file.runners = rs
    BY <1>3, <2>1, <2>2 DEF File
  <2>6. Types
    BY <1>1, <1>3, <2>3, <2>5, NoCmdType DEF Types
  <2>7. GitHubInv
    BY <1>3 DEF OnePage, GitHubInv
  <2>8. CommandInv /\ KnowsInv
    BY <1>1, <1>3 DEF CommandInv, CommandAt, KnowsInv, KnowsAt, Idle, NoCmd
  <2>9. StillListed
    BY <1>3, <2>4, <2>5 DEF StillListed
  <2> QED
    BY <2>6, <2>7, <2>8, <2>9 DEF ListedInv
<1> QED
  BY <1>2, <1>3 DEF Init

\* What may happen at GitHub: runners go, and one may come with an id of its own.
GitHubStep ==
  /\ ids' \in Nat /\ ids <= ids'
  /\ github' \subseteq [name : Names, id : Nat] /\ GitHubInv'
  /\ \A r \in github' : r \in github \/ r.id \notin 0..ids

LEMMA RunnersGo ==
  ASSUME ListedInv, github' \subseteq github, ids' = ids
  PROVE  GitHubStep
  BY DEF ListedInv, Types, GitHubInv, GitHubStep

LEMMA RunnerComes ==
  ASSUME OnePage, ListedInv, NEW n \in Names, ~\E r \in github : r.name = n, ids < MaxIds,
         github' = github \cup {[name |-> n, id |-> ids + 1]}, ids' = ids + 1
  PROVE  GitHubStep
<1>1. PICK new \in [name : Names, id : Nat] : new = [name |-> n, id |-> ids + 1]
  <2>1. ids + 1 \in Nat
    BY DEF ListedInv, Types
  <2> QED
    BY <2>1
<1>2. new.name = n /\ new.id = ids + 1 /\ github' = github \cup {new}
  BY <1>1
<1>3. ids \in Nat /\ github \subseteq [name : Names, id : Nat] /\ \A r \in github : r.id \in 1..ids
  BY DEF ListedInv, Types, GitHubInv
<1>4. ids' <= PageSize
  BY <1>3 DEF OnePage
<1>5. \A r, q \in github' : (r.id = q.id \/ r.name = q.name) => r = q
  BY <1>2, <1>3 DEF ListedInv, GitHubInv
<1> QED
  BY <1>2, <1>3, <1>4, <1>5 DEF GitHubStep, GitHubInv

\* A runner that is owed was there before.
LEMMA ListedLater ==
  ASSUME GitHubStep, NEW S, S \subseteq 0..ids, NEW N, Listed(S, N)
  PROVE  \A r \in github' : r.id \in S => r.name \in N
  BY DEF GitHubStep, Listed

LEMMA CommandsApart ==
  ASSUME ListedInv, GitHubStep, NEW q \in Procs, pc'[q] = pc[q], cmd'[q] = cmd[q]
  PROVE  CommandAt(q)'
<1>1. CommandAt(q) /\ cmd[q].id \in 0..ids /\ ids \in Nat
  BY DEF ListedInv, CommandInv, CommandAt, Types
<1>2. cmd[q].id \in 0..ids'
  BY <1>1 DEF GitHubStep
<1>3. \A r \in github' : r.id = cmd[q].id => r \in github
  BY <1>1 DEF GitHubStep
<1> QED
  BY <1>1, <1>2, <1>3 DEF CommandAt

\* While nobody interferes the other commands are idle.
LEMMA Alone ==
  ASSUME ListedInv, NEW p \in Procs, ~Idle(p), intact
  PROVE  KnowsAt(p) /\ \A q \in Procs \ {p} : Idle(q)
  BY DEF ListedInv, KnowsInv

\* What a step of one command has to keep.
LEMMA StepKeeps ==
  ASSUME ListedInv, NEW p \in Procs, Types', GitHubStep,
         \A q \in Procs \ {p} : pc'[q] = pc[q] /\ cmd'[q] = cmd[q],
         CommandAt(p)',
         intact' => \A q \in Procs \ {p} : Idle(q),
         intact' => KnowsAt(p)',
         intact' /\ pc'[p] # "write" =>
           \A r \in github' : r.id \in mine' => r.name \in NamesOf(file'.runners)
  PROVE  ListedInv'
<1>1. CommandInv'
  BY CommandsApart DEF CommandInv
<1>2. ASSUME intact' PROVE KnowsInv'
  <2>1. \A q \in Procs \ {p} : pc'[q] = "idle"
    BY <1>2 DEF Idle
  <2>2. \A q \in Procs \ {p} : KnowsAt(q)'
    BY <2>1 DEF KnowsAt
  <2>3. \A q \in Procs : \A z \in Procs \ {q} : pc'[q] = "idle" \/ pc'[z] = "idle"
    BY <2>1
  <2> QED
    BY <1>2, <2>2, <2>3 DEF KnowsInv, Idle
<1>3. StillListed'
  BY DEF StillListed, Writing
<1> QED
  BY <1>1, <1>2, <1>3 DEF ListedInv, GitHubStep

-----------------------------------------------------------------------------
\* Registration: the steps.

LEMMA Returned ==
  ASSUME Types, NEW p \in Procs, Return(p)
  PROVE  /\ pc' \in [Procs -> Points]
         /\ cmd' \in [Procs -> Command]
         /\ pc'[p] = "idle" /\ cmd'[p] = NoCmd
         /\ \A q \in Procs \ {p} : pc'[q] = pc[q] /\ cmd'[q] = cmd[q]
  BY NoCmdType DEF Types, Return, Goto

\* A command that has returned knows nothing.
LEMMA ReturnedAt ==
  ASSUME NEW p \in Procs, pc'[p] = "idle", cmd'[p] = NoCmd, ids' \in Nat
  PROVE  CommandAt(p)' /\ KnowsAt(p)'
  BY DEF CommandAt, KnowsAt, NoCmd

\* A command ends before it has touched the file.
LEMMA AbandonStep ==
  ASSUME ListedInv, NEW p \in Procs, pc[p] \in {"register", "loop", "remove", "create"},
         Return(p), UNCHANGED <<file, intact, mine>>, GitHubStep
  PROVE  ListedInv'
<1>0. Types
  BY DEF ListedInv
<1>1. /\ pc'[p] = "idle" /\ cmd'[p] = NoCmd
      /\ \A q \in Procs \ {p} : pc'[q] = pc[q] /\ cmd'[q] = cmd[q]
  BY <1>0, Returned
<1>2. Types'
  <2>1. mine' \subseteq 1..ids'
    BY <1>0 DEF Types, GitHubStep
  <2> QED
    BY <1>0, <2>1, Returned DEF Types, GitHubStep
<1>3. CommandAt(p)' /\ KnowsAt(p)'
  BY <1>1, ReturnedAt DEF GitHubStep
<1>4. ASSUME intact
      PROVE  /\ \A q \in Procs \ {p} : Idle(q)
             /\ \A r \in github' : r.id \in mine' => r.name \in NamesOf(file'.runners)
  <2>1. \A q \in Procs \ {p} : Idle(q)
    BY <1>4, Alone DEF Idle
  <2>2. ~Writing
    BY <2>1 DEF Writing, Idle
  <2>3. Listed(mine, NamesOf(file.runners)) /\ mine \subseteq 0..ids
    BY <1>0, <1>4, <2>2 DEF ListedInv, StillListed, Listed, Types
  <2> QED
    BY <2>1, <2>3, ListedLater
<1> QED
  BY <1>1, <1>2, <1>3, <1>4, StepKeeps

LEMMA BeginStep ==
  ASSUME ListedInv, NEW p \in Procs, NEW at \in {"register", "loop"}, NEW c \in Command, Begin(p, at, c),
         c.id = 0, NamesOf(c.cfg) = NamesOf(file.runners),
         at = "register" => c.kind = "register" /\ c.name \in Names,
         at = "loop" => c.kind # "register"
  PROVE  ListedInv'
<1>0. Types
  BY DEF ListedInv
<1>1. /\ pc'[p] = at /\ cmd'[p] = c
      /\ \A q \in Procs \ {p} : pc'[q] = pc[q] /\ cmd'[q] = cmd[q]
      /\ UNCHANGED <<file, github, ids, mine>>
  BY <1>0 DEF Begin, Goto, Types
<1>2. intact' \in BOOLEAN /\ (intact' => intact /\ \A q \in Procs \ {p} : Idle(q))
  <2>1. intact' = (intact /\ \A q \in Procs \ {p} : Idle(q))
    BY DEF Begin
  <2> QED
    BY <2>1, Zenon
<1>3. Types'
  BY <1>0, <1>2 DEF Types, Begin, Goto
<1>4. GitHubStep
  BY <1>1, RunnersGo
<1>5. CommandAt(p)'
  BY <1>0, <1>1 DEF CommandAt, Types
<1>6. ASSUME intact' PROVE Listed(mine, NamesOf(file.runners))
  <2>1. Idle(p) /\ ~Writing
    BY <1>2, <1>6 DEF Begin, Writing, Idle
  <2> QED
    BY <1>2, <1>6, <2>1 DEF ListedInv, StillListed, Listed
<1>7. ASSUME intact' PROVE KnowsAt(p)'
  BY <1>1, <1>6, <1>7 DEF KnowsAt, Listed
<1>8. ASSUME intact' PROVE \A r \in github' : r.id \in mine' => r.name \in NamesOf(file'.runners)
  BY <1>1, <1>6, <1>8 DEF Listed
<1> QED
  BY <1>1, <1>2, <1>3, <1>4, <1>5, <1>7, <1>8, StepKeeps

LEMMA RegisterStep ==
  ASSUME ListedInv, NEW p \in Procs, NEW n \in Names, Register(p, n)
  PROVE  ListedInv'
<1>1. PICK set \in BOOLEAN :
        Begin(p, "register", [NoCmd EXCEPT !.kind = "register", !.name = n, !.cfg = Load(set)])
  BY DEF Register, EnvSet
<1>2. Load(set) \in Seq(Entry) /\ NamesOf(Load(set)) = NamesOf(file.runners)
  BY NamesLoad DEF ListedInv, Types
<1>3. PICK l \in Seq(Entry) : l = Load(set)
  BY <1>2
<1>4. PICK c \in Command : c = [NoCmd EXCEPT !.kind = "register", !.name = n, !.cfg = l]
  <2>1. PICK z \in Command : z = NoCmd
    BY NoCmdType
  <2>2. [z EXCEPT !.kind = "register", !.name = n, !.cfg = l] \in Command
    BY DEF Command
  <2> QED
    BY <2>1, <2>2
<1>5. c.id = 0 /\ c.cfg = l /\ c.kind = "register" /\ c.name \in Names
  BY <1>4 DEF NoCmd
<1> QED
  BY <1>1, <1>2, <1>3, <1>4, <1>5, BeginStep

LEMMA UnregisterStep ==
  ASSUME ListedInv, NEW p \in Procs, NEW kind \in {"unregister", "unregisterAll"}, NEW n \in Names,
         NEW override \in BOOLEAN, Unregister(p, kind, n, override)
  PROVE  ListedInv'
<1>1. PICK set \in BOOLEAN :
        Begin(p, "loop",
                [NoCmd EXCEPT !.kind = kind, !.name = n, !.token = override, !.cfg = Load(set)])
  BY DEF Unregister, EnvSet
<1>2. Load(set) \in Seq(Entry) /\ NamesOf(Load(set)) = NamesOf(file.runners)
  BY NamesLoad DEF ListedInv, Types
<1>3. PICK l \in Seq(Entry) : l = Load(set)
  BY <1>2
<1>4. PICK c \in Command : c = [NoCmd EXCEPT !.kind = kind, !.name = n, !.token = override, !.cfg = l]
  <2>1. PICK z \in Command : z = NoCmd
    BY NoCmdType
  <2>2. [z EXCEPT !.kind = kind, !.name = n, !.token = override, !.cfg = l] \in Command
    BY DEF Command
  <2> QED
    BY <2>1, <2>2
<1>5. c.id = 0 /\ c.cfg = l /\ c.kind # "register"
  BY <1>4 DEF NoCmd
<1> QED
  BY <1>1, <1>2, <1>3, <1>4, <1>5, BeginStep

\* A step of a command that talks to GitHub or goes on to the next entry.
LEMMA LocalStep ==
  ASSUME ListedInv, NEW p \in Procs, pc[p] \in {"register", "loop", "remove", "create"},
         UNCHANGED <<file, intact, mine>>, GitHubStep,
         NEW at \in {"loop", "remove", "create"}, pc' = [pc EXCEPT ![p] = at],
         NEW c \in Command, cmd' = [cmd EXCEPT ![p] = c],
         CommandAt(p)', intact /\ KnowsAt(p) => KnowsAt(p)'
  PROVE  ListedInv'
<1>0. Types
  BY DEF ListedInv
<1>1. pc'[p] = at /\ \A q \in Procs \ {p} : pc'[q] = pc[q] /\ cmd'[q] = cmd[q]
  BY <1>0 DEF Types
<1>2. Types'
  <2>1. mine' \subseteq 1..ids'
    BY <1>0 DEF Types, GitHubStep
  <2>2. /\ file'.state \in {"absent", "ok", "broken"} /\ file'.runners \in Seq(Entry)
        /\ intact' \in BOOLEAN
    BY <1>0 DEF Types
  <2>3. /\ pc' \in [Procs -> Points]
        /\ cmd' \in [Procs -> Command]
    BY <1>0 DEF Types
  <2> QED
    BY <2>1, <2>2, <2>3 DEF Types, GitHubStep
<1>3. ASSUME intact
      PROVE  /\ \A q \in Procs \ {p} : Idle(q)
             /\ KnowsAt(p)'
             /\ \A r \in github' : r.id \in mine' => r.name \in NamesOf(file'.runners)
  <2>1. KnowsAt(p) /\ \A q \in Procs \ {p} : Idle(q)
    BY <1>3, Alone DEF Idle
  <2>2. ~Writing
    BY <2>1 DEF Writing, Idle
  <2>3. Listed(mine, NamesOf(file.runners)) /\ mine \subseteq 0..ids
    BY <1>0, <1>3, <2>2 DEF ListedInv, StillListed, Listed, Types
  <2> QED
    BY <1>3, <2>1, <2>3, ListedLater
<1> QED
  BY <1>1, <1>2, <1>3, StepKeeps

LEMMA KeepStep ==
  ASSUME ListedInv, NEW p \in Procs, Keep(p)
  PROVE  ListedInv'
<1>1. cmd[p] \in Command /\ cmd[p].cfg \in Seq(Entry) /\ cmd[p].rest \in Seq(Entry)
  BY DEF ListedInv, Types, Command
<1>2. cmd[p].cfg # <<>> /\ pc[p] = "loop" /\ pc' = pc /\ UNCHANGED <<file, github, ids, mine, intact>>
  BY DEF Keep
<1>3. PICK e \in Entry, t \in Seq(Entry), k \in Seq(Entry) :
        e = Head(cmd[p].cfg) /\ t = Tail(cmd[p].cfg) /\ k = Append(cmd[p].rest, e)
  BY <1>1, <1>2, NamesTail, NamesAppend
<1>4. /\ NamesOf(cmd[p].cfg) = {e.name} \cup NamesOf(t)
      /\ NamesOf(k) = NamesOf(cmd[p].rest) \cup {e.name}
  BY <1>1, <1>2, <1>3, NamesTail, NamesAppend
<1>5. PICK c \in Command : c = [cmd[p] EXCEPT !.cfg = t, !.rest = k]
  BY <1>1 DEF Command
<1>6. c.cfg = t /\ c.rest = k /\ c.kind = cmd[p].kind /\ c.id = cmd[p].id
  BY <1>1, <1>5 DEF Command
<1>7. cmd' = [cmd EXCEPT ![p] = c] /\ cmd'[p] = c /\ pc' = [pc EXCEPT ![p] = "loop"] /\ pc'[p] = "loop"
  <2>1. cmd' = [cmd EXCEPT ![p].cfg = t, ![p].rest = k]
    BY <1>3 DEF Keep
  <2>2. cmd \in [Procs -> Command] /\ pc \in [Procs -> Points]
    BY DEF ListedInv, Types
  <2> QED
    BY <1>2, <1>5, <2>1, <2>2 DEF Command
<1>8. GitHubStep
  BY <1>2, RunnersGo
<1>9. CommandAt(p)'
  BY <1>2, <1>6, <1>7 DEF ListedInv, CommandInv, CommandAt
<1>10. KnowsAt(p) => KnowsAt(p)'
  BY <1>2, <1>4, <1>6, <1>7 DEF KnowsAt, Listed
<1> QED
  BY <1>2, <1>7, <1>8, <1>9, <1>10, LocalStep

\* With so few runners the page has them all.
LEMMA PageComplete ==
  ASSUME OnePage, ListedInv
  PROVE  FirstPage = github
<1>1. /\ ids \in Nat /\ ids <= PageSize /\ PageSize \in Nat
      /\ \A r \in github : r.id \in 1..ids
      /\ \A r, q \in github : r.id = q.id => r = q
  BY DEF OnePage, ListedInv, Types, GitHubInv
<1>2. ASSUME NEW r \in github
      PROVE  Cardinality({q \in github : q.id < r.id}) < PageSize
  <2>1. PICK S, T : S = {q \in github : q.id < r.id} /\ T = 1..(r.id - 1)
    OBVIOUS
  <2>2. r.id \in Nat \ {0} /\ r.id <= PageSize
    BY <1>1
  <2>3. IsFiniteSet(T) /\ Cardinality(T) = r.id - 1
    <3>1. 1 \in Int /\ r.id - 1 \in Int
      BY <2>2
    <3>2. /\ IsFiniteSet(1..(r.id - 1))
          /\ Cardinality(1..(r.id - 1)) = IF 1 > r.id - 1 THEN 0 ELSE (r.id - 1) - 1 + 1
      BY <3>1, FS_Interval
    <3> QED
      BY <2>1, <2>2, <3>2
  <2>4. PICK f : f = [q \in S |-> q.id]
    OBVIOUS
  <2>5. f \in [S -> T]
    BY <1>1, <2>1, <2>2, <2>4
  <2>6. \A a, b \in S : f[a] = f[b] => a = b
    BY <1>1, <2>1, <2>4
  <2>7. f \in Injection(S, T)
    BY <2>5, <2>6 DEF Injection, IsInjective
  <2>8. IsFiniteSet(S) /\ Cardinality(S) <= Cardinality(T)
    BY <2>3, <2>7, FS_Injection
  <2>9. Cardinality(S) \in Nat
    BY <2>8, FS_CardinalityType
  <2> QED
    BY <1>1, <2>1, <2>2, <2>3, <2>8, <2>9
<1> QED
  <2>1. \A S : Cardinality(S) = Cardinality(S)
    BY DEF Cardinality, Cardinality, IsFiniteSet, IsFiniteSet
  <2>2. FirstPage = {r \in github : Cardinality({q \in github : q.id < r.id}) < PageSize}
    BY DEF FirstPage
  <2> QED
    BY <1>2, <2>1, <2>2

LEMMA FindStep ==
  ASSUME OnePage, ListedInv, NEW p \in Procs, Find(p)
  PROVE  ListedInv'
<1>1. cmd[p] \in Command /\ cmd[p].cfg \in Seq(Entry) /\ cmd[p].rest \in Seq(Entry)
  BY DEF ListedInv, Types, Command
<1>2. cmd[p].cfg # <<>> /\ pc[p] = "loop" /\ UNCHANGED <<file, github, ids, mine, intact>>
  BY DEF Find, Abandon
<1>3. PICK e \in Entry, t \in Seq(Entry) : e = Head(cmd[p].cfg) /\ t = Tail(cmd[p].cfg)
  BY <1>1, <1>2, NamesTail
<1>4. NamesOf(cmd[p].cfg) = {e.name} \cup NamesOf(t)
  BY <1>1, <1>2, <1>3, NamesTail
<1>5. PICK found : found = {r \in github : r.name = e.name}
  OBVIOUS
<1>6. \/ found # {} /\ cmd' = [cmd EXCEPT ![p].id = (CHOOSE r \in found : TRUE).id] /\ Goto(p, "remove")
      \/ found = {} /\ cmd' = [cmd EXCEPT ![p].cfg = t] /\ pc' = pc
      \/ Abandon(p)
  BY <1>3, <1>5, PageComplete DEF Find
<1>7. GitHubStep
  BY <1>2, RunnersGo
<1>8. cmd \in [Procs -> Command] /\ pc \in [Procs -> Points]
  BY DEF ListedInv, Types
<1>9. CommandAt(p)
  BY DEF ListedInv, CommandInv
<1>10. CASE found # {} /\ cmd' = [cmd EXCEPT ![p].id = (CHOOSE r \in found : TRUE).id] /\ Goto(p, "remove")
  <2>1. PICK r \in github : r.name = e.name /\ cmd' = [cmd EXCEPT ![p].id = r.id]
    BY <1>5, <1>10
  <2>2. r.id \in Nat /\ r.id \in 0..ids
    BY DEF ListedInv, Types, GitHubInv
  <2>3. PICK c \in Command : c = [cmd[p] EXCEPT !.id = r.id]
    BY <1>1, <2>2 DEF Command
  <2>4. c.cfg = cmd[p].cfg /\ c.rest = cmd[p].rest /\ c.kind = cmd[p].kind /\ c.id = r.id
    BY <1>1, <2>3 DEF Command
  <2>5. cmd' = [cmd EXCEPT ![p] = c] /\ cmd'[p] = c /\ pc' = [pc EXCEPT ![p] = "remove"] /\ pc'[p] = "remove"
    BY <1>8, <1>10, <2>1, <2>3 DEF Goto, Command
  <2>6. \A q \in github : q.id = r.id => q.name = e.name
    BY <2>1 DEF ListedInv, GitHubInv
  <2>7. CommandAt(p)'
    BY <1>2, <1>3, <1>9, <2>2, <2>4, <2>5, <2>6 DEF CommandAt
  <2>8. KnowsAt(p) => KnowsAt(p)'
    BY <1>2, <2>4, <2>5 DEF KnowsAt, Listed
  <2> QED
    BY <1>2, <1>7, <2>5, <2>7, <2>8, LocalStep
<1>11. CASE found = {} /\ cmd' = [cmd EXCEPT ![p].cfg = t] /\ pc' = pc
  <2>1. PICK c \in Command : c = [cmd[p] EXCEPT !.cfg = t]
    BY <1>1 DEF Command
  <2>2. c.cfg = t /\ c.rest = cmd[p].rest /\ c.kind = cmd[p].kind /\ c.id = cmd[p].id
    BY <1>1, <2>1 DEF Command
  <2>3. cmd' = [cmd EXCEPT ![p] = c] /\ cmd'[p] = c /\ pc' = [pc EXCEPT ![p] = "loop"] /\ pc'[p] = "loop"
    BY <1>2, <1>8, <1>11, <2>1 DEF Command
  <2>4. \A r \in github : r.name # e.name
    BY <1>5, <1>11
  <2>5. CommandAt(p)'
    BY <1>2, <1>9, <2>2, <2>3 DEF CommandAt
  <2>6. KnowsAt(p) => KnowsAt(p)'
    BY <1>2, <1>4, <2>2, <2>3, <2>4 DEF KnowsAt, Listed
  <2> QED
    BY <1>2, <1>7, <2>3, <2>5, <2>6, LocalStep
<1>12. CASE Abandon(p)
  BY <1>2, <1>7, <1>12, AbandonStep DEF Abandon
<1> QED
  BY <1>6, <1>10, <1>11, <1>12

LEMMA RemoveStep ==
  ASSUME ListedInv, NEW p \in Procs, Remove(p)
  PROVE  ListedInv'
<1>1. cmd[p] \in Command /\ cmd[p].cfg \in Seq(Entry) /\ cmd[p].rest \in Seq(Entry)
  BY DEF ListedInv, Types, Command
<1>2. CommandAt(p) /\ pc[p] = "remove" /\ cmd[p].cfg # <<>> /\ UNCHANGED <<file, ids, mine, intact>>
  BY DEF Remove, Abandon, ListedInv, CommandInv, CommandAt
<1>3. PICK e \in Entry, t \in Seq(Entry) : e = Head(cmd[p].cfg) /\ t = Tail(cmd[p].cfg)
  BY <1>1, <1>2, NamesTail
<1>4. NamesOf(cmd[p].cfg) = {e.name} \cup NamesOf(t)
  BY <1>1, <1>2, <1>3, NamesTail
<1>5. PICK gone : gone = {x \in github : x.id = cmd[p].id}
  OBVIOUS
<1>6. /\ github' \subseteq github
      /\ \/ gone # {} /\ github' = github \ gone /\ cmd' = [cmd EXCEPT ![p].cfg = t] /\ Goto(p, "loop")
         \/ Abandon(p)
  BY <1>3, <1>5 DEF Remove
<1>7. GitHubStep
  BY <1>2, <1>6, RunnersGo
<1>8. cmd \in [Procs -> Command] /\ pc \in [Procs -> Points]
  BY DEF ListedInv, Types
<1>9. CASE gone # {} /\ github' = github \ gone /\ cmd' = [cmd EXCEPT ![p].cfg = t] /\ Goto(p, "loop")
  <2>1. PICK c \in Command : c = [cmd[p] EXCEPT !.cfg = t]
    BY <1>1 DEF Command
  <2>2. c.cfg = t /\ c.rest = cmd[p].rest /\ c.kind = cmd[p].kind /\ c.id = cmd[p].id
    BY <1>1, <2>1 DEF Command
  <2>3. cmd' = [cmd EXCEPT ![p] = c] /\ cmd'[p] = c /\ pc' = [pc EXCEPT ![p] = "loop"] /\ pc'[p] = "loop"
    BY <1>8, <1>9, <2>1 DEF Command, Goto
  <2>4. \A r \in github' : r \in github /\ r.name # e.name
    <3>1. PICK x \in github : x.id = cmd[p].id
      BY <1>5, <1>9
    <3>2. x.name = e.name /\ x \in gone
      BY <1>2, <1>3, <1>5, <3>1 DEF CommandAt
    <3> QED
      BY <1>9, <3>1, <3>2 DEF ListedInv, GitHubInv
  <2>5. CommandAt(p)'
    BY <1>2, <2>2, <2>3 DEF CommandAt
  <2>6. KnowsAt(p) => KnowsAt(p)'
    BY <1>2, <1>4, <2>2, <2>3, <2>4 DEF KnowsAt, Listed
  <2> QED
    BY <1>2, <1>7, <2>3, <2>5, <2>6, LocalStep
<1>10. CASE Abandon(p)
  BY <1>2, <1>7, <1>10, AbandonStep DEF Abandon
<1> QED
  BY <1>6, <1>9, <1>10

LEMMA RemovedStep ==
  ASSUME ListedInv, NEW p \in Procs, Removed(p)
  PROVE  ListedInv'
<1>1. cmd[p] \in Command /\ cmd[p].rest \in Seq(Entry)
  BY DEF ListedInv, Types, Command
<1>2. /\ CommandAt(p) /\ pc[p] = "loop" /\ cmd[p].cfg = <<>>
      /\ UNCHANGED <<file, github, ids, mine, intact>>
  BY DEF Removed, ListedInv, CommandInv
<1>3. cmd[p].kind # "register"
  BY <1>2 DEF CommandAt
<1>4. PICK c \in Command : c = [cmd[p] EXCEPT !.cfg = cmd[p].rest]
  BY <1>1 DEF Command
<1>5. c.cfg = cmd[p].rest /\ c.kind = cmd[p].kind /\ c.id = cmd[p].id
  BY <1>1, <1>4 DEF Command
<1>6. cmd \in [Procs -> Command] /\ pc \in [Procs -> Points]
  BY DEF ListedInv, Types
<1>7. cmd' = [cmd EXCEPT ![p] = c] /\ cmd'[p] = c /\ pc' = [pc EXCEPT ![p] = "create"] /\ pc'[p] = "create"
  BY <1>4, <1>6 DEF Removed, Goto, Command
<1>8. GitHubStep
  BY <1>2, RunnersGo
<1>9. CommandAt(p)'
  BY <1>2, <1>3, <1>5, <1>7 DEF CommandAt
<1>10. KnowsAt(p) => KnowsAt(p)'
  <2> SUFFICES ASSUME KnowsAt(p) PROVE KnowsAt(p)'
    OBVIOUS
  <2>1. Listed(mine, NamesOf(cmd[p].rest))
    BY <1>2, EmptyNames DEF KnowsAt, Listed
  <2>2. Owed(p)' = mine
    BY <1>2, <1>3, <1>5, <1>7 DEF Owed
  <2> QED
    BY <1>2, <1>5, <1>7, <2>1, <2>2 DEF KnowsAt, Listed
<1> QED
  BY <1>2, <1>7, <1>8, <1>9, <1>10, LocalStep

LEMMA RegisterCallStep ==
  ASSUME OnePage, ListedInv, NEW p \in Procs, RegisterCall(p)
  PROVE  ListedInv'
<1>1. cmd[p] \in Command /\ cmd[p].cfg \in Seq(Entry)
  BY DEF ListedInv, Types, Command
<1>2. /\ CommandAt(p) /\ pc[p] = "register" /\ cmd[p].kind = "register" /\ cmd[p].name \in Names
      /\ UNCHANGED <<file, mine, intact>>
  BY DEF RegisterCall, Abandon, ListedInv, CommandInv, CommandAt
<1>3. PICK n \in Names, e \in Entry :
        n = cmd[p].name /\ e = [name |-> n, token |-> "literal", complete |-> FALSE]
  BY <1>2 DEF Entry
<1>4. PICK l \in Seq(Entry) : l = Append(cmd[p].cfg, e)
  BY <1>1, NamesAppend
<1>5. NamesOf(l) = NamesOf(cmd[p].cfg) \cup {n}
  BY <1>1, <1>3, <1>4, NamesAppend
<1>6. \/ /\ ~\E r \in github : r.name = n
         /\ ids < MaxIds /\ github' = github \cup {[name |-> n, id |-> ids + 1]} /\ ids' = ids + 1
         /\ \/ cmd' = [cmd EXCEPT ![p].cfg = l, ![p].id = ids + 1] /\ Goto(p, "create")
            \/ Abandon(p)
      \/ Abandon(p) /\ UNCHANGED <<github, ids>>
  BY <1>3, <1>4 DEF RegisterCall
<1>7. GitHubStep
  BY <1>6, RunnersGo, RunnerComes
<1>8. cmd \in [Procs -> Command] /\ pc \in [Procs -> Points]
  BY DEF ListedInv, Types
<1>9. ASSUME github' = github \cup {[name |-> n, id |-> ids + 1]}, ids' = ids + 1,
             cmd' = [cmd EXCEPT ![p].cfg = l, ![p].id = ids + 1], Goto(p, "create")
      PROVE  ListedInv'
  <2>1. ids \in Nat /\ mine \subseteq 0..ids
    BY DEF ListedInv, Types
  <2>2. PICK c \in Command : c = [cmd[p] EXCEPT !.cfg = l, !.id = ids + 1]
    <3>1. ids + 1 \in Nat
      BY <2>1
    <3> QED
      BY <1>1, <3>1 DEF Command
  <2>3. c.cfg = l /\ c.kind = "register" /\ c.id = ids + 1
    BY <1>1, <1>2, <2>2 DEF Command
  <2>4. cmd' = [cmd EXCEPT ![p] = c] /\ cmd'[p] = c /\ pc' = [pc EXCEPT ![p] = "create"] /\ pc'[p] = "create"
    BY <1>8, <1>9, <2>2 DEF Goto, Command
  <2>5. CommandAt(p)'
    BY <1>9, <2>1, <2>3, <2>4 DEF CommandAt
  <2>6. KnowsAt(p) => KnowsAt(p)'
    <3> SUFFICES ASSUME KnowsAt(p) PROVE KnowsAt(p)'
      OBVIOUS
    <3>1. Listed(mine, NamesOf(cmd[p].cfg))
      BY <1>2 DEF KnowsAt
    <3>2. ASSUME NEW r \in github', r.id \in mine \cup {ids + 1} PROVE r.name \in NamesOf(l)
      <4>1. CASE r \in github
        <5>1. r.id \in mine
          BY <2>1, <3>2, <4>1 DEF ListedInv, GitHubInv
        <5> QED
          BY <1>5, <3>1, <4>1, <5>1 DEF Listed
      <4>2. CASE r = [name |-> n, id |-> ids + 1]
        BY <1>5, <4>2
      <4> QED
        BY <1>9, <4>1, <4>2
    <3>3. Owed(p)' = mine \cup {ids + 1}
      BY <1>2, <2>3, <2>4 DEF Owed
    <3> QED
      BY <2>3, <2>4, <3>2, <3>3 DEF KnowsAt, Listed
  <2> QED
    BY <1>2, <1>7, <2>4, <2>5, <2>6, LocalStep
<1>10. CASE Abandon(p)
  BY <1>2, <1>7, <1>10, AbandonStep DEF Abandon
<1> QED
  BY <1>6, <1>9, <1>10

LEMMA CreateStep ==
  ASSUME ListedInv, NEW p \in Procs, Create(p)
  PROVE  ListedInv'
<1>1. Types /\ CommandAt(p) /\ pc[p] = "create" /\ UNCHANGED <<github, ids, mine>>
  BY DEF ListedInv, CommandInv, Create
<1>2. GitHubStep
  BY <1>1, RunnersGo
<1>3. CASE Abandon(p)
  BY <1>1, <1>2, <1>3, AbandonStep DEF Abandon
<1>4. CASE file' = File(<<>>) /\ Goto(p, "write") /\ UNCHANGED <<intact, cmd>>
  <2>1. pc'[p] = "write" /\ \A q \in Procs \ {p} : pc'[q] = pc[q] /\ cmd'[q] = cmd[q]
    BY <1>1, <1>4 DEF Goto, Types
  <2>2. Types'
    <3>1. file'.state = "ok" /\ file'.runners \in Seq(Entry)
      BY <1>4 DEF File
    <3> QED
      BY <1>1, <1>4, <3>1 DEF Types, Goto
  <2>3. CommandAt(p)'
    BY <1>1, <1>4, <2>1 DEF CommandAt
  <2>4. ASSUME intact' PROVE KnowsAt(p)' /\ \A q \in Procs \ {p} : Idle(q)
    <3>1. KnowsAt(p) /\ \A q \in Procs \ {p} : Idle(q)
      BY <1>1, <1>4, <2>4, Alone DEF Idle
    <3>2. Owed(p)' = Owed(p)
      BY <1>1, <1>4 DEF Owed
    <3> QED
      BY <1>1, <1>4, <2>1, <3>1, <3>2 DEF KnowsAt, Listed
  <2> QED
    BY <1>2, <2>1, <2>2, <2>3, <2>4, StepKeeps
<1> QED
  BY <1>3, <1>4 DEF Create

\* What is left of a list cut short.
LEMMA PartialType ==
  ASSUME NEW rs \in Seq(Entry), NEW f \in Partial(rs)
  PROVE  f.state \in {"ok", "broken"} /\ f.runners \in Seq(Entry)
<1>1. CASE f = Broken
  BY <1>1 DEF Broken
<1>2. ASSUME NEW n \in 0..Len(rs), f = File(SubSeq(rs, 1, n))
      PROVE  f.state = "ok" /\ f.runners \in Seq(Entry)
  <2>1. SubSeq(rs, 1, n) \in Seq(Entry)
    OBVIOUS
  <2> QED
    BY <1>2, <2>1 DEF File
<1> QED
  BY <1>1, <1>2 DEF Partial

\* The file is written, in full or not, and the command returns.
LEMMA WrittenStep ==
  ASSUME ListedInv, NEW p \in Procs, pc[p] = "write", Return(p), UNCHANGED <<github, ids>>,
         file'.state \in {"absent", "ok", "broken"}, file'.runners \in Seq(Entry), intact' \in BOOLEAN,
         mine' \subseteq 1..ids,
         intact' => intact /\ Listed(mine', NamesOf(file'.runners))
  PROVE  ListedInv'
<1>1. Types
  BY DEF ListedInv
<1>2. /\ pc'[p] = "idle" /\ cmd'[p] = NoCmd
      /\ \A q \in Procs \ {p} : pc'[q] = pc[q] /\ cmd'[q] = cmd[q]
  BY <1>1, Returned
<1>3. Types'
  BY <1>1, Returned DEF Types
<1>4. GitHubStep
  BY RunnersGo
<1>5. CommandAt(p)' /\ KnowsAt(p)'
  BY <1>2, <1>4, ReturnedAt DEF GitHubStep
<1>6. ASSUME intact' PROVE \A q \in Procs \ {p} : Idle(q)
  BY <1>6, Alone DEF Idle
<1>7. intact' => \A r \in github' : r.id \in mine' => r.name \in NamesOf(file'.runners)
  BY DEF Listed
<1> QED
  BY <1>2, <1>3, <1>4, <1>5, <1>6, <1>7, StepKeeps

LEMMA WriteStep ==
  ASSUME ListedInv, NEW p \in Procs, Write(p)
  PROVE  ListedInv'
<1>1. Types /\ CommandAt(p) /\ pc[p] = "write" /\ Return(p) /\ UNCHANGED <<github, ids>>
  BY DEF ListedInv, CommandInv, Write
<1>2. cmd[p].cfg \in Seq(Entry) /\ mine \subseteq 1..ids /\ ids \in Nat
  BY <1>1 DEF Types, Command
<1>3. CASE /\ file' \in Partial(cmd[p].cfg) /\ intact' = FALSE /\ mine' = mine
  BY <1>1, <1>2, <1>3, PartialType, WrittenStep
<1>4. CASE /\ file' \in {File(cmd[p].cfg)} \cup (IF file = File(<<>>) THEN {} ELSE {Broken})
           /\ mine' = IF cmd[p].kind = "register" THEN mine \cup {cmd[p].id} ELSE mine
           /\ intact' = intact
  <2>1. file'.state \in {"ok", "broken"} /\ file'.runners \in Seq(Entry)
    <3>1. File(cmd[p].cfg).state = "ok" /\ File(cmd[p].cfg).runners \in Seq(Entry)
      BY <1>2 DEF File
    <3>2. Broken.state = "broken" /\ Broken.runners \in Seq(Entry)
      BY DEF Broken
    <3> QED
      BY <1>4, <3>1, <3>2
  <2>2. ASSUME intact PROVE Listed(Owed(p), NamesOf(file'.runners))
    <3>1. KnowsAt(p)
      BY <1>1, <2>2, Alone DEF Idle
    <3>2. file' = File(cmd[p].cfg)
      BY <1>1, <1>4, <3>1 DEF KnowsAt
    <3> QED
      BY <1>1, <3>1, <3>2 DEF KnowsAt, File
  <2>3. mine' = Owed(p)
    BY <1>4 DEF Owed
  <2>4. mine' \subseteq 1..ids
    <3>1. cmd[p].id \in 0..ids /\ (cmd[p].kind = "register" => cmd[p].id # 0)
      BY <1>1 DEF CommandAt
    <3>2. cmd[p].kind = "register" => cmd[p].id \in 1..ids
      BY <1>2, <3>1
    <3> QED
      BY <1>2, <1>4, <3>2
  <2> QED
    BY <1>1, <1>4, <2>1, <2>2, <2>3, <2>4, WrittenStep DEF Types
<1> QED
  BY <1>3, <1>4 DEF Write

LEMMA CrashStep ==
  ASSUME ListedInv, NEW p \in Procs, Crash(p)
  PROVE  ListedInv'
<1>1. Types /\ ~Idle(p) /\ Return(p) /\ UNCHANGED <<github, ids, mine>>
  BY DEF ListedInv, Crash
<1>2. GitHubStep
  BY <1>1, RunnersGo
<1>3. CASE pc[p] = "write"
  <2>1. cmd[p].cfg \in Seq(Entry) /\ mine \subseteq 1..ids
    BY <1>1 DEF Types, Command
  <2>2. file' \in Partial(cmd[p].cfg) /\ intact' = FALSE
    BY <1>3 DEF Crash
  <2> QED
    BY <1>1, <1>3, <2>1, <2>2, PartialType, WrittenStep
<1>4. CASE pc[p] # "write"
  <2>1. pc[p] \in {"register", "loop", "remove", "create"} /\ UNCHANGED <<file, intact, mine>>
    BY <1>1, <1>4 DEF Types, Idle, Crash
  <2> QED
    BY <1>1, <1>2, <2>1, AbandonStep
<1> QED
  BY <1>3, <1>4

\* Steps of nobody's command.
LEMMA OtherStep ==
  ASSUME ListedInv, UNCHANGED <<github, ids, pc, cmd, mine, intact>>,
         file' = file \/ \A p \in Procs : Idle(p),
         file'.state \in {"absent", "ok", "broken"}, file'.runners \in Seq(Entry),
         NamesOf(file'.runners) = NamesOf(file.runners)
  PROVE  ListedInv'
<1>1. Types'
  BY DEF ListedInv, Types
<1>2. GitHubInv' /\ CommandInv' /\ StillListed'
  BY DEF ListedInv, GitHubInv, CommandInv, CommandAt, StillListed, Writing
<1>3. ASSUME intact' PROVE KnowsInv'
  <2>1. KnowsInv
    BY <1>3 DEF ListedInv
  <2>2. \A p \in Procs : Owed(p)' = Owed(p)
    BY DEF Owed
  <2>3. \A p \in Procs : KnowsAt(p)'
    BY <2>1, <2>2 DEF KnowsInv, KnowsAt, Listed, Idle
  <2> QED
    BY <2>1, <2>3 DEF KnowsInv, Idle
<1> QED
  BY <1>1, <1>2, <1>3 DEF ListedInv

LEMMA EditStep ==
  ASSUME ListedInv, Edit
  PROVE  ListedInv'
<1>1. PICK rs \in Seq(Entry) : rs = file.runners
  BY DEF ListedInv, Types
<1>2. PICK new : new = [i \in 1..Len(rs) |-> [rs[i] EXCEPT !.complete = TRUE]]
  OBVIOUS
<1>3. \A e \in Entry :
        [e EXCEPT !.complete = TRUE] \in Entry /\ [e EXCEPT !.complete = TRUE].name = e.name
  BY DEF Entry
<1>4. \A i \in 1..Len(rs) : rs[i] \in Entry
  OBVIOUS
<1>5. \A i \in 1..Len(rs) : new[i] \in Entry /\ new[i].name = rs[i].name
  BY <1>2, <1>3, <1>4
<1>6. new = [i \in 1..Len(rs) |-> new[i]]
  BY <1>2
<1>7. new \in Seq(Entry) /\ NamesOf(new) = NamesOf(rs)
  BY <1>5, <1>6, NamesKept
<1>8. file'.state = "ok" /\ file'.runners = new
  BY <1>1, <1>2 DEF Edit, File
<1> QED
  BY <1>1, <1>7, <1>8, OtherStep DEF Edit

LEMMA DaemonStep ==
  ASSUME ListedInv, UNCHANGED fileVars
  PROVE  ListedInv'
<1>1. UNCHANGED <<file, github, ids, pc, cmd, mine, intact>>
  BY DEF fileVars
<1>2. file'.state \in {"absent", "ok", "broken"} /\ file'.runners \in Seq(Entry)
  BY <1>1 DEF ListedInv, Types
<1> QED
  BY <1>1, <1>2, OtherStep

LEMMA ListedNext ==
  ASSUME OnePage, ListedInv, [Next]_vars
  PROVE  ListedInv'
<1>1. ASSUME NEW p \in Procs, NEW n \in Names, Register(p, n) PROVE ListedInv'
  BY <1>1, RegisterStep
<1>2. ASSUME NEW p \in Procs, NEW n \in Names, NEW override \in BOOLEAN,
             Unregister(p, "unregister", n, override) \/ Unregister(p, "unregisterAll", n, override)
      PROVE  ListedInv'
  BY <1>2, UnregisterStep
<1>3. ASSUME NEW p \in Procs, RegisterCall(p) \/ Find(p)
      PROVE  ListedInv'
  BY <1>3, RegisterCallStep, FindStep
<1>4. ASSUME NEW p \in Procs, Keep(p) \/ Remove(p) \/ Removed(p)
      PROVE  ListedInv'
  BY <1>4, KeepStep, RemoveStep, RemovedStep
<1>5. ASSUME NEW p \in Procs, Create(p) \/ Write(p) \/ Crash(p)
      PROVE  ListedInv'
  BY <1>5, CreateStep, WriteStep, CrashStep
<1>6. CASE Edit
  BY <1>6, EditStep
<1>7. CASE Start \/ Stop
  BY <1>7, DaemonStep DEF Start, Stop
<1>8. ASSUME NEW d \in daemons, Exit(d) \/ Kill(d) PROVE ListedInv'
  BY <1>8, DaemonStep DEF Exit, Kill
<1>9. CASE UNCHANGED vars
  BY <1>9, DaemonStep DEF vars, fileVars
<1> QED
  BY <1>1, <1>2, <1>3, <1>4, <1>5, <1>6, <1>7, <1>8, <1>9 DEF Next

\* As long as GitHub's answer to ListRunners has every runner, one that was registered
\* stays in the configuration file while it is registered (register, unregister, saveConfig).
THEOREM RunnersStayListed ==
  ASSUME OnePage
  PROVE  Spec => []StillListed
<1>1. Init => ListedInv
  BY ListedInit
<1>2. ListedInv /\ [Next]_vars => ListedInv'
  BY ListedNext
<1>3. ListedInv => StillListed
  BY DEF ListedInv
<1> QED
  BY <1>1, <1>2, <1>3, PTL DEF Spec
=============================================================================
