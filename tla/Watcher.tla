------------------------------ MODULE Watcher ------------------------------
(***************************************************************************)
(* The configuration watcher (internal/config/watcher.go): the goroutine   *)
(* of Run, which turns file events into a debounce timer, and the          *)
(* goroutines the timers start, which load the file, validate it and call  *)
(* back with it.  Stopping a timer that has fired does nothing, so several *)
(* of them may be under way.                                               *)
(*                                                                         *)
(* The file changes as the commands of this program change it (emptied,    *)
(* then written, perhaps in pieces) or as editors do (replaced).  fsnotify *)
(* watches the file that had the name when the watcher was made.           *)
(*                                                                         *)
(* No name is one of Registration, the other side of the file, so that a   *)
(* module can extend both.                                                 *)
(***************************************************************************)
EXTENDS Naturals, Sequences, FiniteSets

CONSTANTS
  WatchFaults, \* what may go wrong, among WatchFaultKinds
  MaxChanges   \* bound on the changes of the file, and so on the timers

WatchFaultKinds == {"replace",  \* another file is renamed to the watched name
                    "overflow", \* the kernel drops an event and says so
                    "cut"}      \* a writer dies before it has written everything

ASSUME WatcherAssumption == MaxChanges \in Nat /\ WatchFaults \subseteq WatchFaultKinds

Timers == 1..MaxChanges
NoTimer == 0

VARIABLES
  disk,        \* what the file holds: a version, how much of it, whether it validates
  events,      \* the events fsnotify has for Run, oldest first
  watching,    \* the file of that name is still the one fsnotify watches
  changes,     \* the changes made so far
  run,         \* where Run is
  ctxDone,     \* Run's context is done
  stopped,     \* w.stopped
  timer,       \* the local of that name: the last timer made
  task,        \* each timer and the reload it starts
  loaded,      \* what each reload has loaded
  current,     \* what the last callback was given
  noticed,     \* the last change was no dropped event (no part of the program)
  undisturbed, \* the last reload to start ran while no other did (likewise)
  begun,       \* the reloads that had passed the stopped flag when Run returned (likewise)
  late         \* the reloads that have called back since (likewise)

ghosts == <<noticed, undisturbed, begun, late>>

diskVars == <<disk, changes>>
watchVars == <<run, ctxDone, stopped, timer>>
watcherVars == <<diskVars, events, watching, watchVars, task, loaded, current, ghosts>>

Content == [version : 0..MaxChanges, part : {"nothing", "some", "all"}, valid : BOOLEAN]

Events == {"write", "other", "error"}

\* A timer is armed until it is stopped or fires; then reload runs: the stopped flag,
\* Load, Validate and the callback.
TaskState == {"unused", "armed", "cancelled", "check", "load", "validate", "done"}

WatchTypeOK ==
  /\ disk \in Content /\ changes \in 0..MaxChanges
  /\ events \in Seq(Events)
  /\ watching \in BOOLEAN /\ noticed \in BOOLEAN /\ undisturbed \in BOOLEAN
  /\ run \in {"select", "returned"} /\ ctxDone \in BOOLEAN /\ stopped \in BOOLEAN
  /\ timer \in Timers \cup {NoTimer}
  /\ task \in [Timers -> TaskState]
  /\ loaded \in [Timers -> Content] /\ current \in Content
  /\ begun \subseteq Timers /\ late \subseteq Timers

First == [version |-> 0, part |-> "all", valid |-> TRUE]

\* NewWatcher: the configuration in use is the one in the file.
WatchInit ==
  /\ disk = First /\ changes = 0
  /\ events = <<>> /\ watching = TRUE
  /\ run = "select" /\ ctxDone = FALSE /\ stopped = FALSE /\ timer = NoTimer
  /\ task = [n \in Timers |-> "unused"]
  /\ loaded = [n \in Timers |-> First] /\ current = First
  /\ noticed = TRUE /\ undisturbed = TRUE /\ begun = {} /\ late = {}

-----------------------------------------------------------------------------
\* The file.  fsnotify reports what happens to the file it watches.

Notify(e) ==
  IF ~watching
    THEN UNCHANGED <<events, noticed>>
    ELSE \/ events' = Append(events, e) /\ noticed' = TRUE
         \/ "overflow" \in WatchFaults /\ events' = Append(events, "error") /\ noticed' = FALSE

Change(content, e) ==
  /\ changes < MaxChanges
  /\ changes' = changes + 1
  /\ disk' = content
  /\ Notify(e)
  /\ UNCHANGED <<watchVars, task, loaded, current, undisturbed, begun, late>>

\* saveConfig's os.Create: an empty file does not validate.
Truncate ==
  /\ disk.part = "all"
  /\ Change([version |-> disk.version + 1, part |-> "nothing", valid |-> FALSE], "write")
  /\ UNCHANGED watching

\* The encoder writes its buffer whenever it is full: part of a configuration may
\* validate.  The whole of it may not.
WriteMore ==
  /\ disk.part # "all"
  /\ \E all, ok \in BOOLEAN :
       /\ all \/ "cut" \in WatchFaults
       /\ Change([version |-> disk.version, part |-> IF all THEN "all" ELSE "some", valid |-> ok],
                 "write")
  /\ UNCHANGED watching

\* An editor writes another file and renames it; what fsnotify sees of the one it
\* watches is that its attributes change and that it is gone.
Replace ==
  /\ "replace" \in WatchFaults /\ disk.part = "all"
  /\ \E ok \in BOOLEAN :
       Change([version |-> disk.version + 1, part |-> "all", valid |-> ok], "other")
  /\ watching' = FALSE

-----------------------------------------------------------------------------
\* Run.

Cancel ==
  /\ ~ctxDone
  /\ ctxDone' = TRUE
  /\ UNCHANGED <<diskVars, events, watching, run, stopped, timer, task, loaded, current,
                 ghosts>>

\* Neither a write nor a create, or an error, which is logged.
IgnoreEvent ==
  /\ run = "select" /\ events # <<>> /\ Head(events) # "write"
  /\ events' = Tail(events)
  /\ UNCHANGED <<diskVars, watching, watchVars, task, loaded, current, ghosts>>

\* Wrong on purpose: the first timer is stopped and not made again.
RearmedOnce == IF timer = NoTimer THEN [task EXCEPT ![1] = "armed"]
               ELSE [task EXCEPT ![timer] = IF @ = "armed" THEN "cancelled" ELSE @]

\* timer.Stop, without effect on one that has fired, and a new timer.
Rearmed ==
  [ n \in Timers |-> IF n = timer + 1 THEN "armed"
                     ELSE IF n = timer /\ task[n] = "armed" THEN "cancelled"
                     ELSE task[n] ]

HandleEvent ==
  /\ run = "select" /\ events # <<>> /\ Head(events) = "write"
  /\ events' = Tail(events)
  /\ task' = Rearmed
  /\ timer' = timer + 1
  /\ UNCHANGED <<diskVars, watching, run, ctxDone, stopped, loaded, current, ghosts>>

\* The deferred function sets the flag and closes fsnotify's watcher; an armed timer
\* stays armed.
RunReturns ==
  /\ run = "select" /\ ctxDone
  /\ run' = "returned" /\ stopped' = TRUE
  /\ begun' = {n \in Timers : task[n] \in {"load", "validate"}}
  /\ UNCHANGED <<diskVars, events, watching, ctxDone, timer, task, loaded, current,
                 noticed, undisturbed, late>>

Run == IgnoreEvent \/ HandleEvent \/ RunReturns

-----------------------------------------------------------------------------
\* reload.

InReload == {n \in Timers : task[n] \in {"check", "load", "validate"}}

\* The timer fires and starts a goroutine.
Fire(n) ==
  /\ task[n] = "armed"
  /\ task' = [task EXCEPT ![n] = "check"]
  /\ undisturbed' = (InReload = {})
  /\ UNCHANGED <<diskVars, events, watching, watchVars, loaded, current, noticed, begun, late>>

\* Wrong on purpose: the flag is not looked at.
MayReloadAlways == TRUE

MayReload == ~stopped

CheckStopped(n) ==
  /\ task[n] = "check"
  /\ task' = [task EXCEPT ![n] = IF MayReload THEN "load" ELSE "done"]
  /\ UNCHANGED <<diskVars, events, watching, watchVars, loaded, current, ghosts>>

LoadFile(n) ==
  /\ task[n] = "load"
  /\ loaded' = [loaded EXCEPT ![n] = disk]
  /\ task' = [task EXCEPT ![n] = "validate"]
  /\ UNCHANGED <<diskVars, events, watching, watchVars, current, ghosts>>

\* Validate and, unless it finds something, the callback.
Deliver(n) ==
  /\ task[n] = "validate"
  /\ task' = [task EXCEPT ![n] = "done"]
  /\ IF loaded[n].valid
       THEN /\ current' = loaded[n]
            /\ late' = IF stopped THEN late \cup {n} ELSE late
       ELSE UNCHANGED <<current, late>>
  /\ loaded' = [loaded EXCEPT ![n] = First]
  /\ UNCHANGED <<diskVars, events, watching, watchVars, noticed, undisturbed, begun>>

Reload(n) == CheckStopped(n) \/ LoadFile(n) \/ Deliver(n)

WatchNext ==
  \/ Truncate \/ WriteMore \/ Replace
  \/ Cancel
  \/ Run
  \/ \E n \in Timers : Fire(n) \/ Reload(n)

WatchSpec == WatchInit /\ [][WatchNext]_watcherVars

\* Goroutines are scheduled and timers fire.  Nothing makes writers finish, or the context
\* end.
FairSpec ==
  /\ WatchSpec
  /\ WF_watcherVars(Run)
  /\ \A n \in Timers : WF_watcherVars(Fire(n)) /\ WF_watcherVars(Reload(n))

-----------------------------------------------------------------------------
\* Safety.

\* Changes that follow each other closely are one reload: only the last timer is armed.
Coalesced == \A n \in Timers : task[n] = "armed" => n = timer

\* Once Run has returned, only a reload calls back that had passed the stopped flag by
\* then, although the timer is left armed and fires later.
LateOnlyIfBegun == late \subseteq begun

-----------------------------------------------------------------------------
\* Liveness, of FairSpec.

Watched == watching /\ noticed /\ ~ctxDone

\* The configuration in use follows the file: when the changes come to an end and what
\* is in the file validates, that is what the last callback was given, however reads
\* fell between the steps of a write.  A reload that overlaps another can be the last to
\* call back with an older version.
FollowsFile == <>[](Watched /\ undisturbed /\ disk.valid => current = disk)
=============================================================================
