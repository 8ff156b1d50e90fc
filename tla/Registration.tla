---------------------------- MODULE Registration ----------------------------
(***************************************************************************)
(* The commands that change what is registered (internal/cli): register    *)
(* and unregister keep GitHub's list of runners and the configuration file *)
(* in step, start runs what the file describes and stop ends it by the PID *)
(* file.                                                                   *)
(*                                                                         *)
(* A command loads the file, talks to GitHub and writes the whole file     *)
(* anew, in place: the old content is gone before the new is there.        *)
(***************************************************************************)
EXTENDS Naturals, Sequences, FiniteSets

CONSTANTS
  Procs,    \* the shells commands are typed into
  Names,    \* runner names
  PageSize, \* how many runners GitHub lists in an answer
  Faults,   \* what may go wrong, among FaultKinds
  MaxIds,   \* bound on the runners ever registered
  MaxPids   \* bound on the daemons ever started

FaultKinds == {"api",    \* GitHub refuses a request
               "lost",   \* a request takes effect but its answer is lost
               "write",  \* the configuration file cannot be opened or written in full
               "crash",  \* a command is interrupted
               "kill",   \* a daemon dies without running its deferred calls
               "client", \* the manager cannot make the client of a runner
               "env"}    \* a command runs without the variable the file refers to

ASSUME RegistrationAssumption ==
  /\ PageSize \in Nat \ {0} /\ MaxIds \in Nat /\ MaxPids \in Nat
  /\ Faults \subseteq FaultKinds

\* A [[runners]] entry: its token is given as ${VAR}, given as such, or empty; complete
\* says whether the fields of a Docker runner that register does not write (concurrency,
\* image) are set.
Entry == [name : Names, token : {"ref", "literal", "none"}, complete : BOOLEAN]

Absent == [state |-> "absent", runners |-> <<>>]
Broken == [state |-> "broken", runners |-> <<>>]
File(rs) == [state |-> "ok", runners |-> rs]

NoPid == 0

VARIABLES
  file,     \* the configuration file
  github,   \* the runners registered at GitHub
  ids,      \* the ids GitHub has given out
  pc,       \* where each command is
  cmd,      \* the command: what it does, to which name, and with which locals
  pids,     \* the process ids daemons had
  daemons,  \* the process ids of the running daemons
  term,     \* those among them that were sent SIGTERM
  pidFile,  \* the process id in the PID file
  mine,     \* the runners whose register command returned nil (no part of the program)
  intact,   \* no write of the file was cut short, no two commands overlapped (likewise)
  alone     \* no daemon was started while another one ran (likewise)

vars == <<file, github, ids, pc, cmd, pids, daemons, term, pidFile, mine, intact, alone>>
daemonVars == <<pids, daemons, term, pidFile, alone>>
fileVars == <<file, github, ids, pc, cmd, mine, intact>>

Runner == [name : Names, id : 1..MaxIds]

NoCmd == [kind |-> "none", name |-> "none", token |-> FALSE, cfg |-> <<>>, rest |-> <<>>, id |-> 0]

TypeOK ==
  /\ file.state \in {"absent", "ok", "broken"} /\ file.runners \in Seq(Entry)
  /\ github \subseteq Runner /\ ids \in 0..MaxIds
  /\ pc \in [Procs -> {"idle", "register", "loop", "remove", "create", "write"}]
  /\ \A p \in Procs :
       /\ cmd[p].kind \in {"none", "register", "unregister", "unregisterAll"}
       /\ cmd[p].cfg \in Seq(Entry) /\ cmd[p].rest \in Seq(Entry) /\ cmd[p].id \in 0..ids
  /\ pids \in 0..MaxPids /\ daemons \subseteq 1..pids /\ term \subseteq daemons /\ pidFile \in 0..pids
  /\ alone \in BOOLEAN /\ intact \in BOOLEAN
  /\ mine \subseteq 1..MaxIds

\* The operator may have written an entry by hand, as the documentation shows it, for a
\* runner registered before.
Init ==
  /\ \/ file = Absent /\ github = {} /\ ids = 0 /\ mine = {}
     \/ \E n \in Names :
          /\ file = File(<<[name |-> n, token |-> "ref", complete |-> TRUE]>>)
          /\ github = {[name |-> n, id |-> 1]} /\ ids = 1 /\ mine = {1}
  /\ pc = [p \in Procs |-> "idle"] /\ cmd = [p \in Procs |-> NoCmd]
  /\ pids = 0 /\ daemons = {} /\ term = {} /\ pidFile = NoPid /\ alone = TRUE
  /\ intact = TRUE

-----------------------------------------------------------------------------
\* The configuration file.

\* Load with interpolateEnv: a reference becomes the variable's value or, when it is
\* not set, the empty string.
Expand(e, set) ==
  IF e.token = "ref" THEN [e EXCEPT !.token = IF set THEN "literal" ELSE "none"] ELSE e

Load(set) == [i \in 1..Len(file.runners) |-> Expand(file.runners[i], set)]

\* Whether the environment a command runs in has the variable.
EnvSet == {TRUE} \cup (IF "env" \in Faults THEN {FALSE} ELSE {})

NamesOf(rs) == {rs[i].name : i \in 1..Len(rs)}

\* Validate, as far as the entries tell it apart.
Validate(rs) ==
  /\ rs # <<>>
  /\ Cardinality(NamesOf(rs)) = Len(rs)
  /\ \A i \in 1..Len(rs) : rs[i].token # "none" /\ rs[i].complete

-----------------------------------------------------------------------------
\* Steps common to register and unregister.

Goto(p, at) == pc' = [pc EXCEPT ![p] = at]

Idle(p) == pc[p] = "idle"

Return(p) == Goto(p, "idle") /\ cmd' = [cmd EXCEPT ![p] = NoCmd]

\* Commands overlap from the moment the second one reads the file.
Begin(p, at, c) ==
  /\ Idle(p)
  /\ Goto(p, at)
  /\ cmd' = [cmd EXCEPT ![p] = c]
  /\ intact' = (intact /\ \A q \in Procs \ {p} : Idle(q))
  /\ UNCHANGED <<file, github, ids, mine, daemonVars>>

\* A command ends with an error; the file is as it was.
Abandon(p) ==
  /\ Return(p)
  /\ UNCHANGED <<file, intact, daemonVars>>

\* os.Create: the file is emptied.  An empty file parses as one without runners.
Create(p) ==
  /\ pc[p] = "create"
  /\ \/ /\ file' = File(<<>>)
        /\ Goto(p, "write")
        /\ UNCHANGED <<intact, cmd, daemonVars>>
     \/ "write" \in Faults /\ Abandon(p)
  /\ UNCHANGED <<github, ids, mine>>

\* What an encoding cut short leaves: a prefix of the entries, or no TOML at all.
Partial(rs) == {Broken} \cup {File(SubSeq(rs, 1, n)) : n \in 0..Len(rs)}

\* The encoder's write.  What another command wrote since Create is overwritten from the
\* start, and what sticks out behind may or may not spoil the file.
Write(p) ==
  /\ pc[p] = "write"
  /\ \/ /\ file' \in {File(cmd[p].cfg)} \cup (IF file = File(<<>>) THEN {} ELSE {Broken})
        /\ mine' = IF cmd[p].kind = "register" THEN mine \cup {cmd[p].id} ELSE mine
        /\ UNCHANGED intact
     \/ /\ "write" \in Faults
        /\ file' \in Partial(cmd[p].cfg)
        /\ intact' = FALSE
        /\ UNCHANGED mine
  /\ Return(p)
  /\ UNCHANGED <<github, ids, daemonVars>>

\* The user interrupts a command.
Crash(p) ==
  /\ "crash" \in Faults /\ ~Idle(p)
  /\ IF pc[p] = "write"
       THEN file' \in Partial(cmd[p].cfg) /\ intact' = FALSE
       ELSE UNCHANGED <<file, intact>>
  /\ Return(p)
  /\ UNCHANGED <<github, ids, mine, daemonVars>>

-----------------------------------------------------------------------------
\* register

\* loadOrDefaultConfig: no file is no runners, a broken one is an error.
Register(p, n) ==
  /\ file.state # "broken"
  /\ \E set \in EnvSet :
       Begin(p, "register", [NoCmd EXCEPT !.kind = "register", !.name = n, !.cfg = Load(set)])

\* RegisterRunner.  GitHub gives a name once; a retry of a request whose answer was lost
\* is therefore refused.
RegisterCall(p) ==
  /\ pc[p] = "register"
  /\ LET n     == cmd[p].name
         taken == \E r \in github : r.name = n
         entry == [name |-> n, token |-> "literal", complete |-> FALSE]
     IN \/ /\ ~taken /\ ids < MaxIds
           /\ github' = github \cup {[name |-> n, id |-> ids + 1]}
           /\ ids' = ids + 1
           /\ \/ /\ cmd' = [cmd EXCEPT ![p].cfg = Append(@, entry), ![p].id = ids + 1]
                 /\ Goto(p, "create")
                 /\ UNCHANGED <<file, intact, daemonVars>>
              \/ "lost" \in Faults /\ Abandon(p)
        \/ /\ taken \/ "api" \in Faults
           /\ Abandon(p)
           /\ UNCHANGED <<github, ids>>
  /\ UNCHANGED mine

-----------------------------------------------------------------------------
\* unregister

\* One name or --all-runners; --token replaces the token of the entries.
Unregister(p, kind, n, override) ==
  /\ file.state = "ok" /\ file.runners # <<>>
  /\ \E set \in EnvSet :
       Begin(p, "loop", [NoCmd EXCEPT !.kind = kind, !.name = n, !.token = override, !.cfg = Load(set)])

Matches(p, e) == cmd[p].kind = "unregisterAll" \/ e.name = cmd[p].name

\* The loop over the entries: cfg holds those still to be looked at, rest is remaining.
Keep(p) ==
  /\ pc[p] = "loop" /\ cmd[p].cfg # <<>> /\ ~Matches(p, Head(cmd[p].cfg))
  /\ cmd' = [cmd EXCEPT ![p].cfg = Tail(@), ![p].rest = Append(@, Head(cmd[p].cfg))]
  /\ UNCHANGED <<file, github, ids, pc, mine, intact, daemonVars>>

\* The answer to ListRunners: one page, the oldest runners first.
FirstPage == {r \in github : Cardinality({q \in github : q.id < r.id}) < PageSize}

\* removeRunner up to the id: a runner that is not listed counts as removed.
Find(p) ==
  /\ pc[p] = "loop" /\ cmd[p].cfg # <<>> /\ Matches(p, Head(cmd[p].cfg))
  /\ LET e == Head(cmd[p].cfg)
         found == {r \in FirstPage : r.name = e.name}
         authorized == e.token # "none" \/ cmd[p].token
     IN \/ /\ authorized /\ found # {}
           /\ cmd' = [cmd EXCEPT ![p].id = (CHOOSE r \in found : TRUE).id]
           /\ Goto(p, "remove")
           /\ UNCHANGED <<file, intact, daemonVars>>
        \/ /\ authorized /\ found = {}
           /\ cmd' = [cmd EXCEPT ![p].cfg = Tail(@)]
           /\ UNCHANGED <<file, intact, pc, daemonVars>>
        \/ /\ ~authorized \/ Faults \cap {"api", "lost"} # {}
           /\ Abandon(p)
  /\ UNCHANGED <<github, ids, mine>>

\* Wrong on purpose: an error is logged and the loop goes on.
RemoveOrIgnore(p) ==
  /\ pc[p] = "remove"
  /\ github' \in {github, {r \in github : r.id # cmd[p].id}}
  /\ cmd' = [cmd EXCEPT ![p].cfg = Tail(@)]
  /\ Goto(p, "loop")
  /\ UNCHANGED <<file, ids, mine, intact, daemonVars>>

\* RemoveRunner.  A runner that is gone already is an error, also for a retry.
Remove(p) ==
  /\ pc[p] = "remove"
  /\ LET r == {x \in github : x.id = cmd[p].id}
     IN \/ /\ r # {}
           /\ github' = github \ r
           /\ \/ /\ cmd' = [cmd EXCEPT ![p].cfg = Tail(@)]
                 /\ Goto(p, "loop")
                 /\ UNCHANGED <<file, intact, daemonVars>>
              \/ "lost" \in Faults /\ Abandon(p)
        \/ /\ r = {} \/ "api" \in Faults
           /\ Abandon(p)
           /\ UNCHANGED github
  /\ UNCHANGED <<ids, mine>>

\* The loop is over; the entries that remain are saved.
Removed(p) ==
  /\ pc[p] = "loop" /\ cmd[p].cfg = <<>>
  /\ cmd' = [cmd EXCEPT ![p].cfg = cmd[p].rest]
  /\ Goto(p, "create")
  /\ UNCHANGED <<file, github, ids, mine, intact, daemonVars>>

-----------------------------------------------------------------------------
\* start and stop.

\* What start checks before it writes the PID file; that another daemon runs is no
\* obstacle.
Startable ==
  /\ pids < MaxPids
  /\ file.state = "ok" /\ \E set \in EnvSet : Validate(Load(set))

\* Wrong on purpose: a PID file that is there is left alone.
StartKeepsPidFile ==
  /\ Startable
  /\ pids' = pids + 1 /\ daemons' = daemons \cup {pids + 1}
  /\ pidFile' = IF pidFile = NoPid THEN pids + 1 ELSE pidFile
  /\ alone' = (alone /\ daemons = {})
  /\ UNCHANGED <<term, fileVars>>

\* start --pid-file: load, validate, write the PID file, start the manager.  If the write
\* fails the file is left empty and no daemon starts.
Start ==
  /\ Startable
  /\ \/ /\ pids' = pids + 1 /\ daemons' = daemons \cup {pids + 1}
        /\ pidFile' = pids + 1
     \/ "write" \in Faults /\ pidFile' = NoPid /\ UNCHANGED <<pids, daemons>>
  /\ alone' = (alone /\ daemons = {})
  /\ UNCHANGED <<term, fileVars>>

\* stop: the signal reaches the process of that id, if there still is one.
Stop ==
  /\ pidFile \in daemons
  /\ term' = term \cup {pidFile}
  /\ UNCHANGED <<pids, daemons, pidFile, alone, fileVars>>

\* The manager returns, when told to or because it cannot make a client, and the deferred
\* call removes the PID file, whatever it holds by now.
Exit(d) ==
  /\ d \in term \/ "client" \in Faults
  /\ daemons' = daemons \ {d} /\ term' = term \ {d} /\ pidFile' = NoPid
  /\ UNCHANGED <<pids, alone, fileVars>>

\* SIGKILL, which is what stop --force sends, or a crash.
Kill(d) ==
  /\ "kill" \in Faults
  /\ daemons' = daemons \ {d} /\ term' = term \ {d}
  /\ UNCHANGED <<pids, pidFile, alone, fileVars>>

\* The operator adds what register left out of the entries.
Edit ==
  /\ file.state = "ok" /\ \A p \in Procs : Idle(p)
  /\ file' = File([i \in 1..Len(file.runners) |-> [file.runners[i] EXCEPT !.complete = TRUE]])
  /\ UNCHANGED <<github, ids, pc, cmd, mine, intact, daemonVars>>

Next ==
  \/ \E p \in Procs :
       \/ \E n \in Names :
            \/ Register(p, n)
            \/ \E override \in BOOLEAN :
                 Unregister(p, "unregister", n, override) \/ Unregister(p, "unregisterAll", n, override)
       \/ RegisterCall(p)
       \/ Keep(p) \/ Find(p) \/ Remove(p) \/ Removed(p)
       \/ Create(p) \/ Write(p) \/ Crash(p)
  \/ Start \/ Stop \/ Edit
  \/ \E d \in daemons : Exit(d) \/ Kill(d)

Spec == Init /\ [][Next]_vars

-----------------------------------------------------------------------------
\* Safety.

Writing == \E p \in Procs : pc[p] = "write"

\* Whatever requests fail or lose their answer and wherever a command is interrupted
\* outside the write itself, a runner whose registration succeeded stays in the file for
\* as long as it is registered: a failed unregister can be repeated and none is orphaned.
StillListed ==
  intact /\ ~Writing =>
    \A r \in github : r.id \in mine => r.name \in NamesOf(file.runners)

\* A running daemon can be stopped: the PID file names it, also when one that was killed
\* has left its own PID file behind.  Nothing but care keeps an operator from starting two
\* daemons on one PID file, which leaves one of them out of reach.
DaemonStoppable == alone => \A d \in daemons : pidFile = d
=============================================================================
