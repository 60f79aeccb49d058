------------------------------ MODULE Launcher ------------------------------
(***************************************************************************)
(* scripts/v41-tuned-tp4.sh: one run of the script that brings the service  *)
(* up over ssh, against nodes that change under it. Every ssh call may be   *)
(* lost, and a command may fail on the node it reached; the script ignores  *)
(* the status of all of them. The containers, the memory guard              *)
(* (v41-mg-load.sh, not in the repository) and the server's readiness are   *)
(* modelled by what the script can see of them.                             *)
(***************************************************************************)
EXTENDS Integers, FiniteSets

CONSTANTS
  Nodes,      \* length of NODE_ROCE (the loops are written for four); 0 is the head
  PollN,      \* POLL_N
  MaxFaults,  \* bound: ssh calls that are lost, or fail on their node
  NotYet      \* no exit status, no answer yet

ASSUME LauncherAssumption ==
  /\ Nodes \in Nat \ {0} /\ PollN \in Nat \ {0} /\ MaxFaults \in Nat
  /\ NotYet \notin 0 .. 3

Ranks == 0 .. Nodes - 1

VARIABLES
  phase,       \* the script's section, and the half of a polling turn
  rank,        \* the rank the section's loop is at
  turn,        \* the polling turn
  exit,        \* the script's exit status, NotYet while it runs
  guard,       \* [rank -> the memory guard runs there]
  container,   \* [rank -> the container called $NAME: which launch made it, its status]
  serving,     \* the head's /v1/models lists the served name
  lost,        \* history: <<section, rank>> of the ssh calls that were lost
  failed,      \* history: <<section, rank>> of the calls that removed nothing on their node
  guardSeen,   \* history: [rank -> the guard ran when the script checked it]
  answeredBy   \* history: which launch's head answered the last successful probe

launchVars ==
  <<phase, rank, turn, exit, guard, container, serving, lost, failed, guardSeen, answeredBy>>

\* "stuck" is any other status docker knows: created, removing, dead.
Absent == [made |-> "none", status |-> "absent"]
Containers == {Absent} \cup [made : {"before", "now"}, status : {"running", "exited", "stuck"}]
Running(r) == container[r].status = "running"

LaunchInit ==
  /\ phase = "guard"
  /\ rank = 0
  /\ turn = 1
  /\ exit = NotYet
  /\ guard \in [Ranks -> BOOLEAN]
  /\ container \in [Ranks -> {Absent} \cup [made : {"before"}, status : {"running", "exited"}]]
  /\ serving \in BOOLEAN
  /\ serving => \A r \in Ranks : Running(r)
  /\ lost = {}
  /\ failed = {}
  /\ guardSeen = [r \in Ranks |-> FALSE]
  /\ answeredBy = NotYet

Faults == Cardinality(lost) + Cardinality(failed)
Ssh(call) ==
  \/ UNCHANGED lost
  \/ Faults < MaxFaults /\ lost' = lost \cup {call}
Reached(call) == call \notin lost'

Stop(status) == exit' = status /\ phase' = "done"
Go(p, r) == phase' = p /\ rank' = r /\ exit' = exit

nodes == <<guard, container, serving>>

\* pgrep -f leaves out only itself: the remote shell that runs it has the pattern
\* in its own command line, so it matches whether or not the guard runs.
Matches(r) == {"remote shell"} \cup (IF guard[r] THEN {"guard"} ELSE {})
GuardAnswer(r) ==
  IF ~Reached(<<"guard", r>>) THEN ""
  ELSE IF Matches(r) # {} THEN "guard-on" ELSE "GUARD-OFF"

GuardCheck ==
  /\ phase = "guard"
  /\ Ssh(<<"guard", rank>>)
  /\ guardSeen' = [guardSeen EXCEPT ![rank] = guard[rank]]
  /\ IF GuardAnswer(rank) = "GUARD-OFF" THEN Stop(3) /\ UNCHANGED rank
     ELSE IF rank = Nodes - 1 THEN Go("clear", 0)
     ELSE Go("guard", rank + 1)
  /\ UNCHANGED <<turn, nodes, failed, answeredBy>>

Becomes(r, c) == container' = [container EXCEPT ![r] = c]
Removed(r) == Becomes(r, Absent) /\ UNCHANGED failed

\* docker rm -f ... || true: it may have stopped the container, or not even that.
NotRemoved(call, r) ==
  /\ Faults < MaxFaults /\ failed' = failed \cup {call}
  /\ \/ UNCHANGED container
     \/ /\ container[r] # Absent
        /\ \E s \in {"exited", "stuck"} : Becomes(r, [container[r] EXCEPT !.status = s])

RunScript_NoRm(r) ==
  \/ container[r] = Absent /\ Becomes(r, [made |-> "now", status |-> "running"]) /\ UNCHANGED failed
  \/ UNCHANGED <<container, failed>>
\* The script is written to /tmp and run: docker rm -f, then docker run of the same
\* name, which fails or leaves a container that does not run; beside an old container
\* it does nothing. A script that cannot be written is not run.
RunScript(r) ==
  \/ /\ \E s \in {"running", "stuck"} : Becomes(r, [made |-> "now", status |-> s])
     /\ UNCHANGED failed
  \/ Removed(r)
  \/ NotRemoved(<<"start", r>>, r)
HeadStops(r) == serving' = (serving /\ ~(r = 0 /\ container'[0] # container[0]))

ClearRank(r) == Removed(r) \/ NotRemoved(<<"clear", r>>, r)
Clear_SkipsHead ==
  /\ phase = "clear"
  /\ Ssh(<<"clear", rank>>)
  /\ IF Reached(<<"clear", rank>>) /\ rank # 0 THEN ClearRank(rank)
     ELSE UNCHANGED <<container, failed>>
  /\ HeadStops(rank)
  /\ IF rank = Nodes - 1 THEN Go(IF Nodes = 1 THEN "head" ELSE "workers", Nodes - 1)
     ELSE Go("clear", rank + 1)
  /\ UNCHANGED <<turn, guard, guardSeen, answeredBy>>
Clear ==
  /\ phase = "clear"
  /\ Ssh(<<"clear", rank>>)
  /\ IF Reached(<<"clear", rank>>) THEN ClearRank(rank) ELSE UNCHANGED <<container, failed>>
  /\ HeadStops(rank)
  /\ IF rank = Nodes - 1 THEN Go(IF Nodes = 1 THEN "head" ELSE "workers", Nodes - 1)
     ELSE Go("clear", rank + 1)
  /\ UNCHANGED <<turn, guard, guardSeen, answeredBy>>

\* Workers TP-1 .. 1, then the head; nothing looks at what became of them.
Start ==
  /\ phase \in {"workers", "head"}
  /\ Ssh(<<"start", rank>>)
  /\ IF Reached(<<"start", rank>>) THEN RunScript(rank) ELSE UNCHANGED <<container, failed>>
  /\ HeadStops(rank)
  /\ CASE phase = "head" -> Go("probe", 0)
       [] phase = "workers" /\ rank = 1 -> Go("head", 0)
       [] OTHER -> Go("workers", rank - 1)
  /\ UNCHANGED <<turn, guard, guardSeen, answeredBy>>

\* One polling turn: does /v1/models name the model, and has the head exited?
Probe ==
  /\ phase = "probe"
  /\ Ssh(<<"probe", turn>>)
  /\ IF Reached(<<"probe", turn>>) /\ serving
     THEN Stop(0) /\ UNCHANGED rank /\ answeredBy' = container[0].made
     ELSE Go("inspect", 0) /\ UNCHANGED answeredBy
  /\ UNCHANGED <<turn, nodes, failed, guardSeen>>

HeadExited == container[0].status = "exited"

Inspect_NoCount ==
  /\ phase = "inspect"
  /\ Ssh(<<"inspect", turn>>)
  /\ IF Reached(<<"inspect", turn>>) /\ HeadExited THEN Stop(1) /\ UNCHANGED rank
     ELSE Go("probe", 0)
  /\ UNCHANGED <<turn, nodes, failed, guardSeen, answeredBy>>
Inspect_OneTurnMore ==
  /\ phase = "inspect"
  /\ Ssh(<<"inspect", turn>>)
  /\ IF Reached(<<"inspect", turn>>) /\ HeadExited THEN Stop(1) /\ UNCHANGED <<rank, turn>>
     ELSE IF turn > PollN THEN Stop(2) /\ UNCHANGED <<rank, turn>>
     ELSE Go("probe", 0) /\ turn' = turn + 1
  /\ UNCHANGED <<nodes, failed, guardSeen, answeredBy>>
Inspect ==
  /\ phase = "inspect"
  /\ Ssh(<<"inspect", turn>>)
  /\ IF Reached(<<"inspect", turn>>) /\ HeadExited THEN Stop(1) /\ UNCHANGED <<rank, turn>>
     ELSE IF turn = PollN THEN Stop(2) /\ UNCHANGED <<rank, turn>>
     ELSE Go("probe", 0) /\ turn' = turn + 1
  /\ UNCHANGED <<nodes, failed, guardSeen, answeredBy>>

\* Nothing bounds a remote command, or a connection that dies once it is set up:
\* ConnectTimeout covers the connecting only.
CallHangs ==
  /\ phase \notin {"done", "hung"}
  /\ phase' = "hung"
  /\ UNCHANGED <<rank, turn, exit, nodes, lost, failed, guardSeen, answeredBy>>

Script == GuardCheck \/ Clear \/ Start \/ Probe \/ Inspect

-----------------------------------------------------------------------------
(* The nodes.                                                               *)

script == <<phase, rank, turn, exit, lost, failed, guardSeen, answeredBy>>

GuardDies(r) ==
  /\ guard[r]
  /\ guard' = [guard EXCEPT ![r] = FALSE]
  /\ UNCHANGED <<script, container, serving>>

\* A container exits: it crashed, or the guard killed it. --restart no: it stays so.
ContainerExits(r) ==
  /\ Running(r)
  /\ Becomes(r, [container[r] EXCEPT !.status = "exited"])
  /\ serving' = (serving /\ r # 0)
  /\ UNCHANGED <<script, guard>>

\* The head answers once every rank of its own launch has joined it.
HeadReady ==
  /\ ~serving
  /\ \A r \in Ranks : Running(r) /\ container[r].made = container[0].made
  /\ serving' = TRUE
  /\ UNCHANGED <<script, guard, container>>

Environment == HeadReady \/ \E r \in Ranks : GuardDies(r) \/ ContainerExits(r)

LaunchNext == Script \/ CallHangs \/ Environment
LaunchSpec == LaunchInit /\ [][LaunchNext]_launchVars

\* The script runs on whatever the nodes do, except when a call hangs.
FairLaunchSpec == LaunchSpec /\ WF_launchVars(Script)

-----------------------------------------------------------------------------
(* Properties                                                               *)

\* The types of the variables; the status is set exactly when the script is over.
LaunchTypeOK ==
  /\ phase \in {"guard", "clear", "workers", "head", "probe", "inspect", "done", "hung"}
  /\ rank \in Ranks
  /\ turn \in 1 .. PollN
  /\ exit \in {NotYet, 0, 1, 2, 3}
  /\ (exit # NotYet) = (phase = "done")
  /\ guard \in [Ranks -> BOOLEAN]
  /\ container \in [Ranks -> Containers]
  /\ serving => Running(0)
  /\ answeredBy \in {NotYet, "before", "now"}

Undone == lost \cup failed
StartCalled(r) == phase \in {"probe", "inspect", "done"} \/ (phase \in {"workers", "head"} /\ r > rank)

\* "OK: UP" is never the previous deployment answering, unless both calls that should
\* have removed its head, at [1/4] and at [3/4], were lost or failed on the node; one
\* of them is enough, and a docker run that failed on the head is never reported as
\* success.
OkIsThisLaunch ==
  exit = 0 => answeredBy = "now" \/ {<<"clear", 0>>, <<"start", 0>>} \subseteq Undone

\* From the first docker run on, a rank that still has the previous deployment's
\* container is one whose clearing call was lost or failed there; once its own start
\* was called, one for which that call was, too.
OldOutlivesItsCalls ==
  phase \in {"workers", "head", "probe", "inspect"} =>
    \A r \in Ranks : container[r].made = "before" =>
      <<"clear", r>> \in Undone /\ (StartCalled(r) => <<"start", r>> \in Undone)

\* The script always ends, whatever its calls return, if they do return.
ScriptEnds == <>(exit # NotYet \/ phase = "hung")

\* docs/10-troubleshooting.md:37 of "[0/4] guard check": the guard not on duty
\* means exit 3. No node is cleared or started unless its guard ran when checked.
GuardGate == phase \in {"clear", "workers", "head"} => \A r \in Ranks : guardSeen[r]
=============================================================================
