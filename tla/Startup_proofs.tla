--------------------------- MODULE Startup_proofs ---------------------------
(***************************************************************************)
(* How the service comes up: what the launch script promises of the nodes  *)
(* it starts containers on, and what the workers of a node promise of the  *)
(* checkpoint they load. The two share nothing but the moment.             *)
(***************************************************************************)
EXTENDS WeightLoader, Launcher, FiniteSetTheorems, TLAPS

-----------------------------------------------------------------------------
(* The launch script, for any number of nodes, of polling turns, and of ssh *)
(* calls that are lost or fail on their node: it never reports the previous *)
(* deployment's answer as its own, and it starts no container beside an old *)
(* one, unless the calls that should have removed it came to nothing.       *)

\* Where the loop of each section stands: the workers are started from the last
\* rank down to 1, the head is started and polled at rank 0.
RankInSection ==
  /\ phase = "workers" => rank >= 1
  /\ phase \in {"head", "probe", "inspect"} => rank = 0

Old(r) == container[r].made = "before"

\* The loop of [1/4] has cleared the ranks below the one it is at.
ClearedBelow == phase = "clear" => \A r \in 0 .. rank - 1 : Old(r) => <<"clear", r>> \in Undone

LaunchInv ==
  /\ LaunchTypeOK /\ RankInSection
  /\ ClearedBelow /\ OldOutlivesItsCalls
  /\ OkIsThisLaunch

-----------------------------------------------------------------------------
(* Facts about the steps *)

\* The head is one of the ranks.
LEMMA HeadIsRank == 0 \in Ranks
BY LauncherAssumption DEF Ranks

\* What a rank may hold: nothing, or a container of either launch, in any status.
LEMMA ContainerKinds ==
  /\ Absent \in Containers
  /\ \A m \in {"before", "now"}, s \in {"running", "exited", "stuck"} :
       [made |-> m, status |-> s] \in Containers
BY DEF Containers, Absent

\* A container that stops is of the launch that made it, and is still one.
LEMMA StoppedKind ==
  ASSUME NEW c \in Containers, c # Absent, NEW s \in {"exited", "stuck"}
  PROVE  [c EXCEPT !.status = s] \in Containers /\ [c EXCEPT !.status = s].made = c.made
<1>1. c \in [made : {"before", "now"}, status : {"running", "exited", "stuck"}]
  BY DEF Containers
<1>2. [c EXCEPT !.status = s] \in [made : {"before", "now"}, status : {"running", "exited", "stuck"}]
  BY <1>1
<1> QED
  BY <1>1, <1>2 DEF Containers

\* A lost call stays lost: an ssh call adds to the history or leaves it alone.
LEMMA SshKeeps ==
  ASSUME NEW call, Ssh(call) PROVE lost \subseteq lost' /\ (Reached(call) \/ call \in lost')
BY DEF Ssh, Reached

\* Whatever docker rm -f comes to on a node, an old container that is still there is
\* the one that was there, and the call counts as undone.
LEMMA RemovalKeeps ==
  ASSUME NEW call, NEW r \in Ranks, container \in [Ranks -> Containers],
         Removed(r) \/ NotRemoved(call, r)
  PROVE  /\ failed \subseteq failed'
         /\ container' \in [Ranks -> Containers]
         /\ \A q \in Ranks : q # r => container'[q] = container[q]
         /\ container'[r].made = "before" => Old(r) /\ call \in failed'
<1>1. CASE Removed(r)
  BY <1>1, ContainerKinds DEF Removed, Becomes, Old, Absent
<1>2. CASE NotRemoved(call, r)
  <2>1. failed' = failed \cup {call}
    BY <1>2 DEF NotRemoved
  <2>2. CASE container' = container
    BY <2>1, <2>2 DEF Old
  <2>3. ASSUME NEW s \in {"exited", "stuck"}, container[r] # Absent,
               container' = [container EXCEPT ![r] = [container[r] EXCEPT !.status = s]]
        PROVE  /\ container' \in [Ranks -> Containers]
               /\ \A q \in Ranks : q # r => container'[q] = container[q]
               /\ container'[r].made = "before" => Old(r)
    <3>1. /\ [container[r] EXCEPT !.status = s] \in Containers
          /\ [container[r] EXCEPT !.status = s].made = container[r].made
      BY <2>3, StoppedKind
    <3> QED
      BY <2>3, <3>1 DEF Old
  <2> QED
    BY <1>2, <2>1, <2>2, <2>3 DEF NotRemoved, Becomes
<1> QED
  BY <1>1, <1>2

\* So does the start script: a container it starts is of this launch.
LEMMA RunScriptKeeps ==
  ASSUME NEW r \in Ranks, container \in [Ranks -> Containers], RunScript(r)
  PROVE  /\ failed \subseteq failed'
         /\ container' \in [Ranks -> Containers]
         /\ \A q \in Ranks : q # r => container'[q] = container[q]
         /\ container'[r].made = "before" => Old(r) /\ <<"start", r>> \in failed'
<1>1. CASE Removed(r) \/ NotRemoved(<<"start", r>>, r)
  BY <1>1, RemovalKeeps
<1>2. ASSUME NEW s \in {"running", "stuck"}, Becomes(r, [made |-> "now", status |-> s]),
             failed' = failed
      PROVE  /\ failed \subseteq failed'
             /\ container' \in [Ranks -> Containers]
             /\ \A q \in Ranks : q # r => container'[q] = container[q]
             /\ container'[r].made = "before" => Old(r) /\ <<"start", r>> \in failed'
  <2>1. [made |-> "now", status |-> s] \in Containers
    BY ContainerKinds
  <2> QED
    BY <1>2, <2>1 DEF Becomes, Old
<1> QED
  BY <1>1, <1>2 DEF RunScript

\* The head that changes answers no more; another rank's container is not looked at.
LEMMA HeadStopsKeeps ==
  ASSUME NEW r \in Ranks, HeadStops(r), serving => Running(0),
         \A q \in Ranks : q # r => container'[q] = container[q]
  PROVE  (serving => Running(0))'
<1>1. CASE r = 0
  BY <1>1 DEF HeadStops, Running
<1>2. CASE r # 0
  BY <1>2, HeadIsRank DEF HeadStops, Running
<1> QED
  BY <1>1, <1>2

\* Before anything ran, nothing is cleared and nothing was reported.
LEMMA LaunchInitInv == LaunchInit => LaunchInv
<1> SUFFICES ASSUME LaunchInit PROVE LaunchInv
  OBVIOUS
<1>1. container \in [Ranks -> Containers]
  <2>1. {Absent} \cup [made : {"before"}, status : {"running", "exited"}] \subseteq Containers
    BY DEF Containers
  <2> QED
    BY <2>1 DEF LaunchInit
<1>2. LaunchTypeOK
  BY LauncherAssumption, <1>1, HeadIsRank DEF LaunchInit, LaunchTypeOK
<1> QED
  BY LauncherAssumption, <1>2
  DEF LaunchInit, LaunchInv, RankInSection, ClearedBelow, OldOutlivesItsCalls, OkIsThisLaunch

-----------------------------------------------------------------------------
(* Each step keeps the invariant *)

\* [0/4] touches no container; the loop of [1/4] begins with nothing below rank 0.
LEMMA GuardCheckInv == LaunchInv /\ GuardCheck => LaunchInv'
<1> SUFFICES ASSUME LaunchInv, GuardCheck PROVE LaunchInv'
  OBVIOUS
<1>1. /\ phase = "guard" /\ exit = NotYet
      /\ turn' = turn /\ container' = container /\ guard' = guard /\ serving' = serving
      /\ answeredBy' = answeredBy
  BY DEF GuardCheck, nodes, LaunchInv, LaunchTypeOK
<1>2. \/ phase' = "done" /\ exit' = 3 /\ rank' = rank
      \/ rank = Nodes - 1 /\ phase' = "clear" /\ rank' = 0 /\ exit' = exit
      \/ rank # Nodes - 1 /\ phase' = "guard" /\ rank' = rank + 1 /\ exit' = exit
  BY DEF GuardCheck, Stop, Go
<1>3. LaunchTypeOK'
  <2>1. rank' \in Ranks
    BY LauncherAssumption, <1>2 DEF LaunchInv, LaunchTypeOK, Ranks
  <2> QED
    BY LauncherAssumption, <1>1, <1>2, <2>1 DEF LaunchInv, LaunchTypeOK, Running
<1>4. (RankInSection /\ ClearedBelow /\ OldOutlivesItsCalls)'
  BY <1>2 DEF RankInSection, ClearedBelow, OldOutlivesItsCalls
<1>5. OkIsThisLaunch'
  BY LauncherAssumption, <1>1, <1>2 DEF OkIsThisLaunch
<1> QED
  BY <1>3, <1>4, <1>5 DEF LaunchInv

\* docker rm -f at one rank, lost or failing there; the ranks below keep what they had.
LEMMA ClearInv == LaunchInv /\ Clear => LaunchInv'
<1> SUFFICES ASSUME LaunchInv, Clear PROVE LaunchInv'
  OBVIOUS
<1>1. /\ phase = "clear" /\ exit = NotYet /\ rank \in Ranks
      /\ turn' = turn /\ guard' = guard /\ answeredBy' = answeredBy
      /\ container \in [Ranks -> Containers]
  BY DEF Clear, LaunchInv, LaunchTypeOK
<1>2. lost \subseteq lost' /\ (Reached(<<"clear", rank>>) \/ <<"clear", rank>> \in lost')
  BY SshKeeps DEF Clear
<1>3. /\ failed \subseteq failed'
      /\ container' \in [Ranks -> Containers]
      /\ \A q \in Ranks : q # rank => container'[q] = container[q]
      /\ container'[rank].made = "before" => <<"clear", rank>> \in Undone'
  <2>1. CASE ClearRank(rank)
    BY <1>1, <2>1, RemovalKeeps DEF ClearRank, Undone
  <2>2. CASE container' = container /\ failed' = failed /\ ~Reached(<<"clear", rank>>)
    BY <1>1, <1>2, <2>2 DEF Undone
  <2> QED
    BY <2>1, <2>2 DEF Clear
<1>4. exit' = exit
      /\ \/ rank = Nodes - 1 /\ Nodes = 1 /\ phase' = "head" /\ rank' = 0
         \/ rank = Nodes - 1 /\ Nodes > 1 /\ phase' = "workers" /\ rank' = Nodes - 1
         \/ rank # Nodes - 1 /\ phase' = "clear" /\ rank' = rank + 1
  BY LauncherAssumption DEF Clear, Go
<1>5. \A r \in 0 .. rank : Old(r)' => <<"clear", r>> \in Undone'
  <2> SUFFICES ASSUME NEW r \in 0 .. rank, Old(r)' PROVE <<"clear", r>> \in Undone'
    OBVIOUS
  <2>1. r \in Ranks
    BY LauncherAssumption, <1>1 DEF Ranks
  <2>2. CASE r = rank
    BY <1>3, <2>2 DEF Old
  <2>3. CASE r # rank
    <3>1. r \in 0 .. rank - 1 /\ container'[r] = container[r]
      BY LauncherAssumption, <1>1, <1>3, <2>1, <2>3 DEF Ranks
    <3>2. <<"clear", r>> \in Undone
      BY <1>1, <3>1 DEF Old, LaunchInv, ClearedBelow
    <3> QED
      BY <1>2, <1>3, <3>2 DEF Undone
  <2> QED
    BY <2>2, <2>3
<1>6. LaunchTypeOK'
  <2>1. rank' \in Ranks
    BY LauncherAssumption, <1>1, <1>4 DEF Ranks
  <2>2. (serving => Running(0))'
    BY <1>1, <1>3, HeadStopsKeeps DEF Clear, LaunchInv, LaunchTypeOK
  <2> QED
    BY <1>1, <1>3, <1>4, <2>1, <2>2 DEF LaunchInv, LaunchTypeOK
<1>7. RankInSection'
  BY LauncherAssumption, <1>4 DEF RankInSection
<1>8. ClearedBelow'
  BY <1>1, <1>4, <1>5 DEF ClearedBelow, Ranks, Old
<1>9. OldOutlivesItsCalls'
  <2> SUFFICES ASSUME phase' \in {"workers", "head"}, NEW r \in Ranks, Old(r)'
               PROVE  <<"clear", r>> \in Undone' /\ ~StartCalled(r)'
    BY <1>4 DEF OldOutlivesItsCalls, Old
  <2>1. rank = Nodes - 1 /\ r \in 0 .. rank
    BY <1>4 DEF Ranks
  <2> QED
    BY LauncherAssumption, <1>4, <1>5, <2>1 DEF StartCalled, Ranks
<1>10. OkIsThisLaunch'
  BY LauncherAssumption, <1>1, <1>4 DEF OkIsThisLaunch
<1> QED
  BY <1>6, <1>7, <1>8, <1>9, <1>10 DEF LaunchInv

\* A container started here is of this launch; an old one stays only where the call
\* was lost or failed.
LEMMA StartInv == LaunchInv /\ Start => LaunchInv'
<1> SUFFICES ASSUME LaunchInv, Start PROVE LaunchInv'
  OBVIOUS
<1>1. /\ phase \in {"workers", "head"} /\ exit = NotYet /\ rank \in Ranks
      /\ turn' = turn /\ guard' = guard /\ answeredBy' = answeredBy
      /\ container \in [Ranks -> Containers]
  BY DEF Start, LaunchInv, LaunchTypeOK
<1>2. lost \subseteq lost' /\ (Reached(<<"start", rank>>) \/ <<"start", rank>> \in lost')
  BY SshKeeps DEF Start
<1>3. /\ failed \subseteq failed'
      /\ container' \in [Ranks -> Containers]
      /\ \A q \in Ranks : q # rank => container'[q] = container[q]
      /\ container'[rank].made = "before" => Old(rank) /\ <<"start", rank>> \in Undone'
  <2>1. CASE RunScript(rank)
    BY <1>1, <2>1, RunScriptKeeps DEF Undone
  <2>2. CASE container' = container /\ failed' = failed /\ ~Reached(<<"start", rank>>)
    BY <1>1, <1>2, <2>2 DEF Undone, Old
  <2> QED
    BY <2>1, <2>2 DEF Start
<1>4. exit' = exit
      /\ \/ phase = "head" /\ phase' = "probe" /\ rank' = 0
         \/ phase = "workers" /\ rank = 1 /\ phase' = "head" /\ rank' = 0
         \/ phase = "workers" /\ rank # 1 /\ phase' = "workers" /\ rank' = rank - 1
  BY <1>1 DEF Start, Go
<1>5. LaunchTypeOK'
  <2>1. rank' \in Ranks
    BY LauncherAssumption, HeadIsRank, <1>1, <1>4 DEF Ranks, LaunchInv, RankInSection
  <2>2. (serving => Running(0))'
    BY <1>1, <1>3, HeadStopsKeeps DEF Start, LaunchInv, LaunchTypeOK
  <2> QED
    BY <1>1, <1>3, <1>4, <2>1, <2>2 DEF LaunchInv, LaunchTypeOK
<1>6. RankInSection'
  BY <1>1, <1>4 DEF RankInSection, LaunchInv, Ranks
<1>7. ASSUME NEW r \in Ranks, Old(r)'
      PROVE  <<"clear", r>> \in Undone' /\ (StartCalled(r)' => <<"start", r>> \in Undone')
  <2>1. Old(r) /\ (r = rank => <<"start", r>> \in Undone')
    BY <1>3, <1>7 DEF Old
  <2>2. <<"clear", r>> \in Undone /\ (StartCalled(r) => <<"start", r>> \in Undone)
    BY <1>1, <2>1 DEF LaunchInv, OldOutlivesItsCalls, Old
  <2>3. StartCalled(r)' => r = rank \/ StartCalled(r)
    BY <1>1, <1>4 DEF StartCalled, Ranks, LaunchInv, RankInSection
  <2>4. Undone \subseteq Undone'
    BY <1>2, <1>3 DEF Undone
  <2> QED
    BY <2>1, <2>2, <2>3, <2>4
<1>8. ClearedBelow' /\ OldOutlivesItsCalls' /\ OkIsThisLaunch'
  BY LauncherAssumption, <1>1, <1>4, <1>7
  DEF ClearedBelow, OldOutlivesItsCalls, OkIsThisLaunch, Old
<1> QED
  BY <1>5, <1>6, <1>8 DEF LaunchInv

\* Polling changes no container and no history but that of the lost calls.
LEMMA PollKeeps ==
  ASSUME LaunchInv, phase \in {"probe", "inspect"}, container' = container,
         failed' = failed, lost \subseteq lost', phase' \in {"probe", "inspect", "done"}
  PROVE  ClearedBelow' /\ OldOutlivesItsCalls'
<1>1. Undone \subseteq Undone'
  BY DEF Undone
<1>2. \A r \in Ranks : Old(r) => {<<"clear", r>>, <<"start", r>>} \subseteq Undone
  BY DEF LaunchInv, OldOutlivesItsCalls, StartCalled, Old
<1> QED
  BY <1>1, <1>2 DEF ClearedBelow, OldOutlivesItsCalls, Old

\* Whoever answers the probe runs on the head: this launch's container, or the old
\* one that outlived both calls.
LEMMA ProbeInv == LaunchInv /\ Probe => LaunchInv'
<1> SUFFICES ASSUME LaunchInv, Probe PROVE LaunchInv'
  OBVIOUS
<1>1. /\ phase = "probe" /\ exit = NotYet /\ rank = 0
      /\ turn' = turn /\ guard' = guard /\ container' = container /\ serving' = serving
      /\ failed' = failed
  BY DEF Probe, nodes, LaunchInv, LaunchTypeOK, RankInSection
<1>2. lost \subseteq lost'
  BY SshKeeps DEF Probe
<1>3. \/ /\ serving /\ phase' = "done" /\ exit' = 0 /\ rank' = rank
         /\ answeredBy' = container[0].made
      \/ phase' = "inspect" /\ rank' = 0 /\ exit' = exit /\ answeredBy' = answeredBy
  BY DEF Probe, Stop, Go
<1>4. ClearedBelow' /\ OldOutlivesItsCalls'
  BY <1>1, <1>2, <1>3, PollKeeps
<1>5. CASE serving /\ phase' = "done" /\ exit' = 0 /\ rank' = rank /\ answeredBy' = container[0].made
  <2>1. container[0] \in Containers /\ container[0].status = "running"
    BY HeadIsRank, <1>5 DEF LaunchInv, LaunchTypeOK, Running
  <2>2. container[0].made \in {"before", "now"}
    BY <2>1 DEF Containers, Absent
  <2>3. LaunchTypeOK'
    BY LauncherAssumption, <1>1, <1>5, <2>2 DEF LaunchInv, LaunchTypeOK, Running
  <2>4. OkIsThisLaunch'
    <3>1. container[0].made = "before" => {<<"clear", 0>>, <<"start", 0>>} \subseteq Undone
      BY <1>1, HeadIsRank DEF LaunchInv, OldOutlivesItsCalls, StartCalled
    <3> QED
      BY <1>1, <1>2, <1>5, <2>2, <3>1 DEF OkIsThisLaunch, Undone
  <2> QED
    BY <1>4, <1>5, <2>3, <2>4 DEF LaunchInv, RankInSection
<1>6. CASE phase' = "inspect" /\ rank' = 0 /\ exit' = exit /\ answeredBy' = answeredBy
  <2>1. LaunchTypeOK' /\ RankInSection' /\ OkIsThisLaunch'
    BY LauncherAssumption, HeadIsRank, <1>1, <1>6
    DEF LaunchInv, LaunchTypeOK, RankInSection, OkIsThisLaunch, Running
  <2> QED
    BY <1>4, <2>1 DEF LaunchInv
<1> QED
  BY <1>3, <1>5, <1>6

\* docker inspect changes nothing on the nodes and never ends the script with success.
LEMMA InspectInv == LaunchInv /\ Inspect => LaunchInv'
<1> SUFFICES ASSUME LaunchInv, Inspect PROVE LaunchInv'
  OBVIOUS
<1>1. /\ phase = "inspect" /\ exit = NotYet /\ rank = 0 /\ turn \in 1 .. PollN
      /\ guard' = guard /\ container' = container /\ serving' = serving
      /\ answeredBy' = answeredBy /\ failed' = failed
  BY DEF Inspect, nodes, LaunchInv, LaunchTypeOK, RankInSection
<1>2. lost \subseteq lost'
  BY SshKeeps DEF Inspect
<1>3. \/ phase' = "done" /\ exit' \in {1, 2} /\ rank' = rank /\ turn' = turn
      \/ turn # PollN /\ phase' = "probe" /\ rank' = 0 /\ exit' = exit /\ turn' = turn + 1
  BY DEF Inspect, Stop, Go
<1>4. LaunchTypeOK' /\ RankInSection' /\ OkIsThisLaunch'
  <2>1. turn' \in 1 .. PollN
    BY LauncherAssumption, <1>1, <1>3
  <2> QED
    BY LauncherAssumption, HeadIsRank, <1>1, <1>3, <2>1
    DEF LaunchInv, LaunchTypeOK, RankInSection, OkIsThisLaunch, Running
<1>5. ClearedBelow' /\ OldOutlivesItsCalls'
  BY <1>1, <1>2, <1>3, PollKeeps
<1> QED
  BY <1>4, <1>5 DEF LaunchInv

\* A call that never returns leaves the script unfinished, with nothing reported.
LEMMA CallHangsInv == LaunchInv /\ CallHangs => LaunchInv'
BY DEF LaunchInv, CallHangs, nodes, LaunchTypeOK, RankInSection, ClearedBelow,
   OldOutlivesItsCalls, OkIsThisLaunch, Old, Running, Undone

\* A node may lose its guard, its container may exit and the head may become ready;
\* none of this makes a container an old one.
LEMMA EnvironmentInv == LaunchInv /\ Environment => LaunchInv'
<1> SUFFICES ASSUME LaunchInv, Environment PROVE LaunchInv'
  OBVIOUS
<1>1. /\ phase' = phase /\ rank' = rank /\ turn' = turn /\ exit' = exit /\ lost' = lost
      /\ failed' = failed /\ answeredBy' = answeredBy
  BY DEF Environment, HeadReady, GuardDies, ContainerExits, script
<1>2. \A r \in Ranks : container'[r] \in Containers /\ container'[r].made = container[r].made
  <2>1. CASE container' = container
    BY <2>1 DEF LaunchInv, LaunchTypeOK
  <2>2. ASSUME NEW r \in Ranks, Running(r),
               container' = [container EXCEPT ![r] = [container[r] EXCEPT !.status = "exited"]]
        PROVE  \A q \in Ranks :
                 container'[q] \in Containers /\ container'[q].made = container[q].made
    <3>1. container[r] \in Containers /\ container[r] # Absent
      BY <2>2 DEF LaunchInv, LaunchTypeOK, Running, Absent
    <3>2. /\ [container[r] EXCEPT !.status = "exited"] \in Containers
          /\ [container[r] EXCEPT !.status = "exited"].made = container[r].made
      BY <3>1, StoppedKind
    <3> QED
      BY <2>2, <3>2 DEF LaunchInv, LaunchTypeOK
  <2> QED
    BY <2>1, <2>2
    DEF Environment, HeadReady, GuardDies, ContainerExits, Becomes, LaunchInv, LaunchTypeOK
<1>3. LaunchTypeOK'
  <2>1. CASE HeadReady
    BY HeadIsRank, <1>1, <2>1 DEF HeadReady, LaunchInv, LaunchTypeOK, Running
  <2>2. ASSUME NEW r \in Ranks, GuardDies(r) PROVE LaunchTypeOK'
    BY <1>1, <2>2 DEF GuardDies, LaunchInv, LaunchTypeOK, Running
  <2>3. ASSUME NEW r \in Ranks, ContainerExits(r) PROVE LaunchTypeOK'
    <3>1. container' \in [Ranks -> Containers]
      BY <1>2, <2>3 DEF ContainerExits, Becomes, LaunchInv, LaunchTypeOK
    <3>2. (serving => Running(0))'
      BY HeadIsRank, <2>3 DEF ContainerExits, Becomes, LaunchInv, LaunchTypeOK, Running
    <3>3. guard' = guard
      BY <2>3 DEF ContainerExits
    <3> QED
      BY <1>1, <3>1, <3>2, <3>3 DEF LaunchInv, LaunchTypeOK
  <2> QED
    BY <2>1, <2>2, <2>3 DEF Environment
<1>4. RankInSection' /\ OkIsThisLaunch'
  BY <1>1 DEF LaunchInv, RankInSection, OkIsThisLaunch, Undone
<1>5. ClearedBelow' /\ OldOutlivesItsCalls'
  <2>1. rank \in Ranks
    BY DEF LaunchInv, LaunchTypeOK
  <2>2. 0 .. rank - 1 \subseteq Ranks
    BY LauncherAssumption, <2>1 DEF Ranks
  <2>3. Undone' = Undone /\ \A r \in Ranks : StartCalled(r)' = StartCalled(r) /\ Old(r)' = Old(r)
    BY <1>1, <1>2 DEF Undone, StartCalled, Old
  <2> QED
    BY <1>1, <2>2, <2>3 DEF LaunchInv, ClearedBelow, OldOutlivesItsCalls, Old
<1> QED
  BY <1>3, <1>4, <1>5 DEF LaunchInv

\* A step that changes nothing keeps the invariant.
LEMMA LaunchStutterInv == LaunchInv /\ UNCHANGED launchVars => LaunchInv'
BY DEF LaunchInv, launchVars, LaunchTypeOK, RankInSection, ClearedBelow,
   OldOutlivesItsCalls, OkIsThisLaunch, Old, Running, Undone, StartCalled

-----------------------------------------------------------------------------

\* The invariant holds of every run of the script, on any number of nodes.
THEOREM LaunchSpecInv == LaunchSpec => []LaunchInv
<1>1. LaunchInit => LaunchInv
  BY LaunchInitInv
<1>2. LaunchInv /\ [LaunchNext]_launchVars => LaunchInv'
  BY GuardCheckInv, ClearInv, StartInv, ProbeInv, InspectInv, CallHangsInv, EnvironmentInv,
     LaunchStutterInv DEF LaunchNext, Script
<1> QED
  BY <1>1, <1>2, PTL DEF LaunchSpec

\* The variables keep their types; the status is set exactly when the script is over.
THEOREM LaunchTypeCorrect == LaunchSpec => []LaunchTypeOK
<1>1. LaunchInv => LaunchTypeOK
  BY DEF LaunchInv
<1> QED
  BY <1>1, LaunchSpecInv, PTL

\* "OK: UP" is this launch's own head, unless both calls that should have removed the
\* old one were lost or failed on the node.
THEOREM UpIsThisLaunch == LaunchSpec => []OkIsThisLaunch
<1>1. LaunchInv => OkIsThisLaunch
  BY DEF LaunchInv
<1> QED
  BY <1>1, LaunchSpecInv, PTL

\* From the first docker run on, a rank that still holds the previous deployment is
\* one on which every call made to remove it so far was lost or failed.
THEOREM StartsAreClear == LaunchSpec => []OldOutlivesItsCalls
<1>1. LaunchInv => OldOutlivesItsCalls
  BY DEF LaunchInv
<1> QED
  BY <1>1, LaunchSpecInv, PTL

-----------------------------------------------------------------------------
(* The checkpoint, for any number of workers, shards and tensors, in every  *)
(* load format: what a load hands over, and what the workers that dump      *)
(* numpy files leave on disk for the others when they are killed at any     *)
(* point.                                                                   *)

\* The folder and the way it is read, as Init allows them.
LoadOK ==
  /\ load.how \in Safetensors \cup Bins
  /\ load.world \in {1, World}
  /\ load.missing \in {None} \cup Faulty
  /\ load.bad \in {None} \cup Faulty
  /\ load.how \in Bins => ~load.indexed
  /\ load.how \in Safetensors /\ load.extra => load.indexed

-----------------------------------------------------------------------------
(* One worker: what it has handed over, has in hand and has not opened     *)

Handed(p) == {t \in Tensors : out[p][t] = 1}
HeldOf(p, F) == UNION {Kept(p, f) : f \in F}

\* What can be handed over once the files of F are open.
Given(p, F) == IF load.how = "torchao" THEN Unflattened(HeldOf(p, F)) ELSE HeldOf(p, F)

\* What is in memory once f is opened after F, and what of it can be handed over.
InMemory(p, F, f) == Kept(p, f) \cup (HeldOf(p, F) \ Given(p, F))
Ready(p, F, f) ==
  IF load.how = "torchao" THEN Unflattened(InMemory(p, F, f)) ELSE InMemory(p, F, f)

Opened(p) ==
  IF load.how \in Pooled THEN {f \in Files : pool[p][f] = "taken"} ELSE Selected \ queue[p]

Unstarted == {"idle", "select", "dead"}
Dumping == {"dump", "save", "list"}

HandedOnce(p) ==
  /\ \A t \in Tensors : out[p][t] <= 1
  /\ pc[p] \in Unstarted \cup Dumping \cup {"lock", "names"} => Handed(p) = {}

\* Nothing is lost and nothing is there twice: the open files' tensors are those
\* handed over, those in hand, and the parts that wait for the others.
Conserved(p) ==
  /\ pc[p] \in {"files", "pooled"} =>
       /\ Handed(p) \cup cur[p] = Given(p, Opened(p))
       /\ Handed(p) \cap cur[p] = {}
       /\ left[p] = HeldOf(p, Opened(p)) \ Given(p, Opened(p))
  /\ pc[p] = "params" =>
       /\ Handed(p) \cup cur[p] = Given(p, Selected)
       /\ Handed(p) \cap cur[p] = {}
  /\ pc[p] = "done" => Handed(p) = Given(p, Selected)

\* Where each format's iterator may stand, and what it has there.
InFormat(p) ==
  /\ pc[p] = "files" =>
       /\ load.how \in OneByOne \cup {"pt", "stream", "fast"}
       /\ queue[p] \subseteq Selected
       /\ load.how \in {"stream", "fast"} /\ queue[p] # {} => cur[p] = {}
  /\ pc[p] \in {"pooled", "closing"} =>
       /\ load.how \in Pooled
       /\ \A f \in Files : pool[p][f] = "none" <=> f \notin Selected
       /\ \A f \in Files : pool[p][f] = "error" => f = load.bad
  /\ pc[p] = "closing" => load.bad # None
  /\ pc[p] \in Dumping \cup {"lock", "names", "params"} => load.how = "np"
  /\ pc[p] \in Unstarted => cur[p] = {} /\ left[p] = {}
  /\ pc[p] = "lock" => queue[p] = Selected /\ cur[p] = {}
  /\ pc[p] = "idle" => load.how \in Pooled

Started(p) ==
  pc[p] \notin Unstarted \cup {"failed"} =>
    ~IndexBroken /\ share[p] = IF ShouldPrefetch THEN PrefetchShare(p) ELSE {}

Worker(p) == HandedOnce(p) /\ Conserved(p) /\ InFormat(p) /\ Started(p)

-----------------------------------------------------------------------------
(* The dump: what the workers share on disk                                *)

\* A worker was killed while it wrote the name list, or could not write it: nobody
\* will write it again.
Torn == names = "part" /\ lock = None /\ (kills > 0 \/ ~load.fit)

\* Only the lock's holder is in the locked block, on a list nobody has started.
LockHeld ==
  /\ lock # None => pc[lock] \in Dumping
  /\ \A p \in Procs :
       /\ pc[p] \in {"dump", "save"} => lock = p /\ names = "absent"
       /\ pc[p] = "list" => lock = p /\ names = "part"
       /\ pc[p] = "names" => names = "whole" \/ Torn
       /\ pc[p] = "params" => names = "whole"
  /\ names = "part" => Torn \/ \E p \in Procs : pc[p] = "list"

\* What is not whole yet is what the holder has in hand or has not opened.
NotYetWhole ==
  \A p \in Procs : pc[p] \in {"dump", "save"} =>
    \A t \in InAll(Selected) : param[t] = "whole" \/ t \in cur[p] \/ t \in InAll(queue[p])

FailsFor(p) ==
  pc[p] = "failed" =>
    \/ IndexBroken \/ load.bad # None \/ ~load.fit
    \/ load.how = "fast" /\ ~load.gds /\ Yielded(p)
    \/ load.how = "np" /\ Torn

Disk ==
  LockHeld /\ NotYetWhole /\ ListedAreWhole /\ \A p \in Procs : FailsFor(p)

Inv == TypeOK /\ LoadOK /\ (\A p \in Procs : Worker(p)) /\ Disk

-----------------------------------------------------------------------------
(* Facts about the files of a folder                                       *)

\* No load opens the duplicate of the shards, or what training left.
LEMMA SelectedAreShards == LoadOK => Selected \subseteq 1 .. Shards
BY WeightLoaderAssumption DEF LoadOK, Selected, Present, Files, Extra, Safetensors, Bins

\* With an index that is not broken, every shard is opened.
LEMMA IndexedSelected ==
  ASSUME LoadOK, load.indexed, ~IndexBroken PROVE Selected = 1 .. Shards
<1>1. load.how \in Safetensors /\ load.how \notin Bins /\ load.missing = None
  BY DEF LoadOK, IndexBroken, Safetensors, Bins
<1> QED
  BY <1>1, WeightLoaderAssumption DEF Selected, Present, Files, Extra

\* A tensor is taken from the one shard that holds it.
LEMMA KeptApart ==
  ASSUME LoadOK, NEW p \in Procs, NEW f \in Selected, NEW g \in Selected, f # g
  PROVE  Kept(p, f) \cap Kept(p, g) = {}
<1>1. f \in 1 .. Shards /\ g \in 1 .. Shards
  BY SelectedAreShards
<1>2. In(f) = HeldBy[f] /\ In(g) = HeldBy[g]
  BY <1>1, WeightLoaderAssumption DEF In, Extra
<1>3. In(f) \cap In(g) = {}
  BY <1>1, <1>2, WeightLoaderAssumption
<1> QED
  BY <1>3 DEF Kept

\* A file's tensors are tensors.
LEMMA InTensors == \A f \in Files : In(f) \subseteq Tensors
<1> SUFFICES ASSUME NEW f \in Files PROVE In(f) \subseteq Tensors
  OBVIOUS
<1>1. f # Extra => f \in 1 .. Shards
  BY WeightLoaderAssumption DEF Files, Extra
<1> QED
  BY <1>1, WeightLoaderAssumption DEF In

\* torchao hands a tensor over when all its parts are there, and what has no part.
LEMMA UnflattenAll ==
  ASSUME NEW S, Parts \subseteq S \/ Parts \cap S = {} PROVE Unflattened(S) = S
<1> SUFFICES ASSUME NEW t \in S, t \in Parts PROVE Parts \subseteq S
  BY DEF Unflattened
<1> QED
  OBVIOUS
LEMMA UnflattenSome ==
  ASSUME NEW S, ~(Parts \subseteq S) PROVE Unflattened(S) = S \ Parts
BY DEF Unflattened

\* Opening one more file: what can be handed over grows by what is ready of the
\* file and of the parts that waited, and none of that was handed over before.
LEMMA GivenGrows ==
  ASSUME LoadOK, NEW p \in Procs,
         NEW F, F \subseteq Selected, NEW f, f \in Selected, f \notin F
  PROVE  /\ Given(p, F \cup {f}) = Given(p, F) \cup Ready(p, F, f)
         /\ Given(p, F) \cap Ready(p, F, f) = {}
         /\ HeldOf(p, F \cup {f}) \ Given(p, F \cup {f}) = InMemory(p, F, f) \ Ready(p, F, f)
<1> DEFINE held == InMemory(p, F, f)
           ready == Ready(p, F, f)
           H == HeldOf(p, F)
           K == Kept(p, f)
<1>1. HeldOf(p, F \cup {f}) = H \cup K
  BY DEF HeldOf
<1>2. H \cap K = {}
  BY KeptApart DEF HeldOf
<1>3. Given(p, F) = IF load.how = "torchao" THEN Unflattened(H) ELSE H
  BY DEF Given
<1>4. Given(p, F \cup {f}) = IF load.how = "torchao" THEN Unflattened(H \cup K) ELSE H \cup K
  BY <1>1 DEF Given
<1> DEFINE G == Given(p, F)
           HN == HeldOf(p, F \cup {f})
           GN == Given(p, F \cup {f})
<1>5. held = K \cup (H \ G) /\ HN = H \cup K
      /\ ready = IF load.how = "torchao" THEN Unflattened(held) ELSE held
  BY <1>1 DEF InMemory, Ready
<1> HIDE DEF held, ready
<1>6. CASE load.how # "torchao"
  <2>1. G = H /\ GN = H \cup K /\ ready = held
    BY <1>3, <1>4, <1>5, <1>6
  <2> HIDE DEF H, K, G, HN, GN
  <2>2. GN = G \cup ready /\ G \cap ready = {} /\ HN \ GN = held \ ready
    BY <1>2, <1>5, <2>1
  <2> QED
    BY <2>2 DEF G, HN, GN, held, ready
<1>7. CASE load.how = "torchao"
  <2>1. G = Unflattened(H) /\ GN = Unflattened(H \cup K) /\ ready = Unflattened(held)
    BY <1>3, <1>4, <1>5, <1>7
  <2> HIDE DEF H, K, G, HN, GN
  <2>2. CASE Parts \subseteq H
    <3>1. Parts \subseteq H \cup K /\ Parts \cap K = {}
      BY <1>2, <2>2
    <3>2. Unflattened(H) = H /\ Unflattened(H \cup K) = H \cup K /\ Unflattened(K) = K
      BY <2>2, <3>1, UnflattenAll
    <3>3. held = K
      BY <1>5, <2>1, <3>2
    <3>4. G = H /\ GN = H \cup K /\ ready = K
      BY <2>1, <3>2, <3>3
    <3>5. GN = G \cup ready /\ G \cap ready = {} /\ HN \ GN = held \ ready
      BY <1>2, <1>5, <3>3, <3>4
    <3> QED
      BY <3>5 DEF G, HN, GN, held, ready
  <2>3. CASE ~(Parts \subseteq H)
    <3>1. G = H \ Parts
      BY <2>1, <2>3, UnflattenSome
    <3>2. held = K \cup (H \cap Parts)
      BY <1>5, <3>1
    <3>3. CASE Parts \subseteq H \cup K
      <4>1. Parts \subseteq held
        BY <3>2, <3>3
      <4>2. ready = held /\ GN = H \cup K
        BY <2>1, <3>3, <4>1, UnflattenAll
      <4>3. GN = G \cup ready /\ G \cap ready = {} /\ HN \ GN = held \ ready
        BY <1>2, <1>5, <3>1, <3>2, <4>2
      <4> QED
        BY <4>3 DEF G, HN, GN, held, ready
    <3>4. CASE ~(Parts \subseteq H \cup K)
      <4>1. ~(Parts \subseteq held)
        BY <3>2, <3>4
      <4>2. ready = held \ Parts /\ GN = (H \cup K) \ Parts
        BY <2>1, <3>4, <4>1, UnflattenSome
      <4>3. GN = G \cup ready /\ G \cap ready = {} /\ HN \ GN = held \ ready
        BY <1>2, <1>5, <3>1, <3>2, <4>2
      <4> QED
        BY <4>3 DEF G, HN, GN, held, ready
    <3> QED
      BY <3>3, <3>4
  <2> QED
    BY <2>2, <2>3
<1> QED
  BY <1>6, <1>7

\* With nothing open there is nothing to hand over.
LEMMA GivenNothing == ASSUME NEW p PROVE HeldOf(p, {}) = {} /\ Given(p, {}) = {}
BY DEF HeldOf, Given, Unflattened

\* Only the iterators that go one file at a time leave tensors on disk.
LEMMA GivenAll ==
  ASSUME NEW p \in Procs, load.how \notin OneByOne, NEW F
  PROVE  Given(p, F) = InAll(F) /\ HeldOf(p, F) = InAll(F)
<1>1. load.how # "torchao" /\ load.how \notin {"lazy", "prefetch"}
  BY DEF OneByOne
<1>2. \A f : Kept(p, f) = In(f)
  BY <1>1 DEF Kept
<1> QED
  BY <1>1, <1>2 DEF Given, HeldOf, InAll
-----------------------------------------------------------------------------
(* Steps that move one worker                                              *)

\* Everything a worker does leaves the load and the other workers' state alone.
OnlyMoves(p) ==
  /\ load' = load
  /\ \A q \in Procs \ {p} :
       /\ pc'[q] = pc[q] /\ queue'[q] = queue[q] /\ cur'[q] = cur[q] /\ left'[q] = left[q]
       /\ out'[q] = out[q] /\ pool'[q] = pool[q] /\ share'[q] = share[q]

\* What follows from the load alone does not change.
LEMMA LoadFixed ==
  ASSUME load' = load
  PROVE  /\ Selected' = Selected /\ IndexBroken' = IndexBroken /\ ShouldPrefetch' = ShouldPrefetch
         /\ \A q, F : Given(q, F)' = Given(q, F) /\ HeldOf(q, F)' = HeldOf(q, F)
         /\ \A q : PrefetchShare(q)' = PrefetchShare(q)
<1>1. Selected' = Selected /\ IndexBroken' = IndexBroken /\ ShouldPrefetch' = ShouldPrefetch
  BY DEF Selected, Present, IndexBroken, ShouldPrefetch
<1>2. ASSUME NEW q, NEW F PROVE Given(q, F)' = Given(q, F) /\ HeldOf(q, F)' = HeldOf(q, F)
  BY DEF Given, HeldOf, Kept, Unflattened
<1>3. ASSUME NEW q PROVE PrefetchShare(q)' = PrefetchShare(q)
  BY <1>1 DEF PrefetchShare, Rank, Distributed
<1> QED
  BY <1>1, <1>2, <1>3

\* What holds of a worker holds until a step moves it.
LEMMA WorkerFrame ==
  ASSUME NEW q \in Procs, Worker(q), load' = load,
         pc'[q] = pc[q], queue'[q] = queue[q], cur'[q] = cur[q], left'[q] = left[q],
         out'[q] = out[q], pool'[q] = pool[q], share'[q] = share[q]
  PROVE  Worker(q)'
<1>1. Selected' = Selected /\ IndexBroken' = IndexBroken /\ ShouldPrefetch' = ShouldPrefetch
  BY LoadFixed
<1>2. Handed(q)' = Handed(q) /\ Opened(q)' = Opened(q)
  BY <1>1 DEF Handed, Opened
<1>3. \A F : Given(q, F)' = Given(q, F) /\ HeldOf(q, F)' = HeldOf(q, F)
  BY LoadFixed
<1>4. HandedOnce(q)'
  BY <1>2 DEF Worker, HandedOnce
<1>5. Conserved(q)'
  BY <1>1, <1>2, <1>3 DEF Worker, Conserved
<1>6. InFormat(q)'
  BY <1>1 DEF Worker, InFormat
<1>7. Started(q)'
  <2>1. PrefetchShare(q)' = PrefetchShare(q)
    BY LoadFixed
  <2> QED
    BY <1>1, <2>1 DEF Worker, Started
<1> QED
  BY <1>4, <1>5, <1>6, <1>7 DEF Worker

\* Every step is one worker's.
LEMMA OneMoves ==
  ASSUME TypeOK, NEW p \in Procs,
         Step(p) \/ ThreadStep(p) \/ PrefetchAll(p) \/ Kill(p) \/ Restart(p)
  PROVE  OnlyMoves(p)
<1> USE DEF OnlyMoves, Goto, TypeOK, local, warm, disk
<1>1. CASE Select(p)
  BY <1>1 DEF Select, StartLoad, Fail
<1>2. CASE NextFile(p)
  BY <1>2 DEF NextFile
<1>3. CASE Yield(p)
  BY <1>3 DEF Yield, HandOver
<1>4. CASE End(p)
  BY <1>4 DEF End
<1>5. CASE OpenStream(p)
  BY <1>5 DEF OpenStream, Fail
<1>6. CASE StreamBreaks(p)
  BY <1>6 DEF StreamBreaks, Fail
<1>7. CASE GdsBreaks(p)
  BY <1>7 DEF GdsBreaks, FallBack, Fail
<1>8. CASE PoolStep(p)
  BY <1>8 DEF PoolStep, PoolCloses, NextFuture, Fail
<1>9. CASE EnterLock(p)
  BY <1>9 DEF EnterLock
<1>10. CASE DumpFile(p)
  BY <1>10 DEF DumpFile
<1>11. CASE DumpOpens(p)
  BY <1>11 DEF DumpOpens
<1>12. CASE DumpSaves(p)
  BY <1>12 DEF DumpSaves
<1>13. CASE NamesOpen(p)
  BY <1>13 DEF NamesOpen
<1>14. CASE NamesWritten(p)
  BY <1>14 DEF NamesWritten
<1>15. CASE ReadNames(p)
  BY <1>15 DEF ReadNames
<1>16. CASE ReadParam(p)
  BY <1>16 DEF ReadParam, HandOver
<1>17. CASE ThreadStep(p)
  BY <1>17 DEF ThreadStep, WorkerTakes, WorkerEnds
<1>18. CASE PrefetchAll(p)
  BY <1>18 DEF PrefetchAll
<1>19. CASE Kill(p)
  BY <1>19 DEF Kill
<1>20. CASE Restart(p)
  BY <1>20 DEF Restart
<1>21. CASE NoFolder(p) \/ DumpBreaks(p)
  BY <1>21 DEF NoFolder, DumpBreaks, Fail
<1> QED
  BY <1>1, <1>2, <1>3, <1>4, <1>5, <1>6, <1>7, <1>8, <1>9, <1>10, <1>11, <1>12, <1>13,
     <1>14, <1>15, <1>16, <1>17, <1>18, <1>19, <1>20, <1>21 DEF Step, FileStep, DumpStep

-----------------------------------------------------------------------------
(* What a step does to the worker that takes it                            *)

\* A worker that fails has handed nothing over twice.
LEMMA FailWorker ==
  ASSUME NEW p \in Procs, Worker(p), load' = load, pc'[p] = "failed",
         out'[p] = out[p]
  PROVE  Worker(p)'
<1>1. HandedOnce(p)'
  BY DEF Worker, HandedOnce, Unstarted, Dumping
<1>2. Conserved(p)' /\ InFormat(p)' /\ Started(p)'
  BY DEF Conserved, InFormat, Started, Unstarted, Dumping
<1> QED
  BY <1>1, <1>2 DEF Worker

\* Handing a tensor over moves it from what is in hand to what was handed over.
LEMMA HandOverMoves ==
  ASSUME TypeOK, NEW p \in Procs, NEW t \in cur[p], HandOver(p, t),
         \A u \in Tensors : out[p][u] <= 1, Handed(p) \cap cur[p] = {}
  PROVE  /\ \A u \in Tensors : out'[p][u] <= 1
         /\ Handed(p)' = Handed(p) \cup {t} /\ cur'[p] = cur[p] \ {t}
<1>1. /\ out \in [Procs -> [Tensors -> Nat]] /\ cur \in [Procs -> SUBSET Tensors]
      /\ t \in Tensors
  BY DEF TypeOK
<1>2. out[p][t] = 0
  <2>1. out[p][t] # 1
    BY <1>1 DEF Handed
  <2>2. out[p][t] \in Nat /\ out[p][t] <= 1
    BY <1>1
  <2> QED
    BY <2>1, <2>2
<1>3. out'[p] = [out[p] EXCEPT ![t] = 1] /\ cur'[p] = cur[p] \ {t}
  BY <1>1, <1>2 DEF HandOver
<1> QED
  BY <1>1, <1>3 DEF Handed

\* A started load has its files to open, nothing in hand, and its share to prefetch.
LEMMA SelectWorker ==
  ASSUME Inv, NEW p \in Procs, Select(p) PROVE Worker(p)'
<1>1. pc[p] = "select" /\ Worker(p) /\ TypeOK /\ load' = load
      /\ LoadOK
  BY DEF Inv, Select, StartLoad, Fail
<1>2. Handed(p) = {} /\ cur[p] = {} /\ left[p] = {} /\ \A t \in Tensors : out[p][t] <= 1
  BY <1>1 DEF Worker, HandedOnce, InFormat, Unstarted
<1>3. CASE Fail(p)
  BY <1>1, <1>3, FailWorker DEF Fail, Goto, TypeOK
<1>4. CASE ~CannotStart /\ StartLoad(p)
  <2>1. /\ cur' = cur /\ left' = left /\ out' = out
        /\ pc'[p] = CASE load.how = "np" -> "lock"
                      [] load.how \in Pooled -> "pooled"
                      [] OTHER -> "files"
        /\ queue'[p] = Selected
        /\ pool'[p] = [f \in Files |-> IF load.how \in Pooled /\ f \in Selected
                                       THEN "pending" ELSE "none"]
        /\ share'[p] = IF ShouldPrefetch THEN PrefetchShare(p) ELSE {}
    BY <1>1, <1>4 DEF StartLoad, Goto, TypeOK
  <2>2. \/ load.how = "np" /\ pc'[p] = "lock"
        \/ load.how \in Pooled /\ pc'[p] = "pooled"
        \/ load.how \in OneByOne \cup {"pt", "stream", "fast"} /\ pc'[p] = "files"
    <3>1. load.how \in Safetensors \cup Bins
      BY <1>1 DEF LoadOK
    <3> QED
      BY <2>1, <3>1 DEF Safetensors, Bins, OneByOne, Pooled
  <2>3. load.how \in Pooled => pc'[p] # "files"
    BY <2>2 DEF OneByOne, Pooled
  <2>4. Selected' = Selected /\ IndexBroken' = IndexBroken /\ ShouldPrefetch' = ShouldPrefetch
        /\ PrefetchShare(p)' = PrefetchShare(p)
        /\ \A F : Given(p, F)' = Given(p, F) /\ HeldOf(p, F)' = HeldOf(p, F)
    BY <1>1, LoadFixed
  <2>5. HandedOnce(p)'
    BY <1>2, <2>1, <2>2 DEF HandedOnce, Handed, Unstarted, Dumping
  <2>6. Conserved(p)'
    <3>1. pc'[p] \in {"files", "pooled"} => Opened(p)' = {}
      BY <1>1, <2>1, <2>2, <2>4 DEF Opened
    <3>2. Handed(p)' = {}
      BY <1>2, <2>1 DEF Handed
    <3>3. pc'[p] \in {"files", "pooled"} =>
            Given(p, Opened(p))' = {} /\ HeldOf(p, Opened(p))' = {}
      BY <2>4, <3>1, GivenNothing
    <3> QED
      BY <1>2, <2>1, <2>2, <3>2, <3>3 DEF Conserved
  <2>7. InFormat(p)'
    BY <1>1, <1>2, <2>1, <2>2, <2>4 DEF InFormat, Unstarted, Dumping
  <2>8. Started(p)'
    BY <1>4, <2>1, <2>2, <2>4 DEF Started, CannotStart
  <2> QED
    BY <2>5, <2>6, <2>7, <2>8 DEF Worker
<1> QED
  BY <1>3, <1>4 DEF Select

\* Opening the next file, the parts that waited included.
LEMMA NextFileWorker ==
  ASSUME Inv, NEW p \in Procs, NextFile(p) PROVE Worker(p)'
<1>1. /\ pc[p] = "files" /\ Worker(p) /\ TypeOK /\ LoadOK /\ load' = load
      /\ load.how \in OneByOne \cup {"pt"}
      /\ cur[p] = {} /\ out' = out /\ share' = share
  BY DEF Inv, NextFile, warm
<1>2. PICK f \in queue[p] :
        LET held == Kept(p, f) \cup left[p]
            ready == IF load.how = "torchao" THEN Unflattened(held) ELSE held
        IN  /\ queue' = [queue EXCEPT ![p] = @ \ {f}]
            /\ IF CannotRead(f)
               THEN Goto(p, "failed") /\ UNCHANGED <<cur, left>>
               ELSE /\ cur' = [cur EXCEPT ![p] = ready]
                    /\ left' = [left EXCEPT ![p] = held \ ready]
                    /\ UNCHANGED pc
  BY DEF NextFile
<1>3. CASE CannotRead(f)
  <2>1. pc'[p] = "failed"
    BY <1>1, <1>2, <1>3 DEF Goto, TypeOK
  <2> QED
    BY <1>1, <2>1, FailWorker DEF Unstarted
<1>4. CASE ~CannotRead(f)
  <2> DEFINE held == Kept(p, f) \cup left[p]
             ready == IF load.how = "torchao" THEN Unflattened(held) ELSE held
             F == Opened(p)
  <2>1. /\ queue'[p] = queue[p] \ {f} /\ pc' = pc
        /\ cur'[p] = ready /\ left'[p] = held \ ready
    BY <1>1, <1>2, <1>4 DEF TypeOK
  <2>2. queue[p] \subseteq Selected /\ load.how \notin Pooled
        /\ load.how \notin {"stream", "fast"}
    BY <1>1 DEF Worker, InFormat, OneByOne, Pooled
  <2>3. F = Selected \ queue[p] /\ F \in SUBSET Selected /\ f \in Selected \ F
    BY <2>2 DEF Opened
  <2>4. Selected' = Selected /\ IndexBroken' = IndexBroken /\ ShouldPrefetch' = ShouldPrefetch
        /\ PrefetchShare(p)' = PrefetchShare(p)
        /\ \A G : Given(p, G)' = Given(p, G) /\ HeldOf(p, G)' = HeldOf(p, G)
    BY <1>1, LoadFixed
  <2>5. Opened(p)' = F \cup {f}
    BY <1>1, <2>1, <2>2, <2>3, <2>4 DEF Opened
  <2>6. /\ Handed(p) = Given(p, F)
        /\ left[p] = HeldOf(p, F) \ Given(p, F)
    BY <1>1 DEF Worker, Conserved
  <2>7. /\ Given(p, F \cup {f}) = Given(p, F) \cup ready
        /\ Given(p, F) \cap ready = {}
        /\ HeldOf(p, F \cup {f}) \ Given(p, F \cup {f}) = held \ ready
    <3>1. held = InMemory(p, F, f)
      BY <2>6 DEF InMemory
    <3>2. ready = Ready(p, F, f)
      BY <3>1 DEF Ready
    <3> HIDE DEF held, ready, F
    <3> QED
      BY <1>1, <2>3, <3>1, <3>2, GivenGrows
  <2> HIDE DEF held, ready, F
  <2>8. HandedOnce(p)'
    BY <1>1, <2>1 DEF Worker, HandedOnce, Handed
  <2>9. Conserved(p)'
    <3>1. Handed(p)' = Handed(p)
      BY <1>1 DEF Handed
    <3>2. Given(p, Opened(p))' = Given(p, F \cup {f})
          /\ HeldOf(p, Opened(p))' = HeldOf(p, F \cup {f})
      BY <2>4, <2>5
    <3> QED
      BY <1>1, <2>1, <2>6, <2>7, <3>1, <3>2 DEF Conserved
  <2>10. InFormat(p)'
    BY <1>1, <2>1, <2>2, <2>4 DEF InFormat, Unstarted, Dumping
  <2>11. Started(p)'
    BY <1>1, <2>1, <2>4 DEF Worker, Started
  <2> QED
    BY <2>8, <2>9, <2>10, <2>11 DEF Worker
<1> QED
  BY <1>3, <1>4

\* The consumer takes one tensor.
LEMMA YieldWorker ==
  ASSUME Inv, NEW p \in Procs, Yield(p) PROVE Worker(p)'
<1>1. /\ pc[p] \in {"files", "pooled"} /\ Worker(p) /\ TypeOK /\ load' = load
      /\ pc' = pc /\ queue' = queue /\ left' = left /\ pool' = pool /\ share' = share
  BY DEF Inv, Yield, warm
<1>2. PICK t \in cur[p] : HandOver(p, t)
  BY DEF Yield
<1>3. /\ \A u \in Tensors : out'[p][u] <= 1
      /\ Handed(p)' = Handed(p) \cup {t} /\ cur'[p] = cur[p] \ {t}
  BY <1>1, <1>2, HandOverMoves DEF Worker, HandedOnce, Conserved
<1>4. Selected' = Selected /\ IndexBroken' = IndexBroken /\ ShouldPrefetch' = ShouldPrefetch
      /\ PrefetchShare(p)' = PrefetchShare(p)
      /\ \A G : Given(p, G)' = Given(p, G) /\ HeldOf(p, G)' = HeldOf(p, G)
  BY <1>1, LoadFixed
<1>5. HandedOnce(p)'
  BY <1>1, <1>3 DEF HandedOnce, Unstarted, Dumping
<1>6. Conserved(p)'
  <2>1. Opened(p)' = Opened(p)
    BY <1>1, <1>4 DEF Opened
  <2>2. Given(p, Opened(p))' = Given(p, Opened(p)) /\ HeldOf(p, Opened(p))' = HeldOf(p, Opened(p))
    BY <1>4, <2>1
  <2> QED
    BY <1>1, <1>2, <1>3, <2>2 DEF Worker, Conserved
<1>7. InFormat(p)'
  BY <1>1, <1>3, <1>4 DEF Worker, InFormat, Unstarted, Dumping
<1>8. Started(p)'
  BY <1>1, <1>4 DEF Worker, Started
<1> QED
  BY <1>5, <1>6, <1>7, <1>8 DEF Worker

\* A load that ends has opened every file, and holds nothing back.
LEMMA EndWorker ==
  ASSUME Inv, NEW p \in Procs, End(p) PROVE Worker(p)'
<1>1. /\ pc[p] \in {"files", "pooled"} /\ Worker(p) /\ TypeOK /\ load' = load /\ LoadOK
      /\ pc'[p] = "done" /\ out' = out /\ share' = share /\ cur[p] = {}
  BY DEF Inv, End, warm, Goto, TypeOK
<1>2. Opened(p) = Selected
  <2>1. Selected \subseteq Files
    BY DEF Selected, Present
  <2>2. CASE pc[p] = "files"
    <3>1. queue[p] = {} /\ load.how \notin Pooled
      BY <1>1, <2>2 DEF End, Worker, InFormat, Pooled, OneByOne
    <3> QED
      BY <3>1 DEF Opened
  <2>3. CASE pc[p] = "pooled"
    <3>1. load.how \in Pooled /\ \A f \in Files : pool[p][f] = "none" <=> f \notin Selected
      BY <1>1, <2>3 DEF Worker, InFormat
    <3>2. \A f \in Files : pool[p][f] \in {"none", "taken"}
      BY <2>3 DEF End
    <3> QED
      BY <2>1, <3>1, <3>2 DEF Opened
  <2> QED
    BY <1>1, <2>2, <2>3
<1>3. Handed(p)' = Given(p, Selected)
  BY <1>1, <1>2 DEF Worker, Conserved, Handed
<1>4. Selected' = Selected /\ IndexBroken' = IndexBroken /\ ShouldPrefetch' = ShouldPrefetch
      /\ PrefetchShare(p)' = PrefetchShare(p) /\ \A G : Given(p, G)' = Given(p, G)
  BY <1>1, LoadFixed
<1>5. HandedOnce(p)' /\ Conserved(p)' /\ InFormat(p)'
  BY <1>1, <1>3, <1>4 DEF Worker, HandedOnce, Conserved, InFormat, Unstarted, Dumping
<1>6. Started(p)'
  BY <1>1, <1>4 DEF Worker, Started, Unstarted
<1> QED
  BY <1>5, <1>6 DEF Worker

\* The stream is all the files at once.
LEMMA OpenStreamWorker ==
  ASSUME Inv, NEW p \in Procs, OpenStream(p), ~Fail(p) PROVE Worker(p)'
<1>1. /\ pc[p] = "files" /\ Worker(p) /\ TypeOK /\ load' = load /\ LoadOK
      /\ load.how \in {"stream", "fast"} /\ queue[p] # {}
      /\ pc' = pc /\ out' = out /\ share' = share /\ left' = left
      /\ queue'[p] = {} /\ cur'[p] = InAll(queue[p])
  BY DEF Inv, OpenStream, warm, TypeOK
<1>2. /\ cur[p] = {} /\ queue[p] \subseteq Selected
      /\ load.how \notin OneByOne /\ load.how \notin Pooled
  BY <1>1 DEF Worker, InFormat, OneByOne, Pooled
<1>3. Selected' = Selected /\ IndexBroken' = IndexBroken /\ ShouldPrefetch' = ShouldPrefetch
      /\ PrefetchShare(p)' = PrefetchShare(p)
      /\ \A G : Given(p, G)' = Given(p, G) /\ HeldOf(p, G)' = HeldOf(p, G)
  BY <1>1, LoadFixed
<1>4. Opened(p) = Selected \ queue[p] /\ Opened(p)' = Selected
  BY <1>1, <1>2, <1>3 DEF Opened
<1>5. \A G : Given(p, G) = InAll(G) /\ HeldOf(p, G) = InAll(G)
  BY <1>2, GivenAll
<1>6. Handed(p) = InAll(Selected \ queue[p]) /\ left[p] = {}
  BY <1>1, <1>2, <1>4, <1>5 DEF Worker, Conserved
<1>7. Handed(p)' = Handed(p)
  BY <1>1 DEF Handed
<1>8. InAll(Selected \ queue[p]) \cap InAll(queue[p]) = {}
  <2>1. \A f \in Selected, g \in Selected : f # g => In(f) \cap In(g) = {}
    <3>1. \A f \in Selected : Kept(p, f) = In(f)
      BY <1>2 DEF Kept, OneByOne
    <3> QED
      BY <1>1, <3>1, KeptApart
  <2> QED
    BY <1>2, <2>1 DEF InAll
<1>9. InAll(Selected) = InAll(Selected \ queue[p]) \cup InAll(queue[p])
  BY <1>2 DEF InAll
<1>10. HandedOnce(p)' /\ InFormat(p)' /\ Started(p)'
  <2>1. HandedOnce(p)'
    BY <1>1, <1>7 DEF Worker, HandedOnce
  <2>2. InFormat(p)'
    BY <1>1, <1>3 DEF Worker, InFormat, Unstarted, Dumping
  <2>3. Started(p)'
    BY <1>1, <1>3 DEF Worker, Started
  <2> QED
    BY <2>1, <2>2, <2>3
<1>11. Conserved(p)'
  <2>1. Given(p, Opened(p))' = InAll(Selected) /\ HeldOf(p, Opened(p))' = InAll(Selected)
    BY <1>3, <1>4, <1>5
  <2>2. Handed(p)' \cup cur'[p] = InAll(Selected) /\ Handed(p)' \cap cur'[p] = {}
    BY <1>1, <1>6, <1>7, <1>8, <1>9
  <2>3. left'[p] = InAll(Selected) \ InAll(Selected)
    BY <1>1, <1>6
  <2> QED
    BY <1>1, <2>1, <2>2, <2>3 DEF Conserved
<1> QED
  BY <1>10, <1>11 DEF Worker

\* Starting again without GDS: nothing was handed over, and everything is queued.
LEMMA FallBackWorker ==
  ASSUME Inv, NEW p \in Procs, ~Yielded(p), FallBack(p) PROVE Worker(p)'
<1>1. /\ pc[p] = "files" /\ Worker(p) /\ TypeOK /\ load' = load /\ load.how = "fast"
      /\ pc' = pc /\ out' = out /\ share' = share /\ left' = left
      /\ queue'[p] = Selected /\ cur'[p] = {}
  BY DEF Inv, FallBack, warm, TypeOK
<1>2. load.how \notin OneByOne /\ load.how \notin Pooled
  BY <1>1 DEF OneByOne, Pooled
<1>3. Selected' = Selected /\ IndexBroken' = IndexBroken /\ ShouldPrefetch' = ShouldPrefetch
      /\ PrefetchShare(p)' = PrefetchShare(p)
      /\ \A G : Given(p, G)' = Given(p, G) /\ HeldOf(p, G)' = HeldOf(p, G)
  BY <1>1, LoadFixed
<1>4. Opened(p)' = {}
  BY <1>1, <1>2, <1>3 DEF Opened
<1>5. left[p] = {}
  BY <1>1, <1>2, GivenAll DEF Worker, Conserved
<1>6. Handed(p)' = {}
  BY <1>1 DEF Handed, Yielded, TypeOK
<1>7. HandedOnce(p)'
  BY <1>1, <1>6 DEF Worker, HandedOnce
<1>8. Conserved(p)'
  <2>1. Given(p, Opened(p))' = {} /\ HeldOf(p, Opened(p))' = {}
    BY <1>3, <1>4, GivenNothing
  <2> QED
    BY <1>1, <1>5, <1>6, <2>1 DEF Conserved
<1>9. InFormat(p)' /\ Started(p)'
  BY <1>1, <1>3 DEF Worker, InFormat, Started, Unstarted, Dumping
<1> QED
  BY <1>7, <1>8, <1>9 DEF Worker

\* A thread moves a future on; which files were taken does not change.
LEMMA ThreadWorker ==
  ASSUME Inv, NEW p \in Procs, ThreadStep(p) PROVE Worker(p)'
<1>1. /\ pc[p] \in {"pooled", "closing"} /\ Worker(p) /\ TypeOK /\ load' = load
      /\ pc' = pc /\ out' = out /\ share' = share /\ left' = left /\ queue' = queue
      /\ cur' = cur
  BY DEF Inv, ThreadStep, WorkerTakes, WorkerEnds, warm
<1>2. \A g \in Files :
        /\ pool'[p][g] = "taken" <=> pool[p][g] = "taken"
        /\ pool'[p][g] = "none" <=> pool[p][g] = "none"
        /\ pool'[p][g] = "error" => g = load.bad \/ pool[p][g] = "error"
  BY <1>1 DEF ThreadStep, WorkerTakes, WorkerEnds, TypeOK
<1>3. Selected' = Selected /\ IndexBroken' = IndexBroken /\ ShouldPrefetch' = ShouldPrefetch
      /\ PrefetchShare(p)' = PrefetchShare(p)
      /\ \A G : Given(p, G)' = Given(p, G) /\ HeldOf(p, G)' = HeldOf(p, G)
  BY <1>1, LoadFixed
<1>4. Opened(p)' = Opened(p) /\ Handed(p)' = Handed(p)
  <2>1. {g \in Files : pool'[p][g] = "taken"} = {g \in Files : pool[p][g] = "taken"}
    BY <1>2
  <2> QED
    BY <1>1, <1>3, <2>1 DEF Opened, Handed
<1>5. HandedOnce(p)' /\ Started(p)'
  BY <1>1, <1>3, <1>4 DEF Worker, HandedOnce, Started
<1>6. Conserved(p)'
  BY <1>1, <1>3, <1>4 DEF Worker, Conserved
<1>7. InFormat(p)'
  BY <1>1, <1>2, <1>3 DEF Worker, InFormat, Unstarted, Dumping
<1> QED
  BY <1>5, <1>6, <1>7 DEF Worker

\* The next finished future brings its file's tensors, or what its thread raised.
LEMMA NextFutureWorker ==
  ASSUME Inv, NEW p \in Procs, NEW f \in Files, NextFuture(p, f) PROVE Worker(p)'
<1>1. /\ pc[p] = "pooled" /\ Worker(p) /\ TypeOK /\ load' = load /\ LoadOK
      /\ cur[p] = {} /\ pool[p][f] \in {"loaded", "error"}
      /\ out' = out /\ share' = share /\ left' = left /\ queue' = queue
      /\ pool'[p] = [pool[p] EXCEPT ![f] = "taken"]
  BY DEF Inv, NextFuture, warm, TypeOK
<1>2. /\ load.how \in Pooled /\ load.how \notin OneByOne
      /\ \A g \in Files : pool[p][g] = "none" <=> g \notin Selected
      /\ \A g \in Files : pool[p][g] = "error" => g = load.bad
  BY <1>1 DEF Worker, InFormat, Pooled, OneByOne
<1>3. /\ \A g \in Files : pool'[p][g] = IF g = f THEN "taken" ELSE pool[p][g]
      /\ f \in Selected
  BY <1>1, <1>2 DEF TypeOK
<1>4. Selected' = Selected /\ IndexBroken' = IndexBroken /\ ShouldPrefetch' = ShouldPrefetch
      /\ PrefetchShare(p)' = PrefetchShare(p)
      /\ \A G : Given(p, G)' = Given(p, G) /\ HeldOf(p, G)' = HeldOf(p, G)
  BY <1>1, LoadFixed
<1>5. CASE pool[p][f] = "error"
  <2>1. pc'[p] = "closing" /\ cur' = cur
    BY <1>1, <1>5 DEF NextFuture, Goto, TypeOK
  <2>2. load.bad # None
    BY <1>1, <1>2, <1>3, <1>5, SelectedAreShards, WeightLoaderAssumption
  <2>3. HandedOnce(p)' /\ Conserved(p)'
    BY <1>1, <2>1 DEF Worker, HandedOnce, Conserved, Unstarted, Dumping
  <2>4. InFormat(p)'
    BY <1>1, <1>2, <1>3, <1>4, <2>1, <2>2 DEF InFormat, Unstarted, Dumping
  <2>5. Started(p)'
    BY <1>1, <1>4, <2>1 DEF Worker, Started, Unstarted
  <2> QED
    BY <2>3, <2>4, <2>5 DEF Worker
<1>6. CASE pool[p][f] # "error"
  <2> DEFINE F == Opened(p)
  <2>1. pc' = pc /\ cur'[p] = In(f)
    BY <1>1, <1>6 DEF NextFuture, TypeOK
  <2>2. /\ F = {g \in Files : pool[p][g] = "taken"}
        /\ F \in SUBSET Selected /\ f \in Selected \ F
    BY <1>1, <1>2, <1>3 DEF Opened
  <2>3. Opened(p)' = F \cup {f}
    BY <1>1, <1>2, <1>3, <2>2 DEF Opened
  <2>4. \A G : Given(p, G) = InAll(G) /\ HeldOf(p, G) = InAll(G)
    BY <1>2, GivenAll
  <2>5. Handed(p) = InAll(F) /\ left[p] = {}
    BY <1>1, <2>4 DEF Worker, Conserved
  <2>6. InAll(F \cup {f}) = InAll(F) \cup In(f)
    BY DEF InAll
  <2>7. InAll(F) \cap In(f) = {}
    <3>1. \A g \in Selected : Kept(p, g) = In(g)
      BY <1>2 DEF Kept, OneByOne, Pooled
    <3>2. \A g \in F : In(g) \cap In(f) = {}
      BY <1>1, <2>2, <3>1, KeptApart
    <3> QED
      BY <3>2 DEF InAll
  <2> HIDE DEF F
  <2>8. HandedOnce(p)' /\ Started(p)'
    BY <1>1, <1>4, <2>1 DEF Worker, HandedOnce, Started, Handed
  <2>9. Conserved(p)'
    <3>1. Handed(p)' = Handed(p)
      BY <1>1 DEF Handed
    <3>2. Given(p, Opened(p))' = InAll(F \cup {f}) /\ HeldOf(p, Opened(p))' = InAll(F \cup {f})
      BY <1>4, <2>3, <2>4
    <3>3. Handed(p)' \cup cur'[p] = InAll(F \cup {f}) /\ Handed(p)' \cap cur'[p] = {}
      BY <2>1, <2>5, <2>6, <2>7, <3>1
    <3>4. left'[p] = InAll(F \cup {f}) \ InAll(F \cup {f})
      BY <1>1, <2>5
    <3> QED
      BY <1>1, <2>1, <3>2, <3>3, <3>4 DEF Conserved
  <2>10. InFormat(p)'
    BY <1>1, <1>2, <1>3, <1>4, <2>1 DEF InFormat, Unstarted, Dumping
  <2> QED
    BY <2>8, <2>9, <2>10 DEF Worker
<1> QED
  BY <1>5, <1>6

\* In the dump nothing is handed over.
LEMMA DumpWorker ==
  ASSUME NEW p \in Procs, Worker(p), load' = load, pc[p] \in Dumping \cup {"lock"},
         pc'[p] \in Dumping \cup {"names"}, out'[p] = out[p], share'[p] = share[p]
  PROVE  Worker(p)'
<1>1. IndexBroken' = IndexBroken /\ ShouldPrefetch' = ShouldPrefetch
      /\ PrefetchShare(p)' = PrefetchShare(p)
  BY LoadFixed
<1>2. Handed(p)' = Handed(p)
  BY DEF Handed
<1>3. HandedOnce(p)'
  BY <1>2 DEF Worker, HandedOnce
<1>4. Conserved(p)' /\ InFormat(p)'
  BY DEF Worker, Conserved, InFormat, Dumping, Unstarted
<1>5. Started(p)'
  BY <1>1 DEF Worker, Started, Dumping, Unstarted
<1> QED
  BY <1>3, <1>4, <1>5 DEF Worker

\* The steps under the lock, those that leave it by a failure included.
LEMMA LockedWorker ==
  ASSUME Inv, NEW p \in Procs,
         EnterLock(p) \/ DumpFile(p) \/ DumpOpens(p) \/ DumpSaves(p) \/ NamesOpen(p) \/ NamesWritten(p)
  PROVE  Worker(p)'
<1>1. Worker(p) /\ load' = load /\ out' = out /\ share' = share
  BY DEF Inv, EnterLock, DumpFile, DumpOpens, DumpSaves, NamesOpen, NamesWritten, warm
<1>2. /\ pc[p] \in Dumping \cup {"lock"}
      /\ pc'[p] \in Dumping \cup {"names", "failed"}
  BY DEF Inv, TypeOK, EnterLock, DumpFile, DumpOpens, DumpSaves, NamesOpen, NamesWritten,
     Goto, Dumping
<1>3. CASE pc'[p] = "failed"
  BY <1>1, <1>2, <1>3, FailWorker DEF Dumping, Unstarted
<1>4. CASE pc'[p] # "failed"
  BY <1>1, <1>2, <1>4, DumpWorker
<1> QED
  BY <1>3, <1>4

\* The name list is what the worker will read: every selected tensor.
LEMMA ReadNamesWorker ==
  ASSUME Inv, NEW p \in Procs, ReadNames(p) PROVE Worker(p)'
<1>1. /\ pc[p] = "names" /\ Worker(p) /\ load' = load /\ out' = out /\ share' = share
      /\ TypeOK
  BY DEF Inv, ReadNames, warm
<1>2. CASE names # "whole"
  <2>1. pc'[p] = "failed"
    BY <1>1, <1>2 DEF ReadNames, Goto, TypeOK
  <2> QED
    BY <1>1, <2>1, FailWorker DEF Unstarted
<1>3. CASE names = "whole"
  <2>1. pc'[p] = "params" /\ cur'[p] = InAll(Selected)
    BY <1>1, <1>3 DEF ReadNames, Goto, TypeOK
  <2>2. Handed(p)' = {} /\ load.how = "np"
    BY <1>1 DEF Worker, HandedOnce, InFormat, Handed
  <2>3. Given(p, Selected)' = InAll(Selected)
    BY <1>1, <2>2, LoadFixed, GivenAll DEF OneByOne
  <2>4. HandedOnce(p)' /\ Conserved(p)' /\ InFormat(p)'
    BY <1>1, <2>1, <2>2, <2>3 DEF Worker, HandedOnce, Conserved, InFormat, Unstarted, Dumping
  <2>5. Started(p)'
    BY <1>1, <2>1, LoadFixed DEF Worker, Started, Unstarted
  <2> QED
    BY <2>4, <2>5 DEF Worker
<1> QED
  BY <1>2, <1>3

\* A dumped tensor is handed over, or np.load raises, or all were handed over.
LEMMA ReadParamWorker ==
  ASSUME Inv, NEW p \in Procs, ReadParam(p) PROVE Worker(p)'
<1>1. /\ pc[p] = "params" /\ Worker(p) /\ load' = load /\ share' = share /\ TypeOK
  BY DEF Inv, ReadParam, warm
<1>2. IndexBroken' = IndexBroken /\ ShouldPrefetch' = ShouldPrefetch
      /\ PrefetchShare(p)' = PrefetchShare(p) /\ Given(p, Selected)' = Given(p, Selected)
  <2>1. Selected' = Selected /\ \A G : Given(p, G)' = Given(p, G)
    BY <1>1, LoadFixed
  <2> QED
    BY <1>1, <2>1, LoadFixed
<1>3. ASSUME NEW t \in cur[p], HandOver(p, t), pc' = pc PROVE Worker(p)'
  <2>1. /\ \A u \in Tensors : out'[p][u] <= 1
        /\ Handed(p)' = Handed(p) \cup {t} /\ cur'[p] = cur[p] \ {t}
    BY <1>1, <1>3, HandOverMoves DEF Worker, HandedOnce, Conserved
  <2>2. HandedOnce(p)' /\ InFormat(p)' /\ Started(p)'
    BY <1>1, <1>2, <1>3, <2>1 DEF Worker, HandedOnce, InFormat, Started, Unstarted, Dumping
  <2>3. Conserved(p)'
    BY <1>1, <1>2, <1>3, <2>1 DEF Worker, Conserved
  <2> QED
    BY <2>2, <2>3 DEF Worker
<1>4. CASE Goto(p, "failed") /\ UNCHANGED <<out, cur>>
  <2>1. pc'[p] = "failed"
    BY <1>1, <1>4 DEF Goto, TypeOK
  <2> QED
    BY <1>1, <1>4, <2>1, FailWorker DEF Unstarted
<1>5. CASE cur[p] = {} /\ Goto(p, "done") /\ UNCHANGED <<out, cur>>
  <2>1. pc'[p] = "done" /\ Handed(p)' = Given(p, Selected)
    BY <1>1, <1>5 DEF Goto, TypeOK, Worker, Conserved, Handed
  <2>2. HandedOnce(p)' /\ Conserved(p)' /\ InFormat(p)'
    BY <1>1, <1>2, <1>5, <2>1 DEF Worker, HandedOnce, Conserved, InFormat, Unstarted, Dumping
  <2>3. Started(p)'
    BY <1>1, <1>2, <2>1 DEF Worker, Started, Unstarted
  <2> QED
    BY <2>2, <2>3 DEF Worker
<1> QED
  BY <1>3, <1>4, <1>5 DEF ReadParam

\* A killed worker is as one that has not started.
LEMMA KillWorker ==
  ASSUME Inv, NEW p \in Procs, Kill(p) \/ Restart(p) PROVE Worker(p)'
<1>1. CASE Kill(p)
  <2>1. /\ pc'[p] = "dead" /\ cur'[p] = {} /\ left'[p] = {}
        /\ out'[p] = [t \in Tensors |-> 0]
    BY <1>1 DEF Inv, TypeOK, Kill, Goto
  <2> QED
    BY <2>1 DEF Worker, HandedOnce, Conserved, InFormat, Started, Handed, Unstarted, Dumping
<1>2. CASE Restart(p)
  <2>1. /\ pc[p] = "dead" /\ pc'[p] = "select" /\ Worker(p)
        /\ cur' = cur /\ left' = left /\ out' = out
    BY <1>2 DEF Inv, TypeOK, Restart, Goto
  <2> QED
    BY <2>1 DEF Worker, HandedOnce, Conserved, InFormat, Started, Handed, Unstarted, Dumping
<1> QED
  BY <1>1, <1>2

\* The worker that moves keeps what holds of it, whatever it does.
LEMMA StepWorker ==
  ASSUME Inv, NEW p \in Procs,
         Step(p) \/ ThreadStep(p) \/ PrefetchAll(p) \/ Kill(p) \/ Restart(p)
  PROVE  Worker(p)'
<1>1. TypeOK /\ Worker(p)
  BY DEF Inv
<1>2. CASE \/ StreamBreaks(p) \/ (GdsBreaks(p) /\ ~FallBack(p)) \/ PoolCloses(p)
            \/ NoFolder(p) \/ DumpBreaks(p) \/ Fail(p)
  <2>1. pc'[p] = "failed" /\ load' = load /\ out' = out
    BY <1>1, <1>2
    DEF StreamBreaks, GdsBreaks, PoolCloses, NoFolder, DumpBreaks, Fail, Goto, TypeOK
  <2> QED
    BY <1>1, <2>1, FailWorker
<1>3. CASE GdsBreaks(p) /\ FallBack(p)
  BY <1>3, FallBackWorker DEF GdsBreaks, FallBack, Fail, Goto, TypeOK, Inv
<1>4. CASE PrefetchAll(p)
  BY <1>1, <1>4, WorkerFrame DEF PrefetchAll, local
<1>5. CASE DumpStep(p)
  BY <1>2, <1>5, LockedWorker, ReadNamesWorker, ReadParamWorker DEF DumpStep
<1> QED
  BY <1>2, <1>3, <1>4, <1>5, SelectWorker, NextFileWorker, YieldWorker, EndWorker,
     OpenStreamWorker, ThreadWorker, NextFutureWorker, KillWorker
  DEF Step, FileStep, PoolStep

\* And so do all the others.
LEMMA StepWorkers ==
  ASSUME Inv, NEW p \in Procs,
         Step(p) \/ ThreadStep(p) \/ PrefetchAll(p) \/ Kill(p) \/ Restart(p)
  PROVE  \A q \in Procs : Worker(q)'
<1>1. OnlyMoves(p) /\ Worker(p)' /\ \A q \in Procs : Worker(q)
  BY OneMoves, StepWorker DEF Inv
<1>2. ASSUME NEW q \in Procs, q # p PROVE Worker(q)'
  BY <1>1, <1>2, WorkerFrame DEF OnlyMoves
<1> QED
  BY <1>1, <1>2

-----------------------------------------------------------------------------
(* Types                                                                   *)

Pcs == Ended \cup {"idle", "select", "files", "pooled", "closing", "lock", "dump",
                  "save", "list", "names", "params"}
Futures == {"none", "pending", "reading", "loaded", "error", "taken"}

Reading(p) == {f \in Files : pool[p][f] = "reading"}

\* A pool never has more threads at work than max_workers.
PoolFits == \A p \in Procs : Cardinality(Reading(p)) <= MaxWorkers

\* There are finitely many files.
LEMMA FilesFinite == IsFiniteSet(Files)
<1>1. Extra \in Int
  BY WeightLoaderAssumption DEF Extra
<1> QED
  BY <1>1, FS_Interval DEF Files

\* A thread takes a file only when one of the pool is free.
LEMMA StepPoolFits ==
  ASSUME Inv, NEW p \in Procs,
         Step(p) \/ ThreadStep(p) \/ PrefetchAll(p) \/ Kill(p) \/ Restart(p)
  PROVE  PoolFits'
<1>1. OnlyMoves(p) /\ PoolFits
  BY OneMoves DEF Inv, TypeOK, PoolFits, Reading
<1>2. SUFFICES Cardinality(Reading(p)') <= MaxWorkers
  <2>1. \A q \in Procs \ {p} : Reading(q)' = Reading(q)
    BY <1>1 DEF OnlyMoves, Reading
  <2> QED
    BY <1>1, <2>1 DEF PoolFits
<1>3. \A q \in Procs : IsFiniteSet(Reading(q)) /\ Cardinality(Reading(q)) \in Nat
  BY FilesFinite, FS_Subset, FS_CardinalityType DEF Reading
<1>4. ASSUME NEW f \in Files, WorkerTakes(p, f) PROVE Cardinality(Reading(p)') <= MaxWorkers
  <2>1. Reading(p)' = Reading(p) \cup {f} /\ f \notin Reading(p)
    BY <1>4 DEF WorkerTakes, Reading, Inv, TypeOK
  <2>2. Cardinality(Reading(p)) < MaxWorkers
    BY <1>4 DEF WorkerTakes, Reading
  <2>3. Cardinality(Reading(p)') = Cardinality(Reading(p)) + 1
    BY <1>3, <2>1, FS_AddElement
  <2> QED
    BY <1>3, <2>2, <2>3, WeightLoaderAssumption
<1>5. CASE Reading(p)' \subseteq Reading(p)
  <2>1. Cardinality(Reading(p)') <= Cardinality(Reading(p)) /\ Cardinality(Reading(p)') \in Nat
    BY <1>3, <1>5, FS_Subset, FS_CardinalityType
  <2> QED
    BY <1>1, <1>3, <2>1, WeightLoaderAssumption DEF PoolFits
<1>6. CASE \E f \in Files : WorkerEnds(p, f) \/ NextFuture(p, f)
  <2>1. Reading(p)' \subseteq Reading(p)
    BY <1>6 DEF WorkerEnds, NextFuture, Reading, Inv, TypeOK
  <2> QED
    BY <1>5, <2>1
<1>7. CASE Select(p) \/ Kill(p)
  <2>1. Reading(p)' \subseteq Reading(p)
    BY <1>7 DEF Select, StartLoad, Fail, Kill, Reading, Inv, TypeOK
  <2> QED
    BY <1>5, <2>1
<1>8. CASE pool' = pool
  <2>1. Reading(p)' \subseteq Reading(p)
    BY <1>8 DEF Reading
  <2> QED
    BY <1>5, <2>1
<1>9. CASE FileStep(p) \/ PoolCloses(p) \/ DumpStep(p) \/ PrefetchAll(p) \/ Restart(p)
  <2>1. CASE FileStep(p)
    BY <1>8, <2>1
    DEF FileStep, NextFile, Yield, End, OpenStream, StreamBreaks, GdsBreaks, FallBack, Fail
  <2>2. CASE DumpStep(p)
    BY <1>8, <2>2
    DEF DumpStep, NoFolder, Fail, EnterLock, DumpFile, DumpOpens, DumpSaves, DumpBreaks,
        NamesOpen, NamesWritten, ReadNames, ReadParam
  <2>3. CASE PoolCloses(p) \/ PrefetchAll(p) \/ Restart(p)
    BY <1>8, <2>3 DEF PoolCloses, Fail, PrefetchAll, Restart, local
  <2> QED
    BY <1>9, <2>1, <2>2, <2>3
<1> QED
  BY <1>4, <1>6, <1>7, <1>9 DEF Step, PoolStep, ThreadStep

\* The types of the workers' variables.
LocalTypes ==
  /\ pc \in [Procs -> Pcs]
  /\ queue \in [Procs -> SUBSET Files]
  /\ cur \in [Procs -> SUBSET Tensors] /\ left \in [Procs -> SUBSET Tensors]
  /\ out \in [Procs -> [Tensors -> Nat]]
  /\ pool \in [Procs -> [Files -> Futures]]
  /\ nogds \in [Procs -> BOOLEAN]
  /\ share \in [Procs -> SUBSET Files] /\ warming \in [Procs -> BOOLEAN]
DiskTypes ==
  /\ lock \in Procs \cup {None}
  /\ param \in [Tensors -> FileStates] /\ names \in FileStates
  /\ kills \in 0 .. MaxKills

\* The types, part by part.
LEMMA TypesSplit == TypeOK <=> LocalTypes /\ DiskTypes /\ PoolFits
BY DEF TypeOK, LocalTypes, DiskTypes, PoolFits, Reading, Pcs, Futures

\* Every step keeps the types.
LEMMA StepTypes ==
  ASSUME Inv, NEW p \in Procs,
         Step(p) \/ ThreadStep(p) \/ PrefetchAll(p) \/ Kill(p) \/ Restart(p)
  PROVE  LocalTypes' /\ DiskTypes'
<1> USE DEF LocalTypes, DiskTypes, Goto, warm, disk, local
<1>1. LocalTypes /\ DiskTypes
  BY TypesSplit DEF Inv
<1>2. Selected \subseteq Files
  BY DEF Selected, Present
<1>3. /\ \A f \in Files : In(f) \subseteq Tensors /\ Kept(p, f) \subseteq Tensors
      /\ \A F \in SUBSET Files : InAll(F) \subseteq Tensors
  BY InTensors DEF Kept, InAll
<1>4. /\ {"failed", "dead", "done", "select", "files", "pooled", "closing", "lock", "dump",
          "save", "list", "names", "params"} \subseteq Pcs
      /\ {"none", "pending", "reading", "loaded", "error", "taken"} \subseteq Futures
      /\ {"absent", "part", "whole"} \subseteq FileStates
  BY DEF Pcs, Ended, Futures, FileStates
<1>5. CASE Select(p)
  <2>1. PrefetchShare(p) \subseteq Files
    BY <1>2 DEF PrefetchShare
  <2>2. Distributed \in BOOLEAN /\ ShouldPrefetch \in BOOLEAN
    BY DEF ShouldPrefetch, Distributed
  <2>3. pc' \in [Procs -> Pcs]
    <3>1. \/ Goto(p, "failed") \/ Goto(p, "lock") \/ Goto(p, "pooled") \/ Goto(p, "files")
      BY <1>5 DEF Select, StartLoad, Fail
    <3> QED
      BY <1>1, <1>4, <3>1
  <2>4. \/ UNCHANGED <<queue, pool, nogds, share, warming>>
        \/ /\ queue' = [queue EXCEPT ![p] = Selected]
           /\ \E new \in [Files -> Futures] : pool' = [pool EXCEPT ![p] = new]
           /\ \E b \in BOOLEAN : nogds' = [nogds EXCEPT ![p] = b]
           /\ \E S \in SUBSET Files : share' = [share EXCEPT ![p] = S]
           /\ \E b \in BOOLEAN : warming' = [warming EXCEPT ![p] = b]
    <3>1. CASE StartLoad(p)
      <4>1. [f \in Files |-> IF load.how \in Pooled /\ f \in Selected THEN "pending" ELSE "none"]
              \in [Files -> Futures]
        BY <1>4
      <4>2. (IF ShouldPrefetch THEN PrefetchShare(p) ELSE {}) \in SUBSET Files
        BY <2>1
      <4> QED
        BY <2>2, <3>1, <4>1, <4>2 DEF StartLoad
    <3> QED
      BY <1>5, <3>1 DEF Select, Fail
  <2>5. queue' \in [Procs -> SUBSET Files]
    BY ZenonT(30), <1>1, <1>2, <2>4
  <2>6. share' \in [Procs -> SUBSET Files] /\ pool' \in [Procs -> [Files -> Futures]]
        /\ nogds' \in [Procs -> BOOLEAN] /\ warming' \in [Procs -> BOOLEAN]
    <3>1. CASE UNCHANGED <<queue, pool, nogds, share, warming>>
      BY <1>1, <3>1
    <3>2. ASSUME NEW new \in [Files -> Futures], pool' = [pool EXCEPT ![p] = new],
                 NEW b \in BOOLEAN, nogds' = [nogds EXCEPT ![p] = b],
                 NEW S \in SUBSET Files, share' = [share EXCEPT ![p] = S],
                 NEW c \in BOOLEAN, warming' = [warming EXCEPT ![p] = c]
          PROVE  /\ share' \in [Procs -> SUBSET Files] /\ pool' \in [Procs -> [Files -> Futures]]
                 /\ nogds' \in [Procs -> BOOLEAN] /\ warming' \in [Procs -> BOOLEAN]
      <4>1. share' \in [Procs -> SUBSET Files] /\ pool' \in [Procs -> [Files -> Futures]]
        BY <1>1, <3>2
      <4>2. nogds' \in [Procs -> BOOLEAN] /\ warming' \in [Procs -> BOOLEAN]
        BY <1>1, <3>2
      <4> QED
        BY <4>1, <4>2
    <3> QED
      BY <2>4, <3>1, <3>2
  <2>7. UNCHANGED <<cur, left, out, lock, param, names, kills>>
    BY <1>5 DEF Select, StartLoad, Fail
  <2> QED
    BY <1>1, <2>3, <2>5, <2>6, <2>7
<1>6. CASE NextFile(p)
  <2>1. PICK f \in queue[p] :
          LET held == Kept(p, f) \cup left[p]
              ready == IF load.how = "torchao" THEN Unflattened(held) ELSE held
          IN  /\ queue' = [queue EXCEPT ![p] = @ \ {f}]
              /\ \/ Goto(p, "failed") /\ UNCHANGED <<cur, left>>
                 \/ /\ cur' = [cur EXCEPT ![p] = ready]
                    /\ left' = [left EXCEPT ![p] = held \ ready]
                    /\ UNCHANGED pc
    BY <1>6 DEF NextFile
  <2>2. /\ Kept(p, f) \cup left[p] \in SUBSET Tensors
        /\ Unflattened(Kept(p, f) \cup left[p]) \in SUBSET Tensors
    BY <1>1, <1>3 DEF Unflattened
  <2>3. pc' \in [Procs -> Pcs] /\ queue' \in [Procs -> SUBSET Files]
    BY <1>1, <1>4, <2>1
  <2>4. cur' \in [Procs -> SUBSET Tensors] /\ left' \in [Procs -> SUBSET Tensors]
    <3>1. PICK h \in SUBSET Tensors, r \in SUBSET Tensors :
            \/ UNCHANGED <<cur, left>>
            \/ cur' = [cur EXCEPT ![p] = r] /\ left' = [left EXCEPT ![p] = h \ r]
      BY <2>1, <2>2
    <3>2. h \ r \in SUBSET Tensors
      OBVIOUS
    <3>3. cur \in [Procs -> SUBSET Tensors] /\ left \in [Procs -> SUBSET Tensors]
      BY <1>1
    <3>4. cur' \in [Procs -> SUBSET Tensors]
      BY <3>1, <3>3
    <3>5. left' \in [Procs -> SUBSET Tensors]
      BY <3>1, <3>2, <3>3
    <3> QED
      BY <3>4, <3>5
  <2>5. UNCHANGED <<out, pool, nogds, share, warming, lock, param, names, kills>>
    BY <1>6 DEF NextFile
  <2> QED
    BY <1>1, <2>3, <2>4, <2>5
<1>7. CASE Yield(p)
  <2>1. PICK t \in Tensors : HandOver(p, t)
    BY <1>1, <1>7 DEF Yield
  <2>2. out' \in [Procs -> [Tensors -> Nat]]
    BY <1>1, <2>1 DEF HandOver
  <2>3. cur' \in [Procs -> SUBSET Tensors]
    BY <1>1, <2>1 DEF HandOver
  <2>4. UNCHANGED <<pc, queue, left, pool, nogds, share, warming, lock, param, names, kills>>
    BY <1>7 DEF Yield
  <2> QED
    BY <1>1, <2>2, <2>3, <2>4
<1>8. CASE \/ End(p) \/ StreamBreaks(p) \/ PoolCloses(p) \/ PrefetchAll(p) \/ Restart(p)
            \/ NoFolder(p) \/ Fail(p)
  <2>1. CASE PrefetchAll(p)
    BY <1>1, <2>1 DEF PrefetchAll
  <2>2. CASE End(p) \/ StreamBreaks(p) \/ PoolCloses(p) \/ Restart(p) \/ NoFolder(p) \/ Fail(p)
    <3>1. \E l \in Pcs : Goto(p, l)
      BY <1>4, <2>2 DEF End, StreamBreaks, PoolCloses, Fail, Restart, NoFolder
    <3>2. UNCHANGED <<queue, cur, left, out, pool, nogds, share, warming, lock, param, names, kills>>
      BY <2>2 DEF End, StreamBreaks, PoolCloses, Fail, Restart, NoFolder
    <3>3. pc' \in [Procs -> Pcs]
      BY <1>1, <3>1
    <3> QED
      BY <1>1, <3>2, <3>3
  <2> QED
    BY <1>8, <2>1, <2>2
<1>9. CASE OpenStream(p) /\ ~Fail(p)
  <2>1. InAll(queue[p]) \in SUBSET Tensors
    BY <1>1, <1>3
  <2>2. queue' \in [Procs -> SUBSET Files] /\ cur' \in [Procs -> SUBSET Tensors]
    BY <1>1, <1>9, <2>1 DEF OpenStream
  <2>3. UNCHANGED <<pc, left, out, pool, nogds, share, warming, lock, param, names, kills>>
    BY <1>9 DEF OpenStream
  <2> QED
    BY <1>1, <2>2, <2>3
<1>10. CASE GdsBreaks(p)
  BY <1>1, <1>2, <1>4, <1>10 DEF GdsBreaks, FallBack, Fail
<1>11. CASE ThreadStep(p)
  <2>1. PICK f \in Files, s \in Futures : pool' = [pool EXCEPT ![p][f] = s]
    BY <1>4, <1>11 DEF ThreadStep, WorkerTakes, WorkerEnds
  <2>2. pool' \in [Procs -> [Files -> Futures]]
    BY <1>1, <2>1
  <2>3. UNCHANGED <<pc, queue, cur, left, out, nogds, share, warming, lock, param, names, kills>>
    BY <1>11 DEF ThreadStep, WorkerTakes, WorkerEnds
  <2> QED
    BY <1>1, <2>2, <2>3
<1>12. ASSUME NEW f \in Files, NextFuture(p, f) PROVE LocalTypes' /\ DiskTypes'
  <2>1. pool' \in [Procs -> [Files -> Futures]]
    BY <1>1, <1>4, <1>12 DEF NextFuture
  <2>2. pc' \in [Procs -> Pcs] /\ cur' \in [Procs -> SUBSET Tensors]
    BY ZenonT(30), <1>1, <1>3, <1>4, <1>12 DEF NextFuture
  <2>3. UNCHANGED <<queue, left, out, nogds, share, warming, lock, param, names, kills>>
    BY <1>12 DEF NextFuture
  <2> QED
    BY <1>1, <2>1, <2>2, <2>3
<1>13. CASE EnterLock(p) \/ NamesOpen(p) \/ NamesWritten(p) \/ DumpBreaks(p)
  <2>1. pc' \in [Procs -> Pcs]
    BY <1>1, <1>4, <1>13 DEF EnterLock, NamesOpen, NamesWritten, DumpBreaks
  <2>2. lock' \in Procs \cup {None} /\ names' \in FileStates
    BY <1>1, <1>4, <1>13 DEF EnterLock, NamesOpen, NamesWritten, DumpBreaks
  <2>3. UNCHANGED <<queue, cur, left, out, pool, nogds, share, warming, param, kills>>
    BY <1>13 DEF EnterLock, NamesOpen, NamesWritten, DumpBreaks
  <2> QED
    BY <1>1, <2>1, <2>2, <2>3
<1>14. CASE DumpOpens(p) \/ DumpSaves(p)
  <2>1. PICK l \in {"dump", "save"}, T \in SUBSET Tensors, U \in SUBSET Tensors :
          /\ pc' = [pc EXCEPT ![p] = l]
          /\ left' = [left EXCEPT ![p] = T]
          /\ cur' = cur \/ cur' = [cur EXCEPT ![p] = U]
    <3>1. CASE DumpOpens(p)
      <4>1. PICK t \in cur[p] : left' = [left EXCEPT ![p] = {t}]
        BY <3>1 DEF DumpOpens
      <4>2. {t} \in SUBSET Tensors /\ pc' = [pc EXCEPT ![p] = "save"] /\ cur' = cur
        BY <1>1, <3>1 DEF DumpOpens
      <4> QED
        BY <4>1, <4>2
    <3>2. CASE DumpSaves(p)
      <4>1. cur[p] \ left[p] \in SUBSET Tensors
        BY <1>1
      <4> QED
        BY <3>2, <4>1 DEF DumpSaves
    <3> QED
      BY <1>14, <3>1, <3>2
  <2>2. pc' \in [Procs -> Pcs] /\ cur' \in [Procs -> SUBSET Tensors]
        /\ left' \in [Procs -> SUBSET Tensors]
    BY <1>1, <1>4, <2>1
  <2>3. param' \in [Tensors -> FileStates]
    <3>1. CASE DumpOpens(p)
      <4>1. PICK t \in Tensors : param' = [param EXCEPT ![t] = "part"]
        BY <1>1, <3>1 DEF DumpOpens
      <4> QED
        BY <1>1, <1>4, <4>1
    <3>2. CASE DumpSaves(p)
      BY <1>1, <1>4, <3>2 DEF DumpSaves
    <3> QED
      BY <1>14, <3>1, <3>2
  <2>4. UNCHANGED <<queue, out, pool, nogds, share, warming, lock, names, kills>>
    BY <1>14 DEF DumpOpens, DumpSaves
  <2> QED
    BY <1>1, <2>2, <2>3, <2>4
<1>15. CASE DumpFile(p)
  <2>1. PICK f \in queue[p] :
          /\ queue' = [queue EXCEPT ![p] = @ \ {f}]
          /\ \/ Goto(p, "failed") /\ lock' = None /\ UNCHANGED cur
             \/ cur' = [cur EXCEPT ![p] = In(f)] /\ UNCHANGED <<pc, lock>>
    BY <1>15 DEF DumpFile
  <2>2. In(f) \in SUBSET Tensors
    BY <1>1, <1>3
  <2>3. pc' \in [Procs -> Pcs] /\ queue' \in [Procs -> SUBSET Files]
        /\ cur' \in [Procs -> SUBSET Tensors] /\ lock' \in Procs \cup {None}
    <3>1. queue' \in [Procs -> SUBSET Files]
      BY <1>1, <2>1
    <3>2. CASE Goto(p, "failed") /\ lock' = None /\ UNCHANGED cur
      BY <1>1, <1>4, <3>1, <3>2
    <3>3. CASE cur' = [cur EXCEPT ![p] = In(f)] /\ UNCHANGED <<pc, lock>>
      BY <1>1, <2>2, <3>1, <3>3
    <3> QED
      BY <2>1, <3>2, <3>3
  <2>4. UNCHANGED <<left, out, pool, nogds, share, warming, param, names, kills>>
    BY <1>15 DEF DumpFile
  <2> QED
    BY <1>1, <2>3, <2>4
<1>16. CASE ReadNames(p)
  <2>1. InAll(Selected) \in SUBSET Tensors
    BY <1>2, <1>3
  <2>2. pc' \in [Procs -> Pcs] /\ queue' \in [Procs -> SUBSET Files]
        /\ cur' \in [Procs -> SUBSET Tensors]
    BY <1>1, <1>4, <1>16, <2>1 DEF ReadNames
  <2>3. UNCHANGED <<left, out, pool, nogds, share, warming, lock, param, names, kills>>
    BY <1>16 DEF ReadNames
  <2> QED
    BY <1>1, <2>2, <2>3
<1>17. CASE ReadParam(p)
  <2>1. pc' \in [Procs -> Pcs]
    BY <1>1, <1>4, <1>17 DEF ReadParam
  <2>2. out' \in [Procs -> [Tensors -> Nat]] /\ cur' \in [Procs -> SUBSET Tensors]
    <3>1. ASSUME NEW t \in cur[p], HandOver(p, t)
          PROVE  out' \in [Procs -> [Tensors -> Nat]] /\ cur' \in [Procs -> SUBSET Tensors]
      BY <1>1, <3>1 DEF HandOver
    <3>2. CASE UNCHANGED <<out, cur>>
      BY <1>1, <3>2
    <3> QED
      BY <1>17, <3>1, <3>2 DEF ReadParam
  <2>3. UNCHANGED <<queue, left, pool, nogds, share, warming, lock, param, names, kills>>
    BY <1>17 DEF ReadParam
  <2> QED
    BY <1>1, <2>1, <2>2, <2>3
<1>18. CASE Kill(p)
  <2>1. kills' \in 0 .. MaxKills
    BY <1>1, <1>18, WeightLoaderAssumption DEF Kill
  <2>2. pc' \in [Procs -> Pcs] /\ queue' \in [Procs -> SUBSET Files]
        /\ cur' \in [Procs -> SUBSET Tensors] /\ left' \in [Procs -> SUBSET Tensors]
    BY <1>1, <1>4, <1>18 DEF Kill
  <2>3. out' \in [Procs -> [Tensors -> Nat]] /\ pool' \in [Procs -> [Files -> Futures]]
    BY <1>1, <1>4, <1>18 DEF Kill
  <2>4. nogds' \in [Procs -> BOOLEAN] /\ share' \in [Procs -> SUBSET Files]
        /\ warming' \in [Procs -> BOOLEAN] /\ lock' \in Procs \cup {None}
    BY <1>1, <1>18 DEF Kill
  <2>5. UNCHANGED <<param, names>>
    BY <1>18 DEF Kill
  <2> QED
    BY <1>1, <2>1, <2>2, <2>3, <2>4, <2>5
<1> QED
  BY <1>5, <1>6, <1>7, <1>8, <1>9, <1>10, <1>11, <1>12, <1>13, <1>14, <1>15, <1>16, <1>17,
     <1>18
  DEF Step, FileStep, PoolStep, DumpStep

-----------------------------------------------------------------------------
(* What a step does to what the workers share on disk                      *)

\* A worker that is not in the dump, and touches nothing of it, leaves it as it was.
LEMMA OutsideDump ==
  ASSUME Inv, NEW p \in Procs, OnlyMoves(p), UNCHANGED <<disk, kills>>,
         pc[p] \notin Dumping, pc'[p] \notin Dumping,
         pc'[p] = "names" => pc[p] = "names" \/ names = "whole" \/ Torn,
         pc'[p] = "params" => pc[p] = "params" \/ names = "whole",
         FailsFor(p)'
  PROVE  Disk'
<1>1. /\ LockHeld /\ NotYetWhole /\ ListedAreWhole /\ \A q \in Procs : FailsFor(q)
      /\ DiskTypes /\ load' = load
      /\ lock' = lock /\ param' = param /\ names' = names /\ kills' = kills
      /\ \A q \in Procs \ {p} : /\ pc'[q] = pc[q] /\ queue'[q] = queue[q]
                              /\ cur'[q] = cur[q] /\ out'[q] = out[q]
  BY TypesSplit DEF Inv, Disk, OnlyMoves, disk
<1>2. Selected' = Selected /\ IndexBroken' = IndexBroken
  BY <1>1, LoadFixed
<1>3. LockHeld'
  <2>1. lock # None => lock \in Procs \ {p}
    BY <1>1 DEF LockHeld, DiskTypes
  <2>2. names = "part" => Torn \/ \E q \in Procs \ {p} : pc[q] = "list"
    BY <1>1 DEF LockHeld, Dumping
  <2>3. Torn' = Torn
    BY <1>1 DEF Torn
  <2>4. names' = "part" => Torn' \/ \E q \in Procs : pc'[q] = "list"
    BY <1>1, <2>2, <2>3
  <2>5. lock' # None => pc'[lock'] \in Dumping
    BY <1>1, <2>1 DEF LockHeld
  <2>6. ASSUME NEW q \in Procs
        PROVE  /\ pc'[q] \in {"dump", "save"} => lock' = q /\ names' = "absent"
               /\ pc'[q] = "list" => lock' = q /\ names' = "part"
               /\ pc'[q] = "names" => names' = "whole" \/ Torn'
               /\ pc'[q] = "params" => names' = "whole"
    <3>1. CASE q = p
      BY <1>1, <2>3, <3>1 DEF LockHeld, Dumping
    <3>2. CASE q # p
      BY <1>1, <2>3, <3>2 DEF LockHeld
    <3> QED
      BY <3>1, <3>2
  <2> QED
    BY <2>4, <2>5, <2>6 DEF LockHeld
<1>4. NotYetWhole'
  <2> SUFFICES ASSUME NEW q \in Procs, pc'[q] \in {"dump", "save"}, NEW t \in InAll(Selected)
               PROVE  param'[t] = "whole" \/ t \in cur'[q] \/ t \in InAll(queue'[q])
    BY <1>2 DEF NotYetWhole, InAll, In
  <2>1. q # p
    BY DEF Dumping
  <2> QED
    BY <1>1, <2>1 DEF NotYetWhole
<1>5. ListedAreWhole'
  BY <1>1, <1>2 DEF ListedAreWhole, InAll, In
<1>6. \A q \in Procs : FailsFor(q)'
  <2> SUFFICES ASSUME NEW q \in Procs, q # p PROVE FailsFor(q)'
    OBVIOUS
  <2>1. Yielded(q)' = Yielded(q) /\ Torn' = Torn
    BY <1>1 DEF Yielded, Torn
  <2> QED
    BY <1>1, <1>2, <2>1 DEF FailsFor
<1> QED
  BY <1>3, <1>4, <1>5, <1>6 DEF Disk

\* The steps of the other formats fail for their own reasons and touch no dump.
LEMMA OtherSteps ==
  ASSUME Inv, NEW p \in Procs, Select(p) \/ FileStep(p) \/ PoolStep(p) \/ ThreadStep(p)
  PROVE  Disk'
<1>1. OnlyMoves(p) /\ TypeOK /\ LoadOK /\ Worker(p)
  BY OneMoves DEF Inv, Step
<1>2. UNCHANGED <<disk, kills>>
  BY DEF Select, StartLoad, FileStep, NextFile, Yield, End, OpenStream, StreamBreaks,
     GdsBreaks, FallBack, Fail, PoolStep, PoolCloses, NextFuture, ThreadStep, WorkerTakes,
     WorkerEnds
<1>3. pc[p] \in {"select", "files", "pooled", "closing"}
  BY DEF Select, StartLoad, FileStep, NextFile, Yield, End, OpenStream, StreamBreaks,
     GdsBreaks, FallBack, Fail, PoolStep, PoolCloses, NextFuture, ThreadStep, WorkerTakes,
     WorkerEnds
<1>4. pc'[p] \in {"lock", "files", "pooled", "closing", "failed", "done"}
  <2>1. CASE Select(p)
    BY <1>1, <2>1 DEF Select, StartLoad, Fail, Goto, TypeOK
  <2>2. CASE FileStep(p)
    BY <1>1, <1>3, <2>2
    DEF FileStep, NextFile, Yield, End, OpenStream, StreamBreaks, GdsBreaks, FallBack, Fail,
        Goto, TypeOK
  <2>3. CASE PoolStep(p) \/ ThreadStep(p)
    BY <1>1, <1>3, <2>3
    DEF PoolStep, PoolCloses, NextFuture, Fail, ThreadStep, WorkerTakes, WorkerEnds, Goto,
        TypeOK
  <2> QED
    BY <2>1, <2>2, <2>3
<1>5. FailsFor(p)'
  <2> SUFFICES ASSUME pc'[p] = "failed"
               PROVE  \/ IndexBroken \/ load.bad # None
                      \/ ~load.fit
                      \/ load.how = "fast" /\ ~load.gds /\ Yielded(p)'
    BY <1>1, LoadFixed DEF FailsFor, OnlyMoves
  <2>1. CASE Select(p)
    <3>1. CASE CannotStart \/ MayNotStart
      BY <3>1 DEF CannotStart, MayNotStart
    <3>2. CASE StartLoad(p)
      <4>1. \/ Goto(p, "lock") \/ Goto(p, "pooled") \/ Goto(p, "files")
        BY <3>2 DEF StartLoad
      <4> QED
        BY <1>1, <4>1 DEF Goto, TypeOK
    <3> QED
      BY <2>1, <3>1, <3>2 DEF Select
  <2>2. CASE NextFile(p)
    <3>1. PICK f \in queue[p] : f = load.bad \/ ~load.fit \/ UNCHANGED pc
      BY <2>2 DEF NextFile, CannotRead
    <3>2. f \in 1 .. Shards
      BY <1>1, <2>2, SelectedAreShards DEF NextFile, Worker, InFormat
    <3> QED
      BY <1>3, <3>1, <3>2, WeightLoaderAssumption
  <2>3. CASE Yield(p) \/ OpenStream(p) \/ ThreadStep(p)
    BY <1>3, <2>3 DEF Yield, OpenStream, Fail, ThreadStep, WorkerTakes, WorkerEnds
  <2>4. CASE End(p)
    BY <1>1, <2>4 DEF End, Goto, TypeOK
  <2>5. CASE StreamBreaks(p)
    BY <2>5 DEF StreamBreaks
  <2>6. CASE GdsBreaks(p)
    <3>1. load.how = "fast" /\ ~load.gds /\ (UNCHANGED pc \/ (Yielded(p) /\ out' = out))
      BY <2>6 DEF GdsBreaks, FallBack, Fail
    <3> QED
      BY <1>3, <3>1 DEF Yielded
  <2>7. CASE PoolStep(p)
    <3>1. CASE PoolCloses(p)
      BY <1>1, <3>1 DEF PoolCloses, Worker, InFormat
    <3>2. ASSUME NEW f \in Files, NextFuture(p, f) PROVE FALSE
      BY <1>1, <3>2 DEF NextFuture, Goto, TypeOK
    <3> QED
      BY <2>7, <3>1, <3>2 DEF PoolStep
  <2> QED
    BY <2>1, <2>2, <2>3, <2>4, <2>5, <2>6, <2>7 DEF FileStep
<1> QED
  BY <1>1, <1>2, <1>3, <1>4, <1>5, OutsideDump DEF Dumping

\* The lock's holder is alone in the dump.
LEMMA HolderAlone ==
  ASSUME Inv, NEW p \in Procs, pc[p] \in Dumping \/ lock = None
  PROVE  /\ \A q \in Procs : pc[q] \in Dumping => q = p
         /\ pc[p] \in Dumping => lock = p /\ ~Torn
BY WeightLoaderAssumption DEF Inv, Disk, LockHeld, Dumping, Torn

\* Entering the lock: the dump begins with every file, or the list is there.
LEMMA EnterLockDisk ==
  ASSUME Inv, NEW p \in Procs, EnterLock(p) PROVE Disk'
<1>1. /\ pc[p] = "lock" /\ lock = None /\ TypeOK /\ Worker(p) /\ Disk /\ load' = load
      /\ param' = param /\ names' = names /\ kills' = kills /\ queue' = queue /\ cur' = cur
      /\ out' = out
  BY DEF Inv, EnterLock, warm
<1>2. \A q \in Procs : pc[q] \notin Dumping
  BY <1>1, HolderAlone DEF Dumping
<1>3. Selected' = Selected /\ IndexBroken' = IndexBroken
  BY <1>1, LoadFixed
<1>4. CASE names = "absent"
  <2>1. pc' = [pc EXCEPT ![p] = "dump"] /\ lock' = p /\ ~Torn
    BY <1>1, <1>4 DEF EnterLock, Goto, Torn
  <2>2. pc'[p] = "dump" /\ \A q \in Procs \ {p} : pc'[q] = pc[q]
    BY <1>1, <2>1 DEF TypeOK
  <2>3. LockHeld'
    BY <1>1, <1>2, <1>4, <2>1, <2>2 DEF Disk, LockHeld, Dumping
  <2>4. NotYetWhole'
    <3> SUFFICES ASSUME NEW q \in Procs, pc'[q] \in {"dump", "save"}, NEW t \in InAll(Selected)
                 PROVE  t \in InAll(queue[q])
      BY <1>1, <1>3 DEF NotYetWhole, InAll, In
    <3>1. q = p
      BY <1>2, <2>2 DEF Dumping
    <3> QED
      BY <1>1, <3>1 DEF Worker, InFormat
  <2>5. ListedAreWhole'
    BY <1>1, <1>4 DEF ListedAreWhole
  <2>6. \A q \in Procs : FailsFor(q)'
    BY <1>1, <1>3, <2>1, <2>2 DEF Disk, FailsFor, Yielded
  <2> QED
    BY <2>3, <2>4, <2>5, <2>6 DEF Disk
<1>5. CASE names # "absent"
  <2>1. pc'[p] = "names" /\ lock' = lock
    BY <1>1, <1>5 DEF EnterLock, Goto, TypeOK
  <2>2. names = "whole" \/ Torn
    BY <1>1, <1>2, <1>5 DEF Disk, LockHeld, TypeOK, FileStates, Dumping
  <2>3. OnlyMoves(p)
    BY <1>1, OneMoves DEF Step, DumpStep
  <2> QED
    BY <1>1, <1>2, <2>1, <2>2, <2>3, OutsideDump DEF Dumping, FailsFor, disk
<1> QED
  BY <1>4, <1>5

\* Opening the next file for the dump, or leaving the lock on one that cannot be read.
LEMMA DumpFileDisk ==
  ASSUME Inv, NEW p \in Procs, DumpFile(p) PROVE Disk'
<1>1. /\ pc[p] = "dump" /\ TypeOK /\ Disk /\ load' = load
      /\ param' = param /\ names' = names /\ kills' = kills /\ cur[p] = {} /\ out' = out
  BY DEF Inv, DumpFile, warm
<1>2. /\ \A q \in Procs \ {p} : pc[q] \notin Dumping
      /\ lock = p /\ ~Torn /\ names = "absent"
  BY <1>1, HolderAlone DEF Disk, LockHeld, Dumping
<1>3. Selected' = Selected /\ IndexBroken' = IndexBroken
  BY <1>1, LoadFixed
<1>4. PICK f \in queue[p] :
        /\ queue' = [queue EXCEPT ![p] = @ \ {f}]
        /\ IF f = load.bad
           THEN Goto(p, "failed") /\ lock' = None /\ UNCHANGED cur
           ELSE cur' = [cur EXCEPT ![p] = In(f)] /\ UNCHANGED <<pc, lock>>
  BY DEF DumpFile
<1>5. ListedAreWhole'
  BY <1>1, <1>2 DEF ListedAreWhole
<1>6. CASE f = load.bad
  <2>1. /\ pc'[p] = "failed" /\ lock' = None
        /\ \A q \in Procs \ {p} : pc'[q] = pc[q]
    BY <1>1, <1>4, <1>6 DEF Goto, TypeOK
  <2>2. load.bad # None
    BY <1>1, <1>6, WeightLoaderAssumption DEF TypeOK, Files, Extra
  <2>3. LockHeld'
    BY <1>1, <1>2, <2>1 DEF Disk, LockHeld, Dumping, Torn
  <2>4. NotYetWhole'
    BY <1>2, <2>1 DEF NotYetWhole, Dumping
  <2>5. \A q \in Procs : FailsFor(q)'
    BY <1>1, <2>2 DEF FailsFor
  <2> QED
    BY <1>5, <2>3, <2>4, <2>5 DEF Disk
<1>7. CASE f # load.bad
  <2>1. /\ pc' = pc /\ lock' = lock
        /\ cur'[p] = In(f) /\ queue'[p] = queue[p] \ {f}
    BY <1>1, <1>4, <1>7 DEF TypeOK
  <2>2. LockHeld'
    BY <1>1, <2>1 DEF Disk, LockHeld, Torn
  <2>3. NotYetWhole'
    <3> SUFFICES ASSUME NEW q \in Procs, pc'[q] \in {"dump", "save"}, NEW t \in InAll(Selected)
                 PROVE  param[t] = "whole" \/ t \in cur'[q] \/ t \in InAll(queue'[q])
      BY <1>1, <1>3 DEF NotYetWhole, InAll, In
    <3>1. q = p
      BY <1>2, <2>1 DEF Dumping
    <3>2. param[t] = "whole" \/ t \in InAll(queue[p])
      BY <1>1, <2>1, <3>1 DEF Disk, NotYetWhole
    <3>3. t \in InAll(queue[p]) => t \in In(f) \/ t \in InAll(queue[p] \ {f})
      BY DEF InAll
    <3> QED
      BY <2>1, <3>1, <3>2, <3>3
  <2>4. \A q \in Procs : FailsFor(q)'
    BY <1>1, <1>3, <2>1 DEF Disk, FailsFor, Yielded, Torn
  <2> QED
    BY <1>5, <2>2, <2>3, <2>4 DEF Disk
<1> QED
  BY <1>6, <1>7

\* Where the dump cannot be written nothing of it was listed, or only a part that
\* nobody will write again.
LEMMA DumpBreaksDisk ==
  ASSUME Inv, NEW p \in Procs, NoFolder(p) \/ DumpBreaks(p) PROVE Disk'
<1>1. /\ TypeOK /\ Disk /\ load' = load /\ param' = param /\ names' = names /\ kills' = kills
      /\ ~load.fit /\ out' = out
  BY DEF Inv, NoFolder, DumpBreaks, Fail, disk
<1>2. pc'[p] = "failed" /\ \A q \in Procs \ {p} : pc'[q] = pc[q]
  BY <1>1 DEF NoFolder, DumpBreaks, Fail, Goto, TypeOK
<1>3. CASE NoFolder(p)
  <2>1. OnlyMoves(p) /\ UNCHANGED <<disk, kills>> /\ pc[p] = "lock"
    BY <1>1, <1>3, OneMoves DEF Step, DumpStep, NoFolder, Fail
  <2> QED
    BY <1>1, <1>2, <2>1, OutsideDump DEF Dumping, FailsFor
<1>4. CASE DumpBreaks(p)
  <2>1. pc[p] \in Dumping /\ lock' = None /\ cur' = cur /\ queue' = queue
    BY <1>4 DEF DumpBreaks, Dumping
  <2>2. (\A q \in Procs \ {p} : pc[q] \notin Dumping) /\ ~Torn
    BY <1>1, <2>1, HolderAlone
  <2>3. LockHeld'
    BY <1>1, <1>2, <2>1, <2>2 DEF Disk, LockHeld, Dumping, Torn
  <2>4. NotYetWhole'
    BY <1>2, <2>2 DEF NotYetWhole, Dumping
  <2>5. ListedAreWhole'
    BY <1>1, LoadFixed DEF Disk, ListedAreWhole, InAll, In
  <2>6. \A q \in Procs : FailsFor(q)'
    BY <1>1 DEF FailsFor
  <2> QED
    BY <2>3, <2>4, <2>5, <2>6 DEF Disk
<1> QED
  BY <1>3, <1>4

\* Writing one tensor's file: it is in hand until it is whole.
LEMMA DumpTensorDisk ==
  ASSUME Inv, NEW p \in Procs, DumpOpens(p) \/ DumpSaves(p) PROVE Disk'
<1>1. /\ pc[p] \in {"dump", "save"} /\ TypeOK /\ Disk /\ load' = load
      /\ lock' = lock /\ names' = names /\ kills' = kills /\ queue' = queue /\ out' = out
  BY DEF Inv, DumpOpens, DumpSaves, warm
<1>2. /\ \A q \in Procs \ {p} : pc[q] \notin Dumping
      /\ lock = p /\ ~Torn /\ names = "absent"
  BY <1>1, HolderAlone DEF Disk, LockHeld, Dumping
<1>3. Selected' = Selected /\ IndexBroken' = IndexBroken
  BY <1>1, LoadFixed
<1>4. pc'[p] \in {"dump", "save"} /\ \A q \in Procs \ {p} : pc'[q] = pc[q]
  BY <1>1 DEF DumpOpens, DumpSaves, Goto, TypeOK
<1>5. LockHeld'
  BY <1>1, <1>2, <1>4 DEF Disk, LockHeld, Dumping, Torn
<1>6. NotYetWhole'
  <2> SUFFICES ASSUME NEW q \in Procs, pc'[q] \in {"dump", "save"}, NEW t \in InAll(Selected)
               PROVE  param'[t] = "whole" \/ t \in cur'[q] \/ t \in InAll(queue[q])
    BY <1>1, <1>3 DEF NotYetWhole, InAll, In
  <2>1. q = p
    BY <1>2, <1>4 DEF Dumping
  <2>2. t \in Tensors
    <3>1. Selected \subseteq Files
      BY DEF Selected, Present
    <3> QED
      BY <3>1, InTensors DEF InAll
  <2>3. param[t] = "whole" \/ t \in cur[p] \/ t \in InAll(queue[p])
    BY <1>1 DEF Disk, NotYetWhole
  <2>4. CASE DumpOpens(p)
    <3>1. PICK u \in cur[p] : param' = [param EXCEPT ![u] = "part"]
      BY <2>4 DEF DumpOpens
    <3>2. cur' = cur
      BY <2>4 DEF DumpOpens
    <3>3. t # u => param'[t] = param[t]
      BY <1>1, <2>2, <3>1 DEF TypeOK
    <3> QED
      BY <2>1, <2>3, <3>1, <3>2, <3>3
  <2>5. CASE DumpSaves(p)
    <3>1. /\ param'[t] = IF t \in left[p] THEN "whole" ELSE param[t]
          /\ cur'[p] = cur[p] \ left[p]
      BY <1>1, <2>2, <2>5 DEF DumpSaves, TypeOK
    <3> QED
      BY <2>1, <2>3, <3>1
  <2> QED
    BY <2>4, <2>5
<1>7. ListedAreWhole'
  BY <1>1, <1>2 DEF ListedAreWhole
<1>8. \A q \in Procs : FailsFor(q)'
  BY <1>1, <1>3, <1>4 DEF Disk, FailsFor, Yielded, Torn
<1> QED
  BY <1>5, <1>6, <1>7, <1>8 DEF Disk

\* The list is begun when everything is whole, and finished under the same lock.
LEMMA NamesDisk ==
  ASSUME Inv, NEW p \in Procs, NamesOpen(p) \/ NamesWritten(p) PROVE Disk'
<1>1. /\ pc[p] \in {"dump", "list"} /\ TypeOK /\ Disk /\ load' = load
      /\ param' = param /\ kills' = kills /\ queue' = queue /\ cur' = cur /\ out' = out
      /\ names' # "absent"
  BY DEF Inv, NamesOpen, NamesWritten, warm
<1>2. /\ \A q \in Procs \ {p} : pc[q] \notin Dumping
      /\ lock = p /\ ~Torn
  BY <1>1, HolderAlone DEF Dumping
<1>3. Selected' = Selected /\ IndexBroken' = IndexBroken
  BY <1>1, LoadFixed
<1>4. /\ pc'[p] \in {"list", "names"} /\ \A q \in Procs \ {p} : pc'[q] = pc[q]
      /\ pc'[p] = "list" => names' = "part" /\ lock' = p
      /\ pc'[p] = "names" => names' = "whole" /\ lock' = None
  BY <1>1, <1>2 DEF NamesOpen, NamesWritten, Goto, TypeOK
<1>5. names # "whole"
  BY <1>1 DEF Disk, LockHeld
<1>6. LockHeld'
  BY <1>1, <1>2, <1>4, <1>5 DEF Disk, LockHeld, Dumping
<1>7. NotYetWhole'
  BY <1>2, <1>4 DEF NotYetWhole, Dumping
<1>8. ListedAreWhole'
  <2>1. \A t \in InAll(Selected) : param[t] = "whole"
    <3>1. CASE NamesOpen(p)
      <4>1. pc[p] = "dump" /\ cur[p] = {} /\ queue[p] = {}
        BY <3>1 DEF NamesOpen
      <4>2. InAll({}) = {}
        BY DEF InAll
      <4> QED
        BY <1>1, <4>1, <4>2 DEF Disk, NotYetWhole
    <3>2. CASE NamesWritten(p)
      BY <1>1, <3>2 DEF NamesWritten, Disk, LockHeld, ListedAreWhole
    <3> QED
      BY <3>1, <3>2
  <2> QED
    BY <1>1, <1>3, <2>1 DEF ListedAreWhole, InAll, In
<1>9. \A q \in Procs : FailsFor(q)'
  BY <1>1, <1>2, <1>3, <1>4 DEF Disk, FailsFor, Yielded
<1> QED
  BY <1>6, <1>7, <1>8, <1>9 DEF Disk

\* Reading the list and the dump changes nothing on disk; a list that was torn is
\* the only reason to fail.
LEMMA ReadDisk ==
  ASSUME Inv, NEW p \in Procs, ReadNames(p) \/ ReadParam(p) PROVE Disk'
<1>1. /\ pc[p] \in {"names", "params"} /\ TypeOK /\ LoadOK /\ Worker(p) /\ Disk /\ load' = load
      /\ UNCHANGED <<disk, kills>>
  BY DEF Inv, ReadNames, ReadParam
<1>2. OnlyMoves(p)
  BY <1>1, OneMoves DEF Step, DumpStep
<1>3. /\ pc'[p] \in {"params", "failed", "done"}
      /\ pc'[p] = "params" => pc[p] = "params" \/ names = "whole"
  BY <1>1 DEF ReadNames, ReadParam, Goto, TypeOK
<1>4. FailsFor(p)'
  <2> SUFFICES ASSUME pc'[p] = "failed" PROVE load.how = "np" /\ Torn
    BY <1>1, LoadFixed DEF FailsFor, Torn, disk
  <2>1. load.how = "np"
    BY <1>1 DEF Worker, InFormat
  <2>2. CASE ReadNames(p)
    BY <1>1, <2>1, <2>2 DEF ReadNames, Goto, TypeOK, Disk, LockHeld
  <2>3. CASE ReadParam(p)
    <3>1. PICK t \in cur[p] : param[t] # "whole" \/ UNCHANGED pc
      BY <1>1, <2>3 DEF ReadParam, Goto, TypeOK
    <3>2. names = "whole" /\ pc[p] = "params"
      BY <1>1, <2>3 DEF ReadParam, Disk, LockHeld
    <3>3. cur[p] \subseteq InAll(Selected)
      <4>1. load.how \notin OneByOne
        BY <2>1 DEF OneByOne
      <4> QED
        BY <1>1, <3>2, <4>1, GivenAll DEF Worker, Conserved
    <3> QED
      BY <1>1, <3>1, <3>2, <3>3 DEF Disk, ListedAreWhole
  <2> QED
    BY <2>2, <2>3
<1> QED
  BY <1>1, <1>2, <1>3, <1>4, OutsideDump DEF Dumping

\* A killed worker leaves its lock, its half-written file and its half-written list.
LEMMA KillDisk ==
  ASSUME Inv, NEW p \in Procs, Kill(p) PROVE Disk'
<1>1. /\ TypeOK /\ Disk /\ load' = load /\ param' = param /\ names' = names
      /\ kills' = kills + 1 /\ kills' > 0
      /\ lock' = IF lock = p THEN None ELSE lock
  BY WeightLoaderAssumption DEF Inv, Kill, TypeOK
<1>2. /\ pc'[p] = "dead" /\ OnlyMoves(p)
  BY <1>1, OneMoves DEF Kill, Goto, TypeOK
<1>3. Selected' = Selected /\ IndexBroken' = IndexBroken
  BY <1>1, LoadFixed
<1>4. Torn => Torn'
  BY <1>1 DEF Torn
<1>5. names = "part" => Torn' \/ \E q \in Procs : pc'[q] = "list"
  <2> SUFFICES ASSUME names = "part", NEW q \in Procs, pc[q] = "list"
               PROVE  Torn' \/ pc'[q] = "list"
    BY <1>1, <1>4 DEF Disk, LockHeld
  <2>1. lock = q
    BY <1>1 DEF Disk, LockHeld
  <2>2. CASE q = p
    BY <1>1, <2>1, <2>2 DEF Torn
  <2>3. CASE q # p
    BY <1>2, <2>3 DEF OnlyMoves
  <2> QED
    BY <2>2, <2>3
<1>6. LockHeld'
  <2>1. lock' # None => pc'[lock'] \in Dumping
    BY <1>1, <1>2 DEF Disk, LockHeld, OnlyMoves, TypeOK
  <2>2. ASSUME NEW q \in Procs
        PROVE  /\ pc'[q] \in {"dump", "save"} => lock' = q /\ names' = "absent"
               /\ pc'[q] = "list" => lock' = q /\ names' = "part"
               /\ pc'[q] = "names" => names' = "whole" \/ Torn'
               /\ pc'[q] = "params" => names' = "whole"
    <3>1. CASE q = p
      BY <1>2, <3>1
    <3>2. CASE q # p
      BY <1>1, <1>2, <1>4, <3>2 DEF Disk, LockHeld, OnlyMoves
    <3> QED
      BY <3>1, <3>2
  <2> QED
    BY <1>1, <1>5, <2>1, <2>2 DEF LockHeld
<1>7. NotYetWhole'
  <2> SUFFICES ASSUME NEW q \in Procs, pc'[q] \in {"dump", "save"}, NEW t \in InAll(Selected)
               PROVE  param[t] = "whole" \/ t \in cur'[q] \/ t \in InAll(queue'[q])
    BY <1>1, <1>3 DEF NotYetWhole, InAll, In
  <2> QED
    BY <1>1, <1>2 DEF Disk, NotYetWhole, OnlyMoves
<1>8. ListedAreWhole'
  BY <1>1, <1>3 DEF Disk, ListedAreWhole, InAll, In
<1>9. ASSUME NEW q \in Procs PROVE FailsFor(q)'
  <2>1. CASE q = p
    BY <1>2, <2>1 DEF FailsFor
  <2>2. CASE q # p
    BY <1>1, <1>2, <1>3, <1>4, <2>2 DEF Disk, FailsFor, OnlyMoves, Yielded
  <2> QED
    BY <2>1, <2>2
<1> QED
  BY <1>6, <1>7, <1>8, <1>9 DEF Disk

\* Steps that neither read nor write what a load rests on.
LEMMA SameDisk ==
  ASSUME Inv, UNCHANGED <<load, local, disk, kills>> PROVE Disk'
<1>1. /\ Disk /\ load' = load /\ pc' = pc /\ queue' = queue /\ cur' = cur /\ out' = out
      /\ lock' = lock /\ param' = param /\ names' = names /\ kills' = kills
  BY DEF Inv, local, disk
<1>2. Selected' = Selected /\ IndexBroken' = IndexBroken
  BY <1>1, LoadFixed
<1>3. LockHeld'
  BY <1>1 DEF Disk, LockHeld, Torn
<1>4. NotYetWhole' /\ ListedAreWhole'
  BY <1>1, <1>2 DEF Disk, NotYetWhole, ListedAreWhole, InAll, In
<1>5. \A q \in Procs : FailsFor(q)'
  BY <1>1, <1>2 DEF Disk, FailsFor, Yielded, Torn
<1> QED
  BY <1>3, <1>4, <1>5 DEF Disk

-----------------------------------------------------------------------------
(* The invariant, and what follows from it                                 *)

\* Nobody has started, and nothing is on disk.
LEMMA InitInv == Init => Inv
<1> SUFFICES ASSUME Init PROVE Inv
  OBVIOUS
<1>1. LoadOK
  <2>1. /\ load.how \in Safetensors \cup Bins /\ load.world \in {1, World}
        /\ load.missing \in {None} \cup Faulty /\ load.bad \in {None} \cup Faulty
    BY DEF Init
  <2> QED
    BY <2>1 DEF Init, LoadOK
<1>2. LocalTypes /\ DiskTypes
  <2>1. pc \in [Procs -> Pcs]
    BY DEF Init, Pcs, Ended
  <2>2. pool \in [Procs -> [Files -> Futures]]
    BY DEF Init, Futures
  <2>3. param \in [Tensors -> FileStates] /\ names \in FileStates
    BY DEF Init, FileStates
  <2>4. kills \in 0 .. MaxKills
    BY WeightLoaderAssumption DEF Init
  <2>5. /\ queue \in [Procs -> SUBSET Files] /\ share \in [Procs -> SUBSET Files]
        /\ cur \in [Procs -> SUBSET Tensors] /\ left \in [Procs -> SUBSET Tensors]
        /\ out \in [Procs -> [Tensors -> Nat]]
        /\ nogds \in [Procs -> BOOLEAN] /\ warming \in [Procs -> BOOLEAN]
    BY DEF Init
  <2> QED
    BY <2>1, <2>2, <2>3, <2>4, <2>5 DEF Init, LocalTypes, DiskTypes
<1>3. PoolFits
  <2>1. \A p \in Procs : Reading(p) = {}
    BY DEF Init, Reading
  <2>2. Cardinality({}) = 0 /\ 0 <= MaxWorkers
    BY FS_EmptySet, WeightLoaderAssumption
  <2> QED
    BY <2>1, <2>2 DEF PoolFits
<1>4. ASSUME NEW p \in Procs PROVE Worker(p)
  <2>1. /\ pc[p] \in {"idle", "select"} /\ (pc[p] = "idle" => load.how \in Pooled)
        /\ cur[p] = {} /\ left[p] = {} /\ out[p] = [t \in Tensors |-> 0]
    BY DEF Init
  <2> QED
    BY <2>1 DEF Worker, HandedOnce, Conserved, InFormat, Started, Handed, Unstarted, Dumping
<1>5. Disk
  <2>1. /\ \A p \in Procs : pc[p] \in {"idle", "select"}
        /\ lock = None /\ names = "absent"
    BY DEF Init
  <2> QED
    BY <2>1 DEF Disk, LockHeld, NotYetWhole, ListedAreWhole, FailsFor
<1> QED
  BY <1>1, <1>2, <1>3, <1>4, <1>5, TypesSplit DEF Inv

\* Whatever a worker, one of its threads, the prefetch or the operator does, the
\* invariant is kept.
LEMMA StepInv == Inv /\ [Next]_vars => Inv'
<1>1. ASSUME Inv, NEW p \in Procs,
             Step(p) \/ ThreadStep(p) \/ PrefetchAll(p) \/ Kill(p) \/ Restart(p)
      PROVE  Inv'
  <2>1. TypeOK'
    <3>1. (LocalTypes /\ DiskTypes /\ PoolFits)'
      BY <1>1, StepTypes, StepPoolFits
    <3> QED
      BY <3>1, TypesSplit, PTL
  <2>2. OnlyMoves(p)
    BY <1>1, OneMoves DEF Inv
  <2>3. LoadOK'
    BY <1>1, <2>2 DEF Inv, LoadOK, OnlyMoves
  <2>4. \A q \in Procs : Worker(q)'
    BY <1>1, StepWorkers
  <2>5. Disk'
    <3>1. CASE DumpStep(p)
      BY <1>1, <3>1, EnterLockDisk, DumpFileDisk, DumpTensorDisk, DumpBreaksDisk, NamesDisk,
         ReadDisk
      DEF DumpStep
    <3>2. CASE PrefetchAll(p)
      BY <1>1, <3>2, SameDisk DEF PrefetchAll
    <3>3. CASE Restart(p)
      <4>1. /\ pc[p] = "dead" /\ pc'[p] = "select" /\ UNCHANGED <<disk, kills>>
        BY <1>1, <3>3 DEF Restart, Goto, Inv, TypeOK
      <4> QED
        BY <1>1, <2>2, <4>1, OutsideDump DEF Dumping, FailsFor
    <3> QED
      BY <1>1, <3>1, <3>2, <3>3, OtherSteps, KillDisk DEF Step
  <2> QED
    BY <2>1, <2>3, <2>4, <2>5 DEF Inv
<1>2. ASSUME Inv, UNCHANGED vars PROVE Inv'
  <2>1. /\ UNCHANGED <<load, local, disk, kills, share>> /\ TypeOK' /\ LoadOK'
    BY <1>2 DEF vars, warm, local, disk, Inv, TypeOK, LoadOK
  <2>2. \A q \in Procs : Worker(q)'
    BY <1>2, <2>1, WorkerFrame DEF local, Inv
  <2>3. Disk'
    BY <1>2, <2>1, SameDisk
  <2> QED
    BY <2>1, <2>2, <2>3 DEF Inv
<1> QED
  BY <1>1, <1>2 DEF Next

\* The invariant holds of every run: any workers, killed and started again any
\* number of times, on any folder, in any format.
THEOREM SpecInv == Spec => []Inv
<1>1. Init => Inv
  BY InitInv
<1>2. Inv /\ [Next]_vars => Inv'
  BY StepInv
<1> QED
  BY <1>1, <1>2, PTL DEF Spec

\* The variables keep their types, and a pool its number of threads.
THEOREM TypeCorrect == Spec => []TypeOK
<1>1. Inv => TypeOK
  BY DEF Inv
<1> QED
  BY <1>1, SpecInv, PTL

\* No iterator hands a tensor over twice, the load that starts again without GDS
\* and the parts torchao joins included.
THEOREM HandedOverOnce == Spec => []NoneTwice
<1>1. Inv => NoneTwice
  BY DEF Inv, Worker, HandedOnce, NoneTwice
<1> QED
  BY <1>1, SpecInv, PTL

\* Whoever finds a name list finds every tensor it names whole, whenever and however
\* often the workers that dump were killed.
THEOREM DumpIsWhole == Spec => []ListedAreWhole
<1>1. Inv => ListedAreWhole
  BY DEF Inv, Disk
<1> QED
  BY <1>1, SpecInv, PTL

\* A load fails for what its folder, its GDS or the rest it needs is, or for a name
\* list whose writer was killed, and for nothing else the workers do.
THEOREM FailuresHaveReasons == Spec => []FailsForAReason
<1>1. Inv => FailsForAReason
  BY DEF Inv, Disk, FailsFor, FailsForAReason, Torn
<1> QED
  BY <1>1, SpecInv, PTL

\* What a finished load handed over is what was asked of it.
LEMMA DoneIsExact == Inv => LoadExact
<1> SUFFICES ASSUME Inv, NEW p \in Procs, pc[p] = "done", NEW t \in Tensors,
                    ~(t \in Tables /\ load.disk /\ load.how \notin {"lazy", "prefetch"})
             PROVE  out[p][t] = IF t \in Promised \ Skipped(p) THEN 1 ELSE 0
  BY DEF LoadExact
<1> DEFINE All == InAll(Selected)
           E == IF load.how \in OneByOne THEN Skips[p] ELSE {}
           D == E \cup (IF load.how \in {"lazy", "prefetch"} /\ load.disk THEN Tables ELSE {})
<1>1. TypeOK /\ LoadOK /\ ~IndexBroken /\ Handed(p) = Given(p, Selected)
      /\ out[p][t] \in {0, 1}
  <2>1. Worker(p) /\ TypeOK /\ LoadOK
    BY DEF Inv
  <2>2. out[p][t] \in Nat /\ out[p][t] <= 1
    BY <2>1 DEF TypeOK, Worker, HandedOnce
  <2> QED
    BY <2>1, <2>2 DEF Worker, Conserved, Started, Unstarted
<1>2. out[p][t] = 1 <=> t \in Given(p, Selected)
  BY <1>1 DEF Handed
<1>3. Promised = IF load.how = "torchao" THEN Unflattened(All) ELSE All
  <2>1. (IF load.indexed THEN 1 .. Shards ELSE Selected) = Selected
    BY <1>1, IndexedSelected
  <2> QED
    BY <2>1 DEF Promised
<1>4. HeldOf(p, Selected) = All \ D
  BY DEF HeldOf, Kept, InAll
<1>5. t \in D <=> t \in Skipped(p)
  <2>1. Skipped(p) = E \cup (IF load.disk THEN Tables ELSE {})
    BY DEF Skipped
  <2> HIDE DEF E
  <2> QED
    BY <2>1
<1>6. D \subseteq Skips[p] \cup Tables /\ D \cap Parts = E \cap Parts
  BY WeightLoaderAssumption
<1>7. E = {} \/ E = Skips[p]
  OBVIOUS
<1> HIDE DEF All, D, E
<1>8. t \in Given(p, Selected) <=> t \in Promised \ Skipped(p)
  <2>1. CASE load.how = "torchao"
    <3>1. Given(p, Selected) = Unflattened(All \ D) /\ Promised = Unflattened(All)
      BY <1>3, <1>4, <2>1 DEF Given
    <3>2. t \in Parts /\ t \notin D => (Parts \subseteq All \ D <=> Parts \subseteq All)
      BY <1>6, <1>7, WeightLoaderAssumption
    <3> QED
      BY <1>5, <3>1, <3>2 DEF Unflattened
  <2>2. CASE load.how # "torchao"
    BY <1>3, <1>4, <1>5, <2>2 DEF Given
  <2> QED
    BY <2>1, <2>2
<1> QED
  BY <1>1, <1>2, <1>8

\* A load that ends has handed over exactly what was promised, once each.
THEOREM LoadsAreExact == Spec => []LoadExact
BY SpecInv, DoneIsExact, PTL

\* sorted_files[rank::world_size] gives each file to one rank.
LEMMA SharesPartition == Inv => PrefetchedOnce
<1> SUFFICES ASSUME Inv, ShouldPrefetch,
                    \A p \in Procs : pc[p] \notin {"select", "dead", "failed"},
                    NEW f \in Selected
             PROVE  Cardinality({p \in Procs : f \in share[p]}) = IF Distributed THEN 1 ELSE World
  BY DEF PrefetchedOnce
<1> DEFINE n == Cardinality({g \in Selected : g < f})
<1>1. n \in Nat
  <2>1. {g \in Selected : g < f} \subseteq Files
    BY DEF Selected, Present
  <2> QED
    BY <2>1, FilesFinite, FS_Subset, FS_CardinalityType
<1>2. \A p \in Procs : f \in share[p] <=> n % load.world = Rank(p)
  <2> SUFFICES ASSUME NEW p \in Procs PROVE f \in share[p] <=> n % load.world = Rank(p)
    OBVIOUS
  <2>1. Worker(p)
    BY DEF Inv
  <2>2. pc[p] # "idle"
    BY <2>1 DEF Worker, InFormat, ShouldPrefetch, Pooled
  <2>3. share[p] = PrefetchShare(p)
    BY <2>1, <2>2 DEF Worker, Started, Unstarted
  <2> QED
    BY <2>3 DEF PrefetchShare
<1> HIDE DEF n
<1>3. World \in Nat \ {0} /\ load.world \in {1, World}
  BY WeightLoaderAssumption DEF Inv, LoadOK
<1>4. CASE Distributed
  <2>1. load.world = World /\ World > 1
    BY <1>3, <1>4 DEF Distributed
  <2>2. n % World \in Procs
    BY <1>1, <1>3 DEF Procs
  <2>3. {p \in Procs : f \in share[p]} = {n % World}
    BY <1>2, <1>4, <2>1, <2>2 DEF Rank
  <2> QED
    BY <1>4, <2>3, FS_Singleton
<1>5. CASE ~Distributed
  <2>1. load.world = 1
    BY <1>3, <1>5 DEF Distributed
  <2>2. n % 1 = 0
    BY <1>1
  <2>3. {p \in Procs : f \in share[p]} = Procs
    BY <1>2, <1>5, <2>1, <2>2 DEF Rank
  <2>4. Cardinality(Procs) = World
    <3>1. 0 \in Int /\ World - 1 \in Int /\ ~(0 > World - 1) /\ World - 1 - 0 + 1 = World
      BY <1>3
    <3> QED
      BY <3>1, FS_Interval DEF Procs
  <2> QED
    BY <1>5, <2>3, <2>4
<1> QED
  BY <1>4, <1>5

\* Every selected file is read ahead on one rank, whatever the number of ranks and
\* of files, and by everyone when the workers are not distributed.
THEOREM FilesPrefetchedOnce == Spec => []PrefetchedOnce
BY SpecInv, SharesPartition, PTL
=============================================================================
