------------------------------ MODULE MCStartup ------------------------------
(* The script that brings the service up, and the loaders in its containers. They *)
(* share no state: either the script runs before any loader has started, or the   *)
(* loaders run beside a script that hangs in its first call on empty nodes.       *)
EXTENDS MCWeightLoader, Launcher

NoLoader == [p \in Procs |-> "idle"]
PlainLoad ==
  [how |-> "lazy", disk |-> FALSE, netfs |-> FALSE, world |-> World, indexed |-> TRUE,
   extra |-> FALSE, missing |-> None, bad |-> None, gds |-> TRUE, fit |-> TRUE]

LoadersAtRest ==
  /\ load = PlainLoad
  /\ pc = NoLoader
  /\ queue = [p \in Procs |-> {}] /\ cur = [p \in Procs |-> {}] /\ left = [p \in Procs |-> {}]
  /\ out = [p \in Procs |-> [t \in Tensors |-> 0]]
  /\ pool = [p \in Procs |-> [f \in Files |-> "none"]]
  /\ nogds = [p \in Procs |-> FALSE]
  /\ share = [p \in Procs |-> {}] /\ warming = [p \in Procs |-> FALSE]
  /\ lock = None /\ param = [t \in Tensors |-> "absent"] /\ names = "absent" /\ kills = 0

ScriptAtRest ==
  /\ phase = "hung" /\ rank = 0 /\ turn = 1 /\ exit = NotYet
  /\ guard = [r \in Ranks |-> FALSE] /\ container = [r \in Ranks |-> Absent] /\ serving = FALSE
  /\ lost = {} /\ failed = {} /\ guardSeen = [r \in Ranks |-> FALSE] /\ answeredBy = NotYet

\* The guards of the nodes other than the head are off duty from the start: what the
\* script does is the same for each of them.
OneGuard == \A r \in Ranks : guard[r] => r = 0

StartupInit ==
  \/ LaunchInit /\ OneGuard /\ LoadersAtRest
  \/ Init /\ ScriptAtRest
StartupNext ==
  \/ LaunchNext /\ UNCHANGED vars
  \/ Next /\ UNCHANGED launchVars
\* The fairness of FairLaunchSpec and FairSpec.
StartupSpec ==
  /\ StartupInit /\ [][StartupNext]_<<vars, launchVars>>
  /\ WF_launchVars(Script)
  /\ \A p \in Procs : WF_vars(Step(p)) /\ WF_vars(ThreadStep(p))
=============================================================================
