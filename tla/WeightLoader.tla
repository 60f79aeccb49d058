---------------------------- MODULE WeightLoader ----------------------------
(***************************************************************************)
(* patch/weight_utils.py: the iterators through which the workers of a host *)
(* read one checkpoint folder, whatever the load format. A tensor is read   *)
(* file by file, by a pool of threads, as one stream, or from numpy files   *)
(* the workers dump first under a file lock. Workers are killed and started *)
(* again; what is on disk outlives them. Libraries (safetensors, the        *)
(* streamers, torchao's unflattening) are modelled by what they hand over.  *)
(***************************************************************************)
EXTENDS Integers, FiniteSets, FiniteSetsExt

CONSTANTS
  World,       \* worker processes on the folder
  Shards,      \* number of shard files; file Shards + 1 is a duplicate of them all
               \* (consolidated.safetensors), or one training left (optimizer.bin)
  Tensors,
  HeldBy,      \* [1 .. Shards -> SUBSET Tensors]
  Tables,      \* the Engram tables among Tensors
  Skips,       \* [Procs -> SUBSET Tensors]: experts of other ranks (should_skip_weight)
  Parts,       \* the tensors torchao joins to one before they can be handed over
  MaxWorkers,  \* max_workers of the thread pools
  Faulty,      \* bound: shards that may be missing or unreadable
  MaxKills,    \* bound: workers killed during a load
  None

Procs == 0 .. World - 1

ASSUME WeightLoaderAssumption ==
  /\ World \in Nat \ {0} /\ Shards \in Nat \ {0}
  /\ None \notin Procs \cup 1 .. Shards + 1
  /\ Faulty \subseteq 1 .. Shards
  /\ MaxWorkers \in Nat \ {0} /\ MaxKills \in Nat
  /\ HeldBy \in [1 .. Shards -> SUBSET Tensors]
  /\ UNION {HeldBy[f] : f \in 1 .. Shards} = Tensors
  /\ \A f, g \in 1 .. Shards : f # g => HeldBy[f] \cap HeldBy[g] = {}
  /\ Skips \in [Procs -> SUBSET (Tensors \ Tables)]
  /\ Tables \subseteq Tensors /\ Parts \subseteq Tensors \ Tables
  /\ \A p \in Procs : Parts \subseteq Skips[p] \/ Parts \cap Skips[p] = {}

Extra == Shards + 1
Files == 1 .. Extra
In(f) == IF f = Extra THEN Tensors ELSE HeldBy[f]
InAll(F) == UNION {In(f) : f \in F}

Safetensors == {"lazy", "prefetch", "eager", "torchao", "threads", "stream", "fast"}
Bins == {"pt", "pt_threads", "np"}
OneByOne == {"lazy", "prefetch", "eager", "torchao"}
Pooled == {"threads", "pt_threads"}

VARIABLES
  load,     \* how and from what the workers load, fixed
  pc,       \* [p -> where its iterator is]
  queue,    \* [p -> files it has not opened yet]
  cur,      \* [p -> tensors it has, and has not handed over]
  left,     \* [p -> leftover_state_dict]
  out,      \* [p -> [tensor -> times it was handed over]]
  pool,     \* [p -> [file -> its future]]
  nogds,    \* [p -> the fastsafetensors loader does not use GDS]
  share,    \* [p -> files its prefetch was given]
  warming,  \* [p -> the prefetch's daemon thread runs]
  lock,     \* the process that holds get_lock's file lock
  param,    \* np/<name>: [tensor -> state of its file]
  names,    \* np/weight_names.json
  kills

local == <<pc, queue, cur, left, out, pool, nogds>>
warm == <<share, warming>>
disk == <<lock, param, names>>
vars == <<load, local, warm, disk, kills>>

FileStates == {"absent", "part", "whole"}
Ended == {"done", "failed", "dead"}

Present == {f \in Files : f # load.missing /\ (f = Extra => load.extra)}

\* filter_duplicate_safetensors_files, filter_files_not_needed_for_inference
Selected ==
  IF load.how \in Bins THEN Present \ {Extra}
  ELSE IF load.indexed THEN Present \cap 1 .. Shards
  ELSE Present
IndexBroken == load.how \in Safetensors /\ load.indexed /\ load.missing # None

Distributed == load.world > 1
Rank(p) == IF Distributed THEN p ELSE 0

ShouldPrefetch == load.how = "prefetch" \/ (load.how = "lazy" /\ load.netfs)

\* load.fit: what a way of reading needs besides its files is there. An index that
\* parses; prefetch's arguments; torchao 0.15; the streamer's library and its GPU; an
\* np folder and a lock that can be written, room and a dtype numpy has.
\*
\* A shard and its duplicate are only found side by side when an index says
\* which to use, the tables' rows are read from safetensors, a load starts on a folder
\* nobody has dumped. Bounds: one thing is wrong at a time; loads with a pool share
\* nothing, so one worker makes one.
Init ==
  /\ load \in [how : Safetensors \cup Bins, disk : BOOLEAN, netfs : BOOLEAN,
               world : {1, World}, indexed : BOOLEAN, extra : BOOLEAN,
               missing : {None} \cup Faulty, bad : {None} \cup Faulty,
               gds : BOOLEAN, fit : BOOLEAN]
  /\ load.missing = None \/ load.bad = None
  /\ ~load.fit => load.missing = None /\ load.bad = None
  /\ load.how \in Bins => ~load.indexed
  /\ load.how \in Safetensors /\ load.extra => load.indexed
  /\ load.netfs => load.how = "lazy"
  /\ ~load.gds => load.how = "fast" /\ load.fit
  /\ ~load.fit => load.indexed \/ ShouldPrefetch \/ load.how \in {"torchao", "stream", "fast", "np"}
  /\ load.disk => load.how \in Safetensors
  /\ load.world = 1 => load.how \in {"lazy", "prefetch", "fast"}
  /\ pc = [p \in Procs |-> IF load.how \in Pooled /\ p > 0 THEN "idle" ELSE "select"]
  /\ queue = [p \in Procs |-> {}]
  /\ cur = [p \in Procs |-> {}]
  /\ left = [p \in Procs |-> {}]
  /\ out = [p \in Procs |-> [t \in Tensors |-> 0]]
  /\ pool = [p \in Procs |-> [f \in Files |-> "none"]]
  /\ nogds = [p \in Procs |-> FALSE]
  /\ share = [p \in Procs |-> {}]
  /\ warming = [p \in Procs |-> FALSE]
  /\ lock = None
  /\ param = [t \in Tensors |-> "absent"]
  /\ names = "absent"
  /\ kills = 0

Goto(p, l) == pc' = [pc EXCEPT ![p] = l]

HandOver(p, t) ==
  /\ out' = [out EXCEPT ![p][t] = @ + 1]
  /\ cur' = [cur EXCEPT ![p] = @ \ {t}]

-----------------------------------------------------------------------------
(* Starting a load *)

\* sorted_files[rank::world_size], on the ranks of the whole world
PrefetchShare_NextRank(p) ==
  {f \in Selected : Cardinality({g \in Selected : g < f}) % load.world = Rank(p) + 1}
PrefetchShare(p) ==
  {f \in Selected : Cardinality({g \in Selected : g < f}) % load.world = Rank(p)}

\* The selected files are queued. A pool's futures are all submitted at once:
\* as_completed makes a set of the generator it is given.
StartLoad(p) ==
  /\ pc[p] = "select"
  /\ Goto(p, CASE load.how = "np" -> "lock"
               [] load.how \in Pooled -> "pooled"
               [] OTHER -> "files")
  /\ queue' = [queue EXCEPT ![p] = Selected]
  /\ pool' = [pool EXCEPT ![p] =
       [f \in Files |-> IF load.how \in Pooled /\ f \in Selected THEN "pending" ELSE "none"]]
  /\ nogds' = [nogds EXCEPT ![p] = Distributed]
  /\ share' = [share EXCEPT ![p] = IF ShouldPrefetch THEN PrefetchShare(p) ELSE {}]
  /\ warming' = [warming EXCEPT ![p] = ShouldPrefetch]
  /\ UNCHANGED <<load, cur, left, out, disk, kills>>

Fail(p) ==
  /\ Goto(p, "failed")
  /\ UNCHANGED <<load, queue, cur, left, out, pool, nogds, warm, disk, kills>>

\* The prefetch refuses its arguments. The index may be the reason not to be fit, and
\* the size of a file that is gone cannot be read.
CannotStart == IndexBroken \/ (ShouldPrefetch /\ ~load.fit)
MayNotStart == (load.indexed /\ ~load.fit) \/ (load.how \in OneByOne /\ load.bad # None)
Select(p) ==
  \/ ~CannotStart /\ StartLoad(p)
  \/ pc[p] = "select" /\ (CannotStart \/ MayNotStart) /\ Fail(p)

\* The daemon thread has read its files into the page cache, in any order and
\* beside the iterator; a file it cannot read is only logged.
PrefetchAll(p) ==
  /\ warming[p]
  /\ warming' = [warming EXCEPT ![p] = FALSE]
  /\ UNCHANGED <<load, local, share, disk, kills>>

-----------------------------------------------------------------------------
(* One file at a time: safetensors_weights_iterator, pt_weights_iterator *)

\* What an iterator takes from a file it opened: only the lazy branch leaves
\* the Engram tables on disk.
Kept(p, f) ==
  In(f) \ ((IF load.how \in OneByOne THEN Skips[p] ELSE {})
           \cup (IF load.how \in {"lazy", "prefetch"} /\ load.disk THEN Tables ELSE {}))

\* torchao's version is looked at before each file
CannotRead(f) == f = load.bad \/ (load.how = "torchao" /\ ~load.fit)

\* unflatten_tensor_state_dict: the parts of a tensor are joined when all are there
Unflattened(held) == {t \in held : t \in Parts => Parts \subseteq held}

NextFile_DropLeftover(p) ==
  /\ pc[p] = "files" /\ load.how \in OneByOne \cup {"pt"}
  /\ cur[p] = {} /\ queue[p] # {}
  /\ \E f \in queue[p] :
       /\ load.how # "pt" => f = Min(queue[p])
       /\ queue' = [queue EXCEPT ![p] = @ \ {f}]
       /\ IF CannotRead(f)
          THEN Goto(p, "failed") /\ UNCHANGED <<cur, left>>
          ELSE /\ cur' = [cur EXCEPT ![p] = IF load.how = "torchao"
                            THEN Unflattened(Kept(p, f)) ELSE Kept(p, f)]
               /\ UNCHANGED <<pc, left>>
  /\ UNCHANGED <<load, out, pool, nogds, warm, disk, kills>>
NextFile(p) ==
  /\ pc[p] = "files" /\ load.how \in OneByOne \cup {"pt"}
  /\ cur[p] = {} /\ queue[p] # {}
  /\ \E f \in queue[p] :
       LET held == Kept(p, f) \cup left[p]
           ready == IF load.how = "torchao" THEN Unflattened(held) ELSE held
       IN  /\ load.how # "pt" => f = Min(queue[p])
           /\ queue' = [queue EXCEPT ![p] = @ \ {f}]
           /\ IF CannotRead(f)
              THEN Goto(p, "failed") /\ UNCHANGED <<cur, left>>
              ELSE /\ cur' = [cur EXCEPT ![p] = ready]
                   /\ left' = [left EXCEPT ![p] = held \ ready]
                   /\ UNCHANGED pc
  /\ UNCHANGED <<load, out, pool, nogds, warm, disk, kills>>

\* The consumer takes the next tensor of what has been read
Yield(p) ==
  /\ pc[p] \in {"files", "pooled"}
  /\ \E t \in cur[p] : HandOver(p, t)
  /\ UNCHANGED <<load, pc, queue, left, pool, nogds, warm, disk, kills>>

End(p) ==
  /\ cur[p] = {}
  /\ \/ pc[p] = "files" /\ queue[p] = {}
     \/ pc[p] = "pooled" /\ \A f \in Files : pool[p][f] \in {"none", "taken"}
  /\ Goto(p, "done")
  /\ UNCHANGED <<load, queue, cur, left, out, pool, nogds, warm, disk, kills>>

-----------------------------------------------------------------------------
(* One stream: runai_, instanttensor_ and fastsafetensors_weights_iterator *)

OpenStream(p) ==
  /\ pc[p] = "files" /\ load.how \in {"stream", "fast"} /\ queue[p] # {}
  /\ \/ ~load.fit /\ Fail(p)
     \/ /\ load.fit
        /\ cur' = [cur EXCEPT ![p] = InAll(queue[p])]
        /\ queue' = [queue EXCEPT ![p] = {}]
        /\ UNCHANGED <<load, pc, left, out, pool, nogds, warm, disk, kills>>

\* The library meets the file it cannot read, anywhere in the stream
StreamBreaks(p) ==
  /\ pc[p] = "files" /\ load.how \in {"stream", "fast"} /\ queue[p] = {}
  /\ load.bad # None /\ cur[p] \cap In(load.bad) # {}
  /\ Fail(p)

Yielded(p) == \E t \in Tensors : out[p][t] > 0

FallBack(p) ==
  /\ pc[p] = "files" /\ load.how = "fast" /\ ~load.gds /\ ~nogds[p]
  /\ cur[p] # {} \/ queue[p] # {}
  /\ queue' = [queue EXCEPT ![p] = Selected]
  /\ cur' = [cur EXCEPT ![p] = {}]
  /\ nogds' = [nogds EXCEPT ![p] = TRUE]
  /\ UNCHANGED <<load, pc, left, out, pool, warm, disk, kills>>
\* GDS fails when the loader is made, or in its producer thread later
GdsBreaks(p) ==
  \/ ~Yielded(p) /\ FallBack(p)
  \/ /\ pc[p] = "files" /\ load.how = "fast" /\ ~load.gds /\ ~nogds[p]
     /\ Yielded(p) /\ cur[p] # {}
     /\ Fail(p)

-----------------------------------------------------------------------------
(* A pool of threads: the two multi_thread iterators *)

WorkerTakes_NoBound(p, f) ==
  /\ pc[p] \in {"pooled", "closing"} /\ pool[p][f] = "pending"
  /\ pool' = [pool EXCEPT ![p][f] = "reading"]
  /\ UNCHANGED <<load, pc, queue, cur, left, out, nogds, warm, disk, kills>>
WorkerTakes(p, f) ==
  /\ pc[p] \in {"pooled", "closing"} /\ pool[p][f] = "pending"
  /\ Cardinality({g \in Files : pool[p][g] = "reading"}) < MaxWorkers
  /\ pool' = [pool EXCEPT ![p][f] = "reading"]
  /\ UNCHANGED <<load, pc, queue, cur, left, out, nogds, warm, disk, kills>>

WorkerEnds(p, f) ==
  /\ pc[p] \in {"pooled", "closing"} /\ pool[p][f] = "reading"
  /\ pool' = [pool EXCEPT ![p][f] = IF f = load.bad THEN "error" ELSE "loaded"]
  /\ UNCHANGED <<load, pc, queue, cur, left, out, nogds, warm, disk, kills>>

\* as_completed yields a future that is done; result() raises what its thread raised
NextFuture(p, f) ==
  /\ pc[p] = "pooled" /\ cur[p] = {} /\ pool[p][f] \in {"loaded", "error"}
  /\ pool' = [pool EXCEPT ![p][f] = "taken"]
  /\ IF pool[p][f] = "error"
     THEN Goto(p, "closing") /\ UNCHANGED cur
     ELSE cur' = [cur EXCEPT ![p] = In(f)] /\ UNCHANGED pc
  /\ UNCHANGED <<load, queue, left, out, nogds, warm, disk, kills>>

\* Leaving the executor's block waits for every submitted file
PoolCloses(p) ==
  /\ pc[p] = "closing" /\ \A f \in Files : pool[p][f] \notin {"pending", "reading"}
  /\ Fail(p)

-----------------------------------------------------------------------------
(* np_cache_weights_iterator *)

\* The folder or the lock's file cannot be made
NoFolder(p) == pc[p] = "lock" /\ ~load.fit /\ Fail(p)

EnterLock_NoLock(p) ==
  /\ pc[p] = "lock"
  /\ IF names = "absent" THEN Goto(p, "dump") /\ lock' = p ELSE Goto(p, "names") /\ UNCHANGED lock
  /\ UNCHANGED <<load, queue, cur, left, out, pool, nogds, warm, param, names, kills>>
EnterLock(p) ==
  /\ pc[p] = "lock" /\ lock = None
  /\ IF names = "absent" THEN Goto(p, "dump") /\ lock' = p ELSE Goto(p, "names") /\ UNCHANGED lock
  /\ UNCHANGED <<load, queue, cur, left, out, pool, nogds, warm, param, names, kills>>

DumpFile_KeepLock(p) ==
  /\ pc[p] = "dump" /\ cur[p] = {}
  /\ \E f \in queue[p] :
       /\ queue' = [queue EXCEPT ![p] = @ \ {f}]
       /\ IF f = load.bad THEN Goto(p, "failed") /\ UNCHANGED cur
          ELSE cur' = [cur EXCEPT ![p] = In(f)] /\ UNCHANGED pc
  /\ UNCHANGED <<load, left, out, pool, nogds, warm, disk, kills>>
\* torch.load of the next bin file; a failure leaves the locked block
DumpFile(p) ==
  /\ pc[p] = "dump" /\ cur[p] = {}
  /\ \E f \in queue[p] :
       /\ queue' = [queue EXCEPT ![p] = @ \ {f}]
       /\ IF f = load.bad
          THEN Goto(p, "failed") /\ lock' = None /\ UNCHANGED cur
          ELSE cur' = [cur EXCEPT ![p] = In(f)] /\ UNCHANGED <<pc, lock>>
  /\ UNCHANGED <<load, left, out, pool, nogds, warm, param, names, kills>>

\* open(param_path, "wb"), then np.save
DumpOpens(p) ==
  /\ pc[p] = "dump"
  /\ \E t \in cur[p] : left' = [left EXCEPT ![p] = {t}] /\ param' = [param EXCEPT ![t] = "part"]
  /\ Goto(p, "save")
  /\ UNCHANGED <<load, queue, cur, out, pool, nogds, warm, lock, names, kills>>
DumpSaves(p) ==
  /\ pc[p] = "save"
  /\ param' = [t \in Tensors |-> IF t \in left[p] THEN "whole" ELSE param[t]]
  /\ cur' = [cur EXCEPT ![p] = @ \ left[p]]
  /\ left' = [left EXCEPT ![p] = {}]
  /\ Goto(p, "dump")
  /\ UNCHANGED <<load, queue, out, pool, nogds, warm, lock, names, kills>>

\* A file cannot be opened, converted or written: its part stays, the lock is left
DumpBreaks(p) ==
  /\ pc[p] \in {"save", "list"} \/ (pc[p] = "dump" /\ (cur[p] # {} \/ queue[p] = {}))
  /\ ~load.fit
  /\ Goto(p, "failed") /\ lock' = None
  /\ UNCHANGED <<load, queue, cur, left, out, pool, nogds, warm, param, names, kills>>

NamesOpen_Early(p) ==
  /\ pc[p] = "dump" /\ cur[p] = {}
  /\ names' = "part"
  /\ Goto(p, "list")
  /\ UNCHANGED <<load, queue, cur, left, out, pool, nogds, warm, lock, param, kills>>
\* The name list is opened for writing, then written; the lock is released
NamesOpen(p) ==
  /\ pc[p] = "dump" /\ cur[p] = {} /\ queue[p] = {}
  /\ names' = "part"
  /\ Goto(p, "list")
  /\ UNCHANGED <<load, queue, cur, left, out, pool, nogds, warm, lock, param, kills>>
NamesWritten(p) ==
  /\ pc[p] = "list"
  /\ names' = "whole" /\ lock' = None
  /\ Goto(p, "names")
  /\ UNCHANGED <<load, queue, cur, left, out, pool, nogds, warm, param, kills>>

\* json.load of the name list, outside the lock
ReadNames(p) ==
  /\ pc[p] = "names"
  /\ queue' = [queue EXCEPT ![p] = {}]
  /\ IF names = "whole"
     THEN Goto(p, "params") /\ cur' = [cur EXCEPT ![p] = InAll(Selected)]
     ELSE Goto(p, "failed") /\ UNCHANGED cur
  /\ UNCHANGED <<load, left, out, pool, nogds, warm, disk, kills>>

\* np.load raises on a file that is not whole
ReadParam(p) ==
  /\ pc[p] = "params"
  /\ \/ \E t \in cur[p] :
          IF param[t] = "whole" THEN HandOver(p, t) /\ UNCHANGED pc
          ELSE Goto(p, "failed") /\ UNCHANGED <<out, cur>>
     \/ cur[p] = {} /\ Goto(p, "done") /\ UNCHANGED <<out, cur>>
  /\ UNCHANGED <<load, queue, left, pool, nogds, warm, disk, kills>>

-----------------------------------------------------------------------------
(* Workers are killed (the lock goes with them) and started again *)

Kill(p) ==
  /\ pc[p] \notin Ended \cup {"idle"} /\ kills < MaxKills
  /\ kills' = kills + 1
  /\ Goto(p, "dead")
  /\ lock' = IF lock = p THEN None ELSE lock
  /\ queue' = [queue EXCEPT ![p] = {}]
  /\ cur' = [cur EXCEPT ![p] = {}]
  /\ left' = [left EXCEPT ![p] = {}]
  /\ out' = [out EXCEPT ![p] = [t \in Tensors |-> 0]]
  /\ pool' = [pool EXCEPT ![p] = [f \in Files |-> "none"]]
  /\ nogds' = [nogds EXCEPT ![p] = FALSE]
  /\ share' = [share EXCEPT ![p] = {}]
  /\ warming' = [warming EXCEPT ![p] = FALSE]
  /\ UNCHANGED <<load, param, names>>

Restart(p) ==
  /\ pc[p] = "dead"
  /\ Goto(p, "select")
  /\ UNCHANGED <<load, queue, cur, left, out, pool, nogds, warm, disk, kills>>

FileStep(p) == NextFile(p) \/ Yield(p) \/ End(p) \/ OpenStream(p) \/ StreamBreaks(p) \/ GdsBreaks(p)
PoolStep(p) == PoolCloses(p) \/ \E f \in Files : NextFuture(p, f)
DumpStep(p) ==
  \/ NoFolder(p) \/ EnterLock(p) \/ DumpFile(p) \/ DumpOpens(p) \/ DumpSaves(p) \/ DumpBreaks(p)
  \/ NamesOpen(p) \/ NamesWritten(p) \/ ReadNames(p) \/ ReadParam(p)
ThreadStep(p) == \E f \in Files : WorkerTakes(p, f) \/ WorkerEnds(p, f)
Step(p) == Select(p) \/ FileStep(p) \/ PoolStep(p) \/ DumpStep(p)

Next == \E p \in Procs : Step(p) \/ ThreadStep(p) \/ PrefetchAll(p) \/ Kill(p) \/ Restart(p)

Spec == Init /\ [][Next]_vars

\* A worker's main thread and its pool's threads are scheduled; files are read
\* in finite time. Nothing makes anyone kill or restart a worker.
FairSpec == Spec /\ \A p \in Procs : WF_vars(Step(p)) /\ WF_vars(ThreadStep(p))
-----------------------------------------------------------------------------
(* Properties *)

TypeOK ==
  /\ pc \in [Procs -> Ended \cup {"idle", "select", "files", "pooled", "closing", "lock", "dump",
                                 "save", "list", "names", "params"}]
  /\ queue \in [Procs -> SUBSET Files]
  /\ cur \in [Procs -> SUBSET Tensors] /\ left \in [Procs -> SUBSET Tensors]
  /\ out \in [Procs -> [Tensors -> Nat]]
  /\ pool \in [Procs -> [Files -> {"none", "pending", "reading", "loaded", "error", "taken"}]]
  /\ nogds \in [Procs -> BOOLEAN]
  /\ share \in [Procs -> SUBSET Files] /\ warming \in [Procs -> BOOLEAN]
  /\ lock \in Procs \cup {None}
  /\ param \in [Tensors -> FileStates] /\ names \in FileStates
  /\ kills \in 0 .. MaxKills
  /\ \A p \in Procs : Cardinality({f \in Files : pool[p][f] = "reading"}) <= MaxWorkers

\* What a load was asked to hand over: every shard the index names, or every
\* selected file; torchao cannot join a tensor of which no file holds a part.
Promised ==
  LET all == InAll(IF load.indexed THEN 1 .. Shards ELSE Selected)
  IN  IF load.how = "torchao" THEN Unflattened(all) ELSE all
\* Experts of other ranks, and with DSV41_ENGRAM_DISK the Engram tables
Skipped(p) ==
  (IF load.how \in OneByOne THEN Skips[p] ELSE {}) \cup (IF load.disk THEN Tables ELSE {})

\* A load that ends has handed over every promised tensor it does not skip exactly
\* once, and nothing else: nothing of another file or rank, nothing left over
\* (lines 836-975). Tables the default iterator does not read are TablesStayOnDisk's.
LoadExact ==
  \A p \in Procs : pc[p] = "done" =>
    \A t \in Tensors :
      \/ out[p][t] = IF t \in Promised \ Skipped(p) THEN 1 ELSE 0
      \/ t \in Tables /\ load.disk /\ load.how \notin {"lazy", "prefetch"}

\* docs/04-patch-set.md:47 and engram.py:879-881 of DSV41_ENGRAM_DISK: the loader
\* skips the Engram tables. No iterator hands one over.
TablesStayOnDisk == load.disk => \A p \in Procs, t \in Tables : out[p][t] = 0

\* No tensor is handed over twice, a load that starts again without GDS
\* included (lines 1088-1110): weight loaders that fuse or shard would count it twice.
NoneTwice == \A p \in Procs, t \in Tensors : out[p][t] <= 1

\* With files it can read and all else it needs, a load fails only for GDS once
\* tensors were handed over, or for a name list whose writer was killed; never
\* because of the other workers, the prefetch's reading or a kill at another point.
FailsForAReason ==
  \A p \in Procs : pc[p] = "failed" =>
    \/ IndexBroken \/ load.bad # None \/ ~load.fit
    \/ load.how = "fast" /\ ~load.gds /\ Yielded(p)
    \/ load.how = "np" /\ names = "part" /\ kills > 0

\* The name list is read without the lock and is never rewritten: once it
\* is there, every tensor it names is dumped, whole, and stays so (lines 659-684).
ListedAreWhole == names # "absent" => \A t \in InAll(Selected) : param[t] = "whole"

\* The ranks of a world that all started together prefetch every selected file, each
\* on one rank; workers that are not distributed prefetch all of them (lines 772-779).
PrefetchedOnce ==
  ShouldPrefetch /\ (\A p \in Procs : pc[p] \notin {"select", "dead", "failed"}) =>
    \A f \in Selected :
      Cardinality({p \in Procs : f \in share[p]}) = IF Distributed THEN 1 ELSE World

\* Every load ends, or its worker is killed: a failing dump gives the lock to
\* the others, a pool finishes its files before it raises.
LoadEnds == \A p \in Procs : pc[p] = "select" ~> pc[p] \in Ended
=============================================================================
