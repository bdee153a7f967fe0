-------------------------- MODULE CheckpointStore --------------------------
(***************************************************************************)
(* One thread of the checkpoint store (services/host/src/fileSaver.ts):    *)
(* content-addressed objects, the manifests of checkpoints and of pending  *)
(* writes that refer to them, and the ref that names the latest checkpoint.*)
(* Every file is replaced whole; several files make one change, so what    *)
(* holds between two of them is what a crash leaves.                       *)
(*                                                                         *)
(* A Host is one process that holds the writer lease for its lifetime.     *)
(* Its calls interleave where they await and nowhere else; `sync` names    *)
(* the call whose synchronous section a process is in.  Calls of different *)
(* processes, were there two, interleave between any two file operations.  *)
(***************************************************************************)
EXTENDS Naturals, FiniteSets

CONSTANTS
    Puts, Writes, Sweeps, Lists,    \* calls: put, putWrites, collectThreadGarbage, list
    Lives,          \* bound: how often the Host starts
    Objects, Keys,  \* contents, and the task and index of a pending write
    SpecialKeys,    \* keys of the special channels (an interrupt, an error)
    LastCheckpoint, \* checkpoints are 1..LastCheckpoint, in the order of their ids
    CheckpointOf,   \* the checkpoint of a put or a putWrites
    Content,        \* the objects of a checkpoint
    KeyOf, ValueOf, \* what a putWrites stores
    NoTask, NoValue,
    MaxMishaps      \* bound: crashes and failing file operations

Checkpoints == 1..LastCheckpoint
\* A life of the Host is a process of its own; it names its maintenance too.
Processes == 1..Lives
Calls == Puts \cup Writes \cup Sweeps \cup Lists
Tasks == Calls \cup Processes

ASSUME StoreAssumption ==
    /\ NoTask \notin Tasks /\ NoValue \notin Objects
    /\ Puts \cap Writes = {} /\ (Puts \cup Writes) \cap (Sweeps \cup Lists) = {}
    /\ Sweeps \cap Lists = {} /\ Calls \cap Processes = {}
    /\ LastCheckpoint \in Nat /\ Lives \in Nat /\ MaxMishaps \in Nat /\ SpecialKeys \subseteq Keys
    /\ CheckpointOf \in [Puts \cup Writes -> Checkpoints]
    /\ Content \in [Checkpoints -> SUBSET Objects]
    /\ KeyOf \in [Writes -> Keys] /\ ValueOf \in [Writes -> Objects]

VARIABLES
    objects,    \* object files
    manifests,  \* checkpoints with a manifest
    writes,     \* the writes manifest of each checkpoint
    ref,        \* the latest checkpoint, 0: none
    lock,       \* the lock directory: who made it, and whether owner.json is there
    up, started,    \* processes that live, and how many have lived
    sync,       \* the call in whose synchronous section a process is
    task,       \* how far a call is, and the process that makes it
    kept,       \* what a call has read and uses later
    torn,       \* history: lists that met a manifest without its objects
    mishaps

files == <<objects, manifests, writes, ref>>
processes == <<up, started>>
vars == <<files, lock, processes, sync, task, kept, torn, mishaps>>

NoWrites == [k \in Keys |-> NoValue]
Free == [task |-> NoTask, proc |-> NoTask, owner |-> FALSE]
NewTask == [step |-> "new", by |-> NoTask]
Over == {"done", "failed", "lost"}
\* The steps between taking the lock and giving it back.
Held == {"begin", "read", "objects", "manifest", "ref", "prune", "mark", "sweep", "unlock", "undo"}
Steps == {"new", "wait", "owner", "stale", "scan", "deliver"} \cup Held \cup Over
Kept == [writes : [Keys -> Objects \cup {NoValue}], set : SUBSET (Objects \cup Checkpoints)]
NothingKept == [writes |-> NoWrites, set |-> {}]

TypeOK ==
    /\ objects \subseteq Objects /\ manifests \subseteq Checkpoints
    /\ writes \in [Checkpoints -> [Keys -> Objects \cup {NoValue}]]
    /\ ref \in 0..LastCheckpoint
    /\ lock \in [task : Tasks \cup {NoTask}, proc : Processes \cup {NoTask}, owner : BOOLEAN]
    /\ started \in 0..Lives /\ up \subseteq 1..started
    /\ sync \in [Processes -> Tasks \cup {NoTask}]
    /\ task \in [Tasks -> [step : Steps, by : Processes \cup {NoTask}]]
    /\ kept \in [Tasks -> Kept] /\ torn \subseteq Lists
    /\ mishaps \in 0..MaxMishaps

-----------------------------------------------------------------------------
\* What refers to what.

Values(c) == {writes[c][k] : k \in Keys} \ {NoValue}
Written(c) == Values(c) # {}
Reachable == (UNION {Content[c] : c \in manifests}) \cup (UNION {Values(c) : c \in Checkpoints})

\* collectReachableObjectHashes reads every object it finds referred to.
Whole == Reachable \subseteq objects

At(t, step) == task[t].step = step /\ task[t].by \in up /\ sync[task[t].by] = t
Resumes(t, step) == task[t].step = step /\ task[t].by \in up /\ sync[task[t].by] = NoTask
Goes(t, step) == task' = [task EXCEPT ![t].step = step]
Enters(t) == sync' = [sync EXCEPT ![task[t].by] = t]
Awaits(t) == sync' = [sync EXCEPT ![task[t].by] = NoTask]
Keeps(t, what) == kept' = [kept EXCEPT ![t] = what]

-----------------------------------------------------------------------------
\* The store lock.

MakeLock(t) ==
    /\ Resumes(t, "wait") /\ lock = Free
    /\ lock' = [task |-> t, proc |-> task[t].by, owner |-> FALSE]
    /\ Enters(t) /\ Goes(t, "owner")
    /\ UNCHANGED <<files, processes, kept, torn, mishaps>>

OwnLock(t) ==
    /\ At(t, "owner")
    /\ IF lock.task = t THEN lock' = [lock EXCEPT !.owner = TRUE] /\ Goes(t, "begin") /\ UNCHANGED sync
                        ELSE Goes(t, "failed") /\ Awaits(t) /\ UNCHANGED lock
    /\ UNCHANGED <<files, processes, kept, torn, mishaps>>

\* Bug: a lock without owner.json is never an orphan.
FindStaleOwned(t) ==
    /\ Resumes(t, "wait") /\ lock # Free /\ lock.proc \notin up /\ lock.owner
    /\ Enters(t) /\ Goes(t, "stale")
    /\ UNCHANGED <<files, lock, processes, kept, torn, mishaps>>

\* The process that made the lock is dead.  Without owner.json that takes the
\* grace period to find out: a living process publishes it within that time.
FindStale(t) ==
    /\ Resumes(t, "wait") /\ lock # Free /\ lock.proc \notin up
    /\ Enters(t) /\ Goes(t, "stale")
    /\ UNCHANGED <<files, lock, processes, kept, torn, mishaps>>

\* The lock goes, whosever it is by now.
RemoveStale(t) ==
    /\ At(t, "stale")
    /\ lock' = Free
    /\ Awaits(t) /\ Goes(t, "wait")
    /\ UNCHANGED <<files, processes, kept, torn, mishaps>>

\* Only the owner may release.
Unlock(t) ==
    /\ task[t].step \in {"unlock", "undo"} /\ sync[task[t].by] = t /\ task[t].by \in up
    /\ lock' = IF lock.task = t /\ lock.owner THEN Free ELSE lock
    /\ Goes(t, IF task[t].step = "unlock" THEN "done" ELSE "failed")
    /\ Awaits(t) /\ Keeps(t, NothingKept)
    /\ UNCHANGED <<files, processes, torn, mishaps>>

-----------------------------------------------------------------------------
\* Under the lock.

\* What is there is validated before anything changes; putWrites reads what it
\* will add to, and keeps the lock while it awaits the serializer.
BeginWork(t) ==
    /\ At(t, "begin")
    /\ \/ t \in Writes /\ Goes(t, "read") /\ Awaits(t)
          /\ Keeps(t, [NothingKept EXCEPT !.writes = writes[CheckpointOf[t]]])
       \/ t \in Puts \cup Sweeps \cup Processes
          /\ Goes(t, IF ~Whole THEN "undo" ELSE IF t \in Puts THEN "objects"
                     ELSE IF t \in Processes THEN "prune" ELSE "mark")
          /\ UNCHANGED <<sync, kept>>
    /\ UNCHANGED <<files, lock, processes, torn, mishaps>>

\* A special write replaces the one before it, any other keeps it.
MergeWrites(t) ==
    LET k == KeyOf[t]  old == kept[t].writes
        value == IF old[k] # NoValue /\ k \notin SpecialKeys THEN old[k] ELSE ValueOf[t] IN
    /\ Resumes(t, "read")
    /\ Keeps(t, [kept[t] EXCEPT !.writes[k] = value])
    /\ Enters(t) /\ Goes(t, "objects")
    /\ UNCHANGED <<files, lock, processes, torn, mishaps>>

\* The objects come before the manifest that refers to them.
WriteObjects(t) ==
    /\ At(t, "objects")
    /\ objects' = objects \cup (IF t \in Puts THEN Content[CheckpointOf[t]]
                                ELSE {kept[t].writes[k] : k \in Keys} \ {NoValue})
    /\ Goes(t, "manifest")
    /\ UNCHANGED <<manifests, writes, ref, lock, processes, sync, kept, torn, mishaps>>

WriteManifest(t) ==
    /\ At(t, "manifest")
    /\ IF t \in Puts
       THEN manifests' = manifests \cup {CheckpointOf[t]} /\ UNCHANGED writes /\ Goes(t, "ref")
       ELSE writes' = [writes EXCEPT ![CheckpointOf[t]] = kept[t].writes]
            /\ UNCHANGED manifests /\ Goes(t, "unlock")
    /\ UNCHANGED <<objects, ref, lock, processes, sync, kept, torn, mishaps>>

WriteRef(t) ==
    /\ At(t, "ref")
    /\ ref' = CheckpointOf[t]
    /\ Goes(t, "prune")
    /\ UNCHANGED <<objects, manifests, writes, lock, processes, sync, kept, torn, mishaps>>

\* Bug: the latest checkpoint is the only one whose files are kept.
PruneOthers(t) ==
    LET obsolete == Checkpoints \ {ref} IN
    /\ At(t, "prune")
    /\ \/ \E c \in obsolete \cap manifests :
             manifests' = manifests \ {c} /\ UNCHANGED <<writes, task>>
       \/ \E c \in obsolete : Written(c) /\ obsolete \cap manifests = {}
             /\ writes' = [writes EXCEPT ![c] = NoWrites] /\ UNCHANGED <<manifests, task>>
       \/ /\ \A c \in obsolete : c \notin manifests /\ ~Written(c)
          /\ Goes(t, IF t \in Puts THEN "unlock" ELSE "mark")
          /\ UNCHANGED <<manifests, writes>>
    /\ UNCHANGED <<objects, ref, lock, processes, sync, kept, torn, mishaps>>

\* pruneNamespace, one file after another, manifests first: "only older checkpoints are
\* removed".  Maintenance leaves a thread alone whose ref has no manifest.
Prune(t) ==
    LET latest == IF t \in Puts THEN CheckpointOf[t] ELSE IF ref \in manifests THEN ref ELSE 0
        obsolete == {c \in Checkpoints : c < latest} IN
    /\ At(t, "prune")
    /\ \/ \E c \in obsolete \cap manifests :
             manifests' = manifests \ {c} /\ UNCHANGED <<writes, task>>
       \/ \E c \in obsolete : Written(c) /\ obsolete \cap manifests = {}
             /\ writes' = [writes EXCEPT ![c] = NoWrites] /\ UNCHANGED <<manifests, task>>
       \/ /\ \A c \in obsolete : c \notin manifests /\ ~Written(c)
          /\ Goes(t, IF t \in Puts THEN "unlock" ELSE "mark")
          /\ UNCHANGED <<manifests, writes>>
    /\ UNCHANGED <<objects, ref, lock, processes, sync, kept, torn, mishaps>>

\* Bug: the objects of pending writes are not marked.
MarkManifests(t) ==
    /\ At(t, "mark")
    /\ IF Whole THEN Keeps(t, [NothingKept EXCEPT !.set = objects \ UNION {Content[c] : c \in manifests}])
                     /\ Goes(t, "sweep")
                ELSE Goes(t, "undo") /\ UNCHANGED kept
    /\ UNCHANGED <<files, lock, processes, sync, torn, mishaps>>

\* gcThreadObjects: mark everything, "a scan that cannot read part of the
\* thread throws before any delete".
Mark(t) ==
    /\ At(t, "mark")
    /\ IF Whole THEN Keeps(t, [NothingKept EXCEPT !.set = objects \ Reachable]) /\ Goes(t, "sweep")
                ELSE Goes(t, "undo") /\ UNCHANGED kept
    /\ UNCHANGED <<files, lock, processes, sync, torn, mishaps>>

Sweep(t) ==
    /\ At(t, "sweep")
    /\ \/ LET o == CHOOSE x \in kept[t].set : TRUE IN
          /\ kept[t].set # {}
          /\ objects' = objects \ {o}
          /\ Keeps(t, [kept[t] EXCEPT !.set = @ \ {o}]) /\ UNCHANGED task
       \/ kept[t].set = {} /\ Goes(t, "unlock") /\ UNCHANGED <<objects, kept>>
    /\ UNCHANGED <<manifests, writes, ref, lock, processes, sync, torn, mishaps>>

-----------------------------------------------------------------------------
\* list(): outside the lock.

Scan(t) ==
    /\ Resumes(t, "scan")
    /\ Keeps(t, [NothingKept EXCEPT !.set = manifests]) /\ Goes(t, "deliver")
    /\ UNCHANGED <<files, lock, processes, sync, torn, mishaps>>

Reads(t, c) ==
    torn' = IF Content[c] \cup Values(c) \subseteq objects THEN torn ELSE torn \cup {t}

\* Bug: what was scanned is read without another look.
DeliverScanned(t) ==
    /\ Resumes(t, "deliver")
    /\ \/ kept[t].set = {} /\ Goes(t, "done") /\ UNCHANGED <<kept, torn>>
       \/ \E c \in kept[t].set :
             /\ \A d \in kept[t].set : d <= c
             /\ Reads(t, c)
             /\ Keeps(t, [kept[t] EXCEPT !.set = @ \ {c}]) /\ UNCHANGED task
    /\ UNCHANGED <<files, lock, processes, sync, mishaps>>

\* Newest first: "a checkpoint pruned since the scan is no longer part of the
\* history"; every byte of the others is read before the next await.
Deliver(t) ==
    /\ Resumes(t, "deliver")
    /\ \/ kept[t].set = {} /\ Goes(t, "done") /\ UNCHANGED <<kept, torn>>
       \/ \E c \in kept[t].set :
             /\ \A d \in kept[t].set : d <= c
             /\ IF c \in manifests THEN Reads(t, c) ELSE UNCHANGED torn
             /\ Keeps(t, [kept[t] EXCEPT !.set = @ \ {c}]) /\ UNCHANGED task
    /\ UNCHANGED <<files, lock, processes, sync, mishaps>>

-----------------------------------------------------------------------------
\* Processes, callers and mishaps.

\* Bug: the Host does not ask for the lease.
StartUnleased(p) ==
    /\ p = started + 1 /\ Whole
    /\ up' = up \cup {p} /\ started' = p
    /\ task' = [task EXCEPT ![p] = [step |-> "wait", by |-> p]]
    /\ UNCHANGED <<files, lock, sync, kept, torn, mishaps>>

\* The constructor validates the store, the lease admits one living process,
\* and maintenance runs before anything else.
Start(p) ==
    /\ p = started + 1 /\ up = {} /\ Whole
    /\ up' = up \cup {p} /\ started' = p
    /\ task' = [task EXCEPT ![p] = [step |-> "wait", by |-> p]]
    /\ UNCHANGED <<files, lock, sync, kept, torn, mishaps>>

\* The graph: it queues its puts one behind another, and sends the writes of a
\* checkpoint once it has made it, published or not.
Asked(t) ==
    /\ t \in Puts => \A u \in Puts : CheckpointOf[u] < CheckpointOf[t] => task[u].step \in Over
    /\ t \in Writes => \E u \in Puts : CheckpointOf[u] = CheckpointOf[t]
                                       /\ task[u].step \notin {"new", "failed", "lost"}

Begin(t, p) ==
    /\ p \in up /\ task[p].step = "done" /\ task[t].step = "new" /\ Asked(t)
    /\ task' = [task EXCEPT ![t] = [step |-> IF t \in Lists THEN "scan" ELSE "wait", by |-> p]]
    /\ UNCHANGED <<files, lock, processes, sync, kept, torn, mishaps>>

\* A file operation fails: the call throws and gives the lock back.
Throws(t) ==
    /\ mishaps < MaxMishaps /\ mishaps' = mishaps + 1
    /\ task[t].step \in Held \ {"unlock", "undo"} /\ task[t].by \in up
    /\ sync[task[t].by] \in {t, NoTask}
    /\ Enters(t) /\ Goes(t, "undo")
    /\ UNCHANGED <<files, lock, processes, kept, torn>>

\* A maintenance that fails ends the start of the Host: the lease is released.
Gives(p) ==
    /\ p \in up /\ task[p].step = "failed"
    /\ up' = up \ {p}
    /\ UNCHANGED <<files, lock, started, sync, task, kept, torn, mishaps>>

Crash(p) ==
    /\ p \in up /\ mishaps < MaxMishaps /\ mishaps' = mishaps + 1
    /\ up' = up \ {p}
    /\ sync' = [sync EXCEPT ![p] = NoTask]
    /\ task' = [t \in Tasks |-> IF task[t].by = p /\ task[t].step \notin Over
                                THEN [task[t] EXCEPT !.step = "lost"] ELSE task[t]]
    /\ kept' = [t \in Tasks |-> IF task[t].by = p THEN NothingKept ELSE kept[t]]
    /\ UNCHANGED <<files, lock, started, torn>>

-----------------------------------------------------------------------------
Init ==
    /\ objects = {} /\ manifests = {} /\ writes = [c \in Checkpoints |-> NoWrites] /\ ref = 0
    /\ lock = Free /\ up = {} /\ started = 0 /\ sync = [p \in Processes |-> NoTask]
    /\ task = [t \in Tasks |-> NewTask] /\ kept = [t \in Tasks |-> NothingKept]
    /\ torn = {} /\ mishaps = 0

Locking(t) == MakeLock(t) \/ OwnLock(t) \/ FindStale(t) \/ RemoveStale(t) \/ Unlock(t)
Working(t) ==
    \/ BeginWork(t) \/ MergeWrites(t) \/ WriteObjects(t) \/ WriteManifest(t) \/ WriteRef(t)
    \/ Prune(t) \/ Mark(t) \/ Sweep(t) \/ Scan(t) \/ Deliver(t)
Step(t) == Locking(t) \/ Working(t)

Next ==
    \/ \E t \in Tasks : Step(t) \/ Throws(t)
    \/ \E p \in Processes : Start(p) \/ Gives(p) \/ Crash(p) \/ \E t \in Calls : Begin(t, p)

Spec == Init /\ [][Next]_vars

\* A living process goes on while one of its calls can: there are finitely many.
FairSpec == Spec /\ WF_vars(\E t \in Tasks : Step(t))

-----------------------------------------------------------------------------
\* Properties.

\* A crash or a failing operation between any two files leaves a store that
\* opens: all that a manifest refers to is there, and the ref names a
\* checkpoint that can be read.  Nobody who lists the history meets less.
StoreIsWhole ==
    /\ TypeOK
    /\ Whole /\ (ref # 0 => ref \in manifests)
    /\ torn = {}

\* What was accepted stays: the ref never falls behind a put that has
\* returned, and a write is there until a newer checkpoint replaces its own,
\* also one that arrived before its checkpoint was published, and whatever
\* siblings, prunes and collections came in between.
AcceptedStays ==
    /\ \A t \in Puts : task[t].step = "done" => ref >= CheckpointOf[t]
    /\ \A t \in Writes : task[t].step = "done" /\ CheckpointOf[t] >= ref =>
           writes[CheckpointOf[t]][KeyOf[t]] # NoValue

\* One call changes the store at a time, and it has the lock; a lock that a
\* dead process left is recovered without breaking that.
OneWriter ==
    \A t \in Tasks : task[t].step \in Held /\ task[t].by \in up => lock.task = t

\* Every call of a living process gets the lock in the end, also behind a dead
\* one that left its lock with or without an owner.
LocksAreRecovered ==
    []<>(\A t \in Tasks : task[t].step # "wait")
=============================================================================
