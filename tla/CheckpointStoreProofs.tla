----------------------- MODULE CheckpointStoreProofs -----------------------
(***************************************************************************)
(* One writer at a time, a store that opens and nothing accepted lost, for *)
(* any calls, contents, keys, lives of the Host, crashes and failing file  *)
(* operations.  The lock makes a call that changes files the only one that *)
(* is between taking and giving it back, so what the call has read is      *)
(* still true when it writes; the order of its files does the rest.        *)
(***************************************************************************)
EXTENDS CheckpointStore, TLAPS

Busy(t) == task[t].step \notin Over \cup {"new"}
Holds(t) == task[t].step \in Held \cup {"owner"}

\* One process lives.  A call that is under way is its call, and was made after
\* its maintenance.
LifeInv ==
    /\ up \subseteq {started}
    /\ \A t \in Tasks : /\ task[t].step = "new" <=> task[t].by = NoTask
                        /\ task[t].by \in (1..started) \cup {NoTask}
                        /\ Busy(t) => task[t].by \in up
    /\ \A p \in Processes : task[p].by \in {NoTask, p}
    /\ \A t \in Calls : task[t].by # NoTask => task[task[t].by].step = "done"

\* A put has begun only when those of older checkpoints are over.
OrderInv ==
    \A u, t \in Puts : CheckpointOf[u] < CheckpointOf[t] /\ task[t].step # "new" => task[u].step \in Over

\* Who holds the lock is named in it, and is alive; who is about to remove one
\* of the dead is alone with it.
LockInv ==
    \A t \in Tasks :
        /\ Holds(t) => lock.task = t /\ lock.proc = task[t].by
        /\ task[t].step = "stale" => lock.proc \notin up /\ sync[task[t].by] = t

\* The ref names a put that has begun, so a later put never takes it back.
FileInv ==
    /\ Whole /\ torn = {}
    /\ ref # 0 => ref \in manifests /\ \E u \in Puts : CheckpointOf[u] = ref /\ task[u].step # "new"

KeptValues(t) == {kept[t].writes[k] : k \in Keys} \ {NoValue}

\* What a call under the lock relies on: the kinds of call that come to a step,
\* what it has already written, and what it has read and nobody else changes.
Work(t) ==
    LET step == task[t].step IN
    /\ step = "read" => t \in Writes
    /\ step \in {"objects", "manifest"} => t \in Puts \cup Writes
    /\ step = "manifest" /\ t \in Puts => Content[CheckpointOf[t]] \subseteq objects
    /\ step = "manifest" /\ t \in Writes => KeptValues(t) \subseteq objects
    /\ step = "ref" => t \in Puts /\ CheckpointOf[t] \in manifests
    /\ step = "prune" => t \in Puts \cup Processes
    /\ step = "prune" /\ t \in Puts => ref = CheckpointOf[t]
    /\ step \in {"mark", "sweep"} => t \in Sweeps \cup Processes
    /\ step = "sweep" => kept[t].set \cap Reachable = {}
    /\ step \in {"scan", "deliver"} => t \in Lists
    /\ t \in Writes /\ step \in {"read", "objects", "manifest"} =>
           \A k \in Keys : writes[CheckpointOf[t]][k] # NoValue => kept[t].writes[k] # NoValue
    /\ t \in Writes /\ step \in {"objects", "manifest"} => kept[t].writes[KeyOf[t]] # NoValue

WorkInv == \A t \in Tasks : Work(t)

\* What was accepted, from the last file of the call on.
Landed(t) ==
    /\ t \in Puts => ref >= CheckpointOf[t]
    /\ t \in Writes /\ CheckpointOf[t] >= ref => writes[CheckpointOf[t]][KeyOf[t]] # NoValue

LandedInv == \A t \in Tasks : task[t].step \in {"unlock", "done"} => Landed(t)

Inv == TypeOK /\ LifeInv /\ OrderInv /\ LockInv /\ FileInv /\ WorkInv /\ LandedInv

\* The steps of which Work says something.
Working1 == {"read", "objects", "manifest", "ref", "prune", "mark", "sweep", "scan", "deliver"}

-----------------------------------------------------------------------------
\* What each part depends on.

LEMMA StepNames ==
    /\ Held \subseteq Steps /\ Over \subseteq Steps /\ Held \cap Over = {}
    /\ "new" \notin Held /\ "stale" \notin Held \cup Over /\ "owner" \notin Held \cup Over
    /\ "wait" \notin Held \cup Over /\ "new" \notin Over
BY DEF Held, Over, Steps

LEMMA OnlyOne ==
    ASSUME LockInv, NEW t \in Tasks, NEW u \in Tasks, Holds(t), Holds(u) PROVE t = u
BY DEF LockInv

LEMMA LivesAreProcesses ==
    ASSUME TypeOK PROVE up \subseteq Processes
<1> SUFFICES ASSUME NEW p \in up PROVE p \in 1..Lives
    BY DEF Processes
<1>1. p \in 1..started /\ started \in Nat /\ started <= Lives
    BY StoreAssumption DEF TypeOK
<1> QED BY <1>1, StoreAssumption

\* A step of a call under way keeps whose call it is and its place in the order.
LEMMA MoveKeeps ==
    ASSUME TypeOK, LifeInv, OrderInv, NEW t \in Tasks, Busy(t), NEW s \in Steps \ {"new"},
           Goes(t, s), UNCHANGED processes
    PROVE  /\ task' \in [Tasks -> [step : Steps, by : Processes \cup {NoTask}]]
           /\ LifeInv' /\ OrderInv'
           /\ task'[t].step = s /\ task'[t].by = task[t].by
           /\ \A u \in Tasks \ {t} : task'[u] = task[u]
<1>1. /\ task' \in [Tasks -> [step : Steps, by : Processes \cup {NoTask}]]
      /\ task'[t].step = s
      /\ \A u \in Tasks : task'[u].by = task[u].by
      /\ \A u \in Tasks \ {t} : task'[u] = task[u]
    BY DEF TypeOK, Goes
<1>2. task[t].step \notin Over \cup {"new"} /\ task[t].by \in up
    BY DEF LifeInv, Busy
<1>3. LifeInv'
  <2>1. \A c \in Calls : task[c].by # NoTask => task[c].by \in Tasks /\ task[c].by # t
      BY <1>2 DEF LifeInv, TypeOK, Tasks, Calls, Over
  <2>2. \A c \in Calls : c \in Tasks
      BY DEF Tasks
  <2>3. \A p \in Processes : p \in Tasks
      BY DEF Tasks
  <2>4. \A u \in Tasks : Busy(u)' => task[u].by \in up
    <3> TAKE u \in Tasks
    <3>1. CASE u = t
        BY <3>1, <1>2
    <3>2. CASE u # t
        BY <3>2, <1>1 DEF LifeInv, Busy
    <3> QED BY <3>1, <3>2
  <2>5. \A u \in Tasks : task'[u].step = "new" <=> task'[u].by = NoTask
      BY <1>1, <1>2 DEF LifeInv
  <2> QED BY <1>1, <2>1, <2>2, <2>3, <2>4, <2>5 DEF LifeInv, processes
<1>4. OrderInv'
    BY <1>1, <1>2 DEF OrderInv, Tasks, Calls
<1> QED BY <1>1, <1>3, <1>4

\* A holder that goes on, or gives up, leaves nobody else with a claim to its lock.
LEMMA HolderKeeps ==
    ASSUME TypeOK, LifeInv, LockInv, NEW t \in Tasks, Holds(t), UNCHANGED up,
           task'[t].step # "stale", task'[t].by = task[t].by,
           \A u \in Tasks \ {t} : task'[u] = task[u],
           lock'.task = lock.task, lock'.proc = lock.proc
    PROVE  LockInv'
<1>1. task[t].by \in up /\ lock.proc = task[t].by /\ lock.task = t
    BY StepNames DEF LifeInv, LockInv, Busy, Holds
<1>2. \A u \in Tasks : task[u].step # "stale"
    BY <1>1 DEF LockInv
<1> QED BY <1>1, <1>2 DEF LockInv, Holds

\* Beside a holder nobody is in the middle of files.
LEMMA OthersRest ==
    ASSUME LockInv, WorkInv, NEW t \in Tasks, Holds(t),
           \A u \in Tasks \ {t} : task'[u] = task[u]
    PROVE  \A u \in Tasks \ {t} : Work(u)'
<1> TAKE u \in Tasks \ {t}
<1>1. task[u].step \notin Held /\ Work(u)
    BY OnlyOne DEF Holds, WorkInv
<1> QED BY <1>1 DEF Work, Held

LEMMA WorkRests ==
    ASSUME WorkInv, UNCHANGED files,
           \A u \in Tasks : task'[u].step \in Working1 =>
               task'[u].step = task[u].step /\ kept'[u] = kept[u]
    PROVE  WorkInv'
<1> SUFFICES ASSUME NEW u \in Tasks PROVE Work(u)'
    BY DEF WorkInv
<1>1. Work(u)
    BY DEF WorkInv
<1>2. Reachable' = Reachable
    BY DEF files, Reachable, Values
<1>3. CASE task'[u].step \in Working1
    BY <1>1, <1>2, <1>3 DEF Work, files, KeptValues
<1>4. CASE task'[u].step \notin Working1
    BY <1>4 DEF Work, Working1
<1> QED BY <1>3, <1>4

LEMMA FilesRest ==
    ASSUME FileInv, UNCHANGED <<files, torn>>,
           \A u \in Puts : task[u].step # "new" => task'[u].step # "new"
    PROVE  FileInv'
BY DEF FileInv, files, Whole, Reachable, Values

LEMMA LandedRests ==
    ASSUME LandedInv, UNCHANGED files,
           \A u \in Tasks : task'[u].step \in {"unlock", "done"} =>
               task[u].step \in {"unlock", "done"} \/ u \notin Puts \cup Writes
    PROVE  LandedInv'
BY DEF LandedInv, Landed, files

-----------------------------------------------------------------------------
\* An empty store satisfies the invariant.
THEOREM StoreInvInit == Init => Inv
<1> SUFFICES ASSUME Init PROVE Inv
    OBVIOUS
<1>1. TypeOK
    BY StoreAssumption DEF Init, TypeOK, NoWrites, Free, NewTask, NothingKept, Kept, Steps
<1>2. LifeInv
    BY StoreAssumption DEF Init, LifeInv, NewTask, Busy, Tasks
<1>3. OrderInv /\ LockInv /\ LandedInv
    BY DEF Init, OrderInv, LockInv, LandedInv, NewTask, Holds, Held, Tasks, Calls
<1>4. FileInv
    BY DEF Init, FileInv, Whole, Reachable, Values, NoWrites
<1>5. WorkInv
    BY DEF Init, WorkInv, Work, NewTask
<1> QED BY <1>1, <1>2, <1>3, <1>4, <1>5 DEF Inv

-----------------------------------------------------------------------------
\* The lock.

LEMMA MakeLockKeeps ==
    ASSUME Inv, NEW t \in Tasks, MakeLock(t) PROVE Inv'
<1> USE DEF Inv
<1>1. Busy(t) /\ task[t].by \in up /\ Goes(t, "owner") /\ "owner" \in Steps \ {"new"}
    BY DEF MakeLock, Resumes, Busy, Over, Steps
<1>2. LifeInv' /\ OrderInv' /\ task'[t].step = "owner" /\ task'[t].by = task[t].by
      /\ \A u \in Tasks \ {t} : task'[u] = task[u]
    BY <1>1, MoveKeeps DEF MakeLock
<1>3. TypeOK'
    BY <1>1, MoveKeeps DEF MakeLock, TypeOK, files, processes, Enters, Resumes
<1>4. LockInv'
  <2>1. \A u \in Tasks : ~Holds(u)
      BY StoreAssumption DEF LockInv, MakeLock, Free
  <2>2. \A u \in Tasks : task[u].step # "stale"
    <3> SUFFICES ASSUME NEW u \in Tasks, task[u].step = "stale" PROVE FALSE
        OBVIOUS
    <3>1. task[u].by \in up /\ sync[task[u].by] = u /\ u # NoTask
        BY StoreAssumption DEF LockInv, LifeInv, Busy, Over
    <3>2. task[u].by = task[t].by
        BY <1>1, <3>1 DEF LifeInv
    <3> QED BY <3>1, <3>2 DEF MakeLock, Resumes
  <2> QED BY <1>2, <2>1, <2>2 DEF LockInv, MakeLock, Holds
<1>5. FileInv' /\ LandedInv' /\ WorkInv'
    BY <1>2, FilesRest, LandedRests, WorkRests DEF MakeLock, Working1, Tasks, Calls
<1> QED BY <1>2, <1>3, <1>4, <1>5

LEMMA OwnLockKeeps ==
    ASSUME Inv, NEW t \in Tasks, OwnLock(t) PROVE Inv'
<1> USE DEF Inv
<1>1. Busy(t) /\ Holds(t) /\ lock.task = t /\ "begin" \in Steps \ {"new"}
    BY DEF OwnLock, At, Busy, Holds, Over, Held, Steps, LockInv
<1>2. Goes(t, "begin") /\ lock' = [lock EXCEPT !.owner = TRUE] /\ UNCHANGED <<files, processes, sync, kept, torn, mishaps>>
    BY <1>1 DEF OwnLock
<1>3. LifeInv' /\ OrderInv' /\ task'[t].step = "begin" /\ task'[t].by = task[t].by
      /\ \A u \in Tasks \ {t} : task'[u] = task[u]
    BY <1>1, <1>2, MoveKeeps
<1>4. TypeOK'
    BY <1>1, <1>2, MoveKeeps DEF TypeOK, files, processes
<1>5. LockInv'
  <2>1. lock'.task = lock.task /\ lock'.proc = lock.proc
      BY <1>2 DEF TypeOK
  <2> QED BY <1>1, <1>2, <1>3, <2>1, HolderKeeps DEF processes
<1>6. FileInv' /\ LandedInv' /\ WorkInv'
    BY <1>2, <1>3, FilesRest, LandedRests, WorkRests DEF Working1, Tasks, Calls
<1> QED BY <1>3, <1>4, <1>5, <1>6

LEMMA FindStaleKeeps ==
    ASSUME Inv, NEW t \in Tasks, FindStale(t) PROVE Inv'
<1> USE DEF Inv
<1>1. Busy(t) /\ task[t].by \in up /\ Goes(t, "stale") /\ "stale" \in Steps \ {"new"}
    BY DEF FindStale, Resumes, Busy, Over, Steps
<1>2. LifeInv' /\ OrderInv' /\ task'[t].step = "stale" /\ task'[t].by = task[t].by
      /\ \A u \in Tasks \ {t} : task'[u] = task[u]
    BY <1>1, MoveKeeps DEF FindStale
<1>3. TypeOK'
    BY <1>1, MoveKeeps DEF FindStale, TypeOK, files, processes, Enters, Resumes
<1>4. LockInv'
  <2>1. \A u \in Tasks : task[u].step # "stale"
    <3> SUFFICES ASSUME NEW u \in Tasks, task[u].step = "stale" PROVE FALSE
        OBVIOUS
    <3>1. task[u].by \in up /\ sync[task[u].by] = u /\ u # NoTask
        BY StoreAssumption DEF LockInv, LifeInv, Busy, Over
    <3>2. task[u].by = task[t].by
        BY <1>1, <3>1 DEF LifeInv
    <3> QED BY <3>1, <3>2 DEF FindStale, Resumes
  <2>2. sync'[task[t].by] = t
    <3>1. task[t].by \in Processes
        BY <1>1, LivesAreProcesses
    <3> QED BY <3>1 DEF FindStale, Enters, TypeOK
  <2> QED BY <1>2, <2>1, <2>2 DEF LockInv, FindStale, Holds, Held, processes
<1>5. FileInv' /\ LandedInv' /\ WorkInv'
    BY <1>2, FilesRest, LandedRests, WorkRests DEF FindStale, Working1, Tasks, Calls
<1> QED BY <1>2, <1>3, <1>4, <1>5

LEMMA RemoveStaleKeeps ==
    ASSUME Inv, NEW t \in Tasks, RemoveStale(t) PROVE Inv'
<1> USE DEF Inv
<1>1. Busy(t) /\ task[t].by \in up /\ Goes(t, "wait") /\ "wait" \in Steps \ {"new"}
    BY DEF RemoveStale, At, Busy, Over, Steps
<1>2. LifeInv' /\ OrderInv' /\ task'[t].step = "wait" /\ task'[t].by = task[t].by
      /\ \A u \in Tasks \ {t} : task'[u] = task[u]
    BY <1>1, MoveKeeps DEF RemoveStale
<1>3. TypeOK'
    BY <1>1, MoveKeeps DEF RemoveStale, TypeOK, files, processes, Awaits, At, Free
<1>4. LockInv'
  <2>1. \A u \in Tasks : ~Holds(u)
      BY StepNames DEF LockInv, LifeInv, RemoveStale, At, Busy, Holds
  <2>2. \A u \in Tasks \ {t} : task[u].step # "stale"
    <3> SUFFICES ASSUME NEW u \in Tasks \ {t}, task[u].step = "stale" PROVE FALSE
        OBVIOUS
    <3>1. task[u].by \in up /\ sync[task[u].by] = u
        BY DEF LockInv, LifeInv, Busy, Over
    <3>2. task[u].by = task[t].by
        BY <1>1, <3>1 DEF LifeInv
    <3> QED BY <3>1, <3>2 DEF RemoveStale, At
  <2> QED BY <1>2, <2>1, <2>2 DEF LockInv, Holds, Held
<1>5. FileInv' /\ LandedInv' /\ WorkInv'
    BY <1>2, FilesRest, LandedRests, WorkRests DEF RemoveStale, Working1, Tasks, Calls
<1> QED BY <1>2, <1>3, <1>4, <1>5

LEMMA UnlockKeeps ==
    ASSUME Inv, NEW t \in Tasks, Unlock(t) PROVE Inv'
<1> USE DEF Inv
<1> DEFINE s == IF task[t].step = "unlock" THEN "done" ELSE "failed"
<1>1. Busy(t) /\ Holds(t) /\ task[t].by \in up /\ lock.task = t /\ Goes(t, s) /\ s \in Steps \ {"new"}
    BY DEF Unlock, Busy, Holds, Held, Over, Steps, LockInv
<1>2. LifeInv' /\ OrderInv' /\ task'[t].step = s /\ task'[t].by = task[t].by
      /\ \A u \in Tasks \ {t} : task'[u] = task[u]
    BY <1>1, MoveKeeps DEF Unlock
<1>3. TypeOK'
    BY <1>1, MoveKeeps DEF Unlock, TypeOK, files, processes, Awaits, Keeps, Free, NothingKept, NoWrites, Kept
<1>4. LockInv'
  <2>1. \A u \in Tasks \ {t} : ~Holds(u)
      BY <1>1, OnlyOne
  <2>2. \A u \in Tasks : task[u].step # "stale"
      BY <1>1 DEF LockInv
  <2> QED BY <1>2, <2>1, <2>2 DEF LockInv, Holds, Held
<1>5. FileInv' /\ LandedInv'
    BY <1>2, FilesRest, LandedRests DEF Unlock, Tasks, Calls
<1>6. WorkInv'
  <2>1. \A u \in Tasks \ {t} : kept'[u] = kept[u]
      BY DEF Unlock, Keeps, TypeOK
  <2> QED BY <1>2, <2>1, WorkRests DEF Unlock, Working1
<1> QED BY <1>2, <1>3, <1>4, <1>5, <1>6

-----------------------------------------------------------------------------
\* Under the lock.

\* What every step of a holder that keeps the lock has in common.
LEMMA HolderGoesOn ==
    ASSUME Inv, NEW t \in Tasks, task[t].step \in Held, NEW s \in Held,
           Goes(t, s) \/ (s = task[t].step /\ UNCHANGED task),
           UNCHANGED <<lock, processes>>
    PROVE  /\ task' \in [Tasks -> [step : Steps, by : Processes \cup {NoTask}]]
           /\ task[t].by \in Processes
           /\ LifeInv' /\ OrderInv' /\ LockInv'
           /\ task'[t].step = s /\ task'[t].by = task[t].by
           /\ \A u \in Tasks \ {t} : task'[u] = task[u] /\ Work(u)'
<1>1. Busy(t) /\ Holds(t) /\ s \in Steps \ {"new"}
    BY StepNames DEF Busy, Holds
<1>2. /\ task' \in [Tasks -> [step : Steps, by : Processes \cup {NoTask}]]
      /\ LifeInv' /\ OrderInv'
      /\ task'[t].step = s /\ task'[t].by = task[t].by
      /\ \A u \in Tasks \ {t} : task'[u] = task[u]
  <2>1. CASE Goes(t, s)
      BY <1>1, <2>1, MoveKeeps DEF Inv
  <2>2. CASE s = task[t].step /\ UNCHANGED task
      BY <2>2 DEF Inv, TypeOK, LifeInv, OrderInv, Busy, processes
  <2> QED BY <2>1, <2>2
<1>3. LockInv'
    BY <1>1, <1>2, HolderKeeps, StepNames DEF Inv, processes
<1>4. \A u \in Tasks \ {t} : Work(u)'
    BY <1>1, <1>2, OthersRest DEF Inv
<1>5. task[t].by \in Processes
    BY <1>1, LivesAreProcesses DEF Inv, LifeInv
<1> QED BY <1>2, <1>3, <1>4, <1>5

\* The same for the calls whose files this step leaves alone.
LEMMA HolderRests ==
    ASSUME Inv, NEW t \in Tasks, task[t].step \in Held, NEW s \in Held,
           Goes(t, s), UNCHANGED <<files, lock, processes, torn>>, Work(t)',
           s = "unlock" => t \notin Puts \cup Writes
    PROVE  LifeInv' /\ OrderInv' /\ LockInv' /\ FileInv' /\ WorkInv' /\ LandedInv'
<1>1. /\ LifeInv' /\ OrderInv' /\ LockInv' /\ task'[t].step = s
      /\ \A u \in Tasks \ {t} : task'[u] = task[u] /\ Work(u)'
    BY HolderGoesOn
<1>2. WorkInv'
    BY <1>1 DEF WorkInv
<1>3. FileInv' /\ LandedInv'
    BY <1>1, FilesRest, LandedRests, StepNames DEF Inv, Tasks, Calls, Held
<1> QED BY <1>1, <1>2, <1>3

LEMMA KindsDiffer ==
    /\ Puts \cap Writes = {} /\ (Puts \cup Writes) \cap (Sweeps \cup Lists \cup Processes) = {}
    /\ Sweeps \cap Lists = {} /\ (Sweeps \cup Lists) \cap Processes = {}
BY StoreAssumption DEF Calls

LEMMA BeginWorkKeeps ==
    ASSUME Inv, NEW t \in Tasks, BeginWork(t) PROVE Inv'
<1>1. CASE t \in Writes
  <2>1. Goes(t, "read") /\ task[t].step \in Held /\ "read" \in Held /\ t \notin Puts \cup Sweeps \cup Processes
      BY <1>1, KindsDiffer DEF BeginWork, At, Held
  <2>2. CheckpointOf[t] \in Checkpoints
      BY <1>1, StoreAssumption
  <2>3. /\ task' \in [Tasks -> [step : Steps, by : Processes \cup {NoTask}]]
        /\ task[t].by \in Processes /\ task'[t].step = "read"
      BY <2>1, HolderGoesOn DEF BeginWork
  <2>4. /\ sync' = [sync EXCEPT ![task[t].by] = NoTask]
        /\ kept' = [kept EXCEPT ![t] = [NothingKept EXCEPT !.writes = writes[CheckpointOf[t]]]]
      BY <1>1, <2>1 DEF BeginWork, Awaits, Keeps
  <2>5. TypeOK'
      BY <2>2, <2>3, <2>4 DEF BeginWork, Inv, TypeOK, files, processes, Kept, NothingKept
  <2>6. kept'[t].writes = writes[CheckpointOf[t]]
      BY <2>4 DEF Inv, TypeOK, NothingKept
  <2>7. Work(t)'
      BY <1>1, <2>3, <2>6, KindsDiffer DEF Work, BeginWork, files
  <2> QED BY <2>1, <2>5, <2>7, HolderRests DEF BeginWork, Inv
<1>2. CASE t \in Puts \cup Sweeps \cup Processes
  <2> DEFINE s == IF ~Whole THEN "undo" ELSE IF t \in Puts THEN "objects"
                  ELSE IF t \in Processes THEN "prune" ELSE "mark"
  <2>1. Goes(t, s) /\ UNCHANGED <<sync, kept>> /\ task[t].step \in Held /\ s \in Held /\ s # "unlock"
      BY <1>2, KindsDiffer DEF BeginWork, At, Held
  <2>2. /\ task' \in [Tasks -> [step : Steps, by : Processes \cup {NoTask}]]
        /\ task'[t].step = s
      BY <2>1, HolderGoesOn DEF BeginWork
  <2>3. TypeOK'
      BY <2>1, <2>2 DEF BeginWork, Inv, TypeOK, files, processes
  <2>4. Work(t)'
      BY <1>2, <2>2, KindsDiffer DEF Work
  <2> HIDE DEF s
  <2> QED BY <2>1, <2>3, <2>4, HolderRests DEF BeginWork, Inv
<1> QED BY <1>1, <1>2 DEF BeginWork

LEMMA MergeWritesKeeps ==
    ASSUME Inv, NEW t \in Tasks, MergeWrites(t) PROVE Inv'
<1> DEFINE k == KeyOf[t]
           old == kept[t].writes
           value == IF old[k] # NoValue /\ k \notin SpecialKeys THEN old[k] ELSE ValueOf[t]
<1>1. Goes(t, "objects") /\ task[t].step = "read" /\ "read" \in Held /\ "objects" \in Held
    BY DEF MergeWrites, Resumes, Held
<1>2. Work(t) /\ t \in Writes /\ t \notin Puts
    BY <1>1, KindsDiffer DEF Inv, WorkInv, Work
<1>3. k \in Keys /\ value \in Objects \cup {NoValue} /\ value # NoValue /\ kept[t] \in Kept
    BY <1>2, StoreAssumption DEF Inv, TypeOK, Kept
<1>4. /\ task' \in [Tasks -> [step : Steps, by : Processes \cup {NoTask}]]
      /\ task[t].by \in Processes /\ task'[t].step = "objects"
    BY <1>1, HolderGoesOn DEF MergeWrites
<1>5. kept' = [kept EXCEPT ![t] = [kept[t] EXCEPT !.writes[k] = value]]
    BY DEF MergeWrites, Keeps
<1> HIDE DEF value, k
<1>6. [kept[t] EXCEPT !.writes[k] = value] \in Kept
    BY <1>3 DEF Kept
<1>7. TypeOK'
    BY <1>4, <1>5, <1>6 DEF MergeWrites, Inv, TypeOK, files, processes, Enters
<1>8. kept'[t].writes[k] = value /\ \A j \in Keys \ {k} : kept'[t].writes[j] = kept[t].writes[j]
    BY <1>3, <1>5 DEF Inv, TypeOK, Kept
<1>9. Work(t)'
    BY <1>1, <1>2, <1>3, <1>4, <1>8 DEF Work, MergeWrites, files, k
<1> QED BY <1>1, <1>7, <1>9, HolderRests DEF MergeWrites, Inv

LEMMA MarkKeeps ==
    ASSUME Inv, NEW t \in Tasks, Mark(t) PROVE Inv'
<1>1. task[t].step = "mark" /\ {"mark", "sweep", "undo"} \subseteq Held
    BY DEF Mark, At, Held
<1>2. t \in Sweeps \cup Processes /\ t \notin Puts \cup Writes
    BY <1>1, KindsDiffer DEF Inv, WorkInv, Work
<1>3. Whole
    BY DEF Inv, FileInv
<1>4. Goes(t, "sweep") /\ kept' = [kept EXCEPT ![t] = [NothingKept EXCEPT !.set = objects \ Reachable]]
    BY <1>3 DEF Mark, Keeps
<1>5. /\ task' \in [Tasks -> [step : Steps, by : Processes \cup {NoTask}]]
      /\ task'[t].step = "sweep"
    BY <1>1, <1>4, HolderGoesOn DEF Mark
<1>6. [NothingKept EXCEPT !.set = objects \ Reachable] \in Kept
    BY DEF NothingKept, NoWrites, Kept, Inv, TypeOK
<1>7. TypeOK'
    BY <1>4, <1>5, <1>6 DEF Mark, Inv, TypeOK, files, processes
<1>8. kept'[t].set = objects \ Reachable
    BY <1>4 DEF Inv, TypeOK, NothingKept
<1>9. Work(t)'
  <2>1. Reachable' = Reachable
      BY DEF Mark, files, Reachable, Values
  <2> QED BY <1>2, <1>5, <1>8, <2>1 DEF Work
<1> QED BY <1>1, <1>4, <1>7, <1>9, HolderRests DEF Mark, Inv

-----------------------------------------------------------------------------
\* The steps that change files.

LEMMA ValuesAreObjects ==
    ASSUME TypeOK PROVE \A u \in Tasks : KeptValues(u) \subseteq Objects
BY DEF TypeOK, Kept, KeptValues

LEMMA WriteObjectsKeeps ==
    ASSUME Inv, NEW t \in Tasks, WriteObjects(t) PROVE Inv'
<1>1. Goes(t, "manifest") /\ task[t].step = "objects" /\ {"objects", "manifest"} \subseteq Held
    BY DEF WriteObjects, At, Held
<1>2. Work(t) /\ (t \in Puts => t \notin Writes)
    BY KindsDiffer DEF Inv, WorkInv
<1>3. /\ task' \in [Tasks -> [step : Steps, by : Processes \cup {NoTask}]]
      /\ LifeInv' /\ OrderInv' /\ LockInv' /\ task'[t].step = "manifest"
      /\ \A u \in Tasks \ {t} : task'[u] = task[u] /\ Work(u)'
    BY <1>1, HolderGoesOn DEF WriteObjects
<1>4. /\ objects' = objects \cup (IF t \in Puts THEN Content[CheckpointOf[t]] ELSE KeptValues(t))
      /\ UNCHANGED <<manifests, writes, ref, kept, torn>>
    BY DEF WriteObjects, KeptValues
<1>5. t \in Puts => Content[CheckpointOf[t]] \subseteq Objects
    BY StoreAssumption
<1>6. TypeOK'
    BY <1>3, <1>4, <1>5, ValuesAreObjects DEF WriteObjects, Inv, TypeOK, processes
<1>7. Work(t)'
    BY <1>1, <1>2, <1>3, <1>4 DEF Work, KeptValues
<1>8. FileInv'
  <2>1. Reachable' = Reachable /\ objects \subseteq objects'
      BY <1>4 DEF Reachable, Values
  <2> QED BY <1>1, <1>3, <1>4, <2>1 DEF Inv, FileInv, Whole, Tasks, Calls
<1>9. LandedInv'
    BY <1>3, <1>4 DEF Inv, LandedInv, Landed
<1> QED BY <1>3, <1>6, <1>7, <1>8, <1>9 DEF Inv, WorkInv

LEMMA WriteManifestKeeps ==
    ASSUME Inv, NEW t \in Tasks, WriteManifest(t) PROVE Inv'
<1> DEFINE c == CheckpointOf[t]
<1>1. task[t].step = "manifest" /\ {"manifest", "ref", "unlock"} \subseteq Held
    BY DEF WriteManifest, At, Held
<1>2. Work(t) /\ t \in Puts \cup Writes /\ c \in Checkpoints
    BY <1>1, StoreAssumption DEF Inv, WorkInv, Work
<1>3. CASE t \in Puts
  <2>1. /\ Goes(t, "ref") /\ manifests' = manifests \cup {c}
        /\ UNCHANGED <<objects, writes, ref, lock, processes, kept, torn>>
      BY <1>3 DEF WriteManifest
  <2>2. /\ task' \in [Tasks -> [step : Steps, by : Processes \cup {NoTask}]]
        /\ LifeInv' /\ OrderInv' /\ LockInv' /\ task'[t].step = "ref"
        /\ \A u \in Tasks \ {t} : task'[u] = task[u] /\ Work(u)'
      BY <1>1, <2>1, HolderGoesOn
  <2>3. TypeOK'
      BY <1>2, <2>1, <2>2 DEF WriteManifest, Inv, TypeOK, processes
  <2>4. Work(t)'
      BY <1>3, <2>1, <2>2 DEF Work
  <2>5. FileInv'
    <3>1. Reachable' = Reachable \cup Content[c]
        BY <2>1 DEF Reachable, Values
    <3>2. Content[c] \subseteq objects
        BY <1>1, <1>2, <1>3 DEF Work
    <3> QED BY <1>1, <2>1, <2>2, <3>1, <3>2 DEF Inv, FileInv, Whole, Tasks, Calls
  <2>6. LandedInv'
      BY <2>1, <2>2 DEF Inv, LandedInv, Landed
  <2> QED BY <2>2, <2>3, <2>4, <2>5, <2>6 DEF Inv, WorkInv
<1>4. CASE t \notin Puts
  <2>1. /\ Goes(t, "unlock") /\ writes' = [writes EXCEPT ![c] = kept[t].writes]
        /\ UNCHANGED <<objects, manifests, ref, lock, processes, kept, torn>>
      BY <1>4 DEF WriteManifest
  <2>2. /\ task' \in [Tasks -> [step : Steps, by : Processes \cup {NoTask}]]
        /\ LifeInv' /\ OrderInv' /\ LockInv' /\ task'[t].step = "unlock"
        /\ \A u \in Tasks \ {t} : task'[u] = task[u] /\ Work(u)'
      BY <1>1, <2>1, HolderGoesOn
  <2>3. TypeOK'
      BY <1>2, <2>1, <2>2 DEF WriteManifest, Inv, TypeOK, processes, Kept
  <2>4. Work(t)'
      BY <2>2 DEF Work
  <2>5. writes'[c] = kept[t].writes /\ \A d \in Checkpoints \ {c} : writes'[d] = writes[d]
      BY <1>2, <2>1 DEF Inv, TypeOK
  <2>6. FileInv'
    <3>1. \A d \in Checkpoints : Values(d)' \subseteq objects
      <4> TAKE d \in Checkpoints
      <4>1. CASE d = c
          BY <1>1, <1>2, <1>4, <2>5, <4>1 DEF Work, Values, KeptValues
      <4>2. CASE d # c
          BY <2>5, <4>2 DEF Values, Inv, FileInv, Whole, Reachable
      <4> QED BY <4>1, <4>2
    <3>2. UNION {Content[d] : d \in manifests} \subseteq objects
        BY DEF Inv, FileInv, Whole, Reachable
    <3>3. Whole'
        BY <2>1, <3>1, <3>2 DEF Whole, Reachable
    <3> QED BY <1>1, <2>1, <2>2, <3>3 DEF Inv, FileInv, Tasks, Calls
  <2>7. LandedInv'
    <3> SUFFICES ASSUME NEW u \in Tasks, task'[u].step \in {"unlock", "done"} PROVE Landed(u)'
        BY DEF LandedInv
    <3>1. CASE u = t
        BY <1>1, <1>2, <1>4, <2>5, <3>1 DEF Landed, Work
    <3>2. CASE u # t
      <4>1. Landed(u)
          BY <2>2, <3>2 DEF Inv, LandedInv
      <4>2. ASSUME u \in Writes, CheckpointOf[u] = c, writes[c][KeyOf[u]] # NoValue
            PROVE  kept[t].writes[KeyOf[u]] # NoValue
          BY <1>1, <1>2, <1>4, <4>2, StoreAssumption DEF Work
      <4>3. u \in Writes => CheckpointOf[u] \in Checkpoints
          BY StoreAssumption
      <4> QED BY <2>1, <2>5, <4>1, <4>2, <4>3 DEF Landed
    <3> QED BY <3>1, <3>2
  <2> QED BY <2>2, <2>3, <2>4, <2>6, <2>7 DEF Inv, WorkInv
<1> QED BY <1>3, <1>4

LEMMA WriteRefKeeps ==
    ASSUME Inv, NEW t \in Tasks, WriteRef(t) PROVE Inv'
<1> DEFINE c == CheckpointOf[t]
<1>1. Goes(t, "prune") /\ task[t].step = "ref" /\ {"ref", "prune"} \subseteq Held
    BY DEF WriteRef, At, Held
<1>2. t \in Puts /\ c \in manifests /\ c \in Checkpoints /\ t \notin Writes
    BY <1>1, StoreAssumption DEF Inv, WorkInv, Work
<1>3. /\ task' \in [Tasks -> [step : Steps, by : Processes \cup {NoTask}]]
      /\ LifeInv' /\ OrderInv' /\ LockInv' /\ task'[t].step = "prune"
      /\ \A u \in Tasks \ {t} : task'[u] = task[u] /\ Work(u)'
    BY <1>1, HolderGoesOn DEF WriteRef
<1>4. ref' = c /\ UNCHANGED <<objects, manifests, writes, lock, processes, sync, kept, torn, mishaps>>
    BY DEF WriteRef
<1>5. ref <= c
  <2>1. CASE ref = 0
      BY <1>2, <2>1, StoreAssumption DEF Checkpoints
  <2>2. CASE ref # 0
    <3>1. PICK u \in Puts : CheckpointOf[u] = ref /\ task[u].step # "new"
        BY <2>2 DEF Inv, FileInv
    <3>2. ~(c < CheckpointOf[u])
        BY <1>1, <1>2, <3>1, StepNames DEF Inv, OrderInv
    <3>3. CheckpointOf[u] \in Nat /\ c \in Nat
        BY <1>2, StoreAssumption DEF Checkpoints
    <3> QED BY <3>1, <3>2, <3>3
  <2> QED BY <2>1, <2>2
<1>6. TypeOK'
    BY <1>2, <1>3, <1>4, StoreAssumption DEF Inv, TypeOK, processes, Checkpoints
<1>7. Work(t)'
    BY <1>2, <1>3, <1>4 DEF Work
<1>8. FileInv'
  <2>1. Whole'
      BY <1>4 DEF Inv, FileInv, Whole, Reachable, Values
  <2> QED BY <1>2, <1>3, <1>4, <2>1 DEF Inv, FileInv
<1>9. LandedInv'
  <2> SUFFICES ASSUME NEW u \in Tasks, task'[u].step \in {"unlock", "done"} PROVE Landed(u)'
      BY DEF LandedInv
  <2>1. u # t /\ Landed(u)
      BY <1>3 DEF Inv, LandedInv
  <2>2. u \in Puts \cup Writes => CheckpointOf[u] \in Nat
      BY StoreAssumption DEF Checkpoints
  <2>3. ref \in Nat /\ c \in Nat
      BY <1>2, StoreAssumption DEF Inv, TypeOK, Checkpoints
  <2> HIDE DEF c
  <2> QED BY <1>4, <1>5, <2>1, <2>2, <2>3 DEF Landed
<1> QED BY <1>3, <1>6, <1>7, <1>8, <1>9 DEF Inv, WorkInv

\* Nothing that goes is as new as the ref.
LEMMA PruneKeeps ==
    ASSUME Inv, NEW t \in Tasks, Prune(t) PROVE Inv'
<1> DEFINE latest == IF t \in Puts THEN CheckpointOf[t] ELSE IF ref \in manifests THEN ref ELSE 0
           obsolete == {c \in Checkpoints : c < latest}
           s == IF t \in Puts THEN "unlock" ELSE "mark"
<1>1. task[t].step = "prune" /\ {"prune", "unlock", "mark"} \subseteq Held
    BY DEF Prune, At, Held
<1>2. t \in Puts \cup Processes /\ t \notin Writes /\ (t \in Puts => ref = CheckpointOf[t] /\ t \notin Processes)
    BY <1>1, KindsDiffer DEF Inv, WorkInv, Work
<1>3. ref \in Nat /\ Checkpoints \subseteq Nat /\ ref # 0 => ref \in manifests /\ latest = ref
    BY <1>2, StoreAssumption DEF Inv, FileInv, TypeOK, Checkpoints
<1>4. \A c \in obsolete : c \in Checkpoints /\ c < ref /\ c # ref
  <2>1. ref \in Nat /\ Checkpoints \subseteq Nat
      BY StoreAssumption DEF Inv, TypeOK, Checkpoints
  <2>2. latest = ref \/ latest = 0
      BY <1>2
  <2> HIDE DEF latest
  <2>3. \A c \in obsolete : c \in Checkpoints /\ c \in Nat /\ c < latest
      BY <2>1
  <2> HIDE DEF obsolete
  <2> QED BY <2>1, <2>2, <2>3
<1>5. UNCHANGED <<objects, ref, lock, processes, sync, kept, torn, mishaps>>
    BY DEF Prune
<1>6. \/ \E c \in obsolete : manifests' = manifests \ {c} /\ UNCHANGED <<writes, task>>
      \/ \E c \in obsolete : writes' = [writes EXCEPT ![c] = NoWrites] /\ UNCHANGED <<manifests, task>>
      \/ Goes(t, s) /\ UNCHANGED <<manifests, writes>>
    BY DEF Prune
<1> HIDE DEF latest, obsolete
<1>7. /\ manifests' \subseteq manifests /\ (ref \in manifests => ref \in manifests')
      /\ writes' \in [Checkpoints -> [Keys -> Objects \cup {NoValue}]]
      /\ \A c \in Checkpoints : writes'[c] = writes[c] \/ (c < ref /\ writes'[c] = NoWrites)
  <2>1. writes \in [Checkpoints -> [Keys -> Objects \cup {NoValue}]] /\ NoWrites \in [Keys -> Objects \cup {NoValue}]
      BY DEF Inv, TypeOK, NoWrites
  <2>2. CASE \E c \in obsolete : manifests' = manifests \ {c} /\ UNCHANGED <<writes, task>>
      BY <1>4, <2>1, <2>2
  <2>3. CASE \E c \in obsolete : writes' = [writes EXCEPT ![c] = NoWrites] /\ UNCHANGED <<manifests, task>>
      BY <1>4, <2>1, <2>3
  <2> QED BY <1>6, <2>1, <2>2, <2>3
<1>8. UNCHANGED task \/ Goes(t, s)
    BY <1>6
<1>9. PICK r \in {"prune", s} : Goes(t, r) \/ (r = task[t].step /\ UNCHANGED task)
    BY <1>1, <1>8
<1>10. /\ task' \in [Tasks -> [step : Steps, by : Processes \cup {NoTask}]]
       /\ LifeInv' /\ OrderInv' /\ LockInv' /\ task'[t].step = r
       /\ \A u \in Tasks \ {t} : task'[u] = task[u] /\ Work(u)'
    BY <1>1, <1>5, <1>9, HolderGoesOn
<1>11. TypeOK'
    BY <1>5, <1>7, <1>10 DEF Inv, TypeOK, processes
<1>12. Work(t)'
    BY <1>2, <1>5, <1>10 DEF Work
<1>13. FileInv'
  <2>1. \A c \in Checkpoints : Values(c)' \subseteq Values(c)
      BY <1>7 DEF Values, NoWrites
  <2>2. Reachable' \subseteq Reachable
      BY <1>7, <2>1 DEF Reachable
  <2> QED BY <1>1, <1>5, <1>7, <1>10, <2>2 DEF Inv, FileInv, Whole, Tasks, Calls
<1>14. LandedInv'
  <2> SUFFICES ASSUME NEW u \in Tasks, task'[u].step \in {"unlock", "done"} PROVE Landed(u)'
      BY DEF LandedInv
  <2>1. u \in Puts \cup Writes => CheckpointOf[u] \in Checkpoints /\ CheckpointOf[u] \in Nat
      BY StoreAssumption DEF Checkpoints
  <2>2. ref \in Nat
      BY StoreAssumption DEF Inv, TypeOK
  <2>3. CASE u = t
      BY <1>1, <1>2, <1>5, <1>10, <2>1, <2>2, <2>3 DEF Landed
  <2>4. CASE u # t
    <3>1. Landed(u)
        BY <1>10, <2>4 DEF Inv, LandedInv
    <3> QED BY <1>5, <1>7, <2>1, <2>2, <3>1 DEF Landed
  <2> QED BY <2>3, <2>4
<1> QED BY <1>10, <1>11, <1>12, <1>13, <1>14 DEF Inv, WorkInv

LEMMA SweepKeeps ==
    ASSUME Inv, NEW t \in Tasks, Sweep(t) PROVE Inv'
<1>1. task[t].step = "sweep" /\ {"sweep", "unlock"} \subseteq Held
    BY DEF Sweep, At, Held
<1>2. Work(t) /\ t \in Sweeps \cup Processes /\ t \notin Puts \cup Writes
    BY <1>1, KindsDiffer DEF Inv, WorkInv, Work
<1>3. CASE kept[t].set # {} /\ UNCHANGED task
  <2> DEFINE o == CHOOSE x \in kept[t].set : TRUE
             left == [kept[t] EXCEPT !.set = @ \ {o}]
  <2>1. o \in kept[t].set /\ objects' = objects \ {o} /\ kept' = [kept EXCEPT ![t] = left]
        /\ UNCHANGED <<manifests, writes, ref, lock, processes, sync, torn, mishaps>>
    <3>1. objects' = objects \ {o} /\ kept' = [kept EXCEPT ![t] = left]
        BY <1>3 DEF Sweep, Keeps
    <3> QED BY <1>3, <3>1 DEF Sweep
  <2> HIDE DEF o
  <2>2. o \notin Reachable
      BY <1>1, <1>2, <2>1 DEF Work
  <2>3. kept[t] \in Kept /\ left \in Kept /\ left.set = kept[t].set \ {o}
      BY DEF Inv, TypeOK, Kept
  <2> HIDE DEF left
  <2>4. /\ LifeInv' /\ OrderInv' /\ LockInv' /\ task'[t].step = "sweep"
        /\ task' \in [Tasks -> [step : Steps, by : Processes \cup {NoTask}]]
        /\ \A u \in Tasks \ {t} : task'[u] = task[u] /\ Work(u)'
      BY <1>1, <1>3, <2>1, HolderGoesOn
  <2>5. TypeOK'
      BY <2>1, <2>3, <2>4 DEF Inv, TypeOK, processes
  <2>6. Reachable' = Reachable /\ kept'[t].set = kept[t].set \ {o}
      BY <2>1, <2>3 DEF Reachable, Values, Inv, TypeOK
  <2>7. Work(t)'
      BY <1>1, <1>2, <2>4, <2>6 DEF Work
  <2>8. FileInv'
      BY <1>3, <2>1, <2>2, <2>6 DEF Inv, FileInv, Whole
  <2>9. LandedInv'
      BY <1>3, <2>1 DEF Inv, LandedInv, Landed
  <2> QED BY <2>4, <2>5, <2>7, <2>8, <2>9 DEF Inv, WorkInv
<1>4. CASE kept[t].set = {} /\ Goes(t, "unlock") /\ UNCHANGED <<objects, kept>>
  <2>1. /\ task' \in [Tasks -> [step : Steps, by : Processes \cup {NoTask}]]
        /\ task'[t].step = "unlock"
      BY <1>1, <1>4, HolderGoesOn DEF Sweep
  <2>2. TypeOK'
      BY <1>4, <2>1 DEF Sweep, Inv, TypeOK, processes
  <2>3. Work(t)'
      BY <2>1 DEF Work
  <2> QED BY <1>1, <1>2, <1>4, <2>2, <2>3, HolderRests DEF Sweep, Inv, files
<1> QED BY <1>3, <1>4 DEF Sweep

-----------------------------------------------------------------------------
\* Lists, which take no lock.

LEMMA ListKeeps ==
    ASSUME Inv, NEW t \in Tasks, NEW s \in {"deliver", "done"}, task[t].step \in {"scan", "deliver"},
           Goes(t, s) \/ (s = "deliver" /\ task[t].step = "deliver" /\ UNCHANGED task),
           NEW k \in Kept, kept' = [kept EXCEPT ![t] = k] \/ UNCHANGED kept,
           UNCHANGED <<files, lock, processes, sync, torn, mishaps>>
    PROVE  Inv'
<1>1. t \in Lists /\ t \notin Puts \cup Writes
    BY KindsDiffer DEF Inv, WorkInv, Work
<1>2. Busy(t) /\ s \in Steps \ {"new"}
    BY DEF Busy, Over, Steps
<1>3. /\ task' \in [Tasks -> [step : Steps, by : Processes \cup {NoTask}]]
      /\ LifeInv' /\ OrderInv'
      /\ task'[t].step = s /\ task'[t].by = task[t].by
      /\ \A u \in Tasks \ {t} : task'[u] = task[u]
  <2>1. CASE Goes(t, s)
      BY <1>2, <2>1, MoveKeeps DEF Inv
  <2>2. CASE s = "deliver" /\ task[t].step = "deliver" /\ UNCHANGED task
      BY <2>2 DEF Inv, TypeOK, LifeInv, OrderInv, Busy, processes
  <2> QED BY <2>1, <2>2
<1>4. TypeOK'
    BY <1>3 DEF Inv, TypeOK, files, processes
<1>5. LockInv'
    BY <1>3 DEF Inv, LockInv, Holds, Held, processes
<1>6. FileInv' /\ LandedInv'
    BY <1>1, <1>3, FilesRest, LandedRests DEF Inv, Tasks, Calls
<1>7. WorkInv'
  <2>1. Work(t)'
      BY <1>1, <1>3, KindsDiffer DEF Work
  <2>2. \A u \in Tasks \ {t} : Work(u)'
    <3> TAKE u \in Tasks \ {t}
    <3>1. Work(u) /\ task'[u] = task[u] /\ kept'[u] = kept[u]
        BY <1>3 DEF Inv, WorkInv, TypeOK
    <3>2. Reachable' = Reachable
        BY DEF files, Reachable, Values
    <3> QED BY <3>1, <3>2 DEF Work, files, KeptValues
  <2> QED BY <2>1, <2>2 DEF WorkInv
<1> QED BY <1>3, <1>4, <1>5, <1>6, <1>7 DEF Inv

LEMMA ScanKeeps ==
    ASSUME Inv, NEW t \in Tasks, Scan(t) PROVE Inv'
<1>1. [NothingKept EXCEPT !.set = manifests] \in Kept
    BY DEF NothingKept, NoWrites, Kept, Inv, TypeOK
<1> QED BY <1>1, ListKeeps DEF Scan, Resumes, Keeps

LEMMA DeliverKeeps ==
    ASSUME Inv, NEW t \in Tasks, Deliver(t) PROVE Inv'
<1>1. kept[t] \in Kept
    BY DEF Inv, TypeOK
<1>2. CASE kept[t].set = {} /\ Goes(t, "done") /\ UNCHANGED <<kept, torn>>
    BY <1>1, <1>2, ListKeeps DEF Deliver, Resumes
<1>3. ASSUME NEW c \in kept[t].set, IF c \in manifests THEN Reads(t, c) ELSE UNCHANGED torn,
             Keeps(t, [kept[t] EXCEPT !.set = @ \ {c}]), UNCHANGED task
      PROVE  Inv'
  <2>1. UNCHANGED torn
    <3>1. c \in manifests => Content[c] \cup Values(c) \subseteq Reachable
        BY DEF Reachable, Inv, TypeOK
    <3> QED BY <1>3, <3>1 DEF Reads, Inv, FileInv, Whole
  <2>2. [kept[t] EXCEPT !.set = @ \ {c}] \in Kept
      BY <1>1 DEF Kept
  <2> QED BY <1>3, <2>1, <2>2, ListKeeps DEF Deliver, Resumes, Keeps
<1> QED BY <1>2, <1>3 DEF Deliver

-----------------------------------------------------------------------------
\* Processes, callers and mishaps.

LEMMA ThrowsKeeps ==
    ASSUME Inv, NEW t \in Tasks, Throws(t) PROVE Inv'
<1>1. Goes(t, "undo") /\ task[t].step \in Held /\ "undo" \in Held
    BY DEF Throws, Held
<1>2. /\ task' \in [Tasks -> [step : Steps, by : Processes \cup {NoTask}]]
      /\ task[t].by \in Processes /\ task'[t].step = "undo"
    BY <1>1, HolderGoesOn DEF Throws
<1>3. TypeOK'
  <2>1. mishaps' \in 0..MaxMishaps
      BY StoreAssumption DEF Throws, Inv, TypeOK
  <2> QED BY <1>2, <2>1 DEF Throws, Inv, TypeOK, files, processes, Enters
<1>4. Work(t)'
    BY <1>2 DEF Work
<1> QED BY <1>1, <1>3, <1>4, HolderRests DEF Throws, Inv

\* A step that begins a call, or a life, takes nothing from those under way.
LEMMA BeginningKeeps ==
    ASSUME Inv, NEW t \in Tasks, task[t].step = "new", NEW s \in {"wait", "scan"},
           NEW p \in Processes, task' = [task EXCEPT ![t] = [step |-> s, by |-> p]],
           s = "scan" => t \in Lists,
           \A u \in Tasks : task[u].step = "stale" => lock.proc \notin up',
           UNCHANGED <<files, lock, sync, kept, torn>>
    PROVE  LockInv' /\ FileInv' /\ WorkInv' /\ LandedInv'
<1>1. task'[t].step = s /\ \A u \in Tasks \ {t} : task'[u] = task[u]
    BY DEF Inv, TypeOK
<1>2. LockInv'
    BY <1>1 DEF Inv, LockInv, Holds, Held
<1>3. FileInv' /\ LandedInv'
    BY <1>1, FilesRest, LandedRests DEF Inv, Tasks, Calls
<1>4. WorkInv'
  <2>1. Work(t)'
      BY <1>1, KindsDiffer DEF Work
  <2>2. \A u \in Tasks \ {t} : Work(u)'
    <3> TAKE u \in Tasks \ {t}
    <3>1. Work(u) /\ task'[u] = task[u]
        BY <1>1 DEF Inv, WorkInv
    <3>2. Reachable' = Reachable
        BY DEF files, Reachable, Values
    <3> QED BY <3>1, <3>2 DEF Work, files, KeptValues
  <2> QED BY <2>1, <2>2 DEF WorkInv
<1> QED BY <1>2, <1>3, <1>4

LEMMA StartKeeps ==
    ASSUME Inv, NEW p \in Processes, Start(p) PROVE Inv'
<1>1. p \in Tasks /\ p # NoTask /\ NoTask \notin Tasks /\ p \notin Calls
    BY StoreAssumption DEF Tasks
<1>2. started \in Nat /\ p = started + 1 /\ p <= Lives
    BY StoreAssumption DEF Inv, TypeOK, Start, Processes
<1>3. \A t \in Tasks : task[t].by # p /\ (task[t].by # NoTask => task[t].by \in 1..p)
    BY <1>1, <1>2 DEF Inv, LifeInv
<1>4. task[p].step = "new"
    BY <1>1, <1>3 DEF Inv, LifeInv
<1>5. task' = [task EXCEPT ![p] = [step |-> "wait", by |-> p]] /\ up' = {p} /\ started' = p
    BY DEF Start
<1>6. task'[p] = [step |-> "wait", by |-> p] /\ \A u \in Tasks \ {p} : task'[u] = task[u]
    BY <1>1, <1>5 DEF Inv, TypeOK
<1>7. \A u \in Tasks : ~Busy(u)
    BY DEF Inv, LifeInv, Start
<1>8. TypeOK'
  <2>1. task' \in [Tasks -> [step : Steps, by : Processes \cup {NoTask}]]
      BY <1>5 DEF Inv, TypeOK, Steps
  <2>2. started' \in 0..Lives /\ up' \subseteq 1..started'
      BY <1>2, <1>5, StoreAssumption
  <2> QED BY <2>1, <2>2 DEF Start, Inv, TypeOK, files
<1>9. LifeInv'
  <2>1. \A t \in Tasks : /\ task'[t].step = "new" <=> task'[t].by = NoTask
                         /\ task'[t].by \in (1..started') \cup {NoTask}
                         /\ Busy(t)' => task'[t].by \in up'
    <3> TAKE t \in Tasks
    <3>1. CASE t = p
        BY <1>1, <1>2, <1>5, <1>6, <3>1
    <3>2. CASE t # p
        BY <1>3, <1>5, <1>6, <1>7, <3>2 DEF Inv, LifeInv, Busy
    <3> QED BY <3>1, <3>2
  <2>2. \A q \in Processes : task'[q].by \in {NoTask, q}
      BY <1>6 DEF Inv, LifeInv, Tasks
  <2>3. \A c \in Calls : task'[c].by # NoTask => task'[task'[c].by].step = "done"
    <3> TAKE c \in Calls
    <3>1. task'[c] = task[c] /\ c \in Tasks
        BY <1>1, <1>6 DEF Tasks
    <3>2. task[c].by # p /\ (task[c].by # NoTask => task[c].by \in Tasks)
        BY <1>3, <3>1 DEF Inv, TypeOK, Tasks
    <3> QED BY <1>6, <3>1, <3>2 DEF Inv, LifeInv
  <2> QED BY <1>5, <2>1, <2>2, <2>3 DEF LifeInv
<1>10. OrderInv'
    BY <1>1, <1>6 DEF Inv, OrderInv, Tasks, Calls
<1>11. LockInv' /\ FileInv' /\ WorkInv' /\ LandedInv'
  <2>1. \A u \in Tasks : task[u].step # "stale"
      BY <1>7 DEF Busy, Over
  <2> QED BY <1>1, <1>4, <1>5, <2>1, BeginningKeeps DEF Start
<1> QED BY <1>8, <1>9, <1>10, <1>11 DEF Inv

LEMMA BeginKeeps ==
    ASSUME Inv, NEW p \in Processes, NEW t \in Calls, Begin(t, p) PROVE Inv'
<1> DEFINE s == IF t \in Lists THEN "scan" ELSE "wait"
<1>1. t \in Tasks /\ p \in Tasks /\ p # NoTask /\ p # t
    BY StoreAssumption DEF Tasks
<1>2. task' = [task EXCEPT ![t] = [step |-> s, by |-> p]] /\ task[t].step = "new"
      /\ p \in up /\ task[p].step = "done"
    BY DEF Begin
<1>3. task'[t] = [step |-> s, by |-> p] /\ \A u \in Tasks \ {t} : task'[u] = task[u]
    BY <1>1, <1>2 DEF Inv, TypeOK
<1>4. TypeOK'
  <2>1. task' \in [Tasks -> [step : Steps, by : Processes \cup {NoTask}]]
      BY <1>2 DEF Inv, TypeOK, Steps
  <2> QED BY <2>1 DEF Begin, Inv, TypeOK, files, processes
<1>5. LifeInv'
  <2>1. p \in 1..started
      BY <1>2 DEF Inv, TypeOK
  <2>2. \A u \in Tasks : /\ task'[u].step = "new" <=> task'[u].by = NoTask
                         /\ task'[u].by \in (1..started) \cup {NoTask}
                         /\ Busy(u)' => task'[u].by \in up
    <3> TAKE u \in Tasks
    <3>1. CASE u = t
        BY <1>1, <1>2, <1>3, <2>1, <3>1
    <3>2. CASE u # t
        BY <1>3, <3>2 DEF Inv, LifeInv, Busy
    <3> QED BY <3>1, <3>2
  <2>3. \A q \in Processes : task'[q] = task[q]
      BY <1>3, KindsDiffer, StoreAssumption DEF Tasks
  <2>4. \A c \in Calls : task'[c].by # NoTask => task'[task'[c].by].step = "done"
    <3> TAKE c \in Calls
    <3>1. CASE c = t
        BY <1>1, <1>2, <1>3, <3>1
    <3>2. CASE c # t
      <4>1. task'[c] = task[c] /\ (task[c].by # NoTask => task[c].by \in Processes)
          BY <1>3, <3>2 DEF Inv, TypeOK, Tasks
      <4> QED BY <2>3, <4>1 DEF Inv, LifeInv
    <3> QED BY <3>1, <3>2
  <2> QED BY <2>2, <2>3, <2>4 DEF Begin, Inv, LifeInv, processes
<1>6. OrderInv'
  <2> SUFFICES ASSUME NEW u \in Puts, NEW v \in Puts, CheckpointOf[u] < CheckpointOf[v], task'[v].step # "new"
               PROVE  task'[u].step \in Over
      BY DEF OrderInv
  <2>1. task[u].step \in Over
      BY <1>3 DEF Begin, Asked, Inv, OrderInv, Tasks, Calls
  <2> QED BY <1>2, <1>3, <2>1, StepNames DEF Tasks, Calls
<1>7. LockInv' /\ FileInv' /\ WorkInv' /\ LandedInv'
  <2>1. \A u \in Tasks : task[u].step = "stale" => lock.proc \notin up'
      BY DEF Inv, LockInv, Begin, processes
  <2> QED BY <1>1, <1>2, <2>1, BeginningKeeps DEF Begin
<1> QED BY <1>4, <1>5, <1>6, <1>7 DEF Inv

LEMMA GivesKeeps ==
    ASSUME Inv, NEW p \in Processes, Gives(p) PROVE Inv'
<1>1. p \in Tasks /\ up = {p} /\ started = p /\ up' = {} /\ UNCHANGED <<files, lock, started, sync, task, kept, torn>>
    BY DEF Gives, Inv, LifeInv, Tasks
<1>2. task[p].step = "failed" /\ p # NoTask
    BY <1>1, StoreAssumption DEF Gives
<1>3. \A t \in Tasks : ~Busy(t)
  <2> SUFFICES ASSUME NEW t \in Tasks, Busy(t) PROVE FALSE
      OBVIOUS
  <2>1. task[t].by = p
      BY <1>1 DEF Inv, LifeInv
  <2>2. CASE t \in Calls
      BY <1>2, <2>1, <2>2 DEF Inv, LifeInv
  <2>3. CASE t \in Processes
      BY <1>2, <2>1, <2>3 DEF Inv, LifeInv, Busy, Over
  <2> QED BY <2>2, <2>3 DEF Tasks
<1>4. TypeOK'
    BY <1>1 DEF Gives, Inv, TypeOK, files
<1>5. LifeInv'
    BY <1>1, <1>3 DEF Inv, LifeInv, Busy
<1>6. OrderInv' /\ LockInv'
    BY <1>1 DEF Inv, OrderInv, LockInv, Holds
<1>7. FileInv' /\ LandedInv' /\ WorkInv'
    BY <1>1, FilesRest, LandedRests, WorkRests DEF Inv
<1> QED BY <1>4, <1>5, <1>6, <1>7 DEF Inv

LEMMA CrashKeeps ==
    ASSUME Inv, NEW p \in Processes, Crash(p) PROVE Inv'
<1> DEFINE Dies(t) == task[t].by = p /\ task[t].step \notin Over
<1>1. p \in Tasks /\ p # NoTask /\ up = {p} /\ up' = {} /\ UNCHANGED <<files, lock, started, torn>>
    BY StoreAssumption DEF Crash, Inv, LifeInv, Tasks
<1>2. /\ task' \in [Tasks -> [step : Steps, by : Processes \cup {NoTask}]]
      /\ \A t \in Tasks : task'[t].by = task[t].by
      /\ \A t \in Tasks : Dies(t) => task'[t].step = "lost"
      /\ \A t \in Tasks : ~Dies(t) => task'[t] = task[t]
    BY DEF Crash, Inv, TypeOK, Steps, Over
<1>3. \A t \in Tasks : Dies(t) \/ ~Busy(t)
    BY <1>1 DEF Inv, LifeInv, Busy
<1>4. \A t \in Tasks : task'[t].step \in Over \cup {"new"} /\ (task'[t].step = "new" <=> task[t].step = "new")
      /\ (task'[t].step = "done" <=> task[t].step = "done")
      /\ (task[t].step \in Over => task'[t].step \in Over)
  <2> TAKE t \in Tasks
  <2>1. CASE Dies(t)
      BY <1>1, <1>2, <2>1, StepNames DEF Inv, LifeInv, Over
  <2>2. CASE ~Dies(t)
      BY <1>2, <1>3, <2>2 DEF Busy
  <2> QED BY <2>1, <2>2
<1> HIDE DEF Dies
<1>5. TypeOK'
  <2>1. mishaps' \in 0..MaxMishaps
      BY StoreAssumption DEF Crash, Inv, TypeOK
  <2>2. kept' \in [Tasks -> Kept]
      BY DEF Crash, Inv, TypeOK, Kept, NothingKept, NoWrites
  <2> QED BY <1>1, <1>2, <2>1, <2>2 DEF Crash, Inv, TypeOK, files
<1>6. LifeInv'
  <2>1. \A c \in Calls : c \in Tasks /\ (task[c].by # NoTask => task[c].by \in Tasks)
      BY DEF Inv, TypeOK, Tasks
  <2>2. \A q \in Processes : q \in Tasks
      BY DEF Tasks
  <2> QED BY <1>1, <1>2, <1>4, <2>1, <2>2 DEF Inv, LifeInv, Busy
<1>7. OrderInv'
    BY <1>4 DEF Inv, OrderInv, Tasks, Calls
<1>8. LockInv'
    BY <1>4 DEF LockInv, Holds, Held, Over
<1>9. FileInv' /\ LandedInv' /\ WorkInv'
  <2>1. \A t \in Tasks : task'[t].step \notin Working1 /\ (task'[t].step \in {"unlock", "done"} => task[t].step = "done")
      BY <1>4 DEF Working1, Over
  <2> QED BY <1>1, <1>4, <2>1, FilesRest, LandedRests, WorkRests DEF Inv, Tasks, Calls
<1> QED BY <1>5, <1>6, <1>7, <1>8, <1>9 DEF Inv

-----------------------------------------------------------------------------
\* Every step of a call, a process or a mishap keeps the invariant.
THEOREM StoreInvNext == Inv /\ [Next]_vars => Inv'
<1> SUFFICES ASSUME Inv, [Next]_vars PROVE Inv'
    OBVIOUS
<1>1. CASE UNCHANGED vars
    BY <1>1 DEF vars, files, processes, Inv, TypeOK, LifeInv, OrderInv, LockInv, FileInv, WorkInv, LandedInv,
                Busy, Holds, Whole, Reachable, Values, Work, KeptValues, Landed
<1>2. ASSUME NEW t \in Tasks, Locking(t) PROVE Inv'
    BY <1>2, MakeLockKeeps, OwnLockKeeps, FindStaleKeeps, RemoveStaleKeeps, UnlockKeeps DEF Locking
<1>3. ASSUME NEW t \in Tasks, Working(t) PROVE Inv'
    BY <1>3, BeginWorkKeeps, MergeWritesKeeps, WriteObjectsKeeps, WriteManifestKeeps, WriteRefKeeps,
       PruneKeeps, MarkKeeps, SweepKeeps, ScanKeeps, DeliverKeeps DEF Working
<1>4. ASSUME NEW t \in Tasks, Throws(t) PROVE Inv'
    BY <1>4, ThrowsKeeps
<1>5. ASSUME NEW p \in Processes, Start(p) \/ Gives(p) \/ Crash(p) \/ \E t \in Calls : Begin(t, p) PROVE Inv'
    BY <1>5, StartKeeps, GivesKeeps, CrashKeeps, BeginKeeps
<1> QED BY <1>1, <1>2, <1>3, <1>4, <1>5 DEF Next, Step

\* So it always holds.
THEOREM StoreInvAlways == Spec => []Inv
BY StoreInvInit, StoreInvNext, PTL DEF Spec

\* A call between taking and giving back the store lock of fileSaver.ts is the
\* only one, also when the lock of a dead process was removed on the way.
THEOREM OneWriterAtATime == Spec => []OneWriter
<1>1. Inv => OneWriter
    BY DEF Inv, LockInv, Holds, OneWriter
<1> QED BY <1>1, StoreInvAlways, PTL

\* A crash or a failing operation between any two files of any call, and of the
\* maintenance after it, leaves a store that opens; no list meets less.
THEOREM StoreStaysWhole == Spec => []StoreIsWhole
<1>1. Inv => StoreIsWhole
    BY DEF Inv, FileInv, StoreIsWhole
<1> QED BY <1>1, StoreInvAlways, PTL

\* What put and putWrites have acknowledged is not taken back by an older put,
\* a sibling, a prune or a collection.
THEOREM AcceptedIsNotLost == Spec => []AcceptedStays
<1>1. Inv => AcceptedStays
    BY DEF Inv, LandedInv, Landed, AcceptedStays, Tasks, Calls
<1> QED BY <1>1, StoreInvAlways, PTL
=============================================================================
