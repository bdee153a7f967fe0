----------------------------- MODULE StudioPets -----------------------------
(***************************************************************************)
(* The Pets of one Studio: their records in the Studio database and the    *)
(* runtimes assembled from them (packages/studio/src/pets/studioPets.ts).  *)
(* Every change is a job of one promise chain, `changes`; a job takes      *)
(* several steps, one per awaited call to the store or to the assembler.   *)
(* A restart keeps the records and loses everything else.                  *)
(***************************************************************************)
EXTENDS Naturals, Sequences

CONSTANTS
    Pets,
    Requests,       \* calls of create() and rename(), each made at most once
    Boot,           \* the job of restore()
    PetOf,          \* the Pet a request names
    Renames,        \* the requests that are renames; the others create
    MaxFaults,      \* bound on assemblies that fail
    MaxLostDeletes, \* bound on deletePet calls that fail
    MaxRestarts     \* bound on crashes of the process

ASSUME PetsAssumption ==
    /\ Boot \notin Requests
    /\ \A r \in Requests : PetOf[r] \in Pets
    /\ Renames \subseteq Requests
    /\ {MaxFaults, MaxLostDeletes, MaxRestarts} \subseteq Nat

VARIABLES
    rows,       \* recorded Pets
    named,      \* the request that gave a recorded Pet its name
    listed,     \* external: Pets whose definition the configuration lists
    live,       \* the Pets Studio serves
    shown,      \* the request that gave a live registration its name
    open,       \* external: how many runtimes of each Pet are open
    jobs,       \* changes: the jobs that have not settled; the head runs
    at,         \* where each job is, or how it ended
    todo,       \* the rows restoreNow read and has still to assemble
    restored,
    closed,
    closer,     \* where close() is
    faults, lostDeletes, restarts

records == <<rows, named>>
runtimes == <<live, shown, open>>
closing == <<closed, closer>>
bounds == <<faults, lostDeletes, restarts>>
vars == <<records, listed, runtimes, jobs, at, todo, restored, closing, bounds>>

Jobs == Requests \cup {Boot}
Creates == Requests \ Renames
Rows == [pet : Pets, name : Jobs]
Steps == {"queued", "list", "assemble", "join", "build", "delete", "show"}
Ends == {"ok", "failed", "refused", "lost"}

TypeOK ==
    /\ rows \subseteq Pets /\ named \in [Pets -> Jobs]
    /\ listed \subseteq Pets /\ todo \subseteq Rows
    /\ live \subseteq Pets /\ shown \in [Pets -> Jobs] /\ open \in [Pets -> Nat]
    /\ jobs \in Seq(Jobs)
    /\ at \in [Jobs -> {"new"} \cup Steps \cup Ends]
    /\ restored \in {"none", "pending", "done", "failed"}
    /\ closed \in BOOLEAN
    /\ closer \in {"none", "waiting", "closing", "done"}
    /\ faults \in Nat /\ lostDeletes \in Nat /\ restarts \in Nat

-----------------------------------------------------------------------------

\* serialize(): a job starts when every earlier one has settled.
Running(j, step) == jobs # <<>> /\ Head(jobs) = j /\ at[j] = step

MoveTo(j, step) == at' = [at EXCEPT ![j] = step] /\ UNCHANGED jobs

Settle(j, end) ==
    /\ at' = [at EXCEPT ![j] = end]
    /\ jobs' = Tail(jobs)

\* serialize(): refused once closed, else the next of the chain.
Serialize(j) ==
    /\ at[j] = "new"
    /\ IF closed
       THEN at' = [at EXCEPT ![j] = "refused"] /\ UNCHANGED jobs
       ELSE at' = [at EXCEPT ![j] = "queued"] /\ jobs' = Append(jobs, j)

\* goLive: a runtime is assembled for a row read earlier; Studio serves it.
GoLive(row) ==
    /\ open' = [open EXCEPT ![row.pet] = @ + 1]
    /\ live' = live \cup {row.pet}
    /\ shown' = [shown EXCEPT ![row.pet] = row.name]

AssemblyFails == faults < MaxFaults /\ faults' = faults + 1

-----------------------------------------------------------------------------
\* create() checks the definition before it queues; rename() only its input.
Request(r) ==
    /\ r \in Renames \/ PetOf[r] \in listed
    /\ Serialize(r)
    /\ UNCHANGED <<records, listed, runtimes, todo, restored, closing, bounds>>

\* restore(): the first call queues restoreNow, every call shares its promise.
Restore ==
    /\ restored = "none"
    /\ restored' = IF closed THEN "failed" ELSE "pending"
    /\ Serialize(Boot)
    /\ UNCHANGED <<records, listed, runtimes, todo, closing, bounds>>

RestoreBegins ==
    /\ Running(Boot, "queued")
    /\ MoveTo(Boot, "list")
    /\ UNCHANGED <<records, listed, runtimes, todo, restored, closing, bounds>>

\* Bug: a restore that fails never settles the promise others wait for.
RestoreHangs(j, result) ==
    /\ restored' = IF result = "done" THEN "done" ELSE restored
    /\ IF j = Boot
       THEN Settle(j, IF result = "done" THEN "ok" ELSE "failed")
       ELSE MoveTo(j, "join")

\* restoreNow settles in the job j that runs it: create() goes on from there.
RestoreEnds(j, result) ==
    /\ restored' = result
    /\ IF j = Boot
       THEN Settle(j, IF result = "done" THEN "ok" ELSE "failed")
       ELSE MoveTo(j, "join")

ListPets(j) ==
    /\ Running(j, "list")
    /\ todo' = {[pet |-> p, name |-> named[p]] : p \in rows \ live}
    /\ MoveTo(j, "assemble")
    /\ UNCHANGED <<records, listed, runtimes, restored, closing, bounds>>

RestorePet(j) ==
    /\ Running(j, "assemble")
    /\ \/ \E row \in todo :
             /\ row.pet \in listed
             /\ GoLive(row)
             /\ todo' = todo \ {row}
             /\ UNCHANGED <<jobs, at, restored, faults>>
       \/ /\ \/ todo # {} /\ AssemblyFails
             \/ (\E row \in todo : row.pet \notin listed) /\ UNCHANGED faults
          /\ RestoreEnds(j, "failed")
          /\ todo' = {}
          /\ UNCHANGED runtimes
       \/ /\ todo = {}
          /\ RestoreEnds(j, "done")
          /\ UNCHANGED <<runtimes, todo, faults>>
    /\ UNCHANGED <<records, listed, closing, lostDeletes, restarts>>

-----------------------------------------------------------------------------
\* create(): restore inline unless somebody has already asked for it.
CreateBegins(r) ==
    /\ Running(r, "queued")
    /\ IF restored = "none"
       THEN restored' = "pending" /\ MoveTo(r, "list")
       ELSE UNCHANGED restored /\ MoveTo(r, "join")
    /\ UNCHANGED <<records, listed, runtimes, todo, closing, bounds>>

\* ... wait for the restore, then record the Pet.
CreateRecords(r) ==
    /\ Running(r, "join")
    /\ restored # "pending"
    /\ IF restored = "failed" \/ PetOf[r] \in rows
       THEN Settle(r, "failed") /\ UNCHANGED records
       ELSE /\ rows' = rows \cup {PetOf[r]}
            /\ named' = [named EXCEPT ![PetOf[r]] = r]
            /\ MoveTo(r, "build")
    /\ UNCHANGED <<listed, runtimes, todo, restored, closing, bounds>>

CreateAssembles(r) ==
    /\ Running(r, "build")
    /\ \/ GoLive([pet |-> PetOf[r], name |-> r]) /\ Settle(r, "ok") /\ UNCHANGED faults
       \/ AssemblyFails /\ MoveTo(r, "delete") /\ UNCHANGED runtimes
    /\ UNCHANGED <<records, listed, todo, restored, closing, lostDeletes, restarts>>

\* Bug: the record of a Pet that failed to assemble is kept.
CreateForgets(r) ==
    /\ Running(r, "delete")
    /\ Settle(r, "failed")
    /\ UNCHANGED <<records, listed, runtimes, todo, restored, closing, bounds>>

\* A Pet that failed to assemble is deleted again, unless that fails as well.
CreateUndoes(r) ==
    /\ Running(r, "delete")
    /\ Settle(r, "failed")
    /\ \/ rows' = rows \ {PetOf[r]} /\ UNCHANGED lostDeletes
       \/ /\ lostDeletes < MaxLostDeletes
          /\ lostDeletes' = lostDeletes + 1
          /\ UNCHANGED rows
    /\ UNCHANGED <<named, listed, runtimes, todo, restored, closing, faults, restarts>>

-----------------------------------------------------------------------------
\* rename(): the record first, the live registration when that is written.
RenameRecords(r) ==
    /\ r \in Renames
    /\ Running(r, "queued")
    /\ IF PetOf[r] \in rows
       THEN named' = [named EXCEPT ![PetOf[r]] = r] /\ MoveTo(r, "show")
       ELSE Settle(r, "failed") /\ UNCHANGED named
    /\ UNCHANGED <<rows, listed, runtimes, todo, restored, closing, bounds>>

RenameShows(r) ==
    /\ Running(r, "show")
    /\ shown' = IF PetOf[r] \in live THEN [shown EXCEPT ![PetOf[r]] = r] ELSE shown
    /\ Settle(r, "ok")
    /\ UNCHANGED <<records, listed, live, open, todo, restored, closing, bounds>>

-----------------------------------------------------------------------------
\* close(): refuse later changes, wait for the accepted ones, close runtimes.
Close ==
    /\ ~closed
    /\ closed' = TRUE
    /\ closer' = "waiting"
    /\ UNCHANGED <<records, listed, runtimes, jobs, at, todo, restored, bounds>>

CloseTakesNow ==
    /\ closer = "waiting"
    /\ closer' = "closing"
    /\ live' = {}
    /\ UNCHANGED <<records, listed, shown, open, jobs, at, todo, restored,
                   closed, bounds>>

CloseTakes == jobs = <<>> /\ CloseTakesNow

RuntimeCloses ==
    /\ closer = "closing"
    /\ \/ \E p \in Pets : open[p] > 0 /\ open' = [open EXCEPT ![p] = @ - 1]
                          /\ UNCHANGED closer
       \/ (\A p \in Pets : open[p] = 0) /\ closer' = "done" /\ UNCHANGED open
    /\ UNCHANGED <<records, listed, live, shown, jobs, at, todo, restored,
                   closed, bounds>>

\* The process dies; the next one may be configured with other definitions.
Restart ==
    /\ restarts < MaxRestarts
    /\ restarts' = restarts + 1
    /\ listed' \in SUBSET Pets
    /\ live' = {} /\ todo' = {} /\ jobs' = <<>>
    /\ open' = [p \in Pets |-> 0]
    /\ at' = [j \in Jobs |-> IF j = Boot THEN "new"
                             ELSE IF at[j] \in Steps THEN "lost" ELSE at[j]]
    /\ restored' = "none" /\ closed' = FALSE /\ closer' = "none"
    /\ UNCHANGED <<records, shown, faults, lostDeletes>>

-----------------------------------------------------------------------------
Init ==
    /\ rows = {} /\ live = {} /\ todo = {} /\ jobs = <<>>
    /\ listed \in SUBSET Pets
    /\ named = [p \in Pets |-> Boot] /\ shown = [p \in Pets |-> Boot]
    /\ open = [p \in Pets |-> 0]
    /\ at = [j \in Jobs |-> "new"]
    /\ restored = "none" /\ closed = FALSE /\ closer = "none"
    /\ faults = 0 /\ lostDeletes = 0 /\ restarts = 0

CreateStep(r) ==
    CreateBegins(r) \/ CreateRecords(r) \/ CreateAssembles(r) \/ CreateUndoes(r)

JobStep ==
    \/ RestoreBegins
    \/ \E j \in Jobs : ListPets(j) \/ RestorePet(j)
    \/ \E r \in Creates : CreateStep(r)
    \/ \E r \in Requests : RenameRecords(r) \/ RenameShows(r)

CloseStep == CloseTakes \/ RuntimeCloses

Next ==
    \/ \E r \in Requests : Request(r)
    \/ Restore \/ JobStep \/ Close \/ CloseStep \/ Restart

\* Calls to the store and the assembler return; requests, close and crashes
\* are owed by nobody.
Spec == Init /\ [][Next]_vars
FairSpec == Spec /\ WF_vars(JobStep) /\ WF_vars(CloseStep)

-----------------------------------------------------------------------------
\* "Changes run one at a time, so a Pet id is never assembled twice": no Pet
\* has two open runtimes, and Studio serves exactly the Pets whose runtime is
\* open, until close() takes them over (studioPets.ts:65).
AssembledOnce ==
    \A p \in Pets :
        /\ open[p] <= 1
        /\ closer \in {"none", "waiting"} => (p \in live <=> open[p] = 1)

\* The records and the runtimes agree: Studio serves only recorded Pets, and
\* once the Pets are restored it serves every one of them, except the Pet a
\* create() is about to assemble or to delete; unless a deletePet has failed.
RecordsMatchRuntimes ==
    /\ live \subseteq rows
    /\ restored = "done" /\ closer \in {"none", "waiting"} /\ lostDeletes = 0 =>
          \A p \in rows \ live :
              \E r \in Creates : PetOf[r] = p /\ at[r] \in {"build", "delete"}

\* Both: whatever fails or crashes on the way, Studio serves what is recorded,
\* once.
ServedAsRecorded == AssembledOnce /\ RecordsMatchRuntimes

\* A Pet that create() resolved with is recorded for good, and whoever read
\* its name from the live registration reads the recorded name, except while
\* a rename is between its two writes.
CreatedIsKept ==
    /\ \A r \in Creates : at[r] = "ok" => PetOf[r] \in rows
    /\ \A p \in live : shown[p] # named[p] =>
          \E r \in Renames : PetOf[r] = p /\ at[r] = "show"

\* close() leaves no runtime behind, not even one assembled by a change that
\* was accepted before it.
CloseLeavesNothing ==
    /\ closer \in {"closing", "done"} => live = {}
    /\ closer = "done" => \A p \in Pets : open[p] = 0

\* Every accepted change settles (or the process dies), and so does close().
ChangesSettle ==
    /\ \A r \in Requests : (at[r] = "queued") ~> (at[r] \in Ends)
    /\ (closer = "waiting") ~> (closer # "waiting")

\* The same, of a Host that restores the Pets before it takes requests
\* (packages/studio/src/host/buildStudio.ts:311).
RestoredFirst == \A r \in Requests : at[r] = "queued" => restored # "none"
RestoredPetsSettle == []RestoredFirst => ChangesSettle
=============================================================================
