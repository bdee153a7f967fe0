--------------------------- MODULE HostAdmission ---------------------------
(***************************************************************************)
(* Which session commands and which turns of one Host may run together     *)
(* (services/host/src/serverHandlers.ts with session/sessionAdmission.ts,  *)
(* session/sessionCommandQueue.ts and agent/activeRunRegister.ts).         *)
(*                                                                         *)
(* Two promise chains order the work: the commands of the client, and,     *)
(* inside them, the transitions of the session.  What keeps a turn and a   *)
(* transition apart is the order in which the event loop runs callbacks,   *)
(* so the queue of callbacks is part of the state: a callback runs when it *)
(* is the first, and a promise that settles appends the callbacks that     *)
(* wait for it.  A client's request may arrive between any two callbacks.  *)
(***************************************************************************)
EXTENDS Naturals, FiniteSets, Sequences

CONSTANTS
    Messages,       \* human messages, each one turn
    Commands,       \* of the client: each changes the session or only lists
    Snapshots,      \* session.snapshot.get requests
    SessionIds,
    NoRun,
    MaxAttempts     \* reads of one snapshot before it is sent as it is (5)

ASSUME AdmissionAssumption ==
    /\ NoRun \notin Messages
    /\ IsFiniteSet(Messages)
    /\ Messages \cap Commands = {}
    /\ MaxAttempts \in Nat \ {0}

VARIABLES
    at,         \* where each message and each command is
    micro,      \* callbacks ready to run, in order
    chain,      \* the two chains: members, how many settled, who waits for each
    behind,     \* the length of the command chain when a message arrived, until it ends
    seen,       \* the transition tail a message waits for
    activeRuns, \* SessionAdmission.activeRuns
    register,   \* ActiveRunRegister.current
    active,     \* the active session
    version,    \* how many turns have written their last checkpoint
    reading     \* the snapshot reads in progress

admission == <<at, micro, chain, behind, seen>>
sessionVars == <<activeRuns, register, active, version>>
admissionVars == <<admission, sessionVars, reading>>

MessageStates == {"new", "queued", "waiting", "running", "written", "leaving",
                  "done", "gone"}
CommandStates == {"new", "queued", "admitted", "working", "done", "refused"}
Callbacks == [do : {"message", "look", "enter", "leave"}, of : Messages]
             \cup [do : {"start", "check"}, of : Commands]
Chains == {"commands", "transitions"}
ReadStates == [step : {"new", "reading", "sampled", "sending", "sent"},
               before : Messages \cup {NoRun}, sample : Nat, attempt : Nat]

AdmissionTypeOK ==
    /\ \A m \in Messages : at[m] \in MessageStates
    /\ \A c \in Commands : at[c] \in CommandStates
    /\ micro \in Seq(Callbacks)
    /\ chain \in [Chains -> [members : Seq(Commands), settled : Nat,
                             then : Seq(Seq(Callbacks))]]
    /\ behind \in [Messages -> Nat] /\ seen \in [Messages -> Nat]
    /\ activeRuns \in Nat
    /\ register \in Messages \cup {NoRun}
    /\ active \in SessionIds
    /\ version \in Nat
    /\ reading \in [Snapshots -> ReadStates]

-----------------------------------------------------------------------------
\* Promises.

Callback(do, of) == [do |-> do, of |-> of]
LengthOf(k) == Len(chain[k].members)
Members(k) == {chain[k].members[i] : i \in 1 .. LengthOf(k)}

\* The commands that have turned out to change the session.
Transitions == Members("transitions")

\* The first callback, which runs now, and the ones behind it.
Runs(do, of) == micro # <<>> /\ Head(micro) = Callback(do, of)

\* Callback cb waits for the tail of chain k, as `add` members leave it, and
\* runs after `ready`, the callbacks that are ready before it.
Await(k, add, cb, ready) ==
    LET tail == chain[k]
        last == LengthOf(k)
        idle == tail.settled = last
        kept == IF idle THEN tail.then ELSE [tail.then EXCEPT ![last] = Append(@, cb)]
    IN  /\ micro' = IF idle THEN Append(ready, cb) ELSE ready
        /\ chain' = [chain EXCEPT ![k] =
               [members |-> tail.members \o add, settled |-> tail.settled,
                then |-> kept \o [i \in DOMAIN add |-> <<>>]]]

\* The tail behind the next member of chain k settles once that member has
\* ended in one of `outcomes`: the callbacks that wait for it become ready in
\* the order they were registered.
SettleAfter(k, outcomes) ==
    LET n == chain[k].settled + 1
        woken == [chain[k].then EXCEPT ![n] = <<>>]
    IN  /\ n <= LengthOf(k)
        /\ at[chain[k].members[n]] \in outcomes
        /\ chain' = [chain EXCEPT ![k] = [@ EXCEPT !.settled = n, !.then = woken]]
        /\ micro' = micro \o chain[k].then[n]
        /\ UNCHANGED <<at, behind, seen, sessionVars, reading>>

\* Bug: the tail follows the value, so what was refused never settles it.
SettleByValue(k) == SettleAfter(k, {"done"})

\* "The chain must survive a failing transition."
Settle(k) == SettleAfter(k, {"done", "refused"})

-----------------------------------------------------------------------------
\* Commands: runSessionCommand, and transact for those that change a session.

Enqueue(c) ==
    /\ at[c] = "new"
    /\ at' = [at EXCEPT ![c] = "queued"]
    /\ Await("commands", <<c>>, Callback("start", c), micro)
    /\ UNCHANGED <<behind, seen, sessionVars, reading>>

\* A command's turn in the queue: refused during a run, else carried out; one
\* that changes the session goes through the admission first.
StartCommand(c) ==
    /\ Runs("start", c)
    /\ \/ /\ activeRuns > 0
          /\ at' = [at EXCEPT ![c] = "refused"]
          /\ micro' = Tail(micro) /\ UNCHANGED chain
       \/ /\ activeRuns = 0
          /\ at' = [at EXCEPT ![c] = "admitted"]
          /\ Await("transitions", <<c>>, Callback("check", c), Tail(micro))
       \/ /\ activeRuns = 0
          /\ at' = [at EXCEPT ![c] = "working"]
          /\ micro' = Tail(micro) /\ UNCHANGED chain
    /\ UNCHANGED <<behind, seen, sessionVars, reading>>

\* Bug: the admission does not look for a run again.
CheckUnseen(c) ==
    /\ Runs("check", c)
    /\ at' = [at EXCEPT ![c] = "working"]
    /\ micro' = Tail(micro)
    /\ UNCHANGED <<chain, behind, seen, sessionVars, reading>>

\* The transition is at the front of its chain: "a run may have started".
CheckRun(c) ==
    /\ Runs("check", c)
    /\ at' = [at EXCEPT ![c] = IF activeRuns > 0 THEN "refused" ELSE "working"]
    /\ micro' = Tail(micro)
    /\ UNCHANGED <<chain, behind, seen, sessionVars, reading>>

\* The operation resolves or fails; a transition may have changed the session.
EndCommand(c) ==
    /\ at[c] = "working"
    /\ at' = [at EXCEPT ![c] = "done"]
    /\ active' \in IF c \in Transitions THEN SessionIds ELSE {active}
    /\ UNCHANGED <<micro, chain, behind, seen, activeRuns, register, version, reading>>

-----------------------------------------------------------------------------
\* Human messages: admitHumanMessage and runInSession.

\* Bug: a message does not wait for the commands before it.
ArriveAtOnce(m) ==
    /\ at[m] = "new"
    /\ at' = [at EXCEPT ![m] = "queued"]
    /\ behind' = [behind EXCEPT ![m] = LengthOf("commands")]
    /\ micro' = Append(micro, Callback("message", m))
    /\ UNCHANGED <<chain, seen, sessionVars, reading>>

Arrive(m) ==
    /\ at[m] = "new"
    /\ at' = [at EXCEPT ![m] = "queued"]
    /\ behind' = [behind EXCEPT ![m] = LengthOf("commands")]
    /\ Await("commands", <<>>, Callback("message", m), micro)
    /\ UNCHANGED <<seen, sessionVars, reading>>

\* The peer may have disconnected; else wait until no transition is left.
PassCommands(m) ==
    /\ Runs("message", m)
    /\ \/ /\ at' = [at EXCEPT ![m] = "gone"]
          /\ behind' = [behind EXCEPT ![m] = 0]
          /\ micro' = Tail(micro) /\ UNCHANGED <<chain, seen>>
       \/ /\ at' = [at EXCEPT ![m] = "waiting"]
          /\ seen' = [seen EXCEPT ![m] = LengthOf("transitions")]
          /\ Await("transitions", <<>>, Callback("look", m), Tail(micro))
          /\ UNCHANGED behind
    /\ UNCHANGED <<sessionVars, reading>>

\* waitForIdle: wait again if the tail moved; else return, one callback later.
Look(m) ==
    /\ Runs("look", m)
    /\ IF seen[m] # LengthOf("transitions")
       THEN /\ seen' = [seen EXCEPT ![m] = LengthOf("transitions")]
            /\ Await("transitions", <<>>, Callback("look", m), Tail(micro))
       ELSE /\ seen' = [seen EXCEPT ![m] = 0]
            /\ micro' = Append(Tail(micro), Callback("enter", m))
            /\ UNCHANGED chain
    /\ UNCHANGED <<at, behind, sessionVars, reading>>

\* Bug: a claim that is refused still releases the register.
EnterReleasing(m) ==
    /\ Runs("enter", m)
    /\ activeRuns' = activeRuns + 1
    /\ register' = IF register = NoRun THEN m ELSE NoRun
    /\ at' = [at EXCEPT ![m] = IF register = NoRun THEN "running" ELSE "gone"]
    /\ micro' = IF register = NoRun THEN Tail(micro)
                ELSE Append(Tail(micro), Callback("leave", m))
    /\ UNCHANGED <<chain, behind, seen, active, version, reading>>

\* Hold the session, then claim the register.  The message ends here when the
\* peer is gone by now, or when a run has the register and the claim throws.
Enter(m) ==
    /\ Runs("enter", m)
    /\ activeRuns' = activeRuns + 1
    /\ \/ /\ at' = [at EXCEPT ![m] = "gone"]
          /\ micro' = Append(Tail(micro), Callback("leave", m))
          /\ behind' = [behind EXCEPT ![m] = 0]
          /\ UNCHANGED register
       \/ /\ register = NoRun
          /\ at' = [at EXCEPT ![m] = "running"]
          /\ register' = m
          /\ micro' = Tail(micro)
          /\ UNCHANGED behind
    /\ UNCHANGED <<chain, seen, active, version, reading>>

\* The last checkpoint the turn writes, some callbacks before it settles.
WriteCheckpoint(m) ==
    /\ at[m] = "running"
    /\ at' = [at EXCEPT ![m] = "written"]
    /\ version' = version + 1
    /\ UNCHANGED <<micro, chain, behind, seen, activeRuns, register, active, reading>>

\* The turn settles; one that failed may have moved the client to a fresh
\* session.  The hold is released one callback later.
EndRun(m) ==
    /\ at[m] = "written"
    /\ at' = [at EXCEPT ![m] = "leaving"]
    /\ register' = NoRun
    /\ active' \in SessionIds
    /\ micro' = Append(micro, Callback("leave", m))
    /\ behind' = [behind EXCEPT ![m] = 0]
    /\ UNCHANGED <<chain, seen, activeRuns, version, reading>>

Leave(m) ==
    /\ Runs("leave", m)
    /\ activeRuns' = activeRuns - 1
    /\ at' = [at EXCEPT ![m] = IF @ = "leaving" THEN "done" ELSE @]
    /\ micro' = Tail(micro)
    /\ UNCHANGED <<chain, behind, seen, register, active, version, reading>>

\* onNewSession creates a session outside the queue and the admission.
NewSession ==
    /\ active' \in SessionIds \ {active}
    /\ UNCHANGED <<admission, activeRuns, register, version, reading>>

-----------------------------------------------------------------------------
\* session.snapshot.get: readCheckpointAtRun, then the register once more.

NoRead(step) == [step |-> step, before |-> NoRun, sample |-> 0, attempt |-> 0]

ReadStep(s, from, to) ==
    /\ reading[s].step = from
    /\ reading' = [reading EXCEPT ![s] = to]
    /\ UNCHANGED <<admission, sessionVars>>

ReadBegins(s) ==
    ReadStep(s, "new", [reading[s] EXCEPT !.step = "reading", !.before = register,
                                          !.attempt = @ + 1])

ReadSamples(s) ==
    ReadStep(s, "reading", [reading[s] EXCEPT !.step = "sampled", !.sample = version])

\* Bug: the register is not compared.
ReadReturnsOnce(s) ==
    ReadStep(s, "sampled", [reading[s] EXCEPT !.step = "sending"])

\* The register is compared; unless it moved, the snapshot is built one
\* callback later.
ReadReturns(s) ==
    ReadStep(s, "sampled",
        IF register = reading[s].before \/ reading[s].attempt >= MaxAttempts
        THEN [reading[s] EXCEPT !.step = "sending"]
        ELSE [reading[s] EXCEPT !.step = "reading", !.before = register,
                                !.attempt = @ + 1])

SendSnapshot(s) == ReadStep(s, "sending", NoRead("sent"))

-----------------------------------------------------------------------------
EmptyChain == [members |-> <<>>, settled |-> 0, then |-> <<>>]

AdmissionInit ==
    /\ at = [x \in Messages \cup Commands |-> "new"]
    /\ micro = <<>>
    /\ chain = [k \in Chains |-> EmptyChain]
    /\ behind = [m \in Messages |-> 0] /\ seen = [m \in Messages |-> 0]
    /\ activeRuns = 0 /\ register = NoRun /\ version = 0
    /\ active \in SessionIds
    /\ reading = [s \in Snapshots |-> NoRead("new")]

MicroStep ==
    \/ \E c \in Commands : StartCommand(c) \/ CheckRun(c)
    \/ \E m \in Messages : PassCommands(m) \/ Look(m) \/ Enter(m) \/ Leave(m)

SettleStep == \E k \in Chains : Settle(k)
WorkStep(x) ==
    (x \in Commands /\ EndCommand(x)) \/ (x \in Messages /\ (WriteCheckpoint(x) \/ EndRun(x)))
\* The event loop runs its callbacks, and operations and turns end.
LoopStep == MicroStep \/ SettleStep \/ \E x \in Commands \cup Messages : WorkStep(x)

SnapshotStep ==
    \E s \in Snapshots : ReadSamples(s) \/ ReadReturns(s) \/ SendSnapshot(s)

AdmissionNext ==
    \/ \E c \in Commands : Enqueue(c)
    \/ \E m \in Messages : Arrive(m)
    \/ NewSession \/ LoopStep \/ SnapshotStep
    \/ \E s \in Snapshots : ReadBegins(s)

AdmissionSpec == AdmissionInit /\ [][AdmissionNext]_admissionVars
FairAdmissionSpec == AdmissionSpec /\ WF_admissionVars(LoopStep)

-----------------------------------------------------------------------------
\* The gate of ExecutionGate with the transitions as its exclusive work and
\* the turns as the work that may go together.
Changing == {c \in Transitions : at[c] = "working"}
Changed == {c \in Transitions : at[c] \in {"working", "done"}}
Turning == {m \in Messages : at[m] \in {"running", "written"}}
Ended == {m \in Messages : at[m] \in {"leaving", "done"}}

SessionGate == INSTANCE ExecutionGate WITH
            Dispatches <- Commands, Conversations <- Messages,
            started <- Changed, executing <- Changing,
            asking <- {}, talking <- Turning

\* "a session transition and a chat run never overlap; transitions never
\* overlap each other": the admission is that gate (sessionAdmission.ts:9-10).
ImplementsSessionGate == SessionGate!GateSpec

\* The run counter and the register tell the truth: the counter holds every
\* message between its admission and its release, the register names the one
\* turn that runs, so two turns never run together.
RegisterIsTheRun ==
    /\ \A m \in Messages : m \in Turning <=> register = m
    /\ Cardinality({m \in Messages : at[m] \in {"running", "written", "leaving"}}) <= activeRuns
    /\ activeRuns = 0 => register = NoRun

\* The same, with every variable in its type: a message that leaves gives back
\* what it took and nothing else, on every way out of admitHumanMessage.
StateIsSound == AdmissionTypeOK /\ RegisterIsTheRun

\* A turn begins only when every command that was queued before its message
\* has ended: "it runs against settled session state".
TurnsFollowTheirCommands ==
    \A m \in Messages : at[m] \in {"waiting", "running", "written"} =>
        \A i \in 1..behind[m] : at[chain["commands"].members[i]] \in {"done", "refused"}

\* A command works only when every earlier command has ended, so a listing is
\* not "read halfway through a `/new`" (sessionCommandQueue.ts:14-15).
CommandsInOrder ==
    \A i, j \in DOMAIN chain["commands"].members :
        i < j /\ at[chain["commands"].members[j]] # "queued" =>
            at[chain["commands"].members[i]] \in {"done", "refused"}

\* Both: neither a turn nor a command overtakes a command that came first,
\* whatever is queued between two callbacks.
QueuesKeepTheirOrder == TurnsFollowTheirCommands /\ CommandsInOrder

\* The active session does not change under a turn, neither by a command that
\* was queued before it nor by one that passes it; only onNewSession, which is
\* outside the queues, does it before its end ("which cannot change while it
\* runs: session commands are refused mid-run", serverHandlers.ts:642-643).
OnlyNewSessionMovesATurn ==
    [][Turning \cap Turning' # {} /\ active' # active => NewSession]_admissionVars

\* What the second look at the register buys: a checkpoint that is accepted
\* while a turn runs holds what every turn before it wrote ("When the register
\* changed during the read, read again", serverHandlers.ts:211-212).
CheckpointsUnderARunAreCurrent ==
    [][\A s \in Snapshots :
          (reading[s].step = "sampled" /\ reading'[s].step = "sending"
           /\ register # NoRun /\ reading[s].attempt < MaxAttempts)
          => reading[s].sample >= Cardinality(Ended)]_admissionVars

\* Both: what a turn relies on and what a client is shown of it are settled
\* for as long as the turn runs.
StateUnderARunIsSettled == OnlyNewSessionMovesATurn /\ CheckpointsUnderARunAreCurrent

\* Every message and every command that arrived ends, and what it held of the
\* session is given back, refused and failing ones included.
Pending ==
    \/ activeRuns > 0
    \/ \E c \in Commands : at[c] \notin {"new", "done", "refused"}
    \/ \E m \in Messages : at[m] \notin {"new", "done", "gone"}

RequestsEnd == Pending ~> ~Pending

=============================================================================
