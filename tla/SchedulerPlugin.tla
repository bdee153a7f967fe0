-------------------------- MODULE SchedulerPlugin --------------------------
(***************************************************************************)
(* The Scheduler Plugin (plugins/scheduler/src/schedulerService.ts and     *)
(* schedulerPlugin.ts): durable schedule rows and the poll loop that       *)
(* claims a due one, sends it through the Channel Plugin and records what  *)
(* became of it.  Several Studios may share one database; a Studio may     *)
(* stop, or crash, between any two steps.  A transaction is one step and   *)
(* every await is a boundary between two.                                  *)
(***************************************************************************)
EXTENDS Naturals, FiniteSets

CONSTANTS
    Schedules, Studios,
    NoSchedule,
    MaxStarts,      \* bound: how often a Studio is started
    MaxFaults       \* bound: how many calls of the store fail

ASSUME SchedulerAssumption ==
    NoSchedule \notin Schedules /\ MaxStarts \in Nat /\ MaxFaults \in Nat

VARIABLES
    status, note,   \* the rows: status, and why a schedule failed
    sent,           \* how many dispatches of a schedule a Pet has accepted
    host,           \* how far each Studio has come
    activated,      \* its Scheduler saw plugins.activated
    poll,           \* its poll: the await it is at and the schedule in hand
    listed,         \* the rows its recovery has still to go through
    starts, faults

rows == <<status, note>>
vars == <<rows, sent, host, activated, poll, listed, starts, faults>>

Statuses == {"none", "scheduled", "dispatching", "dispatched", "failed", "cancelled"}
Settled == {"dispatched", "failed", "cancelled"}
Notes == {"none", "refused", "shut down", "outcome unknown"}
\* "stopping": studio.stopped is set, the Scheduler still polls; "draining":
\* Scheduler.stop() has cleared the timers and awaits the poll.
Hosts == {"down", "recovering", "open", "stopping", "draining"}
PollSteps == {"idle", "list", "claim", "send", "admit", "mark", "fail"}
Poll(step, of) == [step |-> step, of |-> of, why |-> "none"]
Idle == Poll("idle", NoSchedule)

TypeOK ==
    /\ status \in [Schedules -> Statuses] /\ note \in [Schedules -> Notes]
    /\ sent \in [Schedules -> Nat]
    /\ host \in [Studios -> Hosts] /\ activated \in [Studios -> BOOLEAN]
    /\ poll \in [Studios -> [step : PollSteps, of : Schedules \cup {NoSchedule}, why : Notes]]
    /\ \A u \in Studios : poll[u].of = NoSchedule <=> poll[u].step \in {"idle", "list"}
    /\ listed \in [Studios -> SUBSET Schedules]
    /\ starts \in [Studios -> Nat] /\ faults \in Nat

-----------------------------------------------------------------------------
\* The rows: a transition that finds another status changes nothing.

Transition(s, from, to, why) ==
    IF status[s] = from
    THEN status' = [status EXCEPT ![s] = to] /\ note' = [note EXCEPT ![s] = why]
    ELSE UNCHANGED rows

Running(u) == host[u] \in {"open", "stopping", "draining"}
Clients == <<sent, host, activated, poll, listed, starts, faults>>

Create(u, s) ==
    /\ Running(u) /\ status[s] = "none"
    /\ status' = [status EXCEPT ![s] = "scheduled"]
    /\ UNCHANGED <<note, Clients>>

\* Bug: a schedule that is being sent can be cancelled.
CancelLate(u, s) ==
    /\ Running(u) /\ status[s] \in {"scheduled", "dispatching"}
    /\ Transition(s, status[s], "cancelled", "none")
    /\ UNCHANGED Clients

Cancel(u, s) ==
    /\ Running(u) /\ status[s] = "scheduled"
    /\ Transition(s, "scheduled", "cancelled", "none")
    /\ UNCHANGED Clients

-----------------------------------------------------------------------------
\* poll: list, claim, send, record; one at a time in each Studio.

\* The timer, a created schedule, or the activation.
PollBegins(u) ==
    /\ host[u] \in {"open", "stopping"} /\ activated[u] /\ poll[u] = Idle
    /\ poll' = [poll EXCEPT ![u] = Poll("list", NoSchedule)]
    /\ UNCHANGED <<rows, sent, host, activated, listed, starts, faults>>

\* The earliest due schedule, any of the waiting ones; without one the poll ends.
ListDue(u) ==
    /\ poll[u].step = "list"
    /\ LET due == {s \in Schedules : status[s] = "scheduled"}
       IN  \/ \E s \in due : poll' = [poll EXCEPT ![u] = Poll("claim", s)]
           \/ due = {} /\ poll' = [poll EXCEPT ![u] = Idle]
    /\ UNCHANGED <<rows, sent, host, activated, listed, starts, faults>>

\* Bug: the row is updated without comparing its status.
ClaimUnseen(u) ==
    LET s == poll[u].of IN
    /\ poll[u].step = "claim"
    /\ poll' = [poll EXCEPT ![u] = Poll("send", s)]
    /\ status' = [status EXCEPT ![s] = "dispatching"]
    /\ UNCHANGED <<note, sent, host, activated, listed, starts, faults>>

\* "Another Studio on the same database may claim it first; then the next one
\* is tried."  The store may fail, before the commit or when the row is read
\* again after it; the poll is then over.
Claim(u) ==
    LET s == poll[u].of IN
    /\ poll[u].step = "claim"
    /\ \/ /\ Transition(s, "scheduled", "dispatching", "none")
          /\ poll' = [poll EXCEPT ![u] =
                IF status[s] = "scheduled" THEN Poll("send", s) ELSE Poll("list", NoSchedule)]
          /\ UNCHANGED faults
       \/ /\ faults < MaxFaults /\ faults' = faults + 1
          /\ poll' = [poll EXCEPT ![u] = Idle]
          /\ UNCHANGED rows \/ Transition(s, "scheduled", "dispatching", "none")
    /\ UNCHANGED <<sent, host, activated, listed, starts>>

\* An error in the hands of the loop, which records it next.
Throws(u, why) ==
    poll' = [poll EXCEPT ![u] = [step |-> "fail", of |-> poll[u].of, why |-> why]]

\* studio.dispatch refuses once `stopped` is set; a Channel may refuse too.
Send(u) ==
    /\ poll[u].step = "send"
    /\ \/ host[u] = "open" /\ poll' = [poll EXCEPT ![u].step = "admit"]
       \/ Throws(u, IF host[u] = "open" THEN "refused" ELSE "shut down")
    /\ UNCHANGED <<rows, sent, host, activated, listed, starts, faults>>

\* The Pet refuses the dispatch; or it accepts, and the receipt comes back or is
\* lost to a failing confirmSession.
Admit(u) ==
    /\ poll[u].step = "admit"
    /\ \/ Throws(u, "refused") /\ UNCHANGED <<sent, faults>>
       \/ /\ sent' = [sent EXCEPT ![poll[u].of] = @ + 1]
          /\ \/ poll' = [poll EXCEPT ![u].step = "mark"] /\ UNCHANGED faults
             \/ faults < MaxFaults /\ faults' = faults + 1 /\ Throws(u, "refused")
    /\ UNCHANGED <<rows, host, activated, listed, starts>>

\* markDispatched throws if the row moved or the store fails, before its commit
\* or after it; the loop then tries to record a failure.
Mark(u) ==
    LET s == poll[u].of IN
    /\ poll[u].step = "mark"
    /\ \/ /\ status[s] = "dispatching" /\ Transition(s, "dispatching", "dispatched", "none")
          /\ poll' = [poll EXCEPT ![u] = Poll("list", NoSchedule)]
          /\ UNCHANGED faults
       \/ /\ status[s] # "dispatching" /\ Throws(u, "refused")
          /\ UNCHANGED <<rows, faults>>
       \/ /\ faults < MaxFaults /\ faults' = faults + 1 /\ Throws(u, "refused")
          /\ UNCHANGED rows \/ Transition(s, "dispatching", "dispatched", "none")
    /\ UNCHANGED <<sent, host, activated, listed, starts>>

\* Bug: an error of the dispatch is logged and the row is left as it is.
FailForgets(u) ==
    /\ poll[u].step = "fail"
    /\ poll' = [poll EXCEPT ![u] = Poll("list", NoSchedule)]
    /\ UNCHANGED <<rows, sent, host, activated, listed, starts, faults>>

\* fail: recorded, and the loop goes on; if it throws, the poll ends.
Fail(u) ==
    LET s == poll[u].of IN
    /\ poll[u].step = "fail"
    /\ \/ /\ Transition(s, "dispatching", "failed", poll[u].why)
          /\ poll' = [poll EXCEPT ![u] =
                IF status[s] = "dispatching" THEN Poll("list", NoSchedule) ELSE Idle]
          /\ UNCHANGED faults
       \/ /\ faults < MaxFaults /\ faults' = faults + 1
          /\ poll' = [poll EXCEPT ![u] = Idle]
          /\ UNCHANGED rows \/ Transition(s, "dispatching", "failed", poll[u].why)
    /\ UNCHANGED <<sent, host, activated, listed, starts>>

PollStep(u) ==
    PollBegins(u) \/ ListDue(u) \/ Claim(u) \/ Send(u) \/ Admit(u) \/ Mark(u) \/ Fail(u)

-----------------------------------------------------------------------------
\* A Studio's life.

\* start(): recoverInterrupted lists the rows that are dispatching.
Start(u) ==
    /\ host[u] = "down" /\ starts[u] < MaxStarts
    /\ host' = [host EXCEPT ![u] = "recovering"]
    /\ starts' = [starts EXCEPT ![u] = @ + 1]
    /\ listed' = [listed EXCEPT ![u] = {s \in Schedules : status[s] = "dispatching"}]
    /\ UNCHANGED <<rows, sent, activated, poll, faults>>

\* Bug: an interrupted schedule is scheduled again.
RecoverAgain(u, s) ==
    /\ host[u] = "recovering" /\ s \in listed[u]
    /\ listed' = [listed EXCEPT ![u] = @ \ {s}]
    /\ Transition(s, "dispatching", "scheduled", "none")
    /\ UNCHANGED <<sent, host, activated, poll, starts, faults>>

\* "It is marked failed rather than run twice."
Recover(u, s) ==
    /\ host[u] = "recovering" /\ s \in listed[u]
    /\ listed' = [listed EXCEPT ![u] = @ \ {s}]
    /\ Transition(s, "dispatching", "failed", "outcome unknown")
    /\ UNCHANGED <<sent, host, activated, poll, starts, faults>>

Open(u) ==
    /\ host[u] = "recovering" /\ listed[u] = {}
    /\ host' = [host EXCEPT ![u] = "open"]
    /\ UNCHANGED <<rows, sent, activated, poll, listed, starts, faults>>

\* plugins.activated; it is published even if the last start saw a shutdown.
Activate(u) ==
    /\ host[u] \in {"open", "stopping"} /\ ~activated[u]
    /\ activated' = [activated EXCEPT ![u] = TRUE]
    /\ UNCHANGED <<rows, sent, host, poll, listed, starts, faults>>

\* Bound: the last start of a Studio stays up.
MayEnd(u) == starts[u] < MaxStarts

\* studio.shutdown: `stopped` is set; the Plugins are stopped one after another.
Shutdown(u) ==
    /\ host[u] = "open" /\ MayEnd(u)
    /\ host' = [host EXCEPT ![u] = "stopping"]
    /\ UNCHANGED <<rows, sent, activated, poll, listed, starts, faults>>

StopBegins(u) ==
    /\ host[u] = "stopping"
    /\ host' = [host EXCEPT ![u] = "draining"]
    /\ UNCHANGED <<rows, sent, activated, poll, listed, starts, faults>>

StopEnds(u) ==
    /\ host[u] = "draining" /\ poll[u] = Idle
    /\ host' = [host EXCEPT ![u] = "down"]
    /\ activated' = [activated EXCEPT ![u] = FALSE]
    /\ UNCHANGED <<rows, sent, poll, listed, starts, faults>>

\* The process ends between any two steps: its poll and its recovery with it.
Crash(u) ==
    /\ host[u] # "down" /\ MayEnd(u)
    /\ host' = [host EXCEPT ![u] = "down"]
    /\ activated' = [activated EXCEPT ![u] = FALSE]
    /\ poll' = [poll EXCEPT ![u] = Idle]
    /\ listed' = [listed EXCEPT ![u] = {}]
    /\ UNCHANGED <<rows, sent, starts, faults>>

RecoverStep(u) == \E s \in Schedules : Recover(u, s)

-----------------------------------------------------------------------------
Init ==
    /\ status = [s \in Schedules |-> "none"] /\ note = [s \in Schedules |-> "none"]
    /\ sent = [s \in Schedules |-> 0]
    /\ host = [u \in Studios |-> "down"] /\ activated = [u \in Studios |-> FALSE]
    /\ poll = [u \in Studios |-> Idle]
    /\ listed = [u \in Studios |-> {}]
    /\ starts = [u \in Studios |-> 0] /\ faults = 0

Next ==
    \E u \in Studios :
        \/ \E s \in Schedules : Create(u, s) \/ Cancel(u, s)
        \/ PollStep(u) \/ RecoverStep(u)
        \/ Start(u) \/ Open(u) \/ Activate(u)
        \/ Shutdown(u) \/ StopBegins(u) \/ StopEnds(u) \/ Crash(u)

\* The timer fires, calls of the store and of a Pet return, a Studio that is
\* down is started again until it stays up.
Fairness ==
    \A u \in Studios :
        /\ WF_vars(PollStep(u)) /\ WF_vars(RecoverStep(u))
        /\ WF_vars(Start(u)) /\ WF_vars(Open(u)) /\ WF_vars(Activate(u))
        /\ WF_vars(StopBegins(u)) /\ WF_vars(StopEnds(u))

Spec == Init /\ [][Next]_vars
FairSpec == Spec /\ Fairness

-----------------------------------------------------------------------------
\* No schedule reaches its Pet twice, whatever crashes, stops and other Studios
\* do between a claim and its record: "two Studios on one database claim a due
\* schedule once", "recovered as failed, not run again".
NeverSentTwice == \A s \in Schedules : sent[s] <= 1

\* The row tells the truth: a schedule recorded as dispatched reached its Pet,
\* and one that is still scheduled, was cancelled or was refused by a shutdown
\* did not and never will.
RowsTellTheTruth ==
    \A s \in Schedules :
        /\ status[s] = "dispatched" => sent[s] = 1
        /\ (status[s] \in {"scheduled", "cancelled"} \/ note[s] = "shut down") => sent[s] = 0

\* Every schedule that is waiting or was claimed is settled in the end, unless
\* calls of the store fail.
SchedulesSettle ==
    [](faults = 0) =>
        \A s \in Schedules :
            (status[s] \in {"scheduled", "dispatching"}) ~> (status[s] \in Settled)

=============================================================================
