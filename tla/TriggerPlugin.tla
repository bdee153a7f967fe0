--------------------------- MODULE TriggerPlugin ---------------------------
(***************************************************************************)
(* The Trigger Plugin (plugins/trigger/src/triggerService.ts and           *)
(* triggerPlugin.ts) and the idempotent admission of Studio dispatch it    *)
(* relies on (packages/studio/src/createStudio.ts): a delivery is claimed  *)
(* once per key, sent to a Pet and accepted or failed; an operator may     *)
(* retry a failed one or redeliver an accepted one.  Requests are handled  *)
(* concurrently, Studio events one after another; several Studios share    *)
(* the database and each may stop or crash between any two steps.  A       *)
(* transaction is one step and every await is a boundary between two.      *)
(***************************************************************************)
EXTENDS Naturals, FiniteSets

CONSTANTS
    Keys,           \* the idempotency keys that are delivered from outside
    Deliveries,     \* the delivery ids, taken as rows are inserted
    Studios, Handlers,
    Events,         \* the handler of a Studio's event subscription
    NoKey, NoDelivery,
    MaxAsks,        \* bound: how often a delivery is claimed or retried
    MaxStarts,      \* bound: how often each Studio is started
    MaxFaults       \* bound: how many calls of the store or the Channel fail

ASSUME TriggerAssumption ==
    /\ IsFiniteSet(Studios) /\ IsFiniteSet(Handlers)
    /\ Events \in Handlers /\ Keys \cap Deliveries = {}
    /\ NoKey \notin Keys \cup Deliveries /\ NoDelivery \notin Deliveries
    /\ MaxAsks \in Nat /\ MaxStarts \in [Studios -> Nat] /\ MaxFaults \in Nat

VARIABLES
    status, keyOf,  \* the rows of the database
    asked,          \* how often a delivery was claimed or retried
    sent,           \* how many dispatches of a delivery a Pet has accepted
    host,           \* how far each Studio has come
    flow,           \* where each handler is, with the delivery in hand
    record,         \* Studio's idempotency records, lost with the process
    here,           \* how many of the accepted dispatches this process made
    listed,         \* the rows a recovery has still to go through
    starts, faults

rows == <<status, keyOf, asked>>
pets == <<sent, record, here>>
life == <<host, listed, starts>>
vars == <<rows, pets, life, flow, faults>>

Statuses == {"none", "dispatching", "accepted", "failed"}
\* "stopping": studio.stopped is set; "stopped": the Plugin has unsubscribed,
\* the handlers it had begun go on.
Hosts == {"down", "subscribed", "recovering", "open", "stopping", "stopped"}
FlowSteps == {"idle", "find", "insert", "send", "admit", "share", "accept", "fail"}
Flow(step, key, of) == [step |-> step, key |-> key, of |-> of]
Idle == Flow("idle", NoKey, NoDelivery)

Rows == {i \in Deliveries : status[i] # "none"}
HasRow(k) == \E i \in Rows : keyOf[i] = k

\* A handler holds a delivery from the claim on, and only one that has a row;
\* a reserved admission is under way in a handler of its Studio.
TypeOK ==
    /\ status \in [Deliveries -> Statuses]
    /\ keyOf \in [Deliveries -> Keys \cup Deliveries \cup {NoKey}]
    /\ \A i \in Deliveries : (i \in Rows <=> keyOf[i] # NoKey) /\ (i \in Rows <=> asked[i] # 0)
    /\ asked \in [Deliveries -> Nat] /\ sent \in [Deliveries -> Nat]
    /\ host \in [Studios -> Hosts]
    /\ flow \in [Studios -> [Handlers ->
          [step : FlowSteps, key : Keys \cup {NoKey}, of : Deliveries \cup {NoDelivery}]]]
    /\ \A u \in Studios, h \in Handlers :
          IF flow[u][h].step \in {"idle", "find", "insert"}
          THEN flow[u][h].of = NoDelivery ELSE flow[u][h].of \in Rows
    /\ record \in [Studios -> [Deliveries -> {"none", "pending", "done"}]]
    /\ here \in [Studios -> [Deliveries -> Nat]]
    /\ listed \in [Studios -> SUBSET Deliveries]
    /\ starts \in [Studios -> Nat] /\ faults \in Nat

-----------------------------------------------------------------------------
\* TriggerService: claims, transitions, retry and redelivery.

At(u, h, step) == flow[u][h].step = step
Goes(u, h, to) == flow' = [flow EXCEPT ![u][h] = to]
GoesOn(u, h, step) == flow' = [flow EXCEPT ![u][h].step = step]
Fault == faults < MaxFaults /\ faults' = faults + 1

Transition(i, from, to) ==
    /\ status' = IF status[i] = from THEN [status EXCEPT ![i] = to] ELSE status
    /\ UNCHANGED <<keyOf, asked>>

\* The row of a fresh delivery, claimed with it.
InsertRow(i, key) ==
    /\ i \notin Rows
    /\ status' = [status EXCEPT ![i] = "dispatching"]
    /\ keyOf' = [keyOf EXCEPT ![i] = key]
    /\ asked' = [asked EXCEPT ![i] = 1]

\* An event is handled from the subscription on, requests once the routes are
\* registered.
Receives(u, h) ==
    /\ At(u, h, "idle")
    /\ \/ h = Events /\ host[u] \in {"subscribed", "recovering", "open", "stopping"}
       \/ h # Events /\ host[u] \in {"open", "stopping"}

Receive(u, h, k) ==
    /\ Receives(u, h)
    /\ Goes(u, h, Flow("find", k, NoDelivery))
    /\ UNCHANGED <<rows, pets, life, faults>>

\* findDelivery: a repeat is answered with the row there is.
Find(u, h) ==
    /\ At(u, h, "find")
    /\ \/ ~HasRow(flow[u][h].key) /\ GoesOn(u, h, "insert") /\ UNCHANGED faults
       \/ HasRow(flow[u][h].key) /\ Goes(u, h, Idle) /\ UNCHANGED faults
       \/ Fault /\ Goes(u, h, Idle)
    /\ UNCHANGED <<rows, pets, life>>

\* The insert does nothing on a conflict: "Another claim for the same key
\* committed first."
Insert(u, h) ==
    /\ At(u, h, "insert")
    /\ \/ /\ ~HasRow(flow[u][h].key)
          /\ \E i \in Deliveries : /\ InsertRow(i, flow[u][h].key)
                                   /\ Goes(u, h, Flow("send", NoKey, i))
          /\ UNCHANGED faults
       \/ HasRow(flow[u][h].key) /\ Goes(u, h, Idle) /\ UNCHANGED <<rows, faults>>
       \/ Fault /\ Goes(u, h, Idle) /\ UNCHANGED rows
    /\ UNCHANGED <<pets, life>>

\* An operator's retry of a failed delivery; the store may fail after the
\* commit, and the request is refused.
Retry(u, h, i) ==
    /\ Receives(u, h) /\ h # Events
    /\ status[i] = "failed" /\ asked[i] < MaxAsks
    /\ status' = [status EXCEPT ![i] = "dispatching"]
    /\ asked' = [asked EXCEPT ![i] = @ + 1]
    /\ \/ Goes(u, h, Flow("send", NoKey, i)) /\ UNCHANGED faults
       \/ Fault /\ UNCHANGED flow
    /\ UNCHANGED <<keyOf, pets, life>>

\* A fresh delivery, under a key of its own, for one that was accepted.
\* Bound: ids are left for the keys that have not been received.
Redeliver(u, h, i) ==
    /\ Receives(u, h) /\ h # Events
    /\ status[i] = "accepted"
    /\ Cardinality(Deliveries \ Rows) > Cardinality({k \in Keys : ~HasRow(k)})
    /\ \E j \in Deliveries : InsertRow(j, j) /\ Goes(u, h, Flow("send", NoKey, j))
    /\ UNCHANGED <<pets, life, faults>>

-----------------------------------------------------------------------------
\* send: the Channel, and Studio dispatch under the key `trigger:<id>`.

\* The Channel refuses, or Studio does because it is stopped; else the record
\* of the key is shared, or a new one is reserved in the same step.
Send(u, h) ==
    LET i == flow[u][h].of IN
    /\ At(u, h, "send")
    /\ \/ GoesOn(u, h, "fail") /\ UNCHANGED record
       \/ /\ host[u] \notin {"stopping", "stopped"}
          /\ \/ /\ record[u][i] = "none" /\ GoesOn(u, h, "admit")
                /\ record' = [record EXCEPT ![u][i] = "pending"]
             \/ record[u][i] = "pending" /\ GoesOn(u, h, "share") /\ UNCHANGED record
             \/ record[u][i] = "done" /\ GoesOn(u, h, "accept") /\ UNCHANGED record
    /\ UNCHANGED <<rows, sent, here, life, faults>>

\* The answer of an admission goes to everyone who shares it.
Answer(u, h, to) ==
    LET i == flow[u][h].of
        sharing == {g \in Handlers : At(u, g, "share") /\ flow[u][g].of = i}
    IN  flow' = [flow EXCEPT ![u] = [g \in Handlers |->
                    IF g = h \/ g \in sharing THEN Flow(to, NoKey, i) ELSE flow[u][g]]]

PetAccepts(u, i) ==
    /\ sent' = [sent EXCEPT ![i] = @ + 1]
    /\ here' = [here EXCEPT ![u][i] = @ + 1]

\* Bug: the record is released when the admission has ended, however it ended.
AdmitReleases(u, h) ==
    LET i == flow[u][h].of IN
    /\ At(u, h, "admit")
    /\ record' = [record EXCEPT ![u][i] = "none"]
    /\ \/ PetAccepts(u, i) /\ Answer(u, h, "accept")
       \/ UNCHANGED <<sent, here>> /\ Answer(u, h, "fail")
    /\ UNCHANGED <<rows, life, faults>>

\* Bug: those who share an admission are not told of its failure.
AdmitForgets(u, h) ==
    LET i == flow[u][h].of IN
    /\ At(u, h, "admit")
    /\ \/ /\ PetAccepts(u, i) /\ Answer(u, h, "accept")
          /\ record' = [record EXCEPT ![u][i] = "done"]
       \/ /\ UNCHANGED <<sent, here, record>> /\ GoesOn(u, h, "fail")
    /\ UNCHANGED <<rows, life, faults>>

\* The Pet accepts and the record stays, or refuses and it is released; after
\* the event bus is closed notify throws although the Pet has accepted.
Admit(u, h) ==
    LET i == flow[u][h].of IN
    /\ At(u, h, "admit")
    /\ \/ /\ PetAccepts(u, i) /\ Answer(u, h, "accept")
          /\ record' = [record EXCEPT ![u][i] = "done"]
       \/ /\ host[u] = "stopped"
          /\ PetAccepts(u, i) /\ Answer(u, h, "fail")
          /\ record' = [record EXCEPT ![u][i] = "none"]
       \/ /\ UNCHANGED <<sent, here>> /\ Answer(u, h, "fail")
          /\ record' = [record EXCEPT ![u][i] = "none"]
    /\ UNCHANGED <<rows, life, faults>>

\* accept throws if the row has moved, or if confirmSession or the store fails,
\* before its commit or after it; the error is caught and a failure recorded.
Accept(u, h) ==
    LET i == flow[u][h].of IN
    /\ At(u, h, "accept")
    /\ \/ /\ status[i] = "dispatching" /\ Transition(i, "dispatching", "accepted")
          /\ Goes(u, h, Idle) /\ UNCHANGED faults
       \/ /\ status[i] # "dispatching" /\ GoesOn(u, h, "fail")
          /\ UNCHANGED <<rows, faults>>
       \/ /\ Fault /\ GoesOn(u, h, "fail")
          /\ UNCHANGED rows \/ Transition(i, "dispatching", "accepted")
    /\ UNCHANGED <<pets, life>>

\* fail, whose own error ends the request.
Fail(u, h) ==
    LET i == flow[u][h].of IN
    /\ At(u, h, "fail")
    /\ Goes(u, h, Idle)
    /\ \/ Transition(i, "dispatching", "failed") /\ UNCHANGED faults
       \/ Fault /\ (UNCHANGED rows \/ Transition(i, "dispatching", "failed"))
    /\ UNCHANGED <<pets, life>>

FlowStep(u, h) ==
    Find(u, h) \/ Insert(u, h) \/ Send(u, h) \/ Admit(u, h) \/ Accept(u, h) \/ Fail(u, h)

-----------------------------------------------------------------------------
\* A Studio's life.

\* start() subscribes to the Studio's events, then awaits the recovery.
Start(u) ==
    /\ host[u] = "down" /\ starts[u] < MaxStarts[u]
    /\ host' = [host EXCEPT ![u] = "subscribed"]
    /\ starts' = [starts EXCEPT ![u] = @ + 1]
    /\ UNCHANGED <<rows, pets, listed, flow, faults>>

List(u) ==
    /\ host[u] = "subscribed"
    /\ host' = [host EXCEPT ![u] = "recovering"]
    /\ listed' = [listed EXCEPT ![u] = {i \in Deliveries : status[i] = "dispatching"}]
    /\ UNCHANGED <<rows, pets, starts, flow, faults>>

Recover(u, i) ==
    /\ host[u] = "recovering" /\ i \in listed[u]
    /\ listed' = [listed EXCEPT ![u] = @ \ {i}]
    /\ Transition(i, "dispatching", "failed")
    /\ UNCHANGED <<pets, host, starts, flow, faults>>

\* The routes are registered.
Open(u) ==
    /\ host[u] = "recovering" /\ listed[u] = {}
    /\ host' = [host EXCEPT ![u] = "open"]
    /\ UNCHANGED <<rows, pets, listed, starts, flow, faults>>

\* Bound: the last start of a Studio stays up.
MayEnd(u) == starts[u] < MaxStarts[u]

Shutdown(u) ==
    /\ host[u] = "open" /\ MayEnd(u)
    /\ host' = [host EXCEPT ![u] = "stopping"]
    /\ UNCHANGED <<rows, pets, listed, starts, flow, faults>>

\* stop() does not wait for the handlers.
Stop(u) ==
    /\ host[u] = "stopping"
    /\ host' = [host EXCEPT ![u] = "stopped"]
    /\ UNCHANGED <<rows, pets, listed, starts, flow, faults>>

\* The process ends and takes its handlers and its records with it.
Ends(u) ==
    /\ host' = [host EXCEPT ![u] = "down"]
    /\ listed' = [listed EXCEPT ![u] = {}]
    /\ flow' = [flow EXCEPT ![u] = [h \in Handlers |-> Idle]]
    /\ record' = [record EXCEPT ![u] = [i \in Deliveries |-> "none"]]
    /\ here' = [here EXCEPT ![u] = [i \in Deliveries |-> 0]]
    /\ UNCHANGED <<rows, sent, starts, faults>>

Exit(u) == host[u] = "stopped" /\ Ends(u)
Crash(u) == host[u] # "down" /\ MayEnd(u) /\ Ends(u)

RecoverStep(u) == \E i \in Deliveries : Recover(u, i)

-----------------------------------------------------------------------------
Init ==
    /\ status = [i \in Deliveries |-> "none"] /\ keyOf = [i \in Deliveries |-> NoKey]
    /\ asked = [i \in Deliveries |-> 0] /\ sent = [i \in Deliveries |-> 0]
    /\ host = [u \in Studios |-> "down"]
    /\ flow = [u \in Studios |-> [h \in Handlers |-> Idle]]
    /\ record = [u \in Studios |-> [i \in Deliveries |-> "none"]]
    /\ here = [u \in Studios |-> [i \in Deliveries |-> 0]]
    /\ listed = [u \in Studios |-> {}]
    /\ starts = [u \in Studios |-> 0] /\ faults = 0

Next ==
    \E u \in Studios :
        \/ \E h \in Handlers :
              \/ \E k \in Keys : Receive(u, h, k)
              \/ \E i \in Deliveries : Retry(u, h, i) \/ Redeliver(u, h, i)
              \/ FlowStep(u, h)
        \/ Start(u) \/ List(u) \/ RecoverStep(u) \/ Open(u)
        \/ Shutdown(u) \/ Stop(u) \/ Exit(u) \/ Crash(u)

Spec == Init /\ [][Next]_vars

-----------------------------------------------------------------------------
\* "Records a delivery once per trigger and idempotency key", however many
\* handlers of however many Studios receive it together.
OneRowPerKey == \A i, j \in Rows : keyOf[i] = keyOf[j] => i = j

\* A Pet runs a delivery at most as often as someone asked for it: once for the
\* claim and once for every retry, whatever crashed or was received again.
SentAsAsked == \A i \in Deliveries : sent[i] <= asked[i]

\* In one life of a Studio a Pet runs a delivery once: a retry of a delivery
\* whose acceptance could not be recorded shares the first admission
\* ("simultaneous deliveries share one admission").
OncePerLife == \A u \in Studios, i \in Deliveries : here[u][i] <= 1

\* A delivery recorded as accepted has reached its Pet; and the handler that
\* is about to record one holds an answer of that Pet.
AcceptedWasSent ==
    \A i \in Deliveries :
        (status[i] = "accepted" \/ \E u \in Studios, h \in Handlers :
                                      At(u, h, "accept") /\ flow[u][h].of = i)
            => sent[i] > 0

\* The three: what the rows, the records and the Pets say of a delivery's runs
\* fits together.
RunsAreAccounted == SentAsAsked /\ OncePerLife /\ AcceptedWasSent

\* No claim is forgotten and nobody waits for an admission that nobody makes:
\* unless a call of the store failed, a delivery that is dispatching is in the
\* hands of a handler that goes on by itself, or its Studio is down or recovers.
GoesOnWith(u, i) ==
    \E h \in Handlers :
        /\ flow[u][h].of = i
        /\ At(u, h, "share") => \E g \in Handlers : At(u, g, "admit") /\ flow[u][g].of = i

ClaimsAreHeld ==
    \A i \in Deliveries : faults = 0 /\ status[i] = "dispatching" =>
        \E u \in Studios :
            GoesOnWith(u, i) \/ host[u] \in {"down", "subscribed"} \/ i \in listed[u]
=============================================================================
