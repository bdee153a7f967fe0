----------------------------- MODULE AgentRun -----------------------------
(***************************************************************************)
(* The runs of one thread's agent (packages/pet-agent, agent/orchestrator: *)
(* runtime/graph.ts with its nodes, runSupervisor/ and                     *)
(* executionMessages.ts), over the review of its tool calls (ToolReview).  *)
(*                                                                         *)
(* A message enters at Entry Answer, which replies, plans anew or goes on  *)
(* with the plan the thread has kept.  The Supervisor works on a copy of   *)
(* the plan, one tool at a time; the copy is the thread's only when it     *)
(* delegates or replies.  A delegation runs the current item's Capability, *)
(* leaves a record of it in the transcript and comes back by the boundary. *)
(***************************************************************************)
EXTENDS ToolReview

CONSTANTS
    MaxRuns,        \* messages of the person
    MaxItems,       \* plan items ever made
    MaxPlan,        \* items in one submission (24)
    MaxIterations,  \* ORCHESTRATOR_MAX_ITERATIONS (25)
    MaxTurns        \* decisions of one Supervisor invocation (about 20)

ASSUME RunAssumption ==
    /\ {MaxRuns, MaxItems, MaxPlan, MaxIterations, MaxTurns} \subseteq Nat \ {0}

VARIABLES
    run,        \* runId, counted
    node,       \* the graph's next step
    plan,       \* runSupervisorState's items; its runId, which only prompts read, is left out
    draft,      \* the Supervisor agent's copy
    turns,      \* decisions it has taken
    count,      \* runIterationCount
    record,     \* the executions in the transcript, in order
    items,      \* plan item ids made so far
    accepted    \* items ever completed on the thread's plan

runVars == <<run, node, plan, draft, turns, count, record, items, accepted>>
vars == <<runVars, reviewVars>>

NoPlan == <<>>
Task(id, status) == [id |-> id, status |-> status]
Tasks == [id : 1 .. MaxItems, status : {"pending", "completed", "superseded"}]

TypeOK ==
    /\ ReviewTypeOK
    /\ run \in 0 .. MaxRuns
    /\ node \in {"idle", "entry", "enter", "supervisor", "capability", "boundary"}
    /\ plan \in Seq(Tasks) /\ draft \in Seq(Tasks)
    /\ turns \in 0 .. MaxTurns /\ count \in 0 .. MaxIterations
    /\ record \in Seq([item : 1 .. MaxItems, result : {"returned", "missing"},
                       kept : BOOLEAN])
    /\ items \in 0 .. MaxItems
    /\ accepted \in SUBSET (1 .. MaxItems)

-----------------------------------------------------------------------------
\* Plans and executions.

Open(t) == t.status = "pending"
HasCurrent(p) == \E t \in ToSet(p) : Open(t)
\* The first open item.
Current(p) == p[CHOOSE i \in DOMAIN p : Open(p[i]) /\ \A j \in 1 .. i - 1 : ~Open(p[j])]
Completed(p) == {t.id : t \in {u \in ToSet(p) : u.status = "completed"}}

\* Every execution of an item, the compacted ones included, by its place.
Attempts(id) == {i \in DOMAIN record : record[i].item = id}

\* executionsForPlanItem: what the transcript still holds of an item.
Executions(id) == {i \in Attempts(id) : record[i].kept}

\* The latest of some executions returned a delivery.
LastReturned(is) == \E i \in is : record[i].result = "returned" /\ \A j \in is : j <= i

Fresh(n) == [i \in 1 .. n |-> Task(items + i, "pending")]

\* Bug: any returned execution counts.
DeliveredEver(id) == \E i \in Executions(id) : record[i].result = "returned"

\* The latest execution returned a delivery.
Delivered(id) == LastReturned(Executions(id))

-----------------------------------------------------------------------------
\* The thread's state is written when a superstep ends.

Writes(p) == plan' = p /\ accepted' = accepted \cup Completed(p)

\* A run that is over leaves no copy behind.
Ends == node' = "idle" /\ draft' = NoPlan /\ turns' = 0

-----------------------------------------------------------------------------
\* Entry.

IsOpen(id) == \E t \in ToSet(plan) : t.id = id /\ Open(t)

\* Bug: what is not recent is summarized.
StaysIfRecent(i, from) == record[i].kept /\ i > from

\* compactOrchestratorMessages: the recent, and every attempt of an item that
\* is unfinished; the rest becomes a summary.
Stays(i, from) == record[i].kept /\ (i > from \/ IsOpen(record[i].item))

\* A message starts a fresh run: prepare, compactContext, captureUserRequest.
Message ==
    /\ node = "idle" /\ run < MaxRuns
    /\ run' = run + 1 /\ node' = "entry" /\ count' = 0 /\ Invocation
    /\ \E from \in 0 .. Len(record) :
          record' = [i \in DOMAIN record |-> [record[i] EXCEPT !.kept = Stays(i, from)]]
    /\ UNCHANGED <<plan, draft, turns, items, accepted, grants, step, active, batch, memo, answers,
                   shown, replies, decided>>

EntryReplies ==
    /\ node = "entry" /\ Ends
    /\ UNCHANGED <<run, plan, count, record, items, accepted, reviewVars>>

\* plan_request: a new request retires the saved plan.
EntryPlans ==
    /\ node = "entry" /\ node' = "enter"
    /\ plan' = NoPlan
    /\ UNCHANGED <<run, draft, turns, count, record, items, accepted, reviewVars>>

\* continue: the run adopts the unfinished plan.
EntryContinues ==
    /\ node = "entry" /\ node' = "enter"
    /\ HasCurrent(plan)
    /\ UNCHANGED <<run, plan, draft, turns, count, record, items, accepted, reviewVars>>

-----------------------------------------------------------------------------
\* The Supervisor.

\* Bug: nobody looks at the budget.
SupervisorBeginsUnbudgeted ==
    /\ node = "enter"
    /\ node' = "supervisor" /\ draft' = plan /\ turns' = 0
    /\ UNCHANGED <<run, plan, count, record, items, accepted, reviewVars>>

\* The node begins: over the budget it replies at once.
SupervisorBegins ==
    /\ node = "enter"
    /\ IF count >= MaxIterations
       THEN Ends
       ELSE node' = "supervisor" /\ draft' = plan /\ turns' = 0
    /\ UNCHANGED <<run, plan, count, record, items, accepted, reviewVars>>

\* One decision of the model that stays in the agent.
Decides ==
    /\ node = "supervisor" /\ turns < MaxTurns /\ turns' = turns + 1
    /\ UNCHANGED <<run, node, plan, count, record, accepted, reviewVars>>

\* Refused by its schema or the plan, or several decisions in one reply.
DecisionRefused == Decides /\ UNCHANGED <<draft, items>>

SubmitPlan ==
    /\ Decides /\ ~HasCurrent(draft)
    /\ \E n \in 1 .. MaxPlan :
          /\ items + n <= MaxItems /\ items' = items + n
          /\ draft' = Fresh(n)

\* What an adjustment keeps of the plan: what is done, and, superseded, what
\* was executed, but for the current item if that is kept.
Retained(keep) ==
    LET Stay(t) == \/ ~Open(t)
                   \/ Executions(t.id) # {} /\ ~(keep /\ t = Current(draft))
        Closed(t) == IF t.status = "completed" THEN t ELSE Task(t.id, "superseded")
        stay == Only(draft, {t \in ToSet(draft) : Stay(t)})
    IN  [i \in DOMAIN stay |-> Closed(stay[i])]

AdjustPlan ==
    /\ Decides
    /\ \E n \in 1 .. MaxPlan, keep \in BOOLEAN :
          LET same == IF keep /\ HasCurrent(draft)
                      THEN <<Task(Current(draft).id, "pending")>> ELSE <<>>
              new == n - Len(same)
          IN  /\ items + new <= MaxItems /\ items' = items + new
              /\ draft' = Retained(keep) \o same \o Fresh(new)

\* Accepting takes a returned delivery; anything else only records the turn.
ReviewCurrent ==
    /\ Decides /\ HasCurrent(draft)
    /\ \E done \in BOOLEAN :
          /\ done => Delivered(Current(draft).id)
          /\ draft' = [i \in DOMAIN draft |-> IF done /\ draft[i] = Current(draft)
                         THEN Task(draft[i].id, "completed") ELSE draft[i]]
    /\ UNCHANGED items

\* A reply ends the run and publishes the copy.
Reply ==
    /\ node = "supervisor" /\ turns < MaxTurns
    /\ Writes(draft) /\ Ends
    /\ UNCHANGED <<run, count, record, items, reviewVars>>

\* The agent's step limit: the facts it started from stay, with a notice.
StepLimit ==
    /\ node = "supervisor" /\ turns = MaxTurns
    /\ Writes(plan) /\ Ends
    /\ UNCHANGED <<run, count, record, items, reviewVars>>

-----------------------------------------------------------------------------
\* Delegation.

Leaves(to) ==
    /\ node = "supervisor" /\ turns < MaxTurns
    /\ node' = to /\ draft' = NoPlan /\ turns' = 0
    /\ UNCHANGED <<run, record, items>>

\* Command.PARENT: the copy becomes the thread's, the Capability runs.
Delegate ==
    /\ Leaves("capability") /\ HasCurrent(draft)
    /\ Writes(draft) /\ CapabilityStarts
    /\ UNCHANGED count

\* Bug: a refused delegation is no iteration.
DelegationRefusedFree ==
    /\ Leaves("enter") /\ Writes(draft)
    /\ UNCHANGED <<count, reviewVars>>

\* recoverCapabilityError: no task to execute, a capability no longer there,
\* or arguments that do not parse.
DelegationRefused ==
    /\ Leaves("enter") /\ Writes(draft)
    /\ count' = count + 1
    /\ UNCHANGED reviewVars

\* The tool's result: an execution in the transcript, one iteration, and the
\* grants; a declined review ends the run (afterCapability).
DelegationReturns ==
    /\ node = "capability" /\ CapabilityEnds
    /\ \E result \in IF step = "finished" THEN {"returned", "missing"} ELSE {"missing"} :
          record' = Append(record,
              [item |-> Current(plan).id, result |-> result, kept |-> TRUE])
    /\ count' = count + 1
    /\ node' = IF step = "finished" THEN "boundary" ELSE "idle"
    /\ UNCHANGED <<run, plan, draft, turns, items, accepted>>

\* onDelegationComplete, a superstep of its own.
DelegationBoundary ==
    /\ node = "boundary" /\ node' = "enter"
    /\ UNCHANGED <<run, plan, draft, turns, count, record, items, accepted, reviewVars>>

\* A node fails, the run is interrupted, or the process dies; a run that waits
\* for a review does not run.
RunBreaks ==
    /\ node # "idle" /\ step # "waiting" /\ Ends
    /\ IF node = "capability" THEN CapabilityBreaks ELSE UNCHANGED reviewVars
    /\ UNCHANGED <<run, plan, count, record, items, accepted>>

-----------------------------------------------------------------------------
Init ==
    /\ ReviewInit
    /\ run = 0 /\ node = "idle" /\ count = 0 /\ turns = 0
    /\ plan = NoPlan /\ draft = NoPlan
    /\ record = <<>> /\ items = 0 /\ accepted = {}

CapabilityStep == SubagentStep /\ UNCHANGED runVars

SupervisorStep ==
    \/ SupervisorBegins \/ DecisionRefused \/ SubmitPlan \/ AdjustPlan \/ ReviewCurrent
    \/ Reply \/ StepLimit \/ Delegate \/ DelegationRefused

AgentStep ==
    \/ EntryReplies \/ EntryPlans \/ EntryContinues
    \/ SupervisorStep \/ CapabilityStep \/ DelegationReturns \/ DelegationBoundary

Next ==
    \/ Message \/ AgentStep \/ RunBreaks
    \/ Resume /\ UNCHANGED runVars

Spec == Init /\ [][Next]_vars

\* The models and the tools answer; a person owes nothing.
FairSpec == Spec /\ WF_vars(AgentStep)

-----------------------------------------------------------------------------
\* What a run promises.

\* Whatever breaks or waits, a Capability's task lives exactly as long as its
\* delegation and executes the current task of the plan that was saved for it;
\* the Supervisor's copy does not outlive its turn; and a run executes no more
\* delegations than its budget (delegateCapability, runIterationBudget).
StateIsSound ==
    /\ TypeOK
    /\ step # "off" <=> node = "capability"
    /\ node = "capability" => HasCurrent(plan)
    /\ draft # NoPlan => node = "supervisor"

\* An item once accepted on the thread's plan has a delivery as the last thing
\* that ever came of it: it was not accepted on an older success, and it was
\* not delegated again (reviewCurrent, adjustPlan, currentSupervisorTask).
AcceptedWasDelivered == \A id \in accepted : LastReturned(Attempts(id))

\* Whatever was compacted since, the Supervisor sees every execution of an item
\* the thread still has to finish, so that what a broken run delivered can be
\* accepted by the run that goes on with its plan (selectMessagesToKeep).
EvidenceIsKept ==
    \A t \in ToSet(plan) : Open(t) => Executions(t.id) = Attempts(t.id)

\* A run ends, or waits for a person: a refused decision is a turn and a
\* refused delegation an iteration (runIterationBudget, the agent's limit).
RunsEnd == node # "idle" ~> (node = "idle" \/ step = "waiting")

=============================================================================
