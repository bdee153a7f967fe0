----------------------- MODULE ResidentPetCoordinator -----------------------
(***************************************************************************)
(* The admission gate of one resident Pet                                  *)
(* (services/host/src/host/residentPetCoordinator.ts).                     *)
(*                                                                         *)
(* One-way dispatches wait in a queue and take a single slot.  A           *)
(* conversation never queues: it claims a hold, waits for the slot to be   *)
(* free, and runs.  Both end with a read of the checkpoint that settles    *)
(* the gate.  Every read is asynchronous: it is issued, it samples the     *)
(* checkpoint, and its answer is used in a later step.  An action is the   *)
(* code that runs between two awaits.                                      *)
(***************************************************************************)
EXTENDS Naturals, FiniteSets, Sequences

CONSTANTS
    Dispatches,     \* one-way inputs, each submitted at most once
    Conversations,  \* conversation operations, each admitted at most once
    Sessions,       \* the Pet's sessions
    NoSession,      \* target of a dispatch that follows the active session
    Scopes,         \* invocation scopes
    NoScope,
    NoDispatch,
    TargetOf,       \* the session a dispatch is bound to, or NoSession
    ScopeOf,        \* the scope a dispatch carries, or NoScope
    MaxFaults,      \* bound on the number of failed checkpoint reads
    MayThrow        \* whether a conversation operation may throw

ASSUME CoordinatorAssumption ==
    /\ IsFiniteSet(Conversations)
    /\ NoDispatch \notin Dispatches
    /\ NoSession \notin Sessions
    /\ NoScope \notin Scopes
    /\ Sessions # {}
    /\ TargetOf \in [Dispatches -> Sessions \cup {NoSession}]
    /\ ScopeOf \in [Dispatches -> Scopes \cup {NoScope}]
    /\ MaxFaults \in Nat
    /\ MayThrow \in BOOLEAN

VARIABLES
    gate,           \* state: what the gate reports
    queue,          \* dispatchQueue
    preferred,      \* preferredDispatch
    phase,          \* where the promise in `active` is; "none" is null
    entry,          \* the dispatch that holds the slot
    rest,           \* candidates the scan has not decided yet
    answer,         \* what the slot's last read sampled
    ran,            \* the scan ran a dispatch (always TRUE without a scan)
    failed,         \* a readiness read of this scan failed
    rescan,         \* schedulingVersion moved since the slot was taken
    refresh,        \* where the promise in `refreshing` is; "none" is null
    refreshAnswer,  \* what the refresh's read sampled
    conv,           \* where each holdForConversation call is
    conversations,  \* the counter of holds
    closing,
    stage,          \* what became of each dispatch
    review,         \* external: a review is pending in the session's checkpoint
    selected,       \* external: the Pet's active session
    faults          \* failed reads so far

slotVars == <<phase, entry, rest, answer, ran, failed>>
queueVars == <<queue, preferred, stage>>
refreshVars == <<refresh, refreshAnswer>>
convVars == <<conv, conversations>>
checkpointVars == <<review, selected>>
vars == <<gate, queueVars, slotVars, rescan, refreshVars, convVars,
          closing, checkpointVars, faults>>

Gates == {"open", "busy", "waiting", "blocked"}
Answers == {"unread", "open", "waiting", "failed"}
Phases == {"none", "scan", "check", "checked", "start", "run",
           "settle", "settled", "ended"}
Holds == {"idle", "claimed", "running", "refreshing", "done"}
Stages == {"fresh", "queued", "running", "done", "cancelled"}

Elements(s) == {s[i] : i \in DOMAIN s}

Targeted(d) == TargetOf[d] # NoSession

\* The session whose checkpoint a dispatch reads and writes.
SessionOf(d) == IF Targeted(d) THEN TargetOf[d] ELSE selected

\* Bug: two elements are removed (splice(i, 2)).
WithoutTwo(s, i) == SubSeq(s, 1, i - 1) \o SubSeq(s, i + 2, Len(s))

\* s without its i-th element (splice(i, 1)).
Without(s, i) == SubSeq(s, 1, i - 1) \o SubSeq(s, i + 1, Len(s))

\* The position of d in s (indexOf); d must occur in s.
PositionOf(s, d) == CHOOSE i \in DOMAIN s : s[i] = d

TypeOK ==
    /\ gate \in Gates
    /\ queue \in Seq(Dispatches)
    /\ preferred \in Dispatches \cup {NoDispatch}
    /\ phase \in Phases
    /\ entry \in Dispatches \cup {NoDispatch}
    /\ rest \in Seq(Dispatches)
    /\ answer \in Answers
    /\ ran \in BOOLEAN
    /\ failed \in BOOLEAN
    /\ rescan \in BOOLEAN
    /\ refresh \in {"none", "reading", "read"}
    /\ refreshAnswer \in Answers
    /\ conv \in [Conversations -> Holds]
    /\ conversations \in Nat
    /\ closing \in BOOLEAN
    /\ stage \in [Dispatches -> Stages]
    /\ review \in [Sessions -> BOOLEAN]
    /\ selected \in Sessions
    /\ faults \in 0..MaxFaults

-----------------------------------------------------------------------------
\* Checkpoint reads.

\* A read of session s samples x: the pending review decides, or it fails.
Samples(s, x) ==
    \/ /\ x = IF review[s] THEN "waiting" ELSE "open"
       /\ UNCHANGED faults
    \/ /\ faults < MaxFaults
       /\ x = "failed"
       /\ faults' = faults + 1

\* The gate after a settled-state read: a failed read leaves it blocked.
GateFrom(x) == IF x = "failed" THEN "blocked" ELSE x

-----------------------------------------------------------------------------
\* drain(): give the free slot away.

\* Nobody takes the slot.
LeaveSlot(q, g, st) ==
    /\ queue' = q /\ gate' = g /\ stage' = st
    /\ UNCHANGED <<preferred, slotVars>>

\* Some entry can be checked for readiness: own the slot and scan the queue.
TakeSlotToScan(q, g, st) ==
    /\ queue' = q /\ gate' = g /\ stage' = st
    /\ phase' = "scan"
    /\ entry' = NoDispatch
    /\ rest' = <<>>
    /\ answer' = "unread"
    /\ ran' = FALSE
    /\ failed' = FALSE
    /\ UNCHANGED preferred

\* The gate alone decides: pop the preferred entry, or else the first one.
TakeSlotToRun(q, st) ==
    LET i == IF preferred \in Elements(q) THEN PositionOf(q, preferred) ELSE 1
    IN  /\ queue' = Without(q, i)
        /\ preferred' = IF preferred = q[i] THEN NoDispatch ELSE preferred
        /\ gate' = "busy"
        /\ stage' = [st EXCEPT ![q[i]] = "running"]
        /\ phase' = "start"
        /\ entry' = q[i]
        /\ rest' = <<>>
        /\ answer' = "unread"
        /\ ran' = TRUE
        /\ failed' = FALSE

\* Which of the two applies to queue q under gate g.
ToScan(q) == \E i \in DOMAIN q : Targeted(q[i])
ToRun(q, g) == ~ToScan(q) /\ q # <<>> /\ g = "open"

\* drain() with queue q, gate g and stages st, when `free` says that neither
\* a slot holder, a refresh, a conversation nor closing keeps it from starting.
Drain(free, q, g, st) ==
    \/ free /\ ToScan(q) /\ TakeSlotToScan(q, g, st)
    \/ free /\ ToRun(q, g) /\ TakeSlotToRun(q, st)
    \/ ~(free /\ (ToScan(q) \/ ToRun(q, g))) /\ LeaveSlot(q, g, st)

\* refreshState() after a step that leaves the slot in phase p: start a read
\* unless the slot is taken or one is in flight, which is then joined.
RefreshState(p) ==
    /\ rescan' = (p # "none")
    /\ IF p = "none" /\ refresh = "none"
       THEN refresh' = "reading" /\ refreshAnswer' = "unread"
       ELSE UNCHANGED refreshVars

-----------------------------------------------------------------------------
\* Admission.

\* submitDispatch: enqueue, drain, and refresh the gate, in one turn.
Submission(d) ==
    /\ stage[d] = "fresh"
    /\ Drain(phase = "none" /\ refresh = "none" /\ conversations = 0,
             Append(queue, d), gate, [stage EXCEPT ![d] = "queued"])
    /\ RefreshState(phase')
    /\ UNCHANGED <<convVars, closing, checkpointVars, faults>>

\* ... which a closing coordinator refuses.
SubmitDispatch(d) == ~closing /\ Submission(d)

\* prioritizePendingDispatch, called for the session and scope of d while d
\* runs in the slot, or while a conversation continues d after its review.
PrioritizePendingDispatch(d) ==
    LET matching == {i \in DOMAIN queue : /\ TargetOf[queue[i]] = TargetOf[d]
                                          /\ ScopeOf[queue[i]] = ScopeOf[d]}
    IN  /\ Targeted(d) /\ ScopeOf[d] # NoScope
        /\ \/ phase = "run" /\ entry = d
           \/ stage[d] = "done" /\ \E c \in Conversations : conv[c] = "running"
        /\ \E i \in matching : /\ \A j \in matching : i <= j
                              /\ preferred' = queue[i]
        /\ UNCHANGED <<gate, queue, stage, slotVars, rescan, refreshVars,
                       convVars, closing, checkpointVars, faults>>

CancelQueue ==
    /\ queue' = <<>>
    /\ stage' = [d \in Dispatches |->
                    IF d \in Elements(queue) THEN "cancelled" ELSE stage[d]]
    /\ UNCHANGED <<gate, preferred, slotVars, rescan, refreshVars, convVars,
                   checkpointVars, faults>>

\* close(): cancel what is queued; what holds the slot is left to finish.
Close == ~closing /\ closing' = TRUE /\ CancelQueue

-----------------------------------------------------------------------------
\* The refresh in flight.

RefreshReads ==
    /\ refresh = "reading"
    /\ refresh' = "read"
    /\ \E x \in Answers : refreshAnswer' = x /\ Samples(selected, x)
    /\ UNCHANGED <<gate, queueVars, slotVars, rescan, convVars, closing,
                   checkpointVars>>

\* The read's answer sets the gate, and the finally of refreshState drains.
\* The conversations that joined this refresh resume.
RefreshReturns ==
    /\ refresh = "read"
    /\ refresh' = "none"
    /\ refreshAnswer' = "unread"
    /\ conv' = [c \in Conversations |->
                   IF conv[c] = "refreshing" THEN "done" ELSE conv[c]]
    /\ Drain(phase = "none" /\ conversations = 0 /\ ~closing,
             queue, GateFrom(refreshAnswer), stage)
    /\ UNCHANGED <<rescan, conversations, closing, checkpointVars, faults>>

-----------------------------------------------------------------------------
\* The slot.

\* The scan goes on with the candidates cs, after `bad` failed reads.
NextCandidate(cs, bad) ==
    \/ /\ cs = <<>>
       /\ phase' = "ended" /\ rest' = <<>>
       /\ gate' = IF queue = <<>> THEN gate
                  ELSE IF bad THEN "blocked" ELSE "waiting"
    \/ /\ cs # <<>> /\ (closing \/ conversations > 0)
       /\ phase' = "ended" /\ rest' = <<>>
       /\ UNCHANGED gate
    \/ /\ cs # <<>> /\ ~closing /\ conversations = 0
       /\ phase' = "check" /\ rest' = cs
       /\ UNCHANGED gate

\* Bug: the newest input first.
CandidatesNewestFirst == [i \in DOMAIN queue |-> queue[Len(queue) + 1 - i]]

\* The queue with the preferred entry moved to the front.
Candidates ==
    IF preferred \in Elements(queue)
    THEN <<preferred>> \o Without(queue, PositionOf(queue, preferred))
    ELSE queue

ScanBegins ==
    /\ phase = "scan"
    /\ NextCandidate(Candidates, FALSE)
    /\ UNCHANGED <<queueVars, entry, answer, ran, failed, rescan, refreshVars,
                   convVars, closing, checkpointVars, faults>>

\* A readiness read samples session s.
ReadsReadiness(s) ==
    /\ phase = "check"
    /\ phase' = "checked"
    /\ \E x \in Answers : answer' = x /\ Samples(s, x)
    /\ UNCHANGED <<gate, queueVars, entry, rest, ran, failed, rescan,
                   refreshVars, convVars, closing, checkpointVars>>

\* The readiness read of the candidate at hand samples its session.
\* (A session that vanished would count as ready; none is deleted here.)
CheckReads == ReadsReadiness(SessionOf(Head(rest)))

\* The candidate is not run: it is not ready, its read failed, or the scan
\* was overtaken by a conversation or by close() while it read.
CheckPasses ==
    /\ phase = "checked"
    /\ \/ /\ answer = "failed"
          /\ failed' = TRUE
          /\ NextCandidate(Tail(rest), TRUE)
       \/ /\ answer = "waiting" /\ ~closing /\ conversations = 0
          /\ NextCandidate(Tail(rest), failed)
          /\ UNCHANGED failed
       \/ /\ answer # "failed" /\ (closing \/ conversations > 0)
          /\ phase' = "ended" /\ rest' = <<>>
          /\ UNCHANGED <<gate, failed>>
    /\ answer' = "unread"
    /\ UNCHANGED <<queueVars, entry, ran, rescan, refreshVars, convVars,
                   closing, checkpointVars, faults>>

\* The candidate at hand is ready and is run.
CheckRuns ==
    LET d == Head(rest)
    IN  /\ phase = "checked"
        /\ answer = "open" /\ ~closing
        /\ queue' = Without(queue, PositionOf(queue, d))
        /\ preferred' = IF preferred = d THEN NoDispatch ELSE preferred
        /\ stage' = [stage EXCEPT ![d] = "running"]
        /\ phase' = "run"
        /\ entry' = d
        /\ rest' = <<>>
        /\ answer' = "unread"
        /\ ran' = TRUE
        /\ gate' = "busy"
        /\ UNCHANGED <<failed, rescan, refreshVars, convVars, closing,
                       checkpointVars, faults>>

\* ... unless a conversation claimed its hold while the scan was reading.
CheckStarts == conversations = 0 /\ CheckRuns

\* Without a scan the operation starts one turn after the slot was taken.
DispatchStarts ==
    /\ phase = "start"
    /\ phase' = "run"
    /\ UNCHANGED <<gate, queueVars, entry, rest, answer, ran, failed, rescan,
                   refreshVars, convVars, closing, checkpointVars, faults>>

\* The operation settles.  Its turn leaves a review pending or not, and a turn
\* of the active session whose history is rejected switches to another one.
DispatchSettles ==
    /\ phase = "run"
    /\ phase' = "settle"
    /\ \E b \in BOOLEAN : review' = [review EXCEPT ![SessionOf(entry)] = b]
    /\ \/ UNCHANGED selected
       \/ ~Targeted(entry) /\ selected' \in Sessions
    /\ UNCHANGED <<gate, queueVars, entry, rest, answer, ran, failed, rescan,
                   refreshVars, convVars, closing, faults>>

SettleReads ==
    /\ phase = "settle"
    /\ phase' = "settled"
    /\ \E x \in Answers : answer' = x /\ Samples(selected, x)
    /\ UNCHANGED <<gate, queueVars, entry, rest, ran, failed, rescan,
                   refreshVars, convVars, closing, checkpointVars>>

SettleDelivers ==
    /\ phase = "settled"
    /\ phase' = "ended"
    /\ gate' = GateFrom(answer)
    /\ answer' = "unread"
    /\ stage' = [stage EXCEPT ![entry] = "done"]
    /\ UNCHANGED <<queue, preferred, entry, rest, ran, failed, rescan,
                   refreshVars, convVars, closing, checkpointVars, faults>>

\* Bug: requests that arrived during the scan are not looked at.
DrainsIfRan == ran

\* Whether the settled slot drains the queue again.
DrainsAgain == ran \/ rescan

\* The slot's promise settled: clear it, and drain if something was run or
\* asked for meanwhile.
SlotReturns ==
    LET again == /\ DrainsAgain
                 /\ refresh = "none" /\ conversations = 0 /\ ~closing
    IN  /\ phase = "ended"
        /\ rescan' = FALSE
        /\ \/ again /\ ToScan(queue) /\ TakeSlotToScan(queue, gate, stage)
           \/ again /\ ToRun(queue, gate) /\ TakeSlotToRun(queue, stage)
           \/ /\ ~(again /\ (ToScan(queue) \/ ToRun(queue, gate)))
              /\ phase' = "none"
              /\ entry' = NoDispatch
              /\ ran' = FALSE
              /\ failed' = FALSE
              /\ UNCHANGED <<gate, queueVars, rest, answer>>
        /\ UNCHANGED <<refreshVars, convVars, closing, checkpointVars, faults>>

-----------------------------------------------------------------------------
\* Conversations.

\* holdForConversation: claim the hold, and run at once if the slot is free.
HoldForConversation(c) ==
    /\ ~closing
    /\ conv[c] = "idle"
    /\ conversations' = conversations + 1
    /\ IF phase = "none"
       THEN conv' = [conv EXCEPT ![c] = "running"] /\ gate' = "busy"
       ELSE conv' = [conv EXCEPT ![c] = "claimed"] /\ UNCHANGED gate
    /\ UNCHANGED <<queueVars, slotVars, rescan, refreshVars, closing,
                   checkpointVars, faults>>

EntersConversation(c) ==
    /\ conv[c] = "claimed"
    /\ conv' = [conv EXCEPT ![c] = "running"]
    /\ gate' = "busy"
    /\ UNCHANGED <<queueVars, slotVars, rescan, refreshVars, conversations,
                   closing, checkpointVars, faults>>

\* Bug: a conversation waits for the whole queue, not for the slot.
ConversationStartsLast(c) ==
    phase = "none" /\ queue = <<>> /\ EntersConversation(c)

\* The operation that held the slot settled, and no other one took it.
ConversationStarts(c) == phase = "none" /\ EntersConversation(c)

\* A running conversation raises or answers a review, or selects a session.
ConversationWrites(c) ==
    /\ conv[c] = "running"
    /\ \/ \E s \in Sessions, b \in BOOLEAN :
             review' = [review EXCEPT ![s] = b] /\ UNCHANGED selected
       \/ selected' \in Sessions /\ UNCHANGED review
    /\ UNCHANGED <<gate, queueVars, slotVars, rescan, refreshVars, convVars,
                   closing, faults>>

\* The hold is released and nothing else happens.
ReleaseHold(c) ==
    /\ conv[c] = "running"
    /\ conversations' = conversations - 1
    /\ conv' = [conv EXCEPT ![c] = "done"]
    /\ UNCHANGED <<gate, queueVars, slotVars, rescan, refreshVars, closing,
                   checkpointVars, faults>>

\* The operation resolves: the last hold refreshes the gate and waits for it.
ConversationSettles(c) ==
    /\ conv[c] = "running"
    /\ conversations' = conversations - 1
    /\ IF conversations' = 0
       THEN /\ RefreshState(phase)
            /\ conv' = [conv EXCEPT ![c] =
                           IF phase = "none" THEN "refreshing" ELSE "done"]
       ELSE /\ conv' = [conv EXCEPT ![c] = "done"]
            /\ UNCHANGED <<rescan, refreshVars>>
    /\ UNCHANGED <<gate, queueVars, slotVars, closing, checkpointVars, faults>>

\* The operation throws: the finally releases the hold, and the refresh after
\* it is not reached.
ConversationThrows(c) == MayThrow /\ ReleaseHold(c)

-----------------------------------------------------------------------------
\* The constructor, and the first refreshState() that is awaited before the
\* Pet is served: the gate tells whether the active session has a review.
Init ==
    /\ review \in [Sessions -> BOOLEAN]
    /\ selected \in Sessions
    /\ gate = IF review[selected] THEN "waiting" ELSE "open"
    /\ queue = <<>>
    /\ preferred = NoDispatch
    /\ phase = "none"
    /\ entry = NoDispatch
    /\ rest = <<>>
    /\ answer = "unread"
    /\ ran = FALSE
    /\ failed = FALSE
    /\ rescan = FALSE
    /\ refresh = "none"
    /\ refreshAnswer = "unread"
    /\ conv = [c \in Conversations |-> "idle"]
    /\ conversations = 0
    /\ closing = FALSE
    /\ stage = [d \in Dispatches |-> "fresh"]
    /\ faults = 0

RefreshStep == RefreshReads \/ RefreshReturns

SlotStep ==
    \/ ScanBegins \/ CheckReads \/ CheckPasses \/ CheckStarts
    \/ DispatchStarts \/ DispatchSettles \/ SettleReads \/ SettleDelivers
    \/ SlotReturns

ConversationStep(c) ==
    ConversationStarts(c) \/ ConversationSettles(c) \/ ConversationThrows(c)

Next ==
    \/ \E d \in Dispatches : SubmitDispatch(d) \/ PrioritizePendingDispatch(d)
    \/ Close
    \/ RefreshStep
    \/ SlotStep
    \/ \E c \in Conversations :
          HoldForConversation(c) \/ ConversationWrites(c) \/ ConversationStep(c)

\* A read returns, a turn ends and a resolved promise runs its callbacks; a
\* client's requests, and what a turn writes, are owed by nobody.
Fairness ==
    /\ WF_vars(RefreshStep)
    /\ WF_vars(SlotStep)
    /\ \A c \in Conversations : WF_vars(ConversationStep(c))

Spec == Init /\ [][Next]_vars
FairSpec == Spec /\ Fairness

-----------------------------------------------------------------------------
\* What the gate promises.

\* No two executions overlap: while a conversation runs, nothing owns the
\* dispatch slot, not even a scan (holdForConversation's wait on `active`,
\* drain's refusal while conversations are held).
NoOverlap == (\E c \in Conversations : conv[c] = "running") => phase = "none"

\* Work that was accepted is accounted for: the queue holds every accepted
\* dispatch that has neither run nor been cancelled, once; the hold counter is
\* the number of conversations that claimed or run; and a scan and a refresh
\* never read for the gate at the same time.
Accounting ==
    /\ Elements(queue) = {d \in Dispatches : stage[d] = "queued"}
    /\ Len(queue) = Cardinality(Elements(queue))
    /\ conversations =
          Cardinality({c \in Conversations : conv[c] \in {"claimed", "running"}})
    /\ phase # "none" => refresh = "none"

\* The candidate a scan is reading for is still queued when its answer comes,
\* unless close() emptied the queue: splice(indexOf(candidate), 1) would
\* otherwise drop the last entry of the queue (residentPetCoordinator.ts:239).
CandidateStillQueued ==
    phase \in {"check", "checked"} /\ ~closing => Head(rest) \in Elements(queue)

\* A scan starts a dispatch only while its session has no pending review,
\* although the read that said so was sampled earlier.
ScanStartsWithoutReview ==
    [][\A d \in Dispatches :
          (phase = "checked" /\ stage[d] = "queued" /\ stage'[d] = "running")
             => ~review[SessionOf(d)]]_vars

\* A conversation that has claimed its hold goes before every dispatch still
\* queued: "a session switch already in flight has to land first".
ClaimGoesFirst ==
    [][\A d \in Dispatches :
          (stage[d] = "queued" /\ stage'[d] = "running")
             => \A c \in Conversations : conv[c] \notin {"claimed", "running"}]_vars

\* A dispatch overtakes an earlier one of its own session only when it was
\* preferred, or when a readiness read failed in this scan.
Overtakes(d, e) ==
    /\ TargetOf[d] = TargetOf[e]
    /\ e \in Elements(queue) /\ d \in Elements(queue)
    /\ PositionOf(queue, e) < PositionOf(queue, d)

OvertakingIsExplained ==
    [][\A d, e \in Dispatches :
          (/\ stage[d] = "queued" /\ stage'[d] = "running"
           /\ Overtakes(d, e)) => d = preferred \/ failed]_vars

\* Both: what a scan picks may run now and is the one whose turn it is, although
\* the queue and the reviews have moved on since it read them.
ScansStartWhatTheyMay == ScanStartsWithoutReview /\ OvertakingIsExplained

\* A dispatch bound to a session is not left in the queue for good while that
\* session has no pending review: no wake-up is lost between a scan, a
\* refresh, a conversation and a submission.
TargetedNotStranded ==
    \A d \in Dispatches : Targeted(d) =>
        []<>(stage[d] # "queued" \/ review[TargetOf[d]])

\* The gate that ExecutionGate specifies, seen in this state.
Started == {d \in Dispatches : stage[d] \in {"running", "done"}}
Executing == {d \in Dispatches : stage[d] = "running"}
Asking == {c \in Conversations : conv[c] = "claimed"}
Talking == {c \in Conversations : conv[c] = "running"}

Gate == INSTANCE ExecutionGate WITH
            started <- Started, executing <- Executing,
            asking <- Asking, talking <- Talking

\* Every behaviour of the coordinator is one of the abstract gate: dispatches
\* execute alone and once, and a claimed conversation goes before them.
ImplementsGate == Gate!GateSpec

\* ... and, when turns end, every conversation that asked is let in.
ImplementsFairGate == Gate!FairGateSpec

=============================================================================
