------------------------- MODULE DispatchLifecycle -------------------------
(***************************************************************************)
(* What becomes of a dispatch that stops on a human review.                *)
(*   residentPetDispatch.ts     its first turn, and the record it leaves   *)
(*   dispatchContinuation.ts    the turn that answers its review           *)
(*   residentPetSessions.ts     the port that answers any session's review *)
(*   serverChatHandler.ts, chatSessionAdapter.ts      the turn itself      *)
(*   serverTuiSessions.ts       the record, saved with the session         *)
(* A Pet runs one turn at a time (ResidentPetCoordinator, HostAdmission):  *)
(* here that is one variable.  Reviews live in the checkpoints and records *)
(* in the session file, so both outlive the process; queue, turns and the  *)
(* lifecycle reported to observers do not.                                 *)
(***************************************************************************)
EXTENDS Naturals, FiniteSets

CONSTANTS
    Dispatches, Sessions, Answers,
    NoSession, NoDispatch, NoTurn,
    TargetOf,       \* the session a dispatch names, or NoSession: the active one
    StaleGate,      \* may the gate admit on a read older than a review?
    MaxReviews,     \* bound: reviews the graph raises
    MaxMishaps      \* bound: failing reads, saves and runs, crashes and restarts

\* turn: its session, the dispatch it is attributed to, the answer it carries
\* ({} for any other turn), how far it is, whether it has been aborted, the
\* review its events announced and its outcome.
\* "read": before the graph runs; "stream": it runs; "raised": it has saved a
\* review the stream has not shown yet; "end": the outcome is known.
Steps == {"check", "read", "stream", "raised", "end"}
Outcomes == {"none", "completed", "waiting", "interrupted", "failed"}
Turns == [session : Sessions, of : Dispatches \cup {NoDispatch}, answers : SUBSET Answers,
          step : Steps, aborted : BOOLEAN, seen : 0..MaxReviews, outcome : Outcomes]

ASSUME LifecycleAssumption ==
    /\ TargetOf \in [Dispatches -> Sessions \cup {NoSession}] /\ StaleGate \in BOOLEAN
    /\ NoSession \notin Sessions /\ NoDispatch \notin Dispatches /\ NoTurn \notin Turns
    /\ MaxReviews \in Nat /\ MaxMishaps \in Nat

VARIABLES
    active,     \* the session the Pet shows
    pending,    \* the review a session's thread stops on, 0: none
    record,     \* session.pendingDispatch: the review and the dispatch that waits
    life,       \* the state a dispatch has last reported
    turn,       \* the turn that holds the Pet, or NoTurn
    answer,     \* the answers: how far, to which review of which session
    reviewing,  \* residentPetSessions.reviewing
    host,       \* up, closing or down
    raised,     \* history: reviews so far
    raiser,     \* history: whose run raised a session's pending review, and in
                \* a conversation (a message or an answer) or in a dispatch's turn
    hit,        \* history: dispatches whose turn a crash or a failing save, read or run hit
    mishaps

durable == <<active, pending, record>>
history == <<raised, raiser, hit, mishaps>>
vars == <<durable, life, turn, answer, reviewing, host, history>>

NoRaiser == [of |-> NoDispatch, talk |-> FALSE]
NoRecord == [review |-> 0, dispatch |-> NoDispatch]
Record(i, d) == [review |-> i, dispatch |-> d]
\* "over": completed, interrupted or failed; nothing here tells them apart.
Lives == {"new", "queued", "running", "waiting", "over"}
AnswerStates == [step : {"new", "snapshot", "held", "turn", "done"},
                 session : Sessions \cup {NoSession}, review : 0..MaxReviews, port : BOOLEAN]
NoAnswer == [step |-> "new", session |-> NoSession, review |-> 0, port |-> FALSE]
Answered == [step |-> "done", session |-> NoSession, review |-> 0, port |-> FALSE]

Turn(s, d, as, step) == [session |-> s, of |-> d, answers |-> as, step |-> step,
    aborted |-> FALSE, seen |-> 0, outcome |-> "none"]
Continues == turn.answers # {} /\ turn.of # NoDispatch

TypeOK ==
    /\ active \in Sessions /\ pending \in [Sessions -> 0..MaxReviews]
    /\ record \in [Sessions -> [review : 0..MaxReviews, dispatch : Dispatches \cup {NoDispatch}]]
    /\ life \in [Dispatches -> Lives]
    /\ turn \in Turns \cup {NoTurn}
    /\ answer \in [Answers -> AnswerStates]
    /\ reviewing \in BOOLEAN /\ host \in {"up", "closing", "down"}
    /\ raised \in 0..MaxReviews /\ raiser \in [Sessions -> [of : Dispatches \cup {NoDispatch}, talk : BOOLEAN]]
    /\ hit \subseteq Dispatches /\ mishaps \in 0..MaxMishaps

-----------------------------------------------------------------------------
\* A save, a read or a run that fails; whoever's turn it is, is hit.

Fault(d) ==
    /\ mishaps < MaxMishaps /\ mishaps' = mishaps + 1
    /\ hit' = hit \cup ({d} \ {NoDispatch})
    /\ UNCHANGED <<raised, raiser>>

Report(d, state) == life' = [life EXCEPT ![d] = state]
Save(s, r) == record' = [record EXCEPT ![s] = r]

\* An answer is over: the port that took it may take the next one.
Over(as) ==
    /\ answer' = [a \in Answers |-> IF a \in as THEN Answered ELSE answer[a]]
    /\ reviewing' = (reviewing /\ ~\E a \in as : answer[a].port)
Ends == turn' = NoTurn /\ Over(turn.answers)

-----------------------------------------------------------------------------
\* Dispatches.

Dispatch(d) ==
    /\ host = "up" /\ life[d] = "new"
    /\ Report(d, "queued")
    /\ UNCHANGED <<durable, turn, answer, reviewing, host, history>>

\* The Coordinator starts it: a target must not wait on a review, a dispatch
\* without one needs an open gate.  A conversation that holds the gate goes
\* first.  The gate is read anew behind a dispatch; behind a conversation the
\* refresh may join a read from before the review (StaleGate; see
\* ResidentPetCoordinator, RefreshReads).
StartDispatch(d) ==
    LET s == IF TargetOf[d] = NoSession THEN active ELSE TargetOf[d] IN
    /\ host = "up" /\ turn = NoTurn /\ life[d] = "queued"
    /\ \A a \in Answers : answer[a].step # "held"
    /\ pending[s] = 0 \/ (StaleGate /\ TargetOf[d] = NoSession /\ raiser[s].talk)
    /\ turn' = Turn(s, d, {}, "read")
    /\ Report(d, "running")
    /\ UNCHANGED <<durable, answer, reviewing, host, history>>

\* Bug: a cancellation settles as interrupted without reading the checkpoint.
SettleBlindly ==
    LET d == turn.of  s == turn.session IN
    /\ turn # NoTurn /\ turn.step = "end" /\ turn.answers = {} /\ d # NoDispatch
    /\ IF turn.outcome = "waiting"
       THEN Save(s, Record(turn.seen, d)) /\ Report(d, "waiting")
       ELSE Report(d, "over") /\ UNCHANGED record
    /\ Ends
    /\ UNCHANGED <<active, pending, host, history>>

\* The end of its first turn.  "A cancellation that settled into a review
\* hands that review back": the checkpoint is read once more, and whoever
\* waits is recorded before observers hear of it.
SettleDispatch ==
    LET d == turn.of  s == turn.session
        review == IF turn.outcome = "waiting" THEN turn.seen
                  ELSE IF turn.outcome = "interrupted" THEN pending[s] ELSE 0
    IN
    /\ turn # NoTurn /\ turn.step = "end" /\ turn.answers = {} /\ d # NoDispatch
    /\ \/ /\ review # 0
          /\ Save(s, Record(review, d)) /\ Report(d, "waiting")
          /\ UNCHANGED history
       \/ /\ review = 0
          /\ Report(d, "over")
          /\ UNCHANGED <<record, history>>
       \/ /\ turn.outcome \in {"waiting", "interrupted"}
          /\ Fault(d)
          /\ Report(d, "over") /\ UNCHANGED record
    /\ Ends
    /\ UNCHANGED <<active, pending, host>>

-----------------------------------------------------------------------------
\* The turn: runChatRequest and runAgentSessionTurn.

\* A message of the person who talks to the Pet; the turn that follows may
\* raise a review of its own, and it tells of one that is already there.
Talk ==
    /\ host = "up" /\ turn = NoTurn
    /\ turn' = Turn(active, NoDispatch, {}, "read")
    /\ UNCHANGED <<durable, life, answer, reviewing, host, history>>

At(step) == turn # NoTurn /\ turn.step = step
Outcome(result) == turn' = [turn EXCEPT !.step = "end", !.outcome = result]
Steady == <<active, record, life, answer, reviewing, host>>

\* The thread is read first: a stopped turn runs nothing; input to a thread
\* that waits is not sent, and the review is announced again.
ReadThread ==
    /\ At("read")
    /\ IF turn.aborted THEN Outcome("interrupted")
       ELSE IF pending[turn.session] # 0 /\ turn.answers = {}
       THEN turn' = [turn EXCEPT !.step = "end", !.outcome = "waiting", !.seen = pending[turn.session]]
       ELSE turn' = [turn EXCEPT !.step = "stream"]
    /\ UNCHANGED <<Steady, pending, history>>

\* The resumed graph has taken the answer: its next checkpoint is without the review.
Consume ==
    /\ At("stream") /\ pending[turn.session] # 0
    /\ pending' = [pending EXCEPT ![turn.session] = 0]
    /\ raiser' = [raiser EXCEPT ![turn.session] = NoRaiser]
    /\ UNCHANGED <<Steady, turn, raised, hit, mishaps>>

\* A tool call needs a decision: the graph saves a review and stops.
Raise ==
    /\ At("stream") /\ pending[turn.session] = 0 /\ raised < MaxReviews
    /\ raised' = raised + 1
    /\ raiser' = [raiser EXCEPT ![turn.session] =
                      [of |-> turn.of, talk |-> turn.of = NoDispatch \/ turn.answers # {}]]
    /\ pending' = [pending EXCEPT ![turn.session] = raised + 1]
    /\ turn' = [turn EXCEPT !.step = "raised"]
    /\ UNCHANGED <<Steady, hit, mishaps>>

\* The stream shows the review, or the final read does.
Announce ==
    /\ At("raised") /\ ~turn.aborted
    /\ turn' = [turn EXCEPT !.step = "end", !.outcome = "waiting", !.seen = pending[turn.session]]
    /\ UNCHANGED <<Steady, pending, history>>

Reply ==
    /\ At("stream") /\ ~turn.aborted /\ pending[turn.session] = 0
    /\ Outcome("completed")
    /\ UNCHANGED <<Steady, pending, history>>

\* A turn that is no longer current stops at its next event, or its run throws.
Stop ==
    /\ turn # NoTurn /\ turn.step \in {"stream", "raised"} /\ turn.aborted
    /\ Outcome("interrupted")
    /\ UNCHANGED <<Steady, pending, history>>

\* The run throws; after an abort that is an interruption like any other.
RunFails ==
    /\ turn # NoTurn /\ turn.step \in {"read", "stream", "raised"}
    /\ Outcome(IF turn.aborted THEN "interrupted" ELSE "failed")
    /\ Fault(turn.of)
    /\ UNCHANGED <<Steady, pending>>

\* run.interrupt, or an input to the dispatch's own session and scope.
Interrupt ==
    /\ turn # NoTurn /\ turn.step # "end" /\ ~turn.aborted
    /\ turn' = [turn EXCEPT !.aborted = TRUE]
    /\ UNCHANGED <<Steady, pending, history>>

\* Any other turn: nothing is owed to a dispatch.
SettleTalk ==
    /\ At("end") /\ turn.of = NoDispatch
    /\ Ends
    /\ UNCHANGED <<durable, life, host, history>>

-----------------------------------------------------------------------------
\* Answers.

\* Bug: the port is claimed when the snapshot has been read.
AskReviewLate(a, s) ==
    /\ host = "up" /\ answer[a].step = "new"
    /\ \E i \in 1..raised :
          IF reviewing \/ turn # NoTurn
          THEN answer' = [answer EXCEPT ![a] = Answered]
          ELSE answer' = [answer EXCEPT ![a] =
                     [step |-> "snapshot", session |-> s, review |-> i, port |-> TRUE]]
    /\ UNCHANGED <<durable, life, turn, reviewing, host, history>>

\* Through the port: the claim is made before the first await.
AskReview(a, s) ==
    /\ host = "up" /\ answer[a].step = "new"
    /\ \E i \in 1..raised :
          IF reviewing \/ turn # NoTurn
          THEN /\ answer' = [answer EXCEPT ![a] = Answered]
               /\ UNCHANGED reviewing
          ELSE /\ answer' = [answer EXCEPT ![a] =
                     [step |-> "snapshot", session |-> s, review |-> i, port |-> TRUE]]
               /\ reviewing' = TRUE
    /\ UNCHANGED <<durable, life, turn, host, history>>

\* Bug: an answer to a review that has closed leaves the port claimed.
ReviewSnapshotKeeps(a) ==
    /\ answer[a].step = "snapshot"
    /\ answer' = IF pending[answer[a].session] = answer[a].review
                 THEN [answer EXCEPT ![a].step = "held"] ELSE [answer EXCEPT ![a] = Answered]
    /\ UNCHANGED <<durable, life, turn, reviewing, host, history>>

\* The snapshot says whether the review is still the current one.
ReviewSnapshot(a) ==
    /\ answer[a].step = "snapshot"
    /\ \/ /\ pending[answer[a].session] = answer[a].review
          /\ answer' = [answer EXCEPT ![a].step = "held"]
          /\ UNCHANGED <<reviewing, history>>
       \/ /\ pending[answer[a].session] # answer[a].review
          /\ Over({a})
          /\ UNCHANGED history
       \/ Over({a}) /\ Fault(NoDispatch)
    /\ UNCHANGED <<durable, life, turn, host>>

\* interrupt.resume of the connected client, for the active session.
AskResume(a) ==
    /\ host = "up" /\ answer[a].step = "new"
    /\ \E i \in 1..raised : answer' = [answer EXCEPT ![a] =
            [step |-> "held", session |-> NoSession, review |-> i, port |-> FALSE]]
    /\ UNCHANGED <<durable, life, turn, reviewing, host, history>>

\* Its turn begins, unless another conversation's turn has the Pet or the Pet closes.
Admit(a) ==
    /\ answer[a].step = "held"
    /\ \/ /\ host = "up" /\ turn = NoTurn
          /\ turn' = Turn(IF answer[a].port THEN answer[a].session ELSE active, NoDispatch, {a}, "check")
          /\ answer' = [answer EXCEPT ![a].step = "turn"]
          /\ UNCHANGED reviewing
       \/ /\ host = "closing" \/ (turn # NoTurn /\ (turn.of = NoDispatch \/ turn.answers # {}))
          /\ Over({a}) /\ UNCHANGED turn
    /\ UNCHANGED <<durable, life, host, history>>

\* The answer must name the review the checkpoint holds.  When the session's
\* record names it too, this turn continues that dispatch.
Check ==
    LET s == turn.session  i == pending[s]  r == record[s] IN
    /\ At("check")
    /\ \/ /\ \E a \in turn.answers : answer[a].review # i
          /\ Ends /\ UNCHANGED <<life, history>>
       \/ /\ turn.aborted
          /\ Ends /\ UNCHANGED <<life, history>>
       \/ /\ Ends /\ Fault(NoDispatch) /\ UNCHANGED life
       \/ /\ ~turn.aborted /\ \A a \in turn.answers : answer[a].review = i
          /\ IF r.review = i
             THEN turn' = [turn EXCEPT !.step = "read", !.of = r.dispatch] /\ Report(r.dispatch, "running")
             ELSE turn' = [turn EXCEPT !.step = "read"] /\ UNCHANGED life
          /\ UNCHANGED <<answer, reviewing, history>>
    /\ UNCHANGED <<durable, host>>

\* Bug: the record keeps the review that has been answered.
SettleContinuationOldId ==
    LET d == turn.of  s == turn.session
        review == IF turn.outcome = "waiting" THEN turn.seen
                  ELSE IF turn.outcome = "completed" THEN 0 ELSE pending[s]
    IN
    /\ turn # NoTurn /\ At("end") /\ Continues
    /\ IF review # 0 THEN Report(d, "waiting") /\ UNCHANGED record
       ELSE Report(d, "over") /\ Save(s, NoRecord)
    /\ Ends
    /\ UNCHANGED <<active, pending, host, history>>

\* continueSuspendedDispatch: "a stop or failure can leave a review pending,
\* the answered one included.  The dispatch is then still waiting on it."  A
\* read or a save that fails keeps the record and reports nothing.
SettleContinuation ==
    LET d == turn.of  s == turn.session
        review == IF turn.outcome = "waiting" THEN turn.seen
                  ELSE IF turn.outcome = "completed" THEN 0 ELSE pending[s]
    IN
    /\ turn # NoTurn /\ At("end") /\ Continues
    /\ \/ /\ review # 0
          /\ Save(s, Record(review, d)) /\ Report(d, "waiting")
          /\ UNCHANGED history
       \/ /\ review = 0
          /\ Save(s, NoRecord) /\ Report(d, "over")
          /\ UNCHANGED history
       \/ /\ Fault(d) /\ UNCHANGED <<record, life>>
    /\ Ends
    /\ UNCHANGED <<active, pending, host>>

-----------------------------------------------------------------------------
\* The session on screen, and the life of the process.

SwitchSession(s) ==
    /\ host = "up" /\ turn = NoTurn /\ s # active
    /\ active' = s
    /\ UNCHANGED <<pending, record, life, turn, answer, reviewing, host, history>>

\* The connections go: turns are aborted, queued dispatches are cancelled.
Close ==
    /\ host = "up" /\ mishaps < MaxMishaps
    /\ mishaps' = mishaps + 1
    /\ host' = "closing"
    /\ turn' = IF turn = NoTurn THEN NoTurn ELSE [turn EXCEPT !.aborted = TRUE]
    /\ life' = [d \in Dispatches |-> IF life[d] = "queued" THEN "over" ELSE life[d]]
    /\ UNCHANGED <<durable, answer, reviewing, raised, raiser, hit>>

\* The process is gone; what it had in hand goes with it.
Crash ==
    /\ host # "down" /\ mishaps < MaxMishaps
    /\ mishaps' = mishaps + 1
    /\ host' = "down" /\ turn' = NoTurn
    /\ hit' = hit \cup {d \in Dispatches : life[d] = "running"}
    /\ life' = [d \in Dispatches |-> IF life[d] \in {"queued", "running"} THEN "over" ELSE life[d]]
    /\ answer' = [a \in Answers |-> IF answer[a].step = "new" THEN answer[a] ELSE Answered]
    /\ reviewing' = FALSE
    /\ UNCHANGED <<durable, raised, raiser>>

\* A closed Pet is opened again with the sessions and the checkpoints it left.
Reopen ==
    /\ \/ host = "down"
       \/ /\ host = "closing" /\ turn = NoTurn
          /\ \A a \in Answers : answer[a].step \in {"new", "done"}
    /\ host' = "up"
    /\ UNCHANGED <<durable, life, turn, answer, reviewing, history>>

-----------------------------------------------------------------------------
Init ==
    /\ active \in Sessions /\ pending = [s \in Sessions |-> 0]
    /\ record = [s \in Sessions |-> NoRecord]
    /\ life = [d \in Dispatches |-> "new"] /\ turn = NoTurn
    /\ answer = [a \in Answers |-> NoAnswer] /\ reviewing = FALSE /\ host = "up"
    /\ raised = 0 /\ raiser = [s \in Sessions |-> NoRaiser]
    /\ hit = {} /\ mishaps = 0

TurnStep == ReadThread \/ Consume \/ Raise \/ Announce \/ Reply \/ Stop
Settle == SettleDispatch \/ SettleContinuation \/ SettleTalk
AnswerStep(a) == ReviewSnapshot(a) \/ Admit(a)

Next ==
    \/ \E d \in Dispatches : Dispatch(d) \/ StartDispatch(d)
    \/ \E a \in Answers : AskResume(a) \/ AnswerStep(a) \/ \E s \in Sessions : AskReview(a, s)
    \/ Talk \/ TurnStep \/ RunFails \/ Interrupt \/ Check \/ Settle
    \/ \E s \in Sessions : SwitchSession(s)
    \/ Close \/ Crash \/ Reopen

Spec == Init /\ [][Next]_vars

\* A turn goes on by itself: reads and saves answer, the graph is bounded by
\* its step budget.  An answer that holds the gate gets it before a dispatch.
FairSpec == Spec
    /\ WF_vars(TurnStep \/ Check) /\ WF_vars(Settle)
    /\ \A a \in Answers : WF_vars(AnswerStep(a))

-----------------------------------------------------------------------------
\* Properties.

Busy(s) == turn # NoTurn /\ turn.session = s

\* A dispatch that says it waits can be resumed: its session stops on a review
\* and its record names that review and this dispatch, so the turn that
\* answers it is the dispatch's continuation, also after a restart.
WaitingIsResumable ==
    \A d \in Dispatches : life[d] = "waiting" =>
        \E s \in Sessions : pending[s] # 0 /\ record[s] = Record(pending[s], d)

\* No review of a dispatch is forgotten: while it is open, the dispatch waits
\* on it, whatever stopped its turn.  A turn hit by a crash or a failing save
\* or read is the exception: its review may be left without an owner.
ReviewsAreOwned ==
    \A s \in Sessions :
        pending[s] # 0 /\ ~Busy(s) =>
            LET d == raiser[s].of IN d = NoDispatch \/ d \in hit \/ life[d] = "waiting"

\* The port answers one review at a time, and it is claimed exactly while it does.
PortIsExclusive ==
    LET inHand == {a \in Answers : answer[a].port /\ answer[a].step \in {"snapshot", "held", "turn"}} IN
    Cardinality(inHand) <= 1 /\ (reviewing <=> inHand # {})

\* The types, and the port: what a turn of the service may rely on.
StateIsSound == TypeOK /\ PortIsExclusive

\* Whatever becomes of an answer, the port takes the next one some day.
PortReopens == reviewing ~> ~reviewing
=============================================================================
