---------------------- MODULE DispatchLifecycleProofs ----------------------
(***************************************************************************)
(* For any dispatches, sessions, answers, reviews and mishaps: the port    *)
(* answers one review at a time; and, where the gate never opens on a read *)
(* from before a review, a dispatch that waits can be resumed and no       *)
(* review of a dispatch is forgotten.                                      *)
(***************************************************************************)
EXTENDS DispatchLifecycle, FiniteSetTheorems, TLAPS

\* An answer has the port until it is over; the one whose turn it is, is the
\* one the turn carries.
AnswerInv ==
    /\ \A a \in Answers : answer[a].step \in {"new", "done"} => ~answer[a].port
    /\ \A a \in Answers : answer[a].port => answer[a].session \in Sessions
    /\ \A a \in Answers : answer[a].step \notin {"new", "done"} => answer[a].review # 0
    /\ \A a \in Answers : answer[a].step = "turn" => turn # NoTurn /\ turn.answers = {a}
    /\ turn # NoTurn => \A a \in turn.answers : answer[a].step = "turn"

PortInv ==
    /\ \A a, b \in Answers : answer[a].port /\ answer[b].port => a = b
    /\ reviewing <=> \E a \in Answers : answer[a].port

Sound == TypeOK /\ AnswerInv /\ PortInv

\* How far a turn is, and what it then knows of its session's review.
TurnInv ==
    turn # NoTurn =>
        LET i == pending[turn.session] IN
        /\ turn.step = "check" => turn.of = NoDispatch /\ turn.answers # {}
        /\ turn.step \in {"read", "stream"} /\ turn.of # NoDispatch /\ turn.answers = {} => i = 0
        /\ turn.step = "stream" /\ turn.answers = {} => i = 0
        /\ turn.step = "raised" => i # 0
        /\ turn.step = "end" => turn.outcome # "none"
        /\ turn.step = "end" /\ turn.outcome = "waiting" => i # 0 /\ turn.seen = i
        /\ turn.step = "end" /\ turn.outcome = "completed" => i = 0
        /\ turn.step = "end" /\ turn.outcome = "failed" /\ turn.of # NoDispatch => turn.of \in hit
        /\ turn.of # NoDispatch => life[turn.of] = "running"

\* A record names a review that was raised, and a dispatch has one record.
RecordInv ==
    /\ \A s \in Sessions : pending[s] <= raised /\ record[s].review <= raised
    /\ \A s \in Sessions : record[s].review # 0 => record[s].dispatch # NoDispatch
    /\ \A s, t \in Sessions :
          record[s].dispatch = record[t].dispatch /\ record[s].dispatch # NoDispatch => s = t
    /\ \A s \in Sessions, d \in Dispatches :
          record[s].dispatch = d => life[d] \notin {"new", "queued"}

\* A dispatch's first turn has no record yet and raises its review itself; its
\* continuation is the turn that the record of its session asked for, and any
\* other answer's turn is not.
ContinueInv ==
    turn # NoTurn =>
        LET s == turn.session IN
        /\ turn.of # NoDispatch /\ turn.answers = {} =>
              /\ \A t \in Sessions : record[t].dispatch # turn.of
              /\ pending[s] = 0 \/ record[s].review # pending[s]
        /\ turn.of # NoDispatch /\ turn.answers # {} => record[s].dispatch = turn.of
        /\ turn.of = NoDispatch /\ turn.answers # {} /\ turn.step # "check" =>
              pending[s] = 0 \/ record[s].review # pending[s]

\* Whose review is open: the dispatch waits on it with its record, or its turn
\* has still to say so, or something went wrong.
Waits(d, s) == life[d] = "waiting" /\ record[s] = Record(pending[s], d)

OwnerInv ==
    \A s \in Sessions :
        pending[s] # 0 =>
            LET d == raiser[s].of IN
            \/ d = NoDispatch \/ d \in hit \/ Waits(d, s)
            \/ turn # NoTurn /\ turn.session = s /\ turn.of = d

Owned == TurnInv /\ RecordInv /\ ContinueInv /\ OwnerInv /\ WaitingIsResumable

-----------------------------------------------------------------------------
\* The answers and the port, whatever becomes of them in a step.

\* A step that leaves the answers alone and keeps the turn's.
LEMMA AnswersStay ==
    ASSUME AnswerInv, PortInv, UNCHANGED <<answer, reviewing>>,
           turn' = NoTurn <=> turn = NoTurn,
           turn # NoTurn => turn'.answers = turn.answers
    PROVE  AnswerInv' /\ PortInv'
BY DEF AnswerInv, PortInv

\* A turn that begins without an answer.
LEMMA AnswersStayOut ==
    ASSUME AnswerInv, PortInv, UNCHANGED <<answer, reviewing>>,
           turn = NoTurn, turn' # NoTurn, turn'.answers = {}
    PROVE  AnswerInv' /\ PortInv'
BY DEF AnswerInv, PortInv

\* Answers that are over give back the port, if it was theirs.
LEMMA OverFrees ==
    ASSUME TypeOK, PortInv, NEW as \in SUBSET Answers, Over(as)
    PROVE  PortInv'
<1>1. \A a \in Answers : answer'[a].port <=> a \notin as /\ answer[a].port
    BY DEF Over, TypeOK, Answered
<1>2. reviewing' <=> (reviewing /\ ~\E a \in as : answer[a].port)
    BY DEF Over
<1> QED BY <1>1, <1>2 DEF PortInv

LEMMA OverTyped ==
    ASSUME TypeOK, NEW as \in SUBSET Answers, Over(as)
    PROVE  /\ answer' \in [Answers -> AnswerStates]
           /\ reviewing' \in BOOLEAN
<1>1. Answered \in AnswerStates
    BY LifecycleAssumption DEF Answered, AnswerStates
<1>2. reviewing' \in BOOLEAN
    BY DEF Over
<1> QED BY <1>1, <1>2 DEF Over, TypeOK

\* One answer becomes r.
LEMMA AnswerBecomes ==
    ASSUME TypeOK, NEW a \in Answers, NEW r \in AnswerStates, answer' = [answer EXCEPT ![a] = r]
    PROVE  /\ answer' \in [Answers -> AnswerStates]
           /\ answer'[a] = r /\ \A b \in Answers \ {a} : answer'[b] = answer[b]
BY DEF TypeOK

LEMMA AnsweredIs ==
    /\ Answered \in AnswerStates /\ Answered.step = "done" /\ ~Answered.port
BY LifecycleAssumption DEF Answered, AnswerStates

\* One answer is over.
LEMMA AnswerEnds ==
    ASSUME Sound, NEW a \in Answers, answer[a].step # "turn",
           UNCHANGED turn, answer' = [answer EXCEPT ![a] = Answered]
    PROVE  AnswerInv'
<1>1. /\ answer'[a] = Answered
      /\ \A b \in Answers \ {a} : answer'[b] = answer[b]
    BY AnswerBecomes, AnsweredIs DEF Sound
<1>2. turn # NoTurn => turn.answers \in SUBSET Answers /\ a \notin turn.answers
    BY DEF Sound, TypeOK, Turns, AnswerInv
<1> QED BY <1>1, <1>2, AnsweredIs DEF Sound, AnswerInv

\* The end of a turn, with the answer it carried.
LEMMA EndsSoundly ==
    ASSUME Sound, turn # NoTurn, Ends
    PROVE  AnswerInv' /\ PortInv' /\ turn' = NoTurn
<1>1. turn.answers \in SUBSET Answers
    BY DEF Sound, TypeOK, Turns
<1>2. turn' = NoTurn /\ Over(turn.answers)
    BY DEF Ends
<1>3. PortInv'
    BY <1>1, <1>2, OverFrees DEF Sound
<1>4. \A a \in Answers : answer'[a] = IF a \in turn.answers THEN Answered ELSE answer[a]
    BY <1>2 DEF Over
<1>5. AnswerInv'
    BY <1>1, <1>2, <1>4, LifecycleAssumption DEF Sound, AnswerInv, Answered
<1> QED BY <1>2, <1>3, <1>5

\* At the start the port, the turn and the records agree.
THEOREM SoundInit == Init => Sound
<1> SUFFICES ASSUME Init PROVE Sound
    OBVIOUS
<1>0. /\ NoRecord \in [review : 0..MaxReviews, dispatch : Dispatches \cup {NoDispatch}]
      /\ NoRaiser \in [of : Dispatches \cup {NoDispatch}, talk : BOOLEAN]
      /\ NoAnswer \in AnswerStates
    BY LifecycleAssumption DEF NoRecord, NoRaiser, NoAnswer, AnswerStates
<1>a. /\ pending \in [Sessions -> 0..MaxReviews] /\ life \in [Dispatches -> Lives]
      /\ raised \in 0..MaxReviews /\ mishaps \in 0..MaxMishaps
    BY LifecycleAssumption DEF Init, Lives
<1>b. /\ record \in [Sessions -> [review : 0..MaxReviews, dispatch : Dispatches \cup {NoDispatch}]]
      /\ raiser \in [Sessions -> [of : Dispatches \cup {NoDispatch}, talk : BOOLEAN]]
    BY <1>0 DEF Init
<1>c. answer \in [Answers -> AnswerStates]
    BY <1>0 DEF Init
<1>1. TypeOK
    BY <1>a, <1>b, <1>c DEF Init, TypeOK
<1>2. AnswerInv
    BY DEF Init, AnswerInv, NoAnswer
<1>3. PortInv
    BY DEF Init, PortInv, NoAnswer
<1> QED BY <1>1, <1>2, <1>3 DEF Sound

-----------------------------------------------------------------------------
\* Every step is sound.

LEMMA DispatchSound ==
    ASSUME Sound, NEW d \in Dispatches, Dispatch(d) PROVE Sound'
<1>1. TypeOK'
    BY DEF Sound, Dispatch, Report, TypeOK, Lives, durable, history
<1>2. AnswerInv' /\ PortInv'
    BY AnswersStay DEF Sound, Dispatch
<1> QED BY <1>1, <1>2 DEF Sound

LEMMA StartDispatchSound ==
    ASSUME Sound, NEW d \in Dispatches, StartDispatch(d) PROVE Sound'
<1> DEFINE s == IF TargetOf[d] = NoSession THEN active ELSE TargetOf[d]
<1>1. s \in Sessions
    BY LifecycleAssumption DEF Sound, TypeOK
<1>2. turn' = Turn(s, d, {}, "read")
    BY DEF StartDispatch
<1>3. turn' \in Turns /\ turn'.answers = {}
    BY <1>1, <1>2, LifecycleAssumption DEF Turn, Turns, Steps, Outcomes
<1>4. TypeOK'
    BY <1>3 DEF Sound, StartDispatch, Report, TypeOK, Lives, durable, history
<1>5. AnswerInv' /\ PortInv'
    BY <1>3, AnswersStayOut, LifecycleAssumption DEF Sound, StartDispatch
<1> QED BY <1>4, <1>5 DEF Sound

LEMMA TalkSound ==
    ASSUME Sound, Talk PROVE Sound'
<1>1. turn' = Turn(active, NoDispatch, {}, "read")
    BY DEF Talk
<1>2. turn' \in Turns /\ turn'.answers = {}
    BY <1>1, LifecycleAssumption DEF Turn, Turns, Steps, Outcomes, Sound, TypeOK
<1>3. TypeOK'
    BY <1>2 DEF Sound, Talk, TypeOK, durable, history
<1>4. AnswerInv' /\ PortInv'
    BY <1>2, AnswersStayOut, LifecycleAssumption DEF Sound, Talk
<1> QED BY <1>3, <1>4 DEF Sound

\* A turn that goes on with the answer it carries.
LEMMA TurnGoesOn ==
    ASSUME Sound, turn # NoTurn, turn' \in Turns, turn'.answers = turn.answers,
           UNCHANGED <<answer, reviewing>>
    PROVE  AnswerInv' /\ PortInv'
BY AnswersStay, LifecycleAssumption DEF Sound

LEMMA ReadThreadSound ==
    ASSUME Sound, ReadThread PROVE Sound'
<1>1. turn # NoTurn /\ turn \in Turns /\ pending[turn.session] \in 0..MaxReviews
    BY DEF ReadThread, At, Sound, TypeOK, Turns
<1>2. turn' \in Turns /\ turn'.answers = turn.answers
    BY <1>1 DEF ReadThread, Outcome, Turns, Steps, Outcomes
<1>3. TypeOK'
    BY <1>2 DEF Sound, TypeOK, ReadThread, Steady, history
<1> QED BY <1>1, <1>2, <1>3, TurnGoesOn DEF Sound, ReadThread, Steady

LEMMA ConsumeSound ==
    ASSUME Sound, Consume PROVE Sound'
<1>1. turn # NoTurn /\ turn \in Turns /\ turn' = turn
    BY DEF Consume, At, Sound, TypeOK
<1>2. NoRaiser \in [of : Dispatches \cup {NoDispatch}, talk : BOOLEAN]
    BY DEF NoRaiser
<1>3. /\ pending' \in [Sessions -> 0..MaxReviews]
      /\ raiser' \in [Sessions -> [of : Dispatches \cup {NoDispatch}, talk : BOOLEAN]]
  <2>1. pending \in [Sessions -> 0..MaxReviews] /\ 0 \in 0..MaxReviews
      BY LifecycleAssumption DEF Sound, TypeOK
  <2>2. raiser \in [Sessions -> [of : Dispatches \cup {NoDispatch}, talk : BOOLEAN]]
      BY DEF Sound, TypeOK
  <2> QED BY <1>2, <2>1, <2>2 DEF Consume
<1>4. TypeOK'
    BY <1>1, <1>3 DEF Sound, TypeOK, Consume, Steady
<1> QED BY <1>1, <1>4, AnswersStay DEF Sound, Consume, Steady

LEMMA RaiseSound ==
    ASSUME Sound, Raise PROVE Sound'
<1>1. turn # NoTurn /\ turn \in Turns
    BY DEF Raise, At, Sound, TypeOK
<1>2. turn' \in Turns /\ turn'.answers = turn.answers
    BY <1>1 DEF Raise, Turns, Steps
<1>3. raised + 1 \in 0..MaxReviews
    BY LifecycleAssumption DEF Raise, Sound, TypeOK
<1>4. [of |-> turn.of, talk |-> turn.of = NoDispatch \/ turn.answers # {}]
          \in [of : Dispatches \cup {NoDispatch}, talk : BOOLEAN]
    BY <1>1 DEF Turns
<1>5. TypeOK'
    BY <1>2, <1>3, <1>4 DEF Sound, TypeOK, Raise, Steady
<1> QED BY <1>1, <1>2, <1>5, TurnGoesOn DEF Sound, Raise, Steady

LEMMA AnnounceSound ==
    ASSUME Sound, Announce PROVE Sound'
<1>1. turn # NoTurn /\ turn \in Turns /\ pending[turn.session] \in 0..MaxReviews
    BY DEF Announce, At, Sound, TypeOK, Turns
<1>2. turn' \in Turns /\ turn'.answers = turn.answers
    BY <1>1 DEF Announce, Turns, Steps, Outcomes
<1>3. TypeOK'
    BY <1>2 DEF Sound, TypeOK, Announce, Steady, history
<1> QED BY <1>1, <1>2, <1>3, TurnGoesOn DEF Sound, Announce, Steady

LEMMA ReplySound ==
    ASSUME Sound, Reply PROVE Sound'
<1>1. turn # NoTurn /\ turn \in Turns
    BY DEF Reply, At, Sound, TypeOK
<1>2. turn' \in Turns /\ turn'.answers = turn.answers
    BY <1>1 DEF Reply, Outcome, Turns, Steps, Outcomes
<1>3. TypeOK'
    BY <1>2 DEF Sound, TypeOK, Reply, Steady, history
<1> QED BY <1>1, <1>2, <1>3, TurnGoesOn DEF Sound, Reply, Steady

LEMMA StopSound ==
    ASSUME Sound, Stop PROVE Sound'
<1>1. turn # NoTurn /\ turn \in Turns
    BY DEF Stop, Sound, TypeOK
<1>2. turn' \in Turns /\ turn'.answers = turn.answers
    BY <1>1 DEF Stop, Outcome, Turns, Steps, Outcomes
<1>3. TypeOK'
    BY <1>2 DEF Sound, TypeOK, Stop, Steady, history
<1> QED BY <1>1, <1>2, <1>3, TurnGoesOn DEF Sound, Stop, Steady

LEMMA RunFailsSound ==
    ASSUME Sound, RunFails PROVE Sound'
<1>1. turn # NoTurn /\ turn \in Turns
    BY DEF RunFails, Sound, TypeOK
<1>2. turn' \in Turns /\ turn'.answers = turn.answers
    BY <1>1 DEF RunFails, Outcome, Turns, Steps, Outcomes
<1>3. TypeOK'
    BY <1>1, <1>2, LifecycleAssumption DEF Sound, TypeOK, RunFails, Fault, Steady, Turns
<1> QED BY <1>1, <1>2, <1>3, TurnGoesOn DEF Sound, RunFails, Steady

LEMMA InterruptSound ==
    ASSUME Sound, Interrupt PROVE Sound'
<1>1. turn # NoTurn /\ turn \in Turns
    BY DEF Interrupt, Sound, TypeOK
<1>2. turn' \in Turns /\ turn'.answers = turn.answers
    BY <1>1 DEF Interrupt, Turns
<1>3. TypeOK'
    BY <1>2 DEF Sound, TypeOK, Interrupt, Steady, history
<1> QED BY <1>1, <1>2, <1>3, TurnGoesOn DEF Sound, Interrupt, Steady

-----------------------------------------------------------------------------
\* The ends of a turn.

LEMMA SavedIsTyped ==
    ASSUME Sound, turn # NoTurn, NEW i \in 0..MaxReviews,
           NEW d \in Dispatches \cup {NoDispatch}
    PROVE  /\ Save(turn.session, Record(i, d)) =>
              record' \in [Sessions -> [review : 0..MaxReviews, dispatch : Dispatches \cup {NoDispatch}]]
BY DEF Sound, TypeOK, Save, Record

LEMMA ReviewIsTyped ==
    ASSUME Sound, turn # NoTurn
    PROVE  /\ turn.session \in Sessions /\ turn.of \in Dispatches \cup {NoDispatch}
           /\ turn.seen \in 0..MaxReviews /\ pending[turn.session] \in 0..MaxReviews
           /\ turn.answers \in SUBSET Answers
BY DEF Sound, TypeOK, Turns

LEMMA SettleDispatchSound ==
    ASSUME Sound, SettleDispatch PROVE Sound'
<1>1. turn # NoTurn /\ turn.of \in Dispatches /\ Ends
    BY ReviewIsTyped DEF SettleDispatch
<1>2. AnswerInv' /\ PortInv' /\ turn' = NoTurn
    BY <1>1, EndsSoundly
<1> DEFINE review == IF turn.outcome = "waiting" THEN turn.seen
                     ELSE IF turn.outcome = "interrupted" THEN pending[turn.session] ELSE 0
<1>3. review \in 0..MaxReviews
    BY <1>1, ReviewIsTyped, LifecycleAssumption
<1>4. record' \in [Sessions -> [review : 0..MaxReviews, dispatch : Dispatches \cup {NoDispatch}]]
    BY <1>1, <1>3, SavedIsTyped DEF SettleDispatch, Sound, TypeOK
<1>5. life' \in [Dispatches -> Lives]
    BY <1>1 DEF SettleDispatch, Report, Sound, TypeOK, Lives
<1>6. /\ UNCHANGED <<active, pending, host, raised, raiser>>
      /\ hit' \subseteq Dispatches /\ mishaps' \in 0..MaxMishaps
    BY <1>1, LifecycleAssumption DEF SettleDispatch, Fault, history, Sound, TypeOK
<1>7. Over(turn.answers) /\ turn.answers \in SUBSET Answers
    BY <1>1, ReviewIsTyped DEF Ends
<1>8. TypeOK'
    BY <1>2, <1>4, <1>5, <1>6, <1>7, OverTyped DEF Sound, TypeOK
<1> QED BY <1>2, <1>8 DEF Sound

LEMMA SettleContinuationSound ==
    ASSUME Sound, SettleContinuation PROVE Sound'
<1>1. turn # NoTurn /\ turn.of \in Dispatches /\ Ends
    BY ReviewIsTyped DEF SettleContinuation, Continues
<1>2. AnswerInv' /\ PortInv' /\ turn' = NoTurn
    BY <1>1, EndsSoundly
<1> DEFINE review == IF turn.outcome = "waiting" THEN turn.seen
                     ELSE IF turn.outcome = "completed" THEN 0 ELSE pending[turn.session]
<1>3. review \in 0..MaxReviews
    BY <1>1, ReviewIsTyped, LifecycleAssumption
<1>4. record' \in [Sessions -> [review : 0..MaxReviews, dispatch : Dispatches \cup {NoDispatch}]]
    BY <1>1, <1>3, SavedIsTyped, LifecycleAssumption
       DEF SettleContinuation, Sound, TypeOK, NoRecord, Record
<1>5. life' \in [Dispatches -> Lives]
    BY <1>1 DEF SettleContinuation, Report, Sound, TypeOK, Lives
<1>6. /\ UNCHANGED <<active, pending, host, raised, raiser>>
      /\ hit' \subseteq Dispatches /\ mishaps' \in 0..MaxMishaps
    BY <1>1, LifecycleAssumption DEF SettleContinuation, Fault, history, Sound, TypeOK
<1>7. Over(turn.answers) /\ turn.answers \in SUBSET Answers
    BY <1>1, ReviewIsTyped DEF Ends
<1>8. TypeOK'
    BY <1>2, <1>4, <1>5, <1>6, <1>7, OverTyped DEF Sound, TypeOK
<1> QED BY <1>2, <1>8 DEF Sound

LEMMA SettleTalkSound ==
    ASSUME Sound, SettleTalk PROVE Sound'
<1>1. turn # NoTurn /\ Ends
    BY DEF SettleTalk, At
<1>2. AnswerInv' /\ PortInv' /\ turn' = NoTurn
    BY <1>1, EndsSoundly
<1>3. Over(turn.answers) /\ turn.answers \in SUBSET Answers
    BY <1>1, ReviewIsTyped DEF Ends
<1>4. TypeOK'
    BY <1>2, <1>3, OverTyped DEF Sound, TypeOK, SettleTalk, durable, history
<1> QED BY <1>2, <1>4 DEF Sound

-----------------------------------------------------------------------------
\* The steps of an answer.

LEMMA AskReviewSound ==
    ASSUME Sound, NEW a \in Answers, NEW s \in Sessions, AskReview(a, s) PROVE Sound'
<1>1. answer[a].step = "new" /\ UNCHANGED <<durable, turn, life, host, history>>
    BY DEF AskReview
<1>2. CASE answer' = [answer EXCEPT ![a] = Answered] /\ UNCHANGED reviewing
  <2>1. answer' \in [Answers -> AnswerStates] /\ AnswerInv'
      BY <1>1, <1>2, AnswerBecomes, AnswerEnds, AnsweredIs DEF Sound
  <2>2. TypeOK'
      BY <1>1, <1>2, <2>1 DEF Sound, TypeOK, durable, history
  <2>3. ~answer[a].port
      BY <1>1 DEF Sound, AnswerInv
  <2>4. \A b \in Answers : answer'[b].port <=> answer[b].port
      BY <1>2, <2>3, AnswerBecomes, AnsweredIs DEF Sound
  <2>5. PortInv'
      BY <1>2, <2>4 DEF Sound, PortInv
  <2> QED BY <2>1, <2>2, <2>5 DEF Sound
<1>3. CASE ~(answer' = [answer EXCEPT ![a] = Answered] /\ UNCHANGED reviewing)
  <2>1. PICK i \in 1..raised :
            /\ ~reviewing /\ reviewing' = TRUE
            /\ answer' = [answer EXCEPT ![a] =
                     [step |-> "snapshot", session |-> s, review |-> i, port |-> TRUE]]
      BY <1>3 DEF AskReview
  <2> DEFINE r == [step |-> "snapshot", session |-> s, review |-> i, port |-> TRUE]
  <2>2. r \in AnswerStates /\ i # 0
      BY LifecycleAssumption DEF Sound, TypeOK, AnswerStates
  <2>3. /\ answer' \in [Answers -> AnswerStates]
        /\ answer'[a] = r /\ \A b \in Answers \ {a} : answer'[b] = answer[b]
      BY <2>1, <2>2, AnswerBecomes DEF Sound
  <2>4. TypeOK'
      BY <1>1, <2>1, <2>3 DEF Sound, TypeOK, durable, history
  <2>5. turn # NoTurn => turn.answers \in SUBSET Answers /\ a \notin turn.answers
      BY <1>1 DEF Sound, TypeOK, Turns, AnswerInv
  <2>6. AnswerInv'
      BY <1>1, <2>2, <2>3, <2>5 DEF Sound, AnswerInv
  <2>7. PortInv'
      BY <2>1, <2>3 DEF Sound, PortInv
  <2> QED BY <2>4, <2>6, <2>7 DEF Sound
<1> QED BY <1>2, <1>3

LEMMA ReviewSnapshotSound ==
    ASSUME Sound, NEW a \in Answers, ReviewSnapshot(a) PROVE Sound'
<1>1. answer[a].step = "snapshot" /\ UNCHANGED turn
    BY DEF ReviewSnapshot
<1>2. CASE answer' = [answer EXCEPT ![a].step = "held"] /\ UNCHANGED <<reviewing, history>>
  <2>1. answer' \in [Answers -> AnswerStates]
      BY <1>2 DEF Sound, TypeOK, AnswerStates
  <2>2. TypeOK'
      BY <1>2, <2>1 DEF ReviewSnapshot, Sound, TypeOK, durable, history
  <2>3. AnswerInv' /\ PortInv'
      BY <1>1, <1>2 DEF Sound, TypeOK, AnswerStates, AnswerInv, PortInv
  <2> QED BY <2>2, <2>3 DEF Sound
<1>3. CASE Over({a})
  <2>1. /\ hit' \subseteq Dispatches /\ mishaps' \in 0..MaxMishaps
        /\ UNCHANGED <<raised, raiser>>
      BY LifecycleAssumption DEF ReviewSnapshot, Fault, history, Sound, TypeOK
  <2>2. TypeOK'
      BY <1>3, <2>1, OverTyped DEF ReviewSnapshot, Sound, TypeOK, durable
  <2>3. PortInv'
      BY <1>3, OverFrees DEF Sound
  <2>4. answer' = [answer EXCEPT ![a] = Answered]
      BY <1>3 DEF Over, Sound, TypeOK
  <2>5. AnswerInv'
      BY <1>1, <2>4, AnswerEnds
  <2> QED BY <2>2, <2>3, <2>5 DEF Sound
<1> QED BY <1>2, <1>3 DEF ReviewSnapshot

LEMMA AskResumeSound ==
    ASSUME Sound, NEW a \in Answers, AskResume(a) PROVE Sound'
<1>1. PICK i \in 1..raised : answer' = [answer EXCEPT ![a] =
            [step |-> "held", session |-> NoSession, review |-> i, port |-> FALSE]]
    BY DEF AskResume
<1> DEFINE r == [step |-> "held", session |-> NoSession, review |-> i, port |-> FALSE]
<1>2. r \in AnswerStates /\ i # 0
    BY LifecycleAssumption DEF Sound, TypeOK, AnswerStates
<1>3. answer[a].step = "new" /\ ~answer[a].port /\ UNCHANGED <<turn, reviewing>>
    BY DEF AskResume, Sound, AnswerInv
<1>4. /\ answer' \in [Answers -> AnswerStates]
      /\ answer'[a] = r /\ \A b \in Answers \ {a} : answer'[b] = answer[b]
    BY <1>1, <1>2, AnswerBecomes DEF Sound
<1>5. TypeOK'
    BY <1>4 DEF AskResume, Sound, TypeOK, durable, history
<1>6. turn # NoTurn => turn.answers \in SUBSET Answers /\ a \notin turn.answers
    BY <1>3 DEF Sound, TypeOK, Turns, AnswerInv
<1>7. AnswerInv' /\ PortInv'
    BY <1>2, <1>3, <1>4, <1>6 DEF Sound, AnswerInv, PortInv
<1> QED BY <1>5, <1>7 DEF Sound

LEMMA AdmitSound ==
    ASSUME Sound, NEW a \in Answers, Admit(a) PROVE Sound'
<1>1. answer[a].step = "held"
    BY DEF Admit
<1> DEFINE s == IF answer[a].port THEN answer[a].session ELSE active
<1>2. CASE /\ turn = NoTurn /\ turn' = Turn(s, NoDispatch, {a}, "check")
           /\ answer' = [answer EXCEPT ![a].step = "turn"] /\ UNCHANGED reviewing
  <2>1. s \in Sessions
      BY DEF Sound, TypeOK, AnswerInv
  <2>2. turn' \in Turns /\ turn'.answers = {a}
      BY <1>2, <2>1, LifecycleAssumption DEF Turn, Turns, Steps, Outcomes
  <2>3. turn' # NoTurn
      BY <2>2, LifecycleAssumption
  <2>4. answer' \in [Answers -> AnswerStates]
      BY <1>2 DEF Sound, TypeOK, AnswerStates
  <2>5. TypeOK'
      BY <1>2, <2>2, <2>4 DEF Admit, Sound, TypeOK, durable, history
  <2>6. /\ answer'[a].step = "turn" /\ answer'[a].review = answer[a].review
        /\ answer'[a].port = answer[a].port /\ answer'[a].session = answer[a].session
        /\ \A b \in Answers \ {a} : answer'[b] = answer[b]
      BY <1>2 DEF Sound, TypeOK, AnswerStates
  <2>7. AnswerInv'
    <3>1. \A b \in Answers : answer[b].step # "turn"
        BY <1>2 DEF Sound, AnswerInv
    <3>2. \A b \in Answers : answer'[b].step = "turn" => b = a
        BY <2>6, <3>1
    <3>3. \A b \in Answers : answer'[b].port = answer[b].port /\ answer'[b].review = answer[b].review
                            /\ answer'[b].session = answer[b].session
        BY <2>6
    <3>4. \A b \in Answers : answer'[b].step \in {"new", "done"} <=> answer[b].step \in {"new", "done"}
        BY <1>1, <2>6
    <3> QED BY <2>2, <2>3, <2>6, <3>2, <3>3, <3>4 DEF Sound, AnswerInv
  <2>8. PortInv'
      BY <1>2, <2>6 DEF Sound, PortInv
  <2> QED BY <2>5, <2>7, <2>8 DEF Sound
<1>3. CASE Over({a}) /\ UNCHANGED turn
  <2>1. TypeOK'
      BY <1>3, OverTyped DEF Admit, Sound, TypeOK, durable, history
  <2>2. PortInv'
      BY <1>3, OverFrees DEF Sound
  <2>3. answer' = [answer EXCEPT ![a] = Answered]
      BY <1>3 DEF Over, Sound, TypeOK
  <2>4. AnswerInv'
      BY <1>1, <1>3, <2>3, AnswerEnds
  <2> QED BY <2>1, <2>2, <2>4 DEF Sound
<1> QED BY <1>2, <1>3 DEF Admit

LEMMA CheckSound ==
    ASSUME Sound, Check PROVE Sound'
<1>0. turn # NoTurn /\ turn \in Turns /\ turn.session \in Sessions
    BY DEF Check, At, Sound, TypeOK, Turns
<1>1. CASE Ends
  <2>1. AnswerInv' /\ PortInv' /\ turn' = NoTurn
      BY <1>0, <1>1, EndsSoundly
  <2>2. Over(turn.answers) /\ turn.answers \in SUBSET Answers
      BY <1>0, <1>1, ReviewIsTyped DEF Ends
  <2>3. /\ hit' \subseteq Dispatches /\ mishaps' \in 0..MaxMishaps
        /\ UNCHANGED <<raised, raiser>>
      BY LifecycleAssumption DEF Check, Fault, history, Sound, TypeOK
  <2>4. life' \in [Dispatches -> Lives]
      BY DEF Check, Report, Sound, TypeOK, Lives
  <2>5. TypeOK'
      BY <2>1, <2>2, <2>3, <2>4, OverTyped DEF Check, Sound, TypeOK, durable
  <2> QED BY <2>1, <2>5 DEF Sound
<1>2. CASE ~Ends
  <2>1. record[turn.session].dispatch \in Dispatches \cup {NoDispatch}
      BY <1>0 DEF Sound, TypeOK
  <2>2. turn' \in Turns /\ turn'.answers = turn.answers /\ UNCHANGED <<answer, reviewing, history>>
      BY <1>0, <1>2, <2>1 DEF Check, Turns, Steps
  <2>3. life' \in [Dispatches -> Lives]
      BY <1>0, <1>2 DEF Check, Report, Sound, TypeOK, Lives
  <2>4. TypeOK'
      BY <2>2, <2>3 DEF Check, Sound, TypeOK, durable, history
  <2> QED BY <1>0, <2>2, <2>4, TurnGoesOn DEF Sound
<1> QED BY <1>1, <1>2

-----------------------------------------------------------------------------
\* The session on screen, and the life of the process.

LEMMA SwitchSessionSound ==
    ASSUME Sound, NEW s \in Sessions, SwitchSession(s) PROVE Sound'
<1>1. TypeOK'
    BY DEF SwitchSession, Sound, TypeOK, history
<1> QED BY <1>1, AnswersStay DEF Sound, SwitchSession

LEMMA CloseSound ==
    ASSUME Sound, Close PROVE Sound'
<1>1. turn' \in Turns \cup {NoTurn} /\ (turn' = NoTurn <=> turn = NoTurn)
      /\ (turn # NoTurn => turn'.answers = turn.answers)
    BY LifecycleAssumption DEF Close, Sound, TypeOK, Turns
<1>2. life' \in [Dispatches -> Lives]
    BY DEF Close, Sound, TypeOK, Lives
<1>3. TypeOK'
    BY <1>1, <1>2, LifecycleAssumption DEF Close, Sound, TypeOK, durable
<1> QED BY <1>1, <1>3, AnswersStay DEF Sound, Close

LEMMA CrashSound ==
    ASSUME Sound, Crash PROVE Sound'
<1>1. life' \in [Dispatches -> Lives]
    BY DEF Crash, Sound, TypeOK, Lives
<1>2. answer' \in [Answers -> AnswerStates]
    BY AnsweredIs DEF Crash, Sound, TypeOK
<1>3. hit' \subseteq Dispatches /\ mishaps' \in 0..MaxMishaps
    BY LifecycleAssumption DEF Crash, Sound, TypeOK
<1>4. TypeOK'
    BY <1>1, <1>2, <1>3 DEF Crash, Sound, TypeOK, durable
<1>5. \A a \in Answers : ~answer'[a].port /\ answer'[a].step \in {"new", "done"}
    BY AnsweredIs DEF Crash, Sound, AnswerInv
<1>6. AnswerInv' /\ PortInv'
    BY <1>5 DEF Crash, AnswerInv, PortInv
<1> QED BY <1>4, <1>6 DEF Sound

LEMMA ReopenSound ==
    ASSUME Sound, Reopen PROVE Sound'
<1>1. TypeOK'
    BY DEF Reopen, Sound, TypeOK, durable, history
<1> QED BY <1>1, AnswersStay DEF Sound, Reopen

\* Every turn, answer, stop, close and crash keeps that agreement.
THEOREM SoundNext == Sound /\ [Next]_vars => Sound'
<1> SUFFICES ASSUME Sound, [Next]_vars PROVE Sound'
    OBVIOUS
<1>1. CASE UNCHANGED vars
  <2>1. TypeOK'
      BY <1>1 DEF vars, durable, history, Sound, TypeOK
  <2> QED BY <1>1, <2>1, AnswersStay DEF vars, Sound
<1>2. CASE \E d \in Dispatches : Dispatch(d) \/ StartDispatch(d)
    BY <1>2, DispatchSound, StartDispatchSound
<1>3. CASE \E a \in Answers : AskResume(a) \/ AnswerStep(a) \/ \E s \in Sessions : AskReview(a, s)
    BY <1>3, AskResumeSound, AskReviewSound, ReviewSnapshotSound, AdmitSound DEF AnswerStep
<1>4. CASE Talk \/ RunFails \/ Interrupt \/ Check
    BY <1>4, TalkSound, RunFailsSound, InterruptSound, CheckSound
<1>5. CASE TurnStep
    BY <1>5, ReadThreadSound, ConsumeSound, RaiseSound, AnnounceSound, ReplySound, StopSound
       DEF TurnStep
<1>6. CASE Settle
    BY <1>6, SettleDispatchSound, SettleContinuationSound, SettleTalkSound DEF Settle
<1>7. CASE (\E s \in Sessions : SwitchSession(s)) \/ Close \/ Crash \/ Reopen
    BY <1>7, SwitchSessionSound, CloseSound, CrashSound, ReopenSound
<1> QED BY <1>1, <1>2, <1>3, <1>4, <1>5, <1>6, <1>7 DEF Next

\* The inductive invariant holds in every reachable state, whatever the gate
\* read.
THEOREM SoundAlways == Spec => []Sound
BY SoundInit, SoundNext, PTL DEF Spec

\* What a turn of the service may rely on: the types, and that the port answers
\* one review at a time and is claimed exactly while it does (createPetReviewPort).
THEOREM PortAnswersOne == Spec => []StateIsSound
<1>1. Sound => StateIsSound
  <2> SUFFICES ASSUME Sound PROVE StateIsSound
      OBVIOUS
  <2> DEFINE inHand == {a \in Answers : answer[a].port /\ answer[a].step \in {"snapshot", "held", "turn"}}
  <2>1. inHand = {a \in Answers : answer[a].port}
      BY DEF Sound, TypeOK, AnswerInv, AnswerStates
  <2>2. Cardinality(inHand) <= 1
    <3>1. CASE inHand = {}
        BY <3>1, FS_EmptySet
    <3>2. CASE inHand # {}
      <4>1. PICK a \in inHand : inHand = {a}
          BY <2>1, <3>2 DEF Sound, PortInv
      <4>2. Cardinality({a}) = 1
          BY FS_Singleton
      <4> QED BY <4>1, <4>2
    <3> QED BY <3>1, <3>2
  <2>3. reviewing <=> inHand # {}
      BY <2>1 DEF Sound, PortInv
  <2> QED BY <2>2, <2>3 DEF StateIsSound, PortIsExclusive, Sound
<1> QED BY <1>1, SoundAlways, PTL

-----------------------------------------------------------------------------
\* Reviews, records and their owners.

THEOREM OwnedInit == Init => Owned
<1> SUFFICES ASSUME Init PROVE Owned
    OBVIOUS
<1>1. TurnInv /\ ContinueInv
    BY DEF Init, TurnInv, ContinueInv
<1>2. RecordInv
    BY LifecycleAssumption DEF Init, RecordInv, NoRecord
<1>3. OwnerInv /\ WaitingIsResumable
    BY DEF Init, OwnerInv, WaitingIsResumable
<1> QED BY <1>1, <1>2, <1>3 DEF Owned

\* A step that keeps reviews, records and whose turn it is; of the dispatches
\* only those change that have not begun.
LEMMA QuietKeeps ==
    ASSUME Sound, Owned, UNCHANGED <<pending, record, raised, raiser>>, hit \subseteq hit',
           turn' = NoTurn <=> turn = NoTurn,
           turn # NoTurn =>
               /\ turn'.session = turn.session /\ turn'.of = turn.of /\ turn'.step = turn.step
               /\ turn'.answers = turn.answers /\ turn'.seen = turn.seen
               /\ turn'.outcome = turn.outcome,
           \A d \in Dispatches :
               \/ life'[d] = life[d]
               \/ life[d] \in {"new", "queued"} /\ life'[d] \in {"queued", "over"}
    PROVE  Owned'
<1>1. \A d \in Dispatches : life[d] \in {"running", "waiting"} => life'[d] = life[d]
    OBVIOUS
<1>2. \A s \in Sessions : raiser[s].of \in Dispatches \cup {NoDispatch}
    BY DEF Sound, TypeOK
<1>3. TurnInv'
    BY <1>1, ReviewIsTyped DEF Owned, TurnInv
<1>4. RecordInv'
    BY DEF Owned, RecordInv
<1>5. ContinueInv'
    BY DEF Owned, ContinueInv
<1>6. WaitingIsResumable'
    BY DEF Owned, WaitingIsResumable
<1>7. OwnerInv'
    BY <1>1, <1>2 DEF Owned, OwnerInv, Waits
<1> QED BY <1>3, <1>4, <1>5, <1>6, <1>7 DEF Owned

LEMMA QuietSteps ==
    ASSUME Sound, Owned,
           \/ \E d \in Dispatches : Dispatch(d)
           \/ \E a \in Answers : AskResume(a) \/ ReviewSnapshot(a) \/ \E s \in Sessions : AskReview(a, s)
           \/ Interrupt \/ Close \/ Reopen \/ \E s \in Sessions : SwitchSession(s)
           \/ UNCHANGED vars
    PROVE  Owned'
<1>0. turn # NoTurn => turn \in Turns
    BY DEF Sound, TypeOK
<1>1. ASSUME NEW d \in Dispatches, Dispatch(d) PROVE Owned'
    BY <1>1, QuietKeeps DEF Dispatch, Report, durable, history, Sound, TypeOK
<1>2. ASSUME NEW a \in Answers, AskResume(a) PROVE Owned'
    BY <1>2, QuietKeeps DEF AskResume, durable, history
<1>3. ASSUME NEW a \in Answers, ReviewSnapshot(a) PROVE Owned'
    BY <1>3, QuietKeeps DEF ReviewSnapshot, Fault, durable, history
<1>4. ASSUME NEW a \in Answers, NEW s \in Sessions, AskReview(a, s) PROVE Owned'
    BY <1>4, QuietKeeps DEF AskReview, durable, history
<1>5. CASE Interrupt
  <2>1. turn' # NoTurn
      BY <1>0, <1>5, LifecycleAssumption DEF Interrupt, Turns
  <2> QED BY <1>0, <1>5, <2>1, QuietKeeps DEF Interrupt, Steady, history, Turns
<1>6. CASE Close
  <2>1. turn # NoTurn => turn' # NoTurn
      BY <1>0, <1>6, LifecycleAssumption DEF Close, Turns
  <2> QED BY <1>0, <1>6, <2>1, QuietKeeps DEF Close, durable, history, Turns, Sound, TypeOK
<1>7. CASE Reopen
    BY <1>7, QuietKeeps DEF Reopen, durable, history
<1>8. ASSUME NEW s \in Sessions, SwitchSession(s) PROVE Owned'
    BY <1>8, QuietKeeps DEF SwitchSession, history
<1>9. CASE UNCHANGED vars
    BY <1>9, QuietKeeps DEF vars, durable, history
<1> QED BY <1>1, <1>2, <1>3, <1>4, <1>5, <1>6, <1>7, <1>8, <1>9

\* The turn goes on without touching reviews or records.
LEMMA TurnKeeps ==
    ASSUME Sound, Owned, UNCHANGED <<pending, record, life, raised, raiser>>, hit \subseteq hit',
           turn # NoTurn, turn' # NoTurn, turn.step # "check", TurnInv',
           turn'.session = turn.session, turn'.of = turn.of, turn'.answers = turn.answers
    PROVE  Owned'
<1>1. RecordInv'
    BY DEF Owned, RecordInv
<1>2. ContinueInv'
    BY DEF Owned, ContinueInv
<1>3. WaitingIsResumable'
    BY DEF Owned, WaitingIsResumable
<1>4. OwnerInv'
    BY DEF Owned, OwnerInv, Waits
<1> QED BY <1>1, <1>2, <1>3, <1>4 DEF Owned

LEMMA TurnSteps ==
    ASSUME Sound, Owned, ReadThread \/ Announce \/ Reply \/ Stop \/ RunFails
    PROVE  Owned'
<1>1. turn # NoTurn /\ turn \in Turns
    BY DEF ReadThread, Announce, Reply, Stop, RunFails, At, Sound, TypeOK
<1>2. /\ UNCHANGED <<pending, record, life, raised, raiser>> /\ hit \subseteq hit'
      /\ turn.step # "check"
    BY DEF ReadThread, Announce, Reply, Stop, RunFails, At, Fault, Steady, history
<1>3. /\ turn'.session = turn.session /\ turn'.of = turn.of /\ turn'.answers = turn.answers
      /\ turn' \in Turns
    BY <1>1, ReviewIsTyped
       DEF ReadThread, Announce, Reply, Stop, RunFails, Outcome, Turns, Steps, Outcomes
<1>4. turn' # NoTurn
    BY <1>3, LifecycleAssumption
<1>5. TurnInv
    BY DEF Owned
<1>6. TurnInv'
  <2>1. CASE ReadThread
      BY <1>1, <1>2, <1>5, <2>1 DEF ReadThread, At, Outcome, TurnInv, Turns
  <2>2. CASE Announce
      BY <1>1, <1>2, <1>5, <2>2 DEF Announce, At, TurnInv, Turns
  <2>3. CASE Reply
      BY <1>1, <1>2, <1>5, <2>3 DEF Reply, At, Outcome, TurnInv, Turns
  <2>4. CASE Stop
      BY <1>1, <1>2, <1>5, <2>4 DEF Stop, Outcome, TurnInv, Turns
  <2>5. CASE RunFails
      BY <1>1, <1>2, <1>5, <2>5 DEF RunFails, Outcome, Fault, TurnInv, Turns
  <2> QED BY <2>1, <2>2, <2>3, <2>4, <2>5
<1> QED BY <1>1, <1>2, <1>3, <1>4, <1>6, TurnKeeps

\* The resumed graph drops the review that was answered.  Whoever waited on it
\* has been continued: a turn that is not a continuation finds a record that
\* names another review.
LEMMA ConsumeKeeps ==
    ASSUME Sound, Owned, Consume PROVE Owned'
<1> DEFINE s == turn.session
<1>1. turn # NoTurn /\ turn \in Turns /\ turn.step = "stream" /\ s \in Sessions
    BY DEF Consume, At, Sound, TypeOK, Turns
<1>2. /\ UNCHANGED <<record, life, turn, raised, hit>>
      /\ pending[s] # 0 /\ pending' = [pending EXCEPT ![s] = 0]
      /\ raiser' = [raiser EXCEPT ![s] = NoRaiser]
    BY DEF Consume, Steady
<1>3. /\ pending'[s] = 0 /\ \A t \in Sessions \ {s} : pending'[t] = pending[t]
      /\ \A t \in Sessions \ {s} : raiser'[t] = raiser[t]
    BY <1>1, <1>2 DEF Sound, TypeOK
<1>4. turn.answers # {}
    BY <1>1, <1>2 DEF Owned, TurnInv
<1>5. TurnInv'
    BY <1>1, <1>2, <1>3, <1>4 DEF Owned, TurnInv
<1>6. RecordInv'
    BY <1>2, <1>3, LifecycleAssumption DEF Owned, RecordInv, Sound, TypeOK
<1>7. ContinueInv'
    BY <1>1, <1>2, <1>3 DEF Owned, ContinueInv
<1>8. \A d \in Dispatches : life[d] = "waiting" => record[s] # Record(pending[s], d)
    BY <1>1, <1>2, <1>4 DEF Owned, TurnInv, ContinueInv, Record
<1>9. WaitingIsResumable'
    BY <1>2, <1>3, <1>8 DEF Owned, WaitingIsResumable
<1>10. OwnerInv'
    BY <1>2, <1>3 DEF Owned, OwnerInv, Waits
<1> QED BY <1>5, <1>6, <1>7, <1>9, <1>10 DEF Owned

\* A new review has a number that no record names.
LEMMA RaiseKeeps ==
    ASSUME Sound, Owned, Raise PROVE Owned'
<1> DEFINE s == turn.session
<1>1. turn # NoTurn /\ turn \in Turns /\ turn.step = "stream" /\ s \in Sessions
    BY DEF Raise, At, Sound, TypeOK, Turns
<1>2. /\ UNCHANGED <<record, life, hit>> /\ raised' = raised + 1 /\ raised \in Nat
      /\ pending[s] = 0 /\ pending' = [pending EXCEPT ![s] = raised + 1]
      /\ turn' = [turn EXCEPT !.step = "raised"]
    BY LifecycleAssumption DEF Raise, Steady, Sound, TypeOK
<1>3. /\ pending'[s] = raised + 1 /\ pending'[s] # 0
      /\ \A t \in Sessions \ {s} : pending'[t] = pending[t] /\ raiser'[t] = raiser[t]
      /\ raiser'[s].of = turn.of
    BY <1>1, <1>2 DEF Raise, Sound, TypeOK
<1>4. /\ turn' \in Turns /\ turn'.step = "raised" /\ turn'.session = s /\ turn'.of = turn.of
      /\ turn'.answers = turn.answers
    BY <1>1, <1>2 DEF Turns, Steps
<1>5. turn' # NoTurn
    BY <1>4, LifecycleAssumption
<1>6. TurnInv'
    BY <1>1, <1>2, <1>3, <1>4, <1>5 DEF Owned, TurnInv
<1>7. \A t \in Sessions : pending[t] \in Nat /\ record[t].review \in Nat
    BY LifecycleAssumption DEF Sound, TypeOK
<1>8. RecordInv'
    BY <1>2, <1>3, <1>7 DEF Owned, RecordInv
<1>9. ContinueInv'
    BY <1>1, <1>2, <1>3, <1>4, <1>5, <1>7 DEF Owned, ContinueInv, RecordInv
<1>10. WaitingIsResumable'
    BY <1>2, <1>3 DEF Owned, WaitingIsResumable
<1>11. OwnerInv'
    BY <1>1, <1>2, <1>3, <1>4, <1>5 DEF Owned, OwnerInv, Waits
<1> QED BY <1>6, <1>8, <1>9, <1>10, <1>11 DEF Owned

\* A turn that begins is nobody's, or of a dispatch that finds no review in its
\* session.
LEMMA TurnBegins ==
    ASSUME Sound, Owned, UNCHANGED <<pending, record, raised, raiser, hit>>,
           turn = NoTurn, turn' # NoTurn, turn'.session \in Sessions, turn'.outcome = "none",
           \/ turn'.step = "check" /\ turn'.answers # {} /\ turn'.of = NoDispatch /\ UNCHANGED life
           \/ turn'.step = "read" /\ turn'.answers = {} /\ turn'.of = NoDispatch /\ UNCHANGED life
           \/ /\ turn'.step = "read" /\ turn'.answers = {} /\ pending[turn'.session] = 0
              /\ turn'.of \in Dispatches /\ life[turn'.of] = "queued"
              /\ life' = [life EXCEPT ![turn'.of] = "running"]
    PROVE  Owned'
<1>1. turn'.of # NoDispatch => life'[turn'.of] = "running" /\ turn'.of \in Dispatches
    BY DEF Sound, TypeOK
<1>2. \A e \in Dispatches : life[e] # "queued" => life'[e] = life[e]
    BY DEF Sound, TypeOK
<1>3. \A e \in Dispatches : life'[e] \in {"new", "queued", "waiting"} => life'[e] = life[e]
    BY <1>1 DEF Sound, TypeOK
<1>4. TurnInv'
    BY <1>1 DEF TurnInv
<1>5. RecordInv'
    BY <1>3 DEF Owned, RecordInv
<1>6. ContinueInv'
    BY DEF Owned, RecordInv, ContinueInv
<1>7. WaitingIsResumable'
    BY <1>3 DEF Owned, WaitingIsResumable
<1>8. OwnerInv'
  <2>1. \A t \in Sessions : raiser[t].of \in Dispatches \cup {NoDispatch}
      BY DEF Sound, TypeOK
  <2> QED BY <1>2, <2>1 DEF Owned, OwnerInv, Waits
<1> QED BY <1>4, <1>5, <1>6, <1>7, <1>8 DEF Owned

LEMMA TalkKeeps ==
    ASSUME Sound, Owned, Talk PROVE Owned'
<1>1. turn' = Turn(active, NoDispatch, {}, "read") /\ active \in Sessions
    BY DEF Talk, Sound, TypeOK
<1>2. turn' \in Turns
    BY <1>1, LifecycleAssumption DEF Turn, Turns, Steps, Outcomes
<1>3. turn' # NoTurn
    BY <1>2, LifecycleAssumption
<1> QED BY <1>1, <1>3, TurnBegins DEF Talk, Turn, durable, history

LEMMA StartDispatchKeeps ==
    ASSUME ~StaleGate, Sound, Owned, NEW d \in Dispatches, StartDispatch(d) PROVE Owned'
<1> DEFINE s == IF TargetOf[d] = NoSession THEN active ELSE TargetOf[d]
<1>1. s \in Sessions
    BY LifecycleAssumption DEF Sound, TypeOK
<1>2. turn' = Turn(s, d, {}, "read")
    BY DEF StartDispatch
<1>3. turn' \in Turns
    BY <1>1, <1>2, LifecycleAssumption DEF Turn, Turns, Steps, Outcomes
<1>4. turn' # NoTurn
    BY <1>3, LifecycleAssumption
<1>5. /\ turn'.session = s /\ turn'.of = d /\ turn'.answers = {} /\ turn'.step = "read"
      /\ turn'.outcome = "none"
    BY <1>2 DEF Turn
<1>6. /\ turn = NoTurn /\ life[d] = "queued" /\ pending[s] = 0
      /\ life' = [life EXCEPT ![d] = "running"]
      /\ UNCHANGED <<pending, record, raised, raiser, hit>>
    BY DEF StartDispatch, Report, durable, history
<1> QED BY <1>1, <1>4, <1>5, <1>6, TurnBegins

LEMMA AdmitKeeps ==
    ASSUME Sound, Owned, NEW a \in Answers, Admit(a) PROVE Owned'
<1> DEFINE s == IF answer[a].port THEN answer[a].session ELSE active
<1>1. s \in Sessions
    BY DEF Sound, TypeOK, AnswerInv
<1>2. CASE turn = NoTurn /\ turn' = Turn(s, NoDispatch, {a}, "check")
  <2>1. turn' \in Turns
      BY <1>1, <1>2, LifecycleAssumption DEF Turn, Turns, Steps, Outcomes
  <2>2. turn' # NoTurn
      BY <2>1, LifecycleAssumption
  <2>3. /\ turn'.session = s /\ turn'.of = NoDispatch /\ turn'.answers # {} /\ turn'.step = "check"
        /\ turn'.outcome = "none"
      BY <1>2 DEF Turn
  <2>4. UNCHANGED <<pending, record, raised, raiser, hit, life>>
      BY DEF Admit, durable, history
  <2> QED BY <1>1, <1>2, <2>2, <2>3, <2>4, TurnBegins
<1>3. CASE UNCHANGED turn
    BY <1>3, QuietKeeps DEF Admit, durable, history
<1> QED BY <1>2, <1>3 DEF Admit

\* The answer's turn finds its record, or none that names the review.  A dispatch
\* that goes on had its record here and nowhere else.
LEMMA CheckKeeps ==
    ASSUME Sound, Owned, Check PROVE Owned'
<1> DEFINE s == turn.session  r == record[s]
<1>1. /\ turn # NoTurn /\ turn \in Turns /\ turn.step = "check" /\ s \in Sessions
      /\ turn.of = NoDispatch /\ turn.answers # {} /\ turn.answers \subseteq Answers
    BY DEF Check, At, Sound, TypeOK, Turns, Owned, TurnInv
<1>2. /\ UNCHANGED <<pending, record, raised, raiser>> /\ hit \subseteq hit'
    BY DEF Check, Fault, durable, history
<1>3. \A t \in Sessions : raiser[t].of \in Dispatches \cup {NoDispatch}
    BY DEF Sound, TypeOK
<1>4. CASE Ends /\ UNCHANGED life
  <2>1. turn' = NoTurn
      BY <1>4 DEF Ends
  <2>2. TurnInv' /\ ContinueInv'
      BY <2>1 DEF TurnInv, ContinueInv
  <2>3. RecordInv' /\ WaitingIsResumable'
      BY <1>2, <1>4 DEF Owned, RecordInv, WaitingIsResumable
  <2>4. OwnerInv'
      BY <1>1, <1>2, <1>4, <2>1 DEF Owned, OwnerInv, Waits
  <2> QED BY <2>2, <2>3, <2>4 DEF Owned
<1>5. CASE ~(Ends /\ UNCHANGED life)
  <2>1. /\ ~turn.aborted /\ UNCHANGED hit /\ \A a \in turn.answers : answer[a].review = pending[s]
        /\ IF r.review = pending[s]
           THEN /\ turn' = [turn EXCEPT !.step = "read", !.of = r.dispatch]
                /\ life' = [life EXCEPT ![r.dispatch] = "running"]
           ELSE turn' = [turn EXCEPT !.step = "read"] /\ UNCHANGED life
      BY <1>5 DEF Check, Report, history
  <2>2. pending[s] # 0
      BY <1>1, <2>1 DEF Sound, AnswerInv
  <2>3. r.dispatch \in Dispatches \cup {NoDispatch}
      BY <1>1 DEF Sound, TypeOK
  <2>4. /\ turn' \in Turns /\ turn'.session = s /\ turn'.answers = turn.answers /\ turn'.step = "read"
        /\ turn'.of = IF r.review = pending[s] THEN r.dispatch ELSE NoDispatch
      BY <1>1, <2>1, <2>3 DEF Turns, Steps
  <2>5. turn' # NoTurn
      BY <2>4, LifecycleAssumption
  <2>6. r.review = pending[s] => r.dispatch \in Dispatches
      BY <1>1, <2>2, <2>3 DEF Owned, RecordInv
  <2>7. /\ r.review = pending[s] => life'[r.dispatch] = "running"
        /\ \A d \in Dispatches : d # r.dispatch \/ r.review # pending[s] => life'[d] = life[d]
      BY <2>1, <2>6 DEF Sound, TypeOK
  <2>8. TurnInv'
      BY <1>1, <2>4, <2>5, <2>7 DEF TurnInv
  <2>9. RecordInv'
      BY <1>2, <2>7 DEF Owned, RecordInv
  <2>10. ContinueInv'
      BY <1>1, <1>2, <2>4, <2>5, <2>6, LifecycleAssumption DEF ContinueInv
  <2>11. \A d \in Dispatches : life'[d] = "waiting" => life[d] = "waiting"
      BY <2>6, <2>7
  <2>12. WaitingIsResumable'
      BY <1>2, <2>11 DEF Owned, WaitingIsResumable
  <2>13. OwnerInv'
    <3>1. SUFFICES ASSUME NEW t \in Sessions, pending[t] # 0, raiser[t].of # NoDispatch,
                          raiser[t].of \notin hit
                   PROVE  \/ Waits(raiser[t].of, t)'
                          \/ turn' # NoTurn /\ turn'.session = t /\ turn'.of = raiser[t].of
        BY <1>2, <2>1 DEF OwnerInv
    <3> DEFINE d == raiser[t].of
    <3>2. Waits(d, t)
        BY <1>1, <3>1 DEF Owned, OwnerInv
    <3>3. record[t].dispatch = d /\ record[t].review = pending[t]
        BY <3>2 DEF Waits, Record
    <3>4. CASE t = s
        BY <2>4, <2>5, <3>3, <3>4
    <3>5. CASE t # s
      <4>1. d # r.dispatch
          BY <1>1, <3>1, <3>3, <3>5 DEF Owned, RecordInv
      <4>2. life'[d] = life[d]
          BY <1>3, <2>7, <3>1, <4>1
      <4> QED BY <1>2, <3>2, <4>2 DEF Waits
    <3> QED BY <3>4, <3>5
  <2> QED BY <2>8, <2>9, <2>10, <2>12, <2>13 DEF Owned
<1> QED BY <1>4, <1>5

\* What every end of a dispatch's turn has in common: the others' reviews and
\* records stay, and so does what they report.
LEMMA SettleKeeps ==
    ASSUME Sound, Owned, turn # NoTurn, turn' = NoTurn, turn.of \in Dispatches,
           UNCHANGED <<pending, raised, raiser>>, hit \subseteq hit',
           \A t \in Sessions \ {turn.session} : record'[t] = record[t],
           \A d \in Dispatches \ {turn.of} : life'[d] = life[d],
           life'[turn.of] \notin {"new", "queued"},
           \A d \in Dispatches : life[d] = "waiting" => record[turn.session] # Record(pending[turn.session], d),
           record'[turn.session].review <= raised,
           record'[turn.session].review # 0 => record'[turn.session].dispatch # NoDispatch,
           \/ record'[turn.session] = record[turn.session]
           \/ record'[turn.session].dispatch \in {turn.of, NoDispatch},
           life'[turn.of] = "waiting" =>
               pending[turn.session] # 0 /\ record'[turn.session] = Record(pending[turn.session], turn.of),
           pending[turn.session] # 0 => turn.of \in hit' \/ life'[turn.of] = "waiting",
           pending[turn.session] # 0 =>
               raiser[turn.session].of \in {turn.of, NoDispatch} \cup hit
    PROVE  Owned'
<1> DEFINE s == turn.session
<1>1. s \in Sessions
    BY ReviewIsTyped
<1>2. \A t \in Sessions : raiser[t].of \in Dispatches \cup {NoDispatch}
    BY DEF Sound, TypeOK
<1>3. TurnInv' /\ ContinueInv'
    BY DEF TurnInv, ContinueInv
<1>4. \A t \in Sessions \ {s} : record[t].dispatch # turn.of
    BY <1>1, LifecycleAssumption DEF Owned, ContinueInv, RecordInv
<1>5. RecordInv'
    BY <1>1, <1>4, LifecycleAssumption DEF Owned, RecordInv
<1>6. WaitingIsResumable'
  <2> SUFFICES ASSUME NEW d \in Dispatches, life'[d] = "waiting"
               PROVE  \E t \in Sessions : pending[t] # 0 /\ record'[t] = Record(pending[t], d)
      BY DEF WaitingIsResumable, Record
  <2>1. CASE d = turn.of
      BY <1>1, <2>1
  <2>2. CASE d # turn.of
    <3>1. life[d] = "waiting"
        BY <2>2
    <3>2. PICK t \in Sessions : pending[t] # 0 /\ record[t] = Record(pending[t], d)
        BY <3>1 DEF Owned, WaitingIsResumable
    <3>3. t # s
        BY <3>1, <3>2
    <3> QED BY <3>2, <3>3
  <2> QED BY <2>1, <2>2
<1>7. OwnerInv'
  <2> SUFFICES ASSUME NEW t \in Sessions, pending[t] # 0, raiser[t].of # NoDispatch,
                      raiser[t].of \notin hit'
               PROVE  Waits(raiser[t].of, t)'
      BY DEF OwnerInv
  <2> DEFINE d == raiser[t].of
  <2>1. CASE t = s
      BY <2>1 DEF Waits
  <2>2. CASE t # s
    <3>1. Waits(d, t)
        BY <2>2 DEF Owned, OwnerInv
    <3>2. life[turn.of] = "running"
        BY LifecycleAssumption DEF Owned, TurnInv
    <3>3. d # turn.of /\ life'[d] = life[d]
        BY <1>2, <3>1, <3>2 DEF Waits
    <3> QED BY <2>2, <3>1, <3>3 DEF Waits
  <2> QED BY <2>1, <2>2
<1> QED BY <1>3, <1>5, <1>6, <1>7 DEF Owned

\* The review that is pending when a dispatch's turn ends is its own, or one
\* for which the record of the session was its own.
LEMMA SettleSees ==
    ASSUME Sound, Owned, turn # NoTurn, turn.of \in Dispatches
    PROVE  /\ \A d \in Dispatches : life[d] = "waiting" =>
                  record[turn.session] # Record(pending[turn.session], d)
           /\ pending[turn.session] # 0 =>
                  raiser[turn.session].of \in {turn.of, NoDispatch} \cup hit
<1> DEFINE s == turn.session
<1>1. s \in Sessions
    BY ReviewIsTyped
<1>2. life[turn.of] = "running"
    BY LifecycleAssumption DEF Owned, TurnInv
<1>3. ASSUME NEW d \in Dispatches, life[d] = "waiting", record[s] = Record(pending[s], d)
      PROVE  FALSE
  <2>1. record[s].dispatch = d /\ d # turn.of
      BY <1>2, <1>3 DEF Record
  <2>2. turn.answers = {}
      BY <2>1, LifecycleAssumption DEF Owned, ContinueInv
  <2>3. pending[s] # 0
    <3>1. PICK t \in Sessions : pending[t] # 0 /\ record[t] = Record(pending[t], d)
        BY <1>3 DEF Owned, WaitingIsResumable
    <3>2. t = s
        BY <1>1, <2>1, <3>1, LifecycleAssumption DEF Owned, RecordInv, Record
    <3> QED BY <3>1, <3>2
  <2> QED BY <1>3, <2>2, <2>3, LifecycleAssumption DEF Owned, ContinueInv, Record
<1>4. pending[s] # 0 => raiser[s].of \in {turn.of, NoDispatch} \cup hit
    BY <1>1, <1>3 DEF Owned, OwnerInv, Waits, Sound, TypeOK
<1> QED BY <1>3, <1>4

LEMMA SettleDispatchKeeps ==
    ASSUME Sound, Owned, SettleDispatch PROVE Owned'
<1> DEFINE d == turn.of
           s == turn.session
           review == IF turn.outcome = "waiting" THEN turn.seen
                     ELSE IF turn.outcome = "interrupted" THEN pending[s] ELSE 0
<1>1. /\ turn # NoTurn /\ turn \in Turns /\ d \in Dispatches /\ s \in Sessions /\ turn' = NoTurn
      /\ turn.step = "end" /\ turn.answers = {}
    BY ReviewIsTyped DEF SettleDispatch, Ends, Sound, TypeOK
<1>2. UNCHANGED <<pending, raised, raiser>> /\ hit \subseteq hit'
    BY DEF SettleDispatch, Fault, history
<1>3. /\ \A e \in Dispatches : life[e] = "waiting" => record[s] # Record(pending[s], e)
      /\ pending[s] # 0 => raiser[s].of \in {d, NoDispatch} \cup hit
    BY <1>1, SettleSees
<1>4. /\ turn.outcome = "waiting" => pending[s] # 0 /\ turn.seen = pending[s]
      /\ turn.outcome = "completed" => pending[s] = 0
      /\ turn.outcome = "failed" => d \in hit
      /\ turn.outcome \in {"completed", "waiting", "interrupted", "failed"}
    BY <1>1, LifecycleAssumption DEF Owned, TurnInv, Turns, Outcomes
<1>5. pending[s] <= raised /\ record[s].review <= raised
      /\ (record[s].review # 0 => record[s].dispatch # NoDispatch)
    BY <1>1 DEF Owned, RecordInv
<1>6. \/ /\ review # 0 /\ Save(s, Record(review, d)) /\ Report(d, "waiting")
      \/ review = 0 /\ Report(d, "over") /\ UNCHANGED <<record, history>>
      \/ Fault(d) /\ Report(d, "over") /\ UNCHANGED record
    BY DEF SettleDispatch
<1>7. CASE review # 0 /\ Save(s, Record(review, d)) /\ Report(d, "waiting")
  <2>1. review = pending[s]
      BY <1>4, <1>7
  <2>2. /\ record' = [record EXCEPT ![s] = Record(pending[s], d)]
        /\ life' = [life EXCEPT ![d] = "waiting"]
      BY <1>7, <2>1 DEF Save, Report
  <2>3. /\ record'[s] = Record(pending[s], d) /\ life'[d] = "waiting"
        /\ \A t \in Sessions \ {s} : record'[t] = record[t]
        /\ \A e \in Dispatches \ {d} : life'[e] = life[e]
      BY <1>1, <2>2 DEF Sound, TypeOK
  <2>4. record'[s].review = pending[s] /\ record'[s].dispatch = d /\ d # NoDispatch
      BY <1>1, <2>3, LifecycleAssumption DEF Record
  <2> QED BY <1>1, <1>2, <1>3, <1>5, <1>7, <2>1, <2>3, <2>4, SettleKeeps
<1>8. CASE review = 0 /\ Report(d, "over") /\ UNCHANGED <<record, history>>
  <2>1. life'[d] = "over" /\ \A e \in Dispatches \ {d} : life'[e] = life[e]
      BY <1>1, <1>8 DEF Report, Sound, TypeOK
  <2>2. pending[s] # 0 => d \in hit'
      BY <1>2, <1>4, <1>8
  <2> QED BY <1>1, <1>2, <1>3, <1>5, <1>8, <2>1, <2>2, SettleKeeps
<1>9. CASE Fault(d) /\ Report(d, "over") /\ UNCHANGED record
  <2>1. life'[d] = "over" /\ \A e \in Dispatches \ {d} : life'[e] = life[e]
      BY <1>1, <1>9 DEF Report, Sound, TypeOK
  <2>2. d \in hit'
      BY <1>1, <1>9, LifecycleAssumption DEF Fault
  <2> QED BY <1>1, <1>2, <1>3, <1>5, <1>9, <2>1, <2>2, SettleKeeps
<1> QED BY <1>6, <1>7, <1>8, <1>9

LEMMA SettleContinuationKeeps ==
    ASSUME Sound, Owned, SettleContinuation PROVE Owned'
<1> DEFINE d == turn.of
           s == turn.session
           review == IF turn.outcome = "waiting" THEN turn.seen
                     ELSE IF turn.outcome = "completed" THEN 0 ELSE pending[s]
<1>1. /\ turn # NoTurn /\ turn \in Turns /\ d \in Dispatches /\ s \in Sessions /\ turn' = NoTurn
      /\ turn.step = "end" /\ turn.answers # {}
    BY ReviewIsTyped DEF SettleContinuation, Continues, At, Ends, Sound, TypeOK
<1>2. UNCHANGED <<pending, raised, raiser>> /\ hit \subseteq hit'
    BY DEF SettleContinuation, Fault, history
<1>3. /\ \A e \in Dispatches : life[e] = "waiting" => record[s] # Record(pending[s], e)
      /\ pending[s] # 0 => raiser[s].of \in {d, NoDispatch} \cup hit
    BY <1>1, SettleSees
<1>4. /\ turn.outcome = "waiting" => pending[s] # 0 /\ turn.seen = pending[s]
      /\ turn.outcome = "completed" => pending[s] = 0
      /\ life[d] = "running"
    BY <1>1, LifecycleAssumption DEF Owned, TurnInv
<1>5. pending[s] <= raised /\ record[s].review <= raised /\ 0 <= raised
      /\ (record[s].review # 0 => record[s].dispatch # NoDispatch)
    BY <1>1, LifecycleAssumption DEF Owned, RecordInv, Sound, TypeOK
<1>6. review = pending[s]
    BY <1>4
<1>7. \/ review # 0 /\ Save(s, Record(review, d)) /\ Report(d, "waiting")
      \/ review = 0 /\ Save(s, NoRecord) /\ Report(d, "over")
      \/ Fault(d) /\ UNCHANGED <<record, life>>
    BY DEF SettleContinuation
<1>8. CASE review # 0 /\ Save(s, Record(review, d)) /\ Report(d, "waiting")
  <2>1. /\ record' = [record EXCEPT ![s] = Record(pending[s], d)]
        /\ life' = [life EXCEPT ![d] = "waiting"]
      BY <1>6, <1>8 DEF Save, Report
  <2>2. /\ record'[s] = Record(pending[s], d) /\ life'[d] = "waiting"
        /\ \A t \in Sessions \ {s} : record'[t] = record[t]
        /\ \A e \in Dispatches \ {d} : life'[e] = life[e]
      BY <1>1, <2>1 DEF Sound, TypeOK
  <2>3. record'[s].review = pending[s] /\ record'[s].dispatch = d /\ d # NoDispatch
      BY <1>1, <2>2, LifecycleAssumption DEF Record
  <2> QED BY <1>1, <1>2, <1>3, <1>5, <1>6, <1>8, <2>2, <2>3, SettleKeeps
<1>9. CASE review = 0 /\ Save(s, NoRecord) /\ Report(d, "over")
  <2>1. record' = [record EXCEPT ![s] = NoRecord] /\ life' = [life EXCEPT ![d] = "over"]
      BY <1>9 DEF Save, Report
  <2>2. /\ record'[s] = NoRecord /\ life'[d] = "over"
        /\ \A t \in Sessions \ {s} : record'[t] = record[t]
        /\ \A e \in Dispatches \ {d} : life'[e] = life[e]
      BY <1>1, <2>1 DEF Sound, TypeOK
  <2>3. record'[s].review = 0 /\ record'[s].dispatch = NoDispatch
      BY <2>2 DEF NoRecord
  <2> QED BY <1>1, <1>2, <1>3, <1>5, <1>6, <1>9, <2>2, <2>3, SettleKeeps
<1>10. CASE Fault(d) /\ UNCHANGED <<record, life>>
  <2>1. d \in hit'
      BY <1>1, <1>10, LifecycleAssumption DEF Fault
  <2> QED BY <1>1, <1>2, <1>3, <1>4, <1>5, <1>10, <2>1, SettleKeeps
<1> QED BY <1>7, <1>8, <1>9, <1>10

LEMMA SettleTalkKeeps ==
    ASSUME Sound, Owned, SettleTalk PROVE Owned'
<1>1. turn # NoTurn /\ turn.of = NoDispatch /\ turn' = NoTurn
    BY DEF SettleTalk, At, Ends
<1>2. UNCHANGED <<pending, record, life, raised, raiser, hit>>
    BY DEF SettleTalk, durable, history
<1>3. TurnInv' /\ ContinueInv'
    BY <1>1 DEF TurnInv, ContinueInv
<1>4. RecordInv' /\ WaitingIsResumable'
    BY <1>2 DEF Owned, RecordInv, WaitingIsResumable
<1>5. OwnerInv'
    BY <1>1, <1>2 DEF Owned, OwnerInv, Waits
<1> QED BY <1>3, <1>4, <1>5 DEF Owned

LEMMA CrashKeeps ==
    ASSUME Sound, Owned, Crash PROVE Owned'
<1>1. /\ turn' = NoTurn /\ UNCHANGED <<pending, record, raised, raiser>>
      /\ hit' = hit \cup {d \in Dispatches : life[d] = "running"}
      /\ \A d \in Dispatches :
            life'[d] = IF life[d] \in {"queued", "running"} THEN "over" ELSE life[d]
    BY DEF Crash, durable
<1>2. TurnInv' /\ ContinueInv'
    BY <1>1 DEF TurnInv, ContinueInv
<1>3. RecordInv' /\ WaitingIsResumable'
    BY <1>1 DEF Owned, RecordInv, WaitingIsResumable
<1>4. OwnerInv'
    BY <1>1, ReviewIsTyped, LifecycleAssumption DEF Owned, OwnerInv, Waits, TurnInv, Sound, TypeOK
<1> QED BY <1>2, <1>3, <1>4 DEF Owned

\* Without a stale gate every step leaves each pending review with its owner.
THEOREM OwnedNext == ~StaleGate /\ Sound /\ Owned /\ [Next]_vars => Owned'
<1> SUFFICES ASSUME ~StaleGate, Sound, Owned, [Next]_vars PROVE Owned'
    OBVIOUS
<1>1. CASE UNCHANGED vars
    BY <1>1, QuietSteps
<1>2. CASE \E d \in Dispatches : Dispatch(d) \/ StartDispatch(d)
    BY <1>2, QuietSteps, StartDispatchKeeps
<1>3. CASE \E a \in Answers : AskResume(a) \/ AnswerStep(a) \/ \E s \in Sessions : AskReview(a, s)
    BY <1>3, QuietSteps, AdmitKeeps DEF AnswerStep
<1>4. CASE Talk \/ RunFails \/ Interrupt \/ Check
    BY <1>4, TalkKeeps, TurnSteps, QuietSteps, CheckKeeps
<1>5. CASE TurnStep
    BY <1>5, TurnSteps, ConsumeKeeps, RaiseKeeps DEF TurnStep
<1>6. CASE Settle
    BY <1>6, SettleDispatchKeeps, SettleContinuationKeeps, SettleTalkKeeps DEF Settle
<1>7. CASE (\E s \in Sessions : SwitchSession(s)) \/ Close \/ Crash \/ Reopen
    BY <1>7, QuietSteps, CrashKeeps
<1> QED BY <1>1, <1>2, <1>3, <1>4, <1>5, <1>6, <1>7 DEF Next

\* Without a stale gate each pending review has an owner in every reachable
\* state.
THEOREM OwnedAlways == ASSUME ~StaleGate PROVE Spec => []Owned
<1>1. Sound /\ Owned /\ [Next]_vars => Owned'
    BY OwnedNext
<1> QED BY OwnedInit, SoundAlways, <1>1, PTL DEF Spec

\* A dispatch that says it waits can be resumed, also after a restart: its
\* session stops on a review and its record names that review and this
\* dispatch.  This is so unless the gate opens on a read from before a review,
\* which is the disagreement that the run DispatchTakeover shows.
THEOREM WhoWaitsIsResumed == ASSUME ~StaleGate PROVE Spec => []WaitingIsResumable
<1>1. Owned => WaitingIsResumable
    BY DEF Owned
<1> QED BY <1>1, OwnedAlways, PTL

\* While a review of a dispatch is open and its session idle, the dispatch waits
\* on it, whatever stopped its turn: a stop, a close, a reply or another review.
\* Only a crash or a failing save, read or run is an excuse.
THEOREM NoReviewIsForgotten == ASSUME ~StaleGate PROVE Spec => []ReviewsAreOwned
<1>1. Owned => ReviewsAreOwned
    BY DEF Owned, OwnerInv, Waits, ReviewsAreOwned, Busy
<1> QED BY <1>1, OwnedAlways, PTL
=============================================================================
