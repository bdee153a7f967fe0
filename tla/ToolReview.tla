---------------------------- MODULE ToolReview ----------------------------
(***************************************************************************)
(* How the tool calls of a Capability's subagent are reviewed              *)
(* (packages/pet-agent: agent/orchestrator/toolkitReviewMiddleware.ts with *)
(* interrupt/reviewInterrupt.ts, review/reviewResponseResolver.ts,         *)
(* review/globalReviewPolicy.ts, runtime/authorization.ts and              *)
(* autoReview/reviewAuthorizations.ts).                                    *)
(*                                                                         *)
(* The middleware's hook runs after every reply of the model that calls    *)
(* tools.  Grants of the session may cover a call; a reviewer model may    *)
(* authorize the rest; else the hook interrupts, and the whole task is run *)
(* again when the person has answered: with the mode the Host has by then, *)
(* a recorder built anew from the thread's grants, and every answer this   *)
(* interrupt has already had, in order.  This is a component: AgentRun     *)
(* starts and ends it.                                                     *)
(***************************************************************************)
EXTENDS Naturals, Sequences, SequencesExt

CONSTANTS
    Calls,          \* tool calls, told apart by their ids
    Batches,        \* the calls one reply of the model may make, in order
    Keys, NoKey,    \* tool name and authorization matcher
    KeyOf,          \* of a call; NoKey if its policy builds no matcher
    PolicyOf,       \* what the tool's policy asks: "allow", "block", "review"
    Reusable,       \* calls whose policy lets a reviewer's grant be used again
    Trusted,        \* calls canAutoApprove lets through in auto mode
    MaxReplies,     \* replies of one task that call tools (99)
    MaxAnswers      \* answers one interrupt may have

ASSUME ReviewAssumption ==
    /\ NoKey \notin Keys
    /\ KeyOf \in [Calls -> Keys \cup {NoKey}]
    /\ PolicyOf \in [Calls -> {"allow", "block", "review"}]
    /\ Batches \subseteq Seq(Calls)
    /\ Reusable \subseteq Calls /\ Trusted \subseteq Calls
    /\ MaxReplies \in Nat /\ MaxAnswers \in Nat

VARIABLES
    grants,     \* sessionToolAuthorizations of the thread's checkpoint
    step,       \* where the subagent is
    ctxMode,    \* the policy mode this invocation of the graph was given
    active,     \* the grants its recorder holds
    batch,      \* the calls of the last reply
    memo,       \* the policy decision the interrupted hook has stored
    answers,    \* the values this interrupt was resumed with
    shown,      \* the reviews it shows
    replies     \* replies of this task that called tools

\* What people and the reviewer have decided, for the properties.
VARIABLES
    said,       \* calls of the batch a person approved
    declined,   \* a person declined the batch
    judged,     \* calls of the batch let through without a person
    under,      \* modes the batch was reviewed under
    vetted,     \* keys of calls the reviewer let through
    consent     \* of a key a person authorized: where the grant is

asked == <<said, declined, judged, under>>
decided == <<asked, vetted, consent>>
reviewVars == <<grants, step, ctxMode, active, batch, memo, answers, shown,
                replies, decided>>

Modes == {"require", "auto"}
Sources == {"none", "auto_review", "human"}
NoGrants == [k \in Keys |-> "none"]
Verdicts == {"approve", "authorize", "reject", "respond"}

\* The answers to what is shown that the Host passes on: cancel, or decisions
\* of which only the last may decline, for all reviews unless it does.
Cancel == <<>>
Approvals == {"approve", "authorize"}
Answers(rs) ==
    {Cancel} \cup {v \in UNION {[1 .. n -> Verdicts] : n \in 1 .. Len(rs)} :
        /\ \A i \in 1 .. Len(v) - 1 : v[i] \in Approvals
        /\ v[Len(v)] \in Approvals => Len(v) = Len(rs)
        /\ \A i \in DOMAIN v : v[i] = "authorize" => KeyOf[rs[i]] # NoKey}

ReviewTypeOK ==
    /\ ctxMode \in Modes \cup {"none"}
    /\ grants \in [Keys -> Sources] /\ active \in [Keys -> Sources]
    /\ step \in {"off", "model", "hook", "waiting", "tools",
                 "finished", "reject", "cancel"}
    /\ batch \in Seq(Calls) /\ shown \in Seq(Calls)
    /\ memo \in {"none", "require"}
    /\ answers \in Seq([to : Seq(Calls), says : Seq(Verdicts)])
    /\ replies \in 0 .. MaxReplies
    /\ said \in SUBSET Calls /\ declined \in BOOLEAN
    /\ judged \in SUBSET Calls /\ under \in SUBSET Modes /\ vetted \in SUBSET Keys
    /\ consent \in [Keys -> {"none", "given", "kept", "lost"}]

\* The elements of s in T, in their order.
Only(s, T) ==
    LET upTo[n \in 0 .. Len(s)] ==
            IF n = 0 THEN <<>>
            ELSE IF s[n] \in T THEN Append(upTo[n - 1], s[n]) ELSE upTo[n - 1]
    IN  upTo[Len(s)]

-----------------------------------------------------------------------------
\* Grants: mergeToolAuthorizations and findToolAuthorization.

\* A person's grant replaces the reviewer's, never the other way round.
Merge(old, new) ==
    [k \in Keys |-> IF old[k] = "none" \/ new[k] = "human" THEN new[k] ELSE old[k]]

GrantsFor(cs, source) ==
    [k \in Keys |-> IF \E c \in cs : KeyOf[c] = k THEN source ELSE "none"]

\* Bug: a reviewer's grant covers in any mode.
CoveredInAnyMode(c) == KeyOf[c] # NoKey /\ active[KeyOf[c]] # "none"

\* A grant the mode allows; the reviewer's only where the policy reuses it.
Covered(c) ==
    /\ KeyOf[c] # NoKey
    /\ \/ active[KeyOf[c]] = "human"
       \/ active[KeyOf[c]] = "auto_review" /\ ctxMode = "auto" /\ c \in Reusable

-----------------------------------------------------------------------------
\* prepareToolkitReviews and the policy.

Blocked == \E c \in ToSet(batch) : PolicyOf[c] = "block" /\ ~Covered(c)
Reviews == Only(batch, {c \in Calls : PolicyOf[c] = "review" /\ ~Covered(c)})
Unresolved == IF ctxMode = "auto" THEN Only(Reviews, Calls \ Trusted) ELSE Reviews

\* The toolkitReviewPolicy task: made once for an interrupt; the reviewer
\* model, which may fail, decides only in auto mode.
Decisions ==
    IF memo = "require" THEN {"require"}
    ELSE IF Unresolved = <<>> THEN {"authorize"}
    ELSE IF ctxMode = "auto" THEN {"authorize", "require"} ELSE {"require"}

\* resolveHumanReviewBatchResponse: by position and review id, no more than
\* were asked; an option to authorize is offered with a matcher; approving
\* takes all of them.
Approves(a) == a.says # Cancel /\ ToSet(a.says) \subseteq Approvals
Fits(rs, a) ==
    \/ a.says = Cancel
    \/ /\ Len(a.says) <= Len(rs)
       /\ \A i \in DOMAIN a.says :
             a.to[i] = rs[i] /\ (a.says[i] = "authorize" => KeyOf[rs[i]] # NoKey)
       /\ Approves(a) => Len(a.says) = Len(rs)

Authorized(a) == {a.to[i] : i \in {j \in DOMAIN a.says : a.says[j] = "authorize"}}

\* Bug: the first decision speaks for all.
OutcomeOfFirst(a) ==
    IF a.says = Cancel THEN "cancel"
    ELSE CASE a.says[1] \in Approvals -> "tools"
           [] a.says[1] = "respond" -> "model"
           [] OTHER -> "reject"

\* What an answer that fits does: its first decision that is no approval.
Outcome(a) ==
    IF a.says = Cancel THEN "cancel"
    ELSE IF Approves(a) THEN "tools"
    ELSE LET first == CHOOSE i \in DOMAIN a.says :
                          /\ a.says[i] \notin Approvals
                          /\ \A j \in 1 .. i - 1 : a.says[j] \in Approvals
         IN  IF a.says[first] = "respond" THEN "model" ELSE "reject"

-----------------------------------------------------------------------------
\* The task, which AgentRun starts and ends.

\* An invocation of the graph is given the Host's mode, which may change at any
\* time (updateToolAuthorizationMode): a running one does not see it.
Invocation == ctxMode' \in Modes

NewBatch(modes) == said' = {} /\ declined' = FALSE /\ judged' = {} /\ under' = modes

CapabilityStarts ==
    /\ step = "off" /\ step' = "model"
    /\ active' = grants
    /\ UNCHANGED <<grants, ctxMode, batch, memo, answers, shown, replies, decided>>

\* The task is gone, and with it what only its recorder knew.
Loses == [k \in Keys |-> IF consent[k] = "given" THEN "lost" ELSE consent[k]]

Gone ==
    /\ step' = "off"
    /\ active' = NoGrants /\ NewBatch({})
    /\ batch' = <<>> /\ memo' = "none" /\ answers' = <<>> /\ shown' = <<>> /\ replies' = 0
    /\ UNCHANGED <<ctxMode, vetted>>

\* Bug: the task returns the grants it was given.
CommitsTheGiven ==
    /\ grants' = grants
    /\ consent' = [k \in Keys |-> IF consent[k] = "given" THEN "kept" ELSE consent[k]]

\* The task returned: its recorder's grants replace the thread's.
Commits ==
    /\ grants' = active
    /\ consent' = [k \in Keys |-> IF consent[k] = "given" THEN "kept" ELSE consent[k]]

CapabilityEnds == step \in {"finished", "reject", "cancel"} /\ Gone /\ Commits

\* Cancelled, failed, or the process died.
CapabilityBreaks == Gone /\ consent' = Loses /\ UNCHANGED grants

-----------------------------------------------------------------------------
\* The subagent.

\* The last reply of its budget calls no tools (createSubagentBudgetMiddleware).
ModelCalls ==
    /\ step = "model" /\ step' = "hook"
    /\ replies < MaxReplies /\ replies' = replies + 1
    /\ batch' \in Batches /\ NewBatch({ctxMode})
    /\ UNCHANGED <<grants, ctxMode, active, memo, answers, shown, vetted, consent>>

ModelFinishes ==
    /\ step = "model" /\ step' = "finished"
    /\ UNCHANGED <<grants, ctxMode, active, batch, memo, answers, shown, replies,
                   decided>>

\* The hook is over: nothing of its interrupt is left.
HookEnds(to) ==
    /\ step = "hook" /\ step' = to
    /\ memo' = "none" /\ answers' = <<>> /\ shown' = <<>>
    /\ UNCHANGED <<grants, ctxMode, batch, replies>>

\* A blocked call stops the batch; the model's notice is the task's last word.
HookBlocks == Blocked /\ HookEnds("finished") /\ UNCHANGED <<active, decided>>

HookAllows ==
    /\ ~Blocked /\ Reviews = <<>> /\ HookEnds("tools")
    /\ UNCHANGED <<active, decided>>

\* Authorized without a person: only what the reviewer judged may be granted.
HookAuthorizes ==
    /\ ~Blocked /\ Reviews # <<>> /\ "authorize" \in Decisions
    /\ HookEnds("tools")
    /\ active' = IF ctxMode = "auto"
                 THEN Merge(active, GrantsFor(ToSet(Unresolved) \cap Reusable, "auto_review"))
                 ELSE active
    /\ judged' = ToSet(Reviews)
    /\ vetted' = vetted \cup ({KeyOf[c] : c \in ToSet(Unresolved)} \ {NoKey})
    /\ UNCHANGED <<said, declined, under, consent>>

\* The first of the answers that fits what is asked now.
Taken == {i \in DOMAIN answers : /\ Fits(Reviews, answers[i])
                                 /\ \A j \in 1 .. i - 1 : ~Fits(Reviews, answers[j])}

HookSettles ==
    /\ ~Blocked /\ Reviews # <<>> /\ "require" \in Decisions
    /\ \E i \in Taken :
          LET a == answers[i]
              keys == {KeyOf[c] : c \in Authorized(a)}
          IN  /\ HookEnds(Outcome(a))
              /\ IF Approves(a)
                 THEN /\ active' = Merge(active, GrantsFor(Authorized(a), "human"))
                      /\ consent' = [k \in Keys |->
                             IF k \in keys THEN "given" ELSE consent[k]]
                 ELSE UNCHANGED <<active, consent>>
    /\ UNCHANGED <<asked, vetted>>

HookInterrupts ==
    /\ ~Blocked /\ Reviews # <<>> /\ "require" \in Decisions /\ Taken = {}
    /\ step = "hook" /\ step' = "waiting"
    /\ memo' = "require" /\ shown' = Reviews
    /\ active' = NoGrants /\ consent' = Loses
    /\ UNCHANGED <<grants, ctxMode, batch, answers, replies, asked, vetted>>

ToolsRun ==
    /\ step = "tools" /\ step' = "model"
    /\ batch' = <<>> /\ NewBatch({})
    /\ UNCHANGED <<grants, ctxMode, active, memo, answers, shown, replies,
                   vetted, consent>>

SubagentStep ==
    \/ ModelCalls \/ ModelFinishes \/ ToolsRun
    \/ HookBlocks \/ HookAllows \/ HookAuthorizes \/ HookSettles \/ HookInterrupts

-----------------------------------------------------------------------------
\* The person and the Host.

\* Command({ resume }): the task is run again from its start; the subagent
\* goes on at the hook that interrupted.
Resume ==
    /\ step = "waiting" /\ step' = "hook"
    /\ \E v \in Answers(shown) :
          LET a == [to |-> SubSeq(shown, 1, Len(v)), says |-> v]
          IN  /\ answers' = Append(answers, a)
              /\ said' = said \cup {shown[i] : i \in {j \in DOMAIN v : v[j] \in Approvals}}
              /\ declined' = ~Approves(a)
    /\ Len(answers) < MaxAnswers
    /\ Invocation /\ active' = grants /\ under' = under \cup {ctxMode'}
    /\ UNCHANGED <<grants, batch, memo, shown, replies, judged, vetted, consent>>

ReviewInit ==
    /\ grants = NoGrants /\ step = "off" /\ ctxMode = "none" /\ active = NoGrants
    /\ batch = <<>> /\ memo = "none" /\ answers = <<>> /\ shown = <<>> /\ replies = 0
    /\ said = {} /\ declined = FALSE /\ judged = {} /\ under = {} /\ vetted = {}
    /\ consent = [k \in Keys |-> "none"]

-----------------------------------------------------------------------------
\* What the review promises.

\* A tool whose policy asks for a review runs only if a person approved that
\* call or authorized its key, or the reviewer or the toolkit's rule let that
\* call through, or the mode is auto and the reviewer let a call of its key
\* through before (prepareToolkitToolReview, resolveGlobalReviewBatchPolicy).
NothingRunsUnasked ==
    step = "tools" =>
        \A c \in ToSet(batch) : PolicyOf[c] = "review" =>
            \/ c \in said \cup judged
            \/ KeyOf[c] # NoKey /\ consent[KeyOf[c]] \in {"given", "kept"}
            \/ ctxMode = "auto" /\ c \in Reusable /\ KeyOf[c] \in vetted

\* A batch a person declined does not run, unless the Host's mode was changed
\* while it waited: the answers are then read, from the first, against what is
\* left to ask (ReviewInterrupt.run, toolAuthorizationsForGlobalPolicy).
RefusalsStand == step = "tools" /\ declined => under = Modes

\* A person is not asked again for what they authorized in a task that has
\* returned, in whatever mode, and whatever the reviewer granted since
\* (mergeToolAuthorizations, sessionToolAuthorizations' reducer).
GrantsAreRemembered ==
    step = "waiting" =>
        \A c \in ToSet(shown) : KeyOf[c] # NoKey => consent[KeyOf[c]] # "kept"

=============================================================================
