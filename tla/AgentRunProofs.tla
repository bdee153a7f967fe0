--------------------------- MODULE AgentRunProofs ---------------------------
(***************************************************************************)
(* Proofs about AgentRun and the review of tool calls it composes: what an *)
(* item's executions and acceptances have to do with each other, and that  *)
(* no tool runs unreviewed.                                                *)
(*                                                                         *)
(* A step of the system is a move of the review and a step of the run      *)
(* around it, so the invariant is in three parts: ReviewInv is kept by     *)
(* every move of a review, RunInv by every step of the run, and LinkInv    *)
(* says that a task lives as long as its delegation, which is what makes   *)
(* the steps of the run moves of the review.                               *)
(***************************************************************************)
EXTENDS AgentRun, TLAPS, WellFoundedInduction

-----------------------------------------------------------------------------
\* Sequences.

\* Induction over the numbers, for a set of them.
LEMMA NatSetInduction ==
    ASSUME NEW S \in SUBSET Nat, 0 \in S, \A n \in S : n + 1 \in S
    PROVE  S = Nat
  <1>1. SUFFICES ASSUME NEW x0 \in Nat, x0 \notin S PROVE FALSE
    OBVIOUS
  <1>2. IsWellFoundedOn(OpToRel(<, Nat), Nat)
    BY NatLessThanWellFounded
  <1>3. PICK x \in Nat \ S : \A y \in Nat \ S : ~(<<y, x>> \in OpToRel(<, Nat))
    BY <1>1, <1>2, WFMin
  <1>4. x \in Nat /\ x \notin S
    BY <1>3
  <1>5. x # 0 /\ x - 1 \in Nat /\ x - 1 < x
    BY <1>4
  <1>6. x - 1 \in S
    BY <1>3, <1>5 DEF OpToRel
  <1>7. (x - 1) + 1 = x
    BY <1>4
  <1> QED BY <1>4, <1>6, <1>7

\* A number of a set has a least one before it.
LEMMA LeastOf ==
    ASSUME NEW S \in SUBSET Nat, NEW n \in S
    PROVE  \E m \in S : \A k \in S : m <= k
  <1>1. IsWellFoundedOn(OpToRel(<, Nat), Nat)
    BY NatLessThanWellFounded
  <1>2. PICK m \in S : \A k \in S : ~(<<k, m>> \in OpToRel(<, Nat))
    BY <1>1, WFMin
  <1>3. \A k \in S : m <= k
    <2> TAKE k \in S
    <2>1. k \in Nat /\ m \in Nat /\ ~(k < m)
      BY <1>2 DEF OpToRel
    <2> QED BY <2>1
  <1> QED BY <1>3

\* The function that Only is computed by.
Recurs(f, s, T, n) ==
    f = [i \in 0 .. n |-> IF i = 0 THEN <<>>
                          ELSE IF s[i] \in T THEN Append(f[i - 1], s[i]) ELSE f[i - 1]]

LEMMA RecursExists ==
    ASSUME NEW s, NEW T, NEW n \in Nat
    PROVE  \E f : Recurs(f, s, T, n)
  <1> DEFINE P == {m \in Nat : \E f : Recurs(f, s, T, m)}
  <1>1. 0 \in P
    <2> DEFINE f == [i \in 0 .. 0 |-> <<>>]
    <2>1. Recurs(f, s, T, 0)
      BY DEF Recurs
    <2> QED BY <2>1
  <1>2. ASSUME NEW m \in P PROVE m + 1 \in P
    <2>1. PICK f : Recurs(f, s, T, m)
      OBVIOUS
    <2> DEFINE x == IF s[m + 1] \in T THEN Append(f[m], s[m + 1]) ELSE f[m]
               g == [i \in 0 .. (m + 1) |-> IF i = m + 1 THEN x ELSE f[i]]
    <2>2. Recurs(g, s, T, m + 1)
      <3> SUFFICES ASSUME NEW i \in 0 .. (m + 1)
                   PROVE  g[i] = IF i = 0 THEN <<>>
                          ELSE IF s[i] \in T THEN Append(g[i - 1], s[i]) ELSE g[i - 1]
        BY Zenon DEF Recurs
      <3>1. CASE i = 0
        BY <2>1, <3>1 DEF Recurs
      <3>2. CASE i = m + 1
        <4>1. m \in Nat /\ i # 0 /\ g[i - 1] = f[m] /\ g[i] = x
          BY <3>2
        <4> QED BY <3>2, <4>1
      <3>3. CASE i \in 1 .. m
        <4>0. m \in Nat /\ i # 0 /\ i # m + 1 /\ i - 1 # m + 1
              /\ i \in 0 .. m /\ i - 1 \in 0 .. (m + 1)
          BY <3>3
        <4>1. f[i] = IF s[i] \in T THEN Append(f[i - 1], s[i]) ELSE f[i - 1]
          <5> HIDE DEF g
          <5> QED BY <2>1, <4>0 DEF Recurs
        <4>2. g[i] = f[i] /\ g[i - 1] = f[i - 1]
          BY <4>0, Zenon
        <4> HIDE DEF g
        <4> QED BY <4>0, <4>1, <4>2, Zenon
      <3> QED BY <3>1, <3>2, <3>3
    <2>3. m + 1 \in Nat
      OBVIOUS
    <2> QED BY <2>2, <2>3
  <1>3. P = Nat
    BY <1>1, <1>2, NatSetInduction
  <1> QED BY <1>3

LEMMA OnlyRecurs ==
    ASSUME NEW S, NEW s \in Seq(S), NEW T
    PROVE  \E f : Recurs(f, s, T, Len(s)) /\ Only(s, T) = f[Len(s)]
  <1> DEFINE f == CHOOSE f : Recurs(f, s, T, Len(s))
  <1>1. Recurs(f, s, T, Len(s))
    BY RecursExists
  <1>2. Only(s, T) = f[Len(s)]
    BY DEF Only, Recurs
  <1> QED BY <1>1, <1>2

\* r is the elements of T among the first m of s.
Picked(r, s, S, T, m) ==
    /\ r \in Seq(S)
    /\ \A i \in 1 .. Len(r) : \E j \in 1 .. m : r[i] = s[j] /\ s[j] \in T
    /\ \A j \in 1 .. m : s[j] \in T => \E i \in 1 .. Len(r) : r[i] = s[j]

LEMMA PickedStep ==
    ASSUME NEW S, NEW T, NEW s \in Seq(S), NEW m \in Nat, m + 1 <= Len(s),
           NEW r, Picked(r, s, S, T, m)
    PROVE  /\ s[m + 1] \in T => Picked(Append(r, s[m + 1]), s, S, T, m + 1)
           /\ s[m + 1] \notin T => Picked(r, s, S, T, m + 1)
  <1> DEFINE d == s[m + 1]
             q == Append(r, d)
  <1>1. /\ d \in S /\ r \in Seq(S) /\ m + 1 \in 1 .. (m + 1)
        /\ \A j \in 1 .. m : j \in 1 .. (m + 1)
        /\ \A j \in 1 .. (m + 1) : j \in 1 .. m \/ j = m + 1
    BY DEF Picked
  <1>2. /\ q \in Seq(S) /\ Len(q) = Len(r) + 1 /\ q[Len(r) + 1] = d
        /\ \A i \in 1 .. Len(r) : q[i] = r[i]
        /\ Len(r) \in Nat
    BY <1>1
  <1>3. /\ \A i \in 1 .. Len(r) : i \in 1 .. Len(q)
        /\ \A i \in 1 .. Len(q) : i \in 1 .. Len(r) \/ i = Len(r) + 1
        /\ Len(r) + 1 \in 1 .. Len(q)
    BY <1>2
  <1> HIDE DEF q, d
  <1>4. d = s[m + 1]
    BY DEF d
  <1>5. ASSUME d \in T PROVE Picked(q, s, S, T, m + 1)
    <2>1. ASSUME NEW i \in 1 .. Len(q)
          PROVE  \E j \in 1 .. (m + 1) : q[i] = s[j] /\ s[j] \in T
      <3>1. CASE i = Len(r) + 1
        BY <1>1, <1>2, <1>4, <1>5, <3>1, Zenon
      <3>2. CASE i \in 1 .. Len(r)
        <4>1. PICK j \in 1 .. m : r[i] = s[j] /\ s[j] \in T
          BY <3>2, Zenon DEF Picked
        <4> QED BY <1>1, <1>2, <3>2, <4>1, Zenon
      <3> QED BY <1>3, <2>1, <3>1, <3>2, Zenon
    <2>2. ASSUME NEW j \in 1 .. (m + 1), s[j] \in T
          PROVE  \E i \in 1 .. Len(q) : q[i] = s[j]
      <3>1. CASE j = m + 1
        BY <1>2, <1>3, <1>4, <3>1, Zenon
      <3>2. CASE j \in 1 .. m
        <4>1. PICK i \in 1 .. Len(r) : r[i] = s[j]
          BY <2>2, <3>2, Zenon DEF Picked
        <4> QED BY <1>2, <1>3, <4>1, Zenon
      <3> QED BY <1>1, <2>2, <3>1, <3>2, Zenon
    <2> QED BY <1>2, <2>1, <2>2, Zenon DEF Picked
  <1>6. ASSUME d \notin T PROVE Picked(r, s, S, T, m + 1)
    BY <1>1, <1>4, <1>6, Zenon DEF Picked
  <1> QED BY <1>4, <1>5, <1>6, Zenon DEF q

\* Only(s, T) is a sequence of the elements of s that are in T.
LEMMA OnlyFacts ==
    ASSUME NEW S, NEW s \in Seq(S), NEW T
    PROVE  /\ Only(s, T) \in Seq(S)
           /\ \A i \in 1 .. Len(Only(s, T)) :
                 \E j \in 1 .. Len(s) : Only(s, T)[i] = s[j] /\ s[j] \in T
           /\ \A j \in 1 .. Len(s) : s[j] \in T =>
                 \E i \in 1 .. Len(Only(s, T)) : Only(s, T)[i] = s[j]
  <1>1. PICK f : Recurs(f, s, T, Len(s)) /\ Only(s, T) = f[Len(s)]
    BY OnlyRecurs
  <1>0. Len(s) \in Nat /\ 1 .. 0 = {} /\ Len(<<>>) = 0 /\ <<>> \in Seq(S)
    OBVIOUS
  <1> DEFINE P == {m \in Nat : m <= Len(s) => Picked(f[m], s, S, T, m)}
  <1>2. 0 \in P
    <2>1. f[0] = <<>>
      BY <1>0, <1>1 DEF Recurs
    <2>2. Picked(<<>>, s, S, T, 0)
      BY <1>0, Zenon DEF Picked
    <2> QED BY <2>1, <2>2
  <1>3. ASSUME NEW m \in P PROVE m + 1 \in P
    <2>0. m \in Nat /\ m + 1 \in Nat
      OBVIOUS
    <2> SUFFICES ASSUME m + 1 <= Len(s) PROVE Picked(f[m + 1], s, S, T, m + 1)
      BY <2>0
    <2>1. Picked(f[m], s, S, T, m)
      BY <1>0, <2>0
    <2>2. m + 1 \in 0 .. Len(s) /\ m + 1 # 0 /\ (m + 1) - 1 = m
      BY <1>0, <2>0
    <2>3. f[m + 1] = IF s[m + 1] \in T THEN Append(f[(m + 1) - 1], s[m + 1]) ELSE f[(m + 1) - 1]
      <3> HIDE DEF P
      <3> DEFINE k == m + 1
      <3>1. k \in 0 .. Len(s) /\ k # 0
        BY <2>2
      <3> HIDE DEF k
      <3>2. f[k] = IF s[k] \in T THEN Append(f[k - 1], s[k]) ELSE f[k - 1]
        BY <1>1, <3>1, Zenon DEF Recurs
      <3> QED BY <3>2 DEF k
    <2> QED BY <2>0, <2>1, <2>2, <2>3, PickedStep
  <1>4. P = Nat
    <2>1. P \in SUBSET Nat
      OBVIOUS
    <2> HIDE DEF P
    <2> QED BY <1>2, <1>3, <2>1, NatSetInduction
  <1>5. Picked(f[Len(s)], s, S, T, Len(s))
    BY <1>0, <1>4
  <1> QED BY <1>1, <1>5 DEF Picked

-----------------------------------------------------------------------------
\* Elements of sequences.

LEMMA ElementIs ==
    ASSUME NEW S, NEW s \in Seq(S), NEW i \in 1 .. Len(s) PROVE s[i] \in S
  OBVIOUS

LEMMA AppendedIs ==
    ASSUME NEW S, NEW s \in Seq(S), NEW d \in S
    PROVE  /\ Append(s, d) \in Seq(S) /\ Append(s, d) # <<>>
           /\ Len(Append(s, d)) = Len(s) + 1 /\ Append(s, d)[Len(s) + 1] = d
           /\ \A i \in 1 .. Len(s) : Append(s, d)[i] = s[i]
           /\ \A i \in 1 .. Len(Append(s, d)) : i \in 1 .. Len(s) \/ i = Len(s) + 1
           /\ Len(s) \in Nat
  <1> DEFINE q == Append(s, d)
  <1>1. Len(s) \in Nat /\ q \in Seq(S) /\ Len(q) = Len(s) + 1 /\ q[Len(s) + 1] = d
    OBVIOUS
  <1>2. \A i \in 1 .. Len(s) : q[i] = s[i]
    OBVIOUS
  <1> HIDE DEF q
  <1>3. \A i \in 1 .. Len(q) : i \in 1 .. Len(s) \/ i = Len(s) + 1
    BY <1>1
  <1>4. q # <<>>
    BY <1>1
  <1> QED BY <1>1, <1>2, <1>3, <1>4, Zenon DEF q

LEMMA ElementsOf ==
    ASSUME NEW S, NEW s \in Seq(S)
    PROVE  /\ ToSet(s) \subseteq S
           /\ \A i \in 1 .. Len(s) : s[i] \in ToSet(s)
           /\ \A x \in ToSet(s) : \E i \in 1 .. Len(s) : s[i] = x
           /\ s = <<>> <=> ToSet(s) = {}
           /\ DOMAIN s = 1 .. Len(s) /\ Len(s) \in Nat
  <1>1. DOMAIN s = 1 .. Len(s) /\ Len(s) \in Nat
    OBVIOUS
  <1>2. /\ \A i \in 1 .. Len(s) : s[i] \in ToSet(s)
        /\ \A x \in ToSet(s) : \E i \in 1 .. Len(s) : s[i] = x
    BY <1>1, Zenon DEF ToSet
  <1>3. \A i \in 1 .. Len(s) : s[i] \in S
    OBVIOUS
  <1>4. ToSet(s) \subseteq S
    BY <1>2, <1>3, Zenon
  <1>5. ASSUME ToSet(s) = {} PROVE s = <<>>
    <2>1. ~(1 \in 1 .. Len(s))
      BY <1>2, <1>5, Zenon
    <2>2. Len(s) = 0
      BY <1>1, <2>1
    <2> QED BY <2>2
  <1>6. ASSUME s = <<>> PROVE ToSet(s) = {}
    BY <1>6 DEF ToSet
  <1> QED BY <1>1, <1>2, <1>4, <1>5, <1>6, Zenon

LEMMA OnlyElements ==
    ASSUME NEW S, NEW s \in Seq(S), NEW T
    PROVE  Only(s, T) \in Seq(S) /\ ToSet(Only(s, T)) = ToSet(s) \cap T
  <1>1. Only(s, T) \in Seq(S)
    BY OnlyFacts
  <1>2. ASSUME NEW x \in ToSet(Only(s, T)) PROVE x \in ToSet(s) \cap T
    <2>1. PICK i \in 1 .. Len(Only(s, T)) : Only(s, T)[i] = x
      BY <1>1, <1>2, ElementsOf, Zenon
    <2>2. PICK j \in 1 .. Len(s) : Only(s, T)[i] = s[j] /\ s[j] \in T
      BY OnlyFacts, Zenon
    <2> QED BY <2>1, <2>2, ElementsOf, Zenon
  <1>3. ASSUME NEW x \in ToSet(s) \cap T PROVE x \in ToSet(Only(s, T))
    <2>1. PICK j \in 1 .. Len(s) : s[j] = x
      BY <1>3, ElementsOf, Zenon
    <2>2. PICK i \in 1 .. Len(Only(s, T)) : Only(s, T)[i] = s[j]
      <3>1. s[j] \in T
        BY <1>3, <2>1, Zenon
      <3>2. \A k \in 1 .. Len(s) : s[k] \in T =>
               \E i \in 1 .. Len(Only(s, T)) : Only(s, T)[i] = s[k]
        BY OnlyFacts
      <3> QED BY <3>1, <3>2, Zenon
    <2> QED BY <1>1, <2>1, <2>2, ElementsOf, Zenon
  <1> QED BY <1>1, <1>2, <1>3, Zenon

-----------------------------------------------------------------------------
\* The review of tool calls.

\* A grant of g covers c in mode m; what a batch b then leaves to ask.
CoveredBy(g, m, c) ==
    /\ KeyOf[c] # NoKey
    /\ \/ g[KeyOf[c]] = "human"
       \/ g[KeyOf[c]] = "auto_review" /\ m = "auto" /\ c \in Reusable
ToAsk(b, g, m) == Only(b, {c \in Calls : PolicyOf[c] = "review" /\ ~CoveredBy(g, m, c)})

LEMMA ReviewsAsk == Reviews = ToAsk(batch, active, ctxMode)
  BY Zenon DEF Reviews, ToAsk, Covered, CoveredBy

LEMMA AskedElements ==
    ASSUME NEW b \in Seq(Calls), NEW g, NEW m
    PROVE  /\ ToAsk(b, g, m) \in Seq(Calls)
           /\ ToSet(ToAsk(b, g, m)) =
                 {c \in ToSet(b) : PolicyOf[c] = "review" /\ ~CoveredBy(g, m, c)}
  <1> DEFINE T == {c \in Calls : PolicyOf[c] = "review" /\ ~CoveredBy(g, m, c)}
  <1>1. ToAsk(b, g, m) = Only(b, T)
    BY Zenon DEF ToAsk
  <1>2. ToSet(b) \subseteq Calls
    BY ElementsOf, Zenon
  <1>3. ToSet(b) \cap T = {c \in ToSet(b) : PolicyOf[c] = "review" /\ ~CoveredBy(g, m, c)}
    BY <1>2, Zenon
  <1> HIDE DEF T
  <1>4. Only(b, T) \in Seq(Calls) /\ ToSet(Only(b, T)) = ToSet(b) \cap T
    BY OnlyElements
  <1> QED BY <1>1, <1>3, <1>4, Zenon

\* What the grants of a thread, the recorder's and the decisions have to do
\* with each other.
GrantInv ==
    /\ \A k \in Keys : grants[k] = "human" <=> consent[k] = "kept"
    /\ \A k \in Keys : active[k] = "human" => consent[k] \in {"given", "kept"}
    /\ \A k \in Keys : consent[k] = "given" => active[k] = "human"
    /\ \A k \in Keys : "auto_review" \in {grants[k], active[k]} => k \in vetted
    /\ step \notin {"off", "waiting"} =>
          \A k \in Keys : /\ grants[k] = "human" => active[k] = "human"
                          /\ grants[k] # "none" => active[k] # "none"
    /\ step \in {"off", "waiting"} => active = NoGrants

\* The hook, its interrupt and the answers to it.
InterruptInv ==
    /\ answers # <<>> => memo = "require"
    /\ memo = "require" => step \in {"hook", "waiting"} /\ shown # <<>>
    /\ step = "waiting" => memo = "require"
    /\ step = "hook" /\ memo = "require" => active = grants /\ answers # <<>>
    /\ step \in {"hook", "waiting"} => ctxMode \in under
    /\ step = "hook" /\ declined =>
          memo = "require" /\ ~Approves(answers[Len(answers)])
    /\ \A i \in 1 .. Len(answers) : \A j \in 1 .. Len(answers[i].says) :
          answers[i].says[j] \in Approvals => answers[i].to[j] \in said

\* Under one mode a review asks for no less when it is asked again, and only
\* its last answer has not been found unfit.
OneMode ==
    memo = "require" /\ under # Modes =>
        /\ ToSet(shown) \subseteq ToSet(ToAsk(batch, grants, ctxMode))
        /\ \A i \in 1 .. Len(answers) :
              (step = "hook" /\ i = Len(answers)) \/ ~Fits(ToAsk(batch, grants, ctxMode), answers[i])

ReviewInv ==
    /\ ReviewTypeOK /\ GrantInv /\ InterruptInv /\ OneMode
    /\ NothingRunsUnasked /\ RefusalsStand /\ GrantsAreRemembered

\* What a step of the system does to a review: a message gives an invocation
\* its mode when there is no task.
NewInvocation ==
    /\ step = "off" /\ Invocation
    /\ UNCHANGED <<grants, step, active, batch, memo, answers, shown, replies, decided>>

ReviewMove ==
    \/ NewInvocation
    \/ CapabilityStarts \/ CapabilityEnds \/ CapabilityBreaks
    \/ ModelCalls \/ ModelFinishes \/ ToolsRun
    \/ HookBlocks \/ HookAllows \/ HookAuthorizes \/ HookSettles \/ HookInterrupts
    \/ Resume
    \/ UNCHANGED reviewVars

LEMMA AnswerType ==
    ASSUME NEW rs \in Seq(Calls), NEW v \in Answers(rs)
    PROVE  /\ v \in Seq(Verdicts) /\ Len(v) <= Len(rs)
           /\ SubSeq(rs, 1, Len(v)) \in Seq(Calls)
           /\ \A i \in 1 .. Len(v) : SubSeq(rs, 1, Len(v))[i] = rs[i]
  <1>1. CASE v = Cancel
    BY <1>1 DEF Cancel
  <1>2. CASE v # Cancel
    <2>1. PICK n \in 1 .. Len(rs) : v \in [1 .. n -> Verdicts]
      BY <1>2 DEF Answers
    <2>2. v \in Seq(Verdicts) /\ Len(v) = n
      BY <2>1
    <2> QED BY <2>1, <2>2
  <1> QED BY <1>1, <1>2

LEMMA OutcomeType ==
    ASSUME NEW a PROVE Outcome(a) \in {"cancel", "tools", "model", "reject"}
  BY DEF Outcome

LEMMA OutcomeRuns ==
    ASSUME NEW a PROVE Outcome(a) = "tools" => Approves(a)
  BY DEF Outcome

LEMMA UnresolvedElements ==
    ASSUME batch \in Seq(Calls)
    PROVE  Unresolved \in Seq(Calls) /\ ToSet(Unresolved) \subseteq ToSet(Reviews)
           /\ Reviews \in Seq(Calls)
  BY AskedElements, ReviewsAsk, OnlyElements DEF Unresolved

LEMMA MergeType ==
    ASSUME NEW g \in [Keys -> Sources], NEW cs, NEW source \in Sources
    PROVE  Merge(g, GrantsFor(cs, source)) \in [Keys -> Sources]
  BY DEF Merge, GrantsFor, Sources

LEMMA LosesType ==
    ASSUME consent \in [Keys -> {"none", "given", "kept", "lost"}]
    PROVE  Loses \in [Keys -> {"none", "given", "kept", "lost"}]
  BY DEF Loses

LEMMA NoGrantsType == NoGrants \in [Keys -> Sources]
  BY DEF NoGrants, Sources

LEMMA NewBatchType ==
    ASSUME NEW modes \in SUBSET Modes, NewBatch(modes)
    PROVE  /\ said' \in SUBSET Calls /\ declined' \in BOOLEAN
           /\ judged' \in SUBSET Calls /\ under' \in SUBSET Modes
  BY DEF NewBatch

\* A review keeps the types of its state; a task is started in a known mode.
LEMMA ReviewTypeStep ==
    ASSUME ReviewAssumption, ReviewTypeOK, step # "off" => ctxMode \in Modes, ReviewMove
    PROVE  ReviewTypeOK'
  <1> USE DEF ReviewTypeOK, reviewVars, decided, asked
  <1>1. CASE NewInvocation
    BY <1>1 DEF NewInvocation, Invocation
  <1>2. CASE CapabilityStarts
    BY <1>2 DEF CapabilityStarts
  <1>3. CASE CapabilityEnds
    <2>1. said' \in SUBSET Calls /\ declined' \in BOOLEAN /\ judged' \in SUBSET Calls /\ under' \in SUBSET Modes
      BY <1>3, NewBatchType DEF CapabilityEnds, Gone
    <2>2. consent' \in [Keys -> {"none", "given", "kept", "lost"}] /\ grants' \in [Keys -> Sources]
      BY <1>3 DEF CapabilityEnds, Commits
    <2> QED BY <1>3, <2>1, <2>2, NoGrantsType DEF CapabilityEnds, Gone, ReviewAssumption
  <1>4. CASE CapabilityBreaks
    <2>1. said' \in SUBSET Calls /\ declined' \in BOOLEAN /\ judged' \in SUBSET Calls /\ under' \in SUBSET Modes
      BY <1>4, NewBatchType DEF CapabilityBreaks, Gone
    <2> QED BY <1>4, <2>1, NoGrantsType, LosesType DEF CapabilityBreaks, Gone, ReviewAssumption
  <1>5. CASE ModelCalls
    <2>1. said' \in SUBSET Calls /\ declined' \in BOOLEAN /\ judged' \in SUBSET Calls /\ under' \in SUBSET Modes
      <3>1. {ctxMode} \in SUBSET Modes
        BY <1>5 DEF ModelCalls
      <3> QED BY <1>5, <3>1, NewBatchType DEF ModelCalls
    <2>2. batch' \in Seq(Calls) /\ replies' \in 0 .. MaxReplies
      BY <1>5 DEF ModelCalls, ReviewAssumption
    <2> QED BY <1>5, <2>1, <2>2 DEF ModelCalls
  <1>6. CASE ModelFinishes
    BY <1>6 DEF ModelFinishes
  <1>7. CASE ToolsRun
    <2>1. said' \in SUBSET Calls /\ declined' \in BOOLEAN /\ judged' \in SUBSET Calls /\ under' \in SUBSET Modes
      BY <1>7, NewBatchType DEF ToolsRun
    <2> QED BY <1>7, <2>1 DEF ToolsRun
  <1>8. CASE HookBlocks
    BY <1>8 DEF HookBlocks, HookEnds
  <1>9. CASE HookAllows
    BY <1>9 DEF HookAllows, HookEnds
  <1>10. CASE HookAuthorizes
    <2>1. active' \in [Keys -> Sources]
      BY <1>10, MergeType DEF HookAuthorizes, Sources
    <2>2. Reviews \in Seq(Calls) /\ Unresolved \in Seq(Calls)
      BY UnresolvedElements
    <2>3. ToSet(Reviews) \subseteq Calls /\ ToSet(Unresolved) \subseteq Calls
      BY <2>2, ElementsOf
    <2>4. judged' \in SUBSET Calls
      BY <1>10, <2>3 DEF HookAuthorizes
    <2>5. vetted' \in SUBSET Keys
      BY <1>10, <2>3 DEF HookAuthorizes, ReviewAssumption
    <2>6. said' = said /\ declined' = declined /\ under' = under /\ consent' = consent
      BY <1>10, Zenon DEF HookAuthorizes
    <2>7. HookEnds("tools")
      BY <1>10, Zenon DEF HookAuthorizes
    <2> QED BY <2>1, <2>4, <2>5, <2>6, <2>7 DEF HookEnds
  <1>11. CASE HookSettles
    <2>1. PICK i \in Taken :
             /\ HookEnds(Outcome(answers[i]))
             /\ active' = active \/ active' = Merge(active, GrantsFor(Authorized(answers[i]), "human"))
             /\ consent' = consent \/ consent' =
                  [k \in Keys |-> IF k \in {KeyOf[c] : c \in Authorized(answers[i])} THEN "given" ELSE consent[k]]
      BY <1>11, Zenon DEF HookSettles
    <2>2. active' \in [Keys -> Sources]
      <3>1. "human" \in Sources
        BY DEF Sources
      <3>2. Merge(active, GrantsFor(Authorized(answers[i]), "human")) \in [Keys -> Sources]
        BY <3>1, MergeType
      <3> QED BY <2>1, <3>2, Zenon
    <2>3. consent' \in [Keys -> {"none", "given", "kept", "lost"}]
      BY <2>1
    <2>4. said' = said /\ declined' = declined /\ judged' = judged /\ under' = under /\ vetted' = vetted
      BY <1>11, Zenon DEF HookSettles
    <2>5. step' \in {"off", "model", "hook", "waiting", "tools", "finished", "reject", "cancel"}
      BY <2>1, OutcomeType DEF HookEnds
    <2>6. /\ memo' = "none" /\ answers' = <<>> /\ shown' = <<>>
          /\ grants' = grants /\ ctxMode' = ctxMode /\ batch' = batch /\ replies' = replies
      BY <2>1, Zenon DEF HookEnds
    <2> HIDE DEF asked, reviewVars, decided
    <2> QED BY <2>2, <2>3, <2>4, <2>5, <2>6
  <1>12. CASE HookInterrupts
    BY <1>12, NoGrantsType, LosesType, UnresolvedElements DEF HookInterrupts
  <1>13. CASE Resume
    <2>1. PICK v \in Answers(shown) :
             /\ answers' = Append(answers, [to |-> SubSeq(shown, 1, Len(v)), says |-> v])
             /\ said' = said \cup {shown[i] : i \in {j \in DOMAIN v : v[j] \in Approvals}}
             /\ declined' = ~Approves([to |-> SubSeq(shown, 1, Len(v)), says |-> v])
      BY <1>13 DEF Resume
    <2>2. [to |-> SubSeq(shown, 1, Len(v)), says |-> v] \in [to : Seq(Calls), says : Seq(Verdicts)]
      BY AnswerType
    <2>3. answers' \in Seq([to : Seq(Calls), says : Seq(Verdicts)])
      BY <2>1, <2>2
    <2>4. DOMAIN v \subseteq DOMAIN shown
      BY AnswerType
    <2>5. said' \in SUBSET Calls
      BY <2>1, <2>4
    <2>6. declined' \in BOOLEAN
      BY <2>1 DEF Approves
    <2> QED BY <1>13, <2>3, <2>5, <2>6 DEF Resume, Invocation
  <1>14. CASE UNCHANGED reviewVars
    BY <1>14
  <1> QED BY <1>1, <1>2, <1>3, <1>4, <1>5, <1>6, <1>7, <1>8, <1>9, <1>10, <1>11, <1>12, <1>13, <1>14 DEF ReviewMove

\* What an answer that fits the reviews of the batch was given for.
LEMMA FitFacts ==
    ASSUME NEW rs \in Seq(Calls), NEW a \in [to : Seq(Calls), says : Seq(Verdicts)],
           Fits(rs, a), Approves(a)
    PROVE  /\ Authorized(a) \subseteq ToSet(rs)
           /\ \A c \in Authorized(a) : KeyOf[c] # NoKey
           /\ \A c \in ToSet(rs) : \E j \in 1 .. Len(a.says) :
                 a.to[j] = c /\ a.says[j] \in Approvals
  <1>1. /\ a.says # Cancel /\ a.says \in Seq(Verdicts)
        /\ Len(a.says) = Len(rs)
        /\ \A i \in DOMAIN a.says :
              a.to[i] = rs[i] /\ (a.says[i] = "authorize" => KeyOf[rs[i]] # NoKey)
    BY DEF Fits, Approves
  <1>2. DOMAIN a.says = 1 .. Len(rs) /\ 1 .. Len(a.says) = 1 .. Len(rs)
    BY <1>1
  <1>3. \A i \in 1 .. Len(rs) : a.says[i] \in Approvals
    BY <1>2, Zenon DEF Approves, ToSet
  <1>4. /\ \A i \in 1 .. Len(rs) : rs[i] \in ToSet(rs)
        /\ \A c \in ToSet(rs) : \E i \in 1 .. Len(rs) : rs[i] = c
    BY ElementsOf, Zenon
  <1>5. ASSUME NEW c \in Authorized(a)
        PROVE  c \in ToSet(rs) /\ KeyOf[c] # NoKey
    <2>1. PICK i \in DOMAIN a.says : a.says[i] = "authorize" /\ c = a.to[i]
      BY <1>5, Zenon DEF Authorized
    <2> QED BY <1>1, <1>2, <1>4, <2>1, Zenon
  <1>6. ASSUME NEW c \in ToSet(rs)
        PROVE  \E j \in 1 .. Len(a.says) : a.to[j] = c /\ a.says[j] \in Approvals
    <2>1. PICK i \in 1 .. Len(rs) : rs[i] = c
      BY <1>4, <1>6, Zenon
    <2> QED BY <1>1, <1>2, <1>3, <2>1, Zenon
  <1> QED BY <1>5, <1>6, Zenon

\* If no answer is taken none fits; the one taken is the first that fits.
LEMMA TakenFacts ==
    ASSUME ReviewTypeOK
    PROVE  /\ Taken \subseteq 1 .. Len(answers)
           /\ \A i \in Taken : Fits(Reviews, answers[i])
           /\ Taken = {} => \A i \in 1 .. Len(answers) : ~Fits(Reviews, answers[i])
  <1>1. DOMAIN answers = 1 .. Len(answers) /\ Len(answers) \in Nat
    BY DEF ReviewTypeOK
  <1>2. Taken \subseteq 1 .. Len(answers) /\ \A i \in Taken : Fits(Reviews, answers[i])
    BY <1>1, Zenon DEF Taken
  <1>3. ASSUME Taken = {}, NEW i \in 1 .. Len(answers), Fits(Reviews, answers[i])
        PROVE  FALSE
    <2> DEFINE S == {k \in 1 .. Len(answers) : Fits(Reviews, answers[k])}
    <2>1. S \in SUBSET Nat /\ i \in S
      BY <1>3
    <2>2. PICK m \in S : \A k \in S : m <= k
      <3> HIDE DEF S
      <3> QED BY <2>1, LeastOf, Zenon
    <2>3. m \in 1 .. Len(answers) /\ Fits(Reviews, answers[m])
      BY <2>2
    <2>4. ASSUME NEW j \in 1 .. m - 1 PROVE ~Fits(Reviews, answers[j])
      <3>1. j \in 1 .. Len(answers) /\ ~(m <= j)
        BY <1>1, <2>3
      <3> QED BY <2>2, <3>1, Zenon
    <2>5. m \in Taken
      BY <1>1, <2>3, <2>4, Zenon DEF Taken
    <2> QED BY <1>3, <2>5
  <1> QED BY <1>2, <1>3, Zenon

\* What HookSettles does, without the answer's position.
LEMMA Settling ==
    ASSUME HookSettles
    PROVE  \E i \in Taken :
              /\ HookEnds(Outcome(answers[i]))
              /\ \/ /\ Approves(answers[i])
                    /\ active' = Merge(active, GrantsFor(Authorized(answers[i]), "human"))
                    /\ consent' = [k \in Keys |->
                           IF k \in {KeyOf[c] : c \in Authorized(answers[i])}
                           THEN "given" ELSE consent[k]]
                 \/ /\ ~Approves(answers[i])
                    /\ active' = active /\ consent' = consent
              /\ said' = said /\ declined' = declined /\ judged' = judged
              /\ under' = under /\ vetted' = vetted
  BY Zenon DEF HookSettles, asked

\* What is asked is not what the recorder's grants cover.
LEMMA AskedFacts ==
    ASSUME ReviewTypeOK
    PROVE  /\ Reviews \in Seq(Calls)
           /\ ToSet(Reviews) = {c \in ToSet(batch) : PolicyOf[c] = "review" /\ ~CoveredBy(active, ctxMode, c)}
           /\ ToSet(batch) \subseteq Calls
           /\ Reviews = <<>> <=> ToSet(Reviews) = {}
  <1>1. batch \in Seq(Calls)
    BY DEF ReviewTypeOK
  <1>2. /\ ToAsk(batch, active, ctxMode) \in Seq(Calls)
        /\ ToSet(ToAsk(batch, active, ctxMode)) =
              {c \in ToSet(batch) : PolicyOf[c] = "review" /\ ~CoveredBy(active, ctxMode, c)}
    BY <1>1, AskedElements
  <1>3. Reviews \in Seq(Calls)
    BY <1>2, ReviewsAsk
  <1>4. ToSet(batch) \subseteq Calls
    BY <1>1, ElementsOf, Zenon
  <1>5. Reviews = <<>> <=> ToSet(Reviews) = {}
    BY <1>3, ElementsOf
  <1>6. ToSet(Reviews) = {c \in ToSet(batch) : PolicyOf[c] = "review" /\ ~CoveredBy(active, ctxMode, c)}
    BY <1>2, ReviewsAsk, Zenon
  <1> QED BY <1>3, <1>4, <1>5, <1>6, Zenon

LEMMA MergeFacts ==
    ASSUME NEW g, NEW cs, NEW source \in {"human", "auto_review"}, NEW k \in Keys
    PROVE  LET new == Merge(g, GrantsFor(cs, source))[k]
               hit == \E c \in cs : KeyOf[c] = k
           IN  /\ ~hit => new = g[k]
               /\ hit /\ source = "human" => new = "human"
               /\ hit /\ source = "auto_review" => new = IF g[k] = "none" THEN source ELSE g[k]
  <1>1. /\ Merge(g, GrantsFor(cs, source))[k] =
              IF g[k] = "none" \/ GrantsFor(cs, source)[k] = "human" THEN GrantsFor(cs, source)[k] ELSE g[k]
        /\ GrantsFor(cs, source)[k] = IF \E c \in cs : KeyOf[c] = k THEN source ELSE "none"
    BY DEF Merge, GrantsFor
  <1> QED BY <1>1

\* The grants and the decisions behind them.
LEMMA GrantStep ==
    ASSUME ReviewAssumption, ReviewInv, ReviewMove
    PROVE  GrantInv'
  <1> USE DEF ReviewInv
  <1>1. CASE NewInvocation
    BY <1>1 DEF NewInvocation, GrantInv, decided
  <1>2. CASE CapabilityStarts
    BY <1>2 DEF CapabilityStarts, GrantInv, decided, NoGrants
  <1>3. CASE CapabilityEnds
    <2>1. /\ step \notin {"off", "waiting"} /\ step' = "off"
          /\ active' = NoGrants /\ grants' = active /\ vetted' = vetted
          /\ \A k \in Keys : consent'[k] = IF consent[k] = "given" THEN "kept" ELSE consent[k]
      BY <1>3 DEF CapabilityEnds, Gone, Commits
    <2> QED BY <2>1 DEF GrantInv, NoGrants
  <1>4. CASE CapabilityBreaks
    <2>1. /\ step' = "off"
          /\ active' = NoGrants /\ grants' = grants /\ vetted' = vetted
          /\ \A k \in Keys : consent'[k] = IF consent[k] = "given" THEN "lost" ELSE consent[k]
      BY <1>4 DEF CapabilityBreaks, Gone, Loses
    <2> QED BY <2>1 DEF GrantInv, NoGrants
  <1>5. CASE ModelCalls
    BY <1>5 DEF ModelCalls, GrantInv
  <1>6. CASE ModelFinishes
    BY <1>6 DEF ModelFinishes, GrantInv, decided
  <1>7. CASE ToolsRun
    BY <1>7 DEF ToolsRun, GrantInv
  <1>8. CASE HookBlocks
    BY <1>8 DEF HookBlocks, HookEnds, GrantInv, decided
  <1>9. CASE HookAllows
    BY <1>9 DEF HookAllows, HookEnds, GrantInv, decided
  <1>10. CASE HookAuthorizes
    <2> DEFINE cs == ToSet(Unresolved) \cap Reusable
    <2>1. /\ step = "hook" /\ step' = "tools" /\ grants' = grants /\ consent' = consent
          /\ vetted' = vetted \cup ({KeyOf[c] : c \in ToSet(Unresolved)} \ {NoKey})
          /\ active' = IF ctxMode = "auto" THEN Merge(active, GrantsFor(cs, "auto_review")) ELSE active
      BY <1>10, Zenon DEF HookAuthorizes, HookEnds
    <2>2. ASSUME NEW k \in Keys
          PROVE  /\ active'[k] = "human" <=> active[k] = "human"
                 /\ active[k] # "none" => active'[k] # "none"
                 /\ active'[k] = "auto_review" => active[k] = "auto_review" \/ k \in vetted'
      <3>1. /\ ~(\E c \in cs : KeyOf[c] = k) => Merge(active, GrantsFor(cs, "auto_review"))[k] = active[k]
            /\ (\E c \in cs : KeyOf[c] = k) => Merge(active, GrantsFor(cs, "auto_review"))[k] =
                  IF active[k] = "none" THEN "auto_review" ELSE active[k]
        BY MergeFacts
      <3>2. (\E c \in cs : KeyOf[c] = k) => k \in vetted'
        <4>1. k # NoKey
          BY DEF ReviewAssumption
        <4> QED BY <2>1, <4>1, Zenon
      <3> HIDE DEF cs
      <3> QED BY <2>1, <3>1, <3>2
    <2> HIDE DEF cs
    <2>3. vetted \subseteq vetted'
      BY <2>1, Zenon
    <2> QED BY <2>1, <2>2, <2>3 DEF GrantInv
  <1>11. CASE HookSettles
    <2>1. PICK i \in Taken :
              /\ HookEnds(Outcome(answers[i]))
              /\ \/ /\ Approves(answers[i])
                    /\ active' = Merge(active, GrantsFor(Authorized(answers[i]), "human"))
                    /\ consent' = [k \in Keys |->
                           IF k \in {KeyOf[c] : c \in Authorized(answers[i])}
                           THEN "given" ELSE consent[k]]
                 \/ /\ ~Approves(answers[i])
                    /\ active' = active /\ consent' = consent
              /\ said' = said /\ declined' = declined /\ judged' = judged
              /\ under' = under /\ vetted' = vetted
      BY <1>11, Settling, Zenon
    <2>2. step = "hook" /\ grants' = grants /\ vetted' = vetted /\ step' \notin {"off", "waiting"}
      BY <2>1, OutcomeType DEF HookEnds
    <2>3. CASE ~Approves(answers[i])
      BY <2>1, <2>2, <2>3 DEF GrantInv
    <2>4. CASE Approves(answers[i])
      <3> DEFINE a == answers[i]
                 keys == {KeyOf[c] : c \in Authorized(a)}
      <3>1. /\ active' = Merge(active, GrantsFor(Authorized(a), "human"))
            /\ \A k \in Keys : consent'[k] = IF k \in keys THEN "given" ELSE consent[k]
        BY <2>1, <2>4
      <3>2. ASSUME NEW k \in keys PROVE active[k] # "human"
        <4>1. i \in 1 .. Len(answers) /\ Fits(Reviews, a)
          BY TakenFacts
        <4>2. a \in [to : Seq(Calls), says : Seq(Verdicts)]
          <5>1. answers \in Seq([to : Seq(Calls), says : Seq(Verdicts)])
            BY Zenon DEF ReviewTypeOK
          <5> HIDE DEF ReviewInv, a, keys
          <5> QED BY <4>1, <5>1, ElementIs DEF a
        <4>3. Reviews \in Seq(Calls)
          BY AskedFacts
        <4>4. PICK c \in Authorized(a) : KeyOf[c] = k
          BY <3>2
        <4>5. c \in ToSet(Reviews) /\ KeyOf[c] # NoKey
          <5> HIDE DEF a
          <5> QED BY <2>4, <4>1, <4>2, <4>3, <4>4, FitFacts DEF a
        <4>6. ~CoveredBy(active, ctxMode, c)
          BY <4>5, AskedFacts
        <4> QED BY <4>4, <4>5, <4>6 DEF CoveredBy
      <3>3. ASSUME NEW k \in Keys
            PROVE  active'[k] = IF k \in keys THEN "human" ELSE active[k]
        <4>1. /\ ~(\E c \in Authorized(a) : KeyOf[c] = k) => active'[k] = active[k]
              /\ (\E c \in Authorized(a) : KeyOf[c] = k) => active'[k] = "human"
          BY <3>1, MergeFacts
        <4> QED BY <4>1, Zenon
      <3> HIDE DEF keys, a
      <3> QED BY <2>2, <3>1, <3>2, <3>3 DEF GrantInv
    <2> QED BY <2>3, <2>4
  <1>12. CASE HookInterrupts
    <2>1. /\ step' = "waiting" /\ active' = NoGrants /\ grants' = grants /\ vetted' = vetted
          /\ \A k \in Keys : consent'[k] = IF consent[k] = "given" THEN "lost" ELSE consent[k]
      BY <1>12 DEF HookInterrupts, Loses
    <2> QED BY <2>1 DEF GrantInv, NoGrants
  <1>13. CASE Resume
    <2>1. /\ step = "waiting" /\ step' = "hook" /\ active' = grants /\ grants' = grants
          /\ vetted' = vetted /\ consent' = consent
      BY <1>13, Zenon DEF Resume
    <2> QED BY <2>1 DEF GrantInv, NoGrants
  <1>14. CASE UNCHANGED reviewVars
    BY <1>14 DEF reviewVars, GrantInv, decided
  <1> QED BY <1>1, <1>2, <1>3, <1>4, <1>5, <1>6, <1>7, <1>8, <1>9, <1>10, <1>11, <1>12, <1>13, <1>14 DEF ReviewMove

\* An answer, and the approvals in it.
LEMMA AnswerGiven ==
    ASSUME ReviewTypeOK, Resume
    PROVE  \E a \in [to : Seq(Calls), says : Seq(Verdicts)] :
              /\ answers' = Append(answers, a)
              /\ declined' = ~Approves(a)
              /\ said \subseteq said'
              /\ \A j \in 1 .. Len(a.says) : a.says[j] \in Approvals => a.to[j] \in said'
  <1>1. PICK v \in Answers(shown) :
             /\ answers' = Append(answers, [to |-> SubSeq(shown, 1, Len(v)), says |-> v])
             /\ said' = said \cup {shown[i] : i \in {j \in DOMAIN v : v[j] \in Approvals}}
             /\ declined' = ~Approves([to |-> SubSeq(shown, 1, Len(v)), says |-> v])
    BY Zenon DEF Resume
  <1> DEFINE a == [to |-> SubSeq(shown, 1, Len(v)), says |-> v]
  <1>2. shown \in Seq(Calls)
    BY Zenon DEF ReviewTypeOK
  <1>3. /\ v \in Seq(Verdicts) /\ SubSeq(shown, 1, Len(v)) \in Seq(Calls)
        /\ \A i \in 1 .. Len(v) : SubSeq(shown, 1, Len(v))[i] = shown[i]
    BY <1>2, AnswerType
  <1>4. a \in [to : Seq(Calls), says : Seq(Verdicts)]
    BY <1>3
  <1>5. DOMAIN v = 1 .. Len(v)
    BY <1>3
  <1>6. ASSUME NEW j \in 1 .. Len(v), v[j] \in Approvals
        PROVE  SubSeq(shown, 1, Len(v))[j] \in said'
    BY <1>1, <1>3, <1>5, <1>6, Zenon
  <1>7. a.to = SubSeq(shown, 1, Len(v)) /\ a.says = v
    OBVIOUS
  <1>8. answers' = Append(answers, a) /\ declined' = ~Approves(a) /\ said \subseteq said'
    BY <1>1, Zenon
  <1> HIDE DEF a
  <1> QED BY <1>4, <1>6, <1>7, <1>8, Zenon

\* Only an interrupted hook and an answer leave a decision of the policy.
LEMMA NoInterrupt ==
    ASSUME InterruptInv, ReviewMove, ~HookInterrupts, ~Resume, ~UNCHANGED reviewVars
    PROVE  /\ memo' # "require" /\ answers' = <<>> /\ step' # "waiting"
           /\ step' = "hook" => ModelCalls
  <1>1. CASE NewInvocation
    BY <1>1 DEF NewInvocation, InterruptInv
  <1>2. CASE CapabilityStarts
    BY <1>2 DEF CapabilityStarts, InterruptInv
  <1>3. CASE CapabilityEnds
    BY <1>3 DEF CapabilityEnds, Gone
  <1>4. CASE CapabilityBreaks
    BY <1>4 DEF CapabilityBreaks, Gone
  <1>5. CASE ModelCalls
    BY <1>5 DEF ModelCalls, InterruptInv
  <1>6. CASE ModelFinishes
    BY <1>6 DEF ModelFinishes, InterruptInv
  <1>7. CASE ToolsRun
    BY <1>7 DEF ToolsRun, InterruptInv
  <1>8. CASE HookBlocks
    BY <1>8 DEF HookBlocks, HookEnds
  <1>9. CASE HookAllows
    BY <1>9 DEF HookAllows, HookEnds
  <1>10. CASE HookAuthorizes
    BY <1>10 DEF HookAuthorizes, HookEnds
  <1>11. CASE HookSettles
    <2>1. PICK i \in Taken : HookEnds(Outcome(answers[i]))
      BY <1>11, Settling, Zenon
    <2> QED BY <2>1, OutcomeType DEF HookEnds
  <1> QED BY <1>1, <1>2, <1>3, <1>4, <1>5, <1>6, <1>7, <1>8, <1>9, <1>10, <1>11 DEF ReviewMove

LEMMA InterruptStep ==
    ASSUME ReviewAssumption, ReviewInv, ReviewMove
    PROVE  InterruptInv'
  <1> USE DEF ReviewInv
  <1>1. CASE HookInterrupts
    <2>1. /\ step = "hook" /\ step' = "waiting" /\ memo' = "require" /\ shown' # <<>>
          /\ answers' = answers /\ said' = said /\ ctxMode' = ctxMode /\ under' = under
      BY <1>1, Zenon DEF HookInterrupts, asked
    <2> QED BY <2>1 DEF InterruptInv
  <1>2. CASE Resume
    <2>1. PICK a \in [to : Seq(Calls), says : Seq(Verdicts)] :
              /\ answers' = Append(answers, a)
              /\ declined' = ~Approves(a)
              /\ said \subseteq said'
              /\ \A j \in 1 .. Len(a.says) : a.says[j] \in Approvals => a.to[j] \in said'
      BY <1>2, AnswerGiven
    <2>2. /\ step = "waiting" /\ step' = "hook" /\ active' = grants /\ grants' = grants
          /\ memo' = memo /\ shown' = shown /\ ctxMode' \in under'
      BY <1>2, Zenon DEF Resume
    <2>3. memo = "require" /\ shown # <<>>
      BY <2>2 DEF InterruptInv
    <2>4. answers \in Seq([to : Seq(Calls), says : Seq(Verdicts)])
      BY Zenon DEF ReviewTypeOK
    <2>5. /\ answers' # <<>> /\ Len(answers') = Len(answers) + 1
          /\ answers'[Len(answers) + 1] = a
          /\ \A i \in 1 .. Len(answers) : answers'[i] = answers[i]
          /\ \A i \in 1 .. Len(answers') : i \in 1 .. Len(answers) \/ i = Len(answers) + 1
      BY <2>1, <2>4, AppendedIs
    <2>6. declined' => ~Approves(answers'[Len(answers')])
      BY <2>1, <2>5
    <2>7. ASSUME NEW i \in 1 .. Len(answers'), NEW j \in 1 .. Len(answers'[i].says),
                 answers'[i].says[j] \in Approvals
          PROVE  answers'[i].to[j] \in said'
      <3>1. CASE i \in 1 .. Len(answers)
        <4>1. answers'[i] = answers[i]
          BY <2>5, <3>1
        <4>2. answers[i].to[j] \in said
          BY <2>7, <3>1, <4>1, Zenon DEF InterruptInv
        <4> QED BY <2>1, <4>1, <4>2, Zenon
      <3>2. CASE i = Len(answers) + 1
        BY <2>1, <2>5, <2>7, <3>2, Zenon
      <3> QED BY <2>5, <3>1, <3>2
    <2> QED BY <2>2, <2>3, <2>5, <2>6, <2>7, Zenon DEF InterruptInv
  <1>3. CASE UNCHANGED reviewVars
    BY <1>3 DEF reviewVars, InterruptInv, decided, asked
  <1>4. CASE ~HookInterrupts /\ ~Resume /\ ~UNCHANGED reviewVars
    <2>1. /\ memo' # "require" /\ answers' = <<>> /\ step' # "waiting"
          /\ step' = "hook" => ModelCalls
      BY <1>4, NoInterrupt
    <2>2. ModelCalls => ctxMode' \in under' /\ declined' = FALSE
      BY Zenon DEF ModelCalls, NewBatch
    <2>3. 1 .. Len(answers') = {}
      BY <2>1
    <2> QED BY <2>1, <2>2, <2>3 DEF InterruptInv
  <1> QED BY <1>1, <1>2, <1>3, <1>4, Zenon

\* Under a grant more, no more is asked.
LEMMA FewerAsked ==
    ASSUME ReviewAssumption, ReviewInv, step = "hook"
    PROVE  ToSet(Reviews) \subseteq ToSet(ToAsk(batch, grants, ctxMode))
  <1>1. /\ ToSet(Reviews) =
              {c \in ToSet(batch) : PolicyOf[c] = "review" /\ ~CoveredBy(active, ctxMode, c)}
        /\ ToSet(batch) \subseteq Calls
    BY AskedFacts DEF ReviewInv
  <1>2. ToSet(ToAsk(batch, grants, ctxMode)) =
              {c \in ToSet(batch) : PolicyOf[c] = "review" /\ ~CoveredBy(grants, ctxMode, c)}
    BY AskedElements DEF ReviewInv, ReviewTypeOK
  <1>3. ASSUME NEW c \in Calls, CoveredBy(grants, ctxMode, c)
        PROVE  CoveredBy(active, ctxMode, c)
    <2>1. KeyOf[c] \in Keys
      BY <1>3 DEF CoveredBy, ReviewAssumption
    <2>2. /\ grants[KeyOf[c]] = "human" => active[KeyOf[c]] = "human"
          /\ grants[KeyOf[c]] # "none" => active[KeyOf[c]] # "none"
          /\ active[KeyOf[c]] \in Sources
      BY <2>1 DEF ReviewInv, GrantInv, ReviewTypeOK
    <2> QED BY <1>3, <2>2 DEF CoveredBy, Sources
  <1> QED BY <1>1, <1>2, <1>3, Zenon

LEMMA OneModeStep ==
    ASSUME ReviewAssumption, ReviewInv, ReviewMove
    PROVE  OneMode'
  <1> USE DEF ReviewInv
  <1>1. CASE HookInterrupts
    <2>1. /\ step = "hook" /\ step' = "waiting" /\ shown' = Reviews /\ Taken = {}
          /\ answers' = answers /\ ctxMode' = ctxMode /\ under' = under
          /\ grants' = grants /\ batch' = batch
      BY <1>1, Zenon DEF HookInterrupts, asked
    <2>2. ToSet(Reviews) \subseteq ToSet(ToAsk(batch, grants, ctxMode))
      BY <2>1, FewerAsked
    <2>3. ASSUME NEW i \in 1 .. Len(answers) PROVE ~Fits(ToAsk(batch, grants, ctxMode), answers[i])
      <3>1. ~Fits(Reviews, answers[i])
        BY <2>1, TakenFacts
      <3>2. memo = "require"
        <4>1. answers # <<>>
          BY <2>3
        <4> QED BY <4>1 DEF InterruptInv
      <3>3. active = grants
        BY <2>1, <3>2 DEF InterruptInv
      <3> QED BY <3>1, <3>3, ReviewsAsk
    <2> QED BY <2>1, <2>2, <2>3, Zenon DEF OneMode
  <1>2. CASE Resume
    <2> SUFFICES ASSUME under' # Modes PROVE OneMode'
      BY DEF OneMode
    <2>1. /\ step = "waiting" /\ step' = "hook" /\ grants' = grants /\ batch' = batch
          /\ memo' = memo /\ shown' = shown /\ ctxMode' \in Modes
          /\ under' = under \cup {ctxMode'}
      BY <1>2, Zenon DEF Resume, Invocation
    <2>2. memo = "require" /\ ctxMode \in under /\ under \subseteq Modes
      BY <2>1 DEF InterruptInv, ReviewTypeOK
    <2>3. ctxMode' = ctxMode /\ under # Modes
      BY <2>1, <2>2 DEF Modes
    <2>4. PICK a \in [to : Seq(Calls), says : Seq(Verdicts)] : answers' = Append(answers, a)
      BY <1>2, AnswerGiven
    <2>5. answers \in Seq([to : Seq(Calls), says : Seq(Verdicts)])
      BY Zenon DEF ReviewTypeOK
    <2>6. /\ Len(answers') = Len(answers) + 1
          /\ \A i \in 1 .. Len(answers) : answers'[i] = answers[i]
          /\ \A i \in 1 .. Len(answers') : i \in 1 .. Len(answers) \/ i = Len(answers) + 1
      BY <2>4, <2>5, AppendedIs
    <2>7. /\ ToSet(shown) \subseteq ToSet(ToAsk(batch, grants, ctxMode))
          /\ \A i \in 1 .. Len(answers) : ~Fits(ToAsk(batch, grants, ctxMode), answers[i])
      BY <2>1, <2>2, <2>3 DEF OneMode
    <2>8. ASSUME NEW i \in 1 .. Len(answers'), i # Len(answers')
          PROVE  ~Fits(ToAsk(batch, grants, ctxMode), answers'[i])
      BY <2>6, <2>7, <2>8, Zenon
    <2> QED BY <2>1, <2>3, <2>7, <2>8, Zenon DEF OneMode
  <1>3. CASE UNCHANGED reviewVars
    BY <1>3 DEF reviewVars, OneMode, decided, asked
  <1>4. CASE ~HookInterrupts /\ ~Resume /\ ~UNCHANGED reviewVars
    BY <1>4, NoInterrupt DEF OneMode
  <1> QED BY <1>1, <1>2, <1>3, <1>4, Zenon

\* A key a person has authorized.
LEMMA CoveredWasGranted ==
    ASSUME ReviewAssumption, ReviewTypeOK, GrantInv, NEW c \in Calls,
           CoveredBy(active, ctxMode, c)
    PROVE  \/ KeyOf[c] # NoKey /\ consent[KeyOf[c]] \in {"given", "kept"}
           \/ ctxMode = "auto" /\ c \in Reusable /\ KeyOf[c] \in vetted
  <1>1. KeyOf[c] \in Keys /\ KeyOf[c] # NoKey
    BY DEF CoveredBy, ReviewAssumption
  <1> QED BY <1>1 DEF CoveredBy, GrantInv

LEMMA AskedStep ==
    ASSUME ReviewAssumption, ReviewInv, ReviewMove
    PROVE  NothingRunsUnasked'
  <1> USE DEF ReviewInv
  <1>1. SUFFICES ASSUME step' = "tools", NEW c \in ToSet(batch'), PolicyOf[c] = "review"
        PROVE  \/ c \in said' \cup judged'
               \/ KeyOf[c] # NoKey /\ consent'[KeyOf[c]] \in {"given", "kept"}
               \/ ctxMode' = "auto" /\ c \in Reusable /\ KeyOf[c] \in vetted'
    BY Zenon DEF NothingRunsUnasked
  <1>2. /\ ToSet(Reviews) =
              {x \in ToSet(batch) : PolicyOf[x] = "review" /\ ~CoveredBy(active, ctxMode, x)}
        /\ ToSet(batch) \subseteq Calls
        /\ Reviews = <<>> <=> ToSet(Reviews) = {}
        /\ Reviews \in Seq(Calls)
    BY AskedFacts
  <1>3. CASE HookAllows
    <2>1. /\ batch' = batch /\ consent' = consent /\ ctxMode' = ctxMode /\ vetted' = vetted
          /\ ToSet(Reviews) = {}
      BY <1>2, <1>3, Zenon DEF HookAllows, HookEnds, decided
    <2>2. c \in Calls /\ CoveredBy(active, ctxMode, c)
      BY <1>1, <1>2, <2>1, Zenon
    <2> QED BY <2>1, <2>2, CoveredWasGranted
  <1>4. CASE HookAuthorizes
    <2>1. /\ batch' = batch /\ consent' = consent /\ ctxMode' = ctxMode
          /\ judged' = ToSet(Reviews) /\ vetted \subseteq vetted'
      BY <1>4, Zenon DEF HookAuthorizes, HookEnds
    <2>2. CASE c \in ToSet(Reviews)
      BY <2>1, <2>2, Zenon
    <2>3. CASE c \notin ToSet(Reviews)
      <3>1. c \in Calls /\ CoveredBy(active, ctxMode, c)
        BY <1>1, <1>2, <2>1, <2>3, Zenon
      <3>2. \/ KeyOf[c] # NoKey /\ consent[KeyOf[c]] \in {"given", "kept"}
            \/ ctxMode = "auto" /\ c \in Reusable /\ KeyOf[c] \in vetted
        BY <3>1, CoveredWasGranted
      <3> QED BY <2>1, <3>2, Zenon
    <2> QED BY <2>2, <2>3
  <1>5. CASE HookSettles
    <2>1. PICK i \in Taken :
              /\ HookEnds(Outcome(answers[i]))
              /\ \/ /\ Approves(answers[i])
                    /\ active' = Merge(active, GrantsFor(Authorized(answers[i]), "human"))
                    /\ consent' = [k \in Keys |->
                           IF k \in {KeyOf[x] : x \in Authorized(answers[i])}
                           THEN "given" ELSE consent[k]]
                 \/ /\ ~Approves(answers[i])
                    /\ active' = active /\ consent' = consent
              /\ said' = said /\ declined' = declined /\ judged' = judged
              /\ under' = under /\ vetted' = vetted
      BY <1>5, Settling, Zenon
    <2> DEFINE a == answers[i]
    <2>2. i \in 1 .. Len(answers) /\ Fits(Reviews, a)
      BY TakenFacts
    <2>3. a \in [to : Seq(Calls), says : Seq(Verdicts)]
      <3>1. answers \in Seq([to : Seq(Calls), says : Seq(Verdicts)])
        BY Zenon DEF ReviewTypeOK
      <3> HIDE DEF a, ReviewInv
      <3> QED BY <2>2, <3>1, ElementIs DEF a
    <2>4. /\ Approves(a) /\ batch' = batch /\ ctxMode' = ctxMode /\ vetted' = vetted
          /\ said' = said
      BY <1>1, <2>1, OutcomeRuns DEF HookEnds
    <2>5. \A j \in 1 .. Len(a.says) : a.says[j] \in Approvals => a.to[j] \in said
      BY <2>2, Zenon DEF InterruptInv
    <2>6. CASE c \in ToSet(Reviews)
      <3>1. PICK j \in 1 .. Len(a.says) : a.to[j] = c /\ a.says[j] \in Approvals
        <4> HIDE DEF a, ReviewInv
        <4> QED BY <1>2, <2>2, <2>3, <2>4, <2>6, FitFacts
      <3> QED BY <2>4, <2>5, <3>1, Zenon
    <2>7. CASE c \notin ToSet(Reviews)
      <3>1. c \in Calls /\ CoveredBy(active, ctxMode, c)
        BY <1>1, <1>2, <2>4, <2>7, Zenon
      <3>2. \/ KeyOf[c] # NoKey /\ consent[KeyOf[c]] \in {"given", "kept"}
            \/ ctxMode = "auto" /\ c \in Reusable /\ KeyOf[c] \in vetted
        BY <3>1, CoveredWasGranted
      <3>3. KeyOf[c] # NoKey => KeyOf[c] \in Keys
        BY <3>1 DEF ReviewAssumption
      <3>4. \A k \in Keys : consent'[k] = consent[k] \/ consent'[k] = "given"
        BY <2>1
      <3> QED BY <2>4, <3>2, <3>3, <3>4
    <2> QED BY <2>6, <2>7
  <1>6. CASE UNCHANGED reviewVars
    BY <1>1, <1>6, Zenon DEF reviewVars, decided, asked, NothingRunsUnasked
  <1>7. CASE NewInvocation
    BY <1>1, <1>7, Zenon DEF NewInvocation
  <1>8. CASE CapabilityStarts \/ CapabilityEnds \/ CapabilityBreaks \/ ModelCalls \/ ModelFinishes
             \/ ToolsRun \/ HookBlocks \/ HookInterrupts \/ Resume
    BY <1>1, <1>8 DEF CapabilityStarts, CapabilityEnds, CapabilityBreaks, Gone, ModelCalls,
       ModelFinishes, ToolsRun, HookBlocks, HookEnds, HookInterrupts, Resume
  <1> QED BY <1>3, <1>4, <1>5, <1>6, <1>7, <1>8 DEF ReviewMove

LEMMA RefusalStep ==
    ASSUME ReviewAssumption, ReviewInv, ReviewMove
    PROVE  RefusalsStand'
  <1> USE DEF ReviewInv
  <1>1. SUFFICES ASSUME step' = "tools", declined', under' # Modes
        PROVE  FALSE
    BY Zenon DEF RefusalsStand
  <1>2. ASSUME step = "hook", declined, under # Modes
        PROVE  /\ memo = "require" /\ Reviews # <<>> /\ answers # <<>>
               /\ \A i \in 1 .. Len(answers) : Fits(Reviews, answers[i]) => ~Approves(answers[i])
    <2>1. /\ memo = "require" /\ ~Approves(answers[Len(answers)]) /\ shown # <<>>
          /\ active = grants /\ answers # <<>>
      BY <1>2 DEF InterruptInv
    <2>2. Reviews = ToAsk(batch, grants, ctxMode)
      BY <2>1, ReviewsAsk
    <2>3. /\ ToSet(shown) \subseteq ToSet(Reviews)
          /\ \A i \in 1 .. Len(answers) : i = Len(answers) \/ ~Fits(Reviews, answers[i])
      BY <1>2, <2>1, <2>2, Zenon DEF OneMode
    <2>4. ToSet(shown) # {}
      BY <2>1, ElementsOf DEF ReviewTypeOK
    <2>5. Reviews # <<>>
      BY <2>3, <2>4, AskedFacts
    <2> QED BY <2>1, <2>3, <2>5, Zenon
  <1>3. CASE HookAllows
    BY <1>1, <1>2, <1>3, Zenon DEF HookAllows, HookEnds, decided, asked
  <1>4. CASE HookAuthorizes
    <2>1. /\ step = "hook" /\ declined' = declined /\ under' = under /\ "authorize" \in Decisions
      BY <1>4, Zenon DEF HookAuthorizes, HookEnds
    <2>2. memo = "require"
      BY <1>1, <1>2, <2>1
    <2> QED BY <2>1, <2>2 DEF Decisions
  <1>5. CASE HookSettles
    <2>1. PICK i \in Taken : /\ HookEnds(Outcome(answers[i]))
                             /\ declined' = declined /\ under' = under
      BY <1>5, Settling, Zenon
    <2>2. step = "hook" /\ Approves(answers[i])
      BY <1>1, <2>1, OutcomeRuns DEF HookEnds
    <2>3. i \in 1 .. Len(answers) /\ Fits(Reviews, answers[i])
      BY TakenFacts
    <2> QED BY <1>1, <1>2, <2>1, <2>2, <2>3
  <1>6. CASE UNCHANGED reviewVars
    BY <1>1, <1>6, Zenon DEF reviewVars, decided, asked, RefusalsStand
  <1>7. CASE NewInvocation
    BY <1>1, <1>7, Zenon DEF NewInvocation
  <1>8. CASE CapabilityStarts \/ CapabilityEnds \/ CapabilityBreaks \/ ModelCalls \/ ModelFinishes
             \/ ToolsRun \/ HookBlocks \/ HookInterrupts \/ Resume
    BY <1>1, <1>8 DEF CapabilityStarts, CapabilityEnds, CapabilityBreaks, Gone, ModelCalls,
       ModelFinishes, ToolsRun, HookBlocks, HookEnds, HookInterrupts, Resume
  <1> QED BY <1>3, <1>4, <1>5, <1>6, <1>7, <1>8 DEF ReviewMove

LEMMA RememberedStep ==
    ASSUME ReviewAssumption, ReviewInv, ReviewMove
    PROVE  GrantsAreRemembered'
  <1> USE DEF ReviewInv
  <1>1. CASE HookInterrupts
    <2>1. /\ step = "hook" /\ shown' = Reviews
          /\ \A k \in Keys : consent'[k] = "kept" => consent[k] = "kept"
      BY <1>1 DEF HookInterrupts, Loses
    <2>2. ASSUME NEW c \in ToSet(Reviews), KeyOf[c] # NoKey, consent'[KeyOf[c]] = "kept"
          PROVE  FALSE
      <3>1. c \in Calls /\ ~CoveredBy(active, ctxMode, c)
        BY <2>2, AskedFacts, Zenon
      <3>2. KeyOf[c] \in Keys
        BY <2>2, <3>1 DEF ReviewAssumption
      <3>3. active[KeyOf[c]] = "human"
        BY <2>1, <2>2, <3>2 DEF GrantInv
      <3> QED BY <2>2, <3>1, <3>3 DEF CoveredBy
    <2> QED BY <2>1, <2>2, Zenon DEF GrantsAreRemembered
  <1>2. CASE Resume
    BY <1>2, Zenon DEF Resume, GrantsAreRemembered
  <1>3. CASE UNCHANGED reviewVars
    BY <1>3 DEF reviewVars, GrantsAreRemembered, decided
  <1>4. CASE ~HookInterrupts /\ ~Resume /\ ~UNCHANGED reviewVars
    BY <1>4, NoInterrupt DEF GrantsAreRemembered
  <1> QED BY <1>1, <1>2, <1>3, <1>4, Zenon

LEMMA ReviewInvStep ==
    ASSUME ReviewAssumption, ReviewInv, step # "off" => ctxMode \in Modes, ReviewMove
    PROVE  ReviewInv'
  <1>1. ReviewTypeOK'
    BY ReviewTypeStep DEF ReviewInv
  <1> QED BY <1>1, GrantStep, InterruptStep, OneModeStep, AskedStep, RefusalStep, RememberedStep DEF ReviewInv

LEMMA ReviewInvInit ==
    ASSUME ReviewAssumption, ReviewInit
    PROVE  ReviewInv
  <1> USE DEF ReviewInit
  <1>1. ReviewTypeOK
    <2>1. consent \in [Keys -> {"none", "given", "kept", "lost"}]
      OBVIOUS
    <2>2. declined \in BOOLEAN
      BY Zenon
    <2>3. 0 \in 0 .. MaxReplies
      BY DEF ReviewAssumption
    <2> QED BY <2>1, <2>2, <2>3, NoGrantsType DEF ReviewTypeOK
  <1>2. GrantInv
    BY DEF GrantInv, NoGrants
  <1>3. InterruptInv /\ OneMode
    BY DEF InterruptInv, OneMode
  <1>4. NothingRunsUnasked /\ RefusalsStand /\ GrantsAreRemembered
    BY DEF NothingRunsUnasked, RefusalsStand, GrantsAreRemembered
  <1> QED BY <1>1, <1>2, <1>3, <1>4 DEF ReviewInv

-----------------------------------------------------------------------------
\* The run around the tasks.

\* A task lives as long as its delegation; a run has a mode.
LinkInv ==
    /\ step # "off" <=> node = "capability"
    /\ node # "idle" => ctxMode \in Modes

\* No step of the subagent leaves its task.
LEMMA SubagentStays ==
    ASSUME SubagentStep PROVE step # "off" /\ step' # "off" /\ ctxMode' = ctxMode /\ ReviewMove
  <1>1. CASE HookSettles
    <2>1. PICK i \in Taken : HookEnds(Outcome(answers[i]))
      BY <1>1, Settling, Zenon
    <2> QED BY <1>1, <2>1, OutcomeType DEF HookEnds, ReviewMove
  <1>2. CASE ModelCalls \/ ModelFinishes \/ ToolsRun
    BY <1>2 DEF ModelCalls, ModelFinishes, ToolsRun, ReviewMove
  <1>3. CASE HookBlocks \/ HookAllows
    BY <1>3 DEF HookBlocks, HookAllows, HookEnds, ReviewMove
  <1>4. CASE HookAuthorizes
    BY <1>4 DEF HookAuthorizes, HookEnds, ReviewMove
  <1>5. CASE HookInterrupts
    BY <1>5 DEF HookInterrupts, ReviewMove
  <1> QED BY <1>1, <1>2, <1>3, <1>4, <1>5 DEF SubagentStep

LEMMA NextMovesReview ==
    ASSUME LinkInv, [Next]_vars PROVE ReviewMove /\ LinkInv'
  <1>1. CASE Message
    BY <1>1 DEF Message, Invocation, LinkInv, ReviewMove, NewInvocation
  <1>2. CASE EntryReplies \/ EntryPlans \/ EntryContinues \/ SupervisorBegins \/ DelegationBoundary
    <2>1. node \notin {"idle", "capability"} /\ node' # "capability" /\ UNCHANGED reviewVars
      BY <1>2, Zenon DEF EntryReplies, EntryPlans, EntryContinues, SupervisorBegins, DelegationBoundary, Ends
    <2>2. step' = step /\ ctxMode' = ctxMode
      BY <2>1, Zenon DEF reviewVars
    <2> QED BY <2>1, <2>2, Zenon DEF LinkInv, ReviewMove
  <1>3. CASE DecisionRefused \/ SubmitPlan \/ AdjustPlan \/ ReviewCurrent \/ Reply \/ StepLimit
             \/ DelegationRefused
    <2>1. node = "supervisor" /\ node' # "capability" /\ UNCHANGED reviewVars
      BY <1>3, Zenon DEF DecisionRefused, SubmitPlan, AdjustPlan, ReviewCurrent, Reply, StepLimit,
         DelegationRefused, Decides, Leaves, Ends
    <2>2. step' = step /\ ctxMode' = ctxMode
      BY <2>1, Zenon DEF reviewVars
    <2> QED BY <2>1, <2>2, Zenon DEF LinkInv, ReviewMove
  <1>4. CASE Delegate
    BY <1>4 DEF Delegate, Leaves, CapabilityStarts, LinkInv, ReviewMove
  <1>5. CASE CapabilityStep
    <2>1. node' = node
      BY <1>5, Zenon DEF CapabilityStep, runVars
    <2> QED BY <1>5, <2>1, SubagentStays DEF CapabilityStep, LinkInv
  <1>6. CASE DelegationReturns
    BY <1>6 DEF DelegationReturns, CapabilityEnds, Gone, LinkInv, ReviewMove
  <1>7. CASE RunBreaks
    <2>1. CASE node = "capability"
      BY <1>7, <2>1 DEF RunBreaks, Ends, CapabilityBreaks, Gone, LinkInv, ReviewMove
    <2>2. CASE node # "capability"
      BY <1>7, <2>2 DEF RunBreaks, Ends, LinkInv, ReviewMove, reviewVars
    <2> QED BY <2>1, <2>2
  <1>8. CASE Resume /\ UNCHANGED runVars
    <2>1. node' = node
      BY <1>8, Zenon DEF runVars
    <2>2. step = "waiting" /\ step' = "hook" /\ ctxMode' \in Modes
      BY <1>8, Zenon DEF Resume, Invocation
    <2> QED BY <1>8, <2>1, <2>2 DEF LinkInv, ReviewMove
  <1>9. CASE UNCHANGED vars
    BY <1>9 DEF vars, reviewVars, runVars, LinkInv, ReviewMove
  <1> QED BY <1>1, <1>2, <1>3, <1>4, <1>5, <1>6, <1>7, <1>8, <1>9 DEF Next, AgentStep, SupervisorStep

-----------------------------------------------------------------------------
\* Plans and their executions.

LEMMA ConcatElements ==
    ASSUME NEW S, NEW s \in Seq(S), NEW r \in Seq(S)
    PROVE  s \o r \in Seq(S) /\ ToSet(s \o r) = ToSet(s) \cup ToSet(r)
  <1> DEFINE q == s \o r
  <1>1. /\ q \in Seq(S) /\ Len(q) = Len(s) + Len(r) /\ Len(s) \in Nat /\ Len(r) \in Nat
        /\ \A i \in 1 .. Len(s) : q[i] = s[i]
    OBVIOUS
  <1>2. \A i \in 1 .. Len(r) : q[Len(s) + i] = r[i]
    OBVIOUS
  <1> HIDE DEF q
  <1>3. ASSUME NEW x \in ToSet(q) PROVE x \in ToSet(s) \cup ToSet(r)
    <2>1. PICK i \in 1 .. Len(q) : q[i] = x
      BY <1>1, <1>3, ElementsOf, Zenon
    <2>2. CASE i \in 1 .. Len(s)
      <3>1. s[i] \in ToSet(s) /\ q[i] = s[i]
        BY <1>1, <2>2, ElementsOf, Zenon
      <3> QED BY <2>1, <3>1, Zenon
    <2>3. CASE i \notin 1 .. Len(s)
      <3>1. i - Len(s) \in 1 .. Len(r) /\ Len(s) + (i - Len(s)) = i
        BY <1>1, <2>3
      <3>2. r[i - Len(s)] = x
        BY <1>2, <2>1, <3>1
      <3> QED BY <3>1, <3>2, ElementsOf, Zenon
    <2> QED BY <2>2, <2>3
  <1>4. ASSUME NEW x \in ToSet(s) PROVE x \in ToSet(q)
    <2>1. PICK i \in 1 .. Len(s) : s[i] = x
      BY <1>4, ElementsOf, Zenon
    <2>2. i \in 1 .. Len(q)
      BY <1>1
    <2> QED BY <1>1, <2>1, <2>2, ElementsOf, Zenon
  <1>5. ASSUME NEW x \in ToSet(r) PROVE x \in ToSet(q)
    <2>1. PICK i \in 1 .. Len(r) : r[i] = x
      BY <1>5, ElementsOf, Zenon
    <2>2. Len(s) + i \in 1 .. Len(q)
      BY <1>1
    <2>3. q[Len(s) + i] = x
      BY <1>2, <2>1, Zenon
    <2> QED BY <1>1, <2>2, <2>3, ElementsOf, Zenon
  <1> QED BY <1>1, <1>3, <1>4, <1>5, Zenon DEF q

LEMMA TaskIs ==
    ASSUME NEW t \in Tasks
    PROVE  /\ t = Task(t.id, t.status) /\ t.id \in 1 .. MaxItems
           /\ t.status \in {"pending", "completed", "superseded"}
  BY DEF Tasks, Task

\* The current task of a plan is an open one.
LEMMA CurrentIs ==
    ASSUME NEW p \in Seq(Tasks), HasCurrent(p)
    PROVE  Current(p) \in ToSet(p) /\ Open(Current(p)) /\ Current(p) \in Tasks
  <1> DEFINE S == {i \in 1 .. Len(p) : Open(p[i])}
  <1>1. DOMAIN p = 1 .. Len(p) /\ Len(p) \in Nat
    OBVIOUS
  <1>2. PICK i \in 1 .. Len(p) : Open(p[i])
    <2>1. PICK t \in ToSet(p) : Open(t)
      BY Zenon DEF HasCurrent
    <2>2. PICK i \in 1 .. Len(p) : p[i] = t
      BY ElementsOf, Zenon
    <2> QED BY <2>1, <2>2, Zenon
  <1>3. S \in SUBSET Nat /\ i \in S
    BY <1>2
  <1>4. PICK m \in S : \A k \in S : m <= k
    <2> HIDE DEF S
    <2> QED BY <1>3, LeastOf, Zenon
  <1>5. m \in DOMAIN p /\ Open(p[m])
    BY <1>1, <1>4
  <1>6. ASSUME NEW j \in 1 .. m - 1 PROVE ~Open(p[j])
    <2>1. j \in 1 .. Len(p) /\ ~(m <= j)
      BY <1>1, <1>5
    <2> QED BY <1>4, <2>1, Zenon
  <1> DEFINE c == CHOOSE k \in DOMAIN p : Open(p[k]) /\ \A j \in 1 .. k - 1 : ~Open(p[j])
  <1>7. c \in DOMAIN p /\ Open(p[c])
    BY <1>5, <1>6, Zenon
  <1>8. Current(p) = p[c]
    BY Zenon DEF Current
  <1> HIDE DEF c
  <1>9. p[c] \in ToSet(p) /\ p[c] \in Tasks
    BY <1>1, <1>7, ElementsOf, ElementIs, Zenon
  <1> QED BY <1>7, <1>8, <1>9, Zenon

\* The last of an item's executions returned a delivery.
Came(rec, id) ==
    \E i \in 1 .. Len(rec) :
        /\ rec[i].item = id /\ rec[i].result = "returned"
        /\ \A j \in 1 .. Len(rec) : rec[j].item = id => j <= i

Executed == [item : 1 .. MaxItems, result : {"returned", "missing"}, kept : BOOLEAN]

LEMMA CameIs ==
    ASSUME record \in Seq(Executed), NEW id
    PROVE  Came(record, id) <=> LastReturned(Attempts(id))
  <1>1. DOMAIN record = 1 .. Len(record)
    OBVIOUS
  <1> QED BY <1>1, Zenon DEF Came, LastReturned, Attempts

\* A plan p fits n items made, the accepted ones and the transcript: what is
\* open was never accepted, and all that came of it is still there; what is
\* completed was delivered.
Sound(p, n, acc, rec) ==
    \A t \in ToSet(p) :
        /\ t.id \in 1 .. n
        /\ Open(t) => /\ t.id \notin acc
                      /\ \A u \in ToSet(p) : u.status = "completed" => u.id # t.id
                      /\ \A i \in 1 .. Len(rec) : rec[i].item = t.id => rec[i].kept
        /\ t.status = "completed" => Came(rec, t.id)

RunTypeOK ==
    /\ run \in 0 .. MaxRuns
    /\ node \in {"idle", "entry", "enter", "supervisor", "capability", "boundary"}
    /\ plan \in Seq(Tasks) /\ draft \in Seq(Tasks)
    /\ turns \in 0 .. MaxTurns /\ count \in 0 .. MaxIterations
    /\ record \in Seq(Executed)
    /\ items \in 0 .. MaxItems
    /\ accepted \in SUBSET (1 .. MaxItems)

RunInv ==
    /\ RunTypeOK
    /\ Sound(plan, items, accepted, record)
    /\ Sound(draft, items, accepted, record)
    /\ \A id \in accepted : id \in 1 .. items /\ Came(record, id)
    /\ \A i \in 1 .. Len(record) : record[i].item \in 1 .. items
    /\ node \in {"supervisor", "capability"} => count < MaxIterations
    /\ node = "capability" => HasCurrent(plan)
    /\ draft # NoPlan => node = "supervisor"

LEMMA NoPlanIsSound ==
    ASSUME NEW n, NEW acc, NEW rec
    PROVE  Sound(NoPlan, n, acc, rec) /\ NoPlan \in Seq(Tasks) /\ ToSet(NoPlan) = {}
  BY DEF Sound, NoPlan, ToSet

LEMMA SoundLater ==
    ASSUME NEW p, NEW n \in Nat, NEW m \in Nat, n <= m, NEW acc, NEW rec, Sound(p, n, acc, rec)
    PROVE  Sound(p, m, acc, rec)
  <1>1. \A id : id \in 1 .. n => id \in 1 .. m
    OBVIOUS
  <1> QED BY <1>1, Zenon DEF Sound

LEMMA FreshIs ==
    ASSUME NEW n \in Nat, items \in Nat, MaxItems \in Nat, items + n <= MaxItems
    PROVE  /\ Fresh(n) \in Seq(Tasks)
           /\ \A t \in ToSet(Fresh(n)) : t.id \in 1 .. (items + n) /\ items < t.id /\ t.status = "pending"
  <1>1. \A i \in 1 .. n : Task(items + i, "pending") \in Tasks
    BY DEF Task, Tasks
  <1>2. Fresh(n) \in Seq(Tasks) /\ Len(Fresh(n)) = n
    BY <1>1 DEF Fresh
  <1>3. \A i \in 1 .. n : Fresh(n)[i] = Task(items + i, "pending")
    BY DEF Fresh
  <1>4. ASSUME NEW t \in ToSet(Fresh(n))
        PROVE  t.id \in 1 .. (items + n) /\ items < t.id /\ t.status = "pending"
    <2>1. PICK i \in 1 .. n : Fresh(n)[i] = t
      BY <1>2, <1>4, ElementsOf
    <2>2. t = [id |-> items + i, status |-> "pending"]
      BY <1>3, <2>1 DEF Task
    <2> QED BY <2>2
  <1> QED BY <1>2, <1>4

\* A fresh item has no history.
LEMMA FreshIsSound ==
    ASSUME RunAssumption, RunInv, NEW n \in Nat, items + n <= MaxItems
    PROVE  /\ Sound(Fresh(n), items + n, accepted, record)
           /\ \A t \in ToSet(Fresh(n)) : \A u : u.id \in 1 .. items => u.id # t.id
  <1>1. items \in Nat /\ MaxItems \in Nat /\ record \in Seq(Executed)
    BY DEF RunInv, RunTypeOK, RunAssumption
  <1>2. \A t \in ToSet(Fresh(n)) : t.id \in 1 .. (items + n) /\ items < t.id /\ t.status = "pending"
    BY <1>1, FreshIs
  <1>3. ASSUME NEW t \in ToSet(Fresh(n)), NEW x \in 1 .. items PROVE x # t.id
    BY <1>1, <1>2
  <1>4. /\ \A id \in accepted : id \in 1 .. items
        /\ \A i \in 1 .. Len(record) : record[i].item \in 1 .. items
    BY Zenon DEF RunInv
  <1>5. Sound(Fresh(n), items + n, accepted, record)
    BY <1>2, <1>3, <1>4 DEF Sound
  <1> QED BY <1>3, <1>5

LEMMA TypesOf ==
    ASSUME RunAssumption, RunInv
    PROVE  /\ items \in Nat /\ MaxItems \in Nat /\ items <= MaxItems
           /\ record \in Seq(Executed) /\ plan \in Seq(Tasks) /\ draft \in Seq(Tasks)
           /\ Len(record) \in Nat /\ DOMAIN record = 1 .. Len(record)
           /\ count \in Nat /\ MaxIterations \in Nat /\ MaxTurns \in Nat /\ MaxRuns \in Nat
           /\ MaxPlan \in Nat
  BY DEF RunInv, RunTypeOK, RunAssumption

\* submit_plan makes a plan of fresh items.
LEMMA SubmitMakes ==
    ASSUME RunAssumption, RunInv, SubmitPlan
    PROVE  /\ draft' \in Seq(Tasks) /\ items' \in Nat /\ items <= items' /\ items' <= MaxItems
           /\ Sound(draft', items', accepted, record)
  <1>1. PICK n \in 1 .. MaxPlan : items + n <= MaxItems /\ items' = items + n /\ draft' = Fresh(n)
    BY Zenon DEF SubmitPlan
  <1>2. n \in Nat /\ items \in Nat /\ MaxItems \in Nat
    BY TypesOf
  <1>3. Fresh(n) \in Seq(Tasks) /\ Sound(Fresh(n), items + n, accepted, record)
    BY <1>1, <1>2, FreshIs, FreshIsSound
  <1>4. items <= items + n /\ items + n \in Nat
    BY <1>2
  <1> QED BY <1>1, <1>3, <1>4

\* What an adjustment retains is the completed, and no open item.
LEMMA RetainedIs ==
    ASSUME draft \in Seq(Tasks), NEW keep \in BOOLEAN
    PROVE  /\ Retained(keep) \in Seq(Tasks)
           /\ \A t \in ToSet(Retained(keep)) :
                 /\ ~Open(t)
                 /\ \E u \in ToSet(draft) : u.id = t.id /\ (t.status = "completed" => u = t)
  <1> DEFINE Stay(t) == \/ ~Open(t)
                        \/ Executions(t.id) # {} /\ ~(keep /\ t = Current(draft))
             Closed(t) == IF t.status = "completed" THEN t ELSE Task(t.id, "superseded")
             stay == Only(draft, {t \in ToSet(draft) : Stay(t)})
             r == [i \in DOMAIN stay |-> Closed(stay[i])]
  <1>1. Retained(keep) = r
    BY Zenon DEF Retained
  <1>2. stay \in Seq(Tasks) /\ ToSet(stay) = ToSet(draft) \cap {t \in ToSet(draft) : Stay(t)}
    BY OnlyElements
  <1>3. ASSUME NEW t \in Tasks
        PROVE  /\ Closed(t) \in Tasks /\ Closed(t).id = t.id /\ ~Open(Closed(t))
               /\ Closed(t).status = "completed" => Closed(t) = t
    BY <1>3 DEF Open, Task, Tasks
  <1> HIDE DEF Stay, stay, Closed
  <1>4. DOMAIN stay = 1 .. Len(stay) /\ Len(stay) \in Nat /\ \A i \in 1 .. Len(stay) : stay[i] \in Tasks
    BY <1>2
  <1>5. \A i \in 1 .. Len(stay) : Closed(stay[i]) \in Tasks
    BY <1>3, <1>4, Zenon
  <1>6. r = [i \in 1 .. Len(stay) |-> Closed(stay[i])]
    BY <1>4, Zenon
  <1>7. r \in Seq(Tasks) /\ Len(r) = Len(stay)
    BY <1>4, <1>5, <1>6
  <1>8. \A i \in 1 .. Len(stay) : r[i] = Closed(stay[i])
    BY <1>6, Zenon
  <1> HIDE DEF r
  <1>9. ASSUME NEW t \in ToSet(r)
        PROVE  /\ ~Open(t)
               /\ \E u \in ToSet(draft) : u.id = t.id /\ (t.status = "completed" => u = t)
    <2>1. PICK i \in 1 .. Len(r) : r[i] = t
      BY <1>7, <1>9, ElementsOf, Zenon
    <2>2. t = Closed(stay[i]) /\ stay[i] \in Tasks /\ i \in 1 .. Len(stay)
      BY <1>4, <1>7, <1>8, <2>1, Zenon
    <2>3. stay[i] \in ToSet(stay)
      BY <1>2, <2>2, ElementsOf, Zenon
    <2>4. stay[i] \in ToSet(draft)
      BY <1>2, <2>3, Zenon
    <2> QED BY <1>3, <2>2, <2>4, Zenon
  <1> QED BY <1>1, <1>7, <1>9, Zenon

\* adjust_plan keeps what was done, perhaps the current item, and adds fresh ones.
LEMMA AdjustMakes ==
    ASSUME RunAssumption, RunInv, AdjustPlan
    PROVE  /\ draft' \in Seq(Tasks) /\ items' \in Nat /\ items <= items' /\ items' <= MaxItems
           /\ Sound(draft', items', accepted, record)
  <1>0. /\ items \in Nat /\ MaxItems \in Nat /\ draft \in Seq(Tasks)
        /\ Sound(draft, items, accepted, record)
    BY TypesOf DEF RunInv
  <1>1. PICK n \in 1 .. MaxPlan, keep \in BOOLEAN :
          LET same == IF keep /\ HasCurrent(draft)
                      THEN <<Task(Current(draft).id, "pending")>> ELSE <<>>
              new == n - Len(same)
          IN  /\ items + new <= MaxItems /\ items' = items + new
              /\ draft' = Retained(keep) \o same \o Fresh(new)
    BY Zenon DEF AdjustPlan
  <1> DEFINE same == IF keep /\ HasCurrent(draft) THEN <<Task(Current(draft).id, "pending")>> ELSE <<>>
             new == n - Len(same)
  <1>2. /\ items + new <= MaxItems /\ items' = items + new
        /\ draft' = Retained(keep) \o same \o Fresh(new)
    BY <1>1, Zenon
  \* The item that is kept is the current one.
  <1>3. /\ same \in Seq(Tasks) /\ Len(same) \in {0, 1}
        /\ \A t \in ToSet(same) : t \in ToSet(draft) /\ Open(t)
    <2>1. CASE keep /\ HasCurrent(draft)
      <3> DEFINE c == Current(draft)
      <3>1. c \in ToSet(draft) /\ Open(c) /\ c \in Tasks
        BY <1>0, <2>1, CurrentIs
      <3> HIDE DEF c
      <3>2. c = Task(c.id, "pending")
        BY <3>1, TaskIs DEF Open
      <3>3. same = <<c>>
        BY <2>1, <3>2, Zenon DEF c
      <3> HIDE DEF same
      <3>4. ToSet(same) = {c} /\ same \in Seq(Tasks) /\ Len(same) = 1
        BY <3>1, <3>3 DEF ToSet
      <3> QED BY <3>1, <3>4, Zenon
    <2>2. CASE ~(keep /\ HasCurrent(draft))
      <3>1. same = <<>>
        BY <2>2, Zenon
      <3> HIDE DEF same
      <3> QED BY <3>1 DEF ToSet
    <2> QED BY <2>1, <2>2
  <1> HIDE DEF same
  <1>4. new \in Nat /\ items <= items + new /\ items + new \in Nat
    <2>1. n \in Nat /\ 1 <= n
      BY TypesOf
    <2>2. PICK k \in {0, 1} : Len(same) = k
      BY <1>3, Zenon
    <2>3. new = n - k
      BY <2>2, Zenon
    <2> HIDE DEF new
    <2>4. new \in Nat
      BY <2>1, <2>3
    <2> QED BY <1>0, <2>4
  <1> HIDE DEF new
  <1>5. /\ Fresh(new) \in Seq(Tasks) /\ Sound(Fresh(new), items + new, accepted, record)
        /\ \A t \in ToSet(Fresh(new)) : t.status = "pending"
        /\ \A t \in ToSet(Fresh(new)) : \A u : u.id \in 1 .. items => u.id # t.id
    BY <1>0, <1>2, <1>4, FreshIs, FreshIsSound
  <1> DEFINE old == Retained(keep)
  <1>6. /\ old \in Seq(Tasks)
        /\ \A t \in ToSet(old) :
              /\ ~Open(t)
              /\ \E u \in ToSet(draft) : u.id = t.id /\ (t.status = "completed" => u = t)
    BY <1>0, RetainedIs
  <1> HIDE DEF old
  <1>7. draft' = (old \o same) \o Fresh(new)
    BY <1>2 DEF old
  <1>8. /\ draft' \in Seq(Tasks)
        /\ ToSet(draft') = ToSet(old) \cup ToSet(same) \cup ToSet(Fresh(new))
    <2> DEFINE p == old \o same
               q == Fresh(new)
    <2>1. p \in Seq(Tasks) /\ ToSet(p) = ToSet(old) \cup ToSet(same)
      BY <1>3, <1>6, ConcatElements
    <2>2. q \in Seq(Tasks)
      BY <1>5
    <2> HIDE DEF p, q
    <2>3. p \o q \in Seq(Tasks) /\ ToSet(p \o q) = ToSet(p) \cup ToSet(q)
      BY <2>1, <2>2, ConcatElements
    <2>4. draft' = p \o q
      BY <1>7 DEF p, q
    <2> QED BY <2>1, <2>3, <2>4, Zenon DEF q
  \* Everything completed was so before; everything open is kept or fresh.
  <1>9. ASSUME NEW t \in ToSet(draft'), t.status = "completed" PROVE t \in ToSet(draft)
    <2>1. CASE t \in ToSet(old)
      BY <1>6, <1>9, <2>1, Zenon
    <2>2. CASE t \in ToSet(same)
      BY <1>3, <2>2, Zenon
    <2>3. CASE t \in ToSet(Fresh(new))
      BY <1>5, <1>9, <2>3
    <2> QED BY <1>8, <2>1, <2>2, <2>3, Zenon
  <1>10. ASSUME NEW t \in ToSet(draft') \ ToSet(Fresh(new))
         PROVE  t.id \in 1 .. items /\ (Open(t) => t \in ToSet(draft))
    <2>1. CASE t \in ToSet(old)
      BY <1>0, <1>6, <2>1, Zenon DEF Sound
    <2>2. CASE t \in ToSet(same)
      BY <1>0, <1>3, <2>2, Zenon DEF Sound
    <2> QED BY <1>8, <1>10, <2>1, <2>2, Zenon
  <1>11. \A id \in 1 .. items : id \in 1 .. (items + new)
    BY <1>0, <1>4
  <1>12. Sound(draft', items + new, accepted, record)
    <2> SUFFICES ASSUME NEW t \in ToSet(draft')
        PROVE  /\ t.id \in 1 .. (items + new)
               /\ Open(t) => /\ t.id \notin accepted
                             /\ \A u \in ToSet(draft') : u.status = "completed" => u.id # t.id
                             /\ \A i \in 1 .. Len(record) : record[i].item = t.id => record[i].kept
               /\ t.status = "completed" => Came(record, t.id)
      BY Zenon DEF Sound
    <2>1. t.status = "completed" => Came(record, t.id)
      BY <1>0, <1>9, Zenon DEF Sound
    <2>2. CASE t \in ToSet(Fresh(new))
      <3>1. \A u \in ToSet(draft') : u.status = "completed" => u.id # t.id
        BY <1>0, <1>5, <1>9, <2>2, Zenon DEF Sound
      <3>2. /\ t.id \in 1 .. (items + new)
            /\ Open(t) => /\ t.id \notin accepted
                          /\ \A i \in 1 .. Len(record) : record[i].item = t.id => record[i].kept
        BY <1>5, <2>2, Zenon DEF Sound
      <3> QED BY <2>1, <3>1, <3>2, Zenon
    <2>3. CASE t \notin ToSet(Fresh(new))
      <3>1. t.id \in 1 .. items /\ (Open(t) => t \in ToSet(draft))
        BY <1>10, <2>3
      <3>2. ASSUME Open(t)
            PROVE  /\ t.id \notin accepted
                   /\ \A u \in ToSet(draft') : u.status = "completed" => u.id # t.id
                   /\ \A i \in 1 .. Len(record) : record[i].item = t.id => record[i].kept
        <4>1. t \in ToSet(draft)
          BY <3>1, <3>2
        <4>2. /\ t.id \notin accepted
              /\ \A u \in ToSet(draft) : u.status = "completed" => u.id # t.id
              /\ \A i \in 1 .. Len(record) : record[i].item = t.id => record[i].kept
          BY <1>0, <3>2, <4>1, Zenon DEF Sound
        <4> QED BY <1>9, <4>2, Zenon
      <3> QED BY <1>11, <2>1, <3>1, <3>2, Zenon
    <2> QED BY <2>2, <2>3
  <1> QED BY <1>0, <1>2, <1>4, <1>8, <1>12

\* review_current accepts a delivery that is the last of the item's executions.
LEMMA ReviewMakes ==
    ASSUME RunAssumption, RunInv, ReviewCurrent
    PROVE  /\ draft' \in Seq(Tasks) /\ items' = items
           /\ Sound(draft', items, accepted, record)
  <1>0. /\ items \in Nat /\ draft \in Seq(Tasks) /\ record \in Seq(Executed)
        /\ Sound(draft, items, accepted, record)
        /\ DOMAIN record = 1 .. Len(record) /\ DOMAIN draft = 1 .. Len(draft) /\ Len(draft) \in Nat
    BY TypesOf DEF RunInv
  <1> DEFINE c == Current(draft)
             Done(t) == Task(t.id, "completed")
  <1>1. PICK done \in BOOLEAN :
          /\ done => Delivered(c.id)
          /\ draft' = [i \in DOMAIN draft |-> IF done /\ draft[i] = c THEN Done(draft[i]) ELSE draft[i]]
    BY Zenon DEF ReviewCurrent
  <1>2. c \in ToSet(draft) /\ Open(c) /\ c \in Tasks
    BY <1>0, CurrentIs DEF ReviewCurrent
  <1>3. items' = items
    BY DEF ReviewCurrent
  <1> HIDE DEF c
  <1>4. done => Came(record, c.id)
    <2>1. \A i \in 1 .. Len(record) : record[i].item = c.id => record[i].kept
      BY <1>0, <1>2, Zenon DEF Sound
    <2>2. Executions(c.id) = Attempts(c.id)
      BY <1>0, <2>1, Zenon DEF Executions, Attempts
    <2> QED BY <1>0, <1>1, <2>2, CameIs DEF Delivered
  <1>5. \A t \in Tasks : Done(t) \in Tasks /\ Done(t).id = t.id /\ Done(t).status = "completed"
    BY DEF Task, Tasks
  <1> HIDE DEF Done
  <1>6. \A i \in 1 .. Len(draft) : draft[i] \in Tasks
    BY <1>0
  <1>7. draft' \in Seq(Tasks) /\ Len(draft') = Len(draft)
    <2>1. \A i \in 1 .. Len(draft) : (IF done /\ draft[i] = c THEN Done(draft[i]) ELSE draft[i]) \in Tasks
      BY <1>5, <1>6, Zenon
    <2>2. draft' = [i \in 1 .. Len(draft) |-> IF done /\ draft[i] = c THEN Done(draft[i]) ELSE draft[i]]
      BY <1>0, <1>1, Zenon
    <2> QED BY <1>0, <2>1, <2>2
  <1>8. ASSUME NEW t \in ToSet(draft')
        PROVE  \/ t \in ToSet(draft) /\ (done => t # c)
               \/ done /\ t = Done(c)
    <2>1. PICK i \in 1 .. Len(draft') : draft'[i] = t
      BY <1>7, <1>8, ElementsOf, Zenon
    <2>2. t = IF done /\ draft[i] = c THEN Done(draft[i]) ELSE draft[i]
      BY <1>0, <1>1, <1>7, <2>1, Zenon
    <2>3. draft[i] \in ToSet(draft)
      BY <1>0, <1>7, <2>1, ElementsOf, Zenon
    <2> QED BY <2>2, <2>3, Zenon
  \* The current item is the only open one of its id.
  <1>9. ASSUME NEW t \in ToSet(draft), Open(t), t.id = c.id PROVE t = c
    <2>1. t \in Tasks
      BY <1>0, <1>9, ElementsOf, Zenon
    <2> QED BY <1>2, <1>9, <2>1, TaskIs DEF Open
  <1>10. ASSUME NEW t \in ToSet(draft')
         PROVE  /\ t.id \in 1 .. items
                /\ Open(t) => /\ t.id \notin accepted
                              /\ \A u \in ToSet(draft') : u.status = "completed" => u.id # t.id
                              /\ \A i \in 1 .. Len(record) : record[i].item = t.id => record[i].kept
                /\ t.status = "completed" => Came(record, t.id)
    <2>1. CASE done /\ t = Done(c)
      <3>1. t.id = c.id /\ t.status = "completed" /\ ~Open(t)
        BY <1>2, <1>5, <2>1 DEF Open
      <3>2. c.id \in 1 .. items
        BY <1>0, <1>2, Zenon DEF Sound
      <3> QED BY <1>4, <2>1, <3>1, <3>2
    <2>2. CASE t \in ToSet(draft) /\ (done => t # c)
      <3>1. /\ t.id \in 1 .. items
            /\ Open(t) => /\ t.id \notin accepted
                          /\ \A u \in ToSet(draft) : u.status = "completed" => u.id # t.id
                          /\ \A i \in 1 .. Len(record) : record[i].item = t.id => record[i].kept
            /\ t.status = "completed" => Came(record, t.id)
        BY <1>0, <2>2, Zenon DEF Sound
      <3>2. ASSUME Open(t), NEW u \in ToSet(draft'), u.status = "completed"
            PROVE  u.id # t.id
        <4>1. CASE done /\ u = Done(c)
          BY <1>2, <1>5, <1>9, <2>2, <3>2, <4>1
        <4>2. CASE u \in ToSet(draft)
          BY <3>1, <3>2, <4>2, Zenon
        <4> QED BY <1>8, <4>1, <4>2, Zenon
      <3> QED BY <3>1, <3>2, Zenon
    <2> QED BY <1>8, <2>1, <2>2
  <1> QED BY <1>3, <1>7, <1>10, Zenon DEF Sound

\* What a plan that is written makes accepted.
LEMMA WrittenIsAccepted ==
    ASSUME RunAssumption, RunInv, NEW p \in Seq(Tasks), Sound(p, items, accepted, record), Writes(p)
    PROVE  /\ Sound(plan', items, accepted', record) /\ plan' = p
           /\ \A id \in accepted' : id \in 1 .. items /\ Came(record, id)
           /\ accepted' \in SUBSET (1 .. MaxItems)
  <1>1. plan' = p /\ accepted' = accepted \cup Completed(p)
    BY Zenon DEF Writes
  <1>2. \A id \in Completed(p) : \E t \in ToSet(p) : t.id = id /\ t.status = "completed"
    BY Zenon DEF Completed
  <1>3. Sound(p, items, accepted', record)
    BY <1>1, <1>2, Zenon DEF Sound
  <1>4. \A id \in accepted' : id \in 1 .. items /\ Came(record, id)
    BY <1>1, <1>2, Zenon DEF Sound, RunInv
  <1>5. \A id \in 1 .. items : id \in 1 .. MaxItems
    BY TypesOf
  <1> QED BY <1>1, <1>3, <1>4, <1>5, Zenon

\* A step that leaves the plans and the transcript alone, or drops a plan.
LEMMA RunFrame ==
    ASSUME RunAssumption, RunInv,
           UNCHANGED <<record, items, accepted>>,
           plan' = plan \/ plan' = NoPlan,
           draft' = draft \/ draft' = NoPlan \/ draft' = plan,
           run' \in 0 .. MaxRuns, turns' \in 0 .. MaxTurns, count' \in 0 .. MaxIterations,
           node' \in {"idle", "entry", "enter", "supervisor", "capability", "boundary"},
           node' \in {"supervisor", "capability"} => count' < MaxIterations,
           node' = "capability" => HasCurrent(plan'),
           draft' # NoPlan => node' = "supervisor"
    PROVE  RunInv'
  <1>1. record' = record /\ items' = items /\ accepted' = accepted
    OBVIOUS
  <1>2. /\ plan' \in Seq(Tasks) /\ draft' \in Seq(Tasks)
        /\ Sound(plan', items, accepted, record) /\ Sound(draft', items, accepted, record)
    <2>1. plan \in Seq(Tasks) /\ draft \in Seq(Tasks)
      BY TypesOf
    <2>2. Sound(plan, items, accepted, record) /\ Sound(draft, items, accepted, record)
      BY Zenon DEF RunInv
    <2>3. NoPlan \in Seq(Tasks) /\ Sound(NoPlan, items, accepted, record)
      BY NoPlanIsSound
    <2> QED BY <2>1, <2>2, <2>3, Zenon
  <1>3. RunTypeOK'
    BY <1>1, <1>2, Zenon DEF RunInv, RunTypeOK
  <1>4. /\ \A id \in accepted : id \in 1 .. items /\ Came(record, id)
        /\ \A i \in 1 .. Len(record) : record[i].item \in 1 .. items
    BY Zenon DEF RunInv
  <1> QED BY <1>1, <1>2, <1>3, <1>4, Zenon DEF RunInv

\* A plan is written: the copy is gone.
LEMMA WritesStep ==
    ASSUME RunAssumption, RunInv, NEW p \in {plan, draft}, Writes(p), draft' = NoPlan,
           UNCHANGED <<run, record, items>>, turns' = 0, count' \in 0 .. MaxIterations,
           node' \in {"idle", "enter", "capability"},
           node' = "capability" => HasCurrent(p) /\ count' < MaxIterations
    PROVE  RunInv'
  <1>1. p \in Seq(Tasks) /\ Sound(p, items, accepted, record)
    BY TypesOf, Zenon DEF RunInv
  <1>2. /\ Sound(plan', items, accepted', record) /\ plan' = p
        /\ \A id \in accepted' : id \in 1 .. items /\ Came(record, id)
        /\ accepted' \in SUBSET (1 .. MaxItems)
    BY <1>1, WrittenIsAccepted
  <1>3. record' = record /\ items' = items /\ run' = run
    OBVIOUS
  <1>4. turns' \in 0 .. MaxTurns
    BY TypesOf
  <1>5. RunTypeOK'
    BY <1>1, <1>2, <1>3, <1>4, NoPlanIsSound, Zenon DEF RunInv, RunTypeOK
  <1>6. Sound(draft', items, accepted', record)
    BY NoPlanIsSound, Zenon
  <1>7. \A i \in 1 .. Len(record) : record[i].item \in 1 .. items
    BY Zenon DEF RunInv
  <1>8. /\ node' \in {"supervisor", "capability"} => count' < MaxIterations
        /\ node' = "capability" => HasCurrent(plan')
        /\ draft' = NoPlan
    BY <1>2
  <1> QED BY <1>2, <1>3, <1>5, <1>6, <1>7, <1>8, Zenon DEF RunInv

\* A decision of the Supervisor that changes its copy.
LEMMA DraftStep ==
    ASSUME RunAssumption, RunInv, Decides,
           draft' \in Seq(Tasks), items' \in Nat, items <= items', items' <= MaxItems,
           Sound(draft', items', accepted, record)
    PROVE  RunInv'
  <1>1. /\ node = "supervisor" /\ node' = "supervisor" /\ turns < MaxTurns /\ turns' = turns + 1
        /\ run' = run /\ plan' = plan /\ count' = count /\ record' = record /\ accepted' = accepted
    BY Zenon DEF Decides
  <1>2. turns' \in 0 .. MaxTurns /\ items' \in 0 .. MaxItems
    BY <1>1, TypesOf DEF RunInv, RunTypeOK
  <1>3. RunTypeOK'
    BY <1>1, <1>2, Zenon DEF RunInv, RunTypeOK
  <1>4. items \in Nat /\ \A id \in 1 .. items : id \in 1 .. items'
    BY TypesOf
  <1>5. Sound(plan, items', accepted, record)
    BY <1>4, SoundLater DEF RunInv
  <1>6. /\ \A id \in accepted : id \in 1 .. items' /\ Came(record, id)
        /\ \A i \in 1 .. Len(record) : record[i].item \in 1 .. items'
    BY <1>4, Zenon DEF RunInv
  <1>7. count < MaxIterations
    BY <1>1 DEF RunInv
  <1> QED BY <1>1, <1>3, <1>5, <1>6, <1>7 DEF RunInv

\* A message compacts the transcript: what an open item has had stays.
LEMMA MessageStep ==
    ASSUME RunAssumption, RunInv, Message
    PROVE  RunInv'
  <1>0. /\ items \in Nat /\ plan \in Seq(Tasks) /\ draft \in Seq(Tasks) /\ record \in Seq(Executed)
        /\ Len(record) \in Nat /\ DOMAIN record = 1 .. Len(record)
    BY TypesOf
  <1>1. PICK from \in 0 .. Len(record) :
           record' = [i \in DOMAIN record |-> [record[i] EXCEPT !.kept = Stays(i, from)]]
    BY Zenon DEF Message
  <1>2. /\ node = "idle" /\ run < MaxRuns /\ run' = run + 1 /\ node' = "entry" /\ count' = 0
        /\ plan' = plan /\ draft' = draft /\ turns' = turns /\ items' = items /\ accepted' = accepted
    BY Zenon DEF Message
  <1>3. ASSUME NEW i \in 1 .. Len(record)
        PROVE  /\ [record[i] EXCEPT !.kept = Stays(i, from)] \in Executed
               /\ [record[i] EXCEPT !.kept = Stays(i, from)].item = record[i].item
               /\ [record[i] EXCEPT !.kept = Stays(i, from)].result = record[i].result
               /\ [record[i] EXCEPT !.kept = Stays(i, from)].kept = Stays(i, from)
    <2>1. record[i] \in Executed
      BY <1>0
    <2>2. Stays(i, from) \in BOOLEAN
      BY <2>1, Zenon DEF Stays, Executed
    <2> DEFINE x == Stays(i, from)
               e == record[i]
    <2> HIDE DEF x, e
    <2>3. e \in Executed /\ x \in BOOLEAN
      BY <2>1, <2>2 DEF x, e
    <2>4. [e EXCEPT !.kept = x] = [item |-> e.item, result |-> e.result, kept |-> x]
      BY <2>3 DEF Executed
    <2>5. /\ [e EXCEPT !.kept = x] \in Executed
          /\ [e EXCEPT !.kept = x].item = e.item
          /\ [e EXCEPT !.kept = x].result = e.result
      BY <2>3, <2>4 DEF Executed
    <2>6. [e EXCEPT !.kept = x].kept = x
      BY <2>4, Zenon
    <2> QED BY <2>5, <2>6, Zenon DEF x, e
  <1>4. /\ record' \in Seq(Executed) /\ Len(record') = Len(record)
        /\ \A i \in 1 .. Len(record) : /\ record'[i].item = record[i].item
                                       /\ record'[i].result = record[i].result
                                       /\ record'[i].kept <=> Stays(i, from)
    <2> DEFINE g == [i \in 1 .. Len(record) |-> [record[i] EXCEPT !.kept = Stays(i, from)]]
    <2>1. record' = g
      BY <1>0, <1>1, Zenon
    <2>2. \A i \in 1 .. Len(record) : g[i] = [record[i] EXCEPT !.kept = Stays(i, from)]
      BY Zenon
    <2>3. \A i \in 1 .. Len(record) : g[i] \in Executed
      BY <1>3, <2>2, Zenon
    <2>4. DOMAIN g = 1 .. Len(record) /\ g = [i \in 1 .. Len(record) |-> g[i]]
      BY Zenon
    <2> HIDE DEF g
    <2>5. g \in Seq(Executed) /\ Len(g) = Len(record)
      BY <1>0, <2>3, <2>4
    <2> QED BY <1>3, <2>1, <2>2, <2>5, Zenon
  <1>5. \A id : Came(record, id) => Came(record', id)
    BY <1>4, Zenon DEF Came
  <1>6. ASSUME NEW t \in ToSet(plan), Open(t), NEW i \in 1 .. Len(record), record[i].item = t.id
        PROVE  record'[i].kept
    <2>1. record[i].kept
      BY <1>6, Zenon DEF RunInv, Sound
    <2>2. IsOpen(record[i].item)
      BY <1>6, Zenon DEF IsOpen
    <2> QED BY <1>4, <1>6, <2>1, <2>2, Zenon DEF Stays
  <1>7. Sound(plan, items, accepted, record')
    <2> SUFFICES ASSUME NEW t \in ToSet(plan)
        PROVE  /\ t.id \in 1 .. items
               /\ Open(t) => /\ t.id \notin accepted
                             /\ \A u \in ToSet(plan) : u.status = "completed" => u.id # t.id
                             /\ \A i \in 1 .. Len(record') : record'[i].item = t.id => record'[i].kept
               /\ t.status = "completed" => Came(record', t.id)
      BY Zenon DEF Sound
    <2>1. /\ t.id \in 1 .. items
          /\ Open(t) => /\ t.id \notin accepted
                        /\ \A u \in ToSet(plan) : u.status = "completed" => u.id # t.id
          /\ t.status = "completed" => Came(record, t.id)
      BY Zenon DEF RunInv, Sound
    <2>2. Open(t) => \A i \in 1 .. Len(record') : record'[i].item = t.id => record'[i].kept
      BY <1>4, <1>6, Zenon
    <2> QED BY <1>5, <2>1, <2>2, Zenon
  <1>8. draft = NoPlan
    BY <1>2 DEF RunInv
  <1>9. Sound(draft, items, accepted, record')
    BY <1>8, NoPlanIsSound, Zenon
  <1>10. run' \in 0 .. MaxRuns /\ count' \in 0 .. MaxIterations
    BY <1>2, TypesOf DEF RunInv, RunTypeOK
  <1>11. RunTypeOK'
    BY <1>2, <1>4, <1>10, Zenon DEF RunInv, RunTypeOK
  <1>12. /\ \A id \in accepted : id \in 1 .. items /\ Came(record', id)
         /\ \A i \in 1 .. Len(record') : record'[i].item \in 1 .. items
    BY <1>4, <1>5, Zenon DEF RunInv
  <1>13. node' \notin {"supervisor", "capability"}
    BY <1>2
  <1> QED BY <1>2, <1>7, <1>8, <1>9, <1>11, <1>12, <1>13 DEF RunInv

\* A delegation's record is of the current item, which nothing completed shares.
LEMMA ReturnsStep ==
    ASSUME RunAssumption, RunInv, DelegationReturns
    PROVE  RunInv'
  <1>0. /\ items \in Nat /\ MaxItems \in Nat /\ plan \in Seq(Tasks) /\ record \in Seq(Executed)
        /\ Len(record) \in Nat /\ count \in Nat /\ MaxIterations \in Nat
    BY TypesOf
  <1>1. /\ node = "capability" /\ count' = count + 1 /\ node' \in {"boundary", "idle"}
        /\ run' = run /\ plan' = plan /\ draft' = draft /\ turns' = turns
        /\ items' = items /\ accepted' = accepted
    BY Zenon DEF DelegationReturns
  <1> DEFINE c == Current(plan)
  <1>2. c \in ToSet(plan) /\ Open(c) /\ c \in Tasks
    BY <1>0, <1>1, CurrentIs DEF RunInv
  <1>3. PICK result \in {"returned", "missing"} :
           record' = Append(record, [item |-> c.id, result |-> result, kept |-> TRUE])
    BY Zenon DEF DelegationReturns
  <1> HIDE DEF c
  <1> DEFINE e == [item |-> c.id, result |-> result, kept |-> TRUE]
  <1>4. e \in Executed /\ e.item = c.id /\ e.kept
    <2>1. c.id \in 1 .. MaxItems
      BY <1>2, TaskIs
    <2> QED BY <2>1 DEF Executed
  <1> HIDE DEF e
  <1>5. /\ record' \in Seq(Executed) /\ Len(record') = Len(record) + 1
        /\ record'[Len(record) + 1] = e
        /\ \A i \in 1 .. Len(record) : record'[i] = record[i]
        /\ \A i \in 1 .. Len(record') : i \in 1 .. Len(record) \/ i = Len(record) + 1
    <2>1. record' = Append(record, e)
      BY <1>3 DEF e
    <2> QED BY <1>0, <1>4, <2>1, AppendedIs
  <1>6. /\ c.id \in 1 .. items /\ c.id \notin accepted
        /\ \A u \in ToSet(plan) : u.status = "completed" => u.id # c.id
    BY <1>2, Zenon DEF RunInv, Sound
  <1>7. ASSUME NEW id, id # c.id, Came(record, id) PROVE Came(record', id)
    <2>1. PICK i \in 1 .. Len(record) :
             /\ record[i].item = id /\ record[i].result = "returned"
             /\ \A j \in 1 .. Len(record) : record[j].item = id => j <= i
      BY <1>7, Zenon DEF Came
    <2>2. i \in 1 .. Len(record') /\ record'[i] = record[i]
      BY <1>0, <1>5
    <2>3. ASSUME NEW j \in 1 .. Len(record'), record'[j].item = id PROVE j <= i
      <3>1. j # Len(record) + 1
        BY <1>4, <1>5, <1>7, <2>3, Zenon
      <3> QED BY <1>5, <2>1, <2>3, <3>1, Zenon
    <2> QED BY <2>1, <2>2, <2>3, Zenon DEF Came
  <1>8. Sound(plan, items, accepted, record')
    <2> SUFFICES ASSUME NEW t \in ToSet(plan)
        PROVE  /\ t.id \in 1 .. items
               /\ Open(t) => /\ t.id \notin accepted
                             /\ \A u \in ToSet(plan) : u.status = "completed" => u.id # t.id
                             /\ \A i \in 1 .. Len(record') : record'[i].item = t.id => record'[i].kept
               /\ t.status = "completed" => Came(record', t.id)
      BY Zenon DEF Sound
    <2>1. /\ t.id \in 1 .. items
          /\ Open(t) => /\ t.id \notin accepted
                        /\ \A u \in ToSet(plan) : u.status = "completed" => u.id # t.id
                        /\ \A i \in 1 .. Len(record) : record[i].item = t.id => record[i].kept
          /\ t.status = "completed" => Came(record, t.id)
      BY Zenon DEF RunInv, Sound
    <2>2. Open(t) => \A i \in 1 .. Len(record') : record'[i].item = t.id => record'[i].kept
      BY <1>4, <1>5, <2>1, Zenon
    <2>3. t.status = "completed" => Came(record', t.id)
      BY <1>6, <1>7, <2>1, Zenon
    <2> QED BY <2>1, <2>2, <2>3, Zenon
  <1>9. draft = NoPlan
    BY <1>1 DEF RunInv
  <1>10. Sound(draft, items, accepted, record')
    BY <1>9, NoPlanIsSound, Zenon
  <1>11. count' \in 0 .. MaxIterations
    BY <1>0, <1>1 DEF RunInv
  <1>12. RunTypeOK'
    BY <1>1, <1>5, <1>11 DEF RunInv, RunTypeOK
  <1>13. \A id \in accepted : id \in 1 .. items /\ Came(record', id)
    BY <1>6, <1>7, Zenon DEF RunInv
  <1>14. \A i \in 1 .. Len(record') : record'[i].item \in 1 .. items
    BY <1>4, <1>5, <1>6, Zenon DEF RunInv
  <1>15. node' \notin {"supervisor", "capability"}
    BY <1>1
  <1> QED BY <1>1, <1>8, <1>9, <1>10, <1>12, <1>13, <1>14, <1>15, Zenon DEF RunInv

LEMMA RunInvStep ==
    ASSUME RunAssumption, RunInv, [Next]_vars
    PROVE  RunInv'
  <1>0. /\ MaxIterations \in Nat \ {0} /\ run \in 0 .. MaxRuns /\ count \in 0 .. MaxIterations
        /\ turns \in 0 .. MaxTurns /\ 0 \in 0 .. MaxTurns /\ 0 \in 0 .. MaxIterations
        /\ plan \in Seq(Tasks) /\ draft \in Seq(Tasks)
        /\ node \in {"idle", "entry", "enter", "supervisor", "capability", "boundary"}
    BY DEF RunInv, RunTypeOK, RunAssumption
  <1>1. CASE Message
    BY <1>1, MessageStep
  <1>2. CASE EntryReplies \/ EntryPlans \/ EntryContinues \/ SupervisorBegins \/ DelegationBoundary
             \/ RunBreaks
    <2>1. /\ UNCHANGED <<record, items, accepted>>
          /\ plan' = plan \/ plan' = NoPlan
          /\ run' = run /\ count' = count
      BY <1>2, Zenon DEF EntryReplies, EntryPlans, EntryContinues, SupervisorBegins, DelegationBoundary,
         RunBreaks
    <2>2. /\ node' \in {"idle", "enter", "supervisor"}
          /\ node' = "supervisor" => node = "enter" /\ ~(count >= MaxIterations)
      BY <1>2 DEF EntryReplies, EntryPlans, EntryContinues, SupervisorBegins, DelegationBoundary,
         RunBreaks, Ends
    <2>3. turns' = 0 \/ turns' = turns
      BY <1>2, Zenon DEF EntryReplies, EntryPlans, EntryContinues, SupervisorBegins, DelegationBoundary,
         RunBreaks, Ends
    <2>4. /\ draft' = draft \/ draft' = NoPlan \/ draft' = plan
          /\ draft' # NoPlan => node' = "supervisor"
      <3>1. CASE EntryReplies \/ RunBreaks
        BY <3>1, Zenon DEF EntryReplies, RunBreaks, Ends
      <3>2. CASE SupervisorBegins
        BY <3>2, Zenon DEF SupervisorBegins, Ends
      <3>3. CASE EntryPlans \/ EntryContinues \/ DelegationBoundary
        <4>1. draft' = draft /\ node \in {"entry", "boundary"}
          BY <3>3 DEF EntryPlans, EntryContinues, DelegationBoundary
        <4> QED BY <4>1 DEF RunInv
      <3> QED BY <1>2, <3>1, <3>2, <3>3
    <2>5. node' \in {"supervisor", "capability"} => count' < MaxIterations
      BY <1>0, <2>1, <2>2
    <2>6. node' \in {"idle", "entry", "enter", "supervisor", "capability", "boundary"}
          /\ node' # "capability"
      BY <2>2
    <2>7. run' \in 0 .. MaxRuns /\ turns' \in 0 .. MaxTurns /\ count' \in 0 .. MaxIterations
      BY <1>0, <2>1, <2>3
    <2> QED BY <2>1, <2>4, <2>5, <2>6, <2>7, RunFrame
  <1>3. CASE DecisionRefused
    <2>1. Decides /\ draft' = draft /\ items' = items
      BY <1>3, Zenon DEF DecisionRefused
    <2>2. items \in Nat /\ items <= MaxItems /\ items <= items
      BY TypesOf
    <2> QED BY <1>0, <2>1, <2>2, DraftStep DEF RunInv
  <1>4. CASE SubmitPlan
    BY <1>4, SubmitMakes, DraftStep DEF SubmitPlan
  <1>5. CASE AdjustPlan
    BY <1>5, AdjustMakes, DraftStep DEF AdjustPlan
  <1>6. CASE ReviewCurrent
    <2>1. draft' \in Seq(Tasks) /\ items' = items /\ Sound(draft', items, accepted, record)
      BY <1>6, ReviewMakes
    <2>2. Decides
      BY <1>6, Zenon DEF ReviewCurrent
    <2>3. items \in Nat /\ items <= MaxItems /\ items <= items
      BY TypesOf
    <2> QED BY <2>1, <2>2, <2>3, DraftStep
  <1>7. CASE Reply \/ StepLimit
    <2>1. /\ Writes(draft) \/ Writes(plan)
          /\ draft' = NoPlan /\ turns' = 0 /\ node' = "idle" /\ count' = count
          /\ UNCHANGED <<run, record, items>>
      BY <1>7, Zenon DEF Reply, StepLimit, Ends
    <2>2. node' \in {"idle", "enter", "capability"} /\ node' # "capability"
      BY <2>1
    <2> QED BY <1>0, <2>1, <2>2, WritesStep
  <1>8. CASE Delegate
    <2>1. /\ Writes(draft) /\ draft' = NoPlan /\ turns' = 0 /\ node' = "capability" /\ count' = count
          /\ UNCHANGED <<run, record, items>> /\ HasCurrent(draft) /\ node = "supervisor"
      BY <1>8, Zenon DEF Delegate, Leaves
    <2>2. count < MaxIterations
      BY <2>1 DEF RunInv
    <2> QED BY <1>0, <2>1, <2>2, WritesStep
  <1>9. CASE DelegationRefused
    <2>1. /\ Writes(draft) /\ draft' = NoPlan /\ turns' = 0 /\ node' = "enter" /\ count' = count + 1
          /\ UNCHANGED <<run, record, items>> /\ node = "supervisor"
      BY <1>9, Zenon DEF DelegationRefused, Leaves
    <2>2. count' \in 0 .. MaxIterations
      BY <1>0, <2>1 DEF RunInv
    <2>3. node' \in {"idle", "enter", "capability"} /\ node' # "capability"
      BY <2>1
    <2> QED BY <2>1, <2>2, <2>3, WritesStep
  <1>10. CASE DelegationReturns
    BY <1>10, ReturnsStep
  <1>11. CASE UNCHANGED runVars
    <2>1. /\ run' = run /\ node' = node /\ plan' = plan /\ draft' = draft /\ turns' = turns
          /\ count' = count /\ record' = record /\ items' = items /\ accepted' = accepted
      BY <1>11, Zenon DEF runVars
    <2> QED BY <2>1, Zenon DEF RunInv, RunTypeOK
  <1>12. UNCHANGED vars => UNCHANGED runVars
    BY DEF vars
  <1> QED BY <1>1, <1>2, <1>3, <1>4, <1>5, <1>6, <1>7, <1>8, <1>9, <1>10, <1>11, <1>12, Zenon
          DEF Next, AgentStep, SupervisorStep, CapabilityStep

-----------------------------------------------------------------------------
\* The whole.

IInv == ReviewInv /\ LinkInv /\ RunInv

LEMMA Initially == Init => IInv
  <1> SUFFICES ASSUME Init PROVE IInv
    OBVIOUS
  <1>1. ReviewInit /\ ReviewInv
    BY ReviewInvInit, ReviewAssumption DEF Init
  <1>2. LinkInv
    BY <1>1 DEF Init, ReviewInit, LinkInv
  <1>3. RunInv
    <2> USE DEF Init
    <2>1. /\ NoPlan \in Seq(Tasks) /\ Sound(NoPlan, items, accepted, record)
      BY NoPlanIsSound
    <2>2. RunTypeOK
      <3>1. record \in Seq(Executed) /\ accepted \in SUBSET (1 .. MaxItems)
        OBVIOUS
      <3>2. 0 \in 0 .. MaxRuns /\ 0 \in 0 .. MaxTurns /\ 0 \in 0 .. MaxIterations /\ 0 \in 0 .. MaxItems
        BY RunAssumption DEF RunAssumption
      <3> QED BY <2>1, <3>1, <3>2 DEF RunTypeOK
    <2>3. 1 .. Len(record) = {}
      OBVIOUS
    <2> QED BY <2>1, <2>2, <2>3 DEF RunInv
  <1> QED BY <1>1, <1>2, <1>3 DEF IInv

\* Every step keeps the invariant: a review by what the step does to it, the
\* run around it by its own actions.
LEMMA Always == IInv /\ [Next]_vars => IInv'
  <1> SUFFICES ASSUME IInv, [Next]_vars PROVE IInv'
    OBVIOUS
  <1>1. ReviewInv /\ LinkInv /\ RunInv
    BY Zenon DEF IInv
  <1>2. ReviewMove /\ LinkInv'
    BY <1>1, NextMovesReview
  <1>3. step # "off" => ctxMode \in Modes
    BY <1>1 DEF LinkInv
  <1>4. ReviewInv'
    BY <1>1, <1>2, <1>3, ReviewInvStep, ReviewAssumption
  <1>5. RunInv'
    BY <1>1, RunInvStep, RunAssumption
  <1> QED BY <1>2, <1>4, <1>5, Zenon DEF IInv

LEMMA Invariant == Spec => []IInv
  BY Initially, Always, PTL DEF Spec

LEMMA SoundNow == IInv => StateIsSound
  <1> SUFFICES ASSUME IInv PROVE StateIsSound
    OBVIOUS
  <1>1. TypeOK
    BY Zenon DEF IInv, ReviewInv, RunInv, RunTypeOK, TypeOK, Executed
  <1> QED BY <1>1 DEF IInv, RunInv, LinkInv, StateIsSound

LEMMA AcceptedNow == IInv => AcceptedWasDelivered
  <1> SUFFICES ASSUME IInv PROVE AcceptedWasDelivered
    OBVIOUS
  <1>1. record \in Seq(Executed) /\ \A id \in accepted : Came(record, id)
    BY Zenon DEF IInv, RunInv, RunTypeOK
  <1> QED BY <1>1, CameIs DEF AcceptedWasDelivered

LEMMA EvidenceNow == IInv => EvidenceIsKept
  <1> SUFFICES ASSUME IInv, NEW t \in ToSet(plan), Open(t) PROVE Executions(t.id) = Attempts(t.id)
    BY Zenon DEF EvidenceIsKept
  <1>1. record \in Seq(Executed) /\ Sound(plan, items, accepted, record)
    BY Zenon DEF IInv, RunInv, RunTypeOK
  <1>2. DOMAIN record = 1 .. Len(record)
    BY <1>1
  <1> QED BY <1>1, <1>2, Zenon DEF Sound, Executions, Attempts

\* A task of a Capability lives exactly as long as its delegation and has an
\* item to execute; the Supervisor's copy does not outlive its turn; the budget
\* is kept (delegateCapability, runIterationBudget).
THEOREM TasksAreSound == Spec => []StateIsSound
  BY Invariant, SoundNow, PTL

\* What was ever accepted on the thread's plan has a delivery as the last thing
\* that came of it (reviewCurrent, adjustPlan).
THEOREM AcceptedDelivered == Spec => []AcceptedWasDelivered
  BY Invariant, AcceptedNow, PTL

\* What came of an item that is still open is never compacted away
\* (selectMessagesToKeep).
THEOREM EvidenceStays == Spec => []EvidenceIsKept
  BY Invariant, EvidenceNow, PTL

\* No tool whose policy asks for a review runs without one, whatever grants the
\* thread has and however often the mode changed (toolkitReviewMiddleware).
THEOREM ToolsAreAsked == Spec => []NothingRunsUnasked
  <1>1. IInv => NothingRunsUnasked
    BY Zenon DEF IInv, ReviewInv
  <1> QED BY <1>1, Invariant, PTL

\* A batch a person declined does not run, as long as the mode stayed the same
\* (ReviewInterrupt.run).
THEOREM RefusalsHold == Spec => []RefusalsStand
  <1>1. IInv => RefusalsStand
    BY Zenon DEF IInv, ReviewInv
  <1> QED BY <1>1, Invariant, PTL

\* What a person authorized in a task that returned is not asked again
\* (mergeToolAuthorizations, sessionToolAuthorizations).
THEOREM GrantsLast == Spec => []GrantsAreRemembered
  <1>1. IInv => GrantsAreRemembered
    BY Zenon DEF IInv, ReviewInv
  <1> QED BY <1>1, Invariant, PTL
=============================================================================
