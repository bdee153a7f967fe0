---------------------------- MODULE GateProofs ----------------------------
(***************************************************************************)
(* Proofs about the two components that keep executions apart and each     *)
(* implement ExecutionGate: the resident Pet's coordinator, for every      *)
(* number of dispatches, conversations, sessions and failing reads, and    *)
(* the Host's admission, for every number of messages, commands and reads. *)
(* Each half uses only its own module; the halves share no lemma.          *)
(***************************************************************************)
EXTENDS ResidentPetCoordinator, HostAdmission, FiniteSetTheorems, TLAPS

NoDuplicates(s) == \A i, j \in DOMAIN s : s[i] = s[j] => i = j

-----------------------------------------------------------------------------
\* Lemmas about the queue operators.

\* Sequences with one more element, at the end or in front.
LEMMA AppendIs ==
    ASSUME NEW S, NEW s \in Seq(S), NEW d \in S
    PROVE  /\ Append(s, d) \in Seq(S)
           /\ Len(Append(s, d)) = Len(s) + 1
           /\ Append(s, d)[Len(s) + 1] = d
           /\ \A i \in 1..Len(s) : Append(s, d)[i] = s[i]
OBVIOUS

LEMMA InFront ==
    ASSUME NEW S, NEW s \in Seq(S), NEW d \in S
    PROVE  /\ Len(<<d>> \o s) = Len(s) + 1
           /\ (<<d>> \o s)[1] = d
           /\ \A i \in 1..Len(s) : (<<d>> \o s)[i + 1] = s[i]
OBVIOUS

\* Appending a new element.
LEMMA AppendFacts ==
    ASSUME NEW S, NEW s \in Seq(S), NEW d \in S, d \notin Elements(s),
           NoDuplicates(s)
    PROVE  /\ Append(s, d) \in Seq(S)
           /\ Elements(Append(s, d)) = Elements(s) \cup {d}
           /\ NoDuplicates(Append(s, d))
  <1> DEFINE t == Append(s, d)
  <1>1. /\ t \in Seq(S)
        /\ DOMAIN t = 1..(Len(s) + 1)
        /\ \A i \in 1..Len(s) : t[i] = s[i]
        /\ t[Len(s) + 1] = d
        /\ DOMAIN s = 1..Len(s) /\ Len(s) \in Nat
    OBVIOUS
  <1>2. Elements(t) = Elements(s) \cup {d}
    BY <1>1 DEF Elements
  <1>3. NoDuplicates(t)
    BY <1>1 DEF NoDuplicates, Elements
  <1> QED BY <1>1, <1>2, <1>3

\* What is left keeps its order.
LEMMA WithoutOrder ==
    ASSUME NEW S, NEW s \in Seq(S), NEW i \in DOMAIN s
    PROVE  /\ Without(s, i) \in Seq(S)
           /\ Len(Without(s, i)) = Len(s) - 1
           /\ DOMAIN Without(s, i) = 1..(Len(s) - 1)
           /\ \A j \in 1..(Len(s) - 1) :
                 Without(s, i)[j] = IF j < i THEN s[j] ELSE s[j + 1]
  <1> DEFINE t == Without(s, i)
  <1>1. /\ DOMAIN s = 1..Len(s) /\ Len(s) \in Nat
        /\ i \in Nat /\ 1 <= i /\ i <= Len(s)
    OBVIOUS
  <1>2. /\ t \in Seq(S)
        /\ Len(t) = Len(s) - 1
        /\ DOMAIN t = 1..(Len(s) - 1)
        /\ \A j \in 1..(Len(s) - 1) : t[j] = IF j < i THEN s[j] ELSE s[j + 1]
    <2> DEFINE a == SubSeq(s, 1, i - 1)
               b == SubSeq(s, i + 1, Len(s))
    <2>1. /\ a \in Seq(S) /\ Len(a) = i - 1
          /\ \A j \in 1..(i - 1) : a[j] = s[j]
      BY <1>1
    <2>2. /\ b \in Seq(S) /\ Len(b) = Len(s) - i
          /\ \A j \in 1..(Len(s) - i) : b[j] = s[i + j]
      BY <1>1
    <2>3. t = a \o b
      BY DEF Without
    <2> HIDE DEF a, b, t
    <2>4. /\ t \in Seq(S) /\ Len(t) = Len(a) + Len(b)
          /\ DOMAIN t = 1..(Len(a) + Len(b))
          /\ \A j \in 1..(Len(a) + Len(b)) :
                t[j] = IF j <= Len(a) THEN a[j] ELSE b[j - Len(a)]
      BY <2>1, <2>2, <2>3
    <2>5. Len(a) + Len(b) = Len(s) - 1
      BY <1>1, <2>1, <2>2
    <2>6. ASSUME NEW j \in 1..(Len(s) - 1)
          PROVE  t[j] = IF j < i THEN s[j] ELSE s[j + 1]
      <3>1. CASE j < i
        BY <1>1, <2>1, <2>2, <2>4, <3>1
      <3>2. CASE ~(j < i)
        <4>1. j - (i - 1) \in 1..(Len(s) - i) /\ i + (j - (i - 1)) = j + 1
          BY <1>1, <3>2
        <4>2. t[j] = b[j - (i - 1)]
          BY <1>1, <2>1, <2>2, <2>4, <3>2
        <4> QED BY <2>2, <4>1, <4>2, <3>2
      <3> QED BY <3>1, <3>2
    <2> QED BY <2>4, <2>5, <2>6
  <1> QED BY <1>2

\* Removing the i-th element.
LEMMA WithoutFacts ==
    ASSUME NEW S, NEW s \in Seq(S), NEW i \in DOMAIN s, NoDuplicates(s)
    PROVE  /\ Without(s, i) \in Seq(S)
           /\ Elements(Without(s, i)) = Elements(s) \ {s[i]}
           /\ NoDuplicates(Without(s, i))
  <1> DEFINE t == Without(s, i)
  <1>1. /\ DOMAIN s = 1..Len(s) /\ Len(s) \in Nat
        /\ i \in Nat /\ 1 <= i /\ i <= Len(s)
    OBVIOUS
  <1>2. /\ t \in Seq(S)
        /\ Len(t) = Len(s) - 1
        /\ DOMAIN t = 1..(Len(s) - 1)
        /\ \A j \in 1..(Len(s) - 1) : t[j] = IF j < i THEN s[j] ELSE s[j + 1]
    BY WithoutOrder
  <1> HIDE DEF t
  <1>3. ASSUME NEW x PROVE x \in Elements(t) <=> x \in Elements(s) \ {s[i]}
    <2>1. ASSUME x \in Elements(t) PROVE x \in Elements(s) \ {s[i]}
      <3>1. PICK j \in 1..(Len(s) - 1) : x = t[j]
        BY <1>2, <2>1 DEF Elements
      <3>2. PICK k \in 1..Len(s) : k # i /\ x = s[k]
        <4>1. CASE j < i
          BY <1>1, <1>2, <3>1, <4>1
        <4>2. CASE ~(j < i)
          BY <1>1, <1>2, <3>1, <4>2
        <4> QED BY <4>1, <4>2
      <3> QED BY <1>1, <3>2 DEF Elements, NoDuplicates
    <2>2. ASSUME x \in Elements(s) \ {s[i]} PROVE x \in Elements(t)
      <3>1. PICK k \in 1..Len(s) : k # i /\ x = s[k]
        BY <1>1, <2>2 DEF Elements
      <3>2. CASE k < i
        <4>1. k \in 1..(Len(s) - 1) /\ t[k] = x
          BY <1>1, <1>2, <3>1, <3>2
        <4> QED BY <1>2, <4>1 DEF Elements
      <3>3. CASE k > i
        <4>1. k - 1 \in 1..(Len(s) - 1) /\ t[k - 1] = x
          BY <1>1, <1>2, <3>1, <3>3
        <4> QED BY <1>2, <4>1 DEF Elements
      <3> QED BY <1>1, <3>1, <3>2, <3>3
    <2> QED BY <2>1, <2>2
  <1>4. NoDuplicates(t)
    <2> SUFFICES ASSUME NEW j \in 1..(Len(s) - 1), NEW k \in 1..(Len(s) - 1),
                        t[j] = t[k]
                 PROVE  j = k
      BY <1>2 DEF NoDuplicates
    <2> DEFINE Old(n) == IF n < i THEN n ELSE n + 1
    <2>1. \A n \in 1..(Len(s) - 1) : Old(n) \in DOMAIN s /\ t[n] = s[Old(n)]
      BY <1>1, <1>2
    <2>2. Old(j) = Old(k)
      BY <2>1 DEF NoDuplicates
    <2> QED BY <1>1, <2>2
  <1> QED BY <1>2, <1>3, <1>4 DEF t

\* A position chosen for an element that occurs.
LEMMA PositionFacts ==
    ASSUME NEW s, NEW d \in Elements(s)
    PROVE  PositionOf(s, d) \in DOMAIN s /\ s[PositionOf(s, d)] = d
  BY DEF PositionOf, Elements

\* The candidates of a scan are the queue, in another order.
LEMMA CandidatesFacts ==
    ASSUME TypeOK, NoDuplicates(queue)
    PROVE  Candidates \in Seq(Dispatches) /\ Elements(Candidates) = Elements(queue)
  <1>1. CASE preferred \in Elements(queue)
    <2> DEFINE i == PositionOf(queue, preferred)
               t == Without(queue, i)
               w == <<preferred>> \o t
    <2>1. i \in DOMAIN queue /\ queue[i] = preferred
      BY <1>1, PositionFacts
    <2>2. preferred \in Dispatches
      BY <2>1 DEF TypeOK
    <2>3. t \in Seq(Dispatches) /\ Elements(t) = Elements(queue) \ {preferred}
      BY <2>1, WithoutFacts DEF TypeOK
    <2> HIDE DEF t
    <2>4. /\ w \in Seq(Dispatches)
          /\ DOMAIN w = 1..(Len(t) + 1)
          /\ w[1] = preferred
          /\ \A j \in 1..Len(t) : w[j + 1] = t[j]
          /\ DOMAIN t = 1..Len(t) /\ Len(t) \in Nat
      BY <2>2, <2>3
    <2>5. Elements(w) = Elements(t) \cup {preferred}
      <3>1. ASSUME NEW x \in Elements(w) PROVE x \in Elements(t) \cup {preferred}
        <4>1. PICK j \in 1..(Len(t) + 1) : x = w[j]
          BY <2>4 DEF Elements
        <4>2. CASE j = 1
          BY <2>4, <4>1, <4>2
        <4>3. CASE j # 1
          <5>1. j - 1 \in 1..Len(t) /\ x = t[j - 1]
            BY <2>4, <4>1, <4>3
          <5> QED BY <2>4, <5>1 DEF Elements
        <4> QED BY <4>2, <4>3
      <3>2. ASSUME NEW x \in Elements(t) PROVE x \in Elements(w)
        <4>1. PICK j \in 1..Len(t) : x = t[j]
          BY <2>4 DEF Elements
        <4>2. j + 1 \in 1..(Len(t) + 1) /\ w[j + 1] = x
          BY <2>4, <4>1
        <4> QED BY <2>4, <4>2 DEF Elements
      <3>3. preferred \in Elements(w)
        BY <2>4 DEF Elements
      <3> QED BY <3>1, <3>2, <3>3
    <2>6. Candidates = w
      BY <1>1 DEF Candidates, t
    <2> QED BY <1>1, <2>3, <2>4, <2>5, <2>6
  <1>2. CASE preferred \notin Elements(queue)
    BY <1>2 DEF Candidates, TypeOK
  <1> QED BY <1>1, <1>2

-----------------------------------------------------------------------------
\* The inductive invariant.

Occupied == phase \in {"start", "run", "settle", "settled"}

Holders == {c \in Conversations : conv[c] \in {"claimed", "running"}}

\* The counter of holds counts the conversations that claimed or run.
CountInv == conversations = Cardinality(Holders)

\* The slot and a refresh exclude each other, and a running conversation
\* excludes the slot.
SlotInv ==
    /\ phase # "none" => refresh = "none"
    /\ NoOverlap

\* The dispatch that executes is the one in the slot, and what is queued has
\* not executed.
StageInv ==
    /\ Occupied => entry \in Dispatches
    /\ \A d \in Dispatches : stage[d] = "running" <=> (Occupied /\ d = entry)

QueueInv ==
    /\ NoDuplicates(queue)
    /\ Elements(queue) = {d \in Dispatches : stage[d] = "queued"}

\* A scan that reads has a candidate, and unless closing all are still queued.
ScanInv ==
    phase \in {"check", "checked"} =>
        rest # <<>> /\ (closing \/ Elements(rest) \subseteq Elements(queue))

\* A read that returned has an answer.
Read == {"open", "waiting", "failed"}

ReadInv ==
    /\ refresh = "read" => refreshAnswer \in Read
    /\ phase = "settled" => answer \in Read

IInv ==
    TypeOK /\ CountInv /\ SlotInv /\ StageInv /\ QueueInv /\ ScanInv /\ ReadInv

-----------------------------------------------------------------------------
\* Drain, whoever calls it: it takes the slot only if it is free, moves one
\* element from the queue to the slot, and leaves the rest alone.
DrainResult(q, st) ==
    /\ gate' \in Gates /\ preferred' \in Dispatches \cup {NoDispatch}
    /\ phase' \in Phases /\ rest' \in Seq(Dispatches) /\ answer' \in Answers
    /\ ran' \in BOOLEAN /\ failed' \in BOOLEAN
    /\ entry' \in Dispatches \cup {NoDispatch}
    /\ queue' \in Seq(Dispatches) /\ NoDuplicates(queue')
    /\ stage' \in [Dispatches -> Stages]
    /\ Elements(queue') = {d \in Dispatches : stage'[d] = "queued"}
    /\ \/ queue' = q /\ stage' = st
          /\ \/ phase' = "scan"
             \/ phase' = phase /\ entry' = entry /\ rest' = rest
       \/ /\ phase' = "start" /\ entry' \in Dispatches /\ st[entry'] = "queued"
          /\ stage' = [st EXCEPT ![entry'] = "running"]

LEMMA RunFacts ==
    ASSUME TypeOK,
           NEW q \in Seq(Dispatches), NoDuplicates(q), q # <<>>,
           NEW st \in [Dispatches -> Stages],
           Elements(q) = {d \in Dispatches : st[d] = "queued"},
           TakeSlotToRun(q, st)
    PROVE  DrainResult(q, st) /\ phase' = "start"
  <1> DEFINE i == IF preferred \in Elements(q) THEN PositionOf(q, preferred) ELSE 1
             t == Without(q, i)
  <1>1. i \in DOMAIN q
    BY PositionFacts
  <1>2. q[i] \in Dispatches /\ q[i] \in Elements(q) /\ st[q[i]] = "queued"
    BY <1>1 DEF Elements
  <1>3. t \in Seq(Dispatches) /\ Elements(t) = Elements(q) \ {q[i]} /\ NoDuplicates(t)
    BY <1>1, WithoutFacts
  <1>4. /\ queue' = t
        /\ preferred' = IF preferred = q[i] THEN NoDispatch ELSE preferred
        /\ gate' = "busy"
        /\ stage' = [st EXCEPT ![q[i]] = "running"]
        /\ phase' = "start" /\ entry' = q[i] /\ rest' = <<>> /\ answer' = "unread"
        /\ ran' = TRUE /\ failed' = FALSE
    BY DEF TakeSlotToRun
  <1> HIDE DEF t, i
  <1>5. stage' \in [Dispatches -> Stages]
    BY <1>2, <1>4 DEF Stages
  <1>6. {d \in Dispatches : stage'[d] = "queued"} = Elements(q) \ {q[i]}
    BY <1>2, <1>4
  <1>7. NoDuplicates(queue') /\ Elements(queue') = Elements(q) \ {q[i]}
    BY <1>3, <1>4
  <1>8. gate' \in Gates /\ phase' \in Phases /\ answer' \in Answers
    BY <1>4 DEF Gates, Phases, Answers
  <1>9. preferred' \in Dispatches \cup {NoDispatch}
    BY <1>4 DEF TypeOK
  <1>10. <<>> \in Seq(Dispatches)
    OBVIOUS
  <1> QED
    BY <1>2, <1>3, <1>4, <1>5, <1>6, <1>7, <1>8, <1>9, <1>10 DEF DrainResult

LEMMA ScanFacts ==
    ASSUME TypeOK,
           NEW q \in Seq(Dispatches), NoDuplicates(q),
           NEW g \in Gates,
           NEW st \in [Dispatches -> Stages],
           Elements(q) = {d \in Dispatches : st[d] = "queued"},
           TakeSlotToScan(q, g, st)
    PROVE  DrainResult(q, st) /\ phase' = "scan"
  <1>1. /\ queue' = q /\ gate' = g /\ stage' = st
        /\ phase' = "scan" /\ entry' = NoDispatch /\ rest' = <<>>
        /\ answer' = "unread" /\ ran' = FALSE /\ failed' = FALSE
        /\ preferred' = preferred
    BY DEF TakeSlotToScan
  <1>2. NoDuplicates(queue') /\ Elements(queue') = {d \in Dispatches : stage'[d] = "queued"}
    BY <1>1
  <1>3. phase' \in Phases /\ answer' \in Answers /\ rest' \in Seq(Dispatches)
    BY <1>1 DEF Phases, Answers
  <1>4. preferred' \in Dispatches \cup {NoDispatch}
    BY <1>1 DEF TypeOK
  <1> QED BY <1>1, <1>2, <1>3, <1>4 DEF DrainResult

LEMMA DrainFacts ==
    ASSUME TypeOK,
           NEW q \in Seq(Dispatches), NoDuplicates(q),
           NEW g \in Gates,
           NEW st \in [Dispatches -> Stages],
           Elements(q) = {d \in Dispatches : st[d] = "queued"},
           NEW free \in BOOLEAN,
           Drain(free, q, g, st)
    PROVE  DrainResult(q, st) /\ (~free => phase' = phase)
  <1>1. CASE free /\ TakeSlotToScan(q, g, st)
    BY <1>1, ScanFacts
  <1>2. CASE free /\ ToRun(q, g) /\ TakeSlotToRun(q, st)
    BY <1>2, RunFacts DEF ToRun
  <1>3. CASE LeaveSlot(q, g, st)
    <2>1. /\ queue' = q /\ gate' = g /\ stage' = st
          /\ phase' = phase /\ entry' = entry /\ rest' = rest
          /\ answer' = answer /\ ran' = ran /\ failed' = failed
          /\ preferred' = preferred
      BY <1>3 DEF LeaveSlot, slotVars
    <2>2. NoDuplicates(queue') /\ Elements(queue') = {d \in Dispatches : stage'[d] = "queued"}
      BY <2>1
    <2> QED BY <2>1, <2>2 DEF DrainResult, TypeOK
  <1>4. ~free => LeaveSlot(q, g, st)
    BY DEF Drain
  <1>5. ~free => phase' = phase
    BY <1>4 DEF LeaveSlot, slotVars
  <1> QED BY <1>1, <1>2, <1>3, <1>5 DEF Drain

-----------------------------------------------------------------------------
\* The counter.

LEMMA HoldersFinite == IsFiniteSet(Holders) /\ Cardinality(Holders) \in Nat
  BY CoordinatorAssumption, FS_Subset, FS_CardinalityType DEF Holders

\* No hold is counted exactly when nobody claims or runs.
LEMMA NoHolds ==
    ASSUME CountInv, conversations = 0
    PROVE  \A c \in Conversations : conv[c] \notin {"claimed", "running"}
  BY HoldersFinite, FS_EmptySet DEF CountInv, Holders

\* Claiming adds one holder, releasing removes one.
LEMMA ClaimCounts ==
    ASSUME TypeOK, CountInv, NEW c \in Conversations, c \notin Holders,
           conversations' = conversations + 1, Holders' = Holders \cup {c}
    PROVE  CountInv' /\ conversations' \in Nat
  <1>1. Cardinality(Holders \cup {c}) = Cardinality(Holders) + 1
    BY HoldersFinite, FS_AddElement
  <1> QED BY <1>1, HoldersFinite DEF CountInv, TypeOK

LEMMA ReleaseCounts ==
    ASSUME TypeOK, CountInv, NEW c \in Conversations, c \in Holders,
           conversations' = conversations - 1, Holders' = Holders \ {c}
    PROVE  CountInv' /\ conversations' \in Nat
  <1>1. Cardinality(Holders \ {c}) = Cardinality(Holders) - 1
    BY HoldersFinite, FS_RemoveElement
  <1>2. Cardinality(Holders \ {c}) \in Nat
    BY HoldersFinite, FS_RemoveElement, FS_CardinalityType
  <1> QED BY <1>1, <1>2 DEF CountInv, TypeOK

-----------------------------------------------------------------------------
\* The invariant holds initially and every action preserves it.

LEMMA InitIInv == Init => IInv
  <1> SUFFICES ASSUME Init PROVE IInv
    OBVIOUS
  <1> USE CoordinatorAssumption DEF Init
  <1>1. TypeOK
    <2>1. gate \in Gates
      BY DEF Gates
    <2>2. conv \in [Conversations -> Holds] /\ stage \in [Dispatches -> Stages]
      BY DEF Holds, Stages
    <2>3. queue \in Seq(Dispatches) /\ rest \in Seq(Dispatches)
      OBVIOUS
    <2>4. /\ phase \in Phases /\ answer \in Answers /\ refreshAnswer \in Answers
          /\ faults \in 0..MaxFaults
      BY DEF Phases, Answers
    <2> QED BY <2>1, <2>2, <2>3, <2>4 DEF TypeOK
  <1>2. CountInv
    <2>1. Holders = {}
      BY DEF Holders
    <2> QED BY <2>1, FS_EmptySet DEF CountInv
  <1>3. SlotInv /\ StageInv /\ ScanInv /\ ReadInv
    BY DEF SlotInv, NoOverlap, StageInv, Occupied, ScanInv, ReadInv
  <1>4. QueueInv
    BY DEF QueueInv, NoDuplicates, Elements
  <1> QED BY <1>1, <1>2, <1>3, <1>4 DEF IInv

\* What a step that drains needs to preserve the invariant.
LEMMA DrainStep ==
    ASSUME IInv, ~Occupied,
           NEW q \in Seq(Dispatches), NoDuplicates(q),
           NEW g \in Gates,
           NEW st \in [Dispatches -> Stages],
           Elements(q) = {d \in Dispatches : st[d] = "queued"},
           Elements(queue) \subseteq Elements(q),
           \A d \in Dispatches : st[d] # "running",
           NEW free \in BOOLEAN, free => phase = "none" /\ conversations = 0,
           DrainResult(q, st), ~free => phase' = phase,
           closing' = closing, conversations' = conversations,
           Holders' = Holders,
           \A c \in Conversations : conv'[c] = "running" => conv[c] = "running",
           phase' # "none" => refresh' = "none",
           rescan' \in BOOLEAN, refresh' \in {"none", "reading", "read"},
           refreshAnswer' \in Answers, conv' \in [Conversations -> Holds],
           refresh' = "read" => refreshAnswer' \in Read,
           review' = review, selected' = selected, faults' = faults
    PROVE  IInv'
  <1>1. TypeOK'
    BY DEF IInv, TypeOK, DrainResult
  <1>2. CountInv'
    BY DEF IInv, CountInv
  <1>3. NoOverlap'
    <2>1. CASE free
      BY <2>1, NoHolds DEF IInv, NoOverlap
    <2>2. CASE ~free
      BY <2>2 DEF IInv, SlotInv, NoOverlap
    <2> QED BY <2>1, <2>2
  <1>4. SlotInv'
    BY <1>3 DEF SlotInv
  <1>5. StageInv'
    <2>1. CASE phase' = "start"
      BY <2>1 DEF DrainResult, StageInv, Occupied, IInv
    <2>2. CASE phase' # "start"
      BY <2>2 DEF DrainResult, StageInv, Occupied, IInv
    <2> QED BY <2>1, <2>2
  <1>6. QueueInv'
    BY DEF DrainResult, QueueInv
  <1>7. ScanInv'
    BY DEF DrainResult, ScanInv, IInv
  <1>8. ReadInv'
    BY DEF DrainResult, ReadInv, Occupied
  <1> QED BY <1>1, <1>2, <1>4, <1>5, <1>6, <1>7, <1>8 DEF IInv

LEMMA SubmitStep ==
    ASSUME IInv, NEW d \in Dispatches, SubmitDispatch(d)
    PROVE  IInv'
  <1> DEFINE q == Append(queue, d)
             st == [stage EXCEPT ![d] = "queued"]
             free == phase = "none" /\ refresh = "none" /\ conversations = 0
  <1>1. stage[d] = "fresh" /\ d \notin Elements(queue)
    BY DEF SubmitDispatch, Submission, IInv, QueueInv
  <1>2. /\ q \in Seq(Dispatches) /\ NoDuplicates(q)
        /\ Elements(q) = Elements(queue) \cup {d}
    BY <1>1, AppendFacts DEF IInv, TypeOK, QueueInv
  <1>3. st \in [Dispatches -> Stages]
    BY DEF IInv, TypeOK, Stages
  <1>4. Elements(q) = {e \in Dispatches : st[e] = "queued"}
    BY <1>2 DEF IInv, TypeOK, QueueInv
  <1>5. Drain(free, q, gate, st)
    BY DEF SubmitDispatch, Submission
  <1>6. free \in BOOLEAN /\ gate \in Gates
    BY DEF IInv, TypeOK
  <1>7. /\ RefreshState(phase')
        /\ UNCHANGED <<conv, conversations, closing, review, selected, faults>>
    BY DEF SubmitDispatch, Submission, convVars, checkpointVars
  <1> HIDE DEF q, st
  <1>8. DrainResult(q, st) /\ (~free => phase' = phase)
    BY <1>2, <1>3, <1>4, <1>5, <1>6, DrainFacts DEF IInv
  <1>9. /\ refresh' \in {"none", "reading", "read"} /\ refreshAnswer' \in Answers
        /\ rescan' \in BOOLEAN
        /\ phase' # "none" => refresh' = refresh
        /\ refresh' = "read" => refresh = "read" /\ refreshAnswer' = refreshAnswer
    BY <1>7 DEF RefreshState, refreshVars, IInv, TypeOK, Answers
  <1>10. phase' # "none" => refresh' = "none"
    BY <1>8, <1>9 DEF IInv, SlotInv
  <1>11. /\ Holders' = Holders
         /\ refresh' = "read" => refreshAnswer' \in Read
    BY <1>7, <1>9 DEF Holders, IInv, ReadInv
  <1>12. CASE ~Occupied
    <2>1. \A e \in Dispatches : st[e] # "running"
      BY <1>12 DEF st, IInv, StageInv, TypeOK
    <2> QED
      BY <1>2, <1>3, <1>4, <1>6, <1>7, <1>8, <1>9, <1>10, <1>11, <1>12, <2>1,
         DrainStep DEF IInv, TypeOK
  <1>13. CASE Occupied
    <2>1. ~free
      BY <1>13 DEF Occupied
    <2>2. LeaveSlot(q, gate, st)
      BY <1>5, <2>1 DEF Drain
    <2>3. /\ queue' = q /\ gate' = gate /\ stage' = st
          /\ phase' = phase /\ entry' = entry /\ rest' = rest
          /\ answer' = answer /\ ran' = ran /\ failed' = failed
          /\ preferred' = preferred
      BY <2>2 DEF LeaveSlot, slotVars
    <2>4. TypeOK'
      BY <1>2, <1>3, <1>7, <1>9, <2>3 DEF IInv, TypeOK
    <2>5. CountInv' /\ SlotInv'
      BY <1>7, <1>10, <1>11, <2>3 DEF IInv, CountInv, SlotInv, NoOverlap
    <2>6. StageInv'
      BY <1>1, <2>3 DEF st, IInv, StageInv, Occupied, TypeOK
    <2>7. QueueInv'
      BY <1>2, <1>4, <2>3 DEF QueueInv
    <2>8. ScanInv'
      BY <1>13, <2>3 DEF ScanInv, Occupied
    <2>9. ReadInv'
      BY <1>11, <2>3 DEF ReadInv, IInv
    <2> QED BY <2>4, <2>5, <2>6, <2>7, <2>8, <2>9 DEF IInv
  <1> QED BY <1>12, <1>13

LEMMA SamplesFacts ==
    ASSUME TypeOK, NEW sn \in Sessions, NEW x \in Answers, Samples(sn, x)
    PROVE  faults' \in 0..MaxFaults /\ x \in Read
  BY CoordinatorAssumption DEF Samples, TypeOK, Read

LEMMA RefreshReadsStep == ASSUME IInv, RefreshReads PROVE IInv'
  <1>1. PICK x \in Answers : refreshAnswer' = x /\ Samples(selected, x)
    BY DEF RefreshReads
  <1>2. faults' \in 0..MaxFaults /\ x \in Read
    BY <1>1, SamplesFacts DEF IInv, TypeOK
  <1>3. /\ refresh = "reading" /\ refresh' = "read"
        /\ UNCHANGED <<gate, queue, preferred, stage, phase, entry, rest, answer,
                       ran, failed, rescan, conv, conversations, closing,
                       review, selected>>
    BY DEF RefreshReads, queueVars, slotVars, convVars, checkpointVars
  <1>4. TypeOK'
    BY <1>1, <1>2, <1>3 DEF IInv, TypeOK
  <1>5. CountInv' /\ SlotInv' /\ StageInv' /\ ScanInv' /\ ReadInv'
    BY <1>1, <1>2, <1>3
    DEF IInv, CountInv, Holders, SlotInv, NoOverlap, StageInv, Occupied, ScanInv,
        ReadInv
  <1>6. QueueInv'
    BY <1>3 DEF IInv, QueueInv
  <1> QED BY <1>4, <1>5, <1>6 DEF IInv

LEMMA RefreshReturnsStep == ASSUME IInv, RefreshReturns PROVE IInv'
  <1> DEFINE free == phase = "none" /\ conversations = 0 /\ ~closing
             g == GateFrom(refreshAnswer)
  <1>1. /\ refresh = "read" /\ refresh' = "none" /\ refreshAnswer' = "unread"
        /\ conv' = [c \in Conversations |->
                       IF conv[c] = "refreshing" THEN "done" ELSE conv[c]]
        /\ Drain(free, queue, g, stage)
        /\ UNCHANGED <<rescan, conversations, closing, review, selected, faults>>
    BY DEF RefreshReturns, checkpointVars
  <1>2. g \in Gates /\ free \in BOOLEAN
    BY <1>1 DEF IInv, ReadInv, Read, GateFrom, Gates, TypeOK
  <1>3. phase = "none" /\ ~Occupied
    BY <1>1 DEF IInv, SlotInv, Occupied
  <1>4. DrainResult(queue, stage) /\ (~free => phase' = phase)
    BY <1>1, <1>2, DrainFacts DEF IInv, TypeOK, QueueInv
  <1>5. \A d \in Dispatches : stage[d] # "running"
    BY <1>3 DEF IInv, StageInv
  <1>6. /\ conv' \in [Conversations -> Holds] /\ Holders' = Holders
        /\ \A c \in Conversations : conv'[c] = "running" => conv[c] = "running"
    BY <1>1 DEF IInv, TypeOK, Holds, Holders
  <1> QED
    BY <1>1, <1>2, <1>3, <1>4, <1>5, <1>6, DrainStep
    DEF IInv, TypeOK, QueueInv, Answers

LEMMA PrioritizeStep ==
    ASSUME IInv, NEW d \in Dispatches, PrioritizePendingDispatch(d)
    PROVE  IInv'
  <1>1. PICK i \in DOMAIN queue : preferred' = queue[i]
    BY DEF PrioritizePendingDispatch
  <1>2. UNCHANGED <<gate, queue, stage, phase, entry, rest, answer, ran, failed,
                    rescan, refresh, refreshAnswer, conv, conversations, closing,
                    review, selected, faults>>
    BY DEF PrioritizePendingDispatch, slotVars, refreshVars, convVars, checkpointVars
  <1>3. preferred' \in Dispatches
    BY <1>1 DEF IInv, TypeOK
  <1>4. TypeOK'
    BY <1>2, <1>3 DEF IInv, TypeOK
  <1>5. CountInv' /\ SlotInv' /\ StageInv' /\ ScanInv' /\ ReadInv'
    BY <1>2
    DEF IInv, CountInv, Holders, SlotInv, NoOverlap, StageInv, Occupied, ScanInv,
        ReadInv
  <1>6. QueueInv'
    BY <1>2 DEF IInv, QueueInv
  <1> QED BY <1>4, <1>5, <1>6 DEF IInv

LEMMA CloseStep == ASSUME IInv, Close PROVE IInv'
  <1>1. /\ closing' = TRUE /\ queue' = <<>>
        /\ stage' = [d \in Dispatches |->
                        IF d \in Elements(queue) THEN "cancelled" ELSE stage[d]]
        /\ UNCHANGED <<gate, preferred, phase, entry, rest, answer, ran, failed,
                       rescan, refresh, refreshAnswer, conv, conversations,
                       review, selected, faults>>
    BY DEF Close, CancelQueue, slotVars, refreshVars, convVars, checkpointVars
  <1>2. TypeOK'
    BY <1>1 DEF IInv, TypeOK, Stages
  <1>3. CountInv' /\ SlotInv' /\ ScanInv' /\ ReadInv'
    BY <1>1 DEF IInv, CountInv, Holders, SlotInv, NoOverlap, ScanInv, ReadInv
  <1>4. StageInv'
    <2>1. \A d \in Dispatches : stage[d] = "running" => d \notin Elements(queue)
      BY DEF IInv, QueueInv
    <2> QED BY <1>1, <2>1 DEF IInv, StageInv, Occupied
  <1>5. QueueInv'
    <2>1. \A d \in Dispatches : stage[d] = "queued" => d \in Elements(queue)
      BY DEF IInv, QueueInv
    <2>2. \A d \in Dispatches : stage'[d] # "queued"
      BY <1>1, <2>1
    <2> QED BY <1>1, <2>2 DEF QueueInv, NoDuplicates, Elements
  <1> QED BY <1>2, <1>3, <1>4, <1>5 DEF IInv

\* A step of the slot that neither takes nor leaves it, runs nothing and
\* changes no queue.
LEMMA ScanningStep ==
    ASSUME IInv, phase # "none", ~Occupied, phase' # "none", ~Occupied',
           gate' \in Gates, phase' \in Phases, rest' \in Seq(Dispatches),
           answer' \in Answers, failed' \in BOOLEAN, faults' \in 0..MaxFaults,
           ScanInv',
           UNCHANGED <<queue, preferred, stage, entry, ran, rescan, refresh,
                       refreshAnswer, conv, conversations, closing, review,
                       selected>>
    PROVE  IInv'
  <1>1. TypeOK'
    BY DEF IInv, TypeOK
  <1>2. CountInv' /\ SlotInv' /\ StageInv' /\ ReadInv'
    BY DEF IInv, CountInv, Holders, SlotInv, NoOverlap, StageInv, ReadInv, Occupied
  <1>3. QueueInv'
    BY DEF IInv, QueueInv
  <1> QED BY <1>1, <1>2, <1>3 DEF IInv

\* Going on with candidates that are all queued, or while closing.
LEMMA NextCandidateFacts ==
    ASSUME TypeOK, NEW cs \in Seq(Dispatches), NEW bad \in BOOLEAN,
           closing \/ Elements(cs) \subseteq Elements(queue),
           NextCandidate(cs, bad)
    PROVE  /\ gate' \in Gates /\ rest' \in Seq(Dispatches)
           /\ phase' \in {"check", "ended"}
           /\ phase' = "check" =>
                 rest' # <<>> /\ (closing \/ Elements(rest') \subseteq Elements(queue))
  <1>1. CASE cs # <<>> /\ phase' = "check" /\ rest' = cs /\ UNCHANGED gate
    <2>1. rest' # <<>> /\ (closing \/ Elements(rest') \subseteq Elements(queue))
      BY <1>1
    <2> QED BY <1>1, <2>1 DEF TypeOK
  <1>2. CASE /\ phase' = "ended" /\ rest' = <<>>
             /\ gate' \in {gate, "blocked", "waiting"}
    BY <1>2 DEF TypeOK, Gates
  <1> QED BY <1>1, <1>2 DEF NextCandidate

LEMMA ScanBeginsStep == ASSUME IInv, ScanBegins PROVE IInv'
  <1>1. /\ phase = "scan" /\ NextCandidate(Candidates, FALSE)
        /\ UNCHANGED <<queue, preferred, stage, entry, answer, ran, failed, rescan,
                       refresh, refreshAnswer, conv, conversations, closing,
                       review, selected, faults>>
    BY DEF ScanBegins, queueVars, refreshVars, convVars, checkpointVars
  <1>2. Candidates \in Seq(Dispatches) /\ Elements(Candidates) = Elements(queue)
    BY CandidatesFacts DEF IInv, QueueInv
  <1>3. /\ gate' \in Gates /\ rest' \in Seq(Dispatches)
        /\ phase' \in {"check", "ended"}
        /\ phase' = "check" =>
              rest' # <<>> /\ (closing \/ Elements(rest') \subseteq Elements(queue))
    BY <1>1, <1>2, NextCandidateFacts DEF IInv
  <1>4. ScanInv'
    BY <1>1, <1>3 DEF ScanInv
  <1> QED
    BY <1>1, <1>3, <1>4, ScanningStep DEF IInv, TypeOK, Occupied, Phases

LEMMA CheckReadsStep == ASSUME IInv, CheckReads PROVE IInv'
  <1>1. /\ phase = "check" /\ phase' = "checked"
        /\ UNCHANGED <<gate, queue, preferred, stage, entry, rest, ran, failed,
                       rescan, refresh, refreshAnswer, conv, conversations, closing,
                       review, selected>>
    BY DEF CheckReads, ReadsReadiness, queueVars, refreshVars, convVars, checkpointVars
  <1>2. PICK x \in Answers : answer' = x /\ Samples(SessionOf(Head(rest)), x)
    BY DEF CheckReads, ReadsReadiness
  <1>3. SessionOf(Head(rest)) \in Sessions
    <2>1. Head(rest) \in Dispatches
      BY <1>1 DEF IInv, ScanInv, TypeOK
    <2> QED BY <2>1, CoordinatorAssumption DEF IInv, TypeOK, SessionOf, Targeted
  <1>4. faults' \in 0..MaxFaults
    BY <1>2, <1>3, SamplesFacts DEF IInv
  <1>5. ScanInv'
    BY <1>1 DEF IInv, ScanInv
  <1> QED
    BY <1>1, <1>2, <1>4, <1>5, ScanningStep DEF IInv, TypeOK, Occupied, Phases

LEMMA CheckPassesStep == ASSUME IInv, CheckPasses PROVE IInv'
  <1>1. /\ phase = "checked" /\ answer' = "unread"
        /\ UNCHANGED <<queue, preferred, stage, entry, ran, rescan, refresh,
                       refreshAnswer, conv, conversations, closing, review,
                       selected, faults>>
    BY DEF CheckPasses, queueVars, refreshVars, convVars, checkpointVars
  <1>2. /\ Tail(rest) \in Seq(Dispatches)
        /\ closing \/ Elements(Tail(rest)) \subseteq Elements(queue)
    <2>1. /\ rest \in Seq(Dispatches) /\ rest # <<>>
          /\ closing \/ Elements(rest) \subseteq Elements(queue)
      BY <1>1 DEF IInv, ScanInv, TypeOK
    <2>2. /\ Tail(rest) \in Seq(Dispatches)
          /\ \A i \in DOMAIN Tail(rest) : i + 1 \in DOMAIN rest
                                          /\ Tail(rest)[i] = rest[i + 1]
      BY <2>1
    <2>3. Elements(Tail(rest)) \subseteq Elements(rest)
      BY <2>2 DEF Elements
    <2> QED BY <2>1, <2>2, <2>3
  <1>3. CASE answer = "failed" /\ failed' = TRUE /\ NextCandidate(Tail(rest), TRUE)
    <2>1. /\ gate' \in Gates /\ rest' \in Seq(Dispatches)
          /\ phase' \in {"check", "ended"}
          /\ phase' = "check" =>
                rest' # <<>> /\ (closing \/ Elements(rest') \subseteq Elements(queue))
      BY <1>2, <1>3, NextCandidateFacts DEF IInv
    <2>2. ScanInv'
      BY <1>1, <2>1 DEF ScanInv
    <2> QED
      BY <1>1, <1>3, <2>1, <2>2, ScanningStep DEF IInv, TypeOK, Occupied, Phases, Answers
  <1>4. CASE NextCandidate(Tail(rest), failed) /\ UNCHANGED failed
    <2>1. /\ gate' \in Gates /\ rest' \in Seq(Dispatches)
          /\ phase' \in {"check", "ended"}
          /\ phase' = "check" =>
                rest' # <<>> /\ (closing \/ Elements(rest') \subseteq Elements(queue))
      BY <1>2, <1>4, NextCandidateFacts DEF IInv, TypeOK
    <2>2. ScanInv'
      BY <1>1, <2>1 DEF ScanInv
    <2> QED
      BY <1>1, <1>4, <2>1, <2>2, ScanningStep DEF IInv, TypeOK, Occupied, Phases, Answers
  <1>5. CASE phase' = "ended" /\ rest' = <<>> /\ UNCHANGED <<gate, failed>>
    <2>1. ScanInv' /\ rest' \in Seq(Dispatches)
      BY <1>5 DEF ScanInv
    <2> QED
      BY <1>1, <1>5, <2>1, ScanningStep DEF IInv, TypeOK, Occupied, Phases, Answers
  <1> QED BY <1>3, <1>4, <1>5 DEF CheckPasses

LEMMA CheckStartsStep == ASSUME IInv, CheckStarts PROVE IInv'
  <1> DEFINE d == Head(rest)
             t == Without(queue, PositionOf(queue, d))
  <1>1. /\ phase = "checked" /\ answer = "open" /\ ~closing /\ conversations = 0
        /\ queue' = t
        /\ preferred' = IF preferred = d THEN NoDispatch ELSE preferred
        /\ stage' = [stage EXCEPT ![d] = "running"]
        /\ phase' = "run" /\ entry' = d /\ rest' = <<>> /\ answer' = "unread"
        /\ ran' = TRUE /\ gate' = "busy"
        /\ UNCHANGED <<failed, rescan, refresh, refreshAnswer, conv, conversations,
                       closing, review, selected, faults>>
    BY DEF CheckStarts, CheckRuns, refreshVars, convVars, checkpointVars
  <1>2. rest \in Seq(Dispatches) /\ rest # <<>> /\ Elements(rest) \subseteq Elements(queue)
    BY <1>1 DEF IInv, TypeOK, ScanInv
  <1>3. d \in Dispatches /\ d \in Elements(queue) /\ stage[d] = "queued"
    <2>1. 1 \in DOMAIN rest /\ d = rest[1]
      BY <1>2
    <2> QED BY <1>2, <2>1 DEF Elements, IInv, QueueInv
  <1>4. t \in Seq(Dispatches) /\ Elements(t) = Elements(queue) \ {d} /\ NoDuplicates(t)
    BY <1>3, PositionFacts, WithoutFacts DEF IInv, TypeOK, QueueInv
  <1> HIDE DEF t, d
  <1>5. stage' \in [Dispatches -> Stages]
    BY <1>1, <1>3 DEF IInv, TypeOK, Stages
  <1>6. <<>> \in Seq(Dispatches)
    OBVIOUS
  <1>7. TypeOK'
    BY <1>1, <1>3, <1>4, <1>5, <1>6 DEF IInv, TypeOK, Gates, Phases, Answers
  <1>8. CountInv' /\ SlotInv'
    <2>1. \A c \in Conversations : conv[c] # "running"
      BY <1>1, NoHolds DEF IInv
    <2> QED BY <1>1, <2>1 DEF IInv, CountInv, Holders, SlotInv, NoOverlap
  <1>9. StageInv' /\ ScanInv' /\ ReadInv'
    BY <1>1, <1>3 DEF IInv, TypeOK, StageInv, ScanInv, ReadInv, Occupied
  <1>10. QueueInv'
    <2>1. {e \in Dispatches : stage'[e] = "queued"} = Elements(queue) \ {d}
      BY <1>1, <1>3 DEF IInv, QueueInv, TypeOK
    <2> QED BY <1>1, <1>4, <2>1 DEF QueueInv
  <1> QED BY <1>7, <1>8, <1>9, <1>10 DEF IInv

\* A step of the operation in the slot, up to its settled state.
LEMMA RunningStep ==
    ASSUME IInv, Occupied, Occupied',
           phase' \in Phases, answer' \in Answers, faults' \in 0..MaxFaults,
           phase' = "settled" => answer' \in Read,
           review' \in [Sessions -> BOOLEAN], selected' \in Sessions,
           UNCHANGED <<gate, queue, preferred, stage, entry, rest, ran, failed,
                       rescan, refresh, refreshAnswer, conv, conversations, closing>>
    PROVE  IInv'
  <1>1. TypeOK'
    BY DEF IInv, TypeOK
  <1>2. CountInv' /\ SlotInv' /\ StageInv' /\ ScanInv' /\ ReadInv'
    BY DEF IInv, CountInv, Holders, SlotInv, NoOverlap, StageInv, ScanInv, ReadInv,
           Occupied
  <1>3. QueueInv'
    BY DEF IInv, QueueInv
  <1> QED BY <1>1, <1>2, <1>3 DEF IInv

LEMMA DispatchStartsStep == ASSUME IInv, DispatchStarts PROVE IInv'
  <1>1. /\ phase = "start" /\ phase' = "run"
        /\ UNCHANGED <<gate, queue, preferred, stage, entry, rest, answer, ran, failed,
                       rescan, refresh, refreshAnswer, conv, conversations, closing,
                       review, selected, faults>>
    BY DEF DispatchStarts, queueVars, refreshVars, convVars, checkpointVars
  <1> QED BY <1>1, RunningStep DEF IInv, TypeOK, Occupied, Phases

LEMMA DispatchSettlesStep == ASSUME IInv, DispatchSettles PROVE IInv'
  <1>1. /\ phase = "run" /\ phase' = "settle"
        /\ UNCHANGED <<gate, queue, preferred, stage, entry, rest, answer, ran, failed,
                       rescan, refresh, refreshAnswer, conv, conversations, closing,
                       faults>>
    BY DEF DispatchSettles, queueVars, refreshVars, convVars
  <1>2. review' \in [Sessions -> BOOLEAN]
    BY DEF DispatchSettles, IInv, TypeOK
  <1>3. selected' \in Sessions
    BY DEF DispatchSettles, IInv, TypeOK
  <1> QED BY <1>1, <1>2, <1>3, RunningStep DEF IInv, TypeOK, Occupied, Phases

LEMMA SettleReadsStep == ASSUME IInv, SettleReads PROVE IInv'
  <1>1. /\ phase = "settle" /\ phase' = "settled"
        /\ UNCHANGED <<gate, queue, preferred, stage, entry, rest, ran, failed,
                       rescan, refresh, refreshAnswer, conv, conversations, closing,
                       review, selected>>
    BY DEF SettleReads, queueVars, refreshVars, convVars, checkpointVars
  <1>2. PICK x \in Answers : answer' = x /\ Samples(selected, x)
    BY DEF SettleReads
  <1>3. faults' \in 0..MaxFaults /\ x \in Read
    BY <1>2, SamplesFacts DEF IInv, TypeOK
  <1> QED BY <1>1, <1>2, <1>3, RunningStep DEF IInv, TypeOK, Occupied, Phases

LEMMA SettleDeliversStep == ASSUME IInv, SettleDelivers PROVE IInv'
  <1>1. /\ phase = "settled" /\ phase' = "ended" /\ gate' = GateFrom(answer)
        /\ answer' = "unread" /\ stage' = [stage EXCEPT ![entry] = "done"]
        /\ UNCHANGED <<queue, preferred, entry, rest, ran, failed, rescan, refresh,
                       refreshAnswer, conv, conversations, closing, review,
                       selected, faults>>
    BY DEF SettleDelivers, refreshVars, convVars, checkpointVars
  <1>2. gate' \in Gates
    BY <1>1 DEF IInv, ReadInv, Read, GateFrom, Gates
  <1>3. entry \in Dispatches /\ stage[entry] = "running"
    BY <1>1 DEF IInv, StageInv, Occupied
  <1>4. stage' \in [Dispatches -> Stages]
    BY <1>1 DEF IInv, TypeOK, Stages
  <1>5. TypeOK'
    BY <1>1, <1>2, <1>4 DEF IInv, TypeOK, Phases, Answers
  <1>6. CountInv' /\ SlotInv' /\ StageInv' /\ ScanInv' /\ ReadInv'
    BY <1>1, <1>3
    DEF IInv, TypeOK, CountInv, Holders, SlotInv, NoOverlap, StageInv, ScanInv,
        ReadInv, Occupied
  <1>7. QueueInv'
    <2>1. {d \in Dispatches : stage'[d] = "queued"}
             = {d \in Dispatches : stage[d] = "queued"}
      BY <1>1, <1>3 DEF IInv, TypeOK
    <2> QED BY <1>1, <2>1 DEF IInv, QueueInv
  <1> QED BY <1>5, <1>6, <1>7 DEF IInv

LEMMA SlotReturnsStep == ASSUME IInv, SlotReturns PROVE IInv'
  <1>1. /\ phase = "ended" /\ rescan' = FALSE
        /\ UNCHANGED <<refresh, refreshAnswer, conv, conversations, closing,
                       review, selected, faults>>
    BY DEF SlotReturns, refreshVars, convVars, checkpointVars
  <1>2. ~Occupied /\ \A d \in Dispatches : stage[d] # "running"
    BY <1>1 DEF IInv, StageInv, Occupied
  <1>3. refresh = "none"
    BY <1>1 DEF IInv, SlotInv
  <1>4. CASE DrainResult(queue, stage) /\ phase' \in {"scan", "start"}
    <2>1. TypeOK'
      BY <1>1, <1>4 DEF IInv, TypeOK, DrainResult
    <2>2. CountInv' /\ SlotInv'
      BY <1>1, <1>3 DEF IInv, CountInv, Holders, SlotInv, NoOverlap
    <2>3. StageInv'
      BY <1>2, <1>4 DEF StageInv, Occupied, DrainResult, IInv, TypeOK
    <2>4. QueueInv' /\ ScanInv' /\ ReadInv'
      BY <1>1, <1>3, <1>4 DEF QueueInv, ScanInv, ReadInv, DrainResult
    <2> QED BY <2>1, <2>2, <2>3, <2>4 DEF IInv
  <1>5. ASSUME TakeSlotToScan(queue, gate, stage) PROVE IInv'
    BY <1>4, <1>5, ScanFacts DEF IInv, TypeOK, QueueInv
  <1>6. ASSUME ToRun(queue, gate), TakeSlotToRun(queue, stage) PROVE IInv'
    BY <1>4, <1>6, RunFacts DEF IInv, TypeOK, QueueInv, ToRun
  <1>7. ASSUME /\ phase' = "none" /\ entry' = NoDispatch /\ ran' = FALSE
               /\ failed' = FALSE
               /\ UNCHANGED <<gate, queueVars, rest, answer>>
        PROVE IInv'
    <2>1. UNCHANGED <<gate, queue, preferred, stage, rest, answer>>
      BY <1>7 DEF queueVars
    <2>2. TypeOK'
      BY <1>1, <1>7, <2>1 DEF IInv, TypeOK, Phases
    <2>3. CountInv' /\ SlotInv' /\ StageInv' /\ ScanInv' /\ ReadInv'
      BY <1>1, <1>2, <1>3, <1>7, <2>1
      DEF IInv, CountInv, Holders, SlotInv, NoOverlap, StageInv, ScanInv, ReadInv,
          Occupied
    <2>4. QueueInv'
      BY <2>1 DEF IInv, QueueInv
    <2> QED BY <2>2, <2>3, <2>4 DEF IInv
  <1> QED BY <1>5, <1>6, <1>7 DEF SlotReturns

\* A step of one conversation, which moves no dispatch.
LEMMA ConversationKeeps ==
    ASSUME IInv, gate' \in Gates, conv' \in [Conversations -> Holds],
           CountInv', conversations' \in Nat, NoOverlap',
           rescan' \in BOOLEAN, refresh' \in {"none", "reading", "read"},
           refreshAnswer' \in Answers, refresh' = "read" => refreshAnswer' \in Read,
           phase # "none" => refresh' = "none",
           review' \in [Sessions -> BOOLEAN], selected' \in Sessions,
           UNCHANGED <<queue, preferred, stage, phase, entry, rest, answer, ran, failed,
                       closing, faults>>
    PROVE  IInv'
  <1>1. TypeOK'
    BY DEF IInv, TypeOK
  <1>2. SlotInv' /\ StageInv' /\ ScanInv' /\ ReadInv'
    BY DEF IInv, SlotInv, StageInv, ScanInv, ReadInv, Occupied
  <1>3. QueueInv'
    BY DEF IInv, QueueInv
  <1> QED BY <1>1, <1>2, <1>3 DEF IInv

LEMMA HoldStep ==
    ASSUME IInv, NEW c \in Conversations, HoldForConversation(c)
    PROVE  IInv'
  <1>1. /\ conv[c] = "idle" /\ conversations' = conversations + 1
        /\ UNCHANGED <<queue, preferred, stage, phase, entry, rest, answer, ran,
                       failed, rescan, refresh, refreshAnswer, closing, review,
                       selected, faults>>
    BY DEF HoldForConversation, queueVars, slotVars, refreshVars, checkpointVars
  <1>2. /\ gate' \in Gates /\ conv' \in [Conversations -> Holds]
        /\ \/ conv' = [conv EXCEPT ![c] = "running"]
           \/ phase # "none" /\ conv' = [conv EXCEPT ![c] = "claimed"]
        /\ phase # "none" => conv' = [conv EXCEPT ![c] = "claimed"]
    BY DEF HoldForConversation, IInv, TypeOK, Gates, Holds
  <1>3. Holders' = Holders \cup {c} /\ c \notin Holders
    BY <1>1, <1>2 DEF Holders, IInv, TypeOK
  <1>4. CountInv' /\ conversations' \in Nat
    BY <1>1, <1>3, ClaimCounts DEF IInv
  <1>5. NoOverlap'
    BY <1>1, <1>2 DEF IInv, TypeOK, SlotInv, NoOverlap
  <1> QED
    BY <1>1, <1>2, <1>4, <1>5, ConversationKeeps DEF IInv, TypeOK, SlotInv, ReadInv

LEMMA ConversationStartsStep ==
    ASSUME IInv, NEW c \in Conversations, ConversationStarts(c)
    PROVE  IInv'
  <1>1. /\ conv[c] = "claimed" /\ phase = "none" /\ gate' = "busy"
        /\ conv' = [conv EXCEPT ![c] = "running"]
        /\ UNCHANGED <<queue, preferred, stage, phase, entry, rest, answer, ran,
                       failed, rescan, refresh, refreshAnswer, conversations,
                       closing, review, selected, faults>>
    BY DEF ConversationStarts, EntersConversation, queueVars, slotVars, refreshVars,
           checkpointVars
  <1>2. Holders' = Holders
    BY <1>1 DEF Holders, IInv, TypeOK
  <1>3. gate' \in Gates /\ conv' \in [Conversations -> Holds]
    BY <1>1 DEF IInv, TypeOK, Gates, Holds
  <1>4. CountInv' /\ NoOverlap'
    BY <1>1, <1>2 DEF IInv, CountInv, NoOverlap
  <1> QED
    BY <1>1, <1>3, <1>4, ConversationKeeps DEF IInv, TypeOK, SlotInv, ReadInv

LEMMA ConversationWritesStep ==
    ASSUME IInv, NEW c \in Conversations, ConversationWrites(c)
    PROVE  IInv'
  <1>1. UNCHANGED <<gate, queue, preferred, stage, phase, entry, rest, answer, ran,
                    failed, rescan, refresh, refreshAnswer, conv, conversations,
                    closing, faults>>
    BY DEF ConversationWrites, queueVars, slotVars, refreshVars, convVars
  <1>2. review' \in [Sessions -> BOOLEAN] /\ selected' \in Sessions
    BY DEF ConversationWrites, IInv, TypeOK
  <1>3. CountInv' /\ NoOverlap'
    BY <1>1 DEF IInv, CountInv, Holders, SlotInv, NoOverlap
  <1> QED
    BY <1>1, <1>2, <1>3, ConversationKeeps DEF IInv, TypeOK, SlotInv, ReadInv

\* What releasing a hold does to the counter and the overlap.
LEMMA ReleaseFacts ==
    ASSUME IInv, NEW c \in Conversations, conv[c] = "running",
           conversations' = conversations - 1, phase' = phase,
           NEW h \in {"refreshing", "done"}, conv' = [conv EXCEPT ![c] = h]
    PROVE  /\ CountInv' /\ conversations' \in Nat /\ NoOverlap'
           /\ conv' \in [Conversations -> Holds]
  <1>1. conv' \in [Conversations -> Holds]
    BY DEF IInv, TypeOK, Holds
  <1>2. Holders' = Holders \ {c} /\ c \in Holders
    BY DEF Holders, IInv, TypeOK
  <1>3. CountInv' /\ conversations' \in Nat
    BY <1>2, ReleaseCounts DEF IInv
  <1>4. NoOverlap'
    BY DEF IInv, TypeOK, SlotInv, NoOverlap
  <1> QED BY <1>1, <1>3, <1>4

LEMMA ReleaseHoldStep ==
    ASSUME IInv, NEW c \in Conversations, ReleaseHold(c)
    PROVE  IInv'
  <1>1. /\ conv[c] = "running" /\ conversations' = conversations - 1
        /\ conv' = [conv EXCEPT ![c] = "done"]
        /\ UNCHANGED <<gate, queue, preferred, stage, phase, entry, rest, answer, ran,
                       failed, rescan, refresh, refreshAnswer, closing, review,
                       selected, faults>>
    BY DEF ReleaseHold, queueVars, slotVars, refreshVars, checkpointVars
  <1>2. /\ CountInv' /\ conversations' \in Nat /\ NoOverlap'
        /\ conv' \in [Conversations -> Holds]
    BY <1>1, ReleaseFacts
  <1> QED
    BY <1>1, <1>2, ConversationKeeps DEF IInv, TypeOK, SlotInv, ReadInv

LEMMA ConversationSettlesStep ==
    ASSUME IInv, NEW c \in Conversations, ConversationSettles(c)
    PROVE  IInv'
  <1>1. /\ conv[c] = "running" /\ conversations' = conversations - 1
        /\ UNCHANGED <<gate, queue, preferred, stage, phase, entry, rest, answer, ran,
                       failed, closing, review, selected, faults>>
    BY DEF ConversationSettles, queueVars, slotVars, checkpointVars
  <1>2. PICK h \in {"refreshing", "done"} : conv' = [conv EXCEPT ![c] = h]
    BY DEF ConversationSettles
  <1>3. /\ CountInv' /\ conversations' \in Nat /\ NoOverlap'
        /\ conv' \in [Conversations -> Holds]
    BY <1>1, <1>2, ReleaseFacts
  <1>4. /\ rescan' \in BOOLEAN /\ refresh' \in {"none", "reading", "read"}
        /\ refreshAnswer' \in Answers
        /\ refresh' = "read" => refreshAnswer' \in Read
        /\ phase # "none" => refresh' = "none"
    BY DEF ConversationSettles, RefreshState, refreshVars, IInv, TypeOK, Answers,
           ReadInv, SlotInv
  <1> QED
    BY <1>1, <1>3, <1>4, ConversationKeeps DEF IInv, TypeOK

LEMMA StutterStep == ASSUME IInv, UNCHANGED vars PROVE IInv'
  <1>1. UNCHANGED <<gate, queue, preferred, stage, phase, entry, rest, answer, ran,
                    failed, rescan, refresh, refreshAnswer, conv, conversations,
                    closing, review, selected, faults>>
    BY DEF vars, queueVars, slotVars, refreshVars, convVars, checkpointVars
  <1>2. CountInv' /\ NoOverlap'
    BY <1>1 DEF IInv, CountInv, Holders, SlotInv, NoOverlap
  <1> QED
    BY <1>1, <1>2, ConversationKeeps DEF IInv, TypeOK, SlotInv, ReadInv

-----------------------------------------------------------------------------
\* The theorems.

LEMMA InvariantStep == ASSUME IInv, [Next]_vars PROVE IInv'
  <1>1. ASSUME NEW d \in Dispatches,
               SubmitDispatch(d) \/ PrioritizePendingDispatch(d)
        PROVE  IInv'
    BY <1>1, SubmitStep, PrioritizeStep
  <1>2. CASE Close
    BY <1>2, CloseStep
  <1>3. CASE RefreshStep
    BY <1>3, RefreshReadsStep, RefreshReturnsStep DEF RefreshStep
  <1>4. CASE SlotStep
    BY <1>4, ScanBeginsStep, CheckReadsStep, CheckPassesStep, CheckStartsStep,
       DispatchStartsStep, DispatchSettlesStep, SettleReadsStep,
       SettleDeliversStep, SlotReturnsStep DEF SlotStep
  <1>5. ASSUME NEW c \in Conversations,
               HoldForConversation(c) \/ ConversationWrites(c) \/ ConversationStep(c)
        PROVE  IInv'
    BY <1>5, HoldStep, ConversationWritesStep, ConversationStartsStep,
       ConversationSettlesStep, ReleaseHoldStep
    DEF ConversationStep, ConversationThrows
  <1>6. CASE UNCHANGED vars
    BY <1>6, StutterStep
  <1> QED BY <1>1, <1>2, <1>3, <1>4, <1>5, <1>6 DEF Next

\* The inductive invariant holds in every reachable state.
THEOREM Invariant == Spec => []IInv
  <1>1. Init => IInv
    BY InitIInv
  <1> QED BY <1>1, InvariantStep, PTL DEF Spec

\* Every variable keeps its type.
THEOREM TypeCorrect == Spec => []TypeOK
  <1>1. IInv => TypeOK
    BY DEF IInv
  <1> QED BY <1>1, Invariant, PTL

\* No two executions overlap: a conversation runs only while no dispatch, and
\* no scan, owns the slot.
THEOREM ExecutionsExclude == Spec => []NoOverlap
  <1>1. IInv => NoOverlap
    BY DEF IInv, SlotInv
  <1> QED BY <1>1, Invariant, PTL

\* The candidate a scan decides on is still in the queue it is removed from.
THEOREM CandidateStays == Spec => []CandidateStillQueued
  <1>1. IInv => CandidateStillQueued
    <2> SUFFICES ASSUME IInv, phase \in {"check", "checked"}, ~closing
                 PROVE  Head(rest) \in Elements(queue)
      BY DEF CandidateStillQueued
    <2>1. rest \in Seq(Dispatches) /\ rest # <<>> /\ Elements(rest) \subseteq Elements(queue)
      BY DEF IInv, TypeOK, ScanInv
    <2>2. 1 \in DOMAIN rest /\ Head(rest) = rest[1]
      BY <2>1
    <2> QED BY <2>1, <2>2 DEF Elements
  <1> QED BY <1>1, Invariant, PTL
----------------------------------------------------------------

\* A sequence without duplicates is as long as the set of its elements.
LEMMA LengthCounts ==
    ASSUME NEW S, NEW s \in Seq(S), NoDuplicates(s)
    PROVE  Len(s) = Cardinality(Elements(s))
  <1>1. /\ Len(s) \in Nat /\ DOMAIN s = 1..Len(s)
        /\ s \in [1..Len(s) -> Elements(s)]
    BY DEF Elements
  <1>2. s \in Injection(1..Len(s), Elements(s))
    BY <1>1 DEF Injection, IsInjective, NoDuplicates
  <1>3. s \in Surjection(1..Len(s), Elements(s))
    BY <1>1 DEF Surjection, Elements
  <1>4. ExistsBijection(1..Len(s), Elements(s))
    BY <1>2, <1>3 DEF ExistsBijection, Bijection
  <1> QED BY <1>1, <1>4, FS_CountingElements

\* Accepted work is accounted for: each queued dispatch is in the queue once,
\* the counter counts the holds, and a scan and a refresh exclude each other.
THEOREM AccountingHolds == Spec => []Accounting
  <1>1. IInv => Accounting
    <2> SUFFICES ASSUME IInv PROVE Accounting
      OBVIOUS
    <2>1. Len(queue) = Cardinality(Elements(queue))
      BY LengthCounts DEF IInv, TypeOK, QueueInv
    <2> QED
      BY <2>1 DEF IInv, QueueInv, CountInv, Holders, SlotInv, Accounting
  <1> QED BY <1>1, Invariant, PTL

-----------------------------------------------------------------------------
\* The coordinator implements the abstract gate: every step, in a state that
\* satisfies the inductive invariant, is a step of ExecutionGate under the
\* mapping of ResidentPetCoordinator, or leaves it unchanged.

Mapped == <<Started, Executing, Asking, Talking>>

GateStep == Gate!GateNext \/ UNCHANGED Mapped

-----------------------------------------------------------------------------
\* The shapes a step of the coordinator can have.

\* It changes no hold, and no dispatch enters or leaves execution.
LEMMA QuietStep ==
    ASSUME \A d \in Dispatches :
              \/ stage'[d] = stage[d]
              \/ {stage[d], stage'[d]} \subseteq {"fresh", "queued", "cancelled"},
           \A c \in Conversations :
              \/ conv'[c] = conv[c]
              \/ {conv[c], conv'[c]} \subseteq {"idle", "refreshing", "done"}
    PROVE  GateStep
  <1>1. Started' = Started
    BY DEF Started
  <1>2. Executing' = Executing
    BY DEF Executing
  <1>3. Asking' = Asking
    BY DEF Asking
  <1>4. Talking' = Talking
    BY DEF Talking
  <1> QED BY <1>1, <1>2, <1>3, <1>4 DEF GateStep, Mapped

\* A queued or fresh dispatch starts, while nothing executes or is held.
LEMMA StartingStep ==
    ASSUME IInv, ~Occupied, conversations = 0, UNCHANGED conv,
           NEW d \in Dispatches, stage[d] \in {"fresh", "queued"},
           stage'[d] = "running",
           \A e \in Dispatches \ {d} :
              \/ stage'[e] = stage[e]
              \/ {stage[e], stage'[e]} \subseteq {"fresh", "queued", "cancelled"}
    PROVE  Gate!StartDispatch(d)
  <1>1. Executing = {}
    BY DEF Executing, IInv, StageInv
  <1>2. Asking = {} /\ Talking = {} /\ Asking' = Asking /\ Talking' = Talking
    BY NoHolds DEF Asking, Talking, IInv
  <1>3. d \notin Started /\ Started' = Started \cup {d}
    BY DEF Started
  <1>4. Executing' = {d}
    BY <1>1 DEF Executing
  <1> QED BY <1>1, <1>2, <1>3, <1>4 DEF Gate!StartDispatch

\* A step that drains the queue, whoever makes it.
LEMMA DrainMaps ==
    ASSUME IInv, NEW q, NEW st, DrainResult(q, st),
           phase' = "start" => conversations = 0 /\ ~Occupied,
           Holders' = Holders,
           \A c \in Conversations :
              \/ conv'[c] = conv[c]
              \/ {conv[c], conv'[c]} \subseteq {"idle", "refreshing", "done"},
           st \in [Dispatches -> Stages],
           \A d \in Dispatches :
              \/ st[d] = stage[d]
              \/ {stage[d], st[d]} \subseteq {"fresh", "queued"}
    PROVE  GateStep
  <1>1. CASE stage' = st
    BY <1>1, QuietStep
  <1>2. CASE /\ phase' = "start" /\ entry' \in Dispatches /\ st[entry'] = "queued"
             /\ stage' = [st EXCEPT ![entry'] = "running"]
    <2>1. \A c \in Conversations : conv'[c] \notin {"claimed", "running"}
      BY <1>2, NoHolds DEF IInv
    <2>2. Asking = {} /\ Talking = {} /\ Asking' = {} /\ Talking' = {}
      BY <1>2, <2>1, NoHolds DEF Asking, Talking, IInv
    <2>3. stage[entry'] \in {"fresh", "queued"} /\ stage'[entry'] = "running"
      BY <1>2
    <2>4. Executing = {}
      BY <1>2 DEF Executing, IInv, StageInv
    <2>5. entry' \notin Started /\ Started' = Started \cup {entry'}
      BY <1>2, <2>3 DEF Started
    <2>6. Executing' = {entry'}
      BY <1>2, <2>3, <2>4 DEF Executing
    <2>7. Gate!StartDispatch(entry')
      BY <2>2, <2>4, <2>5, <2>6 DEF Gate!StartDispatch
    <2> QED BY <1>2, <2>7 DEF GateStep, Gate!GateNext
  <1> QED BY <1>1, <1>2 DEF DrainResult

-----------------------------------------------------------------------------
\* The actions that change what the gate sees.

LEMMA SubmitMaps ==
    ASSUME IInv, NEW d \in Dispatches, SubmitDispatch(d)
    PROVE  GateStep
  <1> DEFINE q == Append(queue, d)
             st == [stage EXCEPT ![d] = "queued"]
             free == phase = "none" /\ refresh = "none" /\ conversations = 0
  <1>1. /\ stage[d] = "fresh" /\ d \notin Elements(queue)
        /\ Drain(free, q, gate, st) /\ UNCHANGED conv
    BY DEF SubmitDispatch, Submission, IInv, QueueInv, convVars
  <1>2. /\ q \in Seq(Dispatches) /\ NoDuplicates(q)
        /\ Elements(q) = Elements(queue) \cup {d}
    BY <1>1, AppendFacts DEF IInv, TypeOK, QueueInv
  <1>3. st \in [Dispatches -> Stages]
    BY DEF IInv, TypeOK, Stages
  <1>4. Elements(q) = {e \in Dispatches : st[e] = "queued"}
    BY <1>2 DEF IInv, TypeOK, QueueInv
  <1>5. free \in BOOLEAN /\ gate \in Gates
    BY DEF IInv, TypeOK
  <1>6. \A e \in Dispatches :
           st[e] = stage[e] \/ {stage[e], st[e]} \subseteq {"fresh", "queued"}
    BY <1>1 DEF IInv, TypeOK
  <1> HIDE DEF q, st
  <1>7. DrainResult(q, st) /\ (~free => phase' = phase)
    BY <1>1, <1>2, <1>3, <1>4, <1>5, DrainFacts DEF IInv
  <1>8. CASE free
    BY <1>1, <1>3, <1>6, <1>7, <1>8, DrainMaps DEF Holders, Occupied
  <1>9. CASE ~free
    <2>1. stage' = st
      BY <1>1, <1>9 DEF Drain, LeaveSlot
    <2> QED BY <1>1, <1>6, <2>1, QuietStep
  <1> QED BY <1>8, <1>9

LEMMA RefreshReturnsMaps == ASSUME IInv, RefreshReturns PROVE GateStep
  <1> DEFINE free == phase = "none" /\ conversations = 0 /\ ~closing
             g == GateFrom(refreshAnswer)
  <1>1. /\ refresh = "read"
        /\ conv' = [c \in Conversations |->
                       IF conv[c] = "refreshing" THEN "done" ELSE conv[c]]
        /\ Drain(free, queue, g, stage)
    BY DEF RefreshReturns
  <1>2. g \in Gates /\ free \in BOOLEAN
    BY <1>1 DEF IInv, ReadInv, Read, GateFrom, Gates, TypeOK
  <1>3. DrainResult(queue, stage) /\ (~free => phase' = phase)
    BY <1>1, <1>2, DrainFacts DEF IInv, TypeOK, QueueInv
  <1>4. phase = "none"
    BY <1>1 DEF IInv, SlotInv
  <1>5. /\ Holders' = Holders
        /\ \A c \in Conversations :
              \/ conv'[c] = conv[c]
              \/ {conv[c], conv'[c]} \subseteq {"idle", "refreshing", "done"}
    BY <1>1 DEF Holders
  <1>6. phase' = "start" => conversations = 0 /\ ~Occupied
    BY <1>3, <1>4 DEF Occupied
  <1> QED BY <1>3, <1>5, <1>6, DrainMaps DEF IInv, TypeOK

LEMMA SlotReturnsMaps == ASSUME IInv, SlotReturns PROVE GateStep
  <1> DEFINE again == /\ DrainsAgain
                      /\ refresh = "none" /\ conversations = 0 /\ ~closing
  <1>1. phase = "ended" /\ ~Occupied /\ UNCHANGED conv
    BY DEF SlotReturns, Occupied, convVars
  <1>2. CASE again /\ TakeSlotToScan(queue, gate, stage)
    BY <1>1, <1>2, QuietStep DEF TakeSlotToScan
  <1>3. CASE again /\ ToRun(queue, gate) /\ TakeSlotToRun(queue, stage)
    <2>1. DrainResult(queue, stage)
      BY <1>3, RunFacts DEF ToRun, IInv, TypeOK, QueueInv
    <2> QED BY <1>1, <1>3, <2>1, DrainMaps DEF IInv, TypeOK, Holders
  <1>4. CASE UNCHANGED stage
    BY <1>1, <1>4, QuietStep
  <1> QED BY <1>2, <1>3, <1>4 DEF SlotReturns, queueVars

LEMMA CheckStartsMaps == ASSUME IInv, CheckStarts PROVE GateStep
  <1> DEFINE d == Head(rest)
  <1>1. /\ phase = "checked" /\ conversations = 0 /\ ~closing
        /\ stage' = [stage EXCEPT ![d] = "running"] /\ UNCHANGED conv
    BY DEF CheckStarts, CheckRuns, convVars
  <1>2. rest # <<>> /\ rest \in Seq(Dispatches) /\ Elements(rest) \subseteq Elements(queue)
    BY <1>1 DEF IInv, TypeOK, ScanInv
  <1>3. d \in Elements(queue)
    <2>1. 1 \in DOMAIN rest /\ d = rest[1]
      BY <1>2
    <2> QED BY <1>2, <2>1 DEF Elements
  <1> HIDE DEF d
  <1>4. d \in Dispatches /\ stage[d] = "queued"
    BY <1>3 DEF IInv, QueueInv
  <1>5. Gate!StartDispatch(d)
    BY <1>1, <1>4, StartingStep DEF Occupied, IInv, TypeOK
  <1> QED BY <1>4, <1>5 DEF GateStep, Gate!GateNext

LEMMA SettleDeliversMaps == ASSUME IInv, SettleDelivers PROVE GateStep
  <1>1. /\ phase = "settled" /\ stage' = [stage EXCEPT ![entry] = "done"]
        /\ UNCHANGED conv
    BY DEF SettleDelivers, convVars
  <1>2. entry \in Dispatches /\ stage[entry] = "running" /\ Executing = {entry}
    BY <1>1 DEF IInv, StageInv, Occupied, Executing
  <1>3. Started' = Started /\ Executing' = {}
    BY <1>1, <1>2 DEF Started, Executing, IInv, TypeOK
  <1>4. Asking' = Asking /\ Talking' = Talking
    BY <1>1 DEF Asking, Talking
  <1>5. Gate!FinishDispatch(entry)
    BY <1>2, <1>3, <1>4 DEF Gate!FinishDispatch
  <1> QED BY <1>2, <1>5 DEF GateStep, Gate!GateNext

LEMMA HoldMaps ==
    ASSUME IInv, NEW c \in Conversations, HoldForConversation(c)
    PROVE  GateStep
  <1>1. conv[c] = "idle" /\ UNCHANGED stage
    BY DEF HoldForConversation, queueVars
  <1>2. Started' = Started /\ Executing' = Executing
    BY <1>1 DEF Started, Executing
  <1>3. CASE phase = "none" /\ conv' = [conv EXCEPT ![c] = "running"]
    <2>1. /\ Asking' = Asking /\ c \notin Asking /\ c \notin Talking
          /\ Talking' = Talking \cup {c}
      BY <1>1, <1>3 DEF Asking, Talking, IInv, TypeOK
    <2>2. Executing = {}
      BY <1>3 DEF Executing, IInv, StageInv, Occupied
    <2>3. Gate!StartTalking(c)
      BY <1>2, <2>1, <2>2 DEF Gate!StartTalking
    <2> QED BY <2>3 DEF GateStep, Gate!GateNext
  <1>4. CASE conv' = [conv EXCEPT ![c] = "claimed"]
    <2>1. /\ Talking' = Talking /\ c \notin Asking \cup Talking
          /\ Asking' = Asking \cup {c}
      BY <1>1, <1>4 DEF Asking, Talking, IInv, TypeOK
    <2>2. Gate!Ask(c)
      BY <1>2, <2>1 DEF Gate!Ask
    <2> QED BY <2>2 DEF GateStep, Gate!GateNext
  <1> QED BY <1>3, <1>4 DEF HoldForConversation

LEMMA ConversationStartsMaps ==
    ASSUME IInv, NEW c \in Conversations, ConversationStarts(c)
    PROVE  GateStep
  <1>1. /\ phase = "none" /\ conv[c] = "claimed" /\ UNCHANGED stage
        /\ conv' = [conv EXCEPT ![c] = "running"]
    BY DEF ConversationStarts, EntersConversation, queueVars
  <1>2. Started' = Started /\ Executing' = Executing /\ Executing = {}
    BY <1>1 DEF Started, Executing, IInv, StageInv, Occupied
  <1>3. /\ Asking' = Asking \ {c} /\ c \notin Talking
        /\ Talking' = Talking \cup {c}
    BY <1>1 DEF Asking, Talking, IInv, TypeOK
  <1>4. Gate!StartTalking(c)
    BY <1>2, <1>3 DEF Gate!StartTalking
  <1> QED BY <1>4 DEF GateStep, Gate!GateNext

\* Releasing the hold, with the refresh or (when it throws) without it.
LEMMA ReleaseMaps ==
    ASSUME IInv, NEW c \in Conversations,
           ConversationSettles(c) \/ ConversationThrows(c)
    PROVE  GateStep
  <1>1. PICK h \in {"refreshing", "done"} :
           /\ conv[c] = "running" /\ UNCHANGED stage
           /\ conv' = [conv EXCEPT ![c] = h]
    BY DEF ConversationSettles, ConversationThrows, ReleaseHold, queueVars
  <1>2. Started' = Started /\ Executing' = Executing
    BY <1>1 DEF Started, Executing
  <1>3. Asking' = Asking /\ c \in Talking /\ Talking' = Talking \ {c}
    BY <1>1 DEF Asking, Talking, IInv, TypeOK
  <1>4. Gate!StopTalking(c)
    BY <1>2, <1>3 DEF Gate!StopTalking
  <1> QED BY <1>4 DEF GateStep, Gate!GateNext

\* close() cancels queued dispatches only.
LEMMA CloseMaps == ASSUME IInv, Close PROVE GateStep
  <1>1. /\ stage' = [d \in Dispatches |->
                        IF d \in Elements(queue) THEN "cancelled" ELSE stage[d]]
        /\ UNCHANGED conv
    BY DEF Close, CancelQueue, convVars
  <1>2. \A d \in Dispatches : d \in Elements(queue) => stage[d] = "queued"
    BY DEF IInv, QueueInv
  <1> QED BY <1>1, <1>2, QuietStep

-----------------------------------------------------------------------------

LEMMA InitMaps == Init => Gate!GateInit
  BY DEF Init, Gate!GateInit, Started, Executing, Asking, Talking

\* Every step of the coordinator is a step of the gate, or none.
LEMMA StepMaps == ASSUME IInv, [Next]_vars PROVE GateStep
  <1>1. ASSUME NEW d \in Dispatches, SubmitDispatch(d) PROVE GateStep
    BY <1>1, SubmitMaps
  <1>2. ASSUME NEW d \in Dispatches, PrioritizePendingDispatch(d) PROVE GateStep
    BY <1>2, QuietStep DEF PrioritizePendingDispatch, convVars
  <1>3. CASE Close
    BY <1>3, CloseMaps
  <1>4. CASE RefreshStep
    <2>1. CASE RefreshReads
      BY <2>1, QuietStep DEF RefreshReads, queueVars, convVars
    <2> QED BY <1>4, <2>1, RefreshReturnsMaps DEF RefreshStep
  <1>5. CASE SlotStep
    <2>1. CASE ScanBegins
      BY <2>1, QuietStep DEF ScanBegins, queueVars, convVars
    <2>2. CASE CheckReads
      BY <2>2, QuietStep DEF CheckReads, ReadsReadiness, queueVars, convVars
    <2>3. CASE CheckPasses
      BY <2>3, QuietStep DEF CheckPasses, queueVars, convVars
    <2>4. CASE DispatchStarts \/ DispatchSettles \/ SettleReads
      BY <2>4, QuietStep
      DEF DispatchStarts, DispatchSettles, SettleReads, queueVars, convVars
    <2> QED
      BY <1>5, <2>1, <2>2, <2>3, <2>4, CheckStartsMaps, SettleDeliversMaps,
         SlotReturnsMaps DEF SlotStep
  <1>6. ASSUME NEW c \in Conversations,
               HoldForConversation(c) \/ ConversationWrites(c) \/ ConversationStep(c)
        PROVE  GateStep
    <2>1. CASE ConversationWrites(c)
      BY <2>1, QuietStep DEF ConversationWrites, queueVars, convVars
    <2> QED
      BY <1>6, <2>1, HoldMaps, ConversationStartsMaps, ReleaseMaps
      DEF ConversationStep
  <1>7. CASE UNCHANGED vars
    BY <1>7, QuietStep DEF vars, queueVars, convVars
  <1> QED BY <1>1, <1>2, <1>3, <1>4, <1>5, <1>6, <1>7 DEF Next

\* The coordinator implements ExecutionGate: dispatches execute alone and at
\* most once, and a conversation that claimed its hold goes before them.
THEOREM GateImplemented == Spec => ImplementsGate
  <1>1. Init => Gate!GateInit
    BY InitMaps
  <1>2. IInv /\ [Next]_vars => [Gate!GateNext]_(Gate!gateVars)
    BY StepMaps DEF GateStep, Mapped, Gate!gateVars
  <1> QED
    BY <1>1, <1>2, Invariant, PTL DEF Spec, ImplementsGate, Gate!GateSpec
----------------------------------------------------------------

\* A dispatch starts only while no conversation has claimed its hold: of the
\* gate's steps only StartDispatch starts one.
THEOREM ClaimsGoFirst == Spec => ClaimGoesFirst
  <1> DEFINE Claims ==
        \A d \in Dispatches :
          (stage[d] = "queued" /\ stage'[d] = "running")
             => \A c \in Conversations : conv[c] \notin {"claimed", "running"}
  <1>1. ASSUME IInv, [Next]_vars PROVE Claims
    <2> SUFFICES ASSUME NEW d \in Dispatches,
                        stage[d] = "queued", stage'[d] = "running",
                        NEW c \in Conversations
                 PROVE  conv[c] \notin {"claimed", "running"}
      OBVIOUS
    <2>1. d \notin Started /\ d \in Started'
      BY DEF Started
    <2>2. GateStep
      BY <1>1, StepMaps
    <2>3. Started' # Started
      BY <2>1
    <2>4. PICK e \in Dispatches : Gate!StartDispatch(e)
      BY <2>2, <2>3
      DEF GateStep, Mapped, Gate!GateNext, Gate!FinishDispatch, Gate!Ask,
          Gate!StartTalking, Gate!StopTalking
    <2>5. Asking = {} /\ Talking = {}
      BY <2>4 DEF Gate!StartDispatch
    <2> QED BY <2>5 DEF Asking, Talking
  <1>2. IInv /\ [Next]_vars => [Claims]_vars
    BY <1>1
  <1> QED BY <1>2, Invariant, PTL DEF Spec, ClaimGoesFirst
-----------------------------------------------------------------------------
\* What a scan picks.

\* The answer that was read is still true when it is used: nothing writes a
\* checkpoint between the read of a candidate and the decision about it.
ReadyInv ==
    phase = "checked" =>
        /\ answer = "open" => ~review[SessionOf(rest[1])]
        /\ answer = "waiting" => review[SessionOf(rest[1])]

\* An entry before a candidate comes before it in the scan as well, unless the
\* candidate is preferred or the entry was passed for its pending review.
OrderInv ==
    phase \in {"check", "checked"} /\ ~closing /\ ~failed =>
        \A i, j \in 1..Len(queue), k \in 1..Len(rest) :
            i < j /\ rest[k] = queue[j] =>
                \/ rest[k] = preferred
                \/ review[SessionOf(queue[i])]
                \/ \E l \in 1..(k - 1) : rest[l] = queue[i]

PickInv == IInv /\ ReadyInv /\ OrderInv

\* Outside the scan there is nothing to show.
LEMMA PickLeaves ==
    ASSUME phase' \notin {"check", "checked"}
    PROVE  ReadyInv' /\ OrderInv'
BY DEF ReadyInv, OrderInv

\* A step beside the scan adds at most one new entry at the end.
LEMMA PickStays ==
    ASSUME PickInv, UNCHANGED <<phase, rest, answer, failed, preferred, review, selected>>,
           closing' \/ UNCHANGED closing,
           closing' \/ queue' = queue
           \/ \E d \in Dispatches : d \notin Elements(queue) /\ queue' = Append(queue, d)
    PROVE  ReadyInv' /\ OrderInv'
<1>1. \A d : SessionOf(d)' = SessionOf(d)
  BY DEF SessionOf
<1>2. ReadyInv'
  BY <1>1 DEF PickInv, ReadyInv
<1>3. ASSUME closing' \/ queue' = queue PROVE OrderInv'
  BY <1>1, <1>3 DEF PickInv, OrderInv
<1>4. ASSUME ~closing', NEW d \in Dispatches, d \notin Elements(queue), queue' = Append(queue, d)
      PROVE  OrderInv'
  <2> SUFFICES ASSUME phase \in {"check", "checked"}, ~failed,
                      NEW i \in 1..Len(queue'), NEW j \in 1..Len(queue'), NEW k \in 1..Len(rest),
                      i < j, rest[k] = queue'[j]
               PROVE  \/ rest[k] = preferred
                      \/ review[SessionOf(queue'[i])]
                      \/ \E l \in 1..(k - 1) : rest[l] = queue'[i]
    BY <1>1 DEF OrderInv
  <2>1. queue \in Seq(Dispatches) /\ Len(queue) \in Nat /\ DOMAIN queue = 1..Len(queue)
    BY DEF PickInv, IInv, TypeOK
  <2>2. Len(queue') = Len(queue) + 1 /\ queue'[Len(queue) + 1] = d
        /\ \A n \in 1..Len(queue) : queue'[n] = queue[n]
    <3>1. queue' = Append(queue, d)
      BY <1>4
    <3>2. /\ Len(Append(queue, d)) = Len(queue) + 1 /\ Append(queue, d)[Len(queue) + 1] = d
          /\ \A n \in 1..Len(queue) : Append(queue, d)[n] = queue[n]
      BY <2>1, AppendIs
    <3> QED BY <3>1, <3>2, Zenon
  <2>3. ~closing /\ rest[k] \in Elements(queue)
    <3>1. ~closing
      BY <1>4 DEF PickInv, IInv, TypeOK
    <3>2. Elements(rest) \subseteq Elements(queue)
      BY <3>1 DEF PickInv, IInv, ScanInv
    <3>3. k \in DOMAIN rest
      BY DEF PickInv, IInv, TypeOK
    <3> QED BY <3>1, <3>2, <3>3 DEF Elements
  <2>4. j # Len(queue) + 1
    BY <1>4, <2>2, <2>3
  <2>5. i \in 1..Len(queue) /\ j \in 1..Len(queue) /\ queue'[i] = queue[i] /\ queue'[j] = queue[j]
    BY <2>1, <2>2, <2>4
  <2> QED BY <2>3, <2>5 DEF PickInv, OrderInv
<1> QED BY <1>2, <1>3, <1>4

\* The candidates keep the order of the queue, the preferred one aside.
LEMMA CandidatesInOrder ==
    ASSUME IInv, NEW i \in 1..Len(queue), NEW j \in 1..Len(queue), i < j,
           NEW k \in 1..Len(Candidates), Candidates[k] = queue[j]
    PROVE  \/ Candidates[k] = preferred
           \/ \E l \in 1..(k - 1) : Candidates[l] = queue[i]
<1>1. /\ queue \in Seq(Dispatches) /\ Len(queue) \in Nat /\ DOMAIN queue = 1..Len(queue)
      /\ NoDuplicates(queue)
  BY DEF IInv, TypeOK, QueueInv
<1>2. CASE preferred \notin Elements(queue)
  <2>1. Candidates = queue
    BY <1>2 DEF Candidates
  <2>2. k = j
    BY <1>1, <2>1 DEF NoDuplicates
  <2>3. i \in 1..(k - 1)
    BY <1>1, <2>2
  <2> QED BY <2>1, <2>3
<1>3. CASE preferred \in Elements(queue) /\ Candidates[k] # preferred
  <2> DEFINE p == PositionOf(queue, preferred)
             t == Without(queue, p)
  <2>1. p \in 1..Len(queue) /\ queue[p] = preferred
    BY <1>1, <1>3, PositionFacts
  <2>2. /\ t \in Seq(Dispatches) /\ Len(t) = Len(queue) - 1
        /\ \A n \in 1..(Len(queue) - 1) : t[n] = IF n < p THEN queue[n] ELSE queue[n + 1]
    BY <1>1, <2>1, WithoutOrder
  <2>3. Candidates = <<preferred>> \o t
    BY <1>3 DEF Candidates
  <2> HIDE DEF p, t
  <2>4. /\ Len(Candidates) = Len(queue) /\ Candidates[1] = preferred
        /\ \A n \in 1..(Len(queue) - 1) : Candidates[n + 1] = t[n]
    <3>1. preferred \in Dispatches /\ (Len(queue) - 1) + 1 = Len(queue)
      BY <1>1, <2>1
    <3> QED BY <2>2, <2>3, <3>1, InFront
  <2>5. k \in 2..Len(queue) /\ k - 1 \in 1..(Len(queue) - 1) /\ Candidates[k] = t[k - 1]
    BY <1>1, <1>3, <2>4
  <2>6. j # p /\ k = IF j < p THEN j + 1 ELSE j
    <3>1. j # p
      BY <1>3, <2>1
    <3>2. CASE k - 1 < p
      <4>1. k - 1 \in DOMAIN queue /\ queue[k - 1] = queue[j]
        BY <1>1, <2>2, <2>5, <3>2
      <4>2. k - 1 = j
        BY <1>1, <4>1 DEF NoDuplicates
      <4> QED BY <2>5, <3>1, <3>2, <4>2
    <3>3. CASE ~(k - 1 < p)
      <4>1. k \in DOMAIN queue /\ (k - 1) + 1 = k
        BY <1>1, <2>5
      <4>2. queue[k] = queue[j]
        BY <2>2, <2>5, <3>3, <4>1
      <4>3. k = j
        BY <1>1, <4>1, <4>2 DEF NoDuplicates
      <4> QED BY <2>1, <2>5, <3>1, <3>3, <4>3
    <3> QED BY <3>2, <3>3
  <2>7. CASE i = p
    BY <1>1, <2>1, <2>4, <2>5, <2>7
  <2>8. CASE i # p
    <3> DEFINE l == IF i < p THEN i + 1 ELSE i
    <3>1. l \in 2..(k - 1) /\ l - 1 \in 1..(Len(queue) - 1)
      BY <1>1, <2>1, <2>5, <2>6, <2>8
    <3>2. Candidates[l] = t[l - 1]
      <4>1. (l - 1) + 1 = l
        BY <3>1
      <4> QED BY <2>4, <3>1, <4>1
    <3>3. t[l - 1] = queue[i]
      <4>1. CASE i < p
        <5>1. l - 1 = i
          BY <1>1, <4>1
        <5> QED BY <2>2, <3>1, <4>1, <5>1
      <4>2. CASE ~(i < p)
        <5>1. ~(l - 1 < p) /\ (l - 1) + 1 = i
          BY <1>1, <2>1, <2>8, <4>2
        <5> QED BY <2>2, <3>1, <5>1
      <4> QED BY <4>1, <4>2
    <3> QED BY <3>1, <3>2, <3>3
  <2> QED BY <2>7, <2>8
<1> QED BY <1>2, <1>3

LEMMA ScanBeginsPicks == ASSUME PickInv, ScanBegins PROVE ReadyInv' /\ OrderInv'
<1>1. CASE phase' # "check"
  BY <1>1, PickLeaves DEF ScanBegins, NextCandidate
<1>2. CASE phase' = "check"
  <2>1. rest' = Candidates /\ UNCHANGED <<queue, preferred, closing, failed, review, selected>>
    BY <1>2 DEF ScanBegins, NextCandidate, queueVars, checkpointVars
  <2>2. OrderInv'
    BY <2>1, CandidatesInOrder DEF PickInv, OrderInv
  <2> QED BY <1>2, <2>2 DEF ReadyInv
<1> QED BY <1>1, <1>2

LEMMA CheckReadsPicks == ASSUME PickInv, CheckReads PROVE ReadyInv' /\ OrderInv'
<1>1. /\ phase = "check" /\ phase' = "checked"
      /\ UNCHANGED <<queue, preferred, rest, failed, closing, review, selected>>
  BY DEF CheckReads, ReadsReadiness, queueVars, checkpointVars
<1>2. \A d : SessionOf(d)' = SessionOf(d)
  BY <1>1 DEF SessionOf
<1>3. rest \in Seq(Dispatches) /\ rest # <<>>
  BY <1>1 DEF PickInv, IInv, TypeOK, ScanInv
<1>4. Head(rest) = rest[1]
  BY <1>3
<1>5. PICK x \in Answers : answer' = x /\ Samples(SessionOf(rest[1]), x)
  BY <1>4 DEF CheckReads, ReadsReadiness
<1>6. ReadyInv'
  BY <1>1, <1>2, <1>5 DEF Samples, ReadyInv
<1>7. OrderInv'
  BY <1>1, <1>2 DEF PickInv, OrderInv
<1> QED BY <1>6, <1>7

LEMMA CheckPassesPicks == ASSUME PickInv, CheckPasses PROVE ReadyInv' /\ OrderInv'
<1>1. CASE phase' # "check"
  BY <1>1, PickLeaves DEF CheckPasses, NextCandidate
<1>2. CASE phase' = "check" /\ failed'
  BY <1>2 DEF ReadyInv, OrderInv
<1>3. CASE phase' = "check" /\ ~failed'
  <2>1. /\ phase = "checked" /\ answer = "waiting" /\ rest' = Tail(rest) /\ rest' # <<>>
        /\ UNCHANGED <<queue, preferred, closing, failed, review, selected>>
    BY <1>3 DEF CheckPasses, NextCandidate, queueVars, checkpointVars
  <2>2. \A d : SessionOf(d)' = SessionOf(d)
    BY <2>1 DEF SessionOf
  <2>3. rest \in Seq(Dispatches) /\ rest # <<>> /\ Len(rest) \in Nat
    BY <2>1 DEF PickInv, IInv, TypeOK, ScanInv
  <2>4. Len(rest') = Len(rest) - 1 /\ \A n \in 1..(Len(rest) - 1) : rest'[n] = rest[n + 1]
    BY <2>1, <2>3
  <2>5. review[SessionOf(rest[1])]
    BY <2>1 DEF PickInv, ReadyInv
  <2>7. queue' = queue /\ preferred' = preferred /\ closing' = closing /\ review' = review
    BY <2>1
  <2>6. OrderInv'
    <3> SUFFICES ASSUME ~closing, NEW i \in 1..Len(queue), NEW j \in 1..Len(queue),
                        NEW k \in 1..(Len(rest) - 1), i < j, rest'[k] = queue[j]
                 PROVE  \/ rest'[k] = preferred
                        \/ review[SessionOf(queue[i])]
                        \/ \E l \in 1..(k - 1) : rest'[l] = queue[i]
      BY <2>2, <2>4, <2>7 DEF OrderInv
    <3>1. k + 1 \in 1..Len(rest) /\ rest[k + 1] = queue[j]
      BY <2>3, <2>4
    <3>2. CASE rest[k + 1] = preferred \/ review[SessionOf(queue[i])]
      BY <2>4, <3>2
    <3>3. ASSUME NEW l \in 1..((k + 1) - 1), rest[l] = queue[i] 
          PROVE  review[SessionOf(queue[i])] \/ \E n \in 1..(k - 1) : rest'[n] = queue[i]
      <4>1. CASE l = 1
        BY <2>5, <3>3, <4>1
      <4>2. CASE l # 1
        <5>1. l - 1 \in 1..(k - 1) /\ l - 1 \in 1..(Len(rest) - 1) /\ (l - 1) + 1 = l
          BY <2>3, <4>2
        <5>2. rest'[l - 1] = queue[i]
          BY <2>4, <3>3, <5>1
        <5> QED BY <5>1, <5>2
      <4> QED BY <4>1, <4>2
    <3>4. ~failed
      BY <1>3, <2>1
    <3> QED BY <2>1, <3>1, <3>2, <3>3, <3>4 DEF PickInv, OrderInv
  <2> QED BY <1>3, <2>6 DEF ReadyInv
<1> QED BY <1>1, <1>2, <1>3

\* The slot is free while a conversation runs.
LEMMA PickOutside ==
    ASSUME IInv, NEW c \in Conversations, conv[c] = "running", UNCHANGED phase
    PROVE  ReadyInv' /\ OrderInv'
BY PickLeaves DEF IInv, SlotInv, NoOverlap

LEMMA SubmitPicks ==
    ASSUME PickInv, NEW d \in Dispatches, SubmitDispatch(d)
    PROVE  ReadyInv' /\ OrderInv'
<1>1. d \notin Elements(queue) /\ UNCHANGED <<closing, review, selected>>
  BY DEF PickInv, IInv, QueueInv, SubmitDispatch, Submission, checkpointVars
<1>2. CASE phase \in {"check", "checked"}
  <2>1. LeaveSlot(Append(queue, d), gate, [stage EXCEPT ![d] = "queued"])
    BY <1>2 DEF SubmitDispatch, Submission, Drain
  <2> QED BY <1>1, <2>1, PickStays DEF LeaveSlot, slotVars
<1>3. CASE phase \notin {"check", "checked"}
  BY <1>3, PickLeaves
  DEF SubmitDispatch, Submission, Drain, LeaveSlot, slotVars, TakeSlotToScan, TakeSlotToRun
<1> QED BY <1>2, <1>3

LEMMA RefreshReturnsPicks == ASSUME PickInv, RefreshReturns PROVE ReadyInv' /\ OrderInv'
<1>1. phase = "none"
  BY DEF RefreshReturns, PickInv, IInv, SlotInv
<1> QED
  BY <1>1, PickLeaves
  DEF RefreshReturns, Drain, LeaveSlot, slotVars, TakeSlotToScan, TakeSlotToRun

LEMMA PickStep == ASSUME PickInv, [Next]_vars PROVE PickInv'
<1> SUFFICES ReadyInv' /\ OrderInv'
  BY InvariantStep DEF PickInv
<1>1. ASSUME NEW d \in Dispatches, SubmitDispatch(d) PROVE ReadyInv' /\ OrderInv'
  BY <1>1, SubmitPicks
<1>2. ASSUME NEW d \in Dispatches, PrioritizePendingDispatch(d) PROVE ReadyInv' /\ OrderInv'
  BY <1>2, PickLeaves, PickOutside DEF PrioritizePendingDispatch, PickInv, slotVars
<1>3. CASE Close
  BY <1>3, PickStays DEF Close, CancelQueue, slotVars, checkpointVars
<1>4. CASE RefreshStep
  <2>1. CASE RefreshReads
    BY <2>1, PickStays DEF RefreshReads, queueVars, slotVars, checkpointVars
  <2> QED BY <1>4, <2>1, RefreshReturnsPicks DEF RefreshStep
<1>5. CASE SlotStep
  <2>1. CASE CheckStarts \/ DispatchStarts \/ DispatchSettles \/ SettleReads \/ SettleDelivers
    BY <2>1, PickLeaves
    DEF CheckStarts, CheckRuns, DispatchStarts, DispatchSettles, SettleReads, SettleDelivers
  <2>2. CASE SlotReturns
    BY <2>2, PickLeaves DEF SlotReturns, TakeSlotToScan, TakeSlotToRun
  <2> QED
    BY <1>5, <2>1, <2>2, ScanBeginsPicks, CheckReadsPicks, CheckPassesPicks DEF SlotStep
<1>6. ASSUME NEW c \in Conversations,
             HoldForConversation(c) \/ ConversationWrites(c) \/ ConversationStep(c)
      PROVE  ReadyInv' /\ OrderInv'
  <2>1. CASE HoldForConversation(c)
    BY <2>1, PickStays DEF HoldForConversation, queueVars, slotVars, checkpointVars
  <2>2. CASE ConversationStarts(c)
    BY <2>2, PickLeaves DEF ConversationStarts, EntersConversation, slotVars
  <2>3. CASE ConversationWrites(c) \/ ConversationSettles(c) \/ ConversationThrows(c)
    BY <2>3, PickOutside
    DEF PickInv, ConversationWrites, ConversationSettles, ConversationThrows, ReleaseHold, slotVars
  <2> QED BY <1>6, <2>1, <2>2, <2>3 DEF ConversationStep
<1>7. CASE UNCHANGED vars
  BY <1>7, PickStays DEF vars, queueVars, slotVars, checkpointVars
<1> QED BY <1>1, <1>2, <1>3, <1>4, <1>5, <1>6, <1>7 DEF Next

\* In every reachable state what a scan has read of its candidate is still true
\* and the candidates are in the order in which they may start.
THEOREM PicksAreCurrent == Spec => []PickInv
<1>1. Init => PickInv
  BY InitIInv DEF Init, PickInv, ReadyInv, OrderInv
<1> QED BY <1>1, PickStep, PTL DEF Spec

\* How a dispatch starts: the scan's candidate, or, without a scan, the
\* preferred entry or else the first.
Picked(d) ==
    \/ CheckStarts /\ d = rest[1]
    \/ phase # "checked" /\ (d = preferred \/ (queue # <<>> /\ d = queue[1]))

LEMMA RunPicks ==
    ASSUME IInv, phase # "checked", NEW d \in Dispatches, stage[d] = "queued", stage'[d] = "running",
           NEW q \in Seq(Dispatches), NEW st \in [Dispatches -> Stages],
           q = queue \/ \E e \in Dispatches : q = Append(queue, e),
           st[d] = "queued", TakeSlotToRun(q, st)
    PROVE  Picked(d)
<1> DEFINE i == IF preferred \in Elements(q) THEN PositionOf(q, preferred) ELSE 1
<1>1. d \in Elements(queue) /\ queue \in Seq(Dispatches)
  BY DEF IInv, QueueInv, TypeOK
<1>2. queue # <<>> /\ q[1] = queue[1]
  BY <1>1 DEF Elements
<1>3. stage' = [st EXCEPT ![q[i]] = "running"]
  BY DEF TakeSlotToRun
<1>4. d = q[i]
  BY <1>3
<1>5. preferred \in Elements(q) => q[i] = preferred
  BY PositionFacts
<1> QED BY <1>2, <1>4, <1>5 DEF Picked

LEMMA StartsPicked ==
    ASSUME IInv, [Next]_vars, NEW d \in Dispatches, stage[d] = "queued", stage'[d] = "running"
    PROVE  Picked(d)
<1>0. stage \in [Dispatches -> Stages] /\ queue \in Seq(Dispatches) /\ d \in Elements(queue)
  BY DEF IInv, TypeOK, QueueInv
<1>1. ASSUME NEW e \in Dispatches, SubmitDispatch(e) PROVE Picked(d)
  <2> DEFINE q == Append(queue, e)
             st == [stage EXCEPT ![e] = "queued"]
  <2>1. Drain(phase = "none" /\ refresh = "none" /\ conversations = 0, q, gate, st)
    BY <1>1 DEF SubmitDispatch, Submission
  <2>2. q \in Seq(Dispatches) /\ st \in [Dispatches -> Stages] /\ st[d] = "queued"
    BY <1>0 DEF Stages
  <2> HIDE DEF q, st
  <2>3. phase = "none" /\ TakeSlotToRun(q, st)
    BY <2>1, <2>2 DEF Drain, LeaveSlot, TakeSlotToScan
  <2> QED BY <2>2, <2>3, RunPicks DEF q
<1>2. ASSUME NEW e \in Dispatches, PrioritizePendingDispatch(e) PROVE FALSE
  BY <1>2 DEF PrioritizePendingDispatch
<1>3. ~Close
  BY <1>0 DEF Close, CancelQueue
<1>4. CASE RefreshStep
  <2>1. RefreshReturns
    BY <1>4 DEF RefreshStep, RefreshReads, queueVars
  <2>2. phase = "none"
    BY <2>1 DEF RefreshReturns, IInv, SlotInv
  <2>3. TakeSlotToRun(queue, stage)
    BY <2>1 DEF RefreshReturns, Drain, LeaveSlot, TakeSlotToScan
  <2> QED BY <1>0, <2>2, <2>3, RunPicks
<1>5. CASE SlotStep
  <2>1. CASE CheckStarts
    <3>1. stage' = [stage EXCEPT ![Head(rest)] = "running"] /\ phase = "checked"
      BY <2>1 DEF CheckStarts, CheckRuns
    <3>2. rest \in Seq(Dispatches) /\ rest # <<>>
      BY <3>1 DEF IInv, TypeOK, ScanInv
    <3>3. d = rest[1]
      BY <1>0, <3>1, <3>2
    <3> QED BY <2>1, <3>3 DEF Picked
  <2>2. CASE SlotReturns
    <3>1. phase = "ended"
      BY <2>2 DEF SlotReturns
    <3>2. TakeSlotToRun(queue, stage)
      BY <2>2 DEF SlotReturns, TakeSlotToScan, queueVars
    <3> QED BY <1>0, <3>1, <3>2, RunPicks
  <2>3. ~SettleDelivers
    BY <1>0 DEF SettleDelivers
  <2> QED
    BY <1>5, <2>1, <2>2, <2>3
    DEF SlotStep, ScanBegins, CheckReads, ReadsReadiness, CheckPasses, DispatchStarts,
        DispatchSettles, SettleReads, queueVars
<1>6. ASSUME NEW c \in Conversations,
             HoldForConversation(c) \/ ConversationWrites(c) \/ ConversationStep(c)
      PROVE  FALSE
  BY <1>6
  DEF HoldForConversation, ConversationWrites, ConversationStep, ConversationStarts,
      EntersConversation, ConversationSettles, ConversationThrows, ReleaseHold, queueVars
<1>7. stage' # stage
  OBVIOUS
<1> QED BY <1>1, <1>2, <1>3, <1>4, <1>5, <1>6, <1>7 DEF Next, vars, queueVars

\* A scan starts a dispatch only while its session has no pending review.
THEOREM ScansHeedReviews == Spec => ScanStartsWithoutReview
<1> DEFINE Heeds ==
      \A d \in Dispatches :
          (phase = "checked" /\ stage[d] = "queued" /\ stage'[d] = "running")
             => ~review[SessionOf(d)]
<1>1. ASSUME PickInv, [Next]_vars PROVE Heeds
  <2> SUFFICES ASSUME NEW d \in Dispatches, phase = "checked", stage[d] = "queued",
                      stage'[d] = "running"
               PROVE  ~review[SessionOf(d)]
    OBVIOUS
  <2>1. CheckStarts /\ d = rest[1]
    BY <1>1, StartsPicked DEF PickInv, Picked
  <2> QED BY <1>1, <2>1 DEF PickInv, ReadyInv, CheckStarts, CheckRuns
<1>2. PickInv /\ [Next]_vars => [Heeds]_vars
  BY <1>1
<1> QED BY <1>2, PicksAreCurrent, PTL DEF Spec, ScanStartsWithoutReview

\* A dispatch overtakes an earlier one of its own session only when it was
\* preferred, or when a readiness read failed in this scan.
THEOREM OvertakingExplained == Spec => OvertakingIsExplained
<1> DEFINE Explained ==
      \A d, e \in Dispatches :
          (/\ stage[d] = "queued" /\ stage'[d] = "running"
           /\ Overtakes(d, e)) => d = preferred \/ failed
<1>1. ASSUME PickInv, [Next]_vars PROVE Explained
  <2> SUFFICES ASSUME NEW d \in Dispatches, NEW e \in Dispatches, stage[d] = "queued",
                      stage'[d] = "running", Overtakes(d, e), d # preferred, ~failed
               PROVE  FALSE
    OBVIOUS
  <2> DEFINE i == PositionOf(queue, e)
             j == PositionOf(queue, d)
  <2>2. queue \in Seq(Dispatches) /\ NoDuplicates(queue)
    BY <1>1 DEF PickInv, IInv, TypeOK, QueueInv
  <2>1. i \in 1..Len(queue) /\ j \in 1..Len(queue) /\ queue[i] = e /\ queue[j] = d /\ i < j
    BY <2>2, PositionFacts DEF Overtakes
  <2> HIDE DEF i, j
  <2>3. DOMAIN queue = 1..Len(queue) /\ Len(queue) \in Nat
    BY <2>2
  <2>4. j # 1
    BY <2>1, <2>3
  <2>5. d # queue[1]
    BY <2>1, <2>2, <2>3, <2>4 DEF NoDuplicates
  <2>6. CheckStarts /\ d = rest[1]
    BY <1>1, <2>5, StartsPicked DEF PickInv, Picked
  <2>7. phase = "checked" /\ answer = "open" /\ ~closing
    BY <2>6 DEF CheckStarts, CheckRuns
  <2>8. 1 \in 1..Len(rest)
    BY <1>1, <2>7 DEF PickInv, IInv, TypeOK, ScanInv
  <2>9. review[SessionOf(queue[i])]
    BY <1>1, <2>1, <2>6, <2>7, <2>8 DEF PickInv, OrderInv
  <2>10. SessionOf(e) = SessionOf(d)
    BY DEF Overtakes, SessionOf, Targeted
  <2> QED BY <1>1, <2>1, <2>6, <2>7, <2>9, <2>10 DEF PickInv, ReadyInv
<1>2. PickInv /\ [Next]_vars => [Explained]_vars
  BY <1>1
<1> QED BY <1>2, PicksAreCurrent, PTL DEF Spec, OvertakingIsExplained

\* Both: what a scan starts may run now, and it is the one whose turn it is.
THEOREM ScansPickRightly == Spec => ScansStartWhatTheyMay
BY ScansHeedReviews, OvertakingExplained DEF ScansStartWhatTheyMay

-----------------------------------------------------------------------------
\* HostAdmission: sequences of callbacks.

In(q) == {q[i] : i \in 1 .. Len(q)}
Of(q) == {cb.of : cb \in In(q)}
Once(q) == \A i, j \in 1 .. Len(q) : q[i].of = q[j].of => i = j

\* No message enters behind a transition that is to be checked.
EntersFirst(q) == \A i, j \in 1 .. Len(q) : q[i].do = "enter" /\ q[j].do = "check" => i < j

LEMMA InAppend ==
    ASSUME NEW S, NEW q \in Seq(S), NEW d \in S
    PROVE  /\ Append(q, d) \in Seq(S) /\ In(Append(q, d)) = In(q) \cup {d}
           /\ Len(Append(q, d)) = Len(q) + 1 /\ Append(q, d)[Len(q) + 1] = d
           /\ \A i \in 1 .. Len(q) : Append(q, d)[i] = q[i]
           /\ \A i \in 1 .. Len(Append(q, d)) : i \in 1 .. Len(q) \/ i = Len(q) + 1
           /\ Len(q) \in Nat
  <1> DEFINE r == Append(q, d)
  <1>1. /\ r \in Seq(S) /\ Len(r) = Len(q) + 1 /\ r[Len(q) + 1] = d /\ Len(q) \in Nat
        /\ \A i \in 1 .. Len(q) : r[i] = q[i]
    OBVIOUS
  <1> HIDE DEF r
  <1>2. /\ \A i \in 1 .. Len(r) : i \in 1 .. Len(q) \/ i = Len(q) + 1
        /\ \A i \in 1 .. Len(q) : i \in 1 .. Len(r)
        /\ Len(q) + 1 \in 1 .. Len(r)
    BY <1>1
  <1>3. In(r) = In(q) \cup {d}
    BY <1>1, <1>2, Zenon DEF In
  <1> QED BY <1>1, <1>2, <1>3, Zenon DEF r

LEMMA InTail ==
    ASSUME NEW S, NEW q \in Seq(S), q # <<>>
    PROVE  /\ Tail(q) \in Seq(S) /\ In(q) = {Head(q)} \cup In(Tail(q))
           /\ Head(q) = q[1] /\ Head(q) \in S /\ 1 \in 1 .. Len(q)
           /\ Len(Tail(q)) = Len(q) - 1 /\ Len(q) \in Nat
           /\ \A i \in 1 .. Len(Tail(q)) : Tail(q)[i] = q[i + 1] /\ i + 1 \in 1 .. Len(q)
  <1> DEFINE r == Tail(q)
  <1>1. /\ r \in Seq(S) /\ Len(r) = Len(q) - 1 /\ Len(q) \in Nat /\ 1 \in 1 .. Len(q)
        /\ Head(q) = q[1] /\ Head(q) \in S
    OBVIOUS
  <1>2. \A i \in 1 .. Len(r) : r[i] = q[i + 1]
    OBVIOUS
  <1> HIDE DEF r
  <1>3. /\ \A i \in 1 .. Len(r) : i + 1 \in 1 .. Len(q)
        /\ \A i \in 1 .. Len(q) : i = 1 \/ (i - 1 \in 1 .. Len(r) /\ (i - 1) + 1 = i)
    BY <1>1
  <1>4. ASSUME NEW i \in 1 .. Len(q) PROVE q[i] \in {Head(q)} \cup In(r)
    <2>1. CASE i = 1
      BY <1>1, <2>1
    <2>2. CASE i # 1
      <3>1. i - 1 \in 1 .. Len(r) /\ (i - 1) + 1 = i
        BY <1>3, <2>2
      <3>2. r[i - 1] = q[i]
        BY <1>2, <3>1
      <3> QED BY <3>1, <3>2, Zenon DEF In
    <2> QED BY <2>1, <2>2
  <1>5. ASSUME NEW i \in 1 .. Len(r) PROVE r[i] \in In(q)
    <2>1. i + 1 \in 1 .. Len(q) /\ r[i] = q[i + 1]
      BY <1>2, <1>3
    <2> QED BY <2>1, Zenon DEF In
  <1>6. In(q) \subseteq {Head(q)} \cup In(r)
    BY <1>4, Zenon DEF In
  <1>7. {Head(q)} \cup In(r) \subseteq In(q)
    BY <1>1, <1>5, Zenon DEF In
  <1>8. In(q) = {Head(q)} \cup In(r)
    BY <1>6, <1>7, Zenon
  <1> QED BY <1>1, <1>2, <1>3, <1>8, Zenon DEF r

LEMMA InConcat ==
    ASSUME NEW S, NEW q \in Seq(S), NEW r \in Seq(S)
    PROVE  /\ q \o r \in Seq(S) /\ In(q \o r) = In(q) \cup In(r)
           /\ \A i \in 1 .. Len(q \o r) :
                 \/ i \in 1 .. Len(q) /\ (q \o r)[i] = q[i]
                 \/ \E j \in 1 .. Len(r) : i = Len(q) + j /\ (q \o r)[i] = r[j]
           /\ Len(q) \in Nat
  <1> DEFINE p == q \o r
  <1>1. /\ p \in Seq(S) /\ Len(p) = Len(q) + Len(r) /\ Len(q) \in Nat /\ Len(r) \in Nat
        /\ \A i \in 1 .. Len(q) : p[i] = q[i]
    OBVIOUS
  <1>2. \A j \in 1 .. Len(r) : p[Len(q) + j] = r[j]
    OBVIOUS
  <1> HIDE DEF p
  <1>3. ASSUME NEW i \in 1 .. Len(p)
        PROVE  \/ i \in 1 .. Len(q) /\ p[i] = q[i]
               \/ \E j \in 1 .. Len(r) : i = Len(q) + j /\ p[i] = r[j]
    <2>1. CASE i \in 1 .. Len(q)
      BY <1>1, <2>1
    <2>2. CASE i \notin 1 .. Len(q)
      <3>1. i - Len(q) \in 1 .. Len(r) /\ i = Len(q) + (i - Len(q))
        BY <1>1, <2>2
      <3>2. p[i] = r[i - Len(q)]
        BY <1>2, <3>1
      <3> QED BY <3>1, <3>2
    <2> QED BY <2>1, <2>2
  <1>4. /\ \A i \in 1 .. Len(q) : i \in 1 .. Len(p)
        /\ \A j \in 1 .. Len(r) : Len(q) + j \in 1 .. Len(p)
    BY <1>1
  <1>a. ASSUME NEW j \in 1 .. Len(r) PROVE r[j] \in In(p)
    BY <1>2, <1>4, Zenon DEF In
  <1>b. ASSUME NEW j \in 1 .. Len(q) PROVE q[j] \in In(p)
    BY <1>1, <1>4, Zenon DEF In
  <1>c. ASSUME NEW i \in 1 .. Len(p) PROVE p[i] \in In(q) \cup In(r)
    BY <1>3, Zenon DEF In
  <1>d. In(p) \subseteq In(q) \cup In(r)
    BY <1>c, Zenon DEF In
  <1>e. In(q) \cup In(r) \subseteq In(p)
    BY <1>a, <1>b, Zenon DEF In
  <1>5. In(p) = In(q) \cup In(r)
    BY <1>d, <1>e, Zenon
  <1> QED BY <1>1, <1>3, <1>5, Zenon DEF p

LEMMA OfFacts ==
    ASSUME NEW S, NEW q \in Seq(S)
    PROVE  /\ \A i \in 1 .. Len(q) : q[i] \in In(q) /\ q[i].of \in Of(q) /\ q[i] \in S
           /\ \A cb \in In(q) : cb.of \in Of(q) /\ cb \in S /\ \E i \in 1 .. Len(q) : q[i] = cb
           /\ \A x \in Of(q) : \E cb \in In(q) : cb.of = x
  <1>1. \A i \in 1 .. Len(q) : q[i] \in S
    OBVIOUS
  <1> QED BY <1>1, Zenon DEF In, Of

LEMMA OnceAppend ==
    ASSUME NEW S, NEW q \in Seq(S), NEW d \in S, Once(q), d.of \notin Of(q)
    PROVE  Once(Append(q, d)) /\ Of(Append(q, d)) = Of(q) \cup {d.of}
  <1> DEFINE r == Append(q, d)
  <1>1. /\ In(r) = In(q) \cup {d} /\ Len(r) = Len(q) + 1 /\ r[Len(q) + 1] = d
        /\ \A i \in 1 .. Len(q) : r[i] = q[i]
        /\ \A i \in 1 .. Len(r) : i \in 1 .. Len(q) \/ i = Len(q) + 1
    BY InAppend
  <1> HIDE DEF r
  <1>2. \A i \in 1 .. Len(q) : q[i].of \in Of(q)
    BY OfFacts, Zenon
  <1>3. Once(r)
    BY <1>1, <1>2, Zenon DEF Once
  <1>4. Of(r) = Of(q) \cup {d.of}
    BY <1>1, Zenon DEF Of
  <1> QED BY <1>3, <1>4 DEF r

LEMMA OnceTail ==
    ASSUME NEW S, NEW q \in Seq(S), q # <<>>, Once(q)
    PROVE  /\ Once(Tail(q)) /\ Head(q).of \notin Of(Tail(q))
           /\ Of(q) = Of(Tail(q)) \cup {Head(q).of}
  <1> DEFINE r == Tail(q)
  <1>1. /\ r \in Seq(S) /\ In(q) = {Head(q)} \cup In(r) /\ Head(q) = q[1] /\ 1 \in 1 .. Len(q)
        /\ \A i \in 1 .. Len(r) : r[i] = q[i + 1] /\ i + 1 \in 1 .. Len(q)
        /\ Len(r) \in Nat
    BY InTail
  <1> HIDE DEF r
  <1>2. Once(r)
    <2> SUFFICES ASSUME NEW i \in 1 .. Len(r), NEW j \in 1 .. Len(r), r[i].of = r[j].of
                 PROVE  i = j
      BY DEF Once
    <2>1. /\ q[i + 1] = r[i] /\ q[j + 1] = r[j]
          /\ i + 1 \in 1 .. Len(q) /\ j + 1 \in 1 .. Len(q)
      BY <1>1, Zenon
    <2>2. q[i + 1].of = q[j + 1].of
      BY <2>1, Zenon
    <2>3. i + 1 = j + 1
      BY <2>1, <2>2, Zenon DEF Once
    <2> QED BY <2>3
  <1>3. Head(q).of \notin Of(r)
    <2> SUFFICES ASSUME Head(q).of \in Of(r) PROVE FALSE
      OBVIOUS
    <2>1. PICK cb \in In(r) : cb.of = Head(q).of
      BY Zenon DEF Of
    <2>2. PICK i \in 1 .. Len(r) : r[i] = cb
      BY Zenon DEF In
    <2>3. i + 1 \in 1 .. Len(q) /\ q[i + 1].of = q[1].of
      BY <1>1, <2>1, <2>2, Zenon
    <2>4. i + 1 = 1
      BY <1>1, <2>3, Zenon DEF Once
    <2> QED BY <1>1, <2>4
  <1>4. Of(q) = Of(r) \cup {Head(q).of}
    BY <1>1, Zenon DEF Of
  <1> QED BY <1>2, <1>3, <1>4 DEF r

LEMMA OnceConcat ==
    ASSUME NEW S, NEW q \in Seq(S), NEW r \in Seq(S), Once(q), Once(r), Of(q) \cap Of(r) = {}
    PROVE  Once(q \o r) /\ Of(q \o r) = Of(q) \cup Of(r)
  <1> DEFINE p == q \o r
  <1>1. /\ In(p) = In(q) \cup In(r)
        /\ \A i \in 1 .. Len(p) :
              \/ i \in 1 .. Len(q) /\ p[i] = q[i]
              \/ \E j \in 1 .. Len(r) : i = Len(q) + j /\ p[i] = r[j]
    BY InConcat
  <1> HIDE DEF p
  <1>2. /\ \A i \in 1 .. Len(q) : q[i].of \in Of(q)
        /\ \A i \in 1 .. Len(r) : r[i].of \in Of(r)
    BY OfFacts, Zenon
  <1>3. Once(p)
    <2> SUFFICES ASSUME NEW i \in 1 .. Len(p), NEW j \in 1 .. Len(p), p[i].of = p[j].of
                 PROVE  i = j
      BY DEF Once
    <2>1. CASE i \in 1 .. Len(q) /\ p[i] = q[i] /\ j \in 1 .. Len(q) /\ p[j] = q[j]
      BY <2>1, Zenon DEF Once
    <2>2. ASSUME NEW a \in 1 .. Len(r), i = Len(q) + a, p[i] = r[a],
                 NEW b \in 1 .. Len(r), j = Len(q) + b, p[j] = r[b]
          PROVE  i = j
      BY <2>2, Zenon DEF Once
    <2> QED BY <1>1, <1>2, <2>1, <2>2, Zenon
  <1>4. Of(p) = Of(q) \cup Of(r)
    BY <1>1, Zenon DEF Of
  <1> QED BY <1>3, <1>4 DEF p

LEMMA EntersAppend ==
    ASSUME NEW S, NEW q \in Seq(S), NEW d \in S, EntersFirst(q),
           d.do = "enter" => \A cb \in In(q) : cb.do # "check"
    PROVE  EntersFirst(Append(q, d))
  <1> DEFINE r == Append(q, d)
  <1>1. /\ r[Len(q) + 1] = d /\ Len(q) \in Nat
        /\ \A i \in 1 .. Len(q) : r[i] = q[i]
        /\ \A i \in 1 .. Len(r) : i \in 1 .. Len(q) \/ i = Len(q) + 1
    BY InAppend
  <1> HIDE DEF r
  <1>2. \A i \in 1 .. Len(q) : q[i] \in In(q) /\ i < Len(q) + 1
    BY <1>1 DEF In
  <1>3. EntersFirst(r)
    <2> SUFFICES ASSUME NEW i \in 1 .. Len(r), NEW j \in 1 .. Len(r), r[i].do = "enter", r[j].do = "check"
                 PROVE  i < j
      BY DEF EntersFirst
    <2>1. i \in 1 .. Len(q) \/ i = Len(q) + 1
      BY <1>1
    <2>2. j \in 1 .. Len(q) \/ j = Len(q) + 1
      BY <1>1
    <2>3. CASE i = Len(q) + 1
      <3>1. d.do = "enter" /\ ~(j = Len(q) + 1)
        BY <1>1, <2>3
      <3> QED BY <1>1, <1>2, <2>2, <3>1
    <2>4. CASE i \in 1 .. Len(q) /\ j = Len(q) + 1
      BY <1>2, <2>4
    <2>5. CASE i \in 1 .. Len(q) /\ j \in 1 .. Len(q)
      BY <1>1, <2>5 DEF EntersFirst
    <2> QED BY <2>1, <2>2, <2>3, <2>4, <2>5
  <1> QED BY <1>3 DEF r

LEMMA EntersTail ==
    ASSUME NEW S, NEW q \in Seq(S), q # <<>>, EntersFirst(q)
    PROVE  /\ EntersFirst(Tail(q))
           /\ Head(q).do = "check" => \A cb \in In(q) : cb.do # "enter"
  <1> DEFINE r == Tail(q)
  <1>1. /\ Head(q) = q[1] /\ 1 \in 1 .. Len(q) /\ Len(r) \in Nat
        /\ \A i \in 1 .. Len(r) : r[i] = q[i + 1] /\ i + 1 \in 1 .. Len(q)
    BY InTail
  <1> HIDE DEF r
  <1>2. EntersFirst(r)
    <2> SUFFICES ASSUME NEW i \in 1 .. Len(r), NEW j \in 1 .. Len(r), r[i].do = "enter", r[j].do = "check"
                 PROVE  i < j
      BY DEF EntersFirst
    <2>1. i + 1 < j + 1
      BY <1>1, Zenon DEF EntersFirst
    <2> QED BY <2>1
  <1>3. ASSUME Head(q).do = "check", NEW cb \in In(q), cb.do = "enter" PROVE FALSE
    <2>1. PICK i \in 1 .. Len(q) : q[i] = cb
      BY <1>3, Zenon DEF In
    <2>2. i < 1
      BY <1>1, <1>3, <2>1, Zenon DEF EntersFirst
    <2> QED BY <2>2
  <1> QED BY <1>2, <1>3 DEF r

LEMMA EntersConcat ==
    ASSUME NEW S, NEW q \in Seq(S), NEW r \in Seq(S), EntersFirst(q),
           \A cb \in In(r) : cb.do # "enter"
    PROVE  EntersFirst(q \o r)
  <1> DEFINE p == q \o r
  <1>1. /\ Len(q) \in Nat
        /\ \A i \in 1 .. Len(p) :
              \/ i \in 1 .. Len(q) /\ p[i] = q[i]
              \/ \E j \in 1 .. Len(r) : i = Len(q) + j /\ p[i] = r[j]
    BY InConcat
  <1> HIDE DEF p
  <1>2. EntersFirst(p)
    <2> SUFFICES ASSUME NEW i \in 1 .. Len(p), NEW j \in 1 .. Len(p), p[i].do = "enter", p[j].do = "check"
                 PROVE  i < j
      BY DEF EntersFirst
    <2>1. i \in 1 .. Len(q) /\ p[i] = q[i]
      BY <1>1, Zenon DEF In
    <2>2. CASE j \in 1 .. Len(q) /\ p[j] = q[j]
      BY <2>1, <2>2, Zenon DEF EntersFirst
    <2>3. CASE \E b \in 1 .. Len(r) : j = Len(q) + b
      BY <1>1, <2>1, <2>3
    <2> QED BY <1>1, <2>2, <2>3, Zenon
  <1> QED BY <1>2 DEF p

-----------------------------------------------------------------------------
\* HostAdmission: the places a callback can be in, and its inductive invariant.

Over == {"done", "refused"}
Thens(ch, k) == 1 .. Len(ch[k].then)
Waiting(ch, k, a) == In(ch[k].then[a])

ChainTypes == [Chains -> [members : Seq(Commands), settled : Nat, then : Seq(Seq(Callbacks))]]

AdmissionTypes ==
    /\ AdmissionTypeOK
    /\ at \in [Messages \cup Commands -> MessageStates \cup CommandStates]
    /\ \A k \in Chains :
          chain[k].settled <= LengthOf(k) /\ Len(chain[k].then) = LengthOf(k)

\* An actor has one callback, ready or waiting.
Unlisted(q, ch, x) ==
    /\ x \notin Of(q)
    /\ \A k \in Chains : \A a \in Thens(ch, k) : x \notin Of(ch[k].then[a])
OneCallEach(q, ch) ==
    /\ Once(q)
    /\ \A k \in Chains : \A a \in Thens(ch, k) :
          /\ Once(ch[k].then[a])
          /\ \A x \in Of(ch[k].then[a]) :
                /\ x \notin Of(q)
                /\ \A l \in Chains : \A b \in Thens(ch, l) :
                      x \in Of(ch[l].then[b]) => k = l /\ a = b

\* A chain is settled up to a member whose outcome is known.
Distinct(ch, k) ==
    \A i, j \in 1 .. Len(ch[k].members) : ch[k].members[i] = ch[k].members[j] => i = j
MembersInv ==
    /\ \A k \in Chains :
          /\ Distinct(chain, k)
          /\ \A i \in 1 .. chain[k].settled : at[chain[k].members[i]] \in Over
    /\ \A i \in 1 .. LengthOf("commands") :
          /\ at[chain["commands"].members[i]] # "new"
          /\ at[chain["commands"].members[i]] # "queued" => i <= chain["commands"].settled + 1
    /\ \A i \in 1 .. LengthOf("transitions") :
          /\ at[chain["transitions"].members[i]] \in {"admitted", "working"} \cup Over
          /\ at[chain["transitions"].members[i]] # "admitted"
                => i <= chain["transitions"].settled + 1

\* What callback cb knows when the first n members of chain k are settled.
Follows(ch, k, c, n) == \E j \in 1 .. Len(ch[k].members) : ch[k].members[j] = c /\ j <= n + 1
Waits(w, b, s, ch, k, cb, n) ==
    \/ /\ k = "commands" /\ cb.do = "message" /\ cb.of \in Messages
       /\ w[cb.of] = "queued" /\ b[cb.of] <= n
    \/ /\ k = "commands" /\ cb.do = "start" /\ cb.of \in Commands
       /\ w[cb.of] = "queued" /\ Follows(ch, k, cb.of, n)
    \/ /\ k = "transitions" /\ cb.do = "look" /\ cb.of \in Messages
       /\ w[cb.of] = "waiting" /\ s[cb.of] <= n
    \/ /\ k = "transitions" /\ cb.do = "check" /\ cb.of \in Commands
       /\ w[cb.of] = "admitted" /\ Follows(ch, k, cb.of, n)
IsReady(w, b, s, ch, cb) ==
    \/ cb.do = "enter" /\ cb.of \in Messages /\ w[cb.of] = "waiting"
    \/ cb.do = "leave" /\ cb.of \in Messages /\ w[cb.of] \in {"leaving", "gone"}
    \/ \E k \in Chains : \E n \in Nat :
          n <= ch[k].settled /\ Waits(w, b, s, ch, k, cb, n)
CallsInv ==
    /\ \A cb \in In(micro) : IsReady(at, behind, seen, chain, cb)
    /\ \A k \in Chains : \A a \in Thens(chain, k) : \A cb \in Waiting(chain, k, a) :
          Waits(at, behind, seen, chain, k, cb, a)

\* A message enters when no transition works, and no check runs before it.
EnterInv ==
    /\ EntersFirst(micro)
    /\ (\E cb \in In(micro) : cb.do = "enter") => Changing = {}
    /\ Turning # {} => Changing = {}

\* The counter, the register, and what a message saw of the commands.
Leaving(q) == {m \in Messages : Callback("leave", m) \in In(q)}
Holding == {m \in Messages : at[m] \in {"running", "written", "leaving"}} \cup Leaving(micro)
RunsInv ==
    /\ \A m \in Messages : m \in Turning <=> register = m
    /\ Cardinality(Holding) <= activeRuns
    /\ \A m \in Messages :
          at[m] \in {"waiting", "running", "written"} => behind[m] <= chain["commands"].settled

\* A snapshot that read under a run read after every turn before it had written.
Written == {m \in Messages : at[m] \in {"written", "leaving", "done"}}
SnapshotsInv ==
    /\ Cardinality(Written) <= version
    /\ \A s \in Snapshots :
          /\ reading[s].before # NoRun =>
                at[reading[s].before] \in {"running", "written", "leaving", "done"}
          /\ reading[s].step = "sampled" /\ reading[s].before \in Turning
                => Cardinality(Ended) <= reading[s].sample

OrderOfCalls == OneCallEach(micro, chain) /\ MembersInv /\ CallsInv /\ EnterInv
AdmissionInv == AdmissionTypes /\ OrderOfCalls /\ RunsInv /\ SnapshotsInv

-----------------------------------------------------------------------------
\* HostAdmission: what becomes of the callbacks.

LEMMA ThenTypes ==
    ASSUME NEW ch \in ChainTypes, NEW k \in Chains
    PROVE  /\ ch[k].members \in Seq(Commands) /\ ch[k].settled \in Nat
           /\ ch[k].then \in Seq(Seq(Callbacks))
           /\ Len(ch[k].then) \in Nat /\ Len(ch[k].members) \in Nat
           /\ \A a \in Thens(ch, k) : ch[k].then[a] \in Seq(Callbacks)
  <1>1. /\ ch[k].members \in Seq(Commands) /\ ch[k].settled \in Nat
        /\ ch[k].then \in Seq(Seq(Callbacks))
    BY DEF ChainTypes
  <1>2. /\ Len(ch[k].then) \in Nat /\ Len(ch[k].members) \in Nat
        /\ \A a \in 1 .. Len(ch[k].then) : ch[k].then[a] \in Seq(Callbacks)
    BY <1>1
  <1> QED BY <1>1, <1>2 DEF Thens

LEMMA HeadLeaves ==
    ASSUME NEW q \in Seq(Callbacks), NEW ch, q # <<>>, OneCallEach(q, ch)
    PROVE  OneCallEach(Tail(q), ch) /\ Unlisted(Tail(q), ch, Head(q).of)
  <1>1. Once(Tail(q)) /\ Head(q).of \notin Of(Tail(q)) /\ Of(q) = Of(Tail(q)) \cup {Head(q).of}
    BY OnceTail DEF OneCallEach
  <1> QED BY <1>1, Zenon DEF OneCallEach, Unlisted

LEMMA CallJoins ==
    ASSUME NEW q \in Seq(Callbacks), NEW ch, NEW cb \in Callbacks, OneCallEach(q, ch),
           Unlisted(q, ch, cb.of)
    PROVE  OneCallEach(Append(q, cb), ch)
  <1>1. Once(Append(q, cb)) /\ Of(Append(q, cb)) = Of(q) \cup {cb.of}
    BY OnceAppend DEF OneCallEach, Unlisted
  <1>2. ASSUME NEW k \in Chains, NEW a \in Thens(ch, k)
        PROVE  \A x \in Of(ch[k].then[a]) : x \notin Of(Append(q, cb))
    <2>1. cb.of \notin Of(ch[k].then[a]) /\ \A x \in Of(ch[k].then[a]) : x \notin Of(q)
      BY <1>2, Zenon DEF OneCallEach, Unlisted
    <2> QED BY <1>1, <2>1
  <1> QED BY <1>1, <1>2, Zenon DEF OneCallEach, Unlisted

\* What Await makes of a ready queue q and a chain.
LEMMA AwaitFacts ==
    ASSUME AdmissionTypes, NEW k \in Chains, NEW add \in Seq(Commands), NEW cb \in Callbacks,
           NEW q \in Seq(Callbacks), Await(k, add, cb, q)
    PROVE  /\ micro' \in Seq(Callbacks) /\ chain' \in ChainTypes
           /\ \A l \in Chains \ {k} : chain'[l] = chain[l]
           /\ chain'[k].settled = chain[k].settled
           /\ chain'[k].members = chain[k].members \o add
           /\ Len(chain'[k].then) = Len(chain'[k].members)
           /\ Len(chain'[k].members) = LengthOf(k) + Len(add)
           /\ chain[k].settled = LengthOf(k) =>
                 /\ micro' = Append(q, cb)
                 /\ \A a \in Thens(chain, k) : chain'[k].then[a] = chain[k].then[a]
           /\ chain[k].settled # LengthOf(k) =>
                 /\ micro' = q
                 /\ LengthOf(k) \in Thens(chain, k)
                 /\ chain'[k].then[LengthOf(k)] = Append(chain[k].then[LengthOf(k)], cb)
                 /\ \A a \in Thens(chain, k) : a # LengthOf(k) =>
                       chain'[k].then[a] = chain[k].then[a]
           /\ Thens(chain, k) \subseteq Thens(chain', k)
           /\ \A a \in Thens(chain', k) : a \notin Thens(chain, k) => chain'[k].then[a] = <<>>
  <1> DEFINE last == LengthOf(k)
             idle == chain[k].settled = last
             old == chain[k].then
             kept == IF idle THEN old ELSE [old EXCEPT ![last] = Append(@, cb)]
             new == [i \in DOMAIN add |-> <<>>]
             to == [members |-> chain[k].members \o add, settled |-> chain[k].settled,
                    then |-> kept \o new]
  <1>1. /\ chain \in ChainTypes
        /\ chain[k].settled <= last /\ Len(old) = last
    BY DEF AdmissionTypes, AdmissionTypeOK, ChainTypes
  <1>2. /\ chain[k].members \in Seq(Commands) /\ chain[k].settled \in Nat /\ last \in Nat
        /\ old \in Seq(Seq(Callbacks))
    BY <1>1, ThenTypes DEF LengthOf
  <1>3. new \in Seq(Seq(Callbacks)) /\ Len(new) = Len(add) /\ Len(add) \in Nat
        /\ \A i \in 1 .. Len(new) : new[i] = <<>>
    <2>1. DOMAIN add = 1 .. Len(add) /\ Len(add) \in Nat /\ <<>> \in Seq(Callbacks)
      OBVIOUS
    <2>2. new = [i \in 1 .. Len(add) |-> <<>>]
      BY <2>1
    <2> HIDE DEF new
    <2> QED BY <2>1, <2>2
  <1>4. ~idle => last \in 1 .. Len(old)
    BY <1>1, <1>2
  <1>5. /\ kept \in Seq(Seq(Callbacks)) /\ Len(kept) = last
        /\ \A a \in 1 .. last : (idle \/ a # last) => kept[a] = old[a]
        /\ ~idle => kept[last] = Append(old[last], cb)
    BY <1>1, <1>2, <1>4
  <1> HIDE DEF new, kept
  <1>6. /\ kept \o new \in Seq(Seq(Callbacks)) /\ Len(kept \o new) = last + Len(add)
        /\ \A a \in 1 .. last : (kept \o new)[a] = kept[a]
        /\ \A i \in 1 .. Len(new) : (kept \o new)[last + i] = new[i]
    <2>1. /\ kept \o new \in Seq(Seq(Callbacks)) /\ Len(kept \o new) = Len(kept) + Len(new)
          /\ \A i \in 1 .. Len(kept) : (kept \o new)[i] = kept[i]
          /\ \A j \in 1 .. Len(new) : (kept \o new)[Len(kept) + j] = new[j]
      <3> HIDE DEF last, idle, old, to
      <3>1. kept \in Seq(Seq(Callbacks)) /\ new \in Seq(Seq(Callbacks))
        BY <1>3, <1>5, Zenon
      <3> QED BY <3>1
    <2> HIDE DEF last, idle, old, to
    <2> QED BY <2>1, <1>3, <1>5, Zenon
  <1>7. /\ chain[k].members \o add \in Seq(Commands)
        /\ Len(chain[k].members \o add) = last + Len(add)
    BY <1>2, <1>3 DEF LengthOf
  <1>8. to \in [members : Seq(Commands), settled : Nat, then : Seq(Seq(Callbacks))]
    BY <1>2, <1>6, <1>7
  <1>9. chain' = [chain EXCEPT ![k] = to]
    BY Zenon DEF Await, new, kept
  <1>10. chain' \in ChainTypes /\ chain'[k] = to /\ \A l \in Chains \ {k} : chain'[l] = chain[l]
    BY <1>1, <1>8, <1>9 DEF ChainTypes
  <1>11. micro' = IF idle THEN Append(q, cb) ELSE q
    BY DEF Await
  <1>12. micro' \in Seq(Callbacks)
    BY <1>11
  <1>13. /\ chain'[k].settled = chain[k].settled
         /\ chain'[k].members = chain[k].members \o add
         /\ chain'[k].then = kept \o new
    BY <1>10
  <1>14. /\ Thens(chain, k) = 1 .. last /\ Thens(chain', k) = 1 .. last + Len(add)
         /\ 1 .. last \subseteq 1 .. last + Len(add)
    BY <1>1, <1>2, <1>3, <1>6, <1>13 DEF Thens
  <1>15. \A a \in 1 .. last + Len(add) : a \notin 1 .. last => (kept \o new)[a] = <<>>
    <2> SUFFICES ASSUME NEW a \in 1 .. last + Len(add), a \notin 1 .. last
                 PROVE  (kept \o new)[a] = <<>>
      OBVIOUS
    <2>1. a - last \in 1 .. Len(new) /\ last + (a - last) = a
      BY <1>2, <1>3
    <2> QED BY <1>3, <1>6, <2>1
  <1> HIDE DEF last, idle, old, to
  <1>16. idle => /\ micro' = Append(q, cb)
                 /\ \A a \in Thens(chain, k) : chain'[k].then[a] = old[a]
    BY <1>5, <1>6, <1>11, <1>13, <1>14, Zenon
  <1>17. ~idle => /\ micro' = q /\ last \in Thens(chain, k)
                  /\ chain'[k].then[last] = Append(old[last], cb)
                  /\ \A a \in Thens(chain, k) : a # last => chain'[k].then[a] = old[a]
    BY <1>1, <1>4, <1>5, <1>6, <1>11, <1>13, <1>14, Zenon
  <1>18. \A a \in Thens(chain', k) : a \notin Thens(chain, k) => chain'[k].then[a] = <<>>
    BY <1>13, <1>14, <1>15, Zenon
  <1>19. Len(chain'[k].then) = Len(chain'[k].members) /\ Len(chain'[k].members) = last + Len(add)
    BY <1>6, <1>7, <1>13, Zenon
  <1> QED BY <1>10, <1>12, <1>13, <1>14, <1>16, <1>17, <1>18, <1>19, Zenon DEF last, idle, old

\* Where the callbacks are after Await: where they were, and cb at its place.
LEMMA AwaitPlaces ==
    ASSUME AdmissionTypes, NEW k \in Chains, NEW add \in Seq(Commands), NEW cb \in Callbacks,
           NEW q \in Seq(Callbacks), Await(k, add, cb, q)
    PROVE  /\ \A d \in In(micro') : d \in In(q) \/ (d = cb /\ chain[k].settled = LengthOf(k))
           /\ \A l \in Chains : \A a \in Thens(chain', l) : \A d \in Waiting(chain', l, a) :
                 \/ a \in Thens(chain, l) /\ d \in Waiting(chain, l, a)
                 \/ d = cb /\ l = k /\ a = LengthOf(k) /\ chain[k].settled # LengthOf(k)
  <1>1. /\ \A l \in Chains \ {k} : chain'[l] = chain[l]
        /\ chain[k].settled = LengthOf(k) =>
              /\ micro' = Append(q, cb)
              /\ \A a \in Thens(chain, k) : chain'[k].then[a] = chain[k].then[a]
        /\ chain[k].settled # LengthOf(k) =>
              /\ micro' = q
              /\ LengthOf(k) \in Thens(chain, k)
              /\ chain'[k].then[LengthOf(k)] = Append(chain[k].then[LengthOf(k)], cb)
              /\ \A a \in Thens(chain, k) : a # LengthOf(k) =>
                    chain'[k].then[a] = chain[k].then[a]
        /\ \A a \in Thens(chain', k) : a \notin Thens(chain, k) => chain'[k].then[a] = <<>>
    BY AwaitFacts, Zenon
  <1>2. /\ In(Append(q, cb)) = In(q) \cup {cb}
        /\ \A p \in Seq(Callbacks) : In(Append(p, cb)) = In(p) \cup {cb}
    BY InAppend
  <1>3. ASSUME NEW d \in In(micro')
        PROVE  d \in In(q) \/ (d = cb /\ chain[k].settled = LengthOf(k))
    BY <1>1, <1>2, <1>3, Zenon
  <1>4. In(<<>>) = {}
    BY DEF In
  <1>5. \A a \in Thens(chain, k) : chain[k].then[a] \in Seq(Callbacks)
    BY ThenTypes DEF AdmissionTypes, AdmissionTypeOK, ChainTypes
  <1>6. ASSUME NEW l \in Chains, NEW a \in Thens(chain', l), NEW d \in Waiting(chain', l, a)
        PROVE  \/ a \in Thens(chain, l) /\ d \in Waiting(chain, l, a)
               \/ d = cb /\ l = k /\ a = LengthOf(k) /\ chain[k].settled # LengthOf(k)
    <2>1. CASE l # k
      <3>1. chain'[l] = chain[l]
        BY <1>1, <2>1, Zenon
      <3> QED BY <3>1, <1>6, Zenon DEF Thens, Waiting
    <2>2. CASE l = k /\ a \notin Thens(chain, k)
      BY <1>1, <1>4, <1>6, <2>2, Zenon DEF Waiting
    <2>3. CASE l = k /\ a \in Thens(chain, k) /\ chain'[k].then[a] = chain[k].then[a]
      BY <1>6, <2>3, Zenon DEF Waiting
    <2>4. CASE /\ l = k /\ a = LengthOf(k) /\ a \in Thens(chain, k)
               /\ chain[k].settled # LengthOf(k)
               /\ chain'[k].then[a] = Append(chain[k].then[a], cb)
      <3>1. In(chain'[k].then[a]) = In(chain[k].then[a]) \cup {cb}
        BY <1>2, <1>5, <2>4, Zenon
      <3> QED BY <3>1, <1>6, <2>4, Zenon DEF Waiting
    <2> QED BY <1>1, <2>1, <2>2, <2>3, <2>4, Zenon
  <1> QED BY <1>3, <1>6, Zenon

LEMMA AwaitOnce ==
    ASSUME AdmissionTypes, NEW k \in Chains, NEW add \in Seq(Commands), NEW cb \in Callbacks,
           NEW q \in Seq(Callbacks), Await(k, add, cb, q),
           OneCallEach(q, chain), Unlisted(q, chain, cb.of)
    PROVE  OneCallEach(micro', chain')
  <1>1. /\ \A d \in In(micro') : d \in In(q) \/ (d = cb /\ chain[k].settled = LengthOf(k))
        /\ \A l \in Chains : \A a \in Thens(chain', l) : \A d \in Waiting(chain', l, a) :
              \/ a \in Thens(chain, l) /\ d \in Waiting(chain, l, a)
              \/ d = cb /\ l = k /\ a = LengthOf(k) /\ chain[k].settled # LengthOf(k)
    BY AwaitPlaces, Zenon
  <1>2. /\ \A x \in Of(micro') : x \in Of(q) \/ (x = cb.of /\ chain[k].settled = LengthOf(k))
        /\ \A l \in Chains : \A a \in Thens(chain', l) : \A x \in Of(chain'[l].then[a]) :
              \/ a \in Thens(chain, l) /\ x \in Of(chain[l].then[a])
              \/ x = cb.of /\ l = k /\ a = LengthOf(k) /\ chain[k].settled # LengthOf(k)
    BY <1>1, Zenon DEF Of, Waiting
  <1>3. /\ \A l \in Chains \ {k} : chain'[l] = chain[l]
        /\ chain[k].settled = LengthOf(k) =>
              /\ micro' = Append(q, cb)
              /\ \A a \in Thens(chain, k) : chain'[k].then[a] = chain[k].then[a]
        /\ chain[k].settled # LengthOf(k) =>
              /\ micro' = q
              /\ LengthOf(k) \in Thens(chain, k)
              /\ chain'[k].then[LengthOf(k)] = Append(chain[k].then[LengthOf(k)], cb)
              /\ \A a \in Thens(chain, k) : a # LengthOf(k) =>
                    chain'[k].then[a] = chain[k].then[a]
        /\ \A a \in Thens(chain', k) : a \notin Thens(chain, k) => chain'[k].then[a] = <<>>
    BY AwaitFacts, Zenon
  <1>4. \A a \in Thens(chain, k) : chain[k].then[a] \in Seq(Callbacks)
    BY ThenTypes DEF AdmissionTypes, AdmissionTypeOK, ChainTypes
  <1>5. Once(micro')
    <2>1. Once(Append(q, cb))
      BY OnceAppend DEF OneCallEach, Unlisted
    <2> QED BY <1>3, <2>1, Zenon DEF OneCallEach
  <1>6. Once(<<>>)
    BY DEF Once
  <1>7. ASSUME NEW l \in Chains, NEW a \in Thens(chain', l) PROVE Once(chain'[l].then[a])
    <2>1. CASE l # k
      <3>1. chain'[l] = chain[l]
        BY <1>3, <2>1, Zenon
      <3> QED BY <3>1, <1>7, Zenon DEF Thens, OneCallEach
    <2>2. CASE l = k /\ a \notin Thens(chain, k)
      BY <1>3, <1>6, <1>7, <2>2, Zenon
    <2>3. CASE l = k /\ a \in Thens(chain, k) /\ chain'[k].then[a] = chain[k].then[a]
      BY <2>3, Zenon DEF OneCallEach
    <2>4. CASE /\ l = k /\ a = LengthOf(k) /\ a \in Thens(chain, k)
               /\ chain'[k].then[a] = Append(chain[k].then[a], cb)
      <3>1. Once(chain[k].then[a]) /\ cb.of \notin Of(chain[k].then[a])
        BY <2>4, Zenon DEF OneCallEach, Unlisted
      <3>2. chain[k].then[a] \in Seq(Callbacks)
        BY <1>4, <2>4, Zenon
      <3>3. Once(Append(chain[k].then[a], cb))
        BY <3>1, <3>2, OnceAppend
      <3> QED BY <3>3, <2>4, Zenon
    <2> QED BY <1>3, <2>1, <2>2, <2>3, <2>4, Zenon
  <1>8. ASSUME NEW l \in Chains, NEW a \in Thens(chain', l)
        PROVE  \A x \in Of(chain'[l].then[a]) : x \notin Of(micro')
    <2> SUFFICES ASSUME NEW x \in Of(chain'[l].then[a]), x \in Of(micro') PROVE FALSE
      BY Zenon
    <2>1. x \in Of(q) \/ (x = cb.of /\ chain[k].settled = LengthOf(k))
      BY <1>2, Zenon
    <2>2. \/ a \in Thens(chain, l) /\ x \in Of(chain[l].then[a])
          \/ x = cb.of /\ chain[k].settled # LengthOf(k)
      BY <1>2, <1>8, Zenon
    <2>3. /\ cb.of \notin Of(q)
          /\ a \in Thens(chain, l) => cb.of \notin Of(chain[l].then[a])
          /\ a \in Thens(chain, l) => \A y \in Of(chain[l].then[a]) : y \notin Of(q)
      BY <1>8, Zenon DEF OneCallEach, Unlisted
    <2> QED BY <2>1, <2>2, <2>3
  <1>9. ASSUME NEW l \in Chains, NEW a \in Thens(chain', l),
               NEW x \in Of(chain'[l].then[a]),
               NEW j \in Chains, NEW b \in Thens(chain', j), x \in Of(chain'[j].then[b])
        PROVE  l = j /\ a = b
    <2>2. \/ a \in Thens(chain, l) /\ x \in Of(chain[l].then[a])
          \/ x = cb.of /\ l = k /\ a = LengthOf(k)
      BY <1>2, <1>9, Zenon
    <2>3. \/ b \in Thens(chain, j) /\ x \in Of(chain[j].then[b])
          \/ x = cb.of /\ j = k /\ b = LengthOf(k)
      BY <1>2, <1>9, Zenon
    <2>4. /\ a \in Thens(chain, l) => cb.of \notin Of(chain[l].then[a])
          /\ b \in Thens(chain, j) => cb.of \notin Of(chain[j].then[b])
      BY <1>9, Zenon DEF Unlisted
    <2>5. CASE x = cb.of
      BY <2>2, <2>3, <2>4, <2>5
    <2>6. CASE x # cb.of
      <3>1. a \in Thens(chain, l) /\ x \in Of(chain[l].then[a])
        BY <2>2, <2>6, Zenon
      <3>2. b \in Thens(chain, j) /\ x \in Of(chain[j].then[b])
        BY <2>3, <2>6, Zenon
      <3> QED BY <3>1, <3>2, Zenon DEF OneCallEach
    <2> QED BY <2>5, <2>6, Zenon
  <1> QED BY <1>5, <1>7, <1>8, <1>9, Zenon DEF OneCallEach

\* The callbacks of a chain that settles become ready.
LEMMA SettlePlaces ==
    ASSUME AdmissionTypes, NEW k \in Chains, Settle(k)
    PROVE  LET n == chain[k].settled + 1
           IN  /\ n \in Thens(chain, k) /\ n <= LengthOf(k) /\ n \in Nat
               /\ at[chain[k].members[n]] \in Over
               /\ micro' = micro \o chain[k].then[n] /\ micro' \in Seq(Callbacks)
               /\ chain' \in ChainTypes
               /\ \A l \in Chains \ {k} : chain'[l] = chain[l]
               /\ chain'[k].settled = n /\ chain'[k].members = chain[k].members
               /\ Thens(chain', k) = Thens(chain, k) /\ Len(chain'[k].then) = LengthOf(k)
               /\ chain'[k].then[n] = <<>>
               /\ \A a \in Thens(chain, k) : a # n => chain'[k].then[a] = chain[k].then[a]
  <1> DEFINE n == chain[k].settled + 1
             old == chain[k].then
             kept == [old EXCEPT ![n] = <<>>]
  <1>1. /\ chain \in ChainTypes /\ micro \in Seq(Callbacks)
        /\ chain[k].settled <= LengthOf(k) /\ Len(old) = LengthOf(k)
    BY DEF AdmissionTypes, AdmissionTypeOK, ChainTypes
  <1>2. /\ chain[k].members \in Seq(Commands) /\ chain[k].settled \in Nat
        /\ old \in Seq(Seq(Callbacks)) /\ LengthOf(k) \in Nat
    BY <1>1, ThenTypes DEF LengthOf
  <1>3. /\ n <= LengthOf(k) /\ at[chain[k].members[n]] \in Over
        /\ micro' = micro \o old[n]
        /\ chain' = [chain EXCEPT ![k] = [chain[k] EXCEPT !.settled = n, !.then = kept]]
    BY DEF Settle, SettleAfter, Over
  <1>4. n \in 1 .. Len(old) /\ n \in Nat
    BY <1>1, <1>2, <1>3
  <1>5. <<>> \in Seq(Callbacks)
    OBVIOUS
  <1>6. /\ kept \in Seq(Seq(Callbacks)) /\ Len(kept) = Len(old) /\ kept[n] = <<>>
        /\ \A a \in 1 .. Len(old) : a # n => kept[a] = old[a]
    <2> HIDE DEF n
    <2> QED BY <1>2, <1>4, <1>5
  <1> HIDE DEF kept, n
  <1>7. [chain[k] EXCEPT !.settled = n, !.then = kept]
            \in [members : Seq(Commands), settled : Nat, then : Seq(Seq(Callbacks))]
    BY <1>1, <1>4, <1>6 DEF ChainTypes
  <1>8. /\ chain' \in ChainTypes /\ \A l \in Chains \ {k} : chain'[l] = chain[l]
        /\ chain'[k] = [chain[k] EXCEPT !.settled = n, !.then = kept]
    BY <1>1, <1>3, <1>7 DEF ChainTypes
  <1>9. /\ chain'[k].settled = n /\ chain'[k].members = chain[k].members
        /\ chain'[k].then = kept
    BY <1>1, <1>8 DEF ChainTypes
  <1>10. micro' \in Seq(Callbacks)
    <2>1. old[n] \in Seq(Callbacks)
      BY <1>2, <1>4
    <2> QED BY <2>1, <1>1, <1>3, InConcat
  <1> HIDE DEF old
  <1>11. Thens(chain', k) = Thens(chain, k) /\ Len(chain'[k].then) = LengthOf(k)
         /\ n \in Thens(chain, k)
    BY <1>1, <1>4, <1>6, <1>9, Zenon DEF Thens, old
  <1>12. /\ chain'[k].then[n] = <<>>
         /\ \A a \in Thens(chain, k) : a # n => chain'[k].then[a] = chain[k].then[a]
    BY <1>6, <1>9, Zenon DEF Thens, old
  <1> QED BY <1>3, <1>4, <1>8, <1>9, <1>10, <1>11, <1>12, Zenon DEF n, old

LEMMA SettleOnce ==
    ASSUME AdmissionTypes, NEW k \in Chains, Settle(k), OneCallEach(micro, chain)
    PROVE  /\ OneCallEach(micro', chain')
           /\ \A d \in In(micro') : d \in In(micro) \/ d \in Waiting(chain, k, chain[k].settled + 1)
           /\ \A l \in Chains : \A a \in Thens(chain', l) :
                 a \in Thens(chain, l) /\ Waiting(chain', l, a) \subseteq Waiting(chain, l, a)
  <1> DEFINE n == chain[k].settled + 1
             r == chain[k].then[n]
  <1>1. /\ n \in Thens(chain, k)
        /\ micro' = micro \o r
        /\ \A l \in Chains \ {k} : chain'[l] = chain[l]
        /\ Thens(chain', k) = Thens(chain, k)
        /\ chain'[k].then[n] = <<>>
        /\ \A a \in Thens(chain, k) : a # n => chain'[k].then[a] = chain[k].then[a]
    BY SettlePlaces, Zenon
  <1>2. micro \in Seq(Callbacks) /\ r \in Seq(Callbacks)
    <2>1. chain \in ChainTypes /\ micro \in Seq(Callbacks)
      BY DEF AdmissionTypes, AdmissionTypeOK, ChainTypes
    <2> HIDE DEF n
    <2> QED BY <1>1, <2>1, ThenTypes
  <1> HIDE DEF n
  <1>3. Once(micro) /\ Once(r) /\ Of(micro) \cap Of(r) = {}
    <2>1. Once(micro) /\ Once(r) /\ \A x \in Of(r) : x \notin Of(micro)
      BY <1>1, Zenon DEF OneCallEach
    <2> QED BY <2>1, Zenon
  <1> HIDE DEF r
  <1>4. /\ Once(micro') /\ Of(micro') = Of(micro) \cup Of(r) /\ In(micro') = In(micro) \cup In(r)
    BY <1>1, <1>2, <1>3, InConcat, OnceConcat
  <1>5. In(<<>>) = {} /\ Of(<<>>) = {} /\ Once(<<>>)
    BY DEF In, Of, Once
  <1>6. ASSUME NEW l \in Chains, NEW a \in Thens(chain', l)
        PROVE  /\ a \in Thens(chain, l)
               /\ \/ chain'[l].then[a] = chain[l].then[a] /\ ~(l = k /\ a = n)
                  \/ chain'[l].then[a] = <<>>
    <2>1. CASE l # k
      <3>1. chain'[l] = chain[l]
        BY <1>1, <2>1, Zenon
      <3> QED BY <3>1, <2>1, <1>6, Zenon DEF Thens
    <2>2. CASE l = k
      BY <1>1, <1>6, <2>2, Zenon
    <2> QED BY <2>1, <2>2, Zenon
  <1>7. \A l \in Chains : \A a \in Thens(chain', l) :
           a \in Thens(chain, l) /\ Waiting(chain', l, a) \subseteq Waiting(chain, l, a)
    BY <1>5, <1>6, Zenon DEF Waiting
  <1>8. \A l \in Chains : \A a \in Thens(chain', l) :
           /\ Once(chain'[l].then[a])
           /\ Of(chain'[l].then[a]) \subseteq Of(chain[l].then[a])
           /\ l = k /\ a = n => Of(chain'[l].then[a]) = {}
    BY <1>5, <1>6, Zenon DEF OneCallEach
  <1>9. ASSUME NEW l \in Chains, NEW a \in Thens(chain', l)
        PROVE  \A x \in Of(chain'[l].then[a]) : x \notin Of(micro')
    <2> SUFFICES ASSUME NEW x \in Of(chain'[l].then[a]), x \in Of(micro') PROVE FALSE
      BY Zenon
    <2>1. x \in Of(chain[l].then[a]) /\ a \in Thens(chain, l) /\ ~(l = k /\ a = n)
      BY <1>6, <1>8, <1>9, Zenon
    <2>2. x \in Of(chain[k].then[n])
      BY <1>4, <2>1, Zenon DEF OneCallEach, r
    <2> QED BY <1>1, <2>1, <2>2, Zenon DEF OneCallEach
  <1>10. ASSUME NEW l \in Chains, NEW a \in Thens(chain', l),
                NEW x \in Of(chain'[l].then[a]),
                NEW j \in Chains, NEW b \in Thens(chain', j), x \in Of(chain'[j].then[b])
         PROVE  l = j /\ a = b
    <2>1. x \in Of(chain[l].then[a]) /\ x \in Of(chain[j].then[b])
      BY <1>8, <1>10, Zenon
    <2> QED BY <1>6, <1>10, <2>1, Zenon DEF OneCallEach
  <1>11. OneCallEach(micro', chain')
    BY <1>4, <1>8, <1>9, <1>10, Zenon DEF OneCallEach
  <1> QED BY <1>4, <1>7, <1>11, Zenon DEF Waiting, r, n

-----------------------------------------------------------------------------
\* HostAdmission: a callback stays right while another actor moves.

Kept(x) == /\ at'[x] = at[x]
           /\ x \in Messages => behind'[x] = behind[x] /\ seen'[x] = seen[x]
ChainsGrow ==
    \A k \in Chains :
       /\ chain[k].settled <= chain'[k].settled
       /\ Len(chain[k].members) <= Len(chain'[k].members)
       /\ \A i \in 1 .. Len(chain[k].members) : chain'[k].members[i] = chain[k].members[i]
\* The queue without the callback of x, whose turn it is.
From(q, x) == /\ q \in Seq(Callbacks) /\ OneCallEach(q, chain) /\ Unlisted(q, chain, x)
              /\ In(q) \subseteq In(micro)
Actors == Messages \cup Commands

LEMMA ChainIsTyped ==
    ASSUME AdmissionTypes PROVE chain \in ChainTypes /\ micro \in Seq(Callbacks)
  BY DEF AdmissionTypes, AdmissionTypeOK, ChainTypes

LEMMA WaitsStay ==
    ASSUME NEW w, NEW b, NEW s, NEW ch \in ChainTypes, NEW v, NEW c, NEW t, NEW to \in ChainTypes,
           NEW k \in Chains, NEW cb, NEW n \in Nat, Waits(w, b, s, ch, k, cb, n),
           v[cb.of] = w[cb.of],
           cb.of \in Messages => c[cb.of] = b[cb.of] /\ t[cb.of] = s[cb.of],
           Len(ch[k].members) <= Len(to[k].members),
           \A i \in 1 .. Len(ch[k].members) : to[k].members[i] = ch[k].members[i]
    PROVE  Waits(v, c, t, to, k, cb, n)
  <1>1. ASSUME NEW d, Follows(ch, k, d, n) PROVE Follows(to, k, d, n)
    <2>1. PICK j \in 1 .. Len(ch[k].members) : ch[k].members[j] = d /\ j <= n + 1
      BY <1>1 DEF Follows
    <2>2. Len(ch[k].members) \in Nat /\ Len(to[k].members) \in Nat
      BY ThenTypes
    <2>3. j \in 1 .. Len(to[k].members)
      BY <2>2
    <2> QED BY <2>1, <2>3 DEF Follows
  <1>2. CASE cb.do = "message"
    BY <1>2, Zenon DEF Waits
  <1>3. CASE cb.do = "look"
    BY <1>3, Zenon DEF Waits
  <1>4. CASE cb.do = "start"
    BY <1>1, <1>4, Zenon DEF Waits
  <1>5. CASE cb.do = "check"
    BY <1>1, <1>5, Zenon DEF Waits
  <1> QED BY <1>2, <1>3, <1>4, <1>5, Zenon DEF Waits

LEMMA ReadyStays ==
    ASSUME chain \in ChainTypes, chain' \in ChainTypes, ChainsGrow,
           NEW cb, IsReady(at, behind, seen, chain, cb), Kept(cb.of)
    PROVE  IsReady(at', behind', seen', chain', cb)
  <1>1. CASE cb.do = "enter" /\ cb.of \in Messages /\ at[cb.of] = "waiting"
    BY <1>1, Zenon DEF IsReady, Kept
  <1>2. CASE cb.do = "leave" /\ cb.of \in Messages /\ at[cb.of] \in {"leaving", "gone"}
    BY <1>2, Zenon DEF IsReady, Kept
  <1>3. ASSUME NEW k \in Chains, NEW n \in Nat, n <= chain[k].settled,
               Waits(at, behind, seen, chain, k, cb, n)
        PROVE  IsReady(at', behind', seen', chain', cb)
    <2>1. Waits(at', behind', seen', chain', k, cb, n)
      BY <1>3, WaitsStay, Zenon DEF Kept, ChainsGrow
    <2>2. n <= chain'[k].settled
      BY <1>3, ThenTypes DEF ChainsGrow
    <2> QED BY <2>1, <2>2, Zenon DEF IsReady
  <1> QED BY <1>1, <1>2, <1>3, Zenon DEF IsReady

\* Every callback is where it was and its actor has not moved, or it is right anew.
LEMMA CallsStep ==
    ASSUME AdmissionTypes, chain' \in ChainTypes, CallsInv, ChainsGrow,
           \A cb \in In(micro') :
              \/ /\ Kept(cb.of)
                 /\ \/ cb \in In(micro)
                    \/ \E k \in Chains : \E a \in Thens(chain, k) :
                          a <= chain'[k].settled /\ cb \in Waiting(chain, k, a)
              \/ IsReady(at', behind', seen', chain', cb),
           \A k \in Chains : \A a \in Thens(chain', k) : \A cb \in Waiting(chain', k, a) :
              \/ Kept(cb.of) /\ a \in Thens(chain, k) /\ cb \in Waiting(chain, k, a)
              \/ Waits(at', behind', seen', chain', k, cb, a)
    PROVE  CallsInv'
  <1>1. chain \in ChainTypes
    BY ChainIsTyped
  <1>2. ASSUME NEW k \in Chains, NEW a \in Thens(chain, k), NEW cb \in Waiting(chain, k, a),
               Kept(cb.of)
        PROVE  a \in Nat /\ Waits(at', behind', seen', chain', k, cb, a)
    <2>1. a \in Nat
      BY DEF Thens
    <2>2. Waits(at, behind, seen, chain, k, cb, a)
      BY <1>2, Zenon DEF CallsInv
    <2> QED BY <1>1, <1>2, <2>1, <2>2, WaitsStay, Zenon DEF Kept, ChainsGrow
  <1>3. ASSUME NEW cb \in In(micro') PROVE IsReady(at', behind', seen', chain', cb)
    <2>1. CASE Kept(cb.of) /\ cb \in In(micro)
      BY <1>1, <2>1, ReadyStays, Zenon DEF CallsInv
    <2>2. ASSUME Kept(cb.of), NEW k \in Chains, NEW a \in Thens(chain, k),
                 a <= chain'[k].settled, cb \in Waiting(chain, k, a)
          PROVE  IsReady(at', behind', seen', chain', cb)
      BY <1>2, <2>2, Zenon DEF IsReady
    <2> QED BY <1>3, <2>1, <2>2, Zenon
  <1>4. ASSUME NEW k \in Chains, NEW a \in Thens(chain', k), NEW cb \in Waiting(chain', k, a)
        PROVE  Waits(at', behind', seen', chain', k, cb, a)
    BY <1>2, <1>4, Zenon
  <1> QED BY <1>3, <1>4, Zenon DEF CallsInv

LEMMA FromAll ==
    ASSUME AdmissionTypes, OneCallEach(micro, chain), CallsInv, NEW x \in Actors,
           at[x] \notin {"queued", "waiting", "admitted", "leaving", "gone"}
    PROVE  From(micro, x)
  <1>1. chain \in ChainTypes /\ micro \in Seq(Callbacks)
    BY ChainIsTyped
  <1>2. ASSUME NEW k \in Chains, NEW n, NEW cb, Waits(at, behind, seen, chain, k, cb, n)
        PROVE  at[cb.of] \in {"queued", "waiting", "admitted"}
    BY <1>2, Zenon DEF Waits
  <1>3. \A cb \in In(micro) : cb.of # x
    BY <1>2, Zenon DEF CallsInv, IsReady
  <1>4. \A k \in Chains : \A a \in Thens(chain, k) : \A cb \in Waiting(chain, k, a) : cb.of # x
    BY <1>2, Zenon DEF CallsInv
  <1> QED BY <1>1, <1>3, <1>4, Zenon DEF From, Unlisted, Of, Waiting

LEMMA FromHead ==
    ASSUME AdmissionTypes, OneCallEach(micro, chain), CallsInv, NEW do, NEW x, Runs(do, x)
    PROVE  /\ From(Tail(micro), x) /\ Callback(do, x) \in In(micro) /\ micro # <<>>
           /\ Head(micro) = Callback(do, x) /\ In(micro) = {Callback(do, x)} \cup In(Tail(micro))
           /\ IsReady(at, behind, seen, chain, Callback(do, x))
           /\ Callback(do, x).do = do /\ Callback(do, x).of = x
           /\ Callback(do, x) \in Callbacks
  <1>1. micro \in Seq(Callbacks) /\ micro # <<>> /\ Head(micro) = Callback(do, x)
    BY ChainIsTyped DEF Runs
  <1>2. Callback(do, x).do = do /\ Callback(do, x).of = x
    BY DEF Callback
  <1>3. /\ Tail(micro) \in Seq(Callbacks) /\ In(micro) = {Head(micro)} \cup In(Tail(micro))
        /\ Head(micro) \in Callbacks
    BY <1>1, InTail
  <1>4. OneCallEach(Tail(micro), chain) /\ Unlisted(Tail(micro), chain, Head(micro).of)
    BY <1>1, HeadLeaves
  <1>5. Callback(do, x) \in In(micro) /\ In(Tail(micro)) \subseteq In(micro)
    BY <1>1, <1>3, Zenon
  <1>6. Unlisted(Tail(micro), chain, x)
    BY <1>1, <1>2, <1>4, Zenon
  <1> QED BY <1>1, <1>2, <1>3, <1>4, <1>5, <1>6, Zenon DEF From, CallsInv

\* The shapes of the steps of one actor: nothing more, a callback appended, an Await.
LEMMA QueueStays ==
    ASSUME AdmissionTypes, CallsInv, NEW x, NEW q, From(q, x),
           \A y \in Actors \ {x} : Kept(y), micro' = q, chain' = chain
    PROVE  OneCallEach(micro', chain') /\ CallsInv' /\ micro' \in Seq(Callbacks) /\ chain' \in ChainTypes
  <1>1. chain \in ChainTypes /\ micro \in Seq(Callbacks) /\ chain' \in ChainTypes
    BY ChainIsTyped
  <1>2. \A cb \in Callbacks : cb.of \in Actors
    BY DEF Callbacks, Actors
  <1>3. \A k \in Chains : Len(chain[k].members) \in Nat /\ chain[k].settled \in Nat
    BY <1>1, ThenTypes
  <1>4. ChainsGrow
    BY <1>3 DEF ChainsGrow
  <1>5. ASSUME NEW cb \in In(q) PROVE Kept(cb.of) /\ cb \in In(micro)
    <2>1. cb \in Callbacks /\ cb.of \in Of(q)
      BY OfFacts, Zenon DEF From
    <2> QED BY <1>2, <2>1, Zenon DEF From, Unlisted
  <1>6. ASSUME NEW k \in Chains, NEW a \in Thens(chain, k), NEW cb \in Waiting(chain, k, a)
        PROVE  Kept(cb.of)
    <2>1. chain[k].then[a] \in Seq(Callbacks)
      BY <1>1, ThenTypes
    <2>2. cb \in Callbacks /\ cb.of \in Of(chain[k].then[a])
      BY <2>1, OfFacts, Zenon DEF Waiting
    <2> QED BY <1>2, <2>2, Zenon DEF From, Unlisted
  <1>7. CallsInv'
    BY <1>1, <1>4, <1>5, <1>6, CallsStep, Zenon
  <1> QED BY <1>1, <1>7, Zenon DEF From

LEMMA QueueGains ==
    ASSUME AdmissionTypes, CallsInv, NEW x, NEW q, From(q, x), NEW cb \in Callbacks, cb.of = x,
           \A y \in Actors \ {x} : Kept(y), micro' = Append(q, cb), chain' = chain,
           IsReady(at', behind', seen', chain', cb)
    PROVE  /\ OneCallEach(micro', chain') /\ CallsInv' /\ micro' \in Seq(Callbacks)
           /\ chain' \in ChainTypes /\ In(micro') = In(q) \cup {cb}
  <1>1. chain \in ChainTypes /\ micro \in Seq(Callbacks) /\ chain' \in ChainTypes
    BY ChainIsTyped
  <1>2. \A d \in Callbacks : d.of \in Actors
    BY DEF Callbacks, Actors
  <1>3. \A k \in Chains : Len(chain[k].members) \in Nat /\ chain[k].settled \in Nat
    BY <1>1, ThenTypes
  <1>4. ChainsGrow
    BY <1>3 DEF ChainsGrow
  <1>5. ASSUME NEW d \in In(q) PROVE Kept(d.of) /\ d \in In(micro)
    <2>1. d \in Callbacks /\ d.of \in Of(q)
      BY OfFacts, Zenon DEF From
    <2> QED BY <1>2, <2>1, Zenon DEF From, Unlisted
  <1>6. ASSUME NEW k \in Chains, NEW a \in Thens(chain, k), NEW d \in Waiting(chain, k, a)
        PROVE  Kept(d.of)
    <2>1. chain[k].then[a] \in Seq(Callbacks)
      BY <1>1, ThenTypes
    <2>2. d \in Callbacks /\ d.of \in Of(chain[k].then[a])
      BY <2>1, OfFacts, Zenon DEF Waiting
    <2> QED BY <1>2, <2>2, Zenon DEF From, Unlisted
  <1>7. Append(q, cb) \in Seq(Callbacks) /\ In(Append(q, cb)) = In(q) \cup {cb}
    BY InAppend DEF From
  <1>8. OneCallEach(Append(q, cb), chain)
    BY CallJoins DEF From
  <1>9. ASSUME NEW d \in In(micro')
        PROVE  (Kept(d.of) /\ d \in In(micro)) \/ IsReady(at', behind', seen', chain', d)
    <2>1. d \in In(q) \/ d = cb
      BY <1>7, Zenon
    <2> QED BY <1>5, <2>1, Zenon
  <1>10. CallsInv'
    BY <1>1, <1>4, <1>6, <1>9, CallsStep, Zenon
  <1> QED BY <1>1, <1>7, <1>8, <1>10, Zenon

LEMMA QueueAwaits ==
    ASSUME AdmissionTypes, CallsInv, NEW x, NEW q, From(q, x), NEW cb \in Callbacks, cb.of = x,
           \A y \in Actors \ {x} : Kept(y),
           NEW k \in Chains, NEW add \in Seq(Commands), Await(k, add, cb, q),
           Waits(at', behind', seen', chain', k, cb, LengthOf(k))
    PROVE  /\ OneCallEach(micro', chain') /\ CallsInv' /\ micro' \in Seq(Callbacks)
           /\ chain' \in ChainTypes /\ \A d \in In(micro') : d \in In(q) \/ d = cb
           /\ micro' = q \/ micro' = Append(q, cb)
  <1>1. chain \in ChainTypes /\ micro \in Seq(Callbacks) /\ q \in Seq(Callbacks)
    BY ChainIsTyped DEF From
  <1>2. \A d \in Callbacks : d.of \in Actors
    BY DEF Callbacks, Actors
  <1>3. /\ micro' \in Seq(Callbacks) /\ chain' \in ChainTypes
        /\ \A l \in Chains \ {k} : chain'[l] = chain[l]
        /\ chain'[k].settled = chain[k].settled
        /\ chain'[k].members = chain[k].members \o add
        /\ micro' = q \/ micro' = Append(q, cb)
    BY <1>1, AwaitFacts, Zenon
  <1>4. \A l \in Chains : Len(chain[l].members) \in Nat /\ chain[l].settled \in Nat
                          /\ chain[l].members \in Seq(Commands)
    BY <1>1, ThenTypes
  <1>5. ChainsGrow
    <2>1. /\ Len(chain[k].members) <= Len(chain[k].members \o add)
          /\ \A i \in 1 .. Len(chain[k].members) :
                (chain[k].members \o add)[i] = chain[k].members[i]
      BY <1>4
    <2>2. ASSUME NEW l \in Chains
          PROVE  /\ chain[l].settled <= chain'[l].settled
                 /\ Len(chain[l].members) <= Len(chain'[l].members)
                 /\ \A i \in 1 .. Len(chain[l].members) : chain'[l].members[i] = chain[l].members[i]
      <3>1. CASE l = k
        BY <1>3, <1>4, <2>1, <3>1
      <3>2. CASE l # k
        <4>1. chain'[l] = chain[l]
          BY <1>3, <3>2, Zenon
        <4> QED BY <1>4, <4>1
      <3> QED BY <3>1, <3>2, Zenon
    <2> QED BY <2>2, Zenon DEF ChainsGrow
  <1>6. ASSUME NEW d \in In(q) PROVE Kept(d.of) /\ d \in In(micro)
    <2>1. d \in Callbacks /\ d.of \in Of(q)
      BY OfFacts, Zenon DEF From
    <2> QED BY <1>2, <2>1, Zenon DEF From, Unlisted
  <1>7. ASSUME NEW l \in Chains, NEW a \in Thens(chain, l), NEW d \in Waiting(chain, l, a)
        PROVE  Kept(d.of)
    <2>1. chain[l].then[a] \in Seq(Callbacks)
      BY <1>1, ThenTypes
    <2>2. d \in Callbacks /\ d.of \in Of(chain[l].then[a])
      BY <2>1, OfFacts, Zenon DEF Waiting
    <2> QED BY <1>2, <2>2, Zenon DEF From, Unlisted
  <1>8. /\ \A d \in In(micro') : d \in In(q) \/ (d = cb /\ chain[k].settled = LengthOf(k))
        /\ \A l \in Chains : \A a \in Thens(chain', l) : \A d \in Waiting(chain', l, a) :
              \/ a \in Thens(chain, l) /\ d \in Waiting(chain, l, a)
              \/ d = cb /\ l = k /\ a = LengthOf(k)
    BY <1>1, AwaitPlaces, Zenon
  <1>9. ASSUME NEW d \in In(micro')
        PROVE  (Kept(d.of) /\ d \in In(micro)) \/ IsReady(at', behind', seen', chain', d)
    <2>1. CASE d = cb /\ chain[k].settled = LengthOf(k)
      <3>1. LengthOf(k) \in Nat /\ LengthOf(k) <= chain'[k].settled
        BY <1>3, <1>4, <2>1 DEF LengthOf
      <3> QED BY <2>1, <3>1, Zenon DEF IsReady
    <2> QED BY <1>6, <1>8, <1>9, <2>1, Zenon
  <1>10. ASSUME NEW l \in Chains, NEW a \in Thens(chain', l), NEW d \in Waiting(chain', l, a)
         PROVE  \/ Kept(d.of) /\ a \in Thens(chain, l) /\ d \in Waiting(chain, l, a)
                \/ Waits(at', behind', seen', chain', l, d, a)
    BY <1>7, <1>8, <1>10, Zenon
  <1>11. CallsInv'
    BY <1>3, <1>5, <1>9, <1>10, CallsStep, Zenon
  <1>12. OneCallEach(micro', chain')
    BY <1>1, AwaitOnce, Zenon DEF From
  <1> QED BY <1>3, <1>8, <1>11, <1>12, Zenon

LEMMA QueueSettles ==
    ASSUME AdmissionTypes, CallsInv, OneCallEach(micro, chain), NEW k \in Chains, Settle(k)
    PROVE  /\ OneCallEach(micro', chain') /\ CallsInv' /\ micro' \in Seq(Callbacks)
           /\ chain' \in ChainTypes
  <1>1. chain \in ChainTypes
    BY ChainIsTyped
  <1> DEFINE n == chain[k].settled + 1
  <1>2. /\ n \in Thens(chain, k) /\ n <= LengthOf(k) /\ n \in Nat
        /\ micro' \in Seq(Callbacks) /\ chain' \in ChainTypes
        /\ \A l \in Chains \ {k} : chain'[l] = chain[l]
        /\ chain'[k].settled = n /\ chain'[k].members = chain[k].members
    BY SettlePlaces, Zenon
  <1>3. /\ OneCallEach(micro', chain')
        /\ \A d \in In(micro') : d \in In(micro) \/ d \in Waiting(chain, k, n)
        /\ \A l \in Chains : \A a \in Thens(chain', l) :
              a \in Thens(chain, l) /\ Waiting(chain', l, a) \subseteq Waiting(chain, l, a)
    BY SettleOnce, Zenon
  <1>4. \A l \in Chains : Len(chain[l].members) \in Nat /\ chain[l].settled \in Nat
    BY <1>1, ThenTypes
  <1>5. ChainsGrow
    <2>1. ASSUME NEW l \in Chains
          PROVE  /\ chain[l].settled <= chain'[l].settled /\ chain'[l].members = chain[l].members
                 /\ Len(chain[l].members) <= Len(chain[l].members)
      <3>1. CASE l = k
        BY <1>2, <1>4, <3>1
      <3>2. CASE l # k
        <4>1. chain'[l] = chain[l]
          BY <1>2, <3>2, Zenon
        <4> QED BY <1>4, <4>1
      <3> QED BY <3>1, <3>2, Zenon
    <2> QED BY <2>1, Zenon DEF ChainsGrow
  <1>6. \A x : Kept(x)
    BY DEF Settle, SettleAfter, Kept
  <1>7. n <= chain'[k].settled
    BY <1>2
  <1> HIDE DEF n
  <1>8. CallsInv'
    BY <1>2, <1>3, <1>5, <1>6, <1>7, CallsStep, Zenon
  <1> QED BY <1>2, <1>3, <1>8, Zenon

-----------------------------------------------------------------------------
\* HostAdmission: the parts of the invariant, for the steps that do not touch them.

LEMMA TypesFromParts ==
    ASSUME AdmissionTypes,
           at' \in [Messages \cup Commands -> MessageStates \cup CommandStates],
           \A m \in Messages : at'[m] \in MessageStates,
           \A c \in Commands : at'[c] \in CommandStates,
           micro' \in Seq(Callbacks), chain' \in ChainTypes,
           \A k \in Chains : chain'[k].settled <= Len(chain'[k].members)
                             /\ Len(chain'[k].then) = Len(chain'[k].members),
           behind' \in [Messages -> Nat], seen' \in [Messages -> Nat], activeRuns' \in Nat,
           register' \in Messages \cup {NoRun}, active' \in SessionIds, version' \in Nat,
           reading' \in [Snapshots -> ReadStates]
    PROVE  AdmissionTypes'
  BY DEF AdmissionTypes, AdmissionTypeOK, ChainTypes, LengthOf

LEMMA CommandMoves ==
    ASSUME AdmissionTypes, NEW c \in Commands, NEW v \in CommandStates, at' = [at EXCEPT ![c] = v]
    PROVE  /\ at' \in [Messages \cup Commands -> MessageStates \cup CommandStates]
           /\ at'[c] = v /\ c \notin Messages /\ \A x \in Actors \ {c} : at'[x] = at[x]
           /\ \A m \in Messages : at'[m] = at[m] /\ at'[m] \in MessageStates
           /\ \A d \in Commands : at'[d] \in CommandStates
  <1>1. at \in [Messages \cup Commands -> MessageStates \cup CommandStates]
        /\ (\A m \in Messages : at[m] \in MessageStates) /\ \A d \in Commands : at[d] \in CommandStates
    BY DEF AdmissionTypes, AdmissionTypeOK
  <1>2. c \notin Messages
    BY AdmissionAssumption
  <1> QED BY <1>1, <1>2 DEF Actors

LEMMA MessageMoves ==
    ASSUME AdmissionTypes, NEW m \in Messages, NEW v \in MessageStates, at' = [at EXCEPT ![m] = v]
    PROVE  /\ at' \in [Messages \cup Commands -> MessageStates \cup CommandStates]
           /\ at'[m] = v /\ m \notin Commands /\ \A x \in Actors \ {m} : at'[x] = at[x]
           /\ \A n \in Messages : at'[n] \in MessageStates
           /\ \A n \in Messages \ {m} : at'[n] = at[n]
           /\ \A d \in Commands : at'[d] = at[d] /\ at'[d] \in CommandStates
  <1>1. at \in [Messages \cup Commands -> MessageStates \cup CommandStates]
        /\ (\A n \in Messages : at[n] \in MessageStates) /\ \A d \in Commands : at[d] \in CommandStates
    BY DEF AdmissionTypes, AdmissionTypeOK
  <1>2. m \notin Commands
    BY AdmissionAssumption
  <1> QED BY <1>1, <1>2 DEF Actors

\* The members of the chains.
LEMMA MembersStay ==
    ASSUME AdmissionTypes, MembersInv, \A c \in Commands : at'[c] = at[c],
           \A k \in Chains : /\ chain'[k].members = chain[k].members
                             /\ chain'[k].settled = chain[k].settled
    PROVE  MembersInv' /\ Changing' = Changing /\ Changed' = Changed
  <1>1. chain \in ChainTypes
    BY ChainIsTyped
  <1>2. "commands" \in Chains /\ "transitions" \in Chains
    BY DEF Chains
  <1>3. ASSUME NEW k \in Chains
        PROVE  /\ \A i \in 1 .. Len(chain[k].members) : chain[k].members[i] \in Commands
               /\ \A i \in 1 .. chain[k].settled : chain[k].members[i] \in Commands
    <2>1. /\ chain[k].members \in Seq(Commands) /\ chain[k].settled \in Nat
          /\ Len(chain[k].members) \in Nat /\ chain[k].settled <= Len(chain[k].members)
      BY <1>1, ThenTypes DEF AdmissionTypes, LengthOf
    <2> QED BY <2>1
  <1>4. MembersInv'
    <2>1. \A k \in Chains : LengthOf(k)' = LengthOf(k)
      BY Zenon DEF LengthOf
    <2>2. \A k \in Chains : Distinct(chain', k)
      BY Zenon DEF MembersInv, Distinct
    <2>3. \A k \in Chains : \A i \in 1 .. chain'[k].settled : at'[chain'[k].members[i]] \in Over
      BY <1>3, Zenon DEF MembersInv
    <2>4. \A i \in 1 .. LengthOf("commands")' :
             /\ at'[chain'["commands"].members[i]] # "new"
             /\ at'[chain'["commands"].members[i]] # "queued" => i <= chain'["commands"].settled + 1
      BY <1>2, <1>3, <2>1, Zenon DEF MembersInv, LengthOf
    <2>5. \A i \in 1 .. LengthOf("transitions")' :
             /\ at'[chain'["transitions"].members[i]] \in {"admitted", "working"} \cup Over
             /\ at'[chain'["transitions"].members[i]] # "admitted"
                   => i <= chain'["transitions"].settled + 1
      BY <1>2, <1>3, <2>1, Zenon DEF MembersInv, LengthOf
    <2> QED BY <2>2, <2>3, <2>4, <2>5, Zenon DEF MembersInv
  <1>5. Transitions' = Transitions /\ Transitions \subseteq Commands
    BY <1>2, <1>3 DEF Transitions, Members, LengthOf
  <1> QED BY <1>4, <1>5 DEF Changing, Changed

LEMMA MembersTyped ==
    ASSUME AdmissionTypes, NEW k \in Chains
    PROVE  /\ \A i \in 1 .. LengthOf(k) : chain[k].members[i] \in Commands
           /\ chain[k].settled \in Nat /\ LengthOf(k) \in Nat
           /\ \A i \in 1 .. chain[k].settled : i \in 1 .. LengthOf(k)
           /\ chain[k].members \in Seq(Commands)
  <1>1. /\ chain[k].members \in Seq(Commands) /\ chain[k].settled \in Nat
        /\ Len(chain[k].members) \in Nat /\ chain[k].settled <= Len(chain[k].members)
    BY ChainIsTyped, ThenTypes DEF AdmissionTypes, LengthOf
  <1> QED BY <1>1 DEF LengthOf

\* A command moves on where it is in its chains.
LEMMA MemberMoves ==
    ASSUME AdmissionTypes, MembersInv, NEW c \in Commands, NEW v, chain' = chain,
           at'[c] = v, \A d \in Commands \ {c} : at'[d] = at[d],
           at[c] \notin Over, v \in {"working"} \cup Over,
           at[c] = "queued" => Follows(chain, "commands", c, chain["commands"].settled),
           at[c] = "admitted" => Follows(chain, "transitions", c, chain["transitions"].settled)
    PROVE  /\ MembersInv' /\ Transitions' = Transitions /\ Changing' \subseteq Changing \cup {c}
           /\ at[c] = "queued" => c \notin Transitions
  <1>1. "commands" \in Chains /\ "transitions" \in Chains
    BY DEF Chains
  <1>2. \A k \in Chains : LengthOf(k)' = LengthOf(k)
    BY DEF LengthOf
  <1>3. ASSUME NEW k \in Chains, NEW i \in 1 .. chain[k].settled
        PROVE  at'[chain[k].members[i]] \in Over
    <2>1. chain[k].members[i] \in Commands /\ at[chain[k].members[i]] \in Over
      BY MembersTyped DEF MembersInv
    <2> QED BY <2>1
  <1>4. ASSUME NEW k \in Chains, Follows(chain, k, c, chain[k].settled),
               NEW i \in 1 .. LengthOf(k), chain[k].members[i] = c
        PROVE  i <= chain[k].settled + 1
    <2>1. PICK j \in 1 .. LengthOf(k) : chain[k].members[j] = c /\ j <= chain[k].settled + 1
      BY <1>4 DEF Follows, LengthOf
    <2>2. i = j
      BY <1>4, <2>1 DEF MembersInv, Distinct, LengthOf
    <2> QED BY <2>1, <2>2
  <1>5. ASSUME NEW i \in 1 .. LengthOf("commands")
        PROVE  /\ at'[chain["commands"].members[i]] # "new"
               /\ at'[chain["commands"].members[i]] # "queued" => i <= chain["commands"].settled + 1
    <2>1. chain["commands"].members[i] \in Commands
      BY <1>1, MembersTyped
    <2>2. CASE chain["commands"].members[i] = c
      <3>1. at[c] # "new" /\ (at[c] # "queued" => i <= chain["commands"].settled + 1)
        BY <2>2 DEF MembersInv
      <3>2. at'[c] # "new"
        BY DEF Over
      <3> QED BY <1>1, <1>4, <2>2, <3>1, <3>2
    <2>3. CASE chain["commands"].members[i] # c
      BY <2>1, <2>3 DEF MembersInv
    <2> QED BY <2>2, <2>3
  <1>6. ASSUME NEW i \in 1 .. LengthOf("transitions")
        PROVE  /\ at'[chain["transitions"].members[i]] \in {"admitted", "working"} \cup Over
               /\ at'[chain["transitions"].members[i]] # "admitted"
                     => i <= chain["transitions"].settled + 1
    <2>1. chain["transitions"].members[i] \in Commands
      BY <1>1, MembersTyped
    <2>2. CASE chain["transitions"].members[i] = c
      <3>1. at[c] # "admitted" => i <= chain["transitions"].settled + 1
        BY <2>2 DEF MembersInv
      <3>2. at'[c] \in {"admitted", "working"} \cup Over
        BY Zenon
      <3>3. i <= chain["transitions"].settled + 1
        BY <1>1, <1>4, <2>2, <3>1
      <3> QED BY <2>2, <3>2, <3>3
    <2>3. CASE chain["transitions"].members[i] # c
      BY <2>1, <2>3 DEF MembersInv
    <2> QED BY <2>2, <2>3
  <1>7. \A k \in Chains : Distinct(chain, k)
    BY DEF MembersInv
  <1>8. MembersInv'
    BY <1>2, <1>3, <1>5, <1>6, <1>7 DEF MembersInv, LengthOf
  <1>9. Transitions' = Transitions /\ Transitions \subseteq Commands
    BY <1>1, MembersTyped DEF Transitions, Members, LengthOf
  <1>10. Changing' \subseteq Changing \cup {c}
    BY <1>9 DEF Changing
  <1>11. ASSUME at[c] = "queued", c \in Transitions PROVE FALSE
    <2>1. PICK i \in 1 .. LengthOf("transitions") : chain["transitions"].members[i] = c
      BY <1>11, Zenon DEF Transitions, Members
    <2>2. at[c] \in {"admitted", "working"} \cup Over
      BY <2>1 DEF MembersInv
    <2> QED BY <1>11, <2>2 DEF Over
  <1> QED BY <1>8, <1>9, <1>10, <1>11

\* A command joins a chain, as its last member.
LEMMA MemberJoins ==
    ASSUME AdmissionTypes, MembersInv, NEW c \in Commands, NEW k \in Chains, NEW v,
           at'[c] = v, \A d \in Commands \ {c} : at'[d] = at[d],
           \A l \in Chains \ {k} : chain'[l] = chain[l],
           chain'[k].settled = chain[k].settled,
           chain'[k].members = chain[k].members \o <<c>>,
           \/ k = "commands" /\ at[c] = "new" /\ v = "queued"
           \/ /\ k = "transitions" /\ at[c] = "queued" /\ v = "admitted"
              /\ Follows(chain, "commands", c, chain["commands"].settled)
    PROVE  /\ MembersInv' /\ Changing' = Changing /\ Changed' = Changed
           /\ LengthOf(k)' = LengthOf(k) + 1 /\ Follows(chain', k, c, LengthOf(k))
  <1> DEFINE q == chain[k].members
             r == chain'[k].members
             last == Len(q) + 1
  <1>1. "commands" \in Chains /\ "transitions" \in Chains
    BY DEF Chains
  <1>2. /\ q \in Seq(Commands) /\ Len(q) \in Nat /\ chain[k].settled <= Len(q)
        /\ chain[k].settled \in Nat
    BY MembersTyped DEF LengthOf, AdmissionTypes
  <1>3. /\ Len(r) = last /\ r[last] = c /\ last \in 1 .. Len(r)
        /\ \A i \in 1 .. Len(q) : r[i] = q[i] /\ q[i] \in Commands
    BY <1>2
  <1>4. \A i \in 1 .. Len(r) : i \in 1 .. Len(q) \/ i = last
    BY <1>2, <1>3
  <1>5. ASSUME NEW i \in 1 .. Len(q) PROVE q[i] # c
    <2>1. CASE k = "commands" /\ at[c] = "new"
      BY <1>5, <2>1 DEF MembersInv, LengthOf
    <2>2. CASE k = "transitions" /\ at[c] = "queued"
      <3>1. at[q[i]] \in {"admitted", "working"} \cup Over
        BY <1>5, <2>2 DEF MembersInv, LengthOf
      <3> QED BY <2>2, <3>1 DEF Over
    <2> QED BY <2>1, <2>2
  <1>6. at[c] \notin Over /\ v \notin Over /\ v # "new" /\ v # "working" /\ at[c] # "working"
    BY DEF Over
  <1>7. ASSUME NEW l \in Chains, NEW i \in 1 .. chain'[l].settled
        PROVE  at'[chain'[l].members[i]] \in Over
    <2>1. chain'[l].settled = chain[l].settled
      BY Zenon
    <2>2. chain[l].members[i] \in Commands /\ at[chain[l].members[i]] \in Over
      BY <2>1, MembersTyped DEF MembersInv
    <2>3. chain'[l].members[i] = chain[l].members[i]
      BY <1>2, <1>3, <1>7, <2>1
    <2> QED BY <1>6, <2>2, <2>3
  <1>8. ASSUME NEW l \in Chains PROVE Distinct(chain', l)
    <2>1. CASE l # k
      BY <2>1 DEF MembersInv, Distinct
    <2>2. CASE l = k
      <3> SUFFICES ASSUME NEW i \in 1 .. Len(r), NEW j \in 1 .. Len(r), r[i] = r[j] PROVE i = j
        BY <2>2 DEF Distinct
      <3>1. \A a, b \in 1 .. Len(q) : q[a] = q[b] => a = b
        BY DEF MembersInv, Distinct
      <3> HIDE DEF q, r, last
      <3> QED BY <1>3, <1>4, <1>5, <3>1, Zenon
    <2> QED BY <2>1, <2>2
  <1>9. \A l \in Chains \ {k} : LengthOf(l)' = LengthOf(l)
    BY DEF LengthOf
  <1>10. LengthOf(k)' = last /\ LengthOf(k) = Len(q)
    BY <1>3 DEF LengthOf
  <1>11. ASSUME NEW i \in 1 .. LengthOf("commands")'
         PROVE  /\ at'[chain'["commands"].members[i]] # "new"
                /\ at'[chain'["commands"].members[i]] # "queued" => i <= chain'["commands"].settled + 1
    <2>1. CASE k = "commands" /\ i = last
      BY <1>3, <1>6, <2>1
    <2>2. CASE /\ i \in 1 .. LengthOf("commands")
               /\ chain'["commands"].members[i] = chain["commands"].members[i]
               /\ chain'["commands"].settled = chain["commands"].settled
      <3>1. /\ chain["commands"].members[i] \in Commands
            /\ at[chain["commands"].members[i]] # "new"
            /\ at[chain["commands"].members[i]] # "queued" => i <= chain["commands"].settled + 1
        BY <1>1, <2>2, MembersTyped DEF MembersInv
      <3>2. CASE chain["commands"].members[i] # c
        BY <2>2, <3>1, <3>2
      <3>3. CASE chain["commands"].members[i] = c
        <4>1. k # "commands"
          BY <1>5, <2>2, <3>3 DEF LengthOf
        <4>2. PICK j \in 1 .. LengthOf("commands") :
                 chain["commands"].members[j] = c /\ j <= chain["commands"].settled + 1
          BY <4>1 DEF Follows, LengthOf
        <4>3. i = j
          BY <1>1, <2>2, <3>3, <4>2 DEF MembersInv, Distinct, LengthOf
        <4> QED BY <1>6, <2>2, <3>3, <4>2, <4>3
      <3> QED BY <3>2, <3>3
    <2>3. k # "commands" => i \in 1 .. LengthOf("commands")
      BY <1>1, <1>9
    <2>4. k = "commands" => i \in 1 .. LengthOf("commands") \/ i = last
      BY <1>4, <1>10
    <2>5. chain'["commands"].settled = chain["commands"].settled
      BY <1>1, Zenon
    <2>6. i \in 1 .. LengthOf("commands") => chain'["commands"].members[i] = chain["commands"].members[i]
      BY <1>1, <1>3 DEF LengthOf
    <2> QED BY <2>1, <2>2, <2>3, <2>4, <2>5, <2>6, Zenon
  <1>12. ASSUME NEW i \in 1 .. LengthOf("transitions")'
         PROVE  /\ at'[chain'["transitions"].members[i]] \in {"admitted", "working"} \cup Over
                /\ at'[chain'["transitions"].members[i]] # "admitted"
                      => i <= chain'["transitions"].settled + 1
    <2>1. CASE k = "transitions" /\ i = last
      <3>1. v = "admitted"
        BY <2>1
      <3> QED BY <1>3, <2>1, <3>1
    <2>2. CASE /\ i \in 1 .. LengthOf("transitions")
               /\ chain'["transitions"].members[i] = chain["transitions"].members[i]
               /\ chain'["transitions"].settled = chain["transitions"].settled
      <3>1. /\ chain["transitions"].members[i] \in Commands
            /\ at[chain["transitions"].members[i]] \in {"admitted", "working"} \cup Over
            /\ at[chain["transitions"].members[i]] # "admitted" => i <= chain["transitions"].settled + 1
        BY <1>1, <2>2, MembersTyped DEF MembersInv
      <3>2. chain["transitions"].members[i] # c
        BY <1>6, <3>1 DEF Over
      <3> QED BY <2>2, <3>1, <3>2
    <2>3. k # "transitions" => i \in 1 .. LengthOf("transitions")
      BY <1>1, <1>9
    <2>4. k = "transitions" => i \in 1 .. LengthOf("transitions") \/ i = last
      BY <1>4, <1>10
    <2>5. chain'["transitions"].settled = chain["transitions"].settled
      BY <1>1, Zenon
    <2>6. i \in 1 .. LengthOf("transitions") => chain'["transitions"].members[i] = chain["transitions"].members[i]
      BY <1>1, <1>3 DEF LengthOf
    <2> QED BY <2>1, <2>2, <2>3, <2>4, <2>5, <2>6, Zenon
  <1>13. MembersInv'
    BY <1>7, <1>8, <1>11, <1>12 DEF MembersInv
  <1>14. Transitions' \subseteq Transitions \cup {c} /\ Transitions \subseteq Transitions'
    <2>1. CASE k = "transitions"
      <3>1. Transitions = {q[i] : i \in 1 .. Len(q)} /\ Transitions' = {r[i] : i \in 1 .. Len(r)}
        BY <2>1 DEF Transitions, Members, LengthOf
      <3>2. \A i \in 1 .. Len(q) : i \in 1 .. Len(r)
        BY <1>2, <1>3
      <3> HIDE DEF q, r, last
      <3> QED BY <1>3, <1>4, <3>1, <3>2
    <2>2. CASE k # "transitions"
      <3>1. chain'["transitions"] = chain["transitions"]
        BY <1>1, <2>2
      <3> QED BY <3>1 DEF Transitions, Members, LengthOf
    <2> QED BY <2>1, <2>2
  <1>15. Transitions \subseteq Commands
    BY <1>1, MembersTyped DEF Transitions, Members
  <1>16. \A t \in Transitions : at'[t] = at[t] \/ t = c
    BY <1>15
  <1>17. at[c] # "done" /\ v # "done"
    BY <1>6 DEF Over
  <1>18. Changing' = Changing /\ Changed' = Changed
    BY <1>6, <1>14, <1>16, <1>17 DEF Changing, Changed
  <1>19. Follows(chain', k, c, LengthOf(k))
    BY <1>2, <1>3, <1>10 DEF Follows
  <1> QED BY <1>10, <1>13, <1>18, <1>19

LEMMA MemberSettles ==
    ASSUME AdmissionTypes, MembersInv, NEW k \in Chains, Settle(k)
    PROVE  MembersInv' /\ Changing' = Changing /\ Changed' = Changed
           /\ \A l \in Chains : chain[l].settled <= chain'[l].settled
  <1> DEFINE n == chain[k].settled + 1
  <1>1. /\ n <= LengthOf(k) /\ n \in Nat /\ at[chain[k].members[n]] \in Over
        /\ \A l \in Chains \ {k} : chain'[l] = chain[l]
        /\ chain'[k].settled = n /\ chain'[k].members = chain[k].members
    BY SettlePlaces, Zenon
  <1>2. at' = at
    BY DEF Settle, SettleAfter
  <1>3. "commands" \in Chains /\ "transitions" \in Chains
    BY DEF Chains
  <1>4. \A l \in Chains : chain'[l].members = chain[l].members
    BY <1>1, Zenon
  <1>5. \A l \in Chains : LengthOf(l)' = LengthOf(l)
    BY <1>4 DEF LengthOf
  <1>6. ASSUME NEW l \in Chains
        PROVE  /\ chain[l].settled <= chain'[l].settled /\ chain[l].settled \in Nat
               /\ \A i \in 1 .. chain'[l].settled : at[chain[l].members[i]] \in Over
               /\ chain'[l].settled \in Nat
    <2>1. chain[l].settled \in Nat /\ \A i \in 1 .. chain[l].settled : at[chain[l].members[i]] \in Over
      BY MembersTyped DEF MembersInv
    <2>2. CASE l = k
      BY <1>1, <2>1, <2>2
    <2>3. CASE l # k
      <3>1. chain'[l] = chain[l]
        BY <1>1, <2>3, Zenon
      <3> QED BY <2>1, <3>1
    <2> QED BY <2>2, <2>3
  <1> HIDE DEF n
  <1>7. ASSUME NEW l \in Chains PROVE Distinct(chain', l)
    BY <1>4, Zenon DEF MembersInv, Distinct
  <1>8. ASSUME NEW i \in 1 .. LengthOf("commands")
        PROVE  /\ at[chain["commands"].members[i]] # "new"
               /\ at[chain["commands"].members[i]] # "queued" => i <= chain'["commands"].settled + 1
    BY <1>3, <1>6 DEF MembersInv
  <1>9. ASSUME NEW i \in 1 .. LengthOf("transitions")
        PROVE  /\ at[chain["transitions"].members[i]] \in {"admitted", "working"} \cup Over
               /\ at[chain["transitions"].members[i]] # "admitted"
                     => i <= chain'["transitions"].settled + 1
    <2>1. /\ at[chain["transitions"].members[i]] \in {"admitted", "working"} \cup Over
          /\ at[chain["transitions"].members[i]] # "admitted" => i <= chain["transitions"].settled + 1
      BY DEF MembersInv
    <2> QED BY <1>3, <1>6, <2>1
  <1>10. MembersInv'
    BY <1>2, <1>3, <1>4, <1>5, <1>6, <1>7, <1>8, <1>9, Zenon DEF MembersInv
  <1>11. Transitions' = Transitions
    BY <1>3, <1>4, <1>5, Zenon DEF Transitions, Members
  <1> QED BY <1>2, <1>6, <1>10, <1>11, Zenon DEF Changing, Changed

\* Entering: no step but CheckRun adds to what works, and only Look lets in.
LEMMA EnterStays ==
    ASSUME EnterInv, EntersFirst(micro'), \A d \in In(micro') : d.do = "enter" => d \in In(micro),
           Turning' \subseteq Turning, Changing' \subseteq Changing
    PROVE  EnterInv'
  BY Zenon DEF EnterInv

\* A message that has not begun, or has begun and stays where it is.
Early == {"new", "queued", "waiting", "gone"}
EarlyMoves == \A m \in Messages : at'[m] = at[m] \/ (at[m] \in Early /\ at'[m] \in Early)

LEMMA EarlyFacts ==
    ASSUME EarlyMoves
    PROVE  /\ Turning' = Turning /\ Ended' = Ended /\ Written' = Written
           /\ \A m \in Messages : at[m] \in {"running", "written", "leaving", "done"} => at'[m] = at[m]
           /\ \A m \in Messages : at'[m] \in {"running", "written", "leaving"} =>
                 at[m] \in {"running", "written", "leaving"}
  <1>1. \A x \in Early : x \notin {"running", "written", "leaving", "done"}
    BY DEF Early
  <1> QED BY <1>1 DEF EarlyMoves, Turning, Ended, Written

LEMMA EarlySnapshots ==
    ASSUME AdmissionTypes, SnapshotsInv, EarlyMoves, reading' = reading, version' = version
    PROVE  SnapshotsInv'
  <1>1. /\ Turning' = Turning /\ Ended' = Ended /\ Written' = Written
        /\ \A m \in Messages : at[m] \in {"running", "written", "leaving", "done"} => at'[m] = at[m]
    BY EarlyFacts
  <1>2. \A s \in Snapshots : reading[s].before # NoRun => reading[s].before \in Messages
    BY DEF AdmissionTypes, AdmissionTypeOK, ReadStates
  <1> QED BY <1>1, <1>2, Zenon DEF SnapshotsInv

BehindInv == \A m \in Messages :
    at[m] \in {"waiting", "running", "written"} => behind[m] <= chain["commands"].settled

LEMMA HoldingCount ==
    ASSUME AdmissionTypes, RunsInv, Holding' \subseteq Holding
    PROVE  Cardinality(Holding') <= activeRuns /\ activeRuns \in Nat /\ IsFiniteSet(Holding)
  <1>1. Holding \subseteq Messages
    BY DEF Holding, Leaving
  <1>2. IsFiniteSet(Holding)
    BY <1>1, AdmissionAssumption, FS_Subset
  <1>3. Cardinality(Holding') <= Cardinality(Holding) /\ Cardinality(Holding) \in Nat
        /\ Cardinality(Holding') \in Nat
    <2> HIDE DEF Holding
    <2> QED BY <1>2, FS_Subset, FS_CardinalityType
  <1> QED BY <1>2, <1>3 DEF RunsInv, AdmissionTypes, AdmissionTypeOK

LEMMA EarlyRuns ==
    ASSUME AdmissionTypes, RunsInv, EarlyMoves, register' = register, activeRuns' = activeRuns,
           \A d \in In(micro') : d.do = "leave" => d \in In(micro), BehindInv'
    PROVE  RunsInv'
  <1>1. /\ Turning' = Turning
        /\ \A m \in Messages : at'[m] \in {"running", "written", "leaving"} =>
                 at[m] \in {"running", "written", "leaving"}
    BY EarlyFacts
  <1>2. \A m \in Messages : Callback("leave", m).do = "leave"
    BY DEF Callback
  <1>3. Holding' \subseteq Holding
    BY <1>1, <1>2, Zenon DEF Holding, Leaving
  <1>4. Cardinality(Holding)' <= activeRuns'
    BY <1>3, HoldingCount
  <1> QED BY <1>1, <1>4, Zenon DEF RunsInv, BehindInv

-----------------------------------------------------------------------------
\* HostAdmission: every step keeps the invariant.

LEMMA StateTyped ==
    ASSUME AdmissionTypes
    PROVE  /\ at \in [Messages \cup Commands -> MessageStates \cup CommandStates]
           /\ \A m \in Messages : at[m] \in MessageStates
           /\ \A c \in Commands : at[c] \in CommandStates
           /\ micro \in Seq(Callbacks) /\ chain \in ChainTypes
           /\ \A k \in Chains : chain[k].settled <= Len(chain[k].members)
                                /\ Len(chain[k].then) = Len(chain[k].members)
           /\ behind \in [Messages -> Nat] /\ seen \in [Messages -> Nat] /\ activeRuns \in Nat
           /\ register \in Messages \cup {NoRun} /\ active \in SessionIds /\ version \in Nat
           /\ reading \in [Snapshots -> ReadStates]
  BY DEF AdmissionTypes, AdmissionTypeOK, ChainTypes, LengthOf

LEMMA CallbackTypes ==
    /\ \A do, x : Callback(do, x).do = do /\ Callback(do, x).of = x
    /\ \A m \in Messages : \A do \in {"message", "look", "enter", "leave"} : Callback(do, m) \in Callbacks
    /\ \A c \in Commands : \A do \in {"start", "check"} : Callback(do, c) \in Callbacks
    /\ "commands" \in Chains /\ "transitions" \in Chains /\ "commands" # "transitions"
    /\ Messages \subseteq Actors /\ Commands \subseteq Actors
    /\ \A k \in Chains : k = "commands" \/ k = "transitions"
  BY DEF Callback, Callbacks, Chains, Actors

LEMMA AwaitLens ==
    ASSUME AdmissionTypes, NEW k \in Chains, NEW add \in Seq(Commands), NEW cb \in Callbacks,
           NEW q \in Seq(Callbacks), Await(k, add, cb, q)
    PROVE  \A l \in Chains :
              /\ chain'[l].settled <= Len(chain'[l].members)
              /\ Len(chain'[l].then) = Len(chain'[l].members)
              /\ chain'[l].settled = chain[l].settled
  <1>1. /\ \A l \in Chains \ {k} : chain'[l] = chain[l]
        /\ chain'[k].settled = chain[k].settled
        /\ Len(chain'[k].then) = Len(chain'[k].members)
        /\ Len(chain'[k].members) = LengthOf(k) + Len(add)
    BY AwaitFacts, Zenon
  <1>2. \A l \in Chains : /\ chain[l].settled <= LengthOf(l) /\ Len(chain[l].then) = LengthOf(l)
                          /\ LengthOf(l) \in Nat /\ chain[l].settled \in Nat
    BY MembersTyped DEF AdmissionTypes
  <1>3. Len(add) \in Nat
    OBVIOUS
  <1>4. chain[k].settled <= LengthOf(k) + Len(add)
    BY <1>2, <1>3
  <1>5. ASSUME NEW l \in Chains, l # k
        PROVE  /\ chain'[l].settled <= Len(chain'[l].members)
               /\ Len(chain'[l].then) = Len(chain'[l].members)
               /\ chain'[l].settled = chain[l].settled
    <2>1. chain'[l] = chain[l]
      BY <1>1, <1>5, Zenon
    <2> QED BY <1>2, <2>1, Zenon DEF LengthOf
  <1> QED BY <1>1, <1>4, <1>5, Zenon

\* What every step of a command, and of a message before its turn, has to show.
LEMMA EarlyStep ==
    ASSUME AdmissionInv, AdmissionTypes', OneCallEach(micro', chain'), CallsInv', MembersInv', EnterInv',
           EarlyMoves, BehindInv', \A d \in In(micro') : d.do = "leave" => d \in In(micro),
           register' = register, activeRuns' = activeRuns, version' = version, reading' = reading
    PROVE  AdmissionInv'
  <1>1. RunsInv' /\ SnapshotsInv'
    BY EarlyRuns, EarlySnapshots DEF AdmissionInv
  <1> QED BY <1>1, Zenon DEF AdmissionInv, OrderOfCalls

LEMMA BehindStays ==
    ASSUME AdmissionInv, \A m \in Messages : at'[m] = at[m] /\ behind'[m] = behind[m],
           chain["commands"].settled <= chain'["commands"].settled, AdmissionTypes'
    PROVE  BehindInv'
  <1>1. chain["commands"].settled \in Nat /\ chain'["commands"].settled \in Nat
    <2>1. chain \in ChainTypes /\ chain' \in ChainTypes
      BY StateTyped DEF AdmissionInv, AdmissionTypes, AdmissionTypeOK, ChainTypes
    <2> QED BY <2>1, ThenTypes, CallbackTypes
  <1>2. \A m \in Messages : behind[m] \in Nat
    BY StateTyped DEF AdmissionInv
  <1>3. BehindInv
    BY Zenon DEF AdmissionInv, RunsInv, BehindInv
  <1> QED BY <1>1, <1>2, <1>3 DEF BehindInv

LEMMA EntersQueue ==
    ASSUME NEW q \in Seq(Callbacks), NEW cb \in Callbacks, EntersFirst(q), cb.do # "enter",
           micro' = q \/ micro' = Append(q, cb)
    PROVE  EntersFirst(micro')
  <1>1. EntersFirst(Append(q, cb))
    BY EntersAppend
  <1> QED BY <1>1, Zenon

LEMMA EnqueueStep ==
    ASSUME AdmissionInv, NEW c \in Commands, Enqueue(c)
    PROVE  AdmissionInv' /\ Changing' = Changing /\ Changed' = Changed /\ Turning' = Turning
  <1> DEFINE cb == Callback("start", c)
  <1>1. AdmissionTypes /\ OneCallEach(micro, chain) /\ CallsInv /\ MembersInv /\ EnterInv
    BY DEF AdmissionInv, OrderOfCalls
  <1>2. /\ at[c] = "new" /\ at' = [at EXCEPT ![c] = "queued"] /\ Await("commands", <<c>>, cb, micro)
        /\ UNCHANGED <<behind, seen, activeRuns, register, active, version, reading>>
    BY DEF Enqueue, sessionVars
  <1>3. cb \in Callbacks /\ cb.of = c /\ cb.do = "start" /\ "commands" \in Chains /\ c \in Actors
    BY CallbackTypes
  <1> HIDE DEF cb
  <1>4. /\ at' \in [Messages \cup Commands -> MessageStates \cup CommandStates]
        /\ at'[c] = "queued" /\ \A x \in Actors \ {c} : at'[x] = at[x]
        /\ \A m \in Messages : at'[m] = at[m] /\ at'[m] \in MessageStates
        /\ \A d \in Commands : at'[d] \in CommandStates
    BY <1>1, <1>2, CommandMoves DEF CommandStates
  <1>5. <<c>> \in Seq(Commands) /\ micro \in Seq(Callbacks)
    BY <1>1, StateTyped
  <1>6. /\ \A l \in Chains \ {"commands"} : chain'[l] = chain[l]
        /\ chain'["commands"].settled = chain["commands"].settled
        /\ chain'["commands"].members = chain["commands"].members \o <<c>>
    BY <1>1, <1>2, <1>3, <1>5, AwaitFacts, Zenon
  <1>7. /\ MembersInv' /\ Changing' = Changing /\ Changed' = Changed
        /\ Follows(chain', "commands", c, LengthOf("commands"))
    <2>1. \A d \in Commands \ {c} : at'[d] = at[d]
      BY <1>4, CallbackTypes
    <2> QED BY <1>1, <1>2, <1>3, <1>4, <1>6, <2>1, MemberJoins, Zenon
  <1>8. From(micro, c)
    BY <1>1, <1>2, <1>3, FromAll
  <1>9. \A y \in Actors \ {c} : Kept(y)
    BY <1>2, <1>4 DEF Kept
  <1>10. Waits(at', behind', seen', chain', "commands", cb, LengthOf("commands"))
    BY <1>3, <1>4, <1>7, Zenon DEF Waits
  <1>11. /\ OneCallEach(micro', chain') /\ CallsInv' /\ micro' \in Seq(Callbacks)
         /\ chain' \in ChainTypes /\ (\A d \in In(micro') : d \in In(micro) \/ d = cb)
         /\ (micro' = micro \/ micro' = Append(micro, cb))
    BY <1>1, <1>2, <1>3, <1>5, <1>8, <1>9, <1>10, QueueAwaits, Zenon
  <1>12. \A l \in Chains : /\ chain'[l].settled <= Len(chain'[l].members)
                           /\ Len(chain'[l].then) = Len(chain'[l].members)
    BY <1>1, <1>2, <1>3, <1>5, AwaitLens, Zenon
  <1>13. AdmissionTypes'
    BY <1>1, <1>2, <1>4, <1>11, <1>12, StateTyped, TypesFromParts, Zenon
  <1>14. EarlyMoves
    BY <1>4 DEF EarlyMoves
  <1>15. Turning' = Turning
    BY <1>14, EarlyFacts
  <1>16. EnterInv'
    <2>1. EntersFirst(micro')
      BY <1>1, <1>3, <1>5, <1>11, EntersQueue DEF EnterInv
    <2>2. \A d \in In(micro') : d.do = "enter" => d \in In(micro)
      BY <1>3, <1>11
    <2> QED BY <1>1, <1>7, <1>15, <2>1, <2>2, EnterStays, Zenon
  <1>17. BehindInv'
    <2>1. chain["commands"].settled <= chain'["commands"].settled
      BY <1>1, <1>3, <1>6, MembersTyped
    <2> QED BY <1>2, <1>4, <1>13, <2>1, BehindStays
  <1>18. \A d \in In(micro') : d.do = "leave" => d \in In(micro)
    BY <1>3, <1>11
  <1> QED BY <1>2, <1>7, <1>11, <1>13, <1>14, <1>15, <1>16, <1>17, <1>18, EarlyStep, Zenon

\* A callback of a command that ends as it is, its outcome apart.
LEMMA CommandStep ==
    ASSUME AdmissionInv, NEW c \in Commands, NEW do \in {"start", "check"}, Runs(do, c),
           NEW v \in {"working", "refused"}, at' = [at EXCEPT ![c] = v], micro' = Tail(micro),
           chain' = chain, UNCHANGED <<behind, seen, sessionVars, reading>>,
           v = "working" => activeRuns = 0
    PROVE  /\ AdmissionInv' /\ Turning' = Turning /\ Transitions' = Transitions
           /\ at'[c] = v /\ \A d \in Commands \ {c} : at'[d] = at[d]
           /\ at[c] \in {"queued", "admitted"}
           /\ do = "start" => at[c] = "queued"
           /\ at[c] = "queued" => c \notin Transitions
           /\ at[c] = "admitted" /\ v = "working" => Changing = {} /\ Turning = {}
  <1> DEFINE cb == Callback(do, c)
             q == Tail(micro)
  <1>1. AdmissionTypes /\ OneCallEach(micro, chain) /\ CallsInv /\ MembersInv /\ EnterInv /\ RunsInv
    BY DEF AdmissionInv, OrderOfCalls
  <1>2. UNCHANGED <<behind, seen, activeRuns, register, active, version, reading>>
    BY DEF sessionVars
  <1>3. cb \in Callbacks /\ cb.of = c /\ cb.do = do /\ c \in Actors
    BY CallbackTypes
  <1>4. /\ at' \in [Messages \cup Commands -> MessageStates \cup CommandStates]
        /\ at'[c] = v /\ c \notin Messages /\ \A x \in Actors \ {c} : at'[x] = at[x]
        /\ \A m \in Messages : at'[m] = at[m] /\ at'[m] \in MessageStates
        /\ \A d \in Commands : at'[d] \in CommandStates
    BY <1>1, CommandMoves DEF CommandStates
  <1>5. /\ From(q, c) /\ Head(micro) = cb /\ micro # <<>> /\ In(micro) = {cb} \cup In(q)
        /\ IsReady(at, behind, seen, chain, cb)
    BY <1>1, FromHead
  <1> HIDE DEF cb
  <1>6. /\ at[c] \in {"queued", "admitted"} /\ (do = "start" => at[c] = "queued")
        /\ (do = "check" => at[c] = "admitted")
        /\ at[c] = "queued" => Follows(chain, "commands", c, chain["commands"].settled)
        /\ at[c] = "admitted" => Follows(chain, "transitions", c, chain["transitions"].settled)
    <2>1. PICK k \in Chains, n \in Nat :
             n <= chain[k].settled /\ Waits(at, behind, seen, chain, k, cb, n)
      BY <1>3, <1>4, <1>5, Zenon DEF IsReady
    <2>2. ASSUME Follows(chain, k, c, n) PROVE Follows(chain, k, c, chain[k].settled)
      <3>1. chain[k].settled \in Nat
        BY <1>1, MembersTyped
      <3>2. PICK j \in 1 .. Len(chain[k].members) : chain[k].members[j] = c /\ j <= n + 1
        BY <2>2 DEF Follows
      <3>3. j <= chain[k].settled + 1
        BY <2>1, <3>1, <3>2
      <3> QED BY <3>2, <3>3 DEF Follows
    <2>3. CASE do = "start"
      <3>1. k = "commands" /\ at[c] = "queued" /\ Follows(chain, k, c, n)
        BY <1>3, <2>1, <2>3 DEF Waits
      <3> QED BY <2>2, <2>3, <3>1
    <2>4. CASE do = "check"
      <3>1. k = "transitions" /\ at[c] = "admitted" /\ Follows(chain, k, c, n)
        BY <1>3, <2>1, <2>4 DEF Waits
      <3> QED BY <2>2, <2>4, <3>1
    <2> QED BY <2>3, <2>4
  <1>7. /\ MembersInv' /\ Transitions' = Transitions /\ Changing' \subseteq Changing \cup {c}
        /\ at[c] = "queued" => c \notin Transitions
    <2>1. \A d \in Commands \ {c} : at'[d] = at[d]
      BY <1>4, CallbackTypes
    <2>2. at[c] \notin Over /\ v \in {"working"} \cup Over
      BY <1>6 DEF Over
    <2> QED BY <1>1, <1>4, <1>6, <2>1, <2>2, MemberMoves, Zenon
  <1>8. \A y \in Actors \ {c} : Kept(y)
    BY <1>2, <1>4 DEF Kept
  <1>9. /\ OneCallEach(micro', chain') /\ CallsInv' /\ micro' \in Seq(Callbacks)
        /\ chain' \in ChainTypes
    BY <1>1, <1>5, <1>8, QueueStays, Zenon
  <1>10. AdmissionTypes'
    BY <1>1, <1>2, <1>4, <1>9, StateTyped, TypesFromParts, Zenon
  <1>11. EarlyMoves
    BY <1>4 DEF EarlyMoves
  <1>12. Turning' = Turning
    BY <1>11, EarlyFacts
  <1>13. EntersFirst(micro') /\ \A d \in In(micro') : d \in In(micro)
    BY <1>1, <1>5, EntersTail, StateTyped DEF EnterInv
  <1>14. at[c] = "admitted" /\ v = "working" => Turning = {} /\ Changing = {} /\ \A d \in In(micro) : d.do # "enter"
    <2> SUFFICES ASSUME at[c] = "admitted", v = "working"
                 PROVE  Turning = {} /\ Changing = {} /\ \A d \in In(micro) : d.do # "enter"
      OBVIOUS
    <2>1. do = "check"
      BY <1>6
    <2>2. Turning = {}
      <3>1. Holding = {}
        <4>1. Cardinality(Holding) <= 0 /\ IsFiniteSet(Holding)
          <5>1. activeRuns = 0
            OBVIOUS
          <5>2. Cardinality(Holding) <= activeRuns
            BY <1>1, Zenon DEF RunsInv
          <5>3. Holding \subseteq Messages
            BY DEF Holding, Leaving
          <5>4. IsFiniteSet(Holding)
            BY <5>3, AdmissionAssumption, FS_Subset
          <5> QED BY <5>1, <5>2, <5>4
        <4>2. Cardinality(Holding) \in Nat
          BY <4>1, FS_CardinalityType
        <4>3. Cardinality(Holding) = 0
          BY <4>1, <4>2
        <4> QED BY <4>1, <4>3, FS_EmptySet
      <3> QED BY <3>1 DEF Holding, Turning
    <2>3. \A d \in In(micro) : d.do # "enter"
      <3>1. Head(micro).do = "check"
        BY <1>3, <1>5, <2>1, Zenon
      <3> QED BY <1>1, <1>5, <3>1, EntersTail, StateTyped DEF EnterInv
    <2>4. Changing = {}
      <3> SUFFICES ASSUME NEW d \in Changing PROVE FALSE
        OBVIOUS
      <3>1. PICK i \in 1 .. LengthOf("transitions") : chain["transitions"].members[i] = d
        BY Zenon DEF Changing, Transitions, Members
      <3>2. PICK j \in 1 .. LengthOf("transitions") :
               chain["transitions"].members[j] = c /\ j <= chain["transitions"].settled + 1
        BY <1>6 DEF Follows, LengthOf
      <3>3. at[d] = "working"
        BY DEF Changing
      <3>4. chain["transitions"].settled \in Nat
            /\ \A n \in 1 .. chain["transitions"].settled : at[chain["transitions"].members[n]] \in Over
        BY <1>1, CallbackTypes, MembersTyped DEF MembersInv
      <3>5. i <= chain["transitions"].settled + 1
        BY <1>1, <3>1, <3>3 DEF MembersInv
      <3>6. i = chain["transitions"].settled + 1
        BY <3>1, <3>3, <3>4, <3>5 DEF Over
      <3>7. j = chain["transitions"].settled + 1
        BY <3>2, <3>4 DEF Over
      <3> QED BY <3>1, <3>2, <3>3, <3>6, <3>7
    <2> QED BY <2>2, <2>3, <2>4
  <1>15. Changing' \subseteq Changing \/ (at[c] = "admitted" /\ v = "working")
    <2>1. CASE at[c] = "queued"
      BY <1>7, <2>1 DEF Changing
    <2>2. CASE v = "refused"
      BY <1>4, <1>7, <2>2 DEF Changing
    <2> QED BY <1>6, <2>1, <2>2
  <1>16. EnterInv'
    <2>1. CASE Changing' \subseteq Changing
      BY <1>1, <1>12, <1>13, <2>1, EnterStays, Zenon
    <2>2. CASE at[c] = "admitted" /\ v = "working"
      BY <1>12, <1>13, <1>14, <2>2, Zenon DEF EnterInv
    <2> QED BY <1>15, <2>1, <2>2
  <1>17. BehindInv'
    <2>1. chain["commands"].settled <= chain'["commands"].settled
      BY <1>1, CallbackTypes, MembersTyped
    <2> QED BY <1>2, <1>4, <1>10, <2>1, BehindStays
  <1>18. AdmissionInv'
    BY <1>2, <1>7, <1>9, <1>10, <1>11, <1>13, <1>16, <1>17, EarlyStep, Zenon
  <1>19. \A d \in Commands \ {c} : at'[d] = at[d]
    BY <1>4, CallbackTypes
  <1> QED BY <1>4, <1>6, <1>7, <1>12, <1>14, <1>18, <1>19, Zenon

LEMMA StartCommandStep ==
    ASSUME AdmissionInv, NEW c \in Commands, StartCommand(c)
    PROVE  AdmissionInv' /\ Changing' = Changing /\ Changed' = Changed /\ Turning' = Turning
  <1>1. /\ Runs("start", c) /\ UNCHANGED <<behind, seen, sessionVars, reading>>
    BY DEF StartCommand
  <1>2. ASSUME NEW v \in {"working", "refused"}, at' = [at EXCEPT ![c] = v], micro' = Tail(micro),
               chain' = chain, v = "working" => activeRuns = 0
        PROVE  AdmissionInv' /\ Changing' = Changing /\ Changed' = Changed /\ Turning' = Turning
    <2>1. /\ AdmissionInv' /\ Turning' = Turning /\ Transitions' = Transitions
          /\ at'[c] = v /\ \A d \in Commands \ {c} : at'[d] = at[d]
          /\ at[c] \in {"queued", "admitted"}
          /\ at[c] = "queued"
          /\ at[c] = "queued" => c \notin Transitions
      <3>1. "start" \in {"start", "check"}
        OBVIOUS
      <3> QED BY <1>1, <1>2, <3>1, CommandStep, Zenon
    <2>2. Transitions \subseteq Commands
      BY CallbackTypes, MembersTyped DEF AdmissionInv, Transitions, Members
    <2> QED BY <2>1, <2>2 DEF Changing, Changed
  <1>3. CASE activeRuns > 0 /\ at' = [at EXCEPT ![c] = "refused"] /\ micro' = Tail(micro) /\ chain' = chain
    BY <1>2, <1>3
  <1>4. CASE activeRuns = 0 /\ at' = [at EXCEPT ![c] = "working"] /\ micro' = Tail(micro) /\ chain' = chain
    BY <1>2, <1>4
  <1>5. CASE /\ activeRuns = 0 /\ at' = [at EXCEPT ![c] = "admitted"]
             /\ Await("transitions", <<c>>, Callback("check", c), Tail(micro))
    <2> DEFINE cb == Callback("check", c)
               q == Tail(micro)
    <2>1. AdmissionTypes /\ OneCallEach(micro, chain) /\ CallsInv /\ MembersInv /\ EnterInv
      BY DEF AdmissionInv, OrderOfCalls
    <2>2. /\ at' = [at EXCEPT ![c] = "admitted"] /\ Await("transitions", <<c>>, cb, q)
          /\ UNCHANGED <<behind, seen, activeRuns, register, active, version, reading>>
      BY <1>1, <1>5 DEF sessionVars
    <2>3. /\ cb \in Callbacks /\ cb.of = c /\ cb.do = "check" /\ "transitions" \in Chains /\ c \in Actors
          /\ "commands" \in Chains /\ "transitions" # "commands"
      BY CallbackTypes
    <2>4. /\ From(q, c) /\ micro # <<>> /\ In(micro) = {Callback("start", c)} \cup In(q)
          /\ IsReady(at, behind, seen, chain, Callback("start", c))
          /\ Callback("start", c).do = "start" /\ Callback("start", c).of = c
      BY <1>1, <2>1, FromHead
    <2> HIDE DEF cb
    <2>5. /\ at' \in [Messages \cup Commands -> MessageStates \cup CommandStates]
          /\ at'[c] = "admitted" /\ c \notin Messages /\ \A x \in Actors \ {c} : at'[x] = at[x]
          /\ \A m \in Messages : at'[m] = at[m] /\ at'[m] \in MessageStates
          /\ \A d \in Commands : at'[d] \in CommandStates
      BY <2>1, <2>2, CommandMoves DEF CommandStates
    <2>6. <<c>> \in Seq(Commands) /\ q \in Seq(Callbacks)
      BY <2>4 DEF From
    <2>7. /\ \A l \in Chains \ {"transitions"} : chain'[l] = chain[l]
          /\ chain'["transitions"].settled = chain["transitions"].settled
          /\ chain'["transitions"].members = chain["transitions"].members \o <<c>>
      BY <2>1, <2>2, <2>3, <2>6, AwaitFacts, Zenon
    <2>8. at[c] = "queued" /\ Follows(chain, "commands", c, chain["commands"].settled)
      <3>1. PICK k \in Chains, n \in Nat :
               n <= chain[k].settled /\ Waits(at, behind, seen, chain, k, Callback("start", c), n)
        BY <2>4, Zenon DEF IsReady
      <3>2. k = "commands" /\ at[c] = "queued" /\ Follows(chain, "commands", c, n)
        BY <2>4, <3>1 DEF Waits
      <3>3. chain["commands"].settled \in Nat
        BY <2>1, <2>3, MembersTyped
      <3>4. PICK j \in 1 .. Len(chain["commands"].members) :
               chain["commands"].members[j] = c /\ j <= n + 1
        BY <3>2 DEF Follows
      <3>5. j <= chain["commands"].settled + 1
        BY <3>1, <3>2, <3>3, <3>4
      <3> QED BY <3>2, <3>4, <3>5 DEF Follows
    <2>9. /\ MembersInv' /\ Changing' = Changing /\ Changed' = Changed
          /\ Follows(chain', "transitions", c, LengthOf("transitions"))
      <3>1. \A d \in Commands \ {c} : at'[d] = at[d]
        BY <2>5, CallbackTypes
      <3> QED BY <2>1, <2>3, <2>5, <2>7, <2>8, <3>1, MemberJoins, Zenon
    <2>10. \A y \in Actors \ {c} : Kept(y)
      BY <2>2, <2>5 DEF Kept
    <2>11. Waits(at', behind', seen', chain', "transitions", cb, LengthOf("transitions"))
      BY <2>3, <2>5, <2>9, Zenon DEF Waits
    <2>12. /\ OneCallEach(micro', chain') /\ CallsInv' /\ micro' \in Seq(Callbacks)
           /\ chain' \in ChainTypes /\ (\A d \in In(micro') : d \in In(q) \/ d = cb)
           /\ (micro' = q \/ micro' = Append(q, cb))
      BY <2>1, <2>2, <2>3, <2>4, <2>6, <2>10, <2>11, QueueAwaits, Zenon
    <2>13. \A l \in Chains : /\ chain'[l].settled <= Len(chain'[l].members)
                             /\ Len(chain'[l].then) = Len(chain'[l].members)
      BY <2>1, <2>2, <2>3, <2>6, AwaitLens, Zenon
    <2>14. AdmissionTypes'
      BY <2>1, <2>2, <2>5, <2>12, <2>13, StateTyped, TypesFromParts, Zenon
    <2>15. EarlyMoves
      BY <2>5 DEF EarlyMoves
    <2>16. Turning' = Turning
      BY <2>15, EarlyFacts
    <2>17. \A d \in In(micro') : d.do \in {"enter", "leave"} => d \in In(micro)
      BY <2>3, <2>4, <2>12
    <2>18. EnterInv'
      <3>1. EntersFirst(q)
        BY <2>1, <2>4, EntersTail, StateTyped DEF EnterInv
      <3>2. EntersFirst(micro')
        BY <2>3, <2>6, <2>12, <3>1, EntersQueue
      <3>3. \A d \in In(micro') : d.do = "enter" => d \in In(micro)
        BY <2>17
      <3> QED BY <2>1, <2>9, <2>16, <3>2, <3>3, EnterStays, Zenon
    <2>19. BehindInv'
      <3>1. chain["commands"].settled <= chain'["commands"].settled
        BY <2>1, <2>3, <2>7, MembersTyped
      <3> QED BY <2>2, <2>5, <2>14, <3>1, BehindStays
    <2>20. \A d \in In(micro') : d.do = "leave" => d \in In(micro)
      BY <2>17
    <2> QED BY <2>2, <2>9, <2>12, <2>14, <2>15, <2>16, <2>18, <2>19, <2>20, EarlyStep, Zenon
  <1> QED BY <1>3, <1>4, <1>5 DEF StartCommand

\* The one step that starts a transition: no turn runs, no transition works.
LEMMA CheckRunStep ==
    ASSUME AdmissionInv, NEW c \in Commands, CheckRun(c)
    PROVE  /\ AdmissionInv' /\ Turning' = Turning
           /\ \/ Changing' = Changing /\ Changed' = Changed
              \/ /\ Changing = {} /\ Turning = {} /\ c \notin Changed
                 /\ Changing' = {c} /\ Changed' = Changed \cup {c}
  <1> DEFINE v == IF activeRuns > 0 THEN "refused" ELSE "working"
  <1>1. /\ Runs("check", c) /\ UNCHANGED <<behind, seen, sessionVars, reading>>
        /\ at' = [at EXCEPT ![c] = v] /\ micro' = Tail(micro) /\ chain' = chain
    BY DEF CheckRun
  <1>2. v \in {"working", "refused"} /\ (v = "working" => activeRuns = 0)
    BY StateTyped DEF AdmissionInv
  <1> HIDE DEF v
  <1>3. /\ AdmissionInv' /\ Turning' = Turning /\ Transitions' = Transitions
        /\ at'[c] = v /\ \A d \in Commands \ {c} : at'[d] = at[d]
        /\ at[c] \in {"queued", "admitted"}
        /\ at[c] = "queued" => c \notin Transitions
        /\ at[c] = "admitted" /\ v = "working" => Changing = {} /\ Turning = {}
    <2>1. "check" \in {"start", "check"}
      OBVIOUS
    <2> QED BY <1>1, <1>2, <2>1, CommandStep, Zenon
  <1>4. Transitions \subseteq Commands
    BY CallbackTypes, MembersTyped DEF AdmissionInv, Transitions, Members
  <1>5. CASE v = "refused" \/ c \notin Transitions
    BY <1>3, <1>4, <1>5 DEF Changing, Changed
  <1>6. CASE v = "working" /\ c \in Transitions
    <2>1. at[c] = "admitted" /\ Changing = {} /\ Turning = {}
      BY <1>3, <1>6
    <2>2. Changing' = Changing \cup {c} /\ Changed' = Changed \cup {c} /\ c \notin Changed
      BY <1>3, <1>4, <1>6, <2>1 DEF Changing, Changed
    <2> QED BY <1>3, <2>1, <2>2
  <1> QED BY <1>2, <1>3, <1>5, <1>6

LEMMA EndCommandStep ==
    ASSUME AdmissionInv, NEW c \in Commands, EndCommand(c)
    PROVE  /\ AdmissionInv' /\ Turning' = Turning /\ Changed' = Changed /\ Changing' = Changing \ {c}
           /\ active' # active => c \in Changing
  <1>1. AdmissionTypes /\ OneCallEach(micro, chain) /\ CallsInv /\ MembersInv /\ EnterInv
    BY DEF AdmissionInv, OrderOfCalls
  <1>2. /\ at[c] = "working" /\ at' = [at EXCEPT ![c] = "done"] /\ active' \in SessionIds
        /\ UNCHANGED <<micro, chain, behind, seen, activeRuns, register, version, reading>>
        /\ active' # active => c \in Transitions
    BY <1>1, StateTyped DEF EndCommand
  <1>3. /\ at' \in [Messages \cup Commands -> MessageStates \cup CommandStates]
        /\ at'[c] = "done" /\ \A x \in Actors \ {c} : at'[x] = at[x]
        /\ \A m \in Messages : at'[m] = at[m] /\ at'[m] \in MessageStates
        /\ \A d \in Commands : at'[d] \in CommandStates
    BY <1>1, <1>2, CommandMoves DEF CommandStates
  <1>4. c \in Actors
    BY CallbackTypes
  <1>5. From(micro, c)
    BY <1>1, <1>2, <1>4, FromAll
  <1>6. \A y \in Actors \ {c} : Kept(y)
    BY <1>2, <1>3 DEF Kept
  <1>7. /\ OneCallEach(micro', chain') /\ CallsInv' /\ micro' \in Seq(Callbacks)
        /\ chain' \in ChainTypes
    BY <1>1, <1>2, <1>5, <1>6, QueueStays, Zenon
  <1>8. \A d \in Commands \ {c} : at'[d] = at[d]
    BY <1>3, CallbackTypes
  <1>9. MembersInv' /\ Transitions' = Transitions
    <2>1. at[c] \notin Over /\ "done" \in {"working"} \cup Over /\ at[c] # "queued" /\ at[c] # "admitted"
      BY <1>2 DEF Over
    <2> QED BY <1>1, <1>2, <1>3, <1>8, <2>1, MemberMoves, Zenon
  <1>10. Transitions \subseteq Commands
    BY <1>1, CallbackTypes, MembersTyped DEF Transitions, Members
  <1>11. Changed' = Changed /\ Changing' = Changing \ {c} /\ (c \in Transitions => c \in Changing)
    BY <1>2, <1>3, <1>8, <1>9, <1>10 DEF Changing, Changed
  <1>12. AdmissionTypes'
    BY <1>1, <1>2, <1>3, <1>7, StateTyped, TypesFromParts, Zenon
  <1>13. EarlyMoves
    BY <1>3 DEF EarlyMoves
  <1>14. Turning' = Turning
    BY <1>13, EarlyFacts
  <1>15. EnterInv'
    BY <1>1, <1>2, <1>11, <1>14, EnterStays DEF EnterInv
  <1>16. BehindInv'
    <2>1. chain["commands"].settled <= chain'["commands"].settled
      BY <1>1, <1>2, CallbackTypes, MembersTyped
    <2> QED BY <1>2, <1>3, <1>12, <2>1, BehindStays
  <1>17. AdmissionInv'
    BY <1>2, <1>7, <1>9, <1>12, <1>13, <1>15, <1>16, EarlyStep, Zenon
  <1> QED BY <1>2, <1>11, <1>14, <1>17

\* A message that goes on waiting, or is gone: q is the queue without its callback.
LEMMA MessageWaits ==
    ASSUME AdmissionInv, NEW m \in Messages, NEW q, From(q, m), EntersFirst(q), NEW v \in Early,
           at[m] \in Early, at' = [at EXCEPT ![m] = v],
           behind' \in [Messages -> Nat], seen' \in [Messages -> Nat],
           \A n \in Messages \ {m} : behind'[n] = behind[n] /\ seen'[n] = seen[n],
           v = "waiting" => behind'[m] <= chain["commands"].settled,
           UNCHANGED <<sessionVars, reading>>,
           NEW k \in Chains, NEW do \in {"message", "look"},
           \/ Await(k, <<>>, Callback(do, m), q)
              /\ Waits(at', behind', seen', chain', k, Callback(do, m), LengthOf(k))
           \/ micro' = q /\ chain' = chain
    PROVE  AdmissionInv' /\ Changing' = Changing /\ Changed' = Changed /\ Turning' = Turning
  <1> DEFINE cb == Callback(do, m)
  <1>1. AdmissionTypes /\ OneCallEach(micro, chain) /\ CallsInv /\ MembersInv /\ EnterInv
    BY DEF AdmissionInv, OrderOfCalls
  <1>2. UNCHANGED <<activeRuns, register, active, version, reading>>
    BY DEF sessionVars
  <1>3. cb \in Callbacks /\ cb.of = m /\ cb.do = do /\ m \in Actors
    BY CallbackTypes
  <1> HIDE DEF cb
  <1>4. /\ at' \in [Messages \cup Commands -> MessageStates \cup CommandStates]
        /\ at'[m] = v /\ \A x \in Actors \ {m} : at'[x] = at[x]
        /\ \A n \in Messages : at'[n] \in MessageStates
        /\ \A n \in Messages \ {m} : at'[n] = at[n]
        /\ \A d \in Commands : at'[d] = at[d] /\ at'[d] \in CommandStates
    <2>1. v \in MessageStates
      BY DEF Early, MessageStates
    <2> QED BY <1>1, <2>1, MessageMoves
  <1>5. <<>> \in Seq(Commands) /\ q \in Seq(Callbacks)
    BY DEF From
  <1>6. \A y \in Actors \ {m} : Kept(y)
    BY <1>4 DEF Kept
  <1>7. /\ OneCallEach(micro', chain') /\ CallsInv' /\ micro' \in Seq(Callbacks)
        /\ chain' \in ChainTypes /\ (\A d \in In(micro') : d \in In(q) \/ d = cb)
        /\ (micro' = q \/ micro' = Append(q, cb))
        /\ \A l \in Chains : /\ chain'[l].settled <= Len(chain'[l].members)
                             /\ Len(chain'[l].then) = Len(chain'[l].members)
                             /\ chain'[l].members = chain[l].members
                             /\ chain'[l].settled = chain[l].settled
    <2>1. CASE micro' = q /\ chain' = chain
      BY <1>1, <1>6, <2>1, QueueStays, StateTyped, Zenon
    <2>2. CASE Await(k, <<>>, cb, q) /\ Waits(at', behind', seen', chain', k, cb, LengthOf(k))
      <3>1. /\ OneCallEach(micro', chain') /\ CallsInv' /\ micro' \in Seq(Callbacks)
            /\ chain' \in ChainTypes /\ (\A d \in In(micro') : d \in In(q) \/ d = cb)
            /\ (micro' = q \/ micro' = Append(q, cb))
        BY <1>1, <1>3, <1>5, <1>6, <2>2, QueueAwaits, Zenon
      <3>2. \A l \in Chains : /\ chain'[l].settled <= Len(chain'[l].members)
                              /\ Len(chain'[l].then) = Len(chain'[l].members)
                              /\ chain'[l].settled = chain[l].settled
        BY <1>1, <1>3, <1>5, <2>2, AwaitLens, Zenon
      <3>3. /\ \A l \in Chains \ {k} : chain'[l] = chain[l]
            /\ chain'[k].members = chain[k].members \o <<>>
        BY <1>1, <1>3, <1>5, <2>2, AwaitFacts, Zenon
      <3>4. chain[k].members \o <<>> = chain[k].members
        BY <1>1, MembersTyped
      <3> QED BY <3>1, <3>2, <3>3, <3>4, Zenon
    <2> QED BY <2>1, <2>2 DEF cb
  <1>8. MembersInv' /\ Changing' = Changing /\ Changed' = Changed
    BY <1>1, <1>4, <1>7, MembersStay, Zenon
  <1>9. AdmissionTypes'
    BY <1>1, <1>2, <1>4, <1>7, StateTyped, TypesFromParts, Zenon
  <1>10. EarlyMoves
    BY <1>4 DEF EarlyMoves
  <1>11. Turning' = Turning
    BY <1>10, EarlyFacts
  <1>12. \A d \in In(micro') : d.do \in {"enter", "leave"} => d \in In(micro)
    BY <1>3, <1>7 DEF From
  <1>13. EnterInv'
    <2>1. EntersFirst(micro')
      BY <1>3, <1>5, <1>7, EntersQueue
    <2>2. \A d \in In(micro') : d.do = "enter" => d \in In(micro)
      BY <1>12
    <2> QED BY <1>1, <1>8, <1>11, <2>1, <2>2, EnterStays, Zenon
  <1>14. BehindInv'
    <2> SUFFICES ASSUME NEW n \in Messages, at'[n] \in {"waiting", "running", "written"}
                 PROVE  behind'[n] <= chain'["commands"].settled
      BY DEF BehindInv
    <2>1. chain'["commands"].settled = chain["commands"].settled
      BY <1>7, CallbackTypes
    <2>2. CASE n = m
      BY <1>4, <2>1, <2>2 DEF Early
    <2>3. CASE n # m
      BY <1>4, <2>1, <2>3 DEF AdmissionInv, RunsInv
    <2> QED BY <2>2, <2>3
  <1>15. \A d \in In(micro') : d.do = "leave" => d \in In(micro)
    BY <1>12
  <1> QED BY <1>2, <1>7, <1>8, <1>9, <1>10, <1>11, <1>13, <1>14, <1>15, EarlyStep, Zenon

LEMMA ArriveStep ==
    ASSUME AdmissionInv, NEW m \in Messages, Arrive(m)
    PROVE  AdmissionInv' /\ Changing' = Changing /\ Changed' = Changed /\ Turning' = Turning
  <1>1. AdmissionTypes /\ OneCallEach(micro, chain) /\ CallsInv /\ EntersFirst(micro)
    BY DEF AdmissionInv, OrderOfCalls, EnterInv
  <1>2. /\ at[m] = "new" /\ at' = [at EXCEPT ![m] = "queued"]
        /\ behind' = [behind EXCEPT ![m] = LengthOf("commands")] /\ seen' = seen
        /\ Await("commands", <<>>, Callback("message", m), micro)
        /\ UNCHANGED <<sessionVars, reading>>
    BY DEF Arrive
  <1>3. /\ behind \in [Messages -> Nat] /\ seen \in [Messages -> Nat] /\ LengthOf("commands") \in Nat
        /\ "commands" \in Chains /\ m \in Actors
    BY <1>1, StateTyped, CallbackTypes, MembersTyped
  <1>4. /\ behind' \in [Messages -> Nat] /\ seen' \in [Messages -> Nat]
        /\ behind'[m] = LengthOf("commands")
        /\ \A n \in Messages \ {m} : behind'[n] = behind[n] /\ seen'[n] = seen[n]
    BY <1>2, <1>3
  <1>5. at'[m] = "queued"
    BY <1>1, <1>2, MessageMoves DEF MessageStates
  <1>6. Waits(at', behind', seen', chain', "commands", Callback("message", m), LengthOf("commands"))
    BY <1>3, <1>4, <1>5, CallbackTypes DEF Waits
  <1>7. From(micro, m)
    BY <1>1, <1>2, <1>3, FromAll
  <1>8. at[m] \in Early /\ "queued" \in Early /\ "queued" # "waiting"
    BY <1>2 DEF Early
  <1>9. "message" \in {"message", "look"}
    OBVIOUS
  <1> QED BY <1>1, <1>2, <1>3, <1>4, <1>6, <1>7, <1>8, <1>9, MessageWaits, Zenon

LEMMA PassCommandsStep ==
    ASSUME AdmissionInv, NEW m \in Messages, PassCommands(m)
    PROVE  AdmissionInv' /\ Changing' = Changing /\ Changed' = Changed /\ Turning' = Turning
  <1> DEFINE cb == Callback("message", m)
  <1>1. AdmissionTypes /\ OneCallEach(micro, chain) /\ CallsInv /\ EntersFirst(micro)
    BY DEF AdmissionInv, OrderOfCalls, EnterInv
  <1>2. Runs("message", m) /\ UNCHANGED <<sessionVars, reading>>
    BY DEF PassCommands
  <1>3. /\ From(Tail(micro), m) /\ micro # <<>> /\ IsReady(at, behind, seen, chain, cb)
        /\ cb.do = "message" /\ cb.of = m
    BY <1>1, <1>2, FromHead
  <1>4. EntersFirst(Tail(micro))
    BY <1>1, <1>3, EntersTail, StateTyped
  <1>5. /\ behind \in [Messages -> Nat] /\ seen \in [Messages -> Nat] /\ LengthOf("transitions") \in Nat
        /\ "transitions" \in Chains /\ "commands" \in Chains /\ chain["commands"].settled \in Nat
    BY <1>1, StateTyped, CallbackTypes, MembersTyped
  <1>6. at[m] = "queued" /\ behind[m] <= chain["commands"].settled
    <2>1. PICK k \in Chains, n \in Nat :
             n <= chain[k].settled /\ Waits(at, behind, seen, chain, k, cb, n)
      BY <1>3, Zenon DEF IsReady
    <2>2. k = "commands" /\ at[m] = "queued" /\ behind[m] <= n
      BY <1>3, <2>1 DEF Waits
    <2> QED BY <1>5, <2>1, <2>2
  <1>7. /\ at[m] \in Early /\ "gone" \in Early /\ "waiting" \in Early /\ "gone" # "waiting"
        /\ "message" \in {"message", "look"} /\ "look" \in {"message", "look"}
    BY <1>6 DEF Early
  <1>8. CASE /\ at' = [at EXCEPT ![m] = "gone"] /\ behind' = [behind EXCEPT ![m] = 0]
             /\ micro' = Tail(micro) /\ UNCHANGED <<chain, seen>>
    <2>1. /\ behind' \in [Messages -> Nat] /\ seen' \in [Messages -> Nat]
          /\ \A n \in Messages \ {m} : behind'[n] = behind[n] /\ seen'[n] = seen[n]
      BY <1>5, <1>8
    <2>2. at' = [at EXCEPT ![m] = "gone"] /\ micro' = Tail(micro) /\ chain' = chain
      BY <1>8
    <2> QED BY <1>2, <1>3, <1>4, <1>5, <1>7, <2>1, <2>2, MessageWaits, Zenon
  <1>9. CASE /\ at' = [at EXCEPT ![m] = "waiting"] /\ seen' = [seen EXCEPT ![m] = LengthOf("transitions")]
             /\ Await("transitions", <<>>, Callback("look", m), Tail(micro)) /\ behind' = behind
    <2>1. /\ behind' \in [Messages -> Nat] /\ seen' \in [Messages -> Nat]
          /\ seen'[m] = LengthOf("transitions") /\ behind'[m] <= chain["commands"].settled
          /\ \A n \in Messages \ {m} : behind'[n] = behind[n] /\ seen'[n] = seen[n]
      BY <1>5, <1>6, <1>9
    <2>2. at'[m] = "waiting"
      BY <1>1, <1>9, MessageMoves DEF MessageStates
    <2>3. Waits(at', behind', seen', chain', "transitions", Callback("look", m), LengthOf("transitions"))
      BY <1>5, <2>1, <2>2, CallbackTypes DEF Waits
    <2> QED BY <1>2, <1>3, <1>4, <1>5, <1>7, <1>9, <2>1, <2>3, MessageWaits, Zenon
  <1> QED BY <1>8, <1>9 DEF PassCommands

LEMMA LookStep ==
    ASSUME AdmissionInv, NEW m \in Messages, Look(m)
    PROVE  AdmissionInv' /\ Changing' = Changing /\ Changed' = Changed /\ Turning' = Turning
  <1> DEFINE cb == Callback("look", m)
             q == Tail(micro)
  <1>1. AdmissionTypes /\ OneCallEach(micro, chain) /\ CallsInv /\ MembersInv /\ EnterInv
    BY DEF AdmissionInv, OrderOfCalls
  <1>2. Runs("look", m) /\ UNCHANGED <<at, behind, sessionVars, reading>>
    BY DEF Look
  <1>3. /\ From(q, m) /\ micro # <<>> /\ IsReady(at, behind, seen, chain, cb)
        /\ cb.do = "look" /\ cb.of = m /\ In(micro) = {cb} \cup In(q)
    BY <1>1, <1>2, FromHead
  <1>4. EntersFirst(q)
    BY <1>1, <1>3, EntersTail, StateTyped DEF EnterInv
  <1>5. /\ at \in [Messages \cup Commands -> MessageStates \cup CommandStates]
        /\ behind \in [Messages -> Nat] /\ seen \in [Messages -> Nat] /\ LengthOf("transitions") \in Nat
        /\ "transitions" \in Chains /\ "commands" \in Chains /\ chain["transitions"].settled \in Nat
        /\ chain["transitions"].settled <= LengthOf("transitions")
        /\ m \in Actors
    BY <1>1, StateTyped, CallbackTypes, MembersTyped DEF AdmissionTypes
  <1>6. at[m] = "waiting" /\ seen[m] <= chain["transitions"].settled
    <2>1. PICK k \in Chains, n \in Nat :
             n <= chain[k].settled /\ Waits(at, behind, seen, chain, k, cb, n)
      BY <1>3, Zenon DEF IsReady
    <2>2. k = "transitions" /\ at[m] = "waiting" /\ seen[m] <= n
      BY <1>3, <2>1 DEF Waits
    <2> QED BY <1>5, <2>1, <2>2
  <1>7. CASE /\ seen[m] # LengthOf("transitions") /\ seen' = [seen EXCEPT ![m] = LengthOf("transitions")]
             /\ Await("transitions", <<>>, cb, q)
    <2>1. /\ behind' \in [Messages -> Nat] /\ seen' \in [Messages -> Nat]
          /\ seen'[m] = LengthOf("transitions")
          /\ \A n \in Messages \ {m} : behind'[n] = behind[n] /\ seen'[n] = seen[n]
      BY <1>2, <1>5, <1>7
    <2>2. at' = [at EXCEPT ![m] = "waiting"] /\ at'[m] = "waiting"
      BY <1>2, <1>5, <1>6
    <2>3. behind'[m] <= chain["commands"].settled
      BY <1>2, <1>6 DEF AdmissionInv, RunsInv
    <2>4. Waits(at', behind', seen', chain', "transitions", cb, LengthOf("transitions"))
      BY <1>3, <1>5, <2>1, <2>2 DEF Waits
    <2>5. at[m] \in Early /\ "waiting" \in Early /\ "look" \in {"message", "look"}
      BY <1>6 DEF Early
    <2> QED BY <1>2, <1>3, <1>4, <1>5, <1>7, <2>1, <2>2, <2>3, <2>4, <2>5, MessageWaits, Zenon
  <1>8. CASE /\ seen[m] = LengthOf("transitions") /\ seen' = [seen EXCEPT ![m] = 0]
             /\ micro' = Append(q, Callback("enter", m)) /\ chain' = chain
    <2> DEFINE en == Callback("enter", m)
    <2>1. en \in Callbacks /\ en.of = m /\ en.do = "enter"
      BY CallbackTypes
    <2>2. /\ seen' \in [Messages -> Nat] /\ \A n \in Messages \ {m} : seen'[n] = seen[n]
      BY <1>5, <1>8
    <2>3. \A y \in Actors \ {m} : Kept(y)
      BY <1>2, <2>2 DEF Kept
    <2>4. IsReady(at', behind', seen', chain', en)
      BY <1>2, <1>6, <2>1 DEF IsReady
    <2> HIDE DEF en
    <2>5. /\ OneCallEach(micro', chain') /\ CallsInv' /\ micro' \in Seq(Callbacks)
          /\ chain' \in ChainTypes /\ In(micro') = In(q) \cup {en}
      <3>1. micro' = Append(q, en) /\ chain' = chain
        BY <1>8 DEF en
      <3> QED BY <1>1, <1>3, <2>1, <2>3, <2>4, <3>1, QueueGains, Zenon
    <2>6. UNCHANGED <<at, behind, activeRuns, register, active, version, reading>>
      BY <1>2 DEF sessionVars
    <2>7. AdmissionTypes'
      BY <1>1, <1>8, <2>2, <2>5, <2>6, StateTyped, TypesFromParts, Zenon
    <2>8. MembersInv' /\ Changing' = Changing /\ Changed' = Changed
      BY <1>1, <1>8, <2>6, MembersStay, Zenon
    <2>9. EarlyMoves
      BY <2>6 DEF EarlyMoves
    <2>10. Turning' = Turning
      BY <2>9, EarlyFacts
    \* Every transition has ended: none works, and none is to be checked.
    <2>11. \A i \in 1 .. LengthOf("transitions") : at[chain["transitions"].members[i]] \in Over
      <3>1. chain["transitions"].settled = LengthOf("transitions")
        BY <1>5, <1>6, <1>8
      <3> QED BY <1>1, <1>5, <3>1 DEF MembersInv
    <2>12. Changing = {}
      <3> SUFFICES ASSUME NEW d \in Changing PROVE FALSE
        OBVIOUS
      <3>1. PICK i \in 1 .. LengthOf("transitions") : chain["transitions"].members[i] = d
        BY Zenon DEF Changing, Transitions, Members
      <3>2. at[d] = "working"
        BY DEF Changing
      <3> QED BY <2>11, <3>1, <3>2 DEF Over
    <2>13. \A d \in In(q) : d.do # "check"
      <3> SUFFICES ASSUME NEW d \in In(q), d.do = "check" PROVE FALSE
        OBVIOUS
      <3>1. IsReady(at, behind, seen, chain, d)
        BY <1>1, <1>3, Zenon DEF CallsInv, From
      <3>2. PICK k \in Chains, n \in Nat : Waits(at, behind, seen, chain, k, d, n)
        BY <3>1, Zenon DEF IsReady
      <3>3. k = "transitions" /\ at[d.of] = "admitted" /\ Follows(chain, "transitions", d.of, n)
        BY <3>2 DEF Waits
      <3>4. PICK i \in 1 .. LengthOf("transitions") : chain["transitions"].members[i] = d.of
        BY <3>3 DEF Follows, LengthOf
      <3> QED BY <2>11, <3>3, <3>4 DEF Over
    <2>14. EntersFirst(micro')
      <3>1. EntersFirst(Append(q, en))
        <4>1. q \in Seq(Callbacks)
          BY <1>3 DEF From
        <4> QED BY <1>4, <2>1, <2>13, <4>1, EntersAppend
      <3> QED BY <1>8, <3>1 DEF en
    <2>15. EnterInv'
      BY <2>8, <2>12, <2>14, Zenon DEF EnterInv
    <2>16. BehindInv'
      <3>1. chain["commands"].settled <= chain'["commands"].settled
        BY <1>1, <1>5, <1>8, MembersTyped
      <3> QED BY <2>6, <2>7, <3>1, BehindStays
    <2>17. \A d \in In(micro') : d.do = "leave" => d \in In(micro)
      BY <1>3, <2>1, <2>5
    <2> QED BY <2>5, <2>6, <2>7, <2>8, <2>9, <2>10, <2>15, <2>16, <2>17, EarlyStep, Zenon
  <1> QED BY <1>7, <1>8 DEF Look

LEMMA HoldingMoves ==
    ASSUME AdmissionTypes, RunsInv, NEW m \in Messages
    PROVE  /\ Holding' \subseteq Holding \cup {m} => Cardinality(Holding') <= activeRuns + 1
           /\ m \in Holding /\ Holding' \subseteq Holding \ {m} =>
                 activeRuns > 0 /\ Cardinality(Holding') <= activeRuns - 1
  <1>1. Holding \subseteq Messages
    BY DEF Holding, Leaving
  <1>2. IsFiniteSet(Holding)
    BY <1>1, AdmissionAssumption, FS_Subset
  <1>3. Cardinality(Holding) <= activeRuns /\ activeRuns \in Nat
    BY DEF RunsInv, AdmissionTypes, AdmissionTypeOK
  <1> HIDE DEF Holding
  <1>4. Cardinality(Holding) \in Nat
    BY <1>2, FS_CardinalityType
  <1>5. ASSUME Holding' \subseteq Holding \cup {m} PROVE Cardinality(Holding') <= activeRuns + 1
    <2>1. /\ IsFiniteSet(Holding \cup {m})
          /\ Cardinality(Holding \cup {m}) = Cardinality(Holding)
             \/ Cardinality(Holding \cup {m}) = Cardinality(Holding) + 1
      BY <1>2, FS_AddElement
    <2>2. Cardinality(Holding') <= Cardinality(Holding \cup {m}) /\ IsFiniteSet(Holding')
      BY <1>5, <2>1, FS_Subset
    <2>3. Cardinality(Holding') \in Nat
      BY <2>2, FS_CardinalityType
    <2> QED BY <1>3, <1>4, <2>1, <2>2, <2>3
  <1>6. ASSUME m \in Holding, Holding' \subseteq Holding \ {m}
        PROVE  activeRuns > 0 /\ Cardinality(Holding') <= activeRuns - 1
    <2>1. IsFiniteSet(Holding \ {m}) /\ Cardinality(Holding \ {m}) = Cardinality(Holding) - 1
      BY <1>2, <1>6, FS_RemoveElement
    <2>2. Cardinality(Holding') <= Cardinality(Holding \ {m}) /\ IsFiniteSet(Holding')
      BY <1>6, <2>1, FS_Subset
    <2>3. Cardinality(Holding') \in Nat
      BY <2>2, FS_CardinalityType
    <2> QED BY <1>3, <1>4, <2>1, <2>2, <2>3
  <1> QED BY <1>5, <1>6

\* A turn's own steps move one message; the chains and the commands stay.
LEMMA TurnMoves ==
    ASSUME AdmissionInv, NEW m \in Messages, NEW q, From(q, m), EntersFirst(q),
           NEW v \in MessageStates, at' = [at EXCEPT ![m] = v], chain' = chain, seen' = seen,
           behind' = behind \/ behind' = [behind EXCEPT ![m] = 0],
           activeRuns' \in Nat, register' \in Messages \cup {NoRun}, active' \in SessionIds,
           version' \in Nat, reading' = reading,
           \/ micro' = q
           \/ micro' = Append(q, Callback("leave", m)) /\ v \in {"leaving", "gone"}
    PROVE  /\ AdmissionTypes' /\ OneCallEach(micro', chain') /\ CallsInv' /\ MembersInv'
           /\ Changing' = Changing /\ Changed' = Changed /\ EntersFirst(micro')
           /\ at'[m] = v /\ \A n \in Messages \ {m} : at'[n] = at[n]
           /\ \A n \in Messages \ {m} : behind'[n] = behind[n]
           /\ \A d \in In(micro') : d \in In(q) \/ d = Callback("leave", m)
           /\ micro' = q => Callback("leave", m) \notin In(micro')
  <1> DEFINE cb == Callback("leave", m)
  <1>1. AdmissionTypes /\ OneCallEach(micro, chain) /\ CallsInv /\ MembersInv
    BY DEF AdmissionInv, OrderOfCalls
  <1>2. /\ cb \in Callbacks /\ cb.of = m /\ cb.do = "leave" /\ m \in Actors /\ q \in Seq(Callbacks)
    BY CallbackTypes DEF From
  <1> HIDE DEF cb
  <1>3. /\ at' \in [Messages \cup Commands -> MessageStates \cup CommandStates]
        /\ at'[m] = v /\ \A x \in Actors \ {m} : at'[x] = at[x]
        /\ \A n \in Messages : at'[n] \in MessageStates
        /\ \A n \in Messages \ {m} : at'[n] = at[n]
        /\ \A d \in Commands : at'[d] = at[d] /\ at'[d] \in CommandStates
    BY <1>1, MessageMoves
  <1>4. behind' \in [Messages -> Nat] /\ \A n \in Messages \ {m} : behind'[n] = behind[n]
    <2>1. behind \in [Messages -> Nat]
      BY <1>1, StateTyped
    <2> QED BY <2>1
  <1>5. \A y \in Actors \ {m} : Kept(y)
    BY <1>3, <1>4 DEF Kept
  <1>6. /\ OneCallEach(micro', chain') /\ CallsInv' /\ micro' \in Seq(Callbacks)
        /\ chain' \in ChainTypes /\ \A d \in In(micro') : d \in In(q) \/ d = cb
    <2>1. CASE micro' = q
      BY <1>1, <1>5, <2>1, QueueStays, Zenon
    <2>2. CASE micro' = Append(q, cb) /\ v \in {"leaving", "gone"}
      <3>1. IsReady(at', behind', seen', chain', cb)
        BY <1>2, <1>3, <2>2 DEF IsReady
      <3>2. /\ OneCallEach(micro', chain') /\ CallsInv' /\ micro' \in Seq(Callbacks)
            /\ chain' \in ChainTypes /\ In(micro') = In(q) \cup {cb}
        BY <1>1, <1>2, <1>5, <2>2, <3>1, QueueGains, Zenon
      <3> QED BY <3>2, Zenon
    <2> QED BY <2>1, <2>2 DEF cb
  <1>7. AdmissionTypes'
    BY <1>1, <1>3, <1>4, <1>6, StateTyped, TypesFromParts, Zenon
  <1>8. MembersInv' /\ Changing' = Changing /\ Changed' = Changed
    BY <1>1, <1>3, MembersStay, Zenon
  <1>9. EntersFirst(micro')
    <2>1. micro' = q \/ micro' = Append(q, cb)
      BY DEF cb
    <2> QED BY <1>2, <2>1, EntersQueue
  <1>10. ASSUME micro' = q PROVE cb \notin In(micro')
    <2>1. \A d \in In(q) : d.of \in Of(q)
      BY Zenon DEF Of
    <2> QED BY <1>2, <1>10, <2>1, Zenon DEF From, Unlisted
  <1> QED BY <1>3, <1>4, <1>6, <1>7, <1>8, <1>9, <1>10 DEF cb

LEMMA LeaveOfMessage == \A m, n \in Messages : Callback("leave", m) = Callback("leave", n) => m = n
  BY DEF Callback

LEMMA EnterStep ==
    ASSUME AdmissionInv, NEW m \in Messages, Enter(m)
    PROVE  /\ AdmissionInv' /\ Changing' = Changing /\ Changed' = Changed
           /\ \/ Turning' = Turning
              \/ Changing = {} /\ m \notin Turning /\ Turning' = Turning \cup {m}
  <1> DEFINE q == Tail(micro)
  <1>1. /\ AdmissionTypes /\ OneCallEach(micro, chain) /\ CallsInv /\ MembersInv /\ EnterInv
        /\ RunsInv /\ SnapshotsInv
    BY DEF AdmissionInv, OrderOfCalls
  <1>2. /\ Runs("enter", m) /\ activeRuns' = activeRuns + 1
        /\ UNCHANGED <<chain, seen, active, version, reading>>
    BY DEF Enter
  <1>3. /\ From(q, m) /\ micro # <<>> /\ IsReady(at, behind, seen, chain, Callback("enter", m))
        /\ Callback("enter", m) \in In(micro)
        /\ Callback("enter", m).do = "enter" /\ Callback("enter", m).of = m
    BY <1>1, <1>2, FromHead
  <1>4. EntersFirst(q)
    BY <1>1, <1>3, EntersTail, StateTyped DEF EnterInv
  <1>5. at[m] = "waiting"
    BY <1>3 DEF IsReady, Waits
  <1>6. Changing = {}
    BY <1>1, <1>3 DEF EnterInv
  <1>7. /\ activeRuns \in Nat /\ activeRuns' \in Nat /\ register \in Messages \cup {NoRun}
        /\ active \in SessionIds /\ version \in Nat
    BY <1>1, <1>2, StateTyped
  <1>8. In(q) \subseteq In(micro)
    BY <1>3 DEF From
  <1>9. CASE /\ at' = [at EXCEPT ![m] = "gone"] /\ micro' = Append(q, Callback("leave", m))
             /\ behind' = [behind EXCEPT ![m] = 0] /\ register' = register
    <2>1. "gone" \in MessageStates /\ "gone" \in {"leaving", "gone"}
      BY DEF MessageStates
    <2>2. /\ AdmissionTypes' /\ OneCallEach(micro', chain') /\ CallsInv' /\ MembersInv'
          /\ Changing' = Changing /\ Changed' = Changed /\ EntersFirst(micro')
          /\ at'[m] = "gone" /\ \A n \in Messages \ {m} : at'[n] = at[n]
          /\ \A n \in Messages \ {m} : behind'[n] = behind[n]
          /\ \A d \in In(micro') : d \in In(q) \/ d = Callback("leave", m)
      BY <1>2, <1>3, <1>4, <1>7, <1>9, <2>1, TurnMoves
    <2>3. EarlyMoves
      BY <1>5, <2>2 DEF EarlyMoves, Early
    <2>4. /\ Turning' = Turning
          /\ \A n \in Messages : at'[n] \in {"running", "written", "leaving"} =>
                 at[n] \in {"running", "written", "leaving"}
      BY <2>3, EarlyFacts
    <2>5. EnterInv'
      BY <1>6, <2>2, Zenon DEF EnterInv
    <2>6. Holding' \subseteq Holding \cup {m}
      <3>1. ASSUME NEW n \in Leaving(micro'), n # m PROVE n \in Leaving(micro)
        <4>1. n \in Messages /\ Callback("leave", n) \in In(micro')
          BY DEF Leaving
        <4>2. Callback("leave", n) # Callback("leave", m)
          BY <3>1, <4>1, LeaveOfMessage
        <4> QED BY <1>8, <2>2, <4>1, <4>2 DEF Leaving
      <3> QED BY <2>4, <3>1, Zenon DEF Holding
    <2>7. Cardinality(Holding)' <= activeRuns'
      BY <1>1, <1>2, <2>6, HoldingMoves
    <2>8. RunsInv'
      <3>1. \A n \in Messages : n \in Turning' <=> register' = n
        BY <1>1, <1>9, <2>4 DEF RunsInv
      <3>2. \A n \in Messages :
               at'[n] \in {"waiting", "running", "written"} => behind'[n] <= chain'["commands"].settled
        BY <1>1, <1>2, <2>2 DEF RunsInv
      <3> QED BY <2>7, <3>1, <3>2, Zenon DEF RunsInv
    <2>9. SnapshotsInv'
      BY <1>1, <1>2, <2>3, EarlySnapshots
    <2> QED BY <2>2, <2>4, <2>5, <2>8, <2>9, Zenon DEF AdmissionInv, OrderOfCalls
  <1>10. CASE /\ register = NoRun /\ at' = [at EXCEPT ![m] = "running"] /\ register' = m
              /\ micro' = q /\ behind' = behind
    <2>1. "running" \in MessageStates
      BY DEF MessageStates
    <2>2. /\ AdmissionTypes' /\ OneCallEach(micro', chain') /\ CallsInv' /\ MembersInv'
          /\ Changing' = Changing /\ Changed' = Changed /\ EntersFirst(micro')
          /\ at'[m] = "running" /\ \A n \in Messages \ {m} : at'[n] = at[n]
      BY <1>2, <1>3, <1>4, <1>7, <1>10, <2>1, TurnMoves
    <2>3. Turning = {}
      BY <1>1, <1>10, AdmissionAssumption DEF RunsInv, Turning
    <2>4. /\ Turning' = {m} /\ Ended' = Ended /\ Written' = Written
      <3>1. \A n \in Messages \ {m} : at[n] \notin {"running", "written"}
        BY <2>3 DEF Turning
      <3> QED BY <1>5, <2>2, <3>1 DEF Turning, Ended, Written
    <2>5. EnterInv'
      BY <1>6, <2>2, Zenon DEF EnterInv
    <2>6. Holding' \subseteq Holding \cup {m}
      <3>1. Leaving(micro') \subseteq Leaving(micro)
        BY <1>8, <1>10, Zenon DEF Leaving
      <3>2. \A n \in Messages \ {m} : at'[n] = at[n]
        BY <2>2
      <3> QED BY <3>1, <3>2 DEF Holding
    <2>7. Cardinality(Holding)' <= activeRuns'
      BY <1>1, <1>2, <2>6, HoldingMoves
    <2>8. RunsInv'
      <3>1. \A n \in Messages : n \in Turning' <=> register' = n
        BY <1>10, <2>4
      <3>2. \A n \in Messages :
               at'[n] \in {"waiting", "running", "written"} => behind'[n] <= chain'["commands"].settled
        BY <1>1, <1>2, <1>5, <1>10, <2>2 DEF RunsInv
      <3> QED BY <2>7, <3>1, <3>2, Zenon DEF RunsInv
    <2>9. SnapshotsInv'
      <3>1. \A s \in Snapshots : reading[s].before # NoRun => reading[s].before \in Messages \ {m}
        BY <1>1, <1>5 DEF SnapshotsInv, AdmissionTypes, AdmissionTypeOK, ReadStates
      <3>2. \A s \in Snapshots : reading'[s].before # NoRun =>
               at'[reading'[s].before] \in {"running", "written", "leaving", "done"}
        BY <1>1, <1>2, <2>2, <3>1 DEF SnapshotsInv
      <3>3. \A s \in Snapshots : reading'[s].before \notin Turning'
        BY <1>2, <2>4, <3>1, AdmissionAssumption
      <3> QED BY <1>1, <1>2, <2>4, <3>2, <3>3, Zenon DEF SnapshotsInv
    <2>10. AdmissionInv'
      BY <2>2, <2>5, <2>8, <2>9, Zenon DEF AdmissionInv, OrderOfCalls
    <2> QED BY <1>6, <2>2, <2>3, <2>4, <2>10
  <1> QED BY <1>9, <1>10 DEF Enter

LEMMA WriteCheckpointStep ==
    ASSUME AdmissionInv, NEW m \in Messages, WriteCheckpoint(m)
    PROVE  AdmissionInv' /\ Changing' = Changing /\ Changed' = Changed /\ Turning' = Turning
  <1>1. /\ AdmissionTypes /\ OneCallEach(micro, chain) /\ CallsInv /\ MembersInv /\ EnterInv
        /\ RunsInv /\ SnapshotsInv
    BY DEF AdmissionInv, OrderOfCalls
  <1>2. /\ at[m] = "running" /\ at' = [at EXCEPT ![m] = "written"] /\ version' = version + 1
        /\ UNCHANGED <<micro, chain, behind, seen, activeRuns, register, active, reading>>
    BY DEF WriteCheckpoint
  <1>3. /\ version' \in Nat /\ version \in Nat /\ activeRuns \in Nat /\ active \in SessionIds
        /\ register \in Messages \cup {NoRun}
    BY <1>1, <1>2, StateTyped
  <1>4. From(micro, m) /\ EntersFirst(micro)
    BY <1>1, <1>2, CallbackTypes, FromAll DEF EnterInv
  <1>5. "written" \in MessageStates
    BY DEF MessageStates
  <1>6. /\ AdmissionTypes' /\ OneCallEach(micro', chain') /\ CallsInv' /\ MembersInv'
        /\ Changing' = Changing /\ Changed' = Changed /\ EntersFirst(micro')
        /\ at'[m] = "written" /\ \A n \in Messages \ {m} : at'[n] = at[n]
    BY <1>2, <1>3, <1>4, <1>5, TurnMoves
  <1>7. Turning' = Turning /\ Ended' = Ended /\ Written' = Written \cup {m}
    BY <1>2, <1>6 DEF Turning, Ended, Written
  <1>8. EnterInv'
    BY <1>1, <1>2, <1>6, <1>7, EnterStays, Zenon
  <1>9. RunsInv'
    <2>1. Holding' \subseteq Holding
      BY <1>2, <1>6 DEF Holding, Leaving
    <2>2. Cardinality(Holding)' <= activeRuns'
      BY <1>1, <1>2, <2>1, HoldingCount
    <2>3. \A n \in Messages : n \in Turning' <=> register' = n
      BY <1>1, <1>2, <1>7 DEF RunsInv
    <2>4. \A n \in Messages :
             at'[n] \in {"waiting", "running", "written"} => behind'[n] <= chain'["commands"].settled
      BY <1>1, <1>2, <1>6 DEF RunsInv
    <2> QED BY <2>2, <2>3, <2>4, Zenon DEF RunsInv
  <1>10. SnapshotsInv'
    <2>1. Written \subseteq Messages
      BY DEF Written
    <2>2. IsFiniteSet(Written)
      BY <2>1, AdmissionAssumption, FS_Subset
    <2>3. Cardinality(Written) <= version
      BY <1>1 DEF SnapshotsInv
    <2>4. Cardinality(Written') <= version'
      <3> HIDE DEF Written
      <3>1. /\ Cardinality(Written) \in Nat
            /\ Cardinality(Written \cup {m}) = Cardinality(Written)
               \/ Cardinality(Written \cup {m}) = Cardinality(Written) + 1
        BY <2>2, FS_CardinalityType, FS_AddElement
      <3>2. Cardinality(Written \cup {m}) <= version'
        BY <1>2, <1>3, <2>3, <3>1
      <3> QED BY <1>7, <3>2
    <2>5. \A s \in Snapshots : reading[s].before # NoRun => reading[s].before \in Messages
      BY <1>1 DEF AdmissionTypes, AdmissionTypeOK, ReadStates
    <2>6. \A s \in Snapshots : reading'[s].before # NoRun =>
             at'[reading'[s].before] \in {"running", "written", "leaving", "done"}
      BY <1>1, <1>2, <1>6, <2>5 DEF SnapshotsInv
    <2> QED BY <1>1, <1>2, <1>7, <2>4, <2>6, Zenon DEF SnapshotsInv
  <1> QED BY <1>6, <1>7, <1>8, <1>9, <1>10, Zenon DEF AdmissionInv, OrderOfCalls

LEMMA EndRunStep ==
    ASSUME AdmissionInv, NEW m \in Messages, EndRun(m)
    PROVE  /\ AdmissionInv' /\ Changing' = Changing /\ Changed' = Changed
           /\ Turning = {m} /\ Turning' = {}
  <1>1. /\ AdmissionTypes /\ OneCallEach(micro, chain) /\ CallsInv /\ MembersInv /\ EnterInv
        /\ RunsInv /\ SnapshotsInv
    BY DEF AdmissionInv, OrderOfCalls
  <1>2. /\ at[m] = "written" /\ at' = [at EXCEPT ![m] = "leaving"] /\ register' = NoRun
        /\ active' \in SessionIds /\ micro' = Append(micro, Callback("leave", m))
        /\ behind' = [behind EXCEPT ![m] = 0]
        /\ UNCHANGED <<chain, seen, activeRuns, version, reading>>
    BY DEF EndRun
  <1>3. version \in Nat /\ activeRuns \in Nat /\ register' \in Messages \cup {NoRun}
    BY <1>1, <1>2, StateTyped
  <1>4. From(micro, m) /\ EntersFirst(micro)
    BY <1>1, <1>2, CallbackTypes, FromAll DEF EnterInv
  <1>5. "leaving" \in MessageStates /\ "leaving" \in {"leaving", "gone"}
    BY DEF MessageStates
  <1>6. /\ AdmissionTypes' /\ OneCallEach(micro', chain') /\ CallsInv' /\ MembersInv'
        /\ Changing' = Changing /\ Changed' = Changed /\ EntersFirst(micro')
        /\ at'[m] = "leaving" /\ \A n \in Messages \ {m} : at'[n] = at[n]
        /\ \A n \in Messages \ {m} : behind'[n] = behind[n]
        /\ \A d \in In(micro') : d \in In(micro) \/ d = Callback("leave", m)
    BY <1>2, <1>3, <1>4, <1>5, TurnMoves
  <1>7. Turning = {m}
    <2>1. m \in Turning
      BY <1>2 DEF Turning
    <2> QED BY <1>1, <2>1 DEF RunsInv, Turning
  <1>8. Turning' = {} /\ Written' = Written
    <2>1. \A n \in Messages \ {m} : at[n] \notin {"running", "written"}
      BY <1>7 DEF Turning
    <2> QED BY <1>2, <1>6, <2>1 DEF Turning, Written
  <1>9. EnterInv'
    <2>1. \A d \in In(micro') : d.do = "enter" => d \in In(micro)
      BY <1>6, CallbackTypes
    <2> QED BY <1>1, <1>6, <1>8, <2>1, EnterStays
  <1>10. RunsInv'
    <2>1. Holding' \subseteq Holding
      <3>1. ASSUME NEW n \in Leaving(micro'), n # m PROVE n \in Leaving(micro)
        <4>1. n \in Messages /\ Callback("leave", n) \in In(micro')
          BY DEF Leaving
        <4>2. Callback("leave", n) # Callback("leave", m)
          BY <3>1, <4>1, LeaveOfMessage
        <4> QED BY <1>6, <4>1, <4>2 DEF Leaving
      <3>2. m \in Holding
        BY <1>2 DEF Holding
      <3>3. \A n \in Messages \ {m} : at'[n] = at[n]
        BY <1>6
      <3>4. ASSUME NEW n \in Holding', n # m PROVE n \in Holding
        BY <3>1, <3>3, <3>4 DEF Holding
      <3> QED BY <3>2, <3>4
    <2>2. Cardinality(Holding)' <= activeRuns'
      BY <1>1, <1>2, <2>1, HoldingCount
    <2>3. \A n \in Messages : n \in Turning' <=> register' = n
      BY <1>2, <1>8, AdmissionAssumption
    <2>4. \A n \in Messages :
             at'[n] \in {"waiting", "running", "written"} => behind'[n] <= chain'["commands"].settled
      BY <1>1, <1>2, <1>6 DEF RunsInv
    <2> QED BY <2>2, <2>3, <2>4, Zenon DEF RunsInv
  <1>11. SnapshotsInv'
    <2>1. \A s \in Snapshots : reading[s].before # NoRun => reading[s].before \in Messages
      BY <1>1 DEF AdmissionTypes, AdmissionTypeOK, ReadStates
    <2>2. \A s \in Snapshots : reading'[s].before # NoRun =>
             at'[reading'[s].before] \in {"running", "written", "leaving", "done"}
      BY <1>1, <1>2, <1>6, <2>1 DEF SnapshotsInv
    <2> QED BY <1>1, <1>2, <1>8, <2>2, Zenon DEF SnapshotsInv
  <1> QED BY <1>6, <1>7, <1>8, <1>9, <1>10, <1>11, Zenon DEF AdmissionInv, OrderOfCalls

LEMMA LeaveStep ==
    ASSUME AdmissionInv, NEW m \in Messages, Leave(m)
    PROVE  AdmissionInv' /\ Changing' = Changing /\ Changed' = Changed /\ Turning' = Turning
  <1> DEFINE q == Tail(micro)
             v == IF at[m] = "leaving" THEN "done" ELSE at[m]
  <1>1. /\ AdmissionTypes /\ OneCallEach(micro, chain) /\ CallsInv /\ MembersInv /\ EnterInv
        /\ RunsInv /\ SnapshotsInv
    BY DEF AdmissionInv, OrderOfCalls
  <1>2. /\ Runs("leave", m) /\ activeRuns' = activeRuns - 1
        /\ at' = [at EXCEPT ![m] = v] /\ micro' = q
        /\ UNCHANGED <<chain, behind, seen, register, active, version, reading>>
    BY DEF Leave
  <1>3. /\ From(q, m) /\ micro # <<>> /\ IsReady(at, behind, seen, chain, Callback("leave", m))
        /\ Callback("leave", m) \in In(micro)
        /\ Callback("leave", m).do = "leave" /\ Callback("leave", m).of = m
    BY <1>1, <1>2, FromHead
  <1>4. EntersFirst(q)
    BY <1>1, <1>3, EntersTail, StateTyped DEF EnterInv
  <1>5. at[m] \in {"leaving", "gone"}
    BY <1>3 DEF IsReady, Waits
  <1>6. v \in MessageStates /\ v \in {"done", "gone"} /\ (at[m] = "gone" => v = "gone")
        /\ (at[m] = "leaving" => v = "done")
    BY <1>5 DEF MessageStates
  <1>7. /\ activeRuns \in Nat /\ register \in Messages \cup {NoRun}
        /\ active \in SessionIds /\ version \in Nat
    BY <1>1, StateTyped
  <1>8. In(q) \subseteq In(micro)
    BY <1>3 DEF From
  <1>9. m \in Holding
    BY <1>3 DEF Holding, Leaving
  <1> HIDE DEF v
  <1>10. Callback("leave", m) \notin In(q)
    <2>1. \A d \in In(q) : d.of \in Of(q)
      BY Zenon DEF Of
    <2> QED BY <1>3, <2>1, Zenon DEF From, Unlisted
  <1>11. at'[m] = v /\ \A n \in Messages \ {m} : at'[n] = at[n]
    BY <1>1, <1>2, <1>6, MessageMoves
  <1>12. Holding' \subseteq Holding \ {m}
    <2>1. Leaving(micro') \subseteq Leaving(micro) \ {m}
      BY <1>2, <1>8, <1>10, Zenon DEF Leaving
    <2> QED BY <1>6, <1>11, <2>1 DEF Holding
  <1>13. activeRuns > 0 /\ Cardinality(Holding)' <= activeRuns' /\ activeRuns' \in Nat
    <2>1. activeRuns > 0 /\ Cardinality(Holding') <= activeRuns - 1
      BY <1>1, <1>9, <1>12, HoldingMoves
    <2> QED BY <1>2, <1>7, <2>1
  <1>14. /\ AdmissionTypes' /\ OneCallEach(micro', chain') /\ CallsInv' /\ MembersInv'
         /\ Changing' = Changing /\ Changed' = Changed /\ EntersFirst(micro')
    BY <1>2, <1>3, <1>4, <1>6, <1>7, <1>13, TurnMoves
  <1>15. Turning' = Turning /\ Ended' = Ended /\ Written' = Written
    BY <1>5, <1>6, <1>11 DEF Turning, Ended, Written
  <1>16. EnterInv'
    <2>1. \A d \in In(micro') : d.do = "enter" => d \in In(micro)
      BY <1>2, <1>8
    <2> QED BY <1>1, <1>14, <1>15, <2>1, EnterStays
  <1>17. RunsInv'
    <2>1. \A n \in Messages : n \in Turning' <=> register' = n
      BY <1>1, <1>2, <1>15 DEF RunsInv
    <2>2. \A n \in Messages :
             at'[n] \in {"waiting", "running", "written"} => behind'[n] <= chain'["commands"].settled
      BY <1>1, <1>2, <1>6, <1>11 DEF RunsInv
    <2> QED BY <1>13, <2>1, <2>2, Zenon DEF RunsInv
  <1>18. SnapshotsInv'
    <2>1. \A s \in Snapshots : reading[s].before # NoRun => reading[s].before \in Messages
      BY <1>1 DEF AdmissionTypes, AdmissionTypeOK, ReadStates
    <2>2. \A s \in Snapshots : reading'[s].before # NoRun =>
             at'[reading'[s].before] \in {"running", "written", "leaving", "done"}
      BY <1>1, <1>2, <1>5, <1>6, <1>11, <2>1 DEF SnapshotsInv
    <2> QED BY <1>1, <1>2, <1>15, <2>2, Zenon DEF SnapshotsInv
  <1> QED BY <1>14, <1>15, <1>16, <1>17, <1>18, Zenon DEF AdmissionInv, OrderOfCalls

LEMMA SettleKeeps ==
    ASSUME AdmissionInv, NEW k \in Chains, Settle(k)
    PROVE  AdmissionInv' /\ Changing' = Changing /\ Changed' = Changed /\ Turning' = Turning
  <1> DEFINE n == chain[k].settled + 1
             r == chain[k].then[n]
  <1>1. AdmissionTypes /\ OneCallEach(micro, chain) /\ CallsInv /\ MembersInv /\ EnterInv
    BY DEF AdmissionInv, OrderOfCalls
  <1>2. UNCHANGED <<at, behind, seen, activeRuns, register, active, version, reading>>
    BY DEF Settle, SettleAfter, sessionVars
  <1>3. /\ n \in Thens(chain, k) /\ n <= LengthOf(k) /\ n \in Nat
        /\ micro' = micro \o r
        /\ \A l \in Chains \ {k} : chain'[l] = chain[l]
        /\ chain'[k].settled = n /\ chain'[k].members = chain[k].members
        /\ Len(chain'[k].then) = LengthOf(k)
    BY <1>1, SettlePlaces, Zenon
  <1>4. /\ OneCallEach(micro', chain') /\ CallsInv' /\ micro' \in Seq(Callbacks)
        /\ chain' \in ChainTypes
    BY <1>1, QueueSettles
  <1>5. /\ MembersInv' /\ Changing' = Changing /\ Changed' = Changed
        /\ \A l \in Chains : chain[l].settled <= chain'[l].settled
    BY <1>1, MemberSettles
  <1>6. \A d \in In(micro') : d \in In(micro) \/ d \in Waiting(chain, k, n)
    BY <1>1, SettleOnce
  <1>7. \A d \in Waiting(chain, k, n) : d.do \notin {"enter", "leave"}
    <2>1. \A d \in Waiting(chain, k, n) : Waits(at, behind, seen, chain, k, d, n)
      BY <1>1, <1>3, Zenon DEF CallsInv
    <2> QED BY <2>1 DEF Waits
  <1>8. \A l \in Chains : /\ chain'[l].settled <= Len(chain'[l].members)
                          /\ Len(chain'[l].then) = Len(chain'[l].members)
    <2>1. \A l \in Chains : chain[l].settled <= Len(chain[l].members)
                            /\ Len(chain[l].then) = Len(chain[l].members)
      BY <1>1, StateTyped
    <2> HIDE DEF n, r
    <2> QED BY <1>3, <2>1, Zenon DEF LengthOf
  <1>9. AdmissionTypes'
    BY <1>1, <1>2, <1>4, <1>8, StateTyped, TypesFromParts, Zenon
  <1>10. EarlyMoves
    BY <1>2 DEF EarlyMoves
  <1>11. Turning' = Turning
    BY <1>10, EarlyFacts
  <1>12. EntersFirst(micro')
    <2>1. r \in Seq(Callbacks) /\ micro \in Seq(Callbacks)
      <3> HIDE DEF n
      <3> QED BY <1>1, <1>3, StateTyped, ThenTypes
    <2>2. \A d \in In(r) : d.do # "enter"
      BY <1>7 DEF Waiting
    <2> HIDE DEF r
    <2> QED BY <1>1, <1>3, <2>1, <2>2, EntersConcat DEF EnterInv
  <1>13. EnterInv'
    <2>1. \A d \in In(micro') : d.do = "enter" => d \in In(micro)
      BY <1>6, <1>7
    <2> QED BY <1>1, <1>5, <1>11, <1>12, <2>1, EnterStays
  <1>14. BehindInv'
    <2>1. chain["commands"].settled <= chain'["commands"].settled
      BY <1>5, CallbackTypes
    <2> QED BY <1>2, <1>9, <2>1, BehindStays
  <1>15. \A d \in In(micro') : d.do = "leave" => d \in In(micro)
    BY <1>6, <1>7
  <1> QED BY <1>2, <1>4, <1>5, <1>9, <1>10, <1>11, <1>13, <1>14, <1>15, EarlyStep, Zenon

\* The steps of a snapshot, and the ones outside the queues.
LEMMA QueuesRest ==
    ASSUME AdmissionInv, UNCHANGED <<admission, activeRuns, register, version>>, active' \in SessionIds,
           reading' \in [Snapshots -> ReadStates], SnapshotsInv'
    PROVE  AdmissionInv' /\ Changing' = Changing /\ Changed' = Changed /\ Turning' = Turning
  <1>1. UNCHANGED <<at, micro, chain, behind, seen, activeRuns, register, version>>
    BY DEF admission
  <1>2. AdmissionTypes'
    BY <1>1 DEF AdmissionInv, AdmissionTypes, AdmissionTypeOK, LengthOf
  <1>3. Changing' = Changing /\ Changed' = Changed /\ Turning' = Turning
    BY <1>1 DEF Changing, Changed, Turning, Transitions, Members, LengthOf
  <1>4. OneCallEach(micro', chain') /\ CallsInv' /\ MembersInv'
    <2>1. OneCallEach(micro, chain) /\ CallsInv /\ MembersInv
      BY DEF AdmissionInv, OrderOfCalls
    <2>2. OneCallEach(micro', chain') /\ CallsInv'
      BY <1>1, <2>1 DEF CallsInv
    <2>3. MembersInv'
      BY <1>1, <2>1, MembersStay DEF AdmissionInv
    <2> QED BY <2>2, <2>3
  <1>5. EnterInv'
    BY <1>1, <1>3, Zenon DEF AdmissionInv, OrderOfCalls, EnterInv
  <1>6. RunsInv'
    <2>1. Holding' = Holding
      BY <1>1 DEF Holding, Leaving
    <2> QED BY <1>1, <1>3, <2>1, Zenon DEF AdmissionInv, RunsInv
  <1> QED BY <1>2, <1>3, <1>4, <1>5, <1>6, Zenon DEF AdmissionInv, OrderOfCalls

LEMMA ReadMoves ==
    ASSUME AdmissionInv, NEW s \in Snapshots, NEW to \in ReadStates,
           reading' = [reading EXCEPT ![s] = to], UNCHANGED <<admission, sessionVars>>,
           to.before # NoRun => at[to.before] \in {"running", "written", "leaving", "done"},
           to.step = "sampled" /\ to.before \in Turning => Cardinality(Ended) <= to.sample
    PROVE  AdmissionInv' /\ Changing' = Changing /\ Changed' = Changed /\ Turning' = Turning
  <1>1. UNCHANGED <<at, activeRuns, register, active, version>>
    BY DEF admission, sessionVars
  <1>2. reading \in [Snapshots -> ReadStates] /\ active \in SessionIds
    BY StateTyped DEF AdmissionInv
  <1>3. /\ reading' \in [Snapshots -> ReadStates] /\ reading'[s] = to
        /\ \A t \in Snapshots \ {s} : reading'[t] = reading[t]
    BY <1>2
  <1>4. Turning' = Turning /\ Ended' = Ended /\ Written' = Written
    BY <1>1 DEF Turning, Ended, Written
  <1>5. ASSUME NEW t \in Snapshots
        PROVE  /\ reading'[t].before # NoRun =>
                    at'[reading'[t].before] \in {"running", "written", "leaving", "done"}
               /\ reading'[t].step = "sampled" /\ reading'[t].before \in Turning'
                    => Cardinality(Ended') <= reading'[t].sample
    <2>1. CASE t = s
      BY <1>1, <1>3, <1>4, <2>1, Zenon
    <2>2. CASE t # s
      BY <1>1, <1>3, <1>4, <2>2, Zenon DEF AdmissionInv, SnapshotsInv
    <2> QED BY <2>1, <2>2
  <1>6. SnapshotsInv'
    BY <1>1, <1>4, <1>5, Zenon DEF AdmissionInv, SnapshotsInv
  <1> QED BY <1>1, <1>2, <1>3, <1>6, QueuesRest, Zenon

LEMMA ReadSteps ==
    ASSUME AdmissionInv, NEW s \in Snapshots,
           ReadBegins(s) \/ ReadSamples(s) \/ ReadReturns(s) \/ SendSnapshot(s)
    PROVE  AdmissionInv' /\ Changing' = Changing /\ Changed' = Changed /\ Turning' = Turning
  <1>1. /\ reading[s] \in ReadStates /\ register \in Messages \cup {NoRun} /\ version \in Nat
        /\ MaxAttempts \in Nat
    BY StateTyped, AdmissionAssumption DEF AdmissionInv
  <1>2. reading[s].before # NoRun => at[reading[s].before] \in {"running", "written", "leaving", "done"}
    BY DEF AdmissionInv, SnapshotsInv
  <1>3. register # NoRun => at[register] \in {"running", "written", "leaving", "done"}
    BY <1>1 DEF AdmissionInv, RunsInv, Turning
  <1>4. NoRun \notin Turning
    BY AdmissionAssumption DEF Turning
  <1> DEFINE again == [reading[s] EXCEPT !.step = "reading", !.before = register, !.attempt = @ + 1]
             sampled == [reading[s] EXCEPT !.step = "sampled", !.sample = version]
             sending == [reading[s] EXCEPT !.step = "sending"]
             none == NoRead("sent")
  <1>5. again \in ReadStates /\ again.before = register /\ again.step = "reading"
    <2>1. /\ reading[s] \in [step : {"new", "reading", "sampled", "sending", "sent"},
                              before : Messages \cup {NoRun}, sample : Nat, attempt : Nat]
          /\ reading[s].attempt + 1 \in Nat
      BY <1>1 DEF ReadStates
    <2>2. again \in [step : {"new", "reading", "sampled", "sending", "sent"},
                     before : Messages \cup {NoRun}, sample : Nat, attempt : Nat]
      BY <1>1, <2>1
    <2> QED BY <2>1, <2>2 DEF ReadStates
  <1>6. sampled \in ReadStates /\ sampled.before = reading[s].before /\ sampled.sample = version
    BY <1>1 DEF ReadStates
  <1>7. sending \in ReadStates /\ sending.before = reading[s].before /\ sending.step = "sending"
    BY <1>1 DEF ReadStates
  <1>8. none \in ReadStates /\ none.before = NoRun /\ none.step = "sent"
    BY DEF ReadStates, NoRead
  <1>9. CASE ReadBegins(s)
    <2>1. reading' = [reading EXCEPT ![s] = again] /\ UNCHANGED <<admission, sessionVars>>
      BY <1>9 DEF ReadBegins, ReadStep
    <2> HIDE DEF again
    <2> QED BY <1>3, <1>5, <2>1, ReadMoves
  <1>10. CASE ReadSamples(s)
    <2>1. reading' = [reading EXCEPT ![s] = sampled] /\ UNCHANGED <<admission, sessionVars>>
      BY <1>10 DEF ReadSamples, ReadStep
    <2>2. Cardinality(Ended) <= version
      <3>1. Written \subseteq Messages /\ Ended \subseteq Written
        BY DEF Written, Ended
      <3>2. IsFiniteSet(Written)
        BY <3>1, AdmissionAssumption, FS_Subset
      <3>3. IsFiniteSet(Ended) /\ Cardinality(Ended) <= Cardinality(Written)
        BY <3>1, <3>2, FS_Subset
      <3>4. Cardinality(Ended) \in Nat /\ Cardinality(Written) \in Nat
        BY <3>2, <3>3, FS_CardinalityType
      <3>5. Cardinality(Written) <= version
        BY DEF AdmissionInv, SnapshotsInv
      <3> QED BY <1>1, <3>3, <3>4, <3>5
    <2> HIDE DEF sampled
    <2> QED BY <1>2, <1>6, <2>1, <2>2, ReadMoves
  <1>11. CASE ReadReturns(s)
    <2>1. /\ reading' = [reading EXCEPT ![s] = sending] \/ reading' = [reading EXCEPT ![s] = again]
          /\ UNCHANGED <<admission, sessionVars>>
      BY <1>11 DEF ReadReturns, ReadStep
    <2> HIDE DEF sending, again
    <2> QED BY <1>2, <1>3, <1>5, <1>7, <2>1, ReadMoves
  <1>12. CASE SendSnapshot(s)
    <2>1. reading' = [reading EXCEPT ![s] = none] /\ UNCHANGED <<admission, sessionVars>>
      BY <1>12 DEF SendSnapshot, ReadStep
    <2> HIDE DEF none
    <2> QED BY <1>8, <2>1, ReadMoves
  <1> QED BY <1>9, <1>10, <1>11, <1>12

LEMMA OutsideStep ==
    ASSUME AdmissionInv, NewSession \/ UNCHANGED admissionVars
    PROVE  AdmissionInv' /\ Changing' = Changing /\ Changed' = Changed /\ Turning' = Turning
  <1>1. /\ UNCHANGED <<admission, activeRuns, register, version, reading>> /\ active' \in SessionIds
    BY StateTyped DEF AdmissionInv, NewSession, admissionVars, sessionVars
  <1>2. UNCHANGED <<at, version, reading>>
    BY <1>1 DEF admission
  <1>3. SnapshotsInv'
    BY <1>2 DEF AdmissionInv, SnapshotsInv, Turning, Ended, Written
  <1>4. reading' \in [Snapshots -> ReadStates]
    BY <1>2, StateTyped DEF AdmissionInv
  <1> QED BY <1>1, <1>3, <1>4, QueuesRest

LEMMA AdmissionStarts == AdmissionInit => AdmissionInv
  <1> SUFFICES ASSUME AdmissionInit PROVE AdmissionInv
    OBVIOUS
  <1>1. /\ micro = <<>> /\ activeRuns = 0 /\ register = NoRun /\ version = 0 /\ active \in SessionIds
        /\ chain = [k \in Chains |-> EmptyChain] /\ at = [x \in Messages \cup Commands |-> "new"]
        /\ behind = [m \in Messages |-> 0] /\ seen = [m \in Messages |-> 0]
        /\ reading = [s \in Snapshots |-> NoRead("new")]
    BY DEF AdmissionInit
  <1>2. \A k \in Chains : /\ chain[k].members = <<>> /\ chain[k].settled = 0 /\ chain[k].then = <<>>
                          /\ chain[k] \in [members : Seq(Commands), settled : Nat,
                                           then : Seq(Seq(Callbacks))]
    BY <1>1 DEF EmptyChain
  <1>3. Len(<<>>) = 0 /\ In(<<>>) = {} /\ Of(<<>>) = {} /\ Once(<<>>) /\ EntersFirst(<<>>)
    BY DEF In, Of, Once, EntersFirst
  <1>4. NoRead("new") \in ReadStates /\ NoRead("new").before = NoRun /\ NoRead("new").step = "new"
    BY DEF NoRead, ReadStates
  <1>5. /\ at \in [Messages \cup Commands -> MessageStates \cup CommandStates]
        /\ \A m \in Messages : at[m] = "new"
        /\ (\A m \in Messages : at[m] \in MessageStates) /\ \A c \in Commands : at[c] \in CommandStates
    BY <1>1 DEF MessageStates, CommandStates
  <1>6. \A k \in Chains : LengthOf(k) = 0 /\ Thens(chain, k) = {}
    BY <1>2, <1>3 DEF LengthOf, Thens
  <1>7. "commands" \in Chains /\ "transitions" \in Chains
    BY DEF Chains
  <1>8. AdmissionTypes
    <2>1. chain \in [Chains -> [members : Seq(Commands), settled : Nat, then : Seq(Seq(Callbacks))]]
      BY <1>1, <1>2
    <2>2. \A k \in Chains : chain[k].settled <= LengthOf(k) /\ Len(chain[k].then) = LengthOf(k)
      BY <1>2, <1>3, <1>6
    <2>3. micro \in Seq(Callbacks) /\ behind \in [Messages -> Nat] /\ seen \in [Messages -> Nat]
          /\ activeRuns \in Nat /\ register \in Messages \cup {NoRun} /\ version \in Nat
      BY <1>1
    <2>4. reading \in [Snapshots -> ReadStates]
      BY <1>1, <1>4
    <2> QED BY <1>1, <1>5, <2>1, <2>2, <2>3, <2>4 DEF AdmissionTypes, AdmissionTypeOK
  <1>9. OneCallEach(micro, chain)
    BY <1>1, <1>3, <1>6 DEF OneCallEach
  <1>10. MembersInv
    BY <1>2, <1>3, <1>6, <1>7 DEF MembersInv, Distinct
  <1>11. CallsInv
    BY <1>1, <1>3, <1>6 DEF CallsInv
  <1>12. Transitions = {} /\ Changing = {}
    BY <1>6, <1>7 DEF Transitions, Members, Changing
  <1>13. EnterInv
    BY <1>1, <1>3, <1>12 DEF EnterInv
  <1>14. Turning = {} /\ Holding = {} /\ Written = {}
    BY <1>1, <1>3, <1>5 DEF Turning, Holding, Leaving, Written
  <1>15. Cardinality({}) = 0
    BY FS_EmptySet
  <1>16. RunsInv
    BY <1>1, <1>5, <1>14, <1>15, AdmissionAssumption DEF RunsInv
  <1>17. \A s \in Snapshots : reading[s] = NoRead("new")
    BY <1>1
  <1>18. SnapshotsInv
    BY <1>1, <1>4, <1>14, <1>15, <1>17 DEF SnapshotsInv
  <1> QED BY <1>8, <1>9, <1>10, <1>11, <1>13, <1>16, <1>18 DEF AdmissionInv, OrderOfCalls

\* What a step does to the gate: nothing, or one of the gate's own four steps.
GateQuiet == Changing' = Changing /\ Changed' = Changed /\ Turning' = Turning
TransitionStarts(c) ==
    /\ Changing = {} /\ Turning = {} /\ c \notin Changed
    /\ Changing' = {c} /\ Changed' = Changed \cup {c} /\ Turning' = Turning
TransitionEnds(c) == Changing' = Changing \ {c} /\ Changed' = Changed /\ Turning' = Turning
TurnStarts(m) ==
    /\ Changing = {} /\ m \notin Turning
    /\ Turning' = Turning \cup {m} /\ Changing' = Changing /\ Changed' = Changed
TurnEnds(m) == Turning = {m} /\ Turning' = {} /\ Changing' = Changing /\ Changed' = Changed
SessionStep ==
    \/ GateQuiet
    \/ \E c \in Commands : TransitionStarts(c) \/ TransitionEnds(c)
    \/ \E m \in Messages : TurnStarts(m) \/ TurnEnds(m)

\* Who moves the active session: a transition that works, a turn that ends, or onNewSession.
MovesSession ==
    active' # active => Changing # {} \/ Turning' = {} \/ NewSession

LEMMA AdmissionStep ==
    ASSUME AdmissionInv, [AdmissionNext]_admissionVars
    PROVE  AdmissionInv' /\ SessionStep /\ MovesSession
  <1>1. CASE \E c \in Commands : Enqueue(c)
    <2>1. PICK c \in Commands : Enqueue(c)
      BY <1>1
    <2>2. active' = active
      BY <2>1 DEF Enqueue, sessionVars
    <2> QED BY <2>1, <2>2, EnqueueStep DEF SessionStep, GateQuiet, MovesSession
  <1>2. CASE \E m \in Messages : Arrive(m)
    <2>1. PICK m \in Messages : Arrive(m)
      BY <1>2
    <2>2. active' = active
      BY <2>1 DEF Arrive, sessionVars
    <2> QED BY <2>1, <2>2, ArriveStep DEF SessionStep, GateQuiet, MovesSession
  <1>3. CASE NewSession
    BY <1>3, OutsideStep DEF SessionStep, GateQuiet, MovesSession
  <1>4. ASSUME NEW c \in Commands, StartCommand(c) PROVE AdmissionInv' /\ SessionStep /\ MovesSession
    <2>1. active' = active
      BY <1>4 DEF StartCommand, sessionVars
    <2> QED BY <1>4, <2>1, StartCommandStep DEF SessionStep, GateQuiet, MovesSession
  <1>5. ASSUME NEW c \in Commands, CheckRun(c) PROVE AdmissionInv' /\ SessionStep /\ MovesSession
    <2>1. active' = active
      BY <1>5 DEF CheckRun, sessionVars
    <2>2. AdmissionInv' /\ (GateQuiet \/ TransitionStarts(c))
      BY <1>5, CheckRunStep DEF GateQuiet, TransitionStarts
    <2> QED BY <2>1, <2>2, Zenon DEF SessionStep, MovesSession
  <1>6. ASSUME NEW m \in Messages, PassCommands(m) PROVE AdmissionInv' /\ SessionStep /\ MovesSession
    <2>1. active' = active
      BY <1>6 DEF PassCommands, sessionVars
    <2> QED BY <1>6, <2>1, PassCommandsStep DEF SessionStep, GateQuiet, MovesSession
  <1>7. ASSUME NEW m \in Messages, Look(m) PROVE AdmissionInv' /\ SessionStep /\ MovesSession
    <2>1. active' = active
      BY <1>7 DEF Look, sessionVars
    <2> QED BY <1>7, <2>1, LookStep DEF SessionStep, GateQuiet, MovesSession
  <1>8. ASSUME NEW m \in Messages, Enter(m) PROVE AdmissionInv' /\ SessionStep /\ MovesSession
    <2>1. active' = active
      BY <1>8 DEF Enter
    <2>2. AdmissionInv' /\ (GateQuiet \/ TurnStarts(m))
      BY <1>8, EnterStep DEF GateQuiet, TurnStarts
    <2> QED BY <2>1, <2>2, Zenon DEF SessionStep, MovesSession
  <1>9. ASSUME NEW m \in Messages, Leave(m) PROVE AdmissionInv' /\ SessionStep /\ MovesSession
    <2>1. active' = active
      BY <1>9 DEF Leave
    <2> QED BY <1>9, <2>1, LeaveStep DEF SessionStep, GateQuiet, MovesSession
  <1>10. ASSUME NEW k \in Chains, Settle(k) PROVE AdmissionInv' /\ SessionStep /\ MovesSession
    <2>1. active' = active
      BY <1>10 DEF Settle, SettleAfter, sessionVars
    <2> QED BY <1>10, <2>1, SettleKeeps DEF SessionStep, GateQuiet, MovesSession
  <1>11. ASSUME NEW c \in Commands, EndCommand(c) PROVE AdmissionInv' /\ SessionStep /\ MovesSession
    <2>1. /\ AdmissionInv' /\ TransitionEnds(c)
          /\ active' # active => c \in Changing
      BY <1>11, EndCommandStep DEF TransitionEnds
    <2> QED BY <2>1, Zenon DEF SessionStep, MovesSession
  <1>12. ASSUME NEW m \in Messages, WriteCheckpoint(m) PROVE AdmissionInv' /\ SessionStep /\ MovesSession
    <2>1. active' = active
      BY <1>12 DEF WriteCheckpoint
    <2> QED BY <1>12, <2>1, WriteCheckpointStep DEF SessionStep, GateQuiet, MovesSession
  <1>13. ASSUME NEW m \in Messages, EndRun(m) PROVE AdmissionInv' /\ SessionStep /\ MovesSession
    <2>1. AdmissionInv' /\ TurnEnds(m)
      BY <1>13, EndRunStep DEF TurnEnds
    <2> QED BY <2>1, Zenon DEF SessionStep, MovesSession, TurnEnds
  <1>14. ASSUME NEW s \in Snapshots,
                ReadBegins(s) \/ ReadSamples(s) \/ ReadReturns(s) \/ SendSnapshot(s)
         PROVE  AdmissionInv' /\ SessionStep /\ MovesSession
    <2>1. active' = active
      BY <1>14 DEF ReadBegins, ReadSamples, ReadReturns, SendSnapshot, ReadStep, sessionVars
    <2> QED BY <1>14, <2>1, ReadSteps DEF SessionStep, GateQuiet, MovesSession
  <1>15. CASE UNCHANGED admissionVars
    <2>1. active' = active
      BY <1>15 DEF admissionVars, sessionVars
    <2> QED BY <1>15, <2>1, OutsideStep DEF SessionStep, GateQuiet, MovesSession
  <1>16. CASE MicroStep
    BY <1>4, <1>5, <1>6, <1>7, <1>8, <1>9, <1>16, Zenon DEF MicroStep
  <1>17. CASE SettleStep
    BY <1>10, <1>17, Zenon DEF SettleStep
  <1>18. CASE \E x \in Commands \cup Messages : WorkStep(x)
    BY <1>11, <1>12, <1>13, <1>18, Zenon DEF WorkStep
  <1>19. CASE SnapshotStep \/ \E s \in Snapshots : ReadBegins(s)
    BY <1>14, <1>19, Zenon DEF SnapshotStep
  <1> QED BY <1>1, <1>2, <1>3, <1>15, <1>16, <1>17, <1>18, <1>19, Zenon
          DEF AdmissionNext, LoopStep

LEMMA ReadingMoves ==
    ASSUME [AdmissionNext]_admissionVars, reading' # reading
    PROVE  \E t \in Snapshots :
              ReadBegins(t) \/ ReadSamples(t) \/ ReadReturns(t) \/ SendSnapshot(t)
  <1>1. CASE \E c \in Commands : Enqueue(c)
    BY <1>1 DEF Enqueue
  <1>2. CASE \E m \in Messages : Arrive(m)
    BY <1>2 DEF Arrive
  <1>3. CASE NewSession \/ UNCHANGED admissionVars
    BY <1>3 DEF NewSession, admissionVars
  <1>4. CASE MicroStep
    BY <1>4 DEF MicroStep, StartCommand, CheckRun, PassCommands, Look, Enter, Leave
  <1>5. CASE SettleStep
    BY <1>5 DEF SettleStep, Settle, SettleAfter
  <1>6. CASE \E x \in Commands \cup Messages : WorkStep(x)
    BY <1>6 DEF WorkStep, EndCommand, WriteCheckpoint, EndRun
  <1>7. CASE SnapshotStep \/ \E s \in Snapshots : ReadBegins(s)
    BY <1>7 DEF SnapshotStep
  <1> QED BY <1>1, <1>2, <1>3, <1>4, <1>5, <1>6, <1>7 DEF AdmissionNext, LoopStep

\* The inductive invariant of the admission.
THEOREM AdmissionIsOrdered == AdmissionSpec => []AdmissionInv
  <1>1. AdmissionInit => AdmissionInv
    BY AdmissionStarts
  <1>2. AdmissionInv /\ [AdmissionNext]_admissionVars => AdmissionInv'
    BY AdmissionStep
  <1> QED BY <1>1, <1>2, PTL DEF AdmissionSpec

\* The run counter counts every message that holds the session, the register
\* names the one turn that runs, and every variable keeps its type
\* (agent/activeRunRegister.ts, session/sessionAdmission.ts).
THEOREM RegisterTellsTheTruth == AdmissionSpec => []StateIsSound
  <1>1. AdmissionInv => StateIsSound
    <2> SUFFICES ASSUME AdmissionInv PROVE StateIsSound
      OBVIOUS
    <2> DEFINE held == {m \in Messages : at[m] \in {"running", "written", "leaving"}}
    <2>1. AdmissionTypeOK /\ RunsInv /\ activeRuns \in Nat /\ register \in Messages \cup {NoRun}
      BY StateTyped DEF AdmissionInv, AdmissionTypes
    <2>2. held \subseteq Holding /\ Holding \subseteq Messages
      BY DEF Holding, Leaving
    <2>3. IsFiniteSet(Holding)
      BY <2>2, AdmissionAssumption, FS_Subset
    <2>4. IsFiniteSet(held) /\ Cardinality(held) <= Cardinality(Holding)
      <3> HIDE DEF held, Holding
      <3> QED BY <2>2, <2>3, FS_Subset
    <2>5. Cardinality(Holding) <= activeRuns
      BY <2>1 DEF RunsInv
    <2>6. Cardinality(held) \in Nat /\ Cardinality(Holding) \in Nat
      <3> HIDE DEF held, Holding
      <3> QED BY <2>3, <2>4, FS_CardinalityType
    <2>7. Cardinality(held) <= activeRuns
      BY <2>1, <2>4, <2>5, <2>6
    <2>8. ASSUME activeRuns = 0, register # NoRun PROVE FALSE
      <3>1. register \in held
        BY <2>1, <2>8 DEF RunsInv, Turning
      <3>2. Cardinality(held) = 0
        BY <2>6, <2>7, <2>8
      <3> HIDE DEF held
      <3> QED BY <2>4, <3>1, <3>2, FS_EmptySet
    <2> QED BY <2>1, <2>7, <2>8 DEF StateIsSound, RegisterIsTheRun, RunsInv
  <1> QED BY <1>1, AdmissionIsOrdered, PTL

\* Neither a turn nor a command overtakes a command that was queued before it
\* (session/sessionCommandQueue.ts, admitHumanMessage in serverHandlers.ts).
THEOREM NothingOvertakes == AdmissionSpec => []QueuesKeepTheirOrder
  <1>1. AdmissionInv => QueuesKeepTheirOrder
    <2> SUFFICES ASSUME AdmissionInv PROVE QueuesKeepTheirOrder
      OBVIOUS
    <2>1. /\ \A i \in 1 .. chain["commands"].settled : at[chain["commands"].members[i]] \in Over
          /\ \A i \in 1 .. LengthOf("commands") :
                at[chain["commands"].members[i]] # "queued" => i <= chain["commands"].settled + 1
          /\ \A m \in Messages :
                at[m] \in {"waiting", "running", "written"} => behind[m] <= chain["commands"].settled
      BY CallbackTypes DEF AdmissionInv, OrderOfCalls, MembersInv, RunsInv
    <2>2. /\ chain["commands"].settled \in Nat /\ \A m \in Messages : behind[m] \in Nat
          /\ DOMAIN chain["commands"].members = 1 .. LengthOf("commands")
      <3>1. chain["commands"].settled \in Nat /\ chain["commands"].members \in Seq(Commands)
        BY CallbackTypes, MembersTyped DEF AdmissionInv
      <3> QED BY <3>1, StateTyped DEF AdmissionInv, LengthOf
    <2>3. TurnsFollowTheirCommands
      BY <2>1, <2>2 DEF TurnsFollowTheirCommands, Over
    <2>4. CommandsInOrder
      <3> SUFFICES ASSUME NEW i \in 1 .. LengthOf("commands"), NEW j \in 1 .. LengthOf("commands"), i < j,
                          at[chain["commands"].members[j]] # "queued"
                   PROVE  at[chain["commands"].members[i]] \in {"done", "refused"}
        BY <2>2 DEF CommandsInOrder
      <3>1. j <= chain["commands"].settled + 1
        BY <2>1
      <3>2. i \in 1 .. chain["commands"].settled
        BY <2>2, <3>1
      <3> QED BY <2>1, <3>2 DEF Over
    <2> QED BY <2>3, <2>4 DEF QueuesKeepTheirOrder
  <1> QED BY <1>1, AdmissionIsOrdered, PTL

\* The admission is the gate of ExecutionGate: a transition works alone and
\* no turn runs beside it (session/sessionAdmission.ts).
THEOREM SessionGateImplemented == AdmissionSpec => ImplementsSessionGate
  <1>1. AdmissionInit => SessionGate!GateInit
    <2> SUFFICES ASSUME AdmissionInit PROVE SessionGate!GateInit
      OBVIOUS
    <2>1. /\ "transitions" \in Chains /\ chain["transitions"].members = <<>>
          /\ \A m \in Messages : at[m] = "new"
      BY DEF AdmissionInit, Chains, EmptyChain
    <2>2. Transitions = {}
      BY <2>1 DEF Transitions, Members, LengthOf
    <2> QED BY <2>1, <2>2 DEF SessionGate!GateInit, Changing, Changed, Turning
  <1>2. AdmissionInv /\ [AdmissionNext]_admissionVars => [SessionGate!GateNext]_(SessionGate!gateVars)
    <2> SUFFICES ASSUME AdmissionInv, [AdmissionNext]_admissionVars
                 PROVE  SessionGate!GateNext \/ UNCHANGED SessionGate!gateVars
      OBVIOUS
    <2>1. SessionStep
      BY AdmissionStep
    <2>2. CASE GateQuiet
      BY <2>2 DEF GateQuiet, SessionGate!gateVars
    <2>3. ASSUME NEW c \in Commands, TransitionStarts(c) PROVE SessionGate!GateNext
      <3>1. SessionGate!StartDispatch(c)
        BY <2>3 DEF TransitionStarts, SessionGate!StartDispatch
      <3> QED BY <3>1 DEF SessionGate!GateNext
    <2>4. ASSUME NEW c \in Commands, TransitionEnds(c)
          PROVE  SessionGate!GateNext \/ UNCHANGED SessionGate!gateVars
      <3>1. CASE c \in Changing
        <4>1. SessionGate!FinishDispatch(c)
          BY <2>4, <3>1 DEF TransitionEnds, SessionGate!FinishDispatch
        <4> QED BY <4>1 DEF SessionGate!GateNext
      <3>2. CASE c \notin Changing
        <4>1. Changing' = Changing
          BY <2>4, <3>2 DEF TransitionEnds
        <4> QED BY <2>4, <4>1 DEF TransitionEnds, SessionGate!gateVars
      <3> QED BY <3>1, <3>2
    <2>5. ASSUME NEW m \in Messages, TurnStarts(m) PROVE SessionGate!GateNext
      <3>1. SessionGate!StartTalking(m)
        BY <2>5 DEF TurnStarts, SessionGate!StartTalking
      <3> QED BY <3>1 DEF SessionGate!GateNext
    <2>6. ASSUME NEW m \in Messages, TurnEnds(m) PROVE SessionGate!GateNext
      <3>1. SessionGate!StopTalking(m)
        BY <2>6 DEF TurnEnds, SessionGate!StopTalking
      <3> QED BY <3>1 DEF SessionGate!GateNext
    <2> QED BY <2>1, <2>2, <2>3, <2>4, <2>5, <2>6 DEF SessionStep
  <1> QED BY <1>1, <1>2, AdmissionIsOrdered, PTL
          DEF AdmissionSpec, ImplementsSessionGate, SessionGate!GateSpec

\* What a turn relies on stays while it runs: only onNewSession moves its
\* session, and a checkpoint shown of it holds what every turn before it wrote
\* (serverHandlers.ts).
THEOREM RunsAreSettled == AdmissionSpec => StateUnderARunIsSettled
  <1> DEFINE Moves == Turning \cap Turning' # {} /\ active' # active => NewSession
             Shows == \A s \in Snapshots :
                         (reading[s].step = "sampled" /\ reading'[s].step = "sending"
                          /\ register # NoRun /\ reading[s].attempt < MaxAttempts)
                         => reading[s].sample >= Cardinality(Ended)
  <1>1. AdmissionInv /\ [AdmissionNext]_admissionVars => [Moves]_admissionVars
    <2> SUFFICES ASSUME AdmissionInv, [AdmissionNext]_admissionVars,
                        Turning \cap Turning' # {}, active' # active
                 PROVE  NewSession
      OBVIOUS
    <2>1. Changing # {} \/ Turning' = {} \/ NewSession
      BY AdmissionStep DEF MovesSession
    <2>2. Changing = {}
      BY DEF AdmissionInv, OrderOfCalls, EnterInv
    <2> QED BY <2>1, <2>2
  <1>2. AdmissionInv /\ [AdmissionNext]_admissionVars => [Shows]_admissionVars
    <2> SUFFICES ASSUME AdmissionInv, [AdmissionNext]_admissionVars, NEW s \in Snapshots,
                        reading[s].step = "sampled", reading'[s].step = "sending",
                        register # NoRun, reading[s].attempt < MaxAttempts
                 PROVE  reading[s].sample >= Cardinality(Ended)
      OBVIOUS
    <2>1. reading \in [Snapshots -> ReadStates]
      BY StateTyped DEF AdmissionInv
    <2>2. PICK t \in Snapshots :
             ReadBegins(t) \/ ReadSamples(t) \/ ReadReturns(t) \/ SendSnapshot(t)
      BY ReadingMoves
    <2>3. /\ t # s => reading'[s] = reading[s]
          /\ reading[t].step # "sampled" \/ ReadReturns(t)
      BY <2>1, <2>2 DEF ReadBegins, ReadSamples, ReadReturns, SendSnapshot, ReadStep
    <2>4. ReadReturns(s)
      BY <2>3
    <2>5. register = reading[s].before \/ reading[s].attempt >= MaxAttempts
      BY <2>1, <2>4 DEF ReadReturns, ReadStep, ReadStates
    <2>6. register = reading[s].before
      BY <2>1, <2>5, AdmissionAssumption DEF ReadStates
    <2>7. register \in Turning
      BY StateTyped DEF AdmissionInv, RunsInv
    <2>8. Cardinality(Ended) <= reading[s].sample
      BY <2>6, <2>7 DEF AdmissionInv, SnapshotsInv
    <2>9. Cardinality(Ended) \in Nat /\ reading[s].sample \in Nat
      <3>1. Ended \subseteq Messages
        BY DEF Ended
      <3>2. IsFiniteSet(Ended)
        BY <3>1, AdmissionAssumption, FS_Subset
      <3> QED BY <2>1, <3>2, FS_CardinalityType DEF ReadStates
    <2> QED BY <2>8, <2>9
  <1> QED BY <1>1, <1>2, AdmissionIsOrdered, PTL
          DEF AdmissionSpec, StateUnderARunIsSettled, OnlyNewSessionMovesATurn,
              CheckpointsUnderARunAreCurrent

=============================================================================
