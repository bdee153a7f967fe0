------------------------ MODULE TriggerPluginProofs ------------------------
(***************************************************************************)
(* What the Trigger Plugin promises, for any keys, deliveries, Studios and *)
(* handlers, any failing calls and any crashes: a Pet runs a delivery at   *)
(* most as often as it was asked for, and once in one life of a Studio;    *)
(* what is recorded as accepted has reached its Pet; no claim is forgotten.*)
(* The reserved record carries the argument within a life: it is pending   *)
(* exactly while one handler admits, and nobody else can.  The count of    *)
(* the handlers that may still send carries it across lives.               *)
(***************************************************************************)
EXTENDS TriggerPlugin, FiniteSetTheorems, TLAPS

FlowRecords == [step : FlowSteps, key : Keys \cup {NoKey}, of : Deliveries \cup {NoDelivery}]
Early == {"idle", "find", "insert"}
Has(u, h, step, i) == flow[u][h].step = step /\ flow[u][h].of = i

RowInv ==
    /\ status \in [Deliveries -> Statuses]
    /\ keyOf \in [Deliveries -> Keys \cup Deliveries \cup {NoKey}]
    /\ asked \in [Deliveries -> Nat]
    /\ \A i \in Deliveries : (i \in Rows <=> keyOf[i] # NoKey) /\ (i \in Rows <=> asked[i] # 0)
    /\ \A i \in Deliveries : keyOf[i] \in Deliveries => keyOf[i] = i
    /\ OneRowPerKey

KeyInv ==
    \A u \in Studios, h \in Handlers :
        flow[u][h].step \in {"find", "insert"} => flow[u][h].key \in Keys

\* The records of a life, the handlers that hold them and what was sent.
RecordInv ==
    \A u \in Studios, i \in Deliveries :
        /\ record[u][i] = "pending" => \E h \in Handlers : Has(u, h, "admit", i)
        /\ \A h \in Handlers :
              /\ Has(u, h, "admit", i) => record[u][i] = "pending" /\ here[u][i] = 0
              /\ Has(u, h, "share", i) => record[u][i] = "pending"
        /\ \A g, h \in Handlers : Has(u, g, "admit", i) /\ Has(u, h, "admit", i) => g = h
        /\ here[u][i] \in {0, 1}
        /\ here[u][i] = 1 /\ host[u] # "stopped" => record[u][i] = "done"
        /\ record[u][i] = "done" => sent[i] > 0

AcceptInv ==
    /\ \A i \in Deliveries : status[i] = "accepted" => sent[i] > 0
    /\ \A u \in Studios, h \in Handlers, i \in Deliveries : Has(u, h, "accept", i) => sent[i] > 0

HeldInv ==
    \A i \in Deliveries : faults = 0 /\ status[i] = "dispatching" =>
        \E u \in Studios :
            \/ \E h \in Handlers : flow[u][h].of = i
            \/ host[u] \in {"down", "subscribed"} \/ i \in listed[u]

\* The handlers that may still have a Pet run the delivery.
MaySend(i) ==
    {p \in Studios \X Handlers :
        flow[p[1]][p[2]].step \in {"send", "admit"} /\ flow[p[1]][p[2]].of = i}

AskInv == \A i \in Deliveries : sent[i] + Cardinality(MaySend(i)) <= asked[i]

Inv == TypeOK /\ RowInv /\ KeyInv /\ RecordInv /\ AcceptInv /\ HeldInv /\ AskInv

-----------------------------------------------------------------------------
\* One handler moves, the others stay.
LEMMA OneFlow ==
    ASSUME TypeOK, NEW u \in Studios, NEW h \in Handlers, NEW f \in FlowRecords, Goes(u, h, f)
    PROVE  /\ flow' \in [Studios -> [Handlers -> FlowRecords]]
           /\ flow'[u][h] = f
           /\ \A v \in Studios, g \in Handlers : v # u \/ g # h => flow'[v][g] = flow[v][g]
<1>1. flow \in [Studios -> [Handlers -> FlowRecords]]
    BY DEF TypeOK, FlowRecords
<1> DEFINE mine == [flow[u] EXCEPT ![h] = f]
<1>2. mine \in [Handlers -> FlowRecords]
    BY <1>1
<1>3. mine[h] = f /\ \A g \in Handlers : g # h => mine[g] = flow[u][g]
    BY <1>1
<1>4. flow' = [flow EXCEPT ![u] = mine]
    BY DEF Goes
<1> HIDE DEF mine
<1>5. flow' \in [Studios -> [Handlers -> FlowRecords]]
    BY <1>1, <1>2, <1>4
<1>6. flow'[u] = mine /\ \A v \in Studios : v # u => flow'[v] = flow[v]
    BY <1>1, <1>4
<1> QED BY <1>3, <1>5, <1>6

\* A handler that goes on keeps its delivery in hand.
LEMMA StepsOn ==
    ASSUME TypeOK, NEW u \in Studios, NEW h \in Handlers, NEW t \in FlowSteps, GoesOn(u, h, t)
    PROVE  \E f \in FlowRecords :
              Goes(u, h, f) /\ f.step = t /\ f.of = flow[u][h].of /\ f.key = flow[u][h].key
<1>1. flow \in [Studios -> [Handlers -> FlowRecords]]
    BY DEF TypeOK, FlowRecords
<1> DEFINE f == [flow[u][h] EXCEPT !.step = t]
<1>2. Goes(u, h, f)
    BY <1>1 DEF Goes, GoesOn
<1>3. flow[u][h] \in FlowRecords
    BY <1>1
<1>4. f \in FlowRecords /\ f.step = t /\ f.of = flow[u][h].of /\ f.key = flow[u][h].key
    BY <1>3 DEF FlowRecords
<1> HIDE DEF f
<1> QED BY <1>2, <1>4

LEMMA InHand ==
    ASSUME TypeOK, NEW u \in Studios, NEW h \in Handlers
    PROVE  /\ flow[u][h] \in FlowRecords
           /\ flow[u][h].step \in Early => flow[u][h].of = NoDelivery
           /\ flow[u][h].step \notin Early => flow[u][h].of \in Rows /\ flow[u][h].of \in Deliveries
BY DEF TypeOK, FlowRecords, Early, Rows

LEMMA FlowsAreRecords ==
    /\ Idle \in FlowRecords /\ Idle.step = "idle" /\ Idle.of = NoDelivery
    /\ \A k \in Keys : LET f == Flow("find", k, NoDelivery) IN
          f \in FlowRecords /\ f.step = "find" /\ f.of = NoDelivery /\ f.key = k
    /\ \A i \in Deliveries, t \in {"send", "accept", "fail"} : LET f == Flow(t, NoKey, i) IN
          f \in FlowRecords /\ f.step = t /\ f.of = i
BY DEF FlowRecords, Flow, Idle, FlowSteps

LEMMA MaySendIsFinite == \A i \in Deliveries : IsFiniteSet(MaySend(i))
<1> SUFFICES ASSUME NEW i \in Deliveries PROVE IsFiniteSet(MaySend(i))
    OBVIOUS
<1>1. IsFiniteSet(Studios \X Handlers)
    BY FS_Product, TriggerAssumption
<1>2. MaySend(i) \subseteq Studios \X Handlers
    BY DEF MaySend
<1> QED BY <1>1, <1>2, FS_Subset

\* The count when the handlers that may send a delivery are fewer, or one more.
LEMMA FewerMaySend ==
    ASSUME NEW i \in Deliveries, MaySend(i)' \subseteq MaySend(i)
    PROVE  /\ Cardinality(MaySend(i)') <= Cardinality(MaySend(i))
           /\ Cardinality(MaySend(i)') \in Nat /\ Cardinality(MaySend(i)) \in Nat
<1>1. IsFiniteSet(MaySend(i))
    BY MaySendIsFinite
<1> QED BY <1>1, FS_Subset, FS_CardinalityType

LEMMA OneMoreMaySend ==
    ASSUME NEW i \in Deliveries, NEW p, MaySend(i)' \subseteq MaySend(i) \cup {p}
    PROVE  /\ Cardinality(MaySend(i)') <= Cardinality(MaySend(i)) + 1
           /\ Cardinality(MaySend(i)') \in Nat /\ Cardinality(MaySend(i)) \in Nat
<1>1. IsFiniteSet(MaySend(i)) /\ IsFiniteSet(MaySend(i) \cup {p})
    BY MaySendIsFinite, FS_AddElement
<1>2. Cardinality(MaySend(i) \cup {p}) <= Cardinality(MaySend(i)) + 1
    BY <1>1, FS_AddElement, FS_CardinalityType
<1>3. /\ Cardinality(MaySend(i)') <= Cardinality(MaySend(i) \cup {p})
      /\ IsFiniteSet(MaySend(i)')
    BY <1>1, FS_Subset
<1> QED BY <1>1, <1>2, <1>3, FS_CardinalityType

LEMMA OneLessMaySends ==
    ASSUME NEW i \in Deliveries, NEW p \in MaySend(i), MaySend(i)' \subseteq MaySend(i) \ {p}
    PROVE  /\ Cardinality(MaySend(i)') + 1 <= Cardinality(MaySend(i))
           /\ Cardinality(MaySend(i)') \in Nat /\ Cardinality(MaySend(i)) \in Nat
<1>1. IsFiniteSet(MaySend(i)) /\ IsFiniteSet(MaySend(i) \ {p})
    BY MaySendIsFinite, FS_RemoveElement
<1>2. Cardinality(MaySend(i) \ {p}) = Cardinality(MaySend(i)) - 1
    BY <1>1, FS_RemoveElement
<1>3. /\ Cardinality(MaySend(i)') <= Cardinality(MaySend(i) \ {p})
      /\ IsFiniteSet(MaySend(i)')
    BY <1>1, FS_Subset
<1> QED BY <1>1, <1>2, <1>3, FS_CardinalityType

\* At the start the delivery rows and Studio's records agree with the handlers.
THEOREM InvInit == Init => Inv
<1> SUFFICES ASSUME Init PROVE Inv
    OBVIOUS
<1>1. \A u \in Studios, h \in Handlers : flow[u][h] = Idle
    BY DEF Init
<1>2. Rows = {}
    BY DEF Init, Rows
<1>3. TypeOK
  <2>1. flow \in [Studios -> [Handlers -> FlowRecords]]
      BY FlowsAreRecords DEF Init
  <2>2. \A u \in Studios, h \in Handlers :
           flow[u][h].step = "idle" /\ flow[u][h].of = NoDelivery
      BY <1>1, FlowsAreRecords
  <2>3. /\ status \in [Deliveries -> Statuses]
        /\ keyOf \in [Deliveries -> Keys \cup Deliveries \cup {NoKey}]
        /\ \A i \in Deliveries : (i \in Rows <=> keyOf[i] # NoKey) /\ (i \in Rows <=> asked[i] # 0)
      BY <1>2 DEF Init, Statuses
  <2>10. asked \in [Deliveries -> Nat] /\ sent \in [Deliveries -> Nat]
      BY DEF Init
  <2>4. /\ host \in [Studios -> Hosts] /\ listed \in [Studios -> SUBSET Deliveries]
        /\ starts \in [Studios -> Nat] /\ faults \in Nat
      BY DEF Init, Hosts
  <2>5. [i \in Deliveries |-> "none"] \in [Deliveries -> {"none", "pending", "done"}]
      OBVIOUS
  <2>6. [i \in Deliveries |-> 0] \in [Deliveries -> Nat]
      OBVIOUS
  <2>7. /\ record \in [Studios -> [Deliveries -> {"none", "pending", "done"}]]
        /\ here \in [Studios -> [Deliveries -> Nat]]
      BY <2>5, <2>6 DEF Init
  <2>8. \A u \in Studios, h \in Handlers :
          IF flow[u][h].step \in {"idle", "find", "insert"}
          THEN flow[u][h].of = NoDelivery ELSE flow[u][h].of \in Rows
      BY <2>2
  <2>9. flow \in [Studios -> [Handlers ->
          [step : FlowSteps, key : Keys \cup {NoKey}, of : Deliveries \cup {NoDelivery}]]]
      BY <2>1 DEF FlowRecords
  <2> QED BY ONLY <2>3, <2>4, <2>7, <2>8, <2>9, <2>10 DEF TypeOK
<1>4. RowInv
    BY <1>2, TriggerAssumption DEF Init, RowInv, OneRowPerKey, Statuses
<1>5. \A u \in Studios, h \in Handlers : flow[u][h].step = "idle"
    BY <1>1, FlowsAreRecords
<1>6. KeyInv /\ RecordInv /\ AcceptInv /\ HeldInv
    BY <1>5 DEF Init, KeyInv, RecordInv, AcceptInv, HeldInv, Has
<1>7. AskInv
  <2>1. \A i \in Deliveries : MaySend(i) = {}
      BY <1>5 DEF MaySend
  <2>2. Cardinality({}) = 0
      BY FS_EmptySet
  <2>3. \A i \in Deliveries : sent[i] = 0 /\ asked[i] = 0 /\ Cardinality(MaySend(i)) = 0
      BY <2>1, <2>2 DEF Init
  <2> QED BY <2>3 DEF AskInv
<1> QED BY <1>3, <1>4, <1>6, <1>7 DEF Inv

-----------------------------------------------------------------------------
\* A handler moves outside an admission: the records and the Studios are left
\* alone, rows move as `status` and `asked` say.
Outside == {"idle", "find", "insert", "send", "accept", "fail"}

LEMMA FlowKeeps ==
    ASSUME Inv, NEW u \in Studios, NEW h \in Handlers, NEW f \in FlowRecords, Goes(u, h, f),
           UNCHANGED <<pets, life>>, faults' \in Nat, faults' = 0 => faults = 0,
           RowInv', \A i \in Rows : i \in Rows',
           flow[u][h].step \in Outside, f.step \in Outside,
           IF f.step \in Early THEN f.of = NoDelivery ELSE f.of \in Rows',
           f.step \in {"find", "insert"} => f.key \in Keys,
           f.step = "accept" => sent[f.of] > 0,
           \A i \in Deliveries : status'[i] = "accepted" => status[i] = "accepted" \/ sent[i] > 0,
           \A i \in Deliveries : faults' = 0 /\ status'[i] = "dispatching" =>
               f.of = i \/ (status[i] = "dispatching" /\ flow[u][h].of # i),
           \A i \in Deliveries : asked'[i] >= asked[i],
           f.step = "send" => asked'[f.of] >= asked[f.of] + 1
    PROVE  Inv'
<1>1. TypeOK /\ RowInv /\ KeyInv /\ RecordInv /\ AcceptInv /\ HeldInv /\ AskInv
    BY DEF Inv
<1>2. /\ flow' \in [Studios -> [Handlers -> FlowRecords]]
      /\ flow'[u][h] = f
      /\ \A v \in Studios, g \in Handlers : v # u \/ g # h => flow'[v][g] = flow[v][g]
    BY <1>1, OneFlow
<1>3. UNCHANGED <<sent, record, here, host, listed, starts>>
    BY DEF pets, life
<1>4. TypeOK'
  <2>1. \A v \in Studios, g \in Handlers :
           IF flow'[v][g].step \in Early THEN flow'[v][g].of = NoDelivery
           ELSE flow'[v][g].of \in Rows'
    <3> SUFFICES ASSUME NEW v \in Studios, NEW g \in Handlers
                 PROVE  IF flow'[v][g].step \in Early THEN flow'[v][g].of = NoDelivery
                        ELSE flow'[v][g].of \in Rows'
        OBVIOUS
    <3>1. CASE v = u /\ g = h
        BY <1>2, <3>1
    <3>2. CASE v # u \/ g # h
        BY <1>1, <1>2, <3>2, InHand
    <3> QED BY <3>1, <3>2
  <2>2. flow' \in [Studios -> [Handlers ->
          [step : FlowSteps, key : Keys \cup {NoKey}, of : Deliveries \cup {NoDelivery}]]]
      BY <1>2 DEF FlowRecords
  <2>3. \A v \in Studios, g \in Handlers :
          IF flow'[v][g].step \in {"idle", "find", "insert"}
          THEN flow'[v][g].of = NoDelivery ELSE flow'[v][g].of \in Rows'
      BY <2>1 DEF Early
  <2> QED BY <1>1, <1>3, <2>2, <2>3 DEF TypeOK, RowInv
<1>5. KeyInv'
    BY <1>1, <1>2 DEF KeyInv
<1>6. \A v \in Studios, g \in Handlers, i \in Deliveries :
        /\ Has(v, g, "admit", i)' <=> Has(v, g, "admit", i)
        /\ Has(v, g, "share", i)' <=> Has(v, g, "share", i)
    BY <1>2 DEF Has, Outside
<1>7. RecordInv'
    BY <1>1, <1>3, <1>6 DEF RecordInv
<1>8. AcceptInv'
  <2>1. \A v \in Studios, g \in Handlers, i \in Deliveries :
           Has(v, g, "accept", i)' => Has(v, g, "accept", i) \/ sent[i] > 0
      BY <1>2 DEF Has
  <2> QED BY <1>1, <1>3, <2>1 DEF AcceptInv
<1>9. HeldInv'
  <2> SUFFICES ASSUME NEW i \in Deliveries, faults' = 0, status'[i] = "dispatching"
               PROVE  \E v \in Studios :
                         \/ \E g \in Handlers : flow'[v][g].of = i
                         \/ host'[v] \in {"down", "subscribed"} \/ i \in listed'[v]
      BY DEF HeldInv
  <2>1. CASE f.of = i
      BY <1>2, <2>1
  <2>2. CASE status[i] = "dispatching" /\ flow[u][h].of # i
      BY <1>1, <1>2, <1>3, <2>2 DEF HeldInv
  <2> QED BY <2>1, <2>2
<1>10. AskInv'
  <2> SUFFICES ASSUME NEW i \in Deliveries
               PROVE  sent'[i] + Cardinality(MaySend(i)') <= asked'[i]
      BY DEF AskInv
  <2>1. sent[i] \in Nat /\ asked[i] \in Nat /\ asked'[i] \in Nat /\ sent'[i] = sent[i]
      BY <1>1, <1>3 DEF TypeOK, RowInv
  <2>2. CASE f.step = "send" /\ f.of = i
    <3>1. MaySend(i)' \subseteq MaySend(i) \cup {<<u, h>>}
        BY <1>2 DEF MaySend
    <3> QED BY <1>1, <2>1, <2>2, <3>1, OneMoreMaySend DEF AskInv
  <2>3. CASE ~(f.step = "send" /\ f.of = i)
    <3>1. MaySend(i)' \subseteq MaySend(i)
        BY <1>2, <2>3 DEF MaySend, Outside
    <3> QED BY <1>1, <2>1, <3>1, FewerMaySend DEF AskInv
  <2> QED BY <2>2, <2>3
<1> QED BY <1>4, <1>5, <1>7, <1>8, <1>9, <1>10 DEF Inv

\* The rows when they stay, when one is inserted and when one moves.
LEMMA RowsStay ==
    ASSUME RowInv, UNCHANGED rows
    PROVE  RowInv' /\ Rows' = Rows /\ UNCHANGED <<status, keyOf, asked>>
BY DEF RowInv, OneRowPerKey, Rows, rows

LEMMA RowInserted ==
    ASSUME TypeOK, RowInv, NEW i \in Deliveries, NEW key, InsertRow(i, key),
           key = i \/ (key \in Keys /\ ~HasRow(key))
    PROVE  /\ RowInv' /\ i \in Rows' /\ \A j \in Rows : j \in Rows'
           /\ asked[i] = 0 /\ asked'[i] = 1 /\ status'[i] = "dispatching"
           /\ \A j \in Deliveries : j # i => status'[j] = status[j] /\ asked'[j] = asked[j]
<1>1. /\ i \notin Rows
      /\ status' = [status EXCEPT ![i] = "dispatching"]
      /\ keyOf' = [keyOf EXCEPT ![i] = key] /\ asked' = [asked EXCEPT ![i] = 1]
    BY DEF InsertRow
<1>2. key \in Keys \cup Deliveries /\ key # NoKey
    BY TriggerAssumption
<1>3. /\ status' \in [Deliveries -> Statuses] /\ status'[i] = "dispatching"
      /\ \A j \in Deliveries : j # i => status'[j] = status[j]
    BY <1>1 DEF RowInv, Statuses
<1>4. /\ keyOf' \in [Deliveries -> Keys \cup Deliveries \cup {NoKey}] /\ keyOf'[i] = key
      /\ \A j \in Deliveries : j # i => keyOf'[j] = keyOf[j]
    BY <1>1, <1>2 DEF RowInv
<1>5. /\ asked' \in [Deliveries -> Nat] /\ asked'[i] = 1
      /\ \A j \in Deliveries : j # i => asked'[j] = asked[j]
    BY <1>1 DEF RowInv
<1>6. asked[i] = 0
    BY <1>1 DEF RowInv
<1>7. \A j \in Deliveries : j \in Rows' <=> j = i \/ j \in Rows
    BY <1>3 DEF Rows
<1>8. \A j \in Deliveries : (j \in Rows' <=> keyOf'[j] # NoKey) /\ (j \in Rows' <=> asked'[j] # 0)
    BY <1>2, <1>4, <1>5, <1>7 DEF RowInv
<1>9. \A j \in Deliveries : keyOf'[j] \in Deliveries => keyOf'[j] = j
    BY <1>4, TriggerAssumption DEF RowInv
<1>10. \A j \in Rows : j \in Deliveries /\ keyOf[j] # key
  <2> SUFFICES ASSUME NEW j \in Rows PROVE j \in Deliveries /\ keyOf[j] # key
      OBVIOUS
  <2>1. j \in Deliveries /\ j # i
      BY <1>1 DEF Rows
  <2>2. CASE key = i
      BY <2>1, <2>2 DEF RowInv
  <2>3. CASE key \in Keys /\ ~HasRow(key)
      BY <2>1, <2>3 DEF HasRow
  <2> QED BY <2>1, <2>2, <2>3
<1>11. OneRowPerKey'
  <2> SUFFICES ASSUME NEW j \in Rows', NEW k \in Rows', keyOf'[j] = keyOf'[k] PROVE j = k
      BY DEF OneRowPerKey
  <2>1. j \in Deliveries /\ k \in Deliveries
      BY DEF Rows
  <2> QED BY <2>1, <1>4, <1>7, <1>10 DEF RowInv, OneRowPerKey
<1>12. \A j \in Rows : j \in Rows'
    BY <1>7, <1>10
<1>13. i \in Rows'
    BY <1>7
<1>14. RowInv'
    BY <1>3, <1>4, <1>5, <1>8, <1>9, <1>11 DEF RowInv
<1> QED BY <1>3, <1>5, <1>6, <1>12, <1>13, <1>14

LEMMA RowMoves ==
    ASSUME RowInv, NEW i \in Deliveries, NEW from \in Statuses \ {"none"},
           NEW to \in Statuses \ {"none"}, Transition(i, from, to)
    PROVE  /\ RowInv' /\ Rows' = Rows /\ UNCHANGED <<keyOf, asked>>
           /\ \A j \in Deliveries : status'[j] =
                 IF j = i /\ status[i] = from THEN to ELSE status[j]
<1>1. UNCHANGED <<keyOf, asked>>
    BY DEF Transition
<1>2. /\ status' \in [Deliveries -> Statuses]
      /\ \A j \in Deliveries : status'[j] =
            IF j = i /\ status[i] = from THEN to ELSE status[j]
    BY DEF Transition, RowInv
<1>3. Rows' = Rows
    BY <1>2 DEF Rows
<1> QED BY <1>1, <1>2, <1>3 DEF RowInv, OneRowPerKey

-----------------------------------------------------------------------------
LEMMA ReceiveKeeps ==
    ASSUME Inv, NEW u \in Studios, NEW h \in Handlers, NEW k \in Keys, Receive(u, h, k)
    PROVE  Inv'
<1> DEFINE f == Flow("find", k, NoDelivery)
<1>1. f \in FlowRecords /\ f.step = "find" /\ f.of = NoDelivery /\ f.key = k
    BY FlowsAreRecords
<1>2. Goes(u, h, f) /\ flow[u][h].step = "idle" /\ UNCHANGED <<rows, pets, life, faults>>
    BY DEF Receive, Receives, At
<1>3. TypeOK /\ RowInv /\ faults \in Nat /\ asked \in [Deliveries -> Nat]
    BY DEF Inv, TypeOK
<1>4. flow[u][h].of = NoDelivery
    BY <1>2, <1>3, InHand DEF Early
<1>5. RowInv' /\ Rows' = Rows /\ UNCHANGED <<status, keyOf, asked>>
    BY <1>2, <1>3, RowsStay
<1> HIDE DEF f
<1> QED BY <1>1, <1>2, <1>3, <1>4, <1>5, FlowKeeps, TriggerAssumption DEF Outside, Early

LEMMA FindKeeps ==
    ASSUME Inv, NEW u \in Studios, NEW h \in Handlers, Find(u, h)
    PROVE  Inv'
<1>1. flow[u][h].step = "find" /\ UNCHANGED <<rows, pets, life>>
    BY DEF Find, At
<1>2. TypeOK /\ RowInv /\ KeyInv /\ faults \in Nat /\ asked \in [Deliveries -> Nat]
    BY DEF Inv, TypeOK
<1>3. flow[u][h].of = NoDelivery /\ flow[u][h].key \in Keys
    BY <1>1, <1>2, InHand DEF Early, KeyInv
<1>4. RowInv' /\ Rows' = Rows /\ UNCHANGED <<status, keyOf, asked>>
    BY <1>1, <1>2, RowsStay
<1>5. faults' \in Nat /\ (faults' = 0 => faults = 0)
    BY <1>2 DEF Find, Fault
<1>6. PICK f \in FlowRecords : /\ Goes(u, h, f) /\ f.of = NoDelivery
                               /\ f.step = "idle" \/ (f.step = "insert" /\ f.key \in Keys)
  <2>1. CASE Goes(u, h, Idle)
      BY <2>1, FlowsAreRecords
  <2>2. CASE GoesOn(u, h, "insert")
    <3>1. "insert" \in FlowSteps
        BY DEF FlowSteps
    <3> QED BY <1>2, <1>3, <2>2, <3>1, StepsOn
  <2> QED BY <2>1, <2>2 DEF Find
<1> QED BY <1>1, <1>2, <1>3, <1>4, <1>5, <1>6, FlowKeeps, TriggerAssumption DEF Outside, Early

LEMMA InsertKeeps ==
    ASSUME Inv, NEW u \in Studios, NEW h \in Handlers, Insert(u, h)
    PROVE  Inv'
<1>1. flow[u][h].step = "insert" /\ UNCHANGED <<pets, life>>
    BY DEF Insert, At
<1>2. TypeOK /\ RowInv /\ KeyInv /\ faults \in Nat /\ asked \in [Deliveries -> Nat]
    BY DEF Inv, TypeOK
<1>3. flow[u][h].of = NoDelivery /\ flow[u][h].key \in Keys
    BY <1>1, <1>2, InHand DEF Early, KeyInv
<1>4. faults' \in Nat /\ (faults' = 0 => faults = 0)
    BY <1>2 DEF Insert, Fault
<1>5. CASE UNCHANGED rows /\ Goes(u, h, Idle)
  <2>1. RowInv' /\ Rows' = Rows /\ UNCHANGED <<status, keyOf, asked>>
      BY <1>2, <1>5, RowsStay
  <2>2. Idle \in FlowRecords /\ Idle.step = "idle" /\ Idle.of = NoDelivery
      BY FlowsAreRecords
  <2> QED BY <1>1, <1>2, <1>3, <1>4, <1>5, <2>1, <2>2, FlowKeeps, TriggerAssumption DEF Outside, Early
<1>6. CASE /\ ~HasRow(flow[u][h].key)
           /\ \E i \in Deliveries : /\ InsertRow(i, flow[u][h].key)
                                    /\ Goes(u, h, Flow("send", NoKey, i))
  <2>1. PICK i \in Deliveries : InsertRow(i, flow[u][h].key) /\ Goes(u, h, Flow("send", NoKey, i))
      BY <1>6
  <2> DEFINE f == Flow("send", NoKey, i)
  <2>2. f \in FlowRecords /\ f.step = "send" /\ f.of = i
      BY FlowsAreRecords
  <2>3. /\ RowInv' /\ i \in Rows' /\ \A j \in Rows : j \in Rows'
        /\ asked[i] = 0 /\ asked'[i] = 1 /\ status'[i] = "dispatching"
        /\ \A j \in Deliveries : j # i => status'[j] = status[j] /\ asked'[j] = asked[j]
      BY <1>2, <1>3, <1>6, <2>1, RowInserted
  <2> HIDE DEF f
  <2>4. Goes(u, h, f)
      BY <2>1 DEF f
  <2>5. \A j \in Deliveries : asked'[j] >= asked[j]
      BY <1>2, <2>3
  <2>6. \A j \in Deliveries :
          /\ status'[j] = "accepted" => status[j] = "accepted"
          /\ status'[j] = "dispatching" => f.of = j \/ (status[j] = "dispatching" /\ flow[u][h].of # j)
      BY <1>3, <2>2, <2>3, TriggerAssumption
  <2> QED BY <1>1, <1>4, <2>2, <2>3, <2>4, <2>5, <2>6, FlowKeeps DEF Outside, Early
<1> QED BY <1>5, <1>6 DEF Insert

LEMMA RetryKeeps ==
    ASSUME Inv, NEW u \in Studios, NEW h \in Handlers, NEW i \in Deliveries, Retry(u, h, i)
    PROVE  Inv'
<1>1. /\ flow[u][h].step = "idle" /\ status[i] = "failed" /\ UNCHANGED <<keyOf, pets, life>>
      /\ status' = [status EXCEPT ![i] = "dispatching"] /\ asked' = [asked EXCEPT ![i] = @ + 1]
    BY DEF Retry, Receives, At
<1>2. TypeOK /\ RowInv /\ faults \in Nat /\ asked \in [Deliveries -> Nat]
    BY DEF Inv, TypeOK
<1>3. flow[u][h].of = NoDelivery
    BY <1>1, <1>2, InHand DEF Early
<1>4. /\ status' \in [Deliveries -> Statuses] /\ status'[i] = "dispatching"
      /\ \A j \in Deliveries : j # i => status'[j] = status[j]
    BY <1>1 DEF Inv, RowInv, Statuses
<1>5. /\ asked' \in [Deliveries -> Nat] /\ asked'[i] = asked[i] + 1
      /\ \A j \in Deliveries : j # i => asked'[j] = asked[j]
    BY <1>1, <1>2
<1>6. Rows' = Rows /\ i \in Rows
    BY <1>1, <1>4 DEF Rows
<1>7. RowInv'
    BY <1>1, <1>2, <1>4, <1>5, <1>6 DEF RowInv, OneRowPerKey
<1>8. \A j \in Deliveries : asked'[j] >= asked[j]
    BY <1>2, <1>5
<1>9. CASE Goes(u, h, Flow("send", NoKey, i)) /\ UNCHANGED faults
  <2> DEFINE f == Flow("send", NoKey, i)
  <2>1. f \in FlowRecords /\ f.step = "send" /\ f.of = i /\ Goes(u, h, f)
      BY <1>9, FlowsAreRecords
  <2> HIDE DEF f
  <2>2. \A j \in Deliveries :
          /\ status'[j] = "accepted" => status[j] = "accepted"
          /\ status'[j] = "dispatching" => f.of = j \/ (status[j] = "dispatching" /\ flow[u][h].of # j)
      BY <1>3, <1>4, <2>1, TriggerAssumption
  <2> QED BY <1>1, <1>2, <1>5, <1>6, <1>7, <1>8, <1>9, <2>1, <2>2, FlowKeeps DEF Outside, Early
<1>10. CASE Fault /\ UNCHANGED flow
  <2>1. UNCHANGED <<sent, record, here, host, listed, starts, flow>> /\ faults' \in Nat /\ faults' # 0
      BY <1>1, <1>2, <1>10 DEF pets, life, Fault
  <2>2. TypeOK'
      BY <1>2, <1>7, <1>6, <2>1 DEF TypeOK, RowInv
  <2>3. (KeyInv /\ RecordInv /\ AcceptInv /\ HeldInv)'
      BY <1>4, <2>1 DEF Inv, KeyInv, RecordInv, AcceptInv, HeldInv, Has
  <2>4. AskInv'
    <3> SUFFICES ASSUME NEW j \in Deliveries
                 PROVE  sent'[j] + Cardinality(MaySend(j)') <= asked'[j]
        BY DEF AskInv
    <3>1. MaySend(j)' \subseteq MaySend(j)
        BY <2>1 DEF MaySend
    <3>2. sent[j] \in Nat /\ asked[j] \in Nat /\ asked'[j] \in Nat /\ asked'[j] >= asked[j]
        BY <1>2, <1>5, <1>8 DEF TypeOK
    <3> QED BY <2>1, <3>1, <3>2, FewerMaySend DEF Inv, AskInv
  <2> QED BY <1>7, <2>2, <2>3, <2>4 DEF Inv
<1> QED BY <1>9, <1>10 DEF Retry

LEMMA RedeliverKeeps ==
    ASSUME Inv, NEW u \in Studios, NEW h \in Handlers, NEW i \in Deliveries, Redeliver(u, h, i)
    PROVE  Inv'
<1>1. flow[u][h].step = "idle" /\ UNCHANGED <<pets, life, faults>>
    BY DEF Redeliver, Receives, At
<1>2. TypeOK /\ RowInv /\ faults \in Nat /\ asked \in [Deliveries -> Nat]
    BY DEF Inv, TypeOK
<1>3. flow[u][h].of = NoDelivery
    BY <1>1, <1>2, InHand DEF Early
<1>4. PICK j \in Deliveries : InsertRow(j, j) /\ Goes(u, h, Flow("send", NoKey, j))
    BY DEF Redeliver
<1> DEFINE f == Flow("send", NoKey, j)
<1>5. f \in FlowRecords /\ f.step = "send" /\ f.of = j /\ Goes(u, h, f)
    BY <1>4, FlowsAreRecords
<1>6. /\ RowInv' /\ j \in Rows' /\ \A k \in Rows : k \in Rows'
      /\ asked[j] = 0 /\ asked'[j] = 1 /\ status'[j] = "dispatching"
      /\ \A k \in Deliveries : k # j => status'[k] = status[k] /\ asked'[k] = asked[k]
    BY <1>2, <1>4, RowInserted
<1> HIDE DEF f
<1>7. \A k \in Deliveries : asked'[k] >= asked[k]
    BY <1>2, <1>6
<1>8. \A k \in Deliveries :
        /\ status'[k] = "accepted" => status[k] = "accepted"
        /\ status'[k] = "dispatching" => f.of = k \/ (status[k] = "dispatching" /\ flow[u][h].of # k)
    BY <1>3, <1>5, <1>6, TriggerAssumption
<1> QED BY <1>1, <1>2, <1>5, <1>6, <1>7, <1>8, FlowKeeps DEF Outside, Early

LEMMA AcceptKeeps ==
    ASSUME Inv, NEW u \in Studios, NEW h \in Handlers, Accept(u, h)
    PROVE  Inv'
<1> DEFINE i == flow[u][h].of
<1>1. flow[u][h].step = "accept" /\ UNCHANGED <<pets, life>>
    BY DEF Accept, At
<1>2. TypeOK /\ RowInv /\ AcceptInv /\ faults \in Nat /\ asked \in [Deliveries -> Nat]
    BY DEF Inv, TypeOK
<1>3. i \in Deliveries /\ i \in Rows /\ sent[i] > 0
    BY <1>1, <1>2, InHand DEF Early, AcceptInv, Has
<1>4. faults' \in Nat /\ (faults' = 0 => faults = 0)
    BY <1>2 DEF Accept, Fault
<1>5. /\ RowInv' /\ Rows' = Rows /\ UNCHANGED <<keyOf, asked>>
      /\ \/ \A j \in Deliveries : status'[j] = status[j]
         \/ \A j \in Deliveries : status'[j] =
              IF j = i /\ status[i] = "dispatching" THEN "accepted" ELSE status[j]
  <2>1. CASE UNCHANGED rows
      BY <1>2, <2>1, RowsStay
  <2>2. CASE Transition(i, "dispatching", "accepted")
      BY <1>2, <1>3, <2>2, RowMoves DEF Statuses
  <2> QED BY <2>1, <2>2 DEF Accept, Fault
<1>6. PICK f \in FlowRecords :
        /\ Goes(u, h, f)
        /\ \/ f.step = "fail" /\ f.of = i
           \/ f.step = "idle" /\ f.of = NoDelivery /\ Transition(i, "dispatching", "accepted")
  <2>1. CASE Goes(u, h, Idle) /\ Transition(i, "dispatching", "accepted")
      BY <2>1, FlowsAreRecords
  <2>2. CASE GoesOn(u, h, "fail")
    <3>1. "fail" \in FlowSteps
        BY DEF FlowSteps
    <3> QED BY <1>2, <2>2, <3>1, StepsOn
  <2> QED BY <2>1, <2>2 DEF Accept
<1> HIDE DEF i
<1>7. \A j \in Deliveries :
        /\ status'[j] = "accepted" => status[j] = "accepted" \/ sent[j] > 0
        /\ asked'[j] >= asked[j]
    BY <1>2, <1>3, <1>5
<1>8. \A j \in Deliveries : status'[j] = "dispatching" =>
          f.of = j \/ (status[j] = "dispatching" /\ flow[u][h].of # j)
  <2>1. CASE f.of = i
      BY <1>5, <2>1 DEF i
  <2>2. CASE Transition(i, "dispatching", "accepted")
    <3>1. \A j \in Deliveries : status'[j] =
              IF j = i /\ status[i] = "dispatching" THEN "accepted" ELSE status[j]
        BY <1>2, <1>3, <2>2, RowMoves DEF Statuses
    <3> QED BY <3>1 DEF i
  <2> QED BY <1>6, <2>1, <2>2
<1> QED BY <1>1, <1>3, <1>4, <1>5, <1>6, <1>7, <1>8, FlowKeeps DEF Outside, Early

LEMMA FailKeeps ==
    ASSUME Inv, NEW u \in Studios, NEW h \in Handlers, Fail(u, h)
    PROVE  Inv'
<1> DEFINE i == flow[u][h].of
<1>1. flow[u][h].step = "fail" /\ UNCHANGED <<pets, life>> /\ Goes(u, h, Idle)
    BY DEF Fail, At
<1>2. TypeOK /\ RowInv /\ faults \in Nat /\ asked \in [Deliveries -> Nat]
    BY DEF Inv, TypeOK
<1>3. i \in Deliveries
    BY <1>1, <1>2, InHand DEF Early
<1>4. Idle \in FlowRecords /\ Idle.step = "idle" /\ Idle.of = NoDelivery
    BY FlowsAreRecords
<1>5. faults' \in Nat /\ (faults' = 0 => faults = 0)
    BY <1>2 DEF Fail, Fault
<1>6. /\ RowInv' /\ Rows' = Rows /\ UNCHANGED <<keyOf, asked>>
      /\ \A j \in Deliveries : status'[j] \in {status[j], "failed"}
  <2>1. CASE UNCHANGED rows
      BY <1>2, <2>1, RowsStay
  <2>2. CASE Transition(i, "dispatching", "failed")
      BY <1>2, <1>3, <2>2, RowMoves DEF Statuses
  <2> QED BY <2>1, <2>2 DEF Fail
<1>7. faults' = 0 => status'[i] # "dispatching"
  <2>1. CASE Transition(i, "dispatching", "failed")
      BY <1>2, <1>3, <2>1, RowMoves DEF Statuses
  <2>2. CASE Fault
      BY <1>2, <2>2 DEF Fault
  <2> QED BY <2>1, <2>2 DEF Fail
<1>8. \A j \in Deliveries :
        /\ status'[j] = "accepted" => status[j] = "accepted"
        /\ asked'[j] >= asked[j]
        /\ faults' = 0 /\ status'[j] = "dispatching" => status[j] = "dispatching" /\ i # j
    BY <1>2, <1>6, <1>7
<1> QED BY <1>1, <1>4, <1>5, <1>6, <1>8, FlowKeeps DEF Outside, Early

-----------------------------------------------------------------------------
\* send: the fault-free ways into an admission.

LEMMA SendFails ==
    ASSUME Inv, NEW u \in Studios, NEW h \in Handlers, flow[u][h].step = "send",
           NEW t \in {"fail", "accept"}, t = "accept" => record[u][flow[u][h].of] = "done",
           GoesOn(u, h, t), UNCHANGED <<rows, pets, life, faults>>
    PROVE  Inv'
<1>1. TypeOK /\ RowInv /\ RecordInv /\ faults \in Nat /\ asked \in [Deliveries -> Nat]
    BY DEF Inv, TypeOK
<1>2. flow[u][h].of \in Rows /\ flow[u][h].of \in Deliveries
    BY <1>1, InHand DEF Early
<1>3. RowInv' /\ Rows' = Rows /\ UNCHANGED <<status, keyOf, asked>>
    BY <1>1, RowsStay
<1>4. PICK f \in FlowRecords : Goes(u, h, f) /\ f.step = t /\ f.of = flow[u][h].of
    BY <1>1, StepsOn DEF FlowSteps
<1>5. f.step = "accept" => sent[f.of] > 0
    BY <1>1, <1>2, <1>4 DEF RecordInv
<1>6. \A i \in Deliveries :
        /\ asked'[i] >= asked[i]
        /\ status'[i] = "accepted" => status[i] = "accepted"
        /\ status'[i] = "dispatching" => f.of = i \/ (status[i] = "dispatching" /\ flow[u][h].of # i)
    BY <1>1, <1>3, <1>4
<1> QED BY <1>1, <1>2, <1>3, <1>4, <1>5, <1>6, FlowKeeps DEF Outside, Early

\* A handler reserves the record or shares the one there is.
LEMMA SendEnters ==
    ASSUME Inv, NEW u \in Studios, NEW h \in Handlers, flow[u][h].step = "send",
           NEW t \in {"admit", "share"}, GoesOn(u, h, t), NEW i, i = flow[u][h].of,
           host[u] \notin {"stopping", "stopped"},
           \/ t = "admit" /\ record[u][i] = "none" /\ record' = [record EXCEPT ![u][i] = "pending"]
           \/ t = "share" /\ record[u][i] = "pending" /\ UNCHANGED record,
           UNCHANGED <<rows, sent, here, life, faults>>
    PROVE  Inv'
<1>1. TypeOK /\ RowInv /\ KeyInv /\ RecordInv /\ AcceptInv /\ HeldInv /\ AskInv
    BY DEF Inv
<1>2. i \in Rows /\ i \in Deliveries
    BY <1>1, InHand DEF Early
<1>3. RowInv' /\ Rows' = Rows /\ UNCHANGED <<status, keyOf, asked, sent, here, host, listed, starts, faults>>
    BY <1>1, RowsStay DEF life
<1>4. PICK f \in FlowRecords : Goes(u, h, f) /\ f.step = t /\ f.of = i
    BY <1>1, StepsOn DEF FlowSteps
<1>5. /\ flow' \in [Studios -> [Handlers -> FlowRecords]]
      /\ flow'[u][h] = f
      /\ \A v \in Studios, g \in Handlers : v # u \/ g # h => flow'[v][g] = flow[v][g]
    BY <1>1, <1>4, OneFlow
<1>6. /\ record' \in [Studios -> [Deliveries -> {"none", "pending", "done"}]]
      /\ record'[u][i] = "pending"
      /\ \A v \in Studios, j \in Deliveries : v # u \/ j # i => record'[v][j] = record[v][j]
  <2>1. record \in [Studios -> [Deliveries -> {"none", "pending", "done"}]]
      BY <1>1 DEF TypeOK
  <2>2. CASE record[u][i] = "pending" /\ UNCHANGED record
      BY <2>1, <2>2
  <2>3. CASE record' = [record EXCEPT ![u][i] = "pending"]
    <3> DEFINE mine == [record[u] EXCEPT ![i] = "pending"]
    <3>1. mine \in [Deliveries -> {"none", "pending", "done"}] /\ mine[i] = "pending"
        BY <2>1, <1>2
    <3>2. \A j \in Deliveries : j # i => mine[j] = record[u][j]
        BY <2>1
    <3>3. record' = [record EXCEPT ![u] = mine]
        BY <2>3
    <3> HIDE DEF mine
    <3> QED BY <2>1, <3>1, <3>2, <3>3
  <2> QED BY <2>2, <2>3
<1>7. TypeOK'
  <2>1. \A v \in Studios, g \in Handlers :
          IF flow'[v][g].step \in {"idle", "find", "insert"}
          THEN flow'[v][g].of = NoDelivery ELSE flow'[v][g].of \in Rows'
    <3> SUFFICES ASSUME NEW v \in Studios, NEW g \in Handlers
                 PROVE  IF flow'[v][g].step \in {"idle", "find", "insert"}
                        THEN flow'[v][g].of = NoDelivery ELSE flow'[v][g].of \in Rows'
        OBVIOUS
    <3>1. CASE v = u /\ g = h
        BY <1>2, <1>3, <1>4, <1>5, <3>1
    <3>2. CASE v # u \/ g # h
        BY <1>1, <1>3, <1>5, <3>2, InHand DEF Early
    <3> QED BY <3>1, <3>2
  <2>2. flow' \in [Studios -> [Handlers ->
          [step : FlowSteps, key : Keys \cup {NoKey}, of : Deliveries \cup {NoDelivery}]]]
      BY <1>5 DEF FlowRecords
  <2> QED BY <1>1, <1>3, <1>6, <2>1, <2>2 DEF TypeOK, RowInv
<1>8. KeyInv'
    BY <1>1, <1>4, <1>5 DEF KeyInv
<1>9. t = "admit" => here[u][i] = 0
    BY <1>1, <1>2 DEF RecordInv
<1>10. \A v \in Studios, g \in Handlers, j \in Deliveries :
         /\ Has(v, g, "admit", j)' <=>
               Has(v, g, "admit", j) \/ (v = u /\ g = h /\ j = i /\ t = "admit")
         /\ Has(v, g, "share", j)' <=>
               Has(v, g, "share", j) \/ (v = u /\ g = h /\ j = i /\ t = "share")
         /\ Has(v, g, "accept", j)' <=> Has(v, g, "accept", j)
    BY <1>4, <1>5 DEF Has
<1>11. RecordInv'
  <2> SUFFICES ASSUME NEW v \in Studios, NEW j \in Deliveries
               PROVE  /\ record'[v][j] = "pending" => \E g \in Handlers : Has(v, g, "admit", j)'
                      /\ \A g \in Handlers :
                            /\ Has(v, g, "admit", j)' => record'[v][j] = "pending" /\ here'[v][j] = 0
                            /\ Has(v, g, "share", j)' => record'[v][j] = "pending"
                      /\ \A g, k \in Handlers :
                            Has(v, g, "admit", j)' /\ Has(v, k, "admit", j)' => g = k
                      /\ here'[v][j] \in {0, 1}
                      /\ here'[v][j] = 1 /\ host'[v] # "stopped" => record'[v][j] = "done"
                      /\ record'[v][j] = "done" => sent'[j] > 0
      BY DEF RecordInv
  <2>1. CASE v # u \/ j # i
      BY <1>1, <1>3, <1>6, <1>10, <2>1 DEF RecordInv
  <2>2. CASE v = u /\ j = i /\ t = "admit"
    <3>1. \A g \in Handlers : ~Has(v, g, "admit", j) /\ ~Has(v, g, "share", j)
        BY <1>1, <2>2 DEF RecordInv
    <3> QED BY <1>3, <1>6, <1>9, <1>10, <2>2, <3>1
  <2>3. CASE v = u /\ j = i /\ t = "share"
      BY <1>1, <1>3, <1>6, <1>10, <2>3 DEF RecordInv
  <2> QED BY <2>1, <2>2, <2>3
<1>12. AcceptInv'
    BY <1>1, <1>3, <1>10 DEF AcceptInv
<1>13. \A v \in Studios, g \in Handlers : flow'[v][g].of = flow[v][g].of
    BY <1>4, <1>5
<1>14. HeldInv'
    BY <1>1, <1>3, <1>13 DEF HeldInv
<1>15. AskInv'
  <2> SUFFICES ASSUME NEW j \in Deliveries
               PROVE  sent'[j] + Cardinality(MaySend(j)') <= asked'[j]
      BY DEF AskInv
  <2>1. MaySend(j)' \subseteq MaySend(j)
      BY <1>4, <1>5 DEF MaySend
  <2>2. sent[j] \in Nat /\ asked[j] \in Nat
      BY <1>1 DEF TypeOK
  <2> QED BY <1>1, <1>3, <2>1, <2>2, FewerMaySend DEF AskInv
<1> QED BY <1>3, <1>7, <1>8, <1>11, <1>12, <1>14, <1>15 DEF Inv

LEMMA SendKeeps ==
    ASSUME Inv, NEW u \in Studios, NEW h \in Handlers, Send(u, h)
    PROVE  Inv'
<1> DEFINE i == flow[u][h].of
<1>1. flow[u][h].step = "send" /\ UNCHANGED <<rows, sent, here, life, faults>>
    BY DEF Send, At
<1>2. CASE GoesOn(u, h, "fail") /\ UNCHANGED record
    BY <1>1, <1>2, SendFails DEF pets
<1>3. CASE record[u][i] = "done" /\ GoesOn(u, h, "accept") /\ UNCHANGED record
    BY <1>1, <1>3, SendFails DEF pets
<1>4. CASE /\ host[u] \notin {"stopping", "stopped"}
           /\ record[u][i] = "none" /\ GoesOn(u, h, "admit")
           /\ record' = [record EXCEPT ![u][i] = "pending"]
    BY <1>1, <1>4, SendEnters
<1>5. CASE /\ host[u] \notin {"stopping", "stopped"}
           /\ record[u][i] = "pending" /\ GoesOn(u, h, "share") /\ UNCHANGED record
    BY <1>1, <1>5, SendEnters
<1> QED BY <1>2, <1>3, <1>4, <1>5 DEF Send

-----------------------------------------------------------------------------
\* The answer of an admission.
LEMMA AdmitKeeps ==
    ASSUME Inv, NEW u \in Studios, NEW h \in Handlers, Admit(u, h)
    PROVE  Inv'
<1>1. TypeOK /\ RowInv /\ KeyInv /\ RecordInv /\ AcceptInv /\ HeldInv /\ AskInv
    BY DEF Inv
<1> DEFINE i == flow[u][h].of
<1>2. flow[u][h].step = "admit" /\ UNCHANGED <<rows, life, faults>>
    BY DEF Admit, At
<1>3. i \in Rows /\ i \in Deliveries
    BY <1>1, <1>2, InHand DEF Early
<1>4. RowInv' /\ Rows' = Rows /\ UNCHANGED <<status, keyOf, asked, host, listed, starts, faults>>
    BY <1>1, <1>2, RowsStay DEF life
<1>5. PICK to \in {"accept", "fail"}, kept \in {"none", "done"} :
        /\ Answer(u, h, to) /\ record' = [record EXCEPT ![u][i] = kept]
        /\ \/ PetAccepts(u, i) /\ kept = "done"
           \/ PetAccepts(u, i) /\ kept = "none" /\ to = "fail" /\ host[u] = "stopped"
           \/ UNCHANGED <<sent, here>> /\ kept = "none" /\ to = "fail"
    BY DEF Admit
<1> DEFINE Told == {g \in Handlers : g = h \/ (At(u, g, "share") /\ flow[u][g].of = i)}
           f == Flow(to, NoKey, i)
<1>6. f \in FlowRecords /\ f.step = to /\ f.of = i
    BY <1>3, FlowsAreRecords
<1>7. flow \in [Studios -> [Handlers -> FlowRecords]]
    BY <1>1 DEF TypeOK, FlowRecords
<1> HIDE DEF f, i
<1>8. flow' = [flow EXCEPT ![u] = [g \in Handlers |-> IF g \in Told THEN f ELSE flow[u][g]]]
    BY <1>5 DEF Answer, f, i
<1> DEFINE mine == [g \in Handlers |-> IF g \in Told THEN f ELSE flow[u][g]]
<1>9. mine \in [Handlers -> FlowRecords]
    BY <1>6, <1>7
<1>10. \A g \in Handlers : mine[g] = IF g \in Told THEN f ELSE flow[u][g]
    OBVIOUS
<1> HIDE DEF mine
<1>11. /\ flow' \in [Studios -> [Handlers -> FlowRecords]]
       /\ \A g \in Handlers : flow'[u][g] = IF g \in Told THEN f ELSE flow[u][g]
       /\ \A v \in Studios, g \in Handlers : v # u => flow'[v][g] = flow[v][g]
    BY <1>7, <1>8, <1>9, <1>10 DEF mine
<1>12. \A g \in Told : flow[u][g].of = i /\ flow[u][g].step \in {"admit", "share"}
    BY <1>2 DEF At, i
<1>13. \A v \in Studios, g \in Handlers : flow'[v][g].of = flow[v][g].of
    BY <1>6, <1>11, <1>12
<1>14. /\ record' \in [Studios -> [Deliveries -> {"none", "pending", "done"}]]
       /\ record'[u][i] = kept
       /\ \A v \in Studios, j \in Deliveries : v # u \/ j # i => record'[v][j] = record[v][j]
  <2>1. record \in [Studios -> [Deliveries -> {"none", "pending", "done"}]]
      BY <1>1 DEF TypeOK
  <2> DEFINE now == [record[u] EXCEPT ![i] = kept]
  <2>2. now \in [Deliveries -> {"none", "pending", "done"}] /\ now[i] = kept
      BY <2>1, <1>3
  <2>3. \A j \in Deliveries : j # i => now[j] = record[u][j]
      BY <2>1
  <2>4. record' = [record EXCEPT ![u] = now]
      BY <1>5
  <2> HIDE DEF now
  <2> QED BY <2>1, <2>2, <2>3, <2>4
<1>15. here[u][i] = 0 /\ record[u][i] = "pending"
    BY <1>1, <1>2, <1>3 DEF RecordInv, Has, i
<1>16. /\ sent' \in [Deliveries -> Nat] /\ here' \in [Studios -> [Deliveries -> Nat]]
       /\ \A j \in Deliveries : j # i => sent'[j] = sent[j]
       /\ \A v \in Studios, j \in Deliveries : v # u \/ j # i => here'[v][j] = here[v][j]
       /\ \/ sent'[i] = sent[i] + 1 /\ here'[u][i] = 1
          \/ sent'[i] = sent[i] /\ here'[u][i] = 0 /\ kept = "none" /\ to = "fail"
  <2>1. sent \in [Deliveries -> Nat] /\ here \in [Studios -> [Deliveries -> Nat]]
      BY <1>1 DEF TypeOK
  <2>2. CASE PetAccepts(u, i)
    <3>1. sent' \in [Deliveries -> Nat] /\ sent'[i] = sent[i] + 1
          /\ \A j \in Deliveries : j # i => sent'[j] = sent[j]
        BY <1>3, <2>1, <2>2 DEF PetAccepts
    <3> DEFINE now == [here[u] EXCEPT ![i] = here[u][i] + 1]
    <3>2. now \in [Deliveries -> Nat] /\ now[i] = 1
        BY <1>3, <1>15, <2>1
    <3>3. \A j \in Deliveries : j # i => now[j] = here[u][j]
        BY <2>1
    <3>4. here' = [here EXCEPT ![u] = now]
        BY <2>2 DEF PetAccepts
    <3> HIDE DEF now
    <3>5. /\ here' \in [Studios -> [Deliveries -> Nat]] /\ here'[u][i] = 1
          /\ \A v \in Studios, j \in Deliveries : v # u \/ j # i => here'[v][j] = here[v][j]
        BY <2>1, <3>2, <3>3, <3>4
    <3> QED BY <3>1, <3>5
  <2>3. CASE UNCHANGED <<sent, here>> /\ kept = "none" /\ to = "fail"
      BY <1>15, <2>1, <2>3
  <2> QED BY <1>5, <2>2, <2>3
<1>17. TypeOK'
  <2>1. \A v \in Studios, g \in Handlers :
          IF flow'[v][g].step \in {"idle", "find", "insert"}
          THEN flow'[v][g].of = NoDelivery ELSE flow'[v][g].of \in Rows'
    <3> SUFFICES ASSUME NEW v \in Studios, NEW g \in Handlers
                 PROVE  IF flow'[v][g].step \in {"idle", "find", "insert"}
                        THEN flow'[v][g].of = NoDelivery ELSE flow'[v][g].of \in Rows'
        OBVIOUS
    <3>1. CASE v = u /\ g \in Told
        BY <1>3, <1>4, <1>6, <1>11, <3>1 DEF i
    <3>2. CASE ~(v = u /\ g \in Told)
      <4>1. flow'[v][g] = flow[v][g]
          BY <1>11, <3>2
      <4> QED BY <1>1, <1>4, <4>1, InHand DEF Early
    <3> QED BY <3>1, <3>2
  <2>2. flow' \in [Studios -> [Handlers ->
          [step : FlowSteps, key : Keys \cup {NoKey}, of : Deliveries \cup {NoDelivery}]]]
      BY <1>11 DEF FlowRecords
  <2> QED BY <1>1, <1>4, <1>14, <1>16, <2>1, <2>2 DEF TypeOK, RowInv
<1>18. KeyInv'
    BY <1>1, <1>6, <1>11 DEF KeyInv
<1>19. \A v \in Studios, g \in Handlers, j \in Deliveries :
         /\ Has(v, g, "admit", j)' => Has(v, g, "admit", j) /\ ~(v = u /\ j = i)
         /\ Has(v, g, "share", j)' => Has(v, g, "share", j) /\ ~(v = u /\ j = i)
         /\ ~(v = u /\ j = i) /\ Has(v, g, "admit", j) => Has(v, g, "admit", j)'
         /\ Has(v, g, "accept", j)' => Has(v, g, "accept", j) \/ (j = i /\ to = "accept")
  <2> SUFFICES ASSUME NEW v \in Studios, NEW g \in Handlers, NEW j \in Deliveries
               PROVE  /\ Has(v, g, "admit", j)' => Has(v, g, "admit", j) /\ ~(v = u /\ j = i)
                      /\ Has(v, g, "share", j)' => Has(v, g, "share", j) /\ ~(v = u /\ j = i)
                      /\ ~(v = u /\ j = i) /\ Has(v, g, "admit", j) => Has(v, g, "admit", j)'
                      /\ Has(v, g, "accept", j)' =>
                            Has(v, g, "accept", j) \/ (j = i /\ to = "accept")
      OBVIOUS
  <2>1. CASE v = u /\ g \in Told
      BY <1>6, <1>11, <1>12, <2>1 DEF Has
  <2>2. CASE ~(v = u /\ g \in Told)
    <3>1. flow'[v][g] = flow[v][g]
        BY <1>11, <2>2
    <3>2. v = u /\ Has(u, g, "admit", i) => g = h
        BY <1>1, <1>2, <1>3 DEF RecordInv, Has, i
    <3>3. ~(v = u /\ Has(u, g, "share", i))
        BY <2>2 DEF Has, At
    <3> QED BY <2>2, <3>1, <3>2, <3>3 DEF Has
  <2> QED BY <2>1, <2>2
<1>21. \A j \in Deliveries : sent[j] \in Nat /\ sent'[j] \in Nat /\ sent'[j] >= sent[j]
  <2>1. sent \in [Deliveries -> Nat]
      BY <1>1 DEF TypeOK
  <2> QED BY <1>16, <2>1
<1>20. RecordInv'
  <2> SUFFICES ASSUME NEW v \in Studios, NEW j \in Deliveries
               PROVE  /\ record'[v][j] = "pending" => \E g \in Handlers : Has(v, g, "admit", j)'
                      /\ \A g \in Handlers :
                            /\ Has(v, g, "admit", j)' => record'[v][j] = "pending" /\ here'[v][j] = 0
                            /\ Has(v, g, "share", j)' => record'[v][j] = "pending"
                      /\ \A g, k \in Handlers :
                            Has(v, g, "admit", j)' /\ Has(v, k, "admit", j)' => g = k
                      /\ here'[v][j] \in {0, 1}
                      /\ here'[v][j] = 1 /\ host'[v] # "stopped" => record'[v][j] = "done"
                      /\ record'[v][j] = "done" => sent'[j] > 0
      BY DEF RecordInv
  <2>1. sent[j] \in Nat /\ sent'[j] \in Nat /\ sent'[j] >= sent[j]
      BY <1>21
  <2>2. CASE ~(v = u /\ j = i)
    <3>1. record'[v][j] = record[v][j] /\ here'[v][j] = here[v][j] /\ host'[v] = host[v]
        BY <1>4, <1>14, <1>16, <2>2
    <3> QED BY <1>1, <1>19, <2>1, <2>2, <3>1 DEF RecordInv
  <2>3. CASE v = u /\ j = i
    <3>1. \A g \in Handlers : ~Has(v, g, "admit", j)' /\ ~Has(v, g, "share", j)'
        BY <1>19, <2>3
    <3>2. record'[v][j] = kept /\ kept # "pending" /\ here'[v][j] \in {0, 1}
        BY <1>14, <1>16, <2>3
    <3>3. here'[v][j] = 1 /\ host'[v] # "stopped" => kept = "done"
        BY <1>4, <1>5, <1>15, <1>16, <2>3
    <3>4. kept = "done" => sent'[j] > 0
        BY <1>16, <2>1, <2>3
    <3> QED BY <3>1, <3>2, <3>3, <3>4
  <2> QED BY <2>2, <2>3
<1>22. AcceptInv'
  <2>1. to = "accept" => sent'[i] > 0
      BY <1>3, <1>16, <1>21 DEF i
  <2> QED BY <1>1, <1>4, <1>19, <1>21, <2>1 DEF AcceptInv
<1>23. HeldInv'
    BY <1>1, <1>4, <1>13 DEF HeldInv
<1>24. AskInv'
  <2> SUFFICES ASSUME NEW j \in Deliveries
               PROVE  sent'[j] + Cardinality(MaySend(j)') <= asked'[j]
      BY DEF AskInv
  <2>1. asked[j] \in Nat /\ asked'[j] = asked[j] /\ sent[j] + Cardinality(MaySend(j)) <= asked[j]
      BY <1>1, <1>4 DEF TypeOK, AskInv
  <2>2. CASE j # i
    <3>1. MaySend(j)' \subseteq MaySend(j)
        BY <1>6, <1>11, <2>2 DEF MaySend
    <3> QED BY <1>16, <1>21, <2>1, <2>2, <3>1, FewerMaySend
  <2>3. CASE j = i
    <3>1. <<u, h>> \in MaySend(j)
        BY <1>2, <2>3 DEF MaySend, i
    <3>2. flow'[u][h].step \in {"accept", "fail"}
        BY <1>6, <1>11
    <3>3. MaySend(j)' \subseteq MaySend(j) \ {<<u, h>>}
        BY <1>6, <1>11, <3>2 DEF MaySend
    <3> QED BY <1>16, <1>21, <2>1, <2>3, <3>1, <3>3, OneLessMaySends
  <2> QED BY <2>2, <2>3
<1> QED BY <1>4, <1>17, <1>18, <1>20, <1>22, <1>23, <1>24 DEF Inv

-----------------------------------------------------------------------------
\* A step of a Studio's life that leaves the handlers and the records alone.
LEMMA LifeKeeps ==
    ASSUME Inv, UNCHANGED <<pets, flow, faults, asked>>, RowInv', Rows' = Rows,
           \A i \in Deliveries : status'[i] = "accepted" => status[i] = "accepted",
           host' \in [Studios -> Hosts], listed' \in [Studios -> SUBSET Deliveries],
           starts' \in [Studios -> Nat],
           \A v \in Studios : host[v] = "stopped" => host'[v] = "stopped",
           HeldInv'
    PROVE  Inv'
<1>1. TypeOK /\ RowInv /\ KeyInv /\ RecordInv /\ AcceptInv /\ HeldInv /\ AskInv
    BY DEF Inv
<1>2. UNCHANGED <<sent, record, here, flow, faults, asked>>
    BY DEF pets
<1>3. TypeOK'
    BY <1>1, <1>2 DEF TypeOK, RowInv
<1>4. KeyInv'
    BY <1>1, <1>2 DEF KeyInv
<1>5. RecordInv'
    BY <1>1, <1>2 DEF RecordInv, Has
<1>6. AcceptInv'
    BY <1>1, <1>2 DEF AcceptInv, Has
<1>7. AskInv'
    BY <1>1, <1>2 DEF AskInv, MaySend
<1> QED BY <1>3, <1>4, <1>5, <1>6, <1>7 DEF Inv

\* ... in particular one that leaves the rows alone, and no interrupted claim
\* behind.
LEMMA HostKeeps ==
    ASSUME Inv, UNCHANGED <<rows, pets, flow, faults>>, NEW u \in Studios,
           NEW to \in Hosts, host' = [host EXCEPT ![u] = to], host[u] # "stopped",
           listed' \in [Studios -> SUBSET Deliveries], starts' \in [Studios -> Nat],
           \A v \in Studios : v # u => listed'[v] = listed[v],
           host[u] \in {"down", "subscribed"} => to \in {"down", "subscribed"}
               \/ \A i \in Deliveries : status[i] = "dispatching" => i \in listed'[u],
           host[u] \notin {"down", "subscribed"} => listed'[u] = listed[u]
    PROVE  Inv'
<1>1. RowInv' /\ Rows' = Rows /\ UNCHANGED <<status, keyOf, asked>>
    BY RowsStay DEF Inv
<1>2. /\ host' \in [Studios -> Hosts] /\ host'[u] = to
      /\ \A v \in Studios : v # u => host'[v] = host[v]
    BY DEF Inv, TypeOK
<1>3. HeldInv'
  <2> SUFFICES ASSUME NEW i \in Deliveries, faults' = 0, status'[i] = "dispatching"
               PROVE  \E v \in Studios :
                         \/ \E g \in Handlers : flow'[v][g].of = i
                         \/ host'[v] \in {"down", "subscribed"} \/ i \in listed'[v]
      BY DEF HeldInv
  <2>1. PICK v \in Studios :
           \/ \E g \in Handlers : flow[v][g].of = i
           \/ host[v] \in {"down", "subscribed"} \/ i \in listed[v]
      BY <1>1 DEF Inv, HeldInv
  <2>2. CASE v # u
      BY <1>2, <2>1, <2>2
  <2>3. CASE v = u
      BY <1>1, <1>2, <2>1, <2>3
  <2> QED BY <2>2, <2>3
<1> QED BY <1>1, <1>2, <1>3, LifeKeeps

LEMMA RecoverKeeps ==
    ASSUME Inv, NEW u \in Studios, NEW i \in Deliveries, Recover(u, i)
    PROVE  Inv'
<1>1. /\ UNCHANGED <<pets, host, starts, flow, faults>>
      /\ listed' = [listed EXCEPT ![u] = @ \ {i}]
      /\ Transition(i, "dispatching", "failed")
    BY DEF Recover
<1>2. /\ RowInv' /\ Rows' = Rows /\ UNCHANGED <<keyOf, asked>>
      /\ \A j \in Deliveries : status'[j] =
            IF j = i /\ status[i] = "dispatching" THEN "failed" ELSE status[j]
    BY <1>1, RowMoves DEF Inv, Statuses
<1>3. /\ listed' \in [Studios -> SUBSET Deliveries]
      /\ \A v \in Studios, j \in Deliveries : j # i /\ j \in listed[v] => j \in listed'[v]
    BY <1>1 DEF Inv, TypeOK
<1>4. HeldInv'
  <2> SUFFICES ASSUME NEW j \in Deliveries, faults' = 0, status'[j] = "dispatching"
               PROVE  \E v \in Studios :
                         \/ \E g \in Handlers : flow'[v][g].of = j
                         \/ host'[v] \in {"down", "subscribed"} \/ j \in listed'[v]
      BY DEF HeldInv
  <2>1. j # i /\ status[j] = "dispatching" /\ faults = 0
      BY <1>1, <1>2
  <2> QED BY <1>1, <1>3, <2>1 DEF Inv, HeldInv
<1>5. host' \in [Studios -> Hosts] /\ starts' \in [Studios -> Nat] /\ host' = host
    BY <1>1 DEF Inv, TypeOK
<1>6. \A j \in Deliveries : status'[j] = "accepted" => status[j] = "accepted"
    BY <1>2
<1> QED BY <1>1, <1>2, <1>3, <1>4, <1>5, <1>6, LifeKeeps

\* The process ends: what it held is lost, what it claimed is left to a
\* recovery.
LEMMA EndsKeeps ==
    ASSUME Inv, NEW u \in Studios, Ends(u)
    PROVE  Inv'
<1>1. TypeOK /\ RowInv /\ KeyInv /\ RecordInv /\ AcceptInv /\ HeldInv /\ AskInv
    BY DEF Inv
<1>2. RowInv' /\ Rows' = Rows /\ UNCHANGED <<status, keyOf, asked, sent, starts, faults>>
    BY <1>1, RowsStay DEF Ends
<1>3. /\ host' \in [Studios -> Hosts] /\ host'[u] = "down"
      /\ \A v \in Studios : v # u => host'[v] = host[v]
    BY <1>1 DEF TypeOK, Ends, Hosts
<1>4. /\ listed' \in [Studios -> SUBSET Deliveries]
      /\ \A v \in Studios : v # u => listed'[v] = listed[v]
    BY <1>1 DEF TypeOK, Ends
<1>5. Idle \in FlowRecords /\ Idle.step = "idle" /\ Idle.of = NoDelivery
    BY FlowsAreRecords
<1>6. /\ flow' \in [Studios -> [Handlers -> FlowRecords]]
      /\ \A g \in Handlers : flow'[u][g] = Idle
      /\ \A v \in Studios : v # u => flow'[v] = flow[v]
  <2>1. flow \in [Studios -> [Handlers -> FlowRecords]]
      BY <1>1 DEF TypeOK, FlowRecords
  <2>2. [h \in Handlers |-> Idle] \in [Handlers -> FlowRecords]
      BY <1>5
  <2> QED BY <2>1, <2>2 DEF Ends
<1>7. /\ record' \in [Studios -> [Deliveries -> {"none", "pending", "done"}]]
      /\ \A i \in Deliveries : record'[u][i] = "none"
      /\ \A v \in Studios : v # u => record'[v] = record[v]
  <2>1. record \in [Studios -> [Deliveries -> {"none", "pending", "done"}]]
      BY <1>1 DEF TypeOK
  <2>2. [i \in Deliveries |-> "none"] \in [Deliveries -> {"none", "pending", "done"}]
      OBVIOUS
  <2> QED BY <2>1, <2>2 DEF Ends
<1>8. /\ here' \in [Studios -> [Deliveries -> Nat]]
      /\ \A i \in Deliveries : here'[u][i] = 0
      /\ \A v \in Studios : v # u => here'[v] = here[v]
  <2>1. here \in [Studios -> [Deliveries -> Nat]]
      BY <1>1 DEF TypeOK
  <2>2. [i \in Deliveries |-> 0] \in [Deliveries -> Nat]
      OBVIOUS
  <2> QED BY <2>1, <2>2 DEF Ends
<1>9. TypeOK'
  <2>1. \A v \in Studios, g \in Handlers :
          IF flow'[v][g].step \in {"idle", "find", "insert"}
          THEN flow'[v][g].of = NoDelivery ELSE flow'[v][g].of \in Rows'
      BY <1>1, <1>2, <1>5, <1>6, InHand DEF Early
  <2>2. flow' \in [Studios -> [Handlers ->
          [step : FlowSteps, key : Keys \cup {NoKey}, of : Deliveries \cup {NoDelivery}]]]
      BY <1>6 DEF FlowRecords
  <2> QED BY <1>1, <1>2, <1>3, <1>4, <1>7, <1>8, <2>1, <2>2 DEF TypeOK, RowInv
<1>10. \A v \in Studios, g \in Handlers : flow'[v][g] = flow[v][g] \/ flow'[v][g].step = "idle"
    BY <1>5, <1>6
<1>11. KeyInv'
    BY <1>1, <1>6, <1>10 DEF KeyInv
<1>12. RecordInv'
  <2> SUFFICES ASSUME NEW v \in Studios, NEW i \in Deliveries
               PROVE  /\ record'[v][i] = "pending" => \E g \in Handlers : Has(v, g, "admit", i)'
                      /\ \A g \in Handlers :
                            /\ Has(v, g, "admit", i)' => record'[v][i] = "pending" /\ here'[v][i] = 0
                            /\ Has(v, g, "share", i)' => record'[v][i] = "pending"
                      /\ \A g, k \in Handlers :
                            Has(v, g, "admit", i)' /\ Has(v, k, "admit", i)' => g = k
                      /\ here'[v][i] \in {0, 1}
                      /\ here'[v][i] = 1 /\ host'[v] # "stopped" => record'[v][i] = "done"
                      /\ record'[v][i] = "done" => sent'[i] > 0
      BY DEF RecordInv
  <2>1. CASE v = u
      BY <1>5, <1>6, <1>7, <1>8, <2>1 DEF Has
  <2>2. CASE v # u
    <3>1. \A g \in Handlers, s \in FlowSteps : Has(v, g, s, i)' <=> Has(v, g, s, i)
        BY <1>6, <2>2 DEF Has
    <3>2. record'[v][i] = record[v][i] /\ here'[v][i] = here[v][i]
        BY <1>7, <1>8, <2>2
    <3>3. host'[v] = host[v] /\ sent'[i] = sent[i]
        BY <1>1, <1>2, <1>3, <2>2
    <3>4. RecordInv /\ "admit" \in FlowSteps /\ "share" \in FlowSteps
        BY <1>1 DEF FlowSteps
    <3> QED BY <3>1, <3>2, <3>3, <3>4 DEF RecordInv
  <2> QED BY <2>1, <2>2
<1>13. AcceptInv'
    BY <1>1, <1>2, <1>10 DEF AcceptInv, Has
<1>14. HeldInv'
    BY <1>3 DEF HeldInv
<1>15. AskInv'
  <2> SUFFICES ASSUME NEW i \in Deliveries
               PROVE  sent'[i] + Cardinality(MaySend(i)') <= asked'[i]
      BY DEF AskInv
  <2>1. MaySend(i)' \subseteq MaySend(i)
      BY <1>10 DEF MaySend
  <2>2. sent[i] \in Nat /\ asked[i] \in Nat
      BY <1>1 DEF TypeOK
  <2> QED BY <1>1, <1>2, <2>1, <2>2, FewerMaySend DEF AskInv
<1> QED BY <1>2, <1>9, <1>11, <1>12, <1>13, <1>14, <1>15 DEF Inv

LEMMA LifeStepKeeps ==
    ASSUME Inv, NEW u \in Studios,
           Start(u) \/ List(u) \/ RecoverStep(u) \/ Open(u)
             \/ Shutdown(u) \/ Stop(u) \/ Exit(u) \/ Crash(u)
    PROVE  Inv'
<1>1. /\ listed \in [Studios -> SUBSET Deliveries] /\ starts \in [Studios -> Nat]
      /\ \A i \in Deliveries : listed[u] = {} => i \notin listed[u]
    BY DEF Inv, TypeOK
<1>2. CASE Start(u)
  <2>1. starts' \in [Studios -> Nat]
      BY <1>1, <1>2 DEF Start
  <2> QED BY <1>1, <1>2, <2>1, HostKeeps DEF Start, Hosts
<1>3. CASE List(u)
  <2>1. /\ listed' \in [Studios -> SUBSET Deliveries]
        /\ listed'[u] = {i \in Deliveries : status[i] = "dispatching"}
        /\ \A v \in Studios : v # u => listed'[v] = listed[v]
      BY <1>1, <1>3 DEF List
  <2> QED BY <1>1, <1>3, <2>1, HostKeeps DEF List, Hosts
<1>4. CASE RecoverStep(u)
    BY <1>4, RecoverKeeps DEF RecoverStep
<1>5. CASE Open(u)
    BY <1>1, <1>5, HostKeeps DEF Open, Hosts
<1>6. CASE Shutdown(u)
    BY <1>1, <1>6, HostKeeps DEF Shutdown, Hosts
<1>7. CASE Stop(u)
    BY <1>1, <1>7, HostKeeps DEF Stop, Hosts
<1>8. CASE Exit(u) \/ Crash(u)
    BY <1>8, EndsKeeps DEF Exit, Crash
<1> QED BY <1>2, <1>3, <1>4, <1>5, <1>6, <1>7, <1>8

-----------------------------------------------------------------------------
\* Every step of a Studio, a crash or a new start keeps that agreement.
THEOREM InvNext == Inv /\ [Next]_vars => Inv'
<1> SUFFICES ASSUME Inv, [Next]_vars PROVE Inv'
    OBVIOUS
<1>1. CASE Next
  <2>1. PICK u \in Studios :
          \/ \E h \in Handlers :
                \/ \E k \in Keys : Receive(u, h, k)
                \/ \E i \in Deliveries : Retry(u, h, i) \/ Redeliver(u, h, i)
                \/ FlowStep(u, h)
          \/ Start(u) \/ List(u) \/ RecoverStep(u) \/ Open(u)
          \/ Shutdown(u) \/ Stop(u) \/ Exit(u) \/ Crash(u)
      BY <1>1 DEF Next
  <2>2. ASSUME NEW h \in Handlers, FlowStep(u, h) PROVE Inv'
      BY <2>2, FindKeeps, InsertKeeps, SendKeeps, AdmitKeeps, AcceptKeeps, FailKeeps DEF FlowStep
  <2>3. ASSUME NEW h \in Handlers, NEW k \in Keys, Receive(u, h, k) PROVE Inv'
      BY <2>3, ReceiveKeeps
  <2>4. ASSUME NEW h \in Handlers, NEW i \in Deliveries, Retry(u, h, i) \/ Redeliver(u, h, i)
        PROVE  Inv'
      BY <2>4, RetryKeeps, RedeliverKeeps
  <2> QED BY <2>1, <2>2, <2>3, <2>4, LifeStepKeeps
<1>2. CASE UNCHANGED vars
  <2>1. UNCHANGED <<rows, pets, flow, faults, host, listed, starts>>
      BY <1>2 DEF vars, life
  <2>2. RowInv' /\ Rows' = Rows /\ UNCHANGED <<status, keyOf, asked>>
      BY <2>1, RowsStay DEF Inv
  <2>3. HeldInv'
      BY <2>1, <2>2 DEF Inv, HeldInv
  <2> QED BY <2>1, <2>2, <2>3, LifeKeeps DEF Inv, TypeOK
<1> QED BY <1>1, <1>2

\* The inductive invariant holds in every reachable state: the
\* delivery rows and Studio's records agree with the handlers.
THEOREM InvAlways == Spec => []Inv
BY InvInit, InvNext, PTL DEF Spec

-----------------------------------------------------------------------------
\* The rows, the handlers and the records keep their types: a handler past its
\* claim holds a delivery that has a row.
THEOREM TriggerTypeCorrect == Spec => []TypeOK
<1>1. Inv => TypeOK
    BY DEF Inv
<1> QED BY <1>1, InvAlways, PTL

\* A key has one delivery, whoever received it and however often.
THEOREM KeysHaveOneRow == Spec => []OneRowPerKey
<1>1. Inv => OneRowPerKey
    BY DEF Inv, RowInv
<1> QED BY <1>1, InvAlways, PTL

\* A Pet runs a delivery at most once for the claim and once for each retry.
THEOREM NoUnaskedRun == Spec => []SentAsAsked
<1>1. Inv => SentAsAsked
  <2> SUFFICES ASSUME Inv, NEW i \in Deliveries PROVE sent[i] <= asked[i]
      BY DEF SentAsAsked
  <2>1. sent[i] \in Nat /\ asked[i] \in Nat /\ sent[i] + Cardinality(MaySend(i)) <= asked[i]
      BY DEF Inv, TypeOK, AskInv
  <2>2. Cardinality(MaySend(i)) \in Nat
      BY MaySendIsFinite, FS_CardinalityType
  <2> QED BY <2>1, <2>2
<1> QED BY <1>1, InvAlways, PTL

\* In one life of a Studio the reserved record lets a delivery through once.
THEOREM LifeRunsOnce == Spec => []OncePerLife
<1>1. Inv => OncePerLife
  <2> SUFFICES ASSUME Inv, NEW u \in Studios, NEW i \in Deliveries PROVE here[u][i] <= 1
      BY DEF OncePerLife
  <2>1. here[u][i] \in {0, 1}
      BY DEF Inv, RecordInv
  <2> QED BY <2>1
<1> QED BY <1>1, InvAlways, PTL

\* What is recorded as accepted has reached its Pet.
THEOREM AcceptedReachedItsPet == Spec => []AcceptedWasSent
<1>1. Inv => AcceptedWasSent
    BY DEF Inv, AcceptInv, AcceptedWasSent, Has, At
<1> QED BY <1>1, InvAlways, PTL

\* No claim is forgotten by Studios whose calls of the store succeed.
THEOREM NoClaimForgotten == Spec => []ClaimsAreHeld
<1>1. Inv => ClaimsAreHeld
  <2> SUFFICES ASSUME Inv, NEW i \in Deliveries, faults = 0, status[i] = "dispatching"
               PROVE  \E u \in Studios :
                         GoesOnWith(u, i) \/ host[u] \in {"down", "subscribed"} \/ i \in listed[u]
      BY DEF ClaimsAreHeld
  <2>1. PICK u \in Studios :
           \/ \E h \in Handlers : flow[u][h].of = i
           \/ host[u] \in {"down", "subscribed"} \/ i \in listed[u]
      BY DEF Inv, HeldInv
  <2>2. ASSUME NEW h \in Handlers, flow[u][h].of = i PROVE GoesOnWith(u, i)
    <3>1. At(u, h, "share") => \E g \in Handlers : At(u, g, "admit") /\ flow[u][g].of = i
        BY <2>2 DEF Inv, RecordInv, Has, At
    <3> QED BY <2>2, <3>1 DEF GoesOnWith
  <2> QED BY <2>1, <2>2
<1> QED BY <1>1, InvAlways, PTL

\* The rows, the records and the Pets agree on the runs of a delivery.
THEOREM TriggerRunsAreAccounted == Spec => []RunsAreAccounted
<1> QED BY NoUnaskedRun, LifeRunsOnce, AcceptedReachedItsPet, PTL DEF RunsAreAccounted
=============================================================================
