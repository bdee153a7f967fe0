----------------------- MODULE SchedulerPluginProofs -----------------------
(***************************************************************************)
(* A schedule reaches its Pet at most once and its row tells the truth,    *)
(* for any schedules, any Studios on the database, any failing calls and   *)
(* any crashes.  The claim is what carries it: at most one poll is past    *)
(* the claim of a schedule, and a claimed schedule is never claimable      *)
(* again.                                                                  *)
(***************************************************************************)
EXTENDS SchedulerPlugin, TLAPS

\* Past the claim, and before the Pet has answered.
Claimed(u, s) == poll[u].of = s /\ poll[u].step \in {"send", "admit", "mark", "fail"}
Unsent(u, s) == poll[u].of = s /\ poll[u].step \in {"send", "admit"}

Claimable(s) == status[s] \in {"none", "scheduled", "cancelled"}

ClaimInv ==
    /\ \A s \in Schedules : Claimable(s) => \A u \in Studios : ~Claimed(u, s)
    /\ \A s \in Schedules : \A u, v \in Studios :
          Claimed(u, s) /\ Claimed(v, s) => u = v

SentInv ==
    \A s \in Schedules :
        /\ sent[s] \in {0, 1}
        /\ Claimable(s) => sent[s] = 0
        /\ status[s] = "dispatched" => sent[s] = 1
        /\ note[s] = "shut down" =>
              sent[s] = 0 /\ status[s] = "failed" /\ \A u \in Studios : ~Claimed(u, s)

HandInv ==
    \A u \in Studios, s \in Schedules :
        /\ Unsent(u, s) => sent[s] = 0
        /\ poll[u].of = s /\ poll[u].step = "mark" => sent[s] = 1
        /\ poll[u].of = s /\ poll[u].step = "fail" /\ poll[u].why = "shut down" =>
              sent[s] = 0

Inv == TypeOK /\ ClaimInv /\ SentInv /\ HandInv

-----------------------------------------------------------------------------
PollRecords == [step : PollSteps, of : Schedules \cup {NoSchedule}, why : Notes]
WellFormed(p) == p \in PollRecords /\ (p.of = NoSchedule <=> p.step \in {"idle", "list"})

\* What a poll may become, whatever it was.
LEMMA PollsAreWellFormed ==
    /\ WellFormed(Idle) /\ WellFormed(Poll("list", NoSchedule))
    /\ \A s \in Schedules : \A t \in {"claim", "send"} : WellFormed(Poll(t, s))
BY SchedulerAssumption DEF WellFormed, PollRecords, Idle, Poll, PollSteps, Notes

\* A step of one poll leaves the others alone.
LEMMA OnePollMoves ==
    ASSUME TypeOK, NEW u \in Studios, NEW p, WellFormed(p), poll' = [poll EXCEPT ![u] = p]
    PROVE  /\ poll' \in [Studios -> PollRecords]
           /\ \A v \in Studios : poll'[v].of = NoSchedule <=> poll'[v].step \in {"idle", "list"}
           /\ poll'[u] = p
           /\ \A v \in Studios : v # u => poll'[v] = poll[v]
BY DEF TypeOK, WellFormed, PollRecords

\* A transition moves one row, or none.
LEMMA OneRowMoves ==
    ASSUME TypeOK, NEW s \in Schedules, NEW from, NEW to \in Statuses, NEW why \in Notes,
           Transition(s, from, to, why)
    PROVE  /\ status' \in [Schedules -> Statuses] /\ note' \in [Schedules -> Notes]
           /\ \A r \in Schedules : r # s => status'[r] = status[r] /\ note'[r] = note[r]
           /\ status[s] = from => status'[s] = to /\ note'[s] = why
           /\ status[s] # from => UNCHANGED rows
BY DEF TypeOK, Transition, rows

\* The poll of a Studio, as the type invariant knows it.
LEMMA InHand ==
    ASSUME TypeOK, NEW u \in Studios
    PROVE  /\ poll[u] \in PollRecords
           /\ poll[u].step \in {"claim", "send", "admit", "mark", "fail"} => poll[u].of \in Schedules
BY DEF TypeOK, PollRecords, PollSteps

\* An update of one field, as an update of the record.
LEMMA PollTurns ==
    ASSUME TypeOK, NEW u \in Studios, NEW t \in {"admit", "mark"},
           poll[u].step \in {"send", "admit"}, poll' = [poll EXCEPT ![u].step = t]
    PROVE  \E p : /\ poll' = [poll EXCEPT ![u] = p] /\ WellFormed(p)
                  /\ p.step = t /\ p.of = poll[u].of
<1>1. poll[u] \in PollRecords /\ poll[u].of \in Schedules
    BY InHand
<1> DEFINE p == [poll[u] EXCEPT !.step = t]
<1>3. poll' = [poll EXCEPT ![u] = p]
    BY DEF TypeOK
<1>4. p \in PollRecords /\ p.step = t /\ p.of = poll[u].of
    BY <1>1 DEF PollRecords, PollSteps
<1> HIDE DEF p
<1>5. WellFormed(p)
    BY <1>1, <1>4, SchedulerAssumption DEF WellFormed
<1> QED BY <1>3, <1>4, <1>5

LEMMA PollThrows ==
    ASSUME TypeOK, NEW u \in Studios, NEW why \in Notes,
           poll[u].step \in {"send", "admit", "mark"}, Throws(u, why)
    PROVE  \E p : /\ poll' = [poll EXCEPT ![u] = p] /\ WellFormed(p)
                  /\ p.step = "fail" /\ p.of = poll[u].of /\ p.why = why
<1> DEFINE p == [step |-> "fail", of |-> poll[u].of, why |-> why]
<1>1. poll[u].of \in Schedules
    BY InHand
<1>2. poll' = [poll EXCEPT ![u] = p] /\ p.step = "fail" /\ p.of = poll[u].of /\ p.why = why
    BY DEF Throws
<1>3. WellFormed(p)
    BY <1>1, SchedulerAssumption DEF WellFormed, PollRecords, PollSteps
<1> QED BY <1>2, <1>3

\* What no step of the invariant depends on.
Rest ==
    /\ host \in [Studios -> Hosts] /\ activated \in [Studios -> BOOLEAN]
    /\ listed \in [Studios -> SUBSET Schedules]
    /\ starts \in [Studios -> Nat] /\ faults \in Nat

\* At the start the schedule rows agree with the polls.
THEOREM InvInit == Init => Inv
<1> SUFFICES ASSUME Init PROVE Inv
    OBVIOUS
<1>1. \A u \in Studios : poll[u] = Idle
    BY DEF Init
<1>2. TypeOK
  <2>1. poll \in [Studios -> PollRecords]
      BY PollsAreWellFormed DEF Init, WellFormed
  <2>2. \A u \in Studios : poll[u].of = NoSchedule <=> poll[u].step \in {"idle", "list"}
      BY <1>1 DEF Idle, Poll
  <2> QED
      BY <2>1, <2>2, SchedulerAssumption DEF Init, TypeOK, PollRecords, Statuses, Notes, Hosts
<1>3. ClaimInv /\ SentInv /\ HandInv
    BY <1>1 DEF Init, ClaimInv, SentInv, HandInv, Claimed, Unsent, Claimable, Idle, Poll
<1> QED BY <1>2, <1>3 DEF Inv

-----------------------------------------------------------------------------
LEMMA CreateKeeps ==
    ASSUME Inv, NEW u \in Studios, NEW s \in Schedules, Create(u, s) PROVE Inv'
<1>1. UNCHANGED <<note, sent, host, activated, poll, listed, starts, faults>>
    BY DEF Create, Clients
<1>2. /\ status' \in [Schedules -> Statuses]
      /\ status[s] = "none" /\ status'[s] = "scheduled"
      /\ \A r \in Schedules : r # s => status'[r] = status[r]
    BY DEF Create, Inv, TypeOK, Statuses
<1>3. TypeOK'
    BY <1>1, <1>2 DEF Inv, TypeOK
<1>4. ClaimInv'
    BY <1>1, <1>2 DEF Inv, ClaimInv, Claimed, Claimable
<1>5. (SentInv /\ HandInv)'
    BY <1>1, <1>2 DEF Inv, SentInv, HandInv, Claimed, Unsent, Claimable
<1> QED BY <1>3, <1>4, <1>5 DEF Inv

LEMMA CancelKeeps ==
    ASSUME Inv, NEW u \in Studios, NEW s \in Schedules, Cancel(u, s) PROVE Inv'
<1>1. UNCHANGED <<sent, host, activated, poll, listed, starts, faults>>
    BY DEF Cancel, Clients
<1>2. /\ status' \in [Schedules -> Statuses] /\ note' \in [Schedules -> Notes]
      /\ status[s] = "scheduled" /\ status'[s] = "cancelled" /\ note'[s] = "none"
      /\ \A r \in Schedules : r # s => status'[r] = status[r] /\ note'[r] = note[r]
    BY OneRowMoves DEF Cancel, Inv, Statuses, Notes
<1>3. TypeOK'
    BY <1>1, <1>2 DEF Inv, TypeOK
<1>4. ClaimInv'
    BY <1>1, <1>2 DEF Inv, ClaimInv, Claimed, Claimable
<1>5. (SentInv /\ HandInv)'
    BY <1>1, <1>2 DEF Inv, SentInv, HandInv, Claimed, Unsent, Claimable
<1> QED BY <1>3, <1>4, <1>5 DEF Inv

\* A poll that takes no schedule past its claim, with the rows left alone.
LEMMA NothingClaimed ==
    ASSUME Inv, NEW u \in Studios, NEW p, WellFormed(p),
           p.step \in {"idle", "list", "claim"}, poll' = [poll EXCEPT ![u] = p],
           UNCHANGED <<rows, sent>>, Rest'
    PROVE  Inv'
<1>1. /\ poll' \in [Studios -> PollRecords]
      /\ \A v \in Studios : poll'[v].of = NoSchedule <=> poll'[v].step \in {"idle", "list"}
      /\ poll'[u] = p
      /\ \A v \in Studios : v # u => poll'[v] = poll[v]
    BY OnePollMoves DEF Inv
<1>2. TypeOK'
    BY <1>1 DEF Inv, TypeOK, rows, Rest, PollRecords
<1>3. ClaimInv'
    BY <1>1 DEF Inv, ClaimInv, Claimed, Claimable, rows
<1>4. SentInv'
    BY <1>1 DEF Inv, SentInv, Claimed, Claimable, rows
<1>5. HandInv'
    BY <1>1 DEF Inv, HandInv, Unsent, rows
<1> QED BY <1>2, <1>3, <1>4, <1>5 DEF Inv

LEMMA PollBeginsKeeps ==
    ASSUME Inv, NEW u \in Studios, PollBegins(u) PROVE Inv'
<1>1. Rest' /\ UNCHANGED <<rows, sent>>
    BY DEF PollBegins, Inv, TypeOK, Rest
<1>2. Poll("list", NoSchedule).step = "list"
    BY DEF Poll
<1> QED BY <1>1, <1>2, NothingClaimed, PollsAreWellFormed DEF PollBegins

LEMMA ListDueKeeps ==
    ASSUME Inv, NEW u \in Studios, ListDue(u) PROVE Inv'
<1>1. Rest' /\ UNCHANGED <<rows, sent>>
    BY DEF ListDue, Inv, TypeOK, Rest
<1>2. CASE poll' = [poll EXCEPT ![u] = Idle]
  <2>1. Idle.step = "idle"
      BY DEF Idle, Poll
  <2> QED BY <1>1, <1>2, <2>1, NothingClaimed, PollsAreWellFormed
<1>3. ASSUME NEW s \in Schedules, poll' = [poll EXCEPT ![u] = Poll("claim", s)] PROVE Inv'
  <2>1. Poll("claim", s).step = "claim"
      BY DEF Poll
  <2> QED BY <1>1, <1>3, <2>1, NothingClaimed, PollsAreWellFormed
<1> QED BY <1>2, <1>3 DEF ListDue

-----------------------------------------------------------------------------
\* What a poll does with the schedule in hand, the rows and the Pet left alone.
LEMMA HandMoves ==
    ASSUME Inv, NEW u \in Studios, NEW p, WellFormed(p), poll' = [poll EXCEPT ![u] = p],
           Claimed(u, poll[u].of), p.of = poll[u].of, UNCHANGED <<rows, sent>>, Rest',
           \/ p.step = "admit" /\ poll[u].step = "send"
           \/ /\ p.step = "fail"
              /\ poll[u].step \in {"send", "admit"} \/ p.why # "shut down"
    PROVE  Inv'
<1> DEFINE s == poll[u].of
<1>1. /\ poll' \in [Studios -> PollRecords]
      /\ \A v \in Studios : poll'[v].of = NoSchedule <=> poll'[v].step \in {"idle", "list"}
      /\ poll'[u] = p
      /\ \A v \in Studios : v # u => poll'[v] = poll[v]
    BY OnePollMoves DEF Inv
<1>2. s \in Schedules
    BY InHand DEF Inv, Claimed
<1>3. \A v \in Studios, r \in Schedules : Claimed(v, r)' => Claimed(v, r)
    BY <1>1 DEF Claimed
<1>4. TypeOK'
    BY <1>1 DEF Inv, TypeOK, rows, Rest, PollRecords
<1>5. ClaimInv'
    BY <1>3 DEF Inv, ClaimInv, Claimable, rows
<1>6. SentInv'
    BY <1>3 DEF Inv, SentInv, Claimable, rows
<1>7. HandInv'
  <2> SUFFICES ASSUME NEW v \in Studios, NEW r \in Schedules
               PROVE  /\ Unsent(v, r)' => sent[r] = 0
                      /\ poll'[v].of = r /\ poll'[v].step = "mark" => sent[r] = 1
                      /\ poll'[v].of = r /\ poll'[v].step = "fail" /\ poll'[v].why = "shut down" =>
                            sent[r] = 0
      BY DEF HandInv
  <2>1. CASE v = u
    <3>1. poll[u].step \in {"send", "admit"} => sent[s] = 0
        BY <1>2 DEF Inv, HandInv, Unsent
    <3> QED BY <1>1, <2>1, <3>1 DEF Unsent
  <2>2. CASE v # u
      BY <1>1, <2>2 DEF Inv, HandInv, Unsent
  <2> QED BY <2>1, <2>2
<1> QED BY <1>4, <1>5, <1>6, <1>7 DEF Inv

LEMMA SendKeeps ==
    ASSUME Inv, NEW u \in Studios, Send(u) PROVE Inv'
<1>1. Rest' /\ UNCHANGED <<rows, sent>> /\ Claimed(u, poll[u].of)
    BY DEF Send, Inv, TypeOK, Rest, Claimed
<1>2. CASE poll' = [poll EXCEPT ![u].step = "admit"]
  <2>1. PICK p : /\ poll' = [poll EXCEPT ![u] = p] /\ WellFormed(p)
                 /\ p.step = "admit" /\ p.of = poll[u].of
      BY <1>2, PollTurns DEF Inv, Send
  <2> QED BY <1>1, <2>1, HandMoves DEF Send
<1>3. ASSUME NEW why \in Notes, Throws(u, why) PROVE Inv'
  <2>1. PICK p : /\ poll' = [poll EXCEPT ![u] = p] /\ WellFormed(p)
                 /\ p.step = "fail" /\ p.of = poll[u].of /\ p.why = why
      BY <1>3, PollThrows DEF Inv, Send
  <2> QED BY <1>1, <2>1, HandMoves DEF Send
<1> QED BY <1>2, <1>3 DEF Send, Notes

\* The Pet accepts: nobody else has the schedule in hand, so it was never sent.
LEMMA SendsKeeps ==
    ASSUME Inv, NEW u \in Studios, NEW p, WellFormed(p), poll' = [poll EXCEPT ![u] = p],
           poll[u].step = "admit", p.of = poll[u].of, p.step \in {"mark", "fail"},
           p.step = "fail" => p.why = "refused",
           sent' = [sent EXCEPT ![poll[u].of] = @ + 1], UNCHANGED rows, Rest'
    PROVE  Inv'
<1> DEFINE s == poll[u].of
<1>1. /\ poll' \in [Studios -> PollRecords]
      /\ \A v \in Studios : poll'[v].of = NoSchedule <=> poll'[v].step \in {"idle", "list"}
      /\ poll'[u] = p
      /\ \A v \in Studios : v # u => poll'[v] = poll[v]
    BY OnePollMoves DEF Inv
<1>2. s \in Schedules /\ Unsent(u, s) /\ Claimed(u, s)
    BY InHand DEF Inv, Unsent, Claimed
<1>3. sent[s] = 0
    BY <1>2 DEF Inv, HandInv
<1>4. /\ sent' \in [Schedules -> Nat] /\ sent'[s] = 1
      /\ \A r \in Schedules : r # s => sent'[r] = sent[r]
    BY <1>2, <1>3 DEF Inv, TypeOK
<1>5. \A v \in Studios, r \in Schedules : Claimed(v, r)' => Claimed(v, r)
    BY <1>1, <1>2 DEF Claimed
<1>6. \A v \in Studios : Claimed(v, s) => v = u
    BY <1>2 DEF Inv, ClaimInv
<1>7. TypeOK'
    BY <1>1, <1>4 DEF Inv, TypeOK, rows, Rest, PollRecords
<1>8. ClaimInv'
    BY <1>5 DEF Inv, ClaimInv, Claimable, rows
<1>9. ~Claimable(s) /\ note[s] # "shut down"
    BY <1>2, <1>6 DEF Inv, ClaimInv, SentInv
<1>10. SentInv'
    BY <1>4, <1>5, <1>9 DEF Inv, SentInv, Claimable, rows
<1>11. HandInv'
  <2> SUFFICES ASSUME NEW v \in Studios, NEW r \in Schedules
               PROVE  /\ Unsent(v, r)' => sent'[r] = 0
                      /\ poll'[v].of = r /\ poll'[v].step = "mark" => sent'[r] = 1
                      /\ poll'[v].of = r /\ poll'[v].step = "fail" /\ poll'[v].why = "shut down" =>
                            sent'[r] = 0
      BY DEF HandInv
  <2>1. CASE v = u
      BY <1>1, <1>4, <2>1 DEF Unsent
  <2>2. CASE v # u
    <3>1. Claimed(v, r) => r # s
        BY <1>6, <2>2
    <3> QED BY <1>1, <1>4, <2>2, <3>1 DEF Inv, HandInv, Unsent, Claimed
  <2> QED BY <2>1, <2>2
<1> QED BY <1>7, <1>8, <1>10, <1>11 DEF Inv

LEMMA AdmitKeeps ==
    ASSUME Inv, NEW u \in Studios, Admit(u) PROVE Inv'
<1>1. Rest' /\ UNCHANGED rows /\ Claimed(u, poll[u].of) /\ poll[u].step = "admit"
    BY DEF Admit, Inv, TypeOK, Rest, Claimed, Throws
<1>2. CASE Throws(u, "refused")
  <2>1. PICK p : /\ poll' = [poll EXCEPT ![u] = p] /\ WellFormed(p)
                 /\ p.step = "fail" /\ p.of = poll[u].of /\ p.why = "refused"
      BY <1>1, <1>2, PollThrows DEF Inv, Notes
  <2>2. CASE UNCHANGED sent
      BY <1>1, <2>1, <2>2, HandMoves
  <2>3. CASE sent' = [sent EXCEPT ![poll[u].of] = @ + 1]
      BY <1>1, <2>1, <2>3, SendsKeeps
  <2> QED BY <2>2, <2>3 DEF Admit
<1>3. CASE poll' = [poll EXCEPT ![u].step = "mark"] /\ sent' = [sent EXCEPT ![poll[u].of] = @ + 1]
  <2>1. PICK p : /\ poll' = [poll EXCEPT ![u] = p] /\ WellFormed(p)
                 /\ p.step = "mark" /\ p.of = poll[u].of
      BY <1>1, <1>3, PollTurns DEF Inv
  <2> QED BY <1>1, <1>3, <2>1, SendsKeeps
<1> QED BY <1>2, <1>3 DEF Admit

-----------------------------------------------------------------------------
LEMMA ClaimKeeps ==
    ASSUME Inv, NEW u \in Studios, Claim(u) PROVE Inv'
<1> DEFINE s == poll[u].of
<1>1. Rest' /\ UNCHANGED sent /\ s \in Schedules /\ ~Claimed(u, s)
    BY InHand DEF Claim, Inv, TypeOK, Rest, Claimed
<1>2. PICK p : /\ poll' = [poll EXCEPT ![u] = p] /\ WellFormed(p)
               /\ \/ p.step = "send" /\ p.of = s /\ status[s] = "scheduled"
                     /\ Transition(s, "scheduled", "dispatching", "none")
                  \/ p.step \in {"idle", "list"}
  <2>1. Poll("send", s).step = "send" /\ Poll("send", s).of = s
      BY DEF Poll
  <2>2. Poll("list", NoSchedule).step = "list" /\ Idle.step = "idle"
      BY DEF Poll, Idle
  <2>3. \/ poll' = [poll EXCEPT ![u] = Idle]
        \/ poll' = [poll EXCEPT ![u] = Poll("list", NoSchedule)]
        \/ /\ poll' = [poll EXCEPT ![u] = Poll("send", s)] /\ status[s] = "scheduled"
           /\ Transition(s, "scheduled", "dispatching", "none")
      BY DEF Claim
  <2>4. WellFormed(Idle) /\ WellFormed(Poll("list", NoSchedule)) /\ WellFormed(Poll("send", s))
      BY <1>1, PollsAreWellFormed
  <2> QED BY <2>1, <2>2, <2>3, <2>4
<1>3. CASE UNCHANGED rows /\ p.step \in {"idle", "list"}
    BY <1>1, <1>2, <1>3, NothingClaimed
<1>4. CASE status[s] = "scheduled" /\ Transition(s, "scheduled", "dispatching", "none")
  <2>1. /\ status' \in [Schedules -> Statuses] /\ note' \in [Schedules -> Notes]
        /\ status'[s] = "dispatching" /\ note'[s] = "none"
        /\ \A r \in Schedules : r # s => status'[r] = status[r] /\ note'[r] = note[r]
      BY <1>1, <1>4, OneRowMoves DEF Claim, Inv, Statuses, Notes
  <2>2. /\ poll' \in [Studios -> PollRecords]
        /\ \A v \in Studios : poll'[v].of = NoSchedule <=> poll'[v].step \in {"idle", "list"}
        /\ poll'[u] = p
        /\ \A v \in Studios : v # u => poll'[v] = poll[v]
      BY <1>2, OnePollMoves DEF Inv
  <2>3. sent[s] = 0 /\ \A v \in Studios : ~Claimed(v, s)
      BY <1>1, <1>4 DEF Inv, ClaimInv, SentInv, Claimable
  <2>4. \A v \in Studios, r \in Schedules : Claimed(v, r)' => Claimed(v, r) \/ (v = u /\ r = s)
      BY <1>2, <2>2 DEF Claimed
  <2>5. TypeOK'
      BY <1>1, <2>1, <2>2 DEF Inv, TypeOK, Rest, PollRecords
  <2>6. ClaimInv'
      BY <2>1, <2>3, <2>4 DEF Inv, ClaimInv, Claimable
  <2>7. SentInv'
      BY <1>1, <2>1, <2>3, <2>4 DEF Inv, SentInv, Claimable
  <2>8. HandInv'
      BY <1>1, <1>2, <2>2, <2>3 DEF Inv, HandInv, Unsent
  <2> QED BY <2>5, <2>6, <2>7, <2>8 DEF Inv
<1> QED BY <1>2, <1>3, <1>4 DEF Claim, Transition

\* The record of what became of the schedule in hand; the poll that held it
\* lets go of it, or goes on to record a failure.
LEMMA RecordKeeps ==
    ASSUME Inv, NEW u \in Studios, NEW p, WellFormed(p), poll' = [poll EXCEPT ![u] = p],
           NEW s \in Schedules, poll[u].of = s, poll[u].step \in {"mark", "fail"},
           p.step \in {"idle", "list"} \/ (p.step = "fail" /\ p.of = s /\ p.why = "refused"),
           NEW to \in {"dispatched", "failed"}, NEW why \in Notes,
           to = "dispatched" => poll[u].step = "mark" /\ why = "none",
           to = "failed" => /\ poll[u].step = "fail" /\ why = poll[u].why
                            /\ p.step \in {"idle", "list"},
           Transition(s, "dispatching", to, why), UNCHANGED sent, Rest'
    PROVE  Inv'
<1>1. /\ poll' \in [Studios -> PollRecords]
      /\ \A v \in Studios : poll'[v].of = NoSchedule <=> poll'[v].step \in {"idle", "list"}
      /\ poll'[u] = p
      /\ \A v \in Studios : v # u => poll'[v] = poll[v]
    BY OnePollMoves DEF Inv
<1>2. /\ status' \in [Schedules -> Statuses] /\ note' \in [Schedules -> Notes]
      /\ \A r \in Schedules : r # s => status'[r] = status[r] /\ note'[r] = note[r]
      /\ status[s] = "dispatching" => status'[s] = to /\ note'[s] = why
      /\ status[s] # "dispatching" => status'[s] = status[s] /\ note'[s] = note[s]
  <2>1. to \in Statuses
      BY DEF Statuses
  <2>2. status[s] # "dispatching" => UNCHANGED rows
      BY <2>1, OneRowMoves DEF Inv
  <2>3. TypeOK
      BY DEF Inv
  <2>4. status' \in [Schedules -> Statuses] /\ note' \in [Schedules -> Notes]
      BY <2>1, <2>3, OneRowMoves
  <2>5. \A r \in Schedules : r # s => status'[r] = status[r] /\ note'[r] = note[r]
      BY <2>3 DEF TypeOK, Transition, rows
  <2>6. ASSUME status[s] = "dispatching" PROVE status'[s] = to /\ note'[s] = why
      BY <2>3, <2>6 DEF TypeOK, Transition
  <2> QED BY <2>2, <2>4, <2>5, <2>6 DEF rows
<1>3. \A v \in Studios, r \in Schedules : Claimed(v, r)' => Claimed(v, r)
    BY <1>1 DEF Claimed
<1>4. Claimed(u, s) /\ \A v \in Studios : Claimed(v, s) => v = u
    BY DEF Inv, ClaimInv, Claimed
<1>5. TypeOK'
    BY <1>1, <1>2 DEF Inv, TypeOK, Rest, PollRecords
<1>6. ClaimInv'
    BY <1>2, <1>3 DEF Inv, ClaimInv, Claimable
<1>7. to = "dispatched" => sent[s] = 1
    BY DEF Inv, HandInv
<1>8. why = "shut down" => /\ sent[s] = 0 /\ to = "failed"
                           /\ \A v \in Studios : ~Claimed(v, s)'
  <2>1. ASSUME why = "shut down" PROVE sent[s] = 0 /\ to = "failed" /\ p.step \in {"idle", "list"}
      BY <2>1 DEF Inv, HandInv
  <2>2. ASSUME p.step \in {"idle", "list"} PROVE \A v \in Studios : ~Claimed(v, s)'
      BY <1>1, <1>3, <1>4, <2>2 DEF Claimed
  <2> QED BY <2>1, <2>2
<1>9. SentInv'
    BY <1>2, <1>3, <1>7, <1>8 DEF Inv, SentInv, Claimable
<1>10. HandInv'
    BY <1>1 DEF Inv, HandInv, Unsent
<1> QED BY <1>5, <1>6, <1>9, <1>10 DEF Inv

LEMMA MarkKeeps ==
    ASSUME Inv, NEW u \in Studios, Mark(u) PROVE Inv'
<1> DEFINE s == poll[u].of
<1>1. Rest' /\ UNCHANGED sent /\ s \in Schedules /\ Claimed(u, s) /\ poll[u].step = "mark"
    BY InHand DEF Mark, Inv, TypeOK, Rest, Claimed, Throws
<1>2. "none" \in Notes
    BY DEF Notes
<1>3. CASE Throws(u, "refused")
  <2>1. PICK p : /\ poll' = [poll EXCEPT ![u] = p] /\ WellFormed(p)
                 /\ p.step = "fail" /\ p.of = s /\ p.why = "refused"
      BY <1>1, <1>3, PollThrows DEF Inv, Notes
  <2>2. CASE UNCHANGED rows
      BY <1>1, <2>1, <2>2, HandMoves
  <2>3. CASE Transition(s, "dispatching", "dispatched", "none")
      BY <1>1, <1>2, <2>1, <2>3, RecordKeeps
  <2> QED BY <1>3, <2>2, <2>3 DEF Mark
<1>4. CASE /\ poll' = [poll EXCEPT ![u] = Poll("list", NoSchedule)]
           /\ Transition(s, "dispatching", "dispatched", "none")
  <2>1. Poll("list", NoSchedule).step = "list"
      BY DEF Poll
  <2> QED BY <1>1, <1>2, <1>4, <2>1, PollsAreWellFormed, RecordKeeps
<1> QED BY <1>3, <1>4 DEF Mark

LEMMA FailKeeps ==
    ASSUME Inv, NEW u \in Studios, Fail(u) PROVE Inv'
<1> DEFINE s == poll[u].of
<1>1. Rest' /\ UNCHANGED sent /\ s \in Schedules /\ poll[u].step = "fail" /\ poll[u].why \in Notes
    BY InHand DEF Fail, Inv, TypeOK, Rest, PollRecords
<1>2. PICK p : poll' = [poll EXCEPT ![u] = p] /\ WellFormed(p) /\ p.step \in {"idle", "list"}
  <2>1. Poll("list", NoSchedule).step = "list" /\ Idle.step = "idle"
      BY DEF Poll, Idle
  <2>2. \/ poll' = [poll EXCEPT ![u] = Poll("list", NoSchedule)]
        \/ poll' = [poll EXCEPT ![u] = Idle]
      BY DEF Fail
  <2> QED BY <2>1, <2>2, PollsAreWellFormed
<1>3. CASE UNCHANGED rows
    BY <1>1, <1>2, <1>3, NothingClaimed
<1>4. CASE Transition(s, "dispatching", "failed", poll[u].why)
    BY <1>1, <1>2, <1>4, RecordKeeps
<1> QED BY <1>3, <1>4 DEF Fail

-----------------------------------------------------------------------------
\* A Studio that starts may take a schedule out of living hands, and only makes
\* its row a failure.
LEMMA RecoverKeeps ==
    ASSUME Inv, NEW u \in Studios, NEW s \in Schedules, Recover(u, s) PROVE Inv'
<1>1. UNCHANGED <<sent, host, activated, poll, starts, faults>>
      /\ listed' \in [Studios -> SUBSET Schedules]
    BY DEF Recover, Inv, TypeOK
<1>2. "outcome unknown" \in Notes /\ "failed" \in Statuses
    BY DEF Notes, Statuses
<1>3. /\ status' \in [Schedules -> Statuses] /\ note' \in [Schedules -> Notes]
      /\ \A r \in Schedules : r # s => status'[r] = status[r] /\ note'[r] = note[r]
      /\ status[s] = "dispatching" => status'[s] = "failed" /\ note'[s] = "outcome unknown"
      /\ status[s] # "dispatching" => status'[s] = status[s] /\ note'[s] = note[s]
    BY <1>2, OneRowMoves DEF Recover, Inv, rows
<1>4. TypeOK'
    BY <1>1, <1>3 DEF Inv, TypeOK
<1>5. /\ \A r \in Schedules : Claimable(r)' => Claimable(r)
      /\ \A v \in Studios, r \in Schedules : Claimed(v, r)' <=> Claimed(v, r)
  <2>1. \A r \in Schedules : Claimable(r)' => Claimable(r)
      BY <1>3 DEF Claimable
  <2>2. \A v \in Studios, r \in Schedules : Claimed(v, r)' <=> Claimed(v, r)
      BY <1>1 DEF Claimed
  <2> QED BY <2>1, <2>2
<1>6. ClaimInv'
    BY <1>5 DEF Inv, ClaimInv
<1>7. SentInv'
  <2>1. \A r \in Schedules : /\ status'[r] = "dispatched" => status[r] = "dispatched"
                             /\ note'[r] = "shut down" =>
                                  note[r] = "shut down" /\ status'[r] = status[r]
      BY <1>3 DEF Inv, SentInv
  <2> QED BY <1>1, <1>5, <2>1 DEF Inv, SentInv
<1>8. HandInv'
    BY <1>1 DEF Inv, HandInv, Unsent
<1> QED BY <1>4, <1>6, <1>7, <1>8 DEF Inv

\* Steps that leave the rows, the Pets and the polls alone.
LEMMA HostKeeps ==
    ASSUME Inv, UNCHANGED <<rows, sent, poll>>, Rest' PROVE Inv'
<1>1. TypeOK'
    BY DEF Inv, TypeOK, Rest, rows
<1>2. ClaimInv' /\ SentInv' /\ HandInv'
    BY DEF Inv, ClaimInv, SentInv, HandInv, Claimed, Unsent, Claimable, rows
<1> QED BY <1>1, <1>2 DEF Inv

LEMMA LifeKeeps ==
    ASSUME Inv, NEW u \in Studios,
           \/ Start(u) \/ Open(u) \/ Activate(u)
           \/ Shutdown(u) \/ StopBegins(u) \/ StopEnds(u)
    PROVE  Inv'
<1>1. UNCHANGED <<rows, sent, poll>>
    BY DEF Start, Open, Activate, Shutdown, StopBegins, StopEnds
<1>2. {"recovering", "open", "stopping", "draining", "down"} \subseteq Hosts
    BY DEF Hosts
<1>3. /\ host \in [Studios -> Hosts] /\ activated \in [Studios -> BOOLEAN]
      /\ listed \in [Studios -> SUBSET Schedules]
      /\ starts \in [Studios -> Nat] /\ faults \in Nat
    BY DEF Inv, TypeOK
<1>4. ASSUME Start(u) PROVE Rest'
    BY <1>2, <1>3, <1>4 DEF Start, Rest
<1>5. ASSUME Open(u) PROVE Rest'
    BY <1>2, <1>3, <1>5 DEF Open, Rest
<1>6. ASSUME Shutdown(u) PROVE Rest'
    BY <1>2, <1>3, <1>6 DEF Shutdown, Rest
<1>7. ASSUME StopBegins(u) PROVE Rest'
    BY <1>2, <1>3, <1>7 DEF StopBegins, Rest
<1>8. ASSUME Activate(u) PROVE Rest'
    BY <1>3, <1>8 DEF Activate, Rest
<1>9. ASSUME StopEnds(u) PROVE Rest'
    BY <1>2, <1>3, <1>9 DEF StopEnds, Rest
<1> QED BY <1>1, <1>4, <1>5, <1>6, <1>7, <1>8, <1>9, HostKeeps

LEMMA CrashKeeps ==
    ASSUME Inv, NEW u \in Studios, Crash(u) PROVE Inv'
<1>1. Rest' /\ UNCHANGED <<rows, sent>>
    BY DEF Crash, Inv, TypeOK, Rest, Hosts
<1>2. Idle.step = "idle"
    BY DEF Idle, Poll
<1> QED BY <1>1, <1>2, NothingClaimed, PollsAreWellFormed DEF Crash

-----------------------------------------------------------------------------
\* Every step of a Studio, a crash or a new start keeps that agreement.
THEOREM InvNext == Inv /\ [Next]_vars => Inv'
<1> SUFFICES ASSUME Inv, [Next]_vars PROVE Inv'
    OBVIOUS
<1>1. CASE UNCHANGED vars
    BY <1>1, HostKeeps DEF vars, Inv, TypeOK, Rest, rows
<1>2. ASSUME NEW u \in Studios, NEW s \in Schedules, Create(u, s) \/ Cancel(u, s) PROVE Inv'
    BY <1>2, CreateKeeps, CancelKeeps
<1>3. ASSUME NEW u \in Studios, PollStep(u) PROVE Inv'
    BY <1>3, PollBeginsKeeps, ListDueKeeps, ClaimKeeps, SendKeeps, AdmitKeeps, MarkKeeps,
       FailKeeps DEF PollStep
<1>4. ASSUME NEW u \in Studios, RecoverStep(u) PROVE Inv'
    BY <1>4, RecoverKeeps DEF RecoverStep
<1>5. ASSUME NEW u \in Studios,
             Start(u) \/ Open(u) \/ Activate(u) \/ Shutdown(u) \/ StopBegins(u) \/ StopEnds(u)
      PROVE Inv'
    BY <1>5, LifeKeeps
<1>6. ASSUME NEW u \in Studios, Crash(u) PROVE Inv'
    BY <1>6, CrashKeeps
<1> QED BY <1>1, <1>2, <1>3, <1>4, <1>5, <1>6 DEF Next

\* The inductive invariant holds in every reachable state: the
\* schedule rows agree with the polls.
THEOREM InvAlways == Spec => []Inv
BY InvInit, InvNext, PTL DEF Spec

\* The state of the rows, the polls and the Studios is well-typed.
THEOREM SchedulerTypeCorrect == Spec => []TypeOK
BY InvAlways, PTL DEF Inv

\* A schedule reaches its Pet at most once, through crashes, restarts, lost
\* answers and any number of Studios on the database.
THEOREM SentOnce == Spec => []NeverSentTwice
<1>1. Inv => NeverSentTwice
  <2> SUFFICES ASSUME Inv, NEW s \in Schedules PROVE sent[s] <= 1
      BY DEF NeverSentTwice
  <2>1. sent[s] = 0 \/ sent[s] = 1
      BY DEF Inv, SentInv
  <2> QED BY <2>1
<1> QED BY <1>1, InvAlways, PTL

\* A row that says dispatched was sent; one that is scheduled, was cancelled or
\* was refused by a shutdown was not.
THEOREM RowsAreTrue == Spec => []RowsTellTheTruth
<1>1. Inv => RowsTellTheTruth
    BY DEF Inv, SentInv, RowsTellTheTruth, Claimable
<1> QED BY <1>1, InvAlways, PTL
=============================================================================
