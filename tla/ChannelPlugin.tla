--------------------------- MODULE ChannelPlugin ---------------------------
(***************************************************************************)
(* One Channel of the Channel Plugin (plugins/channel/src): who its        *)
(* members are (channelService.ts), and how a Pet comes to run in it       *)
(* (channelPlugin.ts): by a mention in a message that was saved, or on     *)
(* behalf of a schedule or a trigger.  Rows live in the Studio's database, *)
(* a Pet's session in the Host's file; the two agree only by the order in  *)
(* which they are written.  Calls interleave between any two statements,   *)
(* and the process may die there.                                          *)
(***************************************************************************)
EXTENDS Naturals, FiniteSets

CONSTANTS
    Humans, Pets, Founders, \* who may be a member, and who is at first
    Adds, Removes,  \* calls of addMember and removeMember
    Who, Actor,     \* whom such a call is about, and who makes it
    Studio,         \* an actor with Studio authority
    Posts,          \* events that carry a message of a Pet; each may make a run
    Direct,         \* runs asked for by a schedule or a trigger
    Ref, Cause,     \* a post's message, and the run it comes from
    Target,         \* the Pet that runs, for a post the one it mentions
    NoCall,
    MaxCrashes      \* bound

Members == Humans \cup Pets
Changes == Adds \cup Removes
Runs == Posts \cup Direct

ASSUME ChannelAssumption ==
    /\ Humans \cap Pets = {} /\ Founders \subseteq Members /\ Founders \cap Humans # {}
    /\ Adds \cap Removes = {} /\ Posts \cap Direct = {} /\ NoCall \notin Changes \cup Runs
    /\ Who \in [Changes -> Members] /\ Actor \in [Changes -> Members \cup {Studio}]
    /\ Cause \in [Posts -> Direct] /\ Target \in [Runs -> Pets] /\ Studio \notin Members
    /\ IsFiniteSet(Posts) /\ MaxCrashes \in Nat

VARIABLES
    members, lock,  \* rows of channel_members, and the transaction that holds the Channel's row
    change,         \* how far a change of members is
    binding,        \* rows of channel_sessions; a session is named after the run it was allocated for
    messages,       \* rows of channel_messages, by their external reference
    known, saved,   \* the Host's sessions, in memory and in its file
    post, run,      \* how far the record of a post and a run are
    bound,          \* the binding a run has read
    accepted,       \* history: the runs a Pet has accepted, and in which session
    crashes

rows == <<members, binding, messages>>
sessions == <<known, saved>>
calls == <<lock, change, post, run, bound>>
channelVars == <<rows, sessions, calls, accepted, crashes>>

Unbound == [session |-> NoCall, registered |-> FALSE]
Over == {"done", "failed"}
RunSteps == {"none", "member", "reserve", "insert", "resolve", "ensure", "confirm"} \cup Over

ChannelTypeOK ==
    /\ members \subseteq Members /\ lock \in Changes \cup {NoCall}
    /\ change \in [Changes -> {"new", "locked", "write"} \cup Over]
    /\ binding \in [Pets -> [session : Runs \cup {NoCall}, registered : BOOLEAN]]
    /\ messages \subseteq {Ref[p] : p \in Posts}
    /\ known \subseteq Runs /\ saved \subseteq Runs
    /\ post \in [Posts -> {"new", "check", "save", "deliver"} \cup Over]
    /\ run \in [Runs -> RunSteps]
    /\ bound \in [Runs -> [session : Runs \cup {NoCall}, registered : BOOLEAN]]
    /\ accepted \in [Runs -> Runs \cup {NoCall}]
    /\ crashes \in 0..MaxCrashes

-----------------------------------------------------------------------------
\* Members.  A transaction that changes them holds the Channel's row.

\* Bug: the check relies on the transaction alone.
LockNothing(m) ==
    /\ change[m] = "new" /\ change' = [change EXCEPT ![m] = "locked"]
    /\ UNCHANGED <<rows, sessions, lock, post, run, bound, accepted, crashes>>

LockChannel(m) ==
    /\ change[m] = "new" /\ lock = NoCall
    /\ lock' = m /\ change' = [change EXCEPT ![m] = "locked"]
    /\ UNCHANGED <<rows, sessions, post, run, bound, accepted, crashes>>

Manages(actor) == actor = Studio \/ actor \in members
LastHuman(who) == members \cap Humans = {who}

\* The transaction reads: it goes on to its write, finds nothing to do, or throws.
Read(m) ==
    LET there == Who[m] \in members
        to == IF ~Manages(Actor[m]) THEN "failed"
              ELSE IF (m \in Adds) = there THEN "done"
              ELSE IF m \in Removes /\ LastHuman(Who[m]) THEN "failed" ELSE "write"
    IN
    /\ change[m] = "locked"
    /\ change' = [change EXCEPT ![m] = to]
    /\ lock' = IF to # "write" /\ lock = m THEN NoCall ELSE lock
    /\ UNCHANGED <<rows, sessions, post, run, bound, accepted, crashes>>

Write(m) ==
    /\ change[m] = "write" /\ change' = [change EXCEPT ![m] = "done"]
    /\ members' = IF m \in Adds THEN members \cup {Who[m]} ELSE members \ {Who[m]}
    /\ lock' = IF lock = m THEN NoCall ELSE lock
    /\ UNCHANGED <<binding, messages, sessions, post, run, bound, accepted, crashes>>

\* A statement throws, and the transaction is rolled back.
ChangeFails(m) ==
    /\ change[m] \in {"locked", "write"} /\ change' = [change EXCEPT ![m] = "failed"]
    /\ lock' = IF lock = m THEN NoCall ELSE lock
    /\ UNCHANGED <<rows, sessions, post, run, bound, accepted, crashes>>

-----------------------------------------------------------------------------
\* A Pet runs in the Channel: dispatchPet.

Reaches(r, step) == run' = [run EXCEPT ![r] = step]

Ask(r) ==
    /\ r \in Direct /\ run[r] = "none"
    /\ Reaches(r, "member")
    /\ UNCHANGED <<rows, sessions, lock, change, post, bound, accepted, crashes>>

RequireMember(r) ==
    /\ run[r] = "member"
    /\ Reaches(r, IF Target[r] \in members THEN "reserve" ELSE "failed")
    /\ UNCHANGED <<rows, sessions, lock, change, post, bound, accepted, crashes>>

Takes(r, row) == bound' = [bound EXCEPT ![r] = row] /\ Reaches(r, "resolve")

GetSession(r) ==
    /\ run[r] = "reserve"
    /\ IF binding[Target[r]] # Unbound THEN Takes(r, binding[Target[r]])
                                       ELSE Reaches(r, "insert") /\ UNCHANGED bound
    /\ UNCHANGED <<rows, sessions, lock, change, post, accepted, crashes>>

\* Bug: the later reservation replaces the earlier.
ReserveSessionReplacing(r) ==
    LET row == [session |-> r, registered |-> FALSE] IN
    /\ run[r] = "insert"
    /\ binding' = [binding EXCEPT ![Target[r]] = row] /\ Takes(r, row)
    /\ UNCHANGED <<members, messages, sessions, lock, change, post, accepted, crashes>>

\* Whoever reserved first keeps the row; the other takes what is there.
ReserveSession(r) ==
    LET old == binding[Target[r]]
        row == IF old = Unbound THEN [session |-> r, registered |-> FALSE] ELSE old
    IN
    /\ run[r] = "insert"
    /\ binding' = [binding EXCEPT ![Target[r]] = row] /\ Takes(r, row)
    /\ UNCHANGED <<members, messages, sessions, lock, change, post, accepted, crashes>>

\* The Host asks the context provider, which reads binding and members anew.
ResolveContext(r) ==
    /\ run[r] = "resolve"
    /\ Reaches(r, IF binding[Target[r]].session = bound[r].session /\ Target[r] \in members
                  THEN "ensure" ELSE "failed")
    /\ UNCHANGED <<rows, sessions, lock, change, post, bound, accepted, crashes>>

\* The session exists, or is created and the file saved, or that fails; then the
\* Pet accepts, or refuses because it is closing.
EnsureSession(r) ==
    LET s == bound[r].session IN
    /\ run[r] = "ensure"
    /\ s \in known \/ ~bound[r].registered
    /\ known' = known \cup {s} /\ saved' = known'
    /\ \/ Reaches(r, "confirm") /\ accepted' = [accepted EXCEPT ![r] = s]
       \/ Reaches(r, "failed") /\ UNCHANGED accepted
    /\ UNCHANGED <<rows, lock, change, post, bound, crashes>>

\* A statement, the provider or the Pet throws; what was written before stays.
DispatchFails(r) ==
    /\ run[r] \in {"member", "reserve", "insert", "resolve", "ensure"}
    /\ Reaches(r, "failed")
    /\ UNCHANGED <<rows, sessions, lock, change, post, bound, accepted, crashes>>

\* The binding becomes a registered one, and if that fails, so does the call,
\* though the Pet runs.
ConfirmSession(r) ==
    LET p == Target[r] IN
    /\ run[r] = "confirm"
    /\ \/ /\ bound[r].registered \/ binding[p].session = bound[r].session
          /\ binding' = IF bound[r].registered THEN binding
                        ELSE [binding EXCEPT ![p].registered = TRUE]
          /\ Reaches(r, "done")
       \/ ~bound[r].registered /\ Reaches(r, "failed") /\ UNCHANGED binding
    /\ UNCHANGED <<members, messages, sessions, lock, change, post, bound, accepted, crashes>>

-----------------------------------------------------------------------------
\* What a Pet says in its session is its message in the Channel: recordPetMessage.

Goes(p, step) == post' = [post EXCEPT ![p] = step]

\* The event is there once its run is; it may come a second time.
Receive(p) ==
    /\ post[p] = "new" /\ accepted[Cause[p]] # NoCall
    /\ Goes(p, IF binding[Target[Cause[p]]].session = accepted[Cause[p]] THEN "check" ELSE "failed")
    /\ UNCHANGED <<rows, sessions, lock, change, run, bound, accepted, crashes>>

\* postMessage requires its author to be a member.
Check(p) ==
    /\ post[p] = "check"
    /\ Goes(p, IF Target[Cause[p]] \in members THEN "save" ELSE "failed")
    /\ UNCHANGED <<rows, sessions, lock, change, run, bound, accepted, crashes>>

\* Bug: a message that is there already is delivered as well.
AppendMessageAgain(p) ==
    /\ post[p] = "save" /\ Goes(p, "deliver")
    /\ messages' = messages \cup {Ref[p]}
    /\ UNCHANGED <<members, binding, sessions, lock, change, run, bound, accepted, crashes>>

AppendMessage(p) ==
    /\ post[p] = "save"
    /\ Goes(p, IF Ref[p] \in messages THEN "done" ELSE "deliver")
    /\ messages' = messages \cup {Ref[p]}
    /\ UNCHANGED <<members, binding, sessions, lock, change, run, bound, accepted, crashes>>

\* The mentioned Pet runs if it is a member.
Deliver(p) ==
    /\ post[p] = "deliver" /\ Goes(p, "done")
    /\ Reaches(p, IF Target[p] \in members THEN "member" ELSE "failed")
    /\ UNCHANGED <<rows, sessions, lock, change, bound, accepted, crashes>>

RecordFails(p) ==
    /\ post[p] \in {"check", "save", "deliver"} /\ Goes(p, "failed")
    /\ UNCHANGED <<rows, sessions, lock, change, run, bound, accepted, crashes>>

-----------------------------------------------------------------------------
\* What is under way fails, the transaction is rolled back, rows and file stay.
Crash ==
    /\ crashes < MaxCrashes /\ crashes' = crashes + 1
    /\ lock' = NoCall /\ known' = saved
    /\ change' = [m \in Changes |-> IF change[m] \in {"locked", "write"} THEN "failed" ELSE change[m]]
    /\ post' = [p \in Posts |-> IF post[p] \in {"check", "save", "deliver"} THEN "failed" ELSE post[p]]
    /\ run' = [r \in Runs |-> IF run[r] \notin {"none"} \cup Over THEN "failed" ELSE run[r]]
    /\ UNCHANGED <<rows, saved, bound, accepted>>

ChannelInit ==
    /\ members = Founders /\ lock = NoCall /\ change = [m \in Changes |-> "new"]
    /\ binding = [p \in Pets |-> Unbound] /\ messages = {} /\ known = {} /\ saved = {}
    /\ post = [p \in Posts |-> "new"] /\ run = [r \in Runs |-> "none"]
    /\ bound = [r \in Runs |-> Unbound] /\ accepted = [r \in Runs |-> NoCall] /\ crashes = 0

ChangeGoesOn(m) == LockChannel(m) \/ Read(m) \/ Write(m) \/ ChangeFails(m)

RunGoesOn(r) ==
    \/ RequireMember(r) \/ GetSession(r) \/ ReserveSession(r) \/ ResolveContext(r)
    \/ EnsureSession(r) \/ DispatchFails(r) \/ ConfirmSession(r)

PostGoesOn(p) == Check(p) \/ AppendMessage(p) \/ Deliver(p) \/ RecordFails(p)

ChannelNext ==
    \/ \E m \in Changes : ChangeGoesOn(m)
    \/ \E r \in Runs : Ask(r) \/ RunGoesOn(r)
    \/ \E p \in Posts : Receive(p) \/ PostGoesOn(p)
    \/ Crash

ChannelSpec == ChannelInit /\ [][ChannelNext]_channelVars

-----------------------------------------------------------------------------
\* However additions and removals overlap, a Channel that has a human keeps one.
HumanRemains == members \cap Humans # {}

\* Whatever two first runs, failing confirmations and crashes leave behind: every
\* run a Pet accepts in the Channel is in the one session bound to it, and a
\* session that later runs will not ask to create exists, in memory and on disk.
BindingsAreKept ==
    /\ ChannelTypeOK
    /\ \A r \in Runs : accepted[r] # NoCall => accepted[r] = binding[Target[r]].session
    /\ \A p \in Pets : binding[p].registered => binding[p].session \in known \cap saved
    /\ \A r \in Runs : bound[r].registered => bound[r].session \in known

\* A message starts one run of the Pet it mentions at most, after it was saved,
\* however often its event comes and wherever the process dies.
MentionsRunOnce ==
    \A p, q \in Posts : accepted[p] # NoCall =>
        /\ Ref[p] \in messages
        /\ p # q /\ Ref[p] = Ref[q] => accepted[q] = NoCall
=============================================================================
