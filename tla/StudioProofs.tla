---------------------------- MODULE StudioProofs ----------------------------
(***************************************************************************)
(* Proofs about a Studio.  First its core, StudioCore, for any Plugins,    *)
(* hooks, subscribers and events: what the activation and the shutdown     *)
(* between them start, stop and close.  Then its Channel Plugin,           *)
(* ChannelPlugin, for any members, changes, runs, messages and crashes: a  *)
(* Channel keeps a human, a Pet runs in the one session bound to it and a  *)
(* mention runs once.                                                      *)
(***************************************************************************)
EXTENDS StudioCore, ChannelPlugin, TLAPS

\* How many Plugins were called to start: those still to be taken over, those a
\* closer still has to stop and those that have stopped.
Called == Len(started) + Len(left["activation"]) + Len(left["shutdown"]) + Len(stops)

\* The three lists are stretches of the order, two of them turned round.
ListInv ==
    /\ Called <= Len(Order)
    /\ \A i \in 1..Len(started) : started[i] = Order[i]
    /\ \A by \in Closers : \A i \in 1..Len(left[by]) : left[by][i] = Order[Len(left[by]) + 1 - i]
    /\ \A i \in 1..Len(stops) : stops[i] = Order[Called + 1 - i]

\* A Plugin is started, told to stop and stopped as the lists say.
PluginInv ==
    \A i \in 1..Len(Order) :
        /\ plugin[Order[i]].start # "no" <=> i <= Called
        /\ plugin[Order[i]].start = "running" <=> activation = "start" /\ i = next
        /\ plugin[Order[i]].stop = "over" <=> Called - Len(stops) < i /\ i <= Called
        /\ plugin[Order[i]].stop = "running" <=>
              \E by \in Closers : phase[by] = "stop" /\ i = Len(left[by])

\* Of the two closers one comes after the other: the activation's only when no
\* shutdown has begun, shutdown's when the activation has settled.
PhaseInv ==
    /\ activation \in {"rollback", "failed"} <=> phase["activation"] # "idle"
    /\ activation = "failed" <=> phase["activation"] = "over"
    /\ coreStop \in {"stopping", "over"} <=> phase["shutdown"] # "idle"
    /\ coreStop = "over" <=> phase["shutdown"] = "over"
    /\ phase["shutdown"] # "idle" => activation \in {"none", "active", "failed"}
    /\ coreStop # "no" \/ activation \in {"rollback", "failed"} => stopped
    /\ \A by \in Closers :
          /\ phase[by] # "idle" => started = <<>>
          /\ phase[by] = "stop" => left[by] # <<>>
          /\ phase[by] \notin {"plugins", "stop"} => left[by] = <<>>
    /\ (\A by \in Closers : phase[by] = "idle") => stops = <<>>
    /\ activation = "failed" => left["shutdown"] = <<>>
    /\ activation = "none" => Called = 0 /\ next = 1
    /\ activation = "next" => Len(started) = next - 1
    /\ activation = "start" => Len(started) = next

\* What is closed when; past the Plugins' stops none of them can bring it back.
CloseInv ==
    /\ \A by \in Closers : phase[by] \in {"registry", "bus", "storage", "over"} => closed
    /\ closed => CoreOver \/ \E by \in Closers : phase[by] \in {"registry", "bus", "storage"}
    /\ \A by \in Closers : phase[by] \in {"storage", "over"} => bus = "closed"
    /\ phase["activation"] = "over" => phase["shutdown"] \notin {"registry", "bus", "storage"}
    /\ bus = "closed" => \A s \in Subscribers : sub[s] # "active"

\* Only a Plugin that works, from its start to the end of its stop, has anything.
TraceInv ==
    /\ \A s \in Subscribers \cap Plugins : sub[s] = "active" => Works(s)
    /\ \A p \in Plugins : provider[p] = "exposed" => Works(p)
    /\ \A c \in Contributions : joined[c] \in {"waiting", "attached"} => Works(OwnerOf[c])
    /\ \A p \in context : Works(p)

\* What the Host has in hand, and whether it has let anybody use it.
HostInv ==
    /\ init \in {"none", "leased", "building"} => ~stopped
    /\ init \in {"none", "leased", "building"} => coreStop = "no"
    /\ init # "ready" => activation = "none"
    /\ init = "undoing" => coreStop # "no"
    /\ init \in {"releasing", "failed"} => ~stopped \/ coreStop = "over"
    /\ caps = "held" => init \in {"leased", "building", "undoing", "ready"}
    /\ init \in {"none", "leased", "building", "undoing"} => caps \in {"none", "held"}
    /\ caps \in {"releasing", "released"} => init \in {"releasing", "failed"} \/ CoreOver
    /\ hostStop \in {"core", "caps", "over"} => init \in {"none", "ready", "failed"}

CoreInv == TypeOK /\ ListInv /\ PluginInv /\ PhaseInv /\ CloseInv /\ TraceInv /\ HooksAreJoined /\ HostInv

-----------------------------------------------------------------------------
\* The order, and the lists cut from it.

\* The order names every Plugin once.
LEMMA OrderFacts ==
    /\ Order \in Seq(Plugins) /\ Len(Order) \in Nat
    /\ \A i \in 1..Len(Order) : Order[i] \in Plugins
    /\ \A i, j \in 1..Len(Order) : Order[i] = Order[j] => i = j
    /\ \A p \in Plugins : \E i \in 1..Len(Order) : p = Order[i]
  <1>1. Order \in Seq(Plugins) /\ Len(Order) \in Nat /\ DOMAIN Order = 1..Len(Order)
    BY CoreAssumption
  <1>2. \A i, j \in 1..Len(Order) : Order[i] = Order[j] => i = j
    BY <1>1, CoreAssumption DEF IsInjective
  <1> QED BY <1>1, <1>2 DEF Plugins, ToSet

\* A sequence turned round.
LEMMA ReverseFacts ==
    ASSUME NEW S, NEW s \in Seq(S)
    PROVE  /\ Reverse(s) \in Seq(S) /\ Len(Reverse(s)) = Len(s)
           /\ \A i \in 1..Len(s) : Reverse(s)[i] = s[Len(s) + 1 - i]
  <1>1. Len(s) \in Nat /\ \A i \in 1..Len(s) : s[i] \in S /\ Len(s) - i + 1 \in 1..Len(s)
    OBVIOUS
  <1>2. Reverse(s) = [i \in 1..Len(s) |-> s[(Len(s) - i) + 1]]
    BY DEF Reverse
  <1>3. Reverse(s) \in Seq(S)
    BY <1>1, <1>2
  <1> QED BY <1>1, <1>2, <1>3

\* Sums with nothing in them.
LEMMA Sums ==
    /\ \A a, b \in Nat : b = 0 => a + b = a /\ b + a = a
    /\ \A a, b, c, d \in Nat : a + b + c + d = 0 => a = 0
    /\ \A a, b, c, n \in Nat : a > 0 /\ c = a + b /\ c <= n => a \in 1..n /\ a = c - b
OBVIOUS

\* A list without its head.
LEMMA TailFacts ==
    ASSUME NEW S, NEW s \in Seq(S), s # <<>>
    PROVE  /\ Tail(s) \in Seq(S) /\ Len(s) \in Nat /\ Len(s) > 0 /\ Len(Tail(s)) = Len(s) - 1
           /\ \A i \in 1..(Len(s) - 1) : Tail(s)[i] = s[i + 1]
           /\ Head(s) = s[1] /\ Head(s) \in S
OBVIOUS

\* The lengths are numbers.
LEMMA Lengths ==
    ASSUME TypeOK
    PROVE  /\ Len(started) \in Nat /\ Len(stops) \in Nat /\ Called \in Nat
           /\ Len(left["activation"]) \in Nat /\ Len(left["shutdown"]) \in Nat
           /\ started \in Seq(Plugins) /\ stops \in Seq(Plugins)
           /\ \A by \in Closers : left[by] \in Seq(Plugins)
BY DEF TypeOK, Called, Closers

-----------------------------------------------------------------------------
\* Steps that start and stop nothing.

\* The lists and the Plugins, in a step that leaves them alone.
LEMMA ListsStay ==
    ASSUME ListInv, PluginInv, UNCHANGED <<started, left, stops, plugin, next>>,
           activation' = "start" <=> activation = "start",
           \A by \in Closers : phase'[by] = "stop" <=> phase[by] = "stop"
    PROVE  ListInv' /\ PluginInv'
  <1>1. Called' = Called
    BY DEF Called
  <1> QED BY <1>1 DEF ListInv, PluginInv

\* The traces, in a step that leaves the Plugins alone.
LEMMA TracesStay ==
    ASSUME TraceInv, UNCHANGED <<plugin, hooks, context>>,
           \A s \in Subscribers \cap Plugins : sub'[s] = "active" => sub[s] = "active"
    PROVE  TraceInv'
BY DEF TraceInv, Works, hooks

LEMMA HooksStay ==
    ASSUME HooksAreJoined, UNCHANGED hooks
    PROVE  HooksAreJoined'
BY DEF HooksAreJoined, hooks

\* One closer at a time has Plugins to stop or parts of the core to close.
LEMMA OneCloser ==
    ASSUME TypeOK, PhaseInv, NEW by \in Closers, phase[by] \notin {"idle", "over"}
    PROVE  \A other \in Closers \ {by} :
              phase[other] \in {"idle", "over"} /\ left[other] = <<>>
BY DEF PhaseInv, Closers, TypeOK

\* Past its Plugins no closer has left one that works.
LEMMA NobodyWorks ==
    ASSUME CoreInv, NEW by \in Closers, phase[by] \in {"registry", "bus", "storage", "over"}
    PROVE  \A p \in Plugins : ~Works(p)
  <1>1. started = <<>> /\ left["activation"] = <<>> /\ left["shutdown"] = <<>>
    <2>1. TypeOK /\ PhaseInv
      BY DEF CoreInv
    <2>2. by = "activation" \/ by = "shutdown"
      BY DEF Closers
    <2>3. CASE by = "activation"
      BY <2>1, <2>3 DEF PhaseInv, Closers
    <2>4. CASE by = "shutdown"
      BY <2>1, <2>4 DEF PhaseInv, Closers, TypeOK
    <2> QED BY <2>2, <2>3, <2>4
  <1>2. Called = Len(stops) /\ Len(stops) \in Nat
    BY <1>1, Lengths DEF Called, CoreInv
  <1>3. ASSUME NEW i \in 1..Len(Order) PROVE ~Works(Order[i])
    <2>1. plugin[Order[i]].start # "no" <=> i <= Called
      BY DEF CoreInv, PluginInv
    <2>2. plugin[Order[i]].stop = "over" <=> Called - Len(stops) < i /\ i <= Called
      BY DEF CoreInv, PluginInv
    <2> QED BY <1>2, <2>1, <2>2, OrderFacts DEF Works
  <1> QED BY <1>3, OrderFacts

-----------------------------------------------------------------------------
\* The Host's steps: they leave the core alone, or call its shutdown.

Asked == UNCHANGED asking \/ (coreStop = "no" /\ coreStop' = "waiting" /\ stopped' = TRUE)

LEMMA HostKeeps ==
    ASSUME CoreInv, UNCHANGED <<starting, closing, plugin, traffic>>, Asked
    PROVE  ListInv' /\ PluginInv' /\ PhaseInv' /\ CloseInv' /\ TraceInv' /\ HooksAreJoined'
  <1> USE DEF starting, closing, traffic, deliveries
  <1>1. ListInv' /\ PluginInv'
    BY ListsStay DEF CoreInv
  <1>2. PhaseInv'
    <2>1. Called' = Called
      BY DEF Called
    <2>2. UNCHANGED coreStop \/ (coreStop = "no" /\ coreStop' = "waiting")
      BY DEF Asked, asking
    <2>3. stopped => stopped'
      BY DEF Asked, asking
    <2>4. coreStop' # coreStop => stopped'
      BY DEF Asked, asking
    <2> QED BY <2>1, <2>2, <2>3, <2>4 DEF CoreInv, PhaseInv
  <1>3. CloseInv'
    <2>1. CoreOver => CoreOver'
      BY DEF CoreOver, Asked, asking
    <2> QED BY <2>1 DEF CoreInv, CloseInv
  <1>4. TraceInv'
    BY TracesStay DEF CoreInv
  <1>5. HooksAreJoined'
    BY HooksStay DEF CoreInv
  <1> QED BY <1>1, <1>2, <1>3, <1>4, <1>5

\* The state the Host's own invariant reads, of the core.
LEMMA HostStep ==
    ASSUME CoreInv, UNCHANGED <<starting, closing, plugin, traffic>>, Asked, HostInv',
           init' \in InitSteps, caps' \in {"none", "held", "releasing", "released"},
           hostStop' \in {"no", "waiting", "core", "caps", "over"}
    PROVE  CoreInv'
  <1>1. TypeOK'
    <2>1. stopped' \in BOOLEAN /\ coreStop' \in {"no", "waiting", "stopping", "over"}
      BY DEF Asked, asking, CoreInv, TypeOK
    <2> QED BY <2>1 DEF CoreInv, TypeOK, starting, closing, traffic, deliveries, hooks
  <1> QED BY <1>1, HostKeeps DEF CoreInv

LEMMA AcquireStep == ASSUME CoreInv, Acquire PROVE CoreInv'
  <1>1. UNCHANGED <<starting, closing, plugin, traffic>> /\ Asked
    BY DEF Acquire, core, Asked
  <1>2. HostInv'
    BY DEF Acquire, core, asking, starting, CoreInv, HostInv, CoreOver
  <1> QED BY <1>1, <1>2, HostStep DEF Acquire, CoreInv, TypeOK, InitSteps

LEMMA ConfigureStep == ASSUME CoreInv, Configure PROVE CoreInv'
  <1>1. UNCHANGED <<starting, closing, plugin, traffic>> /\ Asked
    BY DEF Configure, core, Asked
  <1>2. HostInv'
    BY DEF Configure, core, asking, starting, CoreInv, HostInv, CoreOver
  <1> QED BY <1>1, <1>2, HostStep DEF Configure, CoreInv, TypeOK, InitSteps

LEMMA BuildStudioStep == ASSUME CoreInv, BuildStudio PROVE CoreInv'
  <1>1. UNCHANGED <<starting, closing, plugin, traffic>> /\ Asked
    BY DEF BuildStudio, CallShutdown, Asked
  <1>2. HostInv'
    BY DEF BuildStudio, CallShutdown, asking, starting, CoreInv, HostInv, CoreOver
  <1> QED BY <1>1, <1>2, HostStep DEF BuildStudio, CoreInv, TypeOK, InitSteps

LEMMA UndoBuildStep == ASSUME CoreInv, UndoBuild PROVE CoreInv'
  <1>1. UNCHANGED <<starting, closing, plugin, traffic>> /\ Asked
    BY DEF UndoBuild, core, Asked
  <1>2. HostInv'
    BY DEF UndoBuild, core, asking, starting, CoreInv, HostInv, CoreOver
  <1> QED BY <1>1, <1>2, HostStep DEF UndoBuild, CoreInv, TypeOK, InitSteps

LEMMA CapsReleasedStep == ASSUME CoreInv, CapsReleased PROVE CoreInv'
  <1>1. UNCHANGED <<starting, closing, plugin, traffic>> /\ Asked
    BY DEF CapsReleased, core, Asked
  <1>2. HostInv'
    BY DEF CapsReleased, core, asking, starting, CoreInv, HostInv, CoreOver, TypeOK, InitSteps
  <1> QED BY <1>1, <1>2, HostStep DEF CapsReleased, CoreInv, TypeOK, InitSteps

LEMMA HostShutdownStep == ASSUME CoreInv, HostShutdown PROVE CoreInv'
  <1>1. UNCHANGED <<starting, closing, plugin, traffic>> /\ Asked
    BY DEF HostShutdown, core, Asked
  <1>2. HostInv'
    BY DEF HostShutdown, core, asking, starting, CoreInv, HostInv, CoreOver
  <1> QED BY <1>1, <1>2, HostStep DEF HostShutdown, CoreInv, TypeOK

LEMMA HostStopsCoreStep == ASSUME CoreInv, HostStopsCore PROVE CoreInv'
  <1>1. UNCHANGED <<starting, closing, plugin, traffic>> /\ Asked
    BY DEF HostStopsCore, CallShutdown, Asked
  <1>2. HostInv'
    BY DEF HostStopsCore, CallShutdown, asking, starting, CoreInv, HostInv, CoreOver
  <1> QED BY <1>1, <1>2, HostStep DEF HostStopsCore, CoreInv, TypeOK

LEMMA HostStopsCapsStep == ASSUME CoreInv, HostStopsCaps PROVE CoreInv'
  <1>1. UNCHANGED <<starting, closing, plugin, traffic>> /\ Asked
    BY DEF HostStopsCaps, core, Asked
  <1>2. HostInv'
    BY DEF HostStopsCaps, core, asking, starting, CoreInv, HostInv, CoreOver
  <1> QED BY <1>1, <1>2, HostStep DEF HostStopsCaps, CoreInv, TypeOK

LEMMA StudioShutdownStep == ASSUME CoreInv, StudioShutdown PROVE CoreInv'
  <1>1. UNCHANGED <<starting, closing, plugin, traffic>> /\ Asked
    BY DEF StudioShutdown, CallShutdown, Asked
  <1>2. HostInv'
    BY DEF StudioShutdown, CallShutdown, host, starting, CoreInv, HostInv, CoreOver
  <1> QED BY <1>1, <1>2, HostStep DEF StudioShutdown, host, CoreInv, TypeOK

-----------------------------------------------------------------------------
\* What the Plugins and the others do with the core.

\* The types of what a step of theirs may change.
TrafficTypes ==
    /\ bus \in {"open", "closing", "closed"}
    /\ sub \in [Subscribers -> {"none", "active", "released"}]
    /\ queue \in [Subscribers -> Seq(Events \cup {Activated})]
    /\ handling \in [Subscribers -> Events \cup {Activated, NoEvent}]
    /\ fresh \subseteq Events
    /\ provider \in [Plugins -> {"none", "exposed", "removed"}]
    /\ joined \in [Contributions -> {"none", "waiting", "attached", "removed"}]
    /\ context \subseteq Plugins

LEMMA TrafficStep ==
    ASSUME CoreInv, UNCHANGED <<host, core, bus>>, TrafficTypes', TraceInv', HooksAreJoined',
           bus = "closed" => \A s \in Subscribers : sub'[s] = "active" => sub[s] = "active"
    PROVE  CoreInv'
  <1> USE DEF core, asking, starting, closing
  <1>1. TypeOK'
    BY DEF CoreInv, TypeOK, TrafficTypes, host
  <1>2. ListInv' /\ PluginInv'
    BY ListsStay DEF CoreInv
  <1>3. PhaseInv'
    <2>1. Called' = Called
      BY DEF Called
    <2> QED BY <2>1 DEF CoreInv, PhaseInv
  <1>4. CloseInv'
    BY DEF CoreInv, CloseInv, CoreOver
  <1>5. HostInv'
    BY DEF CoreInv, HostInv, CoreOver, host
  <1> QED BY <1>1, <1>2, <1>3, <1>4, <1>5 DEF CoreInv

LEMMA SubscribeStep == ASSUME CoreInv, NEW s \in Subscribers, Subscribe(s) PROVE CoreInv'
  <1>1. TrafficTypes'
    BY DEF Subscribe, CoreInv, TypeOK, TrafficTypes, hooks
  <1>2. TraceInv'
    BY DEF Subscribe, MaySubscribe, CoreInv, TypeOK, TraceInv, Works, hooks, core
  <1>3. HooksAreJoined'
    BY HooksStay DEF Subscribe, CoreInv
  <1> QED BY <1>1, <1>2, <1>3, TrafficStep DEF Subscribe

LEMMA UnsubscribeStep == ASSUME CoreInv, NEW s \in Subscribers, Unsubscribe(s) PROVE CoreInv'
  <1>1. TrafficTypes'
    BY DEF Unsubscribe, Release, CoreInv, TypeOK, TrafficTypes, hooks
  <1>2. \A t \in Subscribers : sub'[t] = "active" => sub[t] = "active"
    BY DEF Unsubscribe, Release
  <1>3. TraceInv' /\ HooksAreJoined'
    BY <1>2, TracesStay, HooksStay DEF Unsubscribe, CoreInv, core
  <1> QED BY <1>1, <1>2, <1>3, TrafficStep DEF Unsubscribe

\* An event goes to the end of queues.
LEMMA PublishTypes ==
    ASSUME TypeOK, NEW e \in Events \cup {Activated}, Publish(e)
    PROVE  queue' \in [Subscribers -> Seq(Events \cup {Activated})] /\ UNCHANGED <<bus, sub, handling>>
  <1>1. \A s \in Subscribers : queue[s] \in Seq(Events \cup {Activated})
    BY DEF TypeOK
  <1>2. \A s \in Subscribers : Append(queue[s], e) \in Seq(Events \cup {Activated})
    BY <1>1
  <1> QED BY <1>1, <1>2 DEF Publish

LEMMA NotifyStep == ASSUME CoreInv, NEW e \in Events, Notify(e) PROVE CoreInv'
  <1>1. queue' \in [Subscribers -> Seq(Events \cup {Activated})] /\ UNCHANGED <<bus, sub, handling>>
    BY PublishTypes DEF CoreInv, Notify
  <1>2. TrafficTypes'
    BY <1>1 DEF Notify, CoreInv, TypeOK, TrafficTypes, hooks
  <1>3. TraceInv' /\ HooksAreJoined'
    BY <1>1, TracesStay, HooksStay DEF Notify, CoreInv, core
  <1> QED BY <1>1, <1>2, <1>3, TrafficStep DEF Notify

LEMMA HandleStep == ASSUME CoreInv, NEW s \in Subscribers, Handle(s) PROVE CoreInv'
  <1>1. queue[s] \in Seq(Events \cup {Activated}) /\ queue[s] # <<>>
    BY DEF Handle, CoreInv, TypeOK
  <1>2. Head(queue[s]) \in Events \cup {Activated} /\ Tail(queue[s]) \in Seq(Events \cup {Activated})
    BY <1>1, TailFacts
  <1>3. TrafficTypes'
    BY <1>2 DEF Handle, CoreInv, TypeOK, TrafficTypes, hooks
  <1>4. TraceInv' /\ HooksAreJoined'
    BY TracesStay, HooksStay DEF Handle, CoreInv, core
  <1> QED BY <1>3, <1>4, TrafficStep DEF Handle

LEMMA HandledStep == ASSUME CoreInv, NEW s \in Subscribers, Handled(s) PROVE CoreInv'
  <1>1. TrafficTypes'
    BY DEF Handled, CoreInv, TypeOK, TrafficTypes, hooks
  <1>2. TraceInv' /\ HooksAreJoined'
    BY TracesStay, HooksStay DEF Handled, CoreInv, core
  <1> QED BY <1>1, <1>2, TrafficStep DEF Handled

\* The hooks: what exposing, contributing and taking back keep.
LEMMA ExposeStep == ASSUME CoreInv, NEW p \in Plugins, Expose(p) PROVE CoreInv'
  <1>1. TrafficTypes'
    BY DEF Expose, CoreInv, TypeOK, TrafficTypes, deliveries
  <1>2. TraceInv'
    BY DEF Expose, CoreInv, TypeOK, TraceInv, Works, core, deliveries
  <1>3. HooksAreJoined'
    BY CoreAssumption DEF Expose, CoreInv, TypeOK, HooksAreJoined
  <1> QED BY <1>1, <1>2, <1>3, TrafficStep DEF Expose, deliveries

LEMMA UnexposeStep == ASSUME CoreInv, NEW p \in Plugins, Unexpose(p) PROVE CoreInv'
  <1>1. TrafficTypes'
    BY DEF Unexpose, Detached, CoreInv, TypeOK, TrafficTypes, deliveries
  <1>2. TraceInv'
    BY DEF Unexpose, Detached, CoreInv, TypeOK, TraceInv, Works, core, deliveries
  <1>3. HooksAreJoined'
    BY CoreAssumption DEF Unexpose, Detached, CoreInv, TypeOK, HooksAreJoined
  <1> QED BY <1>1, <1>2, <1>3, TrafficStep DEF Unexpose, deliveries

LEMMA ContributeStep == ASSUME CoreInv, NEW c \in Contributions, Contribute(c) PROVE CoreInv'
  <1>1. TrafficTypes'
    BY DEF Contribute, CoreInv, TypeOK, TrafficTypes, deliveries
  <1>2. TraceInv'
    BY DEF Contribute, CoreInv, TypeOK, TraceInv, Works, core, deliveries
  <1>3. HooksAreJoined'
    BY CoreAssumption DEF Contribute, CoreInv, TypeOK, HooksAreJoined
  <1> QED BY <1>1, <1>2, <1>3, TrafficStep DEF Contribute, deliveries

LEMMA WithdrawStep == ASSUME CoreInv, NEW c \in Contributions, Withdraw(c) PROVE CoreInv'
  <1>1. TrafficTypes'
    BY DEF Withdraw, CoreInv, TypeOK, TrafficTypes, deliveries
  <1>2. TraceInv'
    BY DEF Withdraw, CoreInv, TypeOK, TraceInv, Works, core, deliveries
  <1>3. HooksAreJoined'
    BY DEF Withdraw, CoreInv, TypeOK, HooksAreJoined
  <1> QED BY <1>1, <1>2, <1>3, TrafficStep DEF Withdraw, deliveries

LEMMA ProvideStep == ASSUME CoreInv, NEW p \in Plugins, Provide(p) \/ Unprovide(p) PROVE CoreInv'
  <1>1. UNCHANGED <<host, core, deliveries, hooks>> /\ context' \subseteq context \cup {p} /\ Works(p)
    BY DEF Provide, Unprovide
  <1>2. TrafficTypes'
    BY <1>1 DEF CoreInv, TypeOK, TrafficTypes, deliveries, hooks
  <1>3. TraceInv'
    BY <1>1 DEF CoreInv, TraceInv, Works, core, deliveries, hooks
  <1>4. HooksAreJoined'
    BY <1>1, HooksStay DEF CoreInv
  <1> QED BY <1>1, <1>2, <1>3, <1>4, TrafficStep DEF deliveries

-----------------------------------------------------------------------------
\* The activation.

\* While Plugins are started nobody has begun to stop them.
LEMMA NothingStops ==
    ASSUME CoreInv, activation \in {"next", "start"}
    PROVE  /\ \A by \in Closers : phase[by] = "idle" /\ left[by] = <<>>
           /\ stops = <<>> /\ Called = Len(started) /\ Called \in Nat
           /\ coreStop \notin {"stopping", "over"} /\ ~closed /\ init = "ready"
  <1>1. \A by \in Closers : phase[by] = "idle" /\ left[by] = <<>>
    BY DEF CoreInv, PhaseInv, Closers
  <1>2. stops = <<>>
    BY <1>1 DEF CoreInv, PhaseInv
  <1>3. Called = Len(started) /\ Called \in Nat
    <2>1. Len(left["activation"]) = 0 /\ Len(left["shutdown"]) = 0 /\ Len(stops) = 0
      BY <1>1, <1>2 DEF Closers
    <2>2. Len(started) \in Nat
      BY Lengths DEF CoreInv
    <2> QED BY <2>1, <2>2 DEF Called
  <1>4. coreStop \notin {"stopping", "over"} /\ init = "ready"
    BY <1>1 DEF CoreInv, PhaseInv, HostInv, Closers
  <1>5. ~closed
    BY <1>1, <1>4 DEF CoreInv, CloseInv, CoreOver
  <1> QED BY <1>1, <1>2, <1>3, <1>4, <1>5

LEMMA ActivateStep == ASSUME CoreInv, Activate PROVE CoreInv'
  <1> USE DEF Activate, asking, closing, host
  <1>1. TypeOK'
    BY DEF CoreInv, TypeOK, ActivationSteps, traffic, deliveries, hooks
  <1>2. ListInv' /\ PluginInv'
    BY ListsStay DEF CoreInv
  <1>3. PhaseInv'
    <2>1. Called' = Called /\ Called = 0 /\ next = 1
      BY DEF Called, CoreInv, PhaseInv
    <2>2. /\ Len(started) \in Nat /\ Len(left["activation"]) \in Nat
          /\ Len(left["shutdown"]) \in Nat /\ Len(stops) \in Nat
      BY Lengths DEF CoreInv
    <2>3. Len(started) + Len(left["activation"]) + Len(left["shutdown"]) + Len(stops) = 0
      BY <2>1 DEF Called
    <2>4. Len(started) = 0
      BY <2>2, <2>3, Sums
    <2> QED BY <2>1, <2>4 DEF CoreInv, PhaseInv
  <1>4. CloseInv'
    BY DEF CoreInv, CloseInv, CoreOver, traffic, deliveries
  <1>5. TraceInv' /\ HooksAreJoined'
    BY TracesStay, HooksStay DEF CoreInv, traffic, deliveries
  <1>6. HostInv'
    BY DEF CoreInv, HostInv, CoreOver
  <1> QED BY <1>1, <1>2, <1>3, <1>4, <1>5, <1>6 DEF CoreInv

LEMMA StartNextStep == ASSUME CoreInv, StartNext PROVE CoreInv'
  <1> DEFINE p == Order[next]
  <1> USE DEF StartNext
  <1>1. /\ activation = "next" /\ activation' = "start" /\ next' = next /\ next \in 1..Len(Order)
        /\ started' = Append(started, p) /\ plugin' = [plugin EXCEPT ![p].start = "running"]
        /\ UNCHANGED <<host, asking, closing, traffic>>
    BY DEF CoreInv, TypeOK
  <1>2. /\ \A by \in Closers : phase[by] = "idle" /\ left[by] = <<>>
        /\ stops = <<>> /\ Called = Len(started) /\ Len(started) = next - 1
        /\ started \in Seq(Plugins) /\ p \in Plugins
    BY <1>1, NothingStops, Lengths, OrderFacts DEF CoreInv, PhaseInv
  <1>3. /\ started' \in Seq(Plugins) /\ Len(started') = next /\ started'[next] = p
        /\ \A i \in 1..(next - 1) : started'[i] = started[i]
    BY <1>1, <1>2
  <1>4. Called' = next
    BY <1>1, <1>2, <1>3 DEF Called, closing, Closers
  <1>5. \A q \in Plugins \ {p} : plugin'[q] = plugin[q]
    BY <1>1 DEF CoreInv, TypeOK
  <1>6. plugin'[p].start = "running" /\ plugin'[p].stop = plugin[p].stop
    BY <1>1, <1>2 DEF CoreInv, TypeOK
  <1>7. TypeOK'
    <2>1. plugin' \in [Plugins -> [start : {"no", "running", "failed", "over"}, stop : {"no", "running", "over"}]]
      <3>1. plugin' = [plugin EXCEPT ![p].start = "running"] /\ p \in Plugins
        BY <1>1, <1>2
      <3> HIDE DEF p, StartNext
      <3> QED BY <3>1 DEF CoreInv, TypeOK
    <2> QED
      BY <1>1, <1>3, <2>1
      DEF CoreInv, TypeOK, ActivationSteps, host, asking, closing, traffic, deliveries, hooks
  <1>8. ListInv'
    <2>1. \A i \in 1..Len(started') : started'[i] = Order[i]
      BY <1>1, <1>2, <1>3 DEF CoreInv, ListInv
    <2>2. \A by \in Closers : left'[by] = <<>>
      BY <1>1, <1>2 DEF closing
    <2>3. stops' = <<>> /\ next <= Len(Order)
      BY <1>1, <1>2 DEF closing
    <2>4. Called' <= Len(Order)
      BY <1>4, <2>3
    <2>5. \A by \in Closers : Len(left'[by]) = 0
      BY <2>2
    <2>6. Len(stops') = 0
      BY <2>3
    <2> QED BY <2>1, <2>4, <2>5, <2>6 DEF ListInv
  <1>9. PluginInv'
    <2> SUFFICES ASSUME NEW i \in 1..Len(Order)
                 PROVE  /\ plugin'[Order[i]].start # "no" <=> i <= next
                        /\ plugin'[Order[i]].start = "running" <=> i = next
                        /\ plugin'[Order[i]].stop # "over"
                        /\ plugin'[Order[i]].stop # "running"
      BY <1>1, <1>2, <1>4 DEF PluginInv, closing
    <2>1. /\ plugin[Order[i]].start # "no" <=> i <= next - 1
          /\ plugin[Order[i]].start # "running"
          /\ plugin[Order[i]].stop # "over"
          /\ plugin[Order[i]].stop # "running"
      BY <1>1, <1>2 DEF CoreInv, PluginInv
    <2>2. CASE i = next
      BY <1>6, <2>1, <2>2
    <2>3. CASE i # next
      <3>1. Order[i] \in Plugins \ {p}
        BY <1>1, <2>3, OrderFacts
      <3> QED BY <1>1, <1>5, <2>1, <2>3, <3>1
    <2> QED BY <2>2, <2>3
  <1>10. PhaseInv'
    BY <1>1, <1>2, <1>3 DEF CoreInv, PhaseInv, asking, closing
  <1>11. CloseInv'
    BY <1>1 DEF CoreInv, CloseInv, CoreOver, asking, closing, traffic, deliveries
  <1>12. TraceInv'
    <2>1. \A q \in Plugins : Works(q) => Works(q)'
      BY <1>5, <1>6 DEF Works
    <2> QED BY <1>1, <2>1, CoreAssumption DEF CoreInv, TypeOK, TraceInv, traffic, deliveries, hooks
  <1>13. HooksAreJoined'
    BY <1>1, HooksStay DEF CoreInv, traffic
  <1>14. HostInv'
    BY <1>1, NothingStops DEF CoreInv, HostInv, CoreOver, host, asking
  <1> QED BY <1>7, <1>8, <1>9, <1>10, <1>11, <1>12, <1>13, <1>14 DEF CoreInv

\* Stopping what was started begins: the list changes hands, turned round.
LEMMA TakeOver ==
    ASSUME TypeOK, ListInv, NEW by \in Closers, StopAll(by), \A c \in Closers : left[c] = <<>>
    PROVE  /\ started' = <<>> /\ Called' = Called /\ ListInv'
           /\ left' \in [Closers -> Seq(Plugins)] /\ phase' \in [Closers -> Phases]
           /\ phase'[by] = "plugins" /\ \A c \in Closers \ {by} : phase'[c] = phase[c]
           /\ \A c \in Closers \ {by} : left'[c] = <<>>
  <1>1. /\ started \in Seq(Plugins) /\ Len(started) \in Nat /\ Len(stops) \in Nat
        /\ stops' = stops /\ started' = <<>> /\ left' = [left EXCEPT ![by] = Reverse(started)]
        /\ phase' = [phase EXCEPT ![by] = "plugins"]
    BY Lengths DEF StopAll
  <1>2. /\ Reverse(started) \in Seq(Plugins) /\ Len(Reverse(started)) = Len(started)
        /\ \A i \in 1..Len(started) : Reverse(started)[i] = started[Len(started) + 1 - i]
    BY <1>1, ReverseFacts
  <1>3. /\ left' \in [Closers -> Seq(Plugins)] /\ left'[by] = Reverse(started)
        /\ \A c \in Closers \ {by} : left'[c] = <<>>
    BY <1>1, <1>2 DEF TypeOK
  <1>4. /\ phase' \in [Closers -> Phases] /\ phase'[by] = "plugins"
        /\ \A c \in Closers \ {by} : phase'[c] = phase[c]
    BY <1>1 DEF TypeOK, Phases
  <1>5. Called' = Called
    <2>1. Len(left["activation"]) = 0 /\ Len(left["shutdown"]) = 0
      BY DEF Closers
    <2>2. Len(left'["activation"]) + Len(left'["shutdown"]) = Len(started)
      <3>1. CASE by = "activation"
        <4>0. left'["activation"] = Reverse(started)
          BY <1>3, <3>1
        <4>1. Len(left'["shutdown"]) = 0
          BY <1>3, <3>1 DEF Closers
        <4>2. Len(left'["activation"]) = Len(started)
          BY <1>2, <4>0
        <4>3. Len(started) \in Nat
          BY <1>1
        <4> QED BY <4>1, <4>2, <4>3
      <3>2. CASE by = "shutdown"
        <4>0. left'["shutdown"] = Reverse(started)
          BY <1>3, <3>2
        <4>1. Len(left'["activation"]) = 0
          BY <1>3, <3>2 DEF Closers
        <4>2. Len(left'["shutdown"]) = Len(started)
          BY <1>2, <4>0
        <4>3. Len(started) \in Nat
          BY <1>1
        <4> QED BY <4>1, <4>2, <4>3
      <3> QED BY <3>1, <3>2 DEF Closers
    <2>3. Len(started') = 0
      BY <1>1
    <2>4. Called' = Len(left'["activation"]) + Len(left'["shutdown"]) + Len(stops)
      <3>1. Called' = 0 + Len(left'["activation"]) + Len(left'["shutdown"]) + Len(stops)
        BY <1>1, <2>3 DEF Called
      <3>2. Len(left'["activation"]) \in Nat
        BY <1>3 DEF Closers
      <3> QED BY <3>1, <3>2
    <2>5. Called = Len(started) + Len(stops)
      BY <1>1, <2>1 DEF Called
    <2> QED BY <2>2, <2>4, <2>5
  <1>6. ListInv'
    <2>1. \A i \in 1..Len(left'[by]) : left'[by][i] = Order[Len(left'[by]) + 1 - i]
      <3> SUFFICES ASSUME NEW i \in 1..Len(started)
                   PROVE  Reverse(started)[i] = Order[Len(started) + 1 - i]
        BY <1>2, <1>3
      <3>1. Len(started) + 1 - i \in 1..Len(started)
        BY <1>1
      <3> QED BY <1>2, <3>1 DEF ListInv
    <2>2. \A c \in Closers \ {by} : Len(left'[c]) = 0
      BY <1>3
    <2>3. \A c \in Closers : \A i \in 1..Len(left'[c]) : left'[c][i] = Order[Len(left'[c]) + 1 - i]
      BY <2>1, <2>2
    <2>4. Len(started') = 0
      BY <1>1
    <2> QED BY <1>1, <1>5, <2>3, <2>4 DEF ListInv
  <1> QED BY <1>1, <1>3, <1>4, <1>5, <1>6

LEMMA StartReturnsStep == ASSUME CoreInv, NEW p \in Plugins, StartReturns(p) PROVE CoreInv'
  <1>1. /\ activation = "start" /\ Order[next] = p /\ activation' = "next" /\ next' = next + 1
        /\ plugin' = [plugin EXCEPT ![p].start = "over"]
        /\ UNCHANGED <<host, asking, started, closing, traffic>>
    BY DEF StartReturns, Started
  <1>2. /\ \A by \in Closers : phase[by] = "idle" /\ left[by] = <<>>
        /\ stops = <<>> /\ Called = Len(started) /\ Len(started) = next
    BY <1>1, NothingStops DEF CoreInv, PhaseInv
  <1>3. Called' = Called /\ next \in 1..Len(Order) /\ Called \in Nat
    <2>1. Called' = Called
      BY <1>1 DEF Called, closing
    <2>2. next \in 1..(Len(Order) + 1) /\ next <= Len(Order)
      BY <1>2 DEF CoreInv, ListInv, TypeOK
    <2> QED BY <1>2, <2>1, <2>2, OrderFacts
  <1>4. \A q \in Plugins \ {p} : plugin'[q] = plugin[q]
    BY <1>1 DEF CoreInv, TypeOK
  <1>5. plugin'[p].start = "over" /\ plugin'[p].stop = plugin[p].stop
    BY <1>1 DEF CoreInv, TypeOK
  <1>6. TypeOK'
    <2>1. plugin' \in [Plugins -> [start : {"no", "running", "failed", "over"}, stop : {"no", "running", "over"}]]
      <3>1. [plugin[p] EXCEPT !.start = "over"] \in [start : {"no", "running", "failed", "over"}, stop : {"no", "running", "over"}]
        BY DEF CoreInv, TypeOK
      <3> QED BY <1>1, <3>1 DEF CoreInv, TypeOK
    <2>2. next' \in 1..(Len(Order) + 1)
      <3>1. \A n \in Nat : \A i \in 1..n : i + 1 \in 1..(n + 1)
        OBVIOUS
      <3> QED BY <1>1, <1>3, <3>1, OrderFacts
    <2> QED
      BY <1>1, <2>1, <2>2
      DEF CoreInv, TypeOK, ActivationSteps, host, asking, closing, traffic, deliveries, hooks
  <1>7. ListInv'
    BY <1>1, <1>3 DEF ListInv, CoreInv, closing
  <1>8. PluginInv'
    <2> SUFFICES ASSUME NEW i \in 1..Len(Order)
                 PROVE  /\ plugin'[Order[i]].start # "no" <=> i <= Called
                        /\ plugin'[Order[i]].start # "running"
                        /\ plugin'[Order[i]].stop = "over" <=> Called - Len(stops) < i /\ i <= Called
                        /\ plugin'[Order[i]].stop # "running"
      BY <1>1, <1>2, <1>3 DEF PluginInv, closing
    <2>1. /\ plugin[Order[i]].start # "no" <=> i <= Called
          /\ plugin[Order[i]].start = "running" <=> i = next
          /\ plugin[Order[i]].stop = "over" <=> Called - Len(stops) < i /\ i <= Called
          /\ plugin[Order[i]].stop # "running"
      BY <1>1, <1>2 DEF CoreInv, PluginInv
    <2>2. CASE i = next
      BY <1>1, <1>2, <1>5, <2>1, <2>2
    <2>3. CASE i # next
      <3>1. Order[i] \in Plugins \ {p}
        BY <1>1, <1>3, <2>3, OrderFacts
      <3> QED BY <1>4, <2>1, <2>3, <3>1
    <2> QED BY <2>2, <2>3
  <1>9. PhaseInv'
    BY <1>1, <1>2, <1>3 DEF CoreInv, PhaseInv, asking, closing
  <1>10. CloseInv'
    BY <1>1 DEF CoreInv, CloseInv, CoreOver, asking, closing, traffic, deliveries
  <1>11. TraceInv'
    <2>1. \A q \in Plugins : Works(q) => Works(q)'
      BY <1>4, <1>5 DEF Works
    <2> QED BY <1>1, <2>1, CoreAssumption DEF CoreInv, TypeOK, TraceInv, traffic, deliveries, hooks
  <1>12. HooksAreJoined'
    BY <1>1, HooksStay DEF CoreInv, traffic
  <1>13. HostInv'
    BY <1>1, NothingStops DEF CoreInv, HostInv, CoreOver, host, asking
  <1> QED BY <1>6, <1>7, <1>8, <1>9, <1>10, <1>11, <1>12, <1>13 DEF CoreInv

\* The activation gives up, with the Plugin it was starting or before the next.
LEMMA RollBackStep ==
    ASSUME CoreInv, activation \in {"next", "start"}, RollBack, UNCHANGED <<host, next, coreStop, traffic>>,
           plugin' \in [Plugins -> [start : {"no", "running", "failed", "over"}, stop : {"no", "running", "over"}]],
           \A q \in Plugins : /\ plugin'[q].start # "no" <=> plugin[q].start # "no"
                             /\ plugin'[q].start # "running" /\ plugin'[q].stop = plugin[q].stop
    PROVE  CoreInv'
  <1>1. /\ activation' = "rollback" /\ stopped' /\ UNCHANGED <<closed, stops>>
        /\ StopAll("activation") /\ "activation" \in Closers /\ "shutdown" \in Closers
    BY DEF RollBack, StopAll, Closers
  <1>2. /\ \A by \in Closers : phase[by] = "idle" /\ left[by] = <<>>
        /\ stops = <<>> /\ coreStop \notin {"stopping", "over"} /\ ~closed /\ init = "ready"
    BY NothingStops
  <1>3. /\ started' = <<>> /\ Called' = Called /\ ListInv'
        /\ left' \in [Closers -> Seq(Plugins)] /\ phase' \in [Closers -> Phases]
        /\ phase'["activation"] = "plugins" /\ phase'["shutdown"] = "idle" /\ left'["shutdown"] = <<>>
    BY <1>1, <1>2, TakeOver DEF CoreInv
  <1>4. TypeOK'
    <2>1. started' \in Seq(Plugins) /\ stopped' = TRUE
      BY <1>3 DEF RollBack
    <2> QED
      BY <1>1, <1>3, <2>1
      DEF CoreInv, TypeOK, ActivationSteps, host, traffic, deliveries, hooks
  <1>5. PluginInv'
    <2> SUFFICES ASSUME NEW i \in 1..Len(Order)
                 PROVE  /\ plugin'[Order[i]].start # "no" <=> i <= Called
                        /\ plugin'[Order[i]].start # "running"
                        /\ plugin'[Order[i]].stop = "over" <=> Called - Len(stops) < i /\ i <= Called
                        /\ plugin'[Order[i]].stop # "running"
      BY <1>1, <1>3 DEF PluginInv, Closers
    <2> QED BY <1>2, OrderFacts DEF CoreInv, PluginInv
  <1>6. PhaseInv'
    BY <1>1, <1>2, <1>3 DEF CoreInv, PhaseInv, Closers
  <1>7. CloseInv'
    BY <1>1, <1>2, <1>3 DEF CoreInv, CloseInv, traffic, deliveries, Closers
  <1>8. TraceInv'
    <2>1. \A q \in Plugins : Works(q) => Works(q)'
      BY DEF Works
    <2> QED BY <2>1, CoreAssumption DEF CoreInv, TypeOK, TraceInv, traffic, deliveries, hooks
  <1>9. HooksAreJoined'
    BY HooksStay DEF CoreInv, traffic
  <1>10. HostInv'
    BY <1>1, <1>2 DEF CoreInv, HostInv, CoreOver, host
  <1> QED BY <1>3, <1>4, <1>5, <1>6, <1>7, <1>8, <1>9, <1>10 DEF CoreInv

LEMMA RefuseNextStep == ASSUME CoreInv, RefuseNext PROVE CoreInv'
  <1>1. \A q \in Plugins : plugin[q].start # "running"
    BY OrderFacts DEF RefuseNext, CoreInv, PluginInv
  <1> QED BY <1>1, RollBackStep DEF RefuseNext, CoreInv, TypeOK

LEMMA StartFailsStep == ASSUME CoreInv, NEW p \in Plugins, StartFails(p) PROVE CoreInv'
  <1>1. PICK how \in {"failed", "over"} :
            /\ activation = "start" /\ Order[next] = p /\ plugin' = [plugin EXCEPT ![p].start = how]
            /\ RollBack /\ UNCHANGED <<host, next, coreStop, traffic>>
    BY DEF StartFails, Started
  <1>2. plugin[p] \in [start : {"no", "running", "failed", "over"}, stop : {"no", "running", "over"}]
    BY DEF CoreInv, TypeOK
  <1>3. [plugin[p] EXCEPT !.start = how]
            \in [start : {"no", "running", "failed", "over"}, stop : {"no", "running", "over"}]
    BY <1>1, <1>2
  <1>4. plugin' \in [Plugins -> [start : {"no", "running", "failed", "over"}, stop : {"no", "running", "over"}]]
    BY <1>1, <1>3 DEF CoreInv, TypeOK
  <1>5. /\ plugin'[p].start = how /\ plugin'[p].stop = plugin[p].stop
        /\ \A q \in Plugins \ {p} : plugin'[q] = plugin[q]
    BY <1>1, <1>2 DEF CoreInv, TypeOK
  <1>6. \A q \in Plugins : plugin[q].start = "running" <=> q = p
    <2>1. next \in 1..Len(Order)
      <3>1. next \in 1..(Len(Order) + 1) /\ Called = next /\ Called <= Len(Order)
        BY <1>1, NothingStops DEF CoreInv, TypeOK, PhaseInv, ListInv
      <3> QED BY <3>1, OrderFacts
    <2>2. \A i \in 1..Len(Order) : plugin[Order[i]].start = "running" <=> i = next
      BY <1>1 DEF CoreInv, PluginInv
    <2>3. ASSUME NEW i \in 1..Len(Order) PROVE plugin[Order[i]].start = "running" <=> Order[i] = p
      <3>1. Order[i] = Order[next] <=> i = next
        BY <2>1, OrderFacts
      <3> QED BY <1>1, <2>2, <3>1
    <2> TAKE q \in Plugins
    <2>4. PICK i \in 1..Len(Order) : q = Order[i]
      BY OrderFacts
    <2> QED BY <2>3, <2>4
  <1> QED BY <1>1, <1>4, <1>5, <1>6, RollBackStep

LEMMA ActivatesStep == ASSUME CoreInv, Activates PROVE CoreInv'
  <1>1. /\ activation = "next" /\ activation' = "active"
        /\ UNCHANGED <<host, asking, next, started, closing, plugin, fresh, hooks, context>>
        /\ Publish(Activated)
    BY DEF Activates
  <1>2. queue' \in [Subscribers -> Seq(Events \cup {Activated})] /\ UNCHANGED <<bus, sub, handling>>
    BY <1>1, PublishTypes DEF CoreInv
  <1>3. TypeOK'
    BY <1>1, <1>2 DEF CoreInv, TypeOK, ActivationSteps, host, asking, closing, hooks
  <1>4. ListInv' /\ PluginInv'
    BY <1>1, ListsStay DEF CoreInv, closing
  <1>5. PhaseInv'
    <2>1. Called' = Called
      BY <1>1 DEF Called, closing
    <2> QED BY <1>1, <2>1, NothingStops DEF CoreInv, PhaseInv, asking, closing
  <1>6. CloseInv'
    BY <1>1, <1>2 DEF CoreInv, CloseInv, CoreOver, asking, closing
  <1>7. TraceInv' /\ HooksAreJoined'
    BY <1>1, <1>2, TracesStay, HooksStay DEF CoreInv
  <1>8. HostInv'
    BY <1>1, NothingStops DEF CoreInv, HostInv, CoreOver, host, asking
  <1> QED BY <1>3, <1>4, <1>5, <1>6, <1>7, <1>8 DEF CoreInv

LEMMA ShutdownProceedsStep == ASSUME CoreInv, ShutdownProceeds PROVE CoreInv'
  <1>1. /\ coreStop = "waiting" /\ coreStop' = "stopping" /\ activation \in {"none", "active", "failed"}
        /\ StopAll("shutdown") /\ UNCHANGED <<closed, stops>>
        /\ UNCHANGED <<host, stopped, activation, next, plugin, traffic>>
        /\ "activation" \in Closers /\ "shutdown" \in Closers
    BY DEF ShutdownProceeds, StopAll, Closers
  <1>2. /\ phase["shutdown"] = "idle" /\ phase["activation"] \in {"idle", "over"}
        /\ \A c \in Closers : left[c] = <<>>
    BY <1>1 DEF CoreInv, PhaseInv, Closers
  <1>3. /\ started' = <<>> /\ Called' = Called /\ ListInv'
        /\ left' \in [Closers -> Seq(Plugins)] /\ phase' \in [Closers -> Phases]
        /\ phase'["shutdown"] = "plugins" /\ phase'["activation"] = phase["activation"]
        /\ left'["activation"] = <<>>
    BY <1>1, <1>2, TakeOver DEF CoreInv
  <1>4. activation = "failed" => started = <<>>
    BY <1>1 DEF CoreInv, PhaseInv
  <1>5. activation = "failed" => left'["shutdown"] = <<>>
    <2> HAVE activation = "failed"
    <2>1. left'["shutdown"] = Reverse(started) /\ Len(Reverse(started)) = Len(started)
      BY <1>1, ReverseFacts, Lengths DEF StopAll, CoreInv, TypeOK
    <2>2. Len(left'["shutdown"]) = 0 /\ left'["shutdown"] \in Seq(Plugins)
      BY <1>1, <1>3, <1>4, <2>1
    <2> QED BY <2>2
  <1>6. TypeOK'
    BY <1>1, <1>3 DEF CoreInv, TypeOK, host, traffic, deliveries, hooks
  <1>7. PluginInv'
    BY <1>1, <1>2, <1>3 DEF CoreInv, PluginInv, Closers
  <1>8. PhaseInv'
    BY <1>1, <1>2, <1>3, <1>5 DEF CoreInv, PhaseInv, Closers
  <1>9. CloseInv'
    BY <1>1, <1>2, <1>3 DEF CoreInv, CloseInv, CoreOver, traffic, deliveries, Closers
  <1>10. TraceInv' /\ HooksAreJoined'
    BY <1>1, TracesStay, HooksStay DEF CoreInv, traffic, deliveries
  <1>11. HostInv'
    BY <1>1 DEF CoreInv, HostInv, CoreOver, host
  <1> QED BY <1>3, <1>6, <1>7, <1>8, <1>9, <1>10, <1>11 DEF CoreInv

-----------------------------------------------------------------------------
\* The closers.

\* A Plugin's stop is recorded.
LEMMA StopRecorded ==
    ASSUME TypeOK, NEW p \in Plugins, NEW how \in {"no", "running", "over"},
           plugin' = [plugin EXCEPT ![p].stop = how]
    PROVE  /\ plugin' \in [Plugins -> [start : {"no", "running", "failed", "over"},
                                      stop : {"no", "running", "over"}]]
           /\ plugin'[p].stop = how /\ plugin'[p].start = plugin[p].start
           /\ \A q \in Plugins \ {p} : plugin'[q] = plugin[q]
  <1>1. plugin[p] \in [start : {"no", "running", "failed", "over"}, stop : {"no", "running", "over"}]
    BY DEF TypeOK
  <1>2. [plugin[p] EXCEPT !.stop = how]
            \in [start : {"no", "running", "failed", "over"}, stop : {"no", "running", "over"}]
    BY <1>1
  <1> QED BY <1>1, <1>2 DEF TypeOK

\* A closer that has Plugins to stop has what is left of the order.
LEMMA LeftFacts ==
    ASSUME CoreInv, NEW by \in Closers, left[by] # <<>>
    PROVE  /\ left[by] \in Seq(Plugins) /\ Len(left[by]) \in 1..Len(Order)
           /\ Head(left[by]) = Order[Len(left[by])] /\ Head(left[by]) \in Plugins
           /\ Len(left[by]) = Called - Len(stops) /\ Len(stops) \in Nat /\ Called \in Nat
           /\ Called <= Len(Order)
           /\ \A other \in Closers \ {by} : phase[other] \in {"idle", "over"} /\ left[other] = <<>>
           /\ started = <<>> /\ activation \notin {"none", "next", "start"}
  <1>1. phase[by] \in {"plugins", "stop"}
    BY DEF CoreInv, PhaseInv
  <1>2. \A other \in Closers \ {by} : phase[other] \in {"idle", "over"} /\ left[other] = <<>>
    BY <1>1, OneCloser DEF CoreInv
  <1>3. started = <<>>
    BY <1>1 DEF CoreInv, PhaseInv
  <1>4. /\ left[by] \in Seq(Plugins) /\ Len(left[by]) \in Nat /\ Len(left[by]) > 0
        /\ Head(left[by]) = left[by][1] /\ Head(left[by]) \in Plugins
    <2>1. left[by] \in Seq(Plugins)
      BY DEF CoreInv, TypeOK
    <2> QED BY <2>1, TailFacts
  <1>5. Len(stops) \in Nat /\ Called \in Nat /\ Called <= Len(Order)
    BY Lengths DEF CoreInv, ListInv
  <1>6. Called = Len(left[by]) + Len(stops)
    <2>1. Len(started) = 0
      BY <1>3
    <2>2. CASE by = "activation"
      <3>1. Len(left["shutdown"]) = 0
        BY <1>2, <2>2 DEF Closers
      <3>2. Called = 0 + Len(left["activation"]) + 0 + Len(stops)
        BY <2>1, <3>1 DEF Called
      <3> QED BY <1>4, <1>5, <2>2, <3>2
    <2>3. CASE by = "shutdown"
      <3>1. Len(left["activation"]) = 0
        BY <1>2, <2>3 DEF Closers
      <3>2. Called = 0 + 0 + Len(left["shutdown"]) + Len(stops)
        BY <2>1, <3>1 DEF Called
      <3> QED BY <1>4, <1>5, <2>3, <3>2
    <2> QED BY <2>2, <2>3 DEF Closers
  <1>7. Len(left[by]) \in 1..Len(Order) /\ Len(left[by]) = Called - Len(stops)
    <2>1. Len(Order) \in Nat
      BY OrderFacts
    <2> QED BY <1>4, <1>5, <1>6, <2>1, Sums
  <1>8. Head(left[by]) = Order[Len(left[by])]
    <2>1. 1 \in 1..Len(left[by]) /\ Len(left[by]) + 1 - 1 = Len(left[by])
      BY <1>4
    <2> QED BY <1>4, <2>1 DEF CoreInv, ListInv
  <1>9. activation \notin {"none", "next", "start"}
    <2>1. activation \notin {"next", "start"}
      BY <1>1, NothingStops
    <2>2. activation # "none"
      BY <1>4, <1>5, <1>6 DEF CoreInv, PhaseInv
    <2> QED BY <2>1, <2>2
  <1> QED BY <1>2, <1>3, <1>4, <1>5, <1>7, <1>8, <1>9

LEMMA StopNextStep == ASSUME CoreInv, NEW by \in Closers, StopNext(by) PROVE CoreInv'
  <1> DEFINE p == Head(left[by])
             n == Len(left[by])
  <1>1. /\ phase[by] = "plugins" /\ left[by] # <<>> /\ sub' = Release({p})
        /\ plugin' = [plugin EXCEPT ![p].stop = "running"] /\ phase' = [phase EXCEPT ![by] = "stop"]
        /\ UNCHANGED <<host, asking, starting, closed, left, stops, bus, queue, handling, fresh,
                       hooks, context>>
    BY DEF StopNext
  <1>2. /\ n \in 1..Len(Order) /\ p = Order[n] /\ p \in Plugins
        /\ n = Called - Len(stops) /\ Len(stops) \in Nat /\ Called \in Nat
        /\ \A other \in Closers \ {by} : phase[other] \in {"idle", "over"} /\ left[other] = <<>>
    BY <1>1, LeftFacts
  <1>3. /\ phase' \in [Closers -> Phases] /\ phase'[by] = "stop"
        /\ \A other \in Closers \ {by} : phase'[other] = phase[other]
    BY <1>1 DEF CoreInv, TypeOK, Phases
  <1>4. plugin' \in [Plugins -> [start : {"no", "running", "failed", "over"}, stop : {"no", "running", "over"}]]
    BY <1>1, <1>2, StopRecorded DEF CoreInv
  <1>5. /\ plugin'[p].stop = "running" /\ plugin'[p].start = plugin[p].start
        /\ \A q \in Plugins \ {p} : plugin'[q] = plugin[q]
    BY <1>1, <1>2, StopRecorded DEF CoreInv
  <1>6. \A s \in Subscribers : sub'[s] = "active" => sub[s] = "active"
    BY <1>1 DEF Release
  <1>7. TypeOK'
    <2>1. sub' \in [Subscribers -> {"none", "active", "released"}]
      BY <1>1 DEF Release, CoreInv, TypeOK
    <2> QED BY <1>1, <1>3, <1>4, <2>1 DEF CoreInv, TypeOK, host, asking, starting, hooks
  <1>8. Called' = Called
    BY <1>1 DEF Called, starting
  <1>9. ListInv'
    BY <1>1, <1>8 DEF CoreInv, ListInv, starting
  <1>10. PluginInv'
    <2> SUFFICES ASSUME NEW i \in 1..Len(Order)
                 PROVE  /\ plugin'[Order[i]].start # "no" <=> i <= Called
                        /\ plugin'[Order[i]].start = "running" <=> activation = "start" /\ i = next
                        /\ plugin'[Order[i]].stop = "over" <=> Called - Len(stops) < i /\ i <= Called
                        /\ plugin'[Order[i]].stop = "running" <=> i = n
      BY <1>1, <1>2, <1>3, <1>8 DEF PluginInv, starting
    <2>1. /\ plugin[Order[i]].start # "no" <=> i <= Called
          /\ plugin[Order[i]].start = "running" <=> activation = "start" /\ i = next
          /\ plugin[Order[i]].stop = "over" <=> Called - Len(stops) < i /\ i <= Called
          /\ plugin[Order[i]].stop # "running"
      BY <1>1, <1>2 DEF CoreInv, PluginInv
    <2>2. CASE i = n
      BY <1>2, <1>5, <2>1, <2>2
    <2>3. CASE i # n
      <3>1. Order[i] \in Plugins \ {p}
        BY <1>2, <2>3, OrderFacts
      <3> QED BY <1>5, <2>1, <2>3, <3>1
    <2> QED BY <2>2, <2>3
  <1>11. PhaseInv'
    BY <1>1, <1>2, <1>3, <1>8 DEF CoreInv, PhaseInv, asking, starting, Closers
  <1>12. CloseInv'
    BY <1>1, <1>3, <1>6 DEF CoreInv, CloseInv, CoreOver, asking, starting, Closers
  <1>13. TraceInv'
    <2>1. \A q \in Plugins : Works(q) => Works(q)'
      BY <1>5 DEF Works
    <2> QED BY <1>1, <1>6, <2>1, CoreAssumption DEF CoreInv, TypeOK, TraceInv, hooks
  <1>14. HooksAreJoined' /\ HostInv'
    BY <1>1, HooksStay DEF CoreInv, HostInv, CoreOver, host, asking, starting
  <1> QED BY <1>7, <1>9, <1>10, <1>11, <1>12, <1>13, <1>14 DEF CoreInv

\* What a Plugin that has stopped had joined and exposed is gone, on both sides.
LEMMA ReleaseHooksFacts ==
    ASSUME TypeOK, HooksAreJoined, NEW p \in Plugins, ReleaseHooks(p)
    PROVE  /\ provider' \in [Plugins -> {"none", "exposed", "removed"}]
           /\ joined' \in [Contributions -> {"none", "waiting", "attached", "removed"}]
           /\ provider'[p] # "exposed" /\ \A q \in Plugins \ {p} : provider'[q] = provider[q]
           /\ \A c \in Contributions : joined'[c] \in {"waiting", "attached"} =>
                 OwnerOf[c] # p /\ joined[c] \in {"waiting", "attached"}
           /\ HooksAreJoined'
  <1>1. /\ provider' \in [Plugins -> {"none", "exposed", "removed"}]
        /\ provider'[p] # "exposed" /\ \A q \in Plugins \ {p} : provider'[q] = provider[q]
    BY DEF TypeOK, ReleaseHooks
  <1>2. joined' \in [Contributions -> {"none", "waiting", "attached", "removed"}]
    BY DEF TypeOK, ReleaseHooks, Detached
  <1>3. \A c \in Contributions : joined'[c] \in {"waiting", "attached"} =>
           /\ OwnerOf[c] # p /\ joined[c] \in {"waiting", "attached"}
           /\ IF TargetOf[c] = p THEN joined'[c] = "waiting" ELSE joined'[c] = joined[c]
    BY DEF TypeOK, ReleaseHooks, Detached
  <1>4. HooksAreJoined'
    BY <1>1, <1>3, CoreAssumption DEF HooksAreJoined
  <1> QED BY <1>1, <1>2, <1>3, <1>4

\* One Plugin fewer to stop, one more that has stopped.
LEMMA OneFewer ==
    ASSUME CoreInv, NEW by \in Closers, left[by] # <<>>, started' = started,
           left' = [left EXCEPT ![by] = Tail(@)], stops' = Append(stops, Head(left[by]))
    PROVE  /\ left' \in [Closers -> Seq(Plugins)] /\ stops' \in Seq(Plugins)
           /\ Called' = Called /\ ListInv' /\ Len(stops') = Len(stops) + 1
           /\ \A c \in Closers \ {by} : left'[c] = left[c]
  <1> DEFINE n == Len(left[by])
  <1>1. /\ left[by] \in Seq(Plugins) /\ n \in 1..Len(Order)
        /\ Head(left[by]) = Order[n] /\ Head(left[by]) \in Plugins
        /\ n = Called - Len(stops) /\ Len(stops) \in Nat /\ Called \in Nat
        /\ Called <= Len(Order) /\ Len(Order) \in Nat /\ started = <<>>
        /\ stops \in Seq(Plugins)
    BY LeftFacts, OrderFacts DEF CoreInv, TypeOK
  <1>2. /\ Tail(left[by]) \in Seq(Plugins) /\ Len(Tail(left[by])) = n - 1
        /\ \A i \in 1..(n - 1) : Tail(left[by])[i] = left[by][i + 1]
    BY <1>1, TailFacts
  <1>3. /\ left' \in [Closers -> Seq(Plugins)] /\ left'[by] = Tail(left[by])
        /\ \A c \in Closers \ {by} : left'[c] = left[c]
    BY <1>2 DEF CoreInv, TypeOK
  <1>4. /\ stops' \in Seq(Plugins) /\ Len(stops') = Len(stops) + 1 /\ stops'[Len(stops) + 1] = Order[n]
        /\ \A i \in 1..Len(stops) : stops'[i] = stops[i]
    BY <1>1
  <1>5. Called' = Called
    <2>1. \A c \in Closers \ {by} : Len(left[c]) = 0 /\ Len(left'[c]) = 0
      BY <1>3, LeftFacts
    <2>2. Len(started') = 0 /\ Len(started) = 0
      BY <1>1
    <2>3. Len(left'[by]) = n - 1
      BY <1>2, <1>3
    <2>4. CASE by = "activation"
      <3>1. Len(left["shutdown"]) = 0 /\ Len(left'["shutdown"]) = 0
        BY <2>1, <2>4 DEF Closers
      <3>2. Called' = 0 + (n - 1) + 0 + (Len(stops) + 1)
        BY <1>4, <2>2, <2>3, <2>4, <3>1 DEF Called
      <3> QED BY <1>1, <3>2
    <2>5. CASE by = "shutdown"
      <3>1. Len(left["activation"]) = 0 /\ Len(left'["activation"]) = 0
        BY <2>1, <2>5 DEF Closers
      <3>2. Called' = 0 + 0 + (n - 1) + (Len(stops) + 1)
        BY <1>4, <2>2, <2>3, <2>5, <3>1 DEF Called
      <3> QED BY <1>1, <3>2
    <2> QED BY <2>4, <2>5 DEF Closers
  <1>6. ListInv'
    <2>1. ASSUME NEW i \in 1..(n - 1) PROVE Tail(left[by])[i] = Order[(n - 1) + 1 - i]
      <3>1. i + 1 \in 1..n /\ n + 1 - (i + 1) = (n - 1) + 1 - i
        BY <1>1
      <3>2. left[by][i + 1] = Order[n + 1 - (i + 1)]
        BY <3>1 DEF CoreInv, ListInv
      <3> QED BY <1>2, <3>1, <3>2
    <2>2. \A c \in Closers : \A i \in 1..Len(left'[c]) : left'[c][i] = Order[Len(left'[c]) + 1 - i]
      <3> SUFFICES ASSUME NEW c \in Closers, NEW i \in 1..Len(left'[c])
                   PROVE  left'[c][i] = Order[Len(left'[c]) + 1 - i]
        OBVIOUS
      <3>1. CASE c = by
        BY <1>2, <1>3, <2>1, <3>1
      <3>2. CASE c # by
        BY <1>3, <3>2 DEF CoreInv, ListInv
      <3> QED BY <3>1, <3>2
    <2>3. ASSUME NEW i \in 1..(Len(stops) + 1) PROVE stops'[i] = Order[Called + 1 - i]
      <3>1. CASE i = Len(stops) + 1
        <4>1. Called + 1 - i = n
          BY <1>1, <3>1
        <4> QED BY <1>4, <3>1, <4>1
      <3>2. CASE i # Len(stops) + 1
        <4>1. i \in 1..Len(stops)
          BY <1>1, <3>2
        <4> QED BY <1>4, <4>1 DEF CoreInv, ListInv
      <3> QED BY <3>1, <3>2
    <2>4. Len(started') = 0
      BY <1>1
    <2>5. \A i \in 1..Len(stops') : stops'[i] = Order[Called' + 1 - i]
      BY <1>4, <1>5, <2>3
    <2>6. \A i \in 1..Len(started') : started'[i] = Order[i]
      BY <2>4
    <2>7. Called' <= Len(Order)
      BY <1>1, <1>5
    <2> QED BY <2>2, <2>5, <2>6, <2>7 DEF ListInv
  <1> QED BY <1>3, <1>4, <1>5, <1>6

LEMMA StopReturnsStep == ASSUME CoreInv, NEW by \in Closers, StopReturns(by) PROVE CoreInv'
  <1> DEFINE p == Head(left[by])
             n == Len(left[by])
  <1>1. /\ phase[by] = "stop" /\ plugin' = [plugin EXCEPT ![p].stop = "over"]
        /\ stops' = Append(stops, p) /\ context' = context \ {p} /\ sub' = Release({p}) /\ ReleaseHooks(p)
        /\ left' = [left EXCEPT ![by] = Tail(@)] /\ phase' = [phase EXCEPT ![by] = "plugins"]
        /\ UNCHANGED <<host, asking, starting, closed, bus, queue, handling, fresh>>
    BY DEF StopReturns
  <1>2. left[by] # <<>>
    BY <1>1 DEF CoreInv, PhaseInv
  <1>3. /\ n \in 1..Len(Order) /\ p = Order[n] /\ p \in Plugins
        /\ n = Called - Len(stops) /\ Len(stops) \in Nat /\ Called \in Nat
        /\ \A other \in Closers \ {by} : phase[other] \in {"idle", "over"} /\ left[other] = <<>>
    BY <1>2, LeftFacts
  <1>4. /\ phase' \in [Closers -> Phases] /\ phase'[by] = "plugins"
        /\ \A other \in Closers \ {by} : phase'[other] = phase[other]
    BY <1>1 DEF CoreInv, TypeOK, Phases
  <1>5. /\ plugin' \in [Plugins -> [start : {"no", "running", "failed", "over"}, stop : {"no", "running", "over"}]]
        /\ plugin'[p].stop = "over" /\ plugin'[p].start = plugin[p].start
        /\ \A q \in Plugins \ {p} : plugin'[q] = plugin[q]
    BY <1>1, <1>3, StopRecorded DEF CoreInv
  <1>6. /\ provider' \in [Plugins -> {"none", "exposed", "removed"}]
        /\ joined' \in [Contributions -> {"none", "waiting", "attached", "removed"}]
        /\ provider'[p] # "exposed" /\ \A q \in Plugins \ {p} : provider'[q] = provider[q]
        /\ \A c \in Contributions : joined'[c] \in {"waiting", "attached"} =>
              OwnerOf[c] # p /\ joined[c] \in {"waiting", "attached"}
        /\ HooksAreJoined'
    BY <1>1, <1>3, ReleaseHooksFacts DEF CoreInv
  <1>7. /\ left' \in [Closers -> Seq(Plugins)] /\ stops' \in Seq(Plugins)
        /\ Called' = Called /\ ListInv' /\ Len(stops') = Len(stops) + 1
        /\ \A c \in Closers \ {by} : left'[c] = left[c]
    BY <1>1, <1>2, OneFewer DEF starting
  <1>8. /\ sub' \in [Subscribers -> {"none", "active", "released"}]
        /\ \A s \in Subscribers : sub'[s] = "active" => sub[s] = "active" /\ s # p
    BY <1>1 DEF Release, CoreInv, TypeOK
  <1>9. TypeOK'
    BY <1>1, <1>4, <1>5, <1>6, <1>7, <1>8 DEF CoreInv, TypeOK, host, asking, starting
  <1>10. PluginInv'
    <2> SUFFICES ASSUME NEW i \in 1..Len(Order)
                 PROVE  /\ plugin'[Order[i]].start # "no" <=> i <= Called
                        /\ plugin'[Order[i]].start = "running" <=> activation = "start" /\ i = next
                        /\ plugin'[Order[i]].stop = "over" <=> Called - (Len(stops) + 1) < i /\ i <= Called
                        /\ plugin'[Order[i]].stop # "running"
      BY <1>1, <1>3, <1>4, <1>7 DEF PluginInv, starting
    <2>1. /\ plugin[Order[i]].start # "no" <=> i <= Called
          /\ plugin[Order[i]].start = "running" <=> activation = "start" /\ i = next
          /\ plugin[Order[i]].stop = "over" <=> Called - Len(stops) < i /\ i <= Called
          /\ plugin[Order[i]].stop = "running" => i = n
      BY <1>1, <1>3 DEF CoreInv, PluginInv
    <2>2. CASE i = n
      BY <1>3, <1>5, <2>1, <2>2
    <2>3. CASE i # n
      <3>1. Order[i] \in Plugins \ {p}
        BY <1>3, <2>3, OrderFacts
      <3> QED BY <1>3, <1>5, <2>1, <2>3, <3>1
    <2> QED BY <2>2, <2>3
  <1>11. PhaseInv'
    <2>1. by = "shutdown" => activation # "failed"
      BY <1>2 DEF CoreInv, PhaseInv
    <2>2. by = "activation" => activation = "rollback"
      BY <1>1 DEF CoreInv, PhaseInv
    <2> QED BY <1>1, <1>3, <1>4, <1>7, <2>1, <2>2 DEF CoreInv, PhaseInv, asking, starting, Closers
  <1>12. CloseInv'
    BY <1>1, <1>4, <1>8 DEF CoreInv, CloseInv, CoreOver, asking, starting, Closers
  <1>13. TraceInv'
    <2>1. \A q \in Plugins \ {p} : Works(q) => Works(q)'
      BY <1>5 DEF Works
    <2>2. \A s \in Subscribers \cap Plugins : sub'[s] = "active" => Works(s)'
      BY <1>8, <2>1 DEF CoreInv, TraceInv
    <2>3. \A q \in Plugins : provider'[q] = "exposed" => Works(q)'
      BY <1>6, <2>1 DEF CoreInv, TraceInv
    <2>4. \A c \in Contributions : joined'[c] \in {"waiting", "attached"} => Works(OwnerOf[c])'
      BY <1>6, <2>1, CoreAssumption DEF CoreInv, TraceInv
    <2>5. \A q \in context' : Works(q)'
      BY <1>1, <2>1 DEF CoreInv, TypeOK, TraceInv
    <2> QED BY <2>2, <2>3, <2>4, <2>5 DEF TraceInv
  <1>14. HostInv'
    BY <1>1 DEF CoreInv, HostInv, CoreOver, host, asking, starting
  <1> QED BY <1>6, <1>7, <1>9, <1>10, <1>11, <1>12, <1>13, <1>14 DEF CoreInv

\* The core itself is closed in steps that touch no Plugin.
LEMMA CloserStep ==
    ASSUME CoreInv, NEW by \in Closers, NEW to \in Phases \ {"idle", "stop"},
           phase[by] \notin {"idle", "stop", "over"}, left[by] = <<>>,
           phase' = [phase EXCEPT ![by] = to],
           IF to = "over" THEN CloserEnds(by) ELSE UNCHANGED <<activation, coreStop>>,
           UNCHANGED <<host, stopped, next, started, left, stops, plugin, queue, handling, fresh, hooks>>,
           closed' \in BOOLEAN, bus' \in {"open", "closing", "closed"}, context' \subseteq context,
           sub' = sub \/ sub' = Release(Subscribers), CloseInv'
    PROVE  CoreInv'
  <1>1. /\ phase' \in [Closers -> Phases] /\ phase'[by] = to
        /\ \A other \in Closers \ {by} : phase'[other] = phase[other]
    BY DEF CoreInv, TypeOK
  <1>2. /\ by = "activation" => activation = "rollback"
        /\ by = "shutdown" => coreStop = "stopping"
        /\ activation \notin {"next", "start"}
    <2>1. by = "activation" => activation = "rollback"
      BY DEF CoreInv, PhaseInv
    <2>2. by = "shutdown" => coreStop = "stopping"
      BY DEF CoreInv, PhaseInv
    <2>3. activation \notin {"next", "start"}
      BY NothingStops
    <2> QED BY <2>1, <2>2, <2>3
  <1>3. /\ activation' = IF by = "activation" /\ to = "over" THEN "failed" ELSE activation
        /\ coreStop' = IF by = "shutdown" /\ to = "over" THEN "over" ELSE coreStop
    BY DEF CloserEnds, Closers
  <1>4. /\ sub' \in [Subscribers -> {"none", "active", "released"}]
        /\ \A s \in Subscribers : sub'[s] = "active" => sub[s] = "active"
    BY DEF Release, CoreInv, TypeOK
  <1>5. TypeOK'
    <2>1. activation' \in ActivationSteps /\ coreStop' \in {"no", "waiting", "stopping", "over"}
      BY <1>3 DEF CoreInv, TypeOK, ActivationSteps
    <2> QED BY <1>1, <1>4, <2>1 DEF CoreInv, TypeOK, host, hooks
  <1>6. Called' = Called
    BY DEF Called
  <1>7. ListInv' /\ PluginInv'
    <2>1. activation' = "start" <=> activation = "start"
      BY <1>2, <1>3
    <2>2. \A c \in Closers : phase'[c] = "stop" <=> phase[c] = "stop"
      BY <1>1
    <2> QED BY <2>1, <2>2, ListsStay DEF CoreInv
  <1>8. PhaseInv'
    <2>1. CASE by = "activation"
      <3>1. /\ activation = "rollback" /\ phase["shutdown"] = "idle" /\ left["shutdown"] = <<>>
            /\ coreStop' = coreStop
        BY <1>2, <1>3, <2>1 DEF CoreInv, PhaseInv, Closers
      <3> QED BY <1>1, <1>3, <1>6, <2>1, <3>1 DEF CoreInv, PhaseInv, Closers
    <2>2. CASE by = "shutdown"
      <3>1. coreStop = "stopping" /\ activation' = activation /\ activation \in {"none", "active", "failed"}
        BY <1>2, <1>3, <2>2 DEF CoreInv, PhaseInv, Closers
      <3> QED BY <1>1, <1>3, <1>6, <2>2, <3>1 DEF CoreInv, PhaseInv, Closers
    <2> QED BY <2>1, <2>2 DEF Closers
  <1>9. TraceInv'
    BY <1>4 DEF CoreInv, TraceInv, Works, hooks
  <1>10. HooksAreJoined'
    BY HooksStay DEF CoreInv
  <1>11. HostInv'
    BY <1>2, <1>3 DEF CoreInv, HostInv, CoreOver, host
  <1> QED BY <1>5, <1>7, <1>8, <1>9, <1>10, <1>11 DEF CoreInv

LEMMA CloseCoreStep == ASSUME CoreInv, NEW by \in Closers, CloseCore(by) PROVE CoreInv'
  <1> DEFINE to == IF closed THEN "over" ELSE "registry"
  <1>1. /\ phase[by] = "plugins" /\ left[by] = <<>> /\ closed'
        /\ phase' = [phase EXCEPT ![by] = to]
        /\ IF to = "over" THEN CloserEnds(by) ELSE UNCHANGED <<activation, coreStop>>
        /\ UNCHANGED <<host, stopped, next, started, left, stops, plugin, traffic>>
    BY DEF CloseCore
  <1>2. /\ phase' \in [Closers -> Phases] /\ phase'[by] = to
        /\ \A other \in Closers \ {by} : phase'[other] = phase[other] /\ phase[other] \in {"idle", "over"}
    BY <1>1, OneCloser DEF CoreInv, TypeOK, Phases
  <1>3. CloseInv'
    <2>1. CASE closed
      <3>1. CoreOver
        BY <1>1, <1>2, <2>1 DEF CoreInv, CloseInv
      <3>2. bus = "closed" /\ CoreOver'
        BY <1>1, <3>1, <2>1 DEF CoreOver, CloserEnds, CoreInv, PhaseInv, CloseInv, Closers
      <3> QED BY <1>1, <1>2, <2>1, <3>2 DEF CoreInv, CloseInv, traffic, deliveries, Closers
    <2>2. CASE ~closed
      <3>1. \A other \in Closers \ {by} : phase[other] = "idle"
        BY <1>2, <2>2 DEF CoreInv, CloseInv
      <3> QED BY <1>1, <1>2, <2>2, <3>1 DEF CoreInv, CloseInv, traffic, deliveries, Closers
    <2> QED BY <2>1, <2>2
  <1> QED BY <1>1, <1>3, CloserStep DEF CoreInv, TypeOK, Phases, traffic, deliveries, CloseCore

LEMMA RegistryClosesStep == ASSUME CoreInv, NEW by \in Closers, RegistryCloses(by) PROVE CoreInv'
  <1>1. /\ phase[by] = "registry" /\ phase' = [phase EXCEPT ![by] = "bus"] /\ bus' = "closing"
        /\ left[by] = <<>>
        /\ UNCHANGED <<host, asking, starting, closed, left, stops, plugin, sub, queue, handling, fresh,
                       hooks, context>>
    BY DEF RegistryCloses, CoreInv, PhaseInv
  <1>2. /\ phase'[by] = "bus"
        /\ \A other \in Closers \ {by} : phase'[other] = phase[other] /\ phase[other] = "idle"
    <2>1. \A other \in Closers \ {by} : phase'[other] = phase[other] /\ phase[other] \in {"idle", "over"}
      BY <1>1, OneCloser DEF CoreInv, TypeOK, Phases
    <2>2. \A other \in Closers \ {by} : phase[other] # "over"
      BY <1>1 DEF CoreInv, CloseInv, PhaseInv, Closers
    <2> QED BY <1>1, <2>1, <2>2 DEF CoreInv, TypeOK
  <1>3. CloseInv'
    BY <1>1, <1>2 DEF CoreInv, CloseInv, Closers
  <1> QED BY <1>1, <1>3, CloserStep DEF CoreInv, TypeOK, Phases, asking, starting

LEMMA BusClosesStep == ASSUME CoreInv, NEW by \in Closers, BusCloses(by) PROVE CoreInv'
  <1>1. /\ phase[by] = "bus" /\ phase' = [phase EXCEPT ![by] = "storage"] /\ bus' = "closed"
        /\ left[by] = <<>> /\ sub' = Release(Subscribers) /\ context' = {}
        /\ UNCHANGED <<host, asking, starting, closed, left, stops, plugin, queue, handling, fresh, hooks>>
    BY DEF BusCloses, CoreInv, PhaseInv
  <1>2. /\ phase'[by] = "storage" /\ \A other \in Closers \ {by} : phase'[other] = phase[other]
        /\ \A s \in Subscribers : sub'[s] # "active"
    BY <1>1 DEF CoreInv, TypeOK, Release
  <1>3. CloseInv'
    BY <1>1, <1>2 DEF CoreInv, CloseInv, Closers
  <1> QED BY <1>1, <1>3, CloserStep DEF CoreInv, TypeOK, Phases, asking, starting

LEMMA StorageClosesStep == ASSUME CoreInv, NEW by \in Closers, StorageCloses(by) PROVE CoreInv'
  <1>1. /\ phase[by] = "storage" /\ phase' = [phase EXCEPT ![by] = "over"] /\ left[by] = <<>>
        /\ CloserEnds(by)
        /\ UNCHANGED <<host, stopped, next, started, closed, left, stops, plugin, traffic>>
    BY DEF StorageCloses, CoreInv, PhaseInv
  <1>2. phase'[by] = "over" /\ \A other \in Closers \ {by} : phase'[other] = phase[other]
    BY <1>1 DEF CoreInv, TypeOK
  <1>3. CoreOver'
    BY <1>1 DEF CoreOver, CloserEnds
  <1>4. CloseInv'
    <2>1. phase["activation"] = "over" => by # "shutdown"
      BY <1>1 DEF CoreInv, CloseInv
    <2>2. by = "activation" => phase["shutdown"] = "idle"
      BY <1>1 DEF CoreInv, PhaseInv
    <2> QED BY <1>1, <1>2, <1>3, <2>1, <2>2 DEF CoreInv, CloseInv, traffic, deliveries, Closers
  <1> QED BY <1>1, <1>4, CloserStep DEF CoreInv, TypeOK, Phases, traffic, deliveries

-----------------------------------------------------------------------------
\* The invariant.

LEMMA InitInv == Init => CoreInv
  <1> SUFFICES ASSUME Init PROVE CoreInv
    OBVIOUS
  <1> USE DEF Init
  <1>1. /\ Len(started) = 0 /\ Len(stops) = 0
        /\ \A by \in Closers : phase[by] = "idle" /\ left[by] = <<>> /\ Len(left[by]) = 0
    BY DEF Closers
  <1>2. Called = 0
    BY <1>1 DEF Called, Closers
  <1>3. \A p \in Plugins : plugin[p].start = "no" /\ plugin[p].stop = "no"
    OBVIOUS
  <1>4. TypeOK
    <2>1. next \in 1..(Len(Order) + 1)
      BY OrderFacts
    <2>2. /\ phase \in [Closers -> Phases] /\ left \in [Closers -> Seq(Plugins)]
          /\ started \in Seq(Plugins) /\ stops \in Seq(Plugins)
      BY DEF Phases
    <2>3. /\ plugin \in [Plugins -> [start : {"no", "running", "failed", "over"}, stop : {"no", "running", "over"}]]
          /\ provider \in [Plugins -> {"none", "exposed", "removed"}]
          /\ joined \in [Contributions -> {"none", "waiting", "attached", "removed"}]
      OBVIOUS
    <2>4. /\ sub \in [Subscribers -> {"none", "active", "released"}]
          /\ queue \in [Subscribers -> Seq(Events \cup {Activated})]
          /\ handling \in [Subscribers -> Events \cup {Activated, NoEvent}]
      OBVIOUS
    <2> QED BY <2>1, <2>2, <2>3, <2>4 DEF TypeOK, InitSteps, ActivationSteps
  <1>5. ListInv
    BY <1>1, <1>2, OrderFacts DEF ListInv
  <1>6. PluginInv
    BY <1>1, <1>2, <1>3, OrderFacts DEF PluginInv
  <1>7. PhaseInv
    BY <1>1, <1>2 DEF PhaseInv, Closers
  <1>8. CloseInv /\ HostInv
    BY <1>1 DEF CloseInv, HostInv, CoreOver, Closers
  <1>9. TraceInv /\ HooksAreJoined
    BY DEF TraceInv, HooksAreJoined
  <1> QED BY <1>4, <1>5, <1>6, <1>7, <1>8, <1>9 DEF CoreInv

LEMMA NextInv == ASSUME CoreInv, [Next]_vars PROVE CoreInv'
  <1>1. CASE HostSteps
    BY <1>1, AcquireStep, ConfigureStep, BuildStudioStep, UndoBuildStep, CapsReleasedStep,
       HostStopsCoreStep, HostStopsCapsStep DEF HostSteps
  <1>2. CASE CoreSteps
    <2>1. CASE \E p \in Plugins : StartReturns(p) \/ StartFails(p)
      BY <2>1, StartReturnsStep, StartFailsStep
    <2>2. CASE \E by \in Closers : Closes(by)
      BY <2>2, StopNextStep, StopReturnsStep, CloseCoreStep, RegistryClosesStep, BusClosesStep,
         StorageClosesStep DEF Closes
    <2> QED
      BY <1>2, <2>1, <2>2, StartNextStep, RefuseNextStep, ActivatesStep, ShutdownProceedsStep
      DEF CoreSteps
  <1>3. CASE PluginSteps
    <2>1. CASE \E s \in Subscribers : Subscribe(s) \/ Unsubscribe(s) \/ Handle(s) \/ Handled(s)
      BY <2>1, SubscribeStep, UnsubscribeStep, HandleStep, HandledStep
    <2>2. CASE \E p \in Plugins : Expose(p) \/ Unexpose(p) \/ Provide(p) \/ Unprovide(p)
      BY <2>2, ExposeStep, UnexposeStep, ProvideStep
    <2>3. CASE \E c \in Contributions : Contribute(c) \/ Withdraw(c)
      BY <2>3, ContributeStep, WithdrawStep
    <2> QED BY <1>3, <2>1, <2>2, <2>3, NotifyStep DEF PluginSteps
  <1>4. CASE UNCHANGED vars
    <2> USE <1>4 DEF vars, core, asking, starting, closing
    <2>1. UNCHANGED <<host, core, bus>>
      BY DEF traffic, deliveries
    <2>2. TrafficTypes'
      BY DEF CoreInv, TypeOK, TrafficTypes, traffic, deliveries, hooks
    <2>3. TraceInv' /\ HooksAreJoined'
      BY TracesStay, HooksStay DEF CoreInv, traffic, deliveries
    <2>4. sub' = sub
      BY DEF traffic, deliveries
    <2> QED BY <2>1, <2>2, <2>3, <2>4, TrafficStep
  <1> QED
    BY <1>1, <1>2, <1>3, <1>4, HostShutdownStep, StudioShutdownStep, ActivateStep DEF Next

LEMMA CoreAlways == Spec => []CoreInv
  <1>1. CoreInv /\ [Next]_vars => CoreInv'
    BY NextInv
  <1> QED BY <1>1, InitInv, PTL DEF Spec

-----------------------------------------------------------------------------
\* What the Plugins can rely on.

LEMMA Mirrors == ASSUME CoreInv PROVE StopsMirrorStarts
  <1>1. \A p \in Plugins : plugin[p].stop # "no" => plugin[p].start \in {"over", "failed"}
    <2> TAKE p \in Plugins
    <2> HAVE plugin[p].stop # "no"
    <2>4. PICK i \in 1..Len(Order) : p = Order[i]
      BY OrderFacts
    <2>5. plugin[Order[i]].stop # "no"
      BY <2>4
    <2>1. plugin[Order[i]] \in [start : {"no", "running", "failed", "over"}, stop : {"no", "running", "over"}]
      BY OrderFacts DEF CoreInv, TypeOK
    <2>2. plugin[Order[i]].start # "no"
      <3>1. CASE plugin[Order[i]].stop = "over"
        BY <3>1 DEF CoreInv, PluginInv
      <3>2. CASE plugin[Order[i]].stop = "running"
        <4>1. PICK by \in Closers : phase[by] = "stop" /\ i = Len(left[by])
          BY <3>2 DEF CoreInv, PluginInv
        <4>2. left[by] # <<>>
          BY <4>1 DEF CoreInv, PhaseInv
        <4>3. i = Called - Len(stops) /\ Len(stops) \in Nat /\ Called \in Nat
          BY <4>1, <4>2, LeftFacts
        <4>4. i <= Called
          BY <4>3
        <4> QED BY <4>4 DEF CoreInv, PluginInv
      <3> QED BY <2>1, <2>5, <3>1, <3>2
    <2>3. plugin[Order[i]].start # "running"
      <3> SUFFICES ASSUME activation = "start" PROVE FALSE
        BY DEF CoreInv, PluginInv
      <3>1. /\ \A by \in Closers : phase[by] = "idle"
            /\ stops = <<>> /\ Called \in Nat
        BY NothingStops
      <3>2. Len(stops) = 0
        BY <3>1
      <3>3. plugin[Order[i]].stop # "running"
        BY <3>1 DEF CoreInv, PluginInv
      <3>4. Called < i /\ i <= Called
        <4>1. Called - Len(stops) < i /\ i <= Called
          BY <2>1, <2>5, <3>3 DEF CoreInv, PluginInv
        <4> QED BY <3>1, <3>2, <4>1
      <3> QED BY <3>1, <3>4
    <2> QED BY <2>1, <2>2, <2>3, <2>4
  <1>2. \A p \in Plugins : plugin[p].start = "running" => stops = <<>>
    BY OrderFacts, NothingStops DEF CoreInv, PluginInv
  <1>3. Called \in 0..Len(Order) /\ Len(stops) <= Called
    <2>1. \A a, b, c, d \in Nat : d <= a + b + c + d
      OBVIOUS
    <2>2. Len(stops) <= Called
      BY <2>1, Lengths DEF CoreInv, Called
    <2> QED BY <2>2, Lengths, OrderFacts DEF CoreInv, ListInv
  <1>4. /\ \A i \in 1..Len(Order) : plugin[Order[i]].start # "no" <=> i <= Called
        /\ \A i \in 1..Len(stops) : stops[i] = Order[Called + 1 - i]
    BY DEF CoreInv, PluginInv, ListInv
  <1> QED BY <1>1, <1>2, <1>3, <1>4 DEF StopsMirrorStarts

\* Once the core is over, however it came to that, every Plugin whose start was
\* called has been stopped, once and in reverse, and has left nothing behind;
\* and the Host keeps its capabilities, and the lease, until then.
THEOREM CoreLeavesNothing == Spec => []NothingOutlivesTheCore
  <1>1. CoreInv => NothingOutlivesTheCore
    <2> SUFFICES ASSUME CoreInv PROVE NothingOutlivesTheCore
      OBVIOUS
    <2>1. TypeOK /\ StopsMirrorStarts
      BY Mirrors DEF CoreInv
    <2>2. ASSUME CoreOver
          PROVE  /\ closed /\ bus = "closed" /\ context = {}
                 /\ \A p \in Plugins : plugin[p].start # "no" => plugin[p].stop = "over"
                 /\ \A s \in Subscribers : sub[s] # "active"
                 /\ \A p \in Plugins : provider[p] # "exposed"
                 /\ \A c \in Contributions : joined[c] \notin {"waiting", "attached"}
      <3>1. PICK by \in Closers : phase[by] = "over"
        BY <2>2 DEF CoreInv, PhaseInv, CoreOver, Closers
      <3>2. closed /\ bus = "closed" /\ \A s \in Subscribers : sub[s] # "active"
        BY <3>1 DEF CoreInv, CloseInv
      <3>3. \A p \in Plugins : ~Works(p)
        BY <3>1, NobodyWorks
      <3>4. context = {} /\ \A p \in Plugins : provider[p] # "exposed"
        BY <3>3 DEF CoreInv, TypeOK, TraceInv
      <3>5. \A c \in Contributions : joined[c] \notin {"waiting", "attached"}
        BY <3>3, CoreAssumption DEF CoreInv, TraceInv
      <3> QED BY <3>2, <3>3, <3>4, <3>5 DEF Works
    <2>3. caps \in {"releasing", "released"} =>
              CoreOver \/ (init \in {"releasing", "failed"} /\ ~stopped)
      BY DEF CoreInv, HostInv, CoreOver
    <2> QED BY <2>1, <2>2, <2>3 DEF NothingOutlivesTheCore
  <1> QED BY <1>1, CoreAlways, PTL

\* A contribution is installed exactly while the hook it is for is exposed,
\* in whatever order the two come and go.
THEOREM HooksStayJoined == Spec => []HooksAreJoined
  <1>1. CoreInv => HooksAreJoined
    BY DEF CoreInv
  <1> QED BY <1>1, CoreAlways, PTL

\* No step hands an event to a Plugin whose stop has returned.
LEMMA NothingIsHeard ==
    ASSUME CoreInv, [Next]_vars, NEW p \in Plugins \cap Subscribers,
           plugin[p].stop = "over", handling[p] = NoEvent
    PROVE  handling'[p] = NoEvent
  <1>1. CASE \E s \in Subscribers : Handle(s) \/ Handled(s)
    <2>1. sub[p] # "active"
      BY DEF CoreInv, TraceInv, Works
    <2>2. handling \in [Subscribers -> Events \cup {Activated, NoEvent}]
      BY DEF CoreInv, TypeOK
    <2> QED BY <1>1, <2>1, <2>2 DEF Handle, Handled
  <1>2. CASE HostSteps \/ HostShutdown \/ StudioShutdown \/ Activate \/ UNCHANGED vars
    BY <1>2
    DEF HostSteps, Acquire, Configure, BuildStudio, UndoBuild, CapsReleased, HostStopsCore, HostStopsCaps,
        HostShutdown, StudioShutdown, Activate, vars, traffic, deliveries
  <1>3. CASE CoreSteps
    <2>1. CASE \E by \in Closers : Closes(by)
      BY <2>1
      DEF Closes, StopNext, StopReturns, CloseCore, RegistryCloses, BusCloses, StorageCloses, traffic,
          deliveries
    <2>2. CASE \E q \in Plugins : StartReturns(q) \/ StartFails(q)
      BY <2>2 DEF StartReturns, StartFails, traffic, deliveries
    <2> QED
      BY <1>3, <2>1, <2>2
      DEF CoreSteps, StartNext, RefuseNext, Activates, Publish, ShutdownProceeds, traffic, deliveries
  <1>4. CASE PluginSteps
    BY <1>1, <1>4
    DEF PluginSteps, Subscribe, Unsubscribe, Notify, Publish, Expose, Unexpose, Provide, Unprovide,
        Contribute, Withdraw, deliveries
  <1> QED BY <1>1, <1>2, <1>3, <1>4 DEF Next

\* A Plugin that has stopped is handed no event any more, whatever was queued
\* for it and whenever it subscribed.
THEOREM StoppedIsDeaf == Spec => StoppedPluginsHearNothing
  <1>1. CoreInv /\ [Next]_vars =>
            [\A p \in Plugins \cap Subscribers :
                plugin[p].stop = "over" /\ handling[p] = NoEvent => handling'[p] = NoEvent]_vars
    BY NothingIsHeard
  <1> QED BY <1>1, CoreAlways, PTL DEF Spec, StoppedPluginsHearNothing

-----------------------------------------------------------------------------
\* The Channel Plugin: three arguments that do not need each other, the lock of
\* the Channel's row, a binding that is never replaced, and an insert that one
\* post wins.


\* A transaction past its lock has it, and a removal about to be written leaves
\* another human: nobody else can have changed the members since it counted.
LockInv ==
    /\ members \cap Humans # {}
    /\ \A m \in Changes : change[m] \in {"locked", "write"} => lock = m
    /\ \A m \in Removes : change[m] = "write" => ~LastHuman(Who[m])

\* A run past its reservation knows the session of its Pet's binding, which has
\* not changed since; and the binding is registered only if the Host has it.
RunIsBound(r) ==
    /\ run[r] \in {"resolve", "ensure", "confirm"} => bound[r].session # NoCall
    /\ bound[r].session # NoCall => bound[r].session = binding[Target[r]].session
    /\ bound[r].registered => bound[r].session # NoCall /\ binding[Target[r]].registered
    /\ run[r] = "confirm" => bound[r].session \in known
    /\ accepted[r] # NoCall => accepted[r] = binding[Target[r]].session

BindingInv ==
    /\ known = saved
    /\ \A p \in Pets : binding[p].session = NoCall => ~binding[p].registered
    /\ \A p \in Pets : binding[p].registered => binding[p].session \in known
    /\ \A r \in Runs : RunIsBound(r)

\* The posts that have inserted their message.
Given(p) == post[p] = "deliver" \/ run[p] # "none"

MentionInv ==
    /\ \A p \in Posts : Given(p) => Ref[p] \in messages
    /\ \A p, q \in Posts : Given(p) /\ Given(q) /\ Ref[p] = Ref[q] => p = q
    /\ \A p \in Posts : accepted[p] # NoCall => run[p] # "none"

ChannelInv == ChannelTypeOK /\ LockInv /\ BindingInv /\ MentionInv

-----------------------------------------------------------------------------
\* What each part depends on.

LEMMA LockKeeps ==
    ASSUME LockInv, UNCHANGED <<members, lock, change>> PROVE LockInv'
BY DEF LockInv, LastHuman

LEMMA BindingKeeps ==
    ASSUME BindingInv, UNCHANGED <<binding, sessions, run, bound, accepted>> PROVE BindingInv'
BY DEF BindingInv, RunIsBound, sessions

LEMMA MentionKeeps ==
    ASSUME MentionInv, UNCHANGED <<messages, post, run, accepted>> PROVE MentionInv'
BY DEF MentionInv, Given

\* The initial states satisfy the invariant.
THEOREM ChannelInvInit == ChannelInit => ChannelInv
<1> SUFFICES ASSUME ChannelInit PROVE ChannelInv
    OBVIOUS
<1>1. ChannelTypeOK
    BY ChannelAssumption DEF ChannelInit, ChannelTypeOK, Unbound, Over, RunSteps
<1>2. LockInv
    BY ChannelAssumption DEF ChannelInit, LockInv, Changes
<1>3. BindingInv
    BY DEF ChannelInit, BindingInv, RunIsBound, Unbound
<1>4. MentionInv
    BY ChannelAssumption DEF ChannelInit, MentionInv, Given, Runs
<1> QED BY <1>1, <1>2, <1>3, <1>4 DEF ChannelInv

-----------------------------------------------------------------------------
\* Changes of the members.

LEMMA LockChannelKeeps ==
    ASSUME ChannelInv, NEW m \in Changes, LockChannel(m) PROVE ChannelInv'
<1> USE DEF ChannelInv
<1>1. ChannelTypeOK'
    BY DEF LockChannel, ChannelTypeOK, rows, sessions
<1>2. LockInv'
    BY ChannelAssumption DEF LockChannel, LockInv, LastHuman, ChannelTypeOK, rows, Changes
<1>3. BindingInv' /\ MentionInv'
    BY BindingKeeps, MentionKeeps DEF LockChannel, rows, sessions
<1> QED BY <1>1, <1>2, <1>3

LEMMA ReadKeeps ==
    ASSUME ChannelInv, NEW m \in Changes, Read(m) PROVE ChannelInv'
<1> USE DEF ChannelInv
<1>1. ChannelTypeOK'
    BY DEF Read, ChannelTypeOK, rows, sessions, Over
<1>2. LockInv'
    BY ChannelAssumption DEF Read, LockInv, LastHuman, ChannelTypeOK, rows, Changes
<1>3. BindingInv' /\ MentionInv'
    BY BindingKeeps, MentionKeeps DEF Read, rows, sessions
<1> QED BY <1>1, <1>2, <1>3

\* The write: a removal takes one human of at least two.
LEMMA WriteKeeps ==
    ASSUME ChannelInv, NEW m \in Changes, Write(m) PROVE ChannelInv'
<1> USE DEF ChannelInv
<1>0. Who[m] \in Members
    BY ChannelAssumption DEF Changes
<1>1. ChannelTypeOK'
    BY <1>0 DEF Write, ChannelTypeOK, sessions, Over
<1>2. members' \cap Humans # {}
  <2>1. CASE m \in Adds
      BY <2>1 DEF Write, LockInv
  <2>2. CASE m \in Removes
    <3>1. PICK h \in members \cap Humans : h # Who[m]
        BY <2>2 DEF Write, LockInv, LastHuman
    <3>2. h \in members'
        BY <2>2, <3>1, ChannelAssumption DEF Write
    <3> QED BY <3>1, <3>2
  <2> QED BY <2>1, <2>2 DEF Changes
<1>3. \A n \in Changes : change'[n] \in {"locked", "write"} => n # m /\ change[n] = change'[n]
    BY DEF Write, ChannelTypeOK
<1>4. \A n \in Changes : ~(change'[n] \in {"locked", "write"})
    BY <1>3 DEF Write, LockInv
<1>5. LockInv'
    BY <1>2, <1>4 DEF LockInv, Changes
<1>6. BindingInv' /\ MentionInv'
    BY BindingKeeps, MentionKeeps DEF Write, sessions
<1> QED BY <1>1, <1>5, <1>6

LEMMA ChangeFailsKeeps ==
    ASSUME ChannelInv, NEW m \in Changes, ChangeFails(m) PROVE ChannelInv'
<1> USE DEF ChannelInv
<1>1. ChannelTypeOK'
    BY DEF ChangeFails, ChannelTypeOK, rows, sessions, Over
<1>2. LockInv'
    BY DEF ChangeFails, LockInv, LastHuman, ChannelTypeOK, rows, Changes
<1>3. BindingInv' /\ MentionInv'
    BY BindingKeeps, MentionKeeps DEF ChangeFails, rows, sessions
<1> QED BY <1>1, <1>2, <1>3

-----------------------------------------------------------------------------
\* Runs.  A step of a run other than its start leaves the posts' part alone.

LEMMA RunMoves ==
    ASSUME ChannelInv, NEW r \in Runs, run[r] # "none", NEW step \in RunSteps \ {"none"},
           Reaches(r, step), UNCHANGED <<messages, post>>,
           \A q \in Runs : q # r => accepted'[q] = accepted[q]
    PROVE  MentionInv'
<1>1. \A p \in Posts : p \in Runs /\ (run'[p] # "none" <=> run[p] # "none")
    BY DEF Reaches, ChannelInv, ChannelTypeOK, Runs
<1>2. \A p \in Posts : Given(p)' <=> Given(p)
    BY <1>1 DEF Given
<1>3. \A p \in Posts : accepted'[p] # NoCall => run'[p] # "none"
    BY <1>1 DEF ChannelInv, MentionInv
<1> QED BY <1>2, <1>3 DEF ChannelInv, MentionInv

\* A run that only moves on, without a claim about its session.
LEMMA RunGoesNowhere ==
    ASSUME ChannelInv, NEW r \in Runs, run[r] # "none",
           NEW step \in {"reserve", "insert", "failed"}, Reaches(r, step),
           UNCHANGED <<rows, sessions, lock, change, post, bound, accepted, crashes>>
    PROVE  ChannelInv'
<1>1. ChannelTypeOK'
    BY DEF ChannelInv, ChannelTypeOK, Reaches, rows, sessions, RunSteps, Over
<1>2. LockInv'
    BY LockKeeps DEF ChannelInv, rows
<1>3. \A q \in Runs : run'[q] \in {"resolve", "ensure", "confirm"} => run[q] = run'[q]
    BY DEF ChannelInv, ChannelTypeOK, Reaches
<1>4. BindingInv'
    BY <1>3 DEF ChannelInv, BindingInv, RunIsBound, rows, sessions
<1>5. MentionInv'
    BY RunMoves DEF RunSteps, Over, rows
<1> QED BY <1>1, <1>2, <1>4, <1>5 DEF ChannelInv

LEMMA AskKeeps ==
    ASSUME ChannelInv, NEW r \in Runs, Ask(r) PROVE ChannelInv'
<1> USE DEF ChannelInv
<1>1. ChannelTypeOK'
    BY DEF Ask, Reaches, ChannelTypeOK, rows, sessions, RunSteps, Over
<1>2. LockInv'
    BY LockKeeps DEF Ask, rows
<1>3. \A q \in Runs : run'[q] \in {"resolve", "ensure", "confirm"} => run[q] = run'[q]
    BY DEF Ask, Reaches, ChannelTypeOK
<1>4. BindingInv'
    BY <1>3 DEF Ask, BindingInv, RunIsBound, rows, sessions
<1>5. \A p \in Posts : run'[p] = run[p]
    BY ChannelAssumption DEF Ask, Reaches, ChannelTypeOK, Runs
<1>6. MentionInv'
    BY <1>5 DEF Ask, MentionInv, Given, rows
<1> QED BY <1>1, <1>2, <1>4, <1>6

LEMMA StepsOfARunKeep ==
    ASSUME ChannelInv, NEW r \in Runs, RequireMember(r) \/ DispatchFails(r) PROVE ChannelInv'
BY RunGoesNowhere DEF RequireMember, DispatchFails

\* A run takes a row of its Pet that says what the binding says.
LEMMA TakesKeeps ==
    ASSUME ChannelInv, NEW r \in Runs, run[r] \in {"reserve", "insert"},
           NEW row \in [session : Runs, registered : BOOLEAN], Takes(r, row),
           binding' = [binding EXCEPT ![Target[r]] = row],
           binding[Target[r]] = row
           \/ (binding[Target[r]].session = NoCall /\ ~row.registered),
           UNCHANGED <<members, messages, sessions, lock, change, post, accepted, crashes>>
    PROVE  ChannelInv'
<1> USE DEF ChannelInv
<1>0. Target[r] \in Pets /\ NoCall \notin Runs
    BY ChannelAssumption
<1>1. run' = [run EXCEPT ![r] = "resolve"] /\ bound' = [bound EXCEPT ![r] = row]
    BY DEF Takes, Reaches
<1>2. ChannelTypeOK'
    BY <1>0, <1>1 DEF ChannelTypeOK, sessions, RunSteps, Over
<1>3. LockInv'
    BY LockKeeps
<1>4. BindingInv'
  <2>1. \A p \in Pets : \/ binding'[p] = binding[p]
                        \/ p = Target[r] /\ binding[p].session = NoCall /\ ~binding[p].registered
                           /\ binding'[p] = row /\ ~row.registered
      BY <1>0 DEF ChannelTypeOK, BindingInv
  <2>2. binding'[Target[r]] = row /\ row.session # NoCall
      BY <1>0 DEF ChannelTypeOK
  <2>3. known' = saved' /\ known' = known
      BY DEF BindingInv, sessions
  <2>4. \A p \in Pets : /\ binding'[p].session = NoCall => ~binding'[p].registered
                        /\ binding'[p].registered => binding'[p].session \in known'
      BY <2>1, <2>3 DEF BindingInv
  <2>5. ASSUME NEW q \in Runs PROVE RunIsBound(q)'
    <3>1. Target[q] \in Pets
        BY ChannelAssumption
    <3>2. accepted'[q] # NoCall => accepted'[q] = binding'[Target[q]].session
        BY <2>1, <3>1 DEF BindingInv, RunIsBound
    <3>3. CASE q = r
      <4>1. bound'[q] = row /\ run'[q] = "resolve"
          BY <3>3, <1>1 DEF ChannelTypeOK
      <4> QED BY <3>3, <4>1, <2>2, <3>2 DEF RunIsBound
    <3>4. CASE q # r
      <4>1. bound'[q] = bound[q] /\ run'[q] = run[q]
          BY <3>4, <1>1 DEF ChannelTypeOK
      <4>2. bound[q].session # NoCall => bound'[q].session = binding'[Target[q]].session
          BY <2>1, <3>1, <4>1 DEF BindingInv, RunIsBound
      <4>3. bound[q].registered => bound'[q].session # NoCall /\ binding'[Target[q]].registered
          BY <2>1, <3>1, <4>1 DEF BindingInv, RunIsBound
      <4>4. /\ run[q] \in {"resolve", "ensure", "confirm"} => bound[q].session # NoCall
            /\ run[q] = "confirm" => bound[q].session \in known
          BY DEF BindingInv, RunIsBound
      <4> QED BY <4>1, <4>2, <4>3, <4>4, <2>3, <3>2 DEF RunIsBound
    <3> QED BY <3>3, <3>4
  <2> QED BY <2>3, <2>4, <2>5 DEF BindingInv
<1>5. MentionInv'
  <2>1. Reaches(r, "resolve") /\ "resolve" \in RunSteps \ {"none"}
      BY DEF Takes, RunSteps
  <2> QED BY <2>1, RunMoves
<1> QED BY <1>2, <1>3, <1>4, <1>5

LEMMA ReserveKeeps ==
    ASSUME ChannelInv, NEW r \in Runs, GetSession(r) \/ ReserveSession(r) PROVE ChannelInv'
<1> DEFINE old == binding[Target[r]]
           row == IF old = Unbound THEN [session |-> r, registered |-> FALSE] ELSE old
<1>0. Target[r] \in Pets /\ NoCall \notin Runs
    BY ChannelAssumption
<1>1. /\ old \in [session : Runs \cup {NoCall}, registered : BOOLEAN]
      /\ old.session = NoCall => old = Unbound
    BY <1>0 DEF ChannelInv, ChannelTypeOK, BindingInv, Unbound
<1>2. row \in [session : Runs, registered : BOOLEAN]
    BY <1>1 DEF Unbound
<1>3. binding[Target[r]] = row \/ (binding[Target[r]].session = NoCall /\ ~row.registered)
    BY DEF Unbound
<1>4. CASE GetSession(r) /\ old = Unbound
    BY <1>4, RunGoesNowhere DEF GetSession
<1>5. CASE GetSession(r) /\ old # Unbound
  <2>1. binding' = [binding EXCEPT ![Target[r]] = row]
      BY <1>0, <1>5 DEF GetSession, rows, ChannelInv, ChannelTypeOK
  <2>2. /\ run[r] \in {"reserve", "insert"} /\ Takes(r, row)
        /\ UNCHANGED <<members, messages, sessions, lock, change, post, accepted, crashes>>
      BY <1>5 DEF GetSession, rows
  <2> HIDE DEF row
  <2> QED BY <1>2, <1>3, <2>1, <2>2, TakesKeeps
<1>6. CASE ReserveSession(r)
  <2>1. /\ run[r] \in {"reserve", "insert"} /\ Takes(r, row)
        /\ binding' = [binding EXCEPT ![Target[r]] = row]
        /\ UNCHANGED <<members, messages, sessions, lock, change, post, accepted, crashes>>
      BY <1>6 DEF ReserveSession
  <2> HIDE DEF row
  <2> QED BY <1>2, <1>3, <2>1, TakesKeeps
<1> QED BY <1>4, <1>5, <1>6

LEMMA ResolveKeeps ==
    ASSUME ChannelInv, NEW r \in Runs, ResolveContext(r) PROVE ChannelInv'
<1>1. CASE Reaches(r, "failed")
    BY <1>1, RunGoesNowhere DEF ResolveContext
<1>2. CASE Reaches(r, "ensure")
  <2> USE DEF ChannelInv
  <2>1. ChannelTypeOK'
      BY <1>2 DEF ResolveContext, ChannelTypeOK, Reaches, rows, sessions, RunSteps, Over
  <2>2. LockInv'
      BY LockKeeps DEF ResolveContext, rows
  <2>3. \A q \in Runs : run'[q] = run[q] \/ (run[q] = "resolve" /\ run'[q] = "ensure")
      BY <1>2 DEF ResolveContext, ChannelTypeOK, Reaches
  <2>4. BindingInv'
      BY <2>3 DEF ResolveContext, BindingInv, RunIsBound, rows, sessions
  <2>5. MentionInv'
      BY <1>2, RunMoves DEF ResolveContext, RunSteps, rows
  <2> QED BY <2>1, <2>2, <2>4, <2>5
<1> QED BY <1>1, <1>2 DEF ResolveContext

\* The Pet accepts in the session of the run's binding, which the Host has then.
LEMMA EnsureKeeps ==
    ASSUME ChannelInv, NEW r \in Runs, EnsureSession(r) PROVE ChannelInv'
<1> USE DEF ChannelInv
<1> DEFINE s == bound[r].session
<1>0. s # NoCall /\ s = binding[Target[r]].session /\ s \in Runs
    BY DEF EnsureSession, BindingInv, RunIsBound, ChannelTypeOK
<1>1. /\ run' = [run EXCEPT ![r] = run'[r]] /\ run'[r] \in {"confirm", "failed"}
      /\ \A q \in Runs : q # r => accepted'[q] = accepted[q]
      /\ accepted'[r] = accepted[r] \/ (accepted'[r] = s)
      /\ accepted' \in [Runs -> Runs \cup {NoCall}]
    BY <1>0 DEF EnsureSession, Reaches, ChannelTypeOK
<1>2. ChannelTypeOK'
    BY <1>0, <1>1 DEF EnsureSession, ChannelTypeOK, rows, RunSteps, Over
<1>3. LockInv'
    BY LockKeeps DEF EnsureSession, rows
<1>4. BindingInv'
  <2>1. known' = known \cup {s} /\ saved' = known' /\ binding' = binding /\ bound' = bound
      BY DEF EnsureSession, rows
  <2>2. ASSUME NEW q \in Runs PROVE RunIsBound(q)'
    <3>1. CASE q = r
        BY <1>0, <1>1, <2>1, <3>1 DEF BindingInv, RunIsBound
    <3>2. CASE q # r
      <4>1. run'[q] = run[q] /\ accepted'[q] = accepted[q]
          BY <1>1, <3>2 DEF ChannelTypeOK
      <4> QED BY <2>1, <4>1 DEF BindingInv, RunIsBound
    <3> QED BY <3>1, <3>2
  <2> QED BY <2>1, <2>2 DEF BindingInv
<1>5. MentionInv'
  <2>1. run[r] # "none" /\ Reaches(r, run'[r]) /\ run'[r] \in RunSteps \ {"none"}
      BY <1>1 DEF EnsureSession, Reaches, RunSteps, Over
  <2> QED BY <1>1, <2>1, RunMoves DEF EnsureSession, rows
<1> QED BY <1>2, <1>3, <1>4, <1>5

LEMMA ConfirmKeeps ==
    ASSUME ChannelInv, NEW r \in Runs, ConfirmSession(r) PROVE ChannelInv'
<1>1. CASE Reaches(r, "failed") /\ UNCHANGED binding
    BY <1>1, RunGoesNowhere DEF ConfirmSession, rows
<1>2. CASE /\ Reaches(r, "done")
           /\ bound[r].registered \/ binding[Target[r]].session = bound[r].session
           /\ binding' = IF bound[r].registered THEN binding
                         ELSE [binding EXCEPT ![Target[r]].registered = TRUE]
  <2> USE DEF ChannelInv
  <2>0. Target[r] \in Pets /\ NoCall \notin Runs
      BY ChannelAssumption
  <2>1. ChannelTypeOK'
    <3>1. binding' \in [Pets -> [session : Runs \cup {NoCall}, registered : BOOLEAN]]
      <4>1. CASE bound[r].registered
          BY <1>2, <4>1 DEF ChannelTypeOK
      <4>2. CASE ~bound[r].registered
        <5>1. binding' = [binding EXCEPT ![Target[r]].registered = TRUE]
            BY <1>2, <4>2
        <5> QED BY <2>0, <5>1 DEF ChannelTypeOK
      <4> QED BY <4>1, <4>2
    <3>2. run' \in [Runs -> RunSteps]
        BY <1>2 DEF ChannelTypeOK, Reaches, RunSteps, Over
    <3> QED BY <3>1, <3>2 DEF ConfirmSession, ChannelTypeOK, sessions
  <2>2. LockInv'
      BY LockKeeps DEF ConfirmSession
  <2>3. \A p \in Pets :
          /\ binding'[p].session = binding[p].session
          /\ binding[p].registered => binding'[p].registered
          /\ binding'[p].registered =>
                binding[p].registered \/ (binding[p].session = bound[r].session)
      BY <1>2, <2>0 DEF ChannelTypeOK, BindingInv, RunIsBound
  <2>4. bound[r].session \in known /\ bound[r].session # NoCall
      BY DEF ConfirmSession, BindingInv, RunIsBound
  <2>5. \A q \in Runs : run'[q] \in {"resolve", "ensure", "confirm"} => run[q] = run'[q]
      BY <1>2 DEF ConfirmSession, ChannelTypeOK, Reaches
  <2>6. BindingInv'
    <3>1. ASSUME NEW q \in Runs PROVE RunIsBound(q)'
      <4>1. Target[q] \in Pets
          BY ChannelAssumption
      <4> QED BY <2>3, <2>5, <4>1 DEF ConfirmSession, BindingInv, RunIsBound, sessions
    <3> QED BY <2>3, <2>4, <3>1 DEF ConfirmSession, BindingInv, sessions
  <2>7. MentionInv'
      BY <1>2, RunMoves DEF ConfirmSession, RunSteps, Over
  <2> QED BY <2>1, <2>2, <2>6, <2>7
<1> QED BY <1>1, <1>2 DEF ConfirmSession

-----------------------------------------------------------------------------
\* Messages of the Pets.

\* A step of a post that inserts nothing and starts nothing.
LEMMA PostMoves ==
    ASSUME ChannelInv, NEW p \in Posts, NEW step \in {"check", "save", "done", "failed"}, Goes(p, step),
           UNCHANGED <<rows, sessions, lock, change, run, bound, accepted, crashes>>
    PROVE  ChannelInv'
<1> USE DEF ChannelInv
<1>1. ChannelTypeOK'
    BY DEF ChannelTypeOK, Goes, rows, sessions, Over
<1>2. LockInv' /\ BindingInv'
    BY LockKeeps, BindingKeeps DEF rows
<1>3. \A q \in Posts : Given(q)' => Given(q)
    BY DEF Given, ChannelTypeOK, Goes
<1>4. MentionInv'
    BY <1>3 DEF MentionInv, rows
<1> QED BY <1>1, <1>2, <1>4

LEMMA StepsOfAPostKeep ==
    ASSUME ChannelInv, NEW p \in Posts, Receive(p) \/ Check(p) \/ RecordFails(p) PROVE ChannelInv'
BY PostMoves DEF Receive, Check, RecordFails

\* The insert: a message that was not there was given to no post before.
LEMMA AppendKeeps ==
    ASSUME ChannelInv, NEW p \in Posts, AppendMessage(p) PROVE ChannelInv'
<1> USE DEF ChannelInv
<1>1. ChannelTypeOK'
    BY DEF AppendMessage, ChannelTypeOK, Goes, sessions, Over
<1>2. LockInv' /\ BindingInv'
    BY LockKeeps, BindingKeeps DEF AppendMessage
<1>3. \A q \in Posts : Given(q)' => Given(q) \/ (q = p /\ Ref[p] \notin messages)
    BY DEF AppendMessage, Given, ChannelTypeOK, Goes
<1>4. messages' = messages \cup {Ref[p]} /\ UNCHANGED <<run, accepted>>
    BY DEF AppendMessage
<1>5. MentionInv'
    BY <1>3, <1>4 DEF MentionInv
<1> QED BY <1>1, <1>2, <1>5

LEMMA DeliverKeeps ==
    ASSUME ChannelInv, NEW p \in Posts, Deliver(p) PROVE ChannelInv'
<1> USE DEF ChannelInv
<1>0. p \in Runs
    BY DEF Runs
<1>1. \/ Reaches(p, "member")
      \/ Reaches(p, "failed")
    BY DEF Deliver
<1>2. ChannelTypeOK'
    BY <1>0, <1>1 DEF Deliver, ChannelTypeOK, Goes, Reaches, rows, sessions, RunSteps, Over
<1>3. LockInv'
    BY LockKeeps DEF Deliver, rows
<1>4. \A q \in Runs : run'[q] \in {"resolve", "ensure", "confirm"} => run[q] = run'[q]
    BY <1>0, <1>1 DEF ChannelTypeOK, Reaches
<1>5. BindingInv'
    BY <1>4 DEF Deliver, BindingInv, RunIsBound, rows, sessions
<1>6. \A q \in Posts : q \in Runs /\ (Given(q)' => Given(q)) /\ (run[q] # "none" => run'[q] # "none")
    BY <1>0, <1>1 DEF Deliver, Given, ChannelTypeOK, Goes, Reaches, Runs
<1>7. MentionInv'
    BY <1>6 DEF Deliver, MentionInv, rows
<1> QED BY <1>2, <1>3, <1>5, <1>7

LEMMA CrashKeeps ==
    ASSUME ChannelInv, Crash PROVE ChannelInv'
<1> USE DEF ChannelInv
<1>1. ChannelTypeOK'
    BY ChannelAssumption DEF Crash, ChannelTypeOK, rows, RunSteps, Over
<1>2. LockInv'
    BY DEF Crash, LockInv, LastHuman, rows, Changes, ChannelTypeOK, Over
<1>3. \A r \in Runs : /\ run'[r] \notin {"resolve", "ensure", "confirm"}
                       /\ run[r] # "none" <=> run'[r] # "none"
    BY DEF Crash, ChannelTypeOK, RunSteps, Over
<1>4. BindingInv'
    BY <1>3 DEF Crash, BindingInv, RunIsBound, rows
<1>5. \A p \in Posts : p \in Runs /\ (Given(p)' => Given(p))
    BY <1>3 DEF Crash, Given, Runs
<1>6. MentionInv'
    BY <1>3, <1>5 DEF Crash, MentionInv, rows
<1> QED BY <1>1, <1>2, <1>4, <1>6

-----------------------------------------------------------------------------
\* Every step of a change, a run or a post, and a crash, keeps it.
THEOREM ChannelInvNext == ChannelInv /\ [ChannelNext]_channelVars => ChannelInv'
<1> SUFFICES ASSUME ChannelInv, [ChannelNext]_channelVars PROVE ChannelInv'
    OBVIOUS
<1>1. CASE UNCHANGED channelVars
    BY <1>1, LockKeeps, BindingKeeps, MentionKeeps DEF channelVars, rows, sessions, calls, ChannelInv, ChannelTypeOK
<1>2. ASSUME NEW m \in Changes, ChangeGoesOn(m) PROVE ChannelInv'
    BY <1>2, LockChannelKeeps, ReadKeeps, WriteKeeps, ChangeFailsKeeps DEF ChangeGoesOn
<1>3. ASSUME NEW r \in Runs, Ask(r) \/ RunGoesOn(r) PROVE ChannelInv'
    BY <1>3, AskKeeps, StepsOfARunKeep, ReserveKeeps, ResolveKeeps, EnsureKeeps, ConfirmKeeps
    DEF RunGoesOn
<1>4. ASSUME NEW p \in Posts, Receive(p) \/ PostGoesOn(p) PROVE ChannelInv'
    BY <1>4, StepsOfAPostKeep, AppendKeeps, DeliverKeeps DEF PostGoesOn
<1> QED BY <1>1, <1>2, <1>3, <1>4, CrashKeeps DEF ChannelNext

\* So it always holds.
THEOREM ChannelInvAlways == ChannelSpec => []ChannelInv
BY ChannelInvInit, ChannelInvNext, PTL DEF ChannelSpec

\* However many additions and removals overlap, are rolled back or are cut off,
\* a Channel keeps a human (channelService.ts, removeMember).
THEOREM LastHumanStays == ChannelSpec => []HumanRemains
BY ChannelInvAlways, PTL DEF ChannelInv, LockInv, HumanRemains

\* Every run a Pet accepts is in the session bound to it, and a session that is
\* registered exists, for any number of first runs, failures and crashes.
THEOREM BindingsStay == ChannelSpec => []BindingsAreKept
<1>1. ChannelInv => BindingsAreKept
  <2> SUFFICES ASSUME ChannelInv PROVE BindingsAreKept
      OBVIOUS
  <2>1. \A r \in Runs : RunIsBound(r) /\ Target[r] \in Pets
      BY ChannelAssumption DEF ChannelInv, BindingInv
  <2> QED BY <2>1 DEF ChannelInv, BindingInv, RunIsBound, BindingsAreKept
<1> QED BY <1>1, ChannelInvAlways, PTL

\* Of all the posts that carry one message, however often and whenever they
\* come, one starts a run, and only once the message is saved.
THEOREM MentionRunsOnce == ChannelSpec => []MentionsRunOnce
<1>1. ChannelInv => MentionsRunOnce
    BY DEF ChannelInv, MentionInv, Given, MentionsRunOnce
<1> QED BY <1>1, ChannelInvAlways, PTL

=============================================================================
