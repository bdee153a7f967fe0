----------------------------- MODULE StudioCore -----------------------------
(***************************************************************************)
(* The life of a Studio: StudioHost makes and unmakes the core             *)
(* (host/StudioHost.ts), the core starts its Plugins one after another and *)
(* stops them in reverse (createStudio.ts), and meanwhile they subscribe   *)
(* to the event bus (studioEventBus.ts), join each other's hooks           *)
(* (studioPluginHooks.ts) and provide context.  Whoever is told to stop    *)
(* may be told at any moment, in the middle of a start too.                *)
(***************************************************************************)
EXTENDS Naturals, Sequences, FiniteSets, SequencesExt

CONSTANTS
    Order,          \* the Plugins, in the order they are configured
    Declared,       \* those that declare a context namespace, and must provide it
    Subscribers,    \* who subscribes: Plugins, and others who have the Studio
    Contributions,  \* contributions to hooks
    OwnerOf, TargetOf,  \* the Plugin that makes one, and the Plugin whose hook it joins
    Events, Activated,  \* bound: each event is published once; Activated: plugins.activated
    NoEvent

Plugins == ToSet(Order)
\* Those with a hook somebody contributes to.
Hooked == {TargetOf[c] : c \in Contributions}
\* The two that stop Plugins and close the core: a failed activation and shutdown.
Closers == {"activation", "shutdown"}

ASSUME CoreAssumption ==
    /\ Order \in Seq(Plugins) /\ IsInjective(Order) /\ Declared \subseteq Plugins
    /\ OwnerOf \in [Contributions -> Plugins] /\ TargetOf \in [Contributions -> Plugins]
    /\ Activated \notin Events /\ NoEvent \notin Events \cup {Activated}

VARIABLES
    init, caps,         \* StudioHost: its initialization, and the capability assembly with the lease
    hostStop,           \* StudioHost.shutdown
    stopped, closed,    \* core: stopped, and eventBusClosed: closeCore was entered
    activation, next,   \* activatePlugins, and the Plugin it comes to
    started,            \* startedPlugins
    coreStop,           \* shutdown of the core
    phase, left,        \* of each closer: how far it is, and the Plugins it still has to stop
    plugin,             \* a Plugin's start and stop
    stops,              \* history: the Plugins stopped, in order
    bus, sub,           \* the bus, and a subscriber's subscription
    queue, handling,    \* its FIFO, and the event its handler works on
    fresh,              \* events not yet published
    provider, joined,   \* hooks: exposed, and contributions: waiting or attached
    context             \* namespaces with a provider

host == <<init, caps, hostStop>>
asking == <<stopped, coreStop>>
starting == <<activation, next, started>>
closing == <<closed, phase, left, stops>>
core == <<asking, starting, closing, plugin>>
deliveries == <<bus, sub, queue, handling, fresh>>
hooks == <<provider, joined>>
\* What Plugins do with the core while they live.
traffic == <<deliveries, hooks, context>>
vars == <<host, core, traffic>>

InitSteps == {"none", "leased", "building", "undoing", "releasing", "ready", "failed"}
ActivationSteps == {"none", "next", "start", "rollback", "active", "failed"}
Phases == {"idle", "plugins", "stop", "registry", "bus", "storage", "over"}

TypeOK ==
    /\ init \in InitSteps /\ caps \in {"none", "held", "releasing", "released"}
    /\ hostStop \in {"no", "waiting", "core", "caps", "over"}
    /\ stopped \in BOOLEAN /\ closed \in BOOLEAN
    /\ activation \in ActivationSteps /\ next \in 1..(Len(Order) + 1)
    /\ started \in Seq(Plugins) /\ stops \in Seq(Plugins)
    /\ coreStop \in {"no", "waiting", "stopping", "over"}
    /\ phase \in [Closers -> Phases] /\ left \in [Closers -> Seq(Plugins)]
    /\ plugin \in [Plugins -> [start : {"no", "running", "failed", "over"},
                               stop : {"no", "running", "over"}]]
    /\ bus \in {"open", "closing", "closed"}
    /\ sub \in [Subscribers -> {"none", "active", "released"}]
    /\ queue \in [Subscribers -> Seq(Events \cup {Activated})]
    /\ handling \in [Subscribers -> Events \cup {Activated, NoEvent}]
    /\ fresh \subseteq Events
    /\ provider \in [Plugins -> {"none", "exposed", "removed"}]
    /\ joined \in [Contributions -> {"none", "waiting", "attached", "removed"}]
    /\ context \subseteq Plugins

-----------------------------------------------------------------------------
\* What releases what.

Works(p) == plugin[p].start # "no" /\ plugin[p].stop # "over"
MaySubscribe(s) == IF s \in Plugins THEN Works(s) ELSE init = "ready"
\* releaseOwner, for those in `owners`.
Release(owners) == [s \in Subscribers |->
    IF s \in owners /\ sub[s] = "active" THEN "released" ELSE sub[s]]

\* removeProvider detaches what is attached to the hook; it may attach again.
Detached(p) == [c \in Contributions |->
    IF TargetOf[c] = p /\ joined[c] = "attached" THEN "waiting" ELSE joined[c]]

\* releasePlugin: first what the Plugin contributed, then what it exposed.
ReleaseHooks(p) ==
    /\ joined' = [c \in Contributions |->
                    IF OwnerOf[c] = p /\ joined[c] # "none" THEN "removed" ELSE Detached(p)[c]]
    /\ provider' = [provider EXCEPT ![p] = IF @ = "exposed" THEN "removed" ELSE @]

CoreOver == coreStop = "over" \/ activation = "failed"

-----------------------------------------------------------------------------
\* The Host.

Acquire ==
    /\ init = "none" /\ hostStop = "no"
    /\ \/ init' = "leased" /\ caps' = "held"
       \/ init' = "failed" /\ UNCHANGED caps
    /\ UNCHANGED <<hostStop, core, traffic>>

\* Configuration, capabilities and Pet definitions; any of it may throw.
Configure ==
    /\ init = "leased"
    /\ \/ init' = "building" /\ UNCHANGED caps
       \/ init' = "releasing" /\ caps' = "releasing"
    /\ UNCHANGED <<hostStop, core, traffic>>

\* The core's shutdown is called; calls after the first share its promise.
CallShutdown ==
    IF coreStop = "no" THEN coreStop' = "waiting" /\ stopped' = TRUE ELSE UNCHANGED asking

\* buildStudio restores the Pets and shuts the core down when that fails.
BuildStudio ==
    /\ init = "building"
    /\ \/ init' = "ready" /\ UNCHANGED asking
       \/ init' = "undoing" /\ CallShutdown
    /\ UNCHANGED <<caps, hostStop, starting, closing, plugin, traffic>>

UndoBuild ==
    /\ init = "undoing" /\ coreStop = "over"
    /\ init' = "releasing" /\ caps' = "releasing"
    /\ UNCHANGED <<hostStop, core, traffic>>

CapsReleased ==
    /\ caps = "releasing" /\ caps' = "released"
    /\ IF init = "releasing" THEN init' = "failed" /\ UNCHANGED hostStop
                             ELSE hostStop' = "over" /\ UNCHANGED init
    /\ UNCHANGED <<core, traffic>>

HostShutdown ==
    /\ hostStop = "no" /\ hostStop' = "waiting"
    /\ UNCHANGED <<init, caps, core, traffic>>

\* performShutdown waits for initialization and activation, then for the core.
HostStopsCore ==
    /\ hostStop = "waiting" /\ hostStop' = "core"
    /\ init \in {"none", "ready", "failed"}
    /\ activation \in {"none", "active", "failed"}
    /\ IF init = "ready" THEN CallShutdown ELSE UNCHANGED asking
    /\ UNCHANGED <<init, caps, starting, closing, plugin, traffic>>

HostStopsCaps ==
    /\ hostStop = "core" /\ (init = "ready" => coreStop = "over")
    /\ IF caps = "held" THEN caps' = "releasing" /\ hostStop' = "caps"
                        ELSE hostStop' = "over" /\ UNCHANGED caps
    /\ UNCHANGED <<init, core, traffic>>

\* Whoever was given the Studio may shut it down past its Host.
StudioShutdown ==
    /\ init = "ready" /\ coreStop = "no"
    /\ CallShutdown
    /\ UNCHANGED <<host, starting, closing, plugin, traffic>>

-----------------------------------------------------------------------------
\* Activation.

Activate ==
    /\ init = "ready" /\ hostStop = "no" /\ ~stopped /\ activation = "none"
    /\ activation' = "next"
    /\ UNCHANGED <<host, asking, next, started, closing, plugin, traffic>>

\* Stopping what was started begins: the list is taken over, latest first.
StopAll(by) ==
    /\ left' = [left EXCEPT ![by] = Reverse(started)] /\ started' = <<>>
    /\ phase' = [phase EXCEPT ![by] = "plugins"]
    /\ UNCHANGED <<closed, stops>>

RollBack == activation' = "rollback" /\ stopped' = TRUE /\ StopAll("activation")

StartNext ==
    /\ activation = "next" /\ next <= Len(Order) /\ ~stopped
    /\ started' = Append(started, Order[next])
    /\ plugin' = [plugin EXCEPT ![Order[next]].start = "running"]
    /\ activation' = "start"
    /\ UNCHANGED <<host, asking, next, closing, traffic>>

\* Shutdown has begun while an earlier Plugin was starting.
RefuseNext ==
    /\ activation = "next" /\ next <= Len(Order) /\ stopped
    /\ RollBack
    /\ UNCHANGED <<host, next, coreStop, plugin, traffic>>

Started(p, how) ==
    /\ activation = "start" /\ Order[next] = p
    /\ plugin' = [plugin EXCEPT ![p].start = how]

\* A Plugin that declares a namespace must have provided it by the end of its start.
StartReturns(p) ==
    /\ Started(p, "over") /\ (p \in Declared => p \in context)
    /\ activation' = "next" /\ next' = next + 1
    /\ UNCHANGED <<host, asking, started, closing, traffic>>

StartFails(p) ==
    /\ \/ Started(p, "failed")
       \/ p \in Declared \ context /\ Started(p, "over")
    /\ RollBack
    /\ UNCHANGED <<host, next, coreStop, traffic>>

\* Every active subscriber queues the event.
Publish(e) ==
    /\ bus = "open"
    /\ queue' = [s \in Subscribers |-> IF sub[s] = "active" THEN Append(queue[s], e) ELSE queue[s]]
    /\ UNCHANGED <<bus, sub, handling>>

Activates ==
    /\ activation = "next" /\ next > Len(Order)
    /\ Publish(Activated)
    /\ activation' = "active"
    /\ UNCHANGED <<host, asking, next, started, closing, plugin, fresh, hooks, context>>

-----------------------------------------------------------------------------
\* Stopping the Plugins and closing the core.

\* Bug: shutdown does not wait for the activation.
ShutdownProceedsAtOnce ==
    /\ coreStop = "waiting" /\ coreStop' = "stopping"
    /\ StopAll("shutdown")
    /\ UNCHANGED <<host, stopped, activation, next, plugin, traffic>>

ShutdownProceeds ==
    /\ coreStop = "waiting" /\ activation \in {"none", "active", "failed"}
    /\ coreStop' = "stopping"
    /\ StopAll("shutdown")
    /\ UNCHANGED <<host, stopped, activation, next, plugin, traffic>>

StopNext(by) ==
    /\ phase[by] = "plugins" /\ left[by] # <<>>
    /\ sub' = Release({Head(left[by])})
    /\ plugin' = [plugin EXCEPT ![Head(left[by])].stop = "running"]
    /\ phase' = [phase EXCEPT ![by] = "stop"]
    /\ UNCHANGED <<host, asking, starting, closed, left, stops, bus, queue, handling, fresh, hooks,
                   context>>

\* Bug: what a Plugin subscribes while it stops is left.
StopReturnsUnreleased(by) ==
    LET p == Head(left[by]) IN
    /\ phase[by] = "stop"
    /\ plugin' = [plugin EXCEPT ![p].stop = "over"] /\ stops' = Append(stops, p)
    /\ context' = context \ {p} /\ ReleaseHooks(p)
    /\ left' = [left EXCEPT ![by] = Tail(@)] /\ phase' = [phase EXCEPT ![by] = "plugins"]
    /\ UNCHANGED <<host, asking, starting, closed, deliveries>>

\* A stop that throws is logged, and all the same the Plugin's traces go.
StopReturns(by) ==
    LET p == Head(left[by]) IN
    /\ phase[by] = "stop"
    /\ plugin' = [plugin EXCEPT ![p].stop = "over"] /\ stops' = Append(stops, p)
    /\ context' = context \ {p} /\ sub' = Release({p}) /\ ReleaseHooks(p)
    /\ left' = [left EXCEPT ![by] = Tail(@)] /\ phase' = [phase EXCEPT ![by] = "plugins"]
    /\ UNCHANGED <<host, asking, starting, closed, bus, queue, handling, fresh>>

CloserEnds(by) ==
    IF by = "activation" THEN activation' = "failed" /\ UNCHANGED coreStop
                         ELSE coreStop' = "over" /\ UNCHANGED activation

\* closeCore returns at once to whoever comes second.
CloseCore(by) ==
    /\ phase[by] = "plugins" /\ left[by] = <<>>
    /\ closed' = TRUE
    /\ IF closed THEN phase' = [phase EXCEPT ![by] = "over"] /\ CloserEnds(by)
                 ELSE phase' = [phase EXCEPT ![by] = "registry"] /\ UNCHANGED <<activation, coreStop>>
    /\ UNCHANGED <<host, stopped, next, started, left, stops, plugin, traffic>>

RegistryCloses(by) ==
    /\ phase[by] = "registry" /\ phase' = [phase EXCEPT ![by] = "bus"]
    /\ bus' = "closing"
    /\ UNCHANGED <<host, asking, starting, closed, left, stops, plugin, sub, queue, handling, fresh,
                   hooks, context>>

\* Bug: the bus waits for its subscribers to work their queues off.
BusClosesDrained(by) ==
    /\ phase[by] = "bus" /\ phase' = [phase EXCEPT ![by] = "storage"]
    /\ \A s \in Subscribers : handling[s] = NoEvent /\ (sub[s] = "active" => queue[s] = <<>>)
    /\ bus' = "closed"
    /\ sub' = Release(Subscribers) /\ context' = {}
    /\ UNCHANGED <<host, asking, starting, closed, left, stops, plugin, queue, handling, fresh,
                   hooks>>

\* The bus waits for its publications only, not for the subscribers' handlers.
BusCloses(by) ==
    /\ phase[by] = "bus" /\ phase' = [phase EXCEPT ![by] = "storage"]
    /\ bus' = "closed"
    /\ sub' = Release(Subscribers) /\ context' = {}
    /\ UNCHANGED <<host, asking, starting, closed, left, stops, plugin, queue, handling, fresh,
                   hooks>>

StorageCloses(by) ==
    /\ phase[by] = "storage" /\ phase' = [phase EXCEPT ![by] = "over"]
    /\ CloserEnds(by)
    /\ UNCHANGED <<host, stopped, next, started, closed, left, stops, plugin, traffic>>

-----------------------------------------------------------------------------
\* What a Plugin does from the beginning of its start to the end of its stop, or a
\* caller with the Studio; bound: each subscribes, exposes and contributes once.

Subscribe(s) ==
    /\ bus = "open" /\ sub[s] = "none" /\ MaySubscribe(s)
    /\ sub' = [sub EXCEPT ![s] = "active"]
    /\ UNCHANGED <<host, core, bus, queue, handling, fresh, hooks, context>>

Unsubscribe(s) ==
    /\ sub[s] = "active" /\ MaySubscribe(s)
    /\ sub' = Release({s})
    /\ UNCHANGED <<host, core, bus, queue, handling, fresh, hooks, context>>

\* A Plugin, a Pet or the core itself has something to tell, until the bus closes.
Notify(e) ==
    /\ e \in fresh /\ init = "ready" /\ Publish(e)
    /\ fresh' = fresh \ {e}
    /\ UNCHANGED <<host, core, hooks, context>>

\* A released subscriber's queue runs dry.
Handle(s) ==
    /\ handling[s] = NoEvent /\ queue[s] # <<>>
    /\ handling' = [handling EXCEPT ![s] = IF sub[s] = "active" THEN Head(queue[s]) ELSE NoEvent]
    /\ queue' = [queue EXCEPT ![s] = Tail(@)]
    /\ UNCHANGED <<host, core, bus, sub, fresh, hooks, context>>

Handled(s) ==
    /\ handling[s] # NoEvent
    /\ handling' = [handling EXCEPT ![s] = NoEvent]
    /\ UNCHANGED <<host, core, bus, sub, queue, fresh, hooks, context>>

\* Bug: a hook takes only the contributions that come after it.
ExposeAlone(p) ==
    /\ Works(p) /\ p \in Hooked /\ provider[p] = "none"
    /\ provider' = [provider EXCEPT ![p] = "exposed"]
    /\ UNCHANGED <<host, core, deliveries, joined, context>>

\* All that waits for the hook is installed; an installer that throws takes the
\* others with it, and the hook, so nothing changes then.
Expose(p) ==
    /\ Works(p) /\ p \in Hooked /\ provider[p] = "none"
    /\ provider' = [provider EXCEPT ![p] = "exposed"]
    /\ joined' = [c \in Contributions |->
                    IF TargetOf[c] = p /\ joined[c] = "waiting" THEN "attached" ELSE joined[c]]
    /\ UNCHANGED <<host, core, deliveries, context>>

Unexpose(p) ==
    /\ Works(p) /\ provider[p] = "exposed"
    /\ provider' = [provider EXCEPT ![p] = "removed"] /\ joined' = Detached(p)
    /\ UNCHANGED <<host, core, deliveries, context>>

Contribute(c) ==
    /\ Works(OwnerOf[c]) /\ joined[c] = "none"
    /\ joined' = [joined EXCEPT ![c] =
                    IF provider[TargetOf[c]] = "exposed" THEN "attached" ELSE "waiting"]
    /\ UNCHANGED <<host, core, deliveries, provider, context>>

Withdraw(c) ==
    /\ Works(OwnerOf[c]) /\ joined[c] \in {"waiting", "attached"}
    /\ joined' = [joined EXCEPT ![c] = "removed"]
    /\ UNCHANGED <<host, core, deliveries, provider, context>>

Provide(p) ==
    /\ Works(p) /\ p \in Declared \ context /\ ~stopped
    /\ context' = context \cup {p}
    /\ UNCHANGED <<host, core, deliveries, hooks>>

Unprovide(p) ==
    /\ Works(p) /\ p \in context
    /\ context' = context \ {p}
    /\ UNCHANGED <<host, core, deliveries, hooks>>

-----------------------------------------------------------------------------
Init ==
    /\ init = "none" /\ caps = "none" /\ hostStop = "no"
    /\ stopped = FALSE /\ closed = FALSE /\ activation = "none" /\ next = 1 /\ started = <<>>
    /\ coreStop = "no" /\ phase = [by \in Closers |-> "idle"] /\ left = [by \in Closers |-> <<>>]
    /\ plugin = [p \in Plugins |-> [start |-> "no", stop |-> "no"]] /\ stops = <<>>
    /\ bus = "open" /\ sub = [s \in Subscribers |-> "none"]
    /\ queue = [s \in Subscribers |-> <<>>] /\ handling = [s \in Subscribers |-> NoEvent]
    /\ fresh = Events
    /\ provider = [p \in Plugins |-> "none"] /\ joined = [c \in Contributions |-> "none"]
    /\ context = {}

Closes(by) ==
    \/ StopNext(by) \/ StopReturns(by) \/ CloseCore(by)
    \/ RegistryCloses(by) \/ BusCloses(by) \/ StorageCloses(by)

HostSteps ==
    \/ Acquire \/ Configure \/ BuildStudio \/ UndoBuild \/ CapsReleased
    \/ HostStopsCore \/ HostStopsCaps

CoreSteps ==
    \/ StartNext \/ RefuseNext \/ Activates \/ ShutdownProceeds
    \/ \E p \in Plugins : StartReturns(p) \/ StartFails(p)
    \/ \E by \in Closers : Closes(by)

PluginSteps ==
    \/ \E s \in Subscribers : Subscribe(s) \/ Unsubscribe(s) \/ Handle(s) \/ Handled(s)
    \/ \E e \in Events : Notify(e)
    \/ \E p \in Plugins : Expose(p) \/ Unexpose(p) \/ Provide(p) \/ Unprovide(p)
    \/ \E c \in Contributions : Contribute(c) \/ Withdraw(c)

Next == HostSteps \/ CoreSteps \/ PluginSteps \/ HostShutdown \/ StudioShutdown \/ Activate

Spec == Init /\ [][Next]_vars

\* What was called returns: the Host's own steps and the core's, and every start
\* and stop of a Plugin.  Nobody has to call, and no handler has to return.
FairSpec == Spec /\ WF_vars(HostSteps) /\ WF_vars(CoreSteps)

-----------------------------------------------------------------------------
\* Each Plugin's start is over by the time it is told to stop, and those whose
\* start was called, the first n, stop in the reverse of that order.
StopsMirrorStarts ==
    /\ \A p \in Plugins : plugin[p].stop # "no" => plugin[p].start \in {"over", "failed"}
    /\ \A p \in Plugins : plugin[p].start = "running" => stops = <<>>
    /\ \E n \in 0..Len(Order) :
          /\ \A i \in 1..Len(Order) : plugin[Order[i]].start # "no" <=> i <= n
          /\ Len(stops) <= n /\ \A i \in 1..Len(stops) : stops[i] = Order[n + 1 - i]

\* Once the core is closed, by a failed activation or by shutdown, every Plugin
\* whose start was called has been stopped and is without subscription, hook,
\* contribution and context provider; and the Host lets go of its capabilities,
\* and with them of the lease, no earlier.
NothingOutlivesTheCore ==
    /\ TypeOK /\ StopsMirrorStarts
    /\ CoreOver =>
        /\ closed /\ bus = "closed" /\ context = {}
        /\ \A p \in Plugins : plugin[p].start # "no" => plugin[p].stop = "over"
        /\ \A s \in Subscribers : sub[s] # "active"
        /\ \A p \in Plugins : provider[p] # "exposed"
        /\ \A c \in Contributions : joined[c] \notin {"waiting", "attached"}
    /\ caps \in {"releasing", "released"} => CoreOver \/ (init \in {"releasing", "failed"} /\ ~stopped)

\* Whatever the order in which Plugins expose hooks, contribute to them, take
\* either back and stop: a contribution is installed exactly while the hook it
\* is for is exposed.
HooksAreJoined ==
    \A c \in Contributions : joined[c] \in {"waiting", "attached"} =>
        (joined[c] = "attached" <=> provider[TargetOf[c]] = "exposed")

\* No handler begins for a Plugin whose stop has returned, whatever was queued
\* for it or subscribed in the middle of its stop.
StoppedPluginsHearNothing ==
    [][\A p \in Plugins \cap Subscribers :
            plugin[p].stop = "over" /\ handling[p] = NoEvent => handling'[p] = NoEvent]_vars

\* A Host that is told to stop lets go of what it holds, whenever it is told and
\* whichever handlers never return; and a core that fails to activate closes.
ShutdownSettles ==
    /\ hostStop = "waiting" ~> (hostStop = "over" /\ caps # "held")
    /\ stopped ~> CoreOver
=============================================================================
