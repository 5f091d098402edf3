----------------------- MODULE RegistryExecutorsProofs -----------------------
(***************************************************************************)
(* The registry: adding and removing executors and job stores at any time  *)
(* leaves none started in a stopped scheduler, none unasked and, but for   *)
(* those that slip in while start() is at work, none unstarted, for any    *)
(* aliases and any number of calls and lives.                              *)
(*                                                                         *)
(* An executor: its instance counters are exact, max_instances is kept and *)
(* listeners hear of a submission when it is over, for every kind of       *)
(* executor and every number of jobs, futures and workers.                 *)
(***************************************************************************)
EXTENDS Registry, Executors, FiniteSetTheorems, TLAPS

-----------------------------------------------------------------------------
(* The registry.                                                             *)

(* Types.  The due jobs of a round are in the store because a round holds    *)
(* the lock on it, and between two lives there is no loop.                   *)

DueOK == due # {} => loop = "round"

\* start(), until it sets the state, configure() and shutdown() are under way in
\* a stopped scheduler.
OwnerStopped ==
    /\ owner \notin {"idle", "launching", "resuming"} => state = "stopped"
    /\ owner \in {"launching", "resuming"} => state # "stopped"

\* The loop of a life has ended before the next life begins.
LoopGone ==
    /\ /\ state = "stopped"
       /\ owner \in {"idle", "configuring", "configuringStores", "executors", "stores"}
       => loop = "none"
    /\ owner = "launching" => loop = "none"

Shape == RegistryTypeOK /\ DueOK /\ OwnerStopped /\ LoopGone

LEMMA InitShape == RegistryInit => Shape
<1> SUFFICES ASSUME RegistryInit PROVE Shape
    OBVIOUS
<1>1. \A plugins \in [Aliases -> {"absent", "new"}] : plugins \in [Aliases -> Status]
    BY DEF Status
<1>2. executors \in [Aliases -> Status] /\ stores \in [Aliases -> Status]
    BY <1>1 DEF RegistryInit
<1> QED BY <1>2 DEF RegistryInit, Shape, RegistryTypeOK, DueOK, OwnerStopped, LoopGone

\* What start() and shutdown() make of the plugins.
LEMMA PluginType ==
    ASSUME NEW plugins \in [Aliases -> Status]
    PROVE  /\ WithDefault(plugins) \in [Aliases -> Status]
           /\ ExecutorsStarted(plugins) \in [Aliases -> Status]
           /\ StoresStarted(plugins) \in [Aliases -> Status]
           /\ AllShut(plugins) \in [Aliases -> Status]
           /\ Present(plugins) \subseteq Aliases
BY RegistryAssumption
DEF WithDefault, ExecutorsStarted, StoresStarted, AllShut, Present, Status

LEMMA OwnerShape ==
    ASSUME Shape, Owner
    PROVE  Shape'
<1> USE RegistryAssumption, PluginType
    DEF Shape, RegistryTypeOK, DueOK, OwnerStopped, LoopGone, registry, loopVars, history, bounds,
        Call, Status
<1>1. CASE OwnerClears
    BY <1>1 DEF OwnerClears
<1>2. ASSUME NEW a \in Aliases, OwnerAddsExecutor(a) \/ OwnerAddsStore(a) PROVE Shape'
    BY <1>2 DEF OwnerAddsExecutor, OwnerAddsStore
<1>3. CASE OwnerStarts
    <2>1. executors' \in [Aliases -> Status]
        BY <1>3 DEF OwnerStarts
    <2>2. starts' \in Nat /\ late' = {} /\ owner' = "executors"
        BY <1>3 DEF OwnerStarts
    <2>3. due' = {} /\ jobs' = jobs /\ loop' = "none"
        BY <1>3 DEF OwnerStarts
    <2> HIDE PluginType DEF Status
    <2> QED BY <1>3, <2>1, <2>2, <2>3 DEF OwnerStarts
<1>4. CASE OwnerStartsStores
    BY <1>4 DEF OwnerStartsStores
<1>5. ASSUME NEW paused \in BOOLEAN, OwnerLaunches(paused) PROVE Shape'
    BY <1>5 DEF OwnerLaunches
<1>6. CASE OwnerPauses
    BY <1>6 DEF OwnerPauses
<1>7. CASE OwnerResumes
    BY <1>7 DEF OwnerResumes
<1>8. CASE OwnerStops
    BY <1>8 DEF OwnerStops
<1>9. CASE OwnerLocks
    BY <1>9 DEF OwnerLocks
<1>10. CASE OwnerShuts
    BY <1>10 DEF OwnerShuts, StoresFree
<1>11. CASE OwnerJoins
    BY <1>11 DEF OwnerJoins
<1>12. CASE OwnerClearsStores
    BY <1>12 DEF OwnerClearsStores
<1>13. CASE OwnerConfigured
    BY <1>13 DEF OwnerConfigured
<1>14. CASE OwnerBegins
    BY <1>14 DEF OwnerBegins
<1>15. CASE OwnerWakes
    BY <1>15 DEF OwnerWakes
<1> QED BY <1>1, <1>2, <1>3, <1>4, <1>5, <1>6, <1>7, <1>8, <1>9, <1>10, <1>11, <1>12, <1>13,
           <1>14, <1>15 DEF Owner

LEMMA ClientShape ==
    ASSUME Shape, Client
    PROVE  Shape'
<1> USE RegistryAssumption
    DEF Shape, RegistryTypeOK, DueOK, OwnerStopped, LoopGone, registry, loopVars, history, bounds,
        Call, Status, StoresFree
<1>1. CASE AddingEnds
    BY <1>1 DEF AddingEnds, Plugin
<1>2. CASE Notify
    BY <1>2 DEF Notify, NotifiedEvent, Live
<1>3. ASSUME NEW a \in Aliases, AddExecutor(a) PROVE Shape'
    BY <1>3 DEF AddExecutor
<1>4. ASSUME NEW a \in Aliases, RemoveExecutor(a) PROVE Shape'
    BY <1>4 DEF RemoveExecutor
<1>5. ASSUME NEW a \in Aliases, AddJobstore(a) PROVE Shape'
    BY <1>5 DEF AddJobstore, Plugin
<1>6. ASSUME NEW a \in Aliases, RemoveJobstore(a) PROVE Shape'
    BY <1>6 DEF RemoveJobstore
<1>7. ASSUME NEW a \in Aliases, AddJob(a) PROVE Shape'
    BY <1>7 DEF AddJob
<1>8. ASSUME NEW a \in Aliases, RemoveJob(a) PROVE Shape'
    BY <1>8 DEF RemoveJob
<1> QED BY <1>1, <1>2, <1>3, <1>4, <1>5, <1>6, <1>7, <1>8 DEF Client

LEMMA LoopShape ==
    ASSUME Shape, Loop
    PROVE  Shape'
<1> USE DEF Shape, RegistryTypeOK, DueOK, OwnerStopped, LoopGone, registry, history, bounds
<1>1. CASE LoopExits
    BY <1>1 DEF LoopExits
<1>2. CASE LoopWakes
    BY <1>2 DEF LoopWakes
<1>3. CASE LoopSkips
    BY <1>3 DEF LoopSkips
<1>4. CASE LoopAsks
    BY <1>4 DEF LoopAsks
<1>5. CASE LoopReleases
    BY <1>5 DEF LoopReleases
<1>6. ASSUME NEW a \in Aliases, LoopSubmits(a) PROVE Shape'
    BY <1>6 DEF LoopSubmits
<1>7. ASSUME NEW a \in Aliases, LoopDrops(a) PROVE Shape'
    BY <1>7 DEF LoopDrops
<1>8. ASSUME NEW a \in Aliases, LoopStumbles(a) PROVE Shape'
    BY <1>8 DEF LoopStumbles
<1> QED BY <1>1, <1>2, <1>3, <1>4, <1>5, <1>6, <1>7, <1>8 DEF Loop

LEMMA NextShape ==
    ASSUME Shape, [RegistryNext]_registryVars
    PROVE  Shape'
<1>1. CASE UNCHANGED registryVars
    BY <1>1 DEF registryVars, Shape, RegistryTypeOK, DueOK, OwnerStopped, LoopGone
<1> QED BY <1>1, OwnerShape, ClientShape, LoopShape DEF RegistryNext

LEMMA ShapeInvariant == RegistrySpec => []Shape
BY InitShape, NextShape, PTL DEF RegistrySpec

\* Every state has its type, and the due jobs of a round are in the store.
THEOREM RegistryTypeInvariant == RegistrySpec => []RegistryTypeOK
<1>1. Shape => RegistryTypeOK
    BY DEF Shape
<1> QED BY <1>1, ShapeInvariant, PTL

-----------------------------------------------------------------------------
(* shutdown() leaves nothing started.                                        *)

LEMMA NothingLeftStartedStep ==
    ASSUME Shape, NothingLeftStarted, [RegistryNext]_registryVars
    PROVE  NothingLeftStarted'
<1> USE DEF NothingLeftStarted, Shape, RegistryTypeOK, OwnerStopped, registry
<1>1. CASE Owner
    <2>1. ASSUME NEW a \in Aliases, OwnerAddsExecutor(a) \/ OwnerAddsStore(a)
          PROVE  NothingLeftStarted'
        BY <2>1 DEF OwnerAddsExecutor, OwnerAddsStore
    <2>2. ASSUME NEW paused \in BOOLEAN, OwnerLaunches(paused) PROVE NothingLeftStarted'
        BY <2>2 DEF OwnerLaunches
    <2>3. CASE OwnerShuts
        BY <2>3 DEF OwnerShuts, AllShut
    <2> QED BY <1>1, <2>1, <2>2, <2>3
        DEF Owner, OwnerBegins, OwnerWakes, OwnerClears, OwnerClearsStores, OwnerConfigured,
            OwnerStarts, OwnerStartsStores, OwnerPauses,
            OwnerResumes, OwnerStops, OwnerLocks, OwnerJoins
<1>2. CASE Client
    <2>1. CASE AddingEnds
        BY <2>1 DEF AddingEnds, Live
    <2>2. ASSUME NEW a \in Aliases, AddJobstore(a) PROVE NothingLeftStarted'
        BY <2>2 DEF AddJobstore, Live
    <2> QED BY <1>2, <2>1, <2>2
        DEF Client, Notify, AddExecutor, RemoveExecutor, RemoveJobstore, AddJob, RemoveJob
<1>3. CASE Loop
    BY <1>3 DEF Loop, LoopExits, LoopWakes, LoopSkips, LoopAsks, LoopReleases,
                LoopSubmits, LoopDrops, LoopStumbles
<1>4. CASE UNCHANGED registryVars
    BY <1>4 DEF registryVars
<1> QED BY <1>1, <1>2, <1>3, <1>4 DEF RegistryNext

\* No plugin is left started in a stopped scheduler, whenever it was added.
THEOREM NothingLeftStartedHolds == RegistrySpec => []NothingLeftStarted
<1>1. RegistryInit => NothingLeftStarted
    BY DEF RegistryInit, NothingLeftStarted
<1> QED BY <1>1, NothingLeftStartedStep, ShapeInvariant, PTL DEF RegistrySpec

-----------------------------------------------------------------------------
(* start() goes through the executors, then through the stores: what is new   *)
(* behind it is being added, or late.                                        *)

ExecutorsDone ==
    \A a \in Aliases :
        executors[a] = "new" => adding = a \/ <<"executor", a>> \in late

StoresDone == \A a \in Aliases : stores[a] = "new" => <<"jobstore", a>> \in late

Passed ==
    /\ Live \/ owner \in {"executors", "stores"} => ExecutorsDone
    /\ Live \/ owner = "stores" => StoresDone

LEMMA PassedStep ==
    ASSUME Shape, Passed, [RegistryNext]_registryVars
    PROVE  Passed'
<1> USE DEF Passed, ExecutorsDone, StoresDone, Live, Shape, RegistryTypeOK, OwnerStopped,
            registry, history
<1>1. CASE Owner
    <2>1. CASE OwnerStarts
        BY <2>1 DEF OwnerStarts, ExecutorsStarted
    <2>2. CASE OwnerStartsStores
        BY <2>2 DEF OwnerStartsStores, StoresStarted
    <2>3. ASSUME NEW a \in Aliases, OwnerAddsExecutor(a) \/ OwnerAddsStore(a)
          PROVE  Passed'
        BY <2>3 DEF OwnerAddsExecutor, OwnerAddsStore
    <2>4. ASSUME NEW paused \in BOOLEAN, OwnerLaunches(paused) PROVE Passed'
        BY <2>4 DEF OwnerLaunches
    <2>5. CASE OwnerShuts
        BY <2>5 DEF OwnerShuts
    <2> QED BY <1>1, <2>1, <2>2, <2>3, <2>4, <2>5
        DEF Owner, OwnerBegins, OwnerWakes, OwnerClears, OwnerClearsStores, OwnerConfigured,
            OwnerPauses, OwnerResumes, OwnerStops, OwnerLocks, OwnerJoins
<1>2. CASE Client
    <2>1. CASE AddingEnds
        BY <2>1 DEF AddingEnds, PassedBy
    <2>2. ASSUME NEW a \in Aliases, AddExecutor(a) PROVE Passed'
        BY <2>2, RegistryAssumption DEF AddExecutor, ExecutorsFree
    <2>3. ASSUME NEW a \in Aliases, RemoveExecutor(a) PROVE Passed'
        BY <2>3 DEF RemoveExecutor
    <2>4. ASSUME NEW a \in Aliases, AddJobstore(a) PROVE Passed'
        BY <2>4 DEF AddJobstore, PassedBy
    <2>5. ASSUME NEW a \in Aliases, RemoveJobstore(a) PROVE Passed'
        BY <2>5 DEF RemoveJobstore
    <2> QED BY <1>2, <2>1, <2>2, <2>3, <2>4, <2>5 DEF Client, Notify, AddJob, RemoveJob
<1>3. CASE Loop
    BY <1>3 DEF Loop, LoopExits, LoopWakes, LoopSkips, LoopAsks, LoopReleases,
                LoopSubmits, LoopDrops, LoopStumbles
<1>4. CASE UNCHANGED registryVars
    BY <1>4 DEF registryVars
<1> QED BY <1>1, <1>2, <1>3, <1>4 DEF RegistryNext

\* In a scheduler that is started every executor and store is, but for those
\* that are being added or were added while start() was at work.
THEOREM StartedUnlessLateHolds == RegistrySpec => []StartedUnlessLate
<1>1. RegistryInit => Passed
    BY DEF RegistryInit, Passed, Live
<1>2. Passed => StartedUnlessLate
    BY DEF Passed, ExecutorsDone, StoresDone, Live, StartedUnlessLate
<1> QED BY <1>1, <1>2, PassedStep, ShapeInvariant, PTL DEF RegistrySpec

-----------------------------------------------------------------------------
(* A store that is added while the loop sleeps leaves a trace until a round   *)
(* asks it: the call that adds it is not over, or the event is set.           *)

Traced ==
    /\ loop = "round" => unasked = {}
    /\ state = "running" /\ loop = "idle" /\ owner # "resuming" =>
          unasked = {} \/ event \/ notifying > 0

LEMMA TracedStep ==
    ASSUME Shape, Traced, [RegistryNext]_registryVars
    PROVE  Traced'
<1> USE DEF Traced, Shape, RegistryTypeOK, OwnerStopped, LoopGone, registry, loopVars,
            history
<1>1. CASE Owner
    <2>1. CASE OwnerStartsStores
        BY <2>1 DEF OwnerStartsStores, StoresFree
    <2>2. ASSUME NEW a \in Aliases, OwnerAddsExecutor(a) \/ OwnerAddsStore(a)
          PROVE  Traced'
        BY <2>2 DEF OwnerAddsExecutor, OwnerAddsStore
    <2>3. ASSUME NEW paused \in BOOLEAN, OwnerLaunches(paused) PROVE Traced'
        BY <2>3 DEF OwnerLaunches
    <2> QED BY <1>1, <2>1, <2>2, <2>3
        DEF Owner, OwnerBegins, OwnerWakes, OwnerClears, OwnerClearsStores, OwnerConfigured,
            OwnerStarts, OwnerPauses, OwnerResumes, OwnerStops,
            OwnerLocks, OwnerShuts, OwnerJoins
<1>2. CASE Client
    <2>1. CASE Notify
        BY <2>1 DEF Notify, NotifiedEvent, Live
    <2>2. ASSUME NEW a \in Aliases, AddJobstore(a) PROVE Traced'
        BY <2>2 DEF AddJobstore, StoresFree
    <2>3. ASSUME NEW a \in Aliases, RemoveJobstore(a) PROVE Traced'
        BY <2>3 DEF RemoveJobstore
    <2> QED BY <1>2, <2>1, <2>2, <2>3
        DEF Client, AddingEnds, AddExecutor, RemoveExecutor, AddJob, RemoveJob
<1>3. CASE Loop
    BY <1>3 DEF Loop, LoopExits, LoopWakes, LoopSkips, LoopAsks, LoopReleases,
                LoopSubmits, LoopDrops, LoopStumbles
<1>4. CASE UNCHANGED registryVars
    BY <1>4 DEF registryVars
<1> QED BY <1>1, <1>2, <1>3, <1>4 DEF RegistryNext

\* The loop of a running scheduler never sleeps on a store it has not asked.
THEOREM NewStoreAskedHolds == RegistrySpec => []NewStoreAsked
<1>1. RegistryInit => Traced
    BY DEF RegistryInit, Traced
<1>2. Shape /\ Traced => NewStoreAsked
    BY DEF Shape, RegistryTypeOK, Traced, NewStoreAsked
<1> QED BY <1>1, <1>2, TracedStep, ShapeInvariant, PTL DEF RegistrySpec

-----------------------------------------------------------------------------
(* An executor.                                                              *)

\* The types of the variables, but for the bounds of the counters, which rest
\* on what they count.
Types ==
    /\ kind \in Kinds
    /\ job \in [Futures -> JobIds]
    /\ future \in [Futures -> FutureStates]
    /\ events \in [Futures -> Nat] /\ heard \in [Futures -> Nat]
    /\ hooked \subseteq Futures /\ calling \subseteq Futures /\ returned \subseteq Futures
    /\ pendingFutures \subseteq Futures /\ cancelled \subseteq Futures
    /\ orphans \subseteq Futures
    /\ instances \in [JobIds -> Int]
    /\ lock \in Futures \cup {Free}
    /\ hooking \in BOOLEAN /\ pool \in {"open", "shut", "broken"}

\* The future being submitted, as long as it is not counted.
Uncounted(j) == IF lock # Free /\ job[lock] = j THEN 1 ELSE 0

\* At every moment of a submission the counter lags behind by the future that
\* is being submitted, whether or not its callback has run already.
Counted(j) == instances[j] = Cardinality(InFlight(j)) - Uncounted(j)

\* A callback runs once, of a future that is finished.
CalledOnce ==
    /\ returned \cap calling = {}
    /\ calling \subseteq hooked
    /\ \A f \in returned \cup calling : Finished(f)
    /\ \A f \in hooked : Finished(f) => f \in calling \cup returned
    /\ \A f \in Futures : lock = f => future[f] # "none"
    /\ \A f \in Futures : lock = f /\ hooking => f \notin returned \cup hooked
    /\ \A f \in Futures : lock = f /\ hooking /\ kind = "asyncio" => ~Finished(f)
    /\ \A f \in hooked \cup pendingFutures : future[f] # "none"

\* What listeners hear is the list of a future that has it as its result.
Told ==
    \A f \in Futures :
        /\ events[f] <= RunTimes[f] /\ heard[f] <= RunTimes[f]
        /\ future[f] = "done" => events[f] = RunTimes[f]
        /\ heard[f] > 0 => f \in returned /\ future[f] = "done"
        /\ f \in orphans => future[f] = "failed"

InFlightBounded == \A j \in JobIds : Cardinality(InFlight(j)) <= MaxInstances[j]

Counters == /\ \A j \in JobIds : Counted(j)
            /\ InFlightBounded

Control == Types /\ CalledOnce /\ Told

IInv == Control /\ Counters

-----------------------------------------------------------------------------
(* Futures in flight *)

LEMMA InFlightFinite ==
    ASSUME NEW j
    PROVE  IsFiniteSet(InFlight(j)) /\ Cardinality(InFlight(j)) \in Nat
<1>1. InFlight(j) \subseteq Futures
    BY DEF InFlight
<1>2. IsFiniteSet(InFlight(j))
    BY <1>1, ExecutorAssumption, FS_Subset
<1> QED BY <1>2, FS_CardinalityType

\* A future more, or a future less, counts one.
LEMMA OneMore ==
    ASSUME NEW j, NEW f, f \notin InFlight(j), InFlight(j)' = InFlight(j) \cup {f}
    PROVE  Cardinality(InFlight(j)') = Cardinality(InFlight(j)) + 1
BY InFlightFinite, FS_AddElement

LEMMA OneLess ==
    ASSUME NEW j, NEW f \in InFlight(j), InFlight(j)' = InFlight(j) \ {f}
    PROVE  Cardinality(InFlight(j)') = Cardinality(InFlight(j)) - 1
BY InFlightFinite, FS_RemoveElement

\* What is in flight depends on what has begun and what has come back.
LEMMA SameInFlight ==
    ASSUME NEW j, UNCHANGED <<job, returned>>,
           \A f \in Futures : future'[f] = "none" <=> future[f] = "none"
    PROVE  InFlight(j)' = InFlight(j)
BY DEF InFlight

\* A step after which the same futures are in flight, and the same one is not
\* counted, leaves the counters right.
LEMMA SameCounters ==
    ASSUME Counters, UNCHANGED <<job, returned, instances, lock>>,
           \A f \in Futures : future'[f] = "none" <=> future[f] = "none"
    PROVE  Counters'
<1>1. \A j \in JobIds : InFlight(j)' = InFlight(j)
    BY SameInFlight
<1> QED BY <1>1 DEF Counters, Counted, Uncounted, InFlightBounded

LEMMA InitIInv == Init => IInv
<1> SUFFICES ASSUME Init PROVE IInv
    OBVIOUS
<1>1. Control
    <2>1. Types
        <3>1. future \in [Futures -> FutureStates]
            BY DEF Init, FutureStates
        <3>2. /\ instances \in [JobIds -> Int]
              /\ events \in [Futures -> Nat] /\ heard \in [Futures -> Nat]
            BY DEF Init
        <3> QED BY <3>1, <3>2, ExecutorAssumption DEF Init, Types
    <2>2. \A f \in Futures : future[f] = "none" /\ f # lock
        BY ExecutorAssumption DEF Init
    <2>3. CalledOnce
        BY <2>2 DEF Init, CalledOnce
    <2>4. Told
        BY <2>2, ExecutorAssumption DEF Init, Told
    <2> QED BY <2>1, <2>3, <2>4 DEF Control
<1>2. \A j \in JobIds : Cardinality(InFlight(j)) = 0
    <2>1. \A j \in JobIds : InFlight(j) = {}
        BY DEF Init, InFlight
    <2> QED BY <2>1, FS_EmptySet
<1>3. Counters
    <2> SUFFICES ASSUME NEW j \in JobIds
                 PROVE  Counted(j) /\ Cardinality(InFlight(j)) <= MaxInstances[j]
        BY DEF Counters, InFlightBounded
    <2>1. instances[j] = 0 /\ Uncounted(j) = 0 /\ MaxInstances[j] \in Nat
        BY ExecutorAssumption DEF Init, Uncounted
    <2> QED BY <1>2, <2>1 DEF Counted
<1> QED BY <1>1, <1>3 DEF IInv

-----------------------------------------------------------------------------
(* Every step *)

LEMMA SubmitCounts ==
    ASSUME IInv, NEW f \in Futures, SubmitJob(f)
    PROVE  Counters'
<1>1. /\ lock = Free /\ lock' = f /\ f # Free
      /\ future[f] = "none" /\ future'[f] = "queued"
      /\ UNCHANGED <<job, returned, instances>>
      /\ \A g \in Futures \ {f} : future'[g] = future[g]
    BY ExecutorAssumption DEF SubmitJob, LoopFree, IInv, Control, Types
<1>2. f \notin returned
    BY <1>1 DEF IInv, Control, CalledOnce, Finished
<1> SUFFICES ASSUME NEW j \in JobIds
             PROVE  Counted(j)' /\ Cardinality(InFlight(j)') <= MaxInstances[j]
    BY DEF Counters, InFlightBounded
<1>3. /\ instances[j] = Cardinality(InFlight(j))
      /\ Cardinality(InFlight(j)) <= MaxInstances[j]
      /\ instances[j] \in Int /\ MaxInstances[j] \in Nat
    BY <1>1, InFlightFinite, ExecutorAssumption
       DEF IInv, Control, Types, Counters, Counted, Uncounted, InFlightBounded
<1>4. CASE job[f] = j
    <2>1. f \notin InFlight(j) /\ InFlight(j)' = InFlight(j) \cup {f}
        BY <1>1, <1>2, <1>4 DEF InFlight
    <2>2. Cardinality(InFlight(j)') = Cardinality(InFlight(j)) + 1
        BY <2>1, OneMore
    <2>3. instances[j] < MaxInstances[j]
        BY <1>4 DEF SubmitJob, HasRoom
    <2>4. Uncounted(j)' = 1
        BY <1>1, <1>4 DEF Uncounted
    <2> QED BY <1>1, <1>3, <2>2, <2>3, <2>4, InFlightFinite DEF Counted
<1>5. CASE job[f] # j
    <2>1. InFlight(j)' = InFlight(j)
        BY <1>1, <1>5 DEF InFlight
    <2>2. Uncounted(j)' = 0
        BY <1>1, <1>5 DEF Uncounted
    <2> QED BY <1>1, <1>3, <2>1, <2>2, InFlightFinite DEF Counted
<1> QED BY <1>4, <1>5

\* A slot that comes back, in a callback or in add_done_callback.
LEMMA GiveBackCounts ==
    ASSUME IInv, NEW f \in Futures, GiveBack(f), Finished(f),
           f \notin returned, UNCHANGED <<job, future, lock>>
    PROVE  Counters'
<1> SUFFICES ASSUME NEW j \in JobIds
             PROVE  Counted(j)' /\ Cardinality(InFlight(j)') <= MaxInstances[j]
    BY DEF Counters, InFlightBounded
<1>1. /\ Counted(j) /\ Cardinality(InFlight(j)) <= MaxInstances[j]
      /\ Cardinality(InFlight(j)) \in Nat /\ MaxInstances[j] \in Nat
      /\ instances[j] \in Int /\ Uncounted(j) \in {0, 1}
      /\ Uncounted(j)' = Uncounted(j)
    BY InFlightFinite, ExecutorAssumption
       DEF IInv, Control, Types, Counters, InFlightBounded, Uncounted
<1>2. CASE job[f] = j
    <2>1. f \in InFlight(j) /\ InFlight(j)' = InFlight(j) \ {f}
        BY <1>2 DEF InFlight, GiveBack, Finished
    <2>2. Cardinality(InFlight(j)') = Cardinality(InFlight(j)) - 1
        BY <2>1, OneLess
    <2>3. instances'[j] = instances[j] - 1
        BY <1>2 DEF GiveBack, Decreased, IInv, Control, Types
    <2> QED BY <1>1, <2>2, <2>3 DEF Counted
<1>3. CASE job[f] # j
    <2>1. InFlight(j)' = InFlight(j)
        BY <1>3 DEF InFlight, GiveBack
    <2>2. instances'[j] = instances[j]
        BY <1>3 DEF GiveBack, IInv, Control, Types
    <2> QED BY <1>1, <2>1, <2>2 DEF Counted
<1> QED BY <1>2, <1>3

LEMMA CountCounts ==
    ASSUME IInv, NEW f \in Futures, CountInstance(f)
    PROVE  Counters'
<1>1. /\ lock = f /\ f # Free /\ lock' = Free
      /\ UNCHANGED <<job, future, returned>>
    BY ExecutorAssumption DEF CountInstance
<1> SUFFICES ASSUME NEW j \in JobIds
             PROVE  Counted(j)' /\ Cardinality(InFlight(j)') <= MaxInstances[j]
    BY DEF Counters, InFlightBounded
<1>2. /\ InFlight(j)' = InFlight(j)
      /\ Counted(j) /\ Cardinality(InFlight(j)) <= MaxInstances[j]
      /\ Cardinality(InFlight(j)) \in Nat /\ instances[j] \in Int
      /\ Uncounted(j)' = 0
    BY <1>1, InFlightFinite, SameInFlight
       DEF IInv, Control, Types, Counters, InFlightBounded, Uncounted
<1>3. CASE job[f] = j
    BY <1>1, <1>2, <1>3 DEF CountInstance, Counted, Uncounted, IInv, Control, Types
<1>4. CASE job[f] # j
    BY <1>1, <1>2, <1>4 DEF CountInstance, Counted, Uncounted, IInv, Control, Types
<1> QED BY <1>3, <1>4

\* A step that takes futures to other states, and leaves the rest of what the
\* counters count alone.
LEMMA QuietCounts ==
    ASSUME IInv, UNCHANGED <<job, returned, instances, lock>>,
           \A f \in Futures : future'[f] = "none" <=> future[f] = "none"
    PROVE  Counters'
BY SameCounters DEF IInv

\* The end of one future.
LEMMA EndsQuietly ==
    ASSUME IInv, NEW f \in Futures, NEW s \in {"done", "failed"}, Ends(f, s),
           future[f] \in {"queued", "running"}, s = "done" => events[f] = RunTimes[f],
           cancelled' \subseteq cancelled, kind = "asyncio" => lock = Free
    PROVE  IInv'
<1>1. /\ future \in [Futures -> FutureStates] /\ future' = [future EXCEPT ![f] = s]
      /\ f \notin returned \cup calling \cup orphans /\ heard[f] \in Nat /\ ~(heard[f] > 0)
    BY DEF Ends, IInv, Control, Types, CalledOnce, Told, Finished
<1>2. future' \in [Futures -> FutureStates]
    BY <1>1 DEF FutureStates
<1>3. Types'
    BY <1>2 DEF Ends, submission, IInv, Control, Types
<1>4. CalledOnce'
    <2>1. /\ future'[f] = s /\ \A g \in Futures \ {f} : future'[g] = future[g]
          /\ hooked \subseteq Futures /\ calling \subseteq Futures /\ returned \subseteq Futures
          /\ pendingFutures \subseteq Futures
        BY <1>1 DEF IInv, Control, Types
    <2> QED BY <1>1, <2>1, ExecutorAssumption
            DEF Ends, submission, IInv, Control, CalledOnce, Finished
<1>5. Told'
    BY <1>1 DEF Ends, submission, IInv, Control, Told
<1>6. Counters'
    BY <1>1, QuietCounts DEF Ends, submission
<1> QED BY <1>3, <1>4, <1>5, <1>6 DEF IInv, Control

LEMMA SubmitIInv ==
    ASSUME IInv, NEW f \in Futures, SubmitJob(f)
    PROVE  IInv'
<1>1. /\ lock = Free /\ lock' = f /\ f # Free /\ future[f] = "none"
      /\ future' = [future EXCEPT ![f] = "queued"]
      /\ UNCHANGED <<kind, job, events, calling, returned, heard, instances, pendingFutures,
                     cancelled, orphans>>
      /\ pool' = "open"
      /\ hooking' = (kind # "twisted")
      /\ hooked' = IF kind = "twisted" THEN hooked \cup {f} ELSE hooked
    BY ExecutorAssumption DEF SubmitJob, TakenWithJob, LoopFree, shutdown
<1>2. /\ future'[f] = "queued" /\ \A g \in Futures \ {f} : future'[g] = future[g]
      /\ f \notin hooked \cup calling \cup returned \cup pendingFutures
    BY <1>1 DEF IInv, Control, Types, CalledOnce, Finished
<1>3. Types'
    BY <1>1 DEF IInv, Control, Types, FutureStates
<1>4. CalledOnce'
    BY <1>1, <1>2 DEF IInv, Control, Types, CalledOnce, Finished
<1>5. Told'
    BY <1>1, <1>2 DEF IInv, Control, Types, Told
<1> QED BY <1>3, <1>4, <1>5, SubmitCounts DEF IInv, Control

\* The callback is called in submit_job, on a finished future.
LEMMA CalledAtOnce ==
    ASSUME IInv, NEW f \in Futures, lock = f, hooking, Finished(f), GiveBack(f), hooking' = FALSE,
           UNCHANGED <<kind, job, future, events, hooked, calling, heard, lock, shutdown>>
    PROVE  IInv'
<1>1. /\ f \notin returned \cup hooked
      /\ UNCHANGED <<pendingFutures, cancelled, orphans, pool>>
    BY DEF shutdown, IInv, Control, CalledOnce
<1>2. Counters'
    BY <1>1, GiveBackCounts
<1>3. instances' \in [JobIds -> Int] /\ returned' = returned \cup {f}
    BY DEF GiveBack, Decreased, IInv, Control, Types
<1>4. Types' /\ Told'
    BY <1>1, <1>3 DEF IInv, Control, Types, Told
<1>5. CalledOnce'
    BY <1>1, <1>3 DEF IInv, Control, Types, CalledOnce, Finished
<1> QED BY <1>2, <1>4, <1>5 DEF IInv, Control

\* The callback is registered, and with asyncio the future is noted.
LEMMA Registered ==
    ASSUME IInv, NEW f \in Futures, lock = f, hooking, ~Finished(f), hooking' = FALSE,
           hooked' = hooked \cup {f},
           pendingFutures' \in {pendingFutures, pendingFutures \cup {f}},
           UNCHANGED <<kind, job, future, events, calling, returned, heard, instances, lock,
                       cancelled, orphans, pool>>
    PROVE  IInv'
<1>1. future[f] # "none" /\ f \notin returned \cup hooked
    BY DEF IInv, Control, CalledOnce
<1>2. Counters'
    BY QuietCounts
<1>3. Types' /\ Told'
    BY DEF IInv, Control, Types, Told
<1>4. CalledOnce'
    BY <1>1 DEF IInv, Control, Types, CalledOnce, Finished
<1> QED BY <1>2, <1>3, <1>4 DEF IInv, Control

LEMMA AddCallbackIInv ==
    ASSUME IInv, NEW f \in Futures,
           AddCallback(f) \/ AsyncIOAddsCallback(f) \/ DebugCallsBack(f)
    PROVE  IInv'
<1>1. CASE AddCallback(f)
    <2>1. CASE Finished(f)
        BY <1>1, <2>1, CalledAtOnce DEF AddCallback
    <2>2. CASE ~Finished(f)
        BY <1>1, <2>2, Registered DEF AddCallback, shutdown
    <2> QED BY <2>1, <2>2
<1>2. CASE AsyncIOAddsCallback(f)
    <2>1. ~Finished(f)
        BY <1>2 DEF AsyncIOAddsCallback, IInv, Control, CalledOnce
    <2> QED BY <1>2, <2>1, Registered DEF AsyncIOAddsCallback
<1>3. CASE DebugCallsBack(f)
    BY <1>3, CalledAtOnce DEF DebugCallsBack
<1> QED BY <1>1, <1>2, <1>3

LEMMA CountIInv ==
    ASSUME IInv, NEW f \in Futures, CountInstance(f)
    PROVE  IInv'
<1>1. /\ lock' = Free /\ Free \notin Futures
      /\ instances' = [instances EXCEPT ![job[f]] = @ + 1]
      /\ UNCHANGED <<kind, job, future, events, hooked, calling, returned, heard, hooking,
                     pendingFutures, cancelled, orphans, pool>>
    BY ExecutorAssumption DEF CountInstance, shutdown
<1>2. Types'
    BY <1>1 DEF IInv, Control, Types
<1>3. CalledOnce'
    BY <1>1 DEF IInv, Control, CalledOnce, Finished
<1>4. Told'
    BY <1>1 DEF IInv, Control, Told
<1> QED BY <1>2, <1>3, <1>4, CountCounts DEF IInv, Control

LEMMA CallbackIInv ==
    ASSUME IInv, NEW f \in Futures, Callback(f) \/ AsyncIOCallback(f)
    PROVE  IInv'
<1>1. /\ f \in calling /\ calling' = calling \ {f} /\ GiveBack(f)
      /\ Finished(f) /\ f \notin returned
      /\ pendingFutures' \subseteq pendingFutures
      /\ UNCHANGED <<kind, job, future, events, hooked, heard, lock, hooking,
                     cancelled, orphans, pool>>
    BY DEF Callback, AsyncIOCallback, CallsBack, submission, IInv, Control, CalledOnce
<1>2. Counters'
    BY <1>1, GiveBackCounts
<1>3. Types'
    BY <1>1 DEF GiveBack, Decreased, IInv, Control, Types
<1>4. CalledOnce'
    BY <1>1 DEF GiveBack, IInv, Control, Types, CalledOnce, Finished
<1>5. Told'
    BY <1>1 DEF GiveBack, IInv, Control, Told
<1> QED BY <1>2, <1>3, <1>4, <1>5 DEF IInv, Control

LEMMA ShutdownIInv ==
    ASSUME IInv, AsyncIOShutdown
    PROVE  IInv'
<1> DEFINE threads == {f \in ToCancel : ~IsCoroutine(f)}
           running == {f \in ToCancel : future[f] = "running"}
<1>1. /\ threads \subseteq Futures /\ running \subseteq Futures /\ ToCancel \subseteq Futures
      /\ \A f \in threads : future[f] # "none" /\ ~Finished(f)
    BY DEF ToCancel, IInv, Control, Types, CalledOnce
<1>2. /\ orphans' \subseteq orphans \cup threads
      /\ future' = [f \in Futures |-> IF f \in threads THEN "failed" ELSE future[f]]
      /\ calling' = calling \cup (threads \cap hooked)
      /\ cancelled' \subseteq Futures
      /\ pendingFutures' = {} /\ lock \notin Futures
      /\ UNCHANGED <<kind, job, events, hooked, returned, heard, instances, lock, hooking, pool>>
    BY <1>1, ExecutorAssumption DEF AsyncIOShutdown, LoopFree, submission, IInv, Control, Types
<1> HIDE DEF threads, running
<1>3. Types'
    BY <1>1, <1>2 DEF IInv, Control, Types, FutureStates
<1>4. CalledOnce'
    BY <1>1, <1>2 DEF IInv, Control, Types, CalledOnce, Finished
<1>5. Told'
    BY <1>1, <1>2 DEF IInv, Control, Types, Told, Finished
<1>6. Counters'
    BY <1>1, <1>2, QuietCounts
<1> QED BY <1>3, <1>4, <1>5, <1>6 DEF IInv, Control

LEMMA BreakIInv ==
    ASSUME IInv, PoolBreaks
    PROVE  IInv'
<1> DEFINE ended == {f \in Futures : future[f] \in {"queued", "running"}}
<1>1. /\ kind # "asyncio"
      /\ future' = [f \in Futures |-> IF f \in ended THEN "failed" ELSE future[f]]
      /\ calling' = calling \cup (ended \cap hooked)
      /\ UNCHANGED <<kind, job, events, hooked, returned, heard, instances, lock, hooking,
                     pendingFutures, cancelled, orphans>>
      /\ pool' = "broken"
    BY DEF PoolBreaks, submission, shutdown
<1>2. ended \subseteq Futures /\ \A f \in ended : future[f] # "none" /\ ~Finished(f)
    BY DEF Finished
<1> HIDE DEF ended
<1>3. Types'
    BY <1>1, <1>2 DEF IInv, Control, Types, FutureStates
<1>4. CalledOnce'
    BY <1>1, <1>2 DEF IInv, Control, Types, CalledOnce, Finished
<1>5. Told'
    BY <1>1, <1>2 DEF IInv, Control, Types, Told, Finished
<1>6. Counters'
    BY <1>1, <1>2, QuietCounts
<1> QED BY <1>3, <1>4, <1>5, <1>6 DEF IInv, Control

LEMMA NextIInv ==
    ASSUME IInv, [Next]_vars
    PROVE  IInv'
<1>1. ASSUME NEW f \in Futures, WorkerStarts(f) PROVE IInv'
    <2>1. /\ future[f] = "queued" /\ future' = [future EXCEPT ![f] = "running"]
          /\ UNCHANGED <<kind, job, events, hooked, calling, returned, heard, instances, lock,
                         hooking, pendingFutures, cancelled, orphans, pool>>
        BY <1>1 DEF WorkerStarts, callbacks, submission, shutdown
    <2>2. Types' /\ \A g \in Futures : future'[g] = IF g = f THEN "running" ELSE future[g]
        BY <2>1 DEF IInv, Control, Types, FutureStates
    <2>3. CalledOnce' /\ Told'
        BY <2>1, <2>2 DEF IInv, Control, Types, CalledOnce, Told, Finished
    <2> QED BY <2>1, <2>2, <2>3, QuietCounts DEF IInv, Control
<1>2. ASSUME NEW f \in Futures, RunJob(f) \/ RunCoroutineJob(f) PROVE IInv'
    <2>1. /\ future[f] = "running" /\ events[f] < RunTimes[f]
          /\ events' = [events EXCEPT ![f] = @ + 1] /\ cancelled' \subseteq cancelled
          /\ UNCHANGED <<kind, job, future, hooked, calling, returned, heard, instances, lock,
                         hooking, pendingFutures, orphans, pool>>
        BY <1>2 DEF RunJob, RunCoroutineJob, callbacks, submission, shutdown
    <2>2. Types' /\ CalledOnce'
        BY <2>1 DEF IInv, Control, Types, CalledOnce, Finished
    <2>3. Told'
        <3>1. /\ events'[f] <= RunTimes[f]
              /\ \A g \in Futures \ {f} : events'[g] = events[g]
            <4>1. events \in [Futures -> Nat] /\ events[f] \in Nat /\ RunTimes[f] \in Nat
                BY ExecutorAssumption DEF IInv, Control, Types
            <4>2. events'[f] = events[f] + 1 /\ \A g \in Futures \ {f} : events'[g] = events[g]
                BY <2>1, <4>1
            <4> QED BY <2>1, <4>1, <4>2
        <3> QED BY <2>1, <3>1 DEF IInv, Control, Told
    <2> QED BY <2>1, <2>2, <2>3, QuietCounts DEF IInv, Control
<1>3. ASSUME NEW f \in Futures, WorkerEnds(f) PROVE IInv'
    <2>1. /\ future[f] = "running" /\ events[f] = RunTimes[f] /\ cancelled' = cancelled
          /\ kind = "asyncio" => lock = Free
        BY <1>3 DEF WorkerEnds, OnLoop
    <2>2. PICK s \in {"done", "failed"} : Ends(f, s)
        BY <1>3 DEF WorkerEnds
    <2> QED BY <2>1, <2>2, EndsQuietly
<1>4. ASSUME NEW f \in Futures, CoroutineEnds(f) PROVE IInv'
    BY <1>4, EndsQuietly DEF CoroutineEnds, LoopFree
<1>5. ASSUME NEW f \in Futures, OrphanEnds(f) PROVE IInv'
    <2>1. /\ orphans' = orphans \ {f}
          /\ UNCHANGED <<kind, job, future, events, hooked, calling, returned, heard, instances,
                         lock, hooking, pendingFutures, cancelled, pool>>
        BY <1>5 DEF OrphanEnds, callbacks, submission
    <2>2. Control'
        BY <2>1 DEF IInv, Control, Types, CalledOnce, Told, Finished
    <2> QED BY <2>1, <2>2, QuietCounts DEF IInv
<1>6. ASSUME NEW f \in Futures, Tell(f) PROVE IInv'
    <2>1. /\ f \in returned /\ future[f] = "done" /\ heard[f] < events[f]
          /\ heard' = [heard EXCEPT ![f] = @ + 1]
          /\ UNCHANGED <<kind, job, future, events, hooked, calling, returned, instances, lock,
                         hooking, pendingFutures, cancelled, orphans, pool>>
        BY <1>6 DEF Tell, Telling, submission, shutdown
    <2>2. Types' /\ CalledOnce'
        BY <2>1 DEF IInv, Control, Types, CalledOnce, Finished
    <2>3. Told'
        BY <2>1, ExecutorAssumption DEF IInv, Control, Types, Told
    <2> QED BY <2>1, <2>2, <2>3, QuietCounts DEF IInv, Control
<1>7. CASE PoolShutdown
    <2>1. /\ pool' \in {"open", "shut", "broken"}
          /\ UNCHANGED <<kind, job, future, events, hooked, calling, returned, heard, instances,
                         lock, hooking, pendingFutures, cancelled, orphans>>
        BY <1>7 DEF PoolShutdown, callbacks, submission
    <2>2. Control'
        BY <2>1 DEF IInv, Control, Types, CalledOnce, Told, Finished
    <2> QED BY <2>1, <2>2, QuietCounts DEF IInv
<1>8. CASE UNCHANGED vars
    <2>1. UNCHANGED <<kind, job, future, events, hooked, calling, returned, heard, instances,
                      lock, hooking, pendingFutures, cancelled, orphans, pool>>
        BY <1>8 DEF vars, callbacks, submission, shutdown
    <2>2. Control'
        BY <2>1 DEF IInv, Control, Types, CalledOnce, Told, Finished
    <2> QED BY <2>1, <2>2, QuietCounts DEF IInv
<1> QED BY <1>1, <1>2, <1>3, <1>4, <1>5, <1>6, <1>7, <1>8, SubmitIInv, AddCallbackIInv,
           CountIInv, CallbackIInv, ShutdownIInv, BreakIInv DEF Next

\* The inductive invariant of the executor.
THEOREM Invariant == Spec => []IInv
BY InitIInv, NextIInv, PTL DEF Spec

\* Types, with the bounds of the counters.
THEOREM TypeInvariant == Spec => []TypeOK
<1>1. IInv => TypeOK
    <2> SUFFICES ASSUME IInv PROVE TypeOK
        OBVIOUS
    <2>1. ASSUME NEW j \in JobIds PROVE instances[j] \in -1 .. MaxInstances[j]
        <3>1. /\ Counted(j) /\ Cardinality(InFlight(j)) <= MaxInstances[j]
              /\ MaxInstances[j] \in Nat /\ Uncounted(j) \in {0, 1}
            BY ExecutorAssumption DEF IInv, Counters, InFlightBounded, Uncounted
        <3> QED BY <3>1, InFlightFinite DEF Counted
    <2> QED BY <2>1 DEF IInv, Control, Types, TypeOK
<1> QED BY <1>1, Invariant, PTL

\* No order of submitting, finishing, breaking, cancelling and calling back makes
\* the counter of a job wrong: not the callback that add_done_callback runs
\* before the instance is counted, nor the one that waits for the lock meanwhile.
THEOREM CounterExactHolds == Spec => []CounterExact
<1>1. IInv => CounterExact
    <2> SUFFICES ASSUME IInv, lock = Free, NEW j \in JobIds
                 PROVE  instances[j] = Cardinality(InFlight(j))
        BY DEF CounterExact
    <2> QED BY InFlightFinite DEF IInv, Control, Types, Counters, Counted, Uncounted
<1> QED BY <1>1, Invariant, PTL

\* max_instances is exceeded only together with a thread that was cancelled.
THEOREM InstancesBoundedHolds == Spec => []InstancesBounded
<1>1. IInv => InstancesBounded
    <2> SUFFICES ASSUME IInv, NEW j \in JobIds, Executing(j) \cap orphans = {}
                 PROVE  ~(Cardinality(Executing(j)) > MaxInstances[j])
        BY DEF InstancesBounded
    <2>1. Executing(j) \subseteq InFlight(j)
        BY DEF Executing, InFlight, IInv, Control, CalledOnce, Finished
    <2>2. /\ IsFiniteSet(InFlight(j)) /\ Cardinality(InFlight(j)) \in Nat
          /\ Cardinality(InFlight(j)) <= MaxInstances[j] /\ MaxInstances[j] \in Nat
        BY InFlightFinite, ExecutorAssumption DEF IInv, Counters, InFlightBounded
    <2>3. /\ IsFiniteSet(Executing(j))
          /\ Cardinality(Executing(j)) <= Cardinality(InFlight(j))
        BY <2>1, <2>2, FS_Subset
    <2>4. Cardinality(Executing(j)) \in Nat
        BY <2>3, FS_CardinalityType
    <2> QED BY <2>2, <2>3, <2>4
<1> QED BY <1>1, Invariant, PTL

\* Listeners hear of a submission when it is over and its slot is back.
THEOREM HeardWhenOverHolds == Spec => []HeardWhenOver
<1>1. IInv => HeardWhenOver
    <2> SUFFICES ASSUME IInv, NEW f \in Futures
                 PROVE  /\ heard[f] \in {0} \cup (IF f \in returned THEN 1 .. RunTimes[f] ELSE {})
                        /\ heard[f] > 0 => future[f] = "done" /\ events[f] = RunTimes[f]
                                           /\ f \notin calling \cup orphans
        BY DEF HeardWhenOver
    <2>1. heard[f] \in Nat /\ RunTimes[f] \in Nat
        BY ExecutorAssumption DEF IInv, Control, Types
    <2> QED BY <2>1 DEF IInv, Control, CalledOnce, Told
<1> QED BY <1>1, Invariant, PTL

=============================================================================
