------------------------------ MODULE Registry -------------------------------
(***************************************************************************)
(* FatCrabTrader: the maps of makers and takers, the creation of a trade   *)
(* in the steps between which other tasks run, shutdown with its early     *)
(* returns, and the restoration of the maps from the files of the trades   *)
(* and the sessions of n3xb.                                               *)
(***************************************************************************)
EXTENDS Naturals, SequencesExt

CONSTANTS Makers, Takers,   \* uuids of trades, by the map they belong to
          Funding,          \* those that allocate funds: buy makers, sell takers
          Nobody,           \* no task
          MaxTasks,         \* bound on trades created
          MaxRequests,      \* bound on requests waiting at an actor
          MaxCrashes        \* bound on crashes

Trades == Makers \cup Takers
Ids == 1..MaxTasks

ASSUME RegistryAssumption ==
    /\ Makers \cap Takers = {} /\ Funding \subseteq Trades
    /\ Nobody \notin Trades /\ Nobody \notin Ids
    /\ MaxTasks \in Nat /\ MaxRequests \in Nat \ {0} /\ MaxCrashes \in Nat

VARIABLES trade,       \* the uuid of each trade created
          task,        \* its actor: "none", "new", "funded", "running", "panicked" or "ended"
          waiting,     \* actors suspended at a notification their user does not read
          data,        \* its data in memory: "open", or "settled" when its funds were dealt with
          dirty,       \* trades whose data is not in the file yet
          lost,        \* trades whose last write failed, or whose creation was given up
          file,        \* the data file of each uuid
          requests,    \* requests that wait at each actor
          held,        \* trades whose funds the purse holds
          purse,       \* its actor: "running", "panicked" or "ended"
          sessions,    \* uuids n3xb has a session of
          registry,    \* the accessors of makers and takers, by uuid
          handles,     \* makers and takers, with the handles of their tasks
          pc,          \* where shutdown is
          todo, asked, \* uuids it has yet to visit, the actor it awaits an answer of
          result,      \* what it returned
          unclean,     \* a process ended otherwise than by a shutdown that returned Ok
          repeated,    \* a trade was created with the uuid of an older one
          crashes

vars == <<trade, task, waiting, data, dirty, lost, file, requests, held, purse,
          sessions, registry, handles, pc, todo, asked, result, unclean, repeated, crashes>>

store == <<data, dirty, lost, file>>
trades == <<trade, task, waiting, store, requests>>
shutdown == <<pc, todo, asked, result>>

\* What only creations and new processes change.
history == <<handles, unclean, repeated, crashes>>

Data == {"open", "settled"}

NoFile == [task |-> Nobody, data |-> "open"]

TypeOK ==
    /\ trade \in [Ids -> Trades \cup {Nobody}]
    /\ task \in [Ids -> {"none", "new", "funded", "running", "panicked", "ended"}]
    /\ data \in [Ids -> Data] /\ held \subseteq Ids
    /\ waiting \subseteq Ids /\ dirty \subseteq Ids /\ lost \subseteq Ids
    /\ file \in [Trades -> [task : Ids \cup {Nobody}, data : Data]]
    /\ requests \in [Ids -> Seq({"Cancel", "Stop", "Shutdown"})]
    /\ \A a \in Ids : Len(requests[a]) <= MaxRequests + 1
    /\ purse \in {"running", "panicked", "ended"}
    /\ sessions \subseteq Trades
    /\ registry \in [Trades -> Ids \cup {Nobody}]
    /\ handles \in [Trades -> Ids \cup {Nobody}]
    /\ pc \in {"up", "purse", "requests", "handles", "n3xb", "down"}
    /\ todo \subseteq Trades /\ asked \in Ids \cup {Nobody}
    /\ result \in {"none", "Ok", "Err", "panic"}
    /\ {unclean, repeated} \subseteq BOOLEAN /\ crashes \in 0..MaxCrashes

Init ==
    /\ trade = [a \in Ids |-> Nobody]
    /\ task = [a \in Ids |-> "none"]
    /\ data = [a \in Ids |-> "open"]
    /\ waiting = {} /\ dirty = {} /\ lost = {} /\ held = {}
    /\ file = [t \in Trades |-> NoFile]
    /\ requests = [a \in Ids |-> <<>>]
    /\ purse = "running"
    /\ sessions = {} /\ registry = [t \in Trades |-> Nobody] /\ handles = registry
    /\ pc = "up" /\ todo = {} /\ asked = Nobody /\ result = "none"
    /\ unclean = FALSE /\ repeated = FALSE /\ crashes = 0

Running(a) == task[a] = "running"
Idle(a) == Running(a) /\ a \notin waiting
Registered == {t \in Trades : registry[t] # Nobody}
RegisteredTasks == {registry[t] : t \in Registered}
Handled == {t \in Trades : handles[t] # Nobody}
HandledTasks == {handles[t] : t \in Handled}

-----------------------------------------------------------------------------
(* Creation of a trade: new_buy_maker, new_sell_maker and the takers       *)

Creating == {a \in Ids : task[a] \in {"new", "funded"}}

\* n3xb makes a session first.
NewSession(a, t) ==
    /\ pc = "up"
    /\ trade[a] = Nobody /\ \A b \in Ids : b < a => trade[b] # Nobody
    /\ \A b \in Creating : trade[b] # t
    /\ sessions' = sessions \cup {t}
    /\ trade' = [trade EXCEPT ![a] = t]
    /\ task' = [task EXCEPT ![a] = "new"]
    /\ UNCHANGED <<waiting, store, requests, held, purse, registry, shutdown, history>>

\* The purse serves the allocation.
AllocateFunds(a) ==
    /\ task[a] = "new" /\ trade[a] \in Funding
    /\ purse = "running"
    /\ held' = held \cup {a}
    /\ task' = [task EXCEPT ![a] = "funded"]
    /\ UNCHANGED <<trade, waiting, store, requests, purse, sessions, registry>>
    /\ UNCHANGED <<shutdown, history>>

\* Insufficient Funds, a purse that panics on the request, or one that is
\* gone, which makes the caller panic.  A trade that allocates nothing asks for
\* an address, where an error makes the caller panic too.  Or the caller gives up
\* before.  The session stays.
NewFails(a) ==
    /\ task[a] = "new"
    /\ \/ UNCHANGED purse
       \/ trade[a] \in Funding /\ purse = "running" /\ purse' = "panicked"
    /\ task' = [task EXCEPT ![a] = "none"]
    /\ UNCHANGED <<trade, waiting, store, requests, held, sessions, registry>>
    /\ UNCHANGED <<shutdown, history>>

\* The data and its thread, and the actor.
Spawn(a) ==
    /\ task[a] = IF trade[a] \in Funding THEN "funded" ELSE "new"
    /\ task' = [task EXCEPT ![a] = "running"]
    /\ dirty' = dirty \cup {a}
    /\ repeated' = (\/ repeated \/ file[trade[a]] # NoFile
                    \/ \E b \in Ids \ {a} : trade[b] = trade[a] /\ task[b] # "none")
    /\ UNCHANGED <<trade, waiting, data, file, requests, held, purse, sessions, shutdown>>
    /\ UNCHANGED <<unclean, crashes>>

\* Mutant: the first version of the data is not queued for its thread.
CreateUnqueued(a) ==
    /\ task[a] = IF trade[a] \in Funding THEN "funded" ELSE "new"
    /\ task' = [task EXCEPT ![a] = "running"]
    /\ registry' = [registry EXCEPT ![trade[a]] = a]
    /\ handles' = [handles EXCEPT ![trade[a]] = a]
    /\ UNCHANGED <<trade, waiting, store, requests, held, purse, sessions, shutdown>>
    /\ UNCHANGED <<unclean, repeated, crashes>>

\* Its place in the maps, where it replaces an older trade of the same uuid.
\* That one runs on for those who hold its accessors, and its thread writes the
\* same file.
Create(a) ==
    /\ Spawn(a)
    /\ registry' = [registry EXCEPT ![trade[a]] = a]
    /\ handles' = [handles EXCEPT ![trade[a]] = a]
    /\ UNCHANGED lost

\* The caller drops the future of the creation after the purse allocated, or
\* while it does, where its answer finds no receiver.
DropAllocation(a) ==
    /\ \/ task[a] = "funded" /\ UNCHANGED <<held, purse>>
       \/ /\ task[a] = "new" /\ trade[a] \in Funding
          /\ purse = "running" /\ purse' = "panicked"
          /\ held' = held \cup {a}
    /\ task' = [task EXCEPT ![a] = "none"]
    /\ lost' = lost \cup {a}
    /\ UNCHANGED <<trade, waiting, data, dirty, file, requests, sessions, registry>>
    /\ UNCHANGED <<shutdown, history>>

\* The caller drops it at the lock of one map or the other: the actor runs on,
\* without accessors, and at the second lock its handle is in the maps already.
DropTrade(a) ==
    /\ Spawn(a)
    /\ lost' = lost \cup {a}
    /\ handles' \in {handles, [handles EXCEPT ![trade[a]] = a]}
    /\ UNCHANGED registry

-----------------------------------------------------------------------------
(* The trades                                                              *)

Written(a) == [file EXCEPT ![trade[a]] = [task |-> a, data |-> data[a]]]

\* A write that fails is logged, and nothing but the next change of the data
\* queues another.
Writes(a) ==
    /\ dirty' = dirty \ {a}
    /\ \/ file' = Written(a) /\ lost' = lost \ {a}
       \/ lost' = lost \cup {a} /\ UNCHANGED file

\* The thread of the data, which outlives an actor that panics.
Save(a) ==
    /\ a \in dirty
    /\ Writes(a)
    /\ UNCHANGED <<trade, task, waiting, data, requests, held, purse, sessions, registry>>
    /\ UNCHANGED <<shutdown, history>>

\* The user holds accessors of a trade as long as it likes: a trade may be
\* stopped on its own, and be called while the trader shuts down.
UserAsks(a, kind) ==
    /\ Running(a) /\ registry[trade[a]] # Nobody /\ Len(requests[a]) < MaxRequests
    /\ kind = "Cancel" => trade[a] \in Makers
    /\ requests' = [requests EXCEPT ![a] = Append(@, kind)]
    /\ UNCHANGED <<trade, task, waiting, store, held, purse, sessions, registry>>
    /\ UNCHANGED <<shutdown, history>>

\* Mutant: the sender of the answer outlives the actor.
ForgetsNot(a) ==
    /\ requests' = [requests EXCEPT ![a] = <<>>]
    /\ UNCHANGED asked

\* What becomes of those who await an answer of an actor that is gone: the
\* trader's shutdown warns and goes on.
Forgets(a) ==
    /\ requests' = [requests EXCEPT ![a] = <<>>]
    /\ asked' = IF asked = a THEN Nobody ELSE asked

\* free_funds(..).await.unwrap(), which also panics without a purse.
Settle(a) ==
    /\ IF purse = "running" /\ a \in held
         THEN /\ held' = held \ {a}
              /\ data' = [data EXCEPT ![a] = "settled"]
              /\ dirty' = dirty \cup {a}
              /\ UNCHANGED <<task, asked>>
         ELSE /\ task' = [task EXCEPT ![a] = "panicked"]
              /\ asked' = IF asked = a THEN Nobody ELSE asked
              /\ UNCHANGED <<held, data, dirty>>

\* cancel_order, which is refused once an offer was accepted or by n3xb.
ServeCancel(a) ==
    /\ Idle(a) /\ requests[a] # <<>> /\ Head(requests[a]) = "Cancel"
    /\ \/ trade[a] \in Funding /\ data[a] = "open" /\ Settle(a)
       \/ UNCHANGED <<held, data, dirty, task, asked>>
    /\ requests' = [requests EXCEPT ![a] = IF task'[a] = "running" THEN Tail(@) ELSE <<>>]
    /\ UNCHANGED <<trade, waiting, lost, file, purse, sessions, registry, pc, todo, result>>
    /\ UNCHANGED history

\* notif_tx.send(..).await of a handler suspends the actor while the channel is
\* full, and goes on at once when it is not.
Notifies(a) == waiting' \in {waiting, waiting \cup {a}}

\* The offer of a taker of a sell order is rejected, and its user is told.
HandleReject(a) ==
    /\ Idle(a) /\ trade[a] \in Takers \cap Funding /\ data[a] = "open"
    /\ Settle(a)
    /\ IF task'[a] = "running"
         THEN Notifies(a) /\ UNCHANGED requests
         ELSE requests' = [requests EXCEPT ![a] = <<>>] /\ UNCHANGED waiting
    /\ UNCHANGED <<trade, lost, file, purse, sessions, registry, pc, todo, result, history>>

\* Any other notification of n3xb: what it stores is not told apart here.
HandleNotif(a) ==
    /\ Idle(a)
    /\ Notifies(a)
    /\ UNCHANGED <<trade, task, store, requests, held, purse, sessions, registry>>
    /\ UNCHANGED <<shutdown, history>>

\* The user reads a notification, or drops the channel, which makes the actor
\* panic.
NotifyContinues(a) ==
    /\ a \in waiting
    /\ waiting' = waiting \ {a}
    /\ \/ UNCHANGED <<task, requests, asked>>
       \/ task' = [task EXCEPT ![a] = "panicked"] /\ Forgets(a)
    /\ UNCHANGED <<trade, store, held, purse, sessions, registry, pc, todo, result, history>>

\* Mutant: the actor ends without waiting for the thread of its data.
ServeStopUnsaved(a) ==
    /\ Idle(a) /\ requests[a] # <<>> /\ Head(requests[a]) \in {"Stop", "Shutdown"}
    /\ task' = [task EXCEPT ![a] = "ended"]
    /\ Forgets(a)
    /\ UNCHANGED <<trade, waiting, store, held, purse, sessions, registry, pc, todo, result>>
    /\ UNCHANGED history

\* shutdown of one actor: terminate() waits for the thread.
ServeStop(a) ==
    /\ Idle(a) /\ requests[a] # <<>> /\ Head(requests[a]) \in {"Stop", "Shutdown"}
    /\ IF a \in dirty THEN Writes(a) ELSE UNCHANGED <<dirty, lost, file>>
    /\ task' = [task EXCEPT ![a] = "ended"]
    /\ Forgets(a)
    /\ UNCHANGED <<trade, waiting, data, held, purse, sessions, registry, pc, todo, result>>
    /\ UNCHANGED history

Serve(a) == ServeCancel(a) \/ ServeStop(a)

-----------------------------------------------------------------------------
(* FatCrabTrader::shutdown, which consumes the trader: nobody creates a    *)
(* trade meanwhile, and it is called once                                  *)

Shutdown ==
    /\ pc = "up" /\ Creating = {}
    /\ pc' = "purse"
    /\ UNCHANGED <<trades, held, purse, sessions, registry, todo, asked, result, history>>

Returns(r) ==
    /\ pc' = "down"
    /\ result' = r
    /\ todo' = {}

\* Without a purse actor its accessor panics.
StopPurse ==
    /\ pc = "purse"
    /\ IF purse = "running"
         THEN purse' = "ended" /\ pc' = "requests" /\ todo' = Registered /\ UNCHANGED result
         ELSE Returns("panic") /\ UNCHANGED purse
    /\ UNCHANGED <<trades, held, sessions, registry, asked, history>>

\* The makers are visited before the takers.
NextUp(t) == t \in todo /\ (t \in Takers => todo \cap Makers = {})

\* Mutant: the actors are asked until they end, and no answer is awaited.
RequestShutdownRepeats(t) ==
    /\ pc = "requests" /\ NextUp(t)
    /\ IF Running(registry[t])
         THEN /\ requests' = [requests EXCEPT ![registry[t]] = Append(@, "Shutdown")]
              /\ UNCHANGED todo
         ELSE todo' = todo \ {t} /\ UNCHANGED requests
    /\ UNCHANGED <<trade, task, waiting, store, held, purse, sessions, registry>>
    /\ UNCHANGED <<pc, asked, result, history>>

\* One answer is awaited at a time; an actor that is gone is only warned of.
RequestShutdown(t) ==
    /\ pc = "requests" /\ asked = Nobody /\ NextUp(t)
    /\ todo' = todo \ {t}
    /\ IF Running(registry[t])
         THEN /\ asked' = registry[t]
              /\ requests' = [requests EXCEPT ![registry[t]] = Append(@, "Shutdown")]
         ELSE UNCHANGED <<asked, requests>>
    /\ UNCHANGED <<trade, task, waiting, store, held, purse, sessions, registry>>
    /\ UNCHANGED <<pc, result, history>>

\* Mutant: the handles are awaited as soon as the last actor is asked.
RequestsDoneEarly ==
    /\ pc = "requests" /\ todo = {}
    /\ pc' = "handles"
    /\ todo' = Handled
    /\ UNCHANGED <<trades, held, purse, sessions, registry, asked, result, history>>

RequestsDone ==
    /\ pc = "requests" /\ asked = Nobody /\ todo = {}
    /\ pc' = "handles"
    /\ todo' = Handled
    /\ UNCHANGED <<trades, held, purse, sessions, registry, asked, result, history>>

\* The first task that panicked ends the shutdown.
AwaitHandle(t) ==
    /\ pc = "handles" /\ NextUp(t) /\ ~Running(handles[t])
    /\ IF task[handles[t]] = "panicked"
         THEN Returns("Err")
         ELSE todo' = todo \ {t} /\ UNCHANGED <<pc, result>>
    /\ UNCHANGED <<trades, held, purse, sessions, registry, asked, history>>

\* n3xb may fail to shut down.
StopN3xb ==
    /\ pc = "handles" /\ todo = {}
    /\ Returns("Ok") \/ Returns("Err")
    /\ UNCHANGED <<trades, held, purse, sessions, registry, asked, history>>

TraderStep ==
    \/ StopPurse \/ RequestsDone \/ StopN3xb
    \/ \E t \in Trades : RequestShutdown(t) \/ AwaitHandle(t)

-----------------------------------------------------------------------------
(* The process ends and another one starts: new_with_key and restore       *)

\* Files of which n3xb has no session are passed over.
Restorable == {t \in Trades : file[t] # NoFile /\ t \in sessions'}

\* restored: the trades whose actors were spawned.  The others are history.
Start(restored) ==
    /\ task' = [a \in Ids |-> IF \E t \in restored : file[t].task = a THEN "running" ELSE "none"]
    /\ data' = [a \in Ids |-> IF \E t \in restored : file[t].task = a
                                THEN file[trade[a]].data ELSE "open"]
    /\ requests' = [a \in Ids |-> <<>>]
    /\ waiting' = {} /\ dirty' = {}
    /\ purse' = "running"
    /\ pc' = "up" /\ todo' = {} /\ asked' = Nobody /\ result' = "none"
    /\ UNCHANGED <<trade, lost, file, held, repeated>>

\* Mutant: the takers are not restored.
RestoreMakersOnly ==
    /\ Start(Restorable)
    /\ registry' = [t \in Trades |-> IF t \in Restorable \cap Makers THEN file[t].task ELSE Nobody]
    /\ handles' = registry'

Restore ==
    /\ Start(Restorable)
    /\ registry' = [t \in Trades |-> IF t \in Restorable THEN file[t].task ELSE Nobody]
    /\ handles' = registry'

\* A directory that cannot be read leaves the maps empty, and actors that were
\* restored before without accessors.
RestoreFails ==
    /\ \E restored \in SUBSET Restorable : Start(restored)
    /\ registry' = [t \in Trades |-> Nobody]
    /\ handles' = registry'

Restart ==
    /\ pc = "down"
    /\ unclean' = (unclean \/ result # "Ok")
    /\ UNCHANGED <<sessions, crashes>>
    /\ Restore \/ RestoreFails

\* n3xb may not have written down its last sessions.
Crash ==
    /\ pc # "down" /\ crashes < MaxCrashes
    /\ crashes' = crashes + 1
    /\ unclean' = TRUE
    /\ sessions' \in SUBSET sessions
    /\ Restore

TradeStep(a) ==
    \/ \E t \in Trades : NewSession(a, t)
    \/ AllocateFunds(a) \/ NewFails(a) \/ Create(a) \/ DropAllocation(a) \/ DropTrade(a)
    \/ \E kind \in {"Cancel", "Stop"} : UserAsks(a, kind)
    \/ Serve(a) \/ HandleReject(a) \/ HandleNotif(a) \/ NotifyContinues(a) \/ Save(a)

Next == Shutdown \/ TraderStep \/ (\E a \in Ids : TradeStep(a)) \/ Restart \/ Crash

Spec == Init /\ [][Next]_vars

\* The actors and the trader are tasks that only their awaits suspend, and an
\* actor chooses between its requests and the notifications of n3xb at random.
\* That a user reads its notifications, or drops the channel, is an assumption
\* on the user: nothing in the code makes it.
Fairness ==
    /\ WF_vars(TraderStep)
    /\ \A a \in Ids : SF_vars(Serve(a)) /\ WF_vars(NotifyContinues(a))

FairSpec == Spec /\ Fairness

-----------------------------------------------------------------------------
(* Properties                                                              *)

\* When shutdown returns Ok every maker and taker of the maps has ended, whoever
\* stopped it, and its file holds what it had in memory, unless a write of that
\* file failed or a uuid was used twice.
ShutdownIsComplete ==
    result = "Ok" =>
        \A a \in HandledTasks :
            /\ task[a] = "ended"
            /\ \/ repeated \/ a \in lost
               \/ file[trade[a]] = [task |-> a, data |-> data[a]]

\* When it returns an error, as it does at the first task that panicked, none
\* of the registered trades still runs, those it did not get to included.
ErrorStopsTrades == result = "Err" => \A a \in RegisteredTasks : ~Running(a)

\* The purse holds funds only for a trade that is being created, or that a
\* data file knows to be open, unless a process ended without a clean shutdown,
\* a uuid was used twice, a write of that file failed or the caller gave up the
\* creation.
FundsHaveOwner ==
    ~unclean /\ ~repeated =>
        \A a \in held : \/ a \in Creating \/ a \in dirty \/ a \in lost
                        \/ file[trade[a]] = [task |-> a, data |-> "open"]

\* After a shutdown that returned Ok the registered trades come back, each of
\* them of which no write failed or, if the directories cannot be read, none,
\* unless a uuid was used twice.
RegistrySurvives ==
    [][pc = "down" /\ pc' = "up" /\ result = "Ok" /\ ~repeated =>
         \/ \A t \in Registered : registry'[t] = registry[t] \/ registry[t] \in lost
         \/ \A t \in Trades : registry'[t] = Nobody]_vars

\* shutdown returns, whatever the users ask of the actors meanwhile, provided
\* that they read their notifications and that whoever has a handle in the maps
\* has an accessor there, too, by which it is asked to stop.
ShutdownReturns == pc = "purse" /\ handles = registry ~> pc \in {"down", "up"}
=============================================================================
