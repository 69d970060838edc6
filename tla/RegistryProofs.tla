---------------------------- MODULE RegistryProofs ----------------------------
(***************************************************************************)
(* The safety properties of the registry, for every number of makers and   *)
(* of takers, of trades created, of requests and of crashes: what a        *)
(* shutdown leaves behind, which funds the purse holds for whom, and what  *)
(* the next process finds again.  They rest on each other's histories: a   *)
(* trade is found again because its file is written before shutdown        *)
(* returns Ok, and because no other thread writes that file, which is true *)
(* as long as no uuid is used twice.                                       *)
(***************************************************************************)
EXTENDS Registry, SequenceTheorems, TLAPS

-----------------------------------------------------------------------------
(* The inductive invariant                                                 *)

\* An actor was spawned, in this process.
Live == {"running", "panicked", "ended"}

\* A trade that may write a file, or has written one.
Made(a) == task[a] \in Live \/ \E t \in Trades : file[t].task = a

\* Its file holds what its memory does, or it is known why not.
Known(a) == \/ a \in dirty \/ a \in lost
            \/ file[trade[a]] = [task |-> a, data |-> data[a]]

\* Whoever was given funds, has data to write or wrote a file is a trade, and a
\* trade that ended has nothing left to write.  Only an actor that runs waits for
\* its user.
Traded ==
    /\ \A a \in Ids : task[a] # "none" \/ a \in held => trade[a] \in Trades
    /\ \A a \in dirty : task[a] \in Live \ {"ended"}
    /\ \A a \in waiting : Running(a)
    /\ \A t \in Trades : file[t] = NoFile \/ (file[t].task \in Ids /\ trade[file[t].task] = t)
    /\ \A a \in Creating : \A t \in Trades : file[t].task # a

\* The maps name trades that were spawned, and of which n3xb has the session: a
\* trade with an accessor has a handle.
Listed ==
    /\ \A t \in Registered : trade[registry[t]] = t /\ task[registry[t]] \in Live
    /\ \A t \in Handled : trade[handles[t]] = t /\ task[handles[t]] \in Live
    /\ Registered \subseteq Handled
    /\ Registered \subseteq sessions
    /\ \A a \in Creating : trade[a] \in sessions

\* Unless a uuid was used twice, no two trades write one file, and the file of a
\* trade that was spawned holds what its memory does, unless that is still to be
\* written or could not be.
Unique ==
    ~repeated => /\ \A a, b \in Ids : Made(a) /\ Made(b) /\ trade[a] = trade[b] => a = b
                 /\ \A a \in Ids : task[a] \in Live => Known(a)

\* How far a shutdown got: nobody creates a trade meanwhile; the trades it has
\* visited no longer run, or it awaits the answer of one; those whose handles it
\* awaited have ended.
Stopping ==
    /\ pc # "up" => Creating = {}
    /\ result # "none" => pc = "down"
    /\ pc = "requests" => todo \subseteq Registered
    /\ pc = "handles" => todo \subseteq Handled
    /\ pc = "requests" =>
         \A t \in Registered : t \in todo \/ asked = registry[t] \/ ~Running(registry[t])
    /\ pc = "handles" \/ result \in {"Ok", "Err"} =>
         \A t \in Registered : ~Running(registry[t])
    /\ pc = "handles" => \A t \in Handled : t \in todo \/ task[handles[t]] = "ended"
    /\ result = "Ok" => \A t \in Handled : task[handles[t]] = "ended"

\* Beyond the bound there is only a request of the trader.
Room == \A a \in Ids : asked = a \/ Len(requests[a]) <= MaxRequests

\* Funds are held from their allocation to their settlement, and until then the
\* trade is open in memory and in its file.
Open ==
    /\ \A a \in Ids : a \in held \/ task[a] \notin Live => data[a] = "open"
    /\ \A a \in held : /\ task[a] # "new"
                       /\ file[trade[a]].task = a => file[trade[a]].data = "open"

\* A trade that still is to write that it is open is listed, so that a shutdown
\* waits for it, unless its creation was given up.
Owned ==
    ~unclean /\ ~repeated =>
        \A a \in held :
            \/ task[a] = "funded" \/ a \in lost
            \/ a \in dirty /\ registry[trade[a]] = a
            \/ file[trade[a]] = [task |-> a, data |-> "open"]

\* The invariant.
Inv == Traded /\ Listed /\ Unique /\ Stopping /\ Room /\ Open /\ Owned

\* The types of a request and of a data file.
Requests == {"Cancel", "Stop", "Shutdown"}
Entries == [task : Ids \cup {Nobody}, data : Data]

-----------------------------------------------------------------------------

\* Append, Tail and the empty sequence.
LEMMA AppendFact ==
  ASSUME NEW S, NEW s \in Seq(S), NEW e \in S
  PROVE  Append(s, e) \in Seq(S) /\ Len(Append(s, e)) = Len(s) + 1
OBVIOUS

\* The rest of a queue is a queue, shorter by one,
LEMMA TailFact ==
  ASSUME NEW S, NEW s \in Seq(S), s # <<>>
  PROVE  Tail(s) \in Seq(S) /\ Len(Tail(s)) = Len(s) - 1 /\ Len(s) \in Nat
OBVIOUS

\* and so is an empty one, of no length.
LEMMA EmptyFact ==
  ASSUME NEW S PROVE <<>> \in Seq(S) /\ Len(<<>>) = 0
OBVIOUS

\* What is read from a data file.
LEMMA EntryFact ==
  ASSUME TypeOK, NEW t \in Trades
  PROVE  /\ file[t].task \in Ids \cup {Nobody} /\ file[t].data \in Data
         /\ NoFile.task = Nobody /\ NoFile.data = "open"
BY DEF TypeOK, NoFile

\* A write changes the file of its own uuid, or fails.
LEMMA WritesEffect ==
  ASSUME TypeOK, NEW a \in Ids, trade[a] \in Trades, Writes(a)
  PROVE  /\ file' \in [Trades -> Entries] /\ lost' \subseteq Ids /\ dirty' = dirty \ {a}
         /\ \A t \in Trades \ {trade[a]} : file'[t] = file[t]
         /\ \A b \in Ids \ {a} : b \in lost' <=> b \in lost
         /\ \/ a \in lost' /\ file' = file
            \/ /\ file'[trade[a]] = [task |-> a, data |-> data[a]]
               /\ file'[trade[a]].task = a /\ file'[trade[a]].data = data[a]
<1>1. data[a] \in Data /\ file \in [Trades -> Entries] /\ lost \subseteq Ids
  BY DEF TypeOK, Entries
<1>2. [task |-> a, data |-> data[a]] \in Entries
  BY <1>1 DEF Entries
<1>3. CASE file' = Written(a) /\ lost' = lost \ {a}
  BY <1>1, <1>2, <1>3 DEF Written, Writes
<1>4. CASE lost' = lost \cup {a} /\ file' = file
  BY <1>1, <1>4 DEF Writes
<1>5. QED
  BY <1>3, <1>4 DEF Writes

\* What a cancellation or a rejection does to the trade.
SettledBy(a) ==
    /\ Idle(a)
    /\ UNCHANGED <<trade, lost, file, purse, sessions, registry, pc, todo, result, history>>
    /\ \A b \in Ids \ {a} : requests'[b] = requests[b]
    /\ waiting' \in {waiting, waiting \cup {a}}
    /\ \/ UNCHANGED <<held, data, dirty, task, asked>>
       \/ /\ held' = held \ {a}
          /\ data' = [data EXCEPT ![a] = "settled"]
          /\ dirty' = dirty \cup {a}
          /\ UNCHANGED <<task, asked>>
       \/ /\ task' = [task EXCEPT ![a] = "panicked"]
          /\ asked' = IF asked = a THEN Nobody ELSE asked
          /\ requests'[a] = <<>>
          /\ UNCHANGED <<waiting, held, data, dirty>>

\* A request to settle funds is served in one of three ways: there is nothing
\* to settle, the purse frees them, or the actor panics on the purse's error.
LEMMA SettleEffect ==
  ASSUME TypeOK, NEW a \in Ids, ServeCancel(a) \/ HandleReject(a)
  PROVE  /\ SettledBy(a)
         /\ requests' \in [Ids -> Seq(Requests)]
         /\ Len(requests'[a]) <= Len(requests[a])
<1>1. requests \in [Ids -> Seq(Requests)] /\ task \in [Ids -> Live \cup {"none", "new", "funded"}]
  BY DEF TypeOK, Requests, Live
<1>2. <<>> \in Seq(Requests) /\ Len(<<>>) = 0 /\ Len(requests[a]) \in Nat
  BY <1>1, EmptyFact
<1>3. CASE ServeCancel(a)
  <2>1. Tail(requests[a]) \in Seq(Requests) /\ Len(Tail(requests[a])) = Len(requests[a]) - 1
    BY <1>1, <1>3, TailFact DEF ServeCancel
  <2>2. /\ requests' \in [Ids -> Seq(Requests)] /\ Len(requests'[a]) <= Len(requests[a])
        /\ \A b \in Ids \ {a} : requests'[b] = requests[b]
        /\ task'[a] # "running" => requests'[a] = <<>>
    <3>1. CASE task'[a] = "running"
      BY <1>1, <1>2, <1>3, <2>1, <3>1 DEF ServeCancel
    <3>2. CASE task'[a] # "running"
      BY <1>1, <1>2, <1>3, <3>2 DEF ServeCancel
    <3>3. QED
      BY <3>1, <3>2
  <2>3. QED
    BY <1>1, <1>3, <2>2 DEF ServeCancel, Settle, SettledBy, Idle, Running
<1>4. CASE HandleReject(a)
  <2>1. /\ requests' \in [Ids -> Seq(Requests)] /\ Len(requests'[a]) <= Len(requests[a])
        /\ \A b \in Ids \ {a} : requests'[b] = requests[b]
        /\ task'[a] # "running" => requests'[a] = <<>>
    <3>1. CASE task'[a] = "running"
      BY <1>1, <1>2, <1>4, <3>1 DEF HandleReject
    <3>2. CASE task'[a] # "running"
      <4>1. requests' = [requests EXCEPT ![a] = <<>>]
        BY <1>4, <3>2 DEF HandleReject
      <4>2. QED
        BY <1>1, <1>2, <3>2, <4>1
    <3>3. QED
      BY <3>1, <3>2
  <2>2. QED
    BY <1>1, <1>4, <2>1 DEF HandleReject, Settle, SettledBy, Notifies, Idle, Running
<1>5. QED
  BY <1>3, <1>4

\* restored: the trades of which an actor runs in the new process.  listed:
\* those that are found in its maps.
NewProcess(restored, listed) ==
    /\ Start(restored)
    /\ \A t \in restored : file[t] # NoFile /\ t \in sessions'
    /\ listed \subseteq restored
    /\ registry' = [t \in Trades |-> IF t \in listed THEN file[t].task ELSE Nobody]
    /\ handles' = registry'
    /\ sessions' \subseteq sessions

\* A restart and a crash both start a new process.
LEMMA RestartEffect ==
  ASSUME Restart \/ Crash
  PROVE  \E restored, listed \in SUBSET Trades : NewProcess(restored, listed)
<1>1. CASE Restore
  <2>1. NewProcess(Restorable, Restorable)
    BY <1>1 DEF Restart, Crash, Restore, NewProcess, Restorable
  <2>2. QED
    BY <2>1 DEF Restorable
<1>2. CASE Restart /\ RestoreFails
  <2>1. PICK restored \in SUBSET Restorable : Start(restored)
    BY <1>2 DEF RestoreFails
  <2>2. NewProcess(restored, {})
    BY <1>2, <2>1 DEF Restart, RestoreFails, NewProcess, Restorable
  <2>3. QED
    BY <2>1, <2>2 DEF Restorable
<1>3. QED
  BY <1>1, <1>2 DEF Restart, Crash

\* What a new process makes of a trade: it goes on from its file, or is history.
Found(a, restored) ==
    \/ task'[a] = "none" /\ data'[a] = "open"
    \/ /\ task'[a] = "running" /\ data'[a] = file[trade[a]].data
       /\ trade[a] \in restored /\ file[trade[a]].task = a

\* What a new process finds: only trades of which it read the file run.
LEMMA StartEffect ==
  ASSUME TypeOK, Traded, NEW restored \in SUBSET Trades, NEW listed \in SUBSET Trades,
         NewProcess(restored, listed)
  PROVE  /\ UNCHANGED <<trade, lost, file, held, repeated>>
         /\ waiting' = {} /\ dirty' = {}
         /\ pc' = "up" /\ result' = "none" /\ asked' = Nobody
         /\ \A a \in Ids : Found(a, restored)
         /\ \A t \in restored : /\ file[t].task \in Ids /\ trade[file[t].task] = t
                                /\ task'[file[t].task] = "running"
         /\ \A t \in Trades : registry'[t] = IF t \in listed THEN file[t].task ELSE Nobody
<1>1. \A t \in restored : file[t].task \in Ids /\ trade[file[t].task] = t
  BY EntryFact DEF NewProcess, Traded
<1>2. ASSUME NEW a \in Ids
      PROVE  /\ task'[a] = IF \E t \in restored : file[t].task = a THEN "running" ELSE "none"
             /\ data'[a] = IF \E t \in restored : file[t].task = a
                             THEN file[trade[a]].data ELSE "open"
  BY DEF NewProcess, Start
<1>3. \A a \in Ids : Found(a, restored)
  BY <1>1, <1>2 DEF Found
<1>4. QED
  BY <1>1, <1>2, <1>3 DEF NewProcess, Start

\* Every step keeps the types.
LEMMA NextTypes == TypeOK /\ Inv /\ [Next]_vars => TypeOK'
<1> SUFFICES ASSUME TypeOK, Inv, [Next]_vars PROVE TypeOK'
  OBVIOUS
<1>0. /\ requests \in [Ids -> Seq(Requests)]
      /\ \A a \in Ids : Len(requests[a]) <= MaxRequests + 1 /\ Len(requests[a]) \in Nat
      /\ file \in [Trades -> Entries] /\ MaxRequests \in Nat
      /\ trade \in [Ids -> Trades \cup {Nobody}]
      /\ task \in [Ids -> Live \cup {"none", "new", "funded"}]
      /\ registry \in [Trades -> Ids \cup {Nobody}]
      /\ handles \in [Trades -> Ids \cup {Nobody}]
  BY RegistryAssumption DEF TypeOK, Requests, Entries, Live
<1>1. ASSUME NEW a \in Ids, NEW t \in Trades, NewSession(a, t) PROVE TypeOK'
  <2>1. trade' \in [Ids -> Trades \cup {Nobody}]
    BY <1>0, <1>1 DEF NewSession
  <2>2. QED
    BY <1>1, <2>1 DEF NewSession, TypeOK, store, shutdown, history
<1>2. ASSUME NEW a \in Ids, AllocateFunds(a) \/ DropAllocation(a) PROVE TypeOK'
  BY <1>2 DEF AllocateFunds, DropAllocation, TypeOK, store, shutdown, history
<1>3. ASSUME NEW a \in Ids, NewFails(a) PROVE TypeOK'
  BY <1>3 DEF NewFails, TypeOK, store, shutdown, history
<1>4. ASSUME NEW a \in Ids, Create(a) \/ DropTrade(a) PROVE TypeOK'
  <2>1. /\ registry' \in [Trades -> Ids \cup {Nobody}]
        /\ handles' \in [Trades -> Ids \cup {Nobody}]
    BY <1>0, <1>4 DEF Create, DropTrade
  <2>2. lost \subseteq Ids
    BY DEF TypeOK
  <2>3. lost' \subseteq Ids
    BY <1>4, <2>2 DEF Create, DropTrade
  <2>4. Spawn(a) /\ repeated' \in BOOLEAN
    BY <1>4 DEF Create, DropTrade, Spawn
  <2>5. QED
    BY <2>1, <2>3, <2>4 DEF Spawn, TypeOK, shutdown
<1>5. ASSUME NEW a \in Ids, Save(a) PROVE TypeOK'
  <2>1. trade[a] \in Trades
    BY <1>5 DEF Save, Inv, Traded, Live
  <2>2. /\ file' \in [Trades -> [task : Ids \cup {Nobody}, data : Data]]
        /\ lost' \subseteq Ids /\ dirty' = dirty \ {a}
    BY <1>5, <2>1, WritesEffect DEF Save, Entries
  <2>3. QED
    BY <1>5, <2>2 DEF Save, TypeOK, shutdown, history
<1>6. ASSUME NEW a \in Ids, NEW kind \in {"Cancel", "Stop"}, UserAsks(a, kind) PROVE TypeOK'
  <2>1. /\ Append(requests[a], kind) \in Seq(Requests)
        /\ Len(Append(requests[a], kind)) = Len(requests[a]) + 1
    BY <1>0, AppendFact DEF Requests
  <2>2. /\ requests' \in [Ids -> Seq(Requests)]
        /\ \A b \in Ids : Len(requests'[b]) <= MaxRequests + 1
    BY <1>0, <1>6, <2>1 DEF UserAsks
  <2>3. QED
    BY <1>6, <2>2 DEF UserAsks, TypeOK, Requests, store, shutdown, history
<1>7. ASSUME NEW a \in Ids, ServeCancel(a) \/ HandleReject(a) PROVE TypeOK'
  <2>1. /\ SettledBy(a) /\ requests' \in [Ids -> Seq(Requests)]
        /\ \A b \in Ids : Len(requests'[b]) <= MaxRequests + 1
    <3>1. /\ SettledBy(a) /\ requests' \in [Ids -> Seq(Requests)]
          /\ Len(requests'[a]) <= Len(requests[a]) /\ Len(requests'[a]) \in Nat
      BY <1>7, SettleEffect
    <3>2. \A b \in Ids \ {a} : requests'[b] = requests[b]
      BY <3>1 DEF SettledBy
    <3>3. Len(requests'[a]) <= MaxRequests + 1
      BY <1>0, <3>1
    <3>4. QED
      BY <1>0, <3>1, <3>2, <3>3
  <2>2. asked' \in Ids \cup {Nobody} /\ waiting' \subseteq Ids
    BY <2>1 DEF SettledBy, TypeOK
  <2>3. QED
    BY <2>1, <2>2 DEF SettledBy, TypeOK, Requests, Data, history
<1>8. ASSUME NEW a \in Ids, ServeStop(a) PROVE TypeOK'
  <2>1. trade[a] \in Trades
    BY <1>0, <1>8 DEF ServeStop, Idle, Running, Inv, Traded
  <2>2. /\ file' \in [Trades -> [task : Ids \cup {Nobody}, data : Data]]
        /\ lost' \subseteq Ids /\ dirty' \subseteq Ids
    <3>1. CASE a \in dirty
      BY <1>8, <2>1, <3>1, WritesEffect DEF ServeStop, Entries, TypeOK
    <3>2. CASE a \notin dirty
      BY <1>8, <3>2 DEF ServeStop, TypeOK
    <3>3. QED
      BY <3>1, <3>2
  <2>3. /\ requests' \in [Ids -> Seq(Requests)]
        /\ \A b \in Ids : Len(requests'[b]) <= MaxRequests + 1
    BY <1>0, <1>8, EmptyFact DEF ServeStop, Forgets
  <2>4. asked' \in Ids \cup {Nobody}
    BY <1>8 DEF ServeStop, Forgets, TypeOK
  <2>5. QED
    BY <1>8, <2>2, <2>3, <2>4 DEF ServeStop, TypeOK, Requests, history
<1>9. CASE Shutdown
  BY <1>9 DEF Shutdown, TypeOK, trades, store, history
<1>10. CASE StopPurse
  <2>1. Registered \subseteq Trades
    BY DEF Registered
  <2>2. QED
    BY <1>10, <2>1 DEF StopPurse, Returns, TypeOK, trades, store, history
<1>11. ASSUME NEW t \in Trades, RequestShutdown(t) PROVE TypeOK'
  <2>1. CASE Running(registry[t])
    <3>1. registry[t] \in Ids /\ asked # registry[t]
      BY <1>0, <1>11, <2>1, RegistryAssumption
      DEF RequestShutdown, NextUp, Inv, Stopping, Registered, Running
    <3>2. Append(requests[registry[t]], "Shutdown") \in Seq(Requests)
          /\ Len(Append(requests[registry[t]], "Shutdown")) <= MaxRequests + 1
      BY <1>0, <3>1, AppendFact DEF Requests, Inv, Room
    <3>3. /\ requests' \in [Ids -> Seq(Requests)]
          /\ \A b \in Ids : Len(requests'[b]) <= MaxRequests + 1
      BY <1>0, <1>11, <2>1, <3>1, <3>2 DEF RequestShutdown
    <3>4. QED
      BY <1>11, <2>1, <3>1, <3>3 DEF RequestShutdown, TypeOK, Requests, store, history
  <2>2. CASE ~Running(registry[t])
    BY <1>11, <2>2 DEF RequestShutdown, TypeOK, store, history
  <2>3. QED
    BY <2>1, <2>2
<1>12. CASE RequestsDone
  BY <1>12 DEF RequestsDone, Handled, TypeOK, trades, store, history
<1>13. ASSUME NEW t \in Trades, AwaitHandle(t) PROVE TypeOK'
  BY <1>13 DEF AwaitHandle, Returns, TypeOK, trades, store, history
<1>14. CASE StopN3xb
  BY <1>14 DEF StopN3xb, Returns, TypeOK, trades, store, history
<1>15. CASE Restart \/ Crash
  <2>1. PICK restored, listed \in SUBSET Trades : NewProcess(restored, listed)
    BY <1>15, RestartEffect
  <2>2. /\ task' \in [Ids -> {"none", "new", "funded", "running", "panicked", "ended"}]
        /\ data' \in [Ids -> Data]
    <3>1. \A a \in Ids : /\ Found(a, restored) /\ restored \subseteq Trades
                         /\ \A t \in Trades : file[t].data \in Data
      BY <2>1, StartEffect, EntryFact DEF Inv
    <3>2. \A a \in Ids : task'[a] \in {"running", "none"} /\ data'[a] \in Data
      BY <3>1 DEF Found, Data
    <3>3. QED
      BY <2>1, <3>2 DEF NewProcess, Start
  <2>3. /\ registry' \in [Trades -> Ids \cup {Nobody}]
        /\ handles' \in [Trades -> Ids \cup {Nobody}]
    BY <2>1, StartEffect DEF NewProcess, Inv
  <2>4. /\ requests' \in [Ids -> Seq(Requests)]
        /\ \A b \in Ids : Len(requests'[b]) <= MaxRequests + 1
    BY <1>0, <2>1, EmptyFact DEF NewProcess, Start
  <2>5. unclean' \in BOOLEAN /\ crashes' \in 0..MaxCrashes
    <3>1. CASE Restart
      BY <3>1 DEF Restart, TypeOK
    <3>2. CASE Crash
      <4>1. crashes \in 0..MaxCrashes /\ MaxCrashes \in Nat
        BY RegistryAssumption DEF TypeOK
      <4>2. unclean' = TRUE /\ crashes < MaxCrashes /\ crashes' = crashes + 1
        BY <3>2 DEF Crash
      <4>3. QED
        BY <4>1, <4>2
    <3>3. QED
      BY <1>15, <3>1, <3>2
  <2>6. QED
    BY <2>1, <2>2, <2>3, <2>4, <2>5 DEF NewProcess, Start, TypeOK, Requests
<1>16. CASE UNCHANGED vars
  BY <1>16 DEF vars, TypeOK
<1>17. ASSUME NEW a \in Ids, HandleNotif(a) PROVE TypeOK'
  BY <1>17 DEF HandleNotif, Notifies, TypeOK, store, shutdown, history
<1>18. ASSUME NEW a \in Ids, NotifyContinues(a) PROVE TypeOK'
  <2>1. /\ task' \in [Ids -> {"none", "new", "funded", "running", "panicked", "ended"}]
        /\ asked' \in Ids \cup {Nobody} /\ waiting' \subseteq Ids
    BY <1>18 DEF NotifyContinues, Forgets, TypeOK
  <2>2. /\ requests' \in [Ids -> Seq(Requests)]
        /\ \A b \in Ids : Len(requests'[b]) <= MaxRequests + 1
    <3>1. CASE requests' = requests
      BY <1>0, <3>1
    <3>2. CASE Forgets(a)
      BY <1>0, <3>2, EmptyFact DEF Forgets
    <3>3. QED
      BY <1>18, <3>1, <3>2 DEF NotifyContinues
  <2>3. QED
    BY <1>18, <2>1, <2>2 DEF NotifyContinues, TypeOK, Requests, store, history
<1>19. QED
  BY <1>1, <1>2, <1>3, <1>4, <1>5, <1>6, <1>7, <1>8, <1>9, <1>10, <1>11, <1>12, <1>13,
     <1>14, <1>15, <1>16, <1>17, <1>18 DEF Next, TradeStep, TraderStep, Serve

-----------------------------------------------------------------------------

\* Every step keeps each part of the invariant.
LEMMA TradedNext == TypeOK /\ Inv /\ [Next]_vars => Traded'
<1> SUFFICES ASSUME TypeOK, Inv, [Next]_vars PROVE Traded'
  OBVIOUS
<1>0. /\ trade \in [Ids -> Trades \cup {Nobody}] /\ Nobody \notin Ids /\ Nobody \notin Trades
      /\ task \in [Ids -> Live \cup {"none", "new", "funded"}]
      /\ dirty \subseteq Ids /\ held \subseteq Ids /\ waiting \subseteq Ids
      /\ Traded /\ NoFile.task = Nobody
  BY RegistryAssumption DEF TypeOK, Live, Inv, NoFile
<1>f. ASSUME UNCHANGED <<trade, task, dirty, held, file>>, waiting' \subseteq waiting
      PROVE  Traded'
  BY <1>0, <1>f DEF Traded, Running, Creating
<1>1. ASSUME NEW a \in Ids, NEW t \in Trades, NewSession(a, t) PROVE Traded'
  <2>1. /\ task[a] = "none" /\ a \notin held /\ a \notin dirty
        /\ \A u \in Trades : file[u] = NoFile \/ file[u].task # a
    BY <1>0, <1>1 DEF NewSession, Traded, Live
  <2>2. \A b \in Ids : trade'[b] = (IF b = a THEN t ELSE trade[b])
                    /\ task'[b] = (IF b = a THEN "new" ELSE task[b])
    BY <1>0, <1>1 DEF NewSession
  <2>3. UNCHANGED <<waiting, dirty, held, file>>
    BY <1>1 DEF NewSession, store
  <2>4. QED
    BY <1>0, <2>1, <2>2, <2>3 DEF Traded, Running, Creating
<1>2. ASSUME NEW a \in Ids, AllocateFunds(a) \/ DropAllocation(a) PROVE Traded'
  <2>1. /\ task[a] \in {"new", "funded"} /\ held' \in {held, held \cup {a}}
        /\ task' \in {[task EXCEPT ![a] = "funded"], [task EXCEPT ![a] = "none"]}
        /\ UNCHANGED <<trade, waiting, dirty, file>>
    BY <1>2 DEF AllocateFunds, DropAllocation, store
  <2>2. QED
    BY <1>0, <2>1 DEF Traded, Live, Running, Creating
<1>3. ASSUME NEW a \in Ids, NewFails(a) PROVE Traded'
  BY <1>0, <1>3 DEF NewFails, store, Traded, Live, Running, Creating
<1>4. ASSUME NEW a \in Ids, Create(a) \/ DropTrade(a) PROVE Traded'
  <2>1. /\ task[a] \in {"new", "funded"} /\ task' = [task EXCEPT ![a] = "running"]
        /\ dirty' = dirty \cup {a} /\ UNCHANGED <<trade, waiting, file, held>>
    BY <1>4 DEF Create, DropTrade, Spawn
  <2>2. QED
    BY <1>0, <2>1 DEF Traded, Live, Running, Creating
<1>5. ASSUME NEW a \in Ids, trade[a] \in Trades, Writes(a), UNCHANGED <<trade, held, waiting>>,
             a \notin waiting \/ task'[a] = task[a],
             \A b \in Ids \ {a} : task'[b] = task[b], task'[a] # "none" => task[a] # "none",
             task'[a] \notin {"new", "funded"}
      PROVE  Traded'
  <2>1. /\ dirty' = dirty \ {a}
        /\ \A t \in Trades : file'[t] = file[t] \/ (file'[t].task = a /\ trade[a] = t)
    BY <1>5, WritesEffect
  <2>2. \A b \in waiting : b \in Ids /\ task'[b] = task[b]
    BY <1>5 DEF TypeOK
  <2>3. QED
    BY <1>0, <1>5, <2>1, <2>2 DEF Traded, Running, Creating
<1>6. ASSUME NEW a \in Ids, Save(a) PROVE Traded'
  BY <1>0, <1>5, <1>6 DEF Save, Traded, Live
<1>7. ASSUME NEW a \in Ids, NEW kind, UserAsks(a, kind) PROVE Traded'
  BY <1>f, <1>7 DEF UserAsks, store
<1>8. ASSUME NEW a \in Ids, ServeCancel(a) \/ HandleReject(a) PROVE Traded'
  <2>1. SettledBy(a) /\ task[a] = "running" /\ a \notin waiting
    BY <1>8, SettleEffect DEF SettledBy, Idle, Running
  <2>2. QED
    BY <1>0, <2>1 DEF SettledBy, Traded, Live, Running, Creating
<1>9. ASSUME NEW a \in Ids, ServeStop(a) PROVE Traded'
  <2>1. /\ trade[a] \in Trades /\ UNCHANGED <<trade, held, waiting>> /\ a \notin waiting
        /\ task' = [task EXCEPT ![a] = "ended"] /\ task[a] = "running"
    BY <1>0, <1>9 DEF ServeStop, Idle, Running, Traded
  <2>2. CASE a \in dirty
    BY <1>0, <1>5, <1>9, <2>1, <2>2 DEF ServeStop
  <2>3. CASE a \notin dirty
    BY <1>0, <1>9, <2>1, <2>3 DEF ServeStop, Traded, Running, Creating
  <2>4. QED
    BY <2>2, <2>3
<1>10. CASE Shutdown \/ TraderStep \/ UNCHANGED vars
  BY <1>f, <1>10
  DEF Shutdown, TraderStep, StopPurse, RequestShutdown, RequestsDone, AwaitHandle,
      StopN3xb,
      trades, store, vars
<1>11. CASE Restart \/ Crash
  <2>1. PICK restored, listed \in SUBSET Trades : NewProcess(restored, listed)
    BY <1>11, RestartEffect
  <2>2. /\ UNCHANGED <<trade, file, held>> /\ dirty' = {} /\ waiting' = {}
        /\ \A a \in Ids : Found(a, restored)
    BY <1>0, <2>1, StartEffect
  <2>3. \A a \in Ids : task'[a] \in {"none", "running"} /\ (task'[a] # "none" => trade[a] \in Trades)
    BY <2>2 DEF Found
  <2>4. QED
    BY <1>0, <2>2, <2>3 DEF Traded, Creating
<1>12. ASSUME NEW a \in Ids, HandleNotif(a) PROVE Traded'
  BY <1>0, <1>12 DEF HandleNotif, Notifies, store, Idle, Running, Traded, Creating
<1>13. ASSUME NEW a \in Ids, NotifyContinues(a) PROVE Traded'
  <2>1. /\ task[a] = "running" /\ waiting' = waiting \ {a}
        /\ UNCHANGED <<trade, dirty, held, file>>
        /\ task' = task \/ task' = [task EXCEPT ![a] = "panicked"]
    BY <1>0, <1>13 DEF NotifyContinues, store, Traded, Running
  <2>2. QED
    BY <1>0, <2>1 DEF Traded, Live, Running, Creating
<1>14. QED
  BY <1>1, <1>2, <1>3, <1>4, <1>6, <1>7, <1>8, <1>9, <1>10, <1>11, <1>12, <1>13
  DEF Next, TradeStep, Serve

\* The maps: a trade is listed once it is spawned.
LEMMA ListedNext == TypeOK /\ Inv /\ [Next]_vars => Listed'
<1> SUFFICES ASSUME TypeOK, Inv, [Next]_vars PROVE Listed'
  OBVIOUS
<1>0. /\ trade \in [Ids -> Trades \cup {Nobody}] /\ Nobody \notin Ids /\ Nobody \notin Trades
      /\ task \in [Ids -> Live \cup {"none", "new", "funded"}]
      /\ registry \in [Trades -> Ids \cup {Nobody}] /\ handles \in [Trades -> Ids \cup {Nobody}]
      /\ Traded /\ Listed
  BY RegistryAssumption DEF TypeOK, Live, Inv
<1>r. /\ \A t \in Registered : t \in Trades /\ registry[t] \in Ids
      /\ \A t \in Handled : t \in Trades /\ handles[t] \in Ids
  BY <1>0 DEF Registered, Handled
<1>f. ASSUME UNCHANGED <<trade, task, registry, handles, sessions>> PROVE Listed'
  BY <1>f, <1>0 DEF Listed, Registered, Handled, Creating
<1>d. ASSUME UNCHANGED <<trade, registry, handles, sessions>>,
             \A a \in Ids : \/ task'[a] = task[a]
                            \/ task[a] = "running" /\ task'[a] \in Live
                            \/ task[a] = "new" /\ task'[a] \in {"funded", "none"}
                            \/ task[a] = "funded" /\ task'[a] = "none"
      PROVE  Listed'
  BY <1>d, <1>0, <1>r DEF Listed, Registered, Handled, Creating, Live
<1>1. ASSUME NEW a \in Ids, NEW t \in Trades, NewSession(a, t) PROVE Listed'
  <2>1. task[a] = "none"
    BY <1>0, <1>1 DEF NewSession, Traded
  <2>2. /\ \A b \in Ids : trade'[b] = (IF b = a THEN t ELSE trade[b])
                       /\ task'[b] = (IF b = a THEN "new" ELSE task[b])
        /\ UNCHANGED <<registry, handles>> /\ sessions' = sessions \cup {t}
    BY <1>0, <1>1 DEF NewSession, history
  <2>3. (\A u \in Registered : registry[u] # a) /\ (\A u \in Handled : handles[u] # a)
    BY <1>0, <2>1 DEF Listed, Live
  <2>4. QED
    BY <1>0, <1>r, <2>1, <2>2, <2>3 DEF Listed, Registered, Handled, Creating
<1>2. ASSUME NEW a \in Ids, AllocateFunds(a) \/ NewFails(a) \/ DropAllocation(a) PROVE Listed'
  BY <1>0, <1>2, <1>d DEF AllocateFunds, NewFails, DropAllocation, history
<1>3. ASSUME NEW a \in Ids, Create(a) \/ DropTrade(a) PROVE Listed'
  <2>1. /\ task[a] \in {"new", "funded"} /\ task' = [task EXCEPT ![a] = "running"]
        /\ registry' \in {registry, [registry EXCEPT ![trade[a]] = a]}
        /\ handles' \in {handles, [handles EXCEPT ![trade[a]] = a]}
        /\ registry' = registry \/ handles' = [handles EXCEPT ![trade[a]] = a]
        /\ UNCHANGED <<trade, sessions>>
    BY <1>3 DEF Create, DropTrade, Spawn
  <2>2. trade[a] \in sessions /\ trade[a] \in Trades
    BY <1>0, <2>1 DEF Listed, Creating, Traded
  <2>3. ASSUME NEW t \in Registered'
        PROVE  \/ t \in Registered /\ registry'[t] = registry[t]
               \/ t = trade[a] /\ registry'[t] = a /\ handles'[t] = a
    <3>1. t \in Trades /\ registry'[t] # Nobody
      BY DEF Registered
    <3>2. CASE registry' = registry
      BY <3>1, <3>2 DEF Registered
    <3>3. CASE registry' # registry
      BY <1>0, <2>1, <2>2, <3>1, <3>3 DEF Registered
    <3>4. QED
      BY <3>2, <3>3
  <2>4. ASSUME NEW t \in Handled'
        PROVE  \/ t \in Handled /\ handles'[t] = handles[t]
               \/ t = trade[a] /\ handles'[t] = a
    <3>1. t \in Trades /\ handles'[t] # Nobody
      BY DEF Handled
    <3>2. QED
      BY <1>0, <2>1, <2>2, <3>1 DEF Handled
  <2>5. /\ \A b \in Ids : task'[b] = task[b] \/ (b = a /\ task'[b] = "running")
        /\ Handled \subseteq Handled' /\ (handles'[trade[a]] = a => trade[a] \in Handled')
    BY <1>0, <2>1, <2>2 DEF Handled
  <2>6. \A t \in Registered' : trade'[registry'[t]] = t /\ task'[registry'[t]] \in Live
    BY <1>0, <1>r, <2>1, <2>3, <2>5 DEF Listed, Live
  <2>7. \A t \in Handled' : trade'[handles'[t]] = t /\ task'[handles'[t]] \in Live
    BY <1>0, <1>r, <2>1, <2>4, <2>5 DEF Listed, Live
  <2>8. Registered' \subseteq sessions' /\ Registered' \subseteq Handled'
    BY <1>0, <2>1, <2>2, <2>3, <2>5 DEF Listed
  <2>9. \A b \in Creating' : trade'[b] \in sessions'
    BY <1>0, <2>1, <2>5 DEF Listed, Creating
  <2>10. QED
    BY <2>6, <2>7, <2>8, <2>9 DEF Listed
<1>4. ASSUME NEW a \in Ids, NEW kind, Save(a) \/ UserAsks(a, kind) PROVE Listed'
  BY <1>f, <1>4 DEF Save, UserAsks, history
<1>10. ASSUME NEW a \in Ids, HandleNotif(a) \/ NotifyContinues(a) PROVE Listed'
  <2>1. /\ UNCHANGED <<trade, registry, handles, sessions>> /\ task[a] = "running"
        /\ task' = task \/ task' = [task EXCEPT ![a] = "panicked"]
    BY <1>0, <1>10 DEF HandleNotif, NotifyContinues, Traded, Idle, Running, history
  <2>2. QED
    BY <1>0, <1>d, <2>1 DEF Live
<1>5. ASSUME NEW a \in Ids, ServeCancel(a) \/ HandleReject(a) PROVE Listed'
  <2>1. SettledBy(a)
    BY <1>5, SettleEffect
  <2>2. QED
    BY <1>0, <1>d, <2>1 DEF SettledBy, Idle, Running, Live, history
<1>6. ASSUME NEW a \in Ids, ServeStop(a) PROVE Listed'
  BY <1>0, <1>d, <1>6 DEF ServeStop, Idle, Running, Live, history
<1>7. CASE Shutdown \/ TraderStep \/ UNCHANGED vars
  BY <1>f, <1>7
  DEF Shutdown, TraderStep, StopPurse, RequestShutdown, RequestsDone, AwaitHandle,
      StopN3xb, trades, vars, history
<1>8. CASE Restart \/ Crash
  <2>1. PICK restored, listed \in SUBSET Trades : NewProcess(restored, listed)
    BY <1>8, RestartEffect
  <2>2. /\ \A t \in Registered' : t \in restored /\ t \in sessions' /\ registry'[t] = file[t].task
        /\ handles' = registry' /\ Handled' = Registered'
    BY <1>0, <2>1, StartEffect DEF NewProcess, Registered, Handled
  <2>3. Creating' = {}
    BY <1>0, <2>1, StartEffect DEF Creating, Found
  <2>4. /\ trade' = trade
        /\ \A t \in restored : trade[file[t].task] = t /\ task'[file[t].task] = "running"
    BY <1>0, <2>1, StartEffect
  <2>5. QED
    BY <2>2, <2>3, <2>4 DEF Listed, Live
<1>11. QED
  BY <1>1, <1>2, <1>3, <1>4, <1>5, <1>6, <1>7, <1>8, <1>10
  DEF Next, TradeStep, Serve

\* A write: no other trade wrote the file it replaces.
LEMMA UniqueSaves ==
  ASSUME TypeOK, Inv, NEW a \in dirty, Writes(a),
         \A b \in Ids : task'[b] \in Live => task[b] \in Live,
         UNCHANGED <<trade, data, repeated>>
  PROVE  Unique'
<1> SUFFICES ASSUME ~repeated PROVE Unique'
  BY DEF Unique
<1>0. a \in Ids /\ trade[a] \in Trades /\ task[a] \in Live
  BY DEF Inv, Traded, TypeOK, Live
<1>1. /\ \A b, c \in Ids : Made(b) /\ Made(c) /\ trade[b] = trade[c] => b = c
      /\ \A b \in Ids : task[b] \in Live => Known(b)
  BY DEF Inv, Unique
<1>2. /\ \A t \in Trades \ {trade[a]} : file'[t] = file[t]
      /\ \A b \in Ids \ {a} : b \in lost' <=> b \in lost
      /\ dirty' = dirty \ {a}
      /\ \/ a \in lost' /\ file' = file
         \/ /\ file'[trade[a]] = [task |-> a, data |-> data[a]]
            /\ file'[trade[a]].task = a
  BY <1>0, WritesEffect
<1>3. \A b \in Ids : Made(b)' => Made(b)
  BY <1>0, <1>2 DEF Made
<1>4. ASSUME NEW b \in Ids, task[b] \in Live PROVE Known(b)'
  <2>1. CASE b = a
    BY <1>0, <1>2, <2>1 DEF Known
  <2>2. CASE b # a
    <3>1. trade[b] \in Trades /\ trade[b] # trade[a]
      BY <1>0, <1>1, <1>4, <2>2 DEF Made, Inv, Traded, Live
    <3>2. QED
      BY <1>1, <1>2, <1>4, <2>2, <3>1 DEF Known
  <2>3. QED
    BY <2>1, <2>2
<1>5. QED
  BY <1>1, <1>3, <1>4 DEF Unique

\* The files: a second trade of a uuid is noticed when it is created.
LEMMA UniqueNext == TypeOK /\ Inv /\ [Next]_vars => Unique'
<1> SUFFICES ASSUME TypeOK, Inv, [Next]_vars PROVE Unique'
  OBVIOUS
<1>0. /\ trade \in [Ids -> Trades \cup {Nobody}] /\ Nobody \notin Ids /\ Nobody \notin Trades
      /\ task \in [Ids -> Live \cup {"none", "new", "funded"}]
      /\ registry \in [Trades -> Ids \cup {Nobody}] /\ data \in [Ids -> Data]
      /\ Traded /\ Listed /\ Unique /\ NoFile.task = Nobody
  BY RegistryAssumption DEF TypeOK, Live, Inv, NoFile
<1>f. ASSUME UNCHANGED <<trade, file, repeated>>, dirty \subseteq dirty', lost \subseteq lost',
             \A b \in Ids : b \in dirty' \/ data'[b] = data[b],
             \A b \in Ids : task'[b] \in Live => task[b] \in Live
      PROVE  Unique'
  <2>1. \A b \in Ids : (Made(b)' => Made(b)) /\ (Known(b) => Known(b)')
    BY <1>f DEF Made, Known
  <2>2. QED
    BY <1>0, <1>f, <2>1 DEF Unique
<1>1. ASSUME NEW a \in Ids, NEW t \in Trades, NewSession(a, t) PROVE Unique'
  <2>1. ~Made(a)
    BY <1>0, <1>1 DEF NewSession, Traded, Made, Live
  <2>2. \A b \in Ids : /\ trade'[b] = (IF b = a THEN t ELSE trade[b])
                       /\ task'[b] = (IF b = a THEN "new" ELSE task[b])
    BY <1>0, <1>1 DEF NewSession
  <2>3. UNCHANGED <<data, file, repeated, dirty, lost>>
    BY <1>1 DEF NewSession, store, history
  <2>4. \A b \in Ids : /\ Made(b)' => Made(b) /\ b # a
                       /\ b # a /\ Known(b) => Known(b)'
    BY <2>1, <2>2, <2>3 DEF Made, Live, Known
  <2>5. QED
    BY <1>0, <2>2, <2>3, <2>4 DEF Unique, Live
<1>2. ASSUME NEW a \in Ids, AllocateFunds(a) \/ NewFails(a) \/ DropAllocation(a) PROVE Unique'
  <2>1. /\ UNCHANGED <<trade, file, repeated, data, dirty>> /\ lost \subseteq lost'
        /\ task' \in {[task EXCEPT ![a] = "funded"], [task EXCEPT ![a] = "none"]}
    BY <1>2 DEF AllocateFunds, NewFails, DropAllocation, store, history
  <2>2. QED
    BY <1>0, <1>f, <2>1 DEF Live
<1>3. ASSUME NEW a \in Ids, Create(a) \/ DropTrade(a) PROVE Unique'
  <2>1. /\ task[a] \in {"new", "funded"} /\ task' = [task EXCEPT ![a] = "running"]
        /\ UNCHANGED <<trade, data, file>> /\ dirty' = dirty \cup {a} /\ lost \subseteq lost'
    BY <1>3 DEF Create, DropTrade, Spawn
  <2>2. SUFFICES ASSUME ~repeated' PROVE Unique'
    BY DEF Unique
  <2>3. /\ ~repeated /\ file[trade[a]] = NoFile
        /\ \A b \in Ids \ {a} : trade[b] = trade[a] => task[b] = "none"
    BY <1>3, <2>2 DEF Create, DropTrade, Spawn
  <2>4. trade[a] \in Trades
    BY <1>0, <2>1 DEF Traded
  <2>5. \A b \in Ids \ {a} : trade[b] = trade[a] => ~Made(b)
    BY <1>0, <2>3, <2>4 DEF Made, Traded, Live
  <2>6. \A b \in Ids \ {a} : Made(b)' => Made(b)
    BY <1>0, <2>1 DEF Made
  <2>7. \A b, c \in Ids : Made(b)' /\ Made(c)' /\ trade'[b] = trade'[c] => b = c
    BY <1>0, <2>1, <2>3, <2>5, <2>6 DEF Unique
  <2>8. \A b \in Ids : task'[b] \in Live => Known(b)'
    BY <1>0, <2>1, <2>3 DEF Unique, Known
  <2>9. QED
    BY <2>7, <2>8 DEF Unique
<1>4. ASSUME NEW a \in Ids, Save(a) PROVE Unique'
  BY <1>4, UniqueSaves DEF Save, history
<1>5. ASSUME NEW a \in Ids, NEW kind, UserAsks(a, kind) PROVE Unique'
  BY <1>f, <1>5 DEF UserAsks, store, history
<1>6. ASSUME NEW a \in Ids, ServeCancel(a) \/ HandleReject(a) PROVE Unique'
  <2>1. SettledBy(a)
    BY <1>6, SettleEffect
  <2>2. QED
    BY <1>0, <1>f, <2>1 DEF SettledBy, Idle, Running, Live, history
<1>7. ASSUME NEW a \in Ids, ServeStop(a) PROVE Unique'
  <2>1. /\ UNCHANGED <<trade, data, repeated>>
        /\ \A b \in Ids : task'[b] \in Live => task[b] \in Live
    BY <1>0, <1>7 DEF ServeStop, Idle, Running, Live, history
  <2>2. CASE a \in dirty
    BY <1>7, <2>1, <2>2, UniqueSaves DEF ServeStop
  <2>3. CASE a \notin dirty
    BY <1>7, <2>1, <2>3, <1>f DEF ServeStop
  <2>4. QED
    BY <2>2, <2>3
<1>8. CASE Shutdown \/ TraderStep \/ UNCHANGED vars
  BY <1>f, <1>8
  DEF Shutdown, TraderStep, StopPurse, RequestShutdown, RequestsDone, AwaitHandle,
      StopN3xb,
      trades, store, vars, history
<1>9. CASE Restart \/ Crash
  <2>1. PICK restored, listed \in SUBSET Trades : NewProcess(restored, listed)
    BY <1>9, RestartEffect
  <2>2. UNCHANGED <<trade, lost, file, repeated>> /\ \A a \in Ids : Found(a, restored)
    BY <1>0, <2>1, StartEffect
  <2>3. \A b \in Ids : Made(b)' => Made(b)
    BY <2>2 DEF Made, Live, Found
  <2>4. ASSUME NEW b \in Ids, task'[b] \in Live PROVE Known(b)'
    <3>1. /\ data'[b] = file[trade[b]].data
          /\ trade[b] \in Trades /\ file[trade[b]].task = b
      BY <2>2, <2>4 DEF Live, Found
    <3>2. file[trade[b]] \in Entries
      BY <3>1 DEF TypeOK, Entries
    <3>3. file[trade[b]] = [task |-> b, data |-> data'[b]]
      BY <3>1, <3>2 DEF Entries
    <3>4. QED
      BY <2>2, <3>3 DEF Known
  <2>5. QED
    BY <1>0, <2>2, <2>3, <2>4 DEF Unique
<1>10. ASSUME NEW a \in Ids, HandleNotif(a) \/ NotifyContinues(a) PROVE Unique'
  <2>1. /\ UNCHANGED <<trade, file, repeated, data, dirty, lost>> /\ task[a] = "running"
        /\ task' = task \/ task' = [task EXCEPT ![a] = "panicked"]
    BY <1>0, <1>10 DEF HandleNotif, NotifyContinues, Traded, Idle, Running, store, history
  <2>2. QED
    BY <1>0, <1>f, <2>1 DEF Live
<1>11. QED
  BY <1>1, <1>2, <1>3, <1>4, <1>5, <1>6, <1>7, <1>8, <1>9, <1>10 DEF Next, TradeStep, Serve

\* The requests: the trader asks an actor once.
LEMMA RoomNext == TypeOK /\ Inv /\ [Next]_vars => Room'
<1> SUFFICES ASSUME TypeOK, Inv, [Next]_vars PROVE Room'
  OBVIOUS
<1>0. /\ requests \in [Ids -> Seq(Requests)] /\ Nobody \notin Ids
      /\ \A a \in Ids : Len(requests[a]) \in Nat
      /\ MaxRequests \in Nat /\ Room
  BY RegistryAssumption DEF TypeOK, Requests, Inv
<1>f. ASSUME UNCHANGED <<asked, requests>> PROVE Room'
  BY <1>0, <1>f DEF Room
<1>1. ASSUME NEW a \in Ids, NEW kind \in {"Cancel", "Stop"}, UserAsks(a, kind) PROVE Room'
  <2>1. Len(Append(requests[a], kind)) = Len(requests[a]) + 1
    BY <1>0, AppendFact DEF Requests
  <2>2. QED
    BY <1>0, <1>1, <2>1 DEF UserAsks, shutdown, Room
<1>2. ASSUME NEW a \in Ids, ServeCancel(a) \/ HandleReject(a) PROVE Room'
  <2>1. /\ SettledBy(a) /\ Len(requests'[a]) <= Len(requests[a])
        /\ requests' \in [Ids -> Seq(Requests)]
    BY <1>2, SettleEffect
  <2>2. Len(requests'[a]) \in Nat /\ (requests'[a] = <<>> => Len(requests'[a]) = 0)
    BY <2>1, EmptyFact
  <2>3. QED
    BY <1>0, <2>1, <2>2 DEF SettledBy, Room
<1>3. ASSUME NEW a \in Ids, ServeStop(a) PROVE Room'
  <2>1. requests'[a] = <<>> /\ \A b \in Ids \ {a} : requests'[b] = requests[b]
    BY <1>0, <1>3 DEF ServeStop, Forgets
  <2>2. QED
    BY <1>0, <1>3, <2>1, EmptyFact DEF ServeStop, Forgets, Room
<1>4. ASSUME NEW t \in Trades, RequestShutdown(t) PROVE Room'
  <2>1. \A b \in Ids : asked' = b \/ requests'[b] = requests[b]
    BY <1>0, <1>4 DEF RequestShutdown
  <2>2. asked = Nobody
    BY <1>4 DEF RequestShutdown
  <2>3. QED
    BY <1>0, <2>1, <2>2 DEF Room
<1>5. CASE Restart \/ Crash
  <2>1. requests' = [a \in Ids |-> <<>>]
    BY <1>5, RestartEffect DEF NewProcess, Start
  <2>2. QED
    BY <1>0, <2>1, EmptyFact DEF Room
<1>6. ASSUME NEW a \in Ids,
             \/ \E t \in Trades : NewSession(a, t)
             \/ AllocateFunds(a) \/ NewFails(a) \/ DropAllocation(a)
             \/ Create(a) \/ DropTrade(a) \/ Save(a) \/ HandleNotif(a)
      PROVE  Room'
  BY <1>f, <1>6
  DEF NewSession, AllocateFunds, NewFails, DropAllocation, Create, DropTrade, Spawn, Save,
      HandleNotif, shutdown
<1>7. ASSUME \/ Shutdown \/ StopPurse \/ RequestsDone \/ StopN3xb \/ UNCHANGED vars
             \/ \E t \in Trades : AwaitHandle(t)
      PROVE  Room'
  BY <1>f, <1>7
  DEF Shutdown, StopPurse, RequestsDone, StopN3xb, AwaitHandle, trades, store, vars
<1>8. ASSUME NEW a \in Ids, NotifyContinues(a) PROVE Room'
  <2>1. CASE UNCHANGED <<requests, asked>>
    BY <1>f, <2>1
  <2>2. CASE Forgets(a)
    <3>1. requests'[a] = <<>> /\ \A b \in Ids \ {a} : requests'[b] = requests[b]
      BY <1>0, <2>2 DEF Forgets
    <3>2. QED
      BY <1>0, <2>2, <3>1, EmptyFact DEF Forgets, Room
  <2>3. QED
    BY <1>8, <2>1, <2>2 DEF NotifyContinues
<1>9. QED
  BY <1>1, <1>2, <1>3, <1>4, <1>5, <1>6, <1>7, <1>8 DEF Next, TradeStep, TraderStep, Serve

\* The shutdown: what it saw of a trade remains true while others still run.
LEMMA StoppingNext == TypeOK /\ Inv /\ [Next]_vars => Stopping'
<1> SUFFICES ASSUME TypeOK, Inv, [Next]_vars PROVE Stopping'
  OBVIOUS
<1>0. /\ task \in [Ids -> Live \cup {"none", "new", "funded"}] /\ Nobody \notin Ids
      /\ asked \in Ids \cup {Nobody} /\ Listed /\ Stopping
      /\ \A t \in Registered : registry[t] \in Ids /\ task[registry[t]] \in Live
      /\ \A t \in Handled : handles[t] \in Ids /\ task[handles[t]] \in Live
  BY RegistryAssumption DEF TypeOK, Live, Inv, Listed, Registered, Handled
<1>f. ASSUME UNCHANGED <<pc, result, registry, handles, todo>>, Creating' \subseteq Creating,
             \A a \in Ids : /\ task'[a] = "running" => task[a] = "running"
                            /\ task[a] = "ended" => task'[a] = "ended"
                            /\ asked = a => asked' = a \/ task'[a] # "running"
      PROVE  Stopping'
  BY <1>0, <1>f DEF Stopping, Registered, Handled, Running
<1>1. ASSUME NEW a \in Ids, NEW t \in Trades, NewSession(a, t) PROVE Stopping'
  BY <1>0, <1>1 DEF NewSession, shutdown, history, Stopping, Registered, Handled
<1>2. ASSUME NEW a \in Ids, AllocateFunds(a) \/ NewFails(a) \/ DropAllocation(a)
      PROVE  Stopping'
  BY <1>0, <1>2, <1>f
  DEF AllocateFunds, NewFails, DropAllocation, shutdown, history, Creating
<1>3. ASSUME NEW a \in Ids, Create(a) \/ DropTrade(a) PROVE Stopping'
  <2>1. pc = "up" /\ result = "none" /\ UNCHANGED <<pc, result, todo>>
    BY <1>0, <1>3 DEF Create, DropTrade, Spawn, shutdown, Stopping, Creating
  <2>2. QED
    BY <1>0, <2>1 DEF Stopping
<1>4. ASSUME NEW a \in Ids, NEW kind, Save(a) \/ UserAsks(a, kind) PROVE Stopping'
  BY <1>f, <1>4 DEF Save, UserAsks, shutdown, history, Creating
<1>5. ASSUME NEW a \in Ids, ServeCancel(a) \/ HandleReject(a) PROVE Stopping'
  <2>1. SettledBy(a)
    BY <1>5, SettleEffect
  <2>2. QED
    BY <1>0, <1>f, <2>1 DEF SettledBy, Idle, Running, Creating, history
<1>6. ASSUME NEW a \in Ids, ServeStop(a) PROVE Stopping'
  BY <1>0, <1>f, <1>6 DEF ServeStop, Forgets, Idle, Running, Creating, history
<1>7. CASE Shutdown
  BY <1>0, <1>7 DEF Shutdown, trades, history, Stopping, Registered, Handled, Creating
<1>8. CASE StopPurse
  BY <1>0, <1>8 DEF StopPurse, Returns, trades, history, Stopping, Registered, Handled, Creating
<1>9. ASSUME NEW t \in Trades, RequestShutdown(t) PROVE Stopping'
  BY <1>0, <1>9 DEF RequestShutdown, history, Stopping, Registered, Handled, Creating, Running
<1>10. CASE RequestsDone
  BY <1>0, <1>10
  DEF RequestsDone, trades, history, Stopping, Registered, Handled, Creating, Running
<1>11. ASSUME NEW t \in Trades, AwaitHandle(t) PROVE Stopping'
  <2>1. t \in Handled /\ task[handles[t]] \in {"panicked", "ended"}
    BY <1>0, <1>11 DEF AwaitHandle, NextUp, Stopping, Running, Live
  <2>2. QED
    BY <1>0, <1>11, <2>1
    DEF AwaitHandle, Returns, trades, history, Stopping, Registered, Handled, Creating, Running
<1>12. CASE StopN3xb
  BY <1>0, <1>12
  DEF StopN3xb, Returns, trades, history, Stopping, Registered, Handled, Creating, Running
<1>13. CASE Restart \/ Crash
  BY <1>13, RestartEffect DEF NewProcess, Start, Stopping
<1>14. CASE UNCHANGED vars
  BY <1>f, <1>14 DEF vars, history, Creating
<1>15. ASSUME NEW a \in Ids, HandleNotif(a) \/ NotifyContinues(a) PROVE Stopping'
  <2>1. /\ UNCHANGED <<pc, result, registry, handles, todo>> /\ task[a] = "running"
        /\ \/ UNCHANGED <<task, asked>>
           \/ task' = [task EXCEPT ![a] = "panicked"] /\ asked' \in {asked, Nobody}
              /\ (asked # a => asked' = asked)
    BY <1>0, <1>15
    DEF HandleNotif, NotifyContinues, Forgets, Inv, Traded, Idle, Running, shutdown,
        history
  <2>2. QED
    BY <1>0, <1>f, <2>1 DEF Creating
<1>16. QED
  BY <1>1, <1>2, <1>3, <1>4, <1>5, <1>6, <1>7, <1>8, <1>9, <1>10, <1>11, <1>12, <1>13,
     <1>14, <1>15
  DEF Next, TradeStep, TraderStep, Serve

\* The funds: they are held until the trade settles, in memory and in its file.
LEMMA OpenNext == TypeOK /\ Inv /\ [Next]_vars => Open'
<1> SUFFICES ASSUME TypeOK, Inv, [Next]_vars PROVE Open'
  OBVIOUS
<1>0. /\ trade \in [Ids -> Trades \cup {Nobody}] /\ Nobody \notin Ids \cup Trades
      /\ held \subseteq Ids
      /\ task \in [Ids -> Live \cup {"none", "new", "funded"}] /\ data \in [Ids -> Data]
      /\ Open /\ Traded /\ NoFile.task = Nobody
  BY RegistryAssumption DEF TypeOK, Live, Inv, NoFile
<1>f. ASSUME UNCHANGED <<trade, data, file>>, held' \subseteq held,
             \A a \in Ids : /\ task'[a] \notin Live => task[a] \notin Live
                            /\ task'[a] = "new" => task[a] = "new"
      PROVE  Open'
  BY <1>0, <1>f DEF Open, Live
<1>1. ASSUME NEW a \in Ids, NEW t \in Trades, NewSession(a, t) PROVE Open'
  <2>1. task[a] = "none" /\ a \notin held /\ UNCHANGED <<data, file, held>>
    BY <1>0, <1>1 DEF NewSession, Traded, store
  <2>2. \A b \in Ids : /\ trade'[b] = (IF b = a THEN t ELSE trade[b])
                       /\ task'[b] = (IF b = a THEN "new" ELSE task[b])
    BY <1>0, <1>1 DEF NewSession
  <2>3. QED
    BY <1>0, <2>1, <2>2 DEF Open, Live
<1>2. ASSUME NEW a \in Ids, AllocateFunds(a) \/ NewFails(a) \/ DropAllocation(a) PROVE Open'
  <2>1. /\ task[a] \in {"new", "funded"} /\ UNCHANGED <<trade, data, file>>
        /\ \/ task' = [task EXCEPT ![a] = "funded"] \/ task' = [task EXCEPT ![a] = "none"]
        /\ held' = held \/ held' = held \cup {a}
    BY <1>2 DEF AllocateFunds, NewFails, DropAllocation, store
  <2>2. trade[a] \in Trades /\ file[trade[a]].task # a /\ data[a] = "open"
    BY <1>0, <2>1 DEF Traded, Creating, Open, Live
  <2>3. QED
    BY <1>0, <2>1, <2>2 DEF Open, Live
<1>3. ASSUME NEW a \in Ids, Create(a) \/ DropTrade(a) PROVE Open'
  <2>1. /\ task' = [task EXCEPT ![a] = "running"] /\ UNCHANGED <<trade, data, file, held>>
    BY <1>3 DEF Create, DropTrade, Spawn
  <2>2. QED
    BY <1>0, <1>f, <2>1 DEF Live
<1>4. ASSUME NEW a \in Ids, trade[a] \in Trades, Writes(a), UNCHANGED <<trade, data, held>>,
             task[a] \in Live, task'[a] \in Live, \A b \in Ids \ {a} : task'[b] = task[b]
      PROVE  Open'
  <2>1. /\ \A t \in Trades \ {trade[a]} : file'[t] = file[t]
        /\ \/ file' = file
           \/ file'[trade[a]].task = a /\ file'[trade[a]].data = data[a]
    BY <1>4, WritesEffect
  <2>2. ASSUME NEW b \in held, file'[trade[b]].task = b PROVE file'[trade[b]].data = "open"
    <3>1. b \in Ids /\ trade[b] \in Trades /\ data[b] = "open"
      BY <1>0 DEF Traded, Open
    <3>2. CASE file'[trade[b]] = file[trade[b]]
      BY <1>0, <2>2, <3>1, <3>2 DEF Open
    <3>3. CASE trade[b] = trade[a] /\ file'[trade[a]].task = a /\ file'[trade[a]].data = data[a]
      BY <2>2, <3>1, <3>3
    <3>4. QED
      BY <2>1, <3>1, <3>2, <3>3
  <2>3. QED
    BY <1>0, <1>4, <2>2 DEF Open, Live
<1>5. ASSUME NEW a \in Ids, Save(a) PROVE Open'
  BY <1>0, <1>4, <1>5 DEF Save, Traded, Live
<1>6. ASSUME NEW a \in Ids, ServeStop(a) PROVE Open'
  <2>1. /\ UNCHANGED <<trade, data, held>> /\ task[a] = "running" /\ trade[a] \in Trades
        /\ task' = [task EXCEPT ![a] = "ended"]
    BY <1>0, <1>6 DEF ServeStop, Idle, Running, Traded
  <2>2. CASE Writes(a)
    BY <1>0, <1>4, <2>1, <2>2 DEF Live
  <2>3. CASE file' = file
    BY <1>0, <1>f, <2>1, <2>3 DEF Live
  <2>4. QED
    BY <1>6, <2>2, <2>3 DEF ServeStop
<1>7. ASSUME NEW a \in Ids, ServeCancel(a) \/ HandleReject(a) PROVE Open'
  <2>1. SettledBy(a) /\ task[a] = "running"
    BY <1>7, SettleEffect DEF SettledBy, Idle, Running
  <2>2. CASE UNCHANGED <<held, data, dirty, task>>
    BY <1>f, <2>1, <2>2 DEF SettledBy
  <2>3. CASE held' = held \ {a} /\ data' = [data EXCEPT ![a] = "settled"] /\ UNCHANGED task
    BY <1>0, <2>1, <2>3 DEF SettledBy, Open, Live
  <2>4. CASE task' = [task EXCEPT ![a] = "panicked"] /\ UNCHANGED <<held, data>>
    BY <1>0, <1>f, <2>1, <2>4 DEF SettledBy, Live
  <2>5. QED
    BY <2>1, <2>2, <2>3, <2>4 DEF SettledBy
<1>8. ASSUME NEW a \in Ids, HandleNotif(a) \/ NotifyContinues(a) PROVE Open'
  <2>1. /\ UNCHANGED <<trade, data, file, held>>
        /\ task' = task \/ task' = [task EXCEPT ![a] = "panicked"]
    BY <1>8 DEF HandleNotif, NotifyContinues, store
  <2>2. QED
    BY <1>0, <1>f, <2>1 DEF Live
<1>9. ASSUME \/ Shutdown \/ TraderStep \/ UNCHANGED vars
             \/ \E a \in Ids, kind \in {"Cancel", "Stop"} : UserAsks(a, kind)
      PROVE  Open'
  BY <1>f, <1>9
  DEF Shutdown, TraderStep, StopPurse, RequestShutdown, RequestsDone, AwaitHandle,
      StopN3xb, UserAsks, trades, store, vars
<1>10. CASE Restart \/ Crash
  <2>1. PICK restored, listed \in SUBSET Trades : NewProcess(restored, listed)
    BY <1>10, RestartEffect
  <2>2. UNCHANGED <<trade, file, held>> /\ \A a \in Ids : Found(a, restored)
    BY <1>0, <2>1, StartEffect
  <2>3. ASSUME NEW a \in Ids
        PROVE  /\ a \in held \/ task'[a] \notin Live => data'[a] = "open"
               /\ task'[a] # "new"
    BY <1>0, <2>2 DEF Found, Open, Live
  <2>4. QED
    BY <1>0, <2>2, <2>3 DEF Open, Live
<1>11. QED
  BY <1>1, <1>2, <1>3, <1>5, <1>6, <1>7, <1>8, <1>9, <1>10 DEF Next, TradeStep, Serve

\* Unless a uuid was used twice, accessors and handles are of the same trades.
LEMMA SameHandle ==
  ASSUME TypeOK, Inv, ~repeated, NEW t \in Registered
  PROVE  /\ t \in Handled /\ handles[t] = registry[t]
         /\ result = "Ok" => task[registry[t]] = "ended"
<1>1. /\ t \in Handled /\ registry[t] \in Ids /\ handles[t] \in Ids
      /\ trade[handles[t]] = trade[registry[t]]
      /\ task[handles[t]] \in Live /\ task[registry[t]] \in Live
  BY DEF TypeOK, Inv, Listed, Registered, Handled
<1>2. handles[t] = registry[t]
  BY <1>1 DEF Inv, Unique, Made
<1>3. QED
  BY <1>1, <1>2 DEF Inv, Stopping

\* A write of a trade whose funds are held leaves it open in the file.
LEMMA OwnedSaves ==
  ASSUME TypeOK, Inv, NEW a \in dirty, Writes(a),
         \A b \in Ids : b = a \/ task'[b] = task[b],
         UNCHANGED <<trade, registry, held, data, unclean, repeated>>
  PROVE  Owned'
<1> SUFFICES ASSUME ~unclean, ~repeated, NEW b \in held
             PROVE  \/ task'[b] = "funded" \/ b \in lost'
                    \/ b \in dirty' /\ registry[trade[b]] = b
                    \/ file'[trade[b]] = [task |-> b, data |-> "open"]
  BY DEF Owned
<1>0. /\ a \in Ids /\ trade[a] \in Trades /\ task[a] \in Live
      /\ b \in Ids /\ trade[b] \in Trades /\ data[b] = "open" /\ Owned /\ Unique
  BY DEF Inv, Traded, TypeOK, Live, Open
<1>1. /\ \A t \in Trades \ {trade[a]} : file'[t] = file[t]
      /\ \A c \in Ids \ {a} : c \in lost' <=> c \in lost
      /\ dirty' = dirty \ {a}
      /\ a \in lost' \/ file'[trade[a]] = [task |-> a, data |-> data[a]]
  BY <1>0, WritesEffect
<1>2. CASE b = a
  BY <1>0, <1>1, <1>2
<1>3. CASE b # a /\ file[trade[b]] = [task |-> b, data |-> "open"]
  <2>1. Made(b) /\ Made(a)
    BY <1>0, <1>3 DEF Made
  <2>2. trade[b] # trade[a]
    BY <1>0, <1>3, <2>1 DEF Unique
  <2>3. QED
    BY <1>0, <1>1, <1>3, <2>2
<1>4. CASE b # a /\ file[trade[b]] # [task |-> b, data |-> "open"]
  BY <1>0, <1>1, <1>4 DEF Owned
<1>5. QED
  BY <1>2, <1>3, <1>4

\* A clean shutdown leaves no funds to a trade whose file is not written.
LEMMA OwnedNext == TypeOK /\ Inv /\ [Next]_vars => Owned'
<1> SUFFICES ASSUME TypeOK, Inv, [Next]_vars PROVE Owned'
  OBVIOUS
<1>0. /\ trade \in [Ids -> Trades \cup {Nobody}] /\ Nobody \notin Trades /\ held \subseteq Ids
      /\ task \in [Ids -> Live \cup {"none", "new", "funded"}]
      /\ registry \in [Trades -> Ids \cup {Nobody}]
      /\ Owned /\ Open /\ Unique /\ Traded /\ Stopping
  BY RegistryAssumption DEF TypeOK, Live, Inv
<1>f. ASSUME UNCHANGED <<trade, file, registry>>, held' \subseteq held,
             unclean => unclean', repeated => repeated',
             dirty \subseteq dirty', lost \subseteq lost',
             \A a \in held : task[a] = "funded" => task'[a] = "funded" \/ a \in lost'
      PROVE  Owned'
  BY <1>0, <1>f DEF Owned
<1>1. ASSUME NEW a \in Ids, NEW t \in Trades, NewSession(a, t) PROVE Owned'
  <2>1. task[a] = "none" /\ a \notin held
    BY <1>0, <1>1 DEF NewSession, Traded
  <2>2. \A b \in Ids : /\ trade'[b] = (IF b = a THEN t ELSE trade[b])
                       /\ task'[b] = (IF b = a THEN "new" ELSE task[b])
    BY <1>0, <1>1 DEF NewSession
  <2>3. UNCHANGED <<dirty, lost, file, held, registry, unclean, repeated>>
    BY <1>1 DEF NewSession, store, history
  <2>4. QED
    BY <1>0, <2>1, <2>2, <2>3 DEF Owned
<1>2. ASSUME NEW a \in Ids, AllocateFunds(a) PROVE Owned'
  <2>1. /\ UNCHANGED <<trade, dirty, lost, file, registry, unclean, repeated>>
        /\ held' = held \cup {a} /\ task' = [task EXCEPT ![a] = "funded"]
    BY <1>2 DEF AllocateFunds, store, history
  <2>2. QED
    BY <1>0, <2>1 DEF Owned
<1>3. ASSUME NEW a \in Ids, NewFails(a) PROVE Owned'
  <2>1. /\ UNCHANGED <<trade, dirty, lost, file, held, registry, unclean, repeated>>
        /\ task[a] = "new" /\ task' = [task EXCEPT ![a] = "none"]
    BY <1>3 DEF NewFails, store, history
  <2>2. QED
    BY <1>0, <1>f, <2>1
<1>4. ASSUME NEW a \in Ids, Create(a) PROVE Owned'
  <2>1. /\ task[a] \in {"new", "funded"} /\ task' = [task EXCEPT ![a] = "running"]
        /\ registry' = [registry EXCEPT ![trade[a]] = a] /\ dirty' = dirty \cup {a}
        /\ UNCHANGED <<trade, file, lost, held, unclean>>
    BY <1>4 DEF Create, Spawn
  <2>2. SUFFICES ASSUME ~unclean', ~repeated', NEW b \in held
                 PROVE  \/ task'[b] = "funded" \/ b \in lost
                        \/ b \in dirty' /\ registry'[trade[b]] = b
                        \/ file[trade[b]] = [task |-> b, data |-> "open"]
    BY <2>1 DEF Owned
  <2>3. /\ ~repeated /\ ~unclean /\ b \in Ids
        /\ \A c \in Ids \ {a} : trade[c] = trade[a] => task[c] = "none"
    BY <1>0, <1>4, <2>1, <2>2 DEF Create, Spawn
  <2>4. trade[a] \in Trades
    BY <1>0, <2>1 DEF Traded
  <2>5. CASE b = a
    BY <1>0, <2>1, <2>4, <2>5
  <2>6. CASE b # a /\ b \in dirty
    <3>1. task[b] # "none" /\ trade[b] \in Trades /\ trade[b] # trade[a]
      BY <1>0, <2>3, <2>6 DEF Traded, Live
    <3>2. registry'[trade[b]] = registry[trade[b]] /\ task'[b] = task[b]
      BY <1>0, <2>1, <2>3, <2>4, <2>6, <3>1
    <3>3. QED
      BY <2>1, <2>3, <2>6, <3>2, <1>0 DEF Owned
  <2>7. CASE b # a /\ b \notin dirty
    BY <1>0, <2>1, <2>3, <2>7 DEF Owned
  <2>8. QED
    BY <2>5, <2>6, <2>7
<1>5. ASSUME NEW a \in Ids, Save(a) PROVE Owned'
  BY <1>0, <1>5, OwnedSaves DEF Save, history, Traded
<1>6. ASSUME NEW a \in Ids, ServeCancel(a) \/ HandleReject(a) PROVE Owned'
  <2>1. SettledBy(a) /\ task[a] = "running"
    BY <1>6, SettleEffect DEF SettledBy, Idle, Running
  <2>2. /\ UNCHANGED <<trade, lost, file, registry, unclean, repeated>>
        /\ held' \subseteq held /\ dirty \subseteq dirty'
        /\ task' = task \/ task' = [task EXCEPT ![a] = "panicked"]
    BY <2>1 DEF SettledBy, history
  <2>3. QED
    BY <1>0, <1>f, <2>1, <2>2
<1>7. ASSUME NEW a \in Ids, ServeStop(a) PROVE Owned'
  <2>1. /\ UNCHANGED <<trade, registry, held, data, unclean, repeated>>
        /\ task[a] = "running" /\ task' = [task EXCEPT ![a] = "ended"]
    BY <1>7 DEF ServeStop, Idle, Running, history
  <2>2. CASE a \in dirty
    BY <1>0, <1>7, <2>1, <2>2, OwnedSaves DEF ServeStop
  <2>3. CASE a \notin dirty
    BY <1>0, <1>f, <1>7, <2>1, <2>3 DEF ServeStop
  <2>4. QED
    BY <2>2, <2>3
<1>8. ASSUME \/ Shutdown \/ TraderStep \/ UNCHANGED vars
             \/ \E a \in Ids, kind \in {"Cancel", "Stop"} : UserAsks(a, kind)
      PROVE  Owned'
  BY <1>f, <1>8
  DEF Shutdown, TraderStep, StopPurse, RequestShutdown, RequestsDone, AwaitHandle,
      StopN3xb, UserAsks, trades, store, vars, history
<1>9. ASSUME NEW a \in Ids, DropAllocation(a) PROVE Owned'
  <2>1. /\ task' = [task EXCEPT ![a] = "none"] /\ lost' = lost \cup {a}
        /\ held' = held \/ held' = held \cup {a}
        /\ UNCHANGED <<trade, dirty, file, registry, unclean, repeated>>
    BY <1>9 DEF DropAllocation, history
  <2>2. QED
    BY <1>0, <2>1 DEF Owned
<1>10. ASSUME NEW a \in Ids, DropTrade(a) PROVE Owned'
  <2>1. /\ task' = [task EXCEPT ![a] = "running"] /\ (repeated => repeated')
        /\ dirty' = dirty \cup {a} /\ lost' = lost \cup {a}
        /\ UNCHANGED <<trade, file, held, registry, unclean>>
    BY <1>10 DEF DropTrade, Spawn
  <2>2. QED
    BY <1>0, <1>f, <2>1
<1>11. ASSUME NEW a \in Ids, HandleNotif(a) \/ NotifyContinues(a) PROVE Owned'
  <2>1. /\ UNCHANGED <<trade, dirty, lost, file, held, registry, unclean, repeated>>
        /\ task[a] = "running"
        /\ task' = task \/ task' = [task EXCEPT ![a] = "panicked"]
    BY <1>0, <1>11 DEF HandleNotif, NotifyContinues, Traded, Idle, Running, store, history
  <2>2. QED
    BY <1>0, <1>f, <2>1
<1>12. CASE Restart \/ Crash
  <2>1. PICK restored, listed \in SUBSET Trades : NewProcess(restored, listed)
    BY <1>12, RestartEffect
  <2>2. UNCHANGED <<trade, lost, file, held, repeated>>
    BY <1>0, <2>1, StartEffect
  <2>3. ASSUME NEW a \in held, ~unclean', ~repeated'
        PROVE  a \in lost \/ file[trade[a]] = [task |-> a, data |-> "open"]
    <3>1. pc = "down" /\ result = "Ok" /\ ~unclean /\ ~repeated
      BY <1>12, <2>2, <2>3 DEF Restart, Crash
    <3>2. a \in Ids /\ trade[a] \in Trades /\ task[a] # "funded"
      BY <1>0, <3>1 DEF Stopping, Creating, Traded
    <3>3. ~(a \in dirty /\ registry[trade[a]] = a)
      <4>1. SUFFICES ASSUME registry[trade[a]] = a PROVE a \notin dirty
        OBVIOUS
      <4>2. trade[a] \in Registered
        BY <1>0, <3>2, <4>1, RegistryAssumption DEF Registered
      <4>3. task[a] = "ended"
        BY <3>1, <4>1, <4>2, SameHandle
      <4>4. QED
        BY <1>0, <4>3 DEF Traded
    <3>4. QED
      BY <1>0, <3>1, <3>2, <3>3 DEF Owned
  <2>4. QED
    BY <2>2, <2>3 DEF Owned
<1>13. QED
  BY <1>1, <1>2, <1>3, <1>4, <1>5, <1>6, <1>7, <1>8, <1>9, <1>10, <1>11, <1>12
  DEF Next, TradeStep, Serve

\* A new directory satisfies it.
LEMMA InitInv == Init => TypeOK /\ Inv
<1> SUFFICES ASSUME Init PROVE TypeOK /\ Inv
  OBVIOUS
<1>1. /\ MaxRequests \in Nat /\ 0 \in 0..MaxCrashes /\ Nobody \notin Ids
      /\ <<>> \in Seq(Requests) /\ Len(<<>>) = 0
      /\ NoFile \in Entries /\ NoFile.task = Nobody
  BY RegistryAssumption, EmptyFact DEF NoFile, Entries, Data
<1>2. /\ requests \in [Ids -> Seq(Requests)]
      /\ \A a \in Ids : Len(requests[a]) <= MaxRequests /\ Len(requests[a]) <= MaxRequests + 1
  BY <1>1 DEF Init
<1>3. TypeOK
  BY <1>1, <1>2 DEF Init, TypeOK, Requests, Entries, Data
<1>4. Registered = {} /\ Handled = {} /\ Creating = {} /\ \A a \in Ids : ~Made(a)
  BY <1>1 DEF Init, Registered, Handled, Creating, Made, Live
<1>5. Traded /\ Listed /\ Unique
  BY <1>4 DEF Init, Traded, Listed, Unique, Live
<1>6. Stopping /\ Room /\ Open /\ Owned
  BY <1>2, <1>4 DEF Init, Stopping, Room, Open, Owned
<1>7. QED
  BY <1>3, <1>5, <1>6 DEF Inv

-----------------------------------------------------------------------------
\* Every state of the registry satisfies the types and the invariant.
LEMMA RegistryInvariance == Spec => [](TypeOK /\ Inv)
<1>1. TypeOK /\ Inv /\ [Next]_vars => (TypeOK /\ Inv)'
  BY NextTypes, TradedNext, ListedNext, UniqueNext, StoppingNext, RoomNext, OpenNext, OwnedNext
  DEF Inv
<1>2. QED
  BY <1>1, InitInv, PTL DEF Spec

\* Type correctness.
THEOREM RegistryTypeOK == Spec => []TypeOK
BY RegistryInvariance, PTL

\* A shutdown that returns Ok has waited for every trade of which a handle is in
\* the maps, and each of them for its thread, whoever asked it to stop and in
\* which order: what they knew is in their files, if these could be written.
THEOREM RegistryShutdownIsComplete == Spec => []ShutdownIsComplete
<1>1. TypeOK /\ Inv => ShutdownIsComplete
  <2> SUFFICES ASSUME TypeOK, Inv, result = "Ok", NEW t \in Handled
               PROVE  /\ task[handles[t]] = "ended"
                      /\ \/ repeated \/ handles[t] \in lost
                         \/ file[trade[handles[t]]] =
                              [task |-> handles[t], data |-> data[handles[t]]]
    BY DEF ShutdownIsComplete, HandledTasks
  <2>1. handles[t] \in Ids /\ task[handles[t]] = "ended" /\ handles[t] \notin dirty
    BY DEF TypeOK, Handled, Inv, Stopping, Traded
  <2>2. QED
    BY <2>1 DEF Inv, Unique, Known, Live
<1>2. QED
  BY <1>1, RegistryInvariance, PTL

\* A shutdown that returns an error at the first handle of a task that panicked
\* leaves none of the registered trades running.
THEOREM RegistryErrorStopsTrades == Spec => []ErrorStopsTrades
<1>1. TypeOK /\ Inv => ErrorStopsTrades
  BY DEF Inv, Stopping, ErrorStopsTrades, RegisteredTasks
<1>2. QED
  BY <1>1, RegistryInvariance, PTL

\* As long as every process ended by a clean shutdown and no uuid was used twice,
\* the purse holds funds for nobody but trades that know of them, those apart
\* whose file could not be written or whose creation was given up.
THEOREM RegistryFundsHaveOwner == Spec => []FundsHaveOwner
<1>1. TypeOK /\ Inv => FundsHaveOwner
  BY DEF TypeOK, Inv, Owned, FundsHaveOwner, Creating
<1>2. QED
  BY <1>1, RegistryInvariance, PTL

\* After a shutdown that returned Ok the next process finds all trades again of
\* which no write failed or, if the directories cannot be read, none.
THEOREM RegistrySurvivesShutdown == Spec => RegistrySurvives
<1> DEFINE Survives ==
      pc = "down" /\ pc' = "up" /\ result = "Ok" /\ ~repeated =>
         \/ \A t \in Registered : registry'[t] = registry[t] \/ registry[t] \in lost
         \/ \A t \in Trades : registry'[t] = Nobody
<1>1. TypeOK /\ Inv /\ [Next]_vars => Survives
  <2> SUFFICES ASSUME TypeOK, Inv, [Next]_vars,
                      pc = "down", pc' = "up", result = "Ok", ~repeated
               PROVE  \/ \A t \in Registered : registry'[t] = registry[t] \/ registry[t] \in lost
                      \/ \A t \in Trades : registry'[t] = Nobody
    OBVIOUS
  <2>1. Restart
    BY DEF Next, Shutdown, TraderStep, StopPurse, RequestShutdown, RequestsDone,
       AwaitHandle,
       StopN3xb, TradeStep, NewSession, AllocateFunds, NewFails, DropAllocation, Spawn,
       Create, DropTrade, UserAsks, Serve, ServeCancel, ServeStop, HandleReject, HandleNotif,
       NotifyContinues, Save, Crash, shutdown, vars
  <2>2. ASSUME NEW t \in Registered, Restore, registry[t] \notin lost
        PROVE  registry'[t] = registry[t]
    <3>1. t \in Trades /\ registry[t] # Nobody /\ task[registry[t]] = "ended" /\ t \in sessions
      BY SameHandle DEF Registered, Inv, Listed
    <3>2. file[t].task = registry[t]
      <4>1. registry[t] \in Ids /\ trade[registry[t]] = t /\ registry[t] \notin dirty
        BY <3>1 DEF TypeOK, Inv, Listed, Traded
      <4>2. Known(registry[t])
        BY <3>1, <4>1 DEF Inv, Unique, Live
      <4>3. QED
        BY <2>2, <4>1, <4>2 DEF Known
    <3>3. file[t] # NoFile /\ sessions' = sessions
      BY <2>1, <3>1, <3>2 DEF NoFile, Restart
    <3>4. QED
      BY <2>2, <3>1, <3>2, <3>3 DEF Restore, Restorable
  <2>3. QED
    BY <2>1, <2>2 DEF Restart, RestoreFails
<1>2. QED
  BY <1>1, RegistryInvariance, PTL DEF Spec, RegistrySurvives
===============================================================================
