----------------------------- MODULE Persister -----------------------------
(***************************************************************************)
(* persist/std.rs together with the setters of the data modules that drive *)
(* it: the actor that owns a store, the channel of capacity one, and the   *)
(* thread that writes the store to its file.                               *)
(*                                                                         *)
(* The contents of a store are abstracted to a version: the number of the  *)
(* update that produced them.                                              *)
(***************************************************************************)
EXTENDS Naturals, Sequences

CONSTANTS NoFile,         \* the file does not exist
          Torn,           \* the file is truncated or partly written
          WritesMayFail,  \* fs::write may return an error
          MaxUpdates,     \* bound on the updates of a behaviour
          MaxCrashes      \* bound on the crashes of a behaviour

ASSUME PersisterAssumption ==
    /\ NoFile \notin Nat /\ Torn \notin Nat /\ NoFile # Torn
    /\ WritesMayFail \in BOOLEAN
    /\ MaxUpdates \in Nat
    /\ MaxCrashes \in Nat

VARIABLES store,    \* version of the data behind the RwLock
          updates,  \* updates made so far, which numbers the versions
          owner,    \* where the actor that owns the store is
          chan,     \* persist_tx / persist_rx
          thread,   \* where the persistence thread is
          image,    \* the version the thread serialized
          disk,     \* what the file holds
          failed,   \* the latest write was reported as an error and ignored
          crashes

vars == <<store, updates, owner, chan, thread, image, disk, failed, crashes>>

\* "dirty": a field is written, queue() is the next call.  "dead": the actor
\* panicked and dropped its sender.  "down": the process is gone.
\* "unreadable": restore() failed and the component cannot start.
OwnerStates == {"idle", "dirty", "closing", "closed", "dead", "down", "unreadable"}
ThreadStates == {"recv", "got", "writing", "done"}
Channels == {<<>>, <<"Persist">>, <<"Close">>}

TypeOK ==
    /\ store \in Nat
    /\ updates \in Nat
    /\ owner \in OwnerStates
    /\ chan \in Channels
    /\ thread \in ThreadStates
    /\ image \in Nat
    /\ disk \in Nat \cup {NoFile, Torn}
    /\ failed \in BOOLEAN
    /\ crashes \in Nat

Init ==
    /\ store = 0 /\ updates = 0 /\ crashes = 0
    /\ owner = "dirty"          \* new() ends with persister.queue()
    /\ chan = <<>>
    /\ thread = "recv" /\ image = 0
    /\ disk = NoFile
    /\ failed = FALSE

-----------------------------------------------------------------------------
(* The actor that owns the store                                           *)

\* Mutant: a setter that does not call queue().
UpdateUnqueued ==
    /\ owner = "idle" /\ thread # "writing"
    /\ updates < MaxUpdates
    /\ updates' = updates + 1 /\ store' = updates + 1
    /\ UNCHANGED <<owner, chan, thread, image, disk, failed, crashes>>

\* Mutant: the write guard is not taken, the thread may be writing.
UpdateUnlocked ==
    /\ owner = "idle"
    /\ updates < MaxUpdates
    /\ updates' = updates + 1 /\ store' = updates + 1
    /\ owner' = "dirty"
    /\ UNCHANGED <<chan, thread, image, disk, failed, crashes>>

\* A setter writes one field under the write lock, which the thread's read
\* guard excludes for as long as it is writing the file.
Update ==
    /\ owner = "idle" /\ thread # "writing"
    /\ updates < MaxUpdates
    /\ updates' = updates + 1
    /\ store' = updates + 1
    /\ owner' = "dirty"
    /\ UNCHANGED <<chan, thread, image, disk, failed, crashes>>

\* Mutant: the channel is taken for an unbounded one.
QueueUnbounded ==
    /\ owner = "dirty"
    /\ owner' = "idle"
    /\ chan' = Append(chan, "Persist")
    /\ UNCHANGED <<store, updates, thread, image, disk, failed, crashes>>

\* try_send: a full channel drops the request.
Queue ==
    /\ owner = "dirty"
    /\ owner' = "idle"
    /\ chan' = IF chan = <<>> THEN <<"Persist">> ELSE chan
    /\ UNCHANGED <<store, updates, thread, image, disk, failed, crashes>>

\* Mutant: Close takes the place of a request that waits.
TerminateOverwrites ==
    /\ owner = "idle"
    /\ chan' = <<"Close">>
    /\ owner' = "closing"
    /\ UNCHANGED <<store, updates, thread, image, disk, failed, crashes>>

\* Mutant: Close is sent like a request, and dropped by a full channel.
TerminateTrySends ==
    /\ owner = "idle"
    /\ chan' = IF chan = <<>> THEN <<"Close">> ELSE chan
    /\ owner' = "closing"
    /\ UNCHANGED <<store, updates, thread, image, disk, failed, crashes>>

\* send(Close) waits for room in the channel.
Terminate ==
    /\ owner = "idle" /\ chan = <<>>
    /\ chan' = <<"Close">>
    /\ owner' = "closing"
    /\ UNCHANGED <<store, updates, thread, image, disk, failed, crashes>>

Joined ==
    /\ owner = "closing" /\ thread = "done"
    /\ owner' = "closed"
    /\ UNCHANGED <<store, updates, chan, thread, image, disk, failed, crashes>>

\* An unwrap() in the actor fails: its sender is dropped, the process lives.
Panic ==
    /\ owner = "idle"
    /\ owner' = "dead"
    /\ UNCHANGED <<store, updates, chan, thread, image, disk, failed, crashes>>

-----------------------------------------------------------------------------
(* The persistence thread                                                  *)

Recv ==
    /\ thread = "recv" /\ chan # <<>>
    /\ thread' = IF Head(chan) = "Persist" THEN "got" ELSE "done"
    /\ chan' = Tail(chan)
    /\ UNCHANGED <<store, updates, owner, image, disk, failed, crashes>>

Disconnected ==
    /\ thread = "recv" /\ chan = <<>> /\ owner = "dead"
    /\ thread' = "done"
    /\ UNCHANGED <<store, updates, owner, chan, image, disk, failed, crashes>>

\* The read guard is taken, the store serialized, and fs::write truncates the
\* file; the guard lives until the write returns.
BeginWrite ==
    /\ thread = "got"
    /\ thread' = "writing"
    /\ image' = store
    /\ disk' = Torn
    /\ UNCHANGED <<store, updates, owner, chan, failed, crashes>>

\* Mutant: the loop ends after a write.
FinishWriteAndEnd ==
    /\ thread = "writing"
    /\ thread' = "done"
    /\ disk' = image
    /\ failed' = FALSE
    /\ UNCHANGED <<store, updates, owner, chan, image, crashes>>

FinishWrite ==
    /\ thread = "writing"
    /\ thread' = "recv"
    /\ disk' = image
    /\ failed' = FALSE
    /\ UNCHANGED <<store, updates, owner, chan, image, crashes>>

\* The error, of the open or of the write, is logged and the loop goes on.
FailWrite ==
    /\ WritesMayFail
    /\ thread \in {"got", "writing"}
    /\ thread' = "recv"
    /\ failed' = TRUE
    /\ UNCHANGED <<store, updates, owner, chan, image, disk, crashes>>

-----------------------------------------------------------------------------
(* The process                                                             *)

Crash ==
    /\ owner \notin {"down", "unreadable"}
    /\ crashes < MaxCrashes
    /\ crashes' = crashes + 1
    /\ owner' = "down"
    /\ chan' = <<>>
    /\ thread' = "done"
    /\ UNCHANGED <<store, updates, image, disk, failed>>

\* restore() or, when there is no file, a fresh store; then a new Persister,
\* whose first act is queue().
Restart ==
    /\ owner \in {"closed", "down"}
    /\ disk # Torn
    /\ store' = IF disk = NoFile THEN 0 ELSE disk
    /\ owner' = "dirty"
    /\ thread' = "recv"
    /\ failed' = FALSE
    /\ UNCHANGED <<updates, chan, image, disk, crashes>>

\* serde_json refuses a torn file and the constructor panics.
RestartFails ==
    /\ owner \in {"closed", "down"}
    /\ disk = Torn
    /\ owner' = "unreadable"
    /\ UNCHANGED <<store, updates, chan, thread, image, disk, failed, crashes>>

Thread == Recv \/ Disconnected \/ BeginWrite \/ FinishWrite \/ FailWrite

Next ==
    \/ Update \/ Queue \/ Terminate \/ Joined \/ Panic
    \/ Thread
    \/ Crash \/ Restart \/ RestartFails

\* The thread is a loop that nothing but its own blocking recv() suspends, and
\* the owner calls queue() right after a setter and join() right after Close.
Spec == Init /\ [][Next]_vars /\ WF_vars(Thread) /\ WF_vars(Queue) /\ WF_vars(Joined)

-----------------------------------------------------------------------------
(* Properties                                                              *)

\* Dropping a request when the channel is full forgets no update: while the
\* process lives, a file that differs from the store is on its way to be
\* rewritten, unless the operating system reported that the write failed.
NoUpdateForgotten ==
    disk # store /\ ~failed =>
        \/ owner \in {"dirty", "down", "unreadable"}
        \/ chan = <<"Persist">>
        \/ thread \in {"got", "writing"}

\* terminate() joins a thread that has written everything it was asked to: a
\* closed component left its last update in the file.
FlushedWhenClosed == owner = "closed" => disk = store \/ failed

\* Every update reaches the file, or a write error or a crash is to blame.
EventuallyOnDisk ==
    (disk # store) ~> (disk = store \/ failed \/ owner \in {"down", "unreadable"})

\* terminate() returns: the join cannot wait for ever on a thread that waits
\* for a message.
TerminateReturns == (owner = "closing") ~> (owner \in {"closed", "down"})

-----------------------------------------------------------------------------
(* The abstract store this implements                                      *)

Status == CASE owner = "closed" -> "closed"
            [] owner \in {"down", "unreadable"} -> "down"
            [] OTHER -> "open"

Abstract == INSTANCE DurableStore
              WITH mem <- store, tainted <- failed, status <- Status

\* The file is a durable store: it only ever receives the current contents,
\* and a clean close leaves none behind.
ImplementsDurableStore == Abstract!Spec
=============================================================================
