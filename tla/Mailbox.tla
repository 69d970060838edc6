------------------------------- MODULE Mailbox -------------------------------
(***************************************************************************)
(* The channels of one maker or taker actor of a buy order: requests of    *)
(* the user's tasks and their oneshot answers, what n3xb hands over, and   *)
(* the notification channel the user registered.  What the requests do to  *)
(* the trade is in Maker.tla and Taker.tla; here they differ by what they  *)
(* do to the channels and by when they are answered.                       *)
(***************************************************************************)
EXTENDS Naturals, SequencesExt

CONSTANTS Users,            \* tasks that hold an accessor of the actor
          MayAsk,           \* the kinds of requests each of Users makes
          Listeners,        \* notification channels of the user
          Offers,           \* offers of takers, for a maker
          TradeRsp, Peer,   \* the response, for a taker; the peer message
          Nothing,          \* no listener, no notification
          RequestCapacity,  \* MAKE_TRADE_REQUEST_CHANNEL_SIZE, 10 in the code
          NotifCapacity,    \* the capacity of each of Listeners
          MaxAbandoned,     \* bound on requests given up before their answer
          MaxRestarts       \* bound on restarts

ASSUME MailboxAssumption ==
    /\ RequestCapacity \in Nat \ {0} /\ NotifCapacity \in Nat \ {0}
    /\ MaxAbandoned \in Nat /\ MaxRestarts \in Nat

VARIABLES role,        \* "Maker" or "Taker"
          actor,       \* "running", "panicked" or "ended"
          state,       \* the state of the trade, persisted
          begun,       \* the order was posted, or taken
          event,       \* what became of each message of n3xb
          connected,   \* n3xb is connected to its relays
          queue,       \* requests sent, and those that wait to be sent
          listener,    \* notif_tx
          sending,     \* the notification the actor awaits a place for
          unread,      \* the contents of the notification channels
          open,        \* notification channels whose receiver exists
          told,        \* notifications the user has read
          subscribed,  \* the listener that is registered, as far as the user was told
          exposed,     \* the user posted or reconnected unregistered, or unregistered
          reckless,    \* it gave up a request, or dropped a receiver in use
          failed,      \* n3xb failed to post, take, accept, reject or send
          misled,      \* it was sent specifics, or an address, that are none
          abandoned, restarts

vars == <<role, actor, state, begun, event, connected, queue, listener, sending, unread,
          open, told, subscribed, exposed, reckless, failed, misled, abandoned, restarts>>

\* What has gone wrong around the actor since its process started.
mishaps == <<failed, misled>>

\* "Open": WaitingForOffers, or SubmittedOffer.  "Heard": ReceivedOffer, or
\* OfferAccepted.  "Agreed": AcceptedOffer, or NotifiedOutbound; only then is a
\* peer message expected.  "Inbound": the peer message was received.
States == {"New", "Open", "Heard", "Agreed", "Inbound"}

\* "Begin": post_new_order or take_order.  "Agree": trade_response or
\* notify_peer.  "Query": any request that only reads.
Kinds == {"Begin", "Agree", "Query", "Register", "Unregister", "Shutdown"}

\* channel: what is to be registered.  awaited: the caller still awaits rsp_rx.
Request == [by : Users, kind : Kinds, channel : Listeners \cup {Nothing}, awaited : BOOLEAN]

Events == Offers \cup {TradeRsp, Peer}

\* "kept" in the data of the actor, "refused" as it does not fit the state or is
\* not what it should be, "lost" because nobody was registered.
Fates == {"away", "kept", "refused", "lost"}

TypeOK ==
    /\ role \in {"Maker", "Taker"}
    /\ actor \in {"running", "panicked", "ended"}
    /\ state \in States
    /\ event \in [Events -> Fates]
    /\ queue \in Seq(Request)
    /\ listener \in Listeners \cup {Nothing}
    /\ sending \in Events \cup {Nothing}
    /\ unread \in [Listeners -> Seq(Events)] /\ open \subseteq Listeners
    /\ \A c \in Listeners : Len(unread[c]) <= NotifCapacity
    /\ told \subseteq Events
    /\ subscribed \in Listeners \cup {Nothing}
    /\ {begun, connected, exposed, reckless, failed, misled} \subseteq BOOLEAN
    /\ abandoned \in 0..MaxAbandoned /\ restarts \in 0..MaxRestarts

Init ==
    /\ role \in {"Maker", "Taker"}
    /\ actor = "running" /\ state = "New"
    /\ begun = FALSE
    /\ event = [e \in Events |-> "away"]
    /\ connected = TRUE
    /\ queue = <<>>
    /\ listener = Nothing /\ sending = Nothing
    /\ unread = [c \in Listeners |-> <<>>] /\ open = Listeners
    /\ told = {}
    /\ subscribed = Nothing /\ exposed = FALSE /\ reckless = FALSE
    /\ failed = FALSE /\ misled = FALSE
    /\ abandoned = 0 /\ restarts = 0

-----------------------------------------------------------------------------
(* Tasks of the user                                                       *)

Awaits(u) == \E i \in DOMAIN queue : queue[i].by = u /\ queue[i].awaited

\* Beyond RequestCapacity a request still waits in tx.send(), in order.
InChannel(i) == i <= RequestCapacity

\* An accessor sends a request and awaits the answer.  Nobody answers an offer
\* or a response that was not received; an order is posted, or taken, once.
\* Bound: at most one request waits to be sent.
Ask(u, kind, c) ==
    /\ actor = "running" /\ ~Awaits(u) /\ kind \in MayAsk[u]
    /\ Len(queue) <= RequestCapacity
    /\ kind = "Begin" => state = "New" /\ \A i \in DOMAIN queue : queue[i].kind # "Begin"
    /\ kind = "Agree" => state = "Heard"
    /\ kind = "Register" <=> c # Nothing
    /\ kind = "Register" => c \in open
    /\ queue' = Append(queue, [by |-> u, kind |-> kind, channel |-> c, awaited |-> TRUE])
    /\ exposed' = \/ exposed \/ kind = "Unregister"
                  \/ kind = "Begin" /\ subscribed = Nothing
    /\ UNCHANGED <<role, actor, state, begun, event, connected, listener, sending, unread>>
    /\ UNCHANGED <<open, told, subscribed, reckless, mishaps, abandoned, restarts>>

\* The future of an accessor is dropped, as by a timeout: a request that was
\* not sent is withdrawn, one that was sent is served all the same.
Abandon(i) ==
    /\ i \in DOMAIN queue /\ queue[i].awaited
    /\ abandoned < MaxAbandoned
    /\ abandoned' = abandoned + 1
    /\ reckless' = TRUE
    /\ queue' = IF InChannel(i) THEN [queue EXCEPT ![i].awaited = FALSE]
                                ELSE RemoveAt(queue, i)
    /\ UNCHANGED <<role, actor, state, begun, event, connected, listener, sending, unread>>
    /\ UNCHANGED <<open, told, subscribed, exposed, mishaps, restarts>>

ReadNotif(c) ==
    /\ c \in open /\ unread[c] # <<>>
    /\ told' = told \cup {Head(unread[c])}
    /\ unread' = [unread EXCEPT ![c] = Tail(@)]
    /\ UNCHANGED <<role, actor, state, begun, event, connected, queue, listener, sending>>
    /\ UNCHANGED <<open, subscribed, exposed, reckless, mishaps, abandoned, restarts>>

\* As far as the user knows, or as it asked for.
InUse(c) == subscribed = c \/ \E i \in DOMAIN queue : queue[i].channel = c

DropReceiver(c) ==
    /\ c \in open
    /\ open' = open \ {c}
    /\ unread' = [unread EXCEPT ![c] = <<>>]
    /\ reckless' = (reckless \/ InUse(c))
    /\ UNCHANGED <<role, actor, state, begun, event, connected, queue, listener, sending>>
    /\ UNCHANGED <<told, subscribed, exposed, mishaps, abandoned, restarts>>

-----------------------------------------------------------------------------
(* Requests served                                                         *)

\* Mutant: the receiver outlives the task.
GoneKeepsReceiver(how) ==
    /\ actor' = how
    /\ sending' = Nothing
    /\ UNCHANGED queue

\* The task is gone and its receiver with it: shutdown() and callers that
\* could not yet send return an error, the others panic on rsp_rx.
Gone(how) ==
    /\ actor' = how
    /\ queue' = <<>>
    /\ sending' = Nothing

\* rsp_tx.send(..).unwrap()
Answer ==
    IF Head(queue).awaited
      THEN queue' = Tail(queue) /\ UNCHANGED <<actor, sending>>
      ELSE Gone("panicked")

Serves(kind) ==
    /\ actor = "running" /\ sending = Nothing
    /\ queue # <<>> /\ Head(queue).kind = kind
    /\ UNCHANGED <<role, event, connected, unread, open, told, exposed, reckless>>
    /\ UNCHANGED <<misled, abandoned, restarts>>

\* Mutant: the state is set before n3xb answers.
ServeBeginEarly ==
    /\ Serves("Begin")
    /\ Answer
    /\ state' = "Open"
    /\ begun' \in {begun, TRUE}
    /\ UNCHANGED <<listener, subscribed, failed>>

\* n3xb may fail.  The answer comes before the state is set: nothing is set
\* if it cannot be sent.
ServeBegin ==
    /\ Serves("Begin")
    /\ Answer
    /\ \/ /\ begun' = TRUE
          /\ state' = IF Head(queue).awaited THEN "Open" ELSE state
          /\ UNCHANGED failed
       \/ failed' = TRUE /\ UNCHANGED <<begun, state>>
    /\ UNCHANGED <<listener, subscribed>>

\* The state is set before the answer; a rejection leaves it as it is.  If n3xb
\* fails a taker is told so, and a maker panics.
ServeAgree ==
    /\ Serves("Agree")
    /\ \/ state' = "Agreed" /\ Answer /\ UNCHANGED failed
       \/ role = "Maker" /\ Answer /\ UNCHANGED <<state, failed>>
       \/ role = "Taker" /\ Answer /\ failed' = TRUE /\ UNCHANGED state
       \/ role = "Maker" /\ Gone("panicked") /\ failed' = TRUE /\ UNCHANGED state
    /\ UNCHANGED <<begun, listener, subscribed>>

ServeQuery ==
    /\ Serves("Query")
    /\ Answer
    /\ UNCHANGED <<state, begun, listener, subscribed, failed>>

\* The new sender replaces an old one, although the answer is then an error.
ServeRegister ==
    /\ Serves("Register")
    /\ Answer
    /\ listener' = Head(queue).channel
    /\ subscribed' = Head(queue).channel
    /\ UNCHANGED <<state, begun, failed>>

\* Mutant: the sender is kept.
ServeUnregisterKeeps ==
    /\ Serves("Unregister")
    /\ Answer
    /\ subscribed' = Nothing
    /\ UNCHANGED <<state, begun, listener, failed>>

ServeUnregister ==
    /\ Serves("Unregister")
    /\ Answer
    /\ listener' = Nothing
    /\ subscribed' = Nothing
    /\ UNCHANGED <<state, begun, failed>>

\* terminate the data, shut n3xb down, answer and return from run().
ServeShutdown ==
    /\ Serves("Shutdown")
    /\ Gone(IF Head(queue).awaited THEN "ended" ELSE "panicked")
    /\ UNCHANGED <<state, begun, listener, subscribed, failed>>

ServeRequest ==
    \/ ServeBegin \/ ServeAgree \/ ServeQuery
    \/ ServeRegister \/ ServeUnregister \/ ServeShutdown

-----------------------------------------------------------------------------
(* Notifications                                                           *)

\* Mutant: the channels are not bounded.
NotifyUnbounded(e) ==
    IF listener \notin open
      THEN Gone("panicked") /\ UNCHANGED unread
      ELSE /\ unread' = [unread EXCEPT ![listener] = Append(@, e)]
           /\ sending' = Nothing
           /\ UNCHANGED <<actor, queue>>

\* Mutant: try_send, which drops what does not fit.
NotifyTries(e) ==
    IF listener \notin open
      THEN Gone("panicked") /\ UNCHANGED unread
      ELSE /\ unread' = IF Len(unread[listener]) < NotifCapacity
                          THEN [unread EXCEPT ![listener] = Append(@, e)] ELSE unread
           /\ sending' = Nothing
           /\ UNCHANGED <<actor, queue>>

\* notif_tx.send(..).await.unwrap(), of a handler that has the listener.
Notify(e) ==
    IF listener \notin open
      THEN Gone("panicked") /\ UNCHANGED unread
      ELSE IF Len(unread[listener]) < NotifCapacity
        THEN /\ unread' = [unread EXCEPT ![listener] = Append(@, e)]
             /\ sending' = Nothing
             /\ UNCHANGED <<actor, queue>>
        ELSE /\ sending' = e
             /\ UNCHANGED <<actor, queue, unread>>

\* The actor waited for a place in the channel, or for its end.
NotifyContinues ==
    /\ sending # Nothing
    /\ listener \in open => Len(unread[listener]) < NotifCapacity
    /\ Notify(sending)
    /\ UNCHANGED <<role, state, begun, event, connected, listener, open>>
    /\ UNCHANGED <<told, subscribed, exposed, reckless, mishaps, abandoned, restarts>>

Receives(e) ==
    /\ actor = "running" /\ sending = Nothing
    /\ connected /\ event[e] = "away" /\ begun
    /\ UNCHANGED <<role, begun, connected, listener, open>>
    /\ UNCHANGED <<told, subscribed, exposed, reckless, abandoned, restarts>>

Becomes(e, fate) == event' = [event EXCEPT ![e] = fate]

\* A message that is kept, and the user told of.
Keep(e, next) ==
    /\ state' = next
    /\ Becomes(e, "kept")
    /\ Notify(e)

\* A message that is not.
Skip(e, fate) ==
    /\ Becomes(e, fate)
    /\ UNCHANGED <<actor, state, queue, sending, unread>>

\* reject_offer failed: unwrap().
RejectPanics(o) ==
    /\ failed' = TRUE
    /\ Becomes(o, "refused")
    /\ Gone("panicked")
    /\ UNCHANGED <<state, unread, misled>>

\* An offer that comes too late is rejected.  Else it is stored, but only if
\* somebody is to be told.
HandleOfferNotif(o) ==
    /\ role = "Maker" /\ o \in Offers /\ Receives(o)
    /\ \/ /\ state \notin {"Open", "Heard"}
          /\ RejectPanics(o) \/ (Skip(o, "refused") /\ UNCHANGED mishaps)
       \/ /\ state \in {"Open", "Heard"}
          /\ IF listener = Nothing THEN Skip(o, "lost") ELSE Keep(o, "Heard")
          /\ UNCHANGED mishaps

\* The same, but a taker expects one response.
HandleTradeRspNotif ==
    /\ role = "Taker" /\ Receives(TradeRsp)
    /\ CASE state # "Open" -> Skip(TradeRsp, "refused")
         [] state = "Open" /\ listener = Nothing -> Skip(TradeRsp, "lost")
         [] OTHER -> Keep(TradeRsp, "Heard")
    /\ UNCHANGED mishaps

\* Stored even if nobody is to be told.
HandlePeerNotif ==
    /\ Receives(Peer)
    /\ CASE state # "Agreed" -> Skip(Peer, "refused")
         [] state = "Agreed" /\ listener = Nothing ->
              /\ state' = "Inbound"
              /\ Becomes(Peer, "kept")
              /\ UNCHANGED <<actor, queue, sending, unread>>
         [] OTHER -> Keep(Peer, "Inbound")
    /\ UNCHANGED mishaps

\* What fits the state but is none of this library's.  An offer that does not
\* validate, or an address of another network, makes a maker forget the message.
\* Specifics of another type, or a string that is no address: unwrap().
HandleStranger(e) ==
    /\ Receives(e)
    /\ Becomes(e, "refused")
    /\ \/ /\ role = "Maker"
          /\ (e \in Offers /\ state \in {"Open", "Heard"}) \/ (e = Peer /\ state = "Agreed")
          /\ UNCHANGED <<actor, queue, sending, misled>>
       \/ /\ \/ role = "Taker" /\ e = TradeRsp /\ state = "Open"
             \/ e = Peer /\ state = "Agreed"
          /\ Gone("panicked")
          /\ misled' = TRUE
    /\ UNCHANGED <<state, unread, failed>>

HandleNotif ==
    \/ \E o \in Offers : HandleOfferNotif(o)
    \/ HandleTradeRspNotif
    \/ HandlePeerNotif
    \/ \E e \in Events : HandleStranger(e)

-----------------------------------------------------------------------------
(* The process                                                             *)

\* Mutant: restore() connects the relays.
RestoreConnects ==
    /\ actor # "running" /\ restarts < MaxRestarts
    /\ restarts' = restarts + 1
    /\ actor' = "running"
    /\ connected' = TRUE
    /\ queue' = <<>> /\ sending' = Nothing
    /\ listener' = Nothing
    /\ unread' = [c \in Listeners |-> <<>>] /\ open' = Listeners
    /\ subscribed' = Nothing
    /\ reckless' = FALSE /\ failed' = FALSE /\ misled' = FALSE
    /\ UNCHANGED <<role, state, begun, event, told, exposed, abandoned>>

\* A new process restores the actor from its file, with new channels.  The
\* relays are not connected before the user asks for it.
Restore ==
    /\ actor # "running" /\ restarts < MaxRestarts
    /\ restarts' = restarts + 1
    /\ actor' = "running"
    /\ connected' = FALSE
    /\ queue' = <<>> /\ sending' = Nothing
    /\ listener' = Nothing
    /\ unread' = [c \in Listeners |-> <<>>] /\ open' = Listeners
    /\ subscribed' = Nothing
    /\ reckless' = FALSE /\ failed' = FALSE /\ misled' = FALSE
    /\ UNCHANGED <<role, state, begun, event, told, exposed, abandoned>>

Reconnect ==
    /\ actor = "running" /\ ~connected
    /\ connected' = TRUE
    /\ exposed' = (exposed \/ subscribed = Nothing)
    /\ UNCHANGED <<role, actor, state, begun, event, queue, listener, sending, unread>>
    /\ UNCHANGED <<open, told, subscribed, reckless, mishaps, abandoned, restarts>>

UserStep ==
    \/ \E u \in Users, kind \in Kinds, c \in Listeners \cup {Nothing} : Ask(u, kind, c)
    \/ \E i \in DOMAIN queue : Abandon(i)
    \/ \E c \in Listeners : ReadNotif(c) \/ DropReceiver(c)
    \/ Reconnect

Next == UserStep \/ ServeRequest \/ HandleNotif \/ NotifyContinues \/ Restore

Spec == Init /\ [][Next]_vars

\* The actor is a loop that only its own awaits suspend, and each channel has
\* a task of its own that reads it.
Fairness ==
    /\ WF_vars(ServeRequest)
    /\ WF_vars(NotifyContinues)
    /\ \A c \in Listeners : WF_vars(ReadNotif(c))

FairSpec == Spec /\ Fairness

-----------------------------------------------------------------------------
(* Properties                                                              *)

\* No interleaving of registrations, requests and messages makes the actor
\* panic, unless the user gave up a request or dropped a receiver in use, or the
\* peer sent what this library never does.  A failing n3xb panics nobody but a
\* maker, and it only once an offer came in: any other failure is answered.
PanicsAreProvoked ==
    actor = "panicked" =>
        \/ reckless \/ misled
        \/ failed /\ role = "Maker" /\ \E o \in Offers : event[o] # "away"

\* A message is only lost on a user that posted or reconnected before it was
\* registered, or that unregistered.
LostOnlyIfExposed == (\E e \in Events : event[e] = "lost") => exposed

\* The state and the relays agree on whether the trade was begun, whatever
\* n3xb answers and however the actor ends, unless a request was given up.
BegunIsRecorded == abandoned = 0 => (begun <=> state # "New")

\* Every request is answered, or its caller learns that the actor is gone:
\* a full notification channel delays it, but the two never wait for each other.
RequestsAreAnswered == \A u \in Users : Awaits(u) ~> ~Awaits(u)

\* Of what the actor stored the user is told, in spite of a full channel and
\* by the process that stored it, unless it stopped listening.
StoredIsTold ==
    \A e \in Events :
        event[e] = "kept" ~> \/ e \in told
                             \/ exposed \/ open # Listeners
                             \/ actor # "running" \/ restarts > 0
=============================================================================
