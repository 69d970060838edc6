---------------------------- MODULE MailboxProofs ----------------------------
(***************************************************************************)
(* The safety properties of the channels of an actor, for every number of  *)
(* users, of notification channels and of offers, and for every capacity   *)
(* of the channels.  A request waits in the queue while its caller gives   *)
(* up, drops the receiver it is about to register, or is overtaken by a    *)
(* message: Sound says what is true of a request all the time it waits, so *)
(* that it still is when the request is served.                            *)
(***************************************************************************)
EXTENDS Mailbox, SequenceTheorems, TLAPS

\* Head and Tail of a sequence, in terms of its elements.
LEMMA HeadTail ==
  ASSUME NEW S, NEW s \in Seq(S), s # <<>>
  PROVE  /\ Head(s) \in S /\ 1 \in DOMAIN s /\ Head(s) = s[1]
         /\ Tail(s) \in Seq(S) /\ Len(Tail(s)) = Len(s) - 1
         /\ \A i \in DOMAIN Tail(s) : i + 1 \in DOMAIN s /\ Tail(s)[i] = s[i + 1]
OBVIOUS

\* Append adds its element, and no other.
LEMMA Appended ==
  ASSUME NEW S, NEW s \in Seq(S), NEW e \in S
  PROVE  /\ Append(s, e) \in Seq(S) /\ Len(Append(s, e)) = Len(s) + 1
         /\ \A i \in DOMAIN Append(s, e) :
              Append(s, e)[i] = e \/ (i \in DOMAIN s /\ Append(s, e)[i] = s[i])
OBVIOUS

\* RemoveAt of the community modules adds no element.
LEMMA Removed ==
  ASSUME NEW S, NEW s \in Seq(S), NEW k \in DOMAIN s
  PROVE  /\ RemoveAt(s, k) \in Seq(S)
         /\ \A i \in DOMAIN RemoveAt(s, k) : \E j \in DOMAIN s : RemoveAt(s, k)[i] = s[j]
<1> DEFINE a == SubSeq(s, 1, k - 1)
           b == SubSeq(s, k + 1, Len(s))
<1>1. /\ a \in Seq(S) /\ Len(a) = k - 1
      /\ \A i \in 1..(k - 1) : a[i] = s[i]
  OBVIOUS
<1>2. /\ b \in Seq(S) /\ Len(b) = Len(s) - k
      /\ \A i \in 1..(Len(s) - k) : b[i] = s[k + i]
  OBVIOUS
<1>3. RemoveAt(s, k) = a \o b
  BY DEF RemoveAt
<1> HIDE DEF a, b
<1>4. /\ a \o b \in Seq(S) /\ Len(a \o b) = Len(a) + Len(b)
      /\ \A i \in 1..(Len(a) + Len(b)) :
           (a \o b)[i] = IF i <= Len(a) THEN a[i] ELSE b[i - Len(a)]
  BY <1>1, <1>2, ConcatProperties
<1>5. ASSUME NEW i \in 1..(Len(a) + Len(b)) PROVE \E j \in DOMAIN s : (a \o b)[i] = s[j]
  <2>0. DOMAIN s = 1..Len(s) /\ Len(s) \in Nat /\ k \in 1..Len(s)
    OBVIOUS
  <2>1. CASE i <= k - 1
    <3>1. i \in 1..(k - 1) /\ (a \o b)[i] = a[i]
      BY <1>1, <1>2, <1>4, <2>0, <2>1
    <3>2. i \in DOMAIN s
      BY <2>0, <3>1
    <3>3. QED
      BY <1>1, <3>1, <3>2
  <2>2. CASE i > k - 1
    <3>0. Len(a) = k - 1 /\ Len(b) = Len(s) - k
      BY <1>1, <1>2
    <3>1. i - (k - 1) \in 1..(Len(s) - k) /\ (a \o b)[i] = b[i - (k - 1)]
      <4>1. i - (k - 1) \in 1..(Len(s) - k) /\ ~(i <= Len(a)) /\ i - Len(a) = i - (k - 1)
        BY <2>0, <2>2, <3>0
      <4>2. (a \o b)[i] = b[i - Len(a)]
        BY <1>4, <4>1, Zenon
      <4>3. QED
        BY <4>1, <4>2, Zenon
    <3>2. k + (i - (k - 1)) \in DOMAIN s
      BY <2>0, <3>1
    <3>3. QED
      BY <1>2, <3>1, <3>2
  <2>3. QED
    BY <1>1, <1>2, <2>0, <2>1, <2>2
<1>6. DOMAIN (a \o b) = 1..(Len(a) + Len(b))
  BY <1>4
<1>7. QED
  BY <1>3, <1>4, <1>5, <1>6

\* No request but those there were.
Shrinks == /\ queue' \in Seq(Request)
           /\ \A i \in DOMAIN queue' : \E j \in DOMAIN queue : queue'[i] = queue[j]

\* To serve a request, or to be gone, adds no request.
LEMMA ShrinksIf ==
  ASSUME TypeOK, queue' \in {queue, <<>>} \/ (queue # <<>> /\ queue' = Tail(queue))
  PROVE  Shrinks
<1>1. queue \in Seq(Request)
  BY DEF TypeOK
<1>2. CASE queue # <<>> /\ queue' = Tail(queue)
  BY <1>1, <1>2, HeadTail DEF Shrinks
<1>3. CASE queue' = queue
  BY <1>1, <1>3 DEF Shrinks
<1>4. CASE queue' = <<>>
  <2>1. <<>> \in Seq(Request) /\ DOMAIN <<>> = {}
    OBVIOUS
  <2>2. QED
    BY <1>4, <2>1 DEF Shrinks
<1>5. QED
  BY <1>2, <1>3, <1>4

\* An answer only fails, and the actor with it, if its caller gave up.
LEMMA AnswerEffect ==
  ASSUME TypeOK, queue # <<>>, Answer
  PROVE  /\ Shrinks
         /\ \/ UNCHANGED <<actor, sending>>
            \/ actor' = "panicked" /\ sending' = Nothing /\ ~Head(queue).awaited
<1>1. Shrinks
  BY ShrinksIf DEF Answer, Gone
<1>2. QED
  BY <1>1 DEF Answer, Gone

\* A notification fits its channel, waits, or finds the receiver dropped.
LEMMA NotifyEffect ==
  ASSUME TypeOK, NEW e \in Events, Notify(e)
  PROVE  /\ Shrinks
         /\ unread' \in [Listeners -> Seq(Events)]
         /\ \A c \in Listeners : Len(unread'[c]) <= NotifCapacity
         /\ \/ actor' = "panicked" /\ sending' = Nothing /\ listener \notin open
            \/ actor' = actor /\ sending' \in {Nothing, e} /\ listener \in open
<1>1. Shrinks
  BY ShrinksIf DEF Notify, Gone
<1>2. /\ unread \in [Listeners -> Seq(Events)] /\ open \subseteq Listeners
      /\ \A c \in Listeners : Len(unread[c]) <= NotifCapacity
  BY DEF TypeOK
<1>3. CASE unread' = unread
  BY <1>1, <1>2, <1>3 DEF Notify, Gone
<1>4. CASE /\ listener \in open /\ Len(unread[listener]) < NotifCapacity
           /\ unread' = [unread EXCEPT ![listener] = Append(@, e)]
  <2>1. /\ Append(unread[listener], e) \in Seq(Events)
        /\ Len(Append(unread[listener], e)) = Len(unread[listener]) + 1
    BY <1>2, <1>4, Appended
  <2>2. Len(unread[listener]) \in Nat /\ NotifCapacity \in Nat
    BY <1>2, <1>4, MailboxAssumption
  <2>3. ASSUME NEW c \in Listeners
        PROVE  unread'[c] \in Seq(Events) /\ Len(unread'[c]) <= NotifCapacity
    <3>1. CASE c = listener
      BY <1>2, <1>4, <2>1, <2>2, <3>1
    <3>2. CASE c # listener
      BY <1>2, <1>4, <3>2
    <3>3. QED
      BY <3>1, <3>2
  <2>4. unread' \in [Listeners -> Seq(Events)]
    BY <1>2, <1>4, <2>1
  <2>5. QED
    BY <1>1, <1>4, <2>3, <2>4 DEF Notify
<1>5. QED
  BY <1>3, <1>4 DEF Notify

\* The request that is served.
LEMMA RequestTypes ==
  ASSUME TypeOK, queue # <<>>
  PROVE  /\ Head(queue) \in Request /\ Head(queue).channel \in Listeners \cup {Nothing}
         /\ 1 \in DOMAIN queue /\ Head(queue) = queue[1]
<1>1. queue \in Seq(Request)
  BY DEF TypeOK
<1>2. Head(queue) \in Request /\ 1 \in DOMAIN queue /\ Head(queue) = queue[1]
  BY <1>1, HeadTail
<1>3. QED
  BY <1>2 DEF Request

\* Every step keeps the types and the capacity of the channels.
LEMMA NextTypes == TypeOK /\ [Next]_vars => TypeOK'
<1> SUFFICES ASSUME TypeOK, [Next]_vars PROVE TypeOK'
  OBVIOUS
<1>1. ASSUME NEW u \in Users, NEW kind \in Kinds, NEW c \in Listeners \cup {Nothing},
             Ask(u, kind, c)
      PROVE  TypeOK'
  <2>1. [by |-> u, kind |-> kind, channel |-> c, awaited |-> TRUE] \in Request
    BY DEF Request
  <2>2. queue' \in Seq(Request)
    BY <1>1, <2>1, Appended DEF Ask, mishaps, TypeOK
  <2>3. QED
    BY <1>1, <2>2 DEF Ask, mishaps, TypeOK
<1>2. ASSUME NEW i \in DOMAIN queue, Abandon(i) PROVE TypeOK'
  <2>1. [queue EXCEPT ![i].awaited = FALSE] \in Seq(Request)
    <3>1. queue \in Seq(Request) /\ i \in 1..Len(queue)
      BY DEF TypeOK
    <3>2. queue[i] \in Request
      BY <3>1
    <3>3. [queue[i] EXCEPT !.awaited = FALSE] \in Request
      BY <3>2 DEF Request
    <3>4. QED
      BY <3>1, <3>3, ExceptSeq
  <2>2. queue' \in Seq(Request)
    BY <1>2, <2>1, Removed DEF Abandon, mishaps, TypeOK
  <2>3. QED
    BY <1>2, <2>2, MailboxAssumption DEF Abandon, mishaps, TypeOK
<1>3. ASSUME NEW c \in Listeners, ReadNotif(c) PROVE TypeOK'
  <2>1. /\ Head(unread[c]) \in Events /\ Tail(unread[c]) \in Seq(Events)
        /\ Len(Tail(unread[c])) <= NotifCapacity
    BY <1>3, MailboxAssumption DEF ReadNotif, mishaps, TypeOK
  <2>2. QED
    BY <1>3, <2>1 DEF ReadNotif, mishaps, TypeOK
<1>4. ASSUME NEW c \in Listeners, DropReceiver(c) PROVE TypeOK'
  BY <1>4, MailboxAssumption DEF DropReceiver, mishaps, TypeOK
<1>5. CASE Reconnect
  BY <1>5 DEF Reconnect, mishaps, TypeOK
<1>6. CASE ServeBegin \/ ServeAgree \/ ServeQuery
  <2>1. /\ queue # <<>>
        /\ \/ Answer
           \/ Gone("panicked") /\ failed' = TRUE /\ ServeAgree
    BY <1>6 DEF ServeBegin, ServeAgree, ServeQuery, Serves
  <2>2. CASE Answer
    BY <1>6, <2>1, <2>2, AnswerEffect
    DEF ServeBegin, ServeAgree, ServeQuery, Serves, Shrinks, TypeOK, States
  <2>3. CASE Gone("panicked") /\ failed' = TRUE /\ ServeAgree
    <3>1. state' \in States /\ {failed, begun, exposed, reckless}' \subseteq BOOLEAN
      BY <2>3 DEF ServeAgree, Serves, TypeOK, States
    <3>2. QED
      BY <2>3, <3>1 DEF ServeAgree, Serves, Gone, TypeOK
  <2>4. QED
    BY <2>1, <2>2, <2>3
<1>7. CASE ServeRegister \/ ServeUnregister
  <2>1. queue # <<>> /\ Answer
    BY <1>7 DEF ServeRegister, ServeUnregister, Serves
  <2>2. QED
    BY <1>7, <2>1, AnswerEffect, RequestTypes
    DEF ServeRegister, ServeUnregister, Serves, Shrinks, TypeOK
<1>8. CASE ServeShutdown
  BY <1>8 DEF ServeShutdown, Serves, Gone, TypeOK
<1>9. ASSUME NEW e \in Events, NEW next \in States, Receives(e), Keep(e, next),
             UNCHANGED mishaps
      PROVE  TypeOK'
  BY <1>9, NotifyEffect DEF Receives, Keep, Becomes, mishaps, Shrinks, TypeOK, Fates
<1>10. ASSUME NEW e \in Events, NEW fate \in Fates, Receives(e), Skip(e, fate),
              UNCHANGED mishaps
       PROVE  TypeOK'
  BY <1>10 DEF Receives, Skip, Becomes, mishaps, TypeOK, Fates
<1>11. CASE HandleNotif
  <2>1. /\ {"Heard", "Inbound"} \subseteq States /\ {"lost", "refused", "kept"} \subseteq Fates
        /\ Offers \subseteq Events /\ {TradeRsp, Peer} \subseteq Events
    BY DEF Events, States, Fates
  <2>2. ASSUME NEW o \in Offers, HandleOfferNotif(o) PROVE TypeOK'
    <3>1. /\ Receives(o)
          /\ \/ RejectPanics(o)
             \/ Skip(o, "refused") /\ UNCHANGED mishaps
             \/ Skip(o, "lost") /\ UNCHANGED mishaps
             \/ Keep(o, "Heard") /\ UNCHANGED mishaps
      BY <2>2 DEF HandleOfferNotif
    <3>2. CASE RejectPanics(o)
      BY <2>1, <3>1, <3>2 DEF RejectPanics, Receives, Becomes, Gone, TypeOK
    <3>3. QED
      BY <1>9, <1>10, <2>1, <3>1, <3>2
  <2>3. CASE HandleTradeRspNotif
    <3>1. /\ Receives(TradeRsp) /\ UNCHANGED mishaps
          /\ Skip(TradeRsp, "refused") \/ Skip(TradeRsp, "lost") \/ Keep(TradeRsp, "Heard")
      BY <2>3 DEF HandleTradeRspNotif
    <3>2. QED
      BY <1>9, <1>10, <2>1, <3>1
  <2>4. CASE HandlePeerNotif
    <3>1. CASE /\ state' = "Inbound" /\ Becomes(Peer, "kept")
               /\ UNCHANGED <<actor, queue, sending, unread>>
      BY <2>1, <2>4, <3>1 DEF HandlePeerNotif, Receives, Becomes, mishaps, TypeOK
    <3>2. CASE Skip(Peer, "refused") \/ Keep(Peer, "Inbound")
      BY <1>9, <1>10, <2>1, <2>4, <3>2 DEF HandlePeerNotif
    <3>3. QED
      BY <2>4, <3>1, <3>2 DEF HandlePeerNotif
  <2>5. ASSUME NEW e \in Events, HandleStranger(e) PROVE TypeOK'
    <3>1. /\ {misled, begun, exposed, reckless}' \subseteq BOOLEAN
          /\ event' \in [Events -> Fates]
          /\ actor' \in {"running", "panicked", "ended"} /\ queue' \in {queue, <<>>}
          /\ sending' \in {sending, Nothing}
      BY <2>1, <2>5 DEF HandleStranger, Receives, Becomes, Gone, TypeOK
    <3>2. <<>> \in Seq(Request)
      OBVIOUS
    <3>3. QED
      BY <2>5, <3>1, <3>2 DEF HandleStranger, Receives, TypeOK
  <2>6. QED
    BY <1>11, <2>2, <2>3, <2>4, <2>5 DEF HandleNotif
<1>12. CASE NotifyContinues
  BY <1>12, NotifyEffect DEF NotifyContinues, mishaps, Shrinks, TypeOK
<1>13. CASE Restore
  <2>1. <<>> \in Seq(Request) /\ <<>> \in Seq(Events) /\ Len(<<>>) = 0
    OBVIOUS
  <2>2. restarts' \in 0..MaxRestarts
    BY <1>13, MailboxAssumption DEF Restore, TypeOK
  <2>3. /\ unread' \in [Listeners -> Seq(Events)]
        /\ \A c \in Listeners : Len(unread'[c]) <= NotifCapacity
    BY <1>13, <2>1, MailboxAssumption DEF Restore
  <2>4. QED
    BY <1>13, <2>1, <2>2, <2>3 DEF Restore, TypeOK
<1>14. CASE UNCHANGED vars
  BY <1>14 DEF vars, mishaps, TypeOK
<1>15. QED
  BY <1>1, <1>2, <1>3, <1>4, <1>5, <1>6, <1>7, <1>8, <1>11, <1>12, <1>13, <1>14
  DEF Next, UserStep, ServeRequest

-----------------------------------------------------------------------------
(* The inductive invariant                                                 *)

\* A maker was sent an offer, whatever became of it.
Approached == role = "Maker" => \E o \in Offers : event[o] # "away"

\* Of a request since it was sent: it is only given up, and its channel
\* closed, by a reckless user; it asks to post or to take only with a listener
\* or by a user that is exposed; what it agrees to arrived, and was heard of.
Sound(r) ==
    /\ ~r.awaited => reckless /\ abandoned > 0
    /\ r.channel # Nothing /\ r.channel \notin open => reckless
    /\ r.kind = "Register" => r.channel # Nothing
    /\ r.kind = "Unregister" => exposed
    /\ r.kind = "Begin" => exposed \/ listener # Nothing
    /\ r.kind = "Agree" => state # "New" /\ Approached

\* Of every request that waits.
Queued == \A i \in DOMAIN queue : Sound(queue[i])

\* What the actor and the user think is registered is the same; the actor waits
\* for a place in a channel that is registered; and whoever may be sent messages
\* by n3xb listens, or is exposed.
Listening ==
    /\ listener = subscribed
    /\ listener # Nothing /\ listener \notin open => reckless
    /\ sending # Nothing => listener # Nothing
    /\ begun /\ connected => exposed \/ listener # Nothing

\* A maker has an offer to answer only if one arrived.
Heard == state = "Heard" => Approached

\* The invariant.
Inv ==
    /\ Queued /\ Listening /\ Heard
    /\ PanicsAreProvoked /\ LostOnlyIfExposed /\ BegunIsRecorded

\* What was sound stays so.
LEMMA QueuedStays ==
  ASSUME Queued, Shrinks, open' = open,
         reckless => reckless', abandoned > 0 => abandoned' > 0,
         exposed => exposed', listener # Nothing => exposed' \/ listener' # Nothing,
         state # "New" => state' # "New", Approached => Approached'
  PROVE  Queued'
<1>1. ASSUME NEW i \in DOMAIN queue' PROVE Sound(queue[i])'
  <2>1. PICK j \in DOMAIN queue : queue'[i] = queue[j]
    BY DEF Shrinks
  <2>2. Sound(queue[j])
    BY DEF Queued
  <2>3. QED
    BY <2>1, <2>2 DEF Sound
<1>2. QED
  BY <1>1 DEF Queued

\* A notification keeps it: the receiver of the listener was dropped recklessly.
LEMMA NotifyKeeps ==
  ASSUME TypeOK, Inv, NEW e \in Events, Notify(e), listener # Nothing,
         UNCHANGED <<listener, open, reckless, abandoned, exposed, subscribed, begun>>,
         UNCHANGED <<connected, role, mishaps>>,
         \A e1 \in Events : event[e1] # "away" => event'[e1] # "away",
         state # "New" => state' # "New"
  PROVE  Queued' /\ Listening' /\ PanicsAreProvoked'
<1>1. Shrinks
  BY NotifyEffect
<1>2. Queued'
  BY <1>1, QueuedStays DEF Inv, Approached, Events
<1>3. actor' = "panicked" => listener \notin open \/ actor = "panicked"
  BY NotifyEffect
<1>4. PanicsAreProvoked'
  BY <1>3 DEF Inv, Listening, PanicsAreProvoked, Events, mishaps
<1>5. Listening'
  BY NotifyEffect DEF Inv, Listening
<1>6. QED
  BY <1>2, <1>4, <1>5

\* So does an answer: the caller that is gone gave up.
LEMMA ServeKeeps ==
  ASSUME TypeOK, Inv, queue # <<>>, sending = Nothing, Answer,
         UNCHANGED <<role, open, reckless, misled, abandoned, exposed, event>>,
         failed => failed',
         listener' = subscribed', listener # Nothing => exposed \/ listener' # Nothing,
         listener' # Nothing /\ listener' \notin open => reckless,
         begun' /\ connected' => exposed \/ listener' # Nothing,
         state # "New" => state' # "New"
  PROVE  Queued' /\ Listening' /\ PanicsAreProvoked' /\ LostOnlyIfExposed'
<1>1. Shrinks /\ (UNCHANGED <<actor, sending>> \/ (sending' = Nothing /\ ~Head(queue).awaited))
  BY AnswerEffect
<1>2. Queued'
  BY <1>1, QueuedStays DEF Inv, Approached
<1>3. Sound(Head(queue))
  BY RequestTypes DEF Inv, Queued
<1>4. PanicsAreProvoked'
  BY <1>1, <1>3 DEF Inv, PanicsAreProvoked, Sound
<1>5. Listening'
  BY <1>1 DEF Inv, Listening
<1>6. LostOnlyIfExposed'
  BY DEF Inv, LostOnlyIfExposed
<1>7. QED
  BY <1>2, <1>4, <1>5, <1>6

\* Every step keeps the invariant.
LEMMA NextInv == TypeOK /\ Inv /\ [Next]_vars => Inv'
<1> SUFFICES ASSUME TypeOK, Inv, [Next]_vars PROVE Inv'
  OBVIOUS
<1> USE DEF Inv, Heard, Approached, mishaps
<1>0. Shrinks \/ queue' # queue
  BY ShrinksIf
<1>1. ASSUME NEW u \in Users, NEW kind \in Kinds, NEW c \in Listeners \cup {Nothing},
             Ask(u, kind, c)
      PROVE  Inv'
  <2> DEFINE r == [by |-> u, kind |-> kind, channel |-> c, awaited |-> TRUE]
  <2>1. r \in Request
    BY DEF Request
  <2>2. Sound(r)'
    BY <1>1 DEF Ask, Sound, Listening
  <2>3. \A i \in DOMAIN queue' : queue'[i] = r \/ (i \in DOMAIN queue /\ queue'[i] = queue[i])
    BY <1>1, <2>1, Appended DEF Ask, mishaps, TypeOK
  <2>4. ASSUME NEW i \in DOMAIN queue' PROVE Sound(queue[i])'
    <3>1. CASE queue'[i] = r
      BY <2>2, <3>1 DEF Sound
    <3>2. CASE i \in DOMAIN queue /\ queue'[i] = queue[i]
      <4>1. Sound(queue[i])
        BY <3>2 DEF Queued
      <4>2. QED
        BY <1>1, <3>2, <4>1 DEF Ask, Sound
    <3>3. QED
      BY <2>3, <3>1, <3>2
  <2>5. Queued'
    BY <2>4 DEF Queued
  <2>6. QED
    BY <1>1, <2>5 DEF Ask, Listening, PanicsAreProvoked, LostOnlyIfExposed,
       BegunIsRecorded
<1>2. ASSUME NEW i \in DOMAIN queue, Abandon(i) PROVE Inv'
  <2>1. abandoned' > 0 /\ reckless' = TRUE /\ queue \in Seq(Request)
    BY <1>2 DEF Abandon, mishaps, TypeOK
  <2>2. ASSUME NEW k \in DOMAIN queue'
        PROVE  \E j \in DOMAIN queue : /\ queue'[k].channel = queue[j].channel
                                       /\ queue'[k].kind = queue[j].kind
    <3>1. CASE queue' = [queue EXCEPT ![i].awaited = FALSE]
      <4>1. k \in DOMAIN queue /\ queue[k] \in Request
        BY <2>1, <3>1
      <4>2. QED
        BY <3>1, <4>1 DEF Request
    <3>2. CASE queue' = RemoveAt(queue, i)
      BY <2>1, <3>2, Removed
    <3>3. QED
      BY <1>2, <3>1, <3>2 DEF Abandon
  <2>3. ASSUME NEW k \in DOMAIN queue' PROVE Sound(queue[k])'
    <3>1. PICK j \in DOMAIN queue : /\ queue'[k].channel = queue[j].channel
                                    /\ queue'[k].kind = queue[j].kind
      BY <2>2
    <3>2. Sound(queue[j])
      BY DEF Queued
    <3>3. QED
      BY <1>2, <2>1, <3>1, <3>2 DEF Abandon, Sound
  <2>4. Queued'
    BY <2>3 DEF Queued
  <2>5. QED
    BY <1>2, <2>1, <2>4
    DEF Abandon, Listening, PanicsAreProvoked, LostOnlyIfExposed, BegunIsRecorded
<1>3. ASSUME NEW c \in Listeners, ReadNotif(c) PROVE Inv'
  BY <1>0, <1>3, QueuedStays
  DEF ReadNotif, Listening, PanicsAreProvoked, LostOnlyIfExposed, BegunIsRecorded
<1>4. ASSUME NEW c \in Listeners, DropReceiver(c) PROVE Inv'
  <2>1. ASSUME NEW i \in DOMAIN queue' PROVE Sound(queue[i])'
    <3>1. i \in DOMAIN queue /\ Sound(queue[i])
      BY <1>4 DEF DropReceiver, Queued
    <3>2. QED
      BY <1>4, <3>1 DEF DropReceiver, InUse, Sound
  <2>2. Queued'
    BY <2>1 DEF Queued
  <2>3. QED
    BY <1>4, <2>2
    DEF DropReceiver, InUse, Listening, PanicsAreProvoked, LostOnlyIfExposed,
        BegunIsRecorded
<1>5. CASE Reconnect
  BY <1>0, <1>5, QueuedStays
  DEF Reconnect, Listening, PanicsAreProvoked, LostOnlyIfExposed, BegunIsRecorded
<1>6. ASSUME ServeRequest, ~ServeShutdown, Answer PROVE Inv'
  <2>1. /\ queue # <<>> /\ sending = Nothing /\ Answer
        /\ UNCHANGED <<role, open, reckless, misled, abandoned, exposed, event, connected>>
        /\ failed => failed'
    BY <1>6 DEF ServeRequest, ServeBegin, ServeAgree, ServeQuery, ServeRegister,
       ServeUnregister,
        Serves
  <2>2. Sound(Head(queue))
    BY <2>1, RequestTypes DEF Queued
  <2>3. CASE ServeBegin
    <3>1. BegunIsRecorded'
      BY <2>2, <2>3 DEF ServeBegin, Serves, Sound, BegunIsRecorded
    <3>2. QED
      BY <2>1, <2>2, <2>3, <3>1, ServeKeeps DEF ServeBegin, Serves, Sound, Listening
  <2>4. CASE ServeAgree
    <3>1. BegunIsRecorded'
      BY <2>2, <2>4 DEF ServeAgree, Serves, Sound, BegunIsRecorded
    <3>2. QED
      BY <2>1, <2>2, <2>4, <3>1, ServeKeeps DEF ServeAgree, Serves, Sound, Listening
  <2>5. CASE ServeQuery
    BY <2>1, <2>2, <2>5, ServeKeeps DEF ServeQuery, Serves, Sound, Listening,
       BegunIsRecorded
  <2>6. CASE ServeRegister
    BY <2>1, <2>2, <2>6, ServeKeeps DEF ServeRegister, Serves, Sound, Listening,
       BegunIsRecorded
  <2>7. CASE ServeUnregister
    BY <2>1, <2>2, <2>7, ServeKeeps DEF ServeUnregister, Serves, Sound, Listening,
       BegunIsRecorded
  <2>8. QED
    BY <1>6, <2>3, <2>4, <2>5, <2>6, <2>7 DEF ServeRequest
<1>7. ASSUME ServeAgree, ~Answer PROVE Inv'
  <2>1. queue # <<>> /\ role = "Maker" /\ failed' = TRUE /\ UNCHANGED <<state, begun>>
    BY <1>7 DEF ServeAgree, Serves
  <2>2. Sound(Head(queue)) /\ Head(queue).kind = "Agree"
    BY <1>7, <2>1, RequestTypes DEF ServeAgree, Serves, Queued
  <2>3. \E o \in Offers : event[o] # "away"
    BY <2>1, <2>2 DEF Sound
  <2>4. Queued' /\ Listening'
    BY <1>7 DEF ServeAgree, Serves, Gone, Queued, Listening
  <2>5. PanicsAreProvoked' /\ LostOnlyIfExposed' /\ BegunIsRecorded'
    BY <1>7, <2>1, <2>3
    DEF ServeAgree, Serves, PanicsAreProvoked, LostOnlyIfExposed, BegunIsRecorded
  <2>6. QED
    BY <1>7, <2>1, <2>4, <2>5 DEF ServeAgree, Serves
<1>8. CASE ServeShutdown
  <2>1. Sound(Head(queue))
    BY <1>8, RequestTypes DEF ServeShutdown, Serves, Queued
  <2>2. Queued'
    BY <1>8 DEF ServeShutdown, Gone, Queued
  <2>3. QED
    BY <1>8, <2>1, <2>2
    DEF ServeShutdown, Serves, Gone, Sound, Listening, PanicsAreProvoked,
        LostOnlyIfExposed,
        BegunIsRecorded
<1>9. ASSUME NEW e \in Events, NEW next \in States \ {"New"}, listener # Nothing,
             Receives(e), Keep(e, next), UNCHANGED mishaps,
             next = "Heard" => role = "Taker" \/ e \in Offers
      PROVE  Inv'
  <2>1. Queued' /\ Listening' /\ PanicsAreProvoked'
    BY <1>9, NotifyKeeps DEF Receives, Keep, Becomes, TypeOK
  <2>2. LostOnlyIfExposed' /\ BegunIsRecorded' /\ Heard'
    BY <1>9 DEF Receives, Keep, Becomes, LostOnlyIfExposed, BegunIsRecorded, TypeOK
  <2>3. QED
    BY <2>1, <2>2
<1>10. ASSUME NEW e \in Events, NEW fate, fate = "lost" => exposed, Receives(e), Skip(e, fate),
             fate # "away", UNCHANGED mishaps
      PROVE  Inv'
  <2>0. \A o \in Events : event[o] # "away" => event'[o] # "away"
    BY <1>10 DEF Skip, Becomes, TypeOK
  <2>1. Queued'
    BY <1>0, <1>10, <2>0, QueuedStays DEF Receives, Skip, Events
  <2>2. LostOnlyIfExposed'
    BY <1>10 DEF Receives, Skip, Becomes, LostOnlyIfExposed, TypeOK
  <2>3. QED
    BY <1>10, <2>0, <2>1, <2>2
    DEF Receives, Skip, Listening, PanicsAreProvoked, BegunIsRecorded, Events
<1>11. ASSUME HandleNotif PROVE Inv'
  <2>1. /\ {"Heard", "Inbound"} \subseteq States \ {"New"}
        /\ Offers \subseteq Events /\ {TradeRsp, Peer} \subseteq Events
    BY DEF Events, States
  <2>2. ASSUME NEW e, Receives(e), listener = Nothing PROVE exposed
    BY <2>2 DEF Receives, Listening
  <2>3. ASSUME NEW o \in Offers, HandleOfferNotif(o) PROVE Inv'
    <3>1. /\ Receives(o) /\ role = "Maker"
          /\ \/ RejectPanics(o)
             \/ Skip(o, "refused") /\ UNCHANGED mishaps
             \/ listener = Nothing /\ Skip(o, "lost") /\ UNCHANGED mishaps
             \/ listener # Nothing /\ Keep(o, "Heard") /\ UNCHANGED mishaps
      BY <2>3 DEF HandleOfferNotif
    <3>2. CASE RejectPanics(o)
      <4>1. event'[o] = "refused" /\ \A e \in Events \ {o} : event'[e] = event[e]
        BY <2>1, <3>2 DEF RejectPanics, Becomes, TypeOK
      <4>2. Queued' /\ Listening' /\ LostOnlyIfExposed' /\ BegunIsRecorded'
        BY <2>1, <3>1, <3>2, <4>1
        DEF RejectPanics, Receives, Gone, Queued, Listening, LostOnlyIfExposed,
            BegunIsRecorded
      <4>3. PanicsAreProvoked' /\ Heard'
        BY <3>1, <3>2, <4>1 DEF RejectPanics, Receives, PanicsAreProvoked
      <4>4. QED
        BY <4>2, <4>3
    <3>3. QED
      BY <1>9, <1>10, <2>1, <2>2, <3>1, <3>2
  <2>4. CASE HandleTradeRspNotif
    <3>1. /\ Receives(TradeRsp) /\ UNCHANGED mishaps /\ role = "Taker"
          /\ \/ Skip(TradeRsp, "refused")
             \/ listener = Nothing /\ Skip(TradeRsp, "lost")
             \/ listener # Nothing /\ Keep(TradeRsp, "Heard")
      BY <2>4 DEF HandleTradeRspNotif
    <3>2. QED
      BY <1>9, <1>10, <2>1, <2>2, <3>1
  <2>5. CASE HandlePeerNotif
    <3>1. CASE /\ state = "Agreed" /\ state' = "Inbound" /\ Becomes(Peer, "kept")
               /\ UNCHANGED <<actor, queue, sending, unread>>
      <4>0. \A o \in Events : event[o] # "away" => event'[o] # "away"
        BY <2>1, <3>1 DEF Becomes, TypeOK
      <4>1. Queued'
        BY <1>0, <2>5, <3>1, <4>0, QueuedStays DEF HandlePeerNotif, Receives, Events
      <4>2. LostOnlyIfExposed'
        BY <2>1, <2>5, <3>1 DEF HandlePeerNotif, Receives, Becomes, LostOnlyIfExposed,
           TypeOK
      <4>3. QED
        BY <2>5, <3>1, <4>0, <4>1, <4>2
        DEF HandlePeerNotif, Receives, Listening, PanicsAreProvoked, BegunIsRecorded,
            Events
    <3>2. CASE Skip(Peer, "refused") \/ (listener # Nothing /\ Keep(Peer, "Inbound"))
      BY <1>9, <1>10, <2>1, <2>5, <3>2 DEF HandlePeerNotif
    <3>3. QED
      BY <2>5, <3>1, <3>2 DEF HandlePeerNotif
  <2>6. ASSUME NEW e \in Events, HandleStranger(e) PROVE Inv'
    <3>1. event'[e] = "refused" /\ \A o \in Events \ {e} : event'[o] = event[o]
      BY <2>6 DEF HandleStranger, Becomes, TypeOK
    <3>2. /\ Shrinks /\ sending' = Nothing
          /\ actor' = actor \/ misled' = TRUE
          /\ misled => misled'
          /\ UNCHANGED <<state, failed, begun, open, listener, reckless, abandoned, exposed>>
          /\ UNCHANGED <<role, connected, subscribed>>
      BY <2>6, ShrinksIf DEF HandleStranger, Receives, Gone
    <3>3. Queued'
      BY <3>1, <3>2, QueuedStays DEF Events
    <3>4. Listening' /\ LostOnlyIfExposed' /\ BegunIsRecorded'
      BY <3>1, <3>2 DEF Listening, LostOnlyIfExposed, BegunIsRecorded
    <3>5. PanicsAreProvoked' /\ Heard'
      BY <3>1, <3>2 DEF PanicsAreProvoked, Events
    <3>6. QED
      BY <3>3, <3>4, <3>5
  <2>7. QED
    BY <1>11, <2>3, <2>4, <2>5, <2>6 DEF HandleNotif
<1>12. CASE NotifyContinues
  <2>1. sending \in Events /\ listener # Nothing
    BY <1>12 DEF NotifyContinues, Listening, TypeOK
  <2>2. QED
    BY <1>12, <2>1, NotifyKeeps DEF NotifyContinues, LostOnlyIfExposed, BegunIsRecorded
<1>13. CASE Restore
  BY <1>13 DEF Restore, Queued, Listening, PanicsAreProvoked, LostOnlyIfExposed,
     BegunIsRecorded
<1>14. CASE UNCHANGED vars
  BY <1>0, <1>14, QueuedStays
  DEF vars, Listening, PanicsAreProvoked, LostOnlyIfExposed, BegunIsRecorded
<1>15. ServeRequest => ServeShutdown \/ ServeAgree \/ Answer
  BY DEF ServeRequest, ServeBegin, ServeQuery, ServeRegister, ServeUnregister
<1>16. QED
  BY <1>1, <1>2, <1>3, <1>4, <1>5, <1>6, <1>7, <1>8, <1>11, <1>12, <1>13, <1>14, <1>15
  DEF Next, UserStep

\* A new actor satisfies it.
LEMMA InitInv == Init => TypeOK /\ Inv
<1> SUFFICES ASSUME Init PROVE TypeOK /\ Inv
  OBVIOUS
<1>1. <<>> \in Seq(Request) /\ <<>> \in Seq(Events) /\ Len(<<>>) = 0 /\ DOMAIN <<>> = {}
  OBVIOUS
<1>2. 0 \in 0..MaxAbandoned /\ 0 \in 0..MaxRestarts /\ 0 <= NotifCapacity
  BY MailboxAssumption
<1>3. /\ unread \in [Listeners -> Seq(Events)]
      /\ \A c \in Listeners : Len(unread[c]) <= NotifCapacity
  BY <1>1, <1>2 DEF Init
<1>4. TypeOK
  BY <1>1, <1>2, <1>3 DEF Init, TypeOK, States, Fates
<1>5. Inv
  BY <1>1 DEF Init, Inv, Queued, Listening, Heard, PanicsAreProvoked,
     LostOnlyIfExposed, BegunIsRecorded
<1>6. QED
  BY <1>4, <1>5

-----------------------------------------------------------------------------
\* Every state of the channels satisfies the types and the invariant.
THEOREM MailboxInvariance == Spec => [](TypeOK /\ Inv)
<1>1. TypeOK /\ Inv /\ [Next]_vars => (TypeOK /\ Inv)'
  BY NextTypes, NextInv
<1>2. QED
  BY <1>1, InitInv, PTL DEF Spec

\* Type correctness: no notification channel ever holds more than its capacity.
THEOREM MailboxTypeOK == Spec => []TypeOK
BY MailboxInvariance, PTL

\* The unwrap() of an answer or of a notification only panics in an actor whose
\* user gave up a request or dropped a receiver in use, that of a message only
\* if the peer does not use this library, and that of n3xb only in a maker that
\* was sent an offer: nobody dies of posting, taking or notifying in vain.
THEOREM MailboxPanicsAreProvoked == Spec => []PanicsAreProvoked
<1>1. Inv => PanicsAreProvoked
  BY DEF Inv
<1>2. QED
  BY <1>1, MailboxInvariance, PTL

\* A message of n3xb is lost only on a user that posted, took or reconnected
\* before it was registered, or that unregistered.
THEOREM MailboxLostOnlyIfExposed == Spec => []LostOnlyIfExposed
<1>1. Inv => LostOnlyIfExposed
  BY DEF Inv
<1>2. QED
  BY <1>1, MailboxInvariance, PTL

\* Whether the order was posted, or taken, agrees with the state in the file
\* although one is set before the answer and the other after it, as long as no
\* request was given up.
THEOREM MailboxBegunIsRecorded == Spec => []BegunIsRecorded
<1>1. Inv => BegunIsRecorded
  BY DEF Inv
<1>2. QED
  BY <1>1, MailboxInvariance, PTL

===============================================================================
