------------------------------- MODULE AUHub -------------------------------
(***************************************************************************)
(* The fan-out of access units to subscribers (src/internal/h264/hub.go).  *)
(* Every section of mu is one action.  Subscribe starts a goroutine per    *)
(* subscriber that waits for its context and then unsubscribes by id.      *)
(***************************************************************************)
EXTENDS Integers, Sequences

CONSTANTS
  Cap,        \* capacity of a subscriber's channel (16)
  MaxSubs,    \* bound: subscriptions
  MaxUnits,   \* bound: access units written
  NotRunes,   \* values of nextID that are no Unicode code points: surrogates
              \* (from 0xD800 on) and what is above 0x10FFFF
  Readers     \* subscribers whose consumer goes on reading; another may stop

ASSUME AUHubAssumption ==
  Cap \in Nat /\ MaxSubs \in Nat /\ MaxUnits \in Nat /\ NotRunes \subseteq Nat

Subscribers == 1..MaxSubs   \* a subscriber is known by its value of nextID

VARIABLES
  nextID,
  subscribers,  \* id -> registered subscriber, 0 for an absent key
  channel,      \* contents of each subscriber's channel
  closed,       \* subscribers whose channel is closed
  done,         \* subscribers whose context is done
  toCancel,     \* subscribers Unsubscribe removed and has yet to cancel
  watcher,      \* the goroutine of each: "none", "waiting", "done"
  ended,        \* subscribers whose `range Channel` has ended
  got,          \* the last unit each subscriber received
  written       \* units written so far

vars == <<nextID, subscribers, channel, closed, done, toCancel, watcher,
          ended, got, written>>

\* string(rune(n)): what is no code point becomes the replacement character.
IDs == 0..MaxSubs
ID(n) == IF n \in NotRunes THEN 0 ELSE n

Registered == {subscribers[id] : id \in IDs} \ {0}

Init ==
  /\ nextID = 0 /\ subscribers = [id \in IDs |-> 0]
  /\ channel = [n \in Subscribers |-> <<>>] /\ closed = {} /\ done = {}
  /\ toCancel = {} /\ watcher = [n \in Subscribers |-> "none"]
  /\ ended = {} /\ got = [n \in Subscribers |-> 0] /\ written = 0

Subscribe ==
  /\ nextID < MaxSubs /\ nextID' = nextID + 1
  /\ subscribers' = [subscribers EXCEPT ![ID(nextID')] = nextID']
  /\ watcher' = [watcher EXCEPT ![nextID'] = "waiting"]
  /\ UNCHANGED <<channel, closed, done, toCancel, ended, got, written>>

\* Mutant: the writer goes on with a list it took before mu was given up.
WriteToStale ==
  /\ written < MaxUnits /\ written' = written + 1
  /\ channel' = [n \in Subscribers |->
       IF watcher[n] # "none" /\ Len(channel[n]) < Cap
         THEN Append(channel[n], written') ELSE channel[n]]
  /\ UNCHANGED <<nextID, subscribers, closed, done, toCancel, watcher, ended,
                 got>>

\* A non-blocking send to every registered subscriber, all under mu.
Write ==
  /\ written < MaxUnits /\ written' = written + 1
  /\ channel' = [n \in Subscribers |->
       IF n \in Registered /\ Len(channel[n]) < Cap
         THEN Append(channel[n], written') ELSE channel[n]]
  /\ UNCHANGED <<nextID, subscribers, closed, done, toCancel, watcher, ended,
                 got>>

\* Mutant: the channel is closed, the entry stays in the map.
CloseWithoutDelete(id) ==
  LET n == subscribers[id] IN
  /\ closed' = IF n = 0 THEN closed ELSE closed \union {n}
  /\ toCancel' = IF n = 0 THEN toCancel ELSE toCancel \union {n}
  /\ UNCHANGED subscribers

\* The section of Unsubscribe: forget the entry and close its channel.
DeleteAndClose(id) ==
  LET n == subscribers[id] IN
  /\ subscribers' = [subscribers EXCEPT ![id] = 0]
  /\ closed' = IF n = 0 THEN closed ELSE closed \union {n}
  /\ toCancel' = IF n = 0 THEN toCancel ELSE toCancel \union {n}

\* Anybody may unsubscribe an id it was given, more than once.
Unsubscribe(n) ==
  /\ watcher[n] # "none" /\ DeleteAndClose(ID(n))
  /\ UNCHANGED <<nextID, channel, done, watcher, ended, got, written>>

\* The rest of Unsubscribe, after mu: sub.cancel().
UnsubscribeCancels(n) ==
  /\ n \in toCancel /\ toCancel' = toCancel \ {n} /\ done' = done \union {n}
  /\ UNCHANGED <<nextID, subscribers, channel, closed, watcher, ended, got,
                 written>>

\* Mutant: the goroutine ends without unsubscribing.
WatcherForgets(n) ==
  /\ watcher[n] = "waiting" /\ n \in done
  /\ watcher' = [watcher EXCEPT ![n] = "done"]
  /\ UNCHANGED <<nextID, subscribers, channel, closed, done, toCancel, ended,
                 got, written>>

\* The goroutine started by Subscribe: wait for the context, unsubscribe.
Watcher(n) ==
  /\ watcher[n] = "waiting" /\ n \in done
  /\ watcher' = [watcher EXCEPT ![n] = "done"]
  /\ DeleteAndClose(ID(n))
  /\ UNCHANGED <<nextID, channel, done, ended, got, written>>

\* The caller's context is cancelled.
ContextDone(n) ==
  /\ watcher[n] # "none" /\ n \notin done /\ done' = done \union {n}
  /\ UNCHANGED <<nextID, subscribers, channel, closed, toCancel, watcher,
                 ended, got, written>>

\* The consumer: `for au := range sub.Channel`.
Receive(n) ==
  /\ watcher[n] # "none" /\ n \notin ended
  /\ IF channel[n] # <<>>
       THEN /\ got' = [got EXCEPT ![n] = Head(channel[n])]
            /\ channel' = [channel EXCEPT ![n] = Tail(channel[n])]
            /\ UNCHANGED ended
       ELSE /\ n \in closed /\ ended' = ended \union {n}
            /\ UNCHANGED <<got, channel>>
  /\ UNCHANGED <<nextID, subscribers, closed, done, toCancel, watcher, written>>

Next ==
  \/ Subscribe \/ Write
  \/ \E n \in Subscribers :
       \/ Unsubscribe(n) \/ UnsubscribeCancels(n) \/ Watcher(n)
       \/ ContextDone(n) \/ Receive(n)

Spec == Init /\ [][Next]_vars

(* The goroutines of the hub run when they can, and a reader that is       *)
(* offered units takes them.  Nobody need cancel or unsubscribe.           *)
Fairness ==
  \A n \in Subscribers :
    /\ WF_vars(UnsubscribeCancels(n)) /\ WF_vars(Watcher(n))
    /\ n \in Readers => SF_vars(Receive(n))

FairSpec == Spec /\ Fairness

----------------------------------------------------------------------------
TypeOK ==
  /\ nextID \in 0..MaxSubs /\ subscribers \in [IDs -> IDs]
  /\ channel \in [Subscribers -> Seq(1..MaxUnits)]
  /\ \A n \in Subscribers : Len(channel[n]) <= Cap
  /\ closed \subseteq Subscribers /\ done \subseteq Subscribers
  /\ toCancel \subseteq Subscribers /\ ended \subseteq Subscribers
  /\ watcher \in [Subscribers -> {"none", "waiting", "done"}]
  /\ got \in [Subscribers -> 0..MaxUnits] /\ written \in 0..MaxUnits

(* Write never meets a closed channel and no channel is closed twice: a    *)
(* subscriber found in the map has an open channel, whoever unsubscribed.  *)
RegisteredAreOpen == Registered \intersect closed = {}

\* The last unit sent to n: the newest in its channel, or what it received.
LastSent(n) ==
  IF channel[n] = <<>> THEN got[n] ELSE channel[n][Len(channel[n])]

Promise(n) ==
  INSTANCE LossyChannel WITH Capacity <- Cap, buffer <- channel[n],
                             last <- LastSent(n), closed <- n \in closed

(* Each subscriber's channel is a lossy channel: a slow or leaving         *)
(* subscriber loses units but sees no unit twice or out of order.          *)
EachIsLossyChannel ==
  /\ \A n \in Subscribers : Promise(n)!Init
  /\ [][\A n \in Subscribers : [Promise(n)!Next]_(Promise(n)!channel)]_vars

(* "The subscriber is automatically removed when ctx is cancelled", and    *)
(* the range loop of a reader ends; nor does unsubscribing leave the       *)
(* goroutine behind that waits for ctx.                                    *)
RemovedWhenCancelled ==
  \A n \in Subscribers :
    n \in done \union closed
      ~> /\ n \notin Registered /\ watcher[n] = "done"
         /\ n \in Readers => n \in ended
=============================================================================
