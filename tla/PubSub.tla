------------------------------- MODULE PubSub -------------------------------
(***************************************************************************)
(* One channel of a server's PubSub (lib/pubsub/index.js), with its        *)
(* OpStreams, over MemoryPubSub (lib/pubsub/memory.js) or over a broker    *)
(* that a database adapter talks to.  The broker handles the server's      *)
(* commands in the order they were sent and answers in that order.         *)
(*                                                                         *)
(* A callback left to nextTick runs after the code of the same turn and    *)
(* the callbacks left before it; here it may run after anything.           *)
(***************************************************************************)
EXTENDS Integers, Sequences, FiniteSets

CONSTANTS
    Subscribers,    \* callers of subscribe: agents, query emitters, ...
    Modes,          \* may there be a broker (TRUE), or MemoryPubSub (FALSE)?
    MaxOpens,       \* how often each subscriber subscribes
    MaxMessages     \* how many ops are published

ASSUME BoundsAssumption == MaxOpens \in Nat /\ MaxMessages \in Nat

ASSUME ModesAssumption == Modes \subseteq BOOLEAN

VARIABLES
    remote,         \* is there a broker?  (never changes)
    subscribed,     \* pubsub.subscribed[channel]
    st,             \* subscriber -> "idle", "tick", "asked" or "open"
    opens,          \* subscriber -> how often it subscribed
    wire,           \* commands on their way to the broker
    back,           \* its answers and the messages on their way back
    on,             \* does the broker send this server the channel?
    published,      \* number of published messages
    heard,          \* subscriber -> what its stream received
    from,           \* history: subscriber -> published when it got its stream
    deaf            \* history: who got a stream after the flag was cleared

streamVars == <<heard, from, deaf>>
vars == <<remote, subscribed, st, opens, wire, back, on, published, streamVars>>

Open == {s \in Subscribers : st[s] = "open"}

-----------------------------------------------------------------------------
(* Bug: the broker is asked although the flag is set.                      *)
SubscribeAnyway(s) ==
    /\ st[s] = "idle" /\ opens[s] < MaxOpens
    /\ opens' = [opens EXCEPT ![s] = @ + 1]
    /\ st' = [st EXCEPT ![s] = IF subscribed THEN "tick" ELSE "asked"]
    /\ wire' = Append(wire, [t |-> "subscribe", s |-> s])
    /\ UNCHANGED <<remote, subscribed, back, on, published, streamVars>>

(* subscribe: the flag says that the broker need not be asked; the stream  *)
(* is created on nextTick.                                                 *)
Subscribe(s) ==
    /\ st[s] = "idle" /\ opens[s] < MaxOpens
    /\ opens' = [opens EXCEPT ![s] = @ + 1]
    /\ IF subscribed
       THEN /\ st' = [st EXCEPT ![s] = "tick"]
            /\ UNCHANGED wire
       ELSE /\ st' = [st EXCEPT ![s] = "asked"]
            /\ wire' = Append(wire, [t |-> "subscribe", s |-> s])
    /\ UNCHANGED <<remote, subscribed, back, on, published, streamVars>>

(* _createStream.                                                          *)
CreateStream(s) ==
    /\ st' = [st EXCEPT ![s] = "open"]
    /\ heard' = [heard EXCEPT ![s] = <<>>]
    /\ from' = [from EXCEPT ![s] = published]

(* The callback of nextTick does not look at the flag again: meanwhile the *)
(* last stream may be gone, and nobody asks the broker for this one.       *)
Tick(s) ==
    /\ st[s] = "tick"
    /\ CreateStream(s)
    /\ deaf' = IF subscribed THEN deaf \ {s} ELSE deaf \cup {s}
    /\ UNCHANGED <<remote, subscribed, opens, wire, back, on, published>>

(* The callback of _subscribe.                                             *)
Subscribed ==
    /\ back # <<>> /\ Head(back).t = "subscribed"
    /\ back' = Tail(back)
    /\ subscribed' = TRUE
    /\ CreateStream(Head(back).s)
    /\ deaf' = deaf \ {Head(back).s}
    /\ UNCHANGED <<remote, opens, wire, on, published>>

(* Bug: the broker is not told that nobody listens any more.               *)
DestroyQuietly(s) ==
    /\ st[s] = "open"
    /\ st' = [st EXCEPT ![s] = "idle"]
    /\ subscribed' = IF Open = {s} THEN FALSE ELSE subscribed
    /\ UNCHANGED <<remote, opens, wire, back, on, published, streamVars>>

(* Bug: the flag goes with any stream.                                     *)
DestroyAll(s) ==
    /\ st[s] = "open"
    /\ st' = [st EXCEPT ![s] = "idle"]
    /\ subscribed' = FALSE
    /\ wire' = Append(wire, [t |-> "unsubscribe", s |-> s])
    /\ UNCHANGED <<remote, opens, back, on, published, streamVars>>

(* OpStream.destroy and _removeStream: the last stream of the channel      *)
(* clears the flag at once and unsubscribes.                               *)
Destroy(s) ==
    /\ st[s] = "open"
    /\ st' = [st EXCEPT ![s] = "idle"]
    /\ IF Open = {s}
       THEN /\ subscribed' = FALSE
            /\ wire' = Append(wire, [t |-> "unsubscribe", s |-> s])
       ELSE UNCHANGED <<remote, subscribed, wire>>
    /\ UNCHANGED <<remote, opens, back, on, published, streamVars>>

(* The broker, or the nextTick of MemoryPubSub, handles a command.         *)
Broker ==
    /\ wire # <<>>
    /\ wire' = Tail(wire)
    /\ on' = (remote /\ Head(wire).t = "subscribe")
    /\ back' = IF Head(wire).t = "subscribe"
               THEN Append(back, [t |-> "subscribed", s |-> Head(wire).s])
               ELSE back
    /\ UNCHANGED <<remote, subscribed, st, opens, published, streamVars>>

(* publish: MemoryPubSub keeps the message for nextTick.                   *)
Publish ==
    /\ published < MaxMessages
    /\ published' = published + 1
    /\ back' = IF remote /\ ~on
               THEN back
               ELSE Append(back, [t |-> "message", n |-> published + 1])
    /\ UNCHANGED <<remote, subscribed, st, opens, wire, on, streamVars>>

(* Bug: the newest message first.                                          *)
EmitNewest ==
    /\ back # <<>> /\ back[Len(back)].t = "message"
    /\ back' = SubSeq(back, 1, Len(back) - 1)
    /\ heard' = [s \in Subscribers |->
                   IF s \in Open THEN Append(heard[s], back[Len(back)].n) ELSE heard[s]]
    /\ UNCHANGED <<remote, subscribed, st, opens, wire, on, published, from, deaf>>

(* _emit to the streams that are open; MemoryPubSub asks the flag first.   *)
Emit ==
    /\ back # <<>> /\ Head(back).t = "message"
    /\ back' = Tail(back)
    /\ heard' = [s \in Subscribers |->
                   IF s \in Open /\ (remote \/ subscribed)
                   THEN Append(heard[s], Head(back).n)
                   ELSE heard[s]]
    /\ UNCHANGED <<remote, subscribed, st, opens, wire, on, published, from, deaf>>

-----------------------------------------------------------------------------
Init ==
    /\ remote \in Modes
    /\ subscribed = FALSE
    /\ st = [s \in Subscribers |-> "idle"]
    /\ opens = [s \in Subscribers |-> 0]
    /\ wire = <<>>
    /\ back = <<>>
    /\ on = FALSE
    /\ published = 0
    /\ heard = [s \in Subscribers |-> <<>>]
    /\ from = [s \in Subscribers |-> 0]
    /\ deaf = {}

Next ==
    \/ \E s \in Subscribers : Subscribe(s) \/ Tick(s) \/ Destroy(s)
    \/ Subscribed
    \/ Broker
    \/ Publish
    \/ Emit

Spec == Init /\ [][Next]_vars

-----------------------------------------------------------------------------
(* The shapes of the variables (pubsub/index.js: PubSub).                  *)
TypeOK ==
    /\ remote \in BOOLEAN /\ subscribed \in BOOLEAN /\ on \in BOOLEAN
    /\ st \in [Subscribers -> {"idle", "tick", "asked", "open"}]
    /\ opens \in [Subscribers -> 0..MaxOpens]
    /\ published \in 0..MaxMessages
    /\ heard \in [Subscribers -> Seq(1..MaxMessages)]
    /\ from \in [Subscribers -> 0..MaxMessages]
    /\ deaf \subseteq Subscribers
    /\ \A i \in DOMAIN wire : wire[i].t \in {"subscribe", "unsubscribe"}
    /\ \A m \in {wire[i] : i \in DOMAIN wire} \cup {back[i] : i \in DOMAIN back} :
          m.t \in {"subscribe", "subscribed"} => st[m.s] = "asked"

(* Nothing is on its way between the callers, the PubSub and the broker.   *)
Settled ==
    /\ wire = <<>>
    /\ \A i \in DOMAIN back : back[i].t # "subscribed"
    /\ \A s \in Subscribers : st[s] \in {"idle", "open"}

(* Without a broker an open stream hears what is published: MemoryPubSub   *)
(* drops no message, whatever subscriptions and destroyed streams overlap, *)
(* but for a stream that was left to nextTick while the flag was set and   *)
(* came after the last other stream had cleared it: it is deaf until       *)
(* somebody subscribes (pubsub/index.js: subscribe, _removeStream;         *)
(* pubsub/memory.js: _publish).                                            *)
MemoryHears ==
    ~remote /\ Settled => subscribed \/ Open \subseteq deaf

(* Nobody pays for a channel without a listener: after the last stream is  *)
(* destroyed the flag is clear and the broker has been told to stop        *)
(* (pubsub/index.js: _removeStream).                                       *)
NoLeak ==
    Settled /\ Open = {} => ~subscribed /\ ~on

(* What a stream receives is in the order of publication and nothing comes *)
(* twice.  Over MemoryPubSub it misses nothing from its first message on;  *)
(* and of what was published since the stream was handed out nothing is    *)
(* missing unless the stream was deaf, so that the ops that Agent fetched  *)
(* when subscribing are followed by all that came since (op-stream.js:     *)
(* pushData).                                                              *)
NoGaps ==
    \A s \in Subscribers :
        /\ \A i \in 1..(Len(heard[s]) - 1) :
              /\ heard[s][i] < heard[s][i + 1]
              /\ ~remote => heard[s][i + 1] = heard[s][i] + 1
        /\ ~remote /\ s \in Open \ deaf =>
              \A n \in from[s] + 1 .. published :
                 \/ \E i \in 1..Len(heard[s]) : heard[s][i] = n
                 \/ \E i \in 1..Len(back) : back[i].t = "message" /\ back[i].n = n
=============================================================================
