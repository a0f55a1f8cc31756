---------------------------- MODULE PubSubProofs ----------------------------
(***************************************************************************)
(* Proofs about PubSub, for every set of subscribers and any number of     *)
(* messages, with and without a broker.  The inductive invariant says that *)
(* the flag of the channel is set only while a stream is open, that while  *)
(* it is clear all open streams are deaf, that every subscriber that waits *)
(* has one command or one answer on its way, that the last command the     *)
(* broker gets is a subscription only if somebody is there, and that the   *)
(* messages on their way continue what every open stream has heard.        *)
(***************************************************************************)
EXTENDS PubSub, SequenceTheorems, TLAPS

Commands == [t : {"subscribe", "unsubscribe"}, s : Subscribers]

Answers == [t : {"subscribed"}, s : Subscribers] \cup [t : {"message"}, n : Nat]

Calls == {i \in 1..Len(wire) : wire[i].t = "subscribe"}

Replies == {i \in 1..Len(back) : back[i].t = "subscribed"}

Messages == {i \in 1..Len(back) : back[i].t = "message"}

Types ==
    /\ remote \in BOOLEAN /\ subscribed \in BOOLEAN /\ on \in BOOLEAN
    /\ st \in [Subscribers -> {"idle", "tick", "asked", "open"}]
    /\ opens \in [Subscribers -> 0..MaxOpens]
    /\ published \in 0..MaxMessages
    /\ heard \in [Subscribers -> Seq(1..MaxMessages)]
    /\ from \in [Subscribers -> 0..MaxMessages]
    /\ deaf \subseteq Subscribers
    /\ wire \in Seq(Commands)
    /\ back \in Seq(Answers)

(* A subscriber waits for one command or one answer, and no other is on    *)
(* its way.                                                                *)
AskedOnce ==
    /\ \A i \in Calls : st[wire[i].s] = "asked"
    /\ \A i \in Replies : back[i].s \in Subscribers /\ st[back[i].s] = "asked"
    /\ \A i, j \in Calls : wire[i].s = wire[j].s => i = j
    /\ \A i, j \in Replies : back[i].s = back[j].s => i = j
    /\ \A i \in Calls : \A j \in Replies : wire[i].s # back[j].s

FlagMeansStream ==
    /\ subscribed => \E s \in Subscribers : st[s] = "open"
    /\ ~subscribed => \A s \in Subscribers : st[s] = "open" =>
                         s \in deaf /\ (~remote => heard[s] = <<>>)

(* Will the broker send the channel when it has handled every command?     *)
WillSend ==
    IF wire = <<>> THEN on ELSE remote /\ wire[Len(wire)].t = "subscribe"

BrokerKnows ==
    /\ on => remote
    /\ WillSend => \E s \in Subscribers : st[s] # "idle"

(* Message n is on its way, behind place i.                                *)
Behind(i, n) == \E j \in Messages : j > i /\ back[j].n = n

LastHeard(s) == heard[s][Len(heard[s])]

InOrder ==
    /\ \A i \in Messages : back[i].n \in 1..published
    /\ \A i, j \in Messages : i < j => back[i].n < back[j].n
    /\ ~remote => \A i \in Messages : \A n \in back[i].n + 1 .. published : Behind(i, n)
    /\ \A s \in Open : heard[s] # <<>> =>
          /\ LastHeard(s) <= published
          /\ \A i \in Messages : LastHeard(s) < back[i].n
          /\ ~remote => \A n \in LastHeard(s) + 1 .. published : Behind(0, n)

(* The first part of NoGaps, and the second.                               *)
Gapless ==
    \A s \in Subscribers : \A i \in 1..(Len(heard[s]) - 1) :
        /\ heard[s][i] < heard[s][i + 1]
        /\ ~remote => heard[s][i + 1] = heard[s][i] + 1

Has(s, n) == \E i \in 1..Len(heard[s]) : heard[s][i] = n

Complete ==
    ~remote => \A s \in Open \ deaf : \A n \in from[s] + 1 .. published :
                  Has(s, n) \/ Behind(0, n)

PInv ==
    /\ Types /\ AskedOnce /\ FlagMeansStream /\ BrokerKnows
    /\ InOrder /\ Gapless /\ Complete

-----------------------------------------------------------------------------
LEMMA TailOf ==
    ASSUME NEW S, NEW q \in Seq(S), q # <<>>
    PROVE  /\ Tail(q) \in Seq(S) /\ Head(q) = q[1] /\ q[1] \in S
           /\ Len(q) \in Nat \ {0} /\ Len(Tail(q)) = Len(q) - 1
           /\ \A i \in 1..Len(q) - 1 : Tail(q)[i] = q[i + 1]
<1>1. Len(q) \in Nat \ {0}
  BY EmptySeq
<1>2. q[1] \in S
  BY <1>1, ElementOfSeq
<1>3. /\ Tail(q) \in Seq(S) /\ Len(Tail(q)) = Len(q) - 1
      /\ \A i \in 1..Len(Tail(q)) : Tail(q)[i] = q[i + 1]
  BY HeadTailProperties
<1> QED BY <1>1, <1>2, <1>3

LEMMA AppendOf ==
    ASSUME NEW S, NEW q \in Seq(S), NEW e \in S
    PROVE  /\ Append(q, e) \in Seq(S) /\ Append(q, e) # <<>>
           /\ Len(q) \in Nat /\ Len(Append(q, e)) = Len(q) + 1
           /\ Append(q, e)[Len(q) + 1] = e
           /\ \A i \in 1..Len(q) : Append(q, e)[i] = q[i]
OBVIOUS

LEMMA QueueTypes ==
    ASSUME Types
    PROVE  /\ Len(wire) \in Nat /\ Len(back) \in Nat
           /\ \A i \in 1..Len(wire) : wire[i] \in Commands
           /\ \A i \in 1..Len(back) : back[i] \in Answers
           /\ \A i \in Calls : wire[i].s \in Subscribers
<1>1. /\ Len(wire) \in Nat /\ Len(back) \in Nat
      /\ \A i \in 1..Len(wire) : wire[i] \in Commands
      /\ \A i \in 1..Len(back) : back[i] \in Answers
  BY LenProperties, ElementOfSeq DEF Types
<1> QED BY <1>1 DEF Calls, Commands

LEMMA InitInv == Init /\ ModesAssumption => PInv
<1> SUFFICES ASSUME Init, ModesAssumption PROVE PInv
  OBVIOUS
<1>1. Types
  <2>1. remote \in BOOLEAN
    BY DEF Init, ModesAssumption
  <2>2. opens \in [Subscribers -> 0..MaxOpens] /\ published \in 0..MaxMessages
    BY BoundsAssumption DEF Init
  <2>3. /\ heard \in [Subscribers -> Seq(1..MaxMessages)]
        /\ from \in [Subscribers -> 0..MaxMessages] /\ deaf \subseteq Subscribers
    BY EmptySeq, BoundsAssumption DEF Init
  <2>4. wire \in Seq(Commands) /\ back \in Seq(Answers)
    BY EmptySeq DEF Init
  <2> QED BY <2>1, <2>2, <2>3, <2>4 DEF Init, Types
<1>2. /\ wire = <<>> /\ back = <<>> /\ Calls = {} /\ Replies = {} /\ Messages = {}
  BY DEF Init, Calls, Replies, Messages
<1>3. AskedOnce
  BY <1>2 DEF AskedOnce
<1>4. FlagMeansStream /\ BrokerKnows
  BY <1>2 DEF Init, FlagMeansStream, BrokerKnows, WillSend
<1>5. InOrder /\ Gapless /\ Complete
  BY <1>2 DEF Init, InOrder, Gapless, Complete, Open
<1> QED BY <1>1, <1>3, <1>4, <1>5 DEF PInv

-----------------------------------------------------------------------------
(* Steps that leave the answers alone.  A stream that opens has heard      *)
(* nothing yet.                                                            *)
LEMMA InOrderStays ==
    ASSUME PInv, UNCHANGED <<remote, back, published>>,
           heard' \in [Subscribers -> Seq(1..MaxMessages)],
           \A s \in Subscribers : \/ heard'[s] = <<>>
                                  \/ heard'[s] = heard[s] /\ (s \in Open' => s \in Open)
    PROVE  InOrder'
<1>1. Messages' = Messages
  BY DEF Messages
<1>2. \A i, n : Behind(i, n)' <=> Behind(i, n)
  BY <1>1 DEF Behind
<1>3. ASSUME NEW s \in Open', heard'[s] # <<>>
      PROVE  s \in Open /\ heard'[s] = heard[s]
  BY <1>3 DEF Open
<1> QED BY <1>1, <1>2, <1>3 DEF PInv, InOrder, LastHeard

LEMMA GaplessStays ==
    ASSUME Gapless, remote' = remote,
           \A s \in Subscribers : heard'[s] = <<>> \/ heard'[s] = heard[s]
    PROVE  Gapless'
BY DEF Gapless

LEMMA CompleteStays ==
    ASSUME PInv, Types', UNCHANGED <<remote, published>>,
           \A n : Behind(0, n) => Behind(0, n)',
           \A s \in Open' \ deaf' :
              \/ s \in Open \ deaf /\ from'[s] = from[s] /\ heard'[s] = heard[s]
              \/ from'[s] = published
    PROVE  Complete'
<1> SUFFICES ASSUME ~remote, NEW s \in Open' \ deaf', NEW n \in from'[s] + 1 .. published
             PROVE  Has(s, n)' \/ Behind(0, n)'
  BY DEF Complete
<1>1. from'[s] # published
  BY BoundsAssumption DEF PInv, Types
<1>2. s \in Open \ deaf /\ from'[s] = from[s] /\ heard'[s] = heard[s]
  BY <1>1
<1>3. Has(s, n) \/ Behind(0, n)
  BY <1>2 DEF PInv, Complete
<1> QED BY <1>2, <1>3 DEF Has

LEMMA BehindSame ==
    ASSUME back' = back
    PROVE  \A i, n : Behind(i, n)' <=> Behind(i, n)
BY DEF Behind, Messages

LEMMA SubscribeInv ==
    ASSUME PInv, NEW s \in Subscribers, Subscribe(s)
    PROVE  PInv'
<1> DEFINE c == [t |-> "subscribe", s |-> s]
<1>1. /\ st[s] = "idle" /\ UNCHANGED <<remote, subscribed, back, on, published, heard, from, deaf>>
      /\ Types
  BY DEF Subscribe, PInv, streamVars
<1>2. CASE subscribed
  <2>1. st' = [st EXCEPT ![s] = "tick"] /\ wire' = wire
    BY <1>2 DEF Subscribe
  <2>2. Types'
    BY <1>1, <2>1, BoundsAssumption DEF Subscribe, Types
  <2>3. /\ st'[s] = "tick" /\ \A q \in Subscribers \ {s} : st'[q] = st[q]
    BY <1>1, <2>1 DEF Types
  <2>4. /\ Calls' = Calls /\ Replies' = Replies
        /\ \A i \in Calls : wire[i].s \in Subscribers
    BY <1>1, <2>1, QueueTypes DEF Calls, Replies
  <2>5. AskedOnce'
    BY <1>1, <2>1, <2>3, <2>4 DEF PInv, AskedOnce
  <2>6. FlagMeansStream' /\ BrokerKnows'
    BY <1>1, <1>2, <2>1, <2>3 DEF PInv, FlagMeansStream, BrokerKnows, WillSend
  <2>7. InOrder' /\ Gapless'
    BY <1>1, <2>3, InOrderStays, GaplessStays DEF PInv, Open, Types
  <2>8. Complete'
    BY <1>1, <2>2, <2>3, CompleteStays, BehindSame DEF Open
  <2> QED BY <2>2, <2>5, <2>6, <2>7, <2>8 DEF PInv
<1>3. CASE ~subscribed
  <2>1. st' = [st EXCEPT ![s] = "asked"] /\ wire' = Append(wire, c)
    BY <1>3 DEF Subscribe
  <2>2. /\ wire \in Seq(Commands) /\ c \in Commands
    BY <1>1 DEF Types, Commands
  <2>3. /\ wire' \in Seq(Commands) /\ wire' # <<>> /\ Len(wire) \in Nat
        /\ Len(wire') = Len(wire) + 1 /\ wire'[Len(wire) + 1] = c
        /\ \A i \in 1..Len(wire) : wire'[i] = wire[i] /\ wire[i] \in Commands
    <3> HIDE DEF c
    <3> QED BY <2>1, <2>2, AppendOf, ElementOfSeq
  <2>4. Types'
    BY <1>1, <2>1, <2>3, BoundsAssumption DEF Subscribe, Types
  <2>5. /\ st'[s] = "asked" /\ \A q \in Subscribers \ {s} : st'[q] = st[q]
    BY <1>1, <2>1 DEF Types
  <2>6. /\ Replies' = Replies
        /\ \A i \in Calls' : \/ i \in Calls
                             \/ i = Len(wire) + 1 /\ wire'[i].s = s
        /\ \A i \in Calls : wire[i].s \in Subscribers \ {s} /\ wire'[i] = wire[i]
        /\ \A i \in Replies : back[i].s # s
    <3>1. Replies' = Replies
      BY <1>1 DEF Replies
    <3>2. \A i \in Calls' : i \in Calls \/ i = Len(wire) + 1
      BY <2>3 DEF Calls
    <3>3. wire'[Len(wire) + 1].s = s
      BY <2>3
    <3>4. \A i \in Calls : wire[i].s \in Subscribers \ {s} /\ wire'[i] = wire[i]
      BY <1>1, <2>3, QueueTypes DEF Calls, PInv, AskedOnce
    <3>5. \A i \in Replies : back[i].s # s
      BY <1>1 DEF PInv, AskedOnce
    <3> QED BY <3>1, <3>2, <3>3, <3>4, <3>5
  <2>7. AskedOnce'
    BY <1>1, <2>5, <2>6 DEF PInv, AskedOnce
  <2>8. FlagMeansStream' /\ BrokerKnows'
    BY <1>1, <1>3, <2>5 DEF PInv, FlagMeansStream, BrokerKnows
  <2>9. InOrder' /\ Gapless'
    BY <1>1, <2>5, InOrderStays, GaplessStays DEF PInv, Open, Types
  <2>10. Complete'
    BY <1>1, <2>4, <2>5, CompleteStays, BehindSame DEF Open
  <2> QED BY <2>4, <2>7, <2>8, <2>9, <2>10 DEF PInv
<1> QED BY <1>2, <1>3

LEMMA TickInv ==
    ASSUME PInv, NEW s \in Subscribers, Tick(s)
    PROVE  PInv'
<1>1. /\ st[s] = "tick" /\ UNCHANGED <<remote, subscribed, opens, wire, back, on, published>>
      /\ st' = [st EXCEPT ![s] = "open"] /\ heard' = [heard EXCEPT ![s] = <<>>]
      /\ from' = [from EXCEPT ![s] = published]
      /\ deaf' = IF subscribed THEN deaf \ {s} ELSE deaf \cup {s}
      /\ Types
  BY DEF Tick, CreateStream, PInv
<1>2. Types'
  BY <1>1 DEF Types
<1>3. /\ st'[s] = "open" /\ heard'[s] = <<>>
      /\ from'[s] = published /\ (~subscribed => s \in deaf')
      /\ \A q \in Subscribers \ {s} :
            /\ st'[q] = st[q] /\ heard'[q] = heard[q] /\ from'[q] = from[q]
            /\ q \in deaf' <=> q \in deaf
  BY <1>1 DEF Types
<1>4. /\ Calls' = Calls /\ Replies' = Replies
      /\ \A i \in Calls : wire[i].s \in Subscribers
  BY <1>1, QueueTypes DEF Calls, Replies
<1>5. AskedOnce'
  BY <1>1, <1>3, <1>4 DEF PInv, AskedOnce
<1>6. FlagMeansStream' /\ BrokerKnows'
  BY <1>1, <1>3 DEF PInv, FlagMeansStream, BrokerKnows, WillSend
<1>7. InOrder' /\ Gapless'
  BY <1>1, <1>2, <1>3, InOrderStays, GaplessStays DEF PInv, Open, Types
<1>8. Complete'
  BY <1>1, <1>2, <1>3, CompleteStays, BehindSame DEF Open
<1> QED BY <1>2, <1>5, <1>6, <1>7, <1>8 DEF PInv

LEMMA DestroyInv ==
    ASSUME PInv, NEW s \in Subscribers, Destroy(s)
    PROVE  PInv'
<1> DEFINE c == [t |-> "unsubscribe", s |-> s]
<1>1. /\ st[s] = "open" /\ UNCHANGED <<remote, opens, back, on, published, heard, from, deaf>>
      /\ st' = [st EXCEPT ![s] = "idle"] /\ Types
  BY DEF Destroy, PInv, streamVars
<1>2. /\ st'[s] = "idle" /\ \A q \in Subscribers \ {s} : st'[q] = st[q]
  BY <1>1 DEF Types
<1>3. InOrder' /\ Gapless'
  BY <1>1, <1>2, InOrderStays, GaplessStays DEF PInv, Open, Types
<1>4. CASE Open = {s}
  <2>1. subscribed' = FALSE /\ wire' = Append(wire, c)
    BY <1>4 DEF Destroy
  <2>2. /\ wire \in Seq(Commands) /\ c \in Commands /\ c.t = "unsubscribe"
    BY <1>1 DEF Types, Commands
  <2> HIDE DEF c
  <2>3. /\ wire' \in Seq(Commands) /\ wire' # <<>> /\ Len(wire) \in Nat
        /\ Len(wire') = Len(wire) + 1 /\ wire'[Len(wire) + 1] = c
        /\ \A i \in 1..Len(wire) : wire'[i] = wire[i] /\ wire[i] \in Commands
    BY <2>1, <2>2, AppendOf, ElementOfSeq
  <2>4. Types'
    BY <1>1, <2>1, <2>3 DEF Types
  <2>5. /\ Replies' = Replies
        /\ \A i \in Calls' : i \in Calls /\ wire'[i] = wire[i]
        /\ \A i \in Calls : wire[i].s \in Subscribers
    BY <1>1, <2>2, <2>3 DEF Calls, Replies, Commands
  <2>6. AskedOnce'
    BY <1>1, <1>2, <2>5 DEF PInv, AskedOnce
  <2>7. FlagMeansStream'
    <3>1. \A q \in Subscribers : st'[q] # "open"
      BY <1>1, <1>2, <1>4 DEF Open
    <3> QED BY <2>1, <3>1, Zenon DEF FlagMeansStream
  <2>8. BrokerKnows'
    BY <1>1, <2>2, <2>3 DEF PInv, BrokerKnows, WillSend
  <2>9. Complete'
    BY <1>1, <1>2, <2>4, CompleteStays, BehindSame DEF Open
  <2> QED BY <1>3, <2>4, <2>6, <2>7, <2>8, <2>9 DEF PInv
<1>5. CASE Open # {s}
  <2>1. subscribed' = subscribed /\ wire' = wire
    BY <1>5 DEF Destroy
  <2>2. Types'
    BY <1>1, <2>1 DEF Types
  <2>3. PICK q \in Subscribers \ {s} : st[q] = "open"
    BY <1>1, <1>5 DEF Open
  <2>4. /\ Calls' = Calls /\ Replies' = Replies
        /\ \A i \in Calls : wire[i].s \in Subscribers
    BY <1>1, <2>1, QueueTypes DEF Calls, Replies
  <2>5. AskedOnce'
    BY <1>1, <1>2, <2>1, <2>4 DEF PInv, AskedOnce
  <2>6. FlagMeansStream' /\ BrokerKnows'
    <3>1. st'[q] = "open" /\ st[q] = "open"
      BY <1>2, <2>3
    <3> QED BY <1>1, <2>1, <3>1 DEF PInv, FlagMeansStream, BrokerKnows, WillSend
  <2>7. Complete'
    BY <1>1, <1>2, <2>2, CompleteStays, BehindSame DEF Open
  <2> QED BY <1>3, <2>2, <2>5, <2>6, <2>7 DEF PInv
<1> QED BY <1>4, <1>5

(* What is left of the answers when the first is taken.                    *)
LEMMA BackTail ==
    ASSUME PInv, back # <<>>, back' = Tail(back)
    PROVE  /\ back' \in Seq(Answers) /\ Head(back) = back[1] /\ back[1] \in Answers
           /\ 1 \in 1..Len(back)
           /\ \A i \in Replies' : i + 1 \in Replies /\ back'[i] = back[i + 1]
           /\ \A i \in Messages' : i + 1 \in Messages /\ back'[i] = back[i + 1]
           /\ \A i \in Messages : i # 1 => i - 1 \in Messages' /\ back'[i - 1] = back[i]
<1>1. /\ back' \in Seq(Answers) /\ Head(back) = back[1] /\ back[1] \in Answers
      /\ Len(back) \in Nat \ {0} /\ Len(back') = Len(back) - 1
      /\ \A i \in 1..Len(back) - 1 : back'[i] = back[i + 1]
  BY TailOf DEF PInv, Types
<1>2. \A i \in 1..Len(back') : i + 1 \in 1..Len(back) /\ back'[i] = back[i + 1]
  BY <1>1
<1>3. \A i \in 1..Len(back) : i # 1 => i - 1 \in 1..Len(back') /\ back'[i - 1] = back[i]
  <2> TAKE i \in 1..Len(back)
  <2> HAVE i # 1
  <2>1. i - 1 \in 1..Len(back) - 1 /\ (i - 1) + 1 = i
    BY <1>1
  <2> QED BY <1>1, <2>1
<1> QED BY <1>1, <1>2, <1>3 DEF Replies, Messages

LEMMA SubscribedInv ==
    ASSUME PInv, Subscribed
    PROVE  PInv'
<1> DEFINE s == back[1].s
<1>1. /\ back # <<>> /\ Head(back).t = "subscribed" /\ back' = Tail(back)
      /\ subscribed' = TRUE /\ UNCHANGED <<remote, opens, wire, on, published>>
      /\ Types
  BY DEF Subscribed, PInv
<1>2. /\ back' \in Seq(Answers) /\ Head(back) = back[1] /\ 1 \in 1..Len(back)
      /\ \A i \in Replies' : i + 1 \in Replies /\ back'[i] = back[i + 1]
      /\ \A i \in Messages' : i + 1 \in Messages /\ back'[i] = back[i + 1]
      /\ \A i \in Messages : i # 1 => i - 1 \in Messages' /\ back'[i - 1] = back[i]
  BY <1>1, BackTail
<1>3. 1 \in Replies /\ 1 \notin Messages
  BY <1>1, <1>2 DEF Replies, Messages
<1>4. s \in Subscribers /\ st[s] = "asked"
  BY <1>3 DEF PInv, AskedOnce
<1>5. /\ st' = [st EXCEPT ![s] = "open"] /\ heard' = [heard EXCEPT ![s] = <<>>]
      /\ from' = [from EXCEPT ![s] = published] /\ deaf' = deaf \ {s}
  BY <1>2 DEF Subscribed, CreateStream
<1> HIDE DEF s
<1>6. /\ st'[s] = "open" /\ heard'[s] = <<>> /\ from'[s] = published
      /\ \A q \in Subscribers \ {s} :
            /\ st'[q] = st[q] /\ heard'[q] = heard[q] /\ from'[q] = from[q]
            /\ q \in deaf' <=> q \in deaf
  BY <1>1, <1>4, <1>5 DEF Types
<1>7. Types'
  <2>1. heard' \in [Subscribers -> Seq(1..MaxMessages)]
    BY <1>1, <1>5, EmptySeq DEF Types
  <2>2. st' \in [Subscribers -> {"idle", "tick", "asked", "open"}]
    BY <1>1, <1>5 DEF Types
  <2>3. from' \in [Subscribers -> 0..MaxMessages] /\ deaf' \subseteq Subscribers
    BY <1>1, <1>5 DEF Types
  <2> QED BY <1>1, <1>2, <2>1, <2>2, <2>3 DEF Types
<1>8. AskedOnce'
  <2>1. Calls' = Calls /\ \A i \in Calls : wire[i].s \in Subscribers
    BY <1>1, QueueTypes DEF Calls
  <2>2. \A i \in Calls : wire[i].s # s
    BY <1>3 DEF PInv, AskedOnce, s
  <2>3. \A i \in Replies : i # 1 => back[i].s # s
    BY <1>3 DEF PInv, AskedOnce, s
  <2>4. \A i \in Replies' : i \in Nat /\ i + 1 # 1
    BY DEF Replies
  <2>5. \A i \in Calls : st'[wire[i].s] = "asked"
    BY <1>6, <2>1, <2>2 DEF PInv, AskedOnce
  <2>6. \A i \in Replies' : back'[i].s \in Subscribers /\ st'[back'[i].s] = "asked"
    BY <1>2, <1>6, <2>3, <2>4 DEF PInv, AskedOnce
  <2>7. \A i, j \in Replies' : back'[i].s = back'[j].s => i = j
    <3> TAKE i, j \in Replies'
    <3> HAVE back'[i].s = back'[j].s
    <3>1. i + 1 = j + 1
      BY <1>2 DEF PInv, AskedOnce
    <3> QED BY <2>4, <3>1
  <2>8. \A i \in Calls : \A j \in Replies' : wire[i].s # back'[j].s
    BY <1>2 DEF PInv, AskedOnce
  <2> QED BY <1>1, <2>1, <2>5, <2>6, <2>7, <2>8 DEF PInv, AskedOnce
<1>9. FlagMeansStream' /\ BrokerKnows'
  BY <1>1, <1>4, <1>6, Zenon DEF PInv, FlagMeansStream, BrokerKnows, WillSend
<1>10. InOrder'
  <2>1. \A i \in Messages' : i \in Nat
    BY DEF Messages
  <2>2. ASSUME NEW i \in Nat, NEW n, Behind(i + 1, n) PROVE Behind(i, n)'
    <3>1. PICK j \in Messages : j > i + 1 /\ back[j].n = n
      BY <2>2 DEF Behind
    <3>2. j \in Nat /\ j # 1 /\ j - 1 > i
      BY <3>1 DEF Messages
    <3>3. j - 1 \in Messages' /\ back'[j - 1].n = n
      BY <1>2, <3>1, <3>2
    <3> QED BY <3>2, <3>3 DEF Behind
  <2>3. \A n : Behind(0, n) => Behind(0, n)'
    BY <1>2, <1>3 DEF Behind, Messages
  <2>4. \A q \in Open' : heard'[q] # <<>> => q \in Open /\ heard'[q] = heard[q]
    BY <1>6 DEF Open
  <2>5. \A i, j \in Messages' : i < j => back'[i].n < back'[j].n
    <3> TAKE i, j \in Messages'
    <3> HAVE i < j
    <3>1. /\ i + 1 \in Messages /\ j + 1 \in Messages /\ i + 1 < j + 1
          /\ back'[i] = back[i + 1] /\ back'[j] = back[j + 1]
      BY <1>2, <2>1
    <3> QED BY <3>1 DEF PInv, InOrder
  <2>6. ~remote => \A i \in Messages' : \A n \in back'[i].n + 1 .. published : Behind(i, n)'
    BY <1>2, <2>1, <2>2 DEF PInv, InOrder
  <2>7. ASSUME NEW q \in Open', heard'[q] # <<>>
        PROVE  /\ LastHeard(q)' <= published
               /\ \A i \in Messages' : LastHeard(q)' < back'[i].n
               /\ ~remote => \A n \in LastHeard(q)' + 1 .. published : Behind(0, n)'
    <3>1. LastHeard(q)' = LastHeard(q) /\ q \in Open /\ heard[q] # <<>>
      BY <2>4, <2>7 DEF LastHeard
    <3> QED BY <1>2, <2>3, <3>1 DEF PInv, InOrder
  <2> QED BY <1>1, <1>2, <2>5, <2>6, <2>7 DEF PInv, InOrder
<1>11. Gapless'
  BY <1>1, <1>6, GaplessStays DEF PInv
<1>12. Complete'
  <2>1. \A n : Behind(0, n) => Behind(0, n)'
    BY <1>2, <1>3 DEF Behind, Messages
  <2> QED BY <1>1, <1>6, <1>7, <2>1, CompleteStays DEF Open
<1> QED BY <1>7, <1>8, <1>9, <1>10, <1>11, <1>12 DEF PInv

(* An answer that is not a message comes last.                             *)
LEMMA InOrderGrows ==
    ASSUME PInv, UNCHANGED <<remote, st, published, heard>>, NEW e \in Answers,
           e.t = "subscribed", back' = Append(back, e)
    PROVE  InOrder' /\ \A i, n : Behind(i, n) => Behind(i, n)'
<1>1. /\ Len(back) \in Nat /\ Len(back') = Len(back) + 1
      /\ back'[Len(back) + 1] = e /\ \A i \in 1..Len(back) : back'[i] = back[i]
  BY AppendOf DEF PInv, Types
<1>2. Messages' = Messages /\ \A i \in Messages : back'[i] = back[i]
  BY <1>1 DEF Messages
<1>3. \A i, n : Behind(i, n) => Behind(i, n)'
  BY <1>2 DEF Behind
<1>4. Open' = Open /\ \A s : LastHeard(s)' = LastHeard(s)
  BY DEF Open, LastHeard
<1> QED BY <1>2, <1>3, <1>4 DEF PInv, InOrder

LEMMA BrokerInv ==
    ASSUME PInv, Broker
    PROVE  PInv'
<1> DEFINE s == wire[1].s
           e == [t |-> "subscribed", s |-> s]
<1>1. /\ wire # <<>> /\ wire' = Tail(wire)
      /\ UNCHANGED <<remote, subscribed, st, opens, published, heard, from, deaf>>
      /\ Types
  BY DEF Broker, PInv, streamVars
<1>2. /\ wire' \in Seq(Commands) /\ Head(wire) = wire[1] /\ wire[1] \in Commands
      /\ Len(wire) \in Nat \ {0} /\ Len(wire') = Len(wire) - 1
      /\ \A i \in 1..Len(wire) - 1 : wire'[i] = wire[i + 1]
  BY <1>1, TailOf DEF Types
<1>3. /\ on' = (remote /\ wire[1].t = "subscribe")
      /\ wire[1].t = "subscribe" => back' = Append(back, e)
      /\ wire[1].t # "subscribe" => back' = back
  BY <1>2 DEF Broker
<1>4. /\ s \in Subscribers /\ e \in Answers /\ e.t = "subscribed" /\ e.s = s
      /\ back \in Seq(Answers)
  BY <1>1, <1>2 DEF Commands, Answers, Types
<1> HIDE DEF e
<1>5. Types'
  <2>1. back' \in Seq(Answers)
    BY <1>3, <1>4, AppendOf
  <2> QED BY <1>1, <1>2, <1>3, <2>1 DEF Types
<1>6. \A i \in Calls' : i \in Nat /\ i + 1 \in Calls /\ wire'[i] = wire[i + 1] /\ i + 1 # 1
  BY <1>2 DEF Calls
<1>7. AskedOnce'
  <2>1. CASE wire[1].t = "subscribe"
    <3>1. /\ Len(back) \in Nat /\ Len(back') = Len(back) + 1
          /\ back'[Len(back) + 1] = e /\ \A i \in 1..Len(back) : back'[i] = back[i]
      BY <1>3, <1>4, <2>1, AppendOf
    <3>2. \A i \in Replies' : \/ i \in Replies /\ back'[i] = back[i]
                              \/ i = Len(back) + 1 /\ back'[i].s = s
      BY <1>4, <3>1 DEF Replies
    <3>3. 1 \in Calls
      BY <1>2, <2>1 DEF Calls
    <3>4. /\ st[s] = "asked"
          /\ \A i \in Calls' : wire'[i].s # s
          /\ \A i \in Replies : back[i].s # s
      BY <1>6, <3>3 DEF PInv, AskedOnce
    <3>5. \A i \in Calls' : st'[wire'[i].s] = "asked"
      <4> TAKE i \in Calls'
      <4>1. i + 1 \in Calls /\ wire'[i] = wire[i + 1] /\ st' = st
        BY <1>1, <1>6
      <4>2. st[wire[i + 1].s] = "asked"
        BY <4>1 DEF PInv, AskedOnce
      <4> QED BY <4>1, <4>2
    <3>6. \A i \in Replies' : back'[i].s \in Subscribers /\ st'[back'[i].s] = "asked"
      BY <1>1, <1>4, <3>2, <3>4 DEF PInv, AskedOnce
    <3>7. \A i, j \in Calls' : wire'[i].s = wire'[j].s => i = j
      <4> TAKE i, j \in Calls'
      <4> HAVE wire'[i].s = wire'[j].s
      <4>1. i + 1 = j + 1
        BY <1>6 DEF PInv, AskedOnce
      <4> QED BY <1>6, <4>1
    <3>8. \A i, j \in Replies' : back'[i].s = back'[j].s => i = j
      BY <3>2, <3>4 DEF PInv, AskedOnce
    <3>9. \A i \in Calls' : \A j \in Replies' : wire'[i].s # back'[j].s
      BY <1>6, <3>2, <3>4 DEF PInv, AskedOnce
    <3> QED BY <3>5, <3>6, <3>7, <3>8, <3>9 DEF AskedOnce
  <2>2. CASE wire[1].t # "subscribe"
    <3>1. Replies' = Replies /\ back' = back
      BY <1>3, <2>2 DEF Replies
    <3>2. \A i, j \in Calls' : wire'[i].s = wire'[j].s => i = j
      <4> TAKE i, j \in Calls'
      <4> HAVE wire'[i].s = wire'[j].s
      <4>1. i + 1 = j + 1
        BY <1>6 DEF PInv, AskedOnce
      <4> QED BY <1>6, <4>1
    <3>3. \A i \in Calls' : st'[wire'[i].s] = "asked"
      <4> TAKE i \in Calls'
      <4>1. i + 1 \in Calls /\ wire'[i] = wire[i + 1] /\ st' = st
        BY <1>1, <1>6
      <4>2. st[wire[i + 1].s] = "asked"
        BY <4>1 DEF PInv, AskedOnce
      <4> QED BY <4>1, <4>2
    <3>4. \A i \in Calls' : \A j \in Replies' : wire'[i].s # back'[j].s
      BY <1>6, <3>1 DEF PInv, AskedOnce
    <3> QED BY <1>1, <3>1, <3>2, <3>3, <3>4 DEF PInv, AskedOnce
  <2> QED BY <2>1, <2>2
<1>8. FlagMeansStream'
  BY <1>1 DEF PInv, FlagMeansStream
<1>9. BrokerKnows'
  <2>1. WillSend' => WillSend
    <3>1. CASE Len(wire) = 1
      <4>1. wire' = <<>>
        BY <1>2, <3>1, EmptySeq
      <4> QED BY <1>1, <1>3, <3>1, <4>1 DEF WillSend
    <3>2. CASE Len(wire) # 1
      <4>1. wire'[Len(wire')] = wire[Len(wire)] /\ wire' # <<>>
        BY <1>2, <3>2, EmptySeq
      <4> QED BY <1>1, <4>1 DEF WillSend
    <3> QED BY <3>1, <3>2
  <2> QED BY <1>1, <1>3, <2>1 DEF PInv, BrokerKnows
<1>10. InOrder'
  <2>1. CASE wire[1].t = "subscribe"
    BY <1>1, <1>3, <1>4, <2>1, InOrderGrows
  <2>2. CASE wire[1].t # "subscribe"
    BY <1>1, <1>3, <2>2, InOrderStays DEF Types, Open
  <2> QED BY <2>1, <2>2
<1>11. Gapless'
  BY <1>1 DEF PInv, Gapless
<1>12. Complete'
  <2>1. \A n : Behind(0, n) => Behind(0, n)'
    <3>1. CASE wire[1].t = "subscribe"
      BY <1>1, <1>3, <1>4, <3>1, InOrderGrows
    <3>2. CASE wire[1].t # "subscribe"
      BY <1>3, <3>2, BehindSame
    <3> QED BY <3>1, <3>2
  <2> QED BY <1>1, <1>5, <2>1, CompleteStays DEF Open
<1> QED BY <1>5, <1>7, <1>8, <1>9, <1>10, <1>11, <1>12 DEF PInv

LEMMA PublishInv ==
    ASSUME PInv, Publish
    PROVE  PInv'
<1> DEFINE e == [t |-> "message", n |-> published + 1]
<1>1. /\ published < MaxMessages /\ published' = published + 1
      /\ UNCHANGED <<remote, subscribed, st, opens, wire, on, heard, from, deaf>>
      /\ Types
      /\ (remote /\ back' = back) \/ back' = Append(back, e)
  BY DEF Publish, PInv, streamVars
<1>2. published \in Nat /\ published' \in 0..MaxMessages
  BY <1>1, BoundsAssumption DEF Types
<1>3. e \in Answers /\ e.t = "message" /\ e.n = published + 1 /\ back \in Seq(Answers)
  BY <1>1, <1>2 DEF Answers, Types
<1> HIDE DEF e
<1>4. Types'
  <2>1. back' \in Seq(Answers)
    BY <1>1, <1>3, AppendOf
  <2> QED BY <1>1, <1>2, <2>1 DEF Types
<1>5. /\ \A i \in 1..Len(back) : back'[i] = back[i]
      /\ \A i \in Messages : i \in Nat /\ i \in Messages' /\ back'[i] = back[i]
      /\ \A i \in Messages' : \/ i \in Messages
                              \/ back'[i].n = published + 1 /\ i = Len(back) + 1
      /\ Replies' = Replies
      /\ ~remote => /\ Len(back) + 1 \in Messages'
                    /\ back'[Len(back) + 1].n = published + 1
  <2>1. CASE back' = back /\ remote
    BY <2>1 DEF Messages, Replies
  <2>2. CASE back' = Append(back, e)
    <3>1. /\ Len(back) \in Nat /\ Len(back') = Len(back) + 1
          /\ back'[Len(back) + 1] = e /\ \A i \in 1..Len(back) : back'[i] = back[i]
      BY <1>3, <2>2, AppendOf
    <3> QED BY <1>3, <3>1 DEF Messages, Replies
  <2> QED BY <1>1, <2>1, <2>2
<1>6. AskedOnce'
  <2>1. Calls' = Calls /\ \A i \in Replies : back'[i] = back[i]
    BY <1>1, <1>5 DEF Calls, Replies
  <2> QED BY <1>1, <1>5, <2>1 DEF PInv, AskedOnce
<1>7. FlagMeansStream' /\ BrokerKnows' /\ Gapless'
  BY <1>1 DEF PInv, FlagMeansStream, BrokerKnows, WillSend, Gapless
<1>8. InOrder'
  <2>0. Len(back) \in Nat /\ \A i \in Messages : i <= Len(back)
    BY <1>1, QueueTypes DEF Messages
  <2>1. \A i \in Messages' : back'[i].n \in 1..published'
    BY <1>1, <1>2, <1>5 DEF PInv, InOrder
  <2>2. \A i, j \in Messages' : i < j => back'[i].n < back'[j].n
    <3> TAKE i, j \in Messages'
    <3> HAVE i < j
    <3>1. i \in Messages
      BY <1>5, <2>0
    <3> QED BY <1>2, <1>5, <3>1 DEF PInv, InOrder
  <2>3. ASSUME NEW i, NEW n, Behind(i, n) PROVE Behind(i, n)'
    BY <1>5, <2>3 DEF Behind
  <2>4. ASSUME NEW i \in 0..Len(back), ~remote, NEW n, n = published + 1
        PROVE  Behind(i, n)'
    <3>1. Len(back) + 1 > i
      BY <2>0
    <3> QED BY <1>5, <2>4, <3>1 DEF Behind
  <2>5. ASSUME ~remote, NEW i \in Messages', NEW n \in back'[i].n + 1 .. published'
        PROVE  Behind(i, n)'
    <3>1. i \in Messages /\ i \in 0..Len(back)
      BY <1>1, <1>2, <1>5, <2>0, <2>5
    <3>2. back'[i] = back[i] /\ back[i].n \in Nat
      BY <1>5, <3>1 DEF PInv, InOrder
    <3>3. n = published + 1 \/ n \in back[i].n + 1 .. published
      BY <1>1, <1>2, <2>5, <3>2
    <3> QED BY <2>3, <2>4, <2>5, <3>1, <3>3 DEF PInv, InOrder
  <2>6. ASSUME NEW s \in Open', heard'[s] # <<>>
        PROVE  /\ LastHeard(s)' <= published'
               /\ \A i \in Messages' : LastHeard(s)' < back'[i].n
               /\ ~remote' => \A n \in LastHeard(s)' + 1 .. published' : Behind(0, n)'
    <3>1. /\ s \in Open /\ heard[s] # <<>> /\ LastHeard(s)' = LastHeard(s)
          /\ LastHeard(s) \in Nat
      <4>1. s \in Open /\ heard[s] # <<>> /\ LastHeard(s)' = LastHeard(s)
        BY <1>1, <2>6 DEF Open, LastHeard
      <4>2. heard[s] \in Seq(1..MaxMessages)
        BY <1>1, <4>1 DEF Types, Open
      <4>3. Len(heard[s]) \in 1..Len(heard[s])
        BY <4>1, <4>2, EmptySeq
      <4>4. heard[s][Len(heard[s])] \in 1..MaxMessages
        BY <4>2, <4>3, ElementOfSeq
      <4> QED BY <4>1, <4>4, BoundsAssumption DEF LastHeard
    <3>2. LastHeard(s) <= published
      BY <3>1 DEF PInv, InOrder
    <3>3. \A i \in Messages' : LastHeard(s) < back'[i].n
      BY <1>2, <1>5, <3>1, <3>2 DEF PInv, InOrder
    <3>4. ASSUME ~remote, NEW n \in LastHeard(s) + 1 .. published + 1
          PROVE  Behind(0, n)'
      <4>1. n = published + 1 \/ n \in LastHeard(s) + 1 .. published
        BY <1>2, <3>1, <3>4
      <4> QED BY <2>0, <2>3, <2>4, <3>1, <3>4, <4>1 DEF PInv, InOrder
    <3> QED BY <1>1, <1>2, <3>1, <3>2, <3>3, <3>4
  <2> QED BY <1>1, <2>1, <2>2, <2>5, <2>6 DEF InOrder
<1>9. Complete'
  <2> SUFFICES ASSUME ~remote, NEW s \in Open' \ deaf', NEW n \in from'[s] + 1 .. published'
               PROVE  Has(s, n)' \/ Behind(0, n)'
    BY <1>1 DEF Complete
  <2>1. s \in Open \ deaf /\ from'[s] = from[s] /\ from[s] \in Nat
    BY <1>1, BoundsAssumption DEF Open, Types
  <2>2. CASE n = published + 1
    <3>1. Len(back) + 1 \in Messages' /\ back'[Len(back) + 1].n = published + 1
      BY <1>5
    <3>2. Len(back) + 1 > 0
      BY <1>1, QueueTypes
    <3> QED BY <2>2, <3>1, <3>2 DEF Behind
  <2>3. CASE n # published + 1
    <3>1. n \in from[s] + 1 .. published
      BY <1>1, <1>2, <2>1, <2>3
    <3>2. Has(s, n) \/ Behind(0, n)
      BY <2>1, <3>1 DEF PInv, Complete
    <3>3. Behind(0, n) => Behind(0, n)'
      BY <1>5 DEF Behind
    <3> QED BY <1>1, <3>2, <3>3 DEF Has
  <2> QED BY <2>2, <2>3
<1> QED BY <1>4, <1>6, <1>7, <1>8, <1>9 DEF PInv

LEMMA EmitInv ==
    ASSUME PInv, Emit
    PROVE  PInv'
<1> DEFINE m == back[1].n
           H == {s \in Open : remote \/ subscribed}
<1>1. /\ back # <<>> /\ Head(back).t = "message" /\ back' = Tail(back)
      /\ UNCHANGED <<remote, subscribed, st, opens, wire, on, published, from, deaf>>
      /\ Types
  BY DEF Emit, PInv
<1>2. /\ back' \in Seq(Answers) /\ Head(back) = back[1] /\ 1 \in 1..Len(back)
      /\ back[1].t = "message"
      /\ \A i \in Replies' : i + 1 \in Replies /\ back'[i] = back[i + 1]
      /\ \A i \in Messages' : i + 1 \in Messages /\ back'[i] = back[i + 1]
      /\ \A i \in Messages : i # 1 => i - 1 \in Messages' /\ back'[i - 1] = back[i]
  BY <1>1, BackTail
<1>3. /\ 1 \in Messages /\ m \in 1..published /\ m \in 1..MaxMessages
      /\ published \in Nat
  <2>1. 1 \in Messages
    BY <1>2 DEF Messages
  <2>2. m \in 1..published /\ published \in 0..MaxMessages
    BY <1>1, <2>1 DEF PInv, InOrder, Types
  <2> QED BY <2>1, <2>2, BoundsAssumption
<1>4. /\ Open' = Open /\ H \subseteq Open
      /\ \A s \in H : heard'[s] = Append(heard[s], m)
      /\ \A s \in Subscribers \ H : heard'[s] = heard[s]
      /\ \A s \in Open \ H : heard[s] = <<>> /\ s \in deaf
  <2>1. \A s \in Open \ H : heard[s] = <<>> /\ s \in deaf
    BY DEF PInv, FlagMeansStream, Open
  <2> QED BY <1>1, <1>2, <2>1 DEF Emit, Open
<1> HIDE DEF m, H
<1>5. ASSUME NEW s \in H
      PROVE  /\ heard'[s] \in Seq(1..MaxMessages) /\ heard'[s] # <<>>
             /\ Len(heard[s]) \in Nat /\ Len(heard'[s]) = Len(heard[s]) + 1
             /\ heard'[s][Len(heard[s]) + 1] = m
             /\ \A i \in 1..Len(heard[s]) : heard'[s][i] = heard[s][i]
  <2>1. heard[s] \in Seq(1..MaxMessages)
    BY <1>1, <1>4, <1>5 DEF Types, Open
  <2>2. heard'[s] = Append(heard[s], m)
    BY <1>4, <1>5
  <2> QED BY <1>3, <2>1, <2>2, AppendOf
<1>6. Types'
  <2>1. heard' = [s \in Subscribers |-> heard'[s]]
    BY DEF Emit
  <2>2. \A s \in Subscribers : heard'[s] \in Seq(1..MaxMessages)
    BY <1>1, <1>4, <1>5 DEF Types
  <2>3. heard' \in [Subscribers -> Seq(1..MaxMessages)]
    BY <2>1, <2>2
  <2> QED BY <1>1, <1>2, <2>3 DEF Types
<1>7. AskedOnce'
  <2>1. Calls' = Calls /\ \A i \in Replies' : i \in Nat
    BY <1>1 DEF Calls, Replies
  <2>2. \A i, j \in Replies' : back'[i].s = back'[j].s => i = j
    <3> TAKE i, j \in Replies'
    <3> HAVE back'[i].s = back'[j].s
    <3>1. i + 1 = j + 1
      BY <1>2 DEF PInv, AskedOnce
    <3> QED BY <2>1, <3>1
  <2>3. \A i \in Replies' : back'[i].s \in Subscribers /\ st'[back'[i].s] = "asked"
    <3> TAKE i \in Replies'
    <3>1. i + 1 \in Replies /\ back'[i] = back[i + 1] /\ st' = st
      BY <1>1, <1>2
    <3>2. back[i + 1].s \in Subscribers /\ st[back[i + 1].s] = "asked"
      BY <3>1 DEF PInv, AskedOnce
    <3> QED BY <3>1, <3>2
  <2>4. \A i \in Calls : \A j \in Replies' : wire[i].s # back'[j].s
    BY <1>2 DEF PInv, AskedOnce
  <2> QED BY <1>1, <2>1, <2>2, <2>3, <2>4 DEF PInv, AskedOnce
<1>8. FlagMeansStream' /\ BrokerKnows'
  <2>1. BrokerKnows'
    BY <1>1 DEF PInv, BrokerKnows, WillSend
  <2>2. ASSUME ~subscribed, ~remote, NEW s \in Subscribers, st[s] = "open"
        PROVE  heard'[s] = <<>>
    BY <1>4, <2>2 DEF H, PInv, FlagMeansStream
  <2> QED BY <1>1, <2>1, <2>2 DEF PInv, FlagMeansStream
<1>9. \A i \in Messages' : i \in Nat /\ i + 1 > 1 /\ m < back'[i].n
  <2> TAKE i \in Messages'
  <2>1. i \in 1..Len(back')
    BY DEF Messages
  <2>2. i \in Nat /\ i + 1 > 1
    BY <2>1
  <2> QED BY <1>2, <1>3, <2>2 DEF PInv, InOrder, m
<1>10. \A s \in H : LastHeard(s)' = m
  BY <1>5 DEF LastHeard
<1>11. InOrder'
  <2>1. ASSUME NEW i \in Nat, NEW n, Behind(i + 1, n) PROVE Behind(i, n)'
    <3>1. PICK j \in Messages : j > i + 1 /\ back[j].n = n
      BY <2>1 DEF Behind
    <3>2. j \in Nat /\ j # 1
      BY <3>1 DEF Messages
    <3>3. j - 1 \in Messages' /\ back'[j - 1] = back[j]
      BY <1>2, <3>2
    <3>4. j - 1 > i
      BY <3>1, <3>2
    <3> QED BY <3>1, <3>3, <3>4 DEF Behind
  <2>2. \A i, j \in Messages' : i < j => back'[i].n < back'[j].n
    <3> TAKE i, j \in Messages'
    <3> HAVE i < j
    <3>1. /\ i + 1 \in Messages /\ j + 1 \in Messages /\ i + 1 < j + 1
          /\ back'[i] = back[i + 1] /\ back'[j] = back[j + 1]
      BY <1>2, <1>9
    <3> QED BY <3>1 DEF PInv, InOrder
  <2>3. ~remote => \A i \in Messages' : \A n \in back'[i].n + 1 .. published : Behind(i, n)'
    BY <1>2, <1>9, <2>1 DEF PInv, InOrder
  <2>4. ~remote => \A n \in m + 1 .. published : Behind(0, n)'
    <3>1. ~remote => \A n \in m + 1 .. published : Behind(0 + 1, n)
      BY <1>3 DEF PInv, InOrder, m
    <3> QED BY <2>1, <3>1
  <2>5. \A i \in Messages' : back'[i].n \in 1..published
    BY <1>2 DEF PInv, InOrder
  <2>6. ASSUME NEW s \in Open', heard'[s] # <<>>
        PROVE  /\ LastHeard(s)' <= published'
               /\ \A i \in Messages' : LastHeard(s)' < back'[i].n
               /\ ~remote' => \A n \in LastHeard(s)' + 1 .. published' : Behind(0, n)'
    <3>1. LastHeard(s)' = m
      <4>1. s \in H
        BY <1>4, <2>6 DEF Open
      <4> QED BY <1>10, <4>1
    <3>2. published' = published /\ remote' = remote /\ m <= published
      BY <1>1, <1>3
    <3>3. \A i \in Messages' : LastHeard(s)' < back'[i].n
      BY <1>9, <3>1
    <3>4. ~remote' => \A n \in LastHeard(s)' + 1 .. published' : Behind(0, n)'
      BY <2>4, <3>1, <3>2
    <3> QED BY <3>1, <3>2, <3>3, <3>4
  <2> QED BY <1>1, <2>2, <2>3, <2>5, <2>6 DEF InOrder
<1>12. Gapless'
  <2> SUFFICES ASSUME NEW s \in Subscribers, NEW i \in 1..(Len(heard'[s]) - 1)
               PROVE  /\ heard'[s][i] < heard'[s][i + 1]
                      /\ ~remote => heard'[s][i + 1] = heard'[s][i] + 1
    BY <1>1 DEF Gapless
  <2>1. CASE s \notin H
    BY <1>4, <2>1 DEF PInv, Gapless
  <2>2. CASE s \in H /\ i # Len(heard[s])
    <3>1. i \in 1..(Len(heard[s]) - 1) /\ i + 1 \in 1..Len(heard[s])
      BY <1>5, <2>2
    <3>2. heard'[s][i] = heard[s][i] /\ heard'[s][i + 1] = heard[s][i + 1]
      BY <1>5, <2>2, <3>1
    <3> QED BY <3>1, <3>2 DEF PInv, Gapless
  <2>3. CASE s \in H /\ i = Len(heard[s])
    <3>1. /\ i \in 1..Len(heard[s]) /\ heard'[s][i] = LastHeard(s)
          /\ heard'[s][i + 1] = m /\ heard[s] # <<>>
      BY <1>5, <2>3 DEF LastHeard
    <3>2. LastHeard(s) \in Nat
      BY <1>1, <2>3, <3>1, <1>4, ElementOfSeq, BoundsAssumption DEF Types, Open, LastHeard
    <3>3. LastHeard(s) < m
      BY <1>3, <1>4, <2>3, <3>1 DEF PInv, InOrder, m
    <3>4. ASSUME ~remote, m # LastHeard(s) + 1 PROVE FALSE
      \* The message after the last one heard would come behind a later one.
      <4>1. LastHeard(s) + 1 \in LastHeard(s) + 1 .. published /\ LastHeard(s) + 1 < m
        BY <1>3, <3>2, <3>3, <3>4
      <4>2. Behind(0, LastHeard(s) + 1)
        BY <1>4, <2>3, <3>1, <3>4, <4>1 DEF PInv, InOrder
      <4>3. PICK j \in Messages : back[j].n = LastHeard(s) + 1
        BY <4>2 DEF Behind
      <4>4. j = 1 \/ 1 < j
        BY DEF Messages
      <4>5. m <= back[j].n
        BY <1>3, <4>4 DEF PInv, InOrder, m
      <4> QED BY <1>3, <3>2, <4>1, <4>3, <4>5
    <3> QED BY <3>1, <3>3, <3>4
  <2> QED BY <2>1, <2>2, <2>3
<1>13. Complete'
  <2> SUFFICES ASSUME ~remote, NEW s \in Open' \ deaf', NEW n \in from'[s] + 1 .. published
               PROVE  Has(s, n)' \/ Behind(0, n)'
    BY <1>1 DEF Complete
  <2>1. s \in H /\ s \in Open \ deaf /\ from'[s] = from[s]
    BY <1>1, <1>4
  <2>2. Has(s, n) \/ Behind(0, n)
    BY <2>1 DEF PInv, Complete
  <2>3. CASE Has(s, n)
    <3>1. PICK i \in 1..Len(heard[s]) : heard[s][i] = n
      BY <2>3 DEF Has
    <3>2. i \in 1..Len(heard'[s]) /\ heard'[s][i] = n
      BY <1>5, <2>1, <3>1
    <3> QED BY <3>2 DEF Has
  <2>4. CASE Behind(0, n)
    <3>1. PICK j \in Messages : back[j].n = n
      BY <2>4 DEF Behind
    <3>2. CASE j = 1
      <4>1. Len(heard[s]) + 1 \in 1..Len(heard'[s]) /\ heard'[s][Len(heard[s]) + 1] = n
        BY <1>5, <2>1, <3>1, <3>2 DEF m
      <4> QED BY <4>1 DEF Has
    <3>3. CASE j # 1
      <4>1. j - 1 \in Messages' /\ back'[j - 1].n = n /\ j - 1 > 0
        BY <1>2, <3>1, <3>3 DEF Messages
      <4> QED BY <4>1 DEF Behind
    <3> QED BY <3>2, <3>3
  <2> QED BY <2>2, <2>3, <2>4
<1> QED BY <1>6, <1>7, <1>8, <1>11, <1>12, <1>13 DEF PInv

-----------------------------------------------------------------------------
LEMMA NextInv ==
    ASSUME PInv, [Next]_vars
    PROVE  PInv'
<1>1. CASE UNCHANGED vars
  <2>1. /\ UNCHANGED <<remote, subscribed, st, opens, wire, back, on, published, heard,
                        from, deaf>>
        /\ Calls' = Calls /\ Replies' = Replies
    BY <1>1 DEF vars, streamVars, Calls, Replies
  <2>2. Types' /\ AskedOnce' /\ FlagMeansStream' /\ BrokerKnows' /\ Gapless' /\ Complete'
    <3>1. Types' /\ AskedOnce'
      BY <2>1 DEF PInv, Types, AskedOnce
    <3>2. FlagMeansStream' /\ BrokerKnows'
      BY <2>1 DEF PInv, FlagMeansStream, BrokerKnows, WillSend
    <3>3. Gapless' /\ Complete'
      BY <2>1 DEF PInv, Gapless, Complete, Has, Behind, Messages, Open
    <3> QED BY <3>1, <3>2, <3>3
  <2>3. InOrder'
    BY <2>1, InOrderStays DEF PInv, Types, Open
  <2> QED BY <2>2, <2>3 DEF PInv
<1>2. CASE Next
  BY <1>2, SubscribeInv, TickInv, DestroyInv, SubscribedInv, BrokerInv, PublishInv,
     EmitInv DEF Next
<1> QED BY <1>1, <1>2

THEOREM Invariance == Spec => []PInv
<1>1. PInv /\ [Next]_vars => PInv'
  BY NextInv
<1>2. Init => PInv
  BY InitInv, ModesAssumption
<1> QED BY <1>1, <1>2, PTL DEF Spec

(* A subscriber that waits for the broker, and no other, has a command or  *)
(* an answer on its way, and the streams hold published messages.          *)
THEOREM TypeCorrect == Spec => []TypeOK
<1>1. PInv => TypeOK
  <2> SUFFICES ASSUME PInv PROVE TypeOK
    OBVIOUS
  <2>1. /\ DOMAIN wire = 1..Len(wire) /\ DOMAIN back = 1..Len(back)
        /\ \A i \in 1..Len(wire) : wire[i] \in Commands
        /\ \A i \in 1..Len(back) : back[i] \in Answers
    BY QueueTypes, LenProperties DEF PInv, Types
  <2>2. \A i \in DOMAIN wire : wire[i].t \in {"subscribe", "unsubscribe"}
    BY <2>1 DEF Commands
  <2>3. \A i \in DOMAIN wire : wire[i].t \in {"subscribe", "subscribed"} =>
                                  st[wire[i].s] = "asked"
    BY <2>1, <2>2 DEF PInv, AskedOnce, Calls
  <2>4. \A i \in DOMAIN back : back[i].t \in {"subscribe", "subscribed"} =>
                                  st[back[i].s] = "asked"
    BY <2>1 DEF PInv, AskedOnce, Replies, Answers
  <2> QED BY <2>2, <2>3, <2>4 DEF PInv, Types, TypeOK
<1> QED BY Invariance, <1>1, PTL

(* Over MemoryPubSub every open stream hears, however the subscriptions,   *)
(* destructions and callbacks of any number of subscribers interleave,     *)
(* unless no open stream was made while the flag was set: then all are     *)
(* deaf.                                                                   *)
THEOREM MemoryHearsCorrect == Spec => []MemoryHears
<1>1. PInv => MemoryHears
  BY DEF PInv, FlagMeansStream, MemoryHears, Open
<1> QED BY Invariance, <1>1, PTL

(* After the last stream of a channel is gone and the commands have        *)
(* settled, the flag is clear and the broker sends the channel no more.    *)
THEOREM NoLeakCorrect == Spec => []NoLeak
<1>1. PInv => NoLeak
  <2> SUFFICES ASSUME PInv, Settled, Open = {} PROVE ~subscribed /\ ~on
    BY DEF NoLeak
  <2>1. \A s \in Subscribers : st[s] = "idle"
    BY DEF Settled, Open
  <2>2. ~subscribed
    BY <2>1 DEF PInv, FlagMeansStream
  <2>3. ~on
    BY <2>1 DEF PInv, BrokerKnows, WillSend, Settled
  <2> QED BY <2>2, <2>3
<1> QED BY Invariance, <1>1, PTL

(* What a stream hears is in the order of publication and nothing twice;   *)
(* over MemoryPubSub nothing is left out after its first message, and what *)
(* was published since it was handed out is heard or on its way, but for a *)
(* deaf stream.                                                            *)
THEOREM NoGapsCorrect == Spec => []NoGaps
<1>1. PInv => NoGaps
  <2> SUFFICES ASSUME PInv, NEW s \in Subscribers, ~remote, s \in Open \ deaf,
                      NEW n \in from[s] + 1 .. published, ~Has(s, n)
               PROVE  \E i \in 1..Len(back) : back[i].t = "message" /\ back[i].n = n
    BY DEF PInv, Gapless, NoGaps, Has
  <2>1. Behind(0, n)
    BY DEF PInv, Complete
  <2> QED BY <2>1 DEF Behind, Messages
<1> QED BY Invariance, <1>1, PTL
=============================================================================
