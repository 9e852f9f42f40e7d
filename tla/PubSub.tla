------------------------------- MODULE PubSub -------------------------------
(***************************************************************************)
(* packages/webafx-cache: PubSubProvider, with the Redis provider and the  *)
(* in-process one.  The Redis provider keeps its handlers in a map and     *)
(* talks to the server over one subscriber connection: commands are        *)
(* answered in the order they were sent, and messages arrive between the   *)
(* answers.  Patterns go through the same code as channels, under another  *)
(* map: a Topic is either.  The server and its connection are external.    *)
(***************************************************************************)
EXTENDS Naturals, Sequences, FiniteSets, SequencesExt

CONSTANTS Topic,         \* channels and patterns of the application
          Handler,       \* message handlers
          MaxCommands,   \* bound on the commands under way at a time
          MaxMessages    \* bound on the messages published

VARIABLES handlers,      \* handlers and patternHandlers: the set of each topic the map has
          subscribed,    \* topics the server has this connection subscribed to
          wire,          \* commands sent and not yet carried out by the server
          answers,       \* what the server has sent back and the client has not yet read
          refused,       \* topics with a SUBSCRIBE that failed and none that succeeded since
          owed,          \* handlers that each message in answers was published for
          published,
          provider       \* "redis" or "memory"

pubsubVars == <<handlers, subscribed, wire, answers, refused, owed, published, provider>>

PubSubInit ==
    /\ handlers = [t \in {} |-> {}]
    /\ subscribed = {} /\ wire = <<>> /\ answers = <<>>
    /\ refused = {} /\ owed = <<>> /\ published = 0
    /\ provider \in {"redis", "memory"}

HandlersOf(t) == IF t \in DOMAIN handlers THEN handlers[t] ELSE {}
\* Mutant of WithoutTopic: unsubscribe leaves the handlers in the map.
WithoutNothing(t) == handlers

WithoutTopic(t) == [u \in DOMAIN handlers \ {t} |-> handlers[u]]

With(t, h) == [u \in DOMAIN handlers \cup {t} |->
                  IF u = t THEN HandlersOf(t) \cup {h} ELSE handlers[u]]
Send(kind, t) == wire' = Append(wire, [kind |-> kind, topic |-> t])
Room == Len(wire) + Len(SelectSeq(answers, LAMBDA a : a.kind # "message")) < MaxCommands

-----------------------------------------------------------------------------
(* RedisPubSubProvider                                                     *)

\* subscribe, psubscribe: the command goes out only for a set that has become a singleton.
Subscribe(t, h) ==
    /\ provider = "redis" /\ Room
    /\ handlers' = With(t, h)
    /\ IF Cardinality(HandlersOf(t) \cup {h}) = 1 THEN Send("SUBSCRIBE", t) ELSE UNCHANGED wire
    /\ UNCHANGED <<subscribed, answers, refused, owed, published, provider>>

\* unsubscribe, punsubscribe: the map keeps the handlers until the answer.
Unsubscribe(t) ==
    /\ provider = "redis" /\ Room
    /\ Send("UNSUBSCRIBE", t)
    /\ UNCHANGED <<handlers, subscribed, answers, refused, owed, published, provider>>

\* The client reads the next answer: the rest of unsubscribe, or the end of subscribe.
ReadAnswer ==
    /\ answers # <<>> /\ Head(answers).kind # "message"
    /\ LET a == Head(answers) IN
        handlers' = IF a.kind = "UNSUBSCRIBE" THEN WithoutTopic(a.topic) ELSE handlers
    /\ answers' = Tail(answers)
    /\ UNCHANGED <<subscribed, wire, refused, owed, published, provider>>

\* A "message" or "pmessage" event: every handler of the topic's set is called, and one that
\* throws or rejects is logged by safeInvoke and stops no other.
Deliver ==
    /\ answers # <<>> /\ Head(answers).kind = "message"
    /\ answers' = Tail(answers)
    /\ owed' = Tail(owed)
    /\ UNCHANGED <<handlers, subscribed, wire, refused, published, provider>>

Invoked == IF answers # <<>> /\ Head(answers).kind = "message"
           THEN HandlersOf(Head(answers).topic) ELSE {}

-----------------------------------------------------------------------------
(* The server.                                                             *)

Serve ==
    /\ wire # <<>>
    /\ LET c == Head(wire) IN
        /\ wire' = Tail(wire)
        /\ answers' = Append(answers, c)
        /\ subscribed' = IF c.kind = "SUBSCRIBE" THEN subscribed \cup {c.topic}
                         ELSE subscribed \ {c.topic}
        /\ refused' = refused \ {c.topic}
    /\ UNCHANGED <<handlers, owed, published, provider>>

\* The command fails (retries exhausted, no permission): subscribe rejects, unsubscribe too, and
\* neither undoes what it did to the map.
ServeFails ==
    /\ wire # <<>>
    /\ wire' = Tail(wire)
    /\ refused' = IF Head(wire).kind = "SUBSCRIBE" /\ Head(wire).topic \notin subscribed
                  THEN refused \cup {Head(wire).topic} ELSE refused
    /\ UNCHANGED <<handlers, subscribed, answers, owed, published, provider>>

\* Somebody publishes to a topic the connection is subscribed to.  A handler is owed the message
\* if it is registered and no UNSUBSCRIBE of the topic is on its way.
Leaving(t) == \E c \in Range(wire) \cup Range(answers) : c.kind = "UNSUBSCRIBE" /\ c.topic = t

Publish(t) ==
    /\ provider = "redis" /\ t \in subscribed /\ published < MaxMessages
    /\ answers' = Append(answers, [kind |-> "message", topic |-> t])
    /\ owed' = Append(owed, IF Leaving(t) THEN {} ELSE HandlersOf(t))
    /\ published' = published + 1
    /\ UNCHANGED <<handlers, subscribed, wire, refused, provider>>

-----------------------------------------------------------------------------
(* MemoryPubSubProvider: the map is the subscription.                      *)

MemorySubscribe(t, h) ==
    /\ provider = "memory"
    /\ handlers' = With(t, h)
    /\ subscribed' = subscribed \cup {t}
    /\ UNCHANGED <<wire, answers, refused, owed, published, provider>>

MemoryUnsubscribe(t) ==
    /\ provider = "memory"
    /\ handlers' = WithoutTopic(t)
    /\ subscribed' = subscribed \ {t}
    /\ UNCHANGED <<wire, answers, refused, owed, published, provider>>

PubSubNext ==
    \/ \E t \in Topic : \/ Unsubscribe(t) \/ Publish(t) \/ MemoryUnsubscribe(t)
                        \/ \E h \in Handler : Subscribe(t, h) \/ MemorySubscribe(t, h)
    \/ ReadAnswer \/ Deliver \/ Serve \/ ServeFails

-----------------------------------------------------------------------------

\* A topic that has handlers is subscribed at the server once everything sent has been answered,
\* whatever the order in which subscribe and unsubscribe calls overlapped, unless its SUBSCRIBE
\* failed: no handler waits on a channel nobody listens to.
HandlersAreServed ==
    \A t \in DOMAIN handlers \ refused :
        \/ t \in subscribed
        \/ \E c \in Range(wire) \cup Range(answers) : c.topic = t /\ c.kind # "message"

\* subscribe() of the same topic while its unsubscribe is under way resolves, and the answer to
\* the unsubscribe then removes its handler: this is the only way a registered handler misses a
\* message the connection received.  A message reaches every handler it was published for that
\* no unsubscribe has removed.
DeliveryReachesTheOwed ==
    answers # <<>> /\ Head(answers).kind = "message" /\ owed # <<>>
        => Head(owed) \subseteq Invoked

\* Both, for calls and answers that overlap in any way.
SubscriptionsAreSound == HandlersAreServed /\ DeliveryReachesTheOwed
=============================================================================
