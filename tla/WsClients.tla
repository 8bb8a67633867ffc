----------------------------- MODULE WsClients -----------------------------
(***************************************************************************)
(* Inbound WebSocket connections: run_ws_connection (router/mod.rs), the   *)
(* registry of connections (ws/mod.rs), and what the steps ws_tag and      *)
(* ws_send do to it from the DSL that a frame runs.                        *)
(*                                                                         *)
(* A connection has a task, which runs the DSL of one frame at a time, and *)
(* a writer task, which empties its bounded queue into the socket; a       *)
(* message matters only by its place in the queue.  A tag value is a set   *)
(* of tokens, the empty string the empty set.  A frame's DSL takes one     *)
(* step on the registry, one of                                            *)
(*   [op |-> "tag", entries],  entries a sequence of [key, value];         *)
(*   [op |-> "send", to],      an optional connection;                     *)
(*   [op |-> "fanout", ids],   a sequence of connections;                  *)
(*   [op |-> "prefix"], [op |-> "where", bw];                              *)
(*   [op |-> "fail"], [op |-> "panic"].                                    *)
(***************************************************************************)
EXTENDS Naturals, Sequences, FiniteSets

CONSTANTS
    Connections,
    Frames,         \* connection -> steps that the DSL of its frame may take
    MaxFrames,      \* bound: frames of each connection
    QueueCapacity   \* DEFAULT_OUTBOUND_QUEUE_CAPACITY

VARIABLES
    registry,  \* registered connection -> its tags
    conn

wsVars == <<registry, conn>>

NoStep == [op |-> "none"]

NoConnection == [task |-> "none", frames |-> 0, step |-> NoStep, writer |-> "none",
                 queue |-> 0, socket |-> "open"]

NoTags == [k \in {} |-> {}]

WsInit ==
    /\ registry = [c \in {} |-> NoTags]
    /\ conn = [c \in Connections |-> NoConnection]

Task(c, stage) == conn[c].task = stage

Registered == DOMAIN registry

\* on_upgrade: the connection's task starts once the handshake is done.
Upgraded(c) ==
    /\ conn' = [conn EXCEPT ![c].task = "upgrading"]
    /\ UNCHANGED registry

-----------------------------------------------------------------------------
(* The connection's task *)

register(c) == [x \in Registered \cup {c} |-> IF x = c THEN NoTags ELSE registry[x]]

Open(c) ==
    /\ Task(c, "upgrading")
    /\ registry' = register(c)
    /\ conn' = [conn EXCEPT ![c].task = "open", ![c].writer = "recv"]

UpgradeFails(c) ==
    /\ Task(c, "upgrading")
    /\ conn' = [conn EXCEPT ![c].task = "gone"]
    /\ UNCHANGED registry

\* The client sends Close, or its side breaks.  It need not read any more.
PeerCloses(c) ==
    /\ conn[c].writer # "none" /\ conn[c].socket = "open"
    /\ conn' = [conn EXCEPT ![c].socket = "closed"]
    /\ UNCHANGED registry

matches(bw, tags) ==
    /\ bw.tag \in DOMAIN tags
    /\ \A want \in bw.equals : tags[bw.tag] = want
    /\ \A needle \in bw.contains : needle \subseteq tags[bw.tag]

\* Exactly one operand, and none of the strings is empty.
resolve_broadcast_where(bw) ==
    /\ bw.tag # ""
    /\ Cardinality(bw.equals) + Cardinality(bw.contains) = 1
    /\ {} \notin bw.equals \cup bw.contains

Wants(f, c) == f.op = "prefix" \/ matches(f.bw, registry[c])

\* A broadcast in progress.  seen: registered when it began; due: those of
\* them that matched; got, refused: what try_send said; retagged: connections
\* whose tags changed meanwhile.
Cast(f) == [op |-> "cast", of |-> f, seen |-> Registered, visited |-> {},
            due |-> {c \in Registered : Wants(f, c)},
            got |-> {}, refused |-> {}, retagged |-> {}]

\* What the DSL of frame f has to do.  A step whose arguments do not resolve
\* fails the DSL, and a failed DSL is only logged.
Started(f) ==
    IF f.op = "prefix" \/ (f.op = "where" /\ resolve_broadcast_where(f.bw)) THEN Cast(f)
    ELSE IF f.op \in {"where", "fail"} THEN [op |-> "over"] ELSE f

\* A frame that is text (or binary text) starts the DSL; others are ignored.
ReceiveFrame(c) ==
    /\ Task(c, "open") /\ conn[c].socket = "open" /\ conn[c].frames < MaxFrames[c]
    /\ \E f \in Frames[c] :
        conn' = [conn EXCEPT ![c].task = "frame", ![c].frames = @ + 1, ![c].step = Started(f)]
    /\ UNCHANGED registry

Doing(c, op) == Task(c, "frame") /\ conn[c].step.op = op

FrameEnds(c) ==
    /\ Doing(c, "over")
    /\ conn' = [conn EXCEPT ![c].task = "open", ![c].step = NoStep]
    /\ UNCHANGED registry

\* A panic in a DSL ends the task without its last two lines: the entry and
\* the writer stay.
Panic(c) ==
    /\ Doing(c, "panic")
    /\ conn' = [conn EXCEPT ![c].task = "panicked", ![c].step = NoStep]
    /\ UNCHANGED registry

\* Faulty variant: the writer is left to end by itself.
Teardown_NoAbort(c) ==
    /\ Task(c, "open") /\ conn[c].socket = "closed"
    /\ registry' = [x \in Registered \ {c} |-> registry[x]]
    /\ conn' = [conn EXCEPT ![c].task = "gone",
                            ![c].writer = IF @ = "recv" THEN "ended" ELSE @, ![c].queue = 0]

\* The loop ends: unregister, and abort the writer.  What is queued is lost.
Teardown(c) ==
    /\ Task(c, "open") /\ conn[c].socket = "closed"
    /\ registry' = [x \in Registered \ {c} |-> registry[x]]
    /\ conn' = [conn EXCEPT ![c].task = "gone", ![c].writer = "ended", ![c].queue = 0]

-----------------------------------------------------------------------------
(* The writer task *)

WriterTakes(c) ==
    /\ conn[c].writer = "recv" /\ conn[c].queue > 0
    /\ conn' = [conn EXCEPT ![c].writer = "sending", ![c].queue = @ - 1]
    /\ UNCHANGED registry

\* The socket takes the frame, or reports that the peer is gone; then the
\* writer ends and its queue with it.
WriterSends(c) ==
    /\ conn[c].writer = "sending"
    /\ \/ conn' = [conn EXCEPT ![c].writer = "recv"]
       \/ /\ conn[c].socket = "closed"
          /\ conn' = [conn EXCEPT ![c].writer = "ended", ![c].queue = 0]
    /\ UNCHANGED registry

-----------------------------------------------------------------------------
(* ws_tag: one entry at a time, while others read the tags *)

TagInsert(c) ==
    /\ Doing(c, "tag")
    /\ LET todo == conn[c].step.entries
           rest == IF Len(todo) = 1 THEN [op |-> "over"]
                   ELSE [op |-> "tag", entries |-> Tail(todo)]
           key == Head(todo).key
       IN  /\ registry' = [registry EXCEPT ![c] =
                [k \in DOMAIN @ \cup {key} |-> IF k = key THEN Head(todo).value ELSE @[k]]]
           /\ conn' = [x \in Connections |->
                IF x = c THEN [conn[x] EXCEPT !.step = rest]
                ELSE IF Doing(x, "cast") THEN [conn[x] EXCEPT !.step.retagged = @ \cup {c}]
                ELSE conn[x]]

-----------------------------------------------------------------------------
(* ws_send *)

\* Faulty variant: the queue has no bound.
Accepts_Unbounded(c) == c \in Registered /\ conn[c].writer # "ended"

Accepts(c) == c \in Registered /\ conn[c].writer # "ended" /\ conn[c].queue < QueueCapacity

\* The queues after try_send to c, with step as what sender s does next.
Enqueued(s, step, c) ==
    [x \in Connections |->
        [conn[x] EXCEPT !.step = IF x = s THEN step ELSE @,
                        !.queue = IF x = c /\ Accepts(c) THEN @ + 1 ELSE @]]

\* To one connection, by default the sender's own.  A failed send fails the
\* DSL.
Unicast(s) ==
    /\ Doing(s, "send")
    /\ LET to == conn[s].step.to
           c  == IF to = {} THEN s ELSE CHOOSE x \in to : TRUE
       IN  conn' = Enqueued(s, [op |-> "over"], c)
    /\ UNCHANGED registry

\* To each of an array of connections; a failed send is skipped.
FanOut(s) ==
    /\ Doing(s, "fanout")
    /\ LET ids == conn[s].step.ids
           rest == IF Len(ids) = 1 THEN [op |-> "over"] ELSE [op |-> "fanout", ids |-> Tail(ids)]
       IN  conn' = Enqueued(s, rest, Head(ids))
    /\ UNCHANGED registry

\* Faulty variant: a full queue ends the broadcast.
AfterVisit_Stop(b, c, wanted) ==
    IF wanted /\ ~ Accepts(c) THEN [b EXCEPT !.visited = b.seen, !.refused = @ \cup {c}]
    ELSE [b EXCEPT !.visited = @ \cup {c}, !.got = IF wanted THEN @ \cup {c} ELSE @]

\* The broadcast b after its visit to c; a full queue is skipped.
AfterVisit(b, c, wanted) ==
    [b EXCEPT !.visited = @ \cup {c},
              !.got     = IF wanted /\ Accepts(c) THEN @ \cup {c} ELSE @,
              !.refused = IF wanted /\ ~ Accepts(c) THEN @ \cup {c} ELSE @]

\* The iteration over the map: in any order, over what is there when it comes
\* by.  A connection registered meanwhile may be visited or not.
BroadcastVisit(s) ==
    /\ Doing(s, "cast")
    /\ \E c \in Registered \ conn[s].step.visited :
        LET b == conn[s].step
            wanted == Wants(b.of, c)
        IN  conn' = IF wanted THEN Enqueued(s, AfterVisit(b, c, wanted), c)
                    ELSE [conn EXCEPT ![s].step = AfterVisit(b, c, wanted)]
    /\ UNCHANGED registry

BroadcastEnds(s) ==
    /\ Doing(s, "cast")
    /\ conn[s].step.seen \cap Registered \subseteq conn[s].step.visited
    /\ conn' = [conn EXCEPT ![s].step.op = "over"]
    /\ UNCHANGED registry

-----------------------------------------------------------------------------
\* Steps of the connection's own task.
TaskStep(c) ==
    \/ Open(c) \/ FrameEnds(c) \/ Panic(c) \/ Teardown(c) \/ TagInsert(c)
    \/ Unicast(c) \/ FanOut(c) \/ BroadcastVisit(c) \/ BroadcastEnds(c)

WsNext(c) ==
    \/ TaskStep(c) \/ UpgradeFails(c) \/ ReceiveFrame(c) \/ PeerCloses(c)
    \/ WriterTakes(c) \/ WriterSends(c)

-----------------------------------------------------------------------------
\* The registry holds exactly the connections whose task is alive, and those
\* whose DSL panicked; a live one whose writer has ended has lost its peer,
\* and no queue exceeds its capacity (register, unregister, bounded_sender).
RegisteredIsServed ==
    /\ Registered = {c \in Connections : conn[c].task \in {"open", "frame", "panicked"}}
    /\ \A c \in Connections :
        /\ conn[c].queue <= QueueCapacity
        /\ c \in Registered /\ conn[c].writer = "ended" => conn[c].socket = "closed"
        /\ conn[c].queue > 0 => c \in Registered

\* A broadcast has tried every connection that was registered and matched when
\* it began, is registered still and was not tagged meanwhile: connections
\* that come, go or are full do not make it miss another (broadcast,
\* broadcast_where).
BroadcastReaches ==
    \A s \in Connections :
        LET b == conn[s].step
        IN  Doing(s, "over") /\ "due" \in DOMAIN b =>
                (b.due \cap Registered) \ b.retagged \subseteq b.got \cup b.refused

\* After its peer has closed, a connection leaves the registry and its writer
\* ends, even if that is stuck in a write; only a panic prevents it.
GoneIsForgotten ==
    \A c \in Connections :
        conn[c].socket = "closed" ~>
            \/ c \notin Registered /\ conn[c].writer = "ended"
            \/ Task(c, "panicked")

\* The registry serves: whoever is in it is alive, and a broadcast reaches all
\* of them.
RegistryServes == RegisteredIsServed /\ BroadcastReaches
=============================================================================
