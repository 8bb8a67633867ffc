------------------------------- MODULE WsSource -------------------------------
(***************************************************************************)
(* A WebSocket source: the task of sources/ws.rs that connects, dispatches *)
(* frames and reconnects; its bridge and writer tasks; its entry in the    *)
(* WsRegistry (ws/mod.rs) to which `ws_send` steps send; and the watchdog  *)
(* of supervisor/mod.rs that restarts the task when it panics.             *)
(*                                                                         *)
(* Connections are numbered.  The id under which a source registers is     *)
(* always the same, so the registry maps it to one connection.  Frames are *)
(* counted, their content is left out.                                     *)
(***************************************************************************)
EXTENDS Integers

CONSTANTS
  MaxConns,    \* bound on the connections opened
  MaxPanics,   \* bound on the panics of the source task
  Capacity,    \* DEFAULT_OUTBOUND_QUEUE_CAPACITY, of the registry's channel
  MaxQueued,   \* bound on the writer's channel, which the code does not bound
  OnConnect,   \* number of on_connect payloads
  MaxBackoff   \* max_backoff_ms, in units of initial_backoff_ms

ASSUME WsSourceAssumption ==
  /\ MaxConns \in Nat /\ MaxPanics \in Nat
  /\ Capacity \in Nat \ {0}
  /\ OnConnect \in Nat
  /\ MaxQueued \in Nat /\ OnConnect <= MaxQueued
  /\ MaxBackoff \in Nat \ {0}

Conns == 1..MaxConns

VARIABLES
  status,      \* SourceStatus in the SourceStateMap
  restarts,    \* restart_count
  backoff,     \* the watchdog's backoff
  task,        \* where the source task is
  delay,       \* the source task's own backoff_ms
  conn,        \* the last connection opened (0: none yet)
  registered,  \* the connection in the registry under the source's id, or 0
  bridge, writer,  \* connections whose bridge / writer task runs
  aborted,     \* connections whose bridge and writer were told to abort
  regQ, outQ   \* connection -> messages queued to its bridge / its writer

vars == <<status, restarts, backoff, task, delay, conn, registered,
          bridge, writer, aborted, regQ, outQ>>

watchdog == <<status, restarts, backoff>>
channels == <<bridge, writer, aborted, regQ, outQ>>
source   == <<task, delay, conn, registered>>

TaskStages == {"none", "connecting", "reading", "dispatching", "sleeping", "panicked"}

TypeOK ==
  /\ status \in {"starting", "running", "restarting"}
  /\ restarts \in 0..MaxPanics
  /\ backoff \in 1..MaxBackoff
  /\ task \in TaskStages
  /\ delay \in 1..MaxBackoff
  /\ conn \in 0..MaxConns
  /\ registered \in 0..MaxConns
  /\ bridge \subseteq Conns
  /\ writer \subseteq Conns
  /\ aborted \subseteq Conns
  /\ regQ \in [Conns -> 0..Capacity]
  /\ outQ \in [Conns -> 0..MaxQueued]

Doubled(d) == IF d * 2 < MaxBackoff THEN d * 2 ELSE MaxBackoff

Init ==
  /\ status = "starting" /\ restarts = 0 /\ backoff = 1
  /\ task = "none" /\ delay = 1
  /\ conn = 0 /\ registered = 0
  /\ bridge = {} /\ writer = {} /\ aborted = {}
  /\ regQ = [c \in Conns |-> 0]
  /\ outQ = [c \in Conns |-> 0]

-----------------------------------------------------------------------------
\* supervise: set_status(Running) and spawn the source task.  (The task itself
\* never returns, so the watchdog's `Dead` is reached by cancellation only.)
Supervise ==
  /\ task = "none"
  /\ status' = "running"
  /\ task' = "connecting"
  /\ delay' = 1
  /\ UNCHANGED <<restarts, backoff, conn, registered, channels>>

\* Faulty variant: the watchdog gives up.
PanicIsFinal ==
  /\ task = "panicked"
  /\ status = "running"
  /\ status' = "restarting"
  /\ UNCHANGED <<restarts, backoff, source, channels>>

\* The watchdog sees the JoinError of a panic, sleeps and doubles its backoff.
Restart ==
  /\ task = "panicked"
  /\ IF status = "running"
       THEN /\ status' = "restarting"
            /\ restarts' = restarts + 1
            /\ UNCHANGED <<backoff, task>>
       ELSE /\ backoff' = Doubled(backoff)
            /\ task' = "none"
            /\ UNCHANGED <<status, restarts>>
  /\ UNCHANGED <<delay, conn, registered, channels>>

-----------------------------------------------------------------------------
\* connect_async or one of the headers fails.
ConnectFails ==
  /\ task = "connecting"
  /\ task' = "sleeping"
  /\ UNCHANGED <<watchdog, delay, conn, registered, channels>>

\* Faulty variant: an entry that is there is not replaced.
ConnectKeepsEntry ==
  /\ task = "connecting"
  /\ conn < MaxConns
  /\ conn' = conn + 1
  /\ registered' = IF registered = 0 THEN conn' ELSE registered
  /\ bridge' = bridge \cup {conn'}
  /\ writer' = writer \cup {conn'}
  /\ outQ' = [outQ EXCEPT ![conn'] = OnConnect]
  /\ task' = "reading"
  /\ UNCHANGED <<watchdog, delay, aborted, regQ>>

\* Connected: register (replacing what is there), start bridge and writer, queue
\* the on_connect payloads.
Connect ==
  /\ task = "connecting"
  /\ conn < MaxConns
  /\ conn' = conn + 1
  /\ registered' = conn'
  /\ bridge' = bridge \cup {conn'}
  /\ writer' = writer \cup {conn'}
  /\ outQ' = [outQ EXCEPT ![conn'] = OnConnect]
  /\ task' = "reading"
  /\ UNCHANGED <<watchdog, delay, aborted, regQ>>

\* A text or binary frame: the trigger DSL runs.
Frame ==
  /\ task = "reading"
  /\ task' = "dispatching"
  /\ UNCHANGED <<watchdog, delay, conn, registered, channels>>

Dispatched ==
  /\ task = "dispatching"
  /\ task' = "reading"
  /\ UNCHANGED <<watchdog, delay, conn, registered, channels>>

\* The DSL run panics, and the source task with it: none of the teardown runs.
Panic ==
  /\ task = "dispatching"
  /\ restarts < MaxPanics
  /\ task' = "panicked"
  /\ UNCHANGED <<watchdog, delay, conn, registered, channels>>

\* A ping is answered through the writer's channel (if the writer is there).
Ping ==
  /\ task = "reading"
  /\ conn \in writer
  /\ outQ[conn] < MaxQueued
  /\ outQ' = [outQ EXCEPT ![conn] = @ + 1]
  /\ UNCHANGED <<watchdog, source, bridge, writer, aborted, regQ>>

\* Close frame or end of stream (clean), or an error of the stream: unregister,
\* abort writer and bridge; a clean close resets the backoff.
ReaderEnds ==
  /\ task = "reading"
  /\ registered' = 0
  /\ aborted' = aborted \cup {conn}
  /\ delay' \in {1, delay}
  /\ task' = "sleeping"
  /\ UNCHANGED <<watchdog, conn, bridge, writer, regQ, outQ>>

Reconnect ==
  /\ task = "sleeping"
  /\ task' = "connecting"
  /\ delay' = Doubled(delay)
  /\ UNCHANGED <<watchdog, conn, registered, channels>>

-----------------------------------------------------------------------------

\* WsRegistry::send and broadcasts: try_send; a full or closed channel refuses.
Send ==
  /\ registered \in bridge
  /\ regQ[registered] < Capacity
  /\ regQ' = [regQ EXCEPT ![registered] = @ + 1]
  /\ UNCHANGED <<watchdog, source, bridge, writer, aborted, outQ>>

\* The bridge passes a message on to the writer's channel, which is unbounded,
\* or ends because the writer is gone.
BridgePass(c) ==
  /\ c \in bridge
  /\ regQ[c] > 0
  /\ IF c \in writer
       THEN /\ outQ[c] < MaxQueued
            /\ regQ' = [regQ EXCEPT ![c] = @ - 1]
            /\ outQ' = [outQ EXCEPT ![c] = @ + 1]
            /\ UNCHANGED bridge
       ELSE /\ bridge' = bridge \ {c}
            /\ regQ' = [regQ EXCEPT ![c] = 0]
            /\ UNCHANGED outQ
  /\ UNCHANGED <<watchdog, source, writer, aborted>>

\* The registry's sender is gone and the channel is empty: the bridge ends.
BridgeEnds(c) ==
  /\ c \in bridge
  /\ registered # c
  /\ regQ[c] = 0
  /\ bridge' = bridge \ {c}
  /\ UNCHANGED <<watchdog, source, writer, aborted, regQ, outQ>>

\* sink.send completes ...
WriterSends(c) ==
  /\ c \in writer
  /\ outQ[c] > 0
  /\ outQ' = [outQ EXCEPT ![c] = @ - 1]
  /\ UNCHANGED <<watchdog, source, bridge, writer, aborted, regQ>>

\* ... or fails: the writer ends, dropping what is queued.
WriterFails(c) ==
  /\ c \in writer
  /\ outQ[c] > 0
  /\ writer' = writer \ {c}
  /\ outQ' = [outQ EXCEPT ![c] = 0]
  /\ UNCHANGED <<watchdog, source, bridge, aborted, regQ>>

\* Both senders of its channel (the source task's and the bridge's) are gone.
WriterEnds(c) ==
  /\ c \in writer
  /\ outQ[c] = 0
  /\ c \notin bridge
  /\ ~(c = conn /\ task \in {"reading", "dispatching"})
  /\ writer' = writer \ {c}
  /\ UNCHANGED <<watchdog, source, bridge, aborted, regQ, outQ>>

\* An aborted task ends at its next await: it may finish the poll it is in.
BridgeAborts(c) ==
  /\ c \in bridge \cap aborted
  /\ bridge' = bridge \ {c}
  /\ regQ' = [regQ EXCEPT ![c] = 0]
  /\ UNCHANGED <<watchdog, source, writer, aborted, outQ>>

WriterAborts(c) ==
  /\ c \in writer \cap aborted
  /\ writer' = writer \ {c}
  /\ outQ' = [outQ EXCEPT ![c] = 0]
  /\ UNCHANGED <<watchdog, source, bridge, aborted, regQ>>

-----------------------------------------------------------------------------
BridgeStep(c) == BridgePass(c) \/ BridgeEnds(c) \/ BridgeAborts(c)

WriterStep(c) == WriterSends(c) \/ WriterFails(c) \/ WriterEnds(c) \/ WriterAborts(c)

Next ==
  \/ Supervise \/ Restart
  \/ ConnectFails \/ Connect \/ Reconnect
  \/ Frame \/ Dispatched \/ Panic \/ Ping \/ ReaderEnds
  \/ Send
  \/ \E c \in Conns : BridgeStep(c) \/ WriterStep(c)

Spec == Init /\ [][Next]_vars

\* Timers fire, woken tasks are polled, and a write to a socket completes or
\* fails.  Nothing is assumed of the peer, the triggers or the senders.
FairSpec == /\ Spec
            /\ WF_vars(Supervise) /\ WF_vars(Restart) /\ WF_vars(Reconnect)
            /\ \A c \in Conns : WF_vars(BridgeStep(c)) /\ WF_vars(WriterStep(c))

-----------------------------------------------------------------------------
\* What is sent to the source goes to its latest connection: the registry never
\* has an older one, though the id is reused and a panic skips `unregister`.
RegisteredIsLatest == TypeOK /\ registered \in {0, conn}

\* A panic of the trigger DSL does not end the source: it connects again.
PanicIsSurvived == task = "panicked" ~> task = "connecting"


-----------------------------------------------------------------------------
\* sources/ws.rs:100: "registry write channel is bounded. A hung upstream ...
\* would otherwise grow the sender queue without limit": what waits for the
\* upstream is bounded by the channel's capacity (plus on_connect payloads and
\* the message in the bridge's hands; pongs are not sent by DSLs).
OutboundBounded == \A c \in Conns : outQ[c] <= Capacity + OnConnect + 1

=============================================================================
