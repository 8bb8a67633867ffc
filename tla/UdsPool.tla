------------------------------ MODULE UdsPool ------------------------------
(***************************************************************************)
(* Calls over Unix sockets (http_client/uds_pool.rs, uds.rs): the socket   *)
(* of a unix:// URL or of a host alias, the pooled client of that socket,  *)
(* and the exchange.  Unlike over TCP every failure is raised, and head    *)
(* and body of the response have a deadline each.                          *)
(***************************************************************************)
EXTENDS HttpClient

First(S) == CHOOSE i \in S : \A j \in S : i <= j

Positions(t, token) == {i \in DOMAIN t : t[i] = token}

\* The socket and the request target of unix://rest, {} when it is refused.
\* The markers ".socket" and ".sock" are tokens of the tail.
parse_unix_url(rest) ==
    LET Split(end) == {[socket |-> SubSeq(rest, 1, end),
                        target |-> IF end = Len(rest) THEN <<"/">>
                                   ELSE SubSeq(rest, end + 1, Len(rest))]}
        slashes == Positions(rest, "/") \ {1}
    IN  IF rest = <<>> \/ rest[1] # "/" THEN {}
        ELSE IF Positions(rest, ".socket") # {} THEN Split(First(Positions(rest, ".socket")))
        ELSE IF Positions(rest, ".sock") # {} THEN Split(First(Positions(rest, ".sock")))
        ELSE IF slashes # {} THEN Split(First(slashes) - 1)
        ELSE Split(Len(rest))

UseSocket(c, socket, target) ==
    calls' = [calls EXCEPT ![c] =
        [stage |-> "client_get", q |-> calls[c].q, socket |-> socket, target |-> target]]

uds_request_from_unix_url(c) ==
    /\ Stage(c, "unix")
    /\ LET split == parse_unix_url(calls[c].q.url.tail)
       IN  IF split = {} THEN End(c, Fail("unix url"))
           ELSE \E s \in split : UseSocket(c, s.socket, s.target)
    /\ UNCHANGED pool

uds_request_from_alias(c) ==
    /\ Stage(c, "alias")
    /\ UseSocket(c, config.unix_socket_map[calls[c].q.url.host],
                 req_url_path_query(calls[c].q.url))
    /\ UNCHANGED pool

-----------------------------------------------------------------------------
\* The request is sent through a client.
UseClient(c, id) ==
    calls' = [calls EXCEPT ![c] =
        [stage |-> "uds_send", q |-> calls[c].q, socket |-> calls[c].socket,
         target |-> calls[c].target, client |-> id]]

\* client_for: a lookup, then the entry if there was none.
ClientGet(c) ==
    /\ Stage(c, "client_get")
    /\ IF calls[c].socket \in DOMAIN pool THEN UseClient(c, pool[calls[c].socket])
       ELSE At(c, "client_entry")
    /\ UNCHANGED pool

NewClient == Cardinality(DOMAIN pool) + 1

\* Faulty variant: the entry is replaced by what the lookup missed.
ClientEntry_Insert(c) ==
    /\ Stage(c, "client_entry")
    /\ pool' = [s \in DOMAIN pool \cup {calls[c].socket} |->
                    IF s = calls[c].socket
                    THEN IF s \in DOMAIN pool THEN pool[s] + 1 ELSE NewClient
                    ELSE pool[s]]
    /\ UseClient(c, pool'[calls[c].socket])

\* entry().or_insert_with: the client of a caller that came first is kept.
ClientEntry(c) ==
    /\ Stage(c, "client_entry")
    /\ pool' = [s \in DOMAIN pool \cup {calls[c].socket} |->
                    IF s \in DOMAIN pool THEN pool[s] ELSE NewClient]
    /\ UseClient(c, pool'[calls[c].socket])

-----------------------------------------------------------------------------
UdsSendFails(c) ==
    /\ Stage(c, "uds_send")
    /\ net.faults
    /\ End(c, Fail("uds send"))
    /\ UNCHANGED pool

UdsHead(c) ==
    /\ Stage(c, "uds_send")
    /\ \E answer \in net.answers :
        IF \E n \in answer.declared : OverLimit(n) THEN End(c, Fail("size"))
        ELSE calls' = [calls EXCEPT ![c] =
                [stage |-> "uds_read", q |-> calls[c].q, socket |-> calls[c].socket,
                 client |-> calls[c].client, answer |-> answer, received |-> 0]]
    /\ UNCHANGED pool

\* The body behind Limited.
UdsChunk(c) ==
    /\ Stage(c, "uds_read")
    /\ \E n \in net.chunks :
        /\ calls[c].received + n <= net.total
        /\ \A d \in calls[c].answer.declared : calls[c].received + n <= d
        /\ IF OverLimit(calls[c].received + n) THEN End(c, Fail("size"))
           ELSE calls' = [calls EXCEPT ![c].received = @ + n]
    /\ UNCHANGED pool

UdsBodyEnds(c) ==
    /\ Stage(c, "uds_read")
    /\ \A d \in calls[c].answer.declared : calls[c].received = d
    /\ End(c, Response(calls[c].answer.status,
                       decode_response_body(calls[c].received, calls[c].answer.type,
                                            calls[c].answer.parses)))
    /\ UNCHANGED pool

UdsBodyBreaks(c) ==
    /\ Stage(c, "uds_read")
    /\ net.faults
    /\ End(c, Fail("uds body"))
    /\ UNCHANGED pool

\* A deadline for the head, and another for the body.
UdsTimeout(c) ==
    /\ calls[c].stage \in {"uds_send", "uds_read"}
    /\ End(c, Fail("uds timeout"))
    /\ UNCHANGED pool

UdsStep(c) ==
    \/ uds_request_from_unix_url(c) \/ uds_request_from_alias(c)
    \/ ClientGet(c) \/ ClientEntry(c) \/ UdsSendFails(c) \/ UdsHead(c) \/ UdsChunk(c)
    \/ UdsBodyEnds(c) \/ UdsBodyBreaks(c) \/ UdsTimeout(c)
==============================================================================
