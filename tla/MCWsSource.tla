------------------------------ MODULE MCWsSource ------------------------------
(* WsSource as TLC checks it, and the part of it in which no pings arrive. *)
EXTENDS WsSource

\* The upstream hangs, and sends nothing.
HungUpstream ==
  Init /\ [][Supervise \/ Connect \/ Send \/ \E c \in Conns : BridgeStep(c)]_vars

=============================================================================
