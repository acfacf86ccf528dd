---------------------------- MODULE RelayTunnel -----------------------------
(***************************************************************************)
(* RedsocksRelay implements Tunnel.  The stream of a side is what that     *)
(* side has sent and the other side has not been sent yet: in the other    *)
(* side's output buffer, its own input buffer, or not read.                *)
(***************************************************************************)
EXTENDS RedsocksRelay

Up == client.state = "pump_active"

\* The bytes sent to the relay before the first byte of a stream.
Preamble(s) == IF s = "client" THEN Len(Handshake(client, sent["relay"])) ELSE 0

Closed == [s \in Side |-> WRITE \in client.evshut[Other(s)]]

Got ==
    [s \in Side |->
        LET d == delivered[Other(s)]
        IN  IF Up THEN SubSeq(d, Preamble(s) + 1, Len(d)) ELSE <<>>]

Left ==
    [s \in Side |->
        LET d    == delivered[Other(s)]
            held == client.output[Other(s)] \o client.input[s] \o wire[s]
            skip == IF Len(d) < Preamble(s) THEN Preamble(s) - Len(d) ELSE 0
        IN  IF Up /\ ~Closed[s] THEN SubSeq(held, skip + 1, Len(held)) ELSE <<>>]

Fin == [s \in Side |-> Up /\ fin[s]]

Broken == [s \in Side |-> Up /\ rst[Other(s)]]

Fresh ==
    [s \in Side |-> Up /\ client.evwrite[Other(s)] /\ client.output[Other(s)] = <<>>]

T == INSTANCE Tunnel WITH
        Stream <- Side, up <- Up, dropped <- ~client.alive, left <- Left, got <- Got,
        fin <- Fin, closed <- Closed, broken <- Broken, fresh <- Fresh

\* What the pump of redsocks.c does with its buffers, watermarks and shutdowns
\* is a step of two FIFO streams that close in order: nothing is delivered out
\* of turn, after a close or not at all, but for a stream closed while fresh.
ImplementsTunnel == T!Spec
=============================================================================
