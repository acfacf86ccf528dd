------------------------------ MODULE MCRelay -------------------------------
(* Small instances of RelayTunnel.                                          *)
EXTENDS RelayTunnel

Pad(n) == [i \in 1..n |-> 9]

MCClientStreams == {<<>>, <<21, 22, 23>>}

Data == <<31, 32, 33>>

\* For each subsystem: replies that open a tunnel, of every shape the code
\* reads, refusals, and replies that are cut short.
Socks4Streams ==
    {<<0, 90>> \o Pad(6) \o Data, <<0, 91>> \o Pad(6), <<1, 90>> \o Pad(6), <<0, 90, 9>>}

Socks5Streams ==
    {<<5, 0>> \o <<5, 0, 0, 1>> \o Pad(6) \o Data,
     <<5, 2, 1, 0>> \o <<5, 0, 0, 3>> \o <<1>> \o Pad(3) \o Data,
     <<5, 0>> \o <<5, 0, 0, 4>> \o Pad(18) \o <<31>>,
     <<5, 0>> \o <<5, 0, 0, 2>>, <<5, 0>> \o <<5, 1, 0, 1>>, <<5, 2, 1, 1>>,
     <<4, 0>>, <<5, 255>>}

HttpStreams ==
    {<<200, LF, HeaderLine, LF, HeaderLine, LF, LF>> \o Data,
     <<1, LF, LF, 200, LF, LF, 31>>,
     <<403, LF, LF>>,
     <<AuthRequired, LF, BasicLine, LF, LF>>,
     <<AuthRequired, LF, HeaderLine, LF, DigestLine, LF>>,
     <<AuthRequired, LF, UnknownLine, LF>>, <<AuthRequired, LF, LF>>,
     <<1, 1, 1, 1>>, <<200, LF, 1, 1, 1, 1>>}

MCRelayStreams ==
    [ss \in Subsystems |-> CASE ss = "socks4" -> Socks4Streams
                             [] ss = "socks5" -> Socks5Streams
                             [] OTHER -> HttpStreams]

\* Enough for the liveness run: one tunnel of each kind with data both ways.
LiveClientStreams == {<<21, 22, 23>>}

LiveRelayStreams ==
    [ss \in Subsystems |-> CASE ss = "socks4" -> {<<0, 90>> \o Pad(6) \o Data}
                             [] ss = "socks5" -> {<<5, 0>> \o <<5, 0, 0, 3>> \o <<1>> \o Pad(3) \o Data}
                             [] OTHER -> {<<200, LF, LF>> \o Data}]
=============================================================================
