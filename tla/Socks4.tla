------------------------------- MODULE Socks4 -------------------------------
(* The socks4 relay subsystem (socks4.c): one request, one 8-byte reply.    *)
EXTENDS RedsocksClient

socks4_ver == 4
socks4_cmd_connect == 1
socks4_status_ok == 90
socks4_reply_size == 8

\* The fields that tell the request apart: version and command.
socks4_mkconnect == <<socks4_ver, socks4_cmd_connect>>

socks4_write_cb(c) ==
    IF c.state = "new"
    THEN redsocks_write_helper(c, socks4_mkconnect, "request_sent", socks4_reply_size)
    ELSE {bufferevent_disable(c, "relay", {WRITE})}

\* reply.ver is the first byte of the reply, reply.status the second.
socks4_read_cb(c) ==
    LET reply == c.input["relay"]
        d     == redsocks_read_expected(c, sizes_greater_equal, socks4_reply_size)
    IN  IF d.alive /\ reply[1] = 0 /\ reply[2] = socks4_status_ok
        THEN redsocks_start_relay(d)
        ELSE {redsocks_drop_client(d)}
=============================================================================
