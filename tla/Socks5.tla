------------------------------- MODULE Socks5 -------------------------------
(***************************************************************************)
(* The socks5 relay subsystem (socks5.c): method negotiation, optional     *)
(* password exchange, CONNECT, and a reply whose length depends on its     *)
(* address type.  The read watermarks make each callback see exactly the   *)
(* bytes of one part of the exchange.                                      *)
(***************************************************************************)
EXTENDS RedsocksClient

socks5_ver == 5
socks5_auth_none == 0
socks5_auth_password == 2
socks5_password_ver == 1
socks5_password_passed == 0
socks5_status_succeeded == 0
socks5_addrtype_ipv4 == 1
socks5_addrtype_domain == 3
socks5_addrtype_ipv6 == 4
socks5_cmd_connect == 1

\* sizeof of the replies and of the parts of an address.
socks5_method_reply_size == 2
socks5_auth_reply_size == 2
socks5_reply_size == 4
socks5_addr_ipv4_size == 6
socks5_addr_ipv6_size == 18
socks5_port_size == 2

socks5_mkmethods(c) ==
    IF c.cred THEN <<socks5_ver, 2, socks5_auth_none, socks5_auth_password>>
              ELSE <<socks5_ver, 1, socks5_auth_none>>

\* Login and password are left out of the password message.
socks5_mkpassword == <<socks5_password_ver>>

socks5_mkconnect == <<socks5_ver, socks5_cmd_connect>>

socks5_write_cb(c) ==
    IF c.state = "new"
    THEN redsocks_write_helper(c, socks5_mkmethods(c), "method_sent", socks5_method_reply_size)
    ELSE {c}

socks5_send_connect(c) ==
    redsocks_write_helper(c, socks5_mkconnect, "request_sent", socks5_reply_size)

\* An unknown method, or a password nobody configured, drops the client.
socks5_read_auth_methods(c) ==
    LET reply == c.input["relay"]
        d     == redsocks_read_expected(c, sizes_equal, socks5_method_reply_size)
    IN  IF ~d.alive \/ reply[1] # socks5_ver THEN {redsocks_drop_client(d)}
        ELSE IF reply[2] = socks5_auth_none THEN socks5_send_connect(d)
        ELSE IF reply[2] = socks5_auth_password /\ d.cred
        THEN redsocks_write_helper(d, socks5_mkpassword, "auth_sent", socks5_auth_reply_size)
        ELSE {redsocks_drop_client(d)}

socks5_read_auth_reply(c) ==
    LET reply == c.input["relay"]
        d     == redsocks_read_expected(c, sizes_equal, socks5_auth_reply_size)
    IN  IF d.alive /\ reply[1] = socks5_password_ver /\ reply[2] = socks5_password_passed
        THEN socks5_send_connect(d)
        ELSE {redsocks_drop_client(d)}

\* What follows the head of the reply: an address of known size, or the byte
\* with the size of a domain name.
socks5_await(c, state, len) == {AwaitReply(c, state, len, len)}

socks5_read_reply(c) ==
    LET reply == c.input["relay"]
        d     == redsocks_read_expected(c, sizes_greater_equal, socks5_reply_size)
        Skip(n) == socks5_await([d EXCEPT !.to_skip = n], "skip_address", n)
    IN  IF ~d.alive \/ reply[1] # socks5_ver \/ reply[2] # socks5_status_succeeded
        THEN {redsocks_drop_client(d)}
        ELSE CASE reply[4] = socks5_addrtype_ipv4 -> Skip(socks5_addr_ipv4_size)
               [] reply[4] = socks5_addrtype_ipv6 -> Skip(socks5_addr_ipv6_size)
               [] reply[4] = socks5_addrtype_domain -> socks5_await(d, "skip_domain", 1)
               [] OTHER -> {redsocks_drop_client(d)}

\* Mistakes the properties must catch: the port is forgotten, or subtracted.
socks5_read_domain_size_NoPort(c) ==
    LET n == c.input["relay"][1]
    IN  socks5_await([evbuffer_remove(c, "relay", 1) EXCEPT !.to_skip = n], "skip_address", n)

socks5_read_domain_size_Minus(c) ==
    LET n == c.input["relay"][1] - socks5_port_size
    IN  socks5_await([evbuffer_remove(c, "relay", 1) EXCEPT !.to_skip = n], "skip_address", n)

socks5_read_domain_size(c) ==
    LET size == c.input["relay"][1]
        d    == redsocks_read_expected(c, sizes_greater_equal, 1)
        n    == size + socks5_port_size
    IN  IF d.alive THEN socks5_await([d EXCEPT !.to_skip = n], "skip_address", n)
                   ELSE {d}

socks5_skip_address(c) ==
    LET d == redsocks_read_expected(c, sizes_greater_equal, c.to_skip)
    IN  IF d.alive THEN redsocks_start_relay(d) ELSE {d}

socks5_read_cb(c) ==
    CASE c.state = "method_sent"  -> socks5_read_auth_methods(c)
      [] c.state = "auth_sent"    -> socks5_read_auth_reply(c)
      [] c.state = "request_sent" -> socks5_read_reply(c)
      [] c.state = "skip_domain"  -> socks5_read_domain_size(c)
      [] c.state = "skip_address" -> socks5_skip_address(c)
      [] OTHER -> {redsocks_drop_client(c)}
=============================================================================
