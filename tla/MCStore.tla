------------------------------- MODULE MCStore -------------------------------
(* Small instances of Store for TLC. *)
EXTENDS Store

CONSTANTS t1, t2

Req(id, token, kind, socket) ==
    [id |-> id, token |-> token, kind |-> kind, socket |-> socket]

\* Three single creates: two of one token on the two write sockets, one of
\* another token.
Creates == {Req(1, t1, "single", "write"), Req(2, t1, "single", "write_h"),
            Req(3, t2, "single", "write")}

\* A single and a batch create beside a search, and a hunter's create beside a
\* search and a request nobody knows.
Mixed == {Req(1, t1, "single", "write"), Req(4, t1, "batch", "write"),
          Req(5, t1, "other", "router")}
Odd == {Req(2, t1, "single", "write_h"), Req(5, t1, "other", "router"),
        Req(6, t1, "unknown", "router")}

EveryKind == {Creates, Mixed, Odd}
OnlyCreates == {Creates}
=============================================================================
