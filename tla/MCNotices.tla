------------------------------ MODULE MCNotices ------------------------------
(* A small instance of Notices for TLC. *)
EXTENDS Notices

CONSTANTS watcher

\* A search and a list of searches; a result with two indicators, the second
\* tagged "search".
Traffic == {[mtype |-> "result", items |-> <<"i1", "s2">>],
            [mtype |-> "search", items |-> <<"s1">>],
            [mtype |-> "search", items |-> <<"list">>]}

Files == {<<>>, <<"slack", "siem">>, <<"siem", "slack">>}
=============================================================================
