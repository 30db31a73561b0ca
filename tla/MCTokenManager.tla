--------------------------- MODULE MCTokenManager ---------------------------
(* Small instances of TokenManager for TLC. *)
EXTENDS TokenManager

\* The rows administrators ask for: writers who expire while the store runs.
ExpiringWriters == [token : Generated, username : {"httpd"}, perms : {{"write"}},
                    expires : {1}]

\* A change that takes the rights away.
Demotions == {[username |-> "httpd", perms |-> {}]}

MCUsers == {"admin", "csirtg-fm", "hunter", "httpd"}
=============================================================================
