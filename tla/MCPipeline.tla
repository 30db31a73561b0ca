----------------------------- MODULE MCPipeline -----------------------------
(* Small instances of Pipeline for TLC. *)
EXTENDS Pipeline

CONSTANTS g1, g2

Ind(itype, confidence, tag) ==
    [i |-> [itype |-> itype, confidence |-> confidence, tags |-> {tag},
            provider |-> "peer"], of |-> None]
Req(id, mtype, ok, data) ==
    [id |-> id, token |-> "client", mtype |-> mtype, ok |-> ok, data |-> data]

\* A name to hunt, a message a gatherer dies of, and a search for a name.
Few == {Req("c1", "create", TRUE, {Ind("fqdn", 2, "malware")}),
        Req("c2", "create", FALSE, {}),
        Req("c3", "search", TRUE, {Ind("fqdn", 1, "search")})}

\* A name to hunt, and three empty creates behind it.
Load == {Req("c1", "create", TRUE, {Ind("fqdn", 2, "malware")})}
        \cup {Req(c, "create", TRUE, {}) : c \in {"c2", "c3", "c4"}}

OnePlugin == <<"fqdn">>

\* A name has an address and an alias.
OneAnswer == {[rdata |-> {"ipv4"}, names |-> {"fqdn"}, nsdata |-> {},
               host |-> {"fqdn"}, listed |-> {}]}
=============================================================================
