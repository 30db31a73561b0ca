------------------------------ MODULE MCQueries ------------------------------
(* A small instance of Queries for TLC: addresses of three bits. *)
EXTENDS Queries, TLC

CONSTANTS c1, c2

\* One client is like the other.
Interchangeable == Permutations({c1, c2})

V4(addr, len) == [kind |-> "ipv4", addr |-> addr, len |-> len]
Name(labels) == [kind |-> "fqdn", labels |-> labels, wild |-> FALSE]
Encoded == [kind |-> "url", text |-> "a%20b", wild |-> TRUE]
Text(text, wild) == [kind |-> "text", text |-> text, wild |-> wild]

Bits == [ipv4 |-> 3, ipv6 |-> 3]
Shortest == [ipv4 |-> 1, ipv6 |-> 1]
Days == [ipv4 |-> 1, fqdn |-> 1]

\* Two users may read and write; the token of the httpd on 127.0.0.1 may not.
Reader == [read |-> "held", write |-> "held", admin |-> "none"]
Changing == [read |-> "flux", write |-> "none", admin |-> "flux"]
Outsider == [read |-> "none", write |-> "none", admin |-> "none"]
RightsOf == [alice |-> Reader, bob |-> Changing, test |-> Outsider]
UserOf == [alice |-> [username |-> "alice", groups |-> <<"everyone">>],
           bob |-> [username |-> "bob", groups |-> <<"staff", "everyone">>],
           test |-> [username |-> "test", groups |-> <<"everyone">>]]

Report(value, provider, tag, confidence) ==
    [value |-> value, itype |-> value.kind, provider |-> provider, group |-> "everyone",
     tags |-> {tag}, first |-> tag, confidence |-> confidence, messages |-> <<>>]

Host == Report(V4(5, 3), "peer", "botnet", 3)
Next1 == Report(V4(7, 3), "alice", "botnet", 3)
HostListed == Report(V4(4, 2), "owner", "whitelist", 2)
NextListed == Report(V4(6, 2), "owner", "whitelist", 2)
Site == Report(Name(<<"org", "x", "www">>), "peer", "malware", 3)
Like == Report(Name(<<"org", "x-y">>), "peer", "malware", 3)
Page == Report(Encoded, "peer", "malware", 3)

\* What a message says, once it is decoded or since it could not be.
Note == Text("note", TRUE)
Said == [found |-> {Note}, decoded |-> TRUE]
Spoilt == [found |-> {Note}, decoded |-> FALSE]
Saying == {Said, Spoilt}
Told == [Site EXCEPT !.messages = <<Said, Said>>]
Bare == [value |-> V4(5, 3), itype |-> "ipv4", confidence |-> 3]
Foreign == [Bare EXCEPT !.value = V4(7, 3)] @@ [group |-> "staff"]

Underscore == Name(<<"org", "x_y">>)
Alike == {<<Underscore, Like.value>>}
Spoken == [Site EXCEPT !.messages = <<Spoilt>>]

Starts == {{Host, HostListed, NextListed}, {Host, Next1, Site}, {Told, Like, Page}}

To(endpoint, token, args) == [endpoint |-> endpoint, token |-> token, args |-> args]
Get(args) == To("search", "alice", args)
Q(values) == [indicator |-> values]

Asked ==
    {To("create", "alice", <<Bare, HostListed>>),
     To("create", "alice", <<Host, Foreign>>),
     To("create", "alice", <<Spoken, Bare>>),
     Get([itype |-> "ipv4"]),
     Get([itype |-> "ipv4", limit |-> 1, provider |-> "peer"]),
     Get([itype |-> "ipv4", limit |-> 1, hours |-> 0]),
     Get([itype |-> "ipv4", tags |-> {"whitelist"}]),
     Get([tags |-> {"botnet"}]),
     Get([tags |-> {"botnet", "search"}, no_feed |-> TRUE]),
     Get(Q(<<V4(4, 1)>>)),
     Get(Q(<<Blank, Name(<<"org", "x">>)>>)),
     To("search", "bob", Q(<<V4(5, 3)>>)),
     Get(Q(<<V4(0, 0)>>)),
     Get(Q(<<Note>>)),
     Get(Q(<<Encoded, Underscore>>)),
     Get([itype |-> "ipv4", days |-> Junk]),
     To("bulk", "alice", {V4(5, 3), V4(7, 3)}),
     To("search", NoToken, [itype |-> "ipv4"]),
     To("ping_write", "bob", <<>>), To("update", "alice", <<>>)}
=============================================================================
