------------------------------- MODULE Queries -------------------------------
(***************************************************************************)
(* The HTTP API (httpd/indicators.py, app.py, tokens.py, ping.py,          *)
(* stats.py) in front of the store's read side (store/__init__.py,         *)
(* handle_indicators_search): what clients are answered while others       *)
(* report, search and time out.                                            *)
(*                                                                         *)
(* Each HTTP request is served by itself. It asks the store once, several  *)
(* times (a list of indicators) or twice (a feed, which is what is left of *)
(* one answer after a second one, the whitelist), each time through a      *)
(* socket of its own, which it closes when the answer is there or late.    *)
(* The store takes one message at a time, in order, and writes what was    *)
(* searched for into the table it searches.                                *)
(*                                                                         *)
(* Checks of rights answer as TokenAuth promises. The feed processors are  *)
(* csirtg_indicator's: they keep what no whitelisted indicator covers.     *)
(***************************************************************************)
EXTENDS Search, Functions

CONSTANTS Clients,         \* what serves requests at the same time
          Requests,        \* what they may be asked
          Tables,          \* what the table may hold at the start
          Rights,          \* token -> right -> "held", "none" or "flux"
          Users,           \* token -> its user and groups
          Messages,        \* what reports may say besides
          NoToken, TestToken,
          LocalOnly,       \* httpd listens on 127.0.0.1
          FEED_DAYS,       \* itype -> days: a partial function
          FEEDS_LIMIT, FEEDS_WHITELIST_LIMIT, FEEDS_WHITELIST_DAYS,
          CONFIDENCE_DEFAULT, HTTPD_FEED_WHITELIST_CONFIDENCE,
          HoursPerDay,
          MaxRequests, MaxNow,   \* bounds on requests made and hours passed
          Nobody

\* A number of days or hours that is not one.
Junk == -1

\* The fields of f, and those of g that f does not have.
Over(f, g) == [k \in DOMAIN f \cup DOMAIN g |-> IF k \in DOMAIN f THEN f[k] ELSE g[k]]

\* FEED_PLUGINS.
Feeds == Networks \cup Hashes \cup {"fqdn", "url", "email", "asn"}

VARIABLES now,       \* the clock, in hours
          rows,      \* the table
          inbox,     \* what waits at the store
          job,       \* what each client has in hand, or Nobody
          made,      \* the number of requests made
          last,      \* the response given in this step, or Nobody
          reported,  \* history: the values reported, and when
          unlogged   \* history: what was searched for, if its log failed

vars == <<now, rows, inbox, job, made, last, reported, unlogged>>

\* An indicator, as far as its value goes; any but an address may have a
\* percent sign or an asterisk in it.
IsIndicator(v) ==
    /\ v.kind \in Networks \cup {"fqdn"} \cup Texts
    /\ v.kind \notin Networks => v.wild \in BOOLEAN
    /\ v.kind \in Networks => v.len \in 0..Width[v.kind] /\ v.addr \in Nat
    /\ v.kind = "fqdn" => v.labels \in Seq(STRING)

\* What a record cannot be made without; text has no type.
HasValue(r) == /\ {"value", "confidence"} \subseteq DOMAIN r
               /\ r = [k \in DOMAIN r |-> r[k]]
               /\ IsIndicator(r.value) /\ r.value.kind # "text"

\* An empty element of a list of indicators.
Blank == [kind |-> "blank"]

\* Tags come in an order, of which only the first matters.
HasTags(r) == IsFiniteSet(r.tags) /\ "first" \in DOMAIN r /\ r.first \in r.tags

\* What is reported, as it is sent: it may lack a provider, a group, tags and
\* a message.
IsReport(r) == /\ HasValue(r)
               /\ IF "tags" \in DOMAIN r THEN HasTags(r) ELSE "first" \notin DOMAIN r
               /\ "messages" \in DOMAIN r => r.messages \in Seq(Messages)

\* What a row is made of.
IsRecord(r) == /\ HasValue(r)
               /\ {"provider", "group", "tags", "messages"} \subseteq DOMAIN r
               /\ r.tags = {} \/ HasTags(r)
               /\ r.messages \in Seq(Messages)

\* _upsert_filter: o is among the rows that a report r may stand for. The tags
\* of r but the first play no part, nor does its rdata if it has none. Hashes
\* are looked for in a table that is never filled.
Again(o, r) ==
    /\ o.value = r.value /\ o.provider = r.provider
    /\ r.value.kind \notin Hashes
    /\ "rdata" \in DOMAIN r => "rdata" \in DOMAIN o /\ o.rdata = r.rdata
    /\ r.tags # {} => r.first \in o.tags

\* What upsert leaves: no two rows that are found for each other.
IsUnique(table) == \A q, r \in table : Again(q, r) /\ Again(r, q) => q = r

\* The arguments of GET /indicators, as far as numbers and lists go. An element
\* of a list may be empty, since it is split at its commas.
IsArgs(args) ==
    /\ "indicator" \in DOMAIN args =>
          /\ Len(args.indicator) \in Nat \ {0}
          /\ args.indicator = [n \in 1..Len(args.indicator) |-> args.indicator[n]]
          /\ \A n \in 1..Len(args.indicator) :
                \/ IsIndicator(args.indicator[n])
                \/ args.indicator[n] = Blank /\ Len(args.indicator) > 1
    /\ "limit" \in DOMAIN args => args.limit \in Nat
    /\ "reported_at" \in DOMAIN args => args.reported_at[1] \in Int
    /\ \A k \in {"hours", "days"} \cap DOMAIN args : args[k] \in Int

\* One report alone is queued, which is Store's.
IsRequest(req) ==
    /\ req.token \in DOMAIN Rights \cup {NoToken}
    /\ req.endpoint = "search" => IsArgs(req.args)
    /\ req.endpoint = "create" =>
          /\ Len(req.args) \in Nat \ {0, 1}
          /\ req.args = [n \in 1..Len(req.args) |-> req.args[n]]
          /\ \A n \in 1..Len(req.args) : IsReport(req.args[n])

ASSUME QueriesAssumption ==
    /\ {FEEDS_LIMIT, FEEDS_WHITELIST_LIMIT, FEEDS_WHITELIST_DAYS, HoursPerDay,
        MaxRequests, MaxNow} \subseteq Nat \ {0}
    /\ DOMAIN FEED_DAYS \subseteq Feeds /\ \A k \in DOMAIN FEED_DAYS : FEED_DAYS[k] \in Nat
    /\ LocalOnly \in BOOLEAN
    /\ TestToken \in DOMAIN Rights /\ NoToken \notin DOMAIN Rights
    /\ \A req \in Requests : IsRequest(req)
    /\ \A table \in Tables : /\ IsFiniteSet(table) /\ IsUnique(table)
                             /\ \A r \in table : IsRecord(r)
    /\ Nobody \notin Clients

-----------------------------------------------------------------------------
(* What a request asks for. *)

\* before_request: the token to go on with.
TokenOf(req) == IF req.token = NoToken /\ LocalOnly THEN TestToken ELSE req.token

\* _filters_cleanup. An argument that is empty is not there.
Cleaned(args) ==
    IF {"no_feed", "indicator"} \cap DOMAIN args = {}
    THEN Over(args, [confidence |-> <<CONFIDENCE_DEFAULT>>])
    ELSE args

\* A search, or a listing that is not to be a feed, as opposed to a feed.
IsSearch(f) == {"indicator", "no_feed"} \cap DOMAIN f # {}

Without(f, keys) == Restrict(f, DOMAIN f \ keys)

\* The first half of _pull_feed, of a feed: the days it goes back, unless told.
Timed(f) == {"reported_at", "days", "hours"} \cap DOMAIN f # {}

Aged(f) == IF Timed(f) THEN f ELSE Over(f, [days |-> FEED_DAYS[f.itype]])

Since(hours) == <<now - hours, now>>
Today == LET day == now \div HoursPerDay
         IN  <<day * HoursPerDay, (day + 1) * HoursPerDay - 1>>

\* Days become hours, hours override them, and today overrides both. What is
\* not a number is dropped, and leaves the window as it was.
Windowed(f) ==
    LET windows == IF "today" \in DOMAIN f THEN {Today}
                   ELSE IF "hours" \in DOMAIN f /\ f.hours # Junk THEN {Since(f.hours)}
                   ELSE IF "days" \in DOMAIN f /\ f.days # Junk
                        THEN {Since(f.days * HoursPerDay)}
                   ELSE {}
        rest == Without(f, {"days", "hours", "today"})
    IN  IF "reported_at" \in DOMAIN f \/ windows = {} THEN rest
        ELSE Over(rest, [reported_at |-> CHOOSE w \in windows : TRUE])

Limited(f) == Over(f, [limit |-> FEEDS_LIMIT])

FeedFilters(f) == Limited(Windowed(Aged(f)))

\* Mutant: the user's window and limit hold for the whitelist too.
WhitelistInherits(f) ==
    Over([tags |-> {"whitelist"}, confidence |-> <<HTTPD_FEED_WHITELIST_CONFIDENCE>>,
          nolog |-> TRUE], f)

\* _pull_whitelist: everything else that was asked for applies to it as well.
WhitelistFilters(f) ==
    Over([tags |-> {"whitelist"}, confidence |-> <<HTTPD_FEED_WHITELIST_CONFIDENCE>>,
          nolog |-> TRUE, limit |-> FEEDS_WHITELIST_LIMIT,
          reported_at |-> <<now - FEEDS_WHITELIST_DAYS * HoursPerDay>>], f)

\* csirtg_indicator.feed: an address or a name falls with the network or the
\* name it lies in, anything else with itself.
Covers(w, v) ==
    \/ w = v
    \/ /\ w.kind \in Networks /\ v.kind = w.kind
       /\ {NetworkAddress(v), BroadcastAddress(v)}
              \subseteq NetworkAddress(w)..BroadcastAddress(w)
    \/ w.kind = "fqdn" /\ UnderName(w, v)

Feed(pulled, whitelist) ==
    {r \in pulled : \A w \in whitelist : ~Covers(w.value, r.value)}

-----------------------------------------------------------------------------
(* Responses. *)

\* How each endpoint turns what the client library raises into a status. A
\* search or a statistic that times out has no clause of its own. A socket that
\* cannot send ("again") has one in searches only, a busy router ("busy") and a
\* submission that is refused in reports only.
SearchStatus == [invalid |-> 400, unauthorized |-> 401, again |-> 503, busy |-> 500,
                 timeout |-> 500, failed |-> 500]
BulkStatus == SearchStatus
CreateStatus == [invalid |-> 400, unauthorized |-> 401, again |-> 400, busy |-> 503,
                 timeout |-> 408, failed |-> 422]
TokensStatus == [invalid |-> 500, unauthorized |-> 401, again |-> 500, busy |-> 500,
                 timeout |-> 408, failed |-> 500]
PingStatus == TokensStatus
StatsStatus == [SearchStatus EXCEPT !.again = 500]

StatusOf(endpoint, outcome) ==
    CASE endpoint = "search" -> SearchStatus[outcome]
      [] endpoint = "bulk" -> BulkStatus[outcome]
      [] endpoint = "create" -> CreateStatus[outcome]
      [] endpoint \in {"ping", "ping_write"} -> PingStatus[outcome]
      [] endpoint = "stats" -> StatsStatus[outcome]
      [] OTHER -> TokensStatus[outcome]

\* The client is told, and free again.
Respond(c, j, status, data) ==
    /\ job' = [job EXCEPT ![c] = Nobody]
    /\ last' = Over([status |-> status, got |-> data], j)

\* The client asks the store: the rest of what it keeps is in j.
Ask(c, j, f) ==
    /\ job' = [job EXCEPT ![c] = [j EXCEPT !.answer = Nobody]]
    /\ inbox' = Append(inbox, [client |-> c, token |-> TokenOf(j.req),
                               mtype |-> j.req.endpoint, body |-> f, asked |-> now])
    /\ last' = Nobody

-----------------------------------------------------------------------------
(* A request comes in. *)

\* What a client keeps of a request: the filters as they are now, the
\* indicators still to search for, the rows it has got and the answer at hand.
\* As history, when it came in, and the rows that were there: those of a feed
\* when it was pulled.
Job(req) == [req |-> req, filters |-> <<>>, left |-> <<>>, stage |-> "search",
             got |-> {}, answer |-> Nobody, known |-> rows, since |-> now]

\* The filters with another indicator. The store takes an empty one for none.
Aimed(f, v) == IF v = Blank THEN Without(f, {"indicator"}) ELSE Over([indicator |-> v], f)

\* GET /indicators. More than one indicator is asked for one after the other.
\* A feed fails here if it has no type, or one without a number of days.
ArriveSearch(c, req) ==
    LET f == Cleaned(req.args)
        g == Without(f, {"no_feed"})
        j == Job(req)
        first == Limited(IF "indicator" \in DOMAIN g
                         THEN Aimed(g, g.indicator[1]) ELSE g)
    IN  CASE {"indicator", "tags", "itype"} \cap DOMAIN f = {} ->
               Respond(c, j, 400, {}) /\ UNCHANGED inbox
          [] IsSearch(f) ->
               Ask(c, [j EXCEPT !.filters = first,
                                !.left = IF "indicator" \in DOMAIN g
                                         THEN Tail(g.indicator) ELSE <<>>], first)
          [] ~IsSearch(f) /\ "itype" \in DOMAIN f
                          /\ (Timed(f) \/ f.itype \in DOMAIN FEED_DAYS) ->
               Ask(c, [j EXCEPT !.filters = FeedFilters(f), !.stage = "feed"],
                   FeedFilters(f))
          [] OTHER -> Respond(c, j, 500, {}) /\ UNCHANGED inbox

\* The other endpoints send the store one message. The handler that updates a
\* token is called with an argument it does not have.
ArriveOther(c, req) ==
    IF req.endpoint = "update" THEN Respond(c, Job(req), 500, {}) /\ UNCHANGED inbox
    ELSE Ask(c, Job(req), req.args)

Arrive(c, req) ==
    /\ job[c] = Nobody /\ made < MaxRequests
    /\ made' = made + 1
    /\ IF TokenOf(req) = NoToken THEN Respond(c, Job(req), 401, {}) /\ UNCHANGED inbox
       ELSE IF req.endpoint = "search" THEN ArriveSearch(c, req)
       ELSE ArriveOther(c, req)
    /\ UNCHANGED <<now, rows, reported, unlogged>>

-----------------------------------------------------------------------------
(* The store. *)

\* Mutant: a sighting of what is known changes nothing.
UpsertKept(table, r) == IF \E o \in table : Again(o, r) THEN {table} ELSE {table \cup {r}}

\* A row that is reported again moves to the time of the report, and takes its
\* message. Reports carry no times of their own, so each is later than whatever
\* is there.
Renewed(o, r) == [o EXCEPT !.reported_at = r.reported_at, !.messages = @ \o r.messages]

\* _upsert, as far as a search can tell: of the rows that are found for a
\* report, the one last seen is renewed.
Upsert(table, r) ==
    LET known == {o \in table : Again(o, r)}
        seen == {o \in known : \A p \in known : p.reported_at <= o.reported_at}
    IN  IF known = {} THEN {table \cup {r}}
        ELSE {(table \ {o}) \cup {Renewed(o, r)} : o \in seen}

\* One report of a batch. When the batch has failed, each is taken alone: its
\* tags are gone, and it may fail again.
Take(table, r, alone) ==
    IF alone THEN {table} \cup Upsert(table, [r EXCEPT !.tags = {}]) ELSE Upsert(table, r)

\* upsert: what may become of the table. IndicatorManager.tla has the details.
UpsertAll(table, reports, alone) ==
    LET after[n \in 0..Len(reports)] ==
            IF n = 0 THEN {table}
            ELSE UNION {Take(t, reports[n], alone) : t \in after[n - 1]}
    IN  after[Len(reports)]

\* A report, at a time.
At(r, t) == Over([reported_at |-> t], r)

Right(mtype) == CASE mtype \in {"search", "bulk", "stats", "ping"} -> "read"
                  [] mtype \in {"create", "ping_write"} -> "write"
                  [] OTHER -> "admin"

\* A percent sign or an asterisk, in the text of a search or in a URL.
Wild(v) == v.kind \notin Networks /\ v.wild

\* _log_search leaves out bulk searches, what has no indicator or wildcards,
\* and what asks to be.
ToLog(m) == /\ m.mtype = "search"
            /\ {"indicator", "nolog"} \cap DOMAIN m.body = {"indicator"}
            /\ ~Wild(m.body.indicator)

\* No record can be made of text that has no type.
Logged(m) == ToLog(m) /\ m.body.indicator.kind # "text"

\* Mutant: the time is the local one, an hour behind.
LogRowLocal(m) == [value |-> m.body.indicator, itype |-> m.body.indicator.kind,
                   provider |-> Users[m.token].username, group |-> Users[m.token].groups[1],
                   tags |-> {"search"}, first |-> "search", confidence |-> 4,
                   messages |-> <<>>, reported_at |-> now - 1]

\* What is searched for becomes a row of its own, by the one who did.
LogRow(m) == [value |-> m.body.indicator, itype |-> m.body.indicator.kind,
              provider |-> Users[m.token].username, group |-> Users[m.token].groups[1],
              tags |-> {"search"}, first |-> "search", confidence |-> 4,
              messages |-> <<>>, reported_at |-> now]

\* The log is written or, with nobody told, written without its tag or lost.
Log(m) == IF Logged(m)
          THEN \E failed \in BOOLEAN :
                  /\ rows' \in UpsertAll(rows, <<LogRow(m)>>, failed)
                  /\ unlogged' = IF failed THEN unlogged \cup {m.body.indicator} ELSE unlogged
          ELSE UNCHANGED <<rows, unlogged>>

\* A log that cannot be made fails the search. A list of one indicator is
\* taken for a dictionary of filters.
Valid(m) == CASE m.mtype = "search" /\ "indicator" \in DOMAIN m.body ->
                   Searchable(m.body.indicator) /\ (ToLog(m) => Logged(m))
              [] m.mtype = "bulk" -> Cardinality(m.body) > 1
              [] OTHER -> TRUE

Answers(m, table) ==
    LET groups == ToSet(Users[m.token].groups)
    IN  IF m.mtype = "bulk" THEN BulkAnswers(table, m.body, groups)
        ELSE SearchAnswers(table, m.body, groups)

Ok(data) == [outcome |-> "ok", data |-> data]
Failed(outcome) == [outcome |-> outcome, data |-> {}]

\* Mutant: a handler that raises is not answered for.
ReplyUnlessFailed(m, answer) ==
    job' = IF m.client = Nobody \/ answer.outcome = "invalid" THEN job
           ELSE [job EXCEPT ![m.client].answer = answer]

\* The answer goes to the socket that asked, if it is still open.
Reply(m, answer) ==
    job' = IF m.client = Nobody \/ job[m.client] = Nobody THEN job
           ELSE [job EXCEPT ![m.client].answer = answer,
                            ![m.client].known =
                                IF job[m.client].stage = "feed" THEN rows ELSE @]

Refuse(m) == /\ Rights[m.token][Right(m.mtype)] # "held"
             /\ Reply(m, Failed("unauthorized"))
             /\ UNCHANGED <<rows, reported, unlogged>>

\* handle_indicators_search.
SearchRows(m) ==
    /\ m.mtype \in {"search", "bulk"}
    /\ Log(m)
    /\ IF Valid(m)
       THEN \E a \in Answers(m, rows') :
               Reply(m, IF Presentable(a) THEN Ok(a) ELSE Failed("invalid"))
       ELSE Reply(m, Failed("invalid"))
    /\ UNCHANGED reported

\* _check_indicator fills in what a report lacks.
Completed(r, user) == Over(r, [provider |-> user.username, group |-> user.groups[1],
                               tags |-> {"suspicious"}, first |-> "suspicious",
                               messages |-> <<>>])

\* handle_indicators_create, of several. Nobody writes to a group of others. An
\* error of the database is swallowed.
CreateRows(m) ==
    /\ m.mtype = "create"
    /\ LET user == Users[m.token]
           reports == [n \in DOMAIN m.body |-> At(Completed(m.body[n], user), now)]
       IN  IF \A n \in DOMAIN reports : reports[n].group \in ToSet(user.groups)
           THEN /\ \E failed \in BOOLEAN : rows' \in UpsertAll(rows, reports, failed)
                /\ reported' = reported \cup {<<reports[n].value, now>> : n \in DOMAIN reports}
                /\ Reply(m, Ok({}))
           ELSE UNCHANGED <<rows, reported>> /\ Reply(m, Failed("unauthorized"))
    /\ UNCHANGED unlogged

\* Tokens, pings and statistics: TokenManager.tla has the first.
AnswerOther(m) ==
    /\ m.mtype \notin {"search", "bulk", "create"}
    /\ \E a \in {Ok({}), Failed("failed"), Failed("invalid")} : Reply(m, a)
    /\ UNCHANGED <<rows, reported, unlogged>>

Handle == /\ inbox # <<>>
          /\ inbox' = Tail(inbox)
          /\ LET m == Head(inbox)
             IN  \/ Refuse(m)
                 \/ /\ Rights[m.token][Right(m.mtype)] # "none"
                    /\ SearchRows(m) \/ CreateRows(m) \/ AnswerOther(m)
          /\ last' = Nobody
          /\ UNCHANGED <<now, made>>

-----------------------------------------------------------------------------
(* An answer comes back, or does not. *)

\* One more answer of a search, or the only one of another endpoint.
GoOn(c, j) ==
    LET k == [j EXCEPT !.got = @ \cup j.answer.data]
        next == Aimed(j.filters, Head(j.left))
    IN  IF j.left = <<>>
        THEN /\ Respond(c, j, IF j.req.endpoint = "create" THEN 201 ELSE 200, k.got)
             /\ UNCHANGED inbox
        ELSE Ask(c, [k EXCEPT !.left = Tail(@), !.filters = next], next)

\* A feed of the whitelist is done. Any other pulls the whitelist now.
FeedPulled(c, j) ==
    IF "tags" \in DOMAIN j.filters /\ j.filters.tags = {"whitelist"}
    THEN Respond(c, j, 200, j.answer.data) /\ UNCHANGED inbox
    ELSE Ask(c, [j EXCEPT !.got = j.answer.data, !.stage = "whitelist"],
             WhitelistFilters(j.filters))

\* A type without a processor only fails now.
WhitelistPulled(c, j) ==
    /\ IF j.filters.itype \in Feeds
       THEN Respond(c, j, 200, Feed(j.got, j.answer.data))
       ELSE Respond(c, j, 500, {})
    /\ UNCHANGED inbox

Continue(c) ==
    LET j == job[c]
    IN  /\ j # Nobody /\ j.answer # Nobody
        /\ CASE j.answer.outcome # "ok" ->
                  /\ Respond(c, j, StatusOf(j.req.endpoint, j.answer.outcome), {})
                  /\ UNCHANGED inbox
             [] j.answer.outcome = "ok" /\ j.stage = "search" -> GoOn(c, j)
             [] j.answer.outcome = "ok" /\ j.stage = "feed" -> FeedPulled(c, j)
             [] j.answer.outcome = "ok" /\ j.stage = "whitelist" -> WhitelistPulled(c, j)
        /\ UNCHANGED <<now, rows, made, reported, unlogged>>

\* Mutant: the next answer is taken by whoever waits, not by who asked.
OrphanedNever(c) == inbox

\* What a client has sent stays, and its answer will find nobody.
Orphaned(c) ==
    [n \in DOMAIN inbox |-> IF inbox[n].client = c THEN [inbox[n] EXCEPT !.client = Nobody]
                                                  ELSE inbox[n]]

\* The client library gives up on the answer, for a reason of its own.
GiveUp(c) ==
    /\ job[c] # Nobody /\ job[c].answer = Nobody
    /\ \E outcome \in {"timeout", "again", "busy", "failed"} :
           Respond(c, job[c], StatusOf(job[c].req.endpoint, outcome), {})
    /\ inbox' = Orphaned(c)
    /\ UNCHANGED <<now, rows, made, reported, unlogged>>

Tick == /\ now < MaxNow
        /\ now' = now + 1
        /\ last' = Nobody
        /\ UNCHANGED <<rows, inbox, job, made, reported, unlogged>>

Init == /\ now = 0
        /\ \E table \in Tables :
              /\ rows = {At(r, 0) : r \in table}
              /\ reported = {<<r.value, 0>> : r \in table}
        /\ inbox = <<>>
        /\ job = [c \in Clients |-> Nobody]
        /\ made = 0 /\ last = Nobody /\ unlogged = {}

Next == \/ \E c \in Clients : \/ \E req \in Requests : Arrive(c, req)
                             \/ Continue(c) \/ GiveUp(c)
        \/ Handle \/ Tick

Spec == Init /\ [][Next]_vars

-----------------------------------------------------------------------------
(* Properties. *)

\* The last response, if it is one to GET /indicators that went well.
Served == last # Nobody /\ last.status = 200 /\ last.req.endpoint = "search"
GroupsOf(j) == ToSet(Users[TokenOf(j.req)].groups)

ServedFeed == Served /\ last.stage = "whitelist"
ServedSearch == Served /\ last.stage = "search" /\ "indicator" \in DOMAIN last.req.args

\* Every variable stays in its range.
TypeOK ==
    /\ now \in 0..MaxNow /\ made \in 0..MaxRequests
    /\ \A r \in rows : r.reported_at \in 0..now
    /\ \A n \in DOMAIN inbox :
          /\ inbox[n].client \in Clients \cup {Nobody}
          /\ inbox[n].token \in DOMAIN Rights
    /\ \A c \in Clients : job[c] # Nobody =>
          /\ job[c].req \in Requests
          /\ job[c].stage \in {"search", "feed", "whitelist"}
          /\ job[c].since \in 0..now

\* Networks as a prefix of bits, to compare with the code's ranges.
SamePrefix(v, w, len) == LET size == PowerOfTwo[Width[v.kind] - len]
                         IN  v.addr \div size = w.addr \div size
Inside(v, q) ==
    \/ v = q
    \/ /\ q.kind \in Networks /\ v.kind = q.kind
       /\ v.len >= q.len /\ SamePrefix(v, q, q.len)
    \/ q.kind = "fqdn" /\ v.kind = "fqdn" /\ IsPrefix(q.labels, v.labels)
Overlap(v, q) == Inside(v, q) \/ Inside(q, v)

\* No feed holds anything that was on the whitelist when the feed was pulled:
\* a row with that tag, reported in the last FEEDS_WHITELIST_DAYS, that the
\* user's other filters do not exclude. The whitelist must be pulled after the
\* feed, and with a window and limit of its own, whatever is reported between
\* the two (httpd/indicators.py:172-188, 256-259).
FeedClean ==
    ServedFeed =>
        LET f == last.filters
            Listed(w) == /\ "whitelist" \in w.tags
                         /\ w.confidence >= HTTPD_FEED_WHITELIST_CONFIDENCE
                         /\ w.reported_at >= now - FEEDS_WHITELIST_DAYS * HoursPerDay
                         /\ PassesTerms(w, Without(f, {"confidence", "reported_at"}))
                         /\ InGroups(w, f, GroupsOf(last))
            listed == {w \in last.known : Listed(w)}
        IN  Cardinality({w \in rows : "whitelist" \in w.tags}) <= FEEDS_WHITELIST_LIMIT
            => \A r \in last.got, w \in listed : ~Covers(w.value, r.value)

\* How long ago the request allows a report to have been.
Oldest(args, since) ==
    IF "reported_at" \in DOMAIN args THEN args.reported_at[1]
    ELSE IF "today" \in DOMAIN args THEN (since \div HoursPerDay) * HoursPerDay
    ELSE IF "hours" \in DOMAIN args /\ args.hours # Junk THEN since - args.hours
    ELSE IF "days" \in DOMAIN args THEN IF args.days = Junk THEN 0
                                        ELSE since - args.days * HoursPerDay
    ELSE IF "hours" \in DOMAIN args THEN 0
    ELSE since - FEED_DAYS[args.itype] * HoursPerDay

\* Whatever a feed holds was reported by somebody in the time it is asked for:
\* a search for an indicator, though it is written to the same table, puts
\* nothing into a feed and keeps nothing in it. A log that failed may, since it
\* is tried again without its tag, and a row with that tag among others is
\* taken for a log (httpd/indicators.py:129-162, sqlite/indicator.py:468-471).
FeedReported ==
    ServedFeed /\ "tags" \notin DOMAIN last.req.args =>
        \A r \in last.got :
            \/ \E t \in Oldest(last.req.args, last.since)..now : <<r.value, t>> \in reported
            \/ r.value \in unlogged
            \/ "search" \in r.tags /\ r.tags # {"search"}

\* A row answers a search: it overlaps the indicator, or LIKE takes the one name
\* for the other, or the text is in a message of the row. An empty indicator is
\* a listing, and answered by any row that its tags do not hide.
Concerns(r, q, f) ==
    \/ Overlap(r.value, q) \/ <<q, r.value>> \in LikeNames
    \/ q.kind = "text" /\ Finds(q, r) # {}
    \/ q = Blank /\ Tagged(r, Without(f, {"indicator"})) # {}

\* Every row of the answer to a search has to do with an indicator that was
\* searched for and is one its token may see, whichever searches of the same or
\* of other clients timed out before it (httpd/indicators.py:103-106, 238-245;
\* sqlite/indicator.py:294-347, 438-448).
AnswersOwn ==
    ServedSearch =>
        \A r \in last.got :
            /\ InGroups(r, last.req.args, GroupsOf(last))
            /\ \E n \in DOMAIN last.req.args.indicator :
                  Concerns(r, last.req.args.indicator[n], last.req.args)

\* The answer to a search has every row the token may see that lies in what
\* was searched for and was there when it was asked, if it does not reach the
\* limit; mail addresses and hashes are not found (sqlite/indicator.py:302-347).
FindsAll ==
    ServedSearch /\ Cardinality(last.got) < LimitOf(last.filters) =>
        \A k \in last.known :
            /\ \E n \in DOMAIN last.req.args.indicator :
                  /\ Inside(k.value, last.req.args.indicator[n])
                  /\ last.req.args.indicator[n].kind \notin Hashes \cup {"email"}
            /\ PassesTerms(k, Without(last.filters, {"reported_at"}))
            /\ InGroups(k, last.filters, GroupsOf(last))
            /\ \A f \in {"tags", "reported_at"} : f \notin DOMAIN last.filters
            => \E r \in last.got : Without(r, {"reported_at", "messages"})
                                     = Without(k, {"reported_at", "messages"})

\* A search that was answered and did not ask otherwise has left a row that
\* names its user, as recent as the search, unless that write failed. Wildcards
\* and empty indicators leave none (store/__init__.py:117-147, 377).
Traceable ==
    ServedSearch /\ "nolog" \notin DOMAIN last.filters =>
        \A n \in DOMAIN last.req.args.indicator :
            LET v == last.req.args.indicator[n]
            IN  v = Blank \/ Wild(v) \/ v \in unlogged
                \/ \E r \in rows : /\ r.value = v /\ "search" \in r.tags
                                   /\ r.provider = Users[TokenOf(last.req)].username
                                   /\ r.reported_at >= last.since

\* Whoever waits, waits for a message the store has yet to take: whatever goes
\* wrong there is answered, and no client depends on giving up
\* (store/__init__.py:286-324).
NobodyForgotten ==
    \A c \in Clients : job[c] # Nobody /\ job[c].answer = Nobody =>
        \E n \in DOMAIN inbox : inbox[n].client = c
=============================================================================
