-------------------------------- MODULE Search --------------------------------
(***************************************************************************)
(* Reading indicators from SQLite (store/sqlite/indicator.py): which rows  *)
(* a query may answer with. A request's filters become conditions of one   *)
(* query, which is ordered by reported_at, cut off at a limit and stripped *)
(* of its duplicates, in this order.                                       *)
(*                                                                         *)
(* Filters and rows are records without the fields that are not given: a   *)
(* filter that is missing or empty, a column that is NULL. A range is      *)
(* <<low>> or <<low, high>>. Times are numbers. Of a message a row keeps   *)
(* the texts that find it, and whether it has been decoded.                *)
(***************************************************************************)
EXTENDS Integers, Sequences, SequencesExt

CONSTANTS Width,          \* bits of an address: a function on Networks
          SEARCH_MIN,     \* the shortest prefix to search for: likewise
          SEARCH_LIMIT,   \* what a query is limited to by default
          LikeNames       \* names, and others that LIKE takes them for

\* An indicator: an address or a network, a name as its labels from the top,
\* another type as its text, or "text", which is of no known type.
Networks == {"ipv4", "ipv6"}
Hashes == {"md5", "sha1", "sha256", "sha512"}
Texts == Hashes \cup {"url", "email", "asn", "text"}

ASSUME SearchAssumption ==
    /\ Width \in [Networks -> Nat]
    /\ \A k \in Networks : SEARCH_MIN[k] \in 0..Width[k]
    /\ SEARCH_LIMIT \in Nat
    /\ \A p \in LikeNames : p[1].kind = "fqdn" /\ p[2].kind = "fqdn"

-----------------------------------------------------------------------------
(* One condition. *)

PowerOfTwo[n \in Nat] == IF n = 0 THEN 1 ELSE 2 * PowerOfTwo[n - 1]

Size(v) == PowerOfTwo[Width[v.kind] - v.len]
NetworkAddress(v) == (v.addr \div Size(v)) * Size(v)
BroadcastAddress(v) == NetworkAddress(v) + Size(v) - 1

\* Mutant: the broadcast address is left out.
InNetworkExclusive(q, v) ==
    v.kind = q.kind /\ v.addr \in NetworkAddress(q)..BroadcastAddress(q) - 1

\* A row of a network has that network's own address in the table of its type,
\* and the mask plays no part: a network is found where it begins.
InNetwork(q, v) ==
    v.kind = q.kind /\ v.addr \in NetworkAddress(q)..BroadcastAddress(q)

\* The name itself, or what ends in it.
UnderName(q, v) == v.kind = "fqdn" /\ IsPrefix(q.labels, v.labels)

\* LIKE '%.name' finds more, since it takes an underscore for any character.
LikeName(q, v) == UnderName(q, v) \/ <<q, v>> \in LikeNames

\* The messages of a row that a text is looked for and found in.
Finds(q, row) == {n \in DOMAIN row.messages : q \in row.messages[n].found}

\* _filter_indicator: a join with the table of the indicator's type. Those of
\* hashes and mail addresses are never filled, and a message is looked for
\* when the text has no type.
Matches(q, row) ==
    \/ q.kind \in Networks /\ InNetwork(q, row.value)
    \/ q.kind = "fqdn" /\ LikeName(q, row.value)
    \/ q.kind = "url" /\ row.value = q
    \/ q.kind = "text" /\ Finds(q, row) # {}

\* A prefix too short, and a type without a branch, raise.
Searchable(q) == /\ q.kind \in Networks => q.len >= SEARCH_MIN[q.kind]
                 /\ q.kind # "asn"

Within(x, range) == range[1] <= x /\ (Len(range) = 2 => x <= range[2])

\* A probability that is not known passes from 0 on, but not from 0 to another.
ProbabilityPasses(row, range) ==
    IF "probability" \in DOMAIN row THEN Within(row.probability, range)
                                    ELSE range = <<0>>

EqualityColumns == {"itype", "provider", "asn", "cc", "rdata", "region", "uuid"}

\* _filter_terms, but for tags.
PassesTerms(row, f) ==
    /\ "reported_at" \in DOMAIN f => Within(row.reported_at, f.reported_at)
    /\ "confidence" \in DOMAIN f => Within(row.confidence, f.confidence)
    /\ "probability" \in DOMAIN f => ProbabilityPasses(row, f.probability)
    /\ \A k \in EqualityColumns \cap DOMAIN f : k \in DOMAIN row /\ row[k] = f[k]

\* The filters name a group, or the token's groups apply.
InGroups(row, f, groups) ==
    row.group \in IF "groups" \in DOMAIN f THEN {f.groups} ELSE groups

\* Mutant: what a search leaves behind is ordinary.
OrdinaryWithSearch(tags) == tags \ {"pdns"}

\* The tags that show a row to a query for neither tags nor an indicator. A
\* row without any has a NULL there, which is not different from 'pdns'.
Ordinary(tags) == tags \ {"pdns", "search"}

\* The rows that a row's tags turn it into in a query that joins them.
Tagged(row, f) ==
    IF "tags" \in DOMAIN f THEN row.tags \cap f.tags
    ELSE IF "indicator" \in DOMAIN f THEN {"not joined"}
    ELSE Ordinary(row.tags)

\* Likewise its messages, in a search for text.
Noted(row, f) ==
    IF "indicator" \in DOMAIN f /\ f.indicator.kind = "text"
    THEN Finds(f.indicator, row) ELSE {"not joined"}

Joined(row, f) == Tagged(row, f) \X Noted(row, f)

-----------------------------------------------------------------------------
(* A query. *)

Passes(row, f, groups) ==
    /\ "indicator" \in DOMAIN f => Matches(f.indicator, row)
    /\ PassesTerms(row, f)
    /\ InGroups(row, f, groups)

\* _search: what the query finds, as pairs of a row and what it is joined to.
Found(rows, f, groups) ==
    UNION {{row} \X Joined(row, f) : row \in {r \in rows : Passes(r, f, groups)}}

LimitOf(f) == IF "limit" \in DOMAIN f THEN f.limit ELSE SEARCH_LIMIT

Later(p, q) == p[1].reported_at > q[1].reported_at

\* The pairs that may be among the first n, and those that are.
First(pairs, n) == {p \in pairs : Cardinality({q \in pairs : Later(q, p)}) < n}
Sure(pairs, n) == {p \in pairs : Cardinality({q \in pairs : ~Later(p, q)}) <= n}

\* The first `limit` of the pairs, the latest first: which of those reported
\* at the same time come first is up to the database.
Latest(pairs, limit) ==
    LET tied == First(pairs, limit) \ Sure(pairs, limit)
        rest == limit - Cardinality(Sure(pairs, limit))
    IN  {Sure(pairs, limit) \cup s : s \in kSubset(Min({rest, Cardinality(tied)}), tied)}

\* search, for filters: each set of rows that may be the answer.
SearchAnswers(rows, f, groups) ==
    {{p[1] : p \in s} : s \in Latest(Found(rows, f, groups), LimitOf(f))}

\* search, for a list of two indicators or more, in no particular order.
BulkAnswers(rows, values, groups) ==
    LET hits == {r \in rows : r.value \in values /\ r.group \in groups}
    IN  kSubset(Min({SEARCH_LIMIT, Cardinality(hits)}), hits)

\* to_dict encodes messages as bytes, which they are once decoded, and raises
\* for one that could not be: no answer with such a row can be given.
Presentable(answer) ==
    \A row \in answer : \A n \in DOMAIN row.messages : row.messages[n].decoded
=============================================================================
