---------------------------- MODULE TokenManager ----------------------------
(***************************************************************************)
(* The token manager of the store (store/plugin/token.py, store/sqlite/    *)
(* token.py, store/token.py): the tokens table, the cache the store        *)
(* process keeps in front of it, and the token requests it serves.         *)
(*                                                                         *)
(* The store process serves one request at a time, but the clock runs on   *)
(* between the steps of a request, and the command line (cif-store         *)
(* --token-create-admin and its like) writes the same table from another   *)
(* process: between its look for a row and its write, and between the      *)
(* steps of the store's start, either may come first.                      *)
(*                                                                         *)
(* A search by an empty token string is a search without a token: every    *)
(* live row is found (sqlite/token.py:68-70). So the empty token holds     *)
(* whatever right some row holds, and the cache keeps under it the row     *)
(* found first, whosever it is.                                            *)
(*                                                                         *)
(* The table is a set of rows: no operation tells apart two rows that      *)
(* agree on these columns, and no query asks for an order, so the "first"  *)
(* row of a result is any of them. The activity timestamps never decide an *)
(* answer and are left out; what writing them does to the cache is not.    *)
(***************************************************************************)
EXTENDS Integers, FiniteSets

CONSTANTS Tokens,      \* token strings
          Empty,       \* the empty one
          Users,       \* user names
          Perms,       \* the boolean columns that grant a right
          NewRows,     \* the rows administrators ask handle_tokens_create for
          Edits,       \* the changes they ask handle_tokens_edit for
          TOKEN_CACHE_DELAY,
          MaxRows,     \* bound on the size of the table
          MaxPending,  \* bound on the rows the command line is about to write
          MaxTime,     \* bound on the clock
          NoEntry,     \* a token that is not in the cache
          NoExpiry,    \* the expires column is NULL
          NoToken,     \* no request is served
          NoUser,      \* no user named: the username column is NULL
          NoPerm,
          NoDecision

Expiries == {NoExpiry} \cup Nat

Row == [token : Tokens, username : Users \cup {NoUser},
        perms : SUBSET Perms, expires : Expiries]
Edit == [username : Users \cup {NoUser}, perms : SUBSET (Perms \ {"read"})]

ASSUME ConstantsAssumption ==
    /\ Empty \in Tokens
    /\ TOKEN_CACHE_DELAY \in Nat
    /\ MaxTime \in Nat
    /\ "admin" \in Perms /\ Perms \subseteq {"admin", "read", "write"}
    /\ {"admin", "csirtg-fm", "hunter", "httpd"} \subseteq Users
    /\ NewRows \subseteq Row
    /\ Edits \subseteq Edit
    /\ \A s \in SUBSET Perms : NoEntry # s
    /\ \A t \in Tokens, k \in Perms, a \in {"grant", "refuse"} :
          NoDecision # [right |-> <<t, k>>, answer |-> a]

VARIABLES rows,       \* the tokens table
          cache,      \* _cache: the rights in the cached row of each token
          cacheNext,  \* _cache_check_next
          now,        \* the clock, in whole seconds
          call,       \* the request being served
          pending,    \* the rows the command line has decided to write
          lastHeld,   \* history: when each right was last held
          lastNone    \* history: when a look for an admin last might find none

vars == <<rows, cache, cacheNext, now, call, pending, lastHeld, lastNone>>

Rights == Tokens \X Perms
Entry == {NoEntry} \cup SUBSET Perms

-----------------------------------------------------------------------------
(* Queries. *)

Live(r) == r.expires = NoExpiry \/ r.expires >= now

\* The rows a search can find. The filter on "revoked" is a Python constant and
\* selects every row.
LiveRows == {r \in rows : Live(r)}

\* The filter of a query by the token t.
Asks(t, r) == t = Empty \/ r.token = t

\* The cache after a search has yielded the rows in found: a token that is
\* already cached keeps its entry.
Filled(c, found) ==
    {f \in [Tokens -> Entry] :
        \A t \in Tokens :
            LET mine == {r.perms : r \in {x \in found : x.token = t}}
            IN  f[t] \in IF c[t] # NoEntry \/ mine = {} THEN {c[t]} ELSE mine}

\* Mutant: the flush comes a second late.
MustFlushLate == now > cacheNext + 1

\* Mutant: the flush moves its deadline and leaves the cache alone.
FlushKeepsCache == cache

\* _flush_cache
MustFlush == now > cacheNext
FlushedCache == IF MustFlush THEN [t \in Tokens |-> NoEntry] ELSE cache
FlushedNext == IF MustFlush THEN now + TOKEN_CACHE_DELAY ELSE cacheNext

Cached(c, t, k) == c[t] # NoEntry /\ k \in c[t]

\* The pairs of a token and a right that a search finds a live row for: the
\* empty token holds what any row holds.
Held == {r \in Rights : \E x \in rows :
                            Live(x) /\ Asks(r[1], x) /\ r[2] \in x.perms}

LastHeld(r) == IF r \in Held THEN now ELSE lastHeld[r]

\* admin_exists and fm_exists return the token of the first row found: a row
\* without a token looks like no row.
Admins == {r \in LiveRows : "admin" \in r.perms}
Fms == {r \in LiveRows : r.username = "csirtg-fm"}
MaySee(found) == \E r \in found : r.token # Empty
MayMiss(found) == found = {} \/ \E r \in found : r.token = Empty

LastNone == IF MayMiss(Admins) THEN now ELSE lastNone

\* Kept by every step; no action reads it.
Remember == /\ lastHeld' = [r \in Rights |-> LastHeld(r)]
            /\ lastNone' = LastNone

-----------------------------------------------------------------------------
(* The request in service: "down" before the process has started, "idle",  *)
(* "refused" and "checked" after a check, "granted" once the check has     *)
(* returned, "applied" once the handler has; while the process starts, what *)
(* it will do next.                                                        *)

Down == [step |-> "down", token |-> NoToken, perm |-> NoPerm, at |-> 0]
Idle == [step |-> "idle", token |-> NoToken, perm |-> NoPerm, at |-> 0]
InStart == [step : {"create admin", "hunter"},
            token : {NoToken}, perm : {NoPerm}, at : Nat]
           \cup [step : {"look for fm", "create fm"},
                 token : Tokens, perm : {NoPerm}, at : Nat]
InService == [step : {"refused", "checked", "granted", "applied"},
              token : Tokens, perm : Perms, at : Nat]

At(step) == [call EXCEPT !.step = step]

\* Mutant: a cached row without the right is taken for an answer.
CheckCacheOnly(t, k) ==
    /\ call = Idle
    /\ cacheNext' = FlushedNext
    /\ LET found == {r \in LiveRows : Asks(t, r) /\ k \in r.perms}
           Answer(step) == [step |-> step, token |-> t, perm |-> k, at |-> now]
       IN  \/ /\ FlushedCache[t] # NoEntry
              /\ call' = Answer(IF k \in FlushedCache[t] THEN "granted" ELSE "refused")
              /\ cache' = FlushedCache
           \/ /\ FlushedCache[t] = NoEntry
              /\ call' = Answer(IF found = {} THEN "refused" ELSE "checked")
              /\ cache' \in Filled(FlushedCache, found)
    /\ Remember
    /\ UNCHANGED <<rows, now, pending>>

\* check(token, k) up to its answer: the cached row if it has the right, else
\* the database. A hit returns at once; a row found is still to be followed by
\* update_last_activity_at.
Check(t, k) ==
    /\ call = Idle
    /\ cacheNext' = FlushedNext
    /\ LET found == {r \in LiveRows : Asks(t, r) /\ k \in r.perms}
           Answer(step) == [step |-> step, token |-> t, perm |-> k, at |-> now]
       IN  \/ /\ Cached(FlushedCache, t, k)
              /\ call' = Answer("granted")
              /\ cache' = FlushedCache
           \/ /\ ~Cached(FlushedCache, t, k)
              /\ call' = Answer(IF found = {} THEN "refused" ELSE "checked")
              /\ cache' \in Filled(FlushedCache, found)
    /\ Remember
    /\ UNCHANGED <<rows, now, pending>>

\* update_last_activity_at(token): nothing to fetch if the token is cached,
\* else its rows are searched for and the first is cached under it; with no
\* live row left, t[0] raises.
UpdateLastActivityAt(after, raised) ==
    LET found == {r \in LiveRows : Asks(call.token, r)}
        hit   == FlushedCache[call.token] # NoEntry
    IN  /\ cacheNext' = FlushedNext
        /\ \/ /\ hit \/ found = {}
              /\ cache' = FlushedCache
              /\ call' = IF hit THEN after ELSE raised
           \/ /\ ~hit
              /\ \E filled \in Filled(FlushedCache, found), first \in found :
                    cache' = [filled EXCEPT ![call.token] = filled[first.token]]
              /\ call' = after
        /\ Remember
        /\ UNCHANGED <<rows, now, pending>>

\* The end of check(): an exception fails the request.
CheckReturns == call.step = "checked" /\ UpdateLastActivityAt(At("granted"), Idle)

\* The end of handle_message: the reply is sent, the activity is recorded and
\* any exception swallowed.
Finish == call.step = "applied" /\ UpdateLastActivityAt(Idle, Idle)

\* handle_message answers 'unauthorized'.
Refuse == /\ call.step = "refused"
          /\ call' = Idle
          /\ Remember
          /\ UNCHANGED <<rows, cache, cacheNext, now, pending>>

-----------------------------------------------------------------------------
(* The handlers, once their check has returned. *)

Handler(perm) == /\ call.step = "granted" /\ call.perm = perm
                 /\ call' = At("applied")
                 /\ Remember
                 /\ UNCHANGED <<cacheNext, now, pending>>

HandleTokensCreate(row) ==
    /\ Handler("admin")
    /\ Cardinality(rows \cup {row}) <= MaxRows
    /\ rows' = rows \cup {row}
    /\ UNCHANGED cache

\* A filter names a user, a token, both or neither.
Matches(r, t, u) == Asks(t, r) /\ (u = NoUser \/ r.username = u)

\* Expired rows are deleted too. The cache keeps what it has.
HandleTokensDelete(t, u) ==
    /\ Handler("admin")
    /\ rows' = {r \in rows : ~Matches(r, t, u)}
    /\ UNCHANGED cache

\* What edit writes: a column the request leaves out becomes NULL; "read" and
\* "expires" cannot be changed.
Edited(r, e) == [r EXCEPT !.username = e.username,
                          !.perms = (r.perms \cap {"read"}) \cup e.perms]

\* Mutant: any right will do to edit.
EditByAnyone(t, e) ==
    /\ \E k \in Perms : Handler(k)
    /\ rows' = {IF r.token = t THEN Edited(r, e) ELSE r : r \in rows}
    /\ UNCHANGED cache

\* Every row of the token is edited. A request without a token changes nothing.
HandleTokensEdit(t, e) ==
    /\ Handler("admin")
    /\ rows' = {IF r.token = t THEN Edited(r, e) ELSE r : r \in rows}
    /\ UNCHANGED cache

\* The handler returns a generator. Whether anything iterates over it, filling
\* the cache, is up to the encoder of the reply.
HandleTokensSearch(t, u) ==
    /\ Handler("admin")
    /\ \/ cache' \in Filled(cache, {r \in LiveRows : Matches(r, t, u)})
       \/ UNCHANGED cache
    /\ UNCHANGED rows

\* A request that works on indicators once its token has been checked.
HandleOther == /\ \E k \in Perms : Handler(k)
               /\ UNCHANGED <<rows, cache>>

-----------------------------------------------------------------------------
(* Around the requests. *)

NewRow(t, u, perms) == [token |-> t, username |-> u, perms |-> perms \cap Perms,
                        expires |-> NoExpiry]
AdminRow(t) == NewRow(t, "admin", Perms)
FmRow(t) == NewRow(t, "csirtg-fm", {"write"})
\* Mutant: a row created without a token, and none generated.
HunterRowNoToken(t) == NewRow(NoToken, "hunter", {"write"})
HunterRow(t) == NewRow(t, "hunter", {"write"})
HttpdRow(t) == NewRow(t, "httpd", {"read"})

\* What start generates, or is told by CIF_TOKEN.
Generated == Tokens \ {Empty}

Starting(step, t) == [step |-> step, token |-> t, perm |-> NoPerm,
                      at |-> IF step = "create admin" THEN now ELSE 0]

\* Store.start: an empty cache, then the look for an admin row.
StartLooks ==
    /\ call = Down
    /\ \/ MaySee(Admins) /\ call' = Starting("hunter", NoToken)
       \/ MayMiss(Admins) /\ call' = Starting("create admin", NoToken)
    /\ cacheNext' = now + TOKEN_CACHE_DELAY
    /\ cache' \in Filled([t \in Tokens |-> NoEntry], Admins)
    /\ Remember
    /\ UNCHANGED <<rows, now, pending>>

StartStep(step) == /\ call.step = step
                   /\ Remember
                   /\ UNCHANGED <<cacheNext, now, pending>>

StartCreatesAdmin(t) ==
    /\ StartStep("create admin")
    /\ Cardinality(rows \cup {AdminRow(t)}) <= MaxRows
    /\ rows' = rows \cup {AdminRow(t)}
    /\ call' = Starting("look for fm", t)
    /\ UNCHANGED cache

StartLooksForFm ==
    /\ StartStep("look for fm")
    /\ \/ MaySee(Fms) /\ call' = Starting("hunter", NoToken)
       \/ MayMiss(Fms) /\ call' = Starting("create fm", call.token)
    /\ cache' \in Filled(cache, Fms)
    /\ UNCHANGED rows

\* The feed manager's row gets the SAME token string as the admin's.
StartCreatesFm ==
    /\ StartStep("create fm")
    /\ Cardinality(rows \cup {FmRow(call.token)}) <= MaxRows
    /\ rows' = rows \cup {FmRow(call.token)}
    /\ call' = Starting("hunter", NoToken)
    /\ UNCHANGED cache

\* The hunter row is created when router.yml does not exist; then the loop.
StartEnds ==
    /\ StartStep("hunter")
    /\ \/ UNCHANGED rows
       \/ \E t \in Generated : /\ Cardinality(rows \cup {HunterRow(t)}) <= MaxRows
                                /\ rows' = rows \cup {HunterRow(t)}
    /\ call' = Idle
    /\ UNCHANGED cache

\* SIGTERM or a crash: what is in the table stays, the cache is gone.
Stop == /\ call # Down
        /\ call' = Down
        /\ cache' = [t \in Tokens |-> NoEntry]
        /\ cacheNext' = 0
        /\ Remember
        /\ UNCHANGED <<rows, now, pending>>

\* cif-store --token-create-admin or -fm in a process of its own, with a cache
\* of its own: it looks whether there is one, then it writes the row.
CliLooks(t) ==
    /\ Cardinality(pending) < MaxPending
    /\ \E row \in (IF MayMiss(Admins) THEN {AdminRow(t)} ELSE {})
                  \cup (IF MayMiss(Fms) THEN {FmRow(t)} ELSE {}) :
          pending' = pending \cup {[row |-> row, at |-> now]}
    /\ Remember
    /\ UNCHANGED <<rows, cache, cacheNext, now, call>>

CliWrites(p) ==
    /\ Cardinality(rows \cup {p.row}) <= MaxRows
    /\ rows' = rows \cup {p.row}
    /\ pending' = pending \ {p}
    /\ Remember
    /\ UNCHANGED <<cache, cacheNext, now, call>>

\* cif-store --token-create-hunter or -httpd looks for nothing.
CliCreates(t) ==
    /\ \E row \in {HunterRow(t), HttpdRow(t)} : rows' = rows \cup {row}
    /\ Cardinality(rows') <= MaxRows
    /\ Remember
    /\ UNCHANGED <<cache, cacheNext, now, call, pending>>

Tick == /\ now < MaxTime
        /\ now' = now + 1
        /\ Remember
        /\ UNCHANGED <<rows, cache, cacheNext, call, pending>>

-----------------------------------------------------------------------------
Init == /\ rows = {}
        /\ cache = [t \in Tokens |-> NoEntry]
        /\ cacheNext = 0
        /\ now = 0
        /\ call = Down
        /\ pending = {}
        /\ lastHeld = [r \in Rights |-> -(TOKEN_CACHE_DELAY + 1)]
        /\ lastNone = 0

Request == \E t \in Tokens, k \in Perms : Check(t, k)

Handle ==
    \/ \E row \in NewRows : HandleTokensCreate(row)
    \/ \E t \in Tokens, u \in Users \cup {NoUser} :
          HandleTokensDelete(t, u) \/ HandleTokensSearch(t, u)
    \/ \E t \in Tokens \ {Empty}, e \in Edits : HandleTokensEdit(t, e)
    \/ HandleOther

Start == \/ StartLooks \/ StartLooksForFm \/ StartCreatesFm \/ StartEnds
         \/ \E t \in Generated : StartCreatesAdmin(t)

Cli == \/ \E t \in Tokens : CliLooks(t) \/ CliCreates(t)
       \/ \E p \in pending : CliWrites(p)

Next == \/ Request \/ CheckReturns \/ Refuse \/ Handle \/ Finish
        \/ Start \/ Stop \/ Cli \/ Tick

Spec == Init /\ [][Next]_vars

-----------------------------------------------------------------------------
(* Properties. *)

\* Every variable stays in its range.
TypeOK == /\ rows \in SUBSET Row
          /\ cache \in [Tokens -> Entry]
          /\ cacheNext \in Nat
          /\ now \in Nat
          /\ call \in {Down, Idle} \cup InStart \cup InService
          /\ pending \in SUBSET [row : Row, at : Nat]
          /\ lastHeld \in [Rights -> Int]
          /\ lastNone \in Nat

\* The cache never runs ahead of the next flush by more than the delay, and a
\* right cached under a token was held by it no earlier than the last flush: no
\* create, edit or delete evicts anything, so this is all that bounds what the
\* cache may go on granting (plugin/token.py:39-42, 61-64). Under the empty
\* token, whose searches have no filter, it is a right some row held.
CacheFresh == /\ cacheNext <= now + TOKEN_CACHE_DELAY
              /\ \A t \in Tokens, k \in Perms :
                    Cached(cache, t, k) =>
                        LastHeld(<<t, k>>) >= cacheNext - TOKEN_CACHE_DELAY

\* A request that got past its check holds a right that a search for its token
\* found at most TOKEN_CACHE_DELAY seconds before the check, whatever has since
\* become of the row (plugin/token.py:61-71): a row of the token itself, and for
\* the empty token any row.
GrantIsRecent ==
    call \in InService /\ call.step # "refused" =>
        LastHeld(<<call.token, call.perm>>) >= call.at - TOKEN_CACHE_DELAY

\* Who has looked for an admin at the time at and is about to write the row r.
MakerLookedAt(r, at) == \/ call.step = "create admin" /\ call.at = at
                        \/ \E p \in pending : p.row = r /\ p.at = at

\* Requests change the table only on behalf of a token that was an admin when
\* it was checked, give or take the delay (or of an empty one while there was an
\* admin at all); start and the command line only add rows, and an admin row
\* only if no admin was to be seen in or after the second its maker looked: not
\* necessarily when it is written, since another may be written in between
\* (store/token.py:15-98).
AdminOnly == [][
    rows' # rows =>
        \/ /\ call.perm = "admin"
           /\ LastHeld(<<call.token, "admin">>) >= call.at - TOKEN_CACHE_DELAY
        \/ /\ rows \subseteq rows'
           /\ \A r \in rows' \ rows : "admin" \in r.perms =>
                 \E at \in 0 .. now : MakerLookedAt(r, at) /\ LastNone >= at ]_vars

\* The checks keep the promise of TokenAuth: what they grant was held within
\* the delay, what they refuse is not held.
Decision == IF call \notin InService THEN NoDecision
            ELSE [right |-> <<call.token, call.perm>>,
                  answer |-> IF call.step = "refused" THEN "refuse" ELSE "grant"]

Auth == INSTANCE TokenAuth WITH Delay <- TOKEN_CACHE_DELAY, held <- Held,
                                decision <- Decision

AuthSpec == Auth!Spec
=============================================================================
