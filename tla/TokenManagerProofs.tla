------------------------- MODULE TokenManagerProofs -------------------------
(***************************************************************************)
(* Proofs about TokenManager, for every set of tokens, rows and edits and  *)
(* every delay and bound.                                                  *)
(*                                                                         *)
(* The argument: LastHeld never decreases; a row enters the cache only     *)
(* while it is live; and between two flushes the cache only grows by such  *)
(* rows. So everything cached was held since the last flush, which is at   *)
(* most the delay before the next.                                         *)
(***************************************************************************)
EXTENDS TokenManager, TLAPS

\* Nothing was last held in the future.
PastOnly == lastNone <= now /\ \A r \in Rights : lastHeld[r] <= now

\* The empty token holds what any token holds.
EmptyHoldsAll == \A t \in Tokens, k \in Perms :
                    lastHeld[<<t, k>>] <= lastHeld[<<Empty, k>>]

\* No admin was to be seen in or after the second in which the maker of an
\* admin row looked.
LooksAreTrue ==
    /\ call.step = "create admin" => call.at <= now /\ LastNone >= call.at
    /\ \A p \in pending : "admin" \in p.row.perms => p.at <= now /\ LastNone >= p.at

\* What the steps preserve.
IInv == /\ TypeOK
        /\ PastOnly
        /\ EmptyHoldsAll
        /\ LooksAreTrue
        /\ CacheFresh
        /\ GrantIsRecent

-----------------------------------------------------------------------------
(* The operators. *)

\* An entry of a filled cache was there before or is the row of a right found.
LEMMA FilledType ==
    ASSUME NEW c, NEW found, NEW f \in Filled(c, found)
    PROVE  f \in [Tokens -> Entry]
  BY DEF Filled

LEMMA FilledFromFound ==
    ASSUME NEW c, NEW found, NEW f \in Filled(c, found),
           NEW t \in Tokens, NEW k, Cached(f, t, k)
    PROVE  Cached(c, t, k) \/ \E x \in found : x.token = t /\ k \in x.perms
  BY DEF Filled, Cached

\* What a search finds is held by the token asked for.
LEMMA FoundHeld ==
    ASSUME TypeOK, NEW x \in LiveRows, NEW k \in x.perms, NEW t \in Tokens, Asks(t, x)
    PROVE  <<t, k>> \in Held
  BY DEF Held, LiveRows, Rights, TypeOK, Row

LEMMA RowAsked ==
    ASSUME TypeOK, NEW x \in LiveRows
    PROVE  x.token \in Tokens /\ Asks(x.token, x) /\ Asks(Empty, x)
  BY DEF Asks, LiveRows, TypeOK, Row

LEMMA FlushedType ==
    ASSUME TypeOK
    PROVE  FlushedCache \in [Tokens -> Entry] /\ FlushedNext \in Nat
  BY ConstantsAssumption DEF FlushedCache, FlushedNext, TypeOK, Entry

-----------------------------------------------------------------------------
(* Time and history. *)

LEMMA LastHeldType ==
    ASSUME TypeOK, NEW r \in Rights
    PROVE  LastHeld(r) \in Int
  BY DEF TypeOK, LastHeld

\* A handler runs once its check has returned.
LEMMA HandlersHandle ==
    ASSUME Handle
    PROVE  \E k \in Perms : Handler(k)
  <1>1. "admin" \in Perms
    BY ConstantsAssumption

  <1>2. CASE \E row \in NewRows : HandleTokensCreate(row)
    BY <1>1, <1>2 DEF HandleTokensCreate
  <1>3. CASE \E t \in Tokens, u \in Users \cup {NoUser} :
                HandleTokensDelete(t, u) \/ HandleTokensSearch(t, u)
    BY <1>1, <1>3 DEF HandleTokensDelete, HandleTokensSearch
  <1>4. CASE \E t \in Tokens \ {Empty}, e \in Edits : HandleTokensEdit(t, e)
    BY <1>1, <1>4 DEF HandleTokensEdit
  <1>5. CASE HandleOther
    BY <1>5 DEF HandleOther
  <1>6. QED
    BY <1>2, <1>3, <1>4, <1>5 DEF Handle

\* The step of a call tells what kind of call it is.
LEMMA CallSteps ==
    ASSUME NEW c
    PROVE  /\ c \in {Down, Idle} => c.step \in {"down", "idle"}
           /\ c \in InStart => c.step \in {"create admin", "hunter", "look for fm", "create fm"}
           /\ c \in InService => c.step \in {"refused", "checked", "granted", "applied"}
  <1>1. c \in {Down, Idle} => c.step \in {"down", "idle"}
    BY DEF Down, Idle
  <1>2. c \in InStart => c.step \in {"create admin", "hunter", "look for fm", "create fm"}
    BY DEF InStart
  <1>3. c \in InService => c.step \in {"refused", "checked", "granted", "applied"}
    BY DEF InService
  <1>4. QED
    BY <1>1, <1>2, <1>3

LEMMA StartingStep ==
    ASSUME NEW step, NEW t
    PROVE  /\ Starting(step, t).step = step
           /\ step = "create admin" => Starting(step, t).at = now
  BY DEF Starting

LEMMA CallKinds ==
    ASSUME TypeOK
    PROVE  /\ call.step \in {"refused", "checked", "granted", "applied"} => call \in InService
           /\ call.step \in {"look for fm", "create fm"} => call.token \in Tokens
           /\ call.step = "create admin" => call.at \in Nat
  <1>1. call \in {Down, Idle} \cup InStart \cup InService
    BY DEF TypeOK
  <1>2. CASE call \in {Down, Idle}
    <2>1. call.step \in {"down", "idle"}
      BY <1>2, CallSteps
    <2>2. QED
      BY <2>1
  <1>3. CASE call \in InStart
    BY <1>3 DEF InStart
  <1>4. CASE call \in InService
    BY <1>4 DEF InService
  <1>5. QED
    BY <1>1, <1>2, <1>3, <1>4

\* The clock never goes back and every step updates the history.
LEMMA EveryStepRemembers ==
    ASSUME TypeOK, Next
    PROVE  Remember /\ now' \in Nat /\ now' >= now
  <1>1. now \in Nat
    BY DEF TypeOK
  <1>2. Remember
    <2>1. CASE Handle
      BY <2>1, HandlersHandle DEF Handler
    <2>2. CASE Start
      BY <2>2 DEF Start, StartLooks, StartCreatesAdmin, StartLooksForFm, StartCreatesFm,
                  StartEnds, StartStep
    <2>3. CASE Cli \/ Stop \/ Tick
      BY <2>3 DEF Stop, Cli, CliLooks, CliWrites, CliCreates, Tick
    <2>4. QED
      BY <2>1, <2>2, <2>3
         DEF Next, Request, Check, CheckReturns, Refuse, Finish, UpdateLastActivityAt
  <1>3. now' = now \/ now' = now + 1
    <2>1. CASE Handle
      BY <2>1, HandlersHandle DEF Handler
    <2>2. CASE Start
      BY <2>2 DEF Start, StartLooks, StartCreatesAdmin, StartLooksForFm, StartCreatesFm,
                  StartEnds, StartStep
    <2>3. CASE Cli \/ Stop \/ Tick
      BY <2>3 DEF Stop, Cli, CliLooks, CliWrites, CliCreates, Tick
    <2>4. QED
      BY <2>1, <2>2, <2>3
         DEF Next, Request, Check, CheckReturns, Refuse, Finish, UpdateLastActivityAt
  <1>4. QED
    BY <1>1, <1>2, <1>3

\* What was once held stays on record.
LEMMA LastHeldGrows ==
    ASSUME TypeOK, PastOnly, Remember, now' \in Nat, now' >= now, NEW r \in Rights
    PROVE  /\ LastHeld(r) \in Int
           /\ LastHeld(r)' \in Int
           /\ LastHeld(r)' >= LastHeld(r)
  <1>1. lastHeld'[r] = LastHeld(r)
    BY DEF Remember
  <1>2. LastHeld(r) \in Int /\ LastHeld(r) <= now /\ now \in Nat
    BY DEF TypeOK, PastOnly, LastHeld
  <1>3. LastHeld(r)' = IF r \in Held' THEN now' ELSE lastHeld'[r]
    BY DEF LastHeld
  <1>4. QED
    BY <1>1, <1>2, <1>3

-----------------------------------------------------------------------------
(* The cache. *)

\* Whose rows a search for the token t finds.
Found(t) == IF t = Empty THEN Tokens ELSE {t}

\* The right k was cached under a token whose rows a search for t finds.
WasCached(t, k) == \E s \in Found(t) : Cached(cache, s, k)

\* What a step may leave in the cache: rights held now, and, when the deadline
\* does not move, what was there.
Traceable == /\ cacheNext' <= now + TOKEN_CACHE_DELAY
             /\ \A t \in Tokens, k \in Perms :
                   Cached(cache', t, k) =>
                       \/ <<t, k>> \in Held
                       \/ WasCached(t, k) /\ cacheNext' = cacheNext

\* The empty token holds what any token holds or held.
LEMMA EmptyHolds ==
    ASSUME TypeOK, PastOnly, EmptyHoldsAll, NEW t \in Tokens, NEW s \in Found(t), NEW k \in Perms
    PROVE  LastHeld(<<s, k>>) <= LastHeld(<<t, k>>)
  <1>1. CASE s = t
    BY <1>1, LastHeldType DEF Found, Rights
  <1>2. CASE t = Empty /\ s \in Tokens
    <2>1. <<s, k>> \in Held => <<t, k>> \in Held
      BY <1>2 DEF Held, Rights, Asks
    <2>2. /\ lastHeld[<<s, k>>] <= now /\ lastHeld[<<t, k>>] <= now
          /\ lastHeld[<<s, k>>] \in Int /\ lastHeld[<<t, k>>] \in Int /\ now \in Int
          /\ lastHeld[<<s, k>>] <= lastHeld[<<t, k>>]
      BY <1>2 DEF PastOnly, TypeOK, Rights, EmptyHoldsAll
    <2>3. QED
      BY <2>1, <2>2 DEF LastHeld
  <1>3. QED
    BY <1>1, <1>2 DEF Found

\* A flush moves the deadline and empties the cache.
LEMMA FlushTraceable ==
    ASSUME TypeOK, CacheFresh, cacheNext' = FlushedNext,
           \A t \in Tokens, k \in Perms :
              Cached(cache', t, k) =>
                  <<t, k>> \in Held \/ \E s \in Found(t) : Cached(FlushedCache, s, k)
    PROVE  Traceable
  <1>1. cacheNext' <= now + TOKEN_CACHE_DELAY
    BY ConstantsAssumption DEF FlushedNext, CacheFresh, TypeOK
  <1>2. ASSUME NEW t \in Tokens, NEW k \in Perms, NEW s \in Found(t),
               Cached(FlushedCache, s, k)
        PROVE  WasCached(t, k) /\ cacheNext' = cacheNext
    <2>1. s \in Tokens
      BY DEF Found
    <2>2. QED
      BY <1>2, <2>1 DEF FlushedCache, FlushedNext, Cached, WasCached
  <1>3. QED
    BY <1>1, <1>2 DEF Traceable

\* A search fills the cache with what its rows' tokens hold.
LEMMA FillHeld ==
    ASSUME TypeOK, NEW c, NEW found \in SUBSET LiveRows, NEW f \in Filled(c, found),
           NEW t \in Tokens, NEW k \in Perms, Cached(f, t, k)
    PROVE  <<t, k>> \in Held \/ Cached(c, t, k)
  BY FilledFromFound, FoundHeld, RowAsked

LEMMA FlushAndFill ==
    ASSUME TypeOK, CacheFresh,
           NEW found \in SUBSET LiveRows,
           cacheNext' = FlushedNext,
           cache' \in Filled(FlushedCache, found) \cup {FlushedCache}
    PROVE  Traceable
  <1>1. ASSUME NEW t \in Tokens, NEW k \in Perms, Cached(cache', t, k)
        PROVE  <<t, k>> \in Held \/ \E s \in Found(t) : Cached(FlushedCache, s, k)
    <2>1. t \in Found(t)
      BY DEF Found
    <2>2. QED
      BY <1>1, <2>1, FillHeld
  <1>2. QED
    BY <1>1, FlushTraceable

\* update_last_activity_at caches under the token asked for what is cached for
\* the first row found.
LEMMA ActivityTraceable ==
    ASSUME TypeOK, CacheFresh, call.token \in Tokens,
           NEW after, NEW raised, UpdateLastActivityAt(after, raised)
    PROVE  Traceable
  <1> DEFINE found == {r \in LiveRows : Asks(call.token, r)}
  <1>1. cacheNext' = FlushedNext
    BY DEF UpdateLastActivityAt
  <1>2. CASE cache' = FlushedCache
    BY <1>1, <1>2, FlushAndFill
  <1>3. CASE \E filled \in Filled(FlushedCache, found), first \in found :
                cache' = [filled EXCEPT ![call.token] = filled[first.token]]
    <2>1. PICK filled \in Filled(FlushedCache, found), first \in found :
             cache' = [filled EXCEPT ![call.token] = filled[first.token]]
      BY <1>3
    <2>2. /\ filled \in [Tokens -> Entry]
          /\ first.token \in Found(call.token)
          /\ first.token \in Tokens
      BY <2>1, FilledType, RowAsked DEF Asks, Found
    <2>3. ASSUME NEW t \in Tokens, NEW k \in Perms, Cached(cache', t, k)
          PROVE  <<t, k>> \in Held \/ \E s \in Found(t) : Cached(FlushedCache, s, k)
      <3>1. PICK s \in Found(t) : Cached(filled, s, k)
        <4>1. t \in Found(t)
          BY DEF Found
        <4>2. QED
          BY <2>1, <2>2, <2>3, <4>1 DEF Cached
      <3>2. s \in Tokens
        BY DEF Found
      <3>3. <<s, k>> \in Held => <<t, k>> \in Held
        BY <3>2 DEF Held, Rights, Asks, Found
      <3>4. QED
        BY <2>1, <3>1, <3>2, <3>3, FillHeld
    <2>4. QED
      BY <1>1, <2>3, FlushTraceable
  <1>4. QED
    BY <1>2, <1>3 DEF UpdateLastActivityAt

LEMMA EveryStepTraceable ==
    ASSUME TypeOK, CacheFresh, Next
    PROVE  Traceable
  <1>0. ASSUME NEW t \in Tokens, NEW k \in Perms, Cached(cache, t, k)
        PROVE  WasCached(t, k)
    BY <1>0 DEF WasCached, Found
  <1>1. ASSUME UNCHANGED <<cache, cacheNext>>
        PROVE  Traceable
    BY <1>0, <1>1 DEF Traceable, CacheFresh
  <1>2. CASE Request
    <2>1. PICK t \in Tokens, k \in Perms : Check(t, k)
      BY <1>2 DEF Request
    <2>2. QED
      BY <2>1, FlushAndFill DEF Check
  <1>3. CASE CheckReturns \/ Finish
    <2>1. call.token \in Tokens
      BY <1>3, CallKinds DEF CheckReturns, Finish, InService
    <2>2. QED
      BY <1>3, <2>1, ActivityTraceable DEF CheckReturns, Finish
  <1>4. CASE Refuse
    BY <1>1, <1>4 DEF Refuse
  <1>5. ASSUME cacheNext' = cacheNext, NEW found \in SUBSET LiveRows,
               cache' \in Filled(cache, found)
        PROVE  Traceable
    BY <1>0, <1>5, FillHeld DEF Traceable, CacheFresh
  <1>6. CASE Handle
    <2>1. cacheNext' = cacheNext
      BY <1>6, HandlersHandle DEF Handler
    <2>2. CASE UNCHANGED cache
      BY <1>1, <2>1, <2>2
    <2>3. CASE \E t, u : cache' \in Filled(cache, {r \in LiveRows : Matches(r, t, u)})
      BY <1>5, <2>1, <2>3
    <2>4. QED
      BY <1>6, <2>2, <2>3 DEF Handle, HandleTokensCreate, HandleTokensDelete,
                              HandleTokensEdit, HandleTokensSearch, HandleOther
  <1>7. CASE StartLooks
    <2>1. cacheNext' <= now + TOKEN_CACHE_DELAY
      <3>1. now \in Nat /\ TOKEN_CACHE_DELAY \in Nat
        BY ConstantsAssumption DEF TypeOK
      <3>2. cacheNext' = now + TOKEN_CACHE_DELAY
        BY <1>7 DEF StartLooks
      <3>3. QED
        BY <3>1, <3>2
    <2>2. ASSUME NEW t \in Tokens, NEW k \in Perms, Cached(cache', t, k)
          PROVE  <<t, k>> \in Held
      <3>1. ~Cached([x \in Tokens |-> NoEntry], t, k)
        BY DEF Cached
      <3>2. QED
        BY <1>7, <2>2, <3>1, FillHeld DEF StartLooks, Admins
    <2>3. QED
      BY <2>1, <2>2 DEF Traceable
  <1>8. CASE Start
    <2>1. CASE StartLooksForFm
      BY <1>5, <2>1 DEF StartLooksForFm, StartStep, Fms
    <2>2. CASE StartCreatesFm \/ StartEnds \/ \E t \in Generated : StartCreatesAdmin(t)
      BY <1>1, <2>2 DEF StartCreatesFm, StartEnds, StartCreatesAdmin, StartStep
    <2>3. QED
      BY <1>7, <1>8, <2>1, <2>2 DEF Start
  <1>9. CASE Stop
    BY ConstantsAssumption, <1>9 DEF Stop, Traceable, Cached, TypeOK
  <1>10. CASE Cli \/ Tick
    BY <1>1, <1>10 DEF Cli, CliLooks, CliWrites, CliCreates, Tick
  <1>11. QED
    BY <1>2, <1>3, <1>4, <1>6, <1>8, <1>9, <1>10 DEF Next

LEMMA CacheFreshStep ==
    ASSUME TypeOK, TypeOK', PastOnly, EmptyHoldsAll, CacheFresh, Next
    PROVE  CacheFresh'
  <1> DEFINE D == TOKEN_CACHE_DELAY
             later == now'
             deadline == cacheNext'
  <1>1. Traceable
    BY EveryStepTraceable
  <1>2. Remember /\ now' \in Nat /\ now' >= now
    BY EveryStepRemembers
  <1>3. /\ D \in Nat /\ now \in Nat /\ cacheNext \in Nat
        /\ later \in Nat /\ later >= now
        /\ deadline \in Nat /\ deadline <= now + D
    BY <1>1, <1>2, ConstantsAssumption DEF TypeOK, Traceable
  <1> HIDE DEF D, later, deadline
  <1>4. deadline <= later + D
    BY <1>3
  <1>5. ASSUME NEW t \in Tokens, NEW k \in Perms, Cached(cache', t, k)
        PROVE  LastHeld(<<t, k>>)' >= deadline - D
    <2>1. <<t, k>> \in Rights
      BY DEF Rights
    <2>2. /\ LastHeld(<<t, k>>) \in Int
          /\ LastHeld(<<t, k>>)' \in Int
          /\ LastHeld(<<t, k>>)' >= LastHeld(<<t, k>>)
      BY <1>2, <2>1, LastHeldGrows
    <2>3. CASE <<t, k>> \in Held
      BY <1>3, <2>2, <2>3 DEF LastHeld
    <2>4. CASE WasCached(t, k) /\ deadline = cacheNext
      <3>1. PICK s \in Found(t) : Cached(cache, s, k)
        BY <2>4 DEF WasCached
      <3>2. <<s, k>> \in Rights
        BY DEF Found, Rights
      <3>3. LastHeld(<<s, k>>) \in Int /\ LastHeld(<<s, k>>) >= cacheNext - D
        BY <3>1, <3>2, LastHeldType DEF CacheFresh, D, Rights
      <3>4. LastHeld(<<s, k>>) <= LastHeld(<<t, k>>)
        BY EmptyHolds
      <3>5. QED
        BY <1>3, <2>2, <2>4, <3>3, <3>4
    <2>5. QED
      BY <1>1, <1>5, <2>3, <2>4 DEF Traceable, deadline
  <1>6. QED
    BY <1>4, <1>5 DEF CacheFresh, D, later, deadline

-----------------------------------------------------------------------------
(* Types. *)

LEMMA NewRowType ==
    ASSUME NEW t \in Tokens
    PROVE  {AdminRow(t), FmRow(t), HunterRow(t), HttpdRow(t)} \subseteq Row
  BY ConstantsAssumption DEF AdminRow, FmRow, HunterRow, HttpdRow, NewRow, Row, Expiries

LEMMA EditedType ==
    ASSUME NEW r \in Row, NEW e \in Edits
    PROVE  Edited(r, e) \in Row
  BY ConstantsAssumption DEF Edited, Row, Edit

LEMMA RowsType ==
    ASSUME TypeOK, Next
    PROVE  rows' \in SUBSET Row
  <1>1. CASE Request \/ CheckReturns \/ Refuse \/ Finish
    BY <1>1 DEF Request, Check, CheckReturns, Refuse, Finish, UpdateLastActivityAt,
                TypeOK
  <1>2. CASE \E row \in NewRows : HandleTokensCreate(row)
    BY <1>2, ConstantsAssumption DEF HandleTokensCreate, TypeOK
  <1>3. CASE \E t \in Tokens \ {Empty}, e \in Edits : HandleTokensEdit(t, e)
    <2>1. PICK t \in Tokens \ {Empty}, e \in Edits : HandleTokensEdit(t, e)
      BY <1>3
    <2>2. \A r \in rows : (IF r.token = t THEN Edited(r, e) ELSE r) \in Row
      BY EditedType DEF TypeOK
    <2>3. QED
      BY <2>1, <2>2 DEF HandleTokensEdit
  <1>4. CASE HandleOther \/ \E t \in Tokens, u \in Users \cup {NoUser} :
                HandleTokensDelete(t, u) \/ HandleTokensSearch(t, u)
    BY <1>4 DEF HandleOther, HandleTokensDelete, HandleTokensSearch, TypeOK
  <1>5. CASE Start
    <2>1. CASE StartLooks \/ StartLooksForFm
      BY <2>1 DEF StartLooks, StartLooksForFm, TypeOK
    <2>2. CASE \E t \in Generated : StartCreatesAdmin(t)
      BY <2>2, NewRowType DEF StartCreatesAdmin, Generated, TypeOK
    <2>3. CASE StartCreatesFm
      <3>1. call.token \in Tokens
        BY <2>3, CallKinds DEF StartCreatesFm, StartStep
      <3>2. QED
        BY <2>3, <3>1, NewRowType DEF StartCreatesFm, TypeOK
    <2>4. CASE StartEnds
      BY <2>4, NewRowType DEF StartEnds, Generated, TypeOK
    <2>5. QED
      BY <1>5, <2>1, <2>2, <2>3, <2>4 DEF Start
  <1>6. CASE Cli
    <2>1. CASE \E t \in Tokens : CliLooks(t)
      BY <2>1 DEF CliLooks, TypeOK
    <2>2. CASE \E t \in Tokens : CliCreates(t)
      BY <2>2, NewRowType DEF CliCreates, TypeOK
    <2>3. CASE \E p \in pending : CliWrites(p)
      BY <2>3 DEF CliWrites, TypeOK
    <2>4. QED
      BY <1>6, <2>1, <2>2, <2>3 DEF Cli
  <1>7. CASE Stop \/ Tick
    BY <1>7 DEF Stop, Tick, TypeOK
  <1>8. QED
    BY <1>1, <1>2, <1>3, <1>4, <1>5, <1>6, <1>7 DEF Next, Handle

LEMMA PendingType ==
    ASSUME TypeOK, Next
    PROVE  pending' \in SUBSET [row : Row, at : Nat]
  <1>0. pending \in SUBSET [row : Row, at : Nat] /\ now \in Nat
    BY DEF TypeOK
  <1>1. CASE Cli
    <2>1. CASE \E t \in Tokens : CliLooks(t)
      <3>1. PICK t \in Tokens : CliLooks(t)
        BY <2>1
      <3>2. PICK row \in {AdminRow(t), FmRow(t)} :
               pending' = pending \cup {[row |-> row, at |-> now]}
        BY <3>1 DEF CliLooks
      <3>3. row \in Row
        BY NewRowType
      <3>4. QED
        BY <1>0, <3>2, <3>3
    <2>2. CASE \E p \in pending : CliWrites(p)
      BY <1>0, <2>2 DEF CliWrites
    <2>3. CASE \E t \in Tokens : CliCreates(t)
      BY <1>0, <2>3 DEF CliCreates
    <2>4. QED
      BY <1>1, <2>1, <2>2, <2>3 DEF Cli
  <1>2. CASE UNCHANGED pending
    BY <1>2 DEF TypeOK
  <1>3. Handle => UNCHANGED pending
    BY HandlersHandle DEF Handler
  <1>4. QED
    BY <1>1, <1>2, <1>3
       DEF Next, Request, Check, CheckReturns, Refuse, Finish, UpdateLastActivityAt, Start,
           StartLooks, StartCreatesAdmin, StartLooksForFm, StartCreatesFm, StartEnds,
           StartStep, Stop, Tick

LEMMA CacheType ==
    ASSUME TypeOK, Next
    PROVE  cache' \in [Tokens -> Entry] /\ cacheNext' \in Nat
  <1>1. CASE Request
    BY <1>1, FlushedType, FilledType DEF Request, Check
  <1>2. CASE CheckReturns \/ Finish
    <2>1. PICK found \in SUBSET LiveRows :
             /\ cacheNext' = FlushedNext
             /\ \/ cache' = FlushedCache
                \/ \E filled \in Filled(FlushedCache, found), first \in found :
                      cache' = [filled EXCEPT ![call.token] = filled[first.token]]
      BY <1>2 DEF CheckReturns, Finish, UpdateLastActivityAt
    <2>2. QED
      BY <2>1, FlushedType, FilledType, RowAsked
  <1>3. CASE Refuse
    BY <1>3 DEF Refuse, TypeOK
  <1>4. CASE Handle
    <2>1. cacheNext' = cacheNext
      BY <1>4, HandlersHandle DEF Handler
    <2>2. cache' = cache \/ \E found : cache' \in Filled(cache, found)
      BY <1>4 DEF Handle, HandleTokensCreate, HandleTokensDelete,
                  HandleTokensEdit, HandleTokensSearch, HandleOther
    <2>3. QED
      BY <2>1, <2>2, FilledType DEF TypeOK
  <1>5. CASE Start
    <2>1. cache \in [Tokens -> Entry] /\ cacheNext \in Nat
          /\ now + TOKEN_CACHE_DELAY \in Nat
      BY ConstantsAssumption DEF TypeOK
    <2>2. CASE StartLooks
      BY <2>1, <2>2, FilledType DEF StartLooks
    <2>3. CASE StartLooksForFm
      BY <2>1, <2>3, FilledType DEF StartLooksForFm, StartStep
    <2>4. CASE StartCreatesFm \/ StartEnds \/ \E t \in Generated : StartCreatesAdmin(t)
      BY <2>1, <2>4 DEF StartCreatesFm, StartEnds, StartCreatesAdmin, StartStep
    <2>5. QED
      BY <1>5, <2>2, <2>3, <2>4 DEF Start
  <1>6. CASE Stop
    BY <1>6 DEF Stop, Entry
  <1>7. CASE Tick \/ Cli
    BY <1>7 DEF Tick, Cli, CliLooks, CliWrites, CliCreates, TypeOK
  <1>8. QED
    BY <1>1, <1>2, <1>3, <1>4, <1>5, <1>6, <1>7 DEF Next

\* A request is answered once, and its check is not forgotten while it is served.
LEMMA CallStep ==
    ASSUME TypeOK, Next
    PROVE  \/ call' \in {Down, Idle}
           \/ Start /\ call' \in InStart
           \/ call' = call
           \/ \E t \in Tokens, k \in Perms : Check(t, k) /\ call' \in InService
           \/ /\ call \in InService /\ call' \in InService
              /\ call.step \in {"checked", "granted"}
              /\ \E step \in {"granted", "applied"} : call' = At(step)
  <1>1. CASE Request
    <2>1. PICK t \in Tokens, k \in Perms : Check(t, k)
      BY <1>1 DEF Request
    <2>2. call' \in InService
      BY <2>1 DEF Check, InService, TypeOK
    <2>3. QED
      BY <2>1, <2>2
  <1>2. ASSUME call.step \in {"checked", "granted"},
               NEW step \in {"granted", "applied"}, call' = At(step)
        PROVE  call \in InService /\ call' \in InService
    <2>1. call \in InService
      BY <1>2, CallKinds
    <2>2. QED
      BY <1>2, <2>1 DEF At, InService
  <1>3. CASE CheckReturns
    BY <1>2, <1>3 DEF CheckReturns, UpdateLastActivityAt
  <1>4. CASE Refuse \/ Finish
    BY <1>4 DEF Refuse, Finish, UpdateLastActivityAt
  <1>5. CASE Handle
    BY <1>2, <1>5, HandlersHandle DEF Handler
  <1>6. CASE Start
    <2>1. \A t \in Tokens : /\ Starting("look for fm", t) \in InStart
                            /\ Starting("create fm", t) \in InStart
      BY DEF Starting, InStart
    <2>2. /\ Starting("hunter", NoToken) \in InStart
          /\ Starting("create admin", NoToken) \in InStart
      BY DEF Starting, InStart, TypeOK
    <2>3. StartLooksForFm => call.token \in Tokens
      BY CallKinds DEF StartLooksForFm, StartStep
    <2>4. QED
      BY <1>6, <2>1, <2>2, <2>3
         DEF Start, StartLooks, StartCreatesAdmin, StartLooksForFm, StartCreatesFm,
             StartEnds, Generated
  <1>7. CASE Stop \/ Cli \/ Tick
    BY <1>7 DEF Stop, Cli, CliLooks, CliWrites, CliCreates, Tick
  <1>8. QED
    BY <1>1, <1>3, <1>4, <1>5, <1>6, <1>7 DEF Next

LEMMA TypeStep ==
    ASSUME TypeOK, Next
    PROVE  TypeOK'
  <1>1. lastHeld' \in [Rights -> Int]
    BY EveryStepRemembers, LastHeldType DEF Remember
  <1>2. call' \in {Down, Idle} \cup InStart \cup InService
    BY CallStep DEF TypeOK
  <1>3. lastNone' \in Nat
    BY EveryStepRemembers DEF Remember, LastNone, TypeOK
  <1>4. QED
    BY <1>1, <1>2, <1>3, RowsType, CacheType, PendingType, EveryStepRemembers DEF TypeOK

LEMMA PastOnlyStep ==
    ASSUME TypeOK, PastOnly, Next
    PROVE  PastOnly'
  <1>1. Remember /\ now' \in Nat /\ now' >= now
    BY EveryStepRemembers
  <1>2. ASSUME NEW r \in Rights
        PROVE  lastHeld'[r] <= now'
    BY <1>1, <1>2 DEF Remember, LastHeld, PastOnly, TypeOK
  <1>3. lastNone' <= now'
    BY <1>1 DEF Remember, LastNone, PastOnly, TypeOK
  <1>4. QED
    BY <1>2, <1>3 DEF PastOnly

LEMMA EmptyHoldsAllStep ==
    ASSUME TypeOK, PastOnly, EmptyHoldsAll, Next
    PROVE  EmptyHoldsAll'
  <1>1. ASSUME NEW t \in Tokens, NEW k \in Perms
        PROVE  lastHeld'[<<t, k>>] <= lastHeld'[<<Empty, k>>]
    <2>1. t \in Found(Empty) /\ Empty \in Tokens
      BY ConstantsAssumption DEF Found
    <2>2. LastHeld(<<t, k>>) <= LastHeld(<<Empty, k>>)
      BY <2>1, EmptyHolds
    <2>3. QED
      BY <2>1, <2>2, EveryStepRemembers DEF Remember, Rights
  <1>2. QED
    BY <1>1 DEF EmptyHoldsAll

-----------------------------------------------------------------------------
(* Admin rows. *)

LEMMA BootstrapRights ==
    ASSUME NEW t
    PROVE  /\ "admin" \notin FmRow(t).perms
           /\ "admin" \notin HunterRow(t).perms
           /\ "admin" \notin HttpdRow(t).perms
  BY DEF FmRow, HunterRow, HttpdRow, NewRow

\* A maker goes on to write an admin row only if it saw none, and what it saw
\* stays on record.
LEMMA LooksAreTrueStep ==
    ASSUME TypeOK, TypeOK', PastOnly, LooksAreTrue, Next
    PROVE  LooksAreTrue'
  <1>1. /\ lastNone' = LastNone /\ LastNone \in Nat
        /\ LastNone' \in Nat /\ LastNone' >= LastNone
        /\ now \in Nat /\ now' \in Nat /\ now' >= now
    <2>1. lastNone' = LastNone /\ now' \in Nat /\ now' >= now
      BY EveryStepRemembers DEF Remember
    <2>2. LastNone \in Nat /\ LastNone <= now /\ now \in Nat
      BY DEF LastNone, PastOnly, TypeOK
    <2>3. LastNone' = IF MayMiss(Admins)' THEN now' ELSE lastNone'
      BY DEF LastNone
    <2>4. QED
      BY <2>1, <2>2, <2>3
  <1>2. ASSUME call'.step = "create admin"
        PROVE  call'.at <= now' /\ LastNone' >= call'.at
    <2>1. CASE call' = call
      <3>1. call.at \in Nat /\ call.at <= now /\ LastNone >= call.at
        BY <1>2, <2>1, CallKinds DEF LooksAreTrue
      <3>2. QED
        BY <1>1, <2>1, <3>1
    <2>2. CASE StartLooks
      <3>0. Starting("hunter", NoToken).step = "hunter"
        BY StartingStep
      <3>1. call' = Starting("create admin", NoToken) /\ MayMiss(Admins) /\ now' = now
        BY <1>2, <2>2, <3>0 DEF StartLooks
      <3>2. call'.at = now
        BY <3>1, StartingStep
      <3>3. QED
        BY <1>1, <3>1, <3>2 DEF LastNone
    <2>3. CASE Start
      <3>1. CASE StartCreatesFm \/ StartEnds \/ StartLooksForFm
                 \/ \E t \in Generated : StartCreatesAdmin(t)
        <4>1. /\ \A t : Starting("look for fm", t).step = "look for fm"
              /\ \A t : Starting("create fm", t).step = "create fm"
              /\ Starting("hunter", NoToken).step = "hunter"
              /\ Idle.step = "idle"
          BY StartingStep DEF Idle
        <4>2. QED
          BY <1>2, <3>1, <4>1
             DEF StartCreatesAdmin, StartLooksForFm, StartCreatesFm, StartEnds
      <3>2. QED
        BY <2>2, <2>3, <3>1 DEF Start
    <2>4. CASE ~Start
      <3>1. CASE call' \in {Down, Idle} \cup InService
        BY <1>2, <3>1, CallSteps
      <3>2. QED
        BY <2>1, <2>4, <3>1, CallStep
    <2>5. QED
      BY <2>3, <2>4
  <1>3. ASSUME NEW p \in pending', "admin" \in p.row.perms
        PROVE  p.at <= now' /\ LastNone' >= p.at
    <2>1. CASE p \in pending
      <3>1. p.at \in Nat /\ p.at <= now /\ LastNone >= p.at
        BY <1>3, <2>1 DEF LooksAreTrue, TypeOK
      <3>2. QED
        BY <1>1, <3>1
    <2>2. CASE \E t \in Tokens : CliLooks(t) /\ p \notin pending
      <3>1. PICK t \in Tokens : CliLooks(t)
        BY <2>2
      <3>2. PICK row \in (IF MayMiss(Admins) THEN {AdminRow(t)} ELSE {})
                      \cup (IF MayMiss(Fms) THEN {FmRow(t)} ELSE {}) :
               p = [row |-> row, at |-> now]
        BY <1>3, <2>2, <3>1 DEF CliLooks
      <3>3. p.row = row /\ p.at = now /\ MayMiss(Admins)
        BY <1>3, <3>2, BootstrapRights
      <3>4. QED
        BY <1>1, <3>3 DEF LastNone
    <2>3. (\E t \in Tokens : CliLooks(t)) \/ pending' \subseteq pending
      <3>1. Handle => UNCHANGED pending
        BY HandlersHandle DEF Handler
      <3>2. QED
        BY <3>1
           DEF Next, Request, Check, CheckReturns, Refuse, Finish, UpdateLastActivityAt,
               Start, StartLooks, StartCreatesAdmin, StartLooksForFm, StartCreatesFm,
               StartEnds, StartStep, Stop, Cli, CliWrites, CliCreates, Tick
    <2>4. QED
      BY <1>3, <2>1, <2>2, <2>3
  <1>4. QED
    BY <1>2, <1>3 DEF LooksAreTrue

-----------------------------------------------------------------------------
(* Grants. *)

\* A check grants what was held within the delay and refuses what is not held.
LEMMA CheckKeepsPromise ==
    ASSUME TypeOK, PastOnly, CacheFresh,
           NEW t \in Tokens, NEW k \in Perms, Check(t, k)
    PROVE  /\ call'.token = t /\ call'.perm = k /\ call'.at = now
           /\ call'.step \in {"refused", "checked", "granted"}
           /\ call'.step # "refused" =>
                 LastHeld(<<t, k>>) >= now - TOKEN_CACHE_DELAY
           /\ call'.step = "refused" => <<t, k>> \notin Held
  <1> DEFINE found == {r \in LiveRows : Asks(t, r) /\ k \in r.perms}
  <1>1. LastHeld(<<t, k>>) \in Int /\ now \in Nat /\ TOKEN_CACHE_DELAY \in Nat
        /\ cacheNext \in Nat
    BY LastHeldType, ConstantsAssumption DEF Rights, TypeOK
  <1>2. CASE /\ Cached(FlushedCache, t, k)
             /\ call' = [step |-> "granted", token |-> t, perm |-> k, at |-> now]
    <2>1. Cached(cache, t, k) /\ ~(now > cacheNext)
      BY <1>2 DEF FlushedCache, MustFlush, Cached
    <2>2. LastHeld(<<t, k>>) >= cacheNext - TOKEN_CACHE_DELAY
      BY <2>1 DEF CacheFresh
    <2>3. QED
      BY <1>1, <1>2, <2>1, <2>2
  <1>3. CASE call' = [step |-> IF found = {} THEN "refused" ELSE "checked",
                      token |-> t, perm |-> k, at |-> now]
    <2>1. CASE found = {}
      <3>1. <<t, k>> \notin Held
        BY <2>1 DEF Held, LiveRows
      <3>2. QED
        BY <1>3, <2>1, <3>1
    <2>2. CASE found # {}
      <3>1. <<t, k>> \in Held
        BY <2>2, FoundHeld
      <3>2. LastHeld(<<t, k>>) = now
        BY <3>1 DEF LastHeld
      <3>3. QED
        BY <1>1, <1>3, <2>2, <3>2
    <2>3. QED
      BY <2>1, <2>2
  <1>4. QED
    BY <1>2, <1>3 DEF Check

LEMMA GrantStep ==
    ASSUME TypeOK, TypeOK', PastOnly, CacheFresh, GrantIsRecent, Next
    PROVE  GrantIsRecent'
  <1>1. SUFFICES ASSUME call' \in InService, call'.step # "refused"
                 PROVE  LastHeld(<<call.token, call.perm>>)' >= call'.at - TOKEN_CACHE_DELAY
    BY DEF GrantIsRecent
  <1>2. PICK r \in Rights, at \in Nat :
           r = <<call'.token, call'.perm>> /\ at = call'.at
    BY <1>1 DEF InService, Rights
  <1>3. LastHeld(r) >= at - TOKEN_CACHE_DELAY
    <2>1. CASE \E t \in Tokens, k \in Perms : Check(t, k)
      BY <1>1, <1>2, <2>1, CheckKeepsPromise
    <2>2. CASE call' = call
      BY <1>1, <1>2, <2>2 DEF GrantIsRecent
    <2>3. CASE /\ call \in InService /\ call.step \in {"checked", "granted"}
               /\ \E step \in {"granted", "applied"} : call' = At(step)
      <3>1. call'.token = call.token /\ call'.perm = call.perm /\ call'.at = call.at
        BY <2>3 DEF At, InService
      <3>2. LastHeld(<<call.token, call.perm>>) >= call.at - TOKEN_CACHE_DELAY
        BY <2>3 DEF GrantIsRecent
      <3>3. QED
        BY <1>2, <3>1, <3>2
    <2>4. call' \notin {Down, Idle} \cup InStart
      <3>1. call'.step \in {"refused", "checked", "granted", "applied"}
        BY <1>1, CallSteps
      <3>2. QED
        BY <3>1, CallSteps
    <2>5. QED
      BY <2>1, <2>2, <2>3, <2>4, CallStep
  <1>4. /\ LastHeld(r) \in Int
        /\ LastHeld(r)' \in Int
        /\ LastHeld(r)' >= LastHeld(r)
    BY LastHeldGrows, EveryStepRemembers
  <1>5. LastHeld(r)' >= at - TOKEN_CACHE_DELAY
    BY <1>3, <1>4, ConstantsAssumption
  <1>6. LastHeld(<<call.token, call.perm>>)' = LastHeld(r)'
    BY <1>2 DEF LastHeld
  <1>7. QED
    BY <1>2, <1>5, <1>6

-----------------------------------------------------------------------------
(* The theorems. *)

LEMMA InitIInv == Init => IInv
  <1> SUFFICES ASSUME Init PROVE IInv
    OBVIOUS
  <1>1. TypeOK
    BY ConstantsAssumption DEF Init, TypeOK, Entry
  <1>2. PastOnly /\ CacheFresh /\ EmptyHoldsAll
    BY ConstantsAssumption
       DEF Init, PastOnly, CacheFresh, Cached, EmptyHoldsAll, Rights
  <1>3. GrantIsRecent /\ LooksAreTrue
    BY DEF Init, GrantIsRecent, LooksAreTrue, Down, InService
  <1>4. QED
    BY <1>1, <1>2, <1>3 DEF IInv

LEMMA StutterIInv == IInv /\ UNCHANGED vars => IInv'
  <1> SUFFICES ASSUME IInv, UNCHANGED vars PROVE IInv'
    OBVIOUS
  <1>1. Held' = Held /\ MayMiss(Admins)' = MayMiss(Admins)
    BY DEF Held, MayMiss, Admins, LiveRows, Live, vars
  <1>2. LastNone' = LastNone /\ \A r : LastHeld(r)' = LastHeld(r)
    BY <1>1 DEF LastNone, LastHeld, vars
  <1>3. TypeOK' /\ PastOnly' /\ EmptyHoldsAll'
    BY DEF IInv, TypeOK, PastOnly, EmptyHoldsAll, vars
  <1>4. LooksAreTrue'
    BY <1>2 DEF IInv, LooksAreTrue, vars
  <1>5. CacheFresh'
    BY <1>2 DEF IInv, CacheFresh, Cached, vars
  <1>6. GrantIsRecent'
    BY <1>2 DEF IInv, GrantIsRecent, vars
  <1>7. QED
    BY <1>3, <1>4, <1>5, <1>6 DEF IInv

\* The invariant of the token manager, of which type correctness, the freshness
\* of the cache and the recency of grants are parts.
THEOREM Invariance == Spec => []IInv
  <1>1. IInv /\ [Next]_vars => IInv'
    <2>1. ASSUME IInv, Next PROVE IInv'
      BY <2>1, TypeStep, PastOnlyStep, EmptyHoldsAllStep, LooksAreTrueStep, CacheFreshStep,
         GrantStep DEF IInv, PastOnly
    <2>2. QED
      BY <2>1, StutterIInv
  <1>2. QED
    BY <1>1, InitIInv, PTL DEF Spec

\* Every variable stays in its range.
THEOREM TypeCorrect == Spec => []TypeOK
  <1>1. IInv => TypeOK
    BY DEF IInv
  <1>2. QED
    BY <1>1, Invariance, PTL

\* A right in a cached row was held no earlier than the last flush.
THEOREM CacheStaysFresh == Spec => []CacheFresh
  <1>1. IInv => CacheFresh
    BY DEF IInv
  <1>2. QED
    BY <1>1, Invariance, PTL

\* A request that got past its check holds a right that its token held within
\* TOKEN_CACHE_DELAY seconds of the check.
THEOREM GrantsAreRecent == Spec => []GrantIsRecent
  <1>1. IInv => GrantIsRecent
    BY DEF IInv
  <1>2. QED
    BY <1>1, Invariance, PTL

\* Only requests of recent admins change the table, apart from the bootstrap
\* rows, which include an admin row only when its maker saw none.
THEOREM OnlyAdmins == Spec => AdminOnly
  <1> DEFINE MadeFor(r) == \E at \in 0 .. now : MakerLookedAt(r, at) /\ LastNone >= at
             A == rows' # rows =>
        \/ /\ call.perm = "admin"
           /\ LastHeld(<<call.token, "admin">>) >= call.at - TOKEN_CACHE_DELAY
        \/ /\ rows \subseteq rows'
           /\ \A r \in rows' \ rows : "admin" \in r.perms => MadeFor(r)
  <1>1. IInv /\ Next => A
    <2> SUFFICES ASSUME IInv, Next PROVE A
      OBVIOUS
    <2>1. CASE UNCHANGED rows
      BY <2>1
    <2>2. CASE Handler("admin")
      <3>1. call.step = "granted" /\ call.perm = "admin"
        BY <2>2 DEF Handler
      <3>2. call \in InService
        BY <3>1, CallKinds DEF IInv
      <3>3. QED
        BY <3>1, <3>2 DEF IInv, GrantIsRecent
    <2>3. CASE Start
      <3>1. ASSUME NEW t \in Generated, StartCreatesAdmin(t)
            PROVE  A
        <4>1. call.step = "create admin" /\ call.at \in 0 .. now /\ LastNone >= call.at
          <5>1. call.step = "create admin"
            BY <3>1 DEF StartCreatesAdmin, StartStep
          <5>2. call.at \in Nat
            BY <5>1, CallKinds DEF IInv
          <5>3. call.at <= now /\ LastNone >= call.at
            BY <5>1 DEF IInv, LooksAreTrue
          <5>4. now \in Nat
            BY DEF IInv, TypeOK
          <5>5. call.at \in 0 .. now
            BY <5>2, <5>3, <5>4
          <5>6. QED
            BY <5>1, <5>3, <5>5
        <4>2. \A r : MadeFor(r)
          BY <4>1 DEF MakerLookedAt
        <4>3. QED
          BY <3>1, <4>2 DEF StartCreatesAdmin
      <3>2. CASE StartCreatesFm \/ StartEnds
        BY <3>2, BootstrapRights DEF StartCreatesFm, StartEnds
      <3>3. CASE StartLooks \/ StartLooksForFm
        BY <2>1, <3>3 DEF StartLooks, StartLooksForFm
      <3>4. QED
        BY <2>3, <3>1, <3>2, <3>3 DEF Start
    <2>4. CASE Cli
      <3>1. ASSUME NEW p \in pending, CliWrites(p)
            PROVE  A
        <4>1. rows' = rows \cup {p.row}
          BY <3>1 DEF CliWrites
        <4>2. CASE "admin" \in p.row.perms
          <5>1. p.at \in Nat /\ now \in Nat /\ p.at <= now /\ LastNone >= p.at
            BY <4>2 DEF IInv, TypeOK, LooksAreTrue
          <5>2. p.at \in 0 .. now
            BY <5>1
          <5>3. MadeFor(p.row)
            BY <5>1, <5>2 DEF MakerLookedAt
          <5>4. QED
            BY <4>1, <5>3
        <4>3. QED
          BY <4>1, <4>2
      <3>2. CASE \E t \in Tokens : CliCreates(t)
        BY <3>2, BootstrapRights DEF CliCreates
      <3>3. QED
        BY <2>1, <2>4, <3>1, <3>2 DEF Cli, CliLooks
    <2>5. QED
      BY <2>1, <2>2, <2>3, <2>4
         DEF Next, Request, Check, CheckReturns, Refuse, Finish, UpdateLastActivityAt,
             Handle, HandleTokensCreate, HandleTokensDelete, HandleTokensEdit,
             HandleTokensSearch, HandleOther, Stop, Tick
  <1>2. IInv /\ [Next]_vars => [A]_vars
    BY <1>1
  <1> HIDE DEF A
  <1>3. Spec => [][A]_vars
    BY <1>2, Invariance, PTL DEF Spec
  <1>4. QED
    BY <1>3 DEF A, AdminOnly

-----------------------------------------------------------------------------
(* The token manager implements TokenAuth. *)

LEMMA HeldIsRights == Held \in SUBSET Rights
  BY DEF Held

LEMMA AuthRemembers ==
    ASSUME Remember
    PROVE  Auth!Remember
  BY DEF Remember, LastHeld, Rights, Auth!Remember, Auth!LastHeld, Auth!Rights

LEMMA CheckDecides ==
    ASSUME IInv, NEW t \in Tokens, NEW k \in Perms, Check(t, k)
    PROVE  \E r \in Auth!Rights, answer \in {"grant", "refuse"} : Auth!Decide(r, answer)
  <1> DEFINE answer == IF call'.step = "refused" THEN "refuse" ELSE "grant"
  <1>1. /\ call'.token = t /\ call'.perm = k
        /\ call'.step \in {"refused", "checked", "granted"}
        /\ call'.step # "refused" => LastHeld(<<t, k>>) >= now - TOKEN_CACHE_DELAY
        /\ call'.step = "refused" => <<t, k>> \notin Held
    BY CheckKeepsPromise DEF IInv
  <1>2. LastHeld(<<t, k>>) \in Int /\ now \in Nat /\ TOKEN_CACHE_DELAY \in Nat
    BY LastHeldType, ConstantsAssumption DEF IInv, Rights, TypeOK
  <1>3. Decision = NoDecision
    BY DEF Check, Idle, InService, Decision
  <1>4. Decision' = [right |-> <<t, k>>, answer |-> answer]
    <2>1. call' \in InService
      BY DEF Check, InService, IInv, TypeOK
    <2>2. QED
      BY <1>1, <2>1 DEF Decision
  <1>5. Auth!Remember /\ now' = now /\ Held' = Held
    BY AuthRemembers DEF Check, Held, Live
  <1>6. CASE call'.step = "refused"
    <2>1. Auth!Decide(<<t, k>>, "refuse")
      BY <1>1, <1>3, <1>4, <1>5, <1>6 DEF Auth!Decide, Auth!MayRefuse
    <2>2. QED
      BY <2>1 DEF Auth!Rights
  <1>7. CASE call'.step # "refused"
    <2>1. LastHeld(<<t, k>>) = Auth!LastHeld(<<t, k>>)
      BY DEF LastHeld, Auth!LastHeld
    <2>2. now - LastHeld(<<t, k>>) <= TOKEN_CACHE_DELAY
      BY <1>1, <1>2, <1>7
    <2>3. Auth!Decide(<<t, k>>, "grant")
      BY <1>3, <1>4, <1>5, <1>7, <2>1, <2>2 DEF Auth!Decide, Auth!MayGrant
    <2>4. QED
      BY <2>3 DEF Auth!Rights
  <1>8. QED
    BY <1>6, <1>7

LEMMA OtherStepsAdvance ==
    ASSUME IInv, Next,
           \/ call' \in {Down, Idle} \cup InStart
           \/ call' = call
           \/ /\ call \in InService /\ call' \in InService
              /\ call.step \in {"checked", "granted"}
              /\ \E step \in {"granted", "applied"} : call' = At(step)
    PROVE  Auth!Advance
  <1>1. Auth!Remember /\ now' \in {n \in Int : n >= now}
    BY AuthRemembers, EveryStepRemembers DEF IInv
  <1>2. Held' \in SUBSET Auth!Rights
    BY DEF Held, Rights, Auth!Rights
  <1>3. Decision' \in {Decision, NoDecision}
    <2>1. CASE call' \in {Down, Idle} \cup InStart
      <3>1. call' \notin InService
        <4>1. call'.step \notin {"refused", "checked", "granted", "applied"}
          BY <2>1, CallSteps
        <4>2. QED
          BY <4>1, CallSteps
      <3>2. QED
        BY <3>1 DEF Decision
    <2>2. CASE call' = call
      BY <2>2 DEF Decision
    <2>3. CASE /\ call \in InService /\ call' \in InService
               /\ call.step \in {"checked", "granted"}
               /\ \E step \in {"granted", "applied"} : call' = At(step)
      BY <2>3 DEF Decision, At, InService
    <2>4. QED
      BY <2>1, <2>2, <2>3
  <1>4. QED
    BY <1>1, <1>2, <1>3 DEF Auth!Advance

\* What the checks answer is what TokenAuth promises: the store may be written
\* against the promise instead of against the cache.
THEOREM Refinement == Spec => AuthSpec
  <1>1. Init => Auth!Init
    BY HeldIsRights DEF Init, Auth!Init, Auth!Rights, Auth!Never, Rights, Decision, Down, InService
  <1>2. IInv /\ [Next]_vars => [Auth!Next]_(Auth!vars)
    <2>1. ASSUME IInv, Next
          PROVE  Auth!Next
      <3>1. CASE \E t \in Tokens, k \in Perms : Check(t, k)
        BY <2>1, <3>1, CheckDecides DEF Auth!Next
      <3>2. QED
        BY <2>1, <3>1, CallStep, OtherStepsAdvance DEF IInv, Auth!Next
    <2>2. UNCHANGED vars => UNCHANGED Auth!vars
      BY DEF vars, Auth!vars, Held, Live, Decision, InService
    <2>3. QED
      BY <2>1, <2>2
  <1>3. QED
    BY <1>1, <1>2, Invariance, PTL DEF Spec, AuthSpec, Auth!Spec

=============================================================================
